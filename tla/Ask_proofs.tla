----------------------------- MODULE Ask_proofs -----------------------------
(***************************************************************************)
(* What holds of one question.  First the request, for every choice of its *)
(* budgets: types, the deadline of the answer, what it says, the promise   *)
(* of AskPromise, and which timeout can never be reported.  Then what the  *)
(* answer rests on, for all candidate lists, contents of chunks and        *)
(* settings: fusion and quotas, the evidence gate, the citation check.     *)
(***************************************************************************)
EXTENDS AskRequest, NaiveRag,
        FiniteSetTheorems, FunctionTheorems, SequenceTheorems, WellFoundedInduction, TLAPS

\* The budgets are positive numbers, one by one.
LEMMA BudgetsAreNats ==
    /\ AskBudget \in Nat /\ RetrievalBudget \in Nat /\ LoadBudget \in Nat
    /\ EmbedBudget \in Nat /\ QdrantBudget \in Nat /\ FallbackBudget \in Nat
    /\ LlmBudget \in Nat
    /\ RetrievalBudget > 0
  BY BudgetsAssumption DEF Budgets

\* An error response is a response.
LEMMA FailType ==
    ASSUME NEW w \in Warnings, Fail(w)
    PROVE  at' \in Locations /\ result' \in Responses
  BY DEF Fail, Responses, Locations, Decisions

\* A concluded result is a response.
LEMMA ConcludeType ==
    ASSUME NEW d \in Decisions, Conclude(d), issue \in DenseFailures \cup {"none"},
           loadedBefore \in BOOLEAN
    PROVE  at' \in Locations /\ result' \in Responses
<1>1. RetrievalWarnings \subseteq Warnings
  BY DEF RetrievalWarnings, Warnings
<1> QED
  BY <1>1 DEF Conclude, Responses, Locations, Decisions

\* A failure of dense retrieval leaves well-typed state, whether the fallback is
\* enabled or not.
LEMMA DenseFailsType ==
    ASSUME NEW f \in DenseFailures, TypeOK, DenseFails(f)
    PROVE  /\ at' \in Locations /\ result' \in Responses
           /\ issue' \in DenseFailures \cup {"none"} /\ stage' \in Nat
           /\ UNCHANGED <<clock, route, verdict, cited>>
<1>1. f \in Warnings
  BY DEF Warnings
<1>2. UNCHANGED <<clock, route, verdict, cited>>
  BY DEF DenseFails, legal
<1>3. CASE FallbackEnabled
  BY <1>2, <1>3, BudgetsAreNats DEF DenseFails, TypeOK, Locations
<1>4. CASE ~FallbackEnabled
  <2>1. Fail(f) /\ UNCHANGED <<issue, stage>>
    BY <1>4 DEF DenseFails
  <2> QED
    BY <1>1, <1>2, <2>1, FailType DEF TypeOK
<1> QED
  BY <1>3, <1>4

\* The deadline of the retrieval stays one, or is lost.
LEMMA WaitEndsType == ASSUME outer \in Nat, WaitEnds PROVE outer' \in Nat
  BY DEF WaitEnds

\* A retry or its failure.
LEMMA RetryOrType ==
    ASSUME NEW f \in DenseFailures, TypeOK, RetryOr(f)
    PROVE  /\ at' \in Locations /\ result' \in Responses
           /\ issue' \in DenseFailures \cup {"none"} /\ stage' \in Nat
           /\ UNCHANGED <<clock, route, verdict, cited>>
<1>1. CASE MayRetry
  BY <1>1 DEF RetryOr, TypeOK, timing, legal, Locations, Awaiting
<1>2. CASE ~MayRetry
  BY <1>2, DenseFailsType DEF RetryOr
<1> QED
  BY <1>1, <1>2

--------------------------------------------------------------------------------
(* The inductive invariant: the types need Attempts, the answers need       *)
(* Concluded and Grounded, the unreachable timeout needs LoadRace.          *)

\* A query is only retried while attempts are left.
Attempts ==
    /\ at \in {"context", "dense", "loading", "embedding"} => attempt = 0
    /\ at \in {"recreating", "backoff"} => attempt < MaxAttempts

\* The worker has a result exactly from the end of its coroutine on.
Concluded == at \in {"joining", "done"} => result.decision \in Decisions

\* The verdict and the citation check are made once, and a result rests on them.
Grounded ==
    /\ at \notin {"llm", "joining", "done"} => verdict = "unknown"
    /\ at = "llm" => verdict \in {"safe", "caution"}
    /\ at \notin {"joining", "done"} => cited = FALSE /\ result.decision = "none"
    /\ Promise!Supported(result.decision) \/ result.decision = "none"

QdrantFailures == {"qdrant_retrieval_error", "qdrant_retrieval_timeout"}
ThreadTimeouts == {"embedding_model_load_timeout", "query_embedding_timeout"}

\* Whatever blames Qdrant comes after a query: the wait for it, the failure the
\* fallback stands in for, the result.
Blame ==
    /\ at \in {"query", "recreating", "backoff"} => attempt > 0
    /\ issue \in QdrantFailures => attempt > 0
    /\ QdrantIsBlamedRightly

\* The threads are joined before the route can pass on what the worker says of them.
Joined ==
    /\ at = "done" => threads = {}
    /\ route.warnings \cap ThreadTimeouts # {} => at = "done"

\* While the model loads, the load deadline lies behind the retrieval deadline,
\* and the clock has passed the latter only if it did so before the load began.
LoadRace ==
    /\ at = "dense" => outer # 0 /\ outer <= clock + RetrievalBudget
    /\ at = "loading" =>
          /\ outer # 0 /\ stage > outer
          /\ clock <= outer \/ clock + LoadBudget = stage

\* The types are inductive: one step of the proof per action.
LEMMA TypeInductive == TypeOK /\ Attempts /\ [Next]_vars => TypeOK'
<1> SUFFICES ASSUME TypeOK, Attempts, [Next]_vars PROVE TypeOK'
  OBVIOUS
<1> USE BudgetsAreNats, AttemptsAssumption DEF TypeOK, timing, dense, legal
<1>0. {"internal_error", "retrieval_timeout", "llm_generation_provider_call"} \subseteq Warnings
  BY DEF Warnings
<1>1. CASE PrepareContext
  BY <1>1 DEF PrepareContext, Locations
<1>2. CASE ContextFails
  BY <1>0, <1>2, FailType DEF ContextFails
<1>3. CASE EnsureLoaded
  <2>1. clock + EmbedBudget \in Nat /\ clock + LoadBudget \in Nat
    OBVIOUS
  <2>2. at' \in Locations /\ stage' \in Nat /\ threads' \subseteq {"load", "embed"}
    BY <1>3, <2>1 DEF EnsureLoaded, Locations, Awaiting
  <2> QED
    BY <1>3, <2>2 DEF EnsureLoaded
<1>4. CASE BackoffEnds
  BY <1>4 DEF BackoffEnds, StartQuery, Attempts, Locations, Awaiting
<1>5. CASE SparseReturns
  BY <1>5 DEF SparseReturns, Locations
<1>6. CASE FallbackReturns
  BY <1>6 DEF FallbackReturns, Locations
<1>7. CASE SparseRaises
  BY <1>0, <1>7, FailType DEF SparseRaises
<1>8. CASE Select
  <2>1. CASE verdict' = "refused"
    BY <1>8, <2>1, ConcludeType DEF Select, Decisions
  <2>2. CASE verdict' # "refused"
    BY <1>8, <2>2 DEF Select, Locations
  <2> QED
    BY <2>1, <2>2
<1>9. CASE SelectRaises
  BY <1>0, <1>9, FailType DEF SelectRaises
<1>10. CASE Join
  BY <1>10 DEF Join, Locations
<1>11. CASE LoadReturns
  <2>0. outer' \in Nat
    BY <1>11, WaitEndsType DEF LoadReturns
  <2> QED
    BY <2>0, <1>11 DEF LoadReturns, Locations, Awaiting
<1>12. CASE LoadRaises
  <2>0. outer' \in Nat
    BY <1>12, WaitEndsType DEF LoadRaises
  <2>1. DenseFails("embedding_model_load_error")
    BY <1>12 DEF LoadRaises
  <2> QED
    BY <2>0, <1>12, <2>1, DenseFailsType DEF LoadRaises, DenseFailures
<1>13. CASE EmbedReturns
  <2>0. outer' \in Nat
    BY <1>13, WaitEndsType DEF EmbedReturns
  <2>1. CASE StartQuery /\ UNCHANGED <<clock, route, issue, legal, result>>
    BY <2>0, <1>13, <2>1 DEF EmbedReturns, StartQuery, Attempts, Locations, Awaiting
  <2>2. CASE DenseFails("dense_retriever_error") /\ UNCHANGED attempt
    BY <2>0, <1>13, <2>2, DenseFailsType DEF EmbedReturns, DenseFailures
  <2> QED
    BY <2>0, <1>13, <2>1, <2>2 DEF EmbedReturns
<1>14. CASE EmbedRaises
  <2>0. outer' \in Nat
    BY <1>14, WaitEndsType DEF EmbedRaises
  <2> QED
    BY <2>0, <1>14, DenseFailsType DEF EmbedRaises, DenseFailures
<1>15. CASE \E t \in threads : ThreadEnds(t)
  BY <1>15 DEF ThreadEnds
<1>16. CASE QueryReturns
  <2>0. outer' \in Nat
    BY <1>16, WaitEndsType DEF QueryReturns
  <2>1. CASE at' = "sparse" /\ UNCHANGED <<clock, route, stage, issue, legal, result>>
    BY <2>0, <1>16, <2>1 DEF QueryReturns, Locations
  <2>2. CASE DenseFails("qdrant_retrieval_error")
    BY <2>0, <1>16, <2>2, DenseFailsType DEF QueryReturns, DenseFailures
  <2> QED
    BY <2>0, <1>16, <2>1, <2>2 DEF QueryReturns
<1>17. CASE QueryRaises
  <2>0. outer' \in Nat
    BY <1>17, WaitEndsType DEF QueryRaises
  <2>1. UNCHANGED dense
    BY <1>17 DEF QueryRaises
  <2>2. PICK f \in DenseFailures : RetryOr(f) \/ DenseFails(f)
    BY <1>17 DEF QueryRaises, DenseFailures
  <2> QED
    BY <2>0, <2>1, <2>2, RetryOrType, DenseFailsType
<1>18. CASE Recreated
  BY <1>18 DEF Recreated, Locations, Awaiting
<1>19. CASE RecreateRaises
  BY <1>0, <1>19, FailType DEF RecreateRaises
<1>20. CASE Generate
  <2>1. (IF cited' THEN Answered ELSE "fallback") \in Decisions
    BY DEF Answered, Decisions
  <2> QED
    BY <1>20, <2>1, ConcludeType DEF Generate
<1>21. CASE GenerateRaises
  <2>1. "fallback" \in Decisions
    BY DEF Decisions
  <2> QED
    BY <1>0, <1>21, <2>1, ConcludeType, FailType DEF GenerateRaises
<1>22. CASE LoadTimeout
  BY <1>22, DenseFailsType DEF LoadTimeout, DenseFailures
<1>23. CASE EmbedTimeout
  BY <1>23, DenseFailsType DEF EmbedTimeout, DenseFailures
<1>24. CASE QueryTimeout
  BY <1>24, RetryOrType DEF QueryTimeout, DenseFailures
<1>25. CASE RetrievalTimeout
  BY <1>0, <1>25, FailType DEF RetrievalTimeout
<1>26. CASE GenerateTimeout
  BY <1>0, <1>26, FailType DEF GenerateTimeout
<1>27. CASE RouteReturns
  BY <1>27 DEF RouteReturns
<1>28. CASE AskTimeout
  BY <1>28 DEF AskTimeout, Responses, Decisions, Warnings
<1>29. CASE OtherLoads
  BY <1>29 DEF OtherLoads
<1>30. CASE Tick
  BY <1>30 DEF Tick
<1>31. CASE UNCHANGED vars
  BY <1>31 DEF vars
<1> QED
  BY <1>1, <1>2, <1>3, <1>4, <1>5, <1>6, <1>7, <1>8, <1>9, <1>10, <1>11, <1>12,
     <1>13, <1>14, <1>15, <1>16, <1>17, <1>18, <1>19, <1>20, <1>21, <1>22, <1>23,
     <1>24, <1>25, <1>26, <1>27, <1>28, <1>29, <1>30, <1>31
     DEF Next, Compute, Threads, Services, Timers, Route

\* Retries are counted.
LEMMA AttemptsInductive == TypeOK /\ Attempts /\ [Next]_vars => Attempts'
<1> SUFFICES ASSUME TypeOK, Attempts, [Next]_vars PROVE Attempts'
  OBVIOUS
<1> USE AttemptsAssumption DEF Attempts, dense, Fail, Conclude, DenseFails, StartQuery, RetryOr, MayRetry
<1>1. CASE Compute
  BY <1>1 DEF Compute, PrepareContext, ContextFails, EnsureLoaded, Recreated, RecreateRaises,
     BackoffEnds,
     SparseReturns, FallbackReturns, SparseRaises, Select, SelectRaises, Join
<1>2. CASE Threads
  BY <1>2 DEF Threads, LoadReturns, LoadRaises, EmbedReturns, EmbedRaises, ThreadEnds
<1>3. CASE Services
  BY <1>3 DEF Services, QueryReturns, QueryRaises,
     Generate, GenerateRaises
<1>4. CASE Timers
  BY <1>4 DEF Timers, LoadTimeout, EmbedTimeout, QueryTimeout, RetrievalTimeout,
     GenerateTimeout
<1>5. CASE Route \/ OtherLoads \/ Tick \/ UNCHANGED vars
  BY <1>5 DEF Route, RouteReturns, AskTimeout, OtherLoads, Tick, vars
<1> QED
  BY <1>1, <1>2, <1>3, <1>4, <1>5 DEF Next

\* The coroutine ends with a result.
LEMMA ConcludedInductive == Concluded /\ [Next]_vars => Concluded'
<1> SUFFICES ASSUME Concluded, [Next]_vars PROVE Concluded'
  OBVIOUS
<1> USE DEF Concluded, Fail, Conclude, DenseFails, StartQuery, RetryOr, Answered, Decisions
<1>1. CASE Compute
  BY <1>1 DEF Compute, PrepareContext, ContextFails, EnsureLoaded, Recreated, RecreateRaises,
     BackoffEnds,
     SparseReturns, FallbackReturns, SparseRaises, Select, SelectRaises, Join
<1>2. CASE Threads
  BY <1>2 DEF Threads, LoadReturns, LoadRaises, EmbedReturns, EmbedRaises, ThreadEnds
<1>3. CASE Services
  BY <1>3 DEF Services, QueryReturns, QueryRaises,
     Generate, GenerateRaises
<1>4. CASE Timers
  BY <1>4 DEF Timers, LoadTimeout, EmbedTimeout, QueryTimeout, RetrievalTimeout,
     GenerateTimeout
<1>5. CASE Route \/ OtherLoads \/ Tick \/ UNCHANGED vars
  BY <1>5 DEF Route, RouteReturns, AskTimeout, OtherLoads, Tick, vars
<1> QED
  BY <1>1, <1>2, <1>3, <1>4, <1>5 DEF Next

\* The result rests on the verdict and on the citation check.
LEMMA GroundedInductive == Grounded /\ [Next]_vars => Grounded'
<1> SUFFICES ASSUME Grounded, [Next]_vars PROVE Grounded'
  OBVIOUS
<1> USE DEF Grounded, Promise!Supported, legal, Fail, Conclude, DenseFails,
            StartQuery, RetryOr, Answered, Awaiting
<1>1. CASE Compute
  BY <1>1 DEF Compute, PrepareContext, ContextFails, EnsureLoaded, Recreated, RecreateRaises,
     BackoffEnds,
     SparseReturns, FallbackReturns, SparseRaises, Select, SelectRaises, Join
<1>2. CASE Threads
  BY <1>2 DEF Threads, LoadReturns, LoadRaises, EmbedReturns, EmbedRaises, ThreadEnds
<1>3. CASE Services
  BY <1>3 DEF Services, QueryReturns, QueryRaises,
     Generate, GenerateRaises
<1>4. CASE Timers
  BY <1>4 DEF Timers, LoadTimeout, EmbedTimeout, QueryTimeout, RetrievalTimeout,
     GenerateTimeout
<1>5. CASE Route \/ OtherLoads \/ Tick \/ UNCHANGED vars
  BY <1>5 DEF Route, RouteReturns, AskTimeout, OtherLoads, Tick, vars
<1> QED
  BY <1>1, <1>2, <1>3, <1>4, <1>5 DEF Next

\* The load cannot outlast the retrieval.
LEMMA LoadRaceInductive ==
    ASSUME LoadBudget > RetrievalBudget
    PROVE  TypeOK /\ LoadRace /\ [Next]_vars => LoadRace'
<1> SUFFICES ASSUME TypeOK, LoadRace, [Next]_vars PROVE LoadRace'
  OBVIOUS
<1>0. clock \in Nat /\ outer \in Nat /\ stage \in Nat
  BY DEF TypeOK
<1> USE <1>0, BudgetsAreNats DEF LoadRace, timing, WaitEnds, Staged, Fail, Conclude, DenseFails,
            StartQuery, RetryOr, Awaiting, OuterDue
<1>1. CASE Compute
  BY <1>1 DEF Compute, PrepareContext, ContextFails, EnsureLoaded, Recreated, RecreateRaises,
     BackoffEnds,
     SparseReturns, FallbackReturns, SparseRaises, Select, SelectRaises, Join
<1>2. CASE Threads
  BY <1>2 DEF Threads, LoadReturns, LoadRaises, EmbedReturns, EmbedRaises, ThreadEnds
<1>3. CASE Services
  BY <1>3 DEF Services, QueryReturns, QueryRaises,
     Generate, GenerateRaises
<1>4. CASE Timers
  BY <1>4 DEF Timers, LoadTimeout, EmbedTimeout, QueryTimeout, RetrievalTimeout,
     GenerateTimeout
<1>5. CASE Route \/ OtherLoads \/ Tick \/ UNCHANGED vars
  BY <1>5 DEF Route, RouteReturns, AskTimeout, OtherLoads, Tick, vars
<1> QED
  BY <1>1, <1>2, <1>3, <1>4, <1>5 DEF Next

\* Qdrant is blamed for nothing it was not asked.
LEMMA BlameInductive == TypeOK /\ Blame /\ [Next]_vars => Blame'
<1> SUFFICES ASSUME TypeOK, Blame, [Next]_vars PROVE Blame'
  OBVIOUS
<1>0. attempt \in Nat
  BY AttemptsAssumption DEF TypeOK
<1> USE <1>0 DEF Blame, QdrantIsBlamedRightly, QdrantFailures, dense, Fail, Conclude,
            DenseFails, StartQuery, RetryOr, RetrievalWarnings
<1>1. CASE Compute
  BY <1>1 DEF Compute, PrepareContext, ContextFails, EnsureLoaded, Recreated, RecreateRaises,
     BackoffEnds,
     SparseReturns, FallbackReturns, SparseRaises, Select, SelectRaises, Join
<1>2. CASE Threads
  BY <1>2 DEF Threads, LoadReturns, LoadRaises, EmbedReturns, EmbedRaises, ThreadEnds
<1>3. CASE Services
  BY <1>3 DEF Services, QueryReturns, QueryRaises,
     Generate, GenerateRaises
<1>4. CASE Timers
  BY <1>4 DEF Timers, LoadTimeout, EmbedTimeout, QueryTimeout, RetrievalTimeout,
     GenerateTimeout
<1>5. CASE Route \/ OtherLoads \/ Tick \/ UNCHANGED vars
  BY <1>5 DEF Route, RouteReturns, AskTimeout, OtherLoads, Tick, vars
<1> QED
  BY <1>1, <1>2, <1>3, <1>4, <1>5 DEF Next

\* A timeout of a thread is passed on when no thread is left.
LEMMA JoinedInductive == Joined /\ [Next]_vars => Joined'
<1> SUFFICES ASSUME Joined, [Next]_vars PROVE Joined'
  OBVIOUS
<1> USE DEF Joined, ThreadTimeouts, dense, Awaiting, Fail, Conclude, DenseFails, StartQuery,
            RetryOr
<1>1. CASE Compute
  BY <1>1 DEF Compute, PrepareContext, ContextFails, EnsureLoaded, Recreated, RecreateRaises,
     BackoffEnds,
     SparseReturns, FallbackReturns, SparseRaises, Select, SelectRaises, Join
<1>2. CASE Threads
  BY <1>2 DEF Threads, LoadReturns, LoadRaises, EmbedReturns, EmbedRaises, ThreadEnds
<1>3. CASE Services
  BY <1>3 DEF Services, QueryReturns, QueryRaises,
     Generate, GenerateRaises
<1>4. CASE Timers
  BY <1>4 DEF Timers, LoadTimeout, EmbedTimeout, QueryTimeout, RetrievalTimeout,
     GenerateTimeout
<1>5. CASE Route \/ OtherLoads \/ Tick \/ UNCHANGED vars
  BY <1>5 DEF Route, RouteReturns, AskTimeout, OtherLoads, Tick, vars
<1> QED
  BY <1>1, <1>2, <1>3, <1>4, <1>5 DEF Next

\* A result that rests on the fallback keeps saying so: dense retrieval is over
\* when the result is made.
LEMMA DegradedInductive ==
    Grounded /\ DegradedIsVisible /\ [Next]_vars => DegradedIsVisible'
<1> SUFFICES ASSUME Grounded, DegradedIsVisible, [Next]_vars PROVE DegradedIsVisible'
  OBVIOUS
<1> USE DEF Grounded, DegradedIsVisible, Fail, Conclude, DenseFails, StartQuery, RetryOr,
            RetrievalWarnings
<1>1. CASE Compute
  BY <1>1 DEF Compute, PrepareContext, ContextFails, EnsureLoaded, Recreated, RecreateRaises,
     BackoffEnds,
     SparseReturns, FallbackReturns, SparseRaises, Select, SelectRaises, Join
<1>2. CASE Threads
  BY <1>2 DEF Threads, LoadReturns, LoadRaises, EmbedReturns, EmbedRaises, ThreadEnds
<1>3. CASE Services
  BY <1>3 DEF Services, QueryReturns, QueryRaises,
     Generate, GenerateRaises
<1>4. CASE Timers
  BY <1>4 DEF Timers, LoadTimeout, EmbedTimeout, QueryTimeout, RetrievalTimeout,
     GenerateTimeout
<1>5. CASE Route \/ OtherLoads \/ Tick \/ UNCHANGED vars
  BY <1>5 DEF Route, RouteReturns, AskTimeout, OtherLoads, Tick, vars
<1> QED
  BY <1>1, <1>2, <1>3, <1>4, <1>5 DEF Next

--------------------------------------------------------------------------------
(* Theorems.                                                               *)

IInv == TypeOK /\ Attempts /\ Concluded /\ Grounded

\* The conjunction is inductive.
LEMMA Inductive == Spec => []IInv
<1>1. Init => IInv
  <2> SUFFICES ASSUME Init PROVE IInv
    OBVIOUS
  <2>1. NoResponse \in Responses
    <3>1. {} \in SUBSET Warnings
      OBVIOUS
    <3> QED
      BY <3>1 DEF NoResponse, Responses
  <2>2. TypeOK
    <3>1. 0 \in Nat /\ 0 \in 0 .. MaxAttempts
      BY AttemptsAssumption
    <3>2. "context" \in Locations
      BY DEF Locations
    <3>3. loaded \in BOOLEAN /\ FALSE \in BOOLEAN
      BY DEF Init
    <3> QED
      BY <2>1, <3>1, <3>2, <3>3 DEF Init, TypeOK
  <2>3. Attempts
    BY DEF Init, Attempts, NoResponse, Awaiting
  <2>4. Concluded
    BY DEF Init, Concluded, NoResponse
  <2>5. Grounded
    BY DEF Init, Grounded, NoResponse, Promise!Supported
  <2> QED
    BY <2>2, <2>3, <2>4, <2>5 DEF IInv
<1>2. IInv /\ [Next]_vars => IInv'
  BY TypeInductive, AttemptsInductive, ConcludedInductive, GroundedInductive DEF IInv
<1> QED
  BY <1>1, <1>2, PTL DEF Spec

\* Types: of the route, of the worker and of what it returns.
THEOREM TypeInvariant == Spec => []TypeOK
  BY Inductive, PTL DEF IInv

\* The client has its response once the ask budget is used up, for every choice
\* of the budgets below it.
THEOREM AnsweredInTimeAlways == Spec => []AnsweredInTime
<1>1. Init => AnsweredInTime
  BY BudgetsAreNats DEF Init, AnsweredInTime
<1>2. IInv /\ AnsweredInTime /\ [Next]_vars => AnsweredInTime'
  <2> SUFFICES ASSUME IInv, AnsweredInTime, [Next]_vars PROVE AnsweredInTime'
    OBVIOUS
  <2> USE BudgetsAreNats DEF AnsweredInTime, dense, legal, timing, Fail, Conclude,
                             DenseFails, StartQuery, RetryOr
  <2>1. CASE Tick
    BY <2>1 DEF Tick, AskDue, IInv, TypeOK
  <2>2. CASE RouteReturns
    BY <2>2 DEF RouteReturns, IInv, Concluded, NoResponse, Decisions
  <2>3. CASE AskTimeout
    BY <2>3 DEF AskTimeout, NoResponse
  <2>4. CASE Compute \/ OtherLoads \/ UNCHANGED vars
    BY <2>4 DEF Compute, PrepareContext, ContextFails, EnsureLoaded, Recreated, RecreateRaises,
     BackoffEnds,
       SparseReturns, FallbackReturns, SparseRaises, Select, SelectRaises, Join,
       OtherLoads, vars
  <2>5. CASE Threads
    BY <2>5 DEF Threads, LoadReturns, LoadRaises, EmbedReturns, EmbedRaises, ThreadEnds
  <2>6. CASE Services
    BY <2>6 DEF Services, QueryReturns, QueryRaises,
       Generate, GenerateRaises
  <2>7. CASE Timers
    BY <2>7 DEF Timers, LoadTimeout, EmbedTimeout, QueryTimeout, RetrievalTimeout,
       GenerateTimeout
  <2> QED
    BY <2>1, <2>2, <2>3, <2>4, <2>5, <2>6, <2>7 DEF Next, Route
<1> QED
  BY <1>1, <1>2, Inductive, PTL DEF Spec

\* The client is told in time, and what it is told is what happened: it hears of
\* Qdrant only after a query, of every fallback, and of a timed out load or
\* embedding when the thread has ended.
THEOREM ClientIsToldWhatHappenedAlways == Spec => []ClientIsToldWhatHappened
<1>1. Init => Blame /\ Joined /\ DegradedIsVisible
  BY DEF Init, Blame, Joined, DegradedIsVisible, QdrantIsBlamedRightly, NoResponse,
         QdrantFailures, ThreadTimeouts
<1>2. IInv /\ Blame /\ Joined /\ DegradedIsVisible /\ [Next]_vars
          => (Blame /\ Joined /\ DegradedIsVisible)'
  BY BlameInductive, JoinedInductive, DegradedInductive DEF IInv
<1>3. AnsweredInTime /\ Blame /\ Joined /\ DegradedIsVisible => ClientIsToldWhatHappened
  BY DEF ClientIsToldWhatHappened, Blame, Joined, ThreadTimeouts, TimeoutReportedAfterThreadEnds
<1> QED
  BY <1>1, <1>2, <1>3, Inductive, AnsweredInTimeAlways, PTL DEF Spec

\* A request keeps its promise: the initial state is one of AskPromise, and every
\* step is a step of AskPromise or leaves it alone.
THEOREM PromiseKept == Spec => KeepsPromise
<1>1. Init => Promise!Init
  BY DEF Init, Promise!Init, NoResponse
<1>2. IInv /\ IInv' /\ [Next]_vars => [Promise!Next]_Promise!vars
  <2> SUFFICES ASSUME IInv, IInv', [Next]_vars PROVE [Promise!Next]_Promise!vars
    OBVIOUS
  <2> USE DEF Promise!vars, dense, legal, timing, Fail, Conclude, DenseFails,
              StartQuery, RetryOr
  <2>1. CASE Select
    <3>1. at = "gate" /\ verdict = "unknown"
      BY <2>1 DEF Select, IInv, Grounded
    <3> QED
      BY <2>1, <3>1 DEF Select, Promise!Next, Promise!Judge
  <2>2. CASE Generate
    <3>1. verdict \in {"safe", "caution"} /\ cited = FALSE
      BY <2>2 DEF Generate, IInv, Grounded
    <3> QED
      BY <2>2, <3>1 DEF Generate, Promise!Next, Promise!Cite
  <2>3. CASE RouteReturns
    <3>1. result.decision \in Decisions /\ Promise!Supported(result.decision)
      BY <2>3 DEF RouteReturns, IInv, Concluded, Grounded, Decisions
    <3>2. route.decision = "none" /\ route'.decision = result.decision
      BY <2>3 DEF RouteReturns, NoResponse
    <3> QED
      BY <2>3, <3>1, <3>2
         DEF RouteReturns, Decisions, Promise!Next, Promise!Respond, Promise!Supported
  <2>4. CASE AskTimeout
    BY <2>4 DEF AskTimeout, AskDue, NoResponse, Promise!Next, Promise!Respond,
       Promise!Supported
  <2>5. CASE Compute /\ ~Select
    BY <2>5 DEF Compute, PrepareContext, ContextFails, EnsureLoaded, Recreated, RecreateRaises,
     BackoffEnds,
       SparseReturns, FallbackReturns, SparseRaises, SelectRaises, Join
  <2>6. CASE Threads
    BY <2>6 DEF Threads, LoadReturns, LoadRaises, EmbedReturns, EmbedRaises, ThreadEnds
  <2>7. CASE Services /\ ~Generate
    BY <2>7 DEF Services, QueryReturns, QueryRaises,
       GenerateRaises
  <2>8. CASE Timers
    BY <2>8 DEF Timers, LoadTimeout, EmbedTimeout, QueryTimeout, RetrievalTimeout,
       GenerateTimeout
  <2>9. CASE OtherLoads \/ Tick \/ UNCHANGED vars
    BY <2>9 DEF OtherLoads, Tick, vars
  <2> QED
    BY <2>1, <2>2, <2>3, <2>4, <2>5, <2>6, <2>7, <2>8, <2>9 DEF Next, Route
<1> QED
  BY <1>1, <1>2, Inductive, PTL DEF Spec, KeepsPromise, Promise!Safety

\* With a load budget above the retrieval budget no request ever falls back from,
\* or reports, a model load timeout: LoadTimeout is never enabled.
THEOREM LoadTimeoutNeverReported == Spec => []LoadTimeoutUnreachable
<1>1. CASE LoadBudget > RetrievalBudget
  <2>1. Init => LoadRace /\ LoadTimeoutUnreachable
    BY DEF Init, LoadRace, LoadTimeoutUnreachable, NoResponse
  <2>2. TypeOK /\ LoadRace /\ [Next]_vars => LoadRace'
    BY <1>1, LoadRaceInductive
  <2>3. TypeOK /\ LoadRace /\ LoadTimeoutUnreachable /\ [Next]_vars
          => LoadTimeoutUnreachable'
    <3> SUFFICES ASSUME TypeOK, LoadRace, LoadTimeoutUnreachable, [Next]_vars
                 PROVE  LoadTimeoutUnreachable'
      OBVIOUS
    <3>0. ~LoadTimeout
      BY BudgetsAreNats, <1>1 DEF LoadTimeout, LoadRace, StageDue, TypeOK
    <3> USE <1>1 DEF LoadTimeoutUnreachable, dense, legal, timing, Fail, Conclude,
                     DenseFails, StartQuery, RetryOr, RetrievalWarnings
    <3>1. CASE Compute
      BY <3>1 DEF Compute, PrepareContext, ContextFails, EnsureLoaded, Recreated, RecreateRaises,
     BackoffEnds,
         SparseReturns, FallbackReturns, SparseRaises, Select, SelectRaises, Join
    <3>2. CASE Threads
      BY <3>2 DEF Threads, LoadReturns, LoadRaises, EmbedReturns, EmbedRaises, ThreadEnds
    <3>3. CASE Services
      BY <3>3 DEF Services, QueryReturns, QueryRaises,
         Generate, GenerateRaises
    <3>4. CASE Timers
      BY <3>0, <3>4 DEF Timers, EmbedTimeout, QueryTimeout, RetrievalTimeout, GenerateTimeout
    <3>5. CASE Route \/ OtherLoads \/ Tick \/ UNCHANGED vars
      BY <3>5 DEF Route, RouteReturns, AskTimeout, OtherLoads, Tick, vars
    <3> QED
      BY <3>1, <3>2, <3>3, <3>4, <3>5 DEF Next
  <2> QED
    BY <2>1, <2>2, <2>3, TypeInvariant, PTL DEF Spec
<1>2. CASE ~(LoadBudget > RetrievalBudget)
  <2>1. LoadTimeoutUnreachable
    BY <1>2 DEF LoadTimeoutUnreachable
  <2> QED
    BY <1>2, PTL DEF LoadTimeoutUnreachable
<1> QED
  BY <1>1, <1>2

-----------------------------------------------------------------------------
(* What an answer rests on: sorted lists first.                            *)

LEMMA UpTo ==
    ASSUME NEW N \in Nat
    PROVE  IsFiniteSet(1 .. N) /\ Cardinality(1 .. N) = N
BY FS_Interval

LEMMA ListOf ==
    ASSUME NEW N \in Nat, NEW S, NEW f \in [1 .. N -> S]
    PROVE  f \in Seq(S) /\ Len(f) = N
OBVIOUS

\* R puts the elements of S in one order.
Ordered(S, R) ==
    /\ IsFiniteSet(S)
    /\ \A x \in S : <<x, x>> \notin R
    /\ \A x, y \in S : x = y \/ <<x, y>> \in R \/ <<y, x>> \in R
    /\ \A x, y, z \in S : <<x, y>> \in R /\ <<y, z>> \in R => <<x, z>> \in R

\* An element's place is below those of the elements that come after it.
LEMMA PlacesAre ==
    ASSUME NEW S, NEW R, Ordered(S, R)
    PROVE  /\ \A x \in S : Places(S, R)[x] \in 1 .. Cardinality(S)
           /\ \A x, y \in S : <<x, y>> \in R => Places(S, R)[x] < Places(S, R)[y]
<1> DEFINE Below(x) == {y \in S : <<y, x>> \in R}
<1>0. \A x \in S : Places(S, R)[x] = 1 + Cardinality(Below(x))
  BY DEF Places
<1>1. IsFiniteSet(S) /\ Cardinality(S) \in Nat
  BY FS_CardinalityType DEF Ordered
<1>2. ASSUME NEW x \in S
      PROVE  /\ IsFiniteSet(Below(x)) /\ Cardinality(Below(x)) \in Nat
             /\ Places(S, R)[x] \in 1 .. Cardinality(S)
  <2>1. Below(x) \in SUBSET S /\ x \notin Below(x)
    BY DEF Ordered
  <2>2. IsFiniteSet(Below(x)) /\ Cardinality(Below(x)) <= Cardinality(S)
        /\ (Cardinality(S) = Cardinality(Below(x)) => S = Below(x))
    BY <1>1, <2>1, FS_Subset
  <2>3. Cardinality(Below(x)) \in Nat
    BY <2>2, FS_CardinalityType
  <2> QED
    BY <1>0, <1>1, <2>1, <2>2, <2>3
<1>3. ASSUME NEW x \in S, NEW y \in S, <<x, y>> \in R
      PROVE  Places(S, R)[x] < Places(S, R)[y]
  <2>1. Below(x) \in SUBSET Below(y) /\ x \in Below(y) /\ x \notin Below(x)
    BY <1>3 DEF Ordered
  <2>2. Cardinality(Below(x)) <= Cardinality(Below(y))
        /\ (Cardinality(Below(y)) = Cardinality(Below(x)) => Below(y) = Below(x))
    BY <1>2, <2>1, FS_Subset
  <2>3. Below(x) # Below(y)
    BY <2>1
  <2> HIDE DEF Below
  <2> QED
    BY <1>0, <1>2, <2>2, <2>3
<1> QED
  BY <1>2, <1>3

\* A set in an order is listed without gap or repetition.
LEMMA InOrderIs ==
    ASSUME NEW S, NEW R, Ordered(S, R), NEW s, s = InOrder(S, R)
    PROVE  /\ s \in Seq(S) /\ Len(s) = Cardinality(S) /\ Cardinality(S) \in Nat
           /\ \A x \in S : Places(S, R)[x] \in DOMAIN s /\ s[Places(S, R)[x]] = x
           /\ \A i, j \in DOMAIN s : s[i] = s[j] => i = j
<1> PICK N : N = Cardinality(S)
  OBVIOUS
<1> PICK place : place = Places(S, R)
  OBVIOUS
<1>1. N \in Nat /\ IsFiniteSet(S)
  BY FS_CardinalityType DEF Ordered
<1>2. /\ \A x \in S : place[x] \in 1 .. N
      /\ \A x, y \in S : <<x, y>> \in R => place[x] < place[y]
  BY PlacesAre
<1>3. ASSUME NEW x \in S, NEW y \in S, place[x] = place[y] PROVE x = y
  <2>1. place[x] \in Nat /\ ~ (place[x] < place[y]) /\ ~ (place[y] < place[x])
    BY <1>2, <1>3
  <2>2. <<x, y>> \notin R /\ <<y, x>> \notin R
    BY <1>2, <2>1
  <2> QED
    BY <2>2 DEF Ordered
<1>4. place \in [S -> 1 .. N]
  BY <1>2 DEF Places
<1>5. place \in Injection(S, 1 .. N)
  BY <1>3, <1>4 DEF Injection, IsInjective
<1>6. IsFiniteSet(1 .. N) /\ Cardinality(1 .. N) = N
  BY <1>1, UpTo
<1>7. place \in Surjection(S, 1 .. N)
  BY <1>1, <1>5, <1>6, FS_Injection
<1>8. ASSUME NEW i \in 1 .. N PROVE \E x \in S : place[x] = i
  BY <1>7 DEF Surjection
<1>9. s = [i \in 1 .. N |-> CHOOSE x \in S : place[x] = i]
  BY DEF InOrder
<1>10. DOMAIN s = 1 .. N /\ \A i \in 1 .. N : s[i] \in S /\ place[s[i]] = i
  BY <1>8, <1>9
<1>11. s \in Seq(S) /\ Len(s) = N
  <2>1. s \in [1 .. N -> S]
    BY <1>9, <1>10
  <2> QED
    BY <1>1, <2>1
<1>12. ASSUME NEW x \in S PROVE place[x] \in DOMAIN s /\ s[place[x]] = x
  <2>1. place[x] \in 1 .. N
    BY <1>2
  <2>2. s[place[x]] \in S /\ place[s[place[x]]] = place[x]
    BY <1>10, <2>1
  <2> QED
    BY <1>3, <1>10, <2>1, <2>2
<1>13. \A i, j \in DOMAIN s : s[i] = s[j] => i = j
  BY <1>10
<1> QED
  BY <1>1, <1>11, <1>12, <1>13

-----------------------------------------------------------------------------
(* Rank fusion.                                                            *)

\* A set of numbers has a least one.
LEMMA LeastNumber ==
    ASSUME NEW T \in SUBSET Nat, T # {}
    PROVE  \E m \in T : \A k \in T : m <= k
<1>1. PICK m \in T : \A k \in T : ~ (<<k, m>> \in OpToRel(<, Nat))
  BY NatLessThanWellFounded, WFMin
<1>2. \A k \in T : ~ (k < m)
  BY <1>1 DEF OpToRel
<1> QED
  BY <1>2

\* A list has finitely many members, as many as its length if none is there twice.
LEMMA MembersOfList ==
    ASSUME NEW T, NEW list \in Seq(T)
    PROVE  /\ IsFiniteSet(F!Range(list)) /\ Cardinality(F!Range(list)) \in Nat
           /\ Cardinality(F!Range(list)) <= Len(list)
           /\ (\A i, j \in DOMAIN list : list[i] = list[j] => i = j)
              => Cardinality(F!Range(list)) = Len(list)
<1> PICK M : M = F!Range(list)
  OBVIOUS
<1> PICK N : N = Len(list)
  OBVIOUS
<1>1. DOMAIN list = 1 .. N /\ N \in Nat
  OBVIOUS
<1>2. list \in Surjection(1 .. N, M)
  <2>1. M = {list[i] : i \in 1 .. N}
    BY <1>1 DEF F!Range
  <2>2. list \in [1 .. N -> M]
    BY <1>1, <2>1
  <2> QED
    BY <2>1, <2>2 DEF Surjection
<1>3. IsFiniteSet(1 .. N) /\ Cardinality(1 .. N) = N
  BY <1>1, UpTo
<1>4. /\ IsFiniteSet(M) /\ Cardinality(M) <= N
      /\ Cardinality(M) = N <=> list \in Injection(1 .. N, M)
  BY <1>2, <1>3, FS_Surjection
<1>5. Cardinality(M) \in Nat
  BY <1>4, FS_CardinalityType
<1>6. ASSUME \A i, j \in DOMAIN list : list[i] = list[j] => i = j
      PROVE  list \in Injection(1 .. N, M)
  BY <1>1, <1>2, <1>6 DEF Injection, IsInjective, Surjection
<1> QED
  BY <1>4, <1>5, <1>6

LEMMA FirstOfIs ==
    ASSUME NEW T, NEW list \in Seq(T), NEW n \in Nat, NEW first, first = F!FirstOf(list, n)
    PROVE  /\ first \in Seq(T) /\ Len(first) = IF n <= Len(list) THEN n ELSE Len(list)
           /\ \A r \in 1 .. Len(first) : first[r] = list[r]
<1> DEFINE m == IF n <= Len(list) THEN n ELSE Len(list)
<1>1. Len(list) \in Nat
  OBVIOUS
<1>2. F!Min({n, Len(list)}) = m
  <2>1. \E x \in {n, Len(list)} : \A y \in {n, Len(list)} : x <= y
    BY <1>1
  <2>2. F!Min({n, Len(list)}) \in {n, Len(list)}
        /\ \A y \in {n, Len(list)} : F!Min({n, Len(list)}) <= y
    BY <2>1 DEF F!Min
  <2> QED
    BY <1>1, <2>2
<1>3. first = SubSeq(list, 1, m) /\ m \in 0 .. Len(list)
  <2>1. first = SubSeq(list, 1, m)
    BY <1>2 DEF F!FirstOf
  <2>2. m \in 0 .. Len(list)
    BY <1>1
  <2> QED
    BY <2>1, <2>2
<1> HIDE DEF m
<1>4. first \in Seq(T) /\ Len(first) = m /\ \A r \in 1 .. m : first[r] = list[r]
  BY <1>1, <1>3
<1> QED
  BY <1>4 DEF m

LEMMA RankIs ==
    ASSUME NEW T, NEW list \in Seq(T), NEW id, F!InList(id, list)
    PROVE  /\ F!RankIn(id, list) \in 1 .. Len(list) /\ list[F!RankIn(id, list)] = id
           /\ F!RankIn(id, list) \in Nat \ {0}
<1> DEFINE found == {r \in DOMAIN list : list[r] = id}
<1>1. DOMAIN list = 1 .. Len(list) /\ Len(list) \in Nat
  OBVIOUS
<1>2. found \in SUBSET Nat /\ found # {}
  BY <1>1 DEF F!InList, F!Range
<1>3. PICK m \in found : \A k \in found : m <= k
  BY <1>2, LeastNumber
<1>4. F!Min(found) \in found
  BY <1>3 DEF F!Min
<1>5. F!RankIn(id, list) = F!Min(found)
  BY DEF F!RankIn
<1> QED
  BY <1>1, <1>4, <1>5

\* Fractions compare by their cross products.
LEMMA CrossProducts ==
    ASSUME NEW a \in Nat, NEW b \in Nat \ {0}, NEW c \in Nat, NEW d \in Nat \ {0},
           NEW e \in Nat, NEW f \in Nat \ {0},
           a * d >= c * b, c * f >= e * d
    PROVE  /\ a * f >= e * b
           /\ a * d > c * b \/ c * f > e * d => a * f > e * b
<1>1. (a * d) * f >= (c * b) * f /\ (c * f) * b >= (e * d) * b
  OBVIOUS
<1>2. (a * d) * f = (a * f) * d /\ (c * b) * f = (c * f) * b /\ (e * d) * b = (e * b) * d
  OBVIOUS
<1>3. (a * f) * d >= (e * b) * d
  BY <1>1, <1>2
<1>4. a * f >= e * b
  BY <1>3
<1>5. a * d > c * b => (a * d) * f > (c * b) * f
  OBVIOUS
<1>6. c * f > e * d => (c * f) * b > (e * d) * b
  OBVIOUS
<1>7. ASSUME a * d > c * b \/ c * f > e * d PROVE a * f > e * b
  <2>1. (a * f) * d > (e * b) * d
    BY <1>1, <1>2, <1>5, <1>6, <1>7
  <2> QED
    BY <2>1
<1> QED
  BY <1>4, <1>7

LEMMA ScoreIs ==
    ASSUME NEW T, NEW dlist \in Seq(T), NEW slist \in Seq(T),
           NEW id \in F!Candidates(dlist, slist)
    PROVE  /\ F!Score(id, dlist, slist).num \in Nat
           /\ F!Score(id, dlist, slist).den \in Nat \ {0}
<1> DEFINE d == RrfK + F!RankIn(id, dlist)
           s == RrfK + F!RankIn(id, slist)
<1>1. RrfK \in Nat /\ DenseWeight \in Nat /\ SparseWeight \in Nat
  BY SettingsAssumption DEF F!FusionSettings
<1>2. F!InList(id, dlist) => d \in Nat \ {0}
  BY <1>1, RankIs
<1>3. F!InList(id, slist) => s \in Nat \ {0}
  BY <1>1, RankIs
<1>4. F!InList(id, dlist) \/ F!InList(id, slist)
  BY DEF F!Candidates, F!InList
<1>5. F!Score(id, dlist, slist) =
        IF ~F!InList(id, slist) THEN [num |-> DenseWeight, den |-> d]
        ELSE IF ~F!InList(id, dlist) THEN [num |-> SparseWeight, den |-> s]
        ELSE [num |-> DenseWeight * s + SparseWeight * d, den |-> d * s]
  BY DEF F!Score
<1> HIDE DEF d, s
<1>6. CASE ~F!InList(id, slist)
  BY <1>1, <1>2, <1>4, <1>5, <1>6
<1>7. CASE F!InList(id, slist) /\ ~F!InList(id, dlist)
  BY <1>1, <1>3, <1>5, <1>7
<1>8. CASE F!InList(id, slist) /\ F!InList(id, dlist)
  <2>1. d \in Nat \ {0} /\ s \in Nat \ {0}
    BY <1>2, <1>3, <1>8
  <2>2. DenseWeight * s \in Nat /\ SparseWeight * d \in Nat /\ d * s \in Nat \ {0}
    BY <1>1, <2>1
  <2> QED
    BY <1>5, <1>8, <2>2
<1> QED
  BY <1>6, <1>7, <1>8

\* Where two scores agree, the ranks decide: first those of the dense list.
Turn(x, dlist, slist) == IF F!InList(x, dlist) THEN F!RankIn(x, dlist)
                          ELSE Len(dlist) + F!RankIn(x, slist)
Tied(x, y, dlist, slist) ==
    \/ F!Earlier(x, y, dlist)
    \/ ~F!InList(x, dlist) /\ ~F!InList(y, dlist) /\ F!Earlier(x, y, slist)

LEMMA TurnIs ==
    ASSUME NEW T, NEW dlist \in Seq(T), NEW slist \in Seq(T),
           NEW x \in F!Candidates(dlist, slist), NEW y \in F!Candidates(dlist, slist)
    PROVE  /\ Turn(x, dlist, slist) \in Nat
           /\ Turn(x, dlist, slist) = Turn(y, dlist, slist) => x = y
           /\ Tied(x, y, dlist, slist) <=> Turn(x, dlist, slist) < Turn(y, dlist, slist)
<1>1. Len(dlist) \in Nat
  OBVIOUS
<1>2. ASSUME NEW id \in F!Candidates(dlist, slist)
      PROVE  \/ /\ F!InList(id, dlist)
                /\ F!RankIn(id, dlist) \in 1 .. Len(dlist) /\ dlist[F!RankIn(id, dlist)] = id
             \/ /\ ~F!InList(id, dlist) /\ F!InList(id, slist)
                /\ F!RankIn(id, slist) \in Nat \ {0} /\ slist[F!RankIn(id, slist)] = id
  <2>1. F!InList(id, dlist) \/ F!InList(id, slist)
    BY DEF F!Candidates, F!InList
  <2> QED
    BY <2>1, RankIs
<1>3. CASE F!InList(x, dlist) /\ F!InList(y, dlist)
  BY <1>1, <1>2, <1>3 DEF Turn, Tied, F!Earlier
<1>4. CASE F!InList(x, dlist) /\ ~F!InList(y, dlist)
  BY <1>1, <1>2, <1>4 DEF Turn, Tied, F!Earlier
<1>5. CASE ~F!InList(x, dlist) /\ F!InList(y, dlist)
  BY <1>1, <1>2, <1>5 DEF Turn, Tied, F!Earlier
<1>6. CASE ~F!InList(x, dlist) /\ ~F!InList(y, dlist)
  BY <1>1, <1>2, <1>6 DEF Turn, Tied, F!Earlier
<1> QED
  BY <1>3, <1>4, <1>5, <1>6

\* Exact scores and unique ranks put the candidates in one order.
LEMMA CandidatesAreOrdered ==
    ASSUME NEW T, NEW dlist \in Seq(T), NEW slist \in Seq(T)
    PROVE  Ordered(F!Candidates(dlist, slist),
                   {p \in F!Candidates(dlist, slist) \X F!Candidates(dlist, slist) :
                      F!Before(p[1], p[2], dlist, slist)})
<1> DEFINE C == F!Candidates(dlist, slist)
           R == {p \in C \X C : F!Before(p[1], p[2], dlist, slist)}
           num(x) == F!Score(x, dlist, slist).num
           den(x) == F!Score(x, dlist, slist).den
           turn(x) == Turn(x, dlist, slist)
<1>1. IsFiniteSet(C)
  <2>2. IsFiniteSet(F!Range(dlist)) /\ IsFiniteSet(F!Range(slist))
    BY MembersOfList
  <2>3. IsFiniteSet(F!Range(dlist) \cup F!Range(slist))
    BY <2>2, FS_Union
  <2>4. C \in SUBSET (F!Range(dlist) \cup F!Range(slist))
    BY DEF F!Candidates
  <2> QED
    BY <2>3, <2>4, FS_Subset
<1>2. \A x, y \in C : <<x, y>> \in R <=> F!Before(x, y, dlist, slist)
  OBVIOUS
<1>3. \A x \in C : num(x) \in Nat /\ den(x) \in Nat \ {0} /\ turn(x) \in Nat
  BY ScoreIs, TurnIs
<1>4. \A x, y \in C : turn(x) = turn(y) => x = y
  BY TurnIs
<1>5. \A x, y \in C : <<x, y>> \in R <=>
        \/ num(x) * den(y) > num(y) * den(x)
        \/ num(x) * den(y) = num(y) * den(x) /\ turn(x) < turn(y)
  <2> SUFFICES ASSUME NEW x \in C, NEW y \in C
               PROVE  F!Before(x, y, dlist, slist) <=>
                        \/ num(x) * den(y) > num(y) * den(x)
                        \/ num(x) * den(y) = num(y) * den(x) /\ turn(x) < turn(y)
    BY <1>2
  <2>1. Tied(x, y, dlist, slist) <=> turn(x) < turn(y)
    BY TurnIs
  <2>2. F!Before(x, y, dlist, slist) <=>
          \/ num(x) * den(y) > num(y) * den(x)
          \/ num(x) * den(y) = num(y) * den(x) /\ Tied(x, y, dlist, slist)
    BY DEF F!Before, F!Cross, Tied
  <2> QED
    BY <2>1, <2>2
<1> HIDE DEF C, R, num, den, turn
<1>6. \A x \in C : <<x, x>> \notin R
  <2> SUFFICES ASSUME NEW x \in C PROVE <<x, x>> \notin R
    OBVIOUS
  <2>1. num(x) * den(x) \in Nat
    BY <1>3
  <2> QED
    BY <1>3, <1>5, <2>1
<1>7. \A x, y \in C : x = y \/ <<x, y>> \in R \/ <<y, x>> \in R
  <2> SUFFICES ASSUME NEW x \in C, NEW y \in C PROVE x = y \/ <<x, y>> \in R \/ <<y, x>> \in R
    OBVIOUS
  <2>1. num(x) * den(y) \in Nat /\ num(y) * den(x) \in Nat
    BY <1>3
  <2> QED
    BY <1>3, <1>4, <1>5, <2>1
<1>8. ASSUME NEW x \in C, NEW y \in C, NEW z \in C, <<x, y>> \in R, <<y, z>> \in R
      PROVE  <<x, z>> \in R
  <2>1. \A v, w \in C : num(v) * den(w) \in Nat
    <3> SUFFICES ASSUME NEW v \in C, NEW w \in C PROVE num(v) * den(w) \in Nat
      OBVIOUS
    <3> QED
      BY SMTT(40), <1>3
  <2>2. num(x) * den(y) >= num(y) * den(x) /\ num(y) * den(z) >= num(z) * den(y)
    BY SMTT(40), <1>5, <1>8, <2>1
  <2>3. /\ num(x) * den(z) >= num(z) * den(x)
        /\ \/ num(x) * den(y) > num(y) * den(x)
           \/ num(y) * den(z) > num(z) * den(y)
           => num(x) * den(z) > num(z) * den(x)
    BY <1>3, <2>2, CrossProducts
  <2>4. CASE num(x) * den(y) > num(y) * den(x) \/ num(y) * den(z) > num(z) * den(y)
    BY <1>5, <2>3, <2>4
  <2>5. CASE ~ (num(x) * den(y) > num(y) * den(x)) /\ ~ (num(y) * den(z) > num(z) * den(y))
    <3>1. turn(x) < turn(y) /\ turn(y) < turn(z)
      BY <1>5, <1>8, <2>5
    <3>2. turn(x) < turn(z)
      BY <1>3, <3>1
    <3>3. num(x) * den(z) > num(z) * den(x) \/ num(x) * den(z) = num(z) * den(x)
      BY <2>1, <2>3
    <3> QED
      BY <1>5, <3>2, <3>3
  <2> QED
    BY <2>4, <2>5
<1>9. Ordered(C, R)
  BY <1>1, <1>6, <1>7, <1>8 DEF Ordered
<1> QED
  BY <1>9 DEF C, R

LEMMA SameOrder ==
    ASSUME NEW S, NEW R
    PROVE  F!InOrder(S, R) = InOrder(S, R) /\ E!InOrder(S, R) = InOrder(S, R)
<1>1. F!Cardinality(S) = Cardinality(S) /\ E!Cardinality(S) = Cardinality(S)
  BY DEF F!Cardinality, E!Cardinality, Cardinality
<1> QED
  BY DEF F!InOrder, F!Places, F!Cardinality, E!InOrder, E!Places, E!Cardinality,
         InOrder, Places, Cardinality

\* The quotas pick list positions in ascending order; none comes later than it
\* stands in the list.
LEMMA InTurnIs ==
    ASSUME NEW n \in Nat, NEW P \in SUBSET (1 .. n), NEW turns, turns = F!InTurn(P)
    PROVE  /\ turns \in Seq(P) /\ \A i, j \in DOMAIN turns : turns[i] = turns[j] => i = j
           /\ \A p \in P : \E i \in DOMAIN turns : turns[i] = p /\ i <= p
<1> DEFINE R == {p \in P \X P : p[1] < p[2]}
<1>1. turns = InOrder(P, R)
  BY SameOrder DEF F!InTurn
<1>2. \A x, y \in P : <<x, y>> \in R <=> x < y
  OBVIOUS
<1> HIDE DEF R
<1>3. IsFiniteSet(P)
  <2>1. IsFiniteSet(1 .. n)
    BY UpTo
  <2> QED
    BY <2>1, FS_Subset
<1>4. \A x \in P : x \in Nat \ {0}
  OBVIOUS
<1>5. Ordered(P, R)
  <2>1. \A x \in P : <<x, x>> \notin R
    BY <1>2, <1>4
  <2>2. ASSUME NEW x \in P, NEW y \in P PROVE x = y \/ <<x, y>> \in R \/ <<y, x>> \in R
    <3>1. x = y \/ x < y \/ y < x
      BY <1>4
    <3> QED
      BY <1>2, <3>1
  <2>3. ASSUME NEW x \in P, NEW y \in P, NEW z \in P, <<x, y>> \in R, <<y, z>> \in R
        PROVE  <<x, z>> \in R
    <3>1. x \in Nat /\ y \in Nat /\ z \in Nat /\ x < y /\ y < z
      BY <1>2, <1>4, <2>3
    <3>2. x < z
      BY <3>1
    <3> QED
      BY <1>2, <3>2
  <2> QED
    BY <1>3, <2>1, <2>2, <2>3 DEF Ordered
<1>6. /\ turns \in Seq(P)
      /\ \A x \in P : Places(P, R)[x] \in DOMAIN turns /\ turns[Places(P, R)[x]] = x
      /\ \A i, j \in DOMAIN turns : turns[i] = turns[j] => i = j
  BY <1>1, <1>5, InOrderIs
<1>7. ASSUME NEW p \in P PROVE Places(P, R)[p] <= p
  <2> DEFINE Below == {y \in P : <<y, p>> \in R}
  <2>1. Places(P, R)[p] = 1 + Cardinality(Below)
    BY DEF Places
  <2>2. p - 1 \in Nat
    BY <1>4
  <2>3. Below \in SUBSET (1 .. p - 1)
    <3> SUFFICES ASSUME NEW y \in P, <<y, p>> \in R PROVE y \in 1 .. p - 1
      OBVIOUS
    <3>1. y < p /\ y \in Nat \ {0} /\ p \in Nat
      BY <1>2, <1>4
    <3> QED
      BY <3>1
  <2>4. IsFiniteSet(1 .. p - 1) /\ Cardinality(1 .. p - 1) = p - 1
    <3> PICK k : k = p - 1
      OBVIOUS
    <3>1. IsFiniteSet(1 .. k) /\ Cardinality(1 .. k) = k
      BY <2>2, UpTo
    <3> QED
      BY <3>1
  <2>5. IsFiniteSet(Below) /\ Cardinality(Below) <= p - 1
    BY ZenonT(60), <2>3, <2>4, FS_Subset
  <2>6. Cardinality(Below) \in Nat
    BY <2>5, FS_CardinalityType
  <2> HIDE DEF Below
  <2> QED
    BY <1>4, <2>1, <2>5, <2>6
<1> QED
  BY <1>6, <1>7

\* A list without repetition and without the candidate that has no id.
Clean(list) ==
    /\ \A i, j \in DOMAIN list : list[i] = list[j] => i = j
    /\ \A i \in DOMAIN list : list[i] # NoId

\* What _append_from_candidates appends: as many new ids as the limit allows,
\* and those at the head of the list before all others.
LEMMA AppendFromIs ==
    ASSUME NEW T, NEW chosen \in Seq(T), NEW list \in Seq(T), NEW limit \in Nat,
           Clean(chosen), NEW out, out = F!AppendFrom(chosen, list, limit)
    PROVE  /\ out \in Seq(T) /\ Clean(out)
           /\ F!Range(chosen) \subseteq F!Range(out)
           /\ F!Range(out) \subseteq F!Range(chosen) \cup F!Range(list)
           /\ Len(out) <= Len(chosen) + limit
           /\ \A r \in DOMAIN list : r <= limit /\ list[r] # NoId => list[r] \in F!Range(out)
           /\ Len(out) < Len(chosen) + limit
              => \A r \in DOMAIN list : list[r] # NoId => list[r] \in F!Range(out)
<1>0. \A any \in Seq(T) :
        /\ F!FirstOf(any, limit) \in Seq(T)
        /\ Len(F!FirstOf(any, limit)) = IF limit <= Len(any) THEN limit ELSE Len(any)
        /\ \A i \in 1 .. Len(F!FirstOf(any, limit)) : F!FirstOf(any, limit)[i] = any[i]
  BY FirstOfIs
<1> PICK P : P = F!Fresh(chosen, list)
  OBVIOUS
<1> PICK turns : turns = F!InTurn(P)
  OBVIOUS
<1> PICK new : new = [i \in DOMAIN turns |-> list[turns[i]]]
  OBVIOUS
<1> PICK picked : picked = F!FirstOf(new, limit)
  OBVIOUS
<1>1. Len(list) \in Nat /\ DOMAIN list = 1 .. Len(list)
      /\ Len(chosen) \in Nat /\ DOMAIN chosen = 1 .. Len(chosen)
  OBVIOUS
<1>2. /\ P \in SUBSET (1 .. Len(list))
      /\ \A r \in P : /\ list[r] # NoId /\ list[r] \notin F!Range(chosen)
                      /\ \A q \in 1 .. r - 1 : list[q] # list[r]
  BY <1>1 DEF F!Fresh, F!InList
<1>3. /\ turns \in Seq(P) /\ \A i, j \in DOMAIN turns : turns[i] = turns[j] => i = j
      /\ \A p \in P : \E i \in DOMAIN turns : turns[i] = p /\ i <= p
  <2>1. Len(list) \in Nat /\ P \in SUBSET (1 .. Len(list))
    BY <1>1, <1>2
  <2> QED
    BY <2>1, InTurnIs
<1>4. /\ Len(turns) \in Nat /\ DOMAIN turns = 1 .. Len(turns)
      /\ \A i \in DOMAIN turns : turns[i] \in P
  BY <1>3
<1>5. new \in Seq(T) /\ Len(new) = Len(turns) /\ \A i \in 1 .. Len(turns) : new[i] = list[turns[i]]
  <2>1. \A i \in 1 .. Len(turns) : list[turns[i]] \in T
    BY <1>1, <1>2, <1>4
  <2>2. new \in [1 .. Len(turns) -> T]
    BY <1>4, <2>1
  <2> QED
    BY <1>4, <2>2
<1>6. /\ picked \in Seq(T) /\ Len(picked) = (IF limit <= Len(new) THEN limit ELSE Len(new))
      /\ \A i \in 1 .. Len(picked) : picked[i] = new[i]
  <2>1. new \in Seq(T)
    BY <1>5
  <2> QED
    BY <1>0, <2>1
<1>7. /\ Len(picked) \in Nat /\ Len(picked) <= limit /\ Len(picked) <= Len(turns)
      /\ \A i \in 1 .. Len(picked) : picked[i] = list[turns[i]] /\ turns[i] \in P /\ i \in DOMAIN turns
  <2>1. Len(picked) \in Nat /\ Len(picked) <= limit /\ Len(picked) <= Len(turns)
    BY <1>4, <1>5, <1>6
  <2>2. ASSUME NEW i \in 1 .. Len(picked)
        PROVE  picked[i] = list[turns[i]] /\ turns[i] \in P /\ i \in DOMAIN turns
    <3>1. i \in 1 .. Len(turns)
      BY <1>4, <2>1
    <3> QED
      BY <1>4, <1>5, <1>6, <3>1
  <2> QED
    BY <2>1, <2>2
<1>8. /\ out \in Seq(T) /\ Len(out) = Len(chosen) + Len(picked)
      /\ \A i \in 1 .. Len(chosen) : out[i] = chosen[i]
      /\ \A i \in 1 .. Len(picked) : out[Len(chosen) + i] = picked[i]
  <2>1. out = chosen \o picked
    BY DEF F!AppendFrom
  <2> QED
    BY <1>6, <2>1
<1>9. DOMAIN out = 1 .. Len(chosen) + Len(picked)
  BY <1>8
<1>10. ASSUME NEW i \in DOMAIN out
       PROVE  \/ i \in DOMAIN chosen /\ out[i] = chosen[i] /\ i <= Len(chosen)
              \/ \E k \in 1 .. Len(picked) : i = Len(chosen) + k /\ out[i] = list[turns[k]]
  <2>0. i \in Nat \ {0} /\ i <= Len(chosen) + Len(picked) /\ Len(chosen) \in Nat /\ Len(picked) \in Nat
    BY <1>1, <1>7, <1>9
  <2>1. CASE i <= Len(chosen)
    <3>1. i \in 1 .. Len(chosen)
      BY <2>0, <2>1
    <3> QED
      BY <1>1, <1>8, <2>1, <3>1
  <2>2. CASE i > Len(chosen)
    <3>1. i - Len(chosen) \in 1 .. Len(picked) /\ i = Len(chosen) + (i - Len(chosen))
      BY <2>0, <2>2
    <3> PICK k : k = i - Len(chosen)
      OBVIOUS
    <3>2. k \in 1 .. Len(picked) /\ i = Len(chosen) + k
      BY <3>1
    <3>3. out[i] = picked[k] /\ picked[k] = list[turns[k]]
      BY ZenonT(60), <1>7, <1>8, <3>2
    <3> QED
      BY <3>2, <3>3
  <2>3. i <= Len(chosen) \/ i > Len(chosen)
    BY <2>0
  <2> QED
    BY <2>1, <2>2, <2>3
<1>11. \A p, q \in P : list[p] = list[q] => p = q
  <2> SUFFICES ASSUME NEW p \in P, NEW q \in P, list[p] = list[q] PROVE p = q
    OBVIOUS
  <2>1. p \in Nat \ {0} /\ q \in Nat \ {0}
    BY <1>1, <1>2
  <2>2. ~ (p < q) /\ ~ (q < p)
    <3>1. p < q => p \in 1 .. q - 1
      BY <2>1
    <3>2. q < p => q \in 1 .. p - 1
      BY <2>1
    <3> QED
      BY <1>2, <3>1, <3>2
  <2> QED
    BY <2>1, <2>2
<1>12. Clean(out)
  <2>1. ASSUME NEW i \in DOMAIN out PROVE out[i] # NoId
    <3>1. \A k \in DOMAIN chosen : chosen[k] # NoId
      BY DEF Clean
    <3>2. \A k \in 1 .. Len(picked) : list[turns[k]] # NoId
      BY <1>2, <1>7
    <3> QED
      BY <1>10, <3>1, <3>2
  <2>2. ASSUME NEW i \in DOMAIN out, NEW j \in DOMAIN out, out[i] = out[j] PROVE i = j
    <3>1. CASE i \in DOMAIN chosen /\ j \in DOMAIN chosen /\ out[i] = chosen[i] /\ out[j] = chosen[j]
      BY <2>2, <3>1 DEF Clean
    <3>2. ASSUME NEW k \in 1 .. Len(picked), NEW h \in 1 .. Len(picked),
                 i = Len(chosen) + k, j = Len(chosen) + h,
                 out[i] = list[turns[k]], out[j] = list[turns[h]]
          PROVE  i = j
      <4>1. turns[k] = turns[h]
        BY SMTT(40), <1>7, <1>11, <2>2, <3>2
      <4>2. k = h
        BY <1>3, <1>7, <4>1
      <4> QED
        BY <3>2, <4>2
    <3>3. ASSUME NEW k \in 1 .. Len(picked), NEW z \in DOMAIN chosen
          PROVE  chosen[z] # list[turns[k]]
      <4>1. chosen[z] \in F!Range(chosen)
        BY DEF F!Range
      <4> QED
        BY <1>2, <1>7, <4>1
    <3> QED
      BY SMTT(40), <1>10, <2>2, <3>1, <3>2, <3>3
  <2> QED
    BY <2>1, <2>2 DEF Clean
<1>13. F!Range(chosen) \subseteq F!Range(out)
  <2> SUFFICES ASSUME NEW i \in DOMAIN chosen PROVE chosen[i] \in F!Range(out)
    BY DEF F!Range
  <2>1. i \in DOMAIN out /\ out[i] = chosen[i]
    BY <1>1, <1>7, <1>8, <1>9
  <2> QED
    BY <2>1 DEF F!Range
<1>14. F!Range(out) \subseteq F!Range(chosen) \cup F!Range(list)
  <2> SUFFICES ASSUME NEW i \in DOMAIN out PROVE out[i] \in F!Range(chosen) \cup F!Range(list)
    BY DEF F!Range
  <2>1. CASE i \in DOMAIN chosen /\ out[i] = chosen[i]
    BY <2>1 DEF F!Range
  <2>2. ASSUME NEW k \in 1 .. Len(picked), out[i] = list[turns[k]]
        PROVE  out[i] \in F!Range(list)
    <3>1. turns[k] \in DOMAIN list
      BY <1>1, <1>2, <1>7
    <3> QED
      BY <2>2, <3>1 DEF F!Range
  <2> QED
    BY <1>10, <2>1, <2>2
<1>15. Len(out) <= Len(chosen) + limit
  BY <1>1, <1>7, <1>8
\* An id that was appended, or was there already, is found.
<1>16. ASSUME NEW r \in DOMAIN list, list[r] # NoId,
              r <= limit \/ Len(out) < Len(chosen) + limit
       PROVE  list[r] \in F!Range(out)
  <2>1. CASE list[r] \in F!Range(chosen)
    BY <1>13, <2>1
  <2>2. CASE list[r] \notin F!Range(chosen)
    <3> DEFINE same == {q \in DOMAIN list : list[q] = list[r]}
    <3>1. PICK q \in same : \A k \in same : q <= k
      <4>1. same \in SUBSET Nat /\ same # {}
        BY <1>1
      <4> QED
        BY <4>1, LeastNumber
    <3>2. q \in DOMAIN list /\ list[q] = list[r] /\ q <= r
      BY <3>1
    <3>3. \A k \in 1 .. q - 1 : list[k] # list[q]
      <4> SUFFICES ASSUME NEW k \in 1 .. q - 1, list[k] = list[q] PROVE FALSE
        OBVIOUS
      <4>1. k \in same
        BY <1>1, <3>2
      <4>2. q <= k /\ q \in Nat
        BY <1>1, <3>1, <4>1
      <4> QED
        BY <4>2
    <3>4. q \in P
      BY <1>16, <2>2, <3>2, <3>3 DEF F!Fresh, F!InList
    <3>5. PICK i \in DOMAIN turns : turns[i] = q /\ i <= q
      BY <1>3, <3>4
    <3>6. i \in 1 .. Len(picked)
      <4>1. i \in Nat /\ i >= 1 /\ i <= Len(turns)
        BY <1>4, <3>5
      <4>2. CASE r <= limit
        <5>1. i <= limit
          BY <1>1, <3>2, <3>5, <4>1, <4>2
        <5> QED
          BY <1>4, <1>5, <1>6, <4>1, <5>1
      <4>3. CASE Len(out) < Len(chosen) + limit
        <5>1. Len(picked) < limit
          BY <1>1, <1>7, <1>8, <4>3
        <5>2. Len(picked) = Len(turns)
          <6>1. Len(picked) = IF limit <= Len(turns) THEN limit ELSE Len(turns)
            BY <1>5, <1>6
          <6>2. Len(picked) # limit
            BY <1>7, <5>1
          <6> QED
            BY <6>1, <6>2
        <5> QED
          BY <4>1, <5>2
      <4> QED
        BY <1>16, <4>2, <4>3
    <3>7. Len(chosen) + i \in DOMAIN out /\ out[Len(chosen) + i] = list[r]
      <4>1. Len(chosen) + i \in DOMAIN out
        BY <1>1, <1>7, <1>9, <3>6
      <4>2. out[Len(chosen) + i] = picked[i] /\ picked[i] = list[turns[i]]
        BY <1>7, <1>8, <3>6
      <4> QED
        BY <3>2, <3>5, <4>1, <4>2
    <3> QED
      BY <3>7 DEF F!Range
  <2> QED
    BY <2>1, <2>2
<1> QED
  BY <1>8, <1>12, <1>13, <1>14, <1>15, <1>16

LEMMA ByScoreIs ==
    ASSUME NEW T, NEW dlist \in Seq(T), NEW slist \in Seq(T),
           NEW all, all = F!ByScore(dlist, slist)
    PROVE  all \in Seq(T) /\ Clean(all) /\ F!Range(all) = F!Candidates(dlist, slist)
<1> DEFINE C == F!Candidates(dlist, slist)
           R == {p \in C \X C : F!Before(p[1], p[2], dlist, slist)}
<1>1. all = InOrder(C, R)
  BY SameOrder DEF F!ByScore
<1>2. Ordered(C, R)
  BY CandidatesAreOrdered
<1>3. C \subseteq T /\ NoId \notin C
  <2>1. F!Range(dlist) \subseteq T /\ F!Range(slist) \subseteq T
    BY DEF F!Range
  <2> QED
    BY <2>1 DEF F!Candidates
<1> HIDE DEF C, R
<1>4. /\ all \in Seq(C)
      /\ \A x \in C : Places(C, R)[x] \in DOMAIN all /\ all[Places(C, R)[x]] = x
      /\ \A i, j \in DOMAIN all : all[i] = all[j] => i = j
  BY <1>1, <1>2, InOrderIs
<1>5. \A i \in DOMAIN all : all[i] \in C
  BY <1>4
<1>6. F!Range(all) = C
  BY <1>4, <1>5 DEF F!Range
<1>7. all \in Seq(T)
  BY <1>3, <1>4
<1>8. Clean(all)
  BY <1>3, <1>4, <1>5 DEF Clean
<1> QED
  BY <1>6, <1>7, <1>8 DEF C

\* The final list serves every quota, as the quotas together fit in it.
LEMMA QuotasAreServed ==
    ASSUME NEW T, NEW dlist \in Seq(T), NEW slist \in Seq(T),
           NEW final, final = F!SelectWithQuotas(dlist, slist)
    PROVE  /\ final \in Seq(T) /\ Clean(final)
           /\ F!Range(final) \subseteq F!Candidates(dlist, slist)
           /\ F!Range(final) # F!Candidates(dlist, slist) => Len(final) = FinalTopK
           /\ \A r \in DOMAIN dlist : r <= DenseQuota /\ dlist[r] # NoId => dlist[r] \in F!Range(final)
           /\ \A r \in DOMAIN slist : r <= SparseQuota /\ slist[r] # NoId => slist[r] \in F!Range(final)
<1> PICK all : all = F!ByScore(dlist, slist)
  OBVIOUS
<1> PICK best : best = F!AppendFrom(<< >>, all, FusedBest)
  OBVIOUS
<1> PICK withSparse : withSparse = F!AppendFrom(best, slist, SparseQuota)
  OBVIOUS
<1> PICK withDense : withDense = F!AppendFrom(withSparse, dlist, DenseQuota)
  OBVIOUS
<1> PICK left : left = FinalTopK - Len(withDense)
  OBVIOUS
<1> PICK filled : filled = F!AppendFrom(withDense, all, left)
  OBVIOUS
<1>1. final = F!FirstOf(filled, FinalTopK)
  BY DEF F!SelectWithQuotas
<1>2. /\ FusedBest \in Nat /\ SparseQuota \in Nat /\ DenseQuota \in Nat /\ FinalTopK \in Nat
      /\ FusedBest + SparseQuota + DenseQuota <= FinalTopK
  BY SettingsAssumption DEF F!FusionSettings
<1>3. all \in Seq(T) /\ Clean(all) /\ F!Range(all) = F!Candidates(dlist, slist)
  BY ByScoreIs
<1>4. best \in Seq(T) /\ Clean(best) /\ Len(best) <= FusedBest /\ F!Range(best) \subseteq F!Range(all)
  <2>1. << >> \in Seq(T) /\ Clean(<< >>) /\ Len(<< >>) = 0 /\ F!Range(<< >>) = {}
    BY DEF Clean, F!Range
  <2>2. all \in Seq(T) /\ FusedBest \in Nat
    BY <1>2, <1>3
  <2>3. /\ best \in Seq(T) /\ Clean(best) /\ Len(best) <= Len(<< >>) + FusedBest
        /\ F!Range(best) \subseteq F!Range(<< >>) \cup F!Range(all)
    BY <2>1, <2>2, AppendFromIs
  <2> QED
    BY <2>1, <2>2, <2>3
<1>5. /\ withSparse \in Seq(T) /\ Clean(withSparse) /\ Len(withSparse) <= Len(best) + SparseQuota
      /\ F!Range(withSparse) \subseteq F!Range(best) \cup F!Range(slist)
      /\ \A r \in DOMAIN slist : r <= SparseQuota /\ slist[r] # NoId => slist[r] \in F!Range(withSparse)
  <2>1. best \in Seq(T) /\ Clean(best) /\ SparseQuota \in Nat
    BY <1>2, <1>4
  <2> QED
    BY <2>1, AppendFromIs
<1>6. /\ withDense \in Seq(T) /\ Clean(withDense) /\ Len(withDense) <= Len(withSparse) + DenseQuota
      /\ F!Range(withSparse) \subseteq F!Range(withDense)
      /\ F!Range(withDense) \subseteq F!Range(withSparse) \cup F!Range(dlist)
      /\ \A r \in DOMAIN dlist : r <= DenseQuota /\ dlist[r] # NoId => dlist[r] \in F!Range(withDense)
  <2>1. withSparse \in Seq(T) /\ Clean(withSparse) /\ DenseQuota \in Nat
    BY <1>2, <1>5
  <2> QED
    BY <2>1, AppendFromIs
<1>7. FinalTopK - Len(withDense) \in Nat /\ Len(withDense) + (FinalTopK - Len(withDense)) = FinalTopK
  <2>1. Len(best) \in Nat /\ Len(withSparse) \in Nat /\ Len(withDense) \in Nat
    BY <1>4, <1>5, <1>6
  <2>2. Len(best) <= FusedBest /\ Len(withSparse) <= Len(best) + SparseQuota
        /\ Len(withDense) <= Len(withSparse) + DenseQuota
    BY <1>4, <1>5, <1>6
  <2> QED
    BY <1>2, <2>1, <2>2
<1>8. /\ filled \in Seq(T) /\ Clean(filled) /\ Len(filled) <= FinalTopK
      /\ F!Range(withDense) \subseteq F!Range(filled)
      /\ F!Range(filled) \subseteq F!Range(withDense) \cup F!Range(all)
      /\ Len(filled) < FinalTopK => \A r \in DOMAIN all : all[r] # NoId => all[r] \in F!Range(filled)
  <2>1. left \in Nat /\ Len(withDense) + left = FinalTopK /\ filled = F!AppendFrom(withDense, all, left)
    BY <1>7
  <2>2. withDense \in Seq(T) /\ Clean(withDense) /\ all \in Seq(T)
    BY <1>3, <1>6
  <2>3. /\ filled \in Seq(T) /\ Clean(filled) /\ Len(filled) <= Len(withDense) + left
        /\ F!Range(withDense) \subseteq F!Range(filled)
        /\ F!Range(filled) \subseteq F!Range(withDense) \cup F!Range(all)
        /\ Len(filled) < Len(withDense) + left
           => \A r \in DOMAIN all : all[r] # NoId => all[r] \in F!Range(filled)
    BY <2>1, <2>2, AppendFromIs
  <2> QED
    BY <2>1, <2>3
<1>9. final = filled
  <2>1. filled \in Seq(T) /\ FinalTopK \in Nat /\ Len(filled) \in Nat /\ Len(filled) <= FinalTopK
    BY <1>2, <1>8
  <2>2. /\ final \in Seq(T) /\ Len(final) = (IF FinalTopK <= Len(filled) THEN FinalTopK ELSE Len(filled))
        /\ \A r \in 1 .. Len(final) : final[r] = filled[r]
    BY <1>1, <2>1, FirstOfIs
  <2>3. Len(final) = Len(filled)
    BY <2>1, <2>2
  <2> QED
    BY SMTT(40), <2>1, <2>2, <2>3
<1>10. F!Range(filled) \subseteq F!Candidates(dlist, slist)
  <2>1. F!Range(filled) \subseteq F!Range(all) \cup F!Range(slist) \cup F!Range(dlist)
    BY <1>4, <1>5, <1>6, <1>8
  <2>2. NoId \notin F!Range(filled)
    BY <1>8 DEF Clean, F!Range
  <2> QED
    BY <1>3, <2>1, <2>2 DEF F!Candidates
<1>11. Len(filled) < FinalTopK => F!Candidates(dlist, slist) \subseteq F!Range(filled)
  <2> SUFFICES ASSUME Len(filled) < FinalTopK, NEW r \in DOMAIN all PROVE all[r] \in F!Range(filled)
    BY <1>3 DEF F!Range
  <2>1. all[r] # NoId
    BY <1>3 DEF Clean
  <2> QED
    BY <1>8, <2>1
<1>12. F!Range(filled) # F!Candidates(dlist, slist) => Len(filled) = FinalTopK
  <2>1. Len(filled) \in Nat /\ Len(filled) <= FinalTopK
    BY <1>8
  <2>2. Len(filled) < FinalTopK => F!Range(filled) = F!Candidates(dlist, slist)
    BY <1>10, <1>11
  <2>3. Len(filled) < FinalTopK \/ Len(filled) = FinalTopK
    BY <1>2, <2>1
  <2> QED
    BY <2>2, <2>3
<1> QED
  <2>1. final \in Seq(T) /\ Clean(final) /\ F!Range(final) \subseteq F!Candidates(dlist, slist)
        /\ (F!Range(final) # F!Candidates(dlist, slist) => Len(final) = FinalTopK)
    BY <1>8, <1>9, <1>10, <1>12
  <2>2. \A r \in DOMAIN dlist : r <= DenseQuota /\ dlist[r] # NoId => dlist[r] \in F!Range(final)
    BY <1>6, <1>8, <1>9
  <2>3. \A r \in DOMAIN slist : r <= SparseQuota /\ slist[r] # NoId => slist[r] \in F!Range(final)
    BY <1>5, <1>6, <1>8, <1>9
  <2> QED
    BY <2>1, <2>2, <2>3

\* What the fused results say of the two lists.
Heard(dlist, slist, fused) ==
    LET kept == {fused[r].id : r \in DOMAIN fused}
        found == Ids(dlist) \cup Ids(slist) IN
    /\ kept \subseteq found
    /\ Cardinality(kept) = Len(fused)
    /\ kept # found => Len(fused) = FinalTopK
    /\ Ids(F!FirstOf(dlist, DenseQuota)) \subseteq kept
    /\ Ids(F!FirstOf(slist, SparseQuota)) \subseteq kept

LEMMA FusionHearsBoth ==
    ASSUME NEW T, NEW dlist \in Seq(T), NEW slist \in Seq(T)
    PROVE  Heard(dlist, slist, F!ReciprocalRankFusion(dlist, slist))
<1> PICK fused : fused = F!ReciprocalRankFusion(dlist, slist)
  OBVIOUS
<1> PICK kept : kept = {fused[r].id : r \in DOMAIN fused}
  OBVIOUS
<1> PICK final : final = F!SelectWithQuotas(dlist, slist)
  OBVIOUS
<1>1. /\ final \in Seq(T) /\ Clean(final) /\ F!Range(final) \subseteq F!Candidates(dlist, slist)
      /\ F!Range(final) # F!Candidates(dlist, slist) => Len(final) = FinalTopK
      /\ \A r \in DOMAIN dlist : r <= DenseQuota /\ dlist[r] # NoId => dlist[r] \in F!Range(final)
      /\ \A r \in DOMAIN slist : r <= SparseQuota /\ slist[r] # NoId => slist[r] \in F!Range(final)
  BY QuotasAreServed
<1>2. /\ DOMAIN fused = DOMAIN final
      /\ \A r \in DOMAIN final : fused[r].id = final[r]
  BY DEF F!ReciprocalRankFusion
<1>3. Len(fused) = Len(final) /\ DOMAIN fused = 1 .. Len(fused) /\ Len(fused) \in Nat
  <2>1. Len(final) \in Nat /\ DOMAIN final = 1 .. Len(final)
    BY <1>1
  <2>2. fused \in Seq({fused[r] : r \in DOMAIN final})
    <3>1. fused = [r \in 1 .. Len(final) |-> fused[r]]
      BY <1>2, <2>1 DEF F!ReciprocalRankFusion
    <3> QED
      BY <2>1, <3>1
  <2> QED
    BY <1>2, <2>1, <2>2
<1>4. kept = F!Range(final)
  BY <1>2 DEF F!Range
<1>5. F!Candidates(dlist, slist) = Ids(dlist) \cup Ids(slist)
  BY DEF F!Candidates, F!Range, Ids
<1>6. Cardinality(kept) = Len(fused)
  <2>1. final \in Seq(T) /\ \A i, j \in DOMAIN final : final[i] = final[j] => i = j
    BY <1>1 DEF Clean
  <2> QED
    BY <1>3, <1>4, <2>1, MembersOfList
<1>7. ASSUME NEW list \in Seq(T), NEW quota \in Nat,
             \A r \in DOMAIN list : r <= quota /\ list[r] # NoId => list[r] \in F!Range(final)
      PROVE  Ids(F!FirstOf(list, quota)) \subseteq kept
  <2> PICK first : first = F!FirstOf(list, quota)
    OBVIOUS
  <2>1. /\ first \in Seq(T) /\ Len(first) = (IF quota <= Len(list) THEN quota ELSE Len(list))
        /\ \A r \in 1 .. Len(first) : first[r] = list[r]
    BY FirstOfIs
  <2>2. ASSUME NEW r \in DOMAIN first, first[r] # NoId PROVE first[r] \in kept
    <3>1. r \in DOMAIN list /\ r <= quota /\ first[r] = list[r]
      BY <2>1
    <3> QED
      BY <1>4, <1>7, <2>2, <3>1
  <2> QED
    BY <2>2 DEF Ids
<1>8. DenseQuota \in Nat /\ SparseQuota \in Nat
  BY SettingsAssumption DEF F!FusionSettings
<1>9. /\ Ids(F!FirstOf(dlist, DenseQuota)) \subseteq kept
      /\ Ids(F!FirstOf(slist, SparseQuota)) \subseteq kept
  BY <1>1, <1>7, <1>8
<1>10. /\ kept \subseteq Ids(dlist) \cup Ids(slist)
       /\ kept # Ids(dlist) \cup Ids(slist) => Len(fused) = FinalTopK
  BY <1>1, <1>3, <1>4, <1>5
<1> QED
  BY <1>6, <1>9, <1>10 DEF Heard

-----------------------------------------------------------------------------
(* Evidence.                                                               *)

\* What the level of a chunk tells of it.
LEMMA LevelIs ==
    ASSUME NEW c
    PROVE  /\ E!SafetyLevel(c) \in {"unsafe", "caution", "safe"}
           /\ E!SafetyLevel(c) # "unsafe" => c.flags = {} /\ E!Required \cap c.missing = {}
           /\ E!SafetyLevel(c) = "safe" => E!Truncated(c) = {} /\ E!RetrievalIssues(c) = {}
           /\ c.flags = {} /\ c.missing \cap E!Required = {} /\ E!RetrievalIssues(c) = {}
              => E!SafetyLevel(c) # "unsafe"
<1> DEFINE bad == E!Has(E!Issues(c), "error")
           doubtful == E!Has(E!Issues(c), "warning")
<1>1. E!SafetyLevel(c) = CASE bad -> "unsafe" [] ~bad /\ doubtful -> "caution" [] OTHER -> "safe"
  BY DEF E!SafetyLevel
<1>2. bad <=> \E i \in E!Issues(c) : i.severity = "error"
  BY DEF E!Has
<1>3. doubtful <=> \E i \in E!Issues(c) : i.severity = "warning"
  BY DEF E!Has
<1>4. bad \in BOOLEAN /\ doubtful \in BOOLEAN
  BY DEF E!Has
<1> HIDE DEF bad, doubtful
<1>5. /\ E!SafetyLevel(c) \in {"unsafe", "caution", "safe"}
      /\ E!SafetyLevel(c) = "unsafe" <=> bad
      /\ E!SafetyLevel(c) = "safe" <=> ~bad /\ ~doubtful
  <2>1. CASE bad
    BY <1>1, <2>1
  <2>2. CASE ~bad /\ doubtful
    BY <1>1, <2>2
  <2>3. CASE ~bad /\ ~doubtful
    BY <1>1, <2>3
  <2> QED
    BY <1>4, <2>1, <2>2, <2>3
<1>6. \A i \in E!RetrievalIssues(c) : i \in E!Issues(c) /\ i.severity \in {"error", "warning"}
  BY DEF E!RetrievalIssues, E!PayloadIssues, E!RowIssues, E!MalformedFields, E!Gap, E!Issue,
         E!Issues, E!BaseIssues
<1>7. \A i \in E!Truncated(c) : i \in E!Issues(c) /\ i.severity = "warning"
  BY DEF E!Truncated, E!Issue, E!Issues
<1>8. \A f \in (E!Required \cap c.missing) \cup c.flags : \E i \in E!Issues(c) : i.severity = "error"
  <2> SUFFICES ASSUME NEW f \in (E!Required \cap c.missing) \cup c.flags
               PROVE  E!Issue(f, "error") \in E!Issues(c) /\ E!Issue(f, "error").severity = "error"
    OBVIOUS
  <2> QED
    BY DEF E!Issue, E!Issues, E!BaseIssues
<1>9. E!Issues(c) = E!BaseIssues(c) \cup E!Truncated(c) \cup E!AuxiliaryIssue(c)
  BY DEF E!Issues
<1>10. \A i \in E!AuxiliaryIssue(c) : i.severity = "warning"
  BY DEF E!AuxiliaryIssue, E!Issue
<1>11. ASSUME c.flags = {}, c.missing \cap E!Required = {}, E!RetrievalIssues(c) = {}
       PROVE  ~bad
  <2>1. E!BaseIssues(c) = {}
    BY <1>11 DEF E!BaseIssues
  <2> QED
    BY <1>2, <1>7, <1>9, <1>10, <2>1
<1>12. E!SafetyLevel(c) # "unsafe" => c.flags = {} /\ E!Required \cap c.missing = {}
  BY <1>2, <1>5, <1>8
<1>13. E!SafetyLevel(c) = "safe" => E!Truncated(c) = {} /\ E!RetrievalIssues(c) = {}
  BY <1>2, <1>3, <1>5, <1>6, <1>7
<1> QED
  BY <1>5, <1>11, <1>12, <1>13

\* A packet of a bundle: it has a retrieved chunk that is safe to show, and
\* what is known against the chunk.
PacketOf(p, chunks) ==
    \E k \in DOMAIN chunks :
      /\ p.chunk = chunks[k]
      /\ p.level = E!SafetyLevel(chunks[k]) /\ p.level # "unsafe"
      /\ p.citable = ("text" \notin chunks[k].missing /\ p.level # "unsafe")
      /\ E!Issues(chunks[k]) \subseteq p.issues

LEMMA PacketIs ==
    ASSUME NEW chunks, NEW k \in DOMAIN chunks, NEW q,
           q = E!Packet(chunks[k]) \/ q = E!Deduplicated(E!Packet(chunks[k])),
           E!Packet(chunks[k]).level # "unsafe"
    PROVE  PacketOf(q, chunks)
<1> DEFINE c == chunks[k]
<1>1. /\ E!Packet(c).chunk = c /\ E!Packet(c).level = E!SafetyLevel(c)
      /\ E!Packet(c).citable = ("text" \notin c.missing /\ E!SafetyLevel(c) # "unsafe")
      /\ E!Packet(c).issues = E!Issues(c)
  BY DEF E!Packet
<1>2. ASSUME q = E!Deduplicated(E!Packet(c))
      PROVE  /\ q.chunk = E!Packet(c).chunk /\ q.level = E!Packet(c).level
             /\ q.citable = E!Packet(c).citable /\ E!Packet(c).issues \subseteq q.issues
  BY <1>2 DEF E!Deduplicated, E!Packet
<1> HIDE DEF c
<1>3. /\ q.chunk = c /\ q.level = E!SafetyLevel(c) /\ q.level # "unsafe"
      /\ q.citable = ("text" \notin c.missing /\ q.level # "unsafe")
      /\ E!Issues(c) \subseteq q.issues
  <2>1. CASE q = E!Packet(c)
    BY <1>1, <2>1 DEF c
  <2>2. CASE q = E!Deduplicated(E!Packet(c))
    BY <1>1, <1>2, <2>2 DEF c
  <2> QED
    BY <2>1, <2>2 DEF c
<1> QED
  BY <1>3 DEF PacketOf, c

Start == [packets |-> << >>, ids |-> {}, parents |-> {}]

\* The function that defines BundleOf, spelt out.
LEMMA BundleDef ==
    ASSUME NEW T, NEW chunks \in Seq(T)
    PROVE  /\ E!BundleOf(chunks, 0) = Start
           /\ \A n \in 1 .. Len(chunks) :
                E!BundleOf(chunks, n) = E!AddChunk(E!BundleOf(chunks, n - 1), chunks[n])
<1> DEFINE Body(g, i) == IF i = 0 THEN [packets |-> << >>, ids |-> {}, parents |-> {}]
                         ELSE E!AddChunk(g[i - 1], chunks[i])
           Def(n) == \E g : g = [i \in 0 .. n |-> Body(g, i)]
           Open == {n \in Nat : ~ Def(n)}
<1>1. Open = {}
  <2> SUFFICES ASSUME Open # {} PROVE FALSE
    OBVIOUS
  <2>1. PICK m \in Open : \A k \in Open : m <= k
    BY LeastNumber
  <2>2. CASE m = 0
    <3> DEFINE h == [i \in 0 .. 0 |-> [packets |-> << >>, ids |-> {}, parents |-> {}]]
    <3>1. h = [i \in 0 .. 0 |-> Body(h, i)]
      BY SMT
    <3> QED
      BY <2>1, <2>2, <3>1
  <2>3. CASE m # 0
    <3>1. m - 1 \in Nat /\ m - 1 \notin Open
      <4>1. Open \subseteq Nat
        OBVIOUS
      <4> HIDE DEF Open
      <4> QED
        BY <2>1, <2>3, <4>1
    <3>2. PICK g : g = [i \in 0 .. m - 1 |-> Body(g, i)]
      BY <3>1
    <3> DEFINE h == [i \in 0 .. m |-> IF i < m THEN g[i] ELSE Body(g, m)]
    <3>3. \A i \in 0 .. m : h[i] = Body(h, i)
      <4> SUFFICES ASSUME NEW i \in 0 .. m PROVE h[i] = Body(h, i)
        OBVIOUS
      <4>1. i # 0 => h[i - 1] = g[i - 1]
        BY <2>1
      <4>2. Body(h, i) = Body(g, i)
        BY <4>1
      <4>3. i < m => g[i] = Body(g, i)
        <5>1. m \in Nat
          OBVIOUS
        <5> HIDE DEF Body, Open
        <5> QED
          BY <3>2, <5>1
      <4> QED
        BY <4>2, <4>3, <2>1
    <3>4. h = [i \in 0 .. m |-> Body(h, i)]
      BY <3>3
    <3> QED
      BY <2>1, <3>4
  <2> QED
    BY <2>2, <2>3
<1>2. Len(chunks) \in Nat
  OBVIOUS
<1>3. \E g : g = [i \in 0 .. Len(chunks) |-> Body(g, i)]
  BY <1>1, <1>2
<1> DEFINE f == CHOOSE g : g = [i \in 0 .. Len(chunks) |-> Body(g, i)]
<1>4. f = [i \in 0 .. Len(chunks) |-> Body(f, i)]
  BY <1>3
<1>5. \A n : E!BundleOf(chunks, n) = f[n]
  BY DEF E!BundleOf
<1> HIDE DEF f
<1>6. \A i \in 0 .. Len(chunks) : f[i] = Body(f, i)
  <2> HIDE DEF Body
  <2> QED
    BY <1>4
<1>7. E!BundleOf(chunks, 0) = Start
  BY <1>2, <1>5, <1>6 DEF Start
<1>8. ASSUME NEW n \in 1 .. Len(chunks)
      PROVE  E!BundleOf(chunks, n) = E!AddChunk(E!BundleOf(chunks, n - 1), chunks[n])
  <2>1. f[n] = E!AddChunk(f[n - 1], chunks[n])
    <3>1. n \in 0 .. Len(chunks) /\ n # 0
      BY <1>2
    <3>2. f[n] = Body(f, n)
      <4> HIDE DEF Body
      <4> QED
        BY <1>6, <3>1
    <3> QED
      BY <3>1, <3>2, Zenon
  <2> QED
    BY <1>5, <2>1
<1> QED
  BY <1>7, <1>8

\* What the loop over the chunks has collected after n of them: packets worth
\* showing, the ids it saw, and something if there was anything usable.
Worth(chunks, k) ==
    /\ E!SafetyLevel(chunks[k]) # "unsafe"
    /\ \A q \in 1 .. k - 1 : chunks[q].id # chunks[k].id

BundleInv(bundle, chunks, n) ==
    /\ bundle.packets \in Seq(E!Range(bundle.packets))
    /\ \A i \in DOMAIN bundle.packets : PacketOf(bundle.packets[i], chunks)
    /\ bundle.ids \subseteq {chunks[q].id : q \in 1 .. n}
    /\ \A k \in 1 .. n : Worth(chunks, k) => Len(bundle.packets) > 0

LEMMA AddChunkIs ==
    ASSUME NEW T, NEW chunks \in Seq(T), NEW n \in 1 .. Len(chunks), NEW bundle,
           BundleInv(bundle, chunks, n - 1)
    PROVE  BundleInv(E!AddChunk(bundle, chunks[n]), chunks, n)
<1> DEFINE c == chunks[n]
           p == E!Packet(c)
           again == p.aux # E!None /\ p.aux \in bundle.parents
           q == IF again THEN E!Deduplicated(p) ELSE p
           skipped == Len(bundle.packets) >= MaxPackets \/ (c.id # NoId /\ c.id \in bundle.ids)
           next == E!AddChunk(bundle, c)
<1>1. /\ bundle.packets \in Seq(E!Range(bundle.packets)) /\ Len(bundle.packets) \in Nat
      /\ \A i \in DOMAIN bundle.packets : PacketOf(bundle.packets[i], chunks)
      /\ bundle.ids \subseteq {chunks[k].id : k \in 1 .. n - 1}
      /\ \A k \in 1 .. n - 1 : Worth(chunks, k) => Len(bundle.packets) > 0
  BY DEF BundleInv
<1>2. skipped => next = bundle
  BY DEF E!AddChunk
<1>3. ~skipped => /\ next.packets = IF p.level = "unsafe" THEN bundle.packets ELSE Append(bundle.packets, q)
                  /\ next.ids = bundle.ids \cup {c.id}
  BY DEF E!AddChunk
<1>4. p.level = E!SafetyLevel(c)
  BY DEF E!Packet
<1>5. q = p \/ q = E!Deduplicated(p)
  OBVIOUS
<1>6. n \in DOMAIN chunks /\ n \in Nat \ {0}
  OBVIOUS
<1>7. p.level # "unsafe" => PacketOf(q, chunks)
  BY <1>5, <1>6, PacketIs
<1>8. MaxPackets \in Nat \ {0}
  BY SettingsAssumption DEF E!EvidenceSettings
<1>9. \A k \in 1 .. n : k \in 1 .. n - 1 \/ k = n
  BY <1>6
<1>10. \A k \in 1 .. n - 1 : k \in 1 .. n
  BY <1>6
<1> HIDE DEF p, q, again
<1>11. CASE skipped
  <2>1. bundle.ids \subseteq {chunks[k].id : k \in 1 .. n}
    BY <1>1, <1>10
  <2>2. Worth(chunks, n) => Len(bundle.packets) > 0
    <3>1. Worth(chunks, n) => ~ (c.id \in bundle.ids)
      BY <1>1 DEF Worth
    <3>2. Worth(chunks, n) => Len(bundle.packets) >= MaxPackets
      BY <1>11, <3>1
    <3> QED
      BY <1>1, <1>8, <3>2
  <2>3. \A k \in 1 .. n : Worth(chunks, k) => Len(bundle.packets) > 0
    BY <1>1, <1>9, <2>2
  <2> QED
    BY <1>1, <1>2, <1>11, <2>1, <2>3 DEF BundleInv
<1>12. CASE ~skipped /\ p.level = "unsafe"
  <2>1. next.packets = bundle.packets /\ next.ids = bundle.ids \cup {c.id}
    BY <1>3, <1>12
  <2>2. ~Worth(chunks, n)
    BY <1>4, <1>12 DEF Worth
  <2>3. next.ids \subseteq {chunks[k].id : k \in 1 .. n}
    BY <1>1, <1>6, <1>10, <2>1
  <2>4. \A k \in 1 .. n : Worth(chunks, k) => Len(next.packets) > 0
    BY <1>1, <1>9, <2>1, <2>2
  <2> HIDE DEF next
  <2> QED
    BY <1>1, <2>1, <2>3, <2>4 DEF BundleInv, next
<1>13. CASE ~skipped /\ p.level # "unsafe"
  <2>1. next.packets = Append(bundle.packets, q) /\ next.ids = bundle.ids \cup {c.id}
    BY <1>3, <1>13
  <2>2. PacketOf(q, chunks)
    BY <1>7, <1>13
  <2>3. next.ids \subseteq {chunks[k].id : k \in 1 .. n}
    BY <1>1, <1>6, <1>10, <2>1
  <2> HIDE DEF next
  <2>4. /\ Len(next.packets) = Len(bundle.packets) + 1
        /\ \A i \in 1 .. Len(bundle.packets) : next.packets[i] = bundle.packets[i]
        /\ next.packets[Len(bundle.packets) + 1] = q
        /\ DOMAIN next.packets = 1 .. Len(bundle.packets) + 1
    BY <1>1, <2>1
  <2>5. next.packets \in Seq(E!Range(next.packets))
    <3>1. next.packets \in [1 .. Len(bundle.packets) + 1 -> E!Range(next.packets)]
      <4>1. \A i \in DOMAIN next.packets : next.packets[i] \in E!Range(next.packets)
        BY DEF E!Range
      <4>2. next.packets = [i \in DOMAIN next.packets |-> next.packets[i]]
        BY <1>1, <2>1
      <4> QED
        BY <2>4, <4>1, <4>2
    <3> QED
      BY <1>1, <3>1
  <2>6. \A i \in DOMAIN next.packets : PacketOf(next.packets[i], chunks)
    <3> SUFFICES ASSUME NEW i \in DOMAIN next.packets PROVE PacketOf(next.packets[i], chunks)
      OBVIOUS
    <3>1. i \in 1 .. Len(bundle.packets) \/ i = Len(bundle.packets) + 1
      BY <1>1, <2>4
    <3>2. i \in 1 .. Len(bundle.packets) => i \in DOMAIN bundle.packets
      BY <1>1
    <3> QED
      BY <1>1, <2>2, <2>4, <3>1, <3>2
  <2>7. \A k \in 1 .. n : Worth(chunks, k) => Len(next.packets) > 0
    BY <1>1, <2>4
  <2> QED
    BY <2>3, <2>5, <2>6, <2>7 DEF BundleInv, next
<1> QED
  BY <1>11, <1>12, <1>13

LEMMA BundleIs ==
    ASSUME NEW T, NEW chunks \in Seq(T), NEW found, found = E!EvidenceBundle(chunks)
    PROVE  /\ found \in Seq(E!Range(found))
           /\ \A i \in DOMAIN found : PacketOf(found[i], chunks)
           /\ \A k \in DOMAIN chunks : Worth(chunks, k) => Len(found) > 0
<1> DEFINE Wrong == {n \in Nat : n <= Len(chunks) /\ ~BundleInv(E!BundleOf(chunks, n), chunks, n)}
<1>1. Wrong = {}
  <2> SUFFICES ASSUME Wrong # {} PROVE FALSE
    OBVIOUS
  <2>1. PICK m \in Wrong : \A k \in Wrong : m <= k
    BY LeastNumber
  <2>2. m \in Nat /\ m <= Len(chunks) /\ ~BundleInv(E!BundleOf(chunks, m), chunks, m)
    OBVIOUS
  <2>3. BundleInv(Start, chunks, 0)
    <3>1. << >> \in Seq(E!Range(<< >>)) /\ DOMAIN << >> = {} /\ 1 .. 0 = {}
      OBVIOUS
    <3>2. Start.packets = << >> /\ Start.ids = {}
      BY DEF Start
    <3> QED
      BY <3>1, <3>2 DEF BundleInv
  <2>4. m # 0
    BY <2>2, <2>3, BundleDef
  <2>5. m \in 1 .. Len(chunks) /\ m - 1 \in Nat /\ m - 1 <= Len(chunks) /\ ~ (m <= m - 1)
    BY <2>2, <2>4
  <2>6. BundleInv(E!BundleOf(chunks, m - 1), chunks, m - 1)
    BY <2>1, <2>5
  <2>7. E!BundleOf(chunks, m) = E!AddChunk(E!BundleOf(chunks, m - 1), chunks[m])
    BY <2>5, BundleDef
  <2> HIDE DEF Wrong
  <2> QED
    BY <2>2, <2>5, <2>6, <2>7, AddChunkIs
<1>2. BundleInv(E!BundleOf(chunks, Len(chunks)), chunks, Len(chunks))
  <2>1. Len(chunks) \in Nat /\ Len(chunks) <= Len(chunks)
    OBVIOUS
  <2> QED
    BY <1>1, <2>1
<1>3. found = E!BundleOf(chunks, Len(chunks)).packets
  BY DEF E!EvidenceBundle
<1>4. DOMAIN chunks = 1 .. Len(chunks)
  OBVIOUS
<1> QED
  BY <1>2, <1>3, <1>4 DEF BundleInv

-----------------------------------------------------------------------------
(* Selection and decision.                                                 *)

\* The ranks of the chunks are numbers.
Ranked(found) == \A i \in DOMAIN found : found[i].chunk.rank \in Nat

\* Safety first, then rank, then place: one order of the packets.
LEMMA PreferenceIsAnOrder ==
    ASSUME NEW T, NEW found \in Seq(T), Ranked(found), NEW S \in SUBSET DOMAIN found
    PROVE  Ordered(S, {p \in S \X S : E!Preferred(found, p[1], p[2])})
<1> DEFINE R == {p \in S \X S : E!Preferred(found, p[1], p[2])}
           side(i) == IF found[i].level = "safe" THEN 0 ELSE 1
           rank(i) == found[i].chunk.rank
<1>1. IsFiniteSet(S) /\ S \subseteq Nat
  <2>1. DOMAIN found = 1 .. Len(found) /\ Len(found) \in Nat
    OBVIOUS
  <2>2. IsFiniteSet(1 .. Len(found))
    BY <2>1, UpTo
  <2>3. S \in SUBSET (1 .. Len(found))
    BY <2>1
  <2>4. IsFiniteSet(S)
    BY <2>2, <2>3, FS_Subset
  <2> QED
    BY <2>3, <2>4
<1>2. \A i \in S : rank(i) \in Nat /\ side(i) \in {0, 1} /\ i \in Nat
  BY <1>1 DEF Ranked
<1>3. \A i, j \in S : <<i, j>> \in R <=>
        \/ side(i) < side(j)
        \/ side(i) = side(j) /\ (rank(i) < rank(j) \/ (rank(i) = rank(j) /\ i < j))
  <2> SUFFICES ASSUME NEW i \in S, NEW j \in S
               PROVE  E!Preferred(found, i, j) <=>
                        \/ side(i) < side(j)
                        \/ side(i) = side(j) /\ (rank(i) < rank(j) \/ (rank(i) = rank(j) /\ i < j))
    OBVIOUS
  <2>1. CASE found[i].level = "safe" /\ found[j].level = "safe"
    BY <2>1 DEF E!Preferred
  <2>2. CASE found[i].level = "safe" /\ found[j].level # "safe"
    BY <2>2 DEF E!Preferred
  <2>3. CASE found[i].level # "safe" /\ found[j].level = "safe"
    BY <2>3 DEF E!Preferred
  <2>4. CASE found[i].level # "safe" /\ found[j].level # "safe"
    BY <2>4 DEF E!Preferred
  <2> QED
    BY <2>1, <2>2, <2>3, <2>4
<1> HIDE DEF R, side, rank
<1>4. \A x \in S : <<x, x>> \notin R
  BY <1>2, <1>3
<1>5. ASSUME NEW x \in S, NEW y \in S PROVE x = y \/ <<x, y>> \in R \/ <<y, x>> \in R
  BY <1>2, <1>3
<1>6. ASSUME NEW x \in S, NEW y \in S, NEW z \in S, <<x, y>> \in R, <<y, z>> \in R
      PROVE  <<x, z>> \in R
  BY SMTT(40), <1>2, <1>3, <1>6
<1>7. Ordered(S, R)
  BY <1>1, <1>4, <1>5, <1>6 DEF Ordered
<1> QED
  BY <1>7 DEF R

\* A packet of a bundle is never rejected, so the selection is empty only if
\* the bundle is, and it holds packets of the bundle.
LEMMA SelectedIs ==
    ASSUME NEW chunks, NEW found, found \in Seq(E!Range(found)), Ranked(found),
           \A i \in DOMAIN found : PacketOf(found[i], chunks),
           NEW chosen, chosen = E!Selected(found)
    PROVE  /\ chosen \in Seq(E!Range(found))
           /\ \A n \in DOMAIN chosen : PacketOf(chosen[n], chunks) /\ ~E!Rejected(chosen[n])
           /\ Len(found) > 0 <=> Len(chosen) > 0
<1> DEFINE kept == {i \in DOMAIN found : ~E!Rejected(found[i])}
           R == {p \in kept \X kept : E!Preferred(found, p[1], p[2])}
<1> PICK order : order = E!InOrder(kept, R)
  OBVIOUS
<1>1. chosen = [n \in 1 .. E!Min({MaxSelected, Len(order)}) |-> found[order[n]]]
  BY DEF E!Selected
<1>2. \A i \in DOMAIN found : ~E!Rejected(found[i])
  <2> SUFFICES ASSUME NEW i \in DOMAIN found PROVE ~E!Rejected(found[i])
    OBVIOUS
  <2>1. PICK k \in DOMAIN chunks :
          /\ found[i].chunk = chunks[k]
          /\ found[i].level = E!SafetyLevel(chunks[k]) /\ found[i].level # "unsafe"
          /\ found[i].citable = ("text" \notin chunks[k].missing /\ found[i].level # "unsafe")
    BY DEF PacketOf
  <2>2. E!Required \cap chunks[k].missing = {}
    BY <2>1, LevelIs
  <2>3. "text" \notin chunks[k].missing
    BY <2>2 DEF E!Required
  <2> QED
    BY <2>1, <2>2, <2>3 DEF E!Rejected
<1>3. kept = DOMAIN found
  BY <1>2
<1>4. Ordered(kept, R)
  BY PreferenceIsAnOrder
<1> HIDE DEF kept, R
<1>5. /\ order \in Seq(kept) /\ Len(order) = Cardinality(kept) /\ Cardinality(kept) \in Nat
      /\ \A x \in kept : Places(kept, R)[x] \in DOMAIN order
  BY <1>4, InOrderIs, SameOrder
<1>6. MaxSelected \in Nat \ {0} /\ Len(order) \in Nat
  BY <1>5, SettingsAssumption DEF E!EvidenceSettings
<1> PICK N : N = E!Min({MaxSelected, Len(order)})
  OBVIOUS
<1>7. N \in Nat /\ N <= Len(order) /\ (Len(order) > 0 => N > 0)
  <2>1. \E x \in {MaxSelected, Len(order)} : \A y \in {MaxSelected, Len(order)} : x <= y
    BY <1>6
  <2>2. N \in {MaxSelected, Len(order)} /\ \A y \in {MaxSelected, Len(order)} : N <= y
    BY <2>1 DEF E!Min
  <2> QED
    BY <1>6, <2>2
<1>8. DOMAIN chosen = 1 .. N /\ \A n \in 1 .. N : chosen[n] = found[order[n]] /\ order[n] \in DOMAIN found
  <2>1. \A n \in 1 .. N : order[n] \in kept
    BY <1>5, <1>7
  <2> QED
    BY <1>1, <1>3, <2>1
<1>9. chosen \in Seq(E!Range(found)) /\ Len(chosen) = N
  <2>1. \A n \in 1 .. N : chosen[n] \in E!Range(found)
    BY <1>8 DEF E!Range
  <2>2. chosen \in [1 .. N -> E!Range(found)]
    BY <1>1, <1>8, <2>1
  <2>3. N \in Nat
    BY <1>7
  <2> QED
    BY <2>2, <2>3, ListOf
<1>10. Len(found) > 0 => Len(order) > 0
  <2> SUFFICES ASSUME Len(found) > 0 PROVE Len(order) > 0
    OBVIOUS
  <2>1. 1 \in kept
    BY <1>3
  <2>2. DOMAIN order = 1 .. Len(order) /\ Places(kept, R)[1] \in DOMAIN order
    BY <1>5, <2>1
  <2> QED
    BY <1>6, <2>2
<1>11. Len(chosen) > 0 => Len(found) > 0
  <2> SUFFICES ASSUME Len(chosen) > 0 PROVE Len(found) > 0
    OBVIOUS
  <2>1. 1 \in 1 .. N
    BY <1>7, <1>9
  <2>2. order[1] \in DOMAIN found
    BY <1>8, <2>1
  <2> QED
    BY <2>2
<1> QED
  BY <1>2, <1>7, <1>8, <1>9, <1>10, <1>11

\* The decision is a fallback only where nothing was found, and a plain answer
\* only where something selected is neither cut short nor doubtful.
Drawn(chosen, found, chunks) ==
    /\ \A n \in DOMAIN chosen : PacketOf(chosen[n], chunks)
    /\ Len(found) > 0 <=> Len(chosen) > 0
Decided(decision, found, chosen) ==
    /\ decision \in {"answer_allowed", "answer_with_caution_allowed", "fallback_required"}
    /\ decision = "fallback_required" <=> Len(found) = 0
    /\ decision # "fallback_required" => Len(chosen) > 0
    /\ decision = "answer_allowed"
       => \E n \in DOMAIN chosen : /\ E!Truncated(chosen[n].chunk) = {}
                                   /\ E!RetrievalIssues(chosen[n].chunk) = {}

LEMMA DecisionIs ==
    ASSUME NEW chunks, NEW S, NEW found \in Seq(S), NEW chosen \in Seq(S),
           Drawn(chosen, found, chunks)
    PROVE  Decided(E!Decision(found, chosen), found, chosen)
<1> PICK decision : decision = E!Decision(found, chosen)
  OBVIOUS
<1> SUFFICES Decided(decision, found, chosen)
  OBVIOUS
<1>0. /\ \A n \in DOMAIN chosen : PacketOf(chosen[n], chunks)
      /\ Len(found) > 0 <=> Len(chosen) > 0
  BY DEF Drawn
<1> DEFINE reasons == E!Reasons(found, chosen)
           caution == \A n \in DOMAIN chosen : chosen[n].level = "caution"
           parents == \A n \in DOMAIN chosen : E!ParentOnly(chosen[n])
           auxiliary == \A n \in DOMAIN chosen : E!OnlyAuxiliaryCaution(chosen[n])
<1>1. reasons = CASE found = << >> -> {"no_evidence"}
                  [] found # << >> /\ chosen = << >> -> {"no_citable_evidence"}
                  [] chosen # << >> /\ caution /\ parents -> {"parent_context_only"}
                  [] chosen # << >> /\ caution /\ auxiliary -> {}
                  [] chosen # << >> /\ caution /\ (\E n \in DOMAIN chosen : ~E!OnlyAuxiliaryCaution(chosen[n]))
                       -> {"all_selected_evidence_caution"}
                  [] OTHER -> {}
  BY DEF E!Reasons
<1>2. decision = CASE reasons = {} -> "answer_allowed"
                   [] reasons \cap E!HardFallback # {} -> "fallback_required"
                   [] OTHER -> "answer_with_caution_allowed"
  BY DEF E!Decision
<1>3. Len(found) \in Nat /\ (Len(found) = 0 <=> found = << >>)
  OBVIOUS
<1>4. Len(chosen) \in Nat /\ (Len(chosen) = 0 <=> chosen = << >>) /\ DOMAIN chosen = 1 .. Len(chosen)
  OBVIOUS
<1>5. ASSUME NEW n \in DOMAIN chosen
      PROVE  /\ ~E!ParentOnly(chosen[n])
             /\ chosen[n].level \in {"safe", "caution"}
             /\ chosen[n].level = "safe" \/ E!OnlyAuxiliaryCaution(chosen[n])
                => /\ E!Truncated(chosen[n].chunk) = {}
                   /\ E!RetrievalIssues(chosen[n].chunk) = {}
  <2>1. PICK k \in DOMAIN chunks :
          /\ chosen[n].chunk = chunks[k]
          /\ chosen[n].level = E!SafetyLevel(chunks[k]) /\ chosen[n].level # "unsafe"
          /\ chosen[n].citable = ("text" \notin chunks[k].missing /\ chosen[n].level # "unsafe")
          /\ E!Issues(chunks[k]) \subseteq chosen[n].issues
    BY <1>0 DEF PacketOf
  <2>2. chosen[n].citable
    <3>1. "text" \notin chunks[k].missing
      BY <2>1, LevelIs DEF E!Required
    <3> QED
      BY <2>1, <3>1
  <2>3. ~E!ParentOnly(chosen[n])
    BY <2>2 DEF E!ParentOnly
  <2>4. chosen[n].level \in {"safe", "caution"}
    BY <2>1, LevelIs
  <2>5. ASSUME E!OnlyAuxiliaryCaution(chosen[n])
        PROVE  E!Truncated(chunks[k]) = {} /\ E!RetrievalIssues(chunks[k]) = {}
    <3>1. \A i \in E!Issues(chunks[k]) :
            i.code \in {"parent_context_auxiliary_only", "parent_context_deduplicated"}
      BY <2>1, <2>5 DEF E!OnlyAuxiliaryCaution
    <3>2. \A i \in E!Truncated(chunks[k]) : i \in E!Issues(chunks[k]) /\ i.code = "truncated"
      BY DEF E!Truncated, E!Issue, E!Issues
    <3>3. \A i \in E!RetrievalIssues(chunks[k]) : i \in E!Issues(chunks[k]) /\ i.code = "retrieval_issue"
      BY DEF E!RetrievalIssues, E!PayloadIssues, E!RowIssues, E!MalformedFields, E!Gap, E!Issue,
             E!Issues, E!BaseIssues
    <3> QED
      BY <3>1, <3>2, <3>3
  <2>6. chosen[n].level = "safe" => E!Truncated(chunks[k]) = {} /\ E!RetrievalIssues(chunks[k]) = {}
    BY <2>1, LevelIs
  <2> QED
    BY <2>1, <2>3, <2>4, <2>5, <2>6
<1> HIDE DEF reasons
<1>6. CASE found = << >>
  <2>0. chosen = << >>
    BY <1>0, <1>3, <1>4, <1>6
  <2>1. reasons = {"no_evidence"}
    BY <1>1, <1>6, <2>0
  <2>2. decision = "fallback_required"
    BY <1>2, <2>1 DEF E!HardFallback
  <2> QED
    BY <1>3, <1>6, <2>2 DEF Decided
<1>7. CASE found # << >>
  <2>1. Len(chosen) > 0 /\ chosen # << >> /\ 1 \in DOMAIN chosen
    BY <1>0, <1>3, <1>4, <1>7
  <2>2. ~parents
    BY <1>5, <2>1
  <2>3. CASE caution /\ auxiliary
    <3>1. reasons = {}
      BY <1>1, <1>7, <2>1, <2>2, <2>3
    <3>2. decision = "answer_allowed"
      BY <1>2, <3>1
    <3> QED
      BY <1>3, <1>5, <1>7, <2>1, <2>3, <3>2 DEF Decided
  <2>4. CASE caution /\ ~auxiliary
    <3>1. reasons = {"all_selected_evidence_caution"}
      BY <1>1, <1>7, <2>1, <2>2, <2>4
    <3>2. decision = "answer_with_caution_allowed"
      BY <1>2, <3>1 DEF E!HardFallback
    <3> QED
      BY <1>3, <1>7, <2>1, <3>2 DEF Decided
  <2>5. CASE ~caution
    <3>1. reasons = {}
      BY <1>1, <1>7, <2>1, <2>2, <2>5
    <3>2. decision = "answer_allowed"
      BY <1>2, <3>1
    <3>3. PICK n \in DOMAIN chosen : chosen[n].level # "caution"
      BY <2>5
    <3>4. chosen[n].level = "safe"
      BY <1>5, <3>3
    <3> QED
      BY <1>3, <1>5, <1>7, <2>1, <3>2, <3>4 DEF Decided
  <2> QED
    BY <2>3, <2>4, <2>5
<1> QED
  BY <1>6, <1>7

-----------------------------------------------------------------------------
(* The states of a question.                                               *)

ChunkFits(c) ==
    /\ c.missing \subseteq {"chunk_id", "law_id", "citation", "source_url", "text"}
    /\ "chunk_id" \in c.missing => c.id = NoId
    /\ c.rank \in Nat

Listed == results \in Seq(E!Range(results))

FusedInv ==
    /\ Listed /\ \A r \in DOMAIN results : results[r].rank \in Nat
    /\ mode = "hybrid" => /\ denseList \in DenseLists /\ sparseList \in SparseLists
                          /\ results = F!ReciprocalRankFusion(denseList, sparseList)

Verdict == E!Decision(packets, selected)
Reply == IF WorkflowResult = Fallback \/ MetadataIssues(WorkflowResult.citations)
         THEN Fallback ELSE WorkflowResult

GatedInv ==
    /\ Listed /\ \A r \in DOMAIN results : ChunkFits(results[r])
    /\ packets = E!EvidenceBundle(results) /\ selected = E!Selected(packets)
    /\ \/ phase = "done" /\ Verdict = "fallback_required" /\ response = Fallback
       \/ /\ Verdict # "fallback_required" /\ prompt = E!PromptEvidence(selected)
          /\ phase = "unavailable" => response = Fallback
          /\ phase = "done" => response = Reply

\* The inductive invariant: what every phase knows of the steps before it.
RagInv ==
    /\ phase \in {"asked", "fused", "failed", "prompted", "generated", "unavailable", "done"}
    /\ phase \in {"asked", "fused", "failed", "prompted", "generated"} => response = NotAnswered
    /\ phase = "fused" => FusedInv
    /\ phase \in {"prompted", "generated", "unavailable", "done"} => GatedInv

LEMMA RagInitially == RagInit => RagInv
BY DEF RagInit, RagInv

\* The lists of a query are lists.
LEMMA ListsFit ==
    ASSUME NEW dlist \in DenseLists, NEW slist \in SparseLists
    PROVE  /\ dlist \in Seq(F!Range(dlist) \cup F!Range(slist))
           /\ slist \in Seq(F!Range(dlist) \cup F!Range(slist))
           /\ slist \in Seq(F!Range(slist))
<1>1. dlist \in Seq(F!Range(dlist)) /\ slist \in Seq(F!Range(slist))
  BY ListsAssumption
<1> QED
  BY <1>1

\* A function on 1 .. N is a list of its values.
LEMMA ListOfItself ==
    ASSUME NEW N \in Nat, NEW f, f = [i \in 1 .. N |-> f[i]]
    PROVE  f \in Seq(E!Range(f)) /\ Len(f) = N /\ DOMAIN f = 1 .. N
<1>1. DOMAIN f = 1 .. N
  OBVIOUS
<1>2. f \in [1 .. N -> E!Range(f)]
  BY <1>1 DEF E!Range
<1> QED
  BY <1>1, <1>2, ListOf

LEMMA RetrieveKeeps ==
    ASSUME RagInv, Retrieve PROVE RagInv'
<1>1. /\ phase = "asked" /\ phase' = "fused" /\ mode' = "hybrid"
      /\ denseList' \in DenseLists /\ sparseList' \in SparseLists
      /\ results' = F!ReciprocalRankFusion(denseList', sparseList')
      /\ response' = response
  BY DEF Retrieve
<1> PICK final : final = F!SelectWithQuotas(denseList', sparseList')
  OBVIOUS
<1> PICK N : N = Len(final)
  OBVIOUS
<1>2. final \in Seq(F!Range(denseList') \cup F!Range(sparseList'))
  BY <1>1, ListsFit, QuotasAreServed
<1>3. N \in Nat /\ DOMAIN final = 1 .. N
  BY <1>2
<1>4. results' = [r \in 1 .. N |-> LET id == final[r] IN
                                   [id |-> id, copy |-> F!CopyOf(id, denseList'), rank |-> r]]
  BY <1>1, <1>3 DEF F!ReciprocalRankFusion
<1>5. results' = [r \in 1 .. N |-> results'[r]] /\ \A r \in 1 .. N : results'[r].rank = r
  BY <1>4
<1>6. results' \in Seq(E!Range(results')) /\ DOMAIN results' = 1 .. N
  BY <1>3, <1>5, ListOfItself
<1>7. FusedInv'
  BY <1>1, <1>3, <1>5, <1>6 DEF FusedInv, Listed
<1> QED
  BY <1>1, <1>7 DEF RagInv

LEMMA FallBackToSparseKeeps ==
    ASSUME RagInv, FallBackToSparse PROVE RagInv'
<1>1. PICK list \in SparseLists :
        /\ sparseList' = F!FirstOf(list, FinalTopK)
        /\ results' = [r \in DOMAIN sparseList' |-> [id |-> sparseList'[r], copy |-> "sparse", rank |-> r]]
  BY DEF FallBackToSparse
<1>2. phase = "asked" /\ phase' = "fused" /\ mode' = "sparse_only" /\ response' = response
  BY DEF FallBackToSparse
<1> PICK N : N = Len(sparseList')
  OBVIOUS
<1>3. N \in Nat /\ DOMAIN sparseList' = 1 .. N
  <2>1. list \in Seq(F!Range(list)) /\ FinalTopK \in Nat
    BY ListsAssumption, SettingsAssumption DEF F!FusionSettings
  <2>2. sparseList' \in Seq(F!Range(list))
    BY <1>1, <2>1, FirstOfIs
  <2> QED
    BY <2>2
<1>4. results' = [r \in 1 .. N |-> results'[r]] /\ \A r \in 1 .. N : results'[r].rank = r
  BY <1>1, <1>3
<1>5. results' \in Seq(E!Range(results')) /\ DOMAIN results' = 1 .. N
  BY <1>3, <1>4, ListOfItself
<1>6. FusedInv'
  BY <1>2, <1>3, <1>4, <1>5 DEF FusedInv, Listed
<1> QED
  BY <1>2, <1>6 DEF RagInv

LEMMA GateKeeps ==
    ASSUME RagInv, Gate PROVE RagInv'
<1>1. PICK content \in [DOMAIN results -> Contents] :
        /\ results' = [r \in DOMAIN results |-> ChunkOf(results[r], content[r])]
        /\ packets' = E!EvidenceBundle(results')
  BY DEF Gate
<1>2. phase = "fused" /\ selected' = E!Selected(packets')
  BY DEF Gate
<1>3. Listed /\ \A r \in DOMAIN results : results[r].rank \in Nat
  BY <1>2 DEF RagInv, FusedInv
<1>4. DOMAIN results = 1 .. Len(results) /\ Len(results) \in Nat
  BY <1>3 DEF Listed
<1>5. results' \in Seq(E!Range(results')) /\ DOMAIN results' = DOMAIN results
  <2>1. results' = [r \in 1 .. Len(results) |-> results'[r]]
    BY <1>1, <1>4
  <2> QED
    BY <1>4, <2>1, ListOfItself
<1>6. \A r \in DOMAIN results' : ChunkFits(results'[r])
  <2> SUFFICES ASSUME NEW r \in DOMAIN results PROVE ChunkFits(results'[r])
    BY <1>5
  <2>1. results'[r] = ChunkOf(results[r], content[r]) /\ content[r] \in Contents
    BY <1>1
  <2>2. /\ results'[r].missing = Missing(results[r], content[r])
        /\ results'[r].id = results[r].id /\ results'[r].rank = results[r].rank
    BY <2>1 DEF ChunkOf
  <2>3. content[r].missing \subseteq {"law_id", "citation", "source_url", "text"}
    BY <2>1, ContentsAssumption
  <2> QED
    BY <1>3, <2>2, <2>3 DEF ChunkFits, Missing
<1>7. Verdict' \in {"answer_allowed", "answer_with_caution_allowed", "fallback_required"}
  BY DEF Verdict, E!Decision
<1>8. CASE Verdict' \in {"answer_allowed", "answer_with_caution_allowed"}
  <2>1. phase' = "prompted" /\ prompt' = E!PromptEvidence(selected') /\ response' = response
    BY <1>8 DEF Gate, Verdict
  <2>2. GatedInv'
    BY <1>1, <1>2, <1>5, <1>6, <1>8, <2>1 DEF GatedInv, Listed
  <2> QED
    BY <1>2, <2>1, <2>2 DEF RagInv
<1>9. CASE Verdict' = "fallback_required"
  <2>1. phase' = "done" /\ response' = Fallback
    BY <1>9 DEF Gate, Verdict
  <2>2. GatedInv'
    BY <1>1, <1>2, <1>5, <1>6, <1>9, <2>1 DEF GatedInv, Listed
  <2> QED
    BY <2>1, <2>2 DEF RagInv
<1> QED
  BY <1>7, <1>8, <1>9

LEMMA RagSteps == RagInv /\ [RagNext]_ragVars => RagInv'
<1> SUFFICES ASSUME RagInv, [RagNext]_ragVars PROVE RagInv'
  OBVIOUS
<1>1. CASE Retrieve
  BY <1>1, RetrieveKeeps
<1>2. CASE FallBackToSparse
  BY <1>2, FallBackToSparseKeeps
<1>3. CASE RetrievalFails
  BY <1>3 DEF RetrievalFails, RagInv
<1>4. CASE Gate
  BY <1>4, GateKeeps
<1>5. CASE GenerateText
  <2>1. /\ phase = "prompted" /\ phase' = "generated" /\ response' = response
        /\ UNCHANGED <<results, packets, selected, prompt>>
    BY <1>5 DEF GenerateText, evidence
  <2>2. Verdict' = Verdict /\ Listed' = Listed
    BY <2>1 DEF Verdict, Listed
  <2>3. GatedInv
    BY <2>1 DEF RagInv
  <2>4. GatedInv'
    BY <2>1, <2>2, <2>3 DEF GatedInv
  <2> QED
    BY <2>1, <2>4 DEF RagInv
<1>6. CASE GenerateFails
  <2>1. /\ phase = "prompted" /\ UNCHANGED <<results, packets, selected, prompt>>
        /\ \/ phase' = "unavailable" /\ response' = Fallback
           \/ phase' = "failed" /\ response' = response
    BY <1>6 DEF GenerateFails, evidence
  <2>2. Verdict' = Verdict /\ Listed' = Listed
    BY <2>1 DEF Verdict, Listed
  <2>3. GatedInv
    BY <2>1 DEF RagInv
  <2>4. phase' = "unavailable" => GatedInv'
    BY <2>1, <2>2, <2>3 DEF GatedInv
  <2> QED
    BY <2>1, <2>4 DEF RagInv
<1>7. CASE Respond
  <2>1. /\ phase = "generated" /\ phase' = "done" /\ response' = Reply
        /\ UNCHANGED <<results, packets, selected, prompt, citedIds>>
    BY <1>7 DEF Respond, evidence, Reply
  <2>2. Verdict' = Verdict /\ Listed' = Listed
    BY <2>1 DEF Verdict, Listed
  <2>3. Reply' = Reply
    BY <2>1 DEF Reply, WorkflowResult, MetadataIssues, MissingMetadata, UnknownIds, ValidCitations,
                AnswerDecision
  <2>4. GatedInv
    BY <2>1 DEF RagInv
  <2>5. GatedInv'
    BY <2>1, <2>2, <2>3, <2>4 DEF GatedInv
  <2> QED
    BY <2>1, <2>5 DEF RagInv
<1>8. CASE UNCHANGED ragVars
  <2>1. UNCHANGED <<phase, mode, denseList, sparseList, results, packets, selected, prompt, citedIds, response>>
    BY <1>8 DEF ragVars
  <2>2. Verdict' = Verdict /\ Listed' = Listed
    BY <2>1 DEF Verdict, Listed
  <2>3. Reply' = Reply
    BY <2>1 DEF Reply, WorkflowResult, MetadataIssues, MissingMetadata, UnknownIds, ValidCitations,
                AnswerDecision
  <2>4. FusedInv' = FusedInv
    BY <2>1, <2>2 DEF FusedInv
  <2>5. GatedInv => GatedInv'
    BY <2>1, <2>2, <2>3 DEF GatedInv
  <2> QED
    BY <2>1, <2>4, <2>5 DEF RagInv
<1> QED
  BY <1>1, <1>2, <1>3, <1>4, <1>5, <1>6, <1>7, <1>8 DEF RagNext

LEMMA RagAlways == RagSpec => []RagInv
<1> QED
  BY RagInitially, RagSteps, PTL DEF RagSpec

-----------------------------------------------------------------------------
(* The theorems.                                                           *)

LEMMA FusedIsHeard == RagInv => SourcesAreHeard
<1> SUFFICES ASSUME RagInv, phase = "fused", mode = "hybrid"
             PROVE  Heard(denseList, sparseList, results)
  BY DEF SourcesAreHeard, Heard
<1>1. /\ denseList \in DenseLists /\ sparseList \in SparseLists
      /\ results = F!ReciprocalRankFusion(denseList, sparseList)
  BY DEF RagInv, FusedInv
<1>2. /\ denseList \in Seq(F!Range(denseList) \cup F!Range(sparseList))
      /\ sparseList \in Seq(F!Range(denseList) \cup F!Range(sparseList))
  BY <1>1, ListsFit
<1>3. Heard(denseList, sparseList, F!ReciprocalRankFusion(denseList, sparseList))
  BY <1>2, FusionHearsBoth
<1> QED
  BY <1>1, <1>3

\* What the gate has established holds of the evidence ever after.
LEMMA GatedIs ==
    ASSUME GatedInv
    PROVE  /\ \A k \in DOMAIN results : Worth(results, k) => Len(packets) > 0
           /\ \A n \in DOMAIN selected : PacketOf(selected[n], results)
           /\ Verdict \in {"answer_allowed", "answer_with_caution_allowed", "fallback_required"}
           /\ Verdict = "fallback_required" <=> Len(packets) = 0
           /\ Verdict # "fallback_required" => Len(selected) > 0 /\ 1 \in DOMAIN selected
           /\ Verdict = "answer_allowed"
              => \E n \in DOMAIN selected : /\ E!Truncated(selected[n].chunk) = {}
                                            /\ E!RetrievalIssues(selected[n].chunk) = {}
<1>1. /\ results \in Seq(E!Range(results)) /\ \A r \in DOMAIN results : ChunkFits(results[r])
      /\ packets = E!EvidenceBundle(results) /\ selected = E!Selected(packets)
  BY DEF GatedInv, Listed
<1>2. /\ packets \in Seq(E!Range(packets))
      /\ \A i \in DOMAIN packets : PacketOf(packets[i], results)
      /\ \A k \in DOMAIN results : Worth(results, k) => Len(packets) > 0
  BY <1>1, BundleIs
<1>3. Ranked(packets)
  BY <1>1, <1>2 DEF Ranked, PacketOf, ChunkFits
<1>4. /\ selected \in Seq(E!Range(packets))
      /\ \A n \in DOMAIN selected : PacketOf(selected[n], results)
      /\ Len(packets) > 0 <=> Len(selected) > 0
  BY <1>1, <1>2, <1>3, SelectedIs
<1>5. /\ Verdict \in {"answer_allowed", "answer_with_caution_allowed", "fallback_required"}
      /\ Verdict = "fallback_required" <=> Len(packets) = 0
      /\ Verdict # "fallback_required" => Len(selected) > 0
      /\ Verdict = "answer_allowed"
         => \E n \in DOMAIN selected : /\ E!Truncated(selected[n].chunk) = {}
                                       /\ E!RetrievalIssues(selected[n].chunk) = {}
  <2>1. packets \in Seq(E!Range(packets)) /\ selected \in Seq(E!Range(packets))
        /\ Drawn(selected, packets, results)
    BY <1>2, <1>4 DEF Drawn
  <2>2. Decided(Verdict, packets, selected)
    BY <2>1, DecisionIs DEF Verdict
  <2> QED
    BY <2>2 DEF Decided
<1>6. Len(selected) > 0 => 1 \in DOMAIN selected
  BY <1>4
<1> QED
  BY <1>2, <1>4, <1>5, <1>6

LEMMA PromptIs ==
    ASSUME GatedInv, prompt = E!PromptEvidence(selected), NEW i \in DOMAIN prompt
    PROVE  /\ i \in DOMAIN selected /\ prompt[i].chunk = selected[i].chunk
           /\ prompt[i].chunk.flags = {} /\ E!Required \cap prompt[i].chunk.missing = {}
           /\ \E k \in DOMAIN results : results[k] = prompt[i].chunk /\ ChunkFits(prompt[i].chunk)
<1>1. i \in DOMAIN selected /\ prompt[i].chunk = selected[i].chunk
  BY DEF E!PromptEvidence
<1>2. PacketOf(selected[i], results)
  BY <1>1, GatedIs
<1>3. PICK k \in DOMAIN results :
        /\ selected[i].chunk = results[k]
        /\ selected[i].level = E!SafetyLevel(results[k]) /\ selected[i].level # "unsafe"
  BY <1>2 DEF PacketOf
<1>4. results[k].flags = {} /\ E!Required \cap results[k].missing = {}
  BY <1>3, LevelIs
<1>5. ChunkFits(results[k])
  BY DEF GatedInv
<1> QED
  BY <1>1, <1>3, <1>4, <1>5

\* What there is to know of a response in each case.
LEMMA ResponseIs ==
    ASSUME RagInv
    PROVE  /\ response.decision \in Answers
              => /\ GatedInv /\ Verdict # "fallback_required" /\ prompt = E!PromptEvidence(selected)
                 /\ UnknownIds = {} /\ ~MissingMetadata(ValidCitations)
                 /\ ~MetadataIssues(ValidCitations)
                 /\ response = [decision |-> AnswerDecision, citations |-> ValidCitations]
           /\ response.decision = "fallback"
              => /\ GatedInv
                 /\ \/ Verdict = "fallback_required"
                    \/ phase = "unavailable"
                    \/ /\ Verdict # "fallback_required" /\ prompt = E!PromptEvidence(selected)
                       /\ \/ UnknownIds # {} \/ MissingMetadata(ValidCitations)
                          \/ MetadataIssues(ValidCitations)
<1> DEFINE Answer == [decision |-> AnswerDecision, citations |-> ValidCitations]
           refused == UnknownIds # {} \/ MissingMetadata(ValidCitations)
<1>1. NotAnswered.decision = "none" /\ Fallback.decision = "fallback"
  BY DEF NotAnswered, Fallback
<1>2. AnswerDecision \in Answers /\ "none" \notin Answers /\ "fallback" \notin Answers
  BY DEF AnswerDecision, Answers
<1>3. WorkflowResult = IF refused THEN Fallback ELSE Answer
  BY DEF WorkflowResult
<1>4. Answer.decision = AnswerDecision /\ Answer.citations = ValidCitations
  OBVIOUS
<1>5. Answer # Fallback
  BY <1>1, <1>2, <1>4
<1> HIDE DEF Answer, refused
<1>6. Reply = IF refused \/ MetadataIssues(ValidCitations) THEN Fallback ELSE Answer
  <2>1. CASE refused
    BY <1>3, <2>1 DEF Reply
  <2>2. CASE ~refused
    <3>1. WorkflowResult = Answer /\ WorkflowResult # Fallback
      BY <1>3, <1>5, <2>2
    <3>2. WorkflowResult.citations = ValidCitations
      BY <1>4, <3>1
    <3> QED
      BY <2>2, <3>1, <3>2 DEF Reply
  <2> QED
    BY <2>1, <2>2
<1>7. \/ response = NotAnswered
      \/ GatedInv /\ Verdict = "fallback_required" /\ response = Fallback
      \/ /\ GatedInv /\ Verdict # "fallback_required" /\ prompt = E!PromptEvidence(selected)
         /\ (phase = "unavailable" /\ response = Fallback) \/ response = Reply
  BY DEF RagInv, GatedInv
<1>8. ASSUME response.decision \in Answers
      PROVE  /\ GatedInv /\ Verdict # "fallback_required" /\ prompt = E!PromptEvidence(selected)
             /\ ~refused /\ ~MetadataIssues(ValidCitations) /\ response = Answer
  <2>1. response # NotAnswered /\ response # Fallback
    BY <1>1, <1>2, <1>8
  <2> QED
    BY <1>6, <1>7, <2>1
<1>9. ASSUME response.decision = "fallback"
      PROVE  /\ GatedInv
             /\ \/ Verdict = "fallback_required"
                \/ phase = "unavailable"
                \/ /\ Verdict # "fallback_required" /\ prompt = E!PromptEvidence(selected)
                   /\ refused \/ MetadataIssues(ValidCitations)
  <2>1. response # NotAnswered /\ response # Answer
    BY <1>1, <1>2, <1>4, <1>9
  <2> QED
    BY <1>6, <1>7, <2>1
<1> QED
  BY <1>8, <1>9 DEF Answer, refused

LEMMA AnswersAreGrounded == RagInv => AnswerIsGrounded
<1> SUFFICES ASSUME RagInv, response.decision \in Answers
             PROVE  /\ {c.eid : c \in response.citations} = citedIds /\ citedIds # {}
                    /\ \A c \in response.citations :
                         /\ c.chunk = prompt[c.eid].chunk
                         /\ \E r \in DOMAIN results : results[r] = c.chunk
                         /\ c.chunk.missing = {} /\ c.chunk.flags = {} /\ c.chunk.web
  BY DEF AnswerIsGrounded
<1>1. /\ GatedInv /\ prompt = E!PromptEvidence(selected)
      /\ UnknownIds = {} /\ ~MissingMetadata(ValidCitations) /\ ~MetadataIssues(ValidCitations)
      /\ response = [decision |-> AnswerDecision, citations |-> ValidCitations]
  BY ResponseIs
<1>2. response.citations = ValidCitations
  BY <1>1
<1>3. citedIds \subseteq DOMAIN prompt
  BY <1>1 DEF UnknownIds
<1>4. ValidCitations = {[eid |-> i, chunk |-> prompt[i].chunk] : i \in citedIds}
  BY <1>3 DEF ValidCitations
<1>5. {c.eid : c \in ValidCitations} = citedIds
  <2>1. ASSUME NEW i \in citedIds PROVE \E c \in ValidCitations : c.eid = i
    <3>1. [eid |-> i, chunk |-> prompt[i].chunk] \in ValidCitations
      BY <1>4
    <3> QED
      BY <3>1
  <2>2. ASSUME NEW c \in ValidCitations PROVE c.eid \in citedIds
    BY <1>4
  <2> QED
    BY <2>1, <2>2
<1>6. citedIds # {}
  BY <1>1, <1>4 DEF MissingMetadata
<1>7. ASSUME NEW c \in ValidCitations
      PROVE  /\ c.chunk = prompt[c.eid].chunk
             /\ \E r \in DOMAIN results : results[r] = c.chunk
             /\ c.chunk.missing = {} /\ c.chunk.flags = {} /\ c.chunk.web
  <2>1. PICK i \in DOMAIN prompt : c.eid = i /\ c.chunk = prompt[i].chunk
    BY <1>3, <1>4
  <2>2. /\ prompt[i].chunk.flags = {} /\ E!Required \cap prompt[i].chunk.missing = {}
        /\ \E k \in DOMAIN results : results[k] = prompt[i].chunk /\ ChunkFits(prompt[i].chunk)
    BY <1>1, PromptIs
  <2>3. "chunk_id" \notin c.chunk.missing
    BY <1>1 DEF MissingMetadata
  <2>4. c.chunk.missing = {}
    BY <2>1, <2>2, <2>3 DEF ChunkFits, E!Required
  <2>5. c.chunk.web
    BY <1>1, <2>1 DEF MetadataIssues
  <2> QED
    BY <2>1, <2>2, <2>4, <2>5
<1> QED
  BY <1>2, <1>5, <1>6, <1>7

LEMMA FallbacksAreJustified == RagInv => FallbackIsJustified
<1> SUFFICES ASSUME RagInv, response.decision = "fallback"
             PROVE  \/ \A r \in DOMAIN results : ~Usable(r)
                    \/ phase = "unavailable"
                    \/ prompt # << >> /\ (citedIds = {} \/ ~(citedIds \subseteq DOMAIN prompt))
                    \/ \E i \in citedIds : prompt[i].chunk.id = NoId
                    \/ \E i \in DOMAIN prompt : ~prompt[i].chunk.web
  BY DEF FallbackIsJustified
<1>1. GatedInv
  BY ResponseIs
<1>2. CASE Verdict = "fallback_required"
  <2>1. Len(packets) = 0
    BY <1>1, <1>2, GatedIs
  <2>2. \A k \in DOMAIN results : ~Worth(results, k)
    BY <1>1, <2>1, GatedIs
  <2>3. ASSUME NEW r \in DOMAIN results, Usable(r) PROVE Worth(results, r)
    <3>1. /\ results[r].missing \cap E!Required = {} /\ results[r].flags = {}
          /\ E!RetrievalIssues(results[r]) = {}
          /\ \A q \in 1 .. r - 1 : results[q].id # results[r].id
      BY <2>3 DEF Usable
    <3> QED
      BY <3>1, LevelIs DEF Worth
  <2> QED
    BY <2>2, <2>3
<1>3. CASE /\ Verdict # "fallback_required" /\ prompt = E!PromptEvidence(selected)
           /\ UnknownIds # {} \/ MissingMetadata(ValidCitations) \/ MetadataIssues(ValidCitations)
  <2>1. prompt # << >>
    <3>1. 1 \in DOMAIN selected
      BY <1>1, <1>3, GatedIs
    <3>2. DOMAIN prompt = DOMAIN selected
      BY <1>3 DEF E!PromptEvidence
    <3> QED
      BY <3>1, <3>2
  <2>2. \A i \in DOMAIN prompt : /\ E!Required \cap prompt[i].chunk.missing = {}
                                 /\ ChunkFits(prompt[i].chunk)
    BY <1>1, <1>3, PromptIs
  <2>3. UnknownIds # {} => ~(citedIds \subseteq DOMAIN prompt)
    BY DEF UnknownIds
  <2>4. ValidCitations = {} => citedIds = {} \/ ~(citedIds \subseteq DOMAIN prompt)
    BY DEF ValidCitations
  <2>5. ASSUME NEW c \in ValidCitations,
               {"chunk_id", "law_id", "citation", "source_url"} \cap c.chunk.missing # {}
        PROVE  \E i \in citedIds : prompt[i].chunk.id = NoId
    <3>1. PICK i \in citedIds \cap DOMAIN prompt : c.chunk = prompt[i].chunk
      BY DEF ValidCitations
    <3>2. "chunk_id" \in prompt[i].chunk.missing
      BY <2>2, <2>5, <3>1 DEF E!Required
    <3> QED
      BY <2>2, <3>2 DEF ChunkFits
  <2>6. \A i \in DOMAIN prompt : {"text", "source_url"} \cap prompt[i].chunk.missing = {}
    BY <2>2 DEF E!Required
  <2>7. MissingMetadata(ValidCitations) =>
          \/ citedIds = {} \/ ~(citedIds \subseteq DOMAIN prompt)
          \/ \E i \in citedIds : prompt[i].chunk.id = NoId
    BY <2>4, <2>5, <2>6 DEF MissingMetadata
  <2>8. MetadataIssues(ValidCitations) =>
          MissingMetadata(ValidCitations) \/ \E i \in DOMAIN prompt : ~prompt[i].chunk.web
    BY DEF MetadataIssues
  <2> QED
    BY <1>3, <2>1, <2>3, <2>7, <2>8
<1> QED
  BY <1>2, <1>3, ResponseIs

LEMMA PlainAnswersAreClean == RagInv => PlainAnswerHasCleanEvidence
<1> SUFFICES ASSUME RagInv, response.decision = "answered"
             PROVE  \E i \in DOMAIN prompt : /\ E!Truncated(prompt[i].chunk) = {}
                                             /\ E!RetrievalIssues(prompt[i].chunk) = {}
  BY DEF PlainAnswerHasCleanEvidence
<1>1. /\ GatedInv /\ Verdict # "fallback_required" /\ prompt = E!PromptEvidence(selected)
      /\ response = [decision |-> AnswerDecision, citations |-> ValidCitations]
  BY ResponseIs DEF Answers
<1>2. Verdict # "answer_with_caution_allowed"
  BY <1>1 DEF AnswerDecision, Verdict
<1>3. Verdict = "answer_allowed"
  BY <1>1, <1>2, GatedIs
<1>4. PICK n \in DOMAIN selected : /\ E!Truncated(selected[n].chunk) = {}
                                   /\ E!RetrievalIssues(selected[n].chunk) = {}
  BY <1>1, <1>3, GatedIs
<1>5. n \in DOMAIN prompt /\ prompt[n].chunk = selected[n].chunk
  BY <1>1 DEF E!PromptEvidence
<1> QED
  BY <1>4, <1>5

\* Fusion and quotas drop no source: the head of each retriever's own list is
\* among the results, none twice, for whatever lists and settings.
THEOREM SourcesAreHeardAlways == RagSpec => []SourcesAreHeard
BY RagAlways, FusedIsHeard, PTL

\* Whatever the model writes, an answer cites only what stood in its prompt,
\* retrieved, complete and in force.
THEOREM AnswerIsGroundedAlways == RagSpec => []AnswerIsGrounded
BY RagAlways, AnswersAreGrounded, PTL

\* No client is told that there is no basis while a usable chunk was retrieved
\* and the model kept to the numbers of its prompt.
THEOREM FallbackIsJustifiedAlways == RagSpec => []FallbackIsJustified
BY RagAlways, FallbacksAreJustified, PTL

\* An answer without the caution has one text that is neither cut nor doubtful.
THEOREM PlainAnswerHasCleanEvidenceAlways == RagSpec => []PlainAnswerHasCleanEvidence
BY RagAlways, PlainAnswersAreClean, PTL
=============================================================================
