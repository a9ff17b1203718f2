------------------------------ MODULE AskRequest ------------------------------
(***************************************************************************)
(* One question to the ask route, in time.  The route runs                 *)
(* LegalQAService.answer on a worker thread under a deadline and abandons  *)
(* the thread when it passes.  The worker runs the RAG coroutine in an     *)
(* event loop of its own: dense retrieval (model load and query embedding  *)
(* on threads of that loop, Qdrant with retries), sparse retrieval or the  *)
(* sparse fallback, evidence selection, the language model.  Each wait has *)
(* a budget, and the retrieval budget runs across the inner ones.          *)
(*                                                                         *)
(* Time is counted in ticks of the request's own clock.  A timer that is   *)
(* due fires before the clock moves on; timers due in the same tick fire   *)
(* in any order.  Everything outside the two event loops may take forever. *)
(***************************************************************************)
EXTENDS Integers, FiniteSets

CONSTANTS
    AskBudget,        \* LEGAL_QA_ASK_TIMEOUT_SECONDS
    RetrievalBudget,  \* LEGAL_QA_RETRIEVAL_TIMEOUT_SECONDS
    LoadBudget,       \* LEGAL_QA_EMBEDDING_MODEL_LOAD_TIMEOUT_SECONDS
    EmbedBudget,      \* LEGAL_QA_QUERY_EMBEDDING_TIMEOUT_SECONDS
    QdrantBudget,     \* LEGAL_QA_QDRANT_TIMEOUT_SECONDS
    FallbackBudget,   \* LEGAL_QA_DENSE_RETRIEVAL_FALLBACK_TIMEOUT_SECONDS
    LlmBudget,        \* LEGAL_QA_LLM_TIMEOUT_SECONDS
    MaxAttempts,      \* LEGAL_QA_QDRANT_RETRY_ATTEMPTS
    FallbackEnabled   \* LEGAL_QA_DENSE_RETRIEVAL_FALLBACK_ENABLED

Budgets == {AskBudget, RetrievalBudget, LoadBudget, EmbedBudget, QdrantBudget,
            FallbackBudget, LlmBudget}

ASSUME BudgetsAssumption == Budgets \subseteq Nat \ {0}
ASSUME AttemptsAssumption == MaxAttempts \in Nat \ {0}
ASSUME FallbackAssumption == FallbackEnabled \in BOOLEAN

VARIABLES
    clock,         \* ticks since the route began to wait for the worker
    route,         \* the response sent, NoResponse before there is one
    at,            \* where the worker is
    outer,         \* deadline of the whole retrieval, 0 when none is pending
    stage,         \* deadline of the wait the worker is in
    threads,       \* threads of the worker's loop that still run
    loaded,        \* the process has an encoder
    loadedBefore,  \* loaded, as the retrieval result reports it
    attempt,       \* Qdrant queries issued
    issue,         \* failure of dense retrieval that the fallback stands in for
    verdict,       \* of evidence selection
    cited,         \* the generated text cites prompt evidence, completely
    result         \* what LegalQAService.answer returns or raises, as a response

timing == <<outer, stage>>
dense == <<threads, loaded, loadedBefore, attempt>>
legal == <<verdict, cited>>
vars == <<clock, route, at, timing, dense, issue, legal, result>>

NoResponse == [decision |-> "none", warnings |-> {}, loadedBefore |-> FALSE]

DenseFailures == {"embedding_model_load_timeout", "embedding_model_load_error",
                  "query_embedding_timeout", "query_embedding_error",
                  "dense_retriever_error",
                  "qdrant_retrieval_timeout", "qdrant_retrieval_error"}

Init ==
    /\ clock = 0
    /\ route = NoResponse
    /\ at = "context"
    /\ outer = 0 /\ stage = 0
    /\ threads = {}
    /\ loaded \in BOOLEAN
    /\ loadedBefore = FALSE
    /\ attempt = 0
    /\ issue = "none"
    /\ verdict = "unknown" /\ cited = FALSE
    /\ result = NoResponse

--------------------------------------------------------------------------------
(* How the coroutine ends: with a result or with an exception that the     *)
(* route turns into an error response with one warning.                    *)

\* Mutant: a sparse-only result loses its warnings.
WarningsDropped == {}

RetrievalWarnings ==
    IF issue = "none" THEN {} ELSE {issue, "dense_retrieval_fallback_used"}

Conclude(decision) ==
    /\ at' = "joining"
    /\ result' = [decision |-> decision, warnings |-> RetrievalWarnings,
                  loadedBefore |-> loadedBefore]

Fail(warning) ==
    /\ at' = "joining"
    /\ result' = [decision |-> "error", warnings |-> {warning},
                  loadedBefore |-> FALSE]

\* A DenseRetrieverError: the sparse fallback stands in for dense retrieval, or
\* the error ends the request when the fallback is disabled.
DenseFails(failure) ==
    /\ \/ /\ FallbackEnabled
          /\ at' = "fallback"
          /\ issue' = failure
          /\ stage' = clock + FallbackBudget
          /\ UNCHANGED result
       \/ /\ ~FallbackEnabled
          /\ Fail(failure)
          /\ UNCHANGED <<issue, stage>>
    /\ UNCHANGED <<clock, route, legal>>

--------------------------------------------------------------------------------
(* Context, and the start of retrieval.                                    *)

PrepareContext ==
    /\ at = "context"
    /\ at' = "dense"
    /\ outer' = clock + RetrievalBudget
    /\ loadedBefore' = loaded
    /\ UNCHANGED <<clock, route, stage, threads, loaded, attempt, issue, legal, result>>

ContextFails ==
    /\ at = "context"
    /\ Fail("internal_error")
    /\ UNCHANGED <<clock, route, timing, dense, issue, legal>>

OuterDue == outer # 0 /\ clock >= outer

\* A wait under asyncio.wait_for is over.  On the Python of the image, 3.11, a
\* cancellation that arrives when the awaited call has just ended is dropped: the
\* coroutine goes on, and its caller waits for it without a deadline.
WaitEnds ==
    \/ UNCHANGED outer
    \/ OuterDue /\ outer' = 0

\* _load_embedding_model_if_supported, _embed_query.
EnsureLoaded ==
    /\ at = "dense"
    /\ IF loaded
       THEN /\ at' = "embedding"
            /\ threads' = threads \cup {"embed"}
            /\ stage' = clock + EmbedBudget
       ELSE /\ at' = "loading"
            /\ threads' = threads \cup {"load"}
            /\ stage' = clock + LoadBudget
    /\ UNCHANGED <<clock, route, outer, loaded, loadedBefore, attempt, issue, legal, result>>

LoadReturns ==
    /\ at = "loading"
    /\ at' = "embedding"
    /\ loaded' = TRUE
    /\ threads' = (threads \ {"load"}) \cup {"embed"}
    /\ stage' = clock + EmbedBudget
    /\ WaitEnds
    /\ UNCHANGED <<clock, route, loadedBefore, attempt, issue, legal, result>>

LoadRaises ==
    /\ at = "loading"
    /\ WaitEnds
    /\ threads' = threads \ {"load"}
    /\ DenseFails("embedding_model_load_error")
    /\ UNCHANGED <<loaded, loadedBefore, attempt>>

StageDue == clock >= stage

\* The timer fires; the load goes on in its thread.
LoadTimeout ==
    /\ at = "loading" /\ StageDue
    /\ DenseFails("embedding_model_load_timeout")
    /\ UNCHANGED <<outer, dense>>

StartQuery ==
    /\ at' = "query"
    /\ stage' = clock + QdrantBudget
    /\ attempt' = attempt + 1

\* Mutant: Qdrant is said to fail when the vector is wrong.
EmbedReturnsBlamed ==
    /\ at = "embedding"
    /\ threads' = threads \ {"embed"}
    /\ WaitEnds
    /\ \/ StartQuery /\ UNCHANGED <<clock, route, issue, legal, result>>
       \/ DenseFails("qdrant_retrieval_error") /\ UNCHANGED attempt
    /\ UNCHANGED <<loaded, loadedBefore>>

\* The vector comes back and is validated.
EmbedReturns ==
    /\ at = "embedding"
    /\ threads' = threads \ {"embed"}
    /\ WaitEnds
    /\ \/ StartQuery /\ UNCHANGED <<clock, route, issue, legal, result>>
       \/ DenseFails("dense_retriever_error") /\ UNCHANGED attempt
    /\ UNCHANGED <<loaded, loadedBefore>>

EmbedRaises ==
    /\ at = "embedding"
    /\ WaitEnds
    /\ threads' = threads \ {"embed"}
    /\ DenseFails("query_embedding_error")
    /\ UNCHANGED <<loaded, loadedBefore, attempt>>

EmbedTimeout ==
    /\ at = "embedding" /\ StageDue
    /\ DenseFails("query_embedding_timeout")
    /\ UNCHANGED <<outer, dense>>

--------------------------------------------------------------------------------
(* Qdrant: _query_qdrant_with_retries.                                     *)

QueryReturns ==
    /\ at = "query"
    /\ WaitEnds
    /\ \/ at' = "sparse" /\ UNCHANGED <<clock, route, stage, issue, legal, result>>
       \/ DenseFails("qdrant_retrieval_error")    \* the points cannot be mapped
    /\ UNCHANGED dense

\* Mutant: one attempt too many.
MayRetryOnceMore == attempt <= MaxAttempts

MayRetry == attempt < MaxAttempts

\* Only a transient failure is retried, on a new client; a timeout is transient.
RetryOr(failure) ==
    \/ /\ MayRetry
       /\ at' = "recreating"
       /\ UNCHANGED <<clock, route, stage, issue, legal, result>>
    \/ ~MayRetry /\ DenseFails(failure)

QueryRaises ==
    /\ at = "query"
    /\ WaitEnds
    /\ \/ RetryOr("qdrant_retrieval_error")         \* transient
       \/ RetryOr("qdrant_retrieval_timeout")       \* the client's own timeout
       \/ DenseFails("qdrant_retrieval_error")      \* not transient
    /\ UNCHANGED dense

QueryTimeout ==
    /\ at = "query" /\ StageDue
    /\ RetryOr("qdrant_retrieval_timeout")
    /\ UNCHANGED <<outer, dense>>

Recreated ==
    /\ at = "recreating"
    /\ at' = "backoff"
    /\ UNCHANGED <<clock, route, timing, dense, issue, legal, result>>

\* Closing the old client or building the new one raises: no DenseRetrieverError,
\* so the fallback is not tried.
RecreateRaises ==
    /\ at = "recreating"
    /\ Fail("internal_error")
    /\ UNCHANGED <<clock, route, timing, dense, issue, legal>>

\* Mutant: the retry counter is not advanced.
BackoffEndsUncounted ==
    /\ at = "backoff"
    /\ at' = "query"
    /\ stage' = clock + QdrantBudget
    /\ UNCHANGED <<clock, route, outer, dense, issue, legal, result>>

BackoffEnds ==
    /\ at = "backoff"
    /\ StartQuery
    /\ UNCHANGED <<clock, route, outer, threads, loaded, loadedBefore, issue, legal, result>>

Awaiting == {"loading", "embedding", "query", "recreating", "backoff"}

\* The retrieval budget runs out: whatever is awaited is cancelled, without
\* fallback.
RetrievalTimeout ==
    /\ at \in Awaiting /\ OuterDue
    /\ Fail("retrieval_timeout")
    /\ UNCHANGED <<clock, route, timing, dense, issue, legal>>

--------------------------------------------------------------------------------
(* Sparse retrieval never suspends, so no timer fires in the middle of it. *)

SparseReturns ==
    /\ at = "sparse"
    /\ at' = "gate"
    /\ UNCHANGED <<clock, route, timing, dense, issue, legal, result>>

\* The cache status of a sparse-only result is read when the fallback is over.
FallbackReturns ==
    /\ at = "fallback"
    /\ at' = "gate"
    /\ loadedBefore' = loaded
    /\ UNCHANGED <<clock, route, timing, threads, loaded, attempt, issue, legal, result>>

SparseRaises ==
    /\ at \in {"sparse", "fallback"}
    /\ Fail("internal_error")
    /\ UNCHANGED <<clock, route, timing, dense, issue, legal>>

--------------------------------------------------------------------------------
(* Evidence selection, generation, the citation check and the mapping.     *)

Select ==
    /\ at = "gate"
    /\ verdict' \in {"safe", "caution", "refused"}
    /\ IF verdict' = "refused"
       THEN Conclude("fallback") /\ UNCHANGED stage
       ELSE at' = "llm" /\ stage' = clock + LlmBudget /\ UNCHANGED result
    /\ UNCHANGED <<clock, route, outer, dense, issue, cited>>

SelectRaises ==
    /\ at = "gate"
    /\ Fail("internal_error")
    /\ UNCHANGED <<clock, route, timing, dense, issue, legal>>

Answered == IF verdict = "safe" THEN "answered" ELSE "answered_with_caution"

\* Mutant: an answer whose citations are unknown or missing is let through.
GenerateUnchecked ==
    /\ at = "llm"
    /\ cited' \in BOOLEAN
    /\ Conclude(Answered)
    /\ UNCHANGED <<clock, route, timing, dense, issue, verdict>>

\* The text cites known evidence, or it cites none, or unknown ids, or evidence
\* without the metadata a citation needs.
Generate ==
    /\ at = "llm"
    /\ cited' \in BOOLEAN
    /\ Conclude(IF cited' THEN Answered ELSE "fallback")
    /\ UNCHANGED <<clock, route, timing, dense, issue, verdict>>

\* LLMClientError, or a ValueError of the prompt; any other exception.
GenerateRaises ==
    /\ at = "llm"
    /\ Conclude("fallback") \/ Fail("internal_error")
    /\ UNCHANGED <<clock, route, timing, dense, issue, legal>>

GenerateTimeout ==
    /\ at = "llm" /\ StageDue
    /\ Fail("llm_generation_provider_call")
    /\ UNCHANGED <<clock, route, timing, dense, issue, legal>>

--------------------------------------------------------------------------------
(* Threads, the end of asyncio.run, and the route.                         *)

\* A thread whose caller has given up ends at last, with an encoder or without.
ThreadEnds(t) ==
    /\ t \in threads
    /\ at \notin {"loading", "embedding"}
    /\ threads' = threads \ {t}
    /\ \/ t = "load" /\ loaded' = TRUE
       \/ UNCHANGED loaded
    /\ UNCHANGED <<clock, route, at, timing, loadedBefore, attempt, issue, legal, result>>

\* Another request, or the warm-up, loads the encoder of this process.
OtherLoads ==
    /\ ~loaded
    /\ loaded' = TRUE
    /\ UNCHANGED <<clock, route, at, timing, threads, loadedBefore, attempt,
                   issue, legal, result>>

\* Mutant: the threads are left behind.
JoinAtOnce ==
    /\ at = "joining"
    /\ at' = "done"
    /\ UNCHANGED <<clock, route, timing, dense, issue, legal, result>>

\* asyncio.run returns when the threads of its loop have ended, those whose
\* future timed out included.
Join ==
    /\ at = "joining" /\ threads = {}
    /\ at' = "done"
    /\ UNCHANGED <<clock, route, timing, dense, issue, legal, result>>

RouteReturns ==
    /\ at = "done" /\ route = NoResponse
    /\ route' = result
    /\ UNCHANGED <<clock, at, timing, dense, issue, legal, result>>

\* Mutant: the route waits for the worker, whatever the deadline.
AskDueWhenDone == route = NoResponse /\ clock >= AskBudget /\ at = "done"

AskDue == route = NoResponse /\ clock >= AskBudget

\* Mutant: the route waits for the worker thread to end before it answers.
AskTimeoutWhenDone ==
    /\ AskDue
    /\ at = "done"
    /\ route' = [decision |-> "error", warnings |-> {"ask_timeout"},
                 loadedBefore |-> FALSE]
    /\ UNCHANGED <<clock, at, timing, dense, issue, legal, result>>

AskTimeout ==
    /\ AskDue
    /\ route' = [decision |-> "error", warnings |-> {"ask_timeout"},
                 loadedBefore |-> FALSE]
    /\ UNCHANGED <<clock, at, timing, dense, issue, legal, result>>

\* The clock matters while some timer is set.
Staged == {"loading", "embedding", "query", "llm"}

Timed == route = NoResponse \/ at \in Staged \/ (at \in Awaiting /\ outer # 0)

Tick ==
    /\ Timed
    /\ ~AskDue
    /\ ~(at \in Awaiting /\ OuterDue)
    /\ ~(at \in Staged /\ StageDue)
    /\ clock' = clock + 1
    /\ UNCHANGED <<route, at, timing, dense, issue, legal, result>>

--------------------------------------------------------------------------------
\* Steps the worker takes by itself.
Compute ==
    \/ PrepareContext \/ ContextFails \/ EnsureLoaded
    \/ Recreated \/ RecreateRaises \/ BackoffEnds
    \/ SparseReturns \/ FallbackReturns \/ SparseRaises
    \/ Select \/ SelectRaises \/ Join

\* Steps that end a wait for a thread, and for a service.
Threads == \/ LoadReturns \/ LoadRaises \/ EmbedReturns \/ EmbedRaises
           \/ \E t \in threads : ThreadEnds(t)

Services == \/ QueryReturns \/ QueryRaises \/ Generate \/ GenerateRaises

Timers == \/ LoadTimeout \/ EmbedTimeout \/ QueryTimeout \/ RetrievalTimeout
          \/ GenerateTimeout

Route == RouteReturns \/ AskTimeout

Next == Compute \/ Threads \/ Services \/ Timers \/ Route \/ OtherLoads \/ Tick

Spec == Init /\ [][Next]_vars

\* Time passes and both event loops run their timers; nothing else need ever
\* happen.
TimeSpec == Spec /\ WF_vars(Tick) /\ WF_vars(Timers) /\ WF_vars(Route)

\* What an end of the worker needs besides: its own code goes on, its threads end.
WorkerRuns == WF_vars(Compute) /\ WF_vars(Threads)

--------------------------------------------------------------------------------
(* Properties.                                                             *)

Warnings == DenseFailures \cup
    {"dense_retrieval_fallback_used", "internal_error", "retrieval_timeout",
     "llm_generation_provider_call", "ask_timeout"}

Decisions == {"answered", "answered_with_caution", "fallback", "error"}

Responses == [decision : Decisions \cup {"none"}, warnings : SUBSET Warnings,
              loadedBefore : BOOLEAN]

Locations == Awaiting \cup {"context", "dense", "sparse", "fallback", "gate",
                            "llm", "joining", "done"}

\* Every variable has its type, and the retries stay within their bound.
TypeOK ==
    /\ clock \in Nat
    /\ route \in Responses
    /\ at \in Locations
    /\ outer \in Nat /\ stage \in Nat
    /\ threads \in SUBSET {"load", "embed"}
    /\ loaded \in BOOLEAN /\ loadedBefore \in BOOLEAN
    /\ attempt \in 0 .. MaxAttempts
    /\ issue \in DenseFailures \cup {"none"}
    /\ verdict \in {"unknown", "safe", "caution", "refused"}
    /\ cited \in BOOLEAN
    /\ result \in Responses

\* The client has its response when the ask budget is used up, however long the
\* encoder, Qdrant or the language model take.
AnsweredInTime == clock > AskBudget => route # NoResponse

\* The request keeps the promise of AskPromise: one response, and a legal answer
\* only from evidence the selection allowed and citations that check.
Promise == INSTANCE AskPromise WITH response <- route.decision
KeepsPromise == Promise!Safety

\* It keeps it in time: the response comes with time and the timers alone, if
\* everything else hangs.
KeepsPromiseInTime == Promise!Spec

\* "qdrant_retrieval_error" and "qdrant_retrieval_timeout" mean that Qdrant was
\* asked, never that the encoder failed.
QdrantIsBlamedRightly ==
    {"qdrant_retrieval_error", "qdrant_retrieval_timeout"} \cap result.warnings # {}
        => attempt > 0

\* An answer or a fallback that rests on sparse retrieval alone says so, and
\* says which failure of dense retrieval it stands in for.
DegradedIsVisible ==
    result.decision \in {"answered", "answered_with_caution", "fallback"} /\ issue # "none"
        => {issue, "dense_retrieval_fallback_used"} \subseteq result.warnings

\* A timed out model load or embedding is reported to the client only when its
\* thread has ended: the budget of the step does not bound the wait for it.
TimeoutReportedAfterThreadEnds ==
    /\ "embedding_model_load_timeout" \in route.warnings => "load" \notin threads
    /\ "query_embedding_timeout" \in route.warnings => "embed" \notin threads

\* The client is told in time, and what it is told is what happened.
ClientIsToldWhatHappened ==
    /\ AnsweredInTime
    /\ QdrantIsBlamedRightly
    /\ DegradedIsVisible
    /\ TimeoutReportedAfterThreadEnds

\* A load budget above the retrieval budget, as in production, is never used up:
\* the retrieval timeout comes first, and there is no fallback from it.
LoadTimeoutUnreachable ==
    LoadBudget > RetrievalBudget =>
        /\ issue # "embedding_model_load_timeout"
        /\ "embedding_model_load_timeout" \notin result.warnings

\* An abandoned worker whose threads end ends too, even if Qdrant and the language
\* model never answer.
WorkerEnds == WorkerRuns => <>(at = "done")

--------------------------------------------------------------------------------
(* Claims of the repository that the code does not keep.                   *)

\* docs/api_deployment.md: the load budget "controls BGE-M3 model initialization
\* only; query embedding and Qdrant retrieval keep separate timeouts".
LoadHasItsOwnBudget ==
    [][at = "loading" /\ at' = "joining" /\ result'.warnings = {"retrieval_timeout"}
         => StageDue]_vars

\* test_coverage_aware.py: test_sparse_fallback_is_bounded_by_timeout.
FallbackIsBounded == at = "fallback" => clock <= stage

\* test_dense_retriever.py: the first request of a process, whose embedding loads
\* the model, reports embedding_model_loaded_before_request as False.
LoadedBeforeIsOfTheStart ==
    [][at # "context" => loadedBefore' = loadedBefore]_vars
================================================================================
