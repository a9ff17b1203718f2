----------------------------- MODULE Shared_proofs -----------------------------
(***************************************************************************)
(* What the requests of the API process share: the service and the encoder *)
(* that are built once (ServiceWarmup), and the Qdrant client that retries *)
(* close and replace (DenseClients), for any number of calls, requests and *)
(* attempts.                                                               *)
(***************************************************************************)
EXTENDS ServiceWarmup, DenseClients, TLAPS

(***************************************************************************)
(* The warm-ups get the service and the encoder under double-checked       *)
(* locking, so each is built at most once and shared by all; and what a    *)
(* call is answered is true.                                               *)
(***************************************************************************)

\* The lock is held by the one thread inside, and a build of the encoder begins only while
\* there is none.
LEMMA EncoderInductive == Encoder!IInv /\ [Encoder!Next]_(Encoder!vars) => Encoder!IInv'
<1> SUFFICES ASSUME Encoder!IInv, [Encoder!Next]_(Encoder!vars)
             PROVE  Encoder!IInv'
  OBVIOUS
<1> USE DEF Encoder!IInv, Encoder!TypeOK, Encoder!Locked, Encoder!BuildsFirst, Encoder!ValueIsLast,
            Encoder!BuiltOnce, Encoder!AllShareOne, Encoder!Given
<1>1. ASSUME NEW u \in Workers, Encoder!Call(u) PROVE Encoder!IInv'
  BY <1>1 DEF Encoder!Call, Encoder!Return
<1>2. ASSUME NEW u \in Workers, Encoder!Acquire(u) PROVE Encoder!IInv'
  BY <1>2 DEF Encoder!Acquire
<1>3. ASSUME NEW u \in Workers, Encoder!Recheck(u) PROVE Encoder!IInv'
  BY <1>3 DEF Encoder!Recheck, Encoder!Return
<1>4. ASSUME NEW u \in Workers, Encoder!Build(u) PROVE Encoder!IInv'
  BY <1>4 DEF Encoder!Build, Encoder!Return
<1>5. ASSUME NEW u \in Workers, Encoder!BuildRaises(u) PROVE Encoder!IInv'
  BY <1>5 DEF Encoder!BuildRaises
<1>6. ASSUME NEW u \in Workers, Encoder!Leave(u) PROVE Encoder!IInv'
  BY <1>6 DEF Encoder!Leave
<1>7. CASE UNCHANGED Encoder!vars
  BY <1>7 DEF Encoder!vars
<1> QED
  BY <1>1, <1>2, <1>3, <1>4, <1>5, <1>6, <1>7 DEF Encoder!Next, Encoder!Inside

\* So it is with the service.
LEMMA ServiceInductive == Service!IInv /\ [Service!Next]_(Service!vars) => Service!IInv'
<1> SUFFICES ASSUME Service!IInv, [Service!Next]_(Service!vars)
             PROVE  Service!IInv'
  OBVIOUS
<1> USE DEF Service!IInv, Service!TypeOK, Service!Locked, Service!BuildsFirst, Service!ValueIsLast,
            Service!BuiltOnce, Service!AllShareOne, Service!Given
<1>1. ASSUME NEW u \in {Loop, Startup}, Service!Call(u) PROVE Service!IInv'
  BY <1>1 DEF Service!Call, Service!Return
<1>2. ASSUME NEW u \in {Loop, Startup}, Service!Acquire(u) PROVE Service!IInv'
  BY <1>2 DEF Service!Acquire
<1>3. ASSUME NEW u \in {Loop, Startup}, Service!Recheck(u) PROVE Service!IInv'
  BY <1>3 DEF Service!Recheck, Service!Return
<1>4. ASSUME NEW u \in {Loop, Startup}, Service!Build(u) PROVE Service!IInv'
  BY <1>4 DEF Service!Build, Service!Return
<1>5. ASSUME NEW u \in {Loop, Startup}, Service!BuildRaises(u) PROVE Service!IInv'
  BY <1>5 DEF Service!BuildRaises
<1>6. ASSUME NEW u \in {Loop, Startup}, Service!Leave(u) PROVE Service!IInv'
  BY <1>6 DEF Service!Leave
<1>7. CASE UNCHANGED Service!vars
  BY <1>7 DEF Service!vars
<1> QED
  BY <1>1, <1>2, <1>3, <1>4, <1>5, <1>6, <1>7 DEF Service!Next, Service!Inside

--------------------------------------------------------------------------------
\* Every step of the warm-ups is one of the encoder's double-checked locking or leaves
\* the encoder alone.
LEMMA EncoderStep == [Next]_vars => [Encoder!Next]_(Encoder!vars)
<1> SUFFICES ASSUME [Next]_vars
             PROVE  Encoder!Next \/ UNCHANGED encoder
  BY DEF Encoder!vars, encoder
<1>1. ASSUME NEW u \in {Loop, Startup}, Resolving(u)
      PROVE  UNCHANGED encoder
  BY <1>1 DEF Resolving
<1>2. ASSUME NEW w \in Workers, Arrive(w) \/ Resolved(w) \/ Refused(w)
      PROVE  UNCHANGED encoder
  BY <1>2 DEF Arrive, Resolved, Refused
<1>3. ASSUME NEW w \in Workers, Work(w)
      PROVE  Encoder!Next \/ UNCHANGED encoder
  <2>1. CASE Begin(w) \/ LoadTimeout(w) \/ EmbedReturns(w) \/ EmbedRaises(w)
             \/ EmbedTimeout(w) \/ Return(w)
    BY <2>1 DEF Begin, LoadTimeout, EmbedReturns, EmbedRaises, EmbedTimeout, Return
  <2>2. CASE Check(w) \/ EncodeBegins(w)
    BY <2>2 DEF Check, EncodeBegins, Encoder!Next
  <2>3. CASE Loading(w)
    BY <2>3 DEF Loading, Encoder!Next
  <2>4. CASE LoadReturns(w) \/ LoadRaises(w) \/ LoadEnds(w) \/ EncodeEnds(w)
    BY <2>4 DEF LoadReturns, LoadRaises, LoadEnds, EncodeEnds, Encoder!Next
  <2> QED
    BY <1>3, <2>1, <2>2, <2>3, <2>4 DEF Work
<1>4. ASSUME NEW c \in Calls, Respond(c) \/ RouteTimeout(c)
      PROVE  UNCHANGED encoder
  BY <1>4 DEF Respond, RouteTimeout, Answer
<1>5. CASE UNCHANGED vars
  BY <1>5 DEF vars
<1> QED
  BY <1>1, <1>2, <1>3, <1>4, <1>5 DEF Next

LEMMA ServiceStep == [Next]_vars => [Service!Next]_(Service!vars)
<1> SUFFICES ASSUME [Next]_vars
             PROVE  Service!Next \/ UNCHANGED service
  BY DEF Service!vars, service
<1>1. ASSUME NEW u \in {Loop, Startup}, Resolving(u)
      PROVE  Service!Next
  BY <1>1 DEF Resolving, Service!Next
<1>2. ASSUME NEW w \in Workers, Arrive(w) \/ Resolved(w) \/ Refused(w)
      PROVE  Service!Next
  <2>1. Getter(w) \in {Loop, Startup}
    BY DEF Getter
  <2> QED
    BY <1>2, <2>1 DEF Arrive, Resolved, Refused, Service!Next
<1>3. ASSUME NEW w \in Workers, Work(w)
      PROVE  UNCHANGED service
  BY <1>3 DEF Work, Begin, Check, Loading, LoadReturns, LoadRaises, LoadTimeout, LoadEnds,
              EncodeBegins, EncodeEnds, EmbedReturns, EmbedRaises, EmbedTimeout, Return
<1>4. ASSUME NEW c \in Calls, Respond(c) \/ RouteTimeout(c)
      PROVE  UNCHANGED service
  BY <1>4 DEF Respond, RouteTimeout, Answer
<1>5. CASE UNCHANGED vars
  BY <1>5 DEF vars
<1> QED
  BY <1>1, <1>2, <1>3, <1>4, <1>5 DEF Next

\* So both keep their invariants, through every timeout and every abandoned load.
LEMMA OnceInvariance == Spec => [](Encoder!IInv /\ Service!IInv)
<1>1. Encoder!Init => Encoder!IInv
  BY DEF Encoder!Init, Encoder!IInv, Encoder!TypeOK, Encoder!Locked, Encoder!BuildsFirst,
         Encoder!ValueIsLast, Encoder!BuiltOnce, Encoder!AllShareOne, Encoder!Given
<1>2. Service!Init => Service!IInv
  BY DEF Service!Init, Service!IInv, Service!TypeOK, Service!Locked, Service!BuildsFirst,
         Service!ValueIsLast, Service!BuiltOnce, Service!AllShareOne, Service!Given
<1>3. Init => Encoder!IInv /\ Service!IInv
  BY <1>1, <1>2 DEF Init
<1>4. Encoder!IInv /\ Service!IInv /\ [Next]_vars => (Encoder!IInv /\ Service!IInv)'
  BY EncoderInductive, ServiceInductive, EncoderStep, ServiceStep
<1> QED
  BY <1>3, <1>4, PTL DEF Spec

\* However many warm-ups fail, time out or are repeated, one service and at most one
\* encoder are built.
THEOREM BuiltOnceAlways == Spec => []BuiltOnce
<1>1. Encoder!IInv /\ Service!IInv => BuiltOnce
  BY DEF Encoder!IInv, Service!IInv, BuiltOnce
<1> QED
  BY <1>1, OnceInvariance, PTL

\* Whoever was given an encoder, or a service, was given the one that is cached.
THEOREM AllShareOneAlways == Spec => []AllShareOne
<1>1. Encoder!IInv /\ Service!IInv => AllShareOne
  BY DEF Encoder!IInv, Service!IInv, AllShareOne
<1> QED
  BY <1>1, OnceInvariance, PTL

\* Whoever warms up, and however often: one service and one encoder for all.
THEOREM OneOfEachAlways == Spec => []OneOfEach
  BY BuiltOnceAlways, AllShareOneAlways, PTL DEF OneOfEach

--------------------------------------------------------------------------------
(* What a call is answered.                                                *)

Phases == Working \cup {"idle", "resolving", "refused"}

WorkType ==
    /\ phase \in [Workers -> Phases]
    /\ routeBefore \in [Calls -> BOOLEAN]
    /\ before \in [Workers -> BOOLEAN]
    /\ outcome \in [Workers -> {"none", "ok", "load_error", "load_timeout",
                                "encode_error", "encode_timeout"}]
    /\ encode \in [Workers -> {"none", "queued", "running", "done", "raised"}]
    /\ result \in [Workers -> Report]
    /\ response \in [Calls -> Report]
    /\ answered \subseteq Calls

\* A loaded encoder stays: who saw it, was given it or encodes has it still.  A worker
\* that saw it does not load, and one that ends well has encoded.
Warm ==
    /\ \A w \in Workers : before[w] \/ encode[w] # "none" => Loaded
    /\ \A c \in Calls : routeBefore[c] => Loaded
    /\ \A w \in Workers :
         /\ phase[w] = "loading" \/ outcome[w] = "load_timeout" => ~ before[w]
         /\ phase[w] \in {"idle", "resolving", "begin", "checking", "loading", "embedding"} =>
              outcome[w] = "none"
         /\ phase[w] \in {"idle", "resolving", "begin", "checking", "loading"} =>
              encode[w] = "none"
         /\ outcome[w] = "ok" => encode[w] = "done"

\* A report that says warmed, or found the encoder, is true.
Truth(r, w) ==
    /\ r.warmed => /\ r.loadCompleted /\ ~ r.loadTimeout
                   /\ r.encodeCompleted /\ ~ r.encodeTimeout
                   /\ r.hitAfter /\ Loaded /\ encode[w] = "done"
    /\ r.hitBefore => r.hitAfter /\ ~ r.loadStarted /\ ~ r.loadTimeout

ReportsTrue ==
    /\ \A w \in Workers : Truth(result[w], w)
    /\ \A c \in Calls : Truth(response[c], c)

WorkInv == WorkType /\ Warm /\ ReportsTrue

LEMMA NoReportType ==
    NoReport \in Report /\ \A f \in DOMAIN NoReport : ~ NoReport[f]
<1> DEFINE r == [warmed |-> FALSE, loadStarted |-> FALSE, loadCompleted |-> FALSE,
                 loadTimeout |-> FALSE, encodeStarted |-> FALSE, encodeCompleted |-> FALSE,
                 encodeTimeout |-> FALSE, hitBefore |-> FALSE, hitAfter |-> FALSE]
<1>1. r \in Report /\ \A f \in DOMAIN r : ~ r[f]
  BY DEF Report
<1> HIDE DEF r
<1> QED
  BY <1>1 DEF NoReport

\* The encoder is never unloaded, and whoever was given one finds it.
LEMMA LoadedStays ==
    ASSUME Encoder!IInv, Next
    PROVE  Loaded => Loaded'
<1>1. Encoder!Next \/ UNCHANGED encoder
  BY EncoderStep DEF Encoder!vars, encoder
<1>2. ASSUME NEW w \in Workers, Encoder!Build(w) PROVE Loaded'
  BY <1>2 DEF Encoder!Build, Encoder!IInv, Encoder!TypeOK, Loaded
<1> QED
  BY <1>1, <1>2 DEF Loaded, encoder, Encoder!Next, Encoder!Call, Encoder!Inside,
     Encoder!Acquire, Encoder!Recheck, Encoder!BuildRaises, Encoder!Leave

\* What a worker reports, and what the endpoint reports without its worker, is true.
LEMMA SummaryIsTrue ==
    ASSUME WorkInv, NEW w \in Workers
    PROVE  Summary(w) \in Report /\ Truth(Summary(w), w)
<1>1. /\ before[w] \in BOOLEAN
      /\ before[w] => Loaded
      /\ outcome[w] = "load_timeout" => ~ before[w]
      /\ outcome[w] = "ok" => encode[w] = "done" /\ Loaded
  BY DEF WorkInv, WorkType, Warm
<1>2. Summary(w) \in Report
  <2> DEFINE ok == outcome[w] = "ok"
             loading == outcome[w] = "load_timeout"
             encoding == outcome[w] = "encode_timeout"
             some == ok \/ Loaded
             started == ~ before[w]
  <2>1. ok \in BOOLEAN /\ loading \in BOOLEAN /\ encoding \in BOOLEAN /\ some \in BOOLEAN
    OBVIOUS
  <2>2. started \in BOOLEAN /\ before[w] \in BOOLEAN
    BY <1>1
  <2>3. Loaded \in BOOLEAN
    BY DEF Loaded
  <2>4. Summary(w) = [ warmed |-> ok, loadStarted |-> started, loadCompleted |-> Loaded,
          loadTimeout |-> loading, encodeStarted |-> some, encodeCompleted |-> ok,
          encodeTimeout |-> encoding, hitBefore |-> before[w], hitAfter |-> Loaded ]
    BY DEF Summary
  <2> HIDE DEF ok, loading, encoding, some, started
  <2> QED
    <3>1. [ warmed |-> ok, loadStarted |-> started, loadCompleted |-> Loaded,
            loadTimeout |-> loading, encodeStarted |-> some, encodeCompleted |-> ok,
            encodeTimeout |-> encoding, hitBefore |-> before[w], hitAfter |-> Loaded ] \in Report
      BY <2>1, <2>2, <2>3 DEF Report
    <3> QED
      BY <2>4, <3>1
<1>3. Summary(w).warmed => outcome[w] = "ok"
  BY DEF Summary
<1>4. outcome[w] = "ok" /\ Loaded =>
        /\ Summary(w).loadCompleted /\ ~ Summary(w).loadTimeout
        /\ Summary(w).encodeCompleted /\ ~ Summary(w).encodeTimeout
        /\ Summary(w).hitAfter
  BY DEF Summary
<1>5. Summary(w).hitBefore => before[w]
  BY DEF Summary
<1>6. before[w] /\ Loaded /\ outcome[w] # "load_timeout" =>
        Summary(w).hitAfter /\ ~ Summary(w).loadStarted /\ ~ Summary(w).loadTimeout
  BY DEF Summary
<1> QED
  BY <1>1, <1>2, <1>3, <1>4, <1>5, <1>6 DEF Truth

LEMMA TimeoutReportIsTrue ==
    ASSUME WorkInv, NEW c \in Calls
    PROVE  TimeoutReport(c) \in Report /\ Truth(TimeoutReport(c), c)
<1>1. routeBefore[c] \in BOOLEAN /\ (routeBefore[c] => Loaded)
  BY DEF WorkInv, WorkType, Warm
<1>2. TimeoutReport(c) \in Report
  <2> DEFINE b == routeBefore[c]
             not == ~ b
  <2>1. b \in BOOLEAN /\ not \in BOOLEAN /\ FALSE \in BOOLEAN
    BY <1>1
  <2>2. Loaded \in BOOLEAN
    BY DEF Loaded
  <2>3. TimeoutReport(c) = [ warmed |-> FALSE, loadStarted |-> not, loadCompleted |-> b,
          loadTimeout |-> not, encodeStarted |-> b, encodeCompleted |-> FALSE,
          encodeTimeout |-> b, hitBefore |-> b, hitAfter |-> Loaded ]
    BY DEF TimeoutReport
  <2> HIDE DEF b, not
  <2> QED
    <3>1. [ warmed |-> FALSE, loadStarted |-> not, loadCompleted |-> b, loadTimeout |-> not,
            encodeStarted |-> b, encodeCompleted |-> FALSE, encodeTimeout |-> b,
            hitBefore |-> b, hitAfter |-> Loaded ] \in Report
      BY <2>1, <2>2 DEF Report
    <3> QED
      BY <2>3, <3>1
<1>3. ~ TimeoutReport(c).warmed /\ (TimeoutReport(c).hitBefore => routeBefore[c])
  BY DEF TimeoutReport
<1>4. routeBefore[c] /\ Loaded => /\ TimeoutReport(c).hitAfter
                                 /\ ~ TimeoutReport(c).loadStarted /\ ~ TimeoutReport(c).loadTimeout
  BY DEF TimeoutReport
<1> QED
  BY <1>1, <1>2, <1>3, <1>4 DEF Truth

\* The steps of a warm-up: the phases they leave and what they set.
LEMMA WorkTypeStep ==
    ASSUME WorkInv, Next
    PROVE  WorkType'
<1> USE DEF WorkInv, WorkType
<1>1. ASSUME NEW u \in {Loop, Startup}, Resolving(u) PROVE WorkType'
  BY <1>1 DEF Resolving, work, answers, arrival
<1>2. ASSUME NEW w \in Workers, Arrive(w) \/ Resolved(w) \/ Refused(w) PROVE WorkType'
  <2>1. UNCHANGED <<work, answers>> /\ phase' \in [Workers -> Phases]
    BY <1>2 DEF Arrive, Resolved, Refused, Go, Phases, Working
  <2>2. routeBefore' \in [Calls -> BOOLEAN]
    BY <1>2 DEF Arrive, Resolved, Refused, arrival, Loaded
  <2> QED
    BY <2>1, <2>2 DEF work, answers
<1>3. ASSUME NEW w \in Workers, Work(w) PROVE WorkType'
  <2>1. UNCHANGED <<answers, arrival>>
    BY <1>3 DEF Work, Begin, Check, Loading, LoadReturns, LoadRaises, LoadTimeout, LoadEnds,
       EncodeBegins, EncodeEnds, EmbedReturns, EmbedRaises, EmbedTimeout, Return
  <2>2. phase' \in [Workers -> Phases]
    BY <1>3 DEF Work, Begin, Check, Loading, LoadReturns, LoadRaises, LoadTimeout, LoadEnds,
       EncodeBegins, EncodeEnds, EmbedReturns, EmbedRaises, EmbedTimeout, Return, Embed, End,
       Go, work, Phases, Working
  <2>3. before' \in [Workers -> BOOLEAN]
    BY <1>3 DEF Work, Begin, Check, Loading, LoadReturns, LoadRaises, LoadTimeout, LoadEnds,
       EncodeBegins, EncodeEnds, EmbedReturns, EmbedRaises, EmbedTimeout, Return, work, Loaded
  <2>4. outcome' \in [Workers -> {"none", "ok", "load_error", "load_timeout",
                                  "encode_error", "encode_timeout"}]
    BY <1>3 DEF Work, Begin, Check, Loading, LoadReturns, LoadRaises, LoadTimeout, LoadEnds,
       EncodeBegins, EncodeEnds, EmbedReturns, EmbedRaises, EmbedTimeout, Return, work, End
  <2>5. encode' \in [Workers -> {"none", "queued", "running", "done", "raised"}]
    BY <1>3 DEF Work, Begin, Check, Loading, LoadReturns, LoadRaises, LoadTimeout, LoadEnds,
       EncodeBegins, EncodeEnds, EmbedReturns, EmbedRaises, EmbedTimeout, Return, work, Embed
  <2>6. result' \in [Workers -> Report]
    BY <1>3, SummaryIsTrue
    DEF Work, Begin, Check, Loading, LoadReturns, LoadRaises, LoadTimeout, LoadEnds,
        EncodeBegins, EncodeEnds, EmbedReturns, EmbedRaises, EmbedTimeout, Return, work
  <2> QED
    BY <2>1, <2>2, <2>3, <2>4, <2>5, <2>6 DEF answers, arrival
<1>4. ASSUME NEW c \in Calls, Respond(c) \/ RouteTimeout(c) PROVE WorkType'
  <2>1. PICK r \in Report : Answer(c, r)
    BY <1>4, TimeoutReportIsTrue DEF Respond, RouteTimeout, Workers
  <2> QED
    BY <2>1 DEF Answer, work, arrival
<1> QED
  BY <1>1, <1>2, <1>3, <1>4 DEF Next

LEMMA WarmStep ==
    ASSUME Encoder!IInv, WorkInv, Next
    PROVE  Warm'
<1> USE DEF WorkInv, WorkType
<1>0. Loaded => Loaded'
  BY LoadedStays
<1>1. CASE UNCHANGED <<phase, before, outcome, encode, routeBefore>>
  BY <1>0, <1>1 DEF Warm
<1>2. ASSUME NEW w \in Workers, Arrive(w) \/ Resolved(w) \/ Refused(w) PROVE Warm'
  <2>1. UNCHANGED <<before, outcome, encode, result>>
    BY <1>2 DEF Arrive, Resolved, Refused, work
  <2>2. /\ phase[w] \in {"idle", "resolving"}
        /\ phase'[w] \in {"resolving", "begin", "refused"}
        /\ \A v \in Workers : v # w => phase'[v] = phase[v]
    BY <1>2 DEF Arrive, Resolved, Refused, Go
  <2>3. \A c \in Calls : routeBefore'[c] => routeBefore[c] \/ Loaded
    BY <1>2 DEF Arrive, Resolved, Refused, arrival
  <2> QED
    BY <1>0, <2>1, <2>2, <2>3 DEF Warm
<1>3. ASSUME NEW w \in Workers, Work(w) PROVE Warm'
  <2>1. UNCHANGED routeBefore
    BY <1>3 DEF Work, Begin, Check, Loading, LoadReturns, LoadRaises, LoadTimeout, LoadEnds,
       EncodeBegins, EncodeEnds, EmbedReturns, EmbedRaises, EmbedTimeout, Return, arrival
  <2>2. CASE Begin(w)
    BY <1>0, <2>2 DEF Begin, Go, Warm, arrival
  <2>3. CASE Check(w)
    <3>1. phase[w] = "checking" /\ UNCHANGED <<before, outcome>>
      BY <2>3 DEF Check
    <3>2. CASE Loaded
      BY <1>0, <2>1, <2>3, <3>1, <3>2 DEF Check, Embed, Go, Warm
    <3>3. CASE ~ Loaded
      BY <1>0, <2>1, <2>3, <3>1, <3>3 DEF Check, Go, Warm
    <3> QED
      BY <3>2, <3>3
  <2>4. CASE LoadReturns(w)
    <3>1. Loaded
      BY <2>4 DEF LoadReturns, Encoder!IInv, Encoder!Given, Encoder!AllShareOne, Loaded
    <3> QED
      BY <1>0, <2>1, <2>4, <3>1 DEF LoadReturns, Embed, Go, Warm
  <2>5. CASE LoadRaises(w) \/ LoadTimeout(w)
    BY <1>0, <2>1, <2>5 DEF LoadRaises, LoadTimeout, End, Go, Warm
  <2>6. CASE EncodeBegins(w) \/ EncodeEnds(w)
    BY <1>0, <2>1, <2>6 DEF EncodeBegins, EncodeEnds, Warm
  <2>7. CASE EmbedReturns(w) \/ EmbedRaises(w) \/ EmbedTimeout(w)
    BY <1>0, <2>1, <2>7 DEF EmbedReturns, EmbedRaises, EmbedTimeout, End, Go, Warm
  <2>8. CASE Return(w)
    BY <1>0, <2>1, <2>8 DEF Return, Go, Warm
  <2>9. CASE Loading(w) \/ LoadEnds(w)
    BY <1>1, <2>1, <2>9 DEF Loading, LoadEnds, work
  <2> QED
    BY <1>3, <2>2, <2>3, <2>4, <2>5, <2>6, <2>7, <2>8, <2>9 DEF Work
<1> QED
  BY <1>1, <1>2, <1>3 DEF Next, Resolving, Respond, RouteTimeout, Answer, work, arrival

\* A true report stays true: encoders stay, and an encoding that is done stays done.
LEMMA TruthStays ==
    ASSUME Encoder!IInv, WorkInv, Next, NEW w \in Workers, NEW r \in Report, Truth(r, w)
    PROVE  Truth(r, w)'
<1>1. Loaded => Loaded'
  BY LoadedStays
<1>2. encode[w] = "done" => encode'[w] = "done"
  <2>1. ASSUME NEW v \in Workers, Work(v), encode[w] = "done" PROVE encode'[w] = "done"
    <3>1. CASE Check(v) \/ LoadReturns(v)
      <4>1. phase[v] \in {"checking", "loading"} => encode[v] # "done"
        BY DEF WorkInv, Warm
      <4> QED
        BY <2>1, <3>1, <4>1 DEF Check, LoadReturns, Embed, WorkInv, WorkType
    <3>2. CASE EncodeBegins(v) \/ EncodeEnds(v)
      BY <2>1, <3>2 DEF EncodeBegins, EncodeEnds, WorkInv, WorkType
    <3> QED
      BY <2>1, <3>1, <3>2 DEF Work, Begin, Loading, LoadRaises, LoadTimeout, LoadEnds,
         EmbedReturns, EmbedRaises, EmbedTimeout, Return, work
  <2> QED
    BY <2>1 DEF Next, Resolving, Arrive, Resolved, Refused, Respond, RouteTimeout, Answer, work
<1> QED
  BY <1>1, <1>2 DEF Truth

LEMMA ReportsStep ==
    ASSUME Encoder!IInv, WorkInv, Next
    PROVE  ReportsTrue'
<1>a. /\ \A w \in Workers : result[w] \in Report /\ Truth(result[w], w)
      /\ \A c \in Calls : response[c] \in Report /\ Truth(response[c], c) /\ c \in Workers
  BY DEF WorkInv, WorkType, ReportsTrue, Workers
<1>0. ASSUME NEW w \in Workers, NEW r \in Report, Truth(r, w)
      PROVE  /\ r.warmed => /\ r.loadCompleted /\ ~ r.loadTimeout
                            /\ r.encodeCompleted /\ ~ r.encodeTimeout
                            /\ r.hitAfter /\ Loaded' /\ encode'[w] = "done"
             /\ r.hitBefore => r.hitAfter /\ ~ r.loadStarted /\ ~ r.loadTimeout
  BY <1>0, TruthStays DEF Truth
<1>1. ASSUME UNCHANGED <<result, response>> PROVE ReportsTrue'
  BY <1>a, <1>0, <1>1 DEF ReportsTrue, Truth
<1>2. ASSUME NEW w \in Workers, Return(w) PROVE ReportsTrue'
  <2>1. result' = [result EXCEPT ![w] = Summary(w)] /\ UNCHANGED response
    BY <1>2 DEF Return, answers
  <2>2. Summary(w) \in Report /\ Truth(Summary(w), w)
    BY SummaryIsTrue
  <2>3. \A v \in Workers : result'[v] \in Report /\ Truth(result'[v], v)
    BY <1>a, <2>1, <2>2 DEF WorkInv, WorkType
  <2> QED
    BY <1>a, <1>0, <2>1, <2>3 DEF ReportsTrue, Truth
<1>3. ASSUME NEW c \in Calls, Respond(c) \/ RouteTimeout(c) PROVE ReportsTrue'
  <2>1. PICK r \in Report : Truth(r, c) /\ Answer(c, r)
    BY <1>3, <1>a, TimeoutReportIsTrue DEF Respond, RouteTimeout
  <2>2. response' = [response EXCEPT ![c] = r] /\ UNCHANGED result
    BY <2>1 DEF Answer, work
  <2>3. \A d \in Calls : response'[d] \in Report /\ Truth(response'[d], d)
    BY <1>a, <2>1, <2>2 DEF WorkInv, WorkType
  <2> QED
    BY <1>a, <1>0, <2>2, <2>3 DEF ReportsTrue, Truth
<1> QED
  BY <1>1, <1>2, <1>3
  DEF Next, Resolving, Arrive, Resolved, Refused, Work, Begin, Check, Loading, LoadReturns,
      LoadRaises, LoadTimeout, LoadEnds, EncodeBegins, EncodeEnds, EmbedReturns, EmbedRaises,
      EmbedTimeout, work, answers

LEMMA WorkInvariance == Spec => []WorkInv
<1>1. Init => WorkInv
  <2> SUFFICES ASSUME Init PROVE WorkInv
    OBVIOUS
  <2>1. WorkType
    BY NoReportType DEF Init, WorkType, Phases
  <2>2. Warm
    BY DEF Init, Warm
  <2>3. /\ \A w \in Workers : result[w] = NoReport
        /\ \A c \in Calls : response[c] = NoReport
        /\ ~ NoReport.warmed /\ ~ NoReport.hitBefore
    BY NoReportType DEF Init, Report
  <2>4. ReportsTrue
    BY <2>3 DEF ReportsTrue, Truth
  <2> QED
    BY <2>1, <2>2, <2>4 DEF WorkInv
<1>2. Encoder!IInv /\ WorkInv /\ [Next]_vars => WorkInv'
  <2>1. ASSUME Encoder!IInv, WorkInv, Next PROVE WorkInv'
    BY <2>1, WorkTypeStep, WarmStep, ReportsStep DEF WorkInv
  <2>2. ASSUME WorkInv, UNCHANGED vars PROVE WorkInv'
    BY <2>2 DEF WorkInv, WorkType, Warm, ReportsTrue, Truth, Loaded, vars, work, answers,
       arrival, encoder
  <2> QED
    BY <2>1, <2>2
<1> QED
  BY <1>1, <1>2, OnceInvariance, PTL DEF Spec

\* A call that is answered "warmed" has encoded and the encoder is there; one that found
\* the encoder loaded reports no load: the safety of CallsAreAnswered, for any number of
\* calls and whatever times out meanwhile.
THEOREM AnswersAreTrueAlways == Spec => []WarmedIsWarm /\ []HitMeansNoLoad
<1>1. WorkInv => WarmedIsWarm /\ HitMeansNoLoad
  <2> SUFFICES ASSUME WorkInv, NEW c \in Calls
               PROVE  /\ response[c].warmed =>
                           /\ response[c].loadCompleted /\ ~response[c].loadTimeout
                           /\ response[c].encodeCompleted /\ ~response[c].encodeTimeout
                           /\ response[c].hitAfter /\ Loaded /\ encode[c] = "done"
                      /\ response[c].hitBefore =>
                           /\ response[c].hitAfter
                           /\ ~response[c].loadStarted /\ ~response[c].loadTimeout
    BY DEF WarmedIsWarm, HitMeansNoLoad, WorkInv, WorkType
  <2> QED
    BY DEF WorkInv, ReportsTrue, Truth
<1> QED
  BY <1>1, WorkInvariance, PTL

--------------------------------------------------------------------------------
(***************************************************************************)
(* The shared Qdrant client.                                               *)
(***************************************************************************)

\* Moving a request changes its place and no other's.
LEMMA MoveChangesPlace ==
    ASSUME NEW r \in Requests, NEW p \in Running \cup Ended \cup {"idle"},
           at \in [Requests -> Running \cup Ended \cup {"idle"}], Move(r, p)
    PROVE  /\ at' \in [Requests -> Running \cup Ended \cup {"idle"}]
           /\ at'[r] = p
           /\ \A s \in Requests \ {r} : at'[s] = at[s]
  BY DEF Move

\* A retry or the failure of a request touches its place and its client only.
LEMMA RetryMoves ==
    ASSUME NEW r \in Requests, ClientsTypeOK, RetryOrFail(r)
    PROVE  /\ at' \in [Requests -> Running \cup Ended \cup {"idle"}]
           /\ client' \in [Requests -> 0 .. newest]
           /\ at'[r] \in {"closing", "failed"}
           /\ at'[r] = "failed" => attempt[r] >= MaxAttempts
           /\ \A s \in Requests \ {r} : at'[s] = at[s] /\ client'[s] = client[s]
<1> USE DEF ClientsTypeOK, Running, Ended
<1>1. CASE attempt[r] < MaxAttempts /\ Move(r, "closing")
           /\ client' = [client EXCEPT ![r] = current]
  <2>1. /\ at' \in [Requests -> Running \cup Ended \cup {"idle"}]
        /\ at'[r] = "closing"
        /\ \A s \in Requests \ {r} : at'[s] = at[s]
    BY <1>1, MoveChangesPlace
  <2>2. /\ client' \in [Requests -> 0 .. newest]
        /\ \A s \in Requests \ {r} : client'[s] = client[s]
    BY <1>1
  <2> QED
    BY <2>1, <2>2
<1>2. CASE attempt[r] >= MaxAttempts /\ Move(r, "failed") /\ UNCHANGED client
  <2>1. /\ at' \in [Requests -> Running \cup Ended \cup {"idle"}]
        /\ at'[r] = "failed"
        /\ \A s \in Requests \ {r} : at'[s] = at[s]
    BY <1>2, MoveChangesPlace
  <2> QED
    BY <1>2, <2>1
<1> QED
  BY <1>1, <1>2 DEF RetryOrFail

\* A request that is about to query has an attempt left.
AttemptLeft ==
    \A r \in Requests :
        at[r] \in {"idle", "send", "closing", "replacing", "backoff"}
            => attempt[r] < MaxAttempts

\* Types and attempts are inductive: one step per action.
LEMMA TypeInductive == ClientsTypeOK /\ AttemptLeft /\ [ClientsNext]_clientsVars => ClientsTypeOK' /\ AttemptLeft'
<1> SUFFICES ASSUME ClientsTypeOK, AttemptLeft, [ClientsNext]_clientsVars PROVE ClientsTypeOK' /\ AttemptLeft'
  OBVIOUS
<1> USE AttemptsAssumption DEF clients, history
<1>1. ASSUME NEW r \in Requests, Start(r) PROVE ClientsTypeOK' /\ AttemptLeft'
  BY <1>1 DEF Start, Move, ClientsTypeOK, AttemptLeft, Others, Running
<1>2. ASSUME NEW r \in Requests, Send(r) PROVE ClientsTypeOK' /\ AttemptLeft'
  <2>1. attempt[r] + 1 \in 0 .. MaxAttempts
    BY <1>2 DEF Send, ClientsTypeOK, AttemptLeft
  <2>2. ClientsTypeOK'
    BY <1>2, <2>1 DEF Send, Move, ClientsTypeOK, Running
  <2>3. AttemptLeft'
    BY <1>2 DEF Send, Move, ClientsTypeOK, AttemptLeft
  <2> QED
    BY <2>2, <2>3
<1>3. ASSUME NEW r \in Requests, Answered(r) PROVE ClientsTypeOK' /\ AttemptLeft'
  BY <1>3 DEF Answered, Move, ClientsTypeOK, AttemptLeft, Ended
<1>4. ASSUME NEW r \in Requests, ClientFails(r) PROVE ClientsTypeOK' /\ AttemptLeft'
  <2>1. ClientsTypeOK'
    BY <1>4, RetryMoves DEF ClientFails, ClientsTypeOK
  <2>2. AttemptLeft'
    BY <1>4, RetryMoves DEF ClientFails, RetryOrFail, Move, ClientsTypeOK, AttemptLeft
  <2> QED
    BY <2>1, <2>2
<1>5. ASSUME NEW r \in Requests, QdrantFails(r) PROVE ClientsTypeOK' /\ AttemptLeft'
  <2>1. CASE RetryOrFail(r)
    <3>1. ClientsTypeOK'
      BY <1>5, <2>1, RetryMoves DEF QdrantFails, ClientsTypeOK
    <3>2. AttemptLeft'
      BY <1>5, <2>1 DEF QdrantFails, RetryOrFail, Move, ClientsTypeOK, AttemptLeft
    <3> QED
      BY <3>1, <3>2
  <2>2. CASE Move(r, "failed") /\ UNCHANGED client
    BY <1>5, <2>2 DEF QdrantFails, Move, ClientsTypeOK, AttemptLeft, Ended
  <2> QED
    BY <1>5, <2>1, <2>2 DEF QdrantFails
<1>6. ASSUME NEW r \in Requests, Close(r) PROVE ClientsTypeOK' /\ AttemptLeft'
  BY <1>6 DEF Close, Move, ClientsTypeOK, AttemptLeft, Running
<1>7. ASSUME NEW r \in Requests, Replace(r) PROVE ClientsTypeOK' /\ AttemptLeft'
  <2>1. newest + 1 \in Nat /\ 0 .. newest \subseteq 0 .. (newest + 1)
    BY DEF ClientsTypeOK
  <2>2. newest' = newest + 1 /\ current' \in 0 .. newest'
    BY <1>7, <2>1 DEF Replace, ClientsTypeOK
  <2>3. ClientsTypeOK'
    BY <1>7, <2>1, <2>2 DEF Replace, Move, ClientsTypeOK, Running
  <2>4. AttemptLeft'
    BY <1>7 DEF Replace, Move, ClientsTypeOK, AttemptLeft
  <2> QED
    BY <2>3, <2>4
<1>8. ASSUME NEW r \in Requests, RecreateRaises(r) PROVE ClientsTypeOK' /\ AttemptLeft'
  BY <1>8 DEF RecreateRaises, Move, ClientsTypeOK, AttemptLeft, Ended
<1>9. ASSUME NEW r \in Requests, BackoffEnds(r) PROVE ClientsTypeOK' /\ AttemptLeft'
  BY <1>9 DEF BackoffEnds, Move, ClientsTypeOK, AttemptLeft, Running
<1>10. ASSUME NEW r \in Requests, Cancel(r) PROVE ClientsTypeOK' /\ AttemptLeft'
  BY <1>10 DEF Cancel, Move, ClientsTypeOK, AttemptLeft, Ended
<1>11. CASE UNCHANGED clientsVars
  BY <1>11 DEF clientsVars, ClientsTypeOK, AttemptLeft
<1> QED
  BY <1>1, <1>2, <1>3, <1>4, <1>5, <1>6, <1>7, <1>8, <1>9, <1>10, <1>11 DEF ClientsNext, Step

\* The initial state is well typed.
LEMMA InitTyped == ClientsInit => ClientsTypeOK /\ AttemptLeft
<1> SUFFICES ASSUME ClientsInit PROVE ClientsTypeOK /\ AttemptLeft
  OBVIOUS
<1>1. 0 \in Nat /\ 0 \in 0 .. 0 /\ 0 \in 0 .. MaxAttempts /\ 0 < MaxAttempts
  BY AttemptsAssumption
<1> QED
  BY <1>1 DEF ClientsInit, ClientsTypeOK, AttemptLeft

\* Types of the shared client and of the requests, and the bound on the queries a
\* request sends.
THEOREM ClientsTypeInvariant == ClientsSpec => []ClientsTypeOK
  BY InitTyped, TypeInductive, PTL DEF ClientsSpec

--------------------------------------------------------------------------------
(* The shared client.                                                      *)

\* A request that has closed a client stays where it is, or is cut off, until it
\* replaces the client.
LEMMA CutOffStays ==
    ASSUME ClientsTypeOK, NEW w \in Requests, at[w] \in {"replacing", "raised", "gone"},
           NEW r \in Requests, Start(r) \/ Step(r), ~Replace(r)
    PROVE  at'[w] \in {"replacing", "raised", "gone"} /\ client'[w] = client[w]
<1> USE DEF ClientsTypeOK, Move, clients
<1>1. CASE Start(r) \/ Send(r) \/ Answered(r) \/ BackoffEnds(r)
  BY <1>1 DEF Start, Send, Answered, BackoffEnds
<1>2. CASE ClientFails(r)
  <2>1. r # w
    BY <1>2 DEF ClientFails
  <2> QED
    BY <1>2, <2>1, RetryMoves DEF ClientFails
<1>3. CASE QdrantFails(r)
  <2>1. r # w
    BY <1>3 DEF QdrantFails
  <2>2. CASE RetryOrFail(r)
    BY <2>1, <2>2, RetryMoves
  <2>3. CASE Move(r, "failed") /\ UNCHANGED client
    BY <2>1, <2>3
  <2> QED
    BY <1>3, <2>2, <2>3 DEF QdrantFails
<1>4. CASE Close(r) \/ RecreateRaises(r) \/ Cancel(r)
  BY <1>4 DEF Close, RecreateRaises, Cancel
<1> QED
  BY <1>1, <1>2, <1>3, <1>4 DEF Step

\* New clients are never closed ones, and a request that has closed the shared
\* client leaves "replacing" only by replacing it or by ending.
LEMMA ClosedInductive ==
    ClientsTypeOK /\ ClosedCurrentIsBeingReplaced /\ [ClientsNext]_clientsVars => ClosedCurrentIsBeingReplaced'
<1> SUFFICES ASSUME ClientsTypeOK, ClosedCurrentIsBeingReplaced, [ClientsNext]_clientsVars, current' \in closed'
             PROVE  \E r \in Requests :
                        at'[r] \in {"replacing", "raised", "gone"} /\ client'[r] = current'
  BY DEF ClosedCurrentIsBeingReplaced
<1>1. CASE UNCHANGED clientsVars
  BY <1>1 DEF clientsVars, clients, ClosedCurrentIsBeingReplaced
<1>2. ASSUME NEW r \in Requests, Start(r) \/ Step(r)
      PROVE  \E w \in Requests : at'[w] \in {"replacing", "raised", "gone"} /\ client'[w] = current'
  <2>1. ~Replace(r)
    <3>1. ASSUME Replace(r) PROVE current' = newest + 1 /\ closed' = closed
      BY <3>1 DEF Replace
    <3>2. newest + 1 \notin closed
      BY DEF ClientsTypeOK
    <3> QED
      BY <3>1, <3>2
  <2>2. current' = current
    BY <1>2, <2>1 DEF Start, Step, Send, Answered, ClientFails, QdrantFails, Close,
       RecreateRaises, BackoffEnds, Cancel, clients
  <2>3. CASE current \in closed
    <3>1. PICK w \in Requests : at[w] \in {"replacing", "raised", "gone"} /\ client[w] = current
      BY <2>3 DEF ClosedCurrentIsBeingReplaced
    <3>2. at'[w] \in {"replacing", "raised", "gone"} /\ client'[w] = client[w]
      BY <1>2, <2>1, <3>1, CutOffStays
    <3> QED
      BY <2>2, <3>1, <3>2
  <2>4. CASE current \notin closed
    <3>1. closed' # closed
      BY <2>2, <2>4
    <3>2. Close(r) \/ RecreateRaises(r) \/ Cancel(r)
      BY <1>2, <2>1, <3>1 DEF Start, Step, Send, Answered, ClientFails, QdrantFails,
         BackoffEnds, clients
    <3>3. /\ closed' = closed \cup {client[r]}
          /\ client' = client
          /\ at'[r] \in {"replacing", "raised", "gone"}
      BY <3>1, <3>2 DEF Close, RecreateRaises, Cancel, Move, ClientsTypeOK
    <3> QED
      BY <2>2, <2>4, <3>3
  <2> QED
    BY <2>3, <2>4
<1> QED
  BY <1>1, <1>2 DEF ClientsNext

\* Whatever the requests do, a closed shared client is being replaced, or a
\* request was cut off between closing and replacing it.
THEOREM ClosedCurrentIsBeingReplacedAlways == ClientsSpec => []ClosedCurrentIsBeingReplaced
<1>1. ClientsInit => ClosedCurrentIsBeingReplaced
  BY DEF ClientsInit, ClosedCurrentIsBeingReplaced
<1> QED
  BY <1>1, InitTyped, TypeInductive, ClosedInductive, PTL DEF ClientsSpec

--------------------------------------------------------------------------------
(* A request that runs alone.                                              *)

\* Requests that run together are recorded as overlapping.
OverlapKnown ==
    \A r, s \in Requests :
        r # s /\ at[r] \in Running /\ at[s] \in Running => r \in overlapped

\* Where a request stands that ran alone and that Qdrant did not fail: with its
\* first query, or with a client nobody else has used.
Clean(r) ==
    /\ attempt[r] <= 2
    /\ at[r] = "idle" => attempt[r] = 0
    /\ at[r] = "send" => attempt[r] \in {0, 1}
    /\ at[r] = "inflight" => attempt[r] \in {1, 2}
    /\ at[r] \in {"closing", "replacing", "backoff", "raised"} => attempt[r] = 1
    /\ at[r] = "inflight" /\ attempt[r] > 1 =>
           client[r] \notin closed /\ ~Foreign(r)
    /\ (at[r] = "send" /\ attempt[r] > 0) \/ at[r] = "backoff" =>
           /\ current \notin closed
           /\ \A s \in Requests : <<current, s>> \notin used
    /\ at[r] = "failed" => MaxAttempts = 1

AloneIsClean == \A r \in Requests : r \notin troubled \cup overlapped => Clean(r)

\* A step moves one request; no request begins to run but by Start.
LEMMA OneMoves ==
    ASSUME ClientsTypeOK, NEW r \in Requests, Start(r) \/ Step(r),
           NEW s \in Requests \ {r}
    PROVE  at'[s] = at[s] /\ attempt'[s] = attempt[s] /\ client'[s] = client[s]
<1> USE DEF ClientsTypeOK, Move, clients
<1>1. CASE Start(r) \/ Send(r) \/ Answered(r) \/ Close(r) \/ Replace(r)
           \/ RecreateRaises(r) \/ BackoffEnds(r) \/ Cancel(r)
  BY <1>1 DEF Start, Send, Answered, Close, Replace, RecreateRaises, BackoffEnds, Cancel
<1>2. CASE ClientFails(r)
  BY <1>2, RetryMoves DEF ClientFails
<1>3. CASE QdrantFails(r)
  <2>1. CASE RetryOrFail(r)
    BY <1>3, <2>1, RetryMoves DEF QdrantFails
  <2>2. CASE Move(r, "failed") /\ UNCHANGED client
    BY <1>3, <2>2 DEF QdrantFails
  <2> QED
    BY <1>3, <2>1, <2>2 DEF QdrantFails
<1> QED
  BY <1>1, <1>2, <1>3 DEF Step

\* Every step but Start is taken by a running request.
LEMMA StepRuns ==
    ASSUME NEW r \in Requests, Step(r)
    PROVE  at[r] \in Running /\ overlapped' = overlapped /\ troubled \subseteq troubled'
  BY DEF Step, Send, Answered, ClientFails, QdrantFails, Close, Replace, RecreateRaises,
     BackoffEnds, Cancel, history, Running

\* Overlaps are recorded when the second request starts.
LEMMA OverlapInductive == ClientsTypeOK /\ OverlapKnown /\ [ClientsNext]_clientsVars => OverlapKnown'
<1> SUFFICES ASSUME ClientsTypeOK, OverlapKnown, [ClientsNext]_clientsVars PROVE OverlapKnown'
  OBVIOUS
<1>1. CASE UNCHANGED clientsVars
  BY <1>1 DEF clientsVars, history, OverlapKnown
<1>2. ASSUME NEW q \in Requests, Start(q) PROVE OverlapKnown'
  <2> SUFFICES ASSUME NEW r \in Requests, NEW s \in Requests, r # s,
                      at'[r] \in Running, at'[s] \in Running
               PROVE  r \in overlapped'
    BY DEF OverlapKnown
  <2>1. CASE r = q
    <3>1. s \in Others(q)
      BY <1>2, <2>1, OneMoves DEF Others
    <3> QED
      BY <1>2, <2>1, <3>1 DEF Start
  <2>2. CASE s = q
    <3>1. r \in Others(q)
      BY <1>2, <2>2, OneMoves DEF Others
    <3> QED
      BY <1>2, <3>1 DEF Start
  <2>3. CASE r # q /\ s # q
    <3>1. r \in overlapped
      BY <1>2, <2>3, OneMoves DEF OverlapKnown
    <3> QED
      BY <1>2, <3>1 DEF Start
  <2> QED
    BY <2>1, <2>2, <2>3
<1>3. ASSUME NEW q \in Requests, Step(q) PROVE OverlapKnown'
  <2>1. \A r \in Requests : at'[r] \in Running => at[r] \in Running
    BY <1>3, OneMoves, StepRuns
  <2> QED
    BY <1>3, <2>1, StepRuns DEF OverlapKnown
<1> QED
  BY <1>1, <1>2, <1>3 DEF ClientsNext

\* Another request's step leaves a clean request clean: it overlaps with it, or
\* the clean request does not run.
LEMMA OthersKeepClean ==
    ASSUME ClientsTypeOK, OverlapKnown, NEW r \in Requests, Clean(r),
           NEW q \in Requests \ {r}, Start(q) \/ Step(q), r \notin overlapped'
    PROVE  Clean(r)'
<1>1. at'[r] = at[r] /\ attempt'[r] = attempt[r] /\ client'[r] = client[r]
  BY OneMoves
<1>2. at[r] \notin Running
  <2>1. CASE Start(q)
    BY <2>1 DEF Start, Others
  <2>2. CASE Step(q)
    BY <2>2, StepRuns DEF OverlapKnown
  <2> QED
    BY <2>1, <2>2
<1> QED
  BY <1>1, <1>2 DEF Clean, Running

\* Its own steps leave a clean request clean, unless Qdrant fails it.
LEMMA OwnStepsKeepClean ==
    ASSUME ClientsTypeOK, NEW r \in Requests, Clean(r),
           Start(r) \/ Step(r), r \notin troubled'
    PROVE  Clean(r)'
<1> USE DEF ClientsTypeOK, Move, clients
<1>1. CASE Start(r)
  BY <1>1 DEF Start, Clean
<1>2. CASE Send(r)
  <2>1. /\ at'[r] = "inflight" /\ attempt'[r] = attempt[r] + 1 /\ client'[r] = current
        /\ closed' = closed /\ used' = used \cup {<<current, r>>}
    BY <1>2 DEF Send
  <2>2. attempt[r] \in Nat
    OBVIOUS
  <2>3. attempt[r] > 0 => current \notin closed
                          /\ \A s \in Requests : <<current, s>> \notin used
    BY <1>2 DEF Send, Clean
  <2>4. attempt[r] > 0 => ~Foreign(r)'
    BY <2>1, <2>3 DEF Foreign
  <2>5. attempt'[r] \in {1, 2} /\ (attempt'[r] > 1 => attempt[r] > 0)
    BY <1>2, <2>1, <2>2 DEF Send, Clean
  <2>6. attempt'[r] <= 2
    BY <2>5
  <2> QED
    BY <2>1, <2>3, <2>4, <2>5, <2>6 DEF Clean
<1>3. CASE Answered(r)
  BY <1>3 DEF Answered, Clean
<1>4. CASE ClientFails(r)
  <2>1. attempt[r] = 1 /\ attempt' = attempt /\ MaxAttempts \in Nat \ {0}
    BY <1>4, AttemptsAssumption DEF ClientFails, Clean
  <2>2. \/ at'[r] = "closing"
        \/ at'[r] = "failed" /\ MaxAttempts = 1
    BY <1>4, <2>1 DEF ClientFails, RetryOrFail
  <2> QED
    BY <2>1, <2>2 DEF Clean
<1>5. CASE QdrantFails(r)
  BY <1>5 DEF QdrantFails
<1>6. CASE Close(r)
  BY <1>6 DEF Close, Clean
<1>7. CASE Replace(r)
  <2>1. at'[r] = "backoff" /\ current' = newest + 1 /\ closed' = closed /\ used' = used
    BY <1>7 DEF Replace
  <2>2. newest + 1 \notin 0 .. newest
    OBVIOUS
  <2>3. newest + 1 \notin closed /\ \A s \in Requests : <<newest + 1, s>> \notin used
    BY <2>2
  <2>4. attempt'[r] = 1
    BY <1>7 DEF Replace, Clean
  <2> QED
    BY <2>1, <2>3, <2>4 DEF Clean
<1>8. CASE RecreateRaises(r)
  BY <1>8 DEF RecreateRaises, Clean
<1>9. CASE BackoffEnds(r)
  BY <1>9 DEF BackoffEnds, Clean
<1>10. CASE Cancel(r)
  BY <1>10 DEF Cancel, Clean
<1> QED
  BY <1>1, <1>2, <1>3, <1>4, <1>5, <1>6, <1>7, <1>8, <1>9, <1>10 DEF Step

\* Both together.
LEMMA CleanInductive ==
    ClientsTypeOK /\ OverlapKnown /\ AloneIsClean /\ [ClientsNext]_clientsVars => AloneIsClean'
<1> SUFFICES ASSUME ClientsTypeOK, OverlapKnown, AloneIsClean, [ClientsNext]_clientsVars,
                    NEW r \in Requests, r \notin troubled' \cup overlapped'
             PROVE  Clean(r)'
  BY DEF AloneIsClean
<1>1. CASE UNCHANGED clientsVars
  BY <1>1 DEF clientsVars, history, clients, AloneIsClean, Clean, Foreign
<1>2. ASSUME NEW q \in Requests, Start(q) \/ Step(q) PROVE Clean(r)'
  <2>1. troubled \subseteq troubled' /\ overlapped \subseteq overlapped'
    BY <1>2, StepRuns DEF Start
  <2>2. Clean(r)
    BY <2>1 DEF AloneIsClean
  <2>3. CASE q = r
    BY <1>2, <2>2, <2>3, OwnStepsKeepClean
  <2>4. CASE q # r
    BY <1>2, <2>2, <2>4, OthersKeepClean
  <2> QED
    BY <2>3, <2>4
<1> QED
  BY <1>1, <1>2 DEF ClientsNext

\* Whatever state earlier requests left the shared client in, a request that runs
\* alone and that Qdrant does not fail needs at most one query more, and only the
\* replacement of the client it finds can fail it.
THEOREM AloneRequestHealsAlways == ClientsSpec => []AloneRequestHeals
<1>1. ClientsInit => OverlapKnown /\ AloneIsClean
  BY DEF ClientsInit, OverlapKnown, AloneIsClean, Clean, Running
<1>2. AloneIsClean => AloneRequestHeals
  BY DEF AloneIsClean, AloneRequestHeals, Clean
<1> QED
  BY <1>1, <1>2, CleanInductive, InitTyped, TypeInductive, OverlapInductive, PTL
  DEF ClientsSpec

--------------------------------------------------------------------------------
(* Clients that are left open.                                             *)

\* As long as no requests overlap, the client a request closes and replaces is the
\* shared one, so all but the shared one have been closed.
NoLeak ==
    overlapped = {} =>
        /\ (0 .. newest) \ closed \subseteq {current}
        /\ \A r \in Requests :
               /\ at[r] \in {"closing", "replacing"} => client[r] = current
               /\ at[r] = "replacing" => current \in closed

\* Without overlap, no other request runs beside the one that takes a step.
LEMMA RunsAlone ==
    ASSUME ClientsTypeOK, OverlapKnown, overlapped = {}, NEW r \in Requests, at[r] \in Running,
           NEW s \in Requests \ {r}
    PROVE  at[s] \notin Running
  BY DEF OverlapKnown

LEMMA NoLeakInductive ==
    ClientsTypeOK /\ OverlapKnown /\ NoLeak /\ [ClientsNext]_clientsVars => NoLeak'
<1> SUFFICES ASSUME ClientsTypeOK, OverlapKnown, NoLeak, [ClientsNext]_clientsVars, overlapped' = {}
             PROVE  /\ (0 .. newest') \ closed' \subseteq {current'}
                    /\ \A s \in Requests :
                           /\ at'[s] \in {"closing", "replacing"} => client'[s] = current'
                           /\ at'[s] = "replacing" => current' \in closed'
  BY DEF NoLeak
<1>1. CASE UNCHANGED clientsVars
  BY <1>1 DEF clientsVars, history, clients, NoLeak
<1>2. ASSUME NEW r \in Requests, Start(r) \/ Step(r)
      PROVE  /\ (0 .. newest') \ closed' \subseteq {current'}
             /\ \A s \in Requests :
                    /\ at'[s] \in {"closing", "replacing"} => client'[s] = current'
                    /\ at'[s] = "replacing" => current' \in closed'
  <2>0. overlapped = {}
    BY <1>2, StepRuns DEF Start
  <2>1. /\ (0 .. newest) \ closed \subseteq {current}
        /\ \A s \in Requests :
               /\ at[s] \in {"closing", "replacing"} => client[s] = current
               /\ at[s] = "replacing" => current \in closed
    BY <2>0 DEF NoLeak
  <2>2. CASE Replace(r)
    <3>1. /\ at[r] = "replacing" /\ at'[r] = "backoff" /\ closed' = closed
          /\ newest' = newest + 1 /\ current' = newest + 1
      BY <2>2 DEF Replace, Move, ClientsTypeOK
    <3>2. 0 .. newest \subseteq closed
      BY <2>1, <3>1
    <3>3. (0 .. newest') \ closed' \subseteq {current'}
      BY <3>1, <3>2 DEF ClientsTypeOK
    <3>4. ASSUME NEW s \in Requests \ {r} PROVE at'[s] \notin {"closing", "replacing"}
      BY <1>2, <2>0, <3>1, RunsAlone, OneMoves DEF Running
    <3> QED
      BY <3>1, <3>3, <3>4
  <2>3. CASE ~Replace(r)
    <3>1. current' = current /\ newest' = newest /\ closed \subseteq closed'
      BY <1>2, <2>3 DEF Start, Step, Send, Answered, ClientFails, QdrantFails, Close,
         RecreateRaises, BackoffEnds, Cancel, clients
    <3>2. ASSUME NEW s \in Requests \ {r}
          PROVE  /\ at'[s] \in {"closing", "replacing"} => client'[s] = current'
                 /\ at'[s] = "replacing" => current' \in closed'
      BY <1>2, <2>1, <3>1, OneMoves
    <3>3. /\ at'[r] \in {"closing", "replacing"} => client'[r] = current'
          /\ at'[r] = "replacing" => current' \in closed'
      <4> USE <2>1, <3>1 DEF ClientsTypeOK, Move
      <4>1. CASE Start(r) \/ Send(r) \/ Answered(r) \/ RecreateRaises(r)
                 \/ BackoffEnds(r) \/ Cancel(r)
        BY <4>1 DEF Start, Send, Answered, RecreateRaises, BackoffEnds, Cancel
      <4>2. CASE ClientFails(r)
        BY <4>2 DEF ClientFails, RetryOrFail
      <4>3. CASE QdrantFails(r)
        BY <4>3 DEF QdrantFails, RetryOrFail
      <4>4. CASE Close(r)
        BY <4>4 DEF Close
      <4> QED
        BY <1>2, <2>3, <4>1, <4>2, <4>3, <4>4 DEF Step
    <3> QED
      BY <2>1, <3>1, <3>2, <3>3
  <2> QED
    BY <2>2, <2>3
<1> QED
  BY <1>1, <1>2 DEF ClientsNext

\* No client is lost without being closed before requests overlap.
THEOREM ClientsLeakOnlyInRacesAlways == ClientsSpec => []ClientsLeakOnlyInRaces
<1>1. ClientsInit => OverlapKnown /\ NoLeak
  BY DEF ClientsInit, OverlapKnown, NoLeak, Running
<1>2. NoLeak => ClientsLeakOnlyInRaces
  BY DEF NoLeak, ClientsLeakOnlyInRaces
<1> QED
  BY <1>1, <1>2, InitTyped, TypeInductive, OverlapInductive, NoLeakInductive, PTL DEF ClientsSpec

\* Whatever requests do to the shared client, the next one can use it, or replaces it
\* once.
THEOREM SharedClientHealsAlways == ClientsSpec => []SharedClientHeals
  BY ClosedCurrentIsBeingReplacedAlways, AloneRequestHealsAlways,
     ClientsLeakOnlyInRacesAlways, PTL DEF SharedClientHeals
================================================================================
