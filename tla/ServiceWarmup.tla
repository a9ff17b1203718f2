---------------------------- MODULE ServiceWarmup ----------------------------
(***************************************************************************)
(* Warming up the API process: GET /api/v1/legal-qa/warmup and the warm-up *)
(* the application schedules in the background when it starts.  Both need  *)
(* the Legal QA service, which is built once (the endpoint resolves it on  *)
(* the event loop, the background task in its thread), and both then run   *)
(* LegalQAService.warmup_embedding in a worker thread, which loads the     *)
(* shared encoder, built once too, and encodes one fixed text.             *)
(*                                                                         *)
(* A worker whose caller has timed out runs on, and so does a thread whose *)
(* worker has timed out: asyncio.run joins it before the worker returns.   *)
(***************************************************************************)
EXTENDS Integers

CONSTANTS
    Calls,      \* calls of the warm-up endpoint
    Startup,    \* the background warm-up
    Loop        \* the event loop, as a user of the service

ASSUME NamesAssumption == Startup \notin Calls /\ Loop # Startup

VARIABLES
    sValue, sBuilt, sOwner, sAt, sGot,   \* _legal_qa_service and its lock
    eValue, eBuilt, eOwner, eAt, eGot,   \* _SharedEncoderState and its lock
    serving,      \* the calls whose service the event loop is getting: one at most
    phase,        \* where each warm-up is
    routeBefore,  \* the model status the route read first
    before,       \* the model status warmup_embedding read first
    outcome,      \* how the worker's warm-up ended
    encode,       \* the encoding of the fixed text
    result,       \* what warmup_embedding returned
    response,     \* what the endpoint returned
    answered      \* calls that have their response

Workers == Calls \cup {Startup}

Service == INSTANCE LazyOnce WITH
    Users <- {Loop, Startup}, value <- sValue, built <- sBuilt,
    owner <- sOwner, at <- sAt, got <- sGot

Encoder == INSTANCE LazyOnce WITH
    Users <- Workers, value <- eValue, built <- eBuilt,
    owner <- eOwner, at <- eAt, got <- eGot

service == <<sValue, sBuilt, sOwner, sAt, sGot>>
encoder == <<eValue, eBuilt, eOwner, eAt, eGot>>
work == <<before, outcome, encode, result>>
answers == <<response, answered>>
arrival == <<serving, routeBefore>>
vars == <<service, encoder, phase, work, answers, arrival>>

Report == [
    warmed : BOOLEAN, loadStarted : BOOLEAN, loadCompleted : BOOLEAN,
    loadTimeout : BOOLEAN, encodeStarted : BOOLEAN, encodeCompleted : BOOLEAN,
    encodeTimeout : BOOLEAN, hitBefore : BOOLEAN, hitAfter : BOOLEAN ]

NoReport == CHOOSE r \in Report : \A f \in DOMAIN r : ~r[f]

Init ==
    /\ Service!Init
    /\ Encoder!Init
    /\ serving = {}
    /\ phase = [w \in Workers |-> "idle"]
    /\ routeBefore = [c \in Calls |-> FALSE]
    /\ before = [w \in Workers |-> FALSE]
    /\ outcome = [w \in Workers |-> "none"]
    /\ encode = [w \in Workers |-> "none"]
    /\ result = [w \in Workers |-> NoReport]
    /\ response = [c \in Calls |-> NoReport]
    /\ answered = {}

Loaded == eValue # 0

\* Nothing else runs on the event loop while it gets the service.
LoopFree == sAt[Loop] = "out"

Getter(w) == IF w \in Calls THEN Loop ELSE Startup

Go(w, p) == phase' = [phase EXCEPT ![w] = p]

Working == {"begin", "checking", "loading", "embedding", "joining", "reported"}

--------------------------------------------------------------------------------
(* Getting the service.                                                    *)

\* Mutant: whoever finds no service builds one, without the lock.
ArriveUnlocked(w) ==
    /\ phase[w] = "idle"
    /\ w \in Calls => LoopFree
    /\ sAt' = [sAt EXCEPT ![Getter(w)] = IF sValue = 0 THEN "building" ELSE "returned"]
    /\ sGot' = [sGot EXCEPT ![Getter(w)] = sValue]
    /\ serving' = IF w \in Calls THEN {w} ELSE serving
    /\ Go(w, "resolving")
    /\ UNCHANGED <<sValue, sBuilt, sOwner, encoder, work, answers, routeBefore>>

\* A call reaches the endpoint, or the background task starts its thread.
Arrive(w) ==
    /\ phase[w] = "idle"
    /\ w \in Calls => LoopFree
    /\ Service!Call(Getter(w))
    /\ serving' = IF w \in Calls THEN {w} ELSE serving
    /\ Go(w, "resolving")
    /\ UNCHANGED <<encoder, work, answers, routeBefore>>

\* The build of the service goes on: on the event loop it stops the loop, and it
\* does so while it waits for the lock.
Resolving(u) ==
    /\ Service!Inside(u)
    /\ UNCHANGED <<encoder, phase, work, answers, arrival>>

Resolved(w) ==
    /\ phase[w] = "resolving"
    /\ w \in Calls => serving = {w}
    /\ sAt[Getter(w)] = "returned"
    /\ Service!Leave(Getter(w))
    /\ Go(w, "begin")
    /\ IF w \in Calls
       THEN /\ serving' = {}
            /\ routeBefore' = [routeBefore EXCEPT ![w] = Loaded]
       ELSE UNCHANGED arrival
    /\ UNCHANGED <<encoder, work, answers>>

\* The service cannot be built: the call ends as an internal error.
Refused(w) ==
    /\ phase[w] = "resolving"
    /\ w \in Calls => serving = {w}
    /\ sAt[Getter(w)] = "raised"
    /\ Service!Leave(Getter(w))
    /\ Go(w, "refused")
    /\ serving' = IF w \in Calls THEN {} ELSE serving
    /\ UNCHANGED <<encoder, work, answers, routeBefore>>

--------------------------------------------------------------------------------
(* warmup_embedding, in a worker thread with an event loop of its own.     *)

End(w, o) ==
    /\ Go(w, "joining")
    /\ outcome' = [outcome EXCEPT ![w] = o]

Begin(w) ==
    /\ phase[w] = "begin"
    /\ Go(w, "checking")
    /\ before' = [before EXCEPT ![w] = Loaded]
    /\ UNCHANGED <<service, encoder, answers, arrival, outcome, encode, result>>

Embed(w) ==
    /\ Go(w, "embedding")
    /\ encode' = [encode EXCEPT ![w] = "queued"]

\* An encoder that is there is not loaded again.
Check(w) ==
    /\ phase[w] = "checking"
    /\ IF Loaded
       THEN Embed(w) /\ UNCHANGED encoder
       ELSE Encoder!Call(w) /\ Go(w, "loading") /\ UNCHANGED encode
    /\ UNCHANGED <<service, answers, arrival, before, outcome, result>>

\* The load goes on in its thread, whoever still waits for it.
Loading(w) ==
    /\ Encoder!Inside(w)
    /\ UNCHANGED <<service, phase, work, answers, arrival>>

LoadReturns(w) ==
    /\ phase[w] = "loading" /\ eAt[w] = "returned"
    /\ Encoder!Leave(w)
    /\ Embed(w)
    /\ UNCHANGED <<service, answers, arrival, before, outcome, result>>

LoadRaises(w) ==
    /\ phase[w] = "loading" /\ eAt[w] = "raised"
    /\ Encoder!Leave(w)
    /\ End(w, "load_error")
    /\ UNCHANGED <<service, answers, arrival, before, encode, result>>

LoadTimeout(w) ==
    /\ phase[w] = "loading"
    /\ End(w, "load_timeout")
    /\ UNCHANGED <<service, encoder, answers, arrival, before, encode, result>>

EncodeBegins(w) ==
    /\ encode[w] = "queued"
    /\ Encoder!Call(w)
    /\ encode' = [encode EXCEPT ![w] = "running"]
    /\ UNCHANGED <<service, phase, answers, arrival, before, outcome, result>>

EncodeEnds(w) ==
    /\ encode[w] = "running"
    /\ Encoder!Leave(w)
    /\ \E e \in {"done", "raised"} : encode' = [encode EXCEPT ![w] = e]
    /\ UNCHANGED <<service, phase, answers, arrival, before, outcome, result>>

EmbedReturns(w) ==
    /\ phase[w] = "embedding" /\ encode[w] = "done"
    /\ End(w, "ok")
    /\ UNCHANGED <<service, encoder, answers, arrival, before, encode, result>>

\* The encoding raises, or its vector is not valid.
EmbedRaises(w) ==
    /\ phase[w] = "embedding" /\ encode[w] \in {"done", "raised"}
    /\ End(w, "encode_error")
    /\ UNCHANGED <<service, encoder, answers, arrival, before, encode, result>>

EmbedTimeout(w) ==
    /\ phase[w] = "embedding"
    /\ End(w, "encode_timeout")
    /\ UNCHANGED <<service, encoder, answers, arrival, before, encode, result>>

\* A load that nobody waits for any more ends.
LoadEnds(w) ==
    /\ phase[w] = "joining" /\ outcome[w] = "load_timeout"
    /\ Encoder!Leave(w)
    /\ UNCHANGED <<service, phase, work, answers, arrival>>

Joined(w) == eAt[w] = "out" /\ encode[w] \notin {"queued", "running"}

\* Mutant: the status after the warm-up is the one before it.
SummaryOfBefore(w) ==
    LET ok == outcome[w] = "ok" IN
    [ warmed |-> ok,
      loadStarted |-> ~before[w], loadCompleted |-> before[w],
      loadTimeout |-> outcome[w] = "load_timeout",
      encodeStarted |-> ok \/ before[w], encodeCompleted |-> ok,
      encodeTimeout |-> outcome[w] = "encode_timeout",
      hitBefore |-> before[w], hitAfter |-> before[w] ]

Summary(w) ==
    LET ok == outcome[w] = "ok" IN
    [ warmed |-> ok,
      loadStarted |-> ~before[w], loadCompleted |-> Loaded,
      loadTimeout |-> outcome[w] = "load_timeout",
      encodeStarted |-> ok \/ Loaded, encodeCompleted |-> ok,
      encodeTimeout |-> outcome[w] = "encode_timeout",
      hitBefore |-> before[w], hitAfter |-> Loaded ]

\* asyncio.run has joined the threads, and warmup_embedding returns.
Return(w) ==
    /\ phase[w] = "joining" /\ Joined(w)
    /\ result' = [result EXCEPT ![w] = Summary(w)]
    /\ Go(w, "reported")
    /\ UNCHANGED <<service, encoder, answers, arrival, before, outcome, encode>>

--------------------------------------------------------------------------------
(* The endpoint's response.                                                *)

Answer(c, r) ==
    /\ LoopFree
    /\ c \notin answered
    /\ answered' = answered \cup {c}
    /\ response' = [response EXCEPT ![c] = r]
    /\ UNCHANGED <<service, encoder, phase, work, arrival>>

Respond(c) == phase[c] = "reported" /\ Answer(c, result[c])

\* Mutant: every timeout is put down to the load.
TimeoutReportOfLoad(c) ==
    [ warmed |-> FALSE,
      loadStarted |-> TRUE, loadCompleted |-> FALSE, loadTimeout |-> TRUE,
      encodeStarted |-> FALSE, encodeCompleted |-> FALSE, encodeTimeout |-> FALSE,
      hitBefore |-> routeBefore[c], hitAfter |-> Loaded ]

TimeoutReport(c) ==
    [ warmed |-> FALSE,
      loadStarted |-> ~routeBefore[c], loadCompleted |-> routeBefore[c],
      loadTimeout |-> ~routeBefore[c],
      encodeStarted |-> routeBefore[c], encodeCompleted |-> FALSE,
      encodeTimeout |-> routeBefore[c],
      hitBefore |-> routeBefore[c], hitAfter |-> Loaded ]

\* Mutant: a call that waits for its worker has no timeout.
RouteTimeoutOnlyReported(c) == phase[c] = "reported" /\ Answer(c, TimeoutReport(c))

\* LEGAL_QA_WARMUP_TIMEOUT_SECONDS are over, and the loop notices it.
RouteTimeout(c) == phase[c] \in Working /\ Answer(c, TimeoutReport(c))

--------------------------------------------------------------------------------
Work(w) ==
    \/ Begin(w) \/ Check(w) \/ Loading(w)
    \/ LoadReturns(w) \/ LoadRaises(w) \/ LoadTimeout(w) \/ LoadEnds(w)
    \/ EncodeBegins(w) \/ EncodeEnds(w)
    \/ EmbedReturns(w) \/ EmbedRaises(w) \/ EmbedTimeout(w) \/ Return(w)

Next ==
    \/ \E u \in {Loop, Startup} : Resolving(u)
    \/ \E w \in Workers : Arrive(w) \/ Resolved(w) \/ Refused(w) \/ Work(w)
    \/ \E c \in Calls : Respond(c) \/ RouteTimeout(c)

Spec == Init /\ [][Next]_vars

\* Builds of the service end, the loop goes on when it can, and timers fire.
\* Nothing is assumed of the worker threads: a load may take forever.
FairSpec ==
    /\ Spec
    /\ \A u \in {Loop, Startup} : WF_vars(Resolving(u))
    /\ \A w \in Workers : WF_vars(Resolved(w) \/ Refused(w))
    /\ \A c \in Calls : WF_vars(RouteTimeout(c))

--------------------------------------------------------------------------------
TypeOK ==
    /\ Service!TypeOK
    /\ Encoder!TypeOK
    /\ serving \subseteq Calls
    /\ phase \in [Workers -> Working \cup {"idle", "resolving", "refused"}]
    /\ routeBefore \in [Calls -> BOOLEAN]
    /\ before \in [Workers -> BOOLEAN]
    /\ outcome \in [Workers -> {"none", "ok", "load_error", "load_timeout",
                                "encode_error", "encode_timeout"}]
    /\ encode \in [Workers -> {"none", "queued", "running", "done", "raised"}]
    /\ result \in [Workers -> Report]
    /\ response \in [Calls -> Report]
    /\ answered \subseteq Calls

\* At most one service and one encoder are built in a process, whatever build fails,
\* is given up or is asked for again while an abandoned load still runs: a second
\* encoder would double the memory.
BuiltOnce == Service!BuiltOnce /\ Encoder!BuiltOnce

\* Whoever was given a service or an encoder was given the one that is cached now,
\* those included who waited for the lock while another user built it.
AllShareOne == Service!AllShareOne /\ Encoder!AllShareOne

\* The event loop, the background warm-up and every worker share one of each.
OneOfEach == BuiltOnce /\ AllShareOne

\* The deployment preflight relies on it: a call answered "warmed" has encoded, says
\* that the encoder is there without any timeout, and the encoder is there.
WarmedIsWarm == \A c \in Calls : response[c].warmed =>
    /\ response[c].loadCompleted /\ ~response[c].loadTimeout
    /\ response[c].encodeCompleted /\ ~response[c].encodeTimeout
    /\ response[c].hitAfter /\ Loaded /\ encode[c] = "done"

\* A call that found the encoder loaded reports neither a load nor the loss of the
\* encoder, whatever its own end is and whoever uses the encoder meanwhile.
HitMeansNoLoad == \A c \in answered : response[c].hitBefore =>
    response[c].hitAfter /\ ~response[c].loadStarted /\ ~response[c].loadTimeout

\* Every call that has its service is answered, even if its load never ends.
EveryCallAnswered == \A c \in Calls :
    phase[c] = "resolving" ~> (c \in answered \/ phase[c] = "refused")

\* Calls are answered, and answered truly.
CallsAreAnswered == EveryCallAnswered /\ []WarmedIsWarm /\ []HitMeansNoLoad

\* What docs/api_deployment.md says of the response ("Warmup reports ... model load
\* status, encode status"): encode_started means that an encoding was started.
EncodeStatusTrue == \A c \in answered :
    response[c].encodeStarted => encode[c] # "none"

\* What app.py says of the background warm-up ("without blocking readiness"): the
\* event loop, which answers the readiness probe, never waits for it.
ReadinessNotBlocked == ~(sAt[Loop] = "waiting" /\ sOwner = {Startup})
================================================================================
