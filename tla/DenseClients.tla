----------------------------- MODULE DenseClients -----------------------------
(***************************************************************************)
(* The Qdrant client that all questions share.  One DenseRetriever serves  *)
(* every request; each request queries Qdrant from an event loop of its    *)
(* own, and one whose query fails in a transient way closes the retriever's*)
(* client, puts a new one in its place and tries again.  Nothing           *)
(* coordinates the requests.                                               *)
(*                                                                         *)
(* Clients are numbered in the order of their creation.  A query on a      *)
(* closed client fails.  A query on a client that another request has used *)
(* may fail: its connections belong to that request's event loop.          *)
(***************************************************************************)
EXTENDS Integers

CONSTANTS
    Requests,     \* the questions that reach dense retrieval
    MaxAttempts   \* LEGAL_QA_QDRANT_RETRY_ATTEMPTS

ASSUME AttemptsAssumption == MaxAttempts \in Nat \ {0}

VARIABLES
    newest,      \* the client built last; 0 is the one the workflow is built with
    current,     \* DenseRetriever._qdrant_client
    closed,      \* clients whose close() has run
    used,        \* pairs <<c, r>>: request r has sent a query on client c
    at,          \* where each request is
    attempt,     \* queries each request has sent
    client,      \* the client each request last queried or closes
    troubled,    \* requests whose query Qdrant or the network failed
    overlapped   \* requests that ran at the same time as another one

clients == <<newest, current, closed, used>>
history == <<troubled, overlapped>>
clientsVars == <<clients, at, attempt, client, history>>

ClientsInit ==
    /\ newest = 0 /\ current = 0
    /\ closed = {} /\ used = {}
    /\ at = [r \in Requests |-> "idle"]
    /\ attempt = [r \in Requests |-> 0]
    /\ client = [r \in Requests |-> 0]
    /\ troubled = {} /\ overlapped = {}

Running == {"send", "inflight", "closing", "replacing", "backoff"}

Others(r) == {s \in Requests \ {r} : at[s] \in Running}

Move(r, place) == at' = [at EXCEPT ![r] = place]

\* The query vector is there: _query_qdrant_with_retries begins.
Start(r) ==
    /\ at[r] = "idle"
    /\ Move(r, "send")
    /\ overlapped' = IF Others(r) = {} THEN overlapped
                                       ELSE overlapped \cup Others(r) \cup {r}
    /\ UNCHANGED <<clients, attempt, client, troubled>>

\* Mutant: a query waits for a client that is not closed.
SendOnOpen(r) ==
    /\ at[r] = "send" /\ current \notin closed
    /\ Move(r, "inflight")
    /\ attempt' = [attempt EXCEPT ![r] = @ + 1]
    /\ client' = [client EXCEPT ![r] = current]
    /\ used' = used \cup {<<current, r>>}
    /\ UNCHANGED <<newest, current, closed, history>>

Send(r) ==
    /\ at[r] = "send"
    /\ Move(r, "inflight")
    /\ attempt' = [attempt EXCEPT ![r] = @ + 1]
    /\ client' = [client EXCEPT ![r] = current]
    /\ used' = used \cup {<<current, r>>}
    /\ UNCHANGED <<newest, current, closed, history>>

Answered(r) ==
    /\ at[r] = "inflight" /\ client[r] \notin closed
    /\ Move(r, "answered")
    /\ UNCHANGED <<clients, attempt, client, history>>

\* Mutant: one attempt too many.
RetryOrFailOnceMore(r) ==
    \/ /\ attempt[r] <= MaxAttempts
       /\ Move(r, "closing")
       /\ client' = [client EXCEPT ![r] = current]
    \/ /\ attempt[r] > MaxAttempts
       /\ Move(r, "failed")
       /\ UNCHANGED client

\* Mutant: the retry goes to the same client.
RetrySameClient(r) ==
    \/ attempt[r] < MaxAttempts /\ Move(r, "backoff") /\ UNCHANGED client
    \/ attempt[r] >= MaxAttempts /\ Move(r, "failed") /\ UNCHANGED client

\* The handler of a transient failure looks the shared client up again: it closes
\* the one that is current now, which need not be the one that failed.
RetryOrFail(r) ==
    \/ /\ attempt[r] < MaxAttempts
       /\ Move(r, "closing")
       /\ client' = [client EXCEPT ![r] = current]
    \/ /\ attempt[r] >= MaxAttempts
       /\ Move(r, "failed")
       /\ UNCHANGED client

Foreign(r) == \E s \in Requests \ {r} : <<client[r], s>> \in used

\* The client, not Qdrant, fails the query: it is closed, or its connections are
\* those of another event loop.
ClientFails(r) ==
    /\ at[r] = "inflight"
    /\ client[r] \in closed \/ Foreign(r)
    /\ RetryOrFail(r)
    /\ UNCHANGED <<clients, attempt, history>>

\* The network or Qdrant fails the query, for a while or for good, or the wait for
\* it times out.
QdrantFails(r) ==
    /\ at[r] = "inflight"
    /\ troubled' = troubled \cup {r}
    /\ \/ RetryOrFail(r)
       \/ Move(r, "failed") /\ UNCHANGED client
    /\ UNCHANGED <<clients, attempt, overlapped>>

\* Mutant: the client that is replaced is not closed.
CloseSkipped(r) ==
    /\ at[r] = "closing"
    /\ Move(r, "replacing")
    /\ UNCHANGED <<clients, attempt, client, history>>

Close(r) ==
    /\ at[r] = "closing"
    /\ Move(r, "replacing")
    /\ closed' = closed \cup {client[r]}
    /\ UNCHANGED <<newest, current, used, attempt, client, history>>

\* Mutant: the client is not replaced.
ReplaceNothing(r) ==
    /\ at[r] = "replacing"
    /\ Move(r, "backoff")
    /\ UNCHANGED <<clients, attempt, client, history>>

\* A client put in place by another request is dropped without being closed.
Replace(r) ==
    /\ at[r] = "replacing"
    /\ Move(r, "backoff")
    /\ newest' = newest + 1
    /\ current' = newest + 1
    /\ UNCHANGED <<closed, used, attempt, client, history>>

\* close() or the factory raises, as the close of a client may whose connections
\* belong to an event loop that is gone: the request ends with an internal error.
RecreateRaises(r) ==
    /\ at[r] \in {"closing", "replacing"}
    /\ Move(r, "raised")
    /\ \/ at[r] = "closing" /\ closed' = closed \cup {client[r]}
       \/ UNCHANGED closed
    /\ UNCHANGED <<newest, current, used, attempt, client, history>>

BackoffEnds(r) ==
    /\ at[r] = "backoff"
    /\ Move(r, "send")
    /\ UNCHANGED <<clients, attempt, client, history>>

\* The retrieval budget runs out while the request awaits a query, a close (which
\* may have run) or the backoff.
Cancel(r) ==
    /\ at[r] \in {"inflight", "closing", "backoff"}
    /\ Move(r, "gone")
    /\ \/ at[r] = "closing" /\ closed' = closed \cup {client[r]}
       \/ UNCHANGED closed
    /\ UNCHANGED <<newest, current, used, attempt, client, history>>

Step(r) ==
    \/ Send(r) \/ Answered(r) \/ ClientFails(r) \/ QdrantFails(r)
    \/ Close(r) \/ Replace(r) \/ RecreateRaises(r) \/ BackoffEnds(r) \/ Cancel(r)

ClientsNext == \E r \in Requests : Start(r) \/ Step(r)

ClientsSpec == ClientsInit /\ [][ClientsNext]_clientsVars

\* A request that has begun goes on: every wait has a timeout.
ClientsFairSpec == ClientsSpec /\ \A r \in Requests : WF_clientsVars(Step(r))

--------------------------------------------------------------------------------
Ended == {"answered", "failed", "raised", "gone"}

ClientsTypeOK ==
    /\ newest \in Nat
    /\ current \in 0 .. newest
    /\ closed \subseteq 0 .. newest
    /\ used \subseteq (0 .. newest) \X Requests
    /\ at \in [Requests -> Running \cup Ended \cup {"idle"}]
    /\ attempt \in [Requests -> 0 .. MaxAttempts]
    /\ client \in [Requests -> 0 .. newest]
    /\ troubled \subseteq Requests
    /\ overlapped \subseteq Requests

\* The shared client is closed only while the request that closed it is about to
\* replace it, or because that request was cancelled or failed in between.
ClosedCurrentIsBeingReplaced ==
    current \in closed =>
        \E r \in Requests : at[r] \in {"replacing", "raised", "gone"} /\ client[r] = current

\* The retries heal what earlier requests left behind, a closed client or one of a
\* dead event loop.  A request that runs alone, and that Qdrant or the network does
\* not fail, sends at most one query more than the one on the client it finds; only
\* the replacement of that client can fail it, because its close or the factory
\* raises, or the want of a second attempt.
AloneRequestHeals ==
    \A r \in Requests \ (troubled \cup overlapped) :
        /\ attempt[r] <= 2
        /\ at[r] = "failed" => MaxAttempts = 1
        /\ at[r] = "raised" => attempt[r] = 1

\* A client is lost without being closed only after requests overlapped.
ClientsLeakOnlyInRaces ==
    overlapped = {} => (0 .. newest) \ closed \subseteq {current}

\* Whatever requests do to the shared client, the next one can use it, or replaces it
\* once.
SharedClientHeals ==
    ClosedCurrentIsBeingReplaced /\ AloneRequestHeals /\ ClientsLeakOnlyInRaces

\* No request keeps retrying on clients that others close, or waits for one.
EveryRequestEnds ==
    \A r \in Requests : at[r] = "send" ~> at[r] \in Ended
================================================================================
