----------------------------- MODULE Conversations -----------------------------
(***************************************************************************)
(* The conversation API: routes, ConversationService and its repository,   *)
(* which is the dictionary of one process (memory) or a PostgreSQL         *)
(* database that several API processes share (postgres).  A handler runs   *)
(* on the event loop of its process from its first statement to its answer *)
(* without giving the loop back, so each process has one call at work.     *)
(*                                                                         *)
(* A call has the number of the moment at which its service method reads   *)
(* the clock; the number stands for that time, for the conversation or the *)
(* message the call makes, and for the title a rename gives.  Processes    *)
(* share one clock that does not step back.  A message row exists only     *)
(* with its conversation (REFERENCES ... ON DELETE CASCADE), so the rows   *)
(* of both tables are kept together, conversation by conversation.         *)
(***************************************************************************)
EXTENDS Integers, Sequences, FiniteSets

CONSTANTS
    Processes,  \* how many API processes share the database
    Owners,     \* owner ids, one per session token
    None,       \* owner_id = None
    Absent,     \* no row
    FirstOwners,  \* who may own the conversation that is there from the start
    MaxCalls,   \* bound: calls
    MaxFaults   \* bound: faults

ASSUME BoundsAssumption == MaxCalls \in Nat /\ MaxFaults \in Nat
ASSUME ProcessesAssumption == Processes \in Nat \ {0}
ASSUME OwnersAssumption == None \notin Owners /\ FirstOwners \subseteq Owners \cup {None}

Calls == 1 .. MaxCalls
Ids == 0 .. MaxCalls       \* conversation 0 is there from the start
Row == [owner : Owners \cup {None}, title : Ids, updated : Ids, messages : SUBSET Calls]
ASSUME AbsentAssumption == Absent \notin Row

VARIABLES
    postgres,   \* LEGAL_QA_CONVERSATION_STORE is postgres; the other one is memory
    auth,       \* LEGAL_QA_AUTH_ENABLED
    rows,       \* what is committed (the dictionary, in memory mode)
    holder,     \* holder[c]: the call whose transaction has row c locked, 0 for none
    calls,      \* the calls, see NoCall
    shown,      \* shown[n]: the conversations that read n returns
    rest,       \* rest[n]: those of them whose messages are yet to be read
    lost,       \* a restart has emptied the memory
    faults

vars == <<postgres, auth, rows, holder, calls, shown, rest, lost, faults>>
settings == <<postgres, auth>>
reads == <<shown, rest>>

NoCall ==
    [op |-> "none", conv |-> 0, owner |-> None,
     at |-> "none",       \* where its handler or its transaction is
     answer |-> "none",   \* what its client is told
     before |-> {}]       \* the calls that were answered when it began

Changing == {"rename", "delete", "add"}
Reading == {"get", "list"}

NewRow(n, who) == [owner |-> who, title |-> n, updated |-> n, messages |-> {}]

\* A conversation is there from calls before.  The database may hold one of any owner,
\* also of a time without authentication, or with it.
Init ==
    /\ postgres \in BOOLEAN /\ auth \in BOOLEAN
    /\ \E who \in FirstOwners :
          /\ postgres \/ (auth <=> who # None)
          /\ rows = [c \in Ids |-> IF c = 0 THEN NewRow(0, who) ELSE Absent]
    /\ holder = [c \in Ids |-> 0]
    /\ calls = [n \in Calls |-> NoCall]
    /\ shown = [n \in Calls |-> << >>]
    /\ rest = [n \in Calls |-> << >>]
    /\ lost = FALSE
    /\ faults = 0

Fault == faults < MaxFaults /\ faults' = faults + 1

--------------------------------------------------------------------------------
(* The request: identity and identifiers.                                  *)

\* resolve_session_identity: a session is its owner id (an HMAC of the token), and
\* without authentication nobody is distinguished.
Identity(session) == IF auth THEN session ELSE None

Begun(n) == calls[n].op # "none"
Unanswered == {n \in Calls : Begun(n) /\ calls[n].answer = "none"}

\* A client has an id from the answer that created it or from a list.
Known(c) ==
    \/ c = 0 \/ rows[c] # Absent
    \/ (c \in Calls /\ calls[c].op = "create" /\ calls[c].answer = "ok")

\* A free process begins with it: processes keep nothing from one call to the next, so
\* which one is of no interest.  In memory mode there is one (docs/api_deployment.md).
Begin(n) ==
    /\ \A m \in Calls : Begun(m) <=> m < n
    /\ Cardinality(Unanswered) < IF postgres THEN Processes ELSE 1
    /\ \E op \in {"create"} \cup Changing \cup Reading, c \in Ids, session \in Owners :
          /\ IF op = "create" THEN c = n ELSE IF op = "list" THEN c = 0 ELSE Known(c)
          /\ calls' = [calls EXCEPT ![n] =
                [NoCall EXCEPT !.op = op, !.conv = c, !.owner = Identity(session),
                               !.at = "start",
                               !.before = {m \in Calls : calls[m].answer # "none"}]]
    /\ UNCHANGED <<settings, rows, holder, lost, faults, reads>>

\* WHERE id = ... AND owner_id = ..., and _owner_matches.
Matches(c, who) == rows[c] # Absent /\ (who = None \/ rows[c].owner = who)
Found(n) == Matches(calls[n].conv, calls[n].owner)

--------------------------------------------------------------------------------
(* What a call changes and what it returns.                                *)

Changed(n) ==
    LET c == calls[n].conv
    IN CASE calls[n].op = "create" -> [rows EXCEPT ![c] = NewRow(n, calls[n].owner)]
         [] calls[n].op = "rename" -> [rows EXCEPT ![c].title = n, ![c].updated = n]
         [] calls[n].op = "delete" -> [rows EXCEPT ![c] = Absent]
         [] calls[n].op = "add" ->
               [rows EXCEPT ![c].messages = @ \cup {n}, ![c].updated = n]
         [] OTHER -> rows

\* ORDER BY key ASC: each element stands after those with a lower key.
Place(S, key) == [x \in S |-> 1 + Cardinality({y \in S : key[y] < key[x]})]
InOrder(S, key) ==
    LET place == Place(S, key)
    IN [i \in 1 .. Cardinality(S) |-> CHOOSE x \in S : place[x] = i]

\* ORDER BY updated_at DESC ...; no two conversations have the same time.
Newest(S) == InOrder(S, [c \in S |-> - rows[c].updated])

\* The conversations a read selects, in the order in which it returns them.
Selected(n) ==
    Newest(IF calls[n].op = "get" THEN {calls[n].conv}
           ELSE {c \in Ids : Matches(c, calls[n].owner)})

\* Mutant: newest first, as the list of conversations is.
MessagesNewestFirst(c) ==
    IF rows[c] = Absent THEN << >> ELSE InOrder(rows[c].messages, [m \in Calls |-> - m])

\* ORDER BY created_at ASC, id ASC; the times are those of the calls.
Messages(c) ==
    IF rows[c] = Absent THEN << >> ELSE InOrder(rows[c].messages, [m \in Calls |-> m])

\* What is returned of a conversation: its row when it was selected, its messages
\* when they are read.
Entry(c) == [id |-> c, owner |-> rows[c].owner, title |-> rows[c].title]
Detail(e) == [id |-> e.id, owner |-> e.owner, title |-> e.title,
              messages |-> Messages(e.id)]
Details(es) == [i \in DOMAIN es |-> Detail(es[i])]
Entries(n) == [i \in DOMAIN Selected(n) |-> Entry(Selected(n)[i])]

End(n, answer) == [calls EXCEPT ![n].at = "end", ![n].answer = answer]

\* The end of a transaction frees its row.
Release(n) == [holder EXCEPT ![calls[n].conv] = IF @ = n THEN 0 ELSE @]

--------------------------------------------------------------------------------
(* PostgreSQL, READ COMMITTED: each call in a connection and a transaction *)
(* of its own, each statement a step.                                      *)

AtWork(n, at) == postgres /\ calls[n].at = at /\ calls[n].answer = "none"

\* The INSERT of a conversation; nobody else can name its id yet.
InsertRow(n) ==
    /\ AtWork(n, "start") /\ calls[n].op = "create"
    /\ calls' = [calls EXCEPT ![n].at = "commit"]
    /\ UNCHANGED <<settings, rows, holder, lost, faults, reads>>

\* The UPDATE or DELETE ... RETURNING finds the row, waits while another session has
\* it locked, looks again, and locks it.  A deletion needs no other statement.
LockRow(n) ==
    /\ AtWork(n, "start") /\ calls[n].op \in Changing
    /\ Found(n) /\ holder[calls[n].conv] = 0
    /\ holder' = [holder EXCEPT ![calls[n].conv] = n]
    /\ calls' = [calls EXCEPT ![n].at = IF calls[n].op = "delete" THEN "commit" ELSE "locked"]
    /\ UNCHANGED <<settings, rows, lost, faults, reads>>

\* The statement after it: a rename reads the messages to count them, add_message
\* inserts its message, whose conversation the lock keeps.
NextStatement(n) ==
    /\ AtWork(n, "locked")
    /\ calls' = [calls EXCEPT ![n].at = "commit"]
    /\ UNCHANGED <<settings, rows, holder, lost, faults, reads>>

\* No row: ConversationNotFoundError rolls back and becomes a 404.
NotFound(n) ==
    /\ AtWork(n, "start") /\ calls[n].op \in Changing \cup {"get"}
    /\ ~Found(n)
    /\ calls' = End(n, "not_found")
    /\ UNCHANGED <<settings, rows, holder, lost, faults, reads>>

\* The connection's context manager commits, and the handler answers.
Commit(n) ==
    /\ AtWork(n, "commit")
    /\ rows' = Changed(n)
    /\ holder' = Release(n)
    /\ calls' = End(n, "ok")
    /\ UNCHANGED <<settings, lost, faults, reads>>

\* The first SELECT of get or list.
SelectRows(n) ==
    /\ AtWork(n, "start") /\ calls[n].op \in Reading
    /\ calls[n].op = "get" => Found(n)
    /\ calls' = [calls EXCEPT ![n].at = "selected"]
    /\ rest' = [rest EXCEPT ![n] = Entries(n)]
    /\ UNCHANGED <<settings, rows, holder, shown, lost, faults>>

\* _fetch_messages, a SELECT per conversation; each sees what is committed by then.
FetchMessages(n) ==
    /\ AtWork(n, "selected") /\ rest[n] # << >>
    /\ shown' = [shown EXCEPT ![n] = Append(@, Detail(Head(rest[n])))]
    /\ rest' = [rest EXCEPT ![n] = Tail(@)]
    /\ UNCHANGED <<settings, rows, holder, calls, lost, faults>>

Return(n) ==
    /\ AtWork(n, "selected") /\ rest[n] = << >>
    /\ calls' = End(n, "ok")
    /\ UNCHANGED <<settings, rows, holder, lost, faults, reads>>

\* The database refuses, the connection breaks, or the process is killed: the client
\* sees an error.  A transaction that has done something is left to the database.
CallFails(n) ==
    /\ postgres /\ Begun(n) /\ calls[n].answer = "none"
    /\ Fault
    /\ calls' = [calls EXCEPT ![n].answer = "failed",
                              ![n].at = IF @ \in {"locked", "commit"} THEN @ ELSE "end"]
    /\ UNCHANGED <<settings, rows, holder, lost, reads>>

Abandoned(n) == calls[n].answer = "failed" /\ calls[n].at # "end"

\* Mutant: each statement is committed by itself.
RollBackInsertOnly(n) ==
    /\ Abandoned(n)
    /\ rows' = IF calls[n].op = "add" THEN [rows EXCEPT ![calls[n].conv].updated = n] ELSE rows
    /\ holder' = Release(n)
    /\ calls' = End(n, "failed")
    /\ UNCHANGED <<settings, lost, faults, reads>>

\* Mutant: the connection is closed when the last statement has been executed only.
RollBackAtCommit(n) ==
    /\ Abandoned(n) /\ calls[n].at = "commit"
    /\ holder' = Release(n)
    /\ calls' = End(n, "failed")
    /\ UNCHANGED <<settings, rows, lost, faults, reads>>

\* The database rolls the transaction back, now or when it notices.
RollBack(n) ==
    /\ Abandoned(n)
    /\ holder' = Release(n)
    /\ calls' = End(n, "failed")
    /\ UNCHANGED <<settings, rows, lost, faults, reads>>

\* The COMMIT had reached the database; only its answer is lost.
CommitUnheard(n) ==
    /\ Abandoned(n) /\ calls[n].at = "commit"
    /\ rows' = Changed(n)
    /\ holder' = Release(n)
    /\ calls' = End(n, "failed")
    /\ UNCHANGED <<settings, lost, faults, reads>>

--------------------------------------------------------------------------------
(* Memory: the repository's methods run under its lock, and the handler of *)
(* a call from its clock to its answer without another one in between.     *)

InMemory(n) == ~postgres /\ calls[n].at = "start"

Handle(n) ==
    /\ InMemory(n)
    /\ calls[n].op \in {"create", "list"} \/ Found(n)
    /\ rows' = Changed(n)
    /\ calls' = End(n, "ok")
    /\ shown' = [shown EXCEPT ![n] = IF calls[n].op \in Reading THEN Details(Entries(n)) ELSE @]
    /\ UNCHANGED <<settings, holder, rest, lost, faults>>

HandleMissing(n) ==
    /\ InMemory(n)
    /\ calls[n].op \notin {"create", "list"} /\ ~Found(n)
    /\ calls' = End(n, "not_found")
    /\ UNCHANGED <<settings, rows, holder, lost, faults, reads>>

\* The client does not get the answer: it went before, or after, the handler ran.
AnswerLost(n) ==
    /\ InMemory(n)
    /\ Fault
    /\ \/ UNCHANGED rows
       \/ /\ calls[n].op \in {"create", "list"} \/ Found(n)
          /\ rows' = Changed(n)
    /\ calls' = End(n, "failed")
    /\ UNCHANGED <<settings, holder, lost, reads>>

\* The process ends, between two calls, and starts anew; what it was told is gone.
Restart ==
    /\ ~postgres
    /\ Unanswered = {}
    /\ Fault
    /\ rows' = [c \in Ids |-> Absent]
    /\ lost' = TRUE
    /\ UNCHANGED <<settings, holder, calls, reads>>

--------------------------------------------------------------------------------

Step(n) ==
    \/ InsertRow(n) \/ LockRow(n) \/ NextStatement(n) \/ NotFound(n) \/ Commit(n)
    \/ SelectRows(n) \/ FetchMessages(n) \/ Return(n)
    \/ Handle(n) \/ HandleMissing(n)

Settle(n) == RollBack(n) \/ CommitUnheard(n)

Next ==
    \/ \E n \in Calls : Begin(n) \/ Step(n) \/ CallFails(n) \/ Settle(n) \/ AnswerLost(n)
    \/ Restart

Spec == Init /\ [][Next]_vars

\* Calls go on as long as one of them can, in its process or, when it has failed, in the
\* database, which ends the transactions of connections it has lost.
FairSpec == Spec /\ WF_vars(\E n \in Calls : Step(n) \/ Settle(n))

--------------------------------------------------------------------------------
(* Properties.                                                             *)

CallType ==
    [op : {"none", "create", "list", "get"} \cup Changing,
     conv : Ids, owner : Owners \cup {None},
     at : {"none", "start", "locked", "commit", "selected", "end"},
     answer : {"none", "ok", "not_found", "failed"},
     before : SUBSET Calls]

TypeOK ==
    /\ postgres \in BOOLEAN /\ auth \in BOOLEAN /\ lost \in BOOLEAN
    /\ rows \in [Ids -> Row \cup {Absent}]
    /\ holder \in [Ids -> Ids]
    /\ calls \in [Calls -> CallType]
    /\ faults \in Nat

\* What a caller may rely on: see ConversationStore.  A transaction that waits for a row,
\* is given up or commits without an answer changes all it was asked for or nothing, is
\* refused only when there is nothing to change, and no deleted conversation comes back.
Request(n) == [op |-> calls[n].op, conv |-> calls[n].conv, owner |-> calls[n].owner]

Store == INSTANCE ConversationStore WITH
            durable <- postgres, chats <- rows,
            asked <- [n \in Calls |-> Request(n)],
            answer <- [n \in Calls |-> calls[n].answer],
            open <- {n \in Calls : calls[n].at \notin {"none", "end"}}

KeepsConversationPromise == Store!Spec

Did(n, op, c) == calls[n].op = op /\ calls[n].conv = c /\ calls[n].answer = "ok"
MayBeDeleted(c) ==
    \E d \in Calls : calls[d].op = "delete" /\ calls[d].conv = c /\ calls[d].answer # "not_found"

\* The messages of a conversation stand in an order in which they can have been sent: one
\* that was sent after another was acknowledged comes after it.
SentInOrder(e) ==
    \A i, j \in DOMAIN e.messages :
        i < j => e.messages[j] \notin calls[e.messages[i]].before

\* What read n returns of a conversation: one of the caller's that nobody had been told
\* was deleted, with the messages sent to it, those acknowledged before the read among
\* them, and with no title that was replaced before.
TrueEntry(n, e) ==
    /\ calls[n].owner \in {None, e.owner}
    /\ \A m \in calls[n].before : ~Did(m, "delete", e.id)
    /\ \A i \in DOMAIN e.messages :
          calls[e.messages[i]].op = "add" /\ calls[e.messages[i]].conv = e.id
    /\ SentInOrder(e)
    /\ ~MayBeDeleted(e.id) =>
          \A m \in calls[n].before :
             Did(m, "add", e.id) => \E i \in DOMAIN e.messages : e.messages[i] = m
    /\ \A m \in calls[n].before :
          Did(m, "rename", e.id) =>
              e.title = m \/ (e.title # e.id /\ e.title \notin calls[m].before)

\* A conversation of the caller that was acknowledged, and that nobody deletes, is found.
FindsWhatIsThere(n) ==
    \A c \in Ids :
        /\ c = 0 \/ (c \in calls[n].before /\ Did(c, "create", c))
        /\ ~MayBeDeleted(c)
        => /\ rows[c] # Absent
           /\ Matches(c, calls[n].owner) =>
                 CASE calls[n].op = "get" -> calls[n].conv = c => calls[n].answer # "not_found"
                   [] OTHER -> \E i \in DOMAIN shown[n] : shown[n][i].id = c

\* Whatever other processes do meanwhile, what a get or a list returns takes account of all
\* that was acknowledged before it, though it is put together from several statements that
\* see different states of the database.  The memory of one process forgets at a restart.
ReadsAreRecent ==
    \A n \in Calls :
        calls[n].op \in Reading /\ calls[n].answer \in {"ok", "not_found"} /\ ~lost =>
            /\ \A i \in DOMAIN shown[n] : TrueEntry(n, shown[n][i])
            /\ FindsWhatIsThere(n)

\* Every call is answered, and what a failed one has left is settled: again and again (and
\* so in the end, for a bounded number of calls) nothing that has begun is unfinished.
\* Processes that wait for each other's rows never wait for ever.
CallsEnd == []<>(\A n \in Calls : Begun(n) => calls[n].at = "end")
================================================================================
