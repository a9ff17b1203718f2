----------------------------- MODULE Workspace -----------------------------
(***************************************************************************)
(* One page of the web client (legal-qa-workspace.tsx), the questions it   *)
(* has open, and the conversation API it mirrors its messages to.  The     *)
(* page keeps the conversations; every message is also sent, best effort,  *)
(* to a conversation of the backend, by one queue per conversation.        *)
(*                                                                         *)
(* Asks and the backend's conversations are numbered in the order they     *)
(* begin; a conversation of the page has a fresh id (Chats) that is not    *)
(* used again.  Every question is one that reads as a follow-up: others    *)
(* are searched alone.  Left out: titles and renaming, another tab on the  *)
(* same localStorage, what answers say.                                    *)
(***************************************************************************)
EXTENDS Naturals, Sequences, FiniteSets, SequencesExt

CONSTANTS Chats, NoChat,
          MaxContext,     \* MAX_ASK_CONTEXT_MESSAGES, MAX_LEGAL_QA_CONTEXT_MESSAGES
          MaxLength,      \* MAX_QUESTION_LENGTH
          Lengths,        \* how long a question may be
          MaxAsks,        \* bound: questions in a behaviour
          MaxFaults       \* bound: lost requests, restarts and reloads

\* A context that holds one message could hold an answer alone.
ASSUME ContextAssumption == MaxContext \in Nat /\ MaxContext >= 2
ASSUME LengthsAssumption == MaxLength \in Nat /\ Lengths \in SUBSET (1 .. MaxLength)
ASSUME NoChatAssumption == NoChat \notin Chats

VARIABLES
  chats,     \* conversations: status, messages
  active,    \* activeConversationId
  asks,      \* Seq of [chat, captured, length, topic, at], never forgotten
  current,   \* activeAskRequestRef, 0 when null
  mirror,    \* backendConversationId of a conversation, 0 when it has none
  queue,     \* backendMessageQueuesRef: messages to send, of each conversation
  step,      \* where the first of a queue is
  store,     \* the repository: Seq of [chat, live, messages]
  deletes,   \* DELETE requests under way
  stray,     \* backend conversations whose creation or deletion the page never heard of
  faults

vars == <<chats, active, asks, current, mirror, queue, step, store, deletes, stray, faults>>
shown == <<chats, active>>
asking == <<asks, current>>
sync == <<mirror, queue, step>>
backend == <<store, deletes, stray>>

User(n) == [by |-> "user", ask |-> n, status |-> "complete"]
Assistant(n, status) == [by |-> "assistant", ask |-> n, status |-> status]
Idle == [at |-> "idle", to |-> 0, again |-> FALSE]

Open(c) == chats[c].status = "open"
Numbers == 1 .. Len(asks)
Loading(c) == \E m \in ToSet(chats[c].messages) : m.status = "loading"
ActiveLoads == active # NoChat /\ Loading(active)

Init == /\ chats = [c \in Chats |-> [status |-> "new", messages |-> << >>]]
        /\ active = NoChat /\ asks = << >> /\ current = 0
        /\ mirror = [c \in Chats |-> 0] /\ queue = [c \in Chats |-> << >>]
        /\ step = [c \in Chats |-> Idle]
        /\ store = << >> /\ deletes = {} /\ stray = {} /\ faults = 0

\* SelectSeq, with the elements to keep as a set.
Only(seq, kept) ==
  LET f[i \in 0 .. Len(seq)] ==
        IF i = 0 THEN << >>
        ELSE IF seq[i] \in kept THEN Append(f[i - 1], seq[i]) ELSE f[i - 1]
  IN f[Len(seq)]

Fault == faults < MaxFaults /\ faults' = faults + 1

---------------------------------------------------------------------------
(* The conversations of the page *)

Append2(c, messages) ==
  [chats EXCEPT ![c] = [status |-> "open", messages |-> @.messages \o messages]]

\* updateConversationMessage: nothing where the message is gone
Update(c, n, status) ==
  [chats EXCEPT ![c].messages =
     [i \in DOMAIN @ |-> IF @[i] = Assistant(n, "loading") THEN Assistant(n, status) ELSE @[i]]]

\* removeConversationMessage
Withdraw(c, n) ==
  [chats EXCEPT ![c].messages = Only(@, ToSet(@) \ {Assistant(n, "loading")})]

\* the messages chat-storage.ts keeps over a reload
Durable(m) == m.by = "user" \/ m.status = "complete"
Durables(messages) == Only(messages, {m \in ToSet(messages) : Durable(m)})

Select(c) == /\ c # active /\ active' = c
             /\ (c # NoChat => Open(c))
             /\ UNCHANGED <<chats, asking, sync, backend, faults>>

---------------------------------------------------------------------------
(* Asking *)

Recent(seq, n) == SubSeq(seq, IF Len(seq) > n THEN Len(seq) - n + 1 ELSE 1, Len(seq))

\* prepareRecentConversationContext
RecentContext(messages) == Recent(Durables(messages), MaxContext)

\* LegalQAContextPreparer: the last question of the context, 0 for none
PriorQuestion(context) ==
  LET recent == Recent(context, MaxContext)
      users == Only(recent, {m \in ToSet(recent) : m.by = "user"})
  IN IF users # << >> THEN users[Len(users)].ask ELSE 0

\* a blank and a part of another question fit beside this one
HasRoom(length) == length + 1 < MaxLength

\* _prepare_retrieval_question: the question this one is searched with, 0 for none
Topic(context, length) == IF HasRoom(length) THEN PriorQuestion(context) ELSE 0

Task(n, by, captured) == [ask |-> n, by |-> by, captured |-> captured]
Enqueue(c, task) == queue' = [queue EXCEPT ![c] = Append(@, task)]

SubmitWith(c, n, length, context) ==
  /\ chats' = Append2(c, <<User(n), Assistant(n, "loading")>>)
  /\ active' = c /\ current' = n
  /\ asks' = Append(asks, [chat |-> c, captured |-> mirror[c], length |-> length,
                           topic |-> Topic(context, length), at |-> "open"])
  /\ Enqueue(c, Task(n, "user", mirror[c]))
  /\ UNCHANGED <<mirror, step, backend, faults>>

AskedFrom == IF active = NoChat THEN {c \in Chats : chats[c].status = "new"} ELSE {active}

\* Mutant: the context is taken when the question is already shown.
SubmitAfterShown ==
  /\ Len(asks) < MaxAsks /\ ~ActiveLoads
  /\ \E c \in AskedFrom, length \in Lengths :
       SubmitWith(c, Len(asks) + 1, length,
                  RecentContext(Append(chats[c].messages, User(Len(asks) + 1))))

\* submitQuestion, up to its await
Submit ==
  /\ Len(asks) < MaxAsks /\ ~ActiveLoads
  /\ \E c \in AskedFrom, length \in Lengths :
       SubmitWith(c, Len(asks) + 1, length, RecentContext(chats[c].messages))

\* the finally of submitQuestion
Settle(n, outcome) == /\ asks' = [asks EXCEPT ![n].at = outcome]
                      /\ current' = IF current = n THEN 0 ELSE current

Known(first, second) == IF first # 0 THEN first ELSE second

Answer(n) ==
  /\ asks[n].at = "open" /\ Settle(n, "answered")
  /\ LET c == asks[n].chat
     IN /\ chats' = Update(c, n, "complete")
        /\ Enqueue(c, Task(n, "assistant", Known(mirror[c], asks[n].captured)))
  /\ UNCHANGED <<active, mirror, step, backend, faults>>

\* no answer, a refusal of the rate limiter, or no JSON
AskFails(n) == /\ asks[n].at = "open" /\ Settle(n, "failed")
               /\ chats' = Update(asks[n].chat, n, "error")
               /\ UNCHANGED <<active, sync, backend, faults>>

\* Mutant: the message is looked for in the conversation that is shown.
StopShown == /\ ActiveLoads /\ current # 0
             /\ Settle(current, "stopped")
             /\ chats' = Withdraw(active, current)
             /\ UNCHANGED <<active, sync, backend, faults>>

\* "Dừng": cancelActiveQuestion, and what the abort makes of the question
Stop == /\ ActiveLoads /\ current # 0
        /\ Settle(current, "stopped")
        /\ chats' = Withdraw(asks[current].chat, current)
        /\ UNCHANGED <<active, sync, backend, faults>>

\* deleteConversation
Delete(c) ==
  /\ Open(c)
  /\ chats' = [chats EXCEPT ![c] = [status |-> "deleted", messages |-> << >>]]
  /\ IF c # active THEN UNCHANGED active
     ELSE LET rest == {d \in Chats \ {c} : Open(d)}
          IN active' \in IF rest = {} THEN {NoChat} ELSE rest
  /\ mirror' = [mirror EXCEPT ![c] = 0]
  /\ deletes' = deletes \cup ({mirror[c]} \ {0})
  /\ UNCHANGED <<asking, queue, step, store, stray, faults>>

---------------------------------------------------------------------------
(* Sending the messages of a conversation: syncMessageToBackend *)

At(c, place) == step[c].at = place
Move(c, place, to) == step' = [step EXCEPT ![c].at = place, ![c].to = to]
EndTask(c) == /\ queue' = [queue EXCEPT ![c] = Tail(@)]
              /\ step' = [step EXCEPT ![c] = Idle]

\* ensureBackendConversation: a conversation to post to, or one to create
Ensure(c, known, again) ==
  step' = [step EXCEPT ![c] = [at |-> IF known = 0 THEN "creating" ELSE "posting",
                               to |-> known, again |-> again]]

StartSync(c) == /\ queue[c] # << >> /\ At(c, "idle")
                /\ Ensure(c, Known(mirror[c], queue[c][1].captured), FALSE)
                /\ UNCHANGED <<shown, asking, mirror, queue, backend, faults>>

\* Mutant: a conversation deleted meanwhile is attached.
CreatedUnchecked(c) == /\ At(c, "created")
                       /\ mirror' = [mirror EXCEPT ![c] = step[c].to]
                       /\ Move(c, "posting", step[c].to)
                       /\ UNCHANGED <<shown, asking, queue, backend, faults>>

\* the response to createAndAttachBackendConversation
Created(c) ==
  /\ At(c, "created")
  /\ IF chats[c].status = "deleted"
     THEN /\ deletes' = deletes \cup {step[c].to} /\ EndTask(c) /\ UNCHANGED mirror
     ELSE /\ mirror' = [mirror EXCEPT ![c] = step[c].to]
          /\ Move(c, "posting", step[c].to) /\ UNCHANGED <<queue, deletes>>
  /\ UNCHANGED <<shown, asking, store, stray, faults>>

\* 404: detachBackendConversationId, and once more
Missing(c) ==
  LET left == IF mirror[c] = step[c].to THEN 0 ELSE mirror[c]
  IN /\ At(c, "missing")
     /\ IF step[c].again THEN EndTask(c) /\ UNCHANGED mirror
        ELSE /\ mirror' = [mirror EXCEPT ![c] = left]
             /\ Ensure(c, left, TRUE) /\ UNCHANGED queue
     /\ UNCHANGED <<shown, asking, backend, faults>>

\* Mutant: it is sent again after the others.
SyncFailsRequeued(c) ==
  /\ Fault /\ step[c].at \in {"creating", "created", "posting"}
  /\ stray' = stray \cup IF At(c, "created") THEN {step[c].to} ELSE {}
  /\ queue' = [queue EXCEPT ![c] = Append(Tail(@), Head(@))]
  /\ step' = [step EXCEPT ![c] = Idle]
  /\ UNCHANGED <<shown, asking, mirror, store, deletes>>

\* a request, or its response, is lost: the message is not sent again
SyncFails(c) == /\ Fault
                /\ step[c].at \in {"creating", "created", "posting"}
                /\ stray' = stray \cup IF At(c, "created") THEN {step[c].to} ELSE {}
                /\ EndTask(c)
                /\ UNCHANGED <<shown, asking, mirror, store, deletes>>

---------------------------------------------------------------------------
(* The conversation API: ConversationService, and the repository behind it,
   in memory or in PostgreSQL.                                              *)

\* create: INSERT INTO conversations
Insert(c) == store' = Append(store, [chat |-> c, live |-> TRUE, messages |-> << >>])

\* _require
Found(b) == store[b].live

\* add_message: UPDATE conversations, INSERT INTO conversation_messages
AppendMessage(b, m) == store' = [store EXCEPT ![b].messages = Append(@, m)]

\* delete: DELETE FROM conversations
Drop(b) == store' = [store EXCEPT ![b].live = FALSE]

CreateArrives(c) == /\ At(c, "creating") /\ Insert(c)
                    /\ Move(c, "created", Len(store) + 1)
                    /\ UNCHANGED <<shown, asking, mirror, queue, deletes, stray, faults>>

\* After a post nothing is left to do, whether its response arrives or not.
PostArrives(c) ==
  /\ At(c, "posting")
  /\ LET b == step[c].to   task == queue[c][1]
     IN IF Found(b)
        THEN AppendMessage(b, <<task.ask, task.by>>) /\ EndTask(c)
        ELSE Move(c, "missing", b) /\ UNCHANGED <<queue, store>>
  /\ UNCHANGED <<shown, asking, mirror, deletes, stray, faults>>

\* A conversation that is not found is as good as deleted.
DeleteArrives(b) == /\ b \in deletes /\ deletes' = deletes \ {b}
                    /\ Drop(b)
                    /\ UNCHANGED <<shown, asking, sync, stray, faults>>

DeleteFails(b) == /\ b \in deletes /\ Fault
                  /\ deletes' = deletes \ {b} /\ stray' = stray \cup {b}
                  /\ UNCHANGED <<shown, asking, sync, store>>

\* InMemoryConversationRepository: "discarded when the process exits"
Restart == /\ Fault /\ store' = [b \in DOMAIN store |-> [store[b] EXCEPT !.live = FALSE]]
           /\ UNCHANGED <<shown, asking, sync, deletes, stray>>

\* The page is loaded again; requests that have not arrived are lost with it.
Reload ==
  LET kept == {c \in Chats : Open(c)}
      unheard == {step[c].to : c \in {d \in Chats : At(d, "created")}}
  IN /\ Fault
     /\ chats' = [c \in Chats |-> [chats[c] EXCEPT !.messages = Durables(@)]]
     /\ active' \in IF kept = {} THEN {NoChat} ELSE kept
     /\ asks' = [n \in Numbers |-> IF asks[n].at \in {"open", "failed"}
                                   THEN [asks[n] EXCEPT !.at = "gone"] ELSE asks[n]]
     /\ current' = 0
     /\ queue' = [c \in Chats |-> << >>] /\ step' = [c \in Chats |-> Idle]
     /\ stray' = stray \cup unheard \cup deletes /\ deletes' = {}
     /\ UNCHANGED <<mirror, store>>

---------------------------------------------------------------------------
Next == \/ \E c \in Chats \cup {NoChat} : Select(c)
        \/ \E n \in Numbers : Answer(n) \/ AskFails(n)
        \/ Submit \/ Stop
        \/ \E c \in Chats : \/ Delete(c)
                            \/ StartSync(c) \/ Created(c) \/ Missing(c)
                            \/ SyncFails(c) \/ CreateArrives(c) \/ PostArrives(c)
        \/ \E b \in 1 .. Len(store) : DeleteArrives(b) \/ DeleteFails(b)
        \/ Restart \/ Reload

Spec == Init /\ [][Next]_vars

---------------------------------------------------------------------------
(* Every question's answer is shown where it was asked and as it went, in
   whatever order the answers come and wherever the user has gone: a spinner
   while it is open, the answer, the error, or nothing once it was stopped
   (submitQuestion, cancelActiveQuestion).                                  *)
ShownAs == [open |-> {"loading"}, answered |-> {"complete"}, failed |-> {"error"},
            stopped |-> {}, gone |-> {}]
AnswersShownAsTheyWent ==
  \A n \in Numbers : LET c == asks[n].chat IN Open(c) =>
    {m.status : m \in {k \in ToSet(chats[c].messages) : k.by = "assistant" /\ k.ask = n}}
       = ShownAs[asks[n].at]

(* A conversation of the backend holds messages of one conversation of the
   page, none twice, in the order they were shown, whatever was lost,
   replaced or posted again after a 404 (queueMessageSync).                 *)
Place(m) == 2 * m[1] + IF m[2] = "user" THEN 0 ELSE 1
MirrorIsInOrder ==
  \A b \in DOMAIN store : LET sent == store[b].messages IN
    /\ \A i \in DOMAIN sent : asks[sent[i][1]].chat = store[b].chat
    /\ \A i, j \in DOMAIN sent : i < j => Place(sent[i]) < Place(sent[j])

(* The backend keeps no conversation the page has deleted, and no second one
   of a conversation: all it has are attached, being attached or deleted, or
   were lost sight of by a lost request (createAndAttachBackendConversation). *)
NothingLeftBehind ==
  \A b \in DOMAIN store : LET c == store[b].chat IN store[b].live =>
    \/ b \in stray \cup deletes
    \/ At(c, "created") /\ step[c].to = b
    \/ Open(c) /\ mirror[c] = b

(* A follow-up question that leaves room for it is searched together with the
   question asked before it in its conversation, also when that one was
   stopped, failed or lost its answer to a reload; one that leaves none is
   searched alone (prepareRecentConversationContext,
   _prepare_retrieval_question).                                            *)
Before(n) == {m \in 1 .. n - 1 : asks[m].chat = asks[n].chat}
FollowUpHasItsTopic ==
  \A n \in Numbers :
    IF Before(n) = {} \/ MaxLength <= asks[n].length + 1 THEN asks[n].topic = 0
    ELSE asks[n].topic \in Before(n) /\ \A m \in Before(n) : m <= asks[n].topic

(* apps/frontend/README.md:44: while an answer is being generated, the button
   aborts the request and unlocks the UI.  The button stops the question asked
   last, which need not be one of the conversation that is shown.           *)
StopReachesWhatIsShown == ActiveLoads => current # 0 /\ asks[current].chat = active
============================================================================
