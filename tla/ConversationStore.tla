--------------------------- MODULE ConversationStore ---------------------------
(***************************************************************************)
(* What the conversation API promises about what it is asked to store,     *)
(* whichever repository is behind it: a call takes effect as a whole and   *)
(* at most once, while it is open; what its caller is told is what has     *)
(* happened; and nothing is stored, changed or lost in any other way.      *)
(*                                                                         *)
(* Calls are numbered in the order in which they begin, and a              *)
(* conversation or a message has the number of the call that made it.      *)
(***************************************************************************)
EXTENDS Integers

CONSTANTS
    MaxCalls,   \* bound: calls in a behaviour
    Owners,     \* the sessions' owner ids
    None,       \* owner_id = None: authentication is off
    Absent      \* what is stored under an id that has no conversation

Calls == 1 .. MaxCalls
Ids == 0 .. MaxCalls       \* conversation 0 is there from the start
Chat == [owner : Owners \cup {None}, title : Ids, updated : Ids, messages : SUBSET Calls]
NewChat(n, who) == [owner |-> who, title |-> n, updated |-> n, messages |-> {}]

VARIABLES
    durable,   \* what is stored outlives the process
    chats,     \* the conversations that are stored
    asked,     \* asked[n]: what call n asks for
    answer,    \* answer[n]: what its caller is told
    open       \* the calls that may yet have their effect

vars == <<durable, chats, asked, answer, open>>

Nothing == [op |-> "none", conv |-> 0, owner |-> None]
Requests == [op : {"create", "rename", "delete", "add", "get", "list"},
             conv : Ids, owner : Owners \cup {None}]

Init ==
    /\ durable \in BOOLEAN
    /\ \E who \in Owners \cup {None} :
          chats = [c \in Ids |-> IF c = 0 THEN NewChat(0, who) ELSE Absent]
    /\ asked = [n \in Calls |-> Nothing]
    /\ answer = [n \in Calls |-> "none"]
    /\ open = {}

Has(n) ==
    LET chat == chats[asked[n].conv]
    IN chat # Absent /\ asked[n].owner \in {None, chat.owner}

\* A call is made in its turn: no later one has been made.
Make(n) ==
    /\ \A m \in Calls : asked[m].op # "none" <=> m < n
    /\ asked'[n] \in Requests
    /\ asked' = [asked EXCEPT ![n] = asked'[n]]
    /\ open' = open \cup {n}
    /\ UNCHANGED <<durable, chats, answer>>

\* All that call n asks for is done, at once.
TakeEffect(n) ==
    LET c == asked[n].conv
    IN \/ /\ asked[n].op = "create"
          /\ c = n /\ chats[n] = Absent
          /\ chats' = [chats EXCEPT ![n] = NewChat(n, asked[n].owner)]
       \/ /\ asked[n].op = "rename" /\ Has(n)
          /\ chats' = [chats EXCEPT ![c].title = n, ![c].updated = n]
       \/ /\ asked[n].op = "delete" /\ Has(n)
          /\ chats' = [chats EXCEPT ![c] = Absent]
       \/ /\ asked[n].op = "add" /\ Has(n)
          /\ chats' = [chats EXCEPT ![c].messages = @ \cup {n}, ![c].updated = n]
       \/ /\ asked[n].op \in {"get", "list"}
          /\ chats' = chats

Succeed(n) ==
    /\ n \in open /\ answer[n] = "none"
    /\ TakeEffect(n)
    /\ answer' = [answer EXCEPT ![n] = "ok"]
    /\ open' = open \ {n}
    /\ UNCHANGED <<durable, asked>>

\* The caller is told that there is no such conversation: there is none, or none
\* of his.
Refuse(n) ==
    /\ n \in open /\ answer[n] = "none"
    /\ asked[n].op \in {"rename", "delete", "add", "get"} /\ ~Has(n)
    /\ answer' = [answer EXCEPT ![n] = "not_found"]
    /\ open' = open \ {n}
    /\ UNCHANGED <<durable, chats, asked>>

\* The caller learns nothing of the effect: the call has had it, never will, or
\* stays open.
Fail(n) ==
    /\ n \in open /\ answer[n] = "none"
    /\ answer' = [answer EXCEPT ![n] = "failed"]
    /\ \/ TakeEffect(n) /\ open' = open \ {n}
       \/ UNCHANGED chats /\ open' \in {open, open \ {n}}
    /\ UNCHANGED <<durable, asked>>

\* A call that failed comes to its end, with or without its effect.
Settle(n) ==
    /\ n \in open /\ answer[n] = "failed"
    /\ TakeEffect(n) \/ UNCHANGED chats
    /\ open' = open \ {n}
    /\ UNCHANGED <<durable, asked, answer>>

\* Only what is not durable is ever lost.
Vanish ==
    /\ ~durable
    /\ chats' = [c \in Ids |-> Absent]
    /\ UNCHANGED <<durable, asked, answer, open>>

Next ==
    \/ \E n \in Calls : Make(n) \/ Succeed(n) \/ Refuse(n) \/ Fail(n) \/ Settle(n)
    \/ Vanish

Spec == Init /\ [][Next]_vars
================================================================================
