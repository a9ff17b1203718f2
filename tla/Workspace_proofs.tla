------------------------- MODULE Workspace_proofs -------------------------
(***************************************************************************)
(* Theorems about the web client: what the page shows, what it mirrors and *)
(* what a follow-up is searched with, for any number of conversations,     *)
(* questions and faults, and any context of two messages or more.          *)
(***************************************************************************)
EXTENDS Workspace, SequenceTheorems, WellFoundedInduction, TLAPS

Message == [by : {"user", "assistant"}, ask : Nat, status : {"complete", "loading", "error"}]

By == {"user", "assistant"}

Mirrored == [ask : Nat, by : By, captured : Nat]

Backed == [chat : Chats, live : BOOLEAN, messages : Seq(Nat \X By)]

\* Where a message belongs in its conversation.
Pos(m) == 2 * m.ask + IF m.by = "user" THEN 0 ELSE 1

Ordered(s) == \A i, j \in DOMAIN s : i < j => Pos(s[i]) < Pos(s[j])

(* The page.                                                               *)

AskStates == {"open", "answered", "failed", "stopped", "gone"}

Asked == [chat : Chats, captured : Nat, length : Lengths, topic : Nat, at : AskStates]

PageType ==
  /\ chats \in [Chats -> [status : {"new", "open", "deleted"}, messages : Seq(Message)]]
  /\ active \in Chats \cup {NoChat}
  /\ asks \in Seq(Asked)
  /\ current \in 0 .. Len(asks)

\* A message belongs to a question of the conversation, and an answer is as it went.
Fits(m, c) ==
  /\ m.ask \in Numbers
  /\ asks[m.ask].chat = c
  /\ m.by = "user" => m = User(m.ask)
  /\ m.by = "assistant" => m.status \in ShownAs[asks[m.ask].at]

\* Every question is shown, and its answer as it went.
Shows(c, n) ==
  /\ User(n) \in ToSet(chats[c].messages)
  /\ \A st \in ShownAs[asks[n].at] : Assistant(n, st) \in ToSet(chats[c].messages)

Shown(c) ==
  /\ ~ Open(c) => chats[c].messages = << >>
  /\ Ordered(chats[c].messages)
  /\ \A m \in ToSet(chats[c].messages) : Fits(m, c)
  /\ Open(c) => \A n \in Numbers : asks[n].chat = c => Shows(c, n)

PageInv ==
  /\ active # NoChat => Open(active)
  /\ current # 0 => asks[current].at = "open"
  /\ \A c \in Chats : chats[c].status = "new" => \A n \in Numbers : asks[n].chat # c
  \* An open question is the last of its conversation.
  /\ \A n, m \in Numbers : asks[n].at = "open" /\ asks[m].chat = asks[n].chat => m <= n
  /\ \A c \in Chats : Shown(c)

(* The mirror.                                                             *)

Places == {"idle", "creating", "created", "posting", "missing"}

MirrorType ==
  /\ mirror \in [Chats -> Nat]
  /\ queue \in [Chats -> Seq(Mirrored)]
  /\ step \in [Chats -> [at : Places, to : Nat, again : BOOLEAN]]
  /\ store \in Seq(Backed)

\* A conversation of the backend that stands for c.
For(b, c) == b \in DOMAIN store /\ store[b].chat = c

TaskPlace(t) == Place(<<t.ask, t.by>>)

\* A message that was or will be sent: an answer only once it is there.
Said(n, by, c) ==
  /\ n \in Numbers
  /\ asks[n].chat = c
  /\ by = "assistant" => asks[n].at = "answered"

Queued(c) ==
  /\ \A i \in DOMAIN queue[c] :
       /\ Said(queue[c][i].ask, queue[c][i].by, c)
       /\ queue[c][i].captured # 0 => For(queue[c][i].captured, c)
  /\ \A i, j \in DOMAIN queue[c] : i < j => TaskPlace(queue[c][i]) < TaskPlace(queue[c][j])
  /\ mirror[c] # 0 => For(mirror[c], c)
  /\ step[c].at = "idle" \/ queue[c] # << >>
  /\ step[c].at \in {"created", "posting", "missing"} => For(step[c].to, c)
  /\ step[c].at \in {"creating", "created"} => mirror[c] = 0
  /\ step[c].at = "missing" => ~ store[step[c].to].live

Stored(b) ==
  LET sent == store[b].messages   c == store[b].chat IN
  /\ \A i \in DOMAIN sent : Said(sent[i][1], sent[i][2], c)
  /\ \A i, j \in DOMAIN sent : i < j => Place(sent[i]) < Place(sent[j])
  /\ \A i \in DOMAIN sent : \A k \in DOMAIN queue[c] : Place(sent[i]) < TaskPlace(queue[c][k])

MirrorInv ==
  /\ \A n \in Numbers : asks[n].captured # 0 => For(asks[n].captured, asks[n].chat)
  /\ \A c \in Chats : Queued(c)
  /\ \A b \in DOMAIN store : Stored(b)

IInv == PageType /\ PageInv /\ MirrorType /\ MirrorInv /\ NothingLeftBehind

---------------------------------------------------------------------------
(* Sequences filtered.                                                     *)

\* A set of numbers has a least one.
LEMMA LeastNumber ==
    ASSUME NEW T \in SUBSET Nat, T # {}
    PROVE  \E m \in T : \A k \in T : m <= k
<1>1. PICK m \in T : \A k \in T : ~ (<<k, m>> \in OpToRel(<, Nat))
  BY NatLessThanWellFounded, WFMin
<1>2. \A k \in T : ~ (k < m)
  BY <1>1 DEF OpToRel
<1> QED
  BY <1>2

\* The function that defines Only, spelt out.
LEMMA OnlyDef ==
    ASSUME NEW S, NEW s \in Seq(S), NEW kept
    PROVE  \E f : /\ Only(s, kept) = f[Len(s)]
                  /\ f[0] = << >>
                  /\ \A i \in 1 .. Len(s) :
                       f[i] = IF s[i] \in kept THEN Append(f[i - 1], s[i]) ELSE f[i - 1]
<1> DEFINE Body(g, i) == IF i = 0 THEN << >>
                         ELSE IF s[i] \in kept THEN Append(g[i - 1], s[i]) ELSE g[i - 1]
           Def(n) == \E g : g = [i \in 0 .. n |-> Body(g, i)]
           T == {n \in Nat : ~ Def(n)}
<1>1. T = {}
  <2> SUFFICES ASSUME T # {} PROVE FALSE
    OBVIOUS
  <2>1. PICK m \in T : \A k \in T : m <= k
    BY LeastNumber
  <2>2. CASE m = 0
    <3> DEFINE h == [i \in 0 .. 0 |-> << >>]
    <3>1. h = [i \in 0 .. 0 |-> Body(h, i)]
      BY SMT
    <3> QED
      BY <2>1, <2>2, <3>1
  <2>3. CASE m # 0
    <3>1. m - 1 \in Nat /\ m - 1 \notin T
      <4>1. T \subseteq Nat
        OBVIOUS
      <4> HIDE DEF T
      <4> QED
        BY <2>1, <2>3, <4>1
    <3>2. PICK g : g = [i \in 0 .. m - 1 |-> Body(g, i)]
      BY <3>1
    <3> DEFINE h == [i \in 0 .. m |-> IF i < m THEN g[i] ELSE Body(g, m)]
    <3>3. \A i \in 0 .. m : h[i] = Body(h, i)
      <4> SUFFICES ASSUME NEW i \in 0 .. m PROVE h[i] = Body(h, i)
        OBVIOUS
      <4>1. i # 0 => h[i - 1] = g[i - 1]
        BY <2>1
      <4>2. Body(h, i) = Body(g, i)
        BY <4>1
      <4>3. i < m => g[i] = Body(g, i)
        <5>1. m \in Nat
          OBVIOUS
        <5> HIDE DEF Body, T
        <5> QED
          BY <3>2, <5>1
      <4> QED
        BY <4>2, <4>3, <2>1
    <3>4. h = [i \in 0 .. m |-> Body(h, i)]
      BY <3>3
    <3> QED
      BY <2>1, <3>4
  <2> QED
    BY <2>2, <2>3
<1>2. Len(s) \in Nat
  OBVIOUS
<1>3. \E g : g = [i \in 0 .. Len(s) |-> Body(g, i)]
  BY <1>1, <1>2
<1> DEFINE f == CHOOSE g : g = [i \in 0 .. Len(s) |-> Body(g, i)]
<1>4. f = [i \in 0 .. Len(s) |-> Body(f, i)]
  BY <1>3
<1>5. Only(s, kept) = f[Len(s)]
  BY DEF Only
<1> HIDE DEF f
<1>a. \A i \in 0 .. Len(s) : f[i] = Body(f, i)
  <2> HIDE DEF Body
  <2> QED
    BY <1>4
<1>6. f[0] = << >>
  BY <1>2, <1>a
<1>7. \A i \in 1 .. Len(s) :
        f[i] = IF s[i] \in kept THEN Append(f[i - 1], s[i]) ELSE f[i - 1]
  BY <1>2, <1>a
<1> QED
  BY <1>5, <1>6, <1>7

\* e places the elements of t in s: t is what s has of kept, in the order of s.
Picks(t, s, kept, e) ==
  /\ e \in [1 .. Len(t) -> 1 .. Len(s)]
  /\ \A k \in 1 .. Len(t) : t[k] = s[e[k]] /\ t[k] \in kept
  /\ \A j, k \in 1 .. Len(t) : j < k => e[j] < e[k]
  /\ \A i \in 1 .. Len(s) : s[i] \in kept => \E k \in 1 .. Len(t) : e[k] = i

LEMMA OnlyPicks ==
    ASSUME NEW S, NEW s \in Seq(S), NEW kept
    PROVE  /\ Only(s, kept) \in Seq(S)
           /\ \E e : Picks(Only(s, kept), s, kept, e)
<1>1. PICK f : /\ Only(s, kept) = f[Len(s)]
               /\ f[0] = << >>
               /\ \A i \in 1 .. Len(s) :
                    f[i] = IF s[i] \in kept THEN Append(f[i - 1], s[i]) ELSE f[i - 1]
  BY OnlyDef
<1> DEFINE Upto(t, i, e) ==
             /\ e \in [1 .. Len(t) -> 1 .. i]
             /\ \A k \in 1 .. Len(t) : t[k] = s[e[k]] /\ t[k] \in kept
             /\ \A j, k \in 1 .. Len(t) : j < k => e[j] < e[k]
             /\ \A l \in 1 .. i : s[l] \in kept => \E k \in 1 .. Len(t) : e[k] = l
           Good(i) == f[i] \in Seq(S) /\ \E e : Upto(f[i], i, e)
           T == {i \in 0 .. Len(s) : ~ Good(i)}
<1>2. Good(0)
  <2> DEFINE e == [k \in 1 .. 0 |-> 0]
  <2>1. f[0] = << >> /\ f[0] \in Seq(S)
    BY <1>1
  <2>2. Upto(f[0], 0, e)
    BY <2>1
  <2> HIDE DEF Upto, e
  <2> QED
    BY <2>1, <2>2
<1>3. ASSUME NEW i \in 1 .. Len(s), Good(i - 1) PROVE Good(i)
  <2>1. PICK e : Upto(f[i - 1], i - 1, e)
    BY <1>3
  <2> DEFINE t == f[i - 1]
  <2>2. t \in Seq(S) /\ s[i] \in S
    BY <1>3
  <2>3. CASE s[i] \in kept
    <3>1. f[i] = Append(t, s[i])
      BY <1>1, <2>3
    <3> DEFINE u == Append(t, s[i])
               n == Len(t)
               d == [k \in 1 .. n + 1 |-> IF k = n + 1 THEN i ELSE e[k]]
    <3>2. /\ n \in Nat /\ u \in Seq(S) /\ Len(u) = n + 1
          /\ u[n + 1] = s[i]
          /\ \A k \in 1 .. n : u[k] = t[k]
      BY <2>2
    <3>3. /\ e \in [1 .. n -> 1 .. i - 1]
          /\ \A k \in 1 .. n : t[k] = s[e[k]] /\ t[k] \in kept
          /\ \A j, k \in 1 .. n : j < k => e[j] < e[k]
          /\ \A l \in 1 .. i - 1 : s[l] \in kept => \E k \in 1 .. n : e[k] = l
      BY <2>1
    <3> HIDE DEF u, n, t
    <3>4. d \in [1 .. n + 1 -> 1 .. i]
      BY <3>2, <3>3
    <3>5. \A k \in 1 .. n + 1 : u[k] = s[d[k]] /\ u[k] \in kept
      <4> SUFFICES ASSUME NEW k \in 1 .. n + 1
                   PROVE  u[k] = s[d[k]] /\ u[k] \in kept
        OBVIOUS
      <4>1. CASE k = n + 1
        BY <2>3, <3>2, <4>1
      <4>2. CASE k # n + 1
        <5>1. k \in 1 .. n /\ d[k] = e[k]
          BY <3>2, <4>2
        <5> QED
          BY <3>2, <3>3, <5>1
      <4> QED
        BY <4>1, <4>2
    <3>6. \A j, k \in 1 .. n + 1 : j < k => d[j] < d[k]
      BY <3>2, <3>3
    <3>7. \A l \in 1 .. i : s[l] \in kept => \E k \in 1 .. n + 1 : d[k] = l
      <4> TAKE l \in 1 .. i
      <4>1. CASE l = i
        BY <4>1, <3>2
      <4>2. CASE l # i
        BY <4>2, <3>2, <3>3
      <4> QED
        BY <4>1, <4>2
    <3>8. Upto(u, i, d)
      BY <3>2, <3>4, <3>5, <3>6, <3>7
    <3>9. f[i] = u
      BY <3>1 DEF u, t
    <3> HIDE DEF Upto, d
    <3> QED
      BY <3>2, <3>8, <3>9
  <2>4. CASE s[i] \notin kept
    <3>1. f[i] = t
      BY <1>1, <2>4
    <3>2. Upto(t, i, e)
      <4>1. e \in [1 .. Len(t) -> 1 .. i]
        BY <2>1, <2>2
      <4>2. \A l \in 1 .. i : s[l] \in kept => l \in 1 .. i - 1
        BY <2>4
      <4> HIDE DEF t
      <4> QED
        BY <2>1, <4>1, <4>2 DEF t
    <3> HIDE DEF Upto, t
    <3> QED
      BY <2>2, <3>1, <3>2
  <2> QED
    BY <2>3, <2>4
<1>4. T = {}
  <2> HIDE DEF Good
  <2> SUFFICES ASSUME T # {} PROVE FALSE
    OBVIOUS
  <2>1. T \in SUBSET Nat
    OBVIOUS
  <2>2. PICK m \in T : \A k \in T : m <= k
    BY <2>1, LeastNumber
  <2>3. m \in 1 .. Len(s) /\ m - 1 \in 0 .. Len(s) /\ m - 1 \notin T
    BY <1>2, <2>2
  <2> QED
    BY <1>3, <2>2, <2>3
<1>5. Len(s) \in 0 .. Len(s)
  OBVIOUS
<1>6. Good(Len(s))
  <2> HIDE DEF Good
  <2> QED
    BY <1>4, <1>5
<1> DEFINE t == f[Len(s)]
<1>7. t \in Seq(S)
  BY <1>6
<1>8. PICK e : Upto(t, Len(s), e)
  BY <1>6
<1>9. Picks(t, s, kept, e)
  <2> HIDE DEF t
  <2> QED
    BY <1>8 DEF Picks
<1> QED
  BY <1>1, <1>7, <1>9

\* What a filtered sequence holds, and that the order stays.
LEMMA OnlyKeeps ==
    ASSUME NEW s \in Seq(Message), NEW kept
    PROVE  /\ Only(s, kept) \in Seq(Message)
           /\ ToSet(Only(s, kept)) = ToSet(s) \cap kept
           /\ Ordered(s) => Ordered(Only(s, kept))
<1> DEFINE t == Only(s, kept)
<1>1. PICK e : Picks(t, s, kept, e)
  BY OnlyPicks
<1>2. t \in Seq(Message)
  BY OnlyPicks
<1> HIDE DEF t
<1>3. DOMAIN t = 1 .. Len(t) /\ DOMAIN s = 1 .. Len(s)
  BY <1>2
<1>4. ToSet(t) = ToSet(s) \cap kept
  BY <1>1, <1>3 DEF Picks, ToSet
<1>5. Ordered(s) => Ordered(t)
  BY <1>1, <1>3 DEF Picks, Ordered
<1> QED
  BY <1>2, <1>4, <1>5 DEF t

\* The most recent messages are the end of a sequence.
LEMMA RecentIsTheEnd ==
    ASSUME NEW s \in Seq(Message), NEW n \in Nat
    PROVE  LET r == Recent(s, n) IN
           /\ r \in Seq(Message)
           /\ Len(r) = IF Len(s) > n THEN n ELSE Len(s)
           /\ \A i \in 1 .. Len(r) : r[i] = s[Len(s) - Len(r) + i]
<1> DEFINE k == IF Len(s) > n THEN Len(s) - n + 1 ELSE 1
           r == SubSeq(s, k, Len(s))
<1>1. Len(s) \in Nat /\ k \in 1 .. Len(s) + 1
  OBVIOUS
<1>2. /\ r \in Seq(Message)
      /\ Len(r) = Len(s) - k + 1
      /\ \A i \in 1 .. Len(s) - k + 1 : r[i] = s[k + i - 1]
  <2>1. /\ \A i \in k .. Len(s) : s[i] \in Message
        /\ k \in Nat
    BY <1>1
  <2> HIDE DEF k
  <2> QED
    BY <1>1, <2>1, SubSeqProperties
<1>3. Recent(s, n) = r
  BY DEF Recent
<1>4. /\ Len(s) - k + 1 = IF Len(s) > n THEN n ELSE Len(s)
      /\ k - 1 = Len(s) - Len(r)
  <2>1. Len(r) = Len(s) - k + 1
    BY <1>2
  <2> HIDE DEF r
  <2> QED
    BY <1>1, <2>1
<1>5. \A i \in 1 .. Len(r) : r[i] = s[Len(s) - Len(r) + i]
  <2>1. k \in Nat /\ Len(r) \in Nat
    BY <1>1, <1>2
  <2> HIDE DEF k, r
  <2>2. \A i \in 1 .. Len(r) : k + i - 1 = Len(s) - Len(r) + i
    BY <1>1, <1>4, <2>1
  <2> QED
    BY <1>2, <2>2
<1> HIDE DEF r, k
<1> QED
  BY <1>2, <1>3, <1>4, <1>5

LEMMA PosType ==
    ASSUME NEW m \in Message
    PROVE  /\ Pos(m) \in Nat
           /\ Pos(m) = IF m.by = "user" THEN 2 * m.ask ELSE 2 * m.ask + 1
BY DEF Pos, Message

LEMMA UserType ==
    ASSUME NEW n \in Nat
    PROVE  User(n) \in Message /\ Pos(User(n)) = 2 * n /\ Durable(User(n)) /\ User(n).by = "user"
<1>1. User(n) \in Message /\ User(n).by = "user" /\ User(n).ask = n
  BY DEF User, Message
<1> QED
  BY <1>1, PosType DEF Durable

LEMMA UpTo == \A n \in Nat : \A i \in 1 .. n : i = n \/ i < n
OBVIOUS

LEMMA EmptyByRange ==
    ASSUME NEW s \in Seq(Message)
    PROVE  s = << >> <=> ToSet(s) = {}
BY DEF ToSet

\* In a conversation of the questions A, whose messages are in order, the context picks
\* the last question.
LEMMA PriorIsTheLast ==
    ASSUME NEW s \in Seq(Message), Ordered(s), NEW A \in SUBSET Nat,
           \A m \in ToSet(s) : m.ask \in A /\ (m.by = "user" => m = User(m.ask)),
           \A n \in A : User(n) \in ToSet(s)
    PROVE  LET t == PriorQuestion(RecentContext(s)) IN
           IF A = {} THEN t = 0 ELSE t \in A /\ \A n \in A : n <= t
<1> DEFINE d == Durables(s)
           r == Recent(d, MaxContext)
           isUser == {m \in ToSet(r) : m.by = "user"}
           users == Only(r, isUser)
<1>1. /\ d \in Seq(Message) /\ Ordered(d)
      /\ ToSet(d) = ToSet(s) \cap {m \in ToSet(s) : Durable(m)}
  BY OnlyKeeps DEF Durables
<1>2. /\ r \in Seq(Message)
      /\ Len(r) = IF Len(d) > MaxContext THEN MaxContext ELSE Len(d)
      /\ \A i \in 1 .. Len(r) : r[i] = d[Len(d) - Len(r) + i]
  BY <1>1, RecentIsTheEnd, ContextAssumption
<1>3. Recent(r, MaxContext) = r
  <2> HIDE DEF r
  <2>1. Len(r) \in Nat /\ Len(r) <= MaxContext
    BY <1>1, <1>2, ContextAssumption
  <2>2. ~ (Len(r) > MaxContext)
    BY <2>1, ContextAssumption
  <2>3. Recent(r, MaxContext) = SubSeq(r, 1, Len(r))
    BY <2>2, Zenon DEF Recent
  <2> QED
    BY <1>2, <2>3, SubSeqFull
<1>4. /\ users \in Seq(Message)
      /\ ToSet(users) = ToSet(r) \cap isUser
      /\ Ordered(users)
  <2>1. Ordered(r)
    <3> HIDE DEF r, d
    <3>1. /\ DOMAIN r = 1 .. Len(r) /\ DOMAIN d = 1 .. Len(d)
          /\ Len(d) \in Nat /\ Len(r) \in Nat /\ Len(r) <= Len(d)
      BY <1>1, <1>2, ContextAssumption
    <3>2. \A i \in 1 .. Len(r) : Len(d) - Len(r) + i \in 1 .. Len(d)
      BY <3>1
    <3> QED
      BY <1>1, <1>2, <3>1, <3>2 DEF Ordered
  <2> QED
    BY <1>2, <2>1, OnlyKeeps
<1>5. PriorQuestion(RecentContext(s)) = IF users # << >> THEN users[Len(users)].ask ELSE 0
  BY <1>3 DEF PriorQuestion, RecentContext
<1>6. ToSet(r) \subseteq ToSet(d)
  <2> HIDE DEF r, d
  <2>1. /\ DOMAIN r = 1 .. Len(r) /\ DOMAIN d = 1 .. Len(d)
        /\ Len(d) \in Nat /\ Len(r) \in Nat /\ Len(r) <= Len(d)
    BY <1>1, <1>2, ContextAssumption
  <2>2. \A i \in 1 .. Len(r) : Len(d) - Len(r) + i \in 1 .. Len(d)
    BY <2>1
  <2> QED
    BY <1>2, <2>1, <2>2 DEF ToSet
<1> HIDE DEF d, r, users
<1>7. CASE A = {}
  <2>1. ToSet(users) = {}
    BY <1>1, <1>4, <1>6, <1>7
  <2> QED
    BY <1>4, <1>5, <1>7, <2>1, EmptyByRange
<1>8. CASE A # {}
  <2>1. \A n \in A : User(n) \in ToSet(d) /\ User(n) \in Message /\ Pos(User(n)) = 2 * n
    BY <1>1, UserType
  <2>2. /\ DOMAIN d = 1 .. Len(d) /\ Len(d) \in Nat
        /\ DOMAIN r = 1 .. Len(r) /\ Len(r) \in Nat
        /\ DOMAIN users = 1 .. Len(users) /\ Len(users) \in Nat
    BY <1>1, <1>2, <1>4
  <2>3. Len(d) > 0
    <3>1. PICK n \in A : TRUE
      BY <1>8
    <3> QED
      BY <2>1, <2>2, <3>1 DEF ToSet
  <2> DEFINE last == d[Len(d)]
             n == last.ask
  <2>4. last \in ToSet(d) /\ last \in Message
    BY <1>1, <2>2, <2>3 DEF ToSet
  <2>5. /\ n \in A /\ n \in Nat
        /\ Pos(last) \in {2 * n, 2 * n + 1}
    BY <1>1, <2>4 DEF Pos, Message
  <2>6. \A i \in 1 .. Len(d) : Pos(d[i]) \in Nat
    BY <1>1, PosType
  <2>7. PICK j \in 1 .. Len(d) : d[j] = User(n)
    BY <2>1, <2>2, <2>5 DEF ToSet
  <2> HIDE DEF last
  <2>8. j >= Len(d) - 1
    <3> SUFFICES ASSUME j < Len(d) - 1 PROVE FALSE
      BY <2>2, <2>7
    <3>1. Pos(d[j]) < Pos(d[Len(d) - 1]) /\ Pos(d[Len(d) - 1]) < Pos(d[Len(d)])
      BY SMTT(40), <1>1, <2>2 DEF Ordered
    <3> QED
      BY SMTT(40), <2>1, <2>2, <2>5, <2>6, <2>7, <3>1 DEF last
  <2>9. User(n) \in ToSet(users)
    <3> DEFINE i == j - (Len(d) - Len(r))
    <3>1. i \in 1 .. Len(r)
      BY <1>2, <2>2, <2>3, <2>8, ContextAssumption
    <3>2. r[i] = User(n)
      BY SMTT(40), <1>2, <2>2, <2>7, <3>1
    <3>3. User(n) \in ToSet(r) /\ User(n).by = "user"
      BY <2>2, <3>1, <3>2 DEF ToSet, User
    <3> QED
      BY <1>4, <3>3
  <2>10. ASSUME NEW m \in A PROVE m <= n
    <3>1. PICK i \in 1 .. Len(d) : d[i] = User(m)
      BY <2>1, <2>2 DEF ToSet
    <3>2. i = Len(d) \/ Pos(d[i]) < Pos(d[Len(d)])
      <4>1. i = Len(d) \/ i < Len(d)
        BY <2>2, UpTo
      <4>2. i \in DOMAIN d /\ Len(d) \in DOMAIN d
        BY <2>2, <2>3
      <4> QED
        BY <1>1, <4>1, <4>2 DEF Ordered
    <3>3. 2 * m <= 2 * n + 1
      BY <2>1, <2>5, <2>6, <3>1, <3>2 DEF last
    <3> QED
      BY <2>5, <3>3
  <2>11. PICK k \in 1 .. Len(users) : users[k] = User(n)
    BY <2>2, <2>9 DEF ToSet
  <2> DEFINE x == users[Len(users)]
  <2>a. Len(users) \in DOMAIN users /\ k <= Len(users)
    BY <2>2, <2>11
  <2>b. x \in ToSet(users)
    BY <2>a DEF ToSet
  <2>12. x \in ToSet(users) /\ x.by = "user"
    BY <1>4, <2>b
  <2> HIDE DEF x
  <2>13. /\ x.ask \in A /\ x = User(x.ask)
    BY <1>1, <1>4, <1>6, <2>12
  <2>14. Pos(User(n)) <= Pos(x)
    <3>1. k = Len(users) \/ Pos(users[k]) < Pos(x)
      <4>1. k = Len(users) \/ k < Len(users)
        BY <2>2, UpTo
      <4> QED
        BY <1>4, <2>2, <2>11, <2>a, <4>1 DEF Ordered, x
    <3>2. Pos(User(n)) \in Nat /\ Pos(x) \in Nat
      <4>1. n \in Nat
        BY <2>5
      <4>2. x \in Message
        BY <1>4, <2>a DEF x
      <4> HIDE DEF n
      <4> QED
        BY <4>1, <4>2, UserType, PosType
    <3>3. k = Len(users) => User(n) = x
      BY <2>11 DEF x
    <3> QED
      BY <2>11, <3>1, <3>2, <3>3
  <2>15. n <= x.ask
    <3>1. Pos(User(n)) = 2 * n /\ Pos(x) = 2 * x.ask /\ x.ask \in Nat
      BY <2>1, <2>5, <2>13
    <3> QED
      BY <2>5, <2>14, <3>1
  <2>16. PriorQuestion(RecentContext(s)) = x.ask
    <3>1. users # << >>
      BY <2>a
    <3> QED
      BY <1>5, <3>1 DEF x
  <2>17. x.ask = n
    <3>1. x.ask \in A /\ n \in Nat /\ x.ask \in Nat /\ x.ask <= n
      BY <2>5, <2>10, <2>13
    <3> HIDE DEF n
    <3> QED
      BY <2>15, <3>1
  <2> HIDE DEF n
  <2> QED
    BY <1>8, <2>5, <2>10, <2>16, <2>17
<1> QED
  BY <1>7, <1>8

---------------------------------------------------------------------------
(* The page's steps.                                                       *)

LEMMA ShownAsIs ==
    /\ ShownAs["open"] = {"loading"}
    /\ ShownAs["answered"] = {"complete"}
    /\ ShownAs["failed"] = {"error"}
    /\ ShownAs["stopped"] = {}
    /\ ShownAs["gone"] = {}
BY DEF ShownAs

\* An answer is known by its question and its state.
LEMMA AnswerIs ==
    ASSUME NEW m \in Message, m.by = "assistant"
    PROVE  m = Assistant(m.ask, m.status)
BY DEF Message, Assistant

LEMMA AssistantType ==
    ASSUME NEW n \in Nat, NEW st \in {"complete", "loading", "error"}
    PROVE  /\ Assistant(n, st) \in Message
           /\ Assistant(n, st).by = "assistant"
           /\ Assistant(n, st).ask = n
           /\ Assistant(n, st).status = st
BY DEF Message, Assistant

\* The page's questions and messages stay: it may show another conversation.
LEMMA PageRests ==
    ASSUME PageType, PageInv, UNCHANGED <<chats, asks, current>>,
           active' \in Chats \cup {NoChat}, active' # NoChat => Open(active')
    PROVE  PageType' /\ PageInv'
<1>1. PageType'
  BY DEF PageType
<1>2. \A c \in Chats : Shown(c)'
  BY DEF PageInv, Shown, Fits, Shows, Open, Numbers
<1> QED
  BY <1>1, <1>2 DEF PageInv, Open, Numbers

\* A question that is open ends, and its spinner becomes what it went to.
LEMMA AskEnds ==
    ASSUME PageType, PageInv, NEW n \in Numbers, asks[n].at = "open",
           NEW outcome \in AskStates \ {"open"},
           asks' = [asks EXCEPT ![n].at = outcome],
           current' = IF current = n THEN 0 ELSE current,
           active' = active,
           NEW s, s \in Seq(Message), Ordered(s),
           chats' = [chats EXCEPT ![asks[n].chat].messages = s],
           chats[asks[n].chat].messages = << >> => s = << >>,
           \A m : m \in ToSet(s) <=>
             \/ m \in ToSet(chats[asks[n].chat].messages) /\ m # Assistant(n, "loading")
             \/ /\ Assistant(n, "loading") \in ToSet(chats[asks[n].chat].messages)
                /\ \E st \in ShownAs[outcome] : m = Assistant(n, st)
    PROVE  PageType' /\ PageInv'
<1> DEFINE c == asks[n].chat
<1>1. /\ n \in Nat /\ c \in Chats /\ Len(asks) \in Nat /\ Len(asks') = Len(asks)
      /\ Numbers' = Numbers
      /\ asks'[n].at = outcome /\ asks'[n].chat = c
      /\ \A k \in Numbers : k # n => asks'[k] = asks[k]
      /\ \A k \in Numbers : asks'[k].chat = asks[k].chat
      /\ asks' \in Seq(Asked)
  <2> DEFINE r == [asks[n] EXCEPT !.at = outcome]
  <2>1. asks \in Seq(Asked) /\ n \in 1 .. Len(asks) /\ asks[n] \in Asked
    BY DEF PageType, Numbers
  <2>2. r \in Asked /\ r.at = outcome /\ r.chat = c
    BY <2>1 DEF Asked
  <2>3. asks' = [asks EXCEPT ![n] = r]
    OBVIOUS
  <2> HIDE DEF r
  <2>4. /\ asks' \in Seq(Asked) /\ Len(asks') = Len(asks)
        /\ \A k \in 1 .. Len(asks) : asks'[k] = IF k = n THEN r ELSE asks[k]
    BY <2>1, <2>2, <2>3, ExceptSeq
  <2> QED
    BY <2>1, <2>2, <2>4 DEF Asked, Numbers
<1>2. PageType'
  <2>1. chats' \in [Chats -> [status : {"new", "open", "deleted"}, messages : Seq(Message)]]
    BY <1>1 DEF PageType
  <2> QED
    BY SMTT(40), <1>1, <2>1 DEF PageType, Asked, AskStates
<1>3. /\ \A d \in Chats : chats'[d].status = chats[d].status
      /\ \A d \in Chats : d # c => chats'[d] = chats[d]
      /\ chats'[c].messages = s
  BY <1>1 DEF PageType
<1>4. \A m \in Message, d \in Chats : Fits(m, d) /\ m.ask # n => Fits(m, d)'
  BY <1>1 DEF Fits
<1>5. ASSUME NEW d \in Chats, d # c PROVE Shown(d)'
  <2>1. \A m \in ToSet(chats[d].messages) : Fits(m, d)'
    <3> SUFFICES ASSUME NEW m \in ToSet(chats[d].messages) PROVE Fits(m, d)'
      OBVIOUS
    <3>1. m \in Message /\ Fits(m, d)
      BY DEF PageType, PageInv, Shown, ToSet
    <3> QED
      BY <1>4, <1>5, <3>1 DEF Fits
  <2>2. \A k \in Numbers : asks'[k].chat = d => k # n /\ asks'[k] = asks[k]
    BY <1>1, <1>5
  <2> QED
    BY <1>1, <1>3, <1>5, <2>1, <2>2 DEF PageInv, Shown, Shows, Open
<1>6. Shown(c)'
  <2>1. ASSUME NEW m \in ToSet(s) PROVE Fits(m, c)'
    <3>1. CASE m \in ToSet(chats[c].messages) /\ m # Assistant(n, "loading")
      <4>1. m \in Message /\ Fits(m, c)
        BY <1>1, <3>1 DEF PageType, PageInv, Shown, ToSet
      <4>2. CASE m.ask # n
        BY <1>1, <1>4, <4>1, <4>2
      <4>3. CASE m.ask = n
        <5>1. m.by # "assistant"
          BY <3>1, <4>1, <4>3, AnswerIs, ShownAsIs DEF Fits
        <5> QED
          BY <1>1, <4>1, <4>3, <5>1 DEF Fits, Message
      <4> QED
        BY <4>2, <4>3
    <3>2. ASSUME NEW st \in ShownAs[outcome], m = Assistant(n, st) PROVE Fits(m, c)'
      <4>1. st \in {"complete", "loading", "error"}
        BY <3>2, ShownAsIs DEF AskStates
      <4> QED
        BY <1>1, <3>2, <4>1, AssistantType DEF Fits
    <3> QED
      BY <2>1, <3>1, <3>2
  <2>2. ASSUME NEW k \in Numbers, asks[k].chat = c, Open(c) PROVE Shows(c, k)'
    <3>1. Shows(c, k)
      BY <1>1, <2>2 DEF PageInv, Shown
    <3>2. /\ User(k) # Assistant(n, "loading")
          /\ \A st : k # n => Assistant(k, st) # Assistant(n, "loading")
      BY DEF User, Assistant
    <3>3. k = n => Assistant(n, "loading") \in ToSet(chats[c].messages)
      BY <3>1, ShownAsIs DEF Shows
    <3> QED
      BY <1>1, <1>3, <3>1, <3>2, <3>3 DEF Shows
  <2> QED
    BY <1>1, <1>3, <2>1, <2>2 DEF PageInv, Shown, Open
<1>7. \A d \in Chats : Shown(d)'
  BY <1>5, <1>6
<1>8. /\ active' # NoChat => chats'[active'].status = "open"
      /\ \A d \in Chats : chats'[d].status = "new" => \A k \in Numbers' : asks'[k].chat # d
  <2>1. active # NoChat => active \in Chats /\ chats[active].status = "open"
    BY DEF PageInv, PageType, Open
  <2>2. \A d \in Chats : chats[d].status = "new" => \A k \in Numbers : asks[k].chat # d
    BY DEF PageInv
  <2> QED
    BY <1>1, <1>3, <2>1, <2>2
<1>9. /\ current' # 0 => asks'[current'].at = "open"
      /\ \A k, m \in Numbers' : asks'[k].at = "open" /\ asks'[m].chat = asks'[k].chat => m <= k
  <2>1. \A k \in Numbers : asks'[k].at = "open" => k # n /\ asks[k].at = "open"
    BY <1>1 DEF AskStates
  <2>2. current # 0 => current \in Numbers
    BY DEF PageType, Numbers
  <2> QED
    BY <1>1, <2>1, <2>2 DEF PageInv
<1> QED
  BY <1>2, <1>7, <1>8, <1>9 DEF PageInv, Open

LEMMA AnswerMovesPage ==
    ASSUME PageType, PageInv, NEW n \in Numbers, Answer(n) \/ AskFails(n)
    PROVE  PageType' /\ PageInv'
<1> DEFINE c == asks[n].chat
           old == chats[c].messages
           new(st) == [i \in DOMAIN old |-> IF old[i] = Assistant(n, "loading")
                                            THEN Assistant(n, st) ELSE old[i]]
<1>1. c \in Chats /\ n \in Nat /\ old \in Seq(Message) /\ Ordered(old)
  <2>1. asks[n] \in Asked /\ n \in Nat
    BY DEF PageType, Numbers
  <2>2. c \in Chats
    BY <2>1 DEF Asked
  <2> QED
    BY <2>1, <2>2 DEF PageType, PageInv, Shown
<1>2. ASSUME NEW st \in {"complete", "error"}
      PROVE  /\ new(st) \in Seq(Message)
             /\ Ordered(new(st))
             /\ old = << >> => new(st) = << >>
             /\ ToSet(new(st)) = {IF m = Assistant(n, "loading") THEN Assistant(n, st) ELSE m
                                  : m \in ToSet(old)}
  <2> DEFINE s == new(st)
  <2>1. DOMAIN old = 1 .. Len(old) /\ Len(old) \in Nat
    BY <1>1
  <2>2. /\ DOMAIN s = DOMAIN old
        /\ \A i \in DOMAIN old : s[i] = IF old[i] = Assistant(n, "loading")
                                        THEN Assistant(n, st) ELSE old[i]
    OBVIOUS
  <2>3. s \in Seq(Message)
    <3>1. ASSUME NEW i \in DOMAIN old PROVE s[i] \in Message
      <4> HIDE DEF s
      <4>1. old[i] \in Message
        BY <1>1, <2>1
      <4>2. Assistant(n, st) \in Message
        BY <1>1, <1>2, AssistantType
      <4>3. s[i] \in {old[i], Assistant(n, st)}
        BY <2>2
      <4> QED
        BY <4>1, <4>2, <4>3
    <3>2. s \in [1 .. Len(old) -> Message]
      BY <2>1, <2>2, <3>1
    <3> HIDE DEF s
    <3> QED
      BY <2>1, <3>2, SeqDef
  <2>4. \A i \in DOMAIN old : Pos(s[i]) = Pos(old[i])
    <3>1. Pos(Assistant(n, st)) = Pos(Assistant(n, "loading"))
      BY DEF Pos, Assistant
    <3>2. \A i \in DOMAIN old : s[i] = old[i] \/
            (s[i] = Assistant(n, st) /\ old[i] = Assistant(n, "loading"))
      BY <2>2, Zenon
    <3> HIDE DEF s
    <3> QED
      BY <3>1, <3>2
  <2>5. Ordered(s)
    BY <1>1, <2>2, <2>4 DEF Ordered
  <2>6. old = << >> => s = << >>
    BY <2>1, <2>2, <2>3
  <2>7. ToSet(s) = {IF m = Assistant(n, "loading") THEN Assistant(n, st) ELSE m
                    : m \in ToSet(old)}
    BY <2>2 DEF ToSet
  <2> QED
    BY <2>3, <2>5, <2>6, <2>7
<1>3. ASSUME NEW st, NEW outcome,
             \/ st = "complete" /\ outcome = "answered"
             \/ st = "error" /\ outcome = "failed",
             asks[n].at = "open", Settle(n, outcome), chats' = Update(c, n, st),
             active' = active
      PROVE  PageType' /\ PageInv'
  <2>1. /\ outcome \in AskStates \ {"open"} /\ ShownAs[outcome] = {st}
        /\ st \in {"complete", "error"}
    BY <1>3, ShownAsIs DEF AskStates
  <2> DEFINE s == new(st)
  <2>2. chats' = [chats EXCEPT ![c].messages = s]
    BY <1>3 DEF Update
  <2>3. \A m : m \in ToSet(s) <=>
          \/ m \in ToSet(old) /\ m # Assistant(n, "loading")
          \/ /\ Assistant(n, "loading") \in ToSet(old)
             /\ \E t \in ShownAs[outcome] : m = Assistant(n, t)
    <3>1. ToSet(s) = {IF m = Assistant(n, "loading") THEN Assistant(n, st) ELSE m
                      : m \in ToSet(old)}
      BY <1>2, <2>1
    <3>2. \A t : t \in ShownAs[outcome] <=> t = st
      BY <2>1
    <3> HIDE DEF s, c
    <3> QED
      BY <3>1, <3>2
  <2>4. s \in Seq(Message) /\ Ordered(s) /\ (old = << >> => s = << >>)
    BY <1>2, <2>1
  <2> HIDE DEF new
  <2> QED
    BY <1>1, <1>3, <2>1, <2>2, <2>3, <2>4, AskEnds DEF Settle
<1> QED
  BY <1>3 DEF Answer, AskFails

LEMMA StopMovesPage ==
    ASSUME PageType, PageInv, Stop
    PROVE  PageType' /\ PageInv'
<1> DEFINE n == current
           c == asks[n].chat
           old == chats[c].messages
           s == Only(old, ToSet(old) \ {Assistant(n, "loading")})
<1>1. n \in Numbers /\ asks[n].at = "open"
  BY DEF Stop, PageType, PageInv, Numbers
<1>2. c \in Chats /\ old \in Seq(Message) /\ Ordered(old)
  <2>1. asks[n] \in Asked
    BY <1>1 DEF PageType, Numbers
  <2>2. c \in Chats
    BY <2>1 DEF Asked
  <2> QED
    BY <2>2 DEF PageType, PageInv, Shown
<1>3. /\ s \in Seq(Message) /\ Ordered(s)
      /\ ToSet(s) = ToSet(old) \cap (ToSet(old) \ {Assistant(n, "loading")})
  BY <1>2, OnlyKeeps
<1>4. old = << >> => s = << >>
  BY <1>2, <1>3, EmptyByRange
<1>5. ShownAs["stopped"] = {} /\ "stopped" \in AskStates \ {"open"}
  BY ShownAsIs DEF AskStates
<1>6. chats' = [chats EXCEPT ![c].messages = s]
  BY DEF Stop, Withdraw
<1>7. /\ asks' = [asks EXCEPT ![n].at = "stopped"]
      /\ current' = IF current = n THEN 0 ELSE current
      /\ active' = active
  BY DEF Stop, Settle
<1> HIDE DEF s, n
<1> QED
  BY <1>1, <1>3, <1>4, <1>5, <1>6, <1>7, AskEnds

LEMMA DeleteMovesPage ==
    ASSUME PageType, PageInv, NEW c \in Chats, Delete(c)
    PROVE  PageType' /\ PageInv'
<1>1. /\ Open(c) /\ UNCHANGED <<asks, current>>
      /\ chats' = [chats EXCEPT ![c] = [status |-> "deleted", messages |-> << >>]]
      /\ chats'[c] = [status |-> "deleted", messages |-> << >>]
      /\ \A d \in Chats : d # c => chats'[d] = chats[d]
  BY DEF Delete, asking, PageType
<1>2. /\ active' \in Chats \cup {NoChat}
      /\ active' # NoChat => active' # c /\ Open(active')
  <2>1. CASE c # active
    BY <2>1 DEF Delete, PageType, PageInv
  <2>2. CASE c = active
    BY <2>2 DEF Delete
  <2> QED
    BY <2>1, <2>2
<1>3. PageType'
  BY <1>1, <1>2 DEF PageType
<1>4. ASSUME NEW d \in Chats PROVE Shown(d)'
  <2>1. CASE d = c
    BY <1>1, <2>1 DEF Shown, Open, Ordered, ToSet
  <2>2. CASE d # c
    BY <1>1, <2>2 DEF PageInv, Shown, Fits, Shows, Open, Numbers
  <2> QED
    BY <2>1, <2>2
<1> QED
  BY <1>1, <1>2, <1>3, <1>4 DEF PageInv, Open, Numbers

LEMMA SubmitMovesPage ==
    ASSUME PageType, PageInv, NEW c \in Chats,
           \/ active = NoChat /\ chats[c].status = "new"
           \/ c = active,
           ~ ActiveLoads,
           NEW topic \in Nat, NEW captured \in Nat, NEW l \in Lengths, NEW N, N = Len(asks) + 1,
           chats' = Append2(c, <<User(N), Assistant(N, "loading")>>),
           active' = c, current' = N,
           asks' = Append(asks, [chat |-> c, captured |-> captured, length |-> l,
                                 topic |-> topic, at |-> "open"])
    PROVE  PageType' /\ PageInv'
<1> DEFINE old == chats[c].messages
           two == <<User(N), Assistant(N, "loading")>>
           s == old \o two
           ask == [chat |-> c, captured |-> captured, length |-> l, topic |-> topic, at |-> "open"]
<1>1. /\ Len(asks) \in Nat /\ N \in Nat /\ N \notin Numbers
      /\ old \in Seq(Message) /\ Ordered(old)
      /\ User(N) \in Message /\ Assistant(N, "loading") \in Message
      /\ Pos(User(N)) = 2 * N /\ Pos(Assistant(N, "loading")) = 2 * N + 1
  <2>1. Len(asks) \in Nat /\ N \in Nat /\ N \notin Numbers
    BY DEF PageType, Numbers
  <2>2. old \in Seq(Message) /\ Ordered(old)
    BY DEF PageType, PageInv, Shown
  <2>3. User(N) \in Message /\ Pos(User(N)) = 2 * N
    BY <2>1, UserType
  <2>4. Assistant(N, "loading") \in Message /\ Pos(Assistant(N, "loading")) = 2 * N + 1
    <3>1. /\ Assistant(N, "loading") \in Message
          /\ Assistant(N, "loading").by = "assistant"
          /\ Assistant(N, "loading").ask = N
      BY <2>1, AssistantType
    <3> QED
      BY <3>1, PosType
  <2> QED
    BY <2>1, <2>2, <2>3, <2>4
<1>2. /\ asks' \in Seq(Asked) /\ Len(asks') = N
      /\ Numbers' = Numbers \cup {N}
      /\ asks'[N].chat = c /\ asks'[N].at = "open"
      /\ \A n \in Numbers : asks'[n] = asks[n]
  <2>1. ask \in Asked /\ ask.chat = c /\ ask.at = "open"
    BY DEF Asked, AskStates
  <2> HIDE DEF ask
  <2>2. asks' = Append(asks, ask)
    BY DEF ask
  <2>3. asks \in Seq(Asked)
    BY DEF PageType
  <2>4. /\ asks' \in Seq(Asked) /\ Len(asks') = N /\ asks'[N] = ask
        /\ \A n \in 1 .. Len(asks) : asks'[n] = asks[n]
    BY <2>1, <2>2, <2>3, AppendProperties
  <2> QED
    BY <1>1, <2>1, <2>4 DEF Numbers
<1>3. \A m \in ToSet(old) : m \in Message /\ Fits(m, c) /\ Pos(m) < 2 * N
  <2> SUFFICES ASSUME NEW m \in ToSet(old)
               PROVE  m \in Message /\ Fits(m, c) /\ Pos(m) < 2 * N
    OBVIOUS
  <2>1. m \in Message /\ Fits(m, c)
    BY <1>1 DEF PageInv, Shown, ToSet
  <2>2. m.ask \in Nat /\ m.ask <= Len(asks)
    BY <1>1, <2>1 DEF Fits, Numbers
  <2>3. Pos(m) <= 2 * m.ask + 1
    <3>1. Pos(m) = 2 * m.ask \/ Pos(m) = 2 * m.ask + 1
      BY <2>1, PosType
    <3>2. PICK a : a = m.ask
      OBVIOUS
    <3>3. a \in Nat /\ (Pos(m) = 2 * a \/ Pos(m) = 2 * a + 1)
      BY <2>2, <3>1, <3>2
    <3>4. Pos(m) <= 2 * a + 1
      BY <3>3
    <3> QED
      BY <3>2, <3>4
  <2>4. Pos(m) \in Nat
    BY <2>1, PosType
  <2> QED
    BY <1>1, <2>1, <2>2, <2>3, <2>4
<1>4. /\ s \in Seq(Message) /\ DOMAIN s = 1 .. Len(old) + 2
      /\ \A i \in 1 .. Len(old) : s[i] = old[i]
      /\ s[Len(old) + 1] = User(N) /\ s[Len(old) + 2] = Assistant(N, "loading")
      /\ DOMAIN old = 1 .. Len(old) /\ Len(old) \in Nat
  <2>1. two \in Seq(Message) /\ Len(two) = 2 /\ two[1] = User(N) /\ two[2] = Assistant(N, "loading")
    BY <1>1
  <2>2. Len(old) \in Nat /\ DOMAIN old = 1 .. Len(old)
    BY <1>1
  <2> HIDE DEF two, old
  <2>3. /\ s \in Seq(Message) /\ Len(s) = Len(old) + Len(two)
        /\ \A i \in 1 .. Len(s) : s[i] = IF i <= Len(old) THEN old[i] ELSE two[i - Len(old)]
    <3>1. old \in Seq(Message) /\ two \in Seq(Message)
      BY <1>1, <2>1
    <3> QED
      BY <3>1, ConcatProperties
  <2> HIDE DEF s
  <2>4. DOMAIN s = 1 .. Len(s)
    BY <2>3
  <2>5. /\ s[Len(old) + 1] = two[1]
        /\ s[Len(old) + 2] = two[2]
    <3>1. /\ Len(old) + 1 - Len(old) = 1 /\ Len(old) + 2 - Len(old) = 2
          /\ ~ (Len(old) + 1 <= Len(old)) /\ ~ (Len(old) + 2 <= Len(old))
          /\ Len(old) + 1 \in 1 .. Len(old) + 2 /\ Len(old) + 2 \in 1 .. Len(old) + 2
      BY <2>2
    <3>2. Len(s) = Len(old) + 2
      BY <2>1, <2>3
    <3>3. s[Len(old) + 1] = two[Len(old) + 1 - Len(old)]
      BY <2>3, <3>1, <3>2
    <3>4. s[Len(old) + 2] = two[Len(old) + 2 - Len(old)]
      BY <2>3, <3>1, <3>2
    <3> QED
      BY <3>1, <3>3, <3>4
  <2>6. \A i \in 1 .. Len(old) : s[i] = old[i]
    BY <2>1, <2>2, <2>3
  <2> QED
    BY <2>1, <2>2, <2>3, <2>4, <2>5, <2>6
<1> HIDE DEF s, ask, old
<1>5. Ordered(s)
  <2> SUFFICES ASSUME NEW i \in DOMAIN s, NEW j \in DOMAIN s, i < j
               PROVE  Pos(s[i]) < Pos(s[j])
    BY DEF Ordered
  <2>1. CASE j <= Len(old)
    <3>1. i \in DOMAIN old /\ j \in DOMAIN old /\ s[i] = old[i] /\ s[j] = old[j]
      BY <1>4, <2>1
    <3> QED
      BY <1>1, <3>1 DEF Ordered
  <2>2. CASE i <= Len(old) /\ j > Len(old)
    <3>1. i \in DOMAIN old /\ s[i] = old[i] /\ old[i] \in ToSet(old)
      BY <1>4, <2>2 DEF ToSet
    <3>2. s[j] = User(N) \/ s[j] = Assistant(N, "loading")
      <4>1. j = Len(old) + 1 \/ j = Len(old) + 2
        BY <1>4, <2>2
      <4> QED
        BY <1>4, <4>1
    <3>3. Pos(s[i]) \in Nat /\ Pos(s[i]) < 2 * N
      BY <1>3, <3>1, PosType
    <3> HIDE DEF s, old
    <3> QED
      BY <1>1, <3>2, <3>3
  <2>3. CASE i > Len(old)
    <3>1. i = Len(old) + 1 /\ j = Len(old) + 2
      BY <1>4, <2>3
    <3> HIDE DEF s, old
    <3> QED
      BY <1>1, <1>4, <3>1
  <2> QED
    BY <1>4, <2>1, <2>2, <2>3
<1>6. ToSet(s) = ToSet(old) \cup {User(N), Assistant(N, "loading")}
  <2> HIDE DEF s, old
  <2>1. \A i \in DOMAIN s : i \in 1 .. Len(old) \/ i = Len(old) + 1 \/ i = Len(old) + 2
    BY <1>4
  <2>2. Len(old) + 1 \in DOMAIN s /\ Len(old) + 2 \in DOMAIN s /\ 1 .. Len(old) \subseteq DOMAIN s
    BY <1>4
  <2> QED
    BY <1>4, <2>1, <2>2 DEF ToSet
<1>7. /\ chats'[c].status = "open" /\ chats'[c].messages = s
      /\ \A d \in Chats : d # c => chats'[d] = chats[d]
      /\ chats' \in [Chats -> [status : {"new", "open", "deleted"}, messages : Seq(Message)]]
  <2>1. chats' = [chats EXCEPT ![c] = [status |-> "open", messages |-> s]]
    BY DEF Append2, s, old
  <2>2. [status |-> "open", messages |-> s]
          \in [status : {"new", "open", "deleted"}, messages : Seq(Message)]
    BY <1>4
  <2>3. \A x : x = [status |-> "open", messages |-> s] => x.status = "open" /\ x.messages = s
    OBVIOUS
  <2> HIDE DEF s
  <2> QED
    BY <2>1, <2>2, <2>3 DEF PageType
<1>8. \A m \in Message, d \in Chats : Fits(m, d) => Fits(m, d)'
  BY <1>2 DEF Fits
<1>9. ASSUME NEW d \in Chats, d # c PROVE Shown(d)'
  <2>1. \A m \in ToSet(chats[d].messages) : Fits(m, d)'
    BY <1>8, <1>9 DEF PageType, PageInv, Shown, ToSet
  <2>2. \A k \in Numbers' : asks'[k].chat = d => k \in Numbers /\ asks[k].chat = d
    BY <1>2, <1>9
  <2>3. \A k \in Numbers : Shows(d, k) => Shows(d, k)'
    BY <1>2, <1>7, <1>9 DEF Shows
  <2> QED
    BY ZenonT(60), <1>7, <1>9, <2>1, <2>2, <2>3 DEF PageInv, Shown, Open
<1>10. Open(c) \/ (old = << >> /\ \A n \in Numbers : asks[n].chat # c)
  <2>1. c # NoChat
    BY NoChatAssumption
  <2> QED
    BY <2>1 DEF PageInv, Shown, Open, old
<1>11. Shown(c)'
  <2>1. \A m \in ToSet(s) : Fits(m, c)'
    <3>1. Fits(User(N), c)'
      BY <1>2 DEF Fits, User
    <3>2. Fits(Assistant(N, "loading"), c)'
      BY <1>2, ShownAsIs DEF Fits, Assistant
    <3> QED
      BY <1>3, <1>6, <1>8, <3>1, <3>2
  <2>2. ASSUME NEW k \in Numbers', asks'[k].chat = c PROVE Shows(c, k)'
    <3>1. CASE k = N
      <4>1. ShownAs[asks'[k].at] = {"loading"}
        BY <1>2, <3>1, ShownAsIs
      <4>2. User(N) \in ToSet(s) /\ Assistant(N, "loading") \in ToSet(s)
        BY <1>6
      <4> HIDE DEF s
      <4> QED
        BY <1>7, <3>1, <4>1, <4>2 DEF Shows
    <3>2. CASE k # N
      <4>1. k \in Numbers /\ asks[k].chat = c /\ asks'[k] = asks[k]
        BY <1>2, <2>2, <3>2
      <4>2. Shows(c, k)
        BY <1>10, <4>1 DEF PageInv, Shown
      <4> QED
        BY <1>6, <1>7, <4>1, <4>2 DEF Shows, old
    <3> QED
      BY <3>1, <3>2
  <2> HIDE DEF s
  <2> QED
    BY <1>5, <1>7, <2>1, <2>2 DEF Shown, Open
<1>12. \A n \in Numbers : asks[n].chat = c => asks[n].at # "open"
  <2> SUFFICES ASSUME NEW n \in Numbers, asks[n].chat = c, asks[n].at = "open" PROVE FALSE
    OBVIOUS
  <2>1. Open(c) /\ c = active /\ active # NoChat
    BY <1>10, NoChatAssumption DEF PageInv
  <2>2. Shows(c, n)
    BY <2>1 DEF PageInv, Shown
  <2>3. Assistant(n, "loading") \in ToSet(old) /\ Assistant(n, "loading").status = "loading"
    BY <2>2, ShownAsIs DEF Shows, Assistant, old
  <2> QED
    BY <2>1, <2>3 DEF ActiveLoads, Loading, old
<1>13. PageType'
  <2>1. current' \in 0 .. Len(asks') /\ active' \in Chats \cup {NoChat}
    BY <1>1, <1>2
  <2> QED
    BY <1>2, <1>7, <2>1 DEF PageType
<1>14. /\ active' # NoChat => chats'[active'].status = "open"
       /\ current' # 0 => asks'[current'].at = "open"
  BY <1>2, <1>7
<1>15. \A d \in Chats : chats'[d].status = "new" => \A n \in Numbers' : asks'[n].chat # d
  <2> SUFFICES ASSUME NEW d \in Chats, chats'[d].status = "new", NEW n \in Numbers'
               PROVE  asks'[n].chat # d
    OBVIOUS
  <2>1. d # c /\ chats[d].status = "new"
    BY <1>7
  <2>2. CASE n = N
    BY <1>2, <2>1, <2>2
  <2>3. CASE n \in Numbers
    BY <1>2, <2>1, <2>3 DEF PageInv
  <2> QED
    BY <1>2, <2>2, <2>3
<1>16. \A n, m \in Numbers' : asks'[n].at = "open" /\ asks'[m].chat = asks'[n].chat => m <= n
  <2> SUFFICES ASSUME NEW n \in Numbers', NEW m \in Numbers',
                      asks'[n].at = "open", asks'[m].chat = asks'[n].chat
               PROVE  m <= n
    OBVIOUS
  <2>1. CASE n = N
    BY <1>1, <1>2, <2>1 DEF Numbers
  <2>2. CASE n \in Numbers /\ m \in Numbers
    BY <1>2, <2>2 DEF PageInv
  <2>3. CASE n \in Numbers /\ m = N
    BY <1>2, <1>12, <2>3
  <2> QED
    BY <1>2, <2>1, <2>2, <2>3
<1>17. \A d \in Chats : Shown(d)'
  BY <1>9, <1>11
<1> QED
  BY <1>13, <1>14, <1>15, <1>16, <1>17 DEF PageInv, Open

LEMMA ReloadMovesPage ==
    ASSUME PageType, PageInv, Reload
    PROVE  PageType' /\ PageInv'
<1> DEFINE after(n) == IF asks[n].at \in {"open", "failed"}
                       THEN [asks[n] EXCEPT !.at = "gone"] ELSE asks[n]
           kept(c) == Durables(chats[c].messages)
<1>1. /\ asks' = [n \in Numbers |-> after(n)]
      /\ chats' = [c \in Chats |-> [chats[c] EXCEPT !.messages = kept(c)]]
      /\ current' = 0
  BY DEF Reload
<1>2. Len(asks) \in Nat /\ \A n \in Numbers : asks[n] \in Asked
  BY DEF PageType, Numbers
<1>3. \A n \in Numbers :
        /\ after(n) \in Asked
        /\ after(n).chat = asks[n].chat
        /\ after(n).at = IF asks[n].at \in {"open", "failed"} THEN "gone" ELSE asks[n].at
  BY <1>2 DEF Asked, AskStates
<1> HIDE DEF after
<1>4. asks' \in Seq(Asked) /\ Len(asks') = Len(asks)
  <2>1. asks' \in [1 .. Len(asks) -> Asked]
    BY <1>1, <1>3 DEF Numbers
  <2> QED
    BY <1>2, <2>1, SeqDef
<1>5. /\ Numbers' = Numbers
      /\ \A n \in Numbers :
           /\ asks'[n].chat = asks[n].chat
           /\ asks'[n].at = IF asks[n].at \in {"open", "failed"} THEN "gone" ELSE asks[n].at
  BY <1>1, <1>3, <1>4 DEF Numbers
<1>6. \A c \in Chats :
        /\ chats[c].messages \in Seq(Message) /\ Ordered(chats[c].messages)
        /\ kept(c) \in Seq(Message) /\ Ordered(kept(c))
        /\ ToSet(kept(c)) = {m \in ToSet(chats[c].messages) : Durable(m)}
  <2> SUFFICES ASSUME NEW c \in Chats
               PROVE  /\ chats[c].messages \in Seq(Message) /\ Ordered(chats[c].messages)
                      /\ kept(c) \in Seq(Message) /\ Ordered(kept(c))
                      /\ ToSet(kept(c)) = {m \in ToSet(chats[c].messages) : Durable(m)}
    OBVIOUS
  <2> DEFINE old == chats[c].messages
             new == Only(old, {m \in ToSet(old) : Durable(m)})
  <2>1. old \in Seq(Message) /\ Ordered(old)
    BY DEF PageType, PageInv, Shown
  <2>2. /\ new \in Seq(Message) /\ Ordered(new)
        /\ ToSet(new) = ToSet(old) \cap {m \in ToSet(old) : Durable(m)}
    BY <2>1, OnlyKeeps
  <2>3. kept(c) = new
    BY DEF Durables
  <2> HIDE DEF new, kept
  <2> QED
    BY <2>1, <2>2, <2>3
<1> HIDE DEF kept
<1>7. \A c \in Chats : chats'[c].status = chats[c].status /\ chats'[c].messages = kept(c)
  BY <1>1 DEF PageType
<1>8. PageType'
  <2>1. chats' \in [Chats -> [status : {"new", "open", "deleted"}, messages : Seq(Message)]]
    BY <1>1, <1>6 DEF PageType
  <2>2. active' \in Chats \cup {NoChat}
    BY DEF Reload
  <2>3. current' \in 0 .. Len(asks')
    BY <1>1, <1>2, <1>4
  <2> QED
    BY <1>4, <2>1, <2>2, <2>3 DEF PageType
<1>9. ASSUME NEW c \in Chats PROVE Shown(c)'
  <2>1. ASSUME NEW m \in ToSet(chats[c].messages), Durable(m) PROVE Fits(m, c)'
    <3>1. m \in Message /\ Fits(m, c)
      BY <1>6 DEF PageInv, Shown, ToSet
    <3>2. CASE m.by = "user"
      BY <1>5, <3>1, <3>2 DEF Fits
    <3>3. CASE m.by = "assistant"
      <4>1. m.status = "complete" /\ m.status \in ShownAs[asks[m.ask].at] /\ m.ask \in Numbers
        BY <2>1, <3>1, <3>3 DEF Fits, Durable
      <4>2. asks[m.ask].at \in AskStates
        BY <1>2, <4>1 DEF Asked
      <4>3. asks[m.ask].at = "answered"
        BY <4>1, <4>2, ShownAsIs DEF AskStates
      <4>4. asks'[m.ask].at = "answered"
        BY <1>5, <4>1, <4>3
      <4> QED
        BY <1>5, <3>1, <3>3, <4>1, <4>3, <4>4 DEF Fits
    <3> QED
      BY <3>1, <3>2, <3>3 DEF Message
  <2>2. ASSUME NEW n \in Numbers, asks[n].chat = c, Open(c) PROVE Shows(c, n)'
    <3>1. Shows(c, n)
      BY <2>2 DEF PageInv, Shown
    <3>2. User(n) \in ToSet(kept(c))
      BY <1>6, <3>1 DEF Shows, Durable, User
    <3>3. \A st \in ShownAs[asks'[n].at] : Assistant(n, st) \in ToSet(kept(c))
      <4>1. asks[n].at \in AskStates
        BY <1>2 DEF Asked
      <4>2. CASE asks[n].at = "answered"
        <5>1. asks'[n].at = "answered" /\ Assistant(n, "complete") \in ToSet(chats[c].messages)
          BY <1>5, <3>1, <4>2, ShownAsIs DEF Shows
        <5>2. Durable(Assistant(n, "complete"))
          BY DEF Durable, Assistant
        <5> QED
          BY <1>6, <5>1, <5>2, ShownAsIs
      <4>3. CASE asks[n].at # "answered"
        BY <1>5, <4>1, <4>3, ShownAsIs DEF AskStates
      <4> QED
        BY <4>2, <4>3
    <3> QED
      BY <1>7, <3>2, <3>3 DEF Shows
  <2>3. Ordered(chats'[c].messages)
    BY <1>6, <1>7
  <2>4. ~ Open(c) => chats'[c].messages = << >>
    <3> SUFFICES ASSUME ~ Open(c) PROVE kept(c) = << >>
      BY <1>7
    <3>1. chats[c].messages = << >>
      BY DEF PageInv, Shown
    <3>2. ToSet(kept(c)) = {}
      <4>1. ToSet(chats[c].messages) = {}
        BY <1>6, <3>1, EmptyByRange
      <4> QED
        BY <1>6, <4>1
    <3>3. kept(c) \in Seq(Message)
      BY <1>6
    <3> QED
      BY <3>2, <3>3, EmptyByRange
  <2> QED
    BY <1>5, <1>6, <1>7, <2>1, <2>2, <2>3, <2>4 DEF Shown, Open
<1>10. active' # NoChat => chats'[active'].status = "open"
  <2>1. active' # NoChat => active' \in Chats /\ Open(active')
    BY DEF Reload
  <2> QED
    BY <1>7, <2>1 DEF Open
<1>11. \A c \in Chats : chats'[c].status = "new" => \A n \in Numbers' : asks'[n].chat # c
  BY <1>5, <1>7 DEF PageInv
<1>12. \A n, m \in Numbers' : asks'[n].at = "open" /\ asks'[m].chat = asks'[n].chat => m <= n
  BY <1>5 DEF PageInv
<1> QED
  BY <1>1, <1>8, <1>9, <1>10, <1>11, <1>12 DEF PageInv, Open

\* Where a question goes, and what it is searched with.
Topical(t, A, l) ==
  IF A = {} \/ MaxLength <= l + 1 THEN t = 0 ELSE t \in A /\ \A n \in A : n <= t

AskedIn(c) == {n \in Numbers : asks[n].chat = c}

LEMMA SubmitGoes ==
    ASSUME PageType, PageInv, Submit
    PROVE  \E c \in Chats, l \in Lengths :
             LET t == Topic(RecentContext(chats[c].messages), l) IN
             /\ SubmitWith(c, Len(asks) + 1, l, RecentContext(chats[c].messages))
             /\ (active = NoChat /\ chats[c].status = "new") \/ c = active
             /\ ~ ActiveLoads
             /\ t \in Nat /\ Topical(t, AskedIn(c), l)
<1>1. PICK c \in Chats, l \in Lengths :
        /\ SubmitWith(c, Len(asks) + 1, l, RecentContext(chats[c].messages))
        /\ (active = NoChat /\ chats[c].status = "new") \/ c = active
        /\ ~ ActiveLoads
  BY DEF Submit, AskedFrom, PageType
<1> DEFINE s == chats[c].messages
           A == AskedIn(c)
           prior == PriorQuestion(RecentContext(s))
           t == Topic(RecentContext(s), l)
<1>2. s \in Seq(Message) /\ Ordered(s)
  BY DEF PageType, PageInv, Shown
<1>3. A \in SUBSET Nat
  BY DEF AskedIn, Numbers
<1>4. \A m \in ToSet(s) : m.ask \in A /\ (m.by = "user" => m = User(m.ask))
  BY DEF PageInv, Shown, Fits, AskedIn
<1>5. \A n \in A : User(n) \in ToSet(s)
  <2>1. CASE Open(c)
    BY <2>1 DEF PageInv, Shown, Shows, AskedIn
  <2>2. CASE ~ Open(c)
    <3>1. chats[c].status = "new"
      BY <1>1, <2>2, NoChatAssumption DEF PageInv
    <3> QED
      BY <3>1 DEF PageInv, AskedIn
  <2> QED
    BY <2>1, <2>2
<1> HIDE DEF s, A
<1>6. Topical(t, A, l) /\ t \in Nat
  <2>1. IF A = {} THEN prior = 0 ELSE prior \in A /\ \A n \in A : n <= prior
    BY <1>2, <1>3, <1>4, <1>5, PriorIsTheLast
  <2>2. t = IF HasRoom(l) THEN prior ELSE 0
    BY DEF Topic
  <2>3. HasRoom(l) <=> ~ (MaxLength <= l + 1)
    BY LengthsAssumption DEF HasRoom
  <2> HIDE DEF prior, t
  <2>4. prior \in Nat
    <3>1. CASE A = {}
      BY <2>1, <3>1
    <3>2. CASE A # {}
      BY <1>3, <2>1, <3>2
    <3> QED
      BY <3>1, <3>2
  <2>5. CASE HasRoom(l)
    BY <2>1, <2>2, <2>3, <2>4, <2>5 DEF Topical
  <2>6. CASE ~ HasRoom(l)
    BY <2>2, <2>3, <2>6 DEF Topical
  <2> QED
    BY <2>5, <2>6
<1> QED
  BY <1>1, <1>6 DEF s, A

\* Every step, as the page sees it.
LEMMA PageStep ==
    ASSUME PageType, PageInv, mirror \in [Chats -> Nat], Next
    PROVE  PageType' /\ PageInv'
<1>1. ASSUME UNCHANGED <<shown, asking>> PROVE PageType' /\ PageInv'
  <2>1. UNCHANGED <<chats, active, asks, current>>
    BY <1>1 DEF shown, asking
  <2>2. active' \in Chats \cup {NoChat} /\ (active' # NoChat => Open(active'))
    BY <2>1 DEF PageType, PageInv
  <2> QED
    BY <2>1, <2>2, PageRests
<1>2. ASSUME NEW c \in Chats \cup {NoChat}, Select(c) PROVE PageType' /\ PageInv'
  <2>1. /\ UNCHANGED <<chats, asks, current>> /\ active' = c
        /\ c # NoChat => Open(c)
    BY <1>2 DEF Select, asking
  <2> QED
    BY <2>1, PageRests
<1>3. CASE Submit
  <2>1. PICK c \in Chats, l \in Lengths :
          LET t == Topic(RecentContext(chats[c].messages), l) IN
          /\ SubmitWith(c, Len(asks) + 1, l, RecentContext(chats[c].messages))
          /\ (active = NoChat /\ chats[c].status = "new") \/ c = active
          /\ ~ ActiveLoads
          /\ t \in Nat /\ Topical(t, AskedIn(c), l)
    BY <1>3, SubmitGoes
  <2> DEFINE t == Topic(RecentContext(chats[c].messages), l)
  <2>2. /\ chats' = Append2(c, <<User(Len(asks) + 1), Assistant(Len(asks) + 1, "loading")>>)
        /\ active' = c /\ current' = Len(asks) + 1
        /\ asks' = Append(asks, [chat |-> c, captured |-> mirror[c], length |-> l,
                                 topic |-> t, at |-> "open"])
    BY <2>1 DEF SubmitWith
  <2>3. /\ t \in Nat /\ mirror[c] \in Nat
        /\ (active = NoChat /\ chats[c].status = "new") \/ c = active
        /\ ~ ActiveLoads
    BY <2>1
  <2> HIDE DEF t
  <2> QED
    BY <2>2, <2>3, SubmitMovesPage
<1>4. ASSUME NEW n \in Numbers, Answer(n) \/ AskFails(n) PROVE PageType' /\ PageInv'
  BY <1>4, AnswerMovesPage
<1>5. CASE Stop
  BY <1>5, StopMovesPage
<1>6. ASSUME NEW c \in Chats, Delete(c) PROVE PageType' /\ PageInv'
  BY <1>6, DeleteMovesPage
<1>7. CASE Reload
  BY <1>7, ReloadMovesPage
<1>8. ASSUME NEW c \in Chats,
             StartSync(c) \/ Created(c) \/ Missing(c) \/ SyncFails(c) \/ CreateArrives(c) \/ PostArrives(c)
      PROVE  UNCHANGED <<shown, asking>>
  BY <1>8 DEF StartSync, Created, Missing, SyncFails, CreateArrives, PostArrives
<1>9. ASSUME NEW b \in 1 .. Len(store), DeleteArrives(b) \/ DeleteFails(b)
      PROVE  UNCHANGED <<shown, asking>>
  BY <1>9 DEF DeleteArrives, DeleteFails
<1>10. ASSUME Restart PROVE UNCHANGED <<shown, asking>>
  BY <1>10 DEF Restart
<1> QED
  BY <1>1, <1>2, <1>3, <1>4, <1>5, <1>6, <1>7, <1>8, <1>9, <1>10 DEF Next

---------------------------------------------------------------------------
(* The steps of the mirror.                                                *)

\* Questions and the backend's conversations stay, an answer that is there too, and a
\* conversation that is gone does not come back.
Grown ==
  /\ \A n \in Numbers : /\ n \in Numbers' /\ asks'[n].chat = asks[n].chat
                        /\ asks[n].at = "answered" => asks'[n].at = "answered"
  /\ \A b \in DOMAIN store : /\ b \in DOMAIN store' /\ store'[b].chat = store[b].chat
                             /\ ~ store[b].live => ~ store'[b].live

LEMMA StoreType ==
    ASSUME MirrorType
    PROVE  /\ Len(store) \in Nat /\ DOMAIN store = 1 .. Len(store)
           /\ \A b \in DOMAIN store : /\ store[b] \in Backed /\ store[b].chat \in Chats
                                      /\ store[b].live \in BOOLEAN
                                      /\ store[b].messages \in Seq(Nat \X By)
<1>1. Len(store) \in Nat /\ DOMAIN store = 1 .. Len(store)
  BY DEF MirrorType
<1>2. \A b \in DOMAIN store : store[b] \in Backed
  BY <1>1 DEF MirrorType
<1> QED
  BY <1>1, <1>2 DEF Backed

\* Other conversations than the one a step is about.
LEMMA QueuedElse ==
    ASSUME MirrorType, Grown, NEW d \in Chats, Queued(d),
           queue'[d] = queue[d], step'[d] = step[d], mirror'[d] = mirror[d]
    PROVE  Queued(d)'
<1>1. \A i \in DOMAIN queue[d] :
        LET t == queue[d][i] IN
        /\ t.ask \in Numbers' /\ asks'[t.ask].chat = d
        /\ t.by = "assistant" => asks'[t.ask].at = "answered"
        /\ t.captured # 0 => t.captured \in DOMAIN store' /\ store'[t.captured].chat = d
  BY DEF Queued, Said, For, Grown
<1>3. /\ mirror[d] # 0 => mirror[d] \in DOMAIN store' /\ store'[mirror[d]].chat = d
      /\ step[d].at \in {"created", "posting", "missing"} =>
           step[d].to \in DOMAIN store' /\ store'[step[d].to].chat = d
  BY DEF Queued, For, Grown
<1>2. step[d].at = "missing" => ~ store'[step[d].to].live
  BY DEF Queued, Grown, For
<1> QED
  BY <1>1, <1>2, <1>3 DEF Queued, Said, For

\* A backend conversation to which nothing was posted, where nothing older was queued.
LEMMA StoredElse ==
    ASSUME MirrorType, Grown, NEW b \in DOMAIN store, Stored(b),
           store'[b].messages = store[b].messages,
           \A k \in DOMAIN queue'[store[b].chat] :
             \A i \in DOMAIN store[b].messages :
               Place(store[b].messages[i]) < TaskPlace(queue'[store[b].chat][k])
    PROVE  Stored(b)'
<1>1. /\ store'[b].chat = store[b].chat
      /\ \A i \in DOMAIN store[b].messages :
           LET m == store[b].messages[i] IN
           /\ m[1] \in Numbers' /\ asks'[m[1]].chat = store[b].chat
           /\ m[2] = "assistant" => asks'[m[1]].at = "answered"
  BY DEF Stored, Said, Grown
<1> QED
  BY <1>1 DEF Stored, Said, Place, TaskPlace

\* The conversation a step is about, when its queue q stays or loses its first message.
LEMMA QueuedHere ==
    ASSUME MirrorType, Grown, NEW c \in Chats, Queued(c),
           NEW q, q = queue'[c], \A k \in DOMAIN q : \E i \in DOMAIN queue[c] : q[k] = queue[c][i],
           \A k, l \in DOMAIN q : k < l => TaskPlace(q[k]) < TaskPlace(q[l]),
           NEW m, m = mirror'[c], m # 0 => m \in DOMAIN store' /\ store'[m].chat = c,
           NEW st, st = step'[c],
           st.at = "idle" \/ q # << >>,
           st.at \in {"created", "posting", "missing"} =>
             st.to \in DOMAIN store' /\ store'[st.to].chat = c,
           st.at \in {"creating", "created"} => m = 0,
           st.at = "missing" => ~ store'[st.to].live
    PROVE  Queued(c)'
<1>1. \A i \in DOMAIN queue[c] :
        LET t == queue[c][i] IN
        /\ t.ask \in Numbers' /\ asks'[t.ask].chat = c
        /\ t.by = "assistant" => asks'[t.ask].at = "answered"
        /\ t.captured # 0 => t.captured \in DOMAIN store' /\ store'[t.captured].chat = c
  BY DEF Queued, Said, For, Grown
<1>2. \A k \in DOMAIN q :
        /\ q[k].ask \in Numbers' /\ asks'[q[k].ask].chat = c
        /\ q[k].by = "assistant" => asks'[q[k].ask].at = "answered"
        /\ q[k].captured # 0 => q[k].captured \in DOMAIN store' /\ store'[q[k].captured].chat = c
  BY <1>1
<1> QED
  BY <1>2 DEF Queued, Said, For, TaskPlace, Place

LEMMA TailIs ==
    ASSUME NEW q \in Seq(Mirrored), q # << >>
    PROVE  /\ Tail(q) \in Seq(Mirrored)
           /\ \A k \in DOMAIN Tail(q) : k + 1 \in DOMAIN q /\ Tail(q)[k] = q[k + 1]
           /\ q[1] \in Mirrored /\ 1 \in DOMAIN q
<1>1. Tail(q) \in Seq(Mirrored) /\ Len(Tail(q)) = Len(q) - 1 /\ Len(q) \in Nat /\ Len(q) # 0
  BY HeadTailProperties
<1>2. \A k \in 1 .. Len(Tail(q)) : Tail(q)[k] = q[k + 1]
  BY HeadTailProperties
<1>3. DOMAIN q = 1 .. Len(q) /\ DOMAIN Tail(q) = 1 .. Len(Tail(q))
  BY <1>1
<1> QED
  BY <1>1, <1>2, <1>3

\* The first message of a queue is done.
LEMMA QueuedNext ==
    ASSUME MirrorType, Grown, NEW c \in Chats, Queued(c), queue[c] # << >>,
           EndTask(c), mirror'[c] = mirror[c]
    PROVE  Queued(c)'
<1>1. queue'[c] = Tail(queue[c]) /\ step'[c] = Idle /\ queue[c] \in Seq(Mirrored)
  BY DEF EndTask, MirrorType
<1> DEFINE q == Tail(queue[c])
<1>2. \A k \in DOMAIN q : k + 1 \in DOMAIN queue[c] /\ q[k] = queue[c][k + 1]
  BY <1>1, TailIs
<1>3. q \in Seq(Mirrored)
  BY <1>1, TailIs
<1> HIDE DEF q
<1>4. DOMAIN q = 1 .. Len(q)
  BY <1>3
<1>5. \A k \in DOMAIN q : \E i \in DOMAIN queue[c] : q[k] = queue[c][i]
  BY <1>2
<1>6. \A k, l \in DOMAIN q : k < l => TaskPlace(q[k]) < TaskPlace(q[l])
  <2> SUFFICES ASSUME NEW k \in DOMAIN q, NEW l \in DOMAIN q, k < l
               PROVE  TaskPlace(q[k]) < TaskPlace(q[l])
    OBVIOUS
  <2>1. k + 1 < l + 1
    BY <1>4
  <2>2. TaskPlace(queue[c][k + 1]) < TaskPlace(queue[c][l + 1])
    BY <1>2, <2>1 DEF Queued
  <2> QED
    BY <1>2, <2>2
<1>7. mirror[c] # 0 => mirror[c] \in DOMAIN store' /\ store'[mirror[c]].chat = c
  BY DEF Queued, For, Grown
<1>8. Idle.at = "idle"
  BY DEF Idle
<1> HIDE DEF Idle
<1> QED
  BY <1>1, <1>5, <1>6, <1>7, <1>8, QueuedHere DEF q

\* A queue only loses messages, and nothing is posted.
LEMMA StoredRests ==
    ASSUME MirrorType, MirrorInv, Grown, DOMAIN store' = DOMAIN store,
           \A b \in DOMAIN store : store'[b].messages = store[b].messages,
           \A d \in Chats : \A k \in DOMAIN queue'[d] :
             \E i \in DOMAIN queue[d] : queue'[d][k] = queue[d][i]
    PROVE  \A b \in DOMAIN store' : Stored(b)'
<1> SUFFICES ASSUME NEW b \in DOMAIN store PROVE Stored(b)'
  OBVIOUS
<1>1. store[b].chat \in Chats /\ Stored(b)
  BY StoreType DEF MirrorInv
<1>2. \A k \in DOMAIN queue'[store[b].chat] : \A i \in DOMAIN store[b].messages :
        Place(store[b].messages[i]) < TaskPlace(queue'[store[b].chat][k])
  BY <1>1 DEF Stored
<1> QED
  BY <1>1, <1>2, StoredElse

\* A message is queued that comes after all that was said in the conversation.
LEMMA EnqueueMoves ==
    ASSUME MirrorType, MirrorInv, Grown, NEW c \in Chats, NEW t \in Mirrored,
           t.ask \in Numbers', asks'[t.ask].chat = c,
           t.by = "assistant" => asks'[t.ask].at = "answered",
           t.captured # 0 => For(t.captured, c),
           \A n \in Numbers, by \in By : Said(n, by, c) => Place(<<n, by>>) < TaskPlace(t),
           queue' = [queue EXCEPT ![c] = Append(@, t)], UNCHANGED <<mirror, step, store>>
    PROVE  /\ MirrorType'
           /\ \A d \in Chats : Queued(d)'
           /\ \A b \in DOMAIN store' : Stored(b)'
<1> DEFINE old == queue[c]
           q == Append(old, t)
           n == Len(old)
<1>1. /\ old \in Seq(Mirrored) /\ n \in Nat /\ DOMAIN old = 1 .. n
      /\ q \in Seq(Mirrored) /\ Len(q) = n + 1 /\ DOMAIN q = 1 .. n + 1
      /\ q[n + 1] = t /\ \A i \in 1 .. n : q[i] = old[i]
  BY AppendProperties DEF MirrorType
<1>2. queue' = [queue EXCEPT ![c] = q]
  OBVIOUS
<1> HIDE DEF q, old
<1>3. queue'[c] = q /\ \A d \in Chats : d # c => queue'[d] = queue[d]
  BY <1>2 DEF MirrorType
<1>4. MirrorType'
  BY <1>1, <1>2 DEF MirrorType
<1>5. \A i \in 1 .. n : TaskPlace(old[i]) < TaskPlace(t)
  <2> SUFFICES ASSUME NEW i \in 1 .. n PROVE TaskPlace(old[i]) < TaskPlace(t)
    OBVIOUS
  <2>1. old[i] \in Mirrored /\ i \in DOMAIN old
    BY <1>1
  <2>2. Said(old[i].ask, old[i].by, c)
    BY <2>1 DEF MirrorInv, Queued, old
  <2> QED
    BY <2>1, <2>2 DEF Said, TaskPlace, Mirrored
<1>6. Queued(c)
  BY DEF MirrorInv
<1>7. \A k, l \in DOMAIN q : k < l => TaskPlace(q[k]) < TaskPlace(q[l])
  <2> SUFFICES ASSUME NEW k \in DOMAIN q, NEW l \in DOMAIN q, k < l
               PROVE  TaskPlace(q[k]) < TaskPlace(q[l])
    OBVIOUS
  <2>1. k \in 1 .. n /\ q[k] = old[k]
    BY <1>1
  <2>2. CASE l = n + 1
    BY <1>1, <1>5, <2>1, <2>2
  <2>3. CASE l # n + 1
    <3>1. l \in DOMAIN old /\ k \in DOMAIN old /\ q[l] = old[l]
      BY <1>1, <2>1, <2>3
    <3> QED
      BY <1>6, <2>1, <3>1 DEF Queued, old
  <2> QED
    BY <2>2, <2>3
<1>8. Queued(c)'
  <2>1. \A i \in DOMAIN q :
          /\ q[i].ask \in Numbers' /\ asks'[q[i].ask].chat = c
          /\ q[i].by = "assistant" => asks'[q[i].ask].at = "answered"
          /\ q[i].captured # 0 => q[i].captured \in DOMAIN store' /\ store'[q[i].captured].chat = c
    <3> SUFFICES ASSUME NEW i \in DOMAIN q
                 PROVE  /\ q[i].ask \in Numbers' /\ asks'[q[i].ask].chat = c
                        /\ q[i].by = "assistant" => asks'[q[i].ask].at = "answered"
                        /\ q[i].captured # 0 =>
                             q[i].captured \in DOMAIN store' /\ store'[q[i].captured].chat = c
      OBVIOUS
    <3>1. CASE i = n + 1
      BY <1>1, <3>1 DEF For
    <3>2. CASE i # n + 1
      <4>1. i \in DOMAIN old /\ q[i] = old[i]
        BY <1>1, <3>2
      <4> QED
        BY <1>6, <4>1 DEF Queued, Said, For, Grown, old
    <3> QED
      BY <3>1, <3>2
  <2>2. q # << >>
    BY <1>1
  <2>3. /\ mirror'[c] # 0 => mirror'[c] \in DOMAIN store' /\ store'[mirror'[c]].chat = c
        /\ step'[c].at \in {"created", "posting", "missing"} =>
             step'[c].to \in DOMAIN store' /\ store'[step'[c].to].chat = c
        /\ step'[c].at \in {"creating", "created"} => mirror'[c] = 0
        /\ step'[c].at = "missing" => ~ store'[step'[c].to].live
    BY <1>6 DEF Queued, For
  <2>4. /\ \A i \in DOMAIN queue'[c] :
             /\ queue'[c][i].ask \in Numbers' /\ asks'[queue'[c][i].ask].chat = c
             /\ queue'[c][i].by = "assistant" => asks'[queue'[c][i].ask].at = "answered"
             /\ queue'[c][i].captured # 0 =>
                  queue'[c][i].captured \in DOMAIN store' /\ store'[queue'[c][i].captured].chat = c
        /\ \A i, j \in DOMAIN queue'[c] : i < j => TaskPlace(queue'[c][i]) < TaskPlace(queue'[c][j])
        /\ queue'[c] # << >>
    BY <1>3, <1>7, <2>1, <2>2 DEF Said
  <2> QED
    BY <1>3, <2>1, <2>3, <2>4 DEF Queued, Said, For
<1>9. \A d \in Chats : Queued(d)'
  BY <1>3, <1>8, QueuedElse DEF MirrorInv
<1>10. ASSUME NEW b \in DOMAIN store PROVE Stored(b)'
  <2> DEFINE sent == store[b].messages
             d == store[b].chat
  <2>1. d \in Chats /\ Stored(b) /\ sent \in Seq(Nat \X By)
    BY StoreType DEF MirrorInv
  <2>2. \A k \in DOMAIN queue'[d] : \A i \in DOMAIN sent :
          Place(sent[i]) < TaskPlace(queue'[d][k])
    <3>1. CASE d # c
      BY <1>3, <2>1, <3>1 DEF Stored
    <3>2. CASE d = c
      <4>1. ASSUME NEW i \in DOMAIN sent PROVE Place(sent[i]) < TaskPlace(t)
        <5>1. Said(sent[i][1], sent[i][2], c)
          BY <2>1, <3>2 DEF Stored
        <5>2. sent[i] \in Nat \X By
          BY <2>1
        <5>3. sent[i] = <<sent[i][1], sent[i][2]>> /\ sent[i][2] \in By
          BY <5>2
        <5> HIDE DEF sent
        <5>4. Place(<<sent[i][1], sent[i][2]>>) < TaskPlace(t)
          BY <5>1, <5>3 DEF Said
        <5> QED
          BY <5>3, <5>4
      <4>2. ASSUME NEW i \in DOMAIN sent, NEW k \in DOMAIN q
            PROVE  Place(sent[i]) < TaskPlace(q[k])
        <5>1. CASE k = n + 1
          BY <1>1, <4>1, <5>1
        <5>2. CASE k # n + 1
          <6>1. k \in DOMAIN old /\ q[k] = old[k]
            BY <1>1, <5>2
          <6> QED
            BY <2>1, <3>2, <6>1 DEF Stored, old
        <5> QED
          BY <5>1, <5>2
      <4> QED
        BY <1>3, <3>2, <4>2
    <3> QED
      BY <3>1, <3>2
  <2>3. store'[b].messages = store[b].messages
    OBVIOUS
  <2> QED
    BY <2>1, <2>2, <2>3, StoredElse
<1> QED
  BY <1>4, <1>9, <1>10

\* What a question was asked with stays, and an answer that is there.
AsksKept ==
  \A n \in Numbers :
    /\ n \in Numbers'
    /\ asks'[n].chat = asks[n].chat
    /\ asks'[n].captured = asks[n].captured
    /\ asks'[n].topic = asks[n].topic /\ asks'[n].length = asks[n].length
    /\ asks[n].at = "answered" => asks'[n].at = "answered"

LEMMA SettleKeeps ==
    ASSUME PageType, NEW n \in Numbers, asks[n].at = "open", NEW o \in AskStates,
           asks' = [asks EXCEPT ![n].at = o]
    PROVE  AsksKept /\ Numbers' = Numbers /\ asks'[n].at = o
<1> DEFINE r == [asks[n] EXCEPT !.at = o]
<1>1. asks \in Seq(Asked) /\ n \in 1 .. Len(asks) /\ asks[n] \in Asked
  BY DEF PageType, Numbers
<1>2. /\ r \in Asked /\ r.at = o /\ r.chat = asks[n].chat
      /\ r.captured = asks[n].captured /\ r.topic = asks[n].topic /\ r.length = asks[n].length
  BY <1>1 DEF Asked
<1>3. asks' = [asks EXCEPT ![n] = r]
  OBVIOUS
<1> HIDE DEF r
<1>4. /\ Len(asks') = Len(asks)
      /\ \A k \in 1 .. Len(asks) : asks'[k] = IF k = n THEN r ELSE asks[k]
  BY <1>1, <1>2, <1>3, ExceptSeq
<1> QED
  BY <1>1, <1>2, <1>4 DEF AsksKept, Numbers

LEMMA SubmitKeeps ==
    ASSUME PageType, NEW c \in Chats, NEW k \in Nat, NEW l \in Lengths, NEW t \in Nat,
           asks' = Append(asks, [chat |-> c, captured |-> k, length |-> l, topic |-> t, at |-> "open"])
    PROVE  /\ AsksKept
           /\ \A n \in Numbers : asks'[n] = asks[n]
           /\ Len(asks) + 1 \notin Numbers /\ Numbers' = Numbers \cup {Len(asks) + 1}
           /\ asks'[Len(asks) + 1].chat = c /\ asks'[Len(asks) + 1].captured = k
           /\ asks'[Len(asks) + 1].topic = t /\ asks'[Len(asks) + 1].length = l
<1> DEFINE r == [chat |-> c, captured |-> k, length |-> l, topic |-> t, at |-> "open"]
<1>1. asks \in Seq(Asked) /\ r \in Asked
  BY DEF PageType, Asked, AskStates
<1>2. r.chat = c /\ r.captured = k /\ r.topic = t /\ r.length = l
  OBVIOUS
<1> HIDE DEF r
<1>3. /\ Len(asks) \in Nat /\ Len(asks') = Len(asks) + 1 /\ asks'[Len(asks) + 1] = r
      /\ \A n \in 1 .. Len(asks) : asks'[n] = asks[n]
  BY <1>1, AppendProperties DEF r
<1> QED
  BY <1>2, <1>3 DEF AsksKept, Numbers

LEMMA ReloadKeeps ==
    ASSUME PageType, Reload
    PROVE  AsksKept /\ Numbers' = Numbers
<1> DEFINE after(n) == IF asks[n].at \in {"open", "failed"}
                       THEN [asks[n] EXCEPT !.at = "gone"] ELSE asks[n]
<1>1. asks' = [n \in Numbers |-> after(n)]
  BY DEF Reload
<1>2. Len(asks) \in Nat /\ \A n \in Numbers : asks[n] \in Asked
  BY DEF PageType, Numbers
<1>3. \A n \in Numbers :
        /\ after(n) \in Asked
        /\ after(n).chat = asks[n].chat
        /\ after(n).captured = asks[n].captured
        /\ after(n).topic = asks[n].topic /\ after(n).length = asks[n].length
        /\ asks[n].at = "answered" => after(n).at = "answered"
  BY <1>2 DEF Asked, AskStates
<1> HIDE DEF after
<1>4. asks' \in [1 .. Len(asks) -> Asked]
  BY <1>1, <1>3 DEF Numbers
<1>5. asks' \in Seq(Asked)
  BY <1>2, <1>4, SeqDef
<1>6. Len(asks') = Len(asks)
  BY <1>2, <1>4, <1>5
<1> QED
  BY <1>1, <1>3, <1>6 DEF AsksKept, Numbers

\* Questions are settled, asked or left alone.
LEMMA AsksStep ==
    ASSUME PageType, PageInv, mirror \in [Chats -> Nat], Next
    PROVE  AsksKept /\ (Submit \/ Numbers' = Numbers)
<1>1. ASSUME UNCHANGED asks PROVE AsksKept /\ Numbers' = Numbers
  BY <1>1 DEF AsksKept, Numbers
<1>2. ASSUME NEW n \in Numbers, Answer(n) \/ AskFails(n) PROVE AsksKept /\ Numbers' = Numbers
  <2>1. PICK o \in {"answered", "failed"} :
          asks[n].at = "open" /\ asks' = [asks EXCEPT ![n].at = o]
    BY <1>2 DEF Answer, AskFails, Settle
  <2> QED
    BY <2>1, SettleKeeps DEF AskStates
<1>3. CASE Stop
  <2>1. current \in Numbers /\ asks[current].at = "open"
    BY <1>3 DEF Stop, PageType, PageInv, Numbers
  <2>2. asks' = [asks EXCEPT ![current].at = "stopped"]
    BY <1>3 DEF Stop, Settle
  <2> QED
    BY <2>1, <2>2, SettleKeeps DEF AskStates
<1>4. CASE Submit
  <2>1. PICK c \in Chats, l \in Lengths :
          LET t == Topic(RecentContext(chats[c].messages), l) IN
          /\ SubmitWith(c, Len(asks) + 1, l, RecentContext(chats[c].messages))
          /\ t \in Nat
    BY <1>4, SubmitGoes
  <2> DEFINE t == Topic(RecentContext(chats[c].messages), l)
  <2>2. /\ asks' = Append(asks, [chat |-> c, captured |-> mirror[c], length |-> l,
                                 topic |-> t, at |-> "open"])
        /\ t \in Nat /\ mirror[c] \in Nat
    BY <2>1 DEF SubmitWith
  <2> HIDE DEF t
  <2> QED
    BY <1>4, <2>2, SubmitKeeps
<1>5. CASE Reload
  BY <1>5, ReloadKeeps
<1>6. ASSUME NEW c \in Chats, \/ StartSync(c) \/ Created(c) \/ Missing(c) \/ SyncFails(c)
                              \/ CreateArrives(c) \/ PostArrives(c) \/ Delete(c)
      PROVE  UNCHANGED asks
  BY <1>6 DEF StartSync, Created, Missing, SyncFails, CreateArrives, PostArrives, Delete, asking
<1>7. ASSUME NEW b \in 1 .. Len(store), DeleteArrives(b) \/ DeleteFails(b)
      PROVE  UNCHANGED asks
  BY <1>7 DEF DeleteArrives, DeleteFails, asking
<1>8. ASSUME NEW c \in Chats \cup {NoChat}, Select(c) \/ Restart PROVE UNCHANGED asks
  BY <1>8 DEF Restart, Select, asking
<1> QED
  BY <1>1, <1>2, <1>3, <1>4, <1>5, <1>6, <1>7, <1>8 DEF Next

MirrorHolds ==
  /\ MirrorType
  /\ \A c \in Chats : Queued(c)
  /\ \A b \in DOMAIN store : Stored(b)

\* No queue moves and nothing is posted: conversations may be detached or die.
LEMMA MirrorRests ==
    ASSUME MirrorType, MirrorInv, Grown, UNCHANGED <<queue, step>>,
           mirror' \in [Chats -> Nat], \A d \in Chats : mirror'[d] \in {mirror[d], 0},
           store' \in Seq(Backed), DOMAIN store' = DOMAIN store,
           \A b \in DOMAIN store : store'[b].messages = store[b].messages
    PROVE  MirrorHolds'
<1>1. MirrorType'
  BY DEF MirrorType
<1>2. ASSUME NEW c \in Chats PROVE Queued(c)'
  <2>1. Queued(c)
    BY DEF MirrorInv
  <2>2. /\ mirror'[c] # 0 => mirror'[c] \in DOMAIN store' /\ store'[mirror'[c]].chat = c
        /\ step'[c].at = "idle" \/ queue'[c] # << >>
        /\ step'[c].at \in {"created", "posting", "missing"} =>
             step'[c].to \in DOMAIN store' /\ store'[step'[c].to].chat = c
        /\ step'[c].at \in {"creating", "created"} => mirror'[c] = 0
        /\ step'[c].at = "missing" => ~ store'[step'[c].to].live
    BY <2>1 DEF Queued, For, Grown
  <2>3. /\ \A k \in DOMAIN queue'[c] : \E i \in DOMAIN queue[c] : queue'[c][k] = queue[c][i]
        /\ \A k, l \in DOMAIN queue'[c] : k < l => TaskPlace(queue'[c][k]) < TaskPlace(queue'[c][l])
    BY <2>1 DEF Queued
  <2> QED
    BY <2>1, <2>2, <2>3, QueuedHere
<1>3. \A b \in DOMAIN store' : Stored(b)'
  BY StoredRests
<1> QED
  BY <1>1, <1>2, <1>3 DEF MirrorHolds

\* A step of one queue at which nothing is posted.
LEMMA SyncMoves ==
    ASSUME MirrorType, MirrorInv, Grown, NEW c \in Chats, MirrorType',
           \A d \in Chats : d # c =>
             queue'[d] = queue[d] /\ step'[d] = step[d] /\ mirror'[d] = mirror[d],
           queue'[c] = queue[c] \/ (queue[c] # << >> /\ queue'[c] = Tail(queue[c])),
           DOMAIN store' = DOMAIN store,
           \A b \in DOMAIN store : store'[b].messages = store[b].messages,
           Queued(c)'
    PROVE  MirrorHolds'
<1>1. \A d \in Chats : Queued(d)'
  BY QueuedElse DEF MirrorInv
<1>2. \A d \in Chats : \A k \in DOMAIN queue'[d] :
        \E i \in DOMAIN queue[d] : queue'[d][k] = queue[d][i]
  <2>1. queue[c] # << >> => \A k \in DOMAIN Tail(queue[c]) :
          k + 1 \in DOMAIN queue[c] /\ Tail(queue[c])[k] = queue[c][k + 1]
    BY TailIs DEF MirrorType
  <2>2. \A k \in DOMAIN queue'[c] : \E i \in DOMAIN queue[c] : queue'[c][k] = queue[c][i]
    BY <2>1
  <2> QED
    BY <2>2
<1>3. \A b \in DOMAIN store' : Stored(b)'
  BY <1>2, StoredRests
<1> QED
  BY <1>1, <1>3 DEF MirrorHolds

LEMMA EndTaskMoves ==
    ASSUME MirrorType, MirrorInv, Grown, NEW c \in Chats, queue[c] # << >>,
           EndTask(c), UNCHANGED mirror
    PROVE  /\ queue' \in [Chats -> Seq(Mirrored)]
           /\ step' \in [Chats -> [at : Places, to : Nat, again : BOOLEAN]]
           /\ queue'[c] = Tail(queue[c])
           /\ \A d \in Chats : d # c =>
                queue'[d] = queue[d] /\ step'[d] = step[d] /\ mirror'[d] = mirror[d]
           /\ Queued(c)'
<1>1. queue[c] \in Seq(Mirrored)
  BY DEF MirrorType
<1>2. Tail(queue[c]) \in Seq(Mirrored)
  BY <1>1, TailIs
<1>3. Idle \in [at : Places, to : Nat, again : BOOLEAN]
  BY DEF Idle, Places
<1>4. Queued(c)'
  BY QueuedNext DEF MirrorInv
<1> QED
  BY <1>2, <1>3, <1>4 DEF EndTask, MirrorType

LEMMA StartMoves ==
    ASSUME MirrorType, MirrorInv, Grown, NEW c \in Chats, StartSync(c)
    PROVE  MirrorHolds'
<1> DEFINE k == Known(mirror[c], queue[c][1].captured)
<1>1. /\ queue[c] # << >> /\ UNCHANGED <<mirror, queue, store>>
      /\ step' = [step EXCEPT ![c] = [at |-> IF k = 0 THEN "creating" ELSE "posting",
                                      to |-> k, again |-> FALSE]]
  BY DEF StartSync, Ensure, backend
<1>2. queue[c] \in Seq(Mirrored) /\ queue[c][1] \in Mirrored /\ 1 \in DOMAIN queue[c]
  BY <1>1, TailIs DEF MirrorType
<1>3. /\ k \in Nat /\ (k = 0 => mirror[c] = 0) /\ (k # 0 => For(k, c))
      /\ Queued(c)
  BY <1>2 DEF Known, MirrorType, MirrorInv, Queued, Mirrored
<1> HIDE DEF k
<1> DEFINE st == [at |-> IF k = 0 THEN "creating" ELSE "posting", to |-> k, again |-> FALSE]
<1>4. /\ st \in [at : Places, to : Nat, again : BOOLEAN]
      /\ st.at = IF k = 0 THEN "creating" ELSE "posting"
      /\ st.to = k
  BY <1>3 DEF Places
<1> HIDE DEF st
<1>5. step'[c] = st /\ \A d \in Chats : d # c => step'[d] = step[d]
  BY <1>1 DEF st, MirrorType
<1>6. MirrorType'
  BY <1>1, <1>4 DEF MirrorType, st
<1>7. Queued(c)'
  <2>1. /\ mirror[c] # 0 => mirror[c] \in DOMAIN store' /\ store'[mirror[c]].chat = c
        /\ st.at \in {"created", "posting", "missing"} =>
             st.to \in DOMAIN store' /\ store'[st.to].chat = c
        /\ st.at \in {"creating", "created"} => mirror[c] = 0
        /\ st.at # "missing"
    BY <1>1, <1>3, <1>4 DEF Queued, For
  <2>2. /\ \A i \in DOMAIN queue[c] : \E j \in DOMAIN queue[c] : queue[c][i] = queue[c][j]
        /\ \A i, j \in DOMAIN queue[c] : i < j => TaskPlace(queue[c][i]) < TaskPlace(queue[c][j])
    BY <1>3 DEF Queued
  <2>3. queue'[c] = queue[c] /\ mirror'[c] = mirror[c]
    BY <1>1
  <2> QED
    BY <1>1, <1>3, <1>5, <2>1, <2>2, <2>3, QueuedHere
<1> QED
  BY <1>1, <1>5, <1>6, <1>7, SyncMoves

\* The queue of a conversation stays, and its first message gets on.
LEMMA StepMoves ==
    ASSUME MirrorType, MirrorInv, Grown, NEW c \in Chats,
           NEW m \in Nat, mirror' = [mirror EXCEPT ![c] = m], m # 0 => For(m, c),
           NEW st \in [at : Places, to : Nat, again : BOOLEAN],
           step' = [step EXCEPT ![c] = st],
           st.at \in {"posting", "creating"}, queue[c] # << >>,
           st.at = "posting" => For(st.to, c),
           st.at = "creating" => m = 0,
           UNCHANGED <<queue, store>>
    PROVE  MirrorHolds'
<1>1. MirrorType'
  BY DEF MirrorType
<1>2. /\ mirror'[c] = m /\ step'[c] = st
      /\ \A d \in Chats : d # c => step'[d] = step[d] /\ mirror'[d] = mirror[d]
  BY DEF MirrorType
<1>3. Queued(c)
  BY DEF MirrorInv
<1>4. Queued(c)'
  <2>1. /\ m # 0 => m \in DOMAIN store' /\ store'[m].chat = c
        /\ st.at \in {"created", "posting", "missing"} =>
             st.to \in DOMAIN store' /\ store'[st.to].chat = c
        /\ st.at \in {"creating", "created"} => m = 0
        /\ st.at # "missing"
    BY DEF For
  <2>2. /\ \A i \in DOMAIN queue[c] : \E j \in DOMAIN queue[c] : queue[c][i] = queue[c][j]
        /\ \A i, j \in DOMAIN queue[c] : i < j => TaskPlace(queue[c][i]) < TaskPlace(queue[c][j])
    BY <1>3 DEF Queued
  <2>3. queue'[c] = queue[c]
    OBVIOUS
  <2> QED
    BY <1>2, <1>3, <2>1, <2>2, <2>3, QueuedHere
<1> QED
  BY <1>1, <1>2, <1>4, SyncMoves

\* The first message of a queue is done with.
LEMMA TaskEnds ==
    ASSUME MirrorType, MirrorInv, Grown, NEW c \in Chats, queue[c] # << >>,
           EndTask(c), UNCHANGED <<mirror, store>>
    PROVE  MirrorHolds'
<1>1. /\ queue' \in [Chats -> Seq(Mirrored)]
      /\ step' \in [Chats -> [at : Places, to : Nat, again : BOOLEAN]]
      /\ queue'[c] = Tail(queue[c])
      /\ \A d \in Chats : d # c =>
           queue'[d] = queue[d] /\ step'[d] = step[d] /\ mirror'[d] = mirror[d]
      /\ Queued(c)'
  BY EndTaskMoves
<1>2. MirrorType'
  BY <1>1 DEF MirrorType
<1> QED
  BY <1>1, <1>2, SyncMoves

LEMMA CreatedMoves ==
    ASSUME MirrorType, MirrorInv, Grown, NEW c \in Chats, Created(c)
    PROVE  MirrorHolds'
<1>1. /\ At(c, "created") /\ UNCHANGED store
      /\ queue[c] # << >> /\ For(step[c].to, c)
      /\ step[c] \in [at : Places, to : Nat, again : BOOLEAN]
  BY DEF Created, At, MirrorInv, Queued, MirrorType
<1>2. CASE chats[c].status = "deleted"
  <2>1. EndTask(c) /\ UNCHANGED mirror
    BY <1>2 DEF Created
  <2> QED
    BY <1>1, <2>1, TaskEnds
<1>3. CASE chats[c].status # "deleted"
  <2> DEFINE st == [step[c] EXCEPT !.at = "posting", !.to = step[c].to]
             m == step[c].to
  <2>1. /\ mirror' = [mirror EXCEPT ![c] = m] /\ UNCHANGED queue
        /\ step' = [step EXCEPT ![c] = st]
    BY <1>3 DEF Created, Move
  <2>2. /\ st \in [at : Places, to : Nat, again : BOOLEAN]
        /\ st.at = "posting" /\ st.to = m /\ m \in Nat
    BY <1>1 DEF Places
  <2> HIDE DEF st, m
  <2>3. For(m, c)
    BY <1>1 DEF m
  <2> QED
    BY <1>1, <2>1, <2>2, <2>3, StepMoves
<1> QED
  BY <1>2, <1>3

LEMMA MissingMoves ==
    ASSUME MirrorType, MirrorInv, Grown, NEW c \in Chats, Missing(c)
    PROVE  MirrorHolds'
<1>1. /\ At(c, "missing") /\ UNCHANGED store
      /\ queue[c] # << >> /\ mirror[c] \in Nat
      /\ mirror[c] # 0 => For(mirror[c], c)
  BY DEF Missing, At, MirrorInv, Queued, MirrorType, backend
<1>2. CASE step[c].again
  <2>1. EndTask(c) /\ UNCHANGED mirror
    BY <1>2 DEF Missing
  <2> QED
    BY <1>1, <2>1, TaskEnds
<1>3. CASE ~ step[c].again
  <2> DEFINE m == IF mirror[c] = step[c].to THEN 0 ELSE mirror[c]
             st == [at |-> IF m = 0 THEN "creating" ELSE "posting", to |-> m, again |-> TRUE]
  <2>1. /\ mirror' = [mirror EXCEPT ![c] = m] /\ UNCHANGED queue
        /\ step' = [step EXCEPT ![c] = st]
    BY <1>3 DEF Missing, Ensure
  <2>2. m \in Nat /\ (m # 0 => For(m, c))
    BY <1>1
  <2> HIDE DEF m
  <2>3. /\ st \in [at : Places, to : Nat, again : BOOLEAN]
        /\ st.at = (IF m = 0 THEN "creating" ELSE "posting") /\ st.to = m
    BY <2>2 DEF Places
  <2> HIDE DEF st
  <2> QED
    BY <1>1, <2>1, <2>2, <2>3, StepMoves
<1> QED
  BY <1>2, <1>3

LEMMA FailMoves ==
    ASSUME MirrorType, MirrorInv, Grown, NEW c \in Chats, SyncFails(c)
    PROVE  MirrorHolds'
<1>1. queue[c] # << >> /\ EndTask(c) /\ UNCHANGED <<mirror, store>>
  BY DEF SyncFails, MirrorInv, Queued
<1> QED
  BY <1>1, TaskEnds

LEMMA InsertIs ==
    ASSUME MirrorType, NEW c \in Chats, Insert(c)
    PROVE  /\ store' \in Seq(Backed) /\ DOMAIN store' = DOMAIN store \cup {Len(store) + 1}
           /\ Len(store) + 1 \in Nat
           /\ store'[Len(store) + 1].chat = c /\ store'[Len(store) + 1].messages = << >>
           /\ \A b \in DOMAIN store : store'[b] = store[b]
<1> DEFINE r == [chat |-> c, live |-> TRUE, messages |-> << >>]
<1>1. r \in Backed /\ r.chat = c /\ r.messages = << >>
  BY DEF Backed
<1>2. store \in Seq(Backed) /\ store' = Append(store, r)
  BY DEF MirrorType, Insert
<1> HIDE DEF r
<1>3. /\ store' \in Seq(Backed) /\ Len(store) \in Nat /\ Len(store') = Len(store) + 1
      /\ store'[Len(store) + 1] = r
      /\ \A b \in 1 .. Len(store) : store'[b] = store[b]
  BY <1>1, <1>2, AppendProperties
<1>4. DOMAIN store = 1 .. Len(store) /\ DOMAIN store' = 1 .. Len(store')
  BY <1>2, <1>3
<1>5. 1 .. Len(store) + 1 = (1 .. Len(store)) \cup {Len(store) + 1}
  BY <1>3
<1> QED
  BY <1>1, <1>3, <1>4, <1>5

LEMMA CreateMoves ==
    ASSUME MirrorType, MirrorInv, Grown, NEW c \in Chats, CreateArrives(c)
    PROVE  MirrorHolds'
<1> DEFINE new == Len(store) + 1
           st == [step[c] EXCEPT !.at = "created", !.to = new]
<1>1. /\ Insert(c) /\ UNCHANGED <<mirror, queue>> /\ step' = [step EXCEPT ![c] = st]
      /\ step[c].at = "creating"
  BY DEF CreateArrives, Move, At
<1>2. /\ store' \in Seq(Backed) /\ DOMAIN store' = DOMAIN store \cup {new} /\ new \in Nat
      /\ store'[new].chat = c /\ store'[new].messages = << >>
      /\ \A b \in DOMAIN store : store'[b] = store[b]
  BY <1>1, InsertIs
<1>3. step[c] \in [at : Places, to : Nat, again : BOOLEAN]
  BY DEF MirrorType
<1> HIDE DEF new
<1>4. st \in [at : Places, to : Nat, again : BOOLEAN] /\ st.at = "created" /\ st.to = new
  BY <1>2, <1>3 DEF Places
<1> HIDE DEF st
<1>5. MirrorType'
  BY <1>1, <1>2, <1>4 DEF MirrorType
<1>6. /\ step'[c] = st
      /\ \A d \in Chats : d # c => step'[d] = step[d]
      /\ \A d \in Chats : queue'[d] = queue[d] /\ mirror'[d] = mirror[d]
  BY <1>1 DEF MirrorType
<1>7. Queued(c)'
  <2>1. Queued(c) /\ mirror[c] = 0 /\ queue[c] # << >>
    BY <1>1 DEF MirrorInv, Queued
  <2>2. /\ \A i \in DOMAIN queue[c] : \E j \in DOMAIN queue[c] : queue[c][i] = queue[c][j]
        /\ \A i, j \in DOMAIN queue[c] : i < j => TaskPlace(queue[c][i]) < TaskPlace(queue[c][j])
    BY <2>1 DEF Queued
  <2>3. st.to \in DOMAIN store' /\ store'[st.to].chat = c
    BY <1>2, <1>4
  <2> QED
    BY <1>4, <1>6, <2>1, <2>2, <2>3, QueuedHere
<1>8. \A d \in Chats : Queued(d)'
  BY <1>6, <1>7, QueuedElse DEF MirrorInv
<1>9. ASSUME NEW b \in DOMAIN store' PROVE Stored(b)'
  <2>1. CASE b = new
    BY <1>2, <2>1 DEF Stored
  <2>2. CASE b \in DOMAIN store
    <3>1. store[b].chat \in Chats /\ Stored(b)
      BY <2>2, StoreType DEF MirrorInv
    <3>2. /\ store'[b].messages = store[b].messages
          /\ queue'[store[b].chat] = queue[store[b].chat]
      BY <1>2, <1>6, <2>2, <3>1
    <3>3. \A k \in DOMAIN queue'[store[b].chat] : \A i \in DOMAIN store[b].messages :
            Place(store[b].messages[i]) < TaskPlace(queue'[store[b].chat][k])
      BY <3>1, <3>2 DEF Stored
    <3> QED
      BY <2>2, <3>1, <3>2, <3>3, StoredElse
  <2> QED
    BY <1>2, <2>1, <2>2
<1> QED
  BY <1>5, <1>8, <1>9 DEF MirrorHolds

LEMMA AppendMessageIs ==
    ASSUME MirrorType, NEW b \in DOMAIN store, NEW m \in Nat \X By, AppendMessage(b, m)
    PROVE  /\ store' \in Seq(Backed) /\ DOMAIN store' = DOMAIN store
           /\ store'[b].chat = store[b].chat /\ store'[b].live = store[b].live
           /\ store'[b].messages = Append(store[b].messages, m)
           /\ \A k \in DOMAIN store : k # b => store'[k] = store[k]
<1> DEFINE r == [store[b] EXCEPT !.messages = Append(@, m)]
<1>1. /\ store[b] \in Backed /\ store \in Seq(Backed) /\ b \in 1 .. Len(store)
      /\ DOMAIN store = 1 .. Len(store)
  BY StoreType DEF MirrorType
<1>2. /\ r \in Backed /\ r.chat = store[b].chat /\ r.live = store[b].live
      /\ r.messages = Append(store[b].messages, m)
  <2> DEFINE long == Append(store[b].messages, m)
             q == [store[b] EXCEPT !.messages = long]
  <2>1. long \in Seq(Nat \X By)
    BY StoreType, AppendProperties
  <2>2. r = q
    OBVIOUS
  <2> HIDE DEF long, r
  <2>3. /\ q \in Backed /\ q.chat = store[b].chat /\ q.live = store[b].live
        /\ q.messages = long
    BY <1>1, <2>1 DEF Backed
  <2> HIDE DEF q
  <2> QED
    BY <2>2, <2>3 DEF long
<1>3. store' = [store EXCEPT ![b] = r]
  BY DEF AppendMessage
<1> HIDE DEF r
<1>4. /\ store' \in Seq(Backed) /\ Len(store') = Len(store)
      /\ \A k \in 1 .. Len(store) : store'[k] = IF k = b THEN r ELSE store[k]
  BY <1>1, <1>2, <1>3, ExceptSeq
<1> QED
  BY <1>1, <1>2, <1>4

\* The first message of a queue is posted to the end of a conversation.
LEMMA PostIsStored ==
    ASSUME MirrorType, MirrorInv, Grown, NEW c \in Chats, queue[c] # << >>,
           NEW b \in DOMAIN store, store[b].chat = c,
           EndTask(c), AppendMessage(b, <<queue[c][1].ask, queue[c][1].by>>)
    PROVE  Stored(b)'
<1> DEFINE q == queue[c]
           t == q[1]
           m == <<t.ask, t.by>>
           old == store[b].messages
           sent == Append(old, m)
           n == Len(old)
<1>1. /\ q \in Seq(Mirrored) /\ t \in Mirrored /\ 1 \in DOMAIN q
      /\ \A k \in DOMAIN Tail(q) : k + 1 \in DOMAIN q /\ Tail(q)[k] = q[k + 1]
      /\ Tail(q) \in Seq(Mirrored)
  BY TailIs DEF MirrorType
<1>2. m \in Nat \X By /\ m[1] = t.ask /\ m[2] = t.by /\ Place(m) = TaskPlace(t)
  BY <1>1 DEF Mirrored, TaskPlace
<1>3. old \in Seq(Nat \X By) /\ Stored(b) /\ Queued(c)
  BY StoreType DEF MirrorInv
<1>4. store'[b].messages = sent /\ store'[b].chat = c
  BY <1>2, AppendMessageIs
<1>5. queue'[c] = Tail(q)
  BY DEF EndTask, MirrorType
<1> HIDE DEF m, t
<1>6. /\ n \in Nat /\ DOMAIN old = 1 .. n
      /\ sent \in Seq(Nat \X By) /\ Len(sent) = n + 1 /\ DOMAIN sent = 1 .. n + 1
      /\ sent[n + 1] = m /\ \A i \in 1 .. n : sent[i] = old[i]
  BY <1>2, <1>3, AppendProperties
<1> HIDE DEF sent, n
<1>7. \A i \in DOMAIN old : Place(old[i]) < Place(m)
  BY <1>1, <1>2, <1>3 DEF Stored, t
<1>8. \A k \in DOMAIN Tail(q) : Place(m) < TaskPlace(Tail(q)[k])
  <2> SUFFICES ASSUME NEW k \in DOMAIN Tail(q) PROVE Place(m) < TaskPlace(Tail(q)[k])
    OBVIOUS
  <2>1. k \in Nat /\ 1 < k + 1
    <3>1. DOMAIN Tail(q) = 1 .. Len(Tail(q))
      BY <1>1
    <3> QED
      BY <3>1
  <2>2. TaskPlace(q[1]) < TaskPlace(q[k + 1])
    BY <1>1, <1>3, <2>1 DEF Queued
  <2> QED
    BY <1>1, <1>2, <2>2 DEF t
<1>9. \A i \in DOMAIN old : \A k \in DOMAIN Tail(q) : Place(old[i]) < TaskPlace(Tail(q)[k])
  BY <1>1, <1>3 DEF Stored
<1>10. \A i \in DOMAIN sent : /\ sent[i][1] \in Numbers' /\ asks'[sent[i][1]].chat = c
                              /\ sent[i][2] = "assistant" => asks'[sent[i][1]].at = "answered"
  <2> SUFFICES ASSUME NEW i \in DOMAIN sent
               PROVE  /\ sent[i][1] \in Numbers' /\ asks'[sent[i][1]].chat = c
                      /\ sent[i][2] = "assistant" => asks'[sent[i][1]].at = "answered"
    OBVIOUS
  <2>1. CASE i = n + 1
    <3>1. Said(m[1], m[2], c)
      BY <1>1, <1>2, <1>3 DEF Queued, t
    <3> QED
      BY <1>6, <2>1, <3>1 DEF Said, Grown
  <2>2. CASE i # n + 1
    <3>1. i \in DOMAIN old /\ sent[i] = old[i]
      BY <1>6, <2>2
    <3>2. Said(old[i][1], old[i][2], c)
      BY <1>3, <3>1 DEF Stored
    <3> QED
      BY <3>1, <3>2 DEF Said, Grown
  <2> QED
    BY <2>1, <2>2
<1>11. \A i, j \in DOMAIN sent : i < j => Place(sent[i]) < Place(sent[j])
  <2> SUFFICES ASSUME NEW i \in DOMAIN sent, NEW j \in DOMAIN sent, i < j
               PROVE  Place(sent[i]) < Place(sent[j])
    OBVIOUS
  <2>1. i \in DOMAIN old /\ sent[i] = old[i]
    BY <1>6
  <2>2. CASE j = n + 1
    BY <1>6, <1>7, <2>1, <2>2
  <2>3. CASE j # n + 1
    <3>1. j \in DOMAIN old /\ sent[j] = old[j]
      BY <1>6, <2>3
    <3> QED
      BY <1>3, <2>1, <3>1 DEF Stored
  <2> QED
    BY <2>2, <2>3
<1>12. \A i \in DOMAIN sent : \A k \in DOMAIN queue'[c] : Place(sent[i]) < TaskPlace(queue'[c][k])
  <2> SUFFICES ASSUME NEW i \in DOMAIN sent, NEW k \in DOMAIN Tail(q)
               PROVE  Place(sent[i]) < TaskPlace(Tail(q)[k])
    BY <1>5
  <2>1. CASE i = n + 1
    BY <1>6, <1>8, <2>1
  <2>2. CASE i # n + 1
    <3>1. i \in DOMAIN old /\ sent[i] = old[i]
      BY <1>6, <2>2
    <3> QED
      BY <1>9, <3>1
  <2> QED
    BY <2>1, <2>2
<1> HIDE DEF q, old
<1> QED
  BY <1>4, <1>10, <1>11, <1>12 DEF Stored, Said, Place, TaskPlace

LEMMA PostMoves ==
    ASSUME MirrorType, MirrorInv, Grown, NEW c \in Chats, PostArrives(c)
    PROVE  MirrorHolds'
<1>0. PICK b : b = step[c].to
  OBVIOUS
<1> DEFINE t == queue[c][1]
<1>1. /\ queue[c] # << >> /\ b \in DOMAIN store /\ store[b].chat = c /\ UNCHANGED mirror
      /\ Queued(c)
  BY <1>0 DEF PostArrives, At, MirrorInv, Queued, For
<1>2. CASE Found(b)
  <2>1. AppendMessage(b, <<t.ask, t.by>>) /\ EndTask(c)
    BY <1>0, <1>2 DEF PostArrives
  <2>2. /\ queue[c] \in Seq(Mirrored) /\ t \in Mirrored
        /\ \A k \in DOMAIN Tail(queue[c]) :
             k + 1 \in DOMAIN queue[c] /\ Tail(queue[c])[k] = queue[c][k + 1]
    BY <1>1, TailIs DEF MirrorType
  <2>3. <<t.ask, t.by>> \in Nat \X By
    BY <2>2 DEF Mirrored, By
  <2>4. Stored(b)'
    BY <1>1, <2>1, PostIsStored
  <2>5. /\ store' \in Seq(Backed) /\ DOMAIN store' = DOMAIN store
        /\ \A k \in DOMAIN store : k # b => store'[k] = store[k]
    BY <1>1, <2>1, <2>3, AppendMessageIs
  <2>6. /\ queue' \in [Chats -> Seq(Mirrored)]
        /\ step' \in [Chats -> [at : Places, to : Nat, again : BOOLEAN]]
        /\ queue'[c] = Tail(queue[c])
        /\ \A d \in Chats : d # c =>
             queue'[d] = queue[d] /\ step'[d] = step[d] /\ mirror'[d] = mirror[d]
        /\ Queued(c)'
    BY <1>1, <2>1, EndTaskMoves
  <2>7. MirrorType'
    BY <1>1, <2>5, <2>6 DEF MirrorType
  <2>8. \A d \in Chats : Queued(d)'
    BY <2>6, QueuedElse DEF MirrorInv
  <2>9. ASSUME NEW k \in DOMAIN store, k # b PROVE Stored(k)'
    <3>1. store[k].chat \in Chats /\ Stored(k) /\ store'[k].messages = store[k].messages
      BY <2>5, <2>9, StoreType DEF MirrorInv
    <3>2. \A i \in DOMAIN queue'[store[k].chat] :
            \E j \in DOMAIN queue[store[k].chat] :
              queue'[store[k].chat][i] = queue[store[k].chat][j]
      <4>1. CASE store[k].chat = c
        BY <2>2, <2>6, <4>1
      <4>2. CASE store[k].chat # c
        BY <2>6, <3>1, <4>2
      <4> QED
        BY <4>1, <4>2
    <3>3. \A j \in DOMAIN queue'[store[k].chat] : \A i \in DOMAIN store[k].messages :
            Place(store[k].messages[i]) < TaskPlace(queue'[store[k].chat][j])
      BY <3>1, <3>2 DEF Stored
    <3> QED
      BY <3>1, <3>3, StoredElse
  <2>10. \A k \in DOMAIN store' : Stored(k)'
    BY <2>4, <2>5, <2>9
  <2> QED
    BY <2>7, <2>8, <2>10 DEF MirrorHolds
<1>3. CASE ~ Found(b)
  <2> DEFINE st == [step[c] EXCEPT !.at = "missing", !.to = b]
  <2>1. UNCHANGED <<queue, store>> /\ step' = [step EXCEPT ![c] = st]
    BY <1>0, <1>3 DEF PostArrives, Move
  <2>2. step[c] \in [at : Places, to : Nat, again : BOOLEAN]
    BY DEF MirrorType
  <2>3. /\ st \in [at : Places, to : Nat, again : BOOLEAN] /\ st.at = "missing" /\ st.to = b
        /\ ~ store[b].live
    BY <1>0, <1>1, <1>3, <2>2, StoreType DEF Places, Found
  <2> HIDE DEF st
  <2>4. MirrorType'
    BY <1>1, <2>1, <2>3 DEF MirrorType
  <2>5. /\ step'[c] = st
        /\ \A d \in Chats : queue'[d] = queue[d] /\ mirror'[d] = mirror[d]
        /\ \A d \in Chats : d # c => step'[d] = step[d]
    BY <1>1, <2>1 DEF MirrorType
  <2>6. /\ \A i \in DOMAIN queue[c] : \E j \in DOMAIN queue[c] : queue[c][i] = queue[c][j]
        /\ \A i, j \in DOMAIN queue[c] : i < j => TaskPlace(queue[c][i]) < TaskPlace(queue[c][j])
        /\ mirror[c] # 0 => mirror[c] \in DOMAIN store' /\ store'[mirror[c]].chat = c
        /\ st.to \in DOMAIN store' /\ store'[st.to].chat = c /\ ~ store'[st.to].live
    BY <1>1, <2>1, <2>3 DEF Queued, For
  <2>7. Queued(c)'
    BY <1>1, <2>3, <2>5, <2>6, QueuedHere
  <2> QED
    BY <2>1, <2>4, <2>5, <2>7, SyncMoves
<1> QED
  BY <1>2, <1>3

LEMMA PlaceIs ==
    ASSUME NEW n \in Nat, NEW by \in By
    PROVE  Place(<<n, by>>) = 2 * n + IF by = "user" THEN 0 ELSE 1
BY DEF Place

LEMMA TaskIs ==
    ASSUME NEW n \in Nat, NEW by \in By, NEW k \in Nat, NEW t, t = Task(n, by, k)
    PROVE  /\ t \in Mirrored /\ t.ask = n /\ t.by = by /\ t.captured = k
           /\ TaskPlace(t) = 2 * n + IF by = "user" THEN 0 ELSE 1
<1>1. t \in Mirrored /\ t.ask = n /\ t.by = by /\ t.captured = k
  BY DEF Task, Mirrored
<1> QED
  BY <1>1, PlaceIs DEF TaskPlace

LEMMA SubmitMoves ==
    ASSUME PageType, PageInv, MirrorType, MirrorInv, Grown, Submit
    PROVE  MirrorHolds'
<1>1. PICK c \in Chats, l \in Lengths :
        LET t == Topic(RecentContext(chats[c].messages), l) IN
        /\ SubmitWith(c, Len(asks) + 1, l, RecentContext(chats[c].messages))
        /\ t \in Nat
  BY SubmitGoes
<1>2. PICK N : N = Len(asks) + 1
  OBVIOUS
<1> DEFINE tp == Topic(RecentContext(chats[c].messages), l)
<1>3. /\ asks' = Append(asks, [chat |-> c, captured |-> mirror[c], length |-> l,
                              topic |-> tp, at |-> "open"])
      /\ tp \in Nat /\ mirror[c] \in Nat
  BY <1>1 DEF SubmitWith, MirrorType
<1> HIDE DEF tp
<1>4. PICK t : t = Task(N, "user", mirror[c])
  OBVIOUS
<1>5. /\ queue' = [queue EXCEPT ![c] = Append(@, t)]
      /\ UNCHANGED <<mirror, step, store>>
  BY <1>1, <1>2, <1>4 DEF SubmitWith, Enqueue, backend
<1>6. N \in Nat /\ N = Len(asks) + 1 /\ Len(asks) \in Nat
  BY <1>2 DEF PageType
<1>7. /\ t \in Mirrored /\ t.ask = N /\ t.by = "user" /\ t.captured = mirror[c]
      /\ TaskPlace(t) = 2 * N
  <2>1. "user" \in By
    BY DEF By
  <2> DEFINE k == mirror[c]
  <2>2. k \in Nat /\ N \in Nat /\ t = Task(N, "user", k)
    BY <1>3, <1>4, <1>6
  <2> HIDE DEF k
  <2>3. /\ t \in Mirrored /\ t.ask = N /\ t.by = "user" /\ t.captured = k
        /\ TaskPlace(t) = 2 * N + IF "user" = "user" THEN 0 ELSE 1
    BY <2>1, <2>2, TaskIs
  <2> QED
    BY <2>2, <2>3 DEF k
<1>8. N \in Numbers' /\ asks'[N].chat = c
  BY <1>3, <1>6, SubmitKeeps
<1>9. mirror[c] # 0 => For(mirror[c], c)
  BY DEF MirrorInv, Queued
<1>10. ASSUME NEW n \in Numbers, NEW by \in By, Said(n, by, c)
       PROVE  Place(<<n, by>>) < TaskPlace(t)
  <2>1. n \in Nat /\ n < N
    BY <1>6 DEF Numbers
  <2> QED
    BY <1>7, <2>1, <1>6, PlaceIs
<1>11. MirrorType' /\ (\A d \in Chats : Queued(d)') /\ \A b \in DOMAIN store' : Stored(b)'
  BY <1>5, <1>7, <1>8, <1>9, <1>10, EnqueueMoves
<1> QED
  BY <1>11 DEF MirrorHolds

LEMMA AnswerMoves ==
    ASSUME PageType, PageInv, MirrorType, MirrorInv, Grown, NEW n \in Numbers, Answer(n)
    PROVE  MirrorHolds'
<1>0. PICK c : c = asks[n].chat
  OBVIOUS
<1>1. /\ asks[n] \in Asked /\ n \in Nat /\ asks[n].at = "open" /\ c \in Chats
      /\ asks[n].captured \in Nat
  <2>1. asks[n] \in Asked /\ n \in Nat
    BY DEF PageType, Numbers
  <2>2. asks[n].at = "open"
    BY DEF Answer
  <2> QED
    BY <1>0, <2>1, <2>2 DEF Asked
<1>2. PICK t : t = Task(n, "assistant", Known(mirror[c], asks[n].captured))
  OBVIOUS
<1>3. /\ queue' = [queue EXCEPT ![c] = Append(@, t)]
      /\ UNCHANGED <<mirror, step, store>>
      /\ asks' = [asks EXCEPT ![n].at = "answered"]
  BY <1>0, <1>2 DEF Answer, Enqueue, Settle, backend
<1>4. AsksKept /\ Numbers' = Numbers /\ asks'[n].at = "answered"
  BY <1>1, <1>3, SettleKeeps DEF AskStates
<1>5. /\ Known(mirror[c], asks[n].captured) \in Nat
      /\ Known(mirror[c], asks[n].captured) # 0 => For(Known(mirror[c], asks[n].captured), c)
  BY <1>0, <1>1 DEF Known, MirrorType, MirrorInv, Queued
<1>6. /\ t \in Mirrored /\ t.ask = n /\ t.by = "assistant"
      /\ t.captured = Known(mirror[c], asks[n].captured)
      /\ TaskPlace(t) = 2 * n + 1
  <2>1. "assistant" \in By
    BY DEF By
  <2> DEFINE k == Known(mirror[c], asks[n].captured)
  <2>2. k \in Nat
    BY <1>5
  <2> HIDE DEF k
  <2>3. t = Task(n, "assistant", k)
    BY <1>2 DEF k
  <2>4. /\ t \in Mirrored /\ t.ask = n /\ t.by = "assistant" /\ t.captured = k
        /\ TaskPlace(t) = 2 * n + IF "assistant" = "user" THEN 0 ELSE 1
    BY <1>1, <2>1, <2>2, <2>3, TaskIs
  <2> QED
    BY <1>1, <2>4 DEF k
<1>7. n \in Numbers' /\ asks'[n].chat = c
  BY <1>0, <1>4 DEF AsksKept
<1>8. ASSUME NEW m \in Numbers, NEW by \in By, Said(m, by, c)
      PROVE  Place(<<m, by>>) < TaskPlace(t)
  <2>1. m \in Nat /\ m <= n
    BY <1>0, <1>1, <1>8 DEF Said, PageInv, Numbers
  <2>2. m = n => by = "user"
    BY <1>1, <1>8 DEF Said, By
  <2>3. CASE by = "user"
    BY <1>1, <1>6, <2>1, <2>3, PlaceIs
  <2>4. CASE by = "assistant"
    BY <1>1, <1>6, <2>1, <2>2, <2>4, PlaceIs
  <2> QED
    BY <2>3, <2>4 DEF By
<1>9. MirrorType' /\ (\A d \in Chats : Queued(d)') /\ \A b \in DOMAIN store' : Stored(b)'
  BY <1>1, <1>3, <1>4, <1>5, <1>6, <1>7, <1>8, EnqueueMoves
<1> QED
  BY <1>9 DEF MirrorHolds

LEMMA ReloadMoves ==
    ASSUME MirrorType, MirrorInv, Grown, Reload
    PROVE  MirrorHolds'
<1>1. /\ queue' = [c \in Chats |-> << >>] /\ step' = [c \in Chats |-> Idle]
      /\ UNCHANGED <<mirror, store>>
  BY DEF Reload
<1>2. Idle \in [at : Places, to : Nat, again : BOOLEAN] /\ Idle.at = "idle"
  BY DEF Idle, Places
<1> HIDE DEF Idle
<1>3. MirrorType'
  BY <1>1, <1>2 DEF MirrorType
<1>4. ASSUME NEW c \in Chats PROVE Queued(c)'
  <2>1. queue'[c] = << >> /\ step'[c].at = "idle" /\ mirror'[c] = mirror[c]
    BY <1>1, <1>2
  <2>2. mirror[c] # 0 => mirror[c] \in DOMAIN store' /\ store'[mirror[c]].chat = c
    BY <1>1 DEF MirrorInv, Queued, For
  <2>3. Queued(c)
    BY DEF MirrorInv
  <2> QED
    BY <2>1, <2>2, <2>3, QueuedHere
<1>5. \A d \in Chats : \A k \in DOMAIN queue'[d] :
        \E i \in DOMAIN queue[d] : queue'[d][k] = queue[d][i]
  BY <1>1
<1>6. \A b \in DOMAIN store' : Stored(b)'
  BY <1>1, <1>5, StoredRests
<1> QED
  BY <1>3, <1>4, <1>6 DEF MirrorHolds

LEMMA DropIs ==
    ASSUME MirrorType, NEW b \in DOMAIN store, Drop(b)
    PROVE  /\ store' \in Seq(Backed) /\ DOMAIN store' = DOMAIN store
           /\ \A k \in DOMAIN store :
                /\ store'[k].chat = store[k].chat /\ store'[k].messages = store[k].messages
                /\ store'[k].live <=> store[k].live /\ k # b
<1> DEFINE r == [store[b] EXCEPT !.live = FALSE]
<1>1. /\ store[b] \in Backed /\ store \in Seq(Backed) /\ b \in 1 .. Len(store)
      /\ DOMAIN store = 1 .. Len(store)
  BY StoreType DEF MirrorType
<1>2. r \in Backed /\ r.chat = store[b].chat /\ ~ r.live /\ r.messages = store[b].messages
  BY <1>1 DEF Backed
<1>3. store' = [store EXCEPT ![b] = r]
  BY DEF Drop
<1> HIDE DEF r
<1>4. /\ store' \in Seq(Backed) /\ Len(store') = Len(store)
      /\ \A k \in 1 .. Len(store) : store'[k] = IF k = b THEN r ELSE store[k]
  BY <1>1, <1>2, <1>3, ExceptSeq
<1> QED
  BY <1>1, <1>2, <1>4

LEMMA RestartIs ==
    ASSUME MirrorType, Restart
    PROVE  /\ store' \in Seq(Backed) /\ DOMAIN store' = DOMAIN store
           /\ \A k \in DOMAIN store :
                /\ store'[k].chat = store[k].chat /\ store'[k].messages = store[k].messages
                /\ ~ store'[k].live
<1> DEFINE r(k) == [store[k] EXCEPT !.live = FALSE]
<1>1. /\ Len(store) \in Nat /\ DOMAIN store = 1 .. Len(store)
      /\ \A k \in DOMAIN store : store[k] \in Backed
  BY StoreType
<1>2. \A k \in DOMAIN store : /\ r(k) \in Backed /\ r(k).chat = store[k].chat
                              /\ r(k).messages = store[k].messages /\ ~ r(k).live
  BY <1>1 DEF Backed
<1>3. store' = [k \in DOMAIN store |-> r(k)]
  BY DEF Restart
<1> HIDE DEF r
<1>4. store' \in [1 .. Len(store) -> Backed]
  BY <1>1, <1>2, <1>3
<1>5. store' \in Seq(Backed)
  BY <1>1, <1>4, SeqDef
<1> QED
  BY <1>1, <1>2, <1>3, <1>5

\* The backend forgets no conversation, and one that is gone stays gone.
LEMMA StoreGrows ==
    ASSUME MirrorType, MirrorInv, Next
    PROVE  \A b \in DOMAIN store : /\ b \in DOMAIN store' /\ store'[b].chat = store[b].chat
                                   /\ ~ store[b].live => ~ store'[b].live
<1>1. ASSUME NEW c \in Chats, CreateArrives(c)
      PROVE  \A b \in DOMAIN store : b \in DOMAIN store' /\ store'[b] = store[b]
  BY <1>1, InsertIs DEF CreateArrives
<1>2. ASSUME NEW c \in Chats, PostArrives(c)
      PROVE  \A b \in DOMAIN store : /\ b \in DOMAIN store' /\ store'[b].chat = store[b].chat
                                     /\ ~ store[b].live => ~ store'[b].live
  <2>1. PICK b : b = step[c].to
    OBVIOUS
  <2>2. b \in DOMAIN store /\ queue[c] # << >>
    BY <1>2, <2>1 DEF PostArrives, At, MirrorInv, Queued, For
  <2>3. CASE Found(b)
    <3> DEFINE m == <<queue[c][1].ask, queue[c][1].by>>
    <3>1. AppendMessage(b, m)
      BY <1>2, <2>1, <2>3 DEF PostArrives
    <3>2. m \in Nat \X By
      <4>1. queue[c][1] \in Mirrored
        BY <2>2, TailIs DEF MirrorType
      <4> QED
        BY <4>1 DEF Mirrored, By
    <3> HIDE DEF m
    <3>3. /\ DOMAIN store' = DOMAIN store
          /\ store'[b].chat = store[b].chat /\ store'[b].live = store[b].live
          /\ \A k \in DOMAIN store : k # b => store'[k] = store[k]
      BY <2>2, <3>1, <3>2, AppendMessageIs
    <3> QED
      BY <3>3
  <2>4. CASE ~ Found(b)
    BY <1>2, <2>1, <2>4 DEF PostArrives
  <2> QED
    BY <2>3, <2>4
<1>3. ASSUME NEW b \in 1 .. Len(store), DeleteArrives(b)
      PROVE  \A k \in DOMAIN store : /\ k \in DOMAIN store' /\ store'[k].chat = store[k].chat
                                     /\ ~ store[k].live => ~ store'[k].live
  <2>1. b \in DOMAIN store
    BY StoreType
  <2> QED
    BY <1>3, <2>1, DropIs DEF DeleteArrives
<1>4. CASE Restart
  BY <1>4, RestartIs
<1>5. ASSUME NEW c \in Chats, \/ StartSync(c) \/ Created(c) \/ Missing(c) \/ SyncFails(c)
                              \/ Delete(c)
      PROVE  UNCHANGED store
  BY <1>5 DEF StartSync, Created, Missing, SyncFails, Delete, backend
<1>6. ASSUME NEW b \in 1 .. Len(store), DeleteFails(b)
      PROVE  UNCHANGED store
  BY <1>6 DEF DeleteFails
<1>7. ASSUME NEW c \in Chats \cup {NoChat}, Select(c) \/ Stop \/ Reload PROVE UNCHANGED store
  BY <1>7 DEF Stop, Select, Reload, backend
<1>8. ASSUME NEW n \in Numbers, Answer(n) \/ AskFails(n) PROVE UNCHANGED store
  BY <1>8 DEF Answer, AskFails, backend
<1>9. CASE Submit
  BY <1>9 DEF Submit, SubmitWith, backend
<1> QED
  BY <1>1, <1>2, <1>3, <1>4, <1>5, <1>6, <1>7, <1>8, <1>9 DEF Next

LEMMA GrownStep ==
    ASSUME PageType, PageInv, MirrorType, MirrorInv, Next
    PROVE  AsksKept /\ Grown /\ (Submit \/ Numbers' = Numbers)
<1>1. AsksKept /\ (Submit \/ Numbers' = Numbers)
  BY AsksStep DEF MirrorType
<1> QED
  BY <1>1, StoreGrows DEF AsksKept, Grown

LEMMA RestMoves ==
    ASSUME MirrorType, MirrorInv, Grown,
           \/ \E c \in Chats \cup {NoChat} : Select(c)
           \/ \E n \in Numbers : AskFails(n)
           \/ \E c \in Chats : Delete(c)
           \/ \E b \in 1 .. Len(store) : DeleteArrives(b) \/ DeleteFails(b)
           \/ Stop \/ Restart
    PROVE  MirrorHolds'
<1>0. /\ mirror \in [Chats -> Nat] /\ store \in Seq(Backed)
      /\ DOMAIN store = 1 .. Len(store)
  BY StoreType DEF MirrorType
<1>1. ASSUME UNCHANGED <<sync, store>> PROVE MirrorHolds'
  <2>1. UNCHANGED <<mirror, queue, step, store>>
    BY <1>1 DEF sync
  <2> QED
    BY <1>0, <2>1, MirrorRests
<1>2. ASSUME NEW c \in Chats, Delete(c) PROVE MirrorHolds'
  <2>1. mirror' = [mirror EXCEPT ![c] = 0] /\ UNCHANGED <<queue, step, store>>
    BY <1>2 DEF Delete
  <2>2. mirror' \in [Chats -> Nat] /\ \A d \in Chats : mirror'[d] \in {mirror[d], 0}
    BY <1>0, <2>1
  <2> QED
    BY <1>0, <2>1, <2>2, MirrorRests
<1>3. ASSUME UNCHANGED sync, store' \in Seq(Backed), DOMAIN store' = DOMAIN store,
             \A b \in DOMAIN store : store'[b].messages = store[b].messages
      PROVE  MirrorHolds'
  <2>1. UNCHANGED <<mirror, queue, step>>
    BY <1>3 DEF sync
  <2> QED
    BY <1>0, <1>3, <2>1, MirrorRests
<1>4. ASSUME NEW b \in 1 .. Len(store), DeleteArrives(b) PROVE MirrorHolds'
  <2>1. b \in DOMAIN store /\ Drop(b) /\ UNCHANGED sync
    BY <1>0, <1>4 DEF DeleteArrives
  <2> QED
    BY <1>3, <2>1, DropIs
<1>5. CASE Restart
  <2>1. UNCHANGED sync
    BY <1>5 DEF Restart
  <2> QED
    BY <1>3, <1>5, <2>1, RestartIs
<1>6. ASSUME NEW c \in Chats \cup {NoChat}, Select(c) \/ Stop PROVE UNCHANGED <<sync, store>>
  BY <1>6 DEF Select, Stop, backend
<1>7. ASSUME NEW n \in Numbers, AskFails(n) PROVE UNCHANGED <<sync, store>>
  BY <1>7 DEF AskFails, backend
<1>8. ASSUME NEW b \in 1 .. Len(store), DeleteFails(b) PROVE UNCHANGED <<sync, store>>
  BY <1>8 DEF DeleteFails
<1> QED
  BY <1>1, <1>2, <1>4, <1>5, <1>6, <1>7, <1>8

\* Every step, as the mirror sees it.
LEMMA MirrorStep ==
    ASSUME PageType, PageInv, MirrorType, MirrorInv, Next
    PROVE  MirrorType' /\ MirrorInv'
<1>1. AsksKept /\ Grown /\ (Submit \/ Numbers' = Numbers)
  BY GrownStep
<1>2. MirrorHolds'
  BY <1>1, StartMoves, CreatedMoves, MissingMoves, FailMoves, CreateMoves, PostMoves,
     SubmitMoves, AnswerMoves, ReloadMoves, RestMoves DEF Next
<1>3. \A n \in Numbers' : asks'[n].captured # 0 =>
        asks'[n].captured \in DOMAIN store' /\ store'[asks'[n].captured].chat = asks'[n].chat
  <2>1. ASSUME NEW n \in Numbers, asks'[n].captured # 0
        PROVE  asks'[n].captured \in DOMAIN store' /\ store'[asks'[n].captured].chat = asks'[n].chat
    <3>1. asks[n].captured # 0 /\ asks'[n].captured = asks[n].captured /\ asks'[n].chat = asks[n].chat
      BY <1>1, <2>1 DEF AsksKept
    <3>2. For(asks[n].captured, asks[n].chat)
      BY <3>1 DEF MirrorInv
    <3> QED
      BY <1>1, <3>1, <3>2 DEF For, Grown
  <2>2. CASE Numbers' = Numbers
    BY <2>1, <2>2
  <2>3. CASE Submit
    <3>1. PICK c \in Chats, l \in Lengths :
            LET t == Topic(RecentContext(chats[c].messages), l) IN
            /\ SubmitWith(c, Len(asks) + 1, l, RecentContext(chats[c].messages))
            /\ t \in Nat
      BY <2>3, SubmitGoes
    <3> DEFINE t == Topic(RecentContext(chats[c].messages), l)
    <3>2. /\ asks' = Append(asks, [chat |-> c, captured |-> mirror[c], length |-> l,
                                   topic |-> t, at |-> "open"])
          /\ t \in Nat /\ mirror[c] \in Nat /\ UNCHANGED store
      BY <3>1 DEF SubmitWith, backend, MirrorType
    <3> HIDE DEF t
    <3>3. PICK N : N = Len(asks) + 1
      OBVIOUS
    <3>4. /\ Numbers' = Numbers \cup {N}
          /\ asks'[N].chat = c /\ asks'[N].captured = mirror[c]
      BY <3>2, <3>3, SubmitKeeps
    <3>5. mirror[c] # 0 => For(mirror[c], c)
      BY DEF MirrorInv, Queued
    <3>6. asks'[N].captured # 0 =>
            asks'[N].captured \in DOMAIN store' /\ store'[asks'[N].captured].chat = asks'[N].chat
      BY <3>2, <3>4, <3>5 DEF For
    <3> QED
      BY <2>1, <3>4, <3>6
  <2> QED
    BY <1>1, <2>2, <2>3
<1> QED
  BY <1>2, <1>3 DEF MirrorHolds, MirrorInv, For

---------------------------------------------------------------------------
(* What the backend keeps.                                                 *)

Held(b) == LET c == store[b].chat IN
  \/ b \in stray \cup deletes
  \/ step[c].at = "created" /\ step[c].to = b
  \/ chats[c].status = "open" /\ mirror[c] = b

LEMMA HeldIs == NothingLeftBehind <=> \A b \in DOMAIN store : store[b].live => Held(b)
BY DEF NothingLeftBehind, Held, At, Open

LEMMA HeldNext ==
    NothingLeftBehind' <=> \A b \in DOMAIN store' : store'[b].live => Held(b)'
BY DEF NothingLeftBehind, Held, At, Open

LEMMA UpdateKeepsStatus ==
    ASSUME PageType, NEW c, NEW n, NEW st, chats' = Update(c, n, st)
    PROVE  \A d \in Chats : chats'[d].status = chats[d].status
<1> DEFINE x == [i \in DOMAIN chats[c].messages |->
                  IF chats[c].messages[i] = Assistant(n, "loading") THEN Assistant(n, st)
                  ELSE chats[c].messages[i]]
<1>1. chats' = [chats EXCEPT ![c] = [@ EXCEPT !.messages = x]]
  BY DEF Update
<1> HIDE DEF x
<1> QED
  BY <1>1 DEF PageType

\* Nothing is created, no request is under way that was not, and no conversation is
\* closed or detached.
LEMMA HeldRests ==
    ASSUME PageType, MirrorType, NothingLeftBehind, UNCHANGED <<mirror, step>>,
           DOMAIN store' = DOMAIN store,
           \A b \in DOMAIN store : /\ store'[b].chat = store[b].chat
                                   /\ store'[b].live => store[b].live
                                   /\ store'[b].live /\ b \in stray \cup deletes
                                        => b \in stray' \cup deletes',
           \A c \in Chats : chats[c].status = "open" => chats'[c].status = "open"
    PROVE  NothingLeftBehind'
<1> SUFFICES ASSUME NEW b \in DOMAIN store, store'[b].live PROVE Held(b)'
  BY HeldNext
<1>1. Held(b) /\ store[b].chat \in Chats
  BY HeldIs, StoreType
<1> QED
  BY <1>1 DEF Held

LEMMA PageKeepsHeld ==
    ASSUME PageType, PageInv, MirrorType, NothingLeftBehind,
           \/ \E c \in Chats \cup {NoChat} : Select(c)
           \/ \E n \in Numbers : Answer(n) \/ AskFails(n)
           \/ Submit \/ Stop
    PROVE  NothingLeftBehind'
<1>1. ASSUME UNCHANGED <<mirror, step, backend>>,
             \A c \in Chats : chats[c].status = "open" => chats'[c].status = "open"
      PROVE  NothingLeftBehind'
  <2>1. UNCHANGED <<mirror, step, store, deletes, stray>>
    BY <1>1 DEF backend
  <2> QED
    BY <1>1, <2>1, HeldRests
<1>2. ASSUME NEW c \in Chats \cup {NoChat}, Select(c) PROVE NothingLeftBehind'
  <2>1. UNCHANGED <<chats, mirror, step, backend>>
    BY <1>2 DEF Select, sync
  <2> QED
    BY <1>1, <2>1
<1>3. ASSUME NEW n \in Numbers, Answer(n) \/ AskFails(n) PROVE NothingLeftBehind'
  <2>1. UNCHANGED <<mirror, step, backend>>
    BY <1>3 DEF Answer, AskFails, sync
  <2>2. \A c \in Chats : chats'[c].status = chats[c].status
    <3>1. PICK st : chats' = Update(asks[n].chat, n, st)
      BY <1>3 DEF Answer, AskFails
    <3> QED
      BY <3>1, UpdateKeepsStatus
  <2> QED
    BY <1>1, <2>1, <2>2
<1>4. CASE Stop
  <2>1. UNCHANGED <<mirror, step, backend>>
    BY <1>4 DEF Stop, sync
  <2>2. \A c \in Chats : chats'[c].status = chats[c].status
    BY <1>4 DEF Stop, Withdraw, PageType
  <2> QED
    BY <1>1, <2>1, <2>2
<1>5. CASE Submit
  <2>1. PICK c \in Chats, l \in Lengths : SubmitWith(c, Len(asks) + 1, l, RecentContext(chats[c].messages))
    BY <1>5, SubmitGoes
  <2>2. UNCHANGED <<mirror, step, backend>>
    BY <2>1 DEF SubmitWith
  <2> DEFINE two == <<User(Len(asks) + 1), Assistant(Len(asks) + 1, "loading")>>
  <2>3. chats' = Append2(c, two)
    BY <2>1 DEF SubmitWith
  <2> HIDE DEF two
  <2>4. \A d \in Chats : chats'[d].status = IF d = c THEN "open" ELSE chats[d].status
    BY <2>3 DEF Append2, PageType
  <2> QED
    BY <1>1, <2>2, <2>4
<1> QED
  BY <1>2, <1>3, <1>4, <1>5

LEMMA DeleteKeepsHeld ==
    ASSUME PageType, MirrorType, NothingLeftBehind, NEW c \in Chats, Delete(c)
    PROVE  NothingLeftBehind'
<1> SUFFICES ASSUME NEW b \in DOMAIN store, store[b].live PROVE Held(b)'
  BY HeldNext DEF Delete
<1>1. Held(b) /\ store[b].chat \in Chats /\ b # 0
  BY HeldIs, StoreType
<1>2. /\ deletes' = deletes \cup ({mirror[c]} \ {0}) /\ UNCHANGED <<step, store, stray>>
      /\ mirror' = [mirror EXCEPT ![c] = 0]
  BY DEF Delete
<1>3. \A d \in Chats : d # c => chats'[d].status = chats[d].status /\ mirror'[d] = mirror[d]
  BY <1>2 DEF Delete, PageType, MirrorType
<1> QED
  BY <1>1, <1>2, <1>3 DEF Held

\* A step of the queue of c.
LEMMA SyncKeepsHeld ==
    ASSUME PageType, PageInv, MirrorType, MirrorInv, NothingLeftBehind, NEW c \in Chats,
           \/ StartSync(c) \/ Created(c) \/ Missing(c)
           \/ SyncFails(c) \/ CreateArrives(c) \/ PostArrives(c)
    PROVE  NothingLeftBehind'
<1>1. /\ UNCHANGED chats /\ Queued(c)
      /\ \A d \in Chats : d # c => step'[d] = step[d] /\ mirror'[d] = mirror[d]
  <2>1. UNCHANGED chats
    BY DEF StartSync, Created, Missing, SyncFails, CreateArrives, PostArrives, shown
  <2>2. \A d \in Chats : d # c => step'[d] = step[d]
    BY DEF StartSync, Created, Missing, SyncFails, CreateArrives, PostArrives, Ensure, Move,
           EndTask, MirrorType
  <2>3. \A d \in Chats : d # c => mirror'[d] = mirror[d]
    BY DEF StartSync, Created, Missing, SyncFails, CreateArrives, PostArrives, MirrorType
  <2> QED
    BY <2>1, <2>2, <2>3 DEF MirrorInv
<1>2. ASSUME NEW b \in DOMAIN store, store[b].live, store'[b].chat = store[b].chat,
             stray \cup deletes \subseteq stray' \cup deletes',
             store[b].chat = c => Held(b)'
      PROVE  Held(b)'
  <2>1. Held(b) /\ store[b].chat \in Chats
    BY <1>2, HeldIs, StoreType
  <2> QED
    BY <1>1, <1>2, <2>1 DEF Held
<1>3. ASSUME UNCHANGED store, stray \cup deletes \subseteq stray' \cup deletes',
             \A b \in DOMAIN store : store[b].live /\ store[b].chat = c => Held(b)'
      PROVE  NothingLeftBehind'
  BY <1>2, <1>3, HeldNext
<1>4. \A b \in DOMAIN store : store[b].live => Held(b) /\ b # 0
  BY HeldIs, StoreType
<1>5. CASE StartSync(c)
  <2>1. UNCHANGED <<mirror, store, stray, deletes>> /\ step[c].at = "idle"
    BY <1>5 DEF StartSync, At, backend
  <2> QED
    BY <1>1, <1>3, <1>4, <2>1 DEF Held
<1>6. CASE Created(c)
  <2>1. UNCHANGED <<store, stray>> /\ step[c].at = "created" /\ mirror[c] = 0
    BY <1>1, <1>6 DEF Created, At, Queued
  <2>2. CASE chats[c].status = "deleted"
    <3>1. deletes' = deletes \cup {step[c].to} /\ chats[c].status # "open"
      BY <1>6, <2>2 DEF Created
    <3> QED
      BY <1>3, <1>4, <2>1, <3>1 DEF Held
  <2>3. CASE chats[c].status # "deleted"
    <3>1. mirror'[c] = step[c].to /\ UNCHANGED deletes
      BY <1>6, <2>3 DEF Created, MirrorType
    <3>2. chats[c].status = "open"
      <4>1. queue[c] \in Seq(Mirrored) /\ queue[c] # << >>
        BY <1>1, <2>1 DEF MirrorType, Queued
      <4>2. 1 \in DOMAIN queue[c]
        BY <4>1, TailIs
      <4>3. Said(queue[c][1].ask, queue[c][1].by, c)
        BY <1>1, <4>2 DEF Queued
      <4>4. chats[c].status # "new"
        BY <4>3 DEF Said, PageInv
      <4> QED
        BY <2>3, <4>4 DEF PageType
    <3> QED
      BY <1>1, <1>3, <1>4, <2>1, <3>1, <3>2 DEF Held
  <2> QED
    BY <2>2, <2>3
<1>7. CASE Missing(c)
  <2>1. /\ UNCHANGED <<store, stray, deletes>> /\ step[c].at = "missing"
        /\ ~ store[step[c].to].live
    BY <1>1, <1>7 DEF Missing, At, Queued, backend
  <2>2. mirror'[c] = mirror[c] \/ mirror[c] = step[c].to
    BY <1>7 DEF Missing, MirrorType
  <2> QED
    BY <1>1, <1>3, <1>4, <2>1, <2>2 DEF Held
<1>8. CASE SyncFails(c)
  <2>1. /\ UNCHANGED <<store, mirror, deletes>>
        /\ stray' = stray \cup IF step[c].at = "created" THEN {step[c].to} ELSE {}
    BY <1>8 DEF SyncFails, At
  <2> QED
    BY <1>1, <1>3, <1>4, <2>1 DEF Held
<1>9. CASE CreateArrives(c)
  <2> DEFINE new == Len(store) + 1
  <2>1. /\ UNCHANGED <<mirror, deletes, stray>> /\ step[c].at = "creating" /\ Insert(c)
        /\ mirror[c] = 0
    BY <1>1, <1>9 DEF CreateArrives, At, Queued
  <2>2. /\ DOMAIN store' = DOMAIN store \cup {new} /\ store'[new].chat = c
        /\ \A b \in DOMAIN store : store'[b] = store[b]
    BY <2>1, InsertIs
  <2>3. step'[c].at = "created" /\ step'[c].to = new
    BY <1>9 DEF CreateArrives, Move, MirrorType
  <2> HIDE DEF new
  <2>4. \A b \in DOMAIN store : store[b].live => Held(b)'
    <3> SUFFICES ASSUME NEW b \in DOMAIN store, store[b].live PROVE Held(b)'
      OBVIOUS
    <3>1. store[b].chat = c => Held(b)'
      BY <1>4, <2>1 DEF Held
    <3> QED
      BY <1>2, <2>1, <2>2, <3>1
  <2>5. \A b \in DOMAIN store' : b = new => Held(b)'
    BY <2>2, <2>3 DEF Held
  <2> QED
    BY <2>2, <2>4, <2>5, HeldNext
<1>10. CASE PostArrives(c)
  <2>1. UNCHANGED <<mirror, deletes, stray>> /\ step[c].at = "posting"
    BY <1>10 DEF PostArrives, At
  <2>2. /\ DOMAIN store' = DOMAIN store
        /\ \A b \in DOMAIN store : store'[b].chat = store[b].chat /\ store'[b].live = store[b].live
    <3>1. PICK b : b = step[c].to
      OBVIOUS
    <3>2. b \in DOMAIN store /\ queue[c] # << >>
      BY <1>1, <2>1, <3>1 DEF Queued, For
    <3>3. CASE Found(b)
      <4> DEFINE m == <<queue[c][1].ask, queue[c][1].by>>
      <4>1. AppendMessage(b, m)
        BY <1>10, <3>1, <3>3 DEF PostArrives
      <4>2. queue[c][1] \in Mirrored
        BY <3>2, TailIs DEF MirrorType
      <4>3. m \in Nat \X By
        BY <4>2 DEF Mirrored, By
      <4> HIDE DEF m
      <4> QED
        BY <3>2, <4>1, <4>3, AppendMessageIs
    <3>4. CASE ~ Found(b)
      BY <1>10, <3>1, <3>4 DEF PostArrives
    <3> QED
      BY <3>3, <3>4
  <2>3. \A b \in DOMAIN store : store[b].live => Held(b)'
    <3> SUFFICES ASSUME NEW b \in DOMAIN store, store[b].live PROVE Held(b)'
      OBVIOUS
    <3>1. store[b].chat = c => Held(b)'
      BY <1>1, <1>4, <2>1, <2>2 DEF Held
    <3> QED
      BY <1>2, <2>1, <2>2, <3>1
  <2> QED
    BY <2>2, <2>3, HeldNext
<1> QED
  BY <1>5, <1>6, <1>7, <1>8, <1>9, <1>10

LEMMA BackendKeepsHeld ==
    ASSUME PageType, MirrorType, NothingLeftBehind,
           \/ \E b \in 1 .. Len(store) : DeleteArrives(b) \/ DeleteFails(b)
           \/ Restart
    PROVE  NothingLeftBehind'
<1>1. UNCHANGED <<chats, mirror, step>>
  BY DEF DeleteArrives, DeleteFails, Restart, shown, sync
<1>2. ASSUME NEW b \in 1 .. Len(store), DeleteArrives(b) PROVE NothingLeftBehind'
  <2>1. b \in DOMAIN store /\ Drop(b) /\ deletes' = deletes \ {b} /\ UNCHANGED stray
    BY <1>2, StoreType DEF DeleteArrives
  <2> QED
    BY <1>1, <2>1, DropIs, HeldRests
<1>3. ASSUME NEW b \in 1 .. Len(store), DeleteFails(b) PROVE NothingLeftBehind'
  <2>1. UNCHANGED store /\ deletes' = deletes \ {b} /\ stray' = stray \cup {b}
    BY <1>3 DEF DeleteFails
  <2> QED
    BY <1>1, <2>1, HeldRests
<1>4. CASE Restart
  BY <1>1, <1>4, RestartIs, HeldRests
<1> QED
  BY <1>2, <1>3, <1>4

LEMMA ReloadKeepsHeld ==
    ASSUME PageType, MirrorType, NothingLeftBehind, Reload
    PROVE  NothingLeftBehind'
<1> SUFFICES ASSUME NEW b \in DOMAIN store, store[b].live PROVE Held(b)'
  BY HeldNext DEF Reload
<1>1. Held(b) /\ store[b].chat \in Chats
  BY HeldIs, StoreType
<1>2. /\ UNCHANGED <<mirror, store>>
      /\ stray' = stray \cup {step[c].to : c \in {d \in Chats : At(d, "created")}} \cup deletes
  BY DEF Reload
<1>3. \A c \in Chats : chats'[c].status = chats[c].status
  BY DEF Reload, PageType
<1> QED
  BY <1>1, <1>2, <1>3 DEF Held, At

LEMMA HeldStep ==
    ASSUME PageType, PageInv, MirrorType, MirrorInv, NothingLeftBehind, Next
    PROVE  NothingLeftBehind'
BY PageKeepsHeld, DeleteKeepsHeld, SyncKeepsHeld, BackendKeepsHeld, ReloadKeepsHeld DEF Next

---------------------------------------------------------------------------
(* What a follow-up is searched with.                                      *)

LEMMA TopicStep ==
    ASSUME PageType, PageInv, mirror \in [Chats -> Nat], FollowUpHasItsTopic, Next
    PROVE  FollowUpHasItsTopic'
<1>1. AsksKept /\ (Submit \/ Numbers' = Numbers)
  BY AsksStep
<1>2. ASSUME NEW n \in Numbers
      PROVE  IF {m \in 1 .. n - 1 : asks'[m].chat = asks'[n].chat} = {} \/ MaxLength <= asks'[n].length + 1
             THEN asks'[n].topic = 0
             ELSE /\ asks'[n].topic \in {m \in 1 .. n - 1 : asks'[m].chat = asks'[n].chat}
                  /\ \A m \in {k \in 1 .. n - 1 : asks'[k].chat = asks'[n].chat} : m <= asks'[n].topic
  <2>1. \A m \in 1 .. n - 1 : asks'[m].chat = asks[m].chat
    <3>1. \A m \in 1 .. n - 1 : m \in Numbers
      BY DEF PageType, Numbers
    <3> QED
      BY <1>1, <3>1 DEF AsksKept
  <2>2. /\ asks'[n].chat = asks[n].chat /\ asks'[n].topic = asks[n].topic
        /\ asks'[n].length = asks[n].length
    BY <1>1 DEF AsksKept
  <2>3. {m \in 1 .. n - 1 : asks'[m].chat = asks'[n].chat} = Before(n)
    BY <2>1, <2>2 DEF Before
  <2>4. IF Before(n) = {} \/ MaxLength <= asks[n].length + 1 THEN asks[n].topic = 0
        ELSE asks[n].topic \in Before(n) /\ \A m \in Before(n) : m <= asks[n].topic
    BY DEF FollowUpHasItsTopic
  <2> QED
    BY <2>2, <2>3, <2>4
<1>3. CASE Numbers' = Numbers
  BY <1>2, <1>3 DEF FollowUpHasItsTopic, Before
<1>4. CASE Submit
  <2>1. PICK c \in Chats, l \in Lengths :
          LET t == Topic(RecentContext(chats[c].messages), l) IN
          /\ SubmitWith(c, Len(asks) + 1, l, RecentContext(chats[c].messages))
          /\ t \in Nat /\ Topical(t, AskedIn(c), l)
    BY <1>4, SubmitGoes
  <2>2. PICK t : t = Topic(RecentContext(chats[c].messages), l)
    OBVIOUS
  <2>3. PICK N : N = Len(asks) + 1
    OBVIOUS
  <2>4. /\ asks' = Append(asks, [chat |-> c, captured |-> mirror[c], length |-> l,
                                 topic |-> t, at |-> "open"])
        /\ t \in Nat /\ mirror[c] \in Nat
    BY <2>1, <2>2 DEF SubmitWith
  <2>5. /\ Numbers' = Numbers \cup {N}
        /\ asks'[N].chat = c /\ asks'[N].topic = t /\ asks'[N].length = l
        /\ \A n \in Numbers : asks'[n] = asks[n]
    BY <2>3, <2>4, SubmitKeeps
  <2>6. 1 .. N - 1 = Numbers
    BY <2>3 DEF PageType, Numbers
  <2>7. {m \in 1 .. N - 1 : asks'[m].chat = asks'[N].chat} = AskedIn(c)
    BY <2>5, <2>6 DEF AskedIn
  <2>8. IF AskedIn(c) = {} \/ MaxLength <= l + 1 THEN t = 0
        ELSE t \in AskedIn(c) /\ \A m \in AskedIn(c) : m <= t
    BY <2>1, <2>2 DEF Topical
  <2>9. IF {m \in 1 .. N - 1 : asks'[m].chat = asks'[N].chat} = {} \/ MaxLength <= asks'[N].length + 1
        THEN asks'[N].topic = 0
        ELSE /\ asks'[N].topic \in {m \in 1 .. N - 1 : asks'[m].chat = asks'[N].chat}
             /\ \A m \in {k \in 1 .. N - 1 : asks'[k].chat = asks'[N].chat} : m <= asks'[N].topic
    BY <2>5, <2>7, <2>8
  <2> QED
    BY <1>2, <2>5, <2>9 DEF FollowUpHasItsTopic, Before
<1> QED
  BY <1>1, <1>3, <1>4

---------------------------------------------------------------------------
(* The theorems.                                                           *)

LEMMA InitHolds == Init => IInv /\ FollowUpHasItsTopic
<1> SUFFICES ASSUME Init PROVE IInv /\ FollowUpHasItsTopic
  OBVIOUS
<1>1. /\ asks = << >> /\ store = << >> /\ Numbers = {} /\ DOMAIN store = {} /\ Len(asks) = 0
      /\ active = NoChat /\ current = 0
  BY DEF Init, Numbers
<1>2. \A c \in Chats : /\ chats[c].status = "new" /\ chats[c].messages = << >>
                       /\ mirror[c] = 0 /\ queue[c] = << >> /\ step[c] = Idle
  BY DEF Init
<1>3. Idle \in [at : Places, to : Nat, again : BOOLEAN] /\ Idle.at = "idle"
  BY DEF Idle, Places
<1>4. PageType
  BY <1>1 DEF Init, PageType
<1>5. \A c \in Chats : Shown(c)
  BY <1>1, <1>2 DEF Shown, Open, Ordered, ToSet
<1>6. PageInv
  BY <1>1, <1>5, NoChatAssumption DEF PageInv
<1>7. MirrorType
  BY <1>1, <1>3 DEF Init, MirrorType
<1>8. MirrorInv
  BY <1>1, <1>2, <1>3 DEF MirrorInv, Queued
<1>9. NothingLeftBehind
  BY <1>1 DEF NothingLeftBehind
<1>10. FollowUpHasItsTopic
  BY <1>1 DEF FollowUpHasItsTopic
<1> QED
  BY <1>4, <1>6, <1>7, <1>8, <1>9, <1>10 DEF IInv

LEMMA StepHolds == IInv /\ FollowUpHasItsTopic /\ [Next]_vars => IInv' /\ FollowUpHasItsTopic'
<1> SUFFICES ASSUME IInv, FollowUpHasItsTopic, [Next]_vars PROVE IInv' /\ FollowUpHasItsTopic'
  OBVIOUS
<1>1. CASE Next
  <2>1. PageType /\ PageInv /\ MirrorType /\ MirrorInv /\ NothingLeftBehind
    BY DEF IInv
  <2>2. mirror \in [Chats -> Nat]
    BY <2>1 DEF MirrorType
  <2>3. PageType' /\ PageInv'
    BY <1>1, <2>1, <2>2, PageStep
  <2>4. MirrorType' /\ MirrorInv'
    BY <1>1, <2>1, MirrorStep
  <2>5. NothingLeftBehind'
    BY <1>1, <2>1, HeldStep
  <2>6. FollowUpHasItsTopic'
    BY <1>1, <2>1, <2>2, TopicStep
  <2> QED
    BY <2>3, <2>4, <2>5, <2>6 DEF IInv
<1>2. CASE UNCHANGED vars
  <2>1. UNCHANGED <<chats, active, asks, current, mirror, queue, step, store, deletes, stray>>
    BY <1>2 DEF vars
  <2>2. PageType'
    BY <2>1 DEF IInv, PageType
  <2>3. PageInv'
    BY <2>1 DEF IInv, PageInv, Shown, Fits, Shows, Open, Numbers, Ordered, Pos
  <2>4. MirrorType'
    BY <2>1 DEF IInv, MirrorType
  <2>5. MirrorInv'
    BY <2>1 DEF IInv, MirrorInv, Queued, Stored, Said, For, TaskPlace, Place, Numbers
  <2>6. NothingLeftBehind'
    BY <2>1 DEF IInv, NothingLeftBehind, At, Open
  <2>7. FollowUpHasItsTopic'
    BY <2>1 DEF FollowUpHasItsTopic, Before, Numbers
  <2> QED
    BY <2>2, <2>3, <2>4, <2>5, <2>6, <2>7 DEF IInv
<1> QED
  BY <1>1, <1>2

LEMMA IInvAlways == Spec => [](IInv /\ FollowUpHasItsTopic)
BY InitHolds, StepHolds, PTL DEF Spec

\* Whatever order the answers come in and wherever the user has gone, every question
\* shows a spinner, its answer, its error or nothing, as it went (submitQuestion,
\* cancelActiveQuestion).
THEOREM AnswersShownAsTheyWentAlways == Spec => []AnswersShownAsTheyWent
<1>1. IInv => AnswersShownAsTheyWent
  <2> SUFFICES ASSUME IInv, NEW n \in Numbers, NEW c, c = asks[n].chat, Open(c)
               PROVE  {m.status : m \in {k \in ToSet(chats[c].messages) :
                                           k.by = "assistant" /\ k.ask = n}}
                        = ShownAs[asks[n].at]
    BY DEF AnswersShownAsTheyWent
  <2>1. c \in Chats
    <3>1. asks[n] \in Asked
      BY DEF IInv, PageType, Numbers
    <3> QED
      BY <3>1 DEF Asked
  <2>2. /\ \A m \in ToSet(chats[c].messages) : Fits(m, c)
        /\ \A st \in ShownAs[asks[n].at] : Assistant(n, st) \in ToSet(chats[c].messages)
    BY <2>1 DEF IInv, PageInv, Shown, Shows
  <2>3. \A st : /\ Assistant(n, st).by = "assistant" /\ Assistant(n, st).ask = n
                /\ Assistant(n, st).status = st
    BY DEF Assistant
  <2>4. \A m \in ToSet(chats[c].messages) :
          m.by = "assistant" /\ m.ask = n => m.status \in ShownAs[asks[n].at]
    BY <2>2 DEF Fits
  <2> QED
    BY <2>2, <2>3, <2>4
<1> QED
  BY <1>1, IInvAlways, PTL

\* A conversation of the backend holds messages of one conversation of the page, none
\* twice and in the order they were shown, whatever was lost, replaced or posted again
\* after a 404 (queueMessageSync).
THEOREM MirrorIsInOrderAlways == Spec => []MirrorIsInOrder
<1>1. IInv => MirrorIsInOrder
  BY DEF IInv, MirrorInv, Stored, Said, MirrorIsInOrder
<1> QED
  BY <1>1, IInvAlways, PTL

\* All that the backend keeps is attached, being attached or deleted, or was lost sight
\* of by a lost request (createAndAttachBackendConversation).
THEOREM NothingLeftBehindAlways == Spec => []NothingLeftBehind
<1>1. IInv => NothingLeftBehind
  BY DEF IInv
<1> QED
  BY <1>1, IInvAlways, PTL

\* A follow-up is searched together with the question asked before it in its
\* conversation, whatever became of that one, unless it is so long that no room is left
\* beside it (prepareRecentConversationContext, _prepare_retrieval_question).
THEOREM FollowUpHasItsTopicAlways == Spec => []FollowUpHasItsTopic
BY IInvAlways, PTL
===========================================================================
