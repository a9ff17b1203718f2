-------------------------- MODULE Conversations_proofs --------------------------
(***************************************************************************)
(* What holds of the conversation API for every number of processes and    *)
(* calls: its types, that it keeps the promise of ConversationStore, and   *)
(* that what it returns is recent.                                         *)
(***************************************************************************)
EXTENDS Conversations, TLAPS, FiniteSetTheorems

--------------------------------------------------------------------------------
(* The inductive invariant.  A call has its effect in the step in which its *)
(* transaction commits; that it still applies then, though it was looked    *)
(* for statements earlier, follows from the lock it holds.                  *)

\* Where a call is says what it has been answered.
Stages ==
    \A n \in Calls :
        /\ calls[n].op = "none" <=> calls[n].at = "none"
        /\ calls[n].at \in {"none", "start", "selected"} => calls[n].answer = "none"
        /\ calls[n].at \in {"locked", "commit"} =>
               postgres /\ calls[n].answer \in {"none", "failed"}
        /\ calls[n].at = "end" => calls[n].answer # "none"
        /\ calls[n].at = "locked" => calls[n].op \in Changing
        /\ calls[n].at = "commit" => calls[n].op \in Changing \cup {"create"}
        /\ calls[n].at = "selected" => calls[n].op \in Reading

\* A transaction that has found its row has it locked, and the row is there.
Locked ==
    \A n \in Calls :
        calls[n].at \in {"locked", "commit"} /\ calls[n].op \in Changing =>
            Found(n) /\ holder[calls[n].conv] = n

\* The id of a conversation is new until the call that creates it has ended.
NewIds ==
    \A n \in Calls :
        /\ calls[n].op = "create" => calls[n].conv = n
        /\ calls[n].at = "none" => rows[n] = Absent
        /\ calls[n].op = "create" /\ calls[n].at # "end" => rows[n] = Absent

IInv == TypeOK /\ Stages /\ Locked /\ NewIds

\* A call is not 0, and it is an id.
LEMMA CallsAreIds == Calls \subseteq Ids /\ 0 \in Ids /\ 0 \notin Calls
  BY BoundsAssumption DEF Calls, Ids

\* A new conversation is a row.
LEMMA NewRowType ==
    ASSUME NEW n \in Ids, NEW who \in Owners \cup {None}
    PROVE  NewRow(n, who) \in Row
  BY DEF NewRow, Row

\* In the initial states nothing has been asked for.
LEMMA InitIInv == Init => IInv
<1> SUFFICES ASSUME Init PROVE IInv
  OBVIOUS
<1>1. rows \in [Ids -> Row \cup {Absent}]
  BY CallsAreIds, NewRowType, OwnersAssumption DEF Init
<1>2. \A n \in Calls : rows[n] = Absent
  BY CallsAreIds DEF Init
<1>3. NoCall \in CallType
  BY CallsAreIds DEF NoCall, CallType
<1>4. TypeOK
  BY <1>1, <1>3, CallsAreIds DEF Init, TypeOK
<1> QED
  BY <1>2, <1>4 DEF Init, IInv, Stages, Locked, NewIds, NoCall, Changing, Reading

--------------------------------------------------------------------------------
(* What one step does to the calls and to the rows.                        *)

\* Call n is moved on, and answered; it asks for what it did before.
Moved(n, at, answer) ==
    /\ calls' \in [Calls -> CallType]
    /\ \A m \in Calls : /\ calls'[m].op = calls[m].op
                        /\ calls'[m].conv = calls[m].conv
                        /\ calls'[m].owner = calls[m].owner
                        /\ calls'[m].before = calls[m].before
                        /\ m # n => calls'[m] = calls[m]
    /\ calls'[n].at = at
    /\ calls'[n].answer = answer

\* The calls after a step that sets where call n is and what it is answered.
LEMMA MovesBoth ==
    ASSUME TypeOK, NEW n \in Calls,
           NEW at \in {"none", "start", "locked", "commit", "selected", "end"},
           NEW answer \in {"none", "ok", "not_found", "failed"},
           calls' = [calls EXCEPT ![n].at = at, ![n].answer = answer]
    PROVE  Moved(n, at, answer)
<1> DEFINE r == [calls[n] EXCEPT !.at = at, !.answer = answer]
<1>0. calls[n] \in CallType
  BY DEF TypeOK
<1>1. r \in CallType /\ r.at = at /\ r.answer = answer /\ r.op = calls[n].op
      /\ r.conv = calls[n].conv /\ r.owner = calls[n].owner /\ r.before = calls[n].before
  BY <1>0 DEF CallType
<1>2. calls' = [calls EXCEPT ![n] = r]
  BY DEF TypeOK
<1> HIDE DEF r
<1>3. calls' \in [Calls -> CallType] /\ calls'[n] = r
      /\ \A m \in Calls : m # n => calls'[m] = calls[m]
  BY <1>1, <1>2 DEF TypeOK
<1> QED
  BY <1>1, <1>3 DEF Moved

\* The same when only its place is set.
LEMMA MovesAt ==
    ASSUME TypeOK, NEW n \in Calls,
           NEW at \in {"none", "start", "locked", "commit", "selected", "end"},
           calls' = [calls EXCEPT ![n].at = at]
    PROVE  Moved(n, at, calls[n].answer)
<1> DEFINE r == [calls[n] EXCEPT !.at = at]
<1>0. calls[n] \in CallType
  BY DEF TypeOK
<1>1. r \in CallType /\ r.at = at /\ r.answer = calls[n].answer /\ r.op = calls[n].op
      /\ r.conv = calls[n].conv /\ r.owner = calls[n].owner /\ r.before = calls[n].before
  BY <1>0 DEF CallType
<1>2. calls' = [calls EXCEPT ![n] = r]
  BY DEF TypeOK
<1> HIDE DEF r
<1>3. calls' \in [Calls -> CallType] /\ calls'[n] = r
      /\ \A m \in Calls : m # n => calls'[m] = calls[m]
  BY <1>1, <1>2 DEF TypeOK
<1> QED
  BY <1>1, <1>3 DEF Moved

\* The same when the call ends.
LEMMA MovesEnd ==
    ASSUME TypeOK, NEW n \in Calls, NEW answer \in {"ok", "not_found", "failed"},
           calls' = End(n, answer)
    PROVE  Moved(n, "end", answer)
  BY MovesBoth DEF End

\* What a call changes are rows, and only its own.
LEMMA ChangedType ==
    ASSUME TypeOK, NEW n \in Calls, calls[n].op # "none",
           calls[n].op \in Changing => Found(n),
           calls[n].op = "create" => calls[n].conv = n
    PROVE  /\ Changed(n) \in [Ids -> Row \cup {Absent}]
           /\ \A c \in Ids : c # calls[n].conv => Changed(n)[c] = rows[c]
<1> DEFINE c == calls[n].conv
<1>1. c \in Ids /\ calls[n] \in CallType /\ n \in Ids /\ calls[n].owner \in Owners \cup {None}
  BY CallsAreIds DEF TypeOK, CallType
<1>2. calls[n].op \in {"create", "list", "get", "rename", "delete", "add"}
  BY <1>1 DEF CallType, Changing
<1>3. CASE calls[n].op = "create"
  BY <1>1, <1>3, NewRowType DEF Changed, TypeOK
<1>4. CASE calls[n].op = "delete"
  BY <1>1, <1>4 DEF Changed, TypeOK
<1>5. CASE calls[n].op \in {"rename", "add"}
  <2>1. rows[c] \in Row
    BY <1>1, <1>5 DEF Found, Matches, Changing, TypeOK
  <2>2. CASE calls[n].op = "rename"
    BY <1>1, <2>1, <2>2 DEF Changed, TypeOK, Row
  <2>3. CASE calls[n].op = "add"
    BY <1>1, <2>1, <2>3 DEF Changed, TypeOK, Row
  <2> QED
    BY <1>5, <2>2, <2>3
<1>6. CASE calls[n].op \in {"list", "get"}
  BY <1>1, <1>6 DEF Changed, TypeOK
<1> QED
  BY <1>2, <1>3, <1>4, <1>5, <1>6

--------------------------------------------------------------------------------
(* Every step preserves the invariant.                                     *)

\* A step that leaves the rows and the locks alone, and moves a call that is not
\* locked: a statement that only reads, a refusal, a failure.
LEMMA MoveKeeps ==
    ASSUME IInv, NEW n \in Calls, calls[n].at \notin {"none", "end"},
           NEW at, NEW answer, at # "none", Moved(n, at, answer),
           UNCHANGED <<settings, rows, holder, lost>>, faults' \in Nat,
           Stages',
           calls'[n].at \in {"locked", "commit"} => calls[n].at \in {"locked", "commit"}
                                                    \/ calls[n].op \notin Changing
    PROVE  IInv'
<1>1. TypeOK'
  BY DEF IInv, TypeOK, Moved, settings
<1>2. Locked'
  BY DEF IInv, Locked, Moved, Found, Matches
<1>3. NewIds'
  BY DEF IInv, NewIds, Stages, Moved
<1> QED
  BY <1>1, <1>2, <1>3 DEF IInv

\* A call that begins.
LEMMA BeginKeeps == ASSUME IInv, NEW n \in Calls, Begin(n) PROVE IInv'
<1>1. PICK op \in {"create"} \cup Changing \cup Reading, c \in Ids, session \in Owners :
         /\ op = "create" => c = n
         /\ calls' = [calls EXCEPT ![n] =
                [NoCall EXCEPT !.op = op, !.conv = c, !.owner = Identity(session),
                               !.at = "start",
                               !.before = {m \in Calls : calls[m].answer # "none"}]]
  BY DEF Begin
<1> DEFINE r == [NoCall EXCEPT !.op = op, !.conv = c, !.owner = Identity(session),
                               !.at = "start",
                               !.before = {m \in Calls : calls[m].answer # "none"}]
<1>2. r \in CallType /\ r.op = op /\ r.conv = c /\ r.at = "start" /\ r.answer = "none"
  BY DEF NoCall, CallType, Identity, Changing, Reading
<1> HIDE DEF r
<1>3. calls[n].op = "none"
  BY DEF Begin, Begun, Calls
<1>4. /\ calls' \in [Calls -> CallType] /\ calls'[n] = r
      /\ \A m \in Calls : m # n => calls'[m] = calls[m]
  BY <1>1, <1>2 DEF IInv, TypeOK, r
<1>5. UNCHANGED <<settings, rows, holder, lost, faults>>
  BY DEF Begin
<1>6. TypeOK'
  BY <1>4, <1>5 DEF IInv, TypeOK, settings
<1>7. Stages'
  BY <1>2, <1>4, <1>5 DEF IInv, Stages, Changing, Reading, settings
<1>8. Locked'
  BY <1>2, <1>4, <1>5 DEF IInv, Locked, Found, Matches
<1>9. NewIds'
  BY <1>1, <1>2, <1>3, <1>4, <1>5 DEF IInv, NewIds, Stages
<1> QED
  BY <1>6, <1>7, <1>8, <1>9 DEF IInv

\* A call that ends with its effect: its transaction commits, or the memory of the one
\* process is changed.
LEMMA EffectKeeps ==
    ASSUME IInv, NEW n \in Calls, NEW answer \in {"ok", "failed"},
           calls' = End(n, answer), rows' = Changed(n),
           \/ calls[n].at = "commit" /\ holder' = Release(n)
           \/ InMemory(n) /\ UNCHANGED holder
              /\ (calls[n].op \in {"create", "list"} \/ Found(n)),
           UNCHANGED <<settings, lost>>, faults' \in Nat
    PROVE  IInv'
<1>1. Moved(n, "end", answer)
  BY MovesEnd DEF IInv
<1>2. calls[n] \in CallType /\ calls[n].op # "none" /\ calls[n].at # "end"
  BY DEF IInv, TypeOK, Stages, InMemory
<1>3. /\ calls[n].op \in Changing => Found(n)
      /\ calls[n].op = "create" => calls[n].conv = n
  BY DEF IInv, Locked, NewIds, Changing
<1>4. /\ rows' \in [Ids -> Row \cup {Absent}]
      /\ \A c \in Ids : c # calls[n].conv => rows'[c] = rows[c]
  BY <1>2, <1>3, ChangedType DEF IInv
<1>5. /\ holder' \in [Ids -> Ids]
      /\ \A c \in Ids : holder[c] # n => holder'[c] = holder[c]
  BY CallsAreIds DEF IInv, TypeOK, Release
<1>6. TypeOK'
  BY <1>1, <1>4, <1>5 DEF IInv, TypeOK, Moved, settings
<1>7. Stages'
  BY <1>1, <1>2 DEF IInv, Stages, Moved, settings
<1>8. Locked'
  <2> SUFFICES ASSUME NEW m \in Calls, calls'[m].at \in {"locked", "commit"},
                      calls'[m].op \in Changing
               PROVE  Found(m)' /\ holder'[calls'[m].conv] = m
    BY DEF Locked
  <2>1. m # n /\ calls'[m] = calls[m] /\ calls[m] \in CallType
    BY <1>1 DEF Moved, IInv, TypeOK
  <2>2. Found(m) /\ holder[calls[m].conv] = m /\ postgres
    BY <2>1 DEF IInv, Locked, Stages
  <2>3. calls[n].at = "commit"
    BY <2>2 DEF InMemory
  <2>4. calls[m].conv # calls[n].conv
    <3>1. CASE calls[n].op \in Changing
      BY <2>1, <2>2, <2>3, <3>1 DEF IInv, Locked
    <3>2. CASE calls[n].op = "create"
      BY <1>2, <1>3, <2>2, <2>3, <3>2 DEF IInv, NewIds, Found, Matches
    <3> QED
      BY <2>3, <3>1, <3>2 DEF IInv, Stages
  <2>5. calls[m].conv \in Ids
    BY <2>1 DEF CallType
  <2> QED
    BY <1>4, <1>5, <2>1, <2>2, <2>4, <2>5 DEF Found, Matches
<1>9. NewIds'
  <2> SUFFICES ASSUME NEW m \in Calls
               PROVE  /\ calls'[m].op = "create" => calls'[m].conv = m
                      /\ calls'[m].at = "none" => rows'[m] = Absent
                      /\ calls'[m].op = "create" /\ calls'[m].at # "end" => rows'[m] = Absent
    BY DEF NewIds
  <2>1. CASE m = n
    BY <1>1, <1>3, <2>1 DEF Moved
  <2>2. CASE m # n /\ m # calls[n].conv
    BY <1>1, <1>4, <2>2, CallsAreIds DEF Moved, IInv, NewIds
  <2>3. CASE m # n /\ m = calls[n].conv
    <3>1. CASE rows[m] # Absent
      BY <1>1, <2>3, <3>1 DEF Moved, IInv, NewIds
    <3>2. CASE rows[m] = Absent
      <4>1. calls[n].op \in Reading
        BY <1>2, <1>3, <2>3, <3>2 DEF Found, Matches, CallType, Reading, Changing
      <4>2. rows' = rows
        BY <4>1 DEF Changed, Reading
      <4> QED
        BY <1>1, <2>3, <4>2 DEF Moved, IInv, NewIds
    <3> QED
      BY <3>1, <3>2
  <2> QED
    BY <2>1, <2>2, <2>3
<1> QED
  BY <1>6, <1>7, <1>8, <1>9 DEF IInv

\* A transaction that finds its row and locks it.
LEMMA LockKeeps == ASSUME IInv, NEW n \in Calls, LockRow(n) PROVE IInv'
<1> DEFINE at == IF calls[n].op = "delete" THEN "commit" ELSE "locked"
<1>1. Moved(n, at, "none")
  <2>1. Moved(n, at, calls[n].answer)
    BY MovesAt DEF IInv, LockRow
  <2> QED
    BY <2>1 DEF LockRow, AtWork
<1>2. calls[n] \in CallType /\ calls[n].conv \in Ids
  BY DEF IInv, TypeOK, CallType
<1>3. /\ holder' \in [Ids -> Ids]
      /\ holder'[calls[n].conv] = n
      /\ \A c \in Ids : holder[c] # 0 => holder'[c] = holder[c]
  BY <1>2, CallsAreIds DEF LockRow, IInv, TypeOK
<1>4. TypeOK'
  BY <1>1, <1>3 DEF IInv, TypeOK, Moved, LockRow, settings
<1>5. Stages'
  BY <1>1 DEF IInv, Stages, Moved, LockRow, AtWork, Changing, Reading, settings
<1>6. Locked'
  <2> SUFFICES ASSUME NEW m \in Calls, calls'[m].at \in {"locked", "commit"},
                      calls'[m].op \in Changing
               PROVE  Found(m)' /\ holder'[calls'[m].conv] = m
    BY DEF Locked
  <2>1. CASE m = n
    BY <1>1, <1>3, <2>1 DEF Moved, LockRow, Found, Matches
  <2>2. CASE m # n
    <3>1. calls'[m] = calls[m] /\ calls[m].conv \in Ids
      BY <1>1, <2>2 DEF Moved, IInv, TypeOK, CallType
    <3>2. Found(m) /\ holder[calls[m].conv] = m
      BY <3>1 DEF IInv, Locked
    <3> QED
      BY <1>3, <3>1, <3>2, CallsAreIds DEF LockRow, Found, Matches
  <2> QED
    BY <2>1, <2>2
<1>7. NewIds'
  BY <1>1 DEF IInv, NewIds, Moved, LockRow, AtWork, Changing
<1> QED
  BY <1>4, <1>5, <1>6, <1>7 DEF IInv

\* A transaction that is rolled back frees its own row only.
LEMMA RollBackKeeps == ASSUME IInv, NEW n \in Calls, RollBack(n) PROVE IInv'
<1>1. Moved(n, "end", "failed")
  BY MovesEnd DEF IInv, RollBack
<1>2. /\ holder' \in [Ids -> Ids]
      /\ \A c \in Ids : holder[c] # n => holder'[c] = holder[c]
  BY CallsAreIds DEF IInv, TypeOK, Release, RollBack
<1>3. calls[n].at # "none"
  BY DEF RollBack, Abandoned, IInv, Stages
<1>4. TypeOK'
  BY <1>1, <1>2 DEF IInv, TypeOK, Moved, RollBack, settings
<1>5. Stages'
  BY <1>1, <1>3 DEF IInv, Stages, Moved, RollBack, settings
<1>6. Locked'
  <2> SUFFICES ASSUME NEW m \in Calls, calls'[m].at \in {"locked", "commit"},
                      calls'[m].op \in Changing
               PROVE  Found(m)' /\ holder'[calls'[m].conv] = m
    BY DEF Locked
  <2>1. m # n /\ calls'[m] = calls[m] /\ calls[m].conv \in Ids
    BY <1>1 DEF Moved, IInv, TypeOK, CallType
  <2>2. Found(m) /\ holder[calls[m].conv] = m
    BY <2>1 DEF IInv, Locked
  <2> QED
    BY <1>2, <2>1, <2>2 DEF RollBack, Found, Matches
<1>7. NewIds'
  BY <1>1, <1>3 DEF IInv, NewIds, Moved, RollBack, Abandoned
<1> QED
  BY <1>4, <1>5, <1>6, <1>7 DEF IInv

\* The memory is emptied while no call is at work.
LEMMA RestartKeeps == ASSUME IInv, Restart PROVE IInv'
<1>1. TypeOK'
  BY DEF IInv, TypeOK, Restart, Fault, settings
<1>2. \A n \in Calls : rows'[n] = Absent
  BY CallsAreIds DEF Restart
<1>3. Stages'
  BY DEF IInv, Stages, Restart, settings
<1>4. Locked'
  BY DEF IInv, Locked, Stages, Restart
<1>5. NewIds'
  BY <1>2 DEF IInv, NewIds, Restart
<1> QED
  BY <1>1, <1>3, <1>4, <1>5 DEF IInv

\* The steps that move one call and change neither rows nor locks.
LEMMA QuietSteps ==
    ASSUME IInv, NEW n \in Calls,
           \/ InsertRow(n) \/ NextStatement(n) \/ NotFound(n) \/ SelectRows(n)
           \/ Return(n) \/ CallFails(n) \/ HandleMissing(n)
           \/ AnswerLost(n) /\ UNCHANGED rows
    PROVE  IInv'
<1> USE DEF AtWork, Fault, InMemory, Begun
<1>0. calls[n] \in CallType /\ faults \in Nat
  BY DEF IInv, TypeOK
<1>1. CASE InsertRow(n)
  <2>1. Moved(n, "commit", calls[n].answer)
    BY <1>1, MovesAt DEF IInv, InsertRow
  <2>2. Stages'
    BY <1>1, <2>1 DEF InsertRow, IInv, Stages, Moved, settings
  <2> QED
    BY <1>0, <1>1, <2>1, <2>2, MoveKeeps DEF InsertRow, Changing
<1>2. CASE NextStatement(n)
  <2>1. Moved(n, "commit", calls[n].answer)
    BY <1>2, MovesAt DEF IInv, NextStatement
  <2>2. Stages'
    BY <1>2, <2>1 DEF NextStatement, IInv, Stages, Moved, settings
  <2> QED
    BY <1>0, <1>2, <2>1, <2>2, MoveKeeps DEF NextStatement
<1>3. CASE SelectRows(n)
  <2>1. Moved(n, "selected", calls[n].answer)
    BY <1>3, MovesAt DEF IInv, SelectRows
  <2>2. Stages'
    BY <1>3, <2>1 DEF SelectRows, IInv, Stages, Moved, settings
  <2> QED
    BY <1>0, <1>3, <2>1, <2>2, MoveKeeps DEF SelectRows, Moved
<1>4. CASE NotFound(n) \/ HandleMissing(n)
  <2>1. Moved(n, "end", "not_found")
    BY <1>4, MovesEnd DEF IInv, NotFound, HandleMissing
  <2>2. Stages'
    BY <1>4, <2>1 DEF NotFound, HandleMissing, IInv, Stages, Moved, settings
  <2> QED
    BY <1>0, <1>4, <2>1, <2>2, MoveKeeps DEF NotFound, HandleMissing, Moved
<1>5. CASE Return(n)
  <2>1. Moved(n, "end", "ok")
    BY <1>5, MovesEnd DEF IInv, Return
  <2>2. Stages'
    BY <1>5, <2>1 DEF Return, IInv, Stages, Moved, settings
  <2> QED
    BY <1>0, <1>5, <2>1, <2>2, MoveKeeps DEF Return, Moved
<1>6. CASE AnswerLost(n) /\ UNCHANGED rows
  <2>1. Moved(n, "end", "failed")
    BY <1>6, MovesEnd DEF IInv, AnswerLost
  <2>2. Stages'
    BY <1>6, <2>1 DEF AnswerLost, IInv, Stages, Moved, settings
  <2> QED
    BY <1>0, <1>6, <2>1, <2>2, MoveKeeps DEF AnswerLost, Moved
<1>7. CASE CallFails(n)
  <2> DEFINE at == IF calls[n].at \in {"locked", "commit"} THEN calls[n].at ELSE "end"
  <2>0. at \in {"locked", "commit", "end"}
    OBVIOUS
  <2>1. calls' = [calls EXCEPT ![n].at = at, ![n].answer = "failed"]
    BY <1>7 DEF CallFails, IInv, TypeOK, CallType
  <2>2. Moved(n, at, "failed")
    BY <2>0, <2>1, MovesBoth DEF IInv
  <2>3. Stages'
    BY <1>7, <2>2 DEF CallFails, IInv, Stages, Moved, settings
  <2>4. calls[n].at \notin {"none", "end"}
    BY <1>7 DEF CallFails, IInv, Stages
  <2> QED
    BY <1>0, <1>7, <2>0, <2>2, <2>3, <2>4, MoveKeeps DEF CallFails, Moved
<1> QED
  BY <1>1, <1>2, <1>3, <1>4, <1>5, <1>6, <1>7

\* The invariant is inductive.
LEMMA NextKeeps == IInv /\ [Next]_vars => IInv'
<1> SUFFICES ASSUME IInv, [Next]_vars PROVE IInv'
  OBVIOUS
<1>1. ASSUME NEW n \in Calls, Begin(n) PROVE IInv'
  BY <1>1, BeginKeeps
<1>2. ASSUME NEW n \in Calls, Step(n) PROVE IInv'
  <2>1. CASE InsertRow(n) \/ NextStatement(n) \/ NotFound(n) \/ SelectRows(n)
             \/ Return(n) \/ HandleMissing(n)
    BY <2>1, QuietSteps
  <2>2. CASE LockRow(n)
    BY <2>2, LockKeeps
  <2>3. CASE Commit(n)
    BY <2>3, EffectKeeps DEF Commit, AtWork, IInv, TypeOK
  <2>4. CASE FetchMessages(n)
    BY <2>4 DEF FetchMessages, settings, IInv, TypeOK, Stages, Locked, NewIds, Found, Matches
  <2>5. CASE Handle(n)
    BY <2>5, EffectKeeps DEF Handle, IInv, TypeOK
  <2> QED
    BY <1>2, <2>1, <2>2, <2>3, <2>4, <2>5 DEF Step
<1>3. ASSUME NEW n \in Calls, CallFails(n) PROVE IInv'
  BY <1>3, QuietSteps
<1>4. ASSUME NEW n \in Calls, Settle(n) PROVE IInv'
  <2>1. CASE RollBack(n)
    BY <2>1, RollBackKeeps
  <2>2. CASE CommitUnheard(n)
    BY <2>2, EffectKeeps DEF CommitUnheard, IInv, TypeOK
  <2> QED
    BY <1>4, <2>1, <2>2 DEF Settle
<1>5. ASSUME NEW n \in Calls, AnswerLost(n) PROVE IInv'
  <2>1. CASE UNCHANGED rows
    BY <1>5, <2>1, QuietSteps
  <2>2. CASE ~UNCHANGED rows
    BY <1>5, <2>2, EffectKeeps DEF AnswerLost, Fault, IInv, TypeOK
  <2> QED
    BY <2>1, <2>2
<1>6. CASE Restart
  BY <1>6, RestartKeeps
<1>7. CASE UNCHANGED vars
  BY <1>7 DEF vars, IInv, TypeOK, Stages, Locked, NewIds, Found, Matches
<1> QED
  BY <1>1, <1>2, <1>3, <1>4, <1>5, <1>6, <1>7 DEF Next

\* In every state a transaction that has found its row has it locked, and the id of a
\* conversation to be created is new.
LEMMA Inductive == Spec => []IInv
  BY InitIInv, NextKeeps, PTL DEF Spec

\* Every variable that the control of a call rests on keeps its type.
THEOREM TypeInvariant == Spec => []TypeOK
<1>1. IInv => TypeOK
  BY DEF IInv
<1> QED
  BY <1>1, Inductive, PTL

--------------------------------------------------------------------------------
(* The promise: each step is one of ConversationStore's, or none.          *)

\* What ConversationStore sees of the calls.
Asked == [n \in Calls |-> Request(n)]
Answers == [n \in Calls |-> calls[n].answer]
Open == {n \in Calls : calls[n].at \notin {"none", "end"}}

\* The same after a step that moves one call.
LEMMA ViewMoves ==
    ASSUME NEW n \in Calls, NEW at, NEW answer, Moved(n, at, answer)
    PROVE  /\ Asked' = Asked
           /\ Answers' = [Answers EXCEPT ![n] = answer]
           /\ Open' = IF at \in {"none", "end"} THEN Open \ {n} ELSE Open \cup {n}
<1>1. \A m \in Calls : Request(m)' = Request(m)
  BY DEF Moved, Request
<1>2. Asked' = Asked
  BY <1>1 DEF Asked
<1>3. Answers' = [Answers EXCEPT ![n] = answer]
  BY DEF Moved, Answers
<1>4. Open' = IF at \in {"none", "end"} THEN Open \ {n} ELSE Open \cup {n}
  BY DEF Moved, Open
<1> QED
  BY <1>2, <1>3, <1>4

\* What a call changes when it ends with its effect is what it has been promised to do.
LEMMA EffectIsPromised ==
    ASSUME IInv, NEW n \in Calls, rows' = Changed(n), calls[n].op # "none",
           calls[n].op \in Changing => Found(n),
           calls[n].op = "create" => calls[n].conv = n /\ rows[n] = Absent
    PROVE  Store!TakeEffect(n)
<1>1. calls[n].op \in {"create", "list", "get", "rename", "delete", "add"}
  BY DEF IInv, TypeOK, CallType, Changing
<1>2. Found(n) => Store!Has(n)
  BY DEF Found, Matches, Store!Has, Request
<1> QED
  BY <1>1, <1>2 DEF Changed, Changing, NewRow, Store!TakeEffect, Store!NewChat, Request

\* A call that begins is made.
LEMMA BeginIsMake == ASSUME IInv, NEW n \in Calls, Begin(n) PROVE Store!Make(n)
<1>1. PICK op \in {"create"} \cup Changing \cup Reading, c \in Ids, session \in Owners :
         calls' = [calls EXCEPT ![n] =
                [NoCall EXCEPT !.op = op, !.conv = c, !.owner = Identity(session),
                               !.at = "start",
                               !.before = {m \in Calls : calls[m].answer # "none"}]]
  BY DEF Begin
<1> DEFINE r == [NoCall EXCEPT !.op = op, !.conv = c, !.owner = Identity(session),
                               !.at = "start",
                               !.before = {m \in Calls : calls[m].answer # "none"}]
<1>2. r.op = op /\ r.conv = c /\ r.owner = Identity(session) /\ r.at = "start"
      /\ r.answer = "none"
  BY DEF NoCall
<1> HIDE DEF r
<1>3. calls'[n] = r /\ \A m \in Calls : m # n => calls'[m] = calls[m]
  BY <1>1 DEF IInv, TypeOK, r
<1>4. \A m \in Calls : calls[m].op # "none" <=> m < n
  BY DEF Begin, Begun
<1>5. calls[n].op = "none" /\ calls[n].at = "none" /\ calls[n].answer = "none"
  BY <1>4 DEF Calls, IInv, Stages
<1>6. Request(n)' \in Store!Requests
  BY <1>2, <1>3 DEF Request, Store!Requests, Store!Ids, Ids, Identity, Changing, Reading
<1>7. \A m \in Calls : m # n => Request(m)' = Request(m)
  BY <1>3 DEF Request
<1>8. Asked' = [Asked EXCEPT ![n] = Asked'[n]]
  BY <1>7 DEF Asked
<1>9. Asked'[n] \in Store!Requests
  BY <1>6 DEF Asked
<1>10. \A m \in Store!Calls : Asked[m].op # "none" <=> m < n
  BY <1>4 DEF Asked, Request, Store!Calls, Calls
<1>11. Open' = Open \cup {n}
  BY <1>2, <1>3 DEF Open
<1>12. Answers' = Answers
  BY <1>2, <1>3, <1>5 DEF Answers
<1>13. UNCHANGED <<postgres, rows>>
  BY DEF Begin, settings
<1> QED
  BY <1>8, <1>9, <1>10, <1>11, <1>12, <1>13 DEF Store!Make, Asked, Answers, Open

\* A step that changes neither what the store sees of the calls nor the rows.
LEMMA Unseen ==
    ASSUME UNCHANGED <<postgres, rows>>, Asked' = Asked, Answers' = Answers, Open' = Open
    PROVE  UNCHANGED Store!vars
  BY DEF Store!vars, Asked, Answers, Open

\* The statements of a transaction before its commit are not seen.
LEMMA StatementsAreUnseen ==
    ASSUME IInv, NEW n \in Calls,
           InsertRow(n) \/ LockRow(n) \/ NextStatement(n) \/ SelectRows(n) \/ FetchMessages(n)
    PROVE  UNCHANGED Store!vars
<1>1. UNCHANGED <<postgres, rows>>
  BY DEF InsertRow, LockRow, NextStatement, SelectRows, FetchMessages, settings
<1>2. CASE FetchMessages(n)
  BY <1>1, <1>2, Unseen DEF FetchMessages, Asked, Answers, Open, Request
<1>3. CASE InsertRow(n) \/ LockRow(n) \/ NextStatement(n) \/ SelectRows(n)
  <2>1. PICK at \in {"locked", "commit", "selected"} : calls' = [calls EXCEPT ![n].at = at]
    <3>1. CASE InsertRow(n) \/ NextStatement(n)
      BY <3>1 DEF InsertRow, NextStatement
    <3>2. CASE LockRow(n)
      BY <3>2 DEF LockRow
    <3>3. CASE SelectRows(n)
      BY <3>3 DEF SelectRows
    <3> QED
      BY <1>3, <3>1, <3>2, <3>3
  <2>2. Moved(n, at, calls[n].answer)
    BY <2>1, MovesAt DEF IInv
  <2>3. n \in Open
    BY <1>3 DEF InsertRow, LockRow, NextStatement, SelectRows, AtWork, Open
  <2>4. /\ Asked' = Asked
        /\ Answers' = [Answers EXCEPT ![n] = calls[n].answer]
        /\ Open' = Open \cup {n}
    BY <2>2, ViewMoves
  <2>5. Answers' = Answers
    BY <2>4 DEF Answers
  <2> QED
    BY <1>1, <2>3, <2>4, <2>5, Unseen
<1> QED
  BY <1>2, <1>3

\* A call that ends with its effect succeeds, fails or settles.
LEMMA EffectMoves ==
    ASSUME IInv, NEW n \in Calls, NEW answer \in {"ok", "failed"},
           calls' = End(n, answer), rows' = Changed(n), UNCHANGED settings,
           \/ calls[n].at = "commit"
           \/ /\ calls[n].at \in {"start", "selected"}
              /\ calls[n].op \in {"create", "list"} \/ Found(n) \/ calls[n].op \in Reading
    PROVE  /\ Store!TakeEffect(n) /\ n \in Open
           /\ Answers' = [Answers EXCEPT ![n] = answer] /\ Open' = Open \ {n}
           /\ UNCHANGED <<postgres, Asked>>
<1>1. Moved(n, "end", answer)
  BY MovesEnd DEF IInv
<1>2. calls[n].op # "none" /\ n \in Open
  BY DEF IInv, Stages, Open
<1>3. /\ calls[n].op \in Changing => Found(n)
      /\ calls[n].op = "create" => calls[n].conv = n /\ rows[n] = Absent
  BY DEF IInv, Locked, NewIds, Changing, Reading
<1>4. Store!TakeEffect(n)
  BY <1>2, <1>3, EffectIsPromised
<1> QED
  BY <1>1, <1>2, <1>4, ViewMoves DEF settings

\* A commit, the answer of a read, or the handler of the one process.
LEMMA SuccessIsPromised ==
    ASSUME IInv, NEW n \in Calls, Commit(n) \/ Return(n) \/ Handle(n)
    PROVE  Store!Succeed(n)
<1>1. calls[n].answer = "none"
  BY DEF Commit, Return, Handle, AtWork, InMemory, IInv, Stages
<1>2. calls' = End(n, "ok") /\ UNCHANGED settings
  BY DEF Commit, Return, Handle
<1>3. rows' = Changed(n)
  <2>1. CASE Return(n)
    <3>1. calls[n].op \in Reading /\ rows' = rows
      BY <2>1 DEF Return, AtWork, IInv, Stages
    <3> QED
      BY <3>1 DEF Changed, Reading
  <2> QED
    BY <2>1 DEF Commit, Handle
<1>4. \/ calls[n].at = "commit"
      \/ /\ calls[n].at \in {"start", "selected"}
         /\ calls[n].op \in {"create", "list"} \/ Found(n) \/ calls[n].op \in Reading
  BY DEF Commit, Return, Handle, AtWork, InMemory, IInv, Stages
<1>5. /\ Store!TakeEffect(n) /\ n \in Open
      /\ Answers' = [Answers EXCEPT ![n] = "ok"] /\ Open' = Open \ {n}
      /\ UNCHANGED <<postgres, Asked>>
  BY <1>2, <1>3, <1>4, EffectMoves
<1> QED
  BY <1>1, <1>5 DEF Store!Succeed, Asked, Answers, Open

\* A 404.
LEMMA RefusalIsPromised ==
    ASSUME IInv, NEW n \in Calls, NotFound(n) \/ HandleMissing(n)
    PROVE  Store!Refuse(n)
<1>1. Moved(n, "end", "not_found")
  BY MovesEnd DEF IInv, NotFound, HandleMissing
<1>2. calls[n].answer = "none" /\ calls[n].at = "start"
  BY DEF NotFound, HandleMissing, AtWork, InMemory, IInv, Stages
<1>3. calls[n].op \in {"rename", "delete", "add", "get"}
  BY <1>2 DEF NotFound, HandleMissing, IInv, TypeOK, CallType, Stages, Changing, Reading
<1>4. ~Store!Has(n)
  BY DEF NotFound, HandleMissing, Found, Matches, Store!Has, Request
<1>5. UNCHANGED <<postgres, rows>>
  BY DEF NotFound, HandleMissing, settings
<1>6. n \in Open
  BY <1>2 DEF Open
<1>7. Asked' = Asked /\ Answers' = [Answers EXCEPT ![n] = "not_found"] /\ Open' = Open \ {n}
  BY <1>1, ViewMoves
<1> QED
  BY <1>2, <1>3, <1>4, <1>5, <1>6, <1>7 DEF Store!Refuse, Asked, Answers, Open, Request

\* An error: nothing has happened and nothing will, or the effect is there, or the
\* transaction is left open.
LEMMA FailureIsPromised ==
    ASSUME IInv, NEW n \in Calls, CallFails(n) \/ AnswerLost(n)
    PROVE  Store!Fail(n)
<1>1. calls[n].answer = "none" /\ n \in Open
  BY DEF CallFails, AnswerLost, InMemory, Begun, IInv, Stages, Open
<1>2. UNCHANGED postgres
  BY DEF CallFails, AnswerLost, settings
<1>3. CASE AnswerLost(n) /\ ~UNCHANGED rows
  <2>1. /\ calls' = End(n, "failed") /\ rows' = Changed(n) /\ UNCHANGED settings
        /\ calls[n].at = "start" /\ (calls[n].op \in {"create", "list"} \/ Found(n))
    BY <1>3 DEF AnswerLost, InMemory
  <2>2. /\ Store!TakeEffect(n)
        /\ Answers' = [Answers EXCEPT ![n] = "failed"] /\ Open' = Open \ {n}
        /\ Asked' = Asked
    BY <2>1, EffectMoves
  <2> QED
    BY <1>1, <1>2, <2>2 DEF Store!Fail, Asked, Answers, Open
<1>4. CASE UNCHANGED rows
  <2>1. PICK at \in {"locked", "commit", "end"} : Moved(n, at, "failed")
    <3>1. CASE AnswerLost(n)
      <4>1. Moved(n, "end", "failed")
        BY <3>1, MovesEnd DEF IInv, AnswerLost
      <4> QED
        BY <4>1
    <3>2. CASE CallFails(n)
      <4> DEFINE at == IF calls[n].at \in {"locked", "commit"} THEN calls[n].at ELSE "end"
      <4>1. at \in {"locked", "commit", "end"}
        OBVIOUS
      <4>2. calls' = [calls EXCEPT ![n].at = at, ![n].answer = "failed"]
        BY <3>2 DEF CallFails, IInv, TypeOK, CallType
      <4>3. Moved(n, at, "failed")
        BY <4>1, <4>2, MovesBoth DEF IInv
      <4> QED
        BY <4>1, <4>3
    <3> QED
      BY <3>1, <3>2
  <2>2. /\ Asked' = Asked /\ Answers' = [Answers EXCEPT ![n] = "failed"]
        /\ Open' \in {Open, Open \ {n}}
    BY <1>1, <2>1, ViewMoves
  <2> QED
    BY <1>1, <1>2, <1>4, <2>2 DEF Store!Fail, Asked, Answers, Open
<1> QED
  BY <1>3, <1>4 DEF CallFails

\* The database ends a transaction that was given up.
LEMMA SettlementIsPromised ==
    ASSUME IInv, NEW n \in Calls, Settle(n)
    PROVE  Store!Settle(n)
<1>1. calls[n].answer = "failed" /\ n \in Open
  BY DEF Settle, RollBack, CommitUnheard, Abandoned, IInv, Stages, Open
<1>2. UNCHANGED <<postgres, settings>> /\ calls' = End(n, "failed")
  BY DEF Settle, RollBack, CommitUnheard, settings
<1>3. Moved(n, "end", "failed")
  BY <1>2, MovesEnd DEF IInv
<1>4. /\ Asked' = Asked /\ Answers' = [Answers EXCEPT ![n] = "failed"]
      /\ Open' = Open \ {n}
  BY <1>3, ViewMoves
<1>5. Answers' = Answers
  BY <1>1, <1>4 DEF Answers
<1>6. Store!TakeEffect(n) \/ UNCHANGED rows
  <2>1. CASE CommitUnheard(n)
    BY <1>2, <2>1, EffectMoves DEF CommitUnheard
  <2>2. CASE RollBack(n)
    BY <2>2 DEF RollBack
  <2> QED
    BY <2>1, <2>2 DEF Settle
<1> QED
  BY <1>1, <1>2, <1>4, <1>5, <1>6 DEF Store!Settle, Asked, Answers, Open

\* Every step is one of the promise's, or none.
LEMMA StepIsPromised == IInv /\ [Next]_vars => [Store!Next]_Store!vars
<1> SUFFICES ASSUME IInv, [Next]_vars PROVE Store!Next \/ UNCHANGED Store!vars
  OBVIOUS
<1>0. Store!Calls = Calls
  BY DEF Store!Calls, Calls
<1>1. ASSUME NEW n \in Calls, Begin(n) PROVE Store!Next
  BY <1>0, <1>1, BeginIsMake DEF Store!Next
<1>2. ASSUME NEW n \in Calls, Step(n) PROVE Store!Next \/ UNCHANGED Store!vars
  <2>1. CASE InsertRow(n) \/ LockRow(n) \/ NextStatement(n) \/ SelectRows(n)
             \/ FetchMessages(n)
    BY <2>1, StatementsAreUnseen
  <2>2. CASE Commit(n) \/ Return(n) \/ Handle(n)
    BY <1>0, <2>2, SuccessIsPromised DEF Store!Next
  <2>3. CASE NotFound(n) \/ HandleMissing(n)
    BY <1>0, <2>3, RefusalIsPromised DEF Store!Next
  <2> QED
    BY <1>2, <2>1, <2>2, <2>3 DEF Step
<1>3. ASSUME NEW n \in Calls, CallFails(n) \/ AnswerLost(n) PROVE Store!Next
  BY <1>0, <1>3, FailureIsPromised DEF Store!Next
<1>4. ASSUME NEW n \in Calls, Settle(n) PROVE Store!Next
  BY <1>0, <1>4, SettlementIsPromised DEF Store!Next
<1>5. CASE Restart
  <2>1. ~postgres /\ rows' = [c \in Store!Ids |-> Absent] /\ UNCHANGED <<postgres, calls>>
    BY <1>5 DEF Restart, settings, Store!Ids, Ids
  <2>2. Asked' = Asked /\ Answers' = Answers /\ Open' = Open
    BY <2>1 DEF Asked, Answers, Open, Request
  <2>3. Store!Vanish
    BY <2>1, <2>2 DEF Store!Vanish, Asked, Answers, Open
  <2> QED
    BY <2>3 DEF Store!Next
<1>6. CASE UNCHANGED vars
  BY <1>6, Unseen DEF vars, Asked, Answers, Open, Request
<1> QED
  BY <1>1, <1>2, <1>3, <1>4, <1>5, <1>6 DEF Next

\* The promise begins as the store does.
LEMMA InitIsPromised == Init => Store!Init
<1> SUFFICES ASSUME Init PROVE Store!Init
  OBVIOUS
<1>1. \E who \in Owners \cup {None} :
         rows = [c \in Store!Ids |-> IF c = 0 THEN Store!NewChat(0, who) ELSE Absent]
  BY OwnersAssumption DEF Init, Ids, Store!Ids, NewRow, Store!NewChat
<1>2. \A n \in Calls : calls[n] = NoCall
  BY DEF Init
<1>3. [n \in Calls |-> Request(n)] = [n \in Store!Calls |-> Store!Nothing]
  BY <1>2 DEF Request, NoCall, Store!Nothing, Store!Calls, Calls
<1>4. [n \in Calls |-> calls[n].answer] = [n \in Store!Calls |-> "none"]
  BY <1>2 DEF NoCall, Store!Calls, Calls
<1>5. {n \in Calls : calls[n].at \notin {"none", "end"}} = {}
  BY <1>2 DEF NoCall
<1> QED
  BY <1>1, <1>3, <1>4, <1>5 DEF Init, Store!Init

\* The API keeps its promise, with either repository, and with any number of processes
\* and calls: each call has its effect as a whole and at most once, in the step in which
\* its transaction commits or its handler runs, and is answered accordingly.
THEOREM PromiseKept == Spec => KeepsConversationPromise
BY InitIsPromised, StepIsPromised, Inductive, PTL
   DEF Spec, KeepsConversationPromise, Store!Spec

--------------------------------------------------------------------------------
(* ORDER BY.                                                              *)

\* An element's place is below those of the elements with higher keys.
LEMMA PlaceIs ==
    ASSUME NEW S, IsFiniteSet(S), NEW key, \A x \in S : key[x] \in Int,
           NEW place, place = Place(S, key)
    PROVE  /\ \A x \in S : place[x] \in 1 .. Cardinality(S)
           /\ \A x, y \in S : key[x] < key[y] => place[x] < place[y]
<1> DEFINE Below(x) == {y \in S : key[y] < key[x]}
<1>0. \A x \in S : place[x] = 1 + Cardinality(Below(x))
  BY DEF Place
<1>1. Cardinality(S) \in Nat
  BY FS_CardinalityType
<1>2. ASSUME NEW x \in S
      PROVE  /\ IsFiniteSet(Below(x)) /\ Cardinality(Below(x)) \in Nat
             /\ place[x] \in 1 .. Cardinality(S)
  <2>1. Below(x) \in SUBSET S /\ x \notin Below(x)
    OBVIOUS
  <2>2. IsFiniteSet(Below(x)) /\ Cardinality(Below(x)) <= Cardinality(S)
        /\ (Cardinality(S) = Cardinality(Below(x)) => S = Below(x))
    BY <2>1, FS_Subset
  <2>3. Cardinality(Below(x)) \in Nat
    BY <2>2, FS_CardinalityType
  <2> QED
    BY <1>0, <1>1, <2>1, <2>2, <2>3
<1>3. ASSUME NEW x \in S, NEW y \in S, key[x] < key[y]
      PROVE  place[x] < place[y]
  <2>1. Below(x) \in SUBSET Below(y) /\ x \in Below(y) /\ x \notin Below(x)
    BY <1>3
  <2>2. Cardinality(Below(x)) <= Cardinality(Below(y))
        /\ (Cardinality(Below(y)) = Cardinality(Below(x)) => Below(y) = Below(x))
    BY <1>2, <2>1, FS_Subset
  <2>3. Below(x) # Below(y)
    BY <2>1
  <2> HIDE DEF Below
  <2> QED
    BY <1>0, <1>2, <2>2, <2>3
<1> QED
  BY <1>2, <1>3

\* What can be ordered by a key, and what it is to be in its order.
Keyed(S, key) ==
    /\ IsFiniteSet(S)
    /\ \A x \in S : key[x] \in Int
    /\ \A x, y \in S : key[x] = key[y] => x = y

Listed(s, S, key) ==
    /\ s \in Seq(S)
    /\ \A x \in S : \E i \in DOMAIN s : s[i] = x
    /\ \A i, j \in DOMAIN s : i < j => key[s[i]] < key[s[j]]

\* ORDER BY on distinct keys: each element once, those with lower keys before.
LEMMA InOrderIs ==
    ASSUME NEW S, NEW key, Keyed(S, key), NEW s, s = InOrder(S, key)
    PROVE  Listed(s, S, key)
<1> USE DEF Keyed
<1> PICK N : N = Cardinality(S)
  OBVIOUS
<1> PICK place : place = Place(S, key)
  OBVIOUS
<1>1. N \in Nat
  BY FS_CardinalityType
<1>2. /\ \A x \in S : place[x] \in 1 .. N
      /\ \A x, y \in S : key[x] < key[y] => place[x] < place[y]
  BY PlaceIs
<1>3. ASSUME NEW x \in S, NEW y \in S, place[x] = place[y] PROVE x = y
  <2>1. ~ key[x] < key[y] /\ ~ key[y] < key[x]
    BY <1>2, <1>3
  <2>2. key[x] \in Int /\ key[y] \in Int
    OBVIOUS
  <2>3. key[x] = key[y]
    BY <2>1, <2>2
  <2> QED
    BY <2>3
<1>4. place \in [S -> 1 .. N]
  BY <1>2 DEF Place
<1>6. place \in Injection(S, 1 .. N)
  BY <1>3, <1>4 DEF Injection, IsInjective
<1>7. IsFiniteSet(1 .. N) /\ Cardinality(1 .. N) = N
  BY <1>1, FS_Interval
<1>8. place \in Surjection(S, 1 .. N)
  BY <1>6, <1>7, FS_Injection
<1>9. ASSUME NEW i \in 1 .. N PROVE \E x \in S : place[x] = i
  BY <1>8 DEF Surjection
<1>10. s = [i \in 1 .. N |-> CHOOSE x \in S : place[x] = i]
  BY DEF InOrder
<1>11. DOMAIN s = 1 .. N /\ \A i \in 1 .. N : s[i] \in S /\ place[s[i]] = i
  BY <1>9, <1>10
<1>12. s \in Seq(S)
  <2>1. s \in [1 .. N -> S]
    BY <1>10, <1>11
  <2> QED
    BY <1>1, <2>1
<1>13. ASSUME NEW x \in S PROVE \E i \in DOMAIN s : s[i] = x
  <2>1. place[x] \in 1 .. N
    BY <1>2
  <2>2. s[place[x]] \in S /\ place[s[place[x]]] = place[x]
    BY <1>11, <2>1
  <2> QED
    BY <1>3, <1>11, <2>1, <2>2
<1>14. ASSUME NEW i \in DOMAIN s, NEW j \in DOMAIN s, i < j PROVE key[s[i]] < key[s[j]]
  <2>1. s[i] \in S /\ s[j] \in S /\ place[s[i]] = i /\ place[s[j]] = j
        /\ i \in Int /\ j \in Int
    BY <1>11
  <2>2. ~ key[s[j]] < key[s[i]]
    BY <1>2, <1>14, <2>1
  <2>3. s[i] # s[j]
    BY <1>14, <2>1
  <2>4. key[s[i]] \in Int /\ key[s[j]] \in Int /\ key[s[i]] # key[s[j]]
    BY <2>1, <2>3
  <2> QED
    BY <2>2, <2>4
<1> QED
  BY <1>12, <1>13, <1>14 DEF Listed

--------------------------------------------------------------------------------
(* What a get or a list returns.  The second part of the inductive        *)
(* invariant says what was acknowledged of each conversation is in its row,*)
(* and what a read has gathered so far is true; it holds until a restart  *)
(* empties the memory.                                                    *)

\* The calls that were answered when a call began came before it: calls begin in turn.
Past ==
    \A n \in Calls : \A m \in calls[n].before : m \in 1 .. n - 1 /\ calls[m].answer # "none"

\* Who asks about a conversation has its id from one who created it.
KnownIds ==
    \A n \in Calls : calls[n].op \in Changing \cup {"get"} =>
        LET c == calls[n].conv
        IN c = 0 \/ (c \in Calls /\ calls[c].op = "create" /\ calls[c].at = "end")

\* A call that holds the row of a rename had not failed when that rename began.
RenamesTakeTurns ==
    \A k, m \in Calls :
        /\ calls[k].at \in {"locked", "commit"} /\ calls[k].op \in Changing
        /\ Did(m, "rename", calls[k].conv)
        => k \notin calls[m].before

\* A row is of a creation that has ended, and of the calls to its conversation.
RowIsMade(c) ==
    rows[c] # Absent =>
        /\ c = 0 \/ (c \in Calls /\ calls[c].op = "create" /\ calls[c].at = "end")
        /\ \A m \in rows[c].messages : calls[m].op = "add" /\ calls[m].conv = c
        /\ \/ rows[c].updated = c
           \/ /\ rows[c].updated \in Calls
              /\ calls[rows[c].updated].op \in {"rename", "add"}
              /\ calls[rows[c].updated].conv = c

\* A deletion that may have had its effect: unlike a refused one, it stays in the record.
Deleted(c) ==
    \E d \in Calls : /\ calls[d].op = "delete" /\ calls[d].conv = c
                     /\ calls[d].answer \in {"ok", "failed"}

\* A title that may stand after rename m of conversation c was acknowledged.
Retitled(title, m, c) == title = m \/ (title # c /\ title \notin calls[m].before)

\* Conversation c was created, to the knowledge of its creator.
Created(c) == c = 0 \/ (c \in Calls /\ Did(c, "create", c))

\* What was acknowledged is in the rows.
RowIsTold(c) ==
    /\ Created(c) => Deleted(c) \/ rows[c] # Absent
    /\ \A m \in Calls :
        /\ Did(m, "add", c) => Deleted(c) \/ (rows[c] # Absent /\ m \in rows[c].messages)
        /\ Did(m, "rename", c) /\ rows[c] # Absent => Retitled(rows[c].title, m, c)
        /\ Did(m, "delete", c) => rows[c] = Absent

RowsInv == KnownIds /\ RenamesTakeTurns /\ \A c \in Ids : RowIsMade(c) /\ RowIsTold(c)

\* What a read has of a conversation before its messages, and with them.
Heads == [id : Ids, owner : Owners \cup {None}, title : Ids]
Answered == [id : Ids, owner : Owners \cup {None}, title : Ids, messages : Seq(Calls)]

\* A head read for call n is one of its caller's, and no older than what was acknowledged.
TrueHead(n, e) ==
    /\ calls[n].owner \in {None, e.owner}
    /\ \A m \in calls[n].before :
           ~ Did(m, "delete", e.id) /\ (Did(m, "rename", e.id) => Retitled(e.title, m, e.id))

\* So are the messages, in the order of their calls.
TrueMessages(n, e) ==
    /\ \A i \in DOMAIN e.messages :
           calls[e.messages[i]].op = "add" /\ calls[e.messages[i]].conv = e.id
    /\ \A i, j \in DOMAIN e.messages : i < j => e.messages[i] < e.messages[j]
    /\ \A m \in calls[n].before :
           Did(m, "add", e.id) => Deleted(e.id) \/ \E i \in DOMAIN e.messages : e.messages[i] = m

\* Conversation c was acknowledged before call n, nobody has deleted it, and n may see it.
ToBeFound(c, n) ==
    /\ c = 0 \/ (c \in calls[n].before /\ Did(c, "create", c))
    /\ ~ Deleted(c) /\ Matches(c, calls[n].owner)

\* A read at work and its result.
ReadIsTrue(n) ==
    /\ calls[n].at \in {"none", "start"} => shown[n] = << >> /\ rest[n] = << >>
    /\ (calls[n].at = "selected" \/ calls[n].answer = "ok") /\ calls[n].op \in Reading =>
        /\ \A e \in Range(rest[n]) : TrueHead(n, e)
        /\ \A e \in Range(shown[n]) : TrueHead(n, e) /\ TrueMessages(n, e)
        /\ calls[n].op = "list" =>
               \A c \in Ids : ToBeFound(c, n) =>
                   \E e \in Range(rest[n]) \cup Range(shown[n]) : e.id = c
    /\ calls[n].answer = "ok" /\ calls[n].op \in Reading => rest[n] = << >>
    /\ calls[n].answer = "not_found" =>
        /\ calls[n].op # "list" /\ shown[n] = << >>
        /\ ~ ToBeFound(calls[n].conv, n)

ReadsInv ==
    /\ rest \in [Calls -> Seq(Heads)] /\ shown \in [Calls -> Seq(Answered)]
    /\ \A n \in Calls : ReadIsTrue(n)

\* What holds until a restart empties the memory.
Kept == Past /\ RowsInv /\ ReadsInv

--------------------------------------------------------------------------------
(* A step keeps what was told in the rows.                                *)

\* Calls only go on: what is asked stays asked, what is answered stays answered.
Grows ==
    \A k \in Calls :
        /\ calls[k].op # "none" =>
               /\ calls'[k].op = calls[k].op /\ calls'[k].conv = calls[k].conv
               /\ calls'[k].owner = calls[k].owner /\ calls'[k].before = calls[k].before
        /\ calls[k].answer # "none" => calls'[k].answer = calls[k].answer
        /\ calls[k].at = "end" => calls'[k].at = "end"

\* Call n goes on.
Goes(n, at, answer) ==
    /\ Moved(n, at, answer)
    /\ calls[n].at \notin {"none", "end"} /\ calls[n].answer \in {"none", answer}

\* A call that goes on is such a step.
LEMMA GoesGrows ==
    ASSUME NEW n \in Calls, NEW at, NEW answer, Goes(n, at, answer)
    PROVE  Grows
  BY DEF Goes, Moved, Grows

\* Calls that go on keep the order of their beginnings.
LEMMA PastGoes ==
    ASSUME IInv, Past, NEW n \in Calls, NEW at, NEW answer, Goes(n, at, answer)
    PROVE  Past'
<1>1. Grows
  BY GoesGrows
<1>2. \A k \in Calls : calls'[k].before = calls[k].before /\ calls[k].before \subseteq Calls
  BY DEF Goes, Moved, IInv, TypeOK, CallType
<1> QED
  BY <1>1, <1>2 DEF Past, Grows

\* Of the calls that were answered a step changes nothing.
LEMMA Told ==
    ASSUME IInv, Grows, NEW m \in Calls, calls[m].answer # "none"
    PROVE  /\ \A op, c : Did(m, op, c)' <=> Did(m, op, c)
           /\ \A title, c : Retitled(title, m, c)' <=> Retitled(title, m, c)
<1>1. calls[m].op # "none"
  BY DEF IInv, Stages
<1> QED
  BY <1>1 DEF Grows, Did, Retitled

\* A deletion stays in the record.
LEMMA DeletedStays == ASSUME IInv, Grows PROVE \A c : Deleted(c) => Deleted(c)'
  BY DEF IInv, Stages, Grows, Deleted

\* What one step of call n does to the answers.
LEMMA DidGoes ==
    ASSUME NEW n \in Calls, NEW at, NEW answer, Goes(n, at, answer),
           NEW m \in Calls, NEW op, NEW c, Did(m, op, c)'
    PROVE  \/ Did(m, op, c)
           \/ m = n /\ answer = "ok" /\ calls[n].op = op /\ calls[n].conv = c
  BY DEF Goes, Moved, Did

\* A rename has its row to itself until it commits, so one that is at work was no earlier.
LEMMA TurnsGo ==
    ASSUME IInv, Past, RenamesTakeTurns, NEW n \in Calls, NEW at, NEW answer,
           Goes(n, at, answer),
           at \in {"locked", "commit"} =>
               calls[n].at \in {"locked", "commit"} \/ calls[n].answer = "none",
           answer = "ok" => calls[n].at = "commit" \/ ~postgres \/ calls[n].op # "rename"
    PROVE  RenamesTakeTurns'
<1> SUFFICES ASSUME NEW k \in Calls, NEW m \in Calls,
                    calls'[k].at \in {"locked", "commit"}, calls'[k].op \in Changing,
                    NEW c, c = calls[k].conv, Did(m, "rename", c)'
             PROVE  k \notin calls[m].before
  <2>1. \A k, m \in Calls : calls'[k].conv = calls[k].conv /\ calls'[m].before = calls[m].before
    BY DEF Goes, Moved
  <2> QED
    BY <2>1 DEF RenamesTakeTurns, Did
<1>1. calls[k].op = calls'[k].op /\ calls[k].conv = calls'[k].conv
  BY DEF Goes, Moved
<1>2. CASE k = n /\ calls[n].at \notin {"locked", "commit"}
  BY <1>2 DEF Goes, Moved, Past
<1>3. CASE calls[k].at \in {"locked", "commit"}
  <2>1. CASE Did(m, "rename", c)
    BY <1>1, <1>3, <2>1 DEF RenamesTakeTurns
  <2>2. CASE m = n /\ answer = "ok" /\ calls[n].op = "rename" /\ calls[n].conv = c
    <3>1. holder[calls[k].conv] = k /\ postgres
      BY <1>1, <1>3 DEF IInv, Locked, Stages
    <3>2. holder[calls[n].conv] = n
      BY <2>2, <3>1 DEF IInv, Locked, Changing
    <3>3. k = m
      BY <2>2, <3>1, <3>2
    <3> QED
      BY <3>3 DEF Past, Calls
  <2> QED
    BY <2>1, <2>2, DidGoes
<1>4. k # n => calls[k].at \in {"locked", "commit"}
  BY DEF Goes, Moved
<1> QED
  BY <1>2, <1>3, <1>4

\* Who knew an id still does.
LEMMA KnownGoes == ASSUME IInv, KnownIds, NEW n \in Calls, NEW at, NEW answer, Goes(n, at, answer)
                   PROVE KnownIds'
<1>1. Grows
  BY GoesGrows
<1>2. \A k \in Calls : calls'[k].op = calls[k].op /\ calls'[k].conv = calls[k].conv
  BY DEF Goes, Moved
<1> QED
  BY <1>1, <1>2 DEF KnownIds, Grows

\* The rows are left as they are, by a step that answers no call to change them.
LEMMA RowsGo ==
    ASSUME IInv, RowsInv, NEW n \in Calls, NEW at, NEW answer, Goes(n, at, answer),
           NEW c \in Ids, rows'[c] = rows[c],
           answer = "ok" => calls[n].op \in Reading \/ calls[n].conv # c
    PROVE  RowIsMade(c)' /\ RowIsTold(c)'
<1>1. Grows
  BY GoesGrows
<1>2. \A k \in Calls : /\ calls'[k].op = calls[k].op /\ calls'[k].conv = calls[k].conv
                       /\ calls'[k].before = calls[k].before
  BY DEF Goes, Moved
<1>0. rows[c] # Absent => rows[c].messages \subseteq Calls
  BY DEF IInv, TypeOK, Row
<1>3. RowIsMade(c)'
  <2>1. RowIsMade(c)
    BY DEF RowsInv
  <2> QED
    BY <1>0, <1>1, <1>2, <2>1 DEF RowIsMade, Grows
<1>4. \A m \in Calls : \A op \in {"create", "add", "rename", "delete"} :
          Did(m, op, c)' => Did(m, op, c)
  BY DidGoes DEF Reading
<1>5. RowIsTold(c)
  BY DEF RowsInv
<1>6. Created(c)' => Created(c)
  BY <1>4 DEF Created
<1>7. Deleted(c) => Deleted(c)'
  BY <1>1, DeletedStays
<1>8. \A title : \A m \in Calls : Retitled(title, m, c) => Retitled(title, m, c)'
  BY <1>2 DEF Retitled
<1> QED
  BY <1>3, <1>4, <1>5, <1>6, <1>7, <1>8 DEF RowIsTold

\* What the effect of call n makes of its row.
Becomes(n, row, r) ==
    /\ calls[n].op = "create" => r = NewRow(n, calls[n].owner)
    /\ calls[n].op = "delete" => r = Absent
    /\ calls[n].op \in {"rename", "add"} =>
           /\ r # Absent /\ r.owner = row.owner /\ r.updated = n
           /\ r.title = IF calls[n].op = "rename" THEN n ELSE row.title
           /\ r.messages = IF calls[n].op = "add" THEN row.messages \cup {n} ELSE row.messages

\* That is what its effect makes of it.
LEMMA ChangedRow ==
    ASSUME IInv, NEW n \in Calls, calls[n].op \in Changing \cup {"create"},
           calls[n].op \in Changing => Found(n),
           NEW c, c = calls[n].conv, NEW r, r = Changed(n)[c]
    PROVE  Becomes(n, rows[c], r)
<1> USE DEF Becomes
<1>1. c \in Ids /\ n \in Ids /\ rows \in [Ids -> Row \cup {Absent}]
  BY CallsAreIds DEF IInv, TypeOK, CallType
<1>2. CASE calls[n].op = "create"
  BY <1>1, <1>2 DEF Changed
<1>3. CASE calls[n].op = "delete"
  BY <1>1, <1>3 DEF Changed
<1>4. CASE calls[n].op = "rename"
  <2>1. rows[c] \in Row
    BY <1>1, <1>4 DEF Found, Matches, Changing
  <2>2. r = [[rows[c] EXCEPT !.title = n] EXCEPT !.updated = n]
    BY <1>1, <1>4 DEF Changed
  <2>3. r \in Row
    BY <1>1, <2>1, <2>2 DEF Row
  <2> QED
    BY <1>4, <2>1, <2>2, <2>3, AbsentAssumption DEF Row
<1>5. CASE calls[n].op = "add"
  <2>1. rows[c] \in Row
    BY <1>1, <1>5 DEF Found, Matches, Changing
  <2> PICK said : said = rows[c].messages \cup {n}
    OBVIOUS
  <2>2. r = [[rows[c] EXCEPT !.messages = said] EXCEPT !.updated = n]
    BY <1>1, <1>5, <2>1 DEF Changed, Row
  <2>4. said \in SUBSET Calls
    BY <2>1 DEF Row
  <2>3. r \in Row /\ r.updated = n /\ r.messages = said
        /\ r.title = rows[c].title /\ r.owner = rows[c].owner
    BY <1>1, <2>1, <2>2, <2>4 DEF Row
  <2> QED
    BY <1>5, <2>3, AbsentAssumption
<1> QED
  BY <1>2, <1>3, <1>4, <1>5 DEF Changing

\* A call that has its effect, when it commits, in memory, or without an answer.
Effect(n, answer) ==
    /\ Goes(n, "end", answer) /\ answer \in {"ok", "failed"}
    /\ calls[n].op \in Changing \cup {"create"}
    /\ calls[n].op \in Changing => Found(n)
    /\ calls[n].at = "commit" \/ calls[n].answer = "none"
    /\ rows' = Changed(n)

\* After its effect, the row of a call says what was acknowledged, this call among it.
LEMMA EffectIsTold ==
    ASSUME IInv, Past, RowsInv, NEW n \in Calls, NEW answer, Effect(n, answer),
           NEW c \in Ids
    PROVE  RowIsMade(c)' /\ RowIsTold(c)'
<1>1. Goes(n, "end", answer) /\ Grows
  BY GoesGrows DEF Effect
<1>2. \A k \in Calls : /\ calls'[k].op = calls[k].op /\ calls'[k].conv = calls[k].conv
                       /\ calls'[k].before = calls[k].before
  BY <1>1 DEF Goes, Moved
<1>3. calls[n] \in CallType /\ calls[n].op # "none"
      /\ (calls[n].op \in Changing => Found(n))
      /\ (calls[n].op = "create" => calls[n].conv = n)
  BY DEF IInv, TypeOK, NewIds, Changing, Effect
<1>4. CASE c # calls[n].conv
  <2>1. rows'[c] = rows[c]
    BY <1>3, <1>4, ChangedType DEF IInv, Effect
  <2> QED
    BY <1>1, <1>4, <2>1, RowsGo
<1>5. CASE c = calls[n].conv
  <2> PICK r : r = rows'[c]
    OBVIOUS
  <2>0. Becomes(n, rows[c], r)
    BY <1>5, ChangedRow DEF Effect
  <2> USE DEF Becomes
  <2>1. calls[n].op \in {"create", "rename", "add", "delete"}
    BY DEF Effect, Changing
  <2>2. calls'[n].at = "end" /\ calls'[n].answer = answer
    BY <1>1 DEF Goes, Moved
  <2>3. RowIsMade(c) /\ RowIsTold(c) /\ KnownIds
    BY DEF RowsInv
  <2>4. RowIsMade(c)'
    <3>1. CASE calls[n].op = "create"
      BY <1>2, <1>3, <1>5, <2>0, <2>2, <3>1 DEF RowIsMade, NewRow
    <3>2. CASE calls[n].op \in {"rename", "add"}
      <4>1. rows[c] # Absent /\ rows[c].messages \subseteq Calls
        BY <1>3, <1>5, <3>2 DEF Found, Matches, Changing, IInv, TypeOK, Row
      <4> QED
        BY <1>1, <1>2, <1>5, <2>0, <2>2, <2>3, <3>2, <4>1 DEF RowIsMade, Grows
    <3>3. CASE calls[n].op = "delete"
      BY <2>0, <3>3 DEF RowIsMade
    <3> QED
      BY <2>1, <3>1, <3>2, <3>3
  <2>5. calls[n].op = "delete" => Deleted(c)'
    BY <1>2, <1>5, <2>2 DEF Deleted, Effect
  <2>6. Deleted(c) => Deleted(c)'
    BY <1>1, DeletedStays
  <2>7. \A title : \A m \in Calls : Retitled(title, m, c) => Retitled(title, m, c)'
    BY <1>2 DEF Retitled
  <2>8. calls[n].op \in Changing => rows[c] # Absent
    BY <1>3, <1>5 DEF Found, Matches
  <2>9. ASSUME NEW m \in Calls, NEW op, Did(m, op, c)'
        PROVE  Did(m, op, c) \/ (m = n /\ calls[n].op = op)
    BY <1>1, <2>9, DidGoes
  <2>10. ~ Deleted(c)' => (Created(c)' => r # Absent)
    <3>1. calls[n].op = "create" => r \in Row
      BY <1>3, <2>0, NewRowType, CallsAreIds DEF CallType
    <3> QED
      BY <2>0, <2>1, <2>5, <3>1, AbsentAssumption
  <2>11. ASSUME NEW m \in Calls, Did(m, "add", c)'
         PROVE  Deleted(c)' \/ (r # Absent /\ m \in r.messages)
    <3>1. CASE calls[n].op = "create"
      <4>1. Did(m, "add", c) /\ rows[c] = Absent
        BY <1>5, <2>9, <2>11, <3>1, <1>3 DEF IInv, NewIds, Effect, Goes
      <4> QED
        BY <2>3, <2>6, <4>1 DEF RowIsTold
    <3>2. CASE calls[n].op = "delete"
      BY <2>5, <3>2
    <3>3. CASE calls[n].op \in {"rename", "add"}
      BY <2>0, <2>3, <2>6, <2>9, <2>11, <3>3 DEF RowIsTold
    <3> QED
      BY <2>1, <3>1, <3>2, <3>3
  <2>12. ASSUME NEW m \in Calls, Did(m, "rename", c)', r # Absent
         PROVE  Retitled(r.title, m, c)'
    <3>1. CASE calls[n].op = "create"
      <4>1. Did(m, "rename", c)
        BY <2>9, <2>12, <3>1
      <4>2. calls[n].at = "end"
        BY <1>3, <1>5, <2>3, <3>1, <4>1, CallsAreIds DEF KnownIds, Did, Changing
      <4> QED
        BY <1>1, <4>2 DEF Goes
    <3>2. CASE calls[n].op = "rename"
      <4>1. r.title = n /\ n # c
        BY <1>5, <2>0, <2>3, <3>2, CallsAreIds DEF KnownIds, Changing
      <4>2. CASE m = n
        BY <4>1, <4>2 DEF Retitled
      <4>3. CASE m # n
        <5>1. Did(m, "rename", c)
          BY <2>9, <2>12, <4>3
        <5>2. n \notin calls[m].before
          <6>1. CASE calls[n].at = "commit"
            BY <1>5, <3>2, <5>1, <6>1 DEF RowsInv, RenamesTakeTurns, Changing
          <6>2. CASE calls[n].answer = "none"
            BY <6>2 DEF Past
          <6> QED
            BY <6>1, <6>2 DEF Effect
        <5> QED
          BY <1>2, <4>1, <5>2 DEF Retitled
      <4> QED
        BY <4>2, <4>3
    <3>3. CASE calls[n].op = "add"
      BY <2>0, <2>3, <2>7, <2>8, <2>9, <2>12, <3>3 DEF RowIsTold, Changing
    <3>4. CASE calls[n].op = "delete"
      BY <2>0, <2>12, <3>4
    <3> QED
      BY <2>1, <3>1, <3>2, <3>3, <3>4
  <2>13. ASSUME NEW m \in Calls, Did(m, "delete", c)' PROVE r = Absent
    <3>1. CASE calls[n].op = "create"
      <4>1. Did(m, "delete", c)
        BY <2>9, <2>13, <3>1
      <4>2. calls[n].at = "end"
        BY <1>3, <1>5, <2>3, <3>1, <4>1, CallsAreIds DEF KnownIds, Did, Changing
      <4> QED
        BY <1>1, <4>2 DEF Goes
    <3>2. CASE calls[n].op \in {"rename", "add"}
      BY <2>3, <2>8, <2>9, <2>13, <3>2 DEF RowIsTold, Changing
    <3>3. CASE calls[n].op = "delete"
      BY <2>0, <3>3
    <3> QED
      BY <2>1, <3>1, <3>2, <3>3
  <2> QED
    BY <2>4, <2>10, <2>11, <2>12, <2>13 DEF RowIsTold
<1> QED
  BY <1>4, <1>5

--------------------------------------------------------------------------------
(* A step keeps what a read has gathered.                                 *)

\* No row comes back, and none changes its owner.
RowsKeep == \A c \in Ids : \A who : Created(c) /\ Matches(c, who)' => Matches(c, who)

\* An effect brings back no row and changes no owner.
LEMMA EffectKeepsRows ==
    ASSUME IInv, NEW n \in Calls, NEW answer, Effect(n, answer)
    PROVE  RowsKeep
<1> SUFFICES ASSUME NEW c \in Ids, NEW who, Created(c), Matches(c, who)'
             PROVE  Matches(c, who)
  BY DEF RowsKeep
<1>1. calls[n] \in CallType /\ calls[n].op # "none"
      /\ (calls[n].op \in Changing => Found(n))
      /\ (calls[n].op = "create" => calls[n].conv = n)
  BY DEF IInv, TypeOK, NewIds, Changing, Effect
<1>2. CASE c # calls[n].conv
  <2>1. rows'[c] = rows[c]
    BY <1>1, <1>2, ChangedType DEF IInv, Effect
  <2> QED
    BY <2>1 DEF Matches
<1>3. CASE c = calls[n].conv
  <2>1. PICK r : r = rows'[c]
    OBVIOUS
  <2>2. Becomes(n, rows[c], r)
    <3>1. r = Changed(n)[c] /\ (calls[n].op \in Changing => Found(n))
          /\ calls[n].op \in Changing \cup {"create"}
      BY <2>1 DEF Effect
    <3> QED
      BY <1>3, <3>1, ChangedRow
  <2>3. calls[n].op # "create"
    BY <1>1, <1>3, CallsAreIds DEF Created, Did, Effect, Goes, IInv, Stages
  <2>4. CASE calls[n].op = "delete"
    BY <2>1, <2>2, <2>4 DEF Matches, Becomes
  <2>5. CASE calls[n].op \in {"rename", "add"}
    BY <1>1, <1>3, <2>1, <2>2, <2>5 DEF Matches, Found, Changing, Becomes
  <2> QED
    BY <2>3, <2>4, <2>5 DEF Effect, Changing
<1> QED
  BY <1>2, <1>3

\* What a read is to find now, it was to find before.
LEMMA FoundBefore ==
    ASSUME IInv, Past, Grows, RowsKeep, NEW k \in Calls, calls[k].op # "none",
           NEW c \in Ids, ToBeFound(c, k)'
    PROVE  ToBeFound(c, k)
<1> PICK who : who = calls[k].owner
  OBVIOUS
<1>1. calls'[k].owner = who /\ calls'[k].before = calls[k].before
  BY DEF Grows
<1>2. c = 0 \/ (c \in calls[k].before /\ Did(c, "create", c)')
  BY <1>1 DEF ToBeFound
<1>3. c \in calls[k].before => c \in Calls /\ calls[c].answer # "none"
  BY DEF Past, Calls, IInv, TypeOK, CallType
<1>4. c = 0 \/ (c \in calls[k].before /\ Did(c, "create", c))
  BY <1>2, <1>3, Told
<1>5. ~ Deleted(c)
  BY DeletedStays DEF ToBeFound
<1>6. Matches(c, who)'
  BY <1>1 DEF ToBeFound
<1>7. Matches(c, who)
  BY <1>3, <1>4, <1>6 DEF RowsKeep, Created
<1> QED
  BY <1>4, <1>5, <1>7 DEF ToBeFound

\* A head that was true stays true of the read that has it.
LEMMA HeadGoes ==
    ASSUME IInv, Past, Grows, NEW k \in Calls, calls[k].op # "none",
           NEW e, TrueHead(k, e)
    PROVE  TrueHead(k, e)'
<1>1. calls'[k].owner = calls[k].owner /\ calls'[k].before = calls[k].before
  BY DEF Grows
<1>2. ASSUME NEW m \in calls[k].before
      PROVE  ~ Did(m, "delete", e.id)'
             /\ (Did(m, "rename", e.id)' => Retitled(e.title, m, e.id)')
  <2>1. m \in Calls /\ calls[m].answer # "none"
    BY <1>2 DEF Past, IInv, TypeOK, CallType
  <2> QED
    BY <1>2, <2>1, Told DEF TrueHead
<1> QED
  BY <1>1, <1>2 DEF TrueHead

\* So do messages.
LEMMA MessagesGo ==
    ASSUME IInv, Past, Grows, NEW k \in Calls, calls[k].op # "none",
           NEW e \in Answered, TrueMessages(k, e)
    PROVE  TrueMessages(k, e)'
<1>1. calls'[k].before = calls[k].before
  BY DEF Grows
<1>2. \A i \in DOMAIN e.messages : e.messages[i] \in Calls
  BY DEF Answered
<1>3. \A i \in DOMAIN e.messages :
          calls'[e.messages[i]].op = "add" /\ calls'[e.messages[i]].conv = e.id
  BY <1>2 DEF TrueMessages, Grows
<1>4. ASSUME NEW m \in calls[k].before, Did(m, "add", e.id)'
      PROVE  Deleted(e.id)' \/ \E i \in DOMAIN e.messages : e.messages[i] = m
  <2>1. m \in Calls /\ calls[m].answer # "none"
    BY <1>4 DEF Past, IInv, TypeOK, CallType
  <2>2. Did(m, "add", e.id)
    BY <1>4, <2>1, Told
  <2>3. Deleted(e.id) => Deleted(e.id)'
    BY DeletedStays
  <2> QED
    BY <1>4, <2>2, <2>3 DEF TrueMessages
<1> QED
  BY <1>1, <1>3, <1>4 DEF TrueMessages

\* A read and its result after a step that leaves its result alone.
LEMMA ReadGoes ==
    ASSUME IInv, Past, Grows, RowsKeep, NEW k \in Calls, ReadIsTrue(k),
           shown[k] \in Seq(Answered),
           calls[k].op # "none", rest'[k] = rest[k], shown'[k] = shown[k],
           calls'[k].at \notin {"none", "start"} \/ calls[k].at \in {"none", "start"},
           (calls'[k].at = "selected" \/ calls'[k].answer = "ok") /\ calls[k].op \in Reading =>
               calls[k].at = "selected" \/ calls[k].answer = "ok",
           calls'[k].answer = "ok" /\ calls[k].op \in Reading =>
               calls[k].answer = "ok" \/ rest[k] = << >>,
           calls'[k].answer = "not_found" =>
               \/ calls[k].answer = "not_found"
               \/ /\ calls[k].op # "list" /\ shown[k] = << >>
                  /\ ~ ToBeFound(calls[k].conv, k)
    PROVE  ReadIsTrue(k)'
<1> PICK c : c = calls[k].conv
  OBVIOUS
<1>1. calls'[k].op = calls[k].op /\ calls'[k].conv = c /\ c \in Ids
  BY DEF Grows, IInv, TypeOK, CallType
<1>3. ASSUME NEW e, TrueHead(k, e) PROVE TrueHead(k, e)'
  BY <1>3, HeadGoes
<1>4. ASSUME NEW e \in Range(shown[k]), TrueMessages(k, e) PROVE TrueMessages(k, e)'
  <2>1. e \in Answered
    BY DEF Range
  <2> QED
    BY <1>4, <2>1, MessagesGo
<1>5. ASSUME NEW d \in Ids, ToBeFound(d, k)' PROVE ToBeFound(d, k)
  BY <1>5, FoundBefore
<1>6. ToBeFound(calls[k].conv, k)' => ToBeFound(c, k)
  <2>1. ToBeFound(calls[k].conv, k)' => ToBeFound(c, k)'
    BY <1>1 DEF ToBeFound, Deleted, Matches, Did
  <2> QED
    BY <1>1, <1>5, <2>1
<1>7. ASSUME (calls'[k].at = "selected" \/ calls'[k].answer = "ok") /\ calls[k].op \in Reading
      PROVE  /\ \A e \in Range(rest[k]) : TrueHead(k, e)'
             /\ \A e \in Range(shown[k]) : TrueHead(k, e)' /\ TrueMessages(k, e)'
             /\ calls[k].op = "list" =>
                  \A d \in Ids : ToBeFound(d, k)' =>
                     \E e \in Range(rest[k]) \cup Range(shown[k]) : e.id = d
  BY <1>3, <1>4, <1>5, <1>7 DEF ReadIsTrue
<1>8. calls'[k].answer = "not_found" =>
        calls[k].op # "list" /\ shown[k] = << >> /\ ~ ToBeFound(calls[k].conv, k)'
  BY <1>6 DEF ReadIsTrue
<1> QED
  BY <1>1, <1>7, <1>8 DEF ReadIsTrue

\* What a read selects are the conversations that match, each once.
LEMMA SelectedIs ==
    ASSUME IInv, RowsInv, NEW n \in Calls, calls[n].op \in Reading,
           calls[n].op = "get" => Found(n), NEW s, s = Selected(n)
    PROVE  /\ s \in Seq(Ids)
           /\ \A i \in DOMAIN s : Matches(s[i], calls[n].owner)
           /\ calls[n].op = "list" =>
                  \A c \in Ids : Matches(c, calls[n].owner) => \E i \in DOMAIN s : s[i] = c
<1> PICK who : who = calls[n].owner
  OBVIOUS
<1> PICK S : S = IF calls[n].op = "get" THEN {calls[n].conv} ELSE {c \in Ids : Matches(c, who)}
  OBVIOUS
<1> PICK key : key = [c \in S |-> - rows[c].updated]
  OBVIOUS
<1>1. calls[n].conv \in Ids /\ S \subseteq Ids
  BY DEF IInv, TypeOK, CallType
<1>2. IsFiniteSet(S)
  <2>1. IsFiniteSet(Ids)
    BY BoundsAssumption, FS_Interval DEF Ids
  <2> QED
    BY <1>1, <2>1, FS_Subset
<1>3. \A c \in S : Matches(c, who) /\ rows[c] \in Row
  BY <1>1 DEF Found, Matches, IInv, TypeOK
<1>4. \A c \in S : rows[c].updated \in Ids
  BY <1>3 DEF Row
<1>5. \A c \in S : key[c] \in Int
  BY <1>4, BoundsAssumption DEF Ids
<1>6. ASSUME NEW c \in S, NEW d \in S, key[c] = key[d] PROVE c = d
  <2>1. rows[c].updated = rows[d].updated
    BY <1>4, <1>6, BoundsAssumption DEF Ids
  <2>2. RowIsMade(c) /\ RowIsMade(d) /\ rows[c] # Absent /\ rows[d] # Absent
    BY <1>1, <1>3 DEF RowsInv, Matches
  <2> QED
    BY <2>1, <2>2, CallsAreIds DEF RowIsMade
<1>7. s = InOrder(S, key)
  BY DEF Selected, Newest
<1>8. s \in Seq(S) /\ \A c \in S : \E i \in DOMAIN s : s[i] = c
  <2>1. Keyed(S, key)
    BY <1>2, <1>5, <1>6 DEF Keyed
  <2>2. Listed(s, S, key)
    BY <1>7, <2>1, InOrderIs
  <2> QED
    BY <2>2 DEF Listed
<1>9. \A i \in DOMAIN s : s[i] \in S
  BY <1>8
<1>10. s \in Seq(Ids)
  BY <1>1, <1>8
<1> QED
  BY <1>3, <1>8, <1>9, <1>10

\* Their heads are true when they are selected, and no conversation is left out.
LEMMA EntriesAre ==
    ASSUME IInv, RowsInv, NEW n \in Calls, calls[n].op \in Reading,
           calls[n].op = "get" => Found(n), NEW es, es = Entries(n)
    PROVE  /\ es \in Seq(Heads)
           /\ \A e \in Range(es) : TrueHead(n, e)
           /\ calls[n].op = "list" =>
                  \A c \in Ids : ToBeFound(c, n) => \E e \in Range(es) : e.id = c
<1> PICK s : s = Selected(n)
  OBVIOUS
<1>1. /\ s \in Seq(Ids)
      /\ \A i \in DOMAIN s : Matches(s[i], calls[n].owner)
      /\ calls[n].op = "list" =>
             \A c \in Ids : Matches(c, calls[n].owner) => \E i \in DOMAIN s : s[i] = c
  BY SelectedIs
<1>2. es = [i \in DOMAIN s |-> [id |-> s[i], owner |-> rows[s[i]].owner,
                                 title |-> rows[s[i]].title]]
  BY DEF Entries, Entry
<1>3. \A i \in DOMAIN s : s[i] \in Ids /\ rows[s[i]] \in Row /\ rows[s[i]] # Absent
  BY <1>1 DEF Matches, IInv, TypeOK
<1>4. \A i \in DOMAIN s : es[i] \in Heads
  BY <1>2, <1>3 DEF Heads, Row
<1>5. es \in Seq(Heads)
  BY <1>1, <1>2, <1>4
<1>6. ASSUME NEW i \in DOMAIN s PROVE TrueHead(n, es[i])
  <2> PICK c : c = s[i]
    OBVIOUS
  <2>1. es[i].id = c /\ es[i].owner = rows[c].owner /\ es[i].title = rows[c].title
    BY <1>2
  <2>2. c \in Ids /\ Matches(c, calls[n].owner) /\ RowIsTold(c)
    BY <1>1, <1>3 DEF RowsInv
  <2>3. calls[n].before \subseteq Calls
    BY DEF IInv, TypeOK, CallType
  <2> QED
    BY <2>1, <2>2, <2>3 DEF TrueHead, RowIsTold, Matches
<1>7. \A c \in Ids : ToBeFound(c, n) => Matches(c, calls[n].owner)
  BY DEF ToBeFound
<1>8. \A i \in DOMAIN s : es[i].id = s[i]
  BY <1>2
<1>9. DOMAIN es = DOMAIN s
  BY <1>2
<1>10. \A e \in Range(es) : TrueHead(n, e)
  BY <1>6, <1>9 DEF Range
<1>11. calls[n].op = "list" =>
          \A c \in Ids : ToBeFound(c, n) => \E e \in Range(es) : e.id = c
  BY <1>1, <1>7, <1>8, <1>9 DEF Range
<1> QED
  BY <1>5, <1>10, <1>11

\* The messages of a conversation are true when they are read.
LEMMA DetailIs ==
    ASSUME IInv, RowsInv, NEW n \in Calls, NEW e \in Heads, TrueHead(n, e), NEW d, d = Detail(e)
    PROVE  d \in Answered /\ d.id = e.id /\ TrueHead(n, d) /\ TrueMessages(n, d)
<1> PICK c : c = e.id
  OBVIOUS
<1> PICK s : s = Messages(c)
  OBVIOUS
<1> PICK said : said = IF rows[c] = Absent THEN {} ELSE rows[c].messages
  OBVIOUS
<1>0. c \in Ids /\ calls[n].before \subseteq Calls
  BY DEF Heads, IInv, TypeOK, CallType
<1>1. /\ s \in Seq(said) /\ \A m \in said : \E i \in DOMAIN s : s[i] = m
      /\ \A i, j \in DOMAIN s : i < j => s[i] < s[j]
  <2>1. CASE rows[c] = Absent
    BY <2>1 DEF Messages
  <2>2. CASE rows[c] # Absent
    <3> PICK key : key = [m \in Calls |-> m]
      OBVIOUS
    <3>1. said \subseteq Calls /\ s = InOrder(said, key)
      BY <1>0, <2>2 DEF Messages, IInv, TypeOK, Row
    <3>2. IsFiniteSet(said)
      BY <3>1, BoundsAssumption, FS_Interval, FS_Subset DEF Calls
    <3>3. \A m \in said : key[m] = m /\ m \in Int
      BY <3>1, BoundsAssumption DEF Calls
    <3>6. Keyed(said, key)
      BY <3>2, <3>3 DEF Keyed
    <3>4. Listed(s, said, key)
      BY <3>1, <3>6, InOrderIs
    <3>5. \A i \in DOMAIN s : s[i] \in said
      BY <3>4 DEF Listed
    <3>7. \A i \in DOMAIN s : key[s[i]] = s[i]
      BY <3>3, <3>5
    <3>8. \A i, j \in DOMAIN s : i < j => s[i] < s[j]
      BY <3>4, <3>7 DEF Listed
    <3> QED
      BY <3>4, <3>8 DEF Listed
  <2> QED
    BY <2>1, <2>2
<1>2. said \subseteq Calls /\ \A m \in said : calls[m].op = "add" /\ calls[m].conv = c
  BY <1>0 DEF RowsInv, RowIsMade, IInv, TypeOK, Row
<1>3. d = [id |-> c, owner |-> e.owner, title |-> e.title, messages |-> s]
  BY DEF Detail
<1>4. s \in Seq(Calls) /\ \A i \in DOMAIN s : s[i] \in said
  BY <1>1, <1>2
<1>5. d \in Answered
  BY <1>3, <1>4 DEF Answered, Heads
<1>6. d.id = c /\ d.owner = e.owner /\ d.title = e.title /\ d.messages = s
  BY <1>3
<1>7. TrueHead(n, d)
  BY <1>6 DEF TrueHead
<1>8. ASSUME NEW m \in calls[n].before, Did(m, "add", c)
      PROVE  Deleted(c) \/ \E i \in DOMAIN s : s[i] = m
  <2>1. Deleted(c) \/ m \in said
    BY <1>0, <1>8 DEF RowsInv, RowIsTold
  <2> QED
    BY <1>1, <2>1
<1>9. TrueMessages(n, d)
  BY <1>1, <1>2, <1>4, <1>6, <1>8 DEF TrueMessages
<1> QED
  BY <1>5, <1>6, <1>7, <1>9

\* The reads of the other calls stay true.
LEMMA OthersRead ==
    ASSUME IInv, Past, ReadsInv, RowsKeep, NEW n \in Calls, NEW at, NEW answer,
           Goes(n, at, answer), NEW k \in Calls, k # n,
           rest'[k] = rest[k], shown'[k] = shown[k]
    PROVE  ReadIsTrue(k)'
<1>1. Grows /\ calls'[k] = calls[k] /\ ReadIsTrue(k) /\ shown[k] \in Seq(Answered)
  BY GoesGrows DEF Goes, Moved, ReadsInv
<1>2. CASE calls[k].op = "none"
  <2>1. calls[k].at = "none" /\ calls[k].answer = "none"
    BY <1>2 DEF IInv, Stages
  <2> QED
    BY <1>1, <2>1 DEF ReadIsTrue
<1>3. CASE calls[k].op # "none"
  <2>1. calls[k].answer = "ok" /\ calls[k].op \in Reading => rest[k] = << >>
    BY <1>1 DEF ReadIsTrue
  <2> QED
    BY <1>1, <1>3, <2>1, ReadGoes
<1> QED
  BY <1>2, <1>3

\* A step of call n that leaves the rows alone, and whose own result is seen to be true.
LEMMA ReadingKeeps ==
    ASSUME IInv, Kept, NEW n \in Calls, NEW at, NEW answer, Goes(n, at, answer),
           rows' = rows, rest' \in [Calls -> Seq(Heads)], shown' \in [Calls -> Seq(Answered)],
           \A k \in Calls : k # n => rest'[k] = rest[k] /\ shown'[k] = shown[k],
           at \in {"locked", "commit"} =>
               calls[n].at \in {"locked", "commit"} \/ calls[n].answer = "none",
           answer = "ok" => calls[n].op \in Reading,
           ReadIsTrue(n)'
    PROVE  Kept'
<1>1. Past /\ RowsInv /\ ReadsInv
  BY DEF Kept
<1>2. Past'
  BY <1>1, PastGoes
<1>3. KnownIds'
  BY <1>1, KnownGoes DEF RowsInv
<1>4. RenamesTakeTurns'
  BY <1>1, TurnsGo DEF RowsInv, Reading
<1>5. \A c \in Ids : RowIsMade(c)' /\ RowIsTold(c)'
  BY <1>1, RowsGo
<1>6. RowsKeep
  BY DEF RowsKeep, Matches
<1>7. \A k \in Calls : k # n => ReadIsTrue(k)'
  BY <1>1, <1>6, OthersRead
<1> QED
  BY <1>2, <1>3, <1>4, <1>5, <1>7 DEF Kept, RowsInv, ReadsInv

\* A step that only moves its call on.
LEMMA QuietKeeps ==
    ASSUME IInv, Kept, NEW n \in Calls, NEW at, NEW answer, Goes(n, at, answer),
           rows' = rows, UNCHANGED reads, at \notin {"none", "start", "selected"},
           at \in {"locked", "commit"} =>
               calls[n].at \in {"locked", "commit"} \/ calls[n].answer = "none",
           answer = "ok" =>
               calls[n].op \in Reading /\ calls[n].at = "selected" /\ rest[n] = << >>,
           answer = "not_found" =>
               calls[n].op # "list" /\ ~ Found(n) /\ calls[n].at = "start"
    PROVE  Kept'
<1>1. Grows /\ Past /\ RowsInv /\ ReadsInv /\ ReadIsTrue(n) /\ shown[n] \in Seq(Answered)
  BY GoesGrows DEF Kept, ReadsInv
<1>2. RowsKeep
  BY DEF RowsKeep, Matches
<1>3. calls'[n].at = at /\ calls'[n].answer = answer /\ calls[n].op # "none"
  BY DEF Goes, Moved, IInv, Stages
<1>4. ~ Found(n) => ~ ToBeFound(calls[n].conv, n)
  BY DEF Found, ToBeFound
<1>5. calls[n].at = "start" => shown[n] = << >>
  BY <1>1 DEF ReadIsTrue
<1>6. ReadIsTrue(n)'
  BY <1>1, <1>2, <1>3, <1>4, <1>5, ReadGoes DEF reads
<1> QED
  BY <1>1, <1>6, ReadingKeeps DEF reads, ReadsInv

\* A call that has its effect.
LEMMA EffectIsKept ==
    ASSUME IInv, Kept, NEW n \in Calls, NEW answer, Effect(n, answer), UNCHANGED reads,
           calls[n].at = "commit" \/ ~ postgres
    PROVE  Kept'
<1>1. Goes(n, "end", answer) /\ answer \in {"ok", "failed"} /\ Grows
      /\ calls[n].op \in Changing \cup {"create"}
  BY GoesGrows DEF Effect
<1>2. Past /\ RowsInv /\ ReadsInv /\ ReadIsTrue(n) /\ shown[n] \in Seq(Answered)
  BY DEF Kept, ReadsInv
<1>3. Past'
  BY <1>1, <1>2, PastGoes
<1>4. KnownIds'
  BY <1>1, <1>2, KnownGoes DEF RowsInv
<1>5. RenamesTakeTurns'
  BY <1>1, <1>2, TurnsGo DEF RowsInv
<1>6. \A c \in Ids : RowIsMade(c)' /\ RowIsTold(c)'
  BY <1>2, EffectIsTold
<1>7. RowsKeep
  BY EffectKeepsRows
<1>8. \A k \in Calls : k # n => ReadIsTrue(k)'
  BY <1>1, <1>2, <1>7, OthersRead DEF reads
<1>9. calls'[n].at = "end" /\ calls'[n].answer = answer /\ calls[n].op # "none"
      /\ calls[n].op \notin Reading
  BY <1>1 DEF Goes, Moved, Changing, Reading
<1>10. ReadIsTrue(n)'
  BY <1>1, <1>2, <1>7, <1>9, ReadGoes DEF reads
<1> QED
  BY <1>2, <1>3, <1>4, <1>5, <1>6, <1>8, <1>10 DEF Kept, RowsInv, ReadsInv, reads

--------------------------------------------------------------------------------
(* Each step.                                                             *)

\* The steps that move one call and change neither rows nor results.
LEMMA QuietStepsKeep ==
    ASSUME IInv, Kept, NEW n \in Calls,
           \/ InsertRow(n) \/ LockRow(n) \/ NextStatement(n) \/ NotFound(n) \/ Return(n)
           \/ CallFails(n) \/ HandleMissing(n) \/ RollBack(n)
           \/ AnswerLost(n) /\ rows' = rows
    PROVE  Kept'
<1> USE DEF AtWork, Goes
<1>0. calls[n] \in CallType /\ TypeOK
  BY DEF IInv, TypeOK
<1>1. CASE InsertRow(n) \/ NextStatement(n)
  <2>1. Moved(n, "commit", calls[n].answer)
    BY <1>0, <1>1, MovesAt DEF InsertRow, NextStatement
  <2>2. Goes(n, "commit", "none")
    BY <1>1, <2>1 DEF InsertRow, NextStatement
  <2> QED
    BY <1>1, <2>2, QuietKeeps DEF InsertRow, NextStatement
<1>2. CASE LockRow(n)
  <2>1. PICK at \in {"locked", "commit"} : calls' = [calls EXCEPT ![n].at = at]
    BY <1>2 DEF LockRow
  <2>2. Moved(n, at, calls[n].answer)
    BY <1>0, <2>1, MovesAt
  <2>3. Goes(n, at, "none")
    BY <1>2, <2>2 DEF LockRow
  <2> QED
    BY <1>2, <2>3, QuietKeeps DEF LockRow
<1>3. CASE NotFound(n) \/ HandleMissing(n)
  <2>1. Moved(n, "end", "not_found")
    BY <1>0, <1>3, MovesEnd DEF NotFound, HandleMissing
  <2>2. Goes(n, "end", "not_found") /\ calls[n].at = "start"
    BY <1>3, <2>1 DEF NotFound, HandleMissing, InMemory, IInv, Stages
  <2>3. calls[n].op # "list" /\ ~ Found(n)
    BY <1>3 DEF NotFound, HandleMissing, Changing
  <2> QED
    BY <1>3, <2>2, <2>3, QuietKeeps DEF NotFound, HandleMissing
<1>4. CASE Return(n)
  <2>1. Moved(n, "end", "ok")
    BY <1>0, <1>4, MovesEnd DEF Return
  <2>2. Goes(n, "end", "ok") /\ calls[n].at = "selected" /\ calls[n].op \in Reading
    BY <1>4, <2>1 DEF Return, IInv, Stages
  <2> QED
    BY <1>4, <2>2, QuietKeeps DEF Return
<1>5. CASE CallFails(n)
  <2> DEFINE at == IF calls[n].at \in {"locked", "commit"} THEN calls[n].at ELSE "end"
  <2>1. at \in {"locked", "commit", "end"} /\ (at # "end" => calls[n].at \in {"locked", "commit"})
    OBVIOUS
  <2>2. calls' = [calls EXCEPT ![n].at = at, ![n].answer = "failed"]
    BY <1>5 DEF CallFails, IInv, TypeOK, CallType
  <2>3. Moved(n, at, "failed")
    BY <1>0, <2>1, <2>2, MovesBoth
  <2>4. calls[n].at \notin {"none", "end"} /\ calls[n].answer = "none"
    BY <1>5 DEF CallFails, Begun, IInv, Stages
  <2> HIDE DEF at
  <2>5. Goes(n, at, "failed")
    BY <2>3, <2>4
  <2> QED
    BY <1>5, <2>1, <2>5, QuietKeeps DEF CallFails
<1>6. CASE RollBack(n)
  <2>1. Moved(n, "end", "failed")
    BY <1>0, <1>6, MovesEnd DEF RollBack
  <2>2. Goes(n, "end", "failed")
    BY <1>6, <2>1 DEF RollBack, Abandoned, IInv, Stages
  <2> QED
    BY <1>6, <2>2, QuietKeeps DEF RollBack
<1>7. CASE AnswerLost(n) /\ rows' = rows
  <2>1. Moved(n, "end", "failed")
    BY <1>0, <1>7, MovesEnd DEF AnswerLost
  <2>2. Goes(n, "end", "failed")
    BY <1>7, <2>1 DEF AnswerLost, InMemory, IInv, Stages
  <2> QED
    BY <1>7, <2>2, QuietKeeps DEF AnswerLost
<1> QED
  BY <1>1, <1>2, <1>3, <1>4, <1>5, <1>6, <1>7

\* The steps in which a call has its effect.
LEMMA EffectsKeep ==
    ASSUME IInv, Kept, NEW n \in Calls,
           \/ Commit(n) \/ CommitUnheard(n)
           \/ Handle(n) /\ calls[n].op \notin Reading
           \/ AnswerLost(n) /\ rows' # rows
    PROVE  Kept'
<1>1. calls[n] \in CallType /\ TypeOK
  BY DEF IInv, TypeOK
<1>2. \/ calls[n].at = "commit"
      \/ /\ InMemory(n) /\ calls[n].answer = "none"
         /\ calls[n].op \in {"create", "list"} \/ Found(n)
  BY DEF Commit, CommitUnheard, Handle, AnswerLost, AtWork, InMemory, IInv, Stages
<1>3. PICK answer \in {"ok", "failed"} : /\ calls' = End(n, answer)
                                         /\ calls[n].answer \in {"none", answer}
  <2>1. CASE Commit(n) \/ Handle(n)
    BY <1>2, <2>1 DEF Commit, Handle, AtWork, InMemory, IInv, Stages
  <2>2. CASE CommitUnheard(n)
    BY <2>2 DEF CommitUnheard, Abandoned
  <2>3. CASE AnswerLost(n)
    BY <2>3 DEF AnswerLost, InMemory, IInv, Stages
  <2> QED
    BY <2>1, <2>2, <2>3
<1>4. rows' = Changed(n) /\ calls[n].at \in {"commit", "start"}
  BY DEF Commit, CommitUnheard, Handle, AnswerLost, AtWork, InMemory
<1>5. calls[n].op \in Changing \cup {"create"}
  <2>1. CASE calls[n].at = "commit"
    BY <2>1 DEF IInv, Stages
  <2>2. calls[n].at # "commit" => calls[n].op \notin Reading \/ rows' # rows
    BY DEF Commit, CommitUnheard, AtWork
  <2>3. calls[n].at # "commit" => calls[n].op \notin Reading
    BY <1>4, <2>2 DEF Changed, Reading
  <2> QED
    BY <1>1, <1>4, <2>1, <2>3 DEF CallType, Changing, Reading, IInv, Stages
<1>6. calls[n].op \in Changing => Found(n)
  BY <1>2 DEF IInv, Locked, Changing
<1>7. Goes(n, "end", answer)
  BY <1>1, <1>3, <1>4, MovesEnd DEF Goes
<1>8. Effect(n, answer)
  BY <1>2, <1>4, <1>5, <1>6, <1>7 DEF Effect
<1>9. UNCHANGED reads
  <2>1. CASE Handle(n)
    BY <1>5, <2>1 DEF Handle, reads, Changing, Reading, Kept, ReadsInv
  <2> QED
    BY <2>1 DEF Commit, CommitUnheard, AnswerLost
<1> QED
  BY <1>2, <1>8, <1>9, EffectIsKept DEF InMemory

\* A read that selects its conversations.
LEMMA SelectKeeps == ASSUME IInv, Kept, NEW n \in Calls, SelectRows(n) PROVE Kept'
<1>1. Moved(n, "selected", calls[n].answer)
  BY MovesAt DEF IInv, SelectRows
<1>2. /\ Goes(n, "selected", "none") /\ calls[n].at = "start" /\ rows' = rows /\ shown' = shown
      /\ calls[n].op \in Reading /\ (calls[n].op = "get" => Found(n))
  BY <1>1 DEF SelectRows, AtWork, Goes
<1>3. Grows /\ Past /\ RowsInv /\ ReadIsTrue(n) /\ shown[n] = << >>
      /\ rest \in [Calls -> Seq(Heads)] /\ shown \in [Calls -> Seq(Answered)]
  BY <1>2, GoesGrows DEF Kept, ReadsInv, ReadIsTrue
<1> PICK es : es = Entries(n)
  OBVIOUS
<1>4. /\ es \in Seq(Heads)
      /\ \A e \in Range(es) : TrueHead(n, e)
      /\ calls[n].op = "list" => \A c \in Ids : ToBeFound(c, n) => \E e \in Range(es) : e.id = c
  BY <1>2, <1>3, EntriesAre
<1>5. /\ rest' \in [Calls -> Seq(Heads)] /\ rest'[n] = es
      /\ \A k \in Calls : k # n => rest'[k] = rest[k]
  BY <1>3, <1>4 DEF SelectRows
<1>6. RowsKeep
  BY <1>2 DEF RowsKeep, Matches
<1>7. calls[n].op # "none" /\ calls'[n].op = calls[n].op
      /\ calls'[n].at = "selected" /\ calls'[n].answer = "none"
  BY <1>2 DEF Reading, Goes, Moved
<1>8. \A e \in Range(es) : TrueHead(n, e)'
  BY <1>3, <1>4, <1>7, HeadGoes
<1>9. \A c \in Ids : ToBeFound(c, n)' => ToBeFound(c, n)
  BY <1>3, <1>6, <1>7, FoundBefore
<1>10. Range(shown'[n]) = {}
  BY <1>2, <1>3 DEF Range
<1>11. ReadIsTrue(n)'
  BY <1>4, <1>5, <1>7, <1>8, <1>9, <1>10 DEF ReadIsTrue
<1> QED
  BY <1>2, <1>3, <1>5, <1>11, ReadingKeeps

\* The read of the one process.
LEMMA HandleKeeps ==
    ASSUME IInv, Kept, NEW n \in Calls, Handle(n), calls[n].op \in Reading
    PROVE  Kept'
<1>1. Moved(n, "end", "ok")
  BY MovesEnd DEF IInv, Handle
<1>2. /\ Goes(n, "end", "ok") /\ calls[n].at = "start" /\ rest' = rest
      /\ (calls[n].op = "get" => Found(n)) /\ rows' = rows
  BY <1>1 DEF Handle, InMemory, Goes, IInv, Stages, Reading, Changed
<1>3. Grows /\ Past /\ RowsInv /\ rest[n] = << >>
      /\ rest \in [Calls -> Seq(Heads)] /\ shown \in [Calls -> Seq(Answered)]
  BY <1>2, GoesGrows DEF Kept, ReadsInv, ReadIsTrue
<1> PICK es : es = Entries(n)
  OBVIOUS
<1> PICK ds : ds = Details(es)
  OBVIOUS
<1>4. /\ es \in Seq(Heads)
      /\ \A e \in Range(es) : TrueHead(n, e)
      /\ calls[n].op = "list" => \A c \in Ids : ToBeFound(c, n) => \E e \in Range(es) : e.id = c
  BY <1>2, <1>3, EntriesAre
<1>5. ASSUME NEW i \in DOMAIN es
      PROVE  /\ ds[i] \in Answered /\ ds[i].id = es[i].id
             /\ TrueHead(n, ds[i]) /\ TrueMessages(n, ds[i])
  <2> PICK e : e = es[i]
    OBVIOUS
  <2> PICK d : d = Detail(e)
    OBVIOUS
  <2>1. ds[i] = d
    BY DEF Details
  <2>2. e \in Heads /\ TrueHead(n, e)
    BY <1>4 DEF Range
  <2> QED
    BY <1>3, <2>1, <2>2, DetailIs
<1>6. DOMAIN ds = DOMAIN es /\ ds \in Seq(Answered)
  <2>1. ds = [i \in DOMAIN es |-> Detail(es[i])]
    BY DEF Details
  <2> QED
    BY <1>4, <1>5, <2>1
<1>7. \A d \in Range(ds) : d \in Answered /\ TrueHead(n, d) /\ TrueMessages(n, d)
  BY <1>5, <1>6 DEF Range
<1>8. calls[n].op = "list" => \A c \in Ids : ToBeFound(c, n) => \E d \in Range(ds) : d.id = c
  BY <1>4, <1>5, <1>6 DEF Range
<1>9. /\ shown' \in [Calls -> Seq(Answered)] /\ shown'[n] = ds
      /\ \A k \in Calls : k # n => shown'[k] = shown[k]
  BY <1>3, <1>6 DEF Handle
<1>10. RowsKeep
  BY <1>2 DEF RowsKeep, Matches
<1>11. calls[n].op # "none" /\ calls'[n].op = calls[n].op
       /\ calls'[n].at = "end" /\ calls'[n].answer = "ok"
  BY <1>2 DEF Reading, Goes, Moved
<1>12. \A d \in Range(ds) : TrueHead(n, d)' /\ TrueMessages(n, d)'
  BY <1>3, <1>7, <1>11, HeadGoes, MessagesGo
<1>13. \A c \in Ids : ToBeFound(c, n)' => ToBeFound(c, n)
  BY <1>3, <1>10, <1>11, FoundBefore
<1>14. rest'[n] = << >> /\ Range(rest'[n]) = {}
  BY <1>2, <1>3 DEF Range
<1>15. ReadIsTrue(n)'
  BY <1>8, <1>9, <1>11, <1>12, <1>13, <1>14 DEF ReadIsTrue
<1> QED
  BY <1>2, <1>3, <1>9, <1>15, ReadingKeeps

\* What the first element of a sequence adds to the others.
LEMMA RangeOfTail ==
    ASSUME NEW S, NEW s \in Seq(S), s # << >>
    PROVE  Tail(s) \in Seq(S) /\ Head(s) \in S /\ Range(s) = {Head(s)} \cup Range(Tail(s))
<1>1. Len(s) \in Nat \ {0} /\ DOMAIN s = 1 .. Len(s)
  OBVIOUS
<1>2. /\ Tail(s) \in Seq(S) /\ Head(s) = s[1] /\ Len(Tail(s)) = Len(s) - 1
      /\ \A i \in 1 .. Len(s) - 1 : Tail(s)[i] = s[i + 1]
  BY <1>1
<1>3. ASSUME NEW i \in DOMAIN s PROVE s[i] \in {Head(s)} \cup Range(Tail(s))
  <2>1. CASE i = 1
    BY <1>2, <2>1
  <2>2. CASE i # 1
    <3>1. i - 1 \in DOMAIN Tail(s) /\ Tail(s)[i - 1] = s[i]
      BY <1>1, <1>2, <2>2
    <3> QED
      BY <3>1 DEF Range
  <2> QED
    BY <2>1, <2>2
<1>4. ASSUME NEW i \in DOMAIN Tail(s) PROVE Tail(s)[i] \in Range(s)
  <2>1. i + 1 \in DOMAIN s /\ Tail(s)[i] = s[i + 1]
    BY <1>1, <1>2
  <2> QED
    BY <2>1 DEF Range
<1>5. Head(s) \in Range(s) /\ Head(s) \in S
  BY <1>1, <1>2 DEF Range
<1> QED
  BY <1>2, <1>3, <1>4, <1>5 DEF Range

\* What one more element adds.
LEMMA RangeOfAppend ==
    ASSUME NEW S, NEW s \in Seq(S), NEW d \in S
    PROVE  Append(s, d) \in Seq(S) /\ Range(Append(s, d)) = Range(s) \cup {d}
<1>1. /\ Append(s, d) \in Seq(S) /\ DOMAIN s = 1 .. Len(s) /\ Len(s) \in Nat
      /\ DOMAIN Append(s, d) = 1 .. Len(s) + 1
      /\ \A i \in 1 .. Len(s) : Append(s, d)[i] = s[i]
      /\ Append(s, d)[Len(s) + 1] = d
  OBVIOUS
<1>2. \A i \in 1 .. Len(s) + 1 : i = Len(s) + 1 \/ i \in 1 .. Len(s)
  BY <1>1
<1>3. 1 .. Len(s) \subseteq 1 .. Len(s) + 1 /\ Len(s) + 1 \in 1 .. Len(s) + 1
  BY <1>1
<1> QED
  BY <1>1, <1>2, <1>3 DEF Range

\* A read that gets the messages of its next conversation.
LEMMA FetchKeeps == ASSUME IInv, Kept, NEW n \in Calls, FetchMessages(n) PROVE Kept'
<1>1. /\ calls' = calls /\ rows' = rows /\ postgres' = postgres /\ rest[n] # << >>
      /\ calls[n].at = "selected" /\ calls[n].op \in Reading /\ calls[n].answer = "none"
  BY DEF FetchMessages, AtWork, settings, IInv, Stages
<1>2. Past /\ RowsInv /\ ReadsInv /\ ReadIsTrue(n)
      /\ rest \in [Calls -> Seq(Heads)] /\ shown \in [Calls -> Seq(Answered)]
  BY DEF Kept, ReadsInv
<1> PICK e : e = Head(rest[n])
  OBVIOUS
<1> PICK d : d = Detail(e)
  OBVIOUS
<1> PICK tail : tail = Tail(rest[n])
  OBVIOUS
<1> PICK more : more = Append(shown[n], d)
  OBVIOUS
<1>3. tail \in Seq(Heads) /\ e \in Heads /\ Range(rest[n]) = {e} \cup Range(tail)
  BY <1>1, <1>2, RangeOfTail
<1>4. TrueHead(n, e)
  BY <1>1, <1>2, <1>3 DEF ReadIsTrue
<1>5. d \in Answered /\ d.id = e.id /\ TrueHead(n, d) /\ TrueMessages(n, d)
  BY <1>2, <1>3, <1>4, DetailIs
<1>6. more \in Seq(Answered) /\ Range(more) = Range(shown[n]) \cup {d}
  BY <1>2, <1>5, RangeOfAppend
<1>7. /\ rest' \in [Calls -> Seq(Heads)] /\ shown' \in [Calls -> Seq(Answered)]
      /\ rest'[n] = tail /\ shown'[n] = more
      /\ \A k \in Calls : k # n => rest'[k] = rest[k] /\ shown'[k] = shown[k]
  BY <1>2, <1>3, <1>6 DEF FetchMessages
<1>8. Past' /\ RowsInv'
  BY <1>1, <1>2 DEF Past, RowsInv, KnownIds, RenamesTakeTurns, RowIsMade, RowIsTold, Created,
                    Did, Deleted, Retitled
<1>9. Grows /\ RowsKeep /\ calls[n].op # "none"
  BY <1>1 DEF Grows, RowsKeep, Matches, Reading
<1>10. \A f : TrueHead(n, f) => TrueHead(n, f)'
  BY <1>2, <1>9, HeadGoes
<1>11. \A f \in Answered : TrueMessages(n, f) => TrueMessages(n, f)'
  BY <1>2, <1>9, MessagesGo
<1>12. \A c \in Ids : ToBeFound(c, n)' => ToBeFound(c, n)
  BY <1>2, <1>9, FoundBefore
<1>13. \A f \in Range(shown[n]) : f \in Answered
  BY <1>2 DEF Range
<1>14. /\ \A f \in Range(tail) : TrueHead(n, f)
       /\ \A f \in Range(more) : f \in Answered /\ TrueHead(n, f) /\ TrueMessages(n, f)
       /\ calls[n].op = "list" =>
            \A c \in Ids : ToBeFound(c, n) => \E f \in Range(tail) \cup Range(more) : f.id = c
  BY <1>1, <1>2, <1>3, <1>5, <1>6, <1>13 DEF ReadIsTrue
<1>15. ReadIsTrue(n)'
  BY <1>1, <1>7, <1>10, <1>11, <1>12, <1>14 DEF ReadIsTrue
<1>16. ASSUME NEW k \in Calls, k # n PROVE ReadIsTrue(k)'
  <2>1. ReadIsTrue(k) /\ rest'[k] = rest[k] /\ shown'[k] = shown[k] /\ calls'[k] = calls[k]
    BY <1>1, <1>2, <1>7, <1>16 DEF ReadsInv
  <2>2. CASE calls[k].op = "none"
    <3>1. calls[k].at = "none" /\ calls[k].answer = "none"
      BY <2>2 DEF IInv, Stages
    <3> QED
      BY <2>1, <3>1 DEF ReadIsTrue
  <2>3. CASE calls[k].op # "none"
    <3>1. calls[k].answer = "ok" /\ calls[k].op \in Reading => rest[k] = << >>
      BY <2>1 DEF ReadIsTrue
    <3> QED
      BY <1>2, <1>9, <2>1, <2>3, <3>1, ReadGoes
  <2> QED
    BY <2>2, <2>3
<1> QED
  BY <1>7, <1>8, <1>15, <1>16 DEF Kept, ReadsInv

\* A call that begins.
LEMMA BeginIsKept == ASSUME IInv, Kept, NEW n \in Calls, Begin(n) PROVE Kept'
<1>1. PICK op \in {"create"} \cup Changing \cup Reading, c \in Ids, session \in Owners :
         /\ IF op = "create" THEN c = n ELSE IF op = "list" THEN c = 0 ELSE Known(c)
         /\ calls' = [calls EXCEPT ![n] =
                [NoCall EXCEPT !.op = op, !.conv = c, !.owner = Identity(session),
                               !.at = "start",
                               !.before = {m \in Calls : calls[m].answer # "none"}]]
  BY DEF Begin
<1> DEFINE r == [NoCall EXCEPT !.op = op, !.conv = c, !.owner = Identity(session),
                               !.at = "start",
                               !.before = {m \in Calls : calls[m].answer # "none"}]
<1>2. r.op = op /\ r.conv = c /\ r.at = "start" /\ r.answer = "none"
      /\ r.before = {m \in Calls : calls[m].answer # "none"}
  BY DEF NoCall
<1> HIDE DEF r
<1>3. \A m \in Calls : calls[m].op # "none" <=> m < n
  BY DEF Begin, Begun
<1>4. calls[n].op = "none" /\ calls[n].at = "none" /\ calls[n].answer = "none"
  BY <1>3 DEF Calls, IInv, Stages
<1>5. calls'[n] = r /\ \A m \in Calls : m # n => calls'[m] = calls[m]
  BY <1>1 DEF IInv, TypeOK, r
<1>6. UNCHANGED <<rows, rest, shown>>
  BY DEF Begin, reads
<1>7. Past /\ RowsInv /\ ReadsInv
  BY DEF Kept
<1>8. Grows
  BY <1>4, <1>5 DEF Grows
<1>9. RowsKeep
  BY <1>6 DEF RowsKeep, Matches
<1>10. Past'
  <2>1. ASSUME NEW m \in calls'[n].before PROVE m \in 1 .. n - 1 /\ calls'[m].answer # "none"
    <3>1. m \in Calls /\ calls[m].answer # "none"
      BY <1>2, <1>5, <2>1
    <3>2. calls[m].op # "none" /\ m # n
      BY <1>4, <3>1 DEF IInv, Stages
    <3> QED
      BY <1>3, <1>5, <3>1, <3>2 DEF Calls
  <2>2. ASSUME NEW k \in Calls, k # n, NEW m \in calls'[k].before
        PROVE  m \in 1 .. k - 1 /\ calls'[m].answer # "none"
    <3>1. m \in calls[k].before /\ m \in Calls
      BY <1>5, <2>2 DEF IInv, TypeOK, CallType
    <3>2. m \in 1 .. k - 1 /\ calls[m].answer # "none"
      BY <1>7, <3>1 DEF Past
    <3> QED
      BY <1>4, <1>5, <3>1, <3>2
  <2> QED
    BY <2>1, <2>2 DEF Past
<1>11. ASSUME NEW m \in Calls, NEW o, NEW d PROVE Did(m, o, d)' <=> Did(m, o, d)
  BY <1>2, <1>4, <1>5 DEF Did
<1>12. KnownIds'
  <2>1. op \in Changing \cup {"get"} =>
           c = 0 \/ (c \in Calls /\ calls[c].op = "create" /\ calls[c].at = "end")
    <3>1. rows[c] # Absent =>
             c = 0 \/ (c \in Calls /\ calls[c].op = "create" /\ calls[c].at = "end")
      BY <1>7 DEF RowsInv, RowIsMade
    <3>2. c \in Calls /\ calls[c].answer = "ok" => calls[c].at = "end"
      BY DEF IInv, Stages, TypeOK, CallType
    <3> QED
      BY <1>1, <3>1, <3>2 DEF Known, Changing
  <2>2. \A k \in Calls : k # n => calls'[k] = calls[k]
    BY <1>5
  <2> QED
    BY <1>2, <1>4, <1>5, <1>7, <2>1 DEF RowsInv, KnownIds
<1>13. RenamesTakeTurns'
  <2> SUFFICES ASSUME NEW k \in Calls, NEW m \in Calls,
                      calls'[k].at \in {"locked", "commit"}, calls'[k].op \in Changing,
                      NEW d, d = calls'[k].conv, Did(m, "rename", d)'
               PROVE  k \notin calls'[m].before
    BY DEF RenamesTakeTurns, Did
  <2>1. k # n /\ calls'[k] = calls[k]
    BY <1>2, <1>5
  <2>2. Did(m, "rename", d)
    BY <1>11
  <2>3. m # n /\ calls'[m] = calls[m]
    BY <1>4, <1>5, <2>2 DEF Did
  <2> QED
    BY <1>7, <2>1, <2>2, <2>3 DEF RowsInv, RenamesTakeTurns
<1>14. ASSUME NEW d \in Ids PROVE RowIsMade(d)' /\ RowIsTold(d)'
  <2>1. RowIsMade(d) /\ RowIsTold(d) /\ (rows[d] # Absent => rows[d].messages \subseteq Calls)
    BY <1>7 DEF RowsInv, IInv, TypeOK, Row
  <2>2. RowIsMade(d)'
    BY <1>4, <1>5, <1>6, <2>1 DEF RowIsMade
  <2>3. Deleted(d) => Deleted(d)'
    BY <1>8, DeletedStays
  <2>4. ASSUME NEW m \in Calls, Did(m, "rename", d), NEW title
        PROVE  Retitled(title, m, d) => Retitled(title, m, d)'
    <3>1. m # n
      BY <1>4, <2>4 DEF Did
    <3> QED
      BY <1>5, <3>1 DEF Retitled
  <2>5. Created(d)' => Created(d)
    BY <1>11 DEF Created
  <2>6. RowIsTold(d)'
    <3>1. Created(d)' => Deleted(d)' \/ rows'[d] # Absent
      BY <1>6, <2>1, <2>3, <2>5 DEF RowIsTold
    <3>2. ASSUME NEW m \in Calls
          PROVE  /\ Did(m, "add", d)' =>
                       Deleted(d)' \/ (rows'[d] # Absent /\ m \in rows'[d].messages)
                 /\ Did(m, "rename", d)' /\ rows'[d] # Absent => Retitled(rows[d].title, m, d)'
                 /\ Did(m, "delete", d)' => rows'[d] = Absent
      <4> PICK title : title = rows[d].title
        OBVIOUS
      <4>1. Retitled(title, m, d)' => Retitled(rows[d].title, m, d)'
        BY <1>6 DEF Retitled
      <4> QED
        BY <1>6, <1>11, <2>1, <2>3, <2>4, <4>1 DEF RowIsTold
    <3> QED
      BY <3>1, <3>2 DEF RowIsTold
  <2> QED
    BY <2>2, <2>6
<1>15. ASSUME NEW k \in Calls PROVE ReadIsTrue(k)'
  <2>0. ReadIsTrue(k) /\ shown[k] \in Seq(Answered)
    BY <1>7 DEF ReadsInv
  <2>1. CASE calls[k].op = "none"
    <3>1. calls'[k].at \in {"none", "start"} /\ calls'[k].answer = "none"
          /\ calls[k].at = "none"
      BY <1>2, <1>5, <2>1 DEF IInv, Stages
    <3> QED
      BY <1>6, <2>0, <3>1 DEF ReadIsTrue
  <2>2. CASE calls[k].op # "none"
    <3>1. calls'[k] = calls[k] /\ rest'[k] = rest[k] /\ shown'[k] = shown[k]
      BY <1>4, <1>5, <1>6, <2>2
    <3>2. calls[k].answer = "ok" /\ calls[k].op \in Reading => rest[k] = << >>
      BY <2>0 DEF ReadIsTrue
    <3> QED
      BY <1>7, <1>8, <1>9, <2>0, <2>2, <3>1, <3>2, ReadGoes
  <2> QED
    BY <2>1, <2>2
<1> QED
  BY <1>6, <1>7, <1>10, <1>12, <1>13, <1>14, <1>15 DEF Kept, RowsInv, ReadsInv

\* In the initial states nobody has been told anything.
LEMMA InitIsKept == Init => Kept
<1> SUFFICES ASSUME Init PROVE Kept
  OBVIOUS
<1>1. \A n \in Calls : /\ calls[n].op = "none" /\ calls[n].at = "none"
                       /\ calls[n].answer = "none" /\ calls[n].before = {}
                       /\ shown[n] = << >> /\ rest[n] = << >> /\ rows[n] = Absent
  BY CallsAreIds DEF Init, NoCall
<1>2. Past
  BY <1>1 DEF Past
<1>3. KnownIds /\ RenamesTakeTurns
  BY <1>1 DEF KnownIds, RenamesTakeTurns, Changing
<1>4. rows[0].messages = {} /\ rows[0].updated = 0 /\ rows[0] # Absent
  BY CallsAreIds, NewRowType, OwnersAssumption, AbsentAssumption DEF Init, NewRow
<1>5. \A c \in Ids : c = 0 \/ c \in Calls
  BY BoundsAssumption DEF Ids, Calls
<1>6. \A c \in Ids : RowIsMade(c) /\ RowIsTold(c)
  BY <1>1, <1>4, <1>5 DEF RowIsMade, RowIsTold, Did, Created
<1>7. \A n \in Calls : ReadIsTrue(n)
  BY <1>1 DEF ReadIsTrue
<1>8. rest \in [Calls -> Seq(Heads)] /\ shown \in [Calls -> Seq(Answered)]
  BY DEF Init
<1> QED
  BY <1>2, <1>3, <1>6, <1>7, <1>8 DEF Kept, RowsInv, ReadsInv

\* Until the memory is lost, what was told stays true.
LEMMA NextIsKept == IInv /\ (~ lost => Kept) /\ [Next]_vars => (~ lost => Kept)'
<1> SUFFICES ASSUME IInv, ~ lost => Kept, [Next]_vars, ~ lost' PROVE Kept'
  OBVIOUS
<1>0. CASE lost
  BY <1>0 DEF Next, vars, Step, Settle, Begin, InsertRow, LockRow, NextStatement, NotFound,
              Commit, SelectRows, FetchMessages, Return, CallFails, RollBack, CommitUnheard,
              Handle, HandleMissing, AnswerLost, Restart
<1>1. CASE ~ lost
  <2>0. Kept
    BY <1>1
  <2>1. ASSUME NEW n \in Calls, Begin(n) PROVE Kept'
    BY <2>0, <2>1, BeginIsKept
  <2>2. ASSUME NEW n \in Calls, Step(n) \/ CallFails(n) \/ Settle(n) \/ AnswerLost(n)
        PROVE  Kept'
    <3>1. CASE SelectRows(n)
      BY <2>0, <3>1, SelectKeeps
    <3>2. CASE FetchMessages(n)
      BY <2>0, <3>2, FetchKeeps
    <3>3. CASE Handle(n)
      BY <2>0, <3>3, HandleKeeps, EffectsKeep
    <3>4. CASE Commit(n) \/ CommitUnheard(n)
      BY <2>0, <3>4, EffectsKeep
    <3>5. CASE AnswerLost(n)
      BY <2>0, <3>5, EffectsKeep, QuietStepsKeep
    <3> QED
      BY <2>0, <2>2, <3>1, <3>2, <3>3, <3>4, <3>5, QuietStepsKeep DEF Step, Settle
  <2>3. ASSUME Restart PROVE FALSE
    BY <2>3 DEF Restart
  <2>4. CASE UNCHANGED vars
    BY <2>0, <2>4
       DEF vars, Kept, Past, RowsInv, KnownIds, RenamesTakeTurns, RowIsMade, RowIsTold, Created,
           Did, Deleted, Retitled, ReadsInv, ReadIsTrue, TrueHead, TrueMessages, ToBeFound,
           Matches
  <2> QED
    BY <2>1, <2>2, <2>3, <2>4 DEF Next
<1> QED
  BY <1>0, <1>1

\* What is kept makes the results recent.
LEMMA KeptIsRecent == IInv /\ (~ lost => Kept) => ReadsAreRecent
<1> SUFFICES ASSUME IInv, Kept, NEW n \in Calls, calls[n].op \in Reading,
                    calls[n].answer \in {"ok", "not_found"}
             PROVE  /\ \A i \in DOMAIN shown[n] : TrueEntry(n, shown[n][i])
                    /\ FindsWhatIsThere(n)
  BY DEF ReadsAreRecent
<1>1. Past /\ RowsInv /\ ReadIsTrue(n) /\ shown[n] \in Seq(Answered)
      /\ calls[n].before \subseteq Calls
  BY DEF Kept, ReadsInv, IInv, TypeOK, CallType
<1>2. \A c : Deleted(c) => MayBeDeleted(c)
  BY DEF Deleted, MayBeDeleted
<1>3. ASSUME NEW i \in DOMAIN shown[n] PROVE TrueEntry(n, shown[n][i])
  <2> PICK e : e = shown[n][i]
    OBVIOUS
  <2>1. shown[n] # << >>
    OBVIOUS
  <2>2. calls[n].answer = "ok"
    BY <1>1, <2>1 DEF ReadIsTrue
  <2>3. e \in Answered /\ TrueHead(n, e) /\ TrueMessages(n, e)
    BY <1>1, <2>2 DEF ReadIsTrue, Range
  <2>4. SentInOrder(e)
    <3> SUFFICES ASSUME NEW a \in DOMAIN e.messages, NEW b \in DOMAIN e.messages, a < b,
                        e.messages[b] \in calls[e.messages[a]].before
                 PROVE  FALSE
      BY DEF SentInOrder
    <3>1. e.messages[a] \in Calls /\ e.messages[b] \in Calls
      BY <2>3 DEF Answered
    <3>2. e.messages[a] < e.messages[b]
      BY <2>3 DEF TrueMessages
    <3>3. e.messages[b] \in 1 .. e.messages[a] - 1
      BY <1>1, <3>1 DEF Past
    <3> QED
      BY <3>1, <3>2, <3>3 DEF Calls
  <2>5. TrueEntry(n, e)
    BY <1>2, <2>3, <2>4 DEF TrueEntry, TrueHead, TrueMessages, Retitled
  <2> QED
    BY <2>5
<1>4. ASSUME NEW c \in Ids,
             c = 0 \/ (c \in calls[n].before /\ Did(c, "create", c)), ~ MayBeDeleted(c)
      PROVE  /\ rows[c] # Absent
             /\ Matches(c, calls[n].owner) =>
                  CASE calls[n].op = "get" -> calls[n].conv = c => calls[n].answer # "not_found"
                    [] OTHER -> \E i \in DOMAIN shown[n] : shown[n][i].id = c
  <2>1. ~ Deleted(c)
    BY <1>2, <1>4
  <2>2. rows[c] # Absent
    BY <1>1, <1>4, <2>1 DEF RowsInv, RowIsTold, Created
  <2>3. Matches(c, calls[n].owner) => ToBeFound(c, n)
    BY <1>4, <2>1 DEF ToBeFound
  <2>4. CASE calls[n].op = "get"
    BY <1>1, <2>2, <2>3, <2>4 DEF ReadIsTrue
  <2>5. CASE calls[n].op = "list"
    <3>1. calls[n].answer = "ok" /\ rest[n] = << >> /\ Range(rest[n]) = {}
      BY <1>1, <2>5 DEF ReadIsTrue, Range
    <3>2. Matches(c, calls[n].owner) => \E e \in Range(shown[n]) : e.id = c
      BY <1>1, <2>3, <2>5, <3>1 DEF ReadIsTrue
    <3> QED
      BY <2>2, <2>5, <3>2 DEF Range
  <2> QED
    BY <2>4, <2>5 DEF Reading
<1> QED
  BY <1>3, <1>4 DEF FindsWhatIsThere

\* What a get or a list returns takes account of all that was acknowledged before it, with
\* any number of processes and calls: no conversation that was deleted, no title that was
\* replaced, all messages and all conversations of the caller, until a restart of the one
\* process that keeps them in memory.
THEOREM ReadsAreRecentAlways == Spec => []ReadsAreRecent
<1>1. Init => (~ lost => Kept)
  BY InitIsKept
<1> QED
  BY <1>1, NextIsKept, KeptIsRecent, Inductive, PTL DEF Spec
================================================================================
