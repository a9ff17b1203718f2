------------------------------- MODULE LazyOnce -------------------------------
(***************************************************************************)
(* A value built by its first user, under double-checked locking: look,    *)
(* take the lock, look again, build, store, release.  The process has two  *)
(* of them, the BGE-M3 encoder shared by all worker threads                *)
(* (embedding_model.py) and the Legal QA service (api/dependencies.py).    *)
(*                                                                         *)
(* Values are numbered in the order in which they are built; 0 is None.    *)
(***************************************************************************)
EXTENDS Integers

CONSTANT Users

VARIABLES
    value,   \* what is cached
    built,   \* how many values have been built
    owner,   \* the user who holds the lock, {} when it is free
    at,      \* where each user is
    got      \* what the last call of each user returned

vars == <<value, built, owner, at, got>>

Init ==
    /\ value = 0
    /\ built = 0
    /\ owner = {}
    /\ at = [u \in Users |-> "out"]
    /\ got = [u \in Users |-> 0]

Return(u, v) ==
    /\ at' = [at EXCEPT ![u] = "returned"]
    /\ got' = [got EXCEPT ![u] = v]

Call(u) ==
    /\ at[u] = "out"
    /\ IF value # 0
       THEN Return(u, value)
       ELSE at' = [at EXCEPT ![u] = "waiting"] /\ UNCHANGED got
    /\ UNCHANGED <<value, built, owner>>

Acquire(u) ==
    /\ at[u] = "waiting"
    /\ owner = {}
    /\ owner' = {u}
    /\ at' = [at EXCEPT ![u] = "locked"]
    /\ UNCHANGED <<value, built, got>>

\* Mutant: the value is not looked at again under the lock.
RecheckNothing(u) ==
    /\ at[u] = "locked"
    /\ at' = [at EXCEPT ![u] = "building"]
    /\ UNCHANGED <<value, built, owner, got>>

\* Another user may have built the value while this one waited.
Recheck(u) ==
    /\ at[u] = "locked"
    /\ IF value # 0
       THEN Return(u, value) /\ owner' = {}
       ELSE at' = [at EXCEPT ![u] = "building"] /\ UNCHANGED <<owner, got>>
    /\ UNCHANGED <<value, built>>

Build(u) ==
    /\ at[u] = "building"
    /\ value' = built + 1
    /\ built' = built + 1
    /\ owner' = {}
    /\ Return(u, built + 1)

\* Mutant: the value is stored before it is complete.
BuildRaisesStored(u) ==
    /\ at[u] = "building"
    /\ owner' = {}
    /\ at' = [at EXCEPT ![u] = "raised"]
    /\ value' = built + 1
    /\ UNCHANGED <<built, got>>

\* Nothing is stored: the next user under the lock tries again.
BuildRaises(u) ==
    /\ at[u] = "building"
    /\ owner' = {}
    /\ at' = [at EXCEPT ![u] = "raised"]
    /\ UNCHANGED <<value, built, got>>

\* The user comes back later.
Leave(u) ==
    /\ at[u] \in {"returned", "raised"}
    /\ at' = [at EXCEPT ![u] = "out"]
    /\ UNCHANGED <<value, built, owner, got>>

Inside(u) == Acquire(u) \/ Recheck(u) \/ Build(u) \/ BuildRaises(u)

Next == \E u \in Users : Call(u) \/ Inside(u) \/ Leave(u)

Spec == Init /\ [][Next]_vars

--------------------------------------------------------------------------------
TypeOK ==
    /\ built \in Nat
    /\ value \in 0 .. built
    /\ owner \in SUBSET Users
    /\ at \in [Users -> {"out", "waiting", "locked", "building", "returned", "raised"}]
    /\ got \in [Users -> 0 .. built]

\* At most one encoder is ever built, however many threads ask for it at once and
\* however many builds have failed before: a second one would double the memory of
\* the process.
BuiltOnce == built <= 1

\* Every user that was given a value was given the cached one.
AllShareOne == \A u \in Users : got[u] # 0 => got[u] = value

\* The lock is held exactly by the user who is inside.
Locked == \A u \in Users : at[u] \in {"locked", "building"} <=> owner = {u}

\* A build runs only while there is no value.
BuildsFirst == \A u \in Users : at[u] = "building" => built = 0

ValueIsLast == value = built

\* Whoever returns was given a value.
Given == \A u \in Users : at[u] = "returned" => got[u] # 0

IInv == TypeOK /\ Locked /\ BuildsFirst /\ ValueIsLast /\ BuiltOnce /\ AllShareOne /\ Given
================================================================================
