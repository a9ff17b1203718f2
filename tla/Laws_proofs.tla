----------------------------- MODULE Laws_proofs -----------------------------
(***************************************************************************)
(* A law from the site to its chunks.  First what the crawler leaves on    *)
(* disk and the audit says of it (Crawl, RawAudit), for every registry,    *)
(* number of tasks, delay and number of retries; then what becomes of the  *)
(* text of a page (LegalText), for every set of pages.                     *)
(***************************************************************************)
EXTENDS RawAudit, LegalText, SequenceTheorems, FiniteSetTheorems, WellFoundedInduction, TLAPS

-----------------------------------------------------------------------------
(* The crawler and the audit.                                              *)

Holding == {l \in Laws : at[l] \in {"lock", "delay", "inflight"}}

Admitted == {l \in Laws :
    at[l] \in {"permit", "lock", "delay", "inflight", "pause", "fetched"}}

\* The type of each variable, without the upper bounds of the two semaphores.
Typed ==
    /\ up \in BOOLEAN
    /\ run \in 0 .. MaxRuns
    /\ at \in [Laws -> TaskPlaces]
    /\ retries \in [Laws -> 0 .. MaxRetries + 1]
    /\ sleep \in [Laws -> Nat]
    /\ slots \in Nat
    /\ permits \in Nat
    /\ lock \in [Hosts -> SUBSET Laws]
    /\ since \in [Hosts -> 0 .. Delay]
    /\ result \in [Laws -> {"none", "ok", "failed"}]
    /\ page \in [Laws -> Torn .. MaxRuns]
    /\ meta \in [Laws -> Torn .. MaxRuns]
    /\ quiet \in [Hosts -> 0 .. Delay]
    /\ recrawled \subseteq Laws

\* A task that may try again has retries left.
RetriesLeft == \A l \in Laws :
    at[l] \notin {"done", "fetched"} => retries[l] <= MaxRetries

\* Nothing of a run outlives it but its files; a run has a number.
MemoryGone ==
    /\ ~up => /\ at = [l \in Laws |-> "none"]
              /\ retries = [l \in Laws |-> 0]
              /\ result = [l \in Laws |-> "none"]
    /\ up => run > 0

Counted ==
    /\ permits = Concurrency - Cardinality(Holding)
    /\ slots = Concurrency - Cardinality(Admitted)

\* The lock of a host belongs to the one task that sleeps before its request, and the
\* host is quiet for long enough when it wakes.
Locking ==
    /\ quiet = since
    /\ \A l \in Laws : at[l] = "delay" =>
           lock[HostOf[l]] = {l} /\ sleep[l] + since[HostOf[l]] >= Delay
    /\ \A h \in Hosts : \A l \in lock[h] : at[l] = "delay" /\ HostOf[l] = h

\* A page is written before its metadata; a law a task works on was not on disk, or is
\* fetched again.
Working ==
    /\ \A l \in Laws : page[l] = 0 => meta[l] = 0
    /\ \A l \in Laws : at[l] \notin {"none", "skipped", "done"} /\ Crawled(l)
           => l \in recrawled

OkIsDone == \A l \in Laws : result[l] = "ok" => at[l] = "done"

--------------------------------------------------------------------------------
LEMMA Limits ==
    /\ Concurrency \in Nat /\ Delay \in Nat /\ MaxRetries \in Nat /\ MaxRuns \in Nat
    /\ IsFiniteSet(Laws)
    /\ \A l \in Laws : HostOf[l] \in Hosts
  BY RegistryAssumption, LimitsAssumption

\* Every variable keeps its type, the bounds of the semaphores apart.
LEMMA TypedInductive == Typed /\ RetriesLeft /\ MemoryGone /\ [Next]_vars
                            => Typed' /\ RetriesLeft' /\ MemoryGone'
<1> SUFFICES ASSUME Typed, RetriesLeft, MemoryGone, [Next]_vars
             PROVE  Typed' /\ RetriesLeft' /\ MemoryGone'
  OBVIOUS
<1> USE Limits DEF Typed, RetriesLeft, MemoryGone, TaskPlaces, disk, limiter, tasks, Torn
<1>1. CASE UNCHANGED vars
  BY <1>1 DEF vars
<1>2. ASSUME NEW skip \in BOOLEAN, Start(skip) PROVE Typed' /\ RetriesLeft' /\ MemoryGone'
  <2>1. Typed'
    BY <1>2 DEF Start
  <2>2. RetriesLeft' /\ MemoryGone'
    BY <1>2 DEF Start
  <2> QED BY <2>1, <2>2
<1>3. CASE Exit /\ UNCHANGED disk
  <2>1. Concurrency \in Nat /\ Delay \in 0 .. Delay /\ 0 \in 0 .. MaxRetries + 1
    OBVIOUS
  <2>2. Typed'
    BY <1>3, <2>1 DEF Exit
  <2>3. RetriesLeft' /\ MemoryGone'
    BY <1>3, <2>1 DEF Exit
  <2> QED BY <2>2, <2>3
<1>4. ASSUME NEW l \in Laws, Begin(l) PROVE Typed' /\ RetriesLeft' /\ MemoryGone'
  BY <1>4 DEF Begin, Go
<1>5. ASSUME NEW l \in Laws, AcquirePermit(l) PROVE Typed' /\ RetriesLeft' /\ MemoryGone'
  BY <1>5 DEF AcquirePermit, Go
<1>6. ASSUME NEW l \in Laws, HostLock(l) \/ DelayEnds(l)
      PROVE  Typed' /\ RetriesLeft' /\ MemoryGone'
  <2>1. HostOf[l] \in Hosts /\ 0 \in 0 .. Delay
    OBVIOUS
  <2>2. Typed'
    BY <1>6, <2>1 DEF HostLock, DelayEnds, Send, Go
  <2>3. RetriesLeft' /\ MemoryGone'
    BY <1>6 DEF HostLock, DelayEnds, Send, Go
  <2> QED BY <2>2, <2>3
<1>7. ASSUME NEW l \in Laws, RequestFails(l) \/ PauseEnds(l)
      PROVE  Typed' /\ RetriesLeft' /\ MemoryGone'
  <2>1. up /\ retries[l] \in 0 .. MaxRetries /\ Retry(l)
    BY <1>7 DEF RequestFails, PauseEnds
  <2>2. UNCHANGED <<up, run, sleep, lock, since, quiet, page, meta, recrawled>>
    BY <1>7 DEF RequestFails, PauseEnds
  <2>3. permits' \in Nat
    BY <1>7 DEF RequestFails, PauseEnds
  <2>4. retries' \in [Laws -> 0 .. MaxRetries + 1] /\ RetriesLeft'
    BY <2>1 DEF Retry, Done, Go
  <2>5. /\ at' \in [Laws -> TaskPlaces]
        /\ result' \in [Laws -> {"none", "ok", "failed"}]
        /\ slots' \in Nat
    BY <2>1 DEF Retry, Done, Go
  <2> QED BY <2>1, <2>2, <2>3, <2>4, <2>5
<1>8. ASSUME NEW l \in Laws, NEW wait \in RetryAfters, TooManyRequests(l, wait)
      PROVE  Typed' /\ RetriesLeft' /\ MemoryGone'
  BY <1>8, LimitsAssumption DEF TooManyRequests, Go
<1>9. ASSUME NEW l \in Laws, Refused(l) \/ Fetched(l)
      PROVE  Typed' /\ RetriesLeft' /\ MemoryGone'
  BY <1>9 DEF Refused, Fetched, Done, Go
<1>10. ASSUME NEW l \in Laws, Save(l) \/ SaveFails(l)
       PROVE  Typed' /\ RetriesLeft' /\ MemoryGone'
  BY <1>10 DEF Save, SaveFails, WriteBoth, WriteSome, Done, Go
<1>11. ASSUME NEW l \in Laws, CrashSaving(l) PROVE Typed' /\ RetriesLeft' /\ MemoryGone'
  <2>1. Exit
    BY <1>11 DEF CrashSaving
  <2>2. Concurrency \in Nat /\ Delay \in 0 .. Delay /\ 0 \in 0 .. MaxRetries + 1
    OBVIOUS
  <2>3. page' \in [Laws -> Torn .. MaxRuns] /\ meta' \in [Laws -> Torn .. MaxRuns]
    BY <1>11 DEF CrashSaving, WriteSome
  <2>4. Typed'
    BY <2>1, <2>2, <2>3 DEF Exit
  <2>5. RetriesLeft' /\ MemoryGone'
    BY <2>1, <2>2 DEF Exit
  <2> QED BY <2>4, <2>5
<1>12. CASE Tick
  <2>1. \A n \in 0 .. Delay : AtMost(n + 1, Delay) \in 0 .. Delay
    BY DEF AtMost
  <2>2. sleep' \in [Laws -> Nat]
    BY <1>12 DEF Tick
  <2>3. since' \in [Hosts -> 0 .. Delay] /\ quiet' \in [Hosts -> 0 .. Delay]
    BY <1>12, <2>1 DEF Tick
  <2>4. UNCHANGED <<up, run, at, retries, slots, result, permits, lock, disk, recrawled>>
    BY <1>12 DEF Tick
  <2> QED BY <2>2, <2>3, <2>4
<1> QED
  BY <1>1, <1>2, <1>3, <1>4, <1>5, <1>6, <1>7, <1>8, <1>9, <1>10, <1>11, <1>12
  DEF Next, Step, Answer, Finish, Crash
--------------------------------------------------------------------------------
LEMMA CountFacts ==
    ASSUME NEW S \in SUBSET Laws, NEW l \in Laws
    PROVE  /\ Cardinality(S) \in Nat
           /\ l \notin S => Cardinality(S \cup {l}) = Cardinality(S) + 1
           /\ l \in S => Cardinality(S \ {l}) = Cardinality(S) - 1
<1>1. IsFiniteSet(S)
  BY Limits, FS_Subset
<1> QED
  BY <1>1, FS_CardinalityType, FS_AddElement, FS_RemoveElement

\* Each semaphore counts the tasks that are past it.
LEMMA CountedInductive == Typed /\ MemoryGone /\ Counted /\ [Next]_vars => Counted'
<1> SUFFICES ASSUME Typed, MemoryGone, Counted, [Next]_vars PROVE Counted'
  OBVIOUS
<1> USE Limits DEF Typed, Counted
<1>0. Holding \in SUBSET Laws /\ Admitted \in SUBSET Laws
  BY DEF Holding, Admitted
<1>1. CASE UNCHANGED <<at, slots, permits>>
  BY <1>1 DEF Holding, Admitted
<1>2. ASSUME at' \in [Laws -> {"none", "skipped", "queued"}],
             slots' = Concurrency, permits' = Concurrency
      PROVE  Counted'
  <2>1. Holding' = {} /\ Admitted' = {}
    BY <1>2 DEF Holding, Admitted
  <2> QED BY <2>1, <1>2, FS_EmptySet
<1>3. ASSUME NEW skip \in BOOLEAN, Start(skip) PROVE Counted'
  <2>1. Holding = {} /\ Admitted = {}
    BY <1>3 DEF Start, MemoryGone, Holding, Admitted
  <2>2. slots = Concurrency /\ permits = Concurrency
    BY <2>1, FS_EmptySet
  <2>3. at' \in [Laws -> {"none", "skipped", "queued"}]
    BY <1>3 DEF Start
  <2> QED BY <1>2, <1>3, <2>2, <2>3 DEF Start, limiter
<1>4. CASE Exit
  BY <1>2, <1>4 DEF Exit
<1>5. ASSUME NEW l \in Laws, Begin(l) PROVE Counted'
  <2>1. CASE l \in Untrusted
    <3>1. Holding' = Holding /\ Admitted' = Admitted
      BY <1>5, <2>1 DEF Begin, Go, Holding, Admitted
    <3> QED BY <1>5, <2>1, <3>1 DEF Begin, limiter
  <2>2. CASE l \notin Untrusted
    <3>1. l \notin Admitted /\ Holding' = Holding /\ Admitted' = Admitted \cup {l}
      BY <1>5, <2>2 DEF Begin, Go, Holding, Admitted
    <3>2. Cardinality(Admitted') = Cardinality(Admitted) + 1
      BY <3>1, <1>0, CountFacts
    <3> QED BY <1>5, <2>2, <3>1, <3>2, <1>0, CountFacts DEF Begin, limiter
  <2> QED BY <2>1, <2>2
<1>6. ASSUME NEW l \in Laws, AcquirePermit(l) PROVE Counted'
  <2>1. l \notin Holding /\ Holding' = Holding \cup {l} /\ Admitted' = Admitted
    BY <1>6 DEF AcquirePermit, Go, Holding, Admitted
  <2>2. Cardinality(Holding') = Cardinality(Holding) + 1
    BY <2>1, <1>0, CountFacts
  <2> QED BY <1>6, <2>1, <2>2, <1>0, CountFacts DEF AcquirePermit
<1>7. ASSUME NEW l \in Laws, HostLock(l) \/ DelayEnds(l) PROVE Counted'
  <2>1. Holding' = Holding /\ Admitted' = Admitted
    BY <1>7 DEF HostLock, DelayEnds, Send, Go, Holding, Admitted
  <2>2. UNCHANGED <<permits, slots>>
    BY <1>7 DEF HostLock, DelayEnds
  <2> QED BY <2>1, <2>2
<1>8. ASSUME NEW l \in Laws, at[l] = "inflight", permits' = permits + 1,
             \/ at' = [at EXCEPT ![l] = "done"] /\ slots' = slots + 1
             \/ at' \in {[at EXCEPT ![l] = p] : p \in {"permit", "pause", "fetched"}}
                /\ slots' = slots
      PROVE  Counted'
  <2>1. l \in Holding /\ l \in Admitted /\ Holding' = Holding \ {l}
    BY <1>8 DEF Holding, Admitted
  <2>2. Cardinality(Holding') = Cardinality(Holding) - 1
    BY <2>1, <1>0, CountFacts
  <2>3. permits' = Concurrency - Cardinality(Holding')
    BY <2>2, <1>8, <1>0, <2>1, CountFacts
  <2>4. CASE at' = [at EXCEPT ![l] = "done"] /\ slots' = slots + 1
    <3>1. Admitted' = Admitted \ {l}
      BY <2>4 DEF Admitted
    <3>2. Cardinality(Admitted') = Cardinality(Admitted) - 1
      BY <2>1, <3>1, <1>0, CountFacts
    <3>3. Cardinality(Admitted) \in Nat
      BY <1>0, CountFacts
    <3>4. slots' = Concurrency - Cardinality(Admitted')
      BY <2>4, <3>2, <3>3
    <3> QED BY <2>3, <3>4
  <2>5. CASE /\ at' \in {[at EXCEPT ![l] = p] : p \in {"permit", "pause", "fetched"}}
             /\ slots' = slots
    <3>1. Admitted' = Admitted
      BY <2>5, <2>1 DEF Admitted
    <3> QED BY <2>3, <2>5, <3>1
  <2> QED BY <1>8, <2>4, <2>5
<1>9. ASSUME NEW l \in Laws, RequestFails(l) PROVE Counted'
  BY <1>8, <1>9 DEF RequestFails, Retry, Done, Go
<1>10. ASSUME NEW l \in Laws, NEW wait \in RetryAfters, TooManyRequests(l, wait)
       PROVE  Counted'
  BY <1>8, <1>10 DEF TooManyRequests, Go
<1>11. ASSUME NEW l \in Laws, Refused(l) \/ Fetched(l) PROVE Counted'
  BY <1>8, <1>11 DEF Refused, Fetched, Done, Go
<1>12. ASSUME NEW l \in Laws, at[l] \in {"pause", "fetched"}, permits' = permits,
              \/ at' = [at EXCEPT ![l] = "done"] /\ slots' = slots + 1
              \/ at' = [at EXCEPT ![l] = "permit"] /\ slots' = slots
       PROVE  Counted'
  <2>1. l \in Admitted /\ Holding' = Holding
    BY <1>12 DEF Holding, Admitted
  <2>2. CASE at' = [at EXCEPT ![l] = "done"] /\ slots' = slots + 1
    <3>1. Admitted' = Admitted \ {l}
      BY <2>2 DEF Admitted
    <3>2. Cardinality(Admitted') = Cardinality(Admitted) - 1
      BY <2>1, <3>1, <1>0, CountFacts
    <3>3. Cardinality(Admitted) \in Nat
      BY <1>0, CountFacts
    <3>4. slots' = Concurrency - Cardinality(Admitted')
      BY <2>2, <3>2, <3>3
    <3> QED BY <1>12, <2>1, <3>4
  <2>3. CASE at' = [at EXCEPT ![l] = "permit"] /\ slots' = slots
    <3>1. Admitted' = Admitted
      BY <2>3, <2>1 DEF Admitted
    <3> QED BY <1>12, <2>1, <2>3, <3>1
  <2> QED BY <1>12, <2>2, <2>3
<1>13. ASSUME NEW l \in Laws, PauseEnds(l) PROVE Counted'
  BY <1>12, <1>13 DEF PauseEnds, Retry, Done, Go, limiter
<1>14. ASSUME NEW l \in Laws, Save(l) \/ SaveFails(l) PROVE Counted'
  BY <1>12, <1>14 DEF Save, SaveFails, Done, Go, limiter
<1> QED
  BY <1>1, <1>3, <1>4, <1>5, <1>6, <1>7, <1>9, <1>10, <1>11, <1>13, <1>14
  DEF Next, Step, Answer, Finish, Crash, CrashSaving, Tick, vars, tasks, limiter
--------------------------------------------------------------------------------
LEMMA LockingInductive == Typed /\ MemoryGone /\ Locking /\ [Next]_vars => Locking'
<1> SUFFICES ASSUME Typed, MemoryGone, Locking, [Next]_vars PROVE Locking'
  OBVIOUS
<1> USE Limits DEF Typed, Locking
<1>1. CASE UNCHANGED <<at, sleep, lock, since, quiet>>
  BY <1>1
<1>2. ASSUME NEW skip \in BOOLEAN, Start(skip) PROVE Locking'
  <2>1. \A l \in Laws : at[l] # "delay" /\ at'[l] # "delay"
    BY <1>2 DEF Start, MemoryGone
  <2>2. \A h \in Hosts : lock[h] = {}
    BY <2>1
  <2> QED BY <1>2, <2>1, <2>2 DEF Start, limiter
<1>3. CASE Exit
  BY <1>3 DEF Exit
<1>4. ASSUME NEW l \in Laws, at[l] # "delay", NEW p \in TaskPlaces \ {"delay"},
             at' = [at EXCEPT ![l] = p], UNCHANGED <<lock, since, quiet>>,
             \A m \in Laws \ {l} : sleep'[m] = sleep[m]
      PROVE  Locking'
  <2>1. \A m \in Laws : at'[m] = "delay" => m # l /\ at[m] = "delay"
    BY <1>4
  <2>2. \A h \in Hosts : \A m \in lock[h] : m # l /\ at'[m] = at[m]
    BY <1>4
  <2> QED BY <1>4, <2>1, <2>2
<1>5. ASSUME NEW l \in Laws, Send(l), lock[HostOf[l]] \in SUBSET {l}, UNCHANGED sleep
      PROVE  Locking'
  <2>1. quiet' = since'
    BY <1>5 DEF Send
  <2>2. ASSUME NEW m \in Laws, at'[m] = "delay"
        PROVE  lock'[HostOf[m]] = {m} /\ sleep'[m] + since'[HostOf[m]] >= Delay
    <3>1. m # l /\ at[m] = "delay"
      BY <1>5, <2>2 DEF Send, Go
    <3>2. HostOf[m] # HostOf[l]
      BY <1>5, <3>1, SMTT(30)
    <3> QED BY <1>5, <3>1, <3>2 DEF Send
  <2>3. ASSUME NEW h \in Hosts, NEW m \in lock'[h]
        PROVE  at'[m] = "delay" /\ HostOf[m] = h
    <3>1. h # HostOf[l] /\ m \in lock[h]
      BY <1>5, <2>3 DEF Send
    <3>2. m # l
      BY <3>1
    <3> QED BY <1>5, <3>1, <3>2 DEF Send, Go
  <2> QED BY <2>1, <2>2, <2>3
<1>6. ASSUME NEW l \in Laws, HostLock(l) PROVE Locking'
  <2>1. CASE since[HostOf[l]] >= Delay
    BY <1>5, <1>6, <2>1 DEF HostLock
  <2>2. CASE ~(since[HostOf[l]] >= Delay)
    <3>1. /\ at' = [at EXCEPT ![l] = "delay"] /\ at[l] = "lock"
          /\ sleep' = [sleep EXCEPT ![l] = Delay - since[HostOf[l]]]
          /\ lock[HostOf[l]] = {} /\ lock' = [lock EXCEPT ![HostOf[l]] = {l}]
          /\ UNCHANGED <<since, quiet>>
      BY <1>6, <2>2 DEF HostLock, Go
    <3>2. sleep'[l] + since'[HostOf[l]] >= Delay
      BY <3>1
    <3>3. ASSUME NEW m \in Laws \ {l}, at'[m] = "delay"
          PROVE  lock'[HostOf[m]] = {m} /\ sleep'[m] + since'[HostOf[m]] >= Delay
      BY <3>1, <3>3
    <3>4. ASSUME NEW h \in Hosts, NEW m \in lock'[h]
          PROVE  at'[m] = "delay" /\ HostOf[m] = h
      BY <3>1, <3>4
    <3> QED BY <3>1, <3>2, <3>3, <3>4
  <2> QED BY <2>1, <2>2
<1>7. ASSUME NEW l \in Laws, DelayEnds(l) PROVE Locking'
  BY <1>5, <1>7 DEF DelayEnds
<1>8. CASE Tick
  <2>1. quiet' = since' /\ UNCHANGED <<at, lock>>
    BY <1>8 DEF Tick
  <2>2. ASSUME NEW l \in Laws, at[l] = "delay"
        PROVE  sleep'[l] + since'[HostOf[l]] >= Delay
    <3>1. sleep[l] \in Nat /\ since[HostOf[l]] \in 0 .. Delay
      OBVIOUS
    <3>2. sleep[l] + since[HostOf[l]] >= Delay
      BY <2>2
    <3>3. /\ sleep'[l] = IF sleep[l] > 0 THEN sleep[l] - 1 ELSE 0
          /\ since'[HostOf[l]] = AtMost(since[HostOf[l]] + 1, Delay)
      BY <1>8 DEF Tick
    <3> QED BY <3>1, <3>2, <3>3 DEF AtMost
  <2> QED BY <2>1, <2>2
<1>9. ASSUME NEW l \in Laws, Begin(l) \/ AcquirePermit(l) \/ RequestFails(l)
                 \/ PauseEnds(l) \/ Refused(l) \/ Fetched(l) \/ Save(l) \/ SaveFails(l)
      PROVE  Locking'
  <2>1. /\ at[l] # "delay"
        /\ \E p \in TaskPlaces \ {"delay"} : at' = [at EXCEPT ![l] = p]
        /\ UNCHANGED <<lock, since, quiet, sleep>>
    BY <1>9 DEF Begin, AcquirePermit, RequestFails, PauseEnds, Refused, Fetched, Save,
                SaveFails, Retry, Done, Go, limiter, TaskPlaces
  <2> QED BY <1>4, <2>1
<1>10. ASSUME NEW l \in Laws, NEW wait \in RetryAfters, TooManyRequests(l, wait)
       PROVE  Locking'
  BY <1>4, <1>10 DEF TooManyRequests, Go, TaskPlaces
<1> QED
  BY <1>1, <1>2, <1>3, <1>6, <1>7, <1>8, <1>9, <1>10
  DEF Next, Step, Answer, Finish, Crash, CrashSaving, vars, tasks, limiter
--------------------------------------------------------------------------------
OnDisk == Working /\ OkIsDone /\ SkippedIsWhole /\ ReportedIsStored

LEMMA OnDiskInductive == Typed /\ MemoryGone /\ OnDisk /\ [Next]_vars => OnDisk'
<1> SUFFICES ASSUME Typed, MemoryGone, OnDisk, [Next]_vars PROVE OnDisk'
  OBVIOUS
<1> USE Limits DEF Typed, OnDisk, Working, OkIsDone, SkippedIsWhole, ReportedIsStored
<1>1. CASE UNCHANGED <<run, at, result, disk, recrawled>>
  BY <1>1 DEF disk, Crawled
<1>2. ASSUME NEW skip \in BOOLEAN, Start(skip) PROVE OnDisk'
  <2>1. \A l \in Laws : result'[l] = "none"
    BY <1>2 DEF Start, MemoryGone
  <2>2. UNCHANGED disk /\ recrawled \subseteq recrawled'
    BY <1>2 DEF Start
  <2>3. ASSUME NEW l \in Laws, at'[l] \notin {"none", "skipped", "done"}, Crawled(l)
        PROVE  l \in recrawled'
    BY <1>2, <2>3 DEF Start
  <2> QED BY <2>1, <2>2, <2>3 DEF disk, Crawled
<1>3. CASE Exit /\ UNCHANGED disk
  BY <1>3 DEF Exit, disk, Crawled
<1>4. ASSUME NEW l \in Laws, NEW p \in TaskPlaces \ {"none", "skipped"},
             at[l] \notin {"none", "skipped", "done"},
             at' = [at EXCEPT ![l] = p], UNCHANGED <<run, disk, recrawled>>,
             \/ UNCHANGED result
             \/ p = "done" /\ result' = [result EXCEPT ![l] = "failed"]
      PROVE  OnDisk'
  BY <1>4 DEF disk, Crawled
<1>5. ASSUME NEW l \in Laws, WriteSome(l), at[l] = "fetched", run \in Nat \ {0}
      PROVE  /\ \A m \in Laws : page'[m] = 0 => meta'[m] = 0
             /\ \A m \in Laws \ {l} : page'[m] = page[m] /\ meta'[m] = meta[m]
             /\ l \notin recrawled => ~Crawled(l)'
  BY <1>5 DEF WriteSome, Crawled, disk, Torn
<1>6. ASSUME NEW l \in Laws, Save(l), run \in Nat \ {0} PROVE OnDisk'
  <2>1. /\ page' = [page EXCEPT ![l] = run] /\ meta' = [meta EXCEPT ![l] = run]
        /\ at' = [at EXCEPT ![l] = "done"] /\ result' = [result EXCEPT ![l] = "ok"]
        /\ UNCHANGED <<run, recrawled>>
    BY <1>6 DEF Save, WriteBoth, Done, Go
  <2> QED BY <2>1, <1>6 DEF Crawled
<1>7. ASSUME NEW l \in Laws, SaveFails(l), run \in Nat \ {0} PROVE OnDisk'
  <2>1. /\ at[l] = "fetched" /\ WriteSome(l) /\ UNCHANGED <<run, recrawled>>
        /\ at' = [at EXCEPT ![l] = "done"] /\ result' = [result EXCEPT ![l] = "failed"]
    BY <1>7 DEF SaveFails, Done, Go
  <2>2. /\ \A m \in Laws : page'[m] = 0 => meta'[m] = 0
        /\ \A m \in Laws \ {l} : page'[m] = page[m] /\ meta'[m] = meta[m]
        /\ l \notin recrawled => ~Crawled(l)'
    BY <1>5, <1>7, <2>1
  <2> QED BY <2>1, <2>2 DEF Crawled
<1>8. ASSUME NEW l \in Laws, CrashSaving(l), run \in Nat \ {0} PROVE OnDisk'
  <2>1. /\ at[l] = "fetched" /\ WriteSome(l) /\ UNCHANGED <<run, recrawled>>
        /\ \A m \in Laws : at'[m] = "none" /\ result'[m] = "none"
    BY <1>8 DEF CrashSaving, Exit
  <2>2. /\ \A m \in Laws : page'[m] = 0 => meta'[m] = 0
        /\ \A m \in Laws \ {l} : page'[m] = page[m] /\ meta'[m] = meta[m]
        /\ l \notin recrawled => ~Crawled(l)'
    BY <1>5, <1>8, <2>1
  <2> QED BY <2>1, <2>2 DEF Crawled
<1>9. ASSUME NEW l \in Laws, Begin(l) \/ AcquirePermit(l) \/ HostLock(l) \/ DelayEnds(l)
                 \/ RequestFails(l) \/ PauseEnds(l) \/ Refused(l) \/ Fetched(l)
      PROVE  OnDisk'
  <2>1. /\ at[l] \notin {"none", "skipped", "done"}
        /\ UNCHANGED <<run, disk, recrawled>>
        /\ \E p \in TaskPlaces \ {"none", "skipped"} :
             /\ at' = [at EXCEPT ![l] = p]
             /\ \/ UNCHANGED result
                \/ p = "done" /\ result' = [result EXCEPT ![l] = "failed"]
    BY <1>9 DEF Begin, AcquirePermit, HostLock, DelayEnds, RequestFails, PauseEnds, Refused,
                Fetched, Retry, Send, Done, Go, TaskPlaces
  <2> QED BY <1>4, <2>1
<1>10. ASSUME NEW l \in Laws, NEW wait \in RetryAfters, TooManyRequests(l, wait)
       PROVE  OnDisk'
  BY <1>4, <1>10 DEF TooManyRequests, Go, TaskPlaces
<1>11. up => run \in Nat \ {0}
  BY DEF MemoryGone
<1>12. ASSUME NEW l \in Laws, Save(l) \/ SaveFails(l) \/ CrashSaving(l) PROVE OnDisk'
  <2>1. run \in Nat \ {0}
    BY <1>11, <1>12 DEF Save, SaveFails, CrashSaving
  <2> QED BY <2>1, <1>6, <1>7, <1>8, <1>12
<1> QED
  BY <1>1, <1>2, <1>3, <1>9, <1>10, <1>12
  DEF Next, Step, Answer, Finish, Crash, Tick, vars, tasks
--------------------------------------------------------------------------------
IInv == Typed /\ RetriesLeft /\ MemoryGone /\ Counted /\ Locking /\ OnDisk

LEMMA Inductive == Spec => []IInv
<1>1. Init => IInv
  <2> SUFFICES ASSUME Init PROVE IInv
    OBVIOUS
  <2> USE Limits DEF Init
  <2>1. Typed
    <3>1. Delay \in 0 .. Delay /\ 0 \in 0 .. MaxRuns /\ 0 \in 0 .. MaxRetries + 1
      OBVIOUS
    <3>2. Concurrency \in Nat /\ 0 \in Torn .. MaxRuns
      BY DEF Torn
    <3> QED BY <3>1, <3>2 DEF Typed, TaskPlaces
  <2>6. RetriesLeft /\ MemoryGone
    BY DEF RetriesLeft, MemoryGone
  <2>2. Holding = {} /\ Admitted = {}
    BY DEF Holding, Admitted
  <2>3. Counted
    BY <2>2, FS_EmptySet DEF Counted
  <2>4. Locking
    BY DEF Locking
  <2>5. OnDisk
    BY DEF OnDisk, Working, OkIsDone, SkippedIsWhole, ReportedIsStored, Crawled
  <2> QED BY <2>1, <2>3, <2>4, <2>5, <2>6 DEF IInv
<1>2. IInv /\ [Next]_vars => IInv'
  BY TypedInductive, CountedInductive, LockingInductive, OnDiskInductive DEF IInv
<1> QED BY <1>1, <1>2, PTL DEF Spec

--------------------------------------------------------------------------------
\* Every variable keeps its type, and neither semaphore is given back more often than
\* it was taken.
THEOREM TypeInvariant == Spec => []TypeOK
<1>1. ASSUME IInv PROVE TypeOK
  <2>1. Holding \in SUBSET Laws /\ Admitted \in SUBSET Laws
    BY DEF Holding, Admitted
  <2>2. IsFiniteSet(Holding) /\ IsFiniteSet(Admitted)
    BY <2>1, Limits, FS_Subset
  <2>3. Cardinality(Holding) \in Nat /\ Cardinality(Admitted) \in Nat
    BY <2>2, FS_CardinalityType
  <2>4. slots \in 0 .. Concurrency /\ permits \in 0 .. Concurrency
    BY <1>1, <2>3, Limits DEF IInv, Counted, Typed
  <2> QED BY <1>1, <2>4 DEF IInv, Typed, TypeOK
<1> QED BY <1>1, Inductive, PTL

\* No task that the service let in ever waits for a permit: it is counted by the
\* service and not yet by the limiter.
THEOREM PermitsSufficeAlways == Spec => []PermitsSuffice
<1>1. ASSUME IInv PROVE PermitsSuffice
  <2> SUFFICES ASSUME NEW l \in Laws, at[l] = "permit" PROVE permits > 0
    BY DEF PermitsSuffice
  <2>1. Admitted \in SUBSET Laws /\ l \in Admitted
    BY DEF Admitted
  <2>2. IsFiniteSet(Admitted \ {l}) /\ Cardinality(Admitted \ {l}) = Cardinality(Admitted) - 1
    BY <2>1, Limits, FS_Subset, FS_RemoveElement
  <2>3. Holding \in SUBSET (Admitted \ {l})
    BY DEF Holding, Admitted
  <2>4. IsFiniteSet(Holding) /\ Cardinality(Holding) <= Cardinality(Admitted \ {l})
    BY <2>2, <2>3, FS_Subset
  <2>5. IsFiniteSet(Admitted)
    BY <2>1, Limits, FS_Subset
  <2>6. Cardinality(Holding) \in Nat /\ Cardinality(Admitted) \in Nat
    BY <2>4, <2>5, FS_CardinalityType
  <2> QED BY <1>1, <2>2, <2>4, <2>6, Limits DEF IInv, Counted, Typed
<1> QED BY <1>1, Inductive, PTL

\* Requests to a host are Delay apart, for any number of laws, hosts and tasks.
THEOREM RequestsSpacedAlways == Spec => RequestsSpaced
<1>1. ASSUME IInv, [Next]_vars
      PROVE  [\A l \in Laws : at[l] # "inflight" /\ at'[l] = "inflight"
                                 => quiet[HostOf[l]] >= Delay]_vars
  <2> SUFFICES ASSUME Next, NEW l \in Laws, at[l] # "inflight", at'[l] = "inflight"
               PROVE  quiet[HostOf[l]] >= Delay
    BY <1>1
  <2>1. /\ at \in [Laws -> TaskPlaces]
        /\ sleep[l] \in Nat /\ since[HostOf[l]] \in 0 .. Delay
        /\ quiet = since
    BY <1>1, Limits DEF IInv, Typed, Locking
  <2>2. HostLock(l) \/ DelayEnds(l)
    BY <2>1 DEF Next, Step, Answer, Start, Finish, Crash, CrashSaving, Exit, Tick, Begin,
        AcquirePermit, HostLock, DelayEnds, RequestFails, PauseEnds, TooManyRequests,
        Refused, Fetched, Save, SaveFails, Retry, Send, Done, Go
  <2>3. CASE HostLock(l)
    <3>1. ~(since[HostOf[l]] >= Delay) => at'[l] = "delay"
      BY <2>1, <2>3 DEF HostLock, Go
    <3> QED BY <2>1, <3>1
  <2>4. CASE DelayEnds(l)
    <3>1. sleep[l] = 0 /\ sleep[l] + since[HostOf[l]] >= Delay
      BY <1>1, <2>4 DEF DelayEnds, IInv, Locking
    <3> QED BY <2>1, <3>1
  <2> QED BY <2>2, <2>3, <2>4
<1> QED BY <1>1, Inductive, PTL DEF Spec, RequestsSpaced

\* A law that is skipped is whole on disk, whatever stopped the runs before.
THEOREM SkippedIsWholeAlways == Spec => []SkippedIsWhole
<1>1. IInv => SkippedIsWhole
  BY DEF IInv, OnDisk
<1> QED BY <1>1, Inductive, PTL

\* A result that says success has the files of its run behind it.
THEOREM ReportedIsStoredAlways == Spec => []ReportedIsStored
<1>1. IInv => ReportedIsStored
  BY DEF IInv, OnDisk
<1> QED BY <1>1, Inductive, PTL

\* What the selector skips and the report counts is what is on disk.
THEOREM DiskIsWhatIsSaidAlways == Spec => []DiskIsWhatIsSaid
  BY SkippedIsWholeAlways, ReportedIsStoredAlways, PTL DEF DiskIsWhatIsSaid

\* Selector and audit agree about every law, for every registry and whatever the site
\* answers: an audit that passes needs whole metadata beside a page, which is what the
\* selector asks for; the page a law is skipped for is judged by what the site sent.
THEOREM AuditAgreesWithSelectorAlways == Spec => []AuditAgreesWithSelector
<1>1. ASSUME TypeOK, NEW l \in Laws PROVE Statuses(l) \cap Passing # {} => Crawled(l)
  <2> SUFFICES ASSUME Statuses(l) \cap Passing # {} PROVE Crawled(l)
    OBVIOUS
  <2>1. l \in Scanned
    BY DEF Statuses, Passing
  <2>2. PICK look \in Looks(l) : StatusOf(l, look) \in Passing
    BY <2>1 DEF Statuses
  <2>3. meta[l] # Torn
    BY <2>2 DEF StatusOf, Passing, MetadataValid
  <2> QED
    BY <1>1, <2>1, <2>3, Limits DEF Scanned, Crawled, TypeOK, Torn
<1>2. ASSUME TypeOK, NEW l \in Laws, Crawled(l), page[l] = meta[l]
      PROVE  Statuses(l) \subseteq Passing <=> Answers[l][page[l]] \in {"law", "short", "words"}
  <2> DEFINE look == Answers[l][page[l]]
  <2>1. page[l] \in 1 .. MaxRuns /\ meta[l] # Torn /\ page[l] # Torn
    BY <1>2, Limits DEF Crawled, TypeOK, Torn
  <2>2. look \in {"law", "short", "words", "error", "nothing", "bytes"}
    BY <2>1, AnswersAssumption
  <2>3. l \in Scanned /\ Looks(l) = {look}
    BY <1>2, <2>1 DEF Scanned, Crawled, Looks
  <2>4. Statuses(l) = {StatusOf(l, look)}
    BY <2>3 DEF Statuses
  <2>5. StatusOf(l, look) \in Passing <=> look \notin {"nothing", "bytes", "error"}
    BY <2>1 DEF StatusOf, Passing, MetadataValid, HtmlValid
  <2> QED
    BY <2>2, <2>4, <2>5
<1>3. TypeOK => AuditAgreesWithSelector
  BY <1>1, <1>2 DEF AuditAgreesWithSelector
<1> QED
  BY <1>3, TypeInvariant, PTL

-----------------------------------------------------------------------------
(* Recursive functions over the natural numbers, spelt out.                *)

\* A set of numbers has a least one.
LEMMA LeastNumber ==
    ASSUME NEW T \in SUBSET Nat, T # {}
    PROVE  \E m \in T : \A k \in T : m <= k
<1>1. PICK m \in T : \A k \in T : ~ (<<k, m>> \in OpToRel(<, Nat))
  BY NatLessThanWellFounded, WFMin
<1>2. \A k \in T : ~ (k < m)
  BY <1>1 DEF OpToRel
<1> QED
  BY <1>2

\* Min of a set of numbers is its least element.
LEMMA MinIs ==
    ASSUME NEW S \in SUBSET Nat, S # {}
    PROVE  Min(S) \in S /\ \A y \in S : Min(S) <= y
BY LeastNumber DEF Min

\* f is the function that defines Kept.
KeptBy(f, seq, places) ==
  /\ f[0] = << >>
  /\ \A i \in 1 .. Len(seq) : /\ i \in places => f[i] = Append(f[i - 1], seq[i])
                              /\ i \notin places => f[i] = f[i - 1]
  /\ Kept(seq, places) = f[Len(seq)]

LEMMA KeptDef ==
    ASSUME NEW seq, NEW places, Len(seq) \in Nat
    PROVE  \E f : KeptBy(f, seq, places)
<1> DEFINE Then(x, i) == IF i \in places THEN Append(x, seq[i]) ELSE x
<1> HIDE DEF Then
<1> DEFINE Body(g, i) == IF i = 0 THEN << >> ELSE Then(g[i - 1], i)
           Def(n) == \E g : g = [i \in 0 .. n |-> Body(g, i)]
           T == {n \in Nat : ~ Def(n)}
<1>1. T = {}
  <2> SUFFICES ASSUME T # {} PROVE FALSE
    OBVIOUS
  <2>1. PICK m \in T : \A k \in T : m <= k
    BY LeastNumber
  <2>2. CASE m = 0
    <3> DEFINE h == [i \in 0 .. 0 |-> << >>]
    <3>1. h = [i \in 0 .. 0 |-> Body(h, i)]
      BY SMT
    <3> QED
      BY <2>1, <2>2, <3>1
  <2>3. CASE m # 0
    <3>1. m - 1 \in Nat /\ m - 1 \notin T
      <4>1. T \subseteq Nat
        OBVIOUS
      <4> HIDE DEF T
      <4> QED
        BY <2>1, <2>3, <4>1
    <3>2. PICK g : g = [i \in 0 .. m - 1 |-> Body(g, i)]
      BY <3>1
    <3> DEFINE h == [i \in 0 .. m |-> IF i < m THEN g[i] ELSE Body(g, m)]
    <3>3. \A i \in 0 .. m : h[i] = Body(h, i)
      <4> SUFFICES ASSUME NEW i \in 0 .. m PROVE h[i] = Body(h, i)
        OBVIOUS
      <4>1. i # 0 => h[i - 1] = g[i - 1]
        BY <2>1
      <4>2. Body(h, i) = Body(g, i)
        BY <4>1
      <4>3. i < m => g[i] = Body(g, i)
        <5>1. m \in Nat
          OBVIOUS
        <5> HIDE DEF Body, T
        <5> QED
          BY <3>2, <5>1
      <4> QED
        BY <4>2, <4>3, <2>1
    <3>4. h = [i \in 0 .. m |-> Body(h, i)]
      BY <3>3
    <3> QED
      BY <2>1, <3>4
  <2> QED
    BY <2>2, <2>3
<1>2. \E g : g = [i \in 0 .. Len(seq) |-> Body(g, i)]
  BY <1>1
<1> DEFINE f == CHOOSE g : g = [i \in 0 .. Len(seq) |-> Body(g, i)]
<1>3. f = [i \in 0 .. Len(seq) |-> Body(f, i)]
  BY <1>2
<1>4. Kept(seq, places) = f[Len(seq)]
  BY DEF Kept, Then
<1> HIDE DEF f
<1>5. \A i \in 0 .. Len(seq) : f[i] = Body(f, i)
  <2> HIDE DEF Body
  <2> QED
    BY <1>3
<1>6. f[0] = << >>
  BY <1>5
<1>7. \A i \in 1 .. Len(seq) : f[i] = Then(f[i - 1], i)
  BY <1>5
<1>8. KeptBy(f, seq, places)
  <2>1. \A i : /\ i \in places => Then(f[i - 1], i) = Append(f[i - 1], seq[i])
               /\ i \notin places => Then(f[i - 1], i) = f[i - 1]
    BY DEF Then
  <2> QED
    BY <1>4, <1>6, <1>7, <2>1 DEF KeptBy
<1> QED
  BY <1>8

\* The function that defines Built.
LEMMA BuiltDef ==
    ASSUME NEW units, NEW end, Len(units) \in Nat
    PROVE  \E f : /\ f[0] = NothingBuilt(end)
                  /\ \A i \in 1 .. Len(units) : f[i] = AddUnit(f[i - 1], units[i])
                  /\ Built(units, end, Len(units)) = f[Len(units)]
<1> DEFINE Then(x, i) == AddUnit(x, units[i])
<1> HIDE DEF Then
<1> DEFINE Body(g, i) == IF i = 0 THEN NothingBuilt(end) ELSE Then(g[i - 1], i)
           Def(n) == \E g : g = [i \in 0 .. n |-> Body(g, i)]
           T == {n \in Nat : ~ Def(n)}
<1>1. T = {}
  <2> SUFFICES ASSUME T # {} PROVE FALSE
    OBVIOUS
  <2>1. PICK m \in T : \A k \in T : m <= k
    BY LeastNumber
  <2>2. CASE m = 0
    <3> DEFINE h == [i \in 0 .. 0 |-> NothingBuilt(end)]
    <3>1. h = [i \in 0 .. 0 |-> Body(h, i)]
      BY SMT
    <3> QED
      BY <2>1, <2>2, <3>1
  <2>3. CASE m # 0
    <3>1. m - 1 \in Nat /\ m - 1 \notin T
      <4>1. T \subseteq Nat
        OBVIOUS
      <4> HIDE DEF T
      <4> QED
        BY <2>1, <2>3, <4>1
    <3>2. PICK g : g = [i \in 0 .. m - 1 |-> Body(g, i)]
      BY <3>1
    <3> DEFINE h == [i \in 0 .. m |-> IF i < m THEN g[i] ELSE Body(g, m)]
    <3>3. \A i \in 0 .. m : h[i] = Body(h, i)
      <4> SUFFICES ASSUME NEW i \in 0 .. m PROVE h[i] = Body(h, i)
        OBVIOUS
      <4>1. i # 0 => h[i - 1] = g[i - 1]
        BY <2>1
      <4>2. Body(h, i) = Body(g, i)
        BY <4>1
      <4>3. i < m => g[i] = Body(g, i)
        <5>1. m \in Nat
          OBVIOUS
        <5> HIDE DEF Body, T
        <5> QED
          BY <3>2, <5>1
      <4> QED
        BY <4>2, <4>3, <2>1
    <3>4. h = [i \in 0 .. m |-> Body(h, i)]
      BY <3>3
    <3> QED
      BY <2>1, <3>4
  <2> QED
    BY <2>2, <2>3
<1>2. \E g : g = [i \in 0 .. Len(units) |-> Body(g, i)]
  BY <1>1
<1> DEFINE f == CHOOSE g : g = [i \in 0 .. Len(units) |-> Body(g, i)]
<1>3. f = [i \in 0 .. Len(units) |-> Body(f, i)]
  BY <1>2
<1>4. Built(units, end, Len(units)) = f[Len(units)]
  BY DEF Built, Then
<1> HIDE DEF f
<1>5. \A i \in 0 .. Len(units) : f[i] = Body(f, i)
  <2> HIDE DEF Body
  <2> QED
    BY <1>3
<1>6. f[0] = NothingBuilt(end)
  BY <1>5
<1>7. \A i \in 1 .. Len(units) : f[i] = Then(f[i - 1], i)
  BY <1>5
<1> DEFINE Good(g) == /\ g[0] = NothingBuilt(end)
                      /\ \A i \in 1 .. Len(units) : g[i] = AddUnit(g[i - 1], units[i])
                      /\ Built(units, end, Len(units)) = g[Len(units)]
<1>8. Good(f)
  BY <1>4, <1>6, <1>7 DEF Then
<1>9. \E g : Good(g)
  <2> HIDE DEF Good
  <2> QED
    BY <1>8
<1> QED
  BY <1>9

\* The function that defines Linked.
LEMMA LinkedDef ==
    ASSUME NEW from, NEW links, NEW N \in Nat
    PROVE  \E f : /\ f[0] = from
                  /\ \A i \in 1 .. N : f[i] = f[i - 1] \cup UNION {links[id] : id \in f[i - 1] \cap DOMAIN links}
                  /\ Linked(from, links, N) = f[N]
<1> DEFINE Then(x, i) == x \cup UNION {links[id] : id \in x \cap DOMAIN links}
<1> HIDE DEF Then
<1> DEFINE Body(g, i) == IF i = 0 THEN from ELSE Then(g[i - 1], i)
           Def(n) == \E g : g = [i \in 0 .. n |-> Body(g, i)]
           T == {n \in Nat : ~ Def(n)}
<1>1. T = {}
  <2> SUFFICES ASSUME T # {} PROVE FALSE
    OBVIOUS
  <2>1. PICK m \in T : \A k \in T : m <= k
    BY LeastNumber
  <2>2. CASE m = 0
    <3> DEFINE h == [i \in 0 .. 0 |-> from]
    <3>1. h = [i \in 0 .. 0 |-> Body(h, i)]
      BY SMT
    <3> QED
      BY <2>1, <2>2, <3>1
  <2>3. CASE m # 0
    <3>1. m - 1 \in Nat /\ m - 1 \notin T
      <4>1. T \subseteq Nat
        OBVIOUS
      <4> HIDE DEF T
      <4> QED
        BY <2>1, <2>3, <4>1
    <3>2. PICK g : g = [i \in 0 .. m - 1 |-> Body(g, i)]
      BY <3>1
    <3> DEFINE h == [i \in 0 .. m |-> IF i < m THEN g[i] ELSE Body(g, m)]
    <3>3. \A i \in 0 .. m : h[i] = Body(h, i)
      <4> SUFFICES ASSUME NEW i \in 0 .. m PROVE h[i] = Body(h, i)
        OBVIOUS
      <4>1. i # 0 => h[i - 1] = g[i - 1]
        BY <2>1
      <4>2. Body(h, i) = Body(g, i)
        BY <4>1
      <4>3. i < m => g[i] = Body(g, i)
        <5>1. m \in Nat
          OBVIOUS
        <5> HIDE DEF Body, T
        <5> QED
          BY <3>2, <5>1
      <4> QED
        BY <4>2, <4>3, <2>1
    <3>4. h = [i \in 0 .. m |-> Body(h, i)]
      BY <3>3
    <3> QED
      BY <2>1, <3>4
  <2> QED
    BY <2>2, <2>3
<1>2. \E g : g = [i \in 0 .. N |-> Body(g, i)]
  BY <1>1
<1> DEFINE f == CHOOSE g : g = [i \in 0 .. N |-> Body(g, i)]
<1>3. f = [i \in 0 .. N |-> Body(f, i)]
  BY <1>2
<1>4. Linked(from, links, N) = f[N]
  BY DEF Linked, Then
<1> HIDE DEF f
<1>5. \A i \in 0 .. N : f[i] = Body(f, i)
  <2> HIDE DEF Body
  <2> QED
    BY <1>3
<1>6. f[0] = from
  BY <1>5
<1>7. \A i \in 1 .. N : f[i] = Then(f[i - 1], i)
  BY <1>5
<1> DEFINE Good(g) == /\ g[0] = from
                      /\ \A i \in 1 .. N : g[i] = g[i - 1] \cup UNION {links[id] : id \in g[i - 1] \cap DOMAIN links}
                      /\ Linked(from, links, N) = g[N]
<1>8. Good(f)
  BY <1>4, <1>6, <1>7 DEF Then
<1>9. \E g : Good(g)
  <2> HIDE DEF Good
  <2> QED
    BY <1>8
<1> QED
  BY <1>9

\* The function that defines FlattenSeq.
LEMMA FlattenDef ==
    ASSUME NEW seqs, Len(seqs) \in Nat \ {0}
    PROVE  \E f : /\ f[1] = seqs[1]
                  /\ \A i \in 2 .. Len(seqs) : f[i] = f[i - 1] \o seqs[i]
                  /\ FlattenSeq(seqs) = f[Len(seqs)]
<1> DEFINE Then(x, i) == x \o seqs[i]
<1> HIDE DEF Then
<1> DEFINE Body(g, i) == IF i = 1 THEN seqs[1] ELSE Then(g[i - 1], i)
           Def(n) == \E g : g = [i \in 1 .. n |-> Body(g, i)]
           T == {n \in Nat : n > 0 /\ ~ Def(n)}
<1>1. T = {}
  <2> SUFFICES ASSUME T # {} PROVE FALSE
    OBVIOUS
  <2>1. PICK m \in T : \A k \in T : m <= k
    BY LeastNumber
  <2>2. CASE m = 1
    <3> DEFINE h == [i \in 1 .. 1 |-> seqs[1]]
    <3>1. h = [i \in 1 .. 1 |-> Body(h, i)]
      BY SMT
    <3> QED
      BY <2>1, <2>2, <3>1
  <2>3. CASE m # 1
    <3>1. m - 1 \in Nat /\ m - 1 > 0 /\ m - 1 \notin T
      <4>1. T \subseteq Nat \ {0}
        OBVIOUS
      <4> HIDE DEF T
      <4> QED
        BY <2>1, <2>3, <4>1
    <3>2. PICK g : g = [i \in 1 .. m - 1 |-> Body(g, i)]
      BY <3>1
    <3> DEFINE h == [i \in 1 .. m |-> IF i < m THEN g[i] ELSE Body(g, m)]
    <3>3. \A i \in 1 .. m : h[i] = Body(h, i)
      <4> SUFFICES ASSUME NEW i \in 1 .. m PROVE h[i] = Body(h, i)
        OBVIOUS
      <4>1. i # 1 => h[i - 1] = g[i - 1]
        BY <2>1
      <4>2. Body(h, i) = Body(g, i)
        BY <4>1
      <4>3. i < m => g[i] = Body(g, i)
        <5>1. m \in Nat
          OBVIOUS
        <5> HIDE DEF Body, T
        <5> QED
          BY <3>2, <5>1
      <4> QED
        BY <4>2, <4>3, <2>1
    <3>4. h = [i \in 1 .. m |-> Body(h, i)]
      BY <3>3
    <3> QED
      BY <2>1, <3>4
  <2> QED
    BY <2>2, <2>3
<1>2. \E g : g = [i \in 1 .. Len(seqs) |-> Body(g, i)]
  BY <1>1
<1> DEFINE f == CHOOSE g : g = [i \in 1 .. Len(seqs) |-> Body(g, i)]
<1>3. f = [i \in 1 .. Len(seqs) |-> Body(f, i)]
  BY <1>2
<1>4. FlattenSeq(seqs) = f[Len(seqs)]
  BY DEF FlattenSeq, Then
<1> HIDE DEF f
<1>5. \A i \in 1 .. Len(seqs) : f[i] = Body(f, i)
  <2> HIDE DEF Body
  <2> QED
    BY <1>3
<1>6. f[1] = seqs[1]
  BY <1>5
<1>7. \A i \in 2 .. Len(seqs) : f[i] = Then(f[i - 1], i)
  BY <1>5
<1> DEFINE Good(g) == /\ g[1] = seqs[1]
                      /\ \A i \in 2 .. Len(seqs) : g[i] = g[i - 1] \o seqs[i]
                      /\ FlattenSeq(seqs) = g[Len(seqs)]
<1>8. Good(f)
  BY <1>4, <1>6, <1>7 DEF Then
<1>9. \E g : Good(g)
  <2> HIDE DEF Good
  <2> QED
    BY <1>8
<1> QED
  BY <1>9

-----------------------------------------------------------------------------
(* Lists that are filtered, and lists that are joined.                     *)

\* list holds what stands in seq at those of the first n places that are kept, in this
\* order: its i-th element is from place g[i].
Keeps(list, seq, places, n, g) ==
  /\ Len(list) \in Nat
  /\ list = [i \in 1 .. Len(list) |-> seq[g[i]]]
  /\ g \in [1 .. Len(list) -> 1 .. n]
  /\ \A i \in 1 .. Len(list) : g[i] \in places
  /\ \A i, j \in 1 .. Len(list) : i < j => g[i] < g[j]
  /\ \A k \in 1 .. n : k \in places => \E i \in 1 .. Len(list) : g[i] = k

LEMMA KeptIs ==
    ASSUME NEW seq, Len(seq) \in Nat, NEW places
    PROVE  \E g : Keeps(Kept(seq, places), seq, places, Len(seq), g)
<1>0. PICK f : KeptBy(f, seq, places)
  BY KeptDef
<1>1. /\ f[0] = << >>
      /\ \A i \in 1 .. Len(seq) : /\ i \in places => f[i] = Append(f[i - 1], seq[i])
                                  /\ i \notin places => f[i] = f[i - 1]
      /\ Kept(seq, places) = f[Len(seq)]
  BY <1>0 DEF KeptBy
<1> DEFINE T == {n \in Nat : n <= Len(seq) /\ ~ \E g : Keeps(f[n], seq, places, n, g)}
<1>2. T = {}
  <2> SUFFICES ASSUME T # {} PROVE FALSE
    OBVIOUS
  <2>1. PICK m \in T : \A k \in T : m <= k
    BY LeastNumber
  <2>2. m \in Nat /\ m <= Len(seq) /\ ~ \E g : Keeps(f[m], seq, places, m, g)
    OBVIOUS
  <2>3. m # 0
    <3>1. Keeps(<< >>, seq, places, 0, << >>)
      BY DEF Keeps
    <3> QED
      BY <1>1, <2>2, <3>1
  <2>4. m \in 1 .. Len(seq) /\ m - 1 \in Nat /\ m - 1 <= Len(seq)
    BY <2>2, <2>3
  <2>5. PICK g : Keeps(f[m - 1], seq, places, m - 1, g)
    BY <2>1, <2>4
  <2> HIDE DEF T
  <2>6. CASE m \notin places
    <3>1. f[m] = f[m - 1]
      BY <1>1, <2>4, <2>6
    <3>2. Keeps(f[m - 1], seq, places, m, g)
      <4> DEFINE list == f[m - 1]
      <4>1. Keeps(list, seq, places, m - 1, g)
        BY <2>5
      <4> HIDE DEF list
      <4>2. g \in [1 .. Len(list) -> 1 .. m]
        BY <2>2, <2>4, <4>1 DEF Keeps
      <4>3. ASSUME NEW k \in 1 .. m, k \in places PROVE \E i \in 1 .. Len(list) : g[i] = k
        <5>1. k \in 1 .. m - 1
          BY <2>2, <2>6, <4>3
        <5> QED
          BY <4>1, <4>3, <5>1 DEF Keeps
      <4>4. Keeps(list, seq, places, m, g)
        BY <4>1, <4>2, <4>3 DEF Keeps
      <4> QED
        BY <4>4 DEF list
    <3> QED
      BY <2>2, <3>1, <3>2
  <2>7. CASE m \in places
    <3> DEFINE list == f[m - 1]
               h == [i \in 1 .. Len(list) + 1 |-> IF i <= Len(list) THEN g[i] ELSE m]
               more == [i \in 1 .. Len(list) + 1 |-> seq[h[i]]]
    <3>1. Keeps(list, seq, places, m - 1, g)
      BY <2>5
    <3>2. f[m] = Append(list, seq[m])
      <4>1. \A i \in 1 .. Len(seq) : i \in places => f[i] = Append(f[i - 1], seq[i])
        BY <1>0, Zenon DEF KeptBy
      <4> QED
        BY <2>4, <2>7, <4>1, Zenon
    <3> HIDE DEF list
    <3>3. Len(list) \in Nat /\ list = [i \in 1 .. Len(list) |-> seq[g[i]]]
      BY <3>1 DEF Keeps
    <3>4. f[m] = more
      <4>1. list \in Seq({seq[g[i]] : i \in 1 .. Len(list)} \cup {seq[m]})
        BY <3>3
      <4>2. DOMAIN more = 1 .. Len(list) + 1
        OBVIOUS
      <4>3. Append(list, seq[m]) = [i \in 1 .. Len(list) + 1 |-> IF i <= Len(list) THEN list[i] ELSE seq[m]]
        BY <4>1, <3>3
      <4>4. \A i \in 1 .. Len(list) + 1 : more[i] = IF i <= Len(list) THEN list[i] ELSE seq[m]
        BY <3>3
      <4> QED
        BY <3>2, <4>2, <4>3, <4>4
    <3>5. more \in Seq({seq[h[i]] : i \in 1 .. Len(list) + 1}) /\ Len(more) = Len(list) + 1
      BY <3>3
    <3>6. Keeps(more, seq, places, m, h)
      <4>1. Len(more) \in Nat /\ more = [i \in 1 .. Len(more) |-> seq[h[i]]]
        BY <3>3, <3>5
      <4>2. h \in [1 .. Len(list) + 1 -> 1 .. m]
        BY <2>2, <2>4, <3>1, <3>3 DEF Keeps
      <4>3. \A i \in 1 .. Len(list) + 1 : h[i] \in places
        BY <2>7, <3>1, <3>3 DEF Keeps
      <4>4. ASSUME NEW i \in 1 .. Len(list) + 1, NEW j \in 1 .. Len(list) + 1, i < j PROVE h[i] < h[j]
        <5>1. i \in 1 .. Len(list) /\ h[i] = g[i] /\ g[i] \in 1 .. m - 1
          BY <3>1, <3>3, <4>4 DEF Keeps
        <5>2. CASE j <= Len(list)
          BY <3>1, <3>3, <4>4, <5>1, <5>2 DEF Keeps
        <5>3. CASE ~ (j <= Len(list))
          <6>1. h[j] = m
            BY <5>3
          <6> QED
            BY <5>1, <6>1, <2>2
        <5> QED
          BY <5>2, <5>3
      <4>5. ASSUME NEW k \in 1 .. m, k \in places PROVE \E i \in 1 .. Len(list) + 1 : h[i] = k
        <5>1. CASE k = m
          <6>1. h[Len(list) + 1] = m
            BY <3>3
          <6> QED
            BY <3>3, <5>1, <6>1
        <5>2. CASE k # m
          <6>1. k \in 1 .. m - 1
            BY <2>2, <5>2
          <6>2. PICK i \in 1 .. Len(list) : g[i] = k
            BY <3>1, <4>5, <6>1 DEF Keeps
          <6>3. i \in 1 .. Len(list) + 1 /\ h[i] = k
            BY <3>3, <6>2
          <6> QED
            BY <6>3
        <5> QED
          BY <5>1, <5>2
      <4> HIDE DEF h, more
      <4> QED
        BY <3>5, <4>1, <4>2, <4>3, <4>4, <4>5 DEF Keeps
    <3> HIDE DEF more, h
    <3> QED
      BY <2>2, <3>4, <3>6
  <2> QED
    BY <2>6, <2>7
<1>3. Len(seq) \in Nat /\ Len(seq) \notin T
  BY <1>2
<1> QED
  BY <1>1, <1>3

\* flat holds the elements of the first n sequences of seqs, one sequence after the other:
\* its i-th element is the b[i]-th of the a[i]-th sequence.
Flattens(flat, seqs, n, a, b) ==
  /\ Len(flat) \in Nat
  /\ a \in [1 .. Len(flat) -> 1 .. n]
  /\ \A i \in 1 .. Len(flat) : b[i] \in 1 .. Len(seqs[a[i]]) /\ flat[i] = seqs[a[i]][b[i]]
  /\ \A i, j \in 1 .. Len(flat) : i < j => a[i] < a[j] \/ (a[i] = a[j] /\ b[i] < b[j])
  /\ \A k \in 1 .. n : \A m \in 1 .. Len(seqs[k]) : \E i \in 1 .. Len(flat) : a[i] = k /\ b[i] = m

\* One more sequence.
LEMMA FlattensMore ==
    ASSUME NEW S, NEW flat \in Seq(S), NEW seqs, NEW n \in Nat, NEW a, NEW b,
           Flattens(flat, seqs, n - 1, a, b), n > 0, seqs[n] \in Seq(S)
    PROVE  \E c, d : Flattens(flat \o seqs[n], seqs, n, c, d)
<1> DEFINE more == flat \o seqs[n]
           c == [i \in 1 .. Len(more) |-> IF i <= Len(flat) THEN a[i] ELSE n]
           d == [i \in 1 .. Len(more) |-> IF i <= Len(flat) THEN b[i] ELSE i - Len(flat)]
<1>1. /\ Len(flat) \in Nat /\ Len(seqs[n]) \in Nat
      /\ more \in Seq(S)
      /\ Len(more) = Len(flat) + Len(seqs[n])
      /\ \A i \in 1 .. Len(flat) : more[i] = flat[i]
      /\ \A i \in 1 .. Len(more) : i > Len(flat) => more[i] = seqs[n][i - Len(flat)]
  OBVIOUS
<1> HIDE DEF more
<1>2. a \in [1 .. Len(flat) -> 1 .. n - 1]
  BY DEF Flattens
<1>3. c \in [1 .. Len(more) -> 1 .. n]
  BY <1>1, <1>2
<1>4. \A i \in 1 .. Len(more) : /\ i <= Len(flat) => c[i] = a[i] /\ d[i] = b[i]
                                /\ ~ (i <= Len(flat)) => c[i] = n /\ d[i] = i - Len(flat)
  OBVIOUS
<1> HIDE DEF c, d
<1>5. ASSUME NEW i \in 1 .. Len(more)
      PROVE  d[i] \in 1 .. Len(seqs[c[i]]) /\ more[i] = seqs[c[i]][d[i]]
  <2>1. CASE i <= Len(flat)
    <3>1. i \in 1 .. Len(flat)
      BY <1>1, <2>1
    <3>2. b[i] \in 1 .. Len(seqs[a[i]]) /\ flat[i] = seqs[a[i]][b[i]]
      BY <3>1 DEF Flattens
    <3>3. c[i] = a[i] /\ d[i] = b[i] /\ more[i] = flat[i]
      BY <1>1, <1>4, <2>1, <3>1
    <3> QED
      BY <3>2, <3>3
  <2>2. CASE ~ (i <= Len(flat))
    <3>0. c[i] = n /\ d[i] = i - Len(flat)
      BY <1>4, <2>2, Zenon
    <3>1. c[i] = n /\ d[i] = i - Len(flat) /\ more[i] = seqs[n][i - Len(flat)]
      <4>1. i > Len(flat)
        BY <1>1, <2>2
      <4> QED
        BY <1>1, <3>0, <4>1, Zenon
    <3>2. i - Len(flat) \in 1 .. Len(seqs[n])
      BY <1>1, <2>2
    <3> QED
      BY <3>1, <3>2
  <2> QED
    BY <2>1, <2>2
<1>6. ASSUME NEW i \in 1 .. Len(more), NEW j \in 1 .. Len(more), i < j
      PROVE  c[i] < c[j] \/ (c[i] = c[j] /\ d[i] < d[j])
  <2>1. CASE j <= Len(flat)
    <3>1. i \in 1 .. Len(flat) /\ j \in 1 .. Len(flat)
      BY <1>1, <1>6, <2>1
    <3>2. c[i] = a[i] /\ d[i] = b[i] /\ c[j] = a[j] /\ d[j] = b[j]
      BY <1>1, <1>4, <3>1
    <3>3. a[i] < a[j] \/ (a[i] = a[j] /\ b[i] < b[j])
      BY <1>6, <3>1 DEF Flattens
    <3> QED
      BY <3>2, <3>3
  <2>2. CASE ~ (j <= Len(flat)) /\ i <= Len(flat)
    <3>1. i \in 1 .. Len(flat)
      BY <1>1, <2>2
    <3>2. a[i] \in 1 .. n - 1 /\ c[i] = a[i] /\ c[j] = n
      BY <1>2, <1>4, <2>2, <3>1
    <3> QED
      BY <3>2
  <2>3. CASE ~ (j <= Len(flat)) /\ ~ (i <= Len(flat))
    BY <1>1, <1>4, <1>6, <2>3
  <2> QED
    BY <2>1, <2>2, <2>3
<1>7. ASSUME NEW k \in 1 .. n, NEW m \in 1 .. Len(seqs[k])
      PROVE  \E i \in 1 .. Len(more) : c[i] = k /\ d[i] = m
  <2>1. CASE k = n
    <3>1. m \in 1 .. Len(seqs[n])
      BY <2>1
    <3>2. m + Len(flat) \in 1 .. Len(more) /\ ~ (m + Len(flat) <= Len(flat))
      BY <1>1, <3>1
    <3>3. c[m + Len(flat)] = n /\ d[m + Len(flat)] = m + Len(flat) - Len(flat)
      BY <1>4, <3>2
    <3>4. m + Len(flat) - Len(flat) = m
      BY <1>1, <3>1
    <3> QED
      BY <2>1, <3>2, <3>3, <3>4
  <2>2. CASE k # n
    <3>1. k \in 1 .. n - 1
      BY <2>2
    <3>2. PICK i \in 1 .. Len(flat) : a[i] = k /\ b[i] = m
      BY <3>1 DEF Flattens
    <3>3. i \in 1 .. Len(more) /\ i <= Len(flat)
      BY <1>1
    <3> QED
      BY <1>4, <3>2, <3>3
  <2> QED
    BY <2>1, <2>2
<1>8. Flattens(more, seqs, n, c, d)
  BY <1>1, <1>3, <1>5, <1>6, <1>7 DEF Flattens
<1> QED
  BY <1>8 DEF more

\* What FlattenSeq returns: the elements in the order of the sequences they come from.
LEMMA FlattenIs ==
    ASSUME NEW S, NEW seqs \in Seq(Seq(S))
    PROVE  /\ FlattenSeq(seqs) \in Seq(S)
           /\ \E a, b : Flattens(FlattenSeq(seqs), seqs, Len(seqs), a, b)
<1>1. CASE Len(seqs) = 0
  <2>1. FlattenSeq(seqs) = << >>
    BY <1>1, EmptySeq DEF FlattenSeq
  <2>2. Flattens(<< >>, seqs, 0, << >>, << >>)
    BY DEF Flattens
  <2> QED
    BY <1>1, <2>1, <2>2
<1>2. CASE Len(seqs) # 0
  <2>1. Len(seqs) \in Nat \ {0} /\ \A i \in 1 .. Len(seqs) : seqs[i] \in Seq(S)
    BY <1>2
  <2>2. PICK f : /\ f[1] = seqs[1]
                 /\ \A i \in 2 .. Len(seqs) : f[i] = f[i - 1] \o seqs[i]
                 /\ FlattenSeq(seqs) = f[Len(seqs)]
    BY <2>1, FlattenDef
  <2> DEFINE Good(n) == f[n] \in Seq(S) /\ \E a, b : Flattens(f[n], seqs, n, a, b)
             T == {n \in Nat : n \in 1 .. Len(seqs) /\ ~ Good(n)}
  <2>3. Good(1)
    <3> DEFINE list == seqs[1]
               a == [i \in 1 .. Len(list) |-> 1]
               b == [i \in 1 .. Len(list) |-> i]
    <3>1. list \in Seq(S)
      BY <2>1
    <3> HIDE DEF list
    <3>2. Len(list) \in Nat
      BY <3>1
    <3>3. Flattens(list, seqs, 1, a, b)
      BY <3>2 DEF Flattens, list
    <3> QED
      BY <2>2, <3>1, <3>3 DEF list
  <2>4. T = {}
    <3> SUFFICES ASSUME T # {} PROVE FALSE
      OBVIOUS
    <3>1. PICK m \in T : \A k \in T : m <= k
      BY LeastNumber
    <3>2. m \in 2 .. Len(seqs) /\ m \in Nat /\ ~ Good(m)
      BY <2>1, <2>3
    <3>3. m - 1 \in Nat /\ m - 1 \in 1 .. Len(seqs) /\ ~ (m <= m - 1)
      BY <2>1, <3>2
    <3>4. Good(m - 1)
      <4> HIDE DEF Good
      <4> QED
        BY <3>1, <3>3
    <3>5. PICK a, b : Flattens(f[m - 1], seqs, m - 1, a, b)
      BY <3>4
    <3>6. f[m - 1] \in Seq(S) /\ seqs[m] \in Seq(S) /\ m > 0
      BY <2>1, <3>2, <3>4
    <3>7. \E c, d : Flattens(f[m - 1] \o seqs[m], seqs, m, c, d)
      BY <3>2, <3>5, <3>6, FlattensMore
    <3>8. f[m - 1] \o seqs[m] \in Seq(S)
      BY <3>6
    <3> QED
      BY <2>2, <3>2, <3>7, <3>8
  <2>5. Len(seqs) \in Nat /\ Len(seqs) \in 1 .. Len(seqs) /\ Len(seqs) \notin T
    <3> HIDE DEF T
    <3> QED
      BY <2>1, <2>4
  <2>6. Good(Len(seqs))
    <3> HIDE DEF Good
    <3> QED
      BY <2>5
  <2> QED
    BY <2>2, <2>6
<1> QED
  BY <1>1, <1>2

\* What a filter keeps is a list of elements of the sequence.
LEMMA KeptType ==
    ASSUME NEW S, NEW seq \in Seq(S), NEW places
    PROVE  Kept(seq, places) \in Seq(S)
<1>1. Len(seq) \in Nat /\ \A i \in 1 .. Len(seq) : seq[i] \in S
  OBVIOUS
<1>2. PICK g : Keeps(Kept(seq, places), seq, places, Len(seq), g)
  BY <1>1, KeptIs
<1> DEFINE list == Kept(seq, places)
<1> HIDE DEF list
<1>3. Keeps(list, seq, places, Len(seq), g)
  BY <1>2 DEF list
<1>4. Len(list) \in Nat /\ \A i \in 1 .. Len(list) : seq[g[i]] \in S
  BY <1>1, <1>3 DEF Keeps
<1>5. list = [i \in 1 .. Len(list) |-> seq[g[i]]]
  BY <1>3 DEF Keeps
<1>6. list \in Seq(S)
  BY <1>4, <1>5, IsASeq
<1> QED
  BY <1>6 DEF list

-----------------------------------------------------------------------------
(* What the cleaning step takes from a page is a list of lines.            *)

\* The least place where something holds.
LEMMA FirstPlace ==
    ASSUME NEW S \in SUBSET Nat, S # {}
    PROVE  /\ (CHOOSE i \in S : \A j \in S : i <= j) \in S
           /\ \A j \in S : (CHOOSE i \in S : \A k \in S : i <= k) <= j
BY LeastNumber

\* The last of the places up to a bound where something holds.
LEMMA LastPlace ==
    ASSUME NEW n \in Nat, NEW S \in SUBSET 0 .. n, S # {}
    PROVE  /\ (CHOOSE i \in S : \A j \in S : j <= i) \in S
           /\ \A j \in S : j <= (CHOOSE i \in S : \A k \in S : k <= i)
<1> DEFINE T == {n - i : i \in S}
<1>1. T \in SUBSET Nat /\ T # {}
  <2>1. \A i \in S : n - i \in Nat
    OBVIOUS
  <2> QED
    BY <2>1
<1>2. PICK m \in T : \A k \in T : m <= k
  BY <1>1, LeastNumber
<1>3. PICK i \in S : m = n - i
  BY <1>2
<1>4. \A j \in S : j <= i
  <2> SUFFICES ASSUME NEW j \in S PROVE j <= i
    OBVIOUS
  <2>1. m <= n - j
    BY <1>2
  <2> QED
    BY <1>3, <2>1
<1> QED
  BY <1>4

LEMMA FlattenType ==
    ASSUME NEW S, NEW seqs \in Seq(Seq(S))
    PROVE  FlattenSeq(seqs) \in Seq(S)
BY FlattenIs

LEMMA LineType ==
    ASSUME NEW k \in Kinds, NEW digits \in Nat, NEW letter \in Letters
    PROVE  [kind |-> k, num |-> <<digits, letter>>] \in Lines
<1>1. <<digits, letter>> \in Nat \X Letters
  OBVIOUS
<1> QED
  BY <1>1, Zenon DEF Lines

LEMMA JoinedType ==
    ASSUME NEW blocks \in Seq(Seq(Lines))
    PROVE  Joined(blocks) \in Seq(Lines)
<1> DEFINE parts == [n \in DOMAIN blocks |-> IF n = 1 THEN blocks[n] ELSE <<Blank>> \o blocks[n]]
<1>1. Blank \in Lines
  <2>1. "blank" \in Kinds /\ "" \in Letters /\ 0 \in Nat
    BY LettersAssumption DEF Kinds
  <2>2. [kind |-> "blank", num |-> <<0, "">>] \in Lines
    BY <2>1, LineType, Zenon
  <2> QED
    BY <2>2 DEF Blank
<1>2. Len(blocks) \in Nat /\ DOMAIN blocks = 1 .. Len(blocks) /\ \A n \in DOMAIN blocks : blocks[n] \in Seq(Lines)
  OBVIOUS
<1>3. \A n \in DOMAIN blocks : <<Blank>> \o blocks[n] \in Seq(Lines)
  BY <1>1, <1>2
<1>4. parts \in [1 .. Len(blocks) -> Seq(Lines)]
  BY <1>2, <1>3
<1>5. parts \in Seq(Seq(Lines))
  BY <1>2, <1>4
<1> QED
  BY <1>5, FlattenType DEF Joined

LEMMA TextType ==
    ASSUME NEW blocks \in Seq(Seq(Lines))
    PROVE  TextOf(blocks) \in Seq(Lines)
BY KeptType, JoinedType DEF TextOf

\* The containers of the site.
LEMMA SelectionsType ==
    ASSUME NEW stored \in Pages, NEW n \in DOMAIN Selections(stored)
    PROVE  n \in Nat /\ Selections(stored)[n] \in Seq(Seq(Lines))
<1>1. stored.known \in BOOLEAN /\ stored.blocks \in Seq(Seq(Lines))
  BY PagesAssumption
<1>2. FlattenSeq(stored.blocks) \in Seq(Lines)
  BY <1>1, FlattenType
<1>3. <<FlattenSeq(stored.blocks)>> \in Seq(Seq(Lines))
  BY <1>2
<1>4. CASE stored.known
  <2>1. Selections(stored) = <<stored.blocks, <<FlattenSeq(stored.blocks)>>>>
    BY <1>4 DEF Selections
  <2>2. n \in Nat /\ (n = 1 \/ n = 2)
    BY <2>1
  <2>3. Selections(stored)[1] = stored.blocks /\ Selections(stored)[2] = <<FlattenSeq(stored.blocks)>>
    BY <2>1
  <2> QED
    BY <1>1, <1>3, <2>2, <2>3, Zenon
<1>5. CASE ~ stored.known
  <2>1. Selections(stored) = << >>
    BY <1>5 DEF Selections
  <2> QED
    BY <2>1
<1> QED
  BY <1>4, <1>5

\* What a filter keeps stays in the text.
LEMMA KeptHolds ==
    ASSUME NEW S, NEW seq \in Seq(S), NEW places, NEW i \in DOMAIN seq, i \in places
    PROVE  \E m \in DOMAIN Kept(seq, places) : Kept(seq, places)[m] = seq[i]
<1>1. Len(seq) \in Nat /\ i \in 1 .. Len(seq)
  OBVIOUS
<1>2. PICK g : Keeps(Kept(seq, places), seq, places, Len(seq), g)
  BY <1>1, KeptIs
<1> DEFINE list == Kept(seq, places)
<1>3. list \in Seq(S)
  BY KeptType
<1> HIDE DEF list
<1>4. Keeps(list, seq, places, Len(seq), g)
  BY <1>2 DEF list
<1>5. PICK m \in 1 .. Len(list) : g[m] = i
  BY <1>1, <1>4 DEF Keeps
<1>6. list[m] = seq[g[m]]
  BY <1>4 DEF Keeps
<1>7. m \in DOMAIN list
  BY <1>3
<1> QED
  BY <1>5, <1>6, <1>7 DEF list

-----------------------------------------------------------------------------
(* The headings of the blocks are in the text.                             *)

\* What stands in one of the lists stands in the joined one.
LEMMA FlattenHolds ==
    ASSUME NEW S, NEW seqs \in Seq(Seq(S)), NEW n \in DOMAIN seqs, NEW i \in DOMAIN seqs[n]
    PROVE  \E k \in DOMAIN FlattenSeq(seqs) : FlattenSeq(seqs)[k] = seqs[n][i]
<1> DEFINE flat == FlattenSeq(seqs)
<1>1. flat \in Seq(S)
  BY FlattenIs
<1>2. PICK a, b : Flattens(flat, seqs, Len(seqs), a, b)
  BY FlattenIs
<1>3. seqs[n] \in Seq(S) /\ n \in 1 .. Len(seqs)
  OBVIOUS
<1>4. i \in 1 .. Len(seqs[n])
  BY <1>3
<1> HIDE DEF flat
<1>5. PICK k \in 1 .. Len(flat) : a[k] = n /\ b[k] = i
  BY <1>2, <1>3, <1>4 DEF Flattens
<1>6. flat[k] = seqs[a[k]][b[k]]
  BY <1>2 DEF Flattens
<1>7. k \in DOMAIN flat
  BY <1>1
<1> QED
  BY <1>5, <1>6, <1>7 DEF flat

\* A joined list is no shorter than each of its parts.
LEMMA FlattenLonger ==
    ASSUME NEW S, NEW seqs \in Seq(Seq(S)), NEW n \in DOMAIN seqs
    PROVE  Len(seqs[n]) <= Len(FlattenSeq(seqs))
<1> DEFINE flat == FlattenSeq(seqs)
<1>1. flat \in Seq(S)
  BY FlattenIs
<1>2. PICK a, b : Flattens(flat, seqs, Len(seqs), a, b)
  BY FlattenIs
<1>3. seqs[n] \in Seq(S) /\ n \in 1 .. Len(seqs) /\ Len(seqs[n]) \in Nat
  OBVIOUS
<1> HIDE DEF flat
<1>4. Len(flat) \in Nat
  BY <1>1
<1> DEFINE From1(m) == CHOOSE i \in 1 .. Len(flat) : a[i] = n /\ b[i] = m
           f == [m \in 1 .. Len(seqs[n]) |-> From1(m)]
<1>5. ASSUME NEW m \in 1 .. Len(seqs[n]) PROVE From1(m) \in 1 .. Len(flat) /\ b[From1(m)] = m
  <2>1. \E i \in 1 .. Len(flat) : a[i] = n /\ b[i] = m
    BY <1>2, <1>3 DEF Flattens
  <2> QED
    BY <2>1
<1> HIDE DEF From1
<1>6. f \in Injection(1 .. Len(seqs[n]), 1 .. Len(flat))
  BY <1>5 DEF Injection, IsInjective
<1> HIDE DEF f
<1>7. /\ IsFiniteSet(1 .. Len(seqs[n])) /\ IsFiniteSet(1 .. Len(flat))
      /\ Cardinality(1 .. Len(seqs[n])) = Len(seqs[n]) /\ Cardinality(1 .. Len(flat)) = Len(flat)
  <2>1. ASSUME NEW l \in Nat PROVE IsFiniteSet(1 .. l) /\ Cardinality(1 .. l) = l
    <3>1. IsFiniteSet(1 .. l) /\ Cardinality(1 .. l) = IF 1 > l THEN 0 ELSE l - 1 + 1
      BY FS_Interval
    <3> QED
      BY <3>1
  <2> QED
    BY <1>3, <1>4, <2>1
<1>8. Cardinality(1 .. Len(seqs[n])) <= Cardinality(1 .. Len(flat))
  BY <1>6, <1>7, FS_Injection
<1> QED
  BY <1>7, <1>8 DEF flat

LEMMA JoinedHolds ==
    ASSUME NEW blocks \in Seq(Seq(Lines)), NEW n \in DOMAIN blocks, NEW i \in DOMAIN blocks[n]
    PROVE  \E k \in DOMAIN Joined(blocks) : Joined(blocks)[k] = blocks[n][i]
<1> DEFINE parts == [m \in DOMAIN blocks |-> IF m = 1 THEN blocks[m] ELSE <<Blank>> \o blocks[m]]
<1>1. Blank \in Lines
  <2>1. "blank" \in Kinds /\ "" \in Letters /\ 0 \in Nat
    BY LettersAssumption DEF Kinds
  <2>2. [kind |-> "blank", num |-> <<0, "">>] \in Lines
    BY <2>1, LineType, Zenon
  <2> QED
    BY <2>2 DEF Blank
<1>2. Len(blocks) \in Nat /\ DOMAIN blocks = 1 .. Len(blocks) /\ \A m \in DOMAIN blocks : blocks[m] \in Seq(Lines)
  OBVIOUS
<1>3. \A m \in DOMAIN blocks : <<Blank>> \o blocks[m] \in Seq(Lines)
  BY <1>1, <1>2
<1>4. parts \in Seq(Seq(Lines)) /\ n \in DOMAIN parts
  <2>1. parts \in [1 .. Len(blocks) -> Seq(Lines)]
    BY <1>2, <1>3
  <2> QED
    BY <1>2, <2>1
<1>5. \E j \in DOMAIN parts[n] : parts[n][j] = blocks[n][i]
  <2>1. blocks[n] \in Seq(Lines) /\ i \in 1 .. Len(blocks[n])
    BY <1>2
  <2>2. CASE n = 1
    BY <2>2
  <2>3. CASE n # 1
    <3>1. parts[n] = <<Blank>> \o blocks[n]
      BY <2>3
    <3>2. i + 1 \in DOMAIN (<<Blank>> \o blocks[n]) /\ (<<Blank>> \o blocks[n])[i + 1] = blocks[n][i]
      BY <1>1, <2>1
    <3> QED
      BY <3>1, <3>2
  <2> QED
    BY <2>2, <2>3
<1>6. Joined(blocks) = FlattenSeq(parts)
  BY DEF Joined
<1> HIDE DEF parts
<1>7. PICK j \in DOMAIN parts[n] : parts[n][j] = blocks[n][i]
  BY <1>5
<1> QED
  BY <1>4, <1>6, <1>7, FlattenHolds

\* The site's container keeps a block with a heading, unless it is too short.
LEMMA TextHolds ==
    ASSUME NEW blocks \in Seq(Seq(Lines)), NEW n \in DOMAIN blocks, NEW i \in DOMAIN blocks[n],
           HeadingLine(blocks[n][i]), Len(blocks[n]) > ShortText
    PROVE  \E k \in DOMAIN TextOf(blocks) : TextOf(blocks)[k] = blocks[n][i]
<1> DEFINE block == blocks[n]
           marked == {j \in DOMAIN block : Marked(block[j])}
           legal == {m \in DOMAIN blocks : Legal(blocks[m])}
           left == Kept(blocks, legal)
<1>1. block \in Seq(Lines) /\ DOMAIN block = 1 .. Len(block) /\ Len(block) \in Nat
  OBVIOUS
<1>2. i \in marked
  BY DEF Marked, NamesArticle, HeadingLine
<1>3. IsFiniteSet(marked) /\ marked # {}
  <2>1. IsFiniteSet(DOMAIN block)
    BY <1>1, FS_Interval
  <2> QED
    BY <1>2, <2>1, FS_Subset
<1>4. Cardinality(marked) \in Nat /\ Cardinality(marked) # 0
  BY <1>3, FS_CardinalityType, FS_EmptySet
<1>5. Count(block, Marked) = Cardinality(marked)
  BY DEF Count
<1> HIDE DEF marked
<1>6. Legal(block)
  BY <1>4, <1>5 DEF Legal, Some
<1>7. n \in legal
  BY <1>6
<1> HIDE DEF block, legal
<1>8. left \in Seq(Seq(Lines)) /\ \E m \in DOMAIN left : left[m] = block
  BY <1>7, KeptType, KeptHolds DEF block
<1>9. TextOf(blocks) = Joined(left)
  BY DEF TextOf, legal
<1> HIDE DEF left
<1>10. PICK m \in DOMAIN left : left[m] = blocks[n]
  BY <1>8 DEF block
<1> QED
  BY <1>8, <1>9, <1>10, JoinedHolds

\* What is taken of a page: a list of lines, with the headings of its blocks, and how it
\* was found.
TakenOK(t) == /\ t.lines \in Seq(Lines)
              /\ t.by \in {"preferred_tvpl_selector", "fallback_scoring", "body_fallback"}
              /\ HeadingsTaken(t)

\* What the container of the site gives: its blocks but the short ones, or, where these
\* give no law, the container as one block.
LEMMA PreferredHolds ==
    ASSUME NEW stored \in Pages, Preferred(stored) # {},
           NEW n \in DOMAIN stored.blocks, NEW i \in DOMAIN stored.blocks[n],
           HeadingLine(stored.blocks[n][i]), Len(stored.blocks[n]) > ShortText,
           NEW text_of, text_of = TextOf(Selections(stored)[Min(Preferred(stored))])
    PROVE  \E k \in DOMAIN text_of : text_of[k] = stored.blocks[n][i]
<1> DEFINE flat == FlattenSeq(stored.blocks)
           chosen == Min(Preferred(stored))
<1>1. stored.known \in BOOLEAN /\ stored.blocks \in Seq(Seq(Lines)) /\ ShortText \in Nat /\ BodyText \in Nat
  BY PagesAssumption, LengthsAssumption
<1>2. flat \in Seq(Lines) /\ <<flat>> \in Seq(Seq(Lines))
  BY <1>1, FlattenType
<1>3. chosen \in Preferred(stored)
  BY SelectionsType, MinIs DEF Preferred
<1>4. stored.known /\ Selections(stored) = <<stored.blocks, <<flat>>>>
  <2>1. stored.known
    <3>1. ~ stored.known => Selections(stored) = << >>
      BY DEF Selections
    <3>2. ~ stored.known => DOMAIN Selections(stored) = {}
      BY <3>1
    <3>3. Preferred(stored) \subseteq DOMAIN Selections(stored)
      BY DEF Preferred
    <3> QED
      BY <1>3, <3>2, <3>3
  <2> QED
    BY <2>1 DEF Selections
<1>5. chosen = 1 \/ chosen = 2
  BY <1>3, <1>4 DEF Preferred
<1> HIDE DEF flat, chosen
<1>6. text_of = TextOf(Selections(stored)[chosen])
  BY DEF chosen
<1>7. CASE chosen = 1
  <2>1. text_of = TextOf(stored.blocks)
    BY <1>4, <1>6, <1>7
  <2> QED
    BY <1>1, <2>1, TextHolds
<1>8. CASE chosen = 2
  <2>1. text_of = TextOf(<<flat>>)
    BY <1>4, <1>6, <1>8
  <2>2. PICK j \in DOMAIN flat : flat[j] = stored.blocks[n][i]
    BY <1>1, FlattenHolds DEF flat
  <2>3. Len(flat) > ShortText
    <3>1. stored.blocks[n] \in Seq(Lines)
      BY <1>1
    <3> QED
      BY <1>1, <1>2, <3>1, FlattenLonger DEF flat
  <2> DEFINE whole == <<flat>>
  <2>4. 1 \in DOMAIN whole /\ whole[1] = flat
    OBVIOUS
  <2>5. whole \in Seq(Seq(Lines)) /\ text_of = TextOf(whole)
    BY <1>2, <2>1
  <2> HIDE DEF whole
  <2>6. j \in DOMAIN whole[1] /\ HeadingLine(whole[1][j]) /\ Len(whole[1]) > ShortText
    BY <2>2, <2>3, <2>4
  <2>7. \E k \in DOMAIN TextOf(whole) : TextOf(whole)[k] = whole[1][j]
    BY <2>4, <2>5, <2>6, TextHolds
  <2> QED
    BY <2>2, <2>4, <2>5, <2>7
<1> QED
  BY <1>5, <1>7, <1>8

\* The whole page holds what its blocks hold.
LEMMA WholeHolds ==
    ASSUME NEW stored \in Pages, NEW n \in DOMAIN stored.blocks, NEW i \in DOMAIN stored.blocks[n]
    PROVE  \E k \in DOMAIN Whole(stored) : Whole(stored)[k] = stored.blocks[n][i]
<1> DEFINE flat == FlattenSeq(stored.blocks)
           b == stored.before
           rest == stored.after
<1>1. b \in Seq(Lines) /\ rest \in Seq(Lines) /\ stored.blocks \in Seq(Seq(Lines))
  BY PagesAssumption
<1>2. flat \in Seq(Lines)
  BY <1>1, FlattenType
<1>3. PICK j \in DOMAIN flat : flat[j] = stored.blocks[n][i]
  BY <1>1, FlattenHolds
<1>4. Whole(stored) = b \o flat \o rest
  BY DEF Whole
<1> HIDE DEF flat, b, rest
<1>5. j + Len(b) \in DOMAIN (b \o flat \o rest) /\ (b \o flat \o rest)[j + Len(b)] = flat[j]
  BY <1>1, <1>2
<1> QED
  BY <1>3, <1>4, <1>5

\* A container that scored best is the whole page, the law's blocks, or one of them.
LEMMA CandidateHolds ==
    ASSUME NEW stored \in Pages, NEW c \in Candidates(stored),
           NEW n \in DOMAIN stored.blocks, NEW i \in DOMAIN stored.blocks[n]
    PROVE  \/ \E m \in DOMAIN stored.blocks \ {n} : c = stored.blocks[m]
           \/ \E k \in DOMAIN c : c[k] = stored.blocks[n][i]
<1>1. c = Whole(stored) \/ c = FlattenSeq(stored.blocks) \/ c \in Range(stored.blocks)
  BY DEF Candidates
<1>2. CASE c = Whole(stored)
  BY <1>2, WholeHolds
<1>3. CASE c = FlattenSeq(stored.blocks)
  BY <1>3, FlattenHolds, PagesAssumption
<1>4. CASE c \in Range(stored.blocks)
  <2>1. PICK m \in DOMAIN stored.blocks : c = stored.blocks[m]
    BY <1>4 DEF Range
  <2> QED
    BY <2>1
<1> QED
  BY <1>1, <1>2, <1>3, <1>4

LEMMA ExtractedType ==
    ASSUME NEW stored \in Pages, NEW t \in Extracted(stored)
    PROVE  TakenOK(t)
<1>1. stored.before \in Seq(Lines) /\ stored.after \in Seq(Lines) /\ stored.blocks \in Seq(Seq(Lines))
  BY PagesAssumption
<1>2. FlattenSeq(stored.blocks) \in Seq(Lines)
  BY <1>1, FlattenType
<1>3. Whole(stored) \in Seq(Lines)
  BY <1>1, <1>2 DEF Whole
<1>4. CASE Preferred(stored) # {}
  <2> DEFINE chosen == TextOf(Selections(stored)[Min(Preferred(stored))])
  <2>1. Preferred(stored) \in SUBSET Nat
    BY SelectionsType DEF Preferred
  <2>2. Min(Preferred(stored)) \in Preferred(stored)
    BY <1>4, <2>1, MinIs
  <2>3. Min(Preferred(stored)) \in DOMAIN Selections(stored)
    BY <2>2 DEF Preferred
  <2>4. chosen \in Seq(Lines)
    BY <2>3, SelectionsType, TextType
  <2>5. t = [by |-> "preferred_tvpl_selector", blocks |-> stored.blocks, lines |-> chosen]
    BY <1>4 DEF Extracted
  <2>6. ASSUME NEW n \in DOMAIN stored.blocks, NEW i \in DOMAIN stored.blocks[n],
               HeadingLine(stored.blocks[n][i]), ~ (Len(stored.blocks[n]) <= ShortText)
        PROVE  \E k \in DOMAIN chosen : chosen[k] = stored.blocks[n][i]
    <3>1. Len(stored.blocks[n]) > ShortText
      <4>1. stored.blocks[n] \in Seq(Lines) /\ ShortText \in Nat
        BY <1>1, LengthsAssumption
      <4> QED
        BY <2>6, <4>1
    <3> QED
      BY <1>4, <2>6, <3>1, PreferredHolds
  <2> HIDE DEF chosen
  <2>7. HeadingsTaken(t)
    BY <2>5, <2>6 DEF HeadingsTaken, LeftOut
  <2> QED
    BY <2>4, <2>5, <2>7 DEF TakenOK
<1>5. ASSUME NEW c \in Candidates(stored) PROVE c \in Seq(Lines)
  <2>1. c = Whole(stored) \/ c = FlattenSeq(stored.blocks) \/ c \in Range(stored.blocks)
    BY DEF Candidates
  <2>2. \A b \in Range(stored.blocks) : b \in Seq(Lines)
    BY <1>1 DEF Range
  <2> QED
    BY <1>2, <1>3, <2>1, <2>2
<1>6. CASE Preferred(stored) = {} /\ Candidates(stored) # {}
  <2>1. PICK c \in Candidates(stored) : t = [by |-> "fallback_scoring", blocks |-> stored.blocks, lines |-> c]
    BY <1>6 DEF Extracted
  <2>2. HeadingsTaken(t)
    BY <2>1, CandidateHolds DEF HeadingsTaken, LeftOut
  <2> QED
    BY <1>5, <2>1, <2>2 DEF TakenOK
<1>7. CASE Preferred(stored) = {} /\ Candidates(stored) = {}
  <2>1. t = [by |-> "body_fallback", blocks |-> stored.blocks, lines |-> Whole(stored)]
    BY <1>7 DEF Extracted
  <2>2. HeadingsTaken(t)
    BY <2>1, WholeHolds DEF HeadingsTaken
  <2> QED
    BY <1>3, <2>1, <2>2 DEF TakenOK
<1> QED
  BY <1>4, <1>6, <1>7

\* The first article heading of number 1 is one line.
LEMMA FirstsIs ==
    ASSUME NEW lines \in Seq(Lines)
    PROVE  \A i, j \in Firsts(lines, FirstArticle) : i = j
<1>1. Firsts(lines, FirstArticle) \subseteq DOMAIN lines
  BY DEF Firsts
<1>2. DOMAIN lines = 1 .. Len(lines) /\ Len(lines) \in Nat
  OBVIOUS
<1>3. ASSUME NEW i \in Firsts(lines, FirstArticle), NEW j \in Firsts(lines, FirstArticle)
      PROVE  ~ (i < j)
  <2>1. i \in 1 .. Len(lines) /\ j \in 1 .. Len(lines)
    BY <1>1, <1>2
  <2>2. FirstArticle(lines[i]) /\ \A k \in 1 .. j - 1 : ~ FirstArticle(lines[k])
    BY DEF Firsts
  <2> QED
    BY <1>2, <2>1, <2>2
<1>4. \A i, j \in Firsts(lines, FirstArticle) : i \in Nat /\ j \in Nat
  BY <1>1, <1>2
<1> QED
  BY <1>3, <1>4

\* A text begins at one of its lines, at or before the one the choice is made for.
LEMMA HeaderBeforeIs ==
    ASSUME NEW lines \in Seq(Lines), NEW i \in DOMAIN lines
    PROVE  HeaderBefore(lines, i) \in 1 .. i
<1> DEFINE near == {k \in 1 .. i - 1 : k >= i - HeaderLookback /\ Header(lines[k])}
<1>1. i \in Nat /\ i >= 1 /\ near \in SUBSET 0 .. i
  OBVIOUS
<1>2. CASE near = {}
  BY <1>1, <1>2 DEF HeaderBefore
<1>3. CASE near # {}
  <2>1. (CHOOSE k \in near : \A j \in near : j <= k) \in near
    <3> HIDE DEF near
    <3> QED
      BY <1>1, <1>3, LastPlace
  <2> QED
    BY <1>1, <1>3, <2>1 DEF HeaderBefore
<1> QED
  BY <1>2, <1>3

LEMMA StartsAreLines ==
    ASSUME NEW lines \in Seq(Lines)
    PROVE  EarlyStarts(lines) \subseteq DOMAIN lines /\ MarkedStarts(lines) \subseteq DOMAIN lines
<1>1. EarlyStarts(lines) \subseteq DOMAIN lines
  <2>1. \A i \in Firsts(lines, FirstArticle) : i \in DOMAIN lines
    BY DEF Firsts
  <2>2. \A i \in DOMAIN lines : HeaderBefore(lines, i) \in DOMAIN lines
    BY HeaderBeforeIs
  <2> QED
    BY <2>1, <2>2 DEF EarlyStarts
<1>2. MarkedStarts(lines) \subseteq DOMAIN lines
  BY DEF MarkedStarts, Firsts
<1> QED
  BY <1>1, <1>2

LEMMA BeginningIs ==
    ASSUME NEW lines \in Seq(Lines)
    PROVE  /\ Beginning(lines) \in Nat \ {0}
           /\ \/ Beginning(lines) = 1
              \/ Beginning(lines) \in EarlyStarts(lines)
              \/ EarlyStarts(lines) = {} /\ Beginning(lines) \in MarkedStarts(lines)
           /\ EarlyStarts(lines) # {} => Beginning(lines) \in EarlyStarts(lines)
<1>1. DOMAIN lines \subseteq Nat \ {0}
  OBVIOUS
<1> QED
  BY <1>1, StartsAreLines DEF Beginning

LEMMA FromType ==
    ASSUME NEW lines \in Seq(Lines), NEW s \in Nat \ {0}
    PROVE  /\ From(lines, s) \in Seq(Lines)
           /\ Len(From(lines, s)) = IF s <= Len(lines) THEN Len(lines) - s + 1 ELSE 0
           /\ \A i \in DOMAIN From(lines, s) : /\ s + i - 1 \in 1 .. Len(lines)
                                               /\ From(lines, s)[i] = lines[s + i - 1]
<1>1. Len(lines) \in Nat /\ \A i \in s .. Len(lines) : lines[i] \in Lines
  OBVIOUS
<1>2. /\ From(lines, s) \in Seq(Lines)
      /\ Len(From(lines, s)) = IF s <= Len(lines) THEN Len(lines) - s + 1 ELSE 0
      /\ \A i \in 1 .. Len(lines) - s + 1 : From(lines, s)[i] = lines[s + i - 1]
  BY <1>1, SubSeqProperties DEF From
<1>3. \A i \in DOMAIN From(lines, s) : i \in 1 .. Len(lines) - s + 1 /\ s + i - 1 \in 1 .. Len(lines)
  BY <1>1, <1>2
<1> QED
  BY <1>2, <1>3

LEMMA BeforeEndType ==
    ASSUME NEW lines \in Seq(Lines)
    PROVE  /\ BeforeEnd(lines) \in Seq(Lines)
           /\ \A i \in DOMAIN lines : \/ i \in DOMAIN BeforeEnd(lines) /\ BeforeEnd(lines)[i] = lines[i]
                                      \/ \E e \in Ends(lines) : e <= i
<1>1. Ends(lines) \subseteq DOMAIN lines
  BY DEF Ends
<1>2. CASE Ends(lines) = {}
  BY <1>2 DEF BeforeEnd
<1>3. CASE Ends(lines) # {}
  <2> DEFINE e == CHOOSE i \in Ends(lines) : \A j \in Ends(lines) : i <= j
  <2>1. Ends(lines) \in SUBSET Nat
    BY <1>1
  <2>2. e \in Ends(lines)
    BY <1>3, <2>1, FirstPlace
  <2>3. BeforeEnd(lines) = SubSeq(lines, 1, e - 1)
    BY <1>3 DEF BeforeEnd
  <2> HIDE DEF e
  <2>4. e \in 1 .. Len(lines) /\ Len(lines) \in Nat
    BY <1>1, <2>2
  <2>5. /\ SubSeq(lines, 1, e - 1) \in Seq(Lines)
        /\ Len(SubSeq(lines, 1, e - 1)) = IF 1 <= e - 1 THEN e - 1 - 1 + 1 ELSE 0
        /\ \A i \in 1 .. e - 1 - 1 + 1 : SubSeq(lines, 1, e - 1)[i] = lines[1 + i - 1]
    <3>1. \A i \in 1 .. e - 1 : lines[i] \in Lines
      BY <2>4
    <3> QED
      BY <2>4, <3>1, SubSeqProperties
  <2>6. ASSUME NEW i \in DOMAIN lines, ~ (e <= i)
        PROVE  i \in DOMAIN BeforeEnd(lines) /\ BeforeEnd(lines)[i] = lines[i]
    <3>1. i \in 1 .. e - 1 /\ Len(SubSeq(lines, 1, e - 1)) = e - 1 /\ 1 + i - 1 = i /\ e - 1 - 1 + 1 = e - 1
      BY <2>4, <2>5, <2>6
    <3>2. DOMAIN SubSeq(lines, 1, e - 1) = 1 .. Len(SubSeq(lines, 1, e - 1))
      BY <2>5
    <3> QED
      BY <2>3, <2>5, <3>1, <3>2
  <2> QED
    BY <2>2, <2>3, <2>5, <2>6
<1> QED
  BY <1>2, <1>3

LEMMA TrimType ==
    ASSUME NEW t, TakenOK(t)
    PROVE  Trim(t) \in Seq(Lines)
BY BeginningIs, FromType, BeforeEndType DEF Trim, TakenOK

LEMMA JoinFragmentsType ==
    ASSUME NEW lines \in Seq(Lines)
    PROVE  JoinFragments(lines) \in Seq(Lines)
<1> DEFINE joined == {i \in DOMAIN lines : i > 1 /\ Joins(lines[i - 1], lines[i])}
           mended == [i \in DOMAIN lines |-> IF i + 1 \in joined THEN [kind |-> "article", num |-> lines[i + 1].num]
                                             ELSE lines[i]]
<1>1. \A i \in DOMAIN lines : lines[i] \in Lines
  OBVIOUS
<1>2. \A i \in joined : [kind |-> "article", num |-> lines[i].num] \in Lines
  <2>1. "article" \in Kinds /\ \A i \in joined : lines[i].num \in Nat \X Letters
    BY <1>1 DEF Lines, Kinds, ArticleLike
  <2> HIDE DEF joined
  <2> QED
    BY <2>1, Zenon DEF Lines
<1>3. \A i \in DOMAIN lines : mended[i] \in Lines
  <2> HIDE DEF joined
  <2> QED
    BY <1>1, <1>2
<1>4. mended \in [1 .. Len(lines) -> Lines] /\ Len(lines) \in Nat
  <2> HIDE DEF joined
  <2> QED
    BY <1>3
<1>5. mended \in Seq(Lines)
  <2> HIDE DEF mended
  <2> QED
    BY <1>4
<1> QED
  BY <1>5, KeptType DEF JoinFragments

LEMMA CleanedType ==
    ASSUME NEW t, TakenOK(t)
    PROVE  Cleaned(t) \in Seq(Lines)
<1>1. WithoutBoilerplate(Trim(t)) \in Seq(Lines)
  BY TrimType, KeptType DEF WithoutBoilerplate
<1>2. JoinFragments(WithoutBoilerplate(Trim(t))) \in Seq(Lines)
  BY <1>1, JoinFragmentsType
<1>3. CollapseBlanks(JoinFragments(WithoutBoilerplate(Trim(t)))) \in Seq(Lines)
  BY <1>2, KeptType DEF CollapseBlanks
<1> QED
  BY <1>3, KeptType DEF Cleaned, WithoutWatermark

-----------------------------------------------------------------------------
(* What cleaning leaves of the article headings.                           *)

NamesAt(lines) == {i \in DOMAIN lines : NamesArticle(lines[i])}

LEMMA NamesAtType ==
    ASSUME NEW lines \in Seq(Lines)
    PROVE  /\ Count(lines, NamesArticle) = Cardinality(NamesAt(lines))
           /\ IsFiniteSet(NamesAt(lines)) /\ Cardinality(NamesAt(lines)) \in Nat
<1>1. DOMAIN lines = 1 .. Len(lines) /\ Len(lines) \in Nat
  OBVIOUS
<1>2. IsFiniteSet(DOMAIN lines)
  BY <1>1, FS_Interval
<1>3. NamesAt(lines) \subseteq DOMAIN lines
  BY DEF NamesAt
<1>4. IsFiniteSet(NamesAt(lines)) /\ Cardinality(NamesAt(lines)) \in Nat
  BY <1>2, <1>3, FS_Subset, FS_CardinalityType
<1> QED
  BY <1>4 DEF Count, NamesAt

\* The names of a text are counted in a longer one that holds it.
LEMMA NamesAreCounted ==
    ASSUME NEW part \in Seq(Lines), NEW whole \in Seq(Lines), NEW d \in Nat,
           \A i \in DOMAIN part : i + d \in DOMAIN whole /\ whole[i + d] = part[i]
    PROVE  Count(part, NamesArticle) <= Count(whole, NamesArticle)
<1> DEFINE f == [i \in NamesAt(part) |-> i + d]
<1>1. \A i \in NamesAt(part) : i \in Nat /\ i + d \in NamesAt(whole)
  BY DEF NamesAt
<1>2. f \in Injection(NamesAt(part), NamesAt(whole))
  BY <1>1 DEF Injection, IsInjective
<1>3. Cardinality(NamesAt(part)) <= Cardinality(NamesAt(whole))
  <2> HIDE DEF f
  <2> QED
    BY <1>2, NamesAtType, FS_Injection
<1> QED
  BY <1>3, NamesAtType

\* Two lines that name articles.
LEMMA TwoNames ==
    ASSUME NEW lines \in Seq(Lines), NEW i \in DOMAIN lines, NEW j \in DOMAIN lines, i # j,
           NamesArticle(lines[i]), NamesArticle(lines[j])
    PROVE  Count(lines, NamesArticle) >= 2
<1>1. {i, j} \subseteq NamesAt(lines)
  BY DEF NamesAt
<1>2. Cardinality({i, j}) = 2
  <2>1. IsFiniteSet({i}) /\ Cardinality({i}) = 1 /\ j \notin {i}
    BY FS_Singleton
  <2>2. Cardinality({i} \cup {j}) = Cardinality({i}) + 1
    BY <2>1, FS_AddElement
  <2>3. {i} \cup {j} = {i, j}
    OBVIOUS
  <2>4. Cardinality({i}) + 1 = 2
    BY <2>1
  <2> QED
    BY <2>2, <2>3, <2>4, Zenon
<1>3. Cardinality({i, j}) <= Cardinality(NamesAt(lines))
  BY <1>1, NamesAtType, FS_Subset
<1> QED
  BY <1>2, <1>3, NamesAtType

\* The text begins at or before an Article 1 that stands near the beginning, when another
\* article follows.
LEMMA BeginsBefore ==
    ASSUME NEW lines \in Seq(Lines), NEW k \in Firsts(lines, FirstArticle), k - 1 <= EarlyWindow,
           NEW n \in DOMAIN lines, n > k, HeadingLine(lines[n])
    PROVE  Beginning(lines) \in 1 .. k
<1>1. k \in 1 .. Len(lines) /\ Len(lines) \in Nat /\ n \in 1 .. Len(lines) /\ FirstArticle(lines[k])
  BY DEF Firsts
<1> DEFINE rest == From(lines, k)
<1>2. /\ rest \in Seq(Lines) /\ Len(rest) = Len(lines) - k + 1
      /\ \A i \in DOMAIN rest : rest[i] = lines[k + i - 1]
  BY <1>1, FromType
<1>3. Count(rest, NamesArticle) >= 2
  <2> HIDE DEF rest
  <2>1. 1 \in DOMAIN rest /\ n - k + 1 \in DOMAIN rest /\ 1 # n - k + 1
    BY <1>1, <1>2, SMTT(30)
  <2>2. rest[1] = lines[k] /\ rest[n - k + 1] = lines[n]
    <3>1. k + 1 - 1 = k /\ k + (n - k + 1) - 1 = n
      BY <1>1
    <3> QED
      BY <1>2, <2>1, <3>1
  <2>3. NamesArticle(lines[k]) /\ NamesArticle(lines[n])
    BY <1>1 DEF FirstArticle, HeadingLine, NamesArticle
  <2> QED
    BY <1>2, <2>1, <2>2, <2>3, TwoNames
<1>4. CASE Evidence(rest, ShortText)
  <2>1. HeaderBefore(lines, k) \in EarlyStarts(lines)
    BY <1>4 DEF EarlyStarts
  <2>2. Beginning(lines) \in EarlyStarts(lines)
    BY <2>1, BeginningIs
  <2>3. PICK i \in Firsts(lines, FirstArticle) : Beginning(lines) = HeaderBefore(lines, i)
    BY <2>2 DEF EarlyStarts
  <2>4. i = k
    BY FirstsIs
  <2>5. HeaderBefore(lines, k) \in 1 .. k
    BY <1>1, HeaderBeforeIs
  <2> QED
    BY <2>3, <2>4, <2>5
<1>5. CASE ~ Evidence(rest, ShortText)
  <2>1. Len(rest) < ShortText
    BY <1>2, <1>3, <1>5, LengthsAssumption DEF Evidence
  <2>2. EarlyStarts(lines) = {}
    <3> SUFFICES ASSUME NEW i \in Firsts(lines, FirstArticle), Evidence(From(lines, i), ShortText)
                 PROVE  FALSE
      BY DEF EarlyStarts
    <3>1. i = k
      BY FirstsIs
    <3> QED
      BY <1>5, <3>1
  <2>3. ASSUME NEW s \in MarkedStarts(lines) PROVE s \in 1 .. k
    <3>1. s \in 1 .. Len(lines)
      BY StartsAreLines
    <3>2. Evidence(From(lines, s), BodyText)
      BY DEF MarkedStarts
    <3>3. Len(From(lines, s)) >= BodyText
      BY <3>2 DEF Evidence
    <3>4. Len(From(lines, s)) = Len(lines) - s + 1
      BY <1>1, <3>1, FromType
    <3> HIDE DEF rest
    <3> QED
      BY <1>1, <1>2, <2>1, <3>1, <3>3, <3>4, LengthsAssumption
  <2>4. Beginning(lines) = 1 \/ Beginning(lines) \in MarkedStarts(lines)
    BY <2>2, BeginningIs
  <2> QED
    BY <1>1, <2>3, <2>4
<1> QED
  BY <1>4, <1>5

\* A heading line is no line of the site, no fragment, no blank line and no watermark.
LEMMA FiltersKeepHeadings ==
    ASSUME NEW lines \in Seq(Lines), NEW i \in DOMAIN lines, HeadingLine(lines[i])
    PROVE  \E m \in DOMAIN WithoutWatermark(CollapseBlanks(JoinFragments(WithoutBoilerplate(lines)))) :
              WithoutWatermark(CollapseBlanks(JoinFragments(WithoutBoilerplate(lines))))[m] = lines[i]
<1> DEFINE l == lines[i]
           one == WithoutBoilerplate(lines)
           two == JoinFragments(one)
           three == CollapseBlanks(two)
           four == WithoutWatermark(three)
<1>1. one \in Seq(Lines) /\ two \in Seq(Lines) /\ three \in Seq(Lines)
  BY KeptType, JoinFragmentsType DEF WithoutBoilerplate, CollapseBlanks
<1>2. l.kind = "article" \/ l.kind = "lower_article"
  BY DEF HeadingLine
<1>3. PICK a \in DOMAIN one : one[a] = l
  <2> DEFINE places == {n \in DOMAIN lines : lines[n].kind \notin {"site_line", "end_line"}}
  <2>1. i \in places
    BY <1>2
  <2>2. one = Kept(lines, places)
    BY DEF WithoutBoilerplate
  <2> HIDE DEF places, one
  <2> QED
    BY <2>1, <2>2, KeptHolds
<1> HIDE DEF l, one
<1>4. PICK b \in DOMAIN two : two[b] = l
  <2> DEFINE joined == {n \in DOMAIN one : n > 1 /\ Joins(one[n - 1], one[n])}
             mended == [n \in DOMAIN one |-> IF n + 1 \in joined
                                             THEN [kind |-> "article", num |-> one[n + 1].num]
                                             ELSE one[n]]
  <2>1. a \notin joined
    BY <1>2, <1>3 DEF Joins
  <2>2. a + 1 \notin joined
    <3>1. a \in Nat /\ a + 1 - 1 = a
      BY <1>1
    <3> QED
      BY <1>2, <1>3, <3>1 DEF Joins
  <2>3. mended \in Seq({mended[n] : n \in DOMAIN one})
    <3>1. DOMAIN one = 1 .. Len(one) /\ Len(one) \in Nat
      BY <1>1
    <3>2. mended \in [1 .. Len(one) -> {mended[n] : n \in DOMAIN one}]
      BY <3>1
    <3> HIDE DEF mended
    <3> QED
      BY <3>1, <3>2
  <2>4. a \in DOMAIN mended /\ mended[a] = l
    BY <1>3, <2>2
  <2>5. two = Kept(mended, DOMAIN one \ joined)
    BY DEF JoinFragments
  <2>6. a \in DOMAIN one \ joined
    BY <2>1
  <2> HIDE DEF mended, joined, two
  <2> QED
    BY <2>3, <2>4, <2>5, <2>6, KeptHolds
<1> HIDE DEF two
<1>5. PICK c \in DOMAIN three : three[c] = l
  <2> DEFINE places == {n \in DOMAIN two : ~ (n > 1 /\ two[n - 1].kind = "blank" /\ two[n].kind = "blank")}
  <2>1. b \in places
    BY <1>2, <1>4
  <2>2. three = Kept(two, places)
    BY DEF CollapseBlanks
  <2> HIDE DEF places, three
  <2> QED
    BY <1>1, <1>4, <2>1, <2>2, KeptHolds
<1> HIDE DEF three
<1>6. \E d \in DOMAIN four : four[d] = l
  <2> DEFINE places == {n \in DOMAIN three : three[n].kind # "watermark"}
  <2>1. c \in places
    BY <1>2, <1>5
  <2>2. four = Kept(three, places)
    BY DEF WithoutWatermark
  <2> HIDE DEF places, four
  <2> QED
    BY <1>1, <1>5, <2>1, <2>2, KeptHolds
<1> QED
  BY <1>6 DEF four, three, two, one, l

\* Where a text ends: at a line with a phrase, after three names of articles.
LEMMA EndsIs ==
    ASSUME NEW lines \in Seq(Lines), NEW e \in Ends(lines)
    PROVE  /\ e \in DOMAIN lines /\ lines[e].kind \in {"end_line", "end_phrase"}
           /\ \E b \in 1 .. e - 1 : Count(SubSeq(lines, b, e - 1), NamesArticle) >= 3
<1>1. e \in DOMAIN lines /\ lines[e].kind \in {"end_line", "end_phrase"}
  BY DEF Ends
<1>2. PICK b \in Firsts(lines, NamesArticle) :
         b + 3 <= e /\ Count(SubSeq(lines, b, e - 1), NamesArticle) >= 3
  BY DEF Ends
<1>3. b \in DOMAIN lines
  BY DEF Firsts
<1>4. b \in 1 .. e - 1
  BY <1>1, <1>2, <1>3
<1> QED
  BY <1>1, <1>2, <1>4

\* The article headings after an early Article 1 survive cleaning.
LEMMA CleaningKeepsArticles ==
    ASSUME NEW t, TakenOK(t), NEW k \in Firsts(t.lines, FirstArticle), k - 1 <= EarlyWindow,
           NEW n \in DOMAIN t.lines, n > k, HeadingLine(t.lines[n])
    PROVE  \/ \E m \in DOMAIN Cleaned(t) : Cleaned(t)[m] = t.lines[n]
           \/ /\ t.by # "preferred_tvpl_selector"
              /\ \E j \in 1 .. n - 1 : /\ t.lines[j].kind \in {"end_line", "end_phrase"}
                                       /\ Count(SubSeq(t.lines, 1, j), NamesArticle) >= 3
<1> DEFINE lines == t.lines
           s == Beginning(lines)
           body == From(lines, s)
<1>1. lines \in Seq(Lines)
  BY DEF TakenOK
<1>2. s \in 1 .. k /\ s \in Nat \ {0}
  BY <1>1, BeginsBefore, BeginningIs
<1>3. /\ body \in Seq(Lines) /\ Len(body) = Len(lines) - s + 1
      /\ \A i \in DOMAIN body : s + i - 1 \in 1 .. Len(lines) /\ body[i] = lines[s + i - 1]
  <2>1. k \in 1 .. Len(lines) /\ Len(lines) \in Nat
    BY <1>1 DEF Firsts
  <2> HIDE DEF s, lines
  <2>2. s <= Len(lines)
    BY <1>2, <2>1
  <2> QED
    BY <1>1, <1>2, <2>2, FromType
<1>4. Trim(t) = (IF t.by = "preferred_tvpl_selector" THEN body ELSE BeforeEnd(body))
  BY DEF Trim
<1>5. k \in 1 .. Len(lines) /\ Len(lines) \in Nat /\ n \in 1 .. Len(lines)
  BY <1>1 DEF Firsts
<1>6. HeadingLine(lines[n])
  OBVIOUS
<1> HIDE DEF lines, s, body
<1> DEFINE p == n - s + 1
<1>7. p \in DOMAIN body /\ body[p] = lines[n] /\ s + p - 1 = n
  <2>1. p \in 1 .. Len(body) /\ s + p - 1 = n
    BY <1>2, <1>3, <1>5
  <2>2. DOMAIN body = 1 .. Len(body)
    BY <1>3
  <2> QED
    BY <1>3, <2>1, <2>2
<1> HIDE DEF p
<1>8. ASSUME NEW i \in DOMAIN Trim(t), Trim(t)[i] = lines[n]
      PROVE  \E m \in DOMAIN Cleaned(t) : Cleaned(t)[m] = lines[n]
  <2>1. Trim(t) \in Seq(Lines)
    BY TrimType
  <2> QED
    BY <1>6, <1>8, <2>1, FiltersKeepHeadings DEF Cleaned
<1>9. CASE t.by = "preferred_tvpl_selector"
  BY <1>4, <1>7, <1>8, <1>9 DEF lines
<1>10. CASE t.by # "preferred_tvpl_selector"
  <2>1. CASE p \in DOMAIN BeforeEnd(body) /\ BeforeEnd(body)[p] = body[p]
    BY <1>4, <1>7, <1>8, <1>10, <2>1 DEF lines
  <2>2. ASSUME NEW e \in Ends(body), e <= p
        PROVE  \E j \in 1 .. n - 1 : /\ lines[j].kind \in {"end_line", "end_phrase"}
                                     /\ Count(SubSeq(lines, 1, j), NamesArticle) >= 3
    <3>1. e \in DOMAIN body /\ body[e].kind \in {"end_line", "end_phrase"}
      BY <1>3, EndsIs
    <3>2. PICK b \in 1 .. e - 1 : Count(SubSeq(body, b, e - 1), NamesArticle) >= 3
      BY <1>3, EndsIs
    <3> DEFINE j == s + e - 1
               part == SubSeq(body, b, e - 1)
               whole == SubSeq(lines, 1, j)
    <3>3. e \in 1 .. Len(body) /\ e \in Nat /\ b \in 1 .. e - 1 /\ p \in Nat
      BY <1>3, <1>7, <3>1
    <3>4. body[e] = lines[j] /\ j \in 1 .. Len(lines)
      BY <1>3, <3>1
    <3>5. e # p
      <4>1. lines[n].kind \notin {"end_line", "end_phrase"}
        BY <1>6 DEF HeadingLine
      <4> QED
        BY <1>7, <3>1, <4>1
    <3>6. j \in 1 .. n - 1
      BY <1>2, <1>5, <1>7, <2>2, <3>3, <3>4, <3>5, SMTT(30)
    <3>7. /\ part \in Seq(Lines) /\ Len(part) = e - 1 - b + 1
          /\ \A i \in 1 .. e - 1 - b + 1 : part[i] = body[b + i - 1]
      <4>1. \A i \in b .. e - 1 : body[i] \in Lines
        BY <1>3, <3>3
      <4> QED
        BY <3>3, <4>1, SubSeqProperties
    <3>8. /\ whole \in Seq(Lines) /\ Len(whole) = j - 1 + 1
          /\ \A i \in 1 .. j - 1 + 1 : whole[i] = lines[1 + i - 1]
      <4>1. \A i \in 1 .. j : lines[i] \in Lines
        BY <1>1, <3>4 DEF lines
      <4> HIDE DEF j
      <4> QED
        BY <3>4, <4>1, SubSeqProperties
    <3>9. Count(part, NamesArticle) <= Count(whole, NamesArticle)
      <4> DEFINE d == b + s - 2
      <4>1. d \in Nat
        BY <1>2, <3>3
      <4>2. ASSUME NEW i \in DOMAIN part PROVE i + d \in DOMAIN whole /\ whole[i + d] = part[i]
        <5>1. i \in 1 .. e - 1 - b + 1
          BY <3>7
        <5>2. part[i] = body[b + i - 1] /\ b + i - 1 \in 1 .. Len(body)
          BY <3>3, <3>7, <5>1
        <5>3. DOMAIN body = 1 .. Len(body) /\ DOMAIN whole = 1 .. Len(whole)
          BY <1>3, <3>8
        <5>4. body[b + i - 1] = lines[s + (b + i - 1) - 1]
          BY <1>3, <5>2, <5>3
        <5>5. i + d \in 1 .. j - 1 + 1 /\ 1 + (i + d) - 1 = s + (b + i - 1) - 1
          BY <1>2, <3>3, <5>1
        <5> QED
          BY <3>8, <5>2, <5>3, <5>4, <5>5
      <4> HIDE DEF part, whole, d
      <4> QED
        BY <3>7, <3>8, <4>1, <4>2, NamesAreCounted
    <3>10. Count(part, NamesArticle) \in Nat /\ Count(whole, NamesArticle) \in Nat
      <4> HIDE DEF part, whole
      <4> QED
        BY <3>7, <3>8, NamesAtType
    <3>11. Count(whole, NamesArticle) >= 3
      BY <3>2, <3>9, <3>10
    <3> QED
      BY <3>1, <3>4, <3>6, <3>11
  <2>3. (p \in DOMAIN BeforeEnd(body) /\ BeforeEnd(body)[p] = body[p]) \/ \E e \in Ends(body) : e <= p
    BY <1>3, <1>7, BeforeEndType
  <2> QED
    BY <1>10, <2>1, <2>2, <2>3 DEF lines
<1> QED
  BY <1>9, <1>10

-----------------------------------------------------------------------------
(* What the recognizer keeps.                                              *)

Numbers == (Nat \X Letters) \cup {None}
HeadingRecords == [level : DOMAIN MayHold, num : Nat \X Letters, at : Nat,
                   article : Numbers, clause : Numbers]
Contexts == [article : Numbers, clause : Numbers, note : BOOLEAN, started : BOOLEAN,
             quote : BOOLEAN, tail : BOOLEAN, appendix : BOOLEAN, table : BOOLEAN]

LEMMA RankIs ==
    /\ Rank("law") = 1 /\ Rank("part") = 2 /\ Rank("chapter") = 3 /\ Rank("section") = 4
    /\ Rank("article") = 5 /\ Rank("clause") = 6 /\ Rank("point") = 7
<1>1. /\ DOMAIN Levels = 1 .. 7
      /\ Levels[1] = "law" /\ Levels[2] = "part" /\ Levels[3] = "chapter" /\ Levels[4] = "section"
      /\ Levels[5] = "article" /\ Levels[6] = "clause" /\ Levels[7] = "point"
  BY DEF Levels
<1>2. \A i \in DOMAIN Levels : i = 1 \/ i = 2 \/ i = 3 \/ i = 4 \/ i = 5 \/ i = 6 \/ i = 7
  BY <1>1
<1>3. ASSUME NEW n \in DOMAIN Levels PROVE Rank(Levels[n]) = n
  <2>1. \A i \in DOMAIN Levels : Levels[i] = Levels[n] => i = n
    BY <1>1, <1>2
  <2> QED
    BY <2>1 DEF Rank
<1>4. 1 \in DOMAIN Levels /\ 2 \in DOMAIN Levels /\ 3 \in DOMAIN Levels /\ 4 \in DOMAIN Levels
      /\ 5 \in DOMAIN Levels /\ 6 \in DOMAIN Levels /\ 7 \in DOMAIN Levels
  BY <1>1
<1> QED
  BY <1>1, <1>3, <1>4, Zenon

LEMMA HeadingLevels ==
    DOMAIN MayHold = {"part", "chapter", "section", "article", "clause", "point"}
BY DEF MayHold

LEMMA RankType ==
    ASSUME NEW l \in DOMAIN MayHold
    PROVE  Rank(l) \in 2 .. 7
BY RankIs, HeadingLevels

\* The heading a is still open at line n of the list: none after it is of its level or above.
Standing(hs, a, n) == \A k \in a + 1 .. n : Rank(hs[k].level) > Rank(hs[a].level)
Stands(hs, level, num, n) ==
  \E a \in 1 .. n : hs[a].level = level /\ hs[a].num = num /\ Standing(hs, a, n)

\* The headings are in the order of their lines, and what a clause or a point says it
\* belongs to was open when it came.
HeadingsOK(hs) ==
  /\ hs \in Seq(HeadingRecords)
  /\ \A k \in 1 .. Len(hs) : /\ hs[k].at \in 1 .. pos - 1
                             /\ hs[k].num = doc[hs[k].at].num
                             /\ hs[k].level = "article" => doc[hs[k].at].kind = "article"
                             /\ \A b \in boundaries : b.at # hs[k].at
  /\ \A i, j \in 1 .. Len(hs) : i < j => hs[i].at < hs[j].at
  /\ \A k \in 1 .. Len(hs) :
       /\ hs[k].level \in {"clause", "point"} => Stands(hs, "article", hs[k].article, k - 1)
       /\ hs[k].level = "point" => Stands(hs, "clause", hs[k].clause, k - 1)

ContextOK ==
  /\ ctx \in Contexts
  /\ ctx.article # None => Stands(headings, "article", ctx.article, Len(headings))
  /\ ctx.clause # None => /\ ctx.article # None
                          /\ Stands(headings, "clause", ctx.clause, Len(headings))

\* The verdicts on the law: none yet, or the one its headings give.
VerdictsOK ==
  /\ \/ outcome = NoOutcome
     \/ Loaded /\ pos = Len(doc) + 1 /\ outcome = Judged
  /\ chunks # NoChunks => Accepted /\ chunks = Chunked

LawInv ==
  /\ TakenOK(taken) /\ doc = Cleaned(taken) /\ doc \in Seq(Lines)
  /\ pos \in 1 .. Len(doc) + 1
  /\ \A b \in boundaries : b.at \in 1 .. pos - 1
  /\ HeadingsOK(headings)
  /\ ContextOK
  /\ VerdictsOK

-----------------------------------------------------------------------------

LEMMA SuppressIs ==
    ASSUME NEW c \in Contexts, NEW l
    PROVE  /\ Suppress(c, l).then \in Contexts
           /\ Suppress(c, l).then.article = c.article
           /\ Suppress(c, l).then.clause = c.clause
<1> DEFINE Fine(r) == r.then \in Contexts /\ r.then.article = c.article /\ r.then.clause = c.clause
<1>1. /\ c.note \in BOOLEAN /\ c.tail \in BOOLEAN /\ c.started \in BOOLEAN
      /\ Fine([drop |-> FALSE, then |-> c]) /\ Fine([drop |-> TRUE, then |-> c])
  BY DEF Contexts
<1>2. \A q \in BOOLEAN : Fine([drop |-> TRUE, then |-> [c EXCEPT !.started = TRUE, !.tail = TRUE, !.quote = q]])
  BY DEF Contexts
<1>3. /\ Fine([drop |-> FALSE, then |-> [c EXCEPT !.started = TRUE]])
      /\ Fine([drop |-> TRUE, then |-> [c EXCEPT !.tail = TRUE, !.quote = TRUE]])
      /\ Fine([drop |-> FALSE, then |-> [c EXCEPT !.note = FALSE, !.started = FALSE, !.quote = FALSE]])
      /\ Fine([drop |-> TRUE, then |-> [c EXCEPT !.tail = TRUE]])
  BY DEF Contexts
<1>4. (l.kind \in Quoting) \in BOOLEAN
  OBVIOUS
<1> HIDE DEF Fine
<1>5. Fine(Suppress(c, l))
  <2>1. CASE ~ c.note
    BY <1>1, <2>1 DEF Suppress
  <2>2. CASE c.note /\ c.tail
    BY <1>1, <2>2 DEF Suppress
  <2>3. CASE c.note /\ ~ c.tail /\ ~ c.started
    BY <1>2, <1>3, <1>4, <2>3 DEF Suppress
  <2>4. CASE c.note /\ ~ c.tail /\ c.started
    BY <1>1, <1>3, <2>4 DEF Suppress
  <2> QED
    BY <1>1, <2>1, <2>2, <2>3, <2>4
<1> QED
  BY <1>5 DEF Fine

\* One more heading does not change what stood before it.
LEMMA StandsBefore ==
    ASSUME NEW hs \in Seq(HeadingRecords), NEW h \in HeadingRecords, NEW n \in 0 .. Len(hs),
           NEW level, NEW num
    PROVE  Stands(hs, level, num, n) <=> Stands(Append(hs, h), level, num, n)
<1>1. Len(hs) \in Nat /\ \A k \in 1 .. n : Append(hs, h)[k] = hs[k]
  OBVIOUS
<1>2. \A a \in 1 .. n : \A k \in a + 1 .. n : k \in 1 .. n
  BY <1>1
<1>3. \A a \in 1 .. n : Standing(hs, a, n) <=> Standing(Append(hs, h), a, n)
  BY <1>1, <1>2 DEF Standing
<1> QED
  BY <1>1, <1>3 DEF Stands

\* What stands outranks the next heading: it stands after it too.
LEMMA StandsAfter ==
    ASSUME NEW hs \in Seq(HeadingRecords), NEW h \in HeadingRecords, NEW level, NEW num,
           Stands(hs, level, num, Len(hs)), Rank(h.level) > Rank(level)
    PROVE  Stands(Append(hs, h), level, num, Len(hs) + 1)
<1> DEFINE more == Append(hs, h)
           n == Len(hs)
<1>1. n \in Nat /\ more[n + 1] = h /\ \A k \in 1 .. n : more[k] = hs[k]
  OBVIOUS
<1>2. PICK a \in 1 .. n : more[a].level = level /\ more[a].num = num /\ Standing(more, a, n)
  <2>1. Stands(more, level, num, n)
    BY StandsBefore, <1>1
  <2> QED
    BY <2>1 DEF Stands
<1> HIDE DEF more, n
<1>3. Standing(more, a, n + 1)
  <2>1. \A k \in a + 1 .. n + 1 : k = n + 1 \/ k \in a + 1 .. n
    BY <1>1
  <2> QED
    BY <1>1, <1>2, <2>1 DEF Standing
<1>4. a \in 1 .. n + 1
  BY <1>1
<1> QED
  BY <1>2, <1>3, <1>4 DEF Stands, more, n

LEMMA StandsNew ==
    ASSUME NEW hs \in Seq(HeadingRecords), NEW h \in HeadingRecords
    PROVE  Stands(Append(hs, h), h.level, h.num, Len(hs) + 1)
<1>1. Len(hs) \in Nat /\ Append(hs, h)[Len(hs) + 1] = h /\ Len(hs) + 1 \in 1 .. Len(hs) + 1
  OBVIOUS
<1>2. Len(hs) + 1 + 1 .. Len(hs) + 1 = {}
  BY <1>1
<1> QED
  BY <1>1, <1>2, Zenon DEF Stands, Standing

\* A line that becomes a heading.
LEMMA OneMoreHeading ==
    ASSUME LawInv, Reading, NEW level \in DOMAIN MayHold, NEW c, c.article \in Numbers, c.clause \in Numbers,
           Heading(level, c), pos' = pos + 1, boundaries' = boundaries, doc' = doc,
           level = "article" => Line.kind = "article",
           level \in {"clause", "point"} => Stands(headings, "article", c.article, Len(headings)),
           level = "point" => Stands(headings, "clause", c.clause, Len(headings))
    PROVE  /\ HeadingsOK(headings)'
           /\ Stands(headings', level, Line.num, Len(headings'))
           /\ \A l, num : Stands(headings, l, num, Len(headings)) /\ Rank(level) > Rank(l)
                             => Stands(headings', l, num, Len(headings'))
<1> DEFINE h == [level |-> level, num |-> Line.num, at |-> pos, article |-> c.article,
                 clause |-> c.clause]
           n == Len(headings)
<1>1. /\ headings \in Seq(HeadingRecords) /\ n \in Nat /\ pos \in Nat /\ pos >= 1
      /\ pos \in 1 .. Len(doc) /\ Line \in Lines /\ Line.num \in Nat \X Letters
  <2>1. headings \in Seq(HeadingRecords) /\ n \in Nat
    BY DEF LawInv, HeadingsOK
  <2>2. doc \in Seq(Lines) /\ pos \in 1 .. Len(doc) + 1 /\ pos <= Len(doc)
    BY DEF LawInv, Reading
  <2>3. pos \in Nat /\ pos >= 1 /\ pos \in 1 .. Len(doc) /\ Line \in Lines
    BY <2>2 DEF Line
  <2>4. Line.num \in Nat \X Letters
    BY <2>3 DEF Lines
  <2> QED
    BY <2>1, <2>3, <2>4
<1>2. h \in HeadingRecords
  BY <1>1 DEF HeadingRecords
<1>3. headings' = Append(headings, h)
  BY DEF Heading
<1>4. h.level = level /\ h.num = Line.num /\ h.at = pos /\ h.article = c.article /\ h.clause = c.clause
  OBVIOUS
<1> HIDE DEF h
<1>5. /\ headings' \in Seq(HeadingRecords) /\ Len(headings') = n + 1 /\ headings'[n + 1] = h
      /\ \A k \in 1 .. n : headings'[k] = headings[k]
      /\ \A k \in 1 .. n + 1 : k = n + 1 \/ k \in 1 .. n
  BY <1>1, <1>2, <1>3
<1>6. Stands(headings', level, Line.num, Len(headings'))
  BY <1>1, <1>2, <1>3, <1>4, <1>5, StandsNew
<1>7. ASSUME NEW l, NEW num, Stands(headings, l, num, n), Rank(level) > Rank(l)
      PROVE  Stands(headings', l, num, Len(headings'))
  BY <1>1, <1>2, <1>3, <1>4, <1>5, <1>7, StandsAfter
<1>8. ASSUME NEW k \in 1 .. n + 1
      PROVE  /\ headings'[k].at \in 1 .. pos' - 1
             /\ headings'[k].num = doc'[headings'[k].at].num
             /\ headings'[k].level = "article" => doc'[headings'[k].at].kind = "article"
             /\ \A b \in boundaries' : b.at # headings'[k].at
  <2>1. CASE k = n + 1
    <3>1. headings'[k].at = pos /\ headings'[k].num = doc[pos].num /\ headings'[k].level = level
      BY <1>4, <1>5, <2>1 DEF Line
    <3>2. pos \in 1 .. pos' - 1 /\ \A b \in boundaries : b.at # pos
      BY <1>1 DEF LawInv
    <3> QED
      BY <3>1, <3>2 DEF Line
  <2>2. CASE k \in 1 .. n
    <3>1. /\ headings[k].at \in 1 .. pos - 1
          /\ headings[k].num = doc[headings[k].at].num
          /\ headings[k].level = "article" => doc[headings[k].at].kind = "article"
          /\ \A b \in boundaries : b.at # headings[k].at
      BY <2>2 DEF LawInv, HeadingsOK
    <3>2. headings[k].at \in 1 .. pos' - 1
      BY <1>1, <3>1
    <3> QED
      BY <1>5, <2>2, <3>1, <3>2
  <2> QED
    BY <1>5, <2>1, <2>2
<1>9. ASSUME NEW i \in 1 .. n + 1, NEW j \in 1 .. n + 1, i < j
      PROVE  headings'[i].at < headings'[j].at
  <2>1. i \in 1 .. n
    BY <1>1, <1>9
  <2>2. headings[i].at \in 1 .. pos - 1 /\ headings'[i] = headings[i]
    BY <1>5, <2>1 DEF LawInv, HeadingsOK
  <2>3. CASE j = n + 1
    BY <1>1, <1>4, <1>5, <2>2, <2>3
  <2>4. CASE j \in 1 .. n
    BY <1>5, <1>9, <2>1, <2>4 DEF LawInv, HeadingsOK
  <2> QED
    BY <1>5, <2>3, <2>4
<1>10. ASSUME NEW k \in 1 .. n + 1
       PROVE  /\ headings'[k].level \in {"clause", "point"}
                   => Stands(headings', "article", headings'[k].article, k - 1)
              /\ headings'[k].level = "point" => Stands(headings', "clause", headings'[k].clause, k - 1)
  <2>0. \A num : /\ Stands(headings, "article", num, k - 1) => Stands(headings', "article", num, k - 1)
                 /\ Stands(headings, "clause", num, k - 1) => Stands(headings', "clause", num, k - 1)
    <3>1. k - 1 \in 0 .. n
      BY <1>1
    <3> QED
      BY <1>1, <1>2, <1>3, <3>1, StandsBefore
  <2>1. CASE k = n + 1
    <3>1. k - 1 = n /\ headings'[k] = h
      BY <1>1, <1>5, <2>1
    <3> QED
      BY <1>4, <2>0, <3>1
  <2>2. CASE k \in 1 .. n
    <3>1. /\ headings[k].level \in {"clause", "point"} => Stands(headings, "article", headings[k].article, k - 1)
          /\ headings[k].level = "point" => Stands(headings, "clause", headings[k].clause, k - 1)
      BY <2>2 DEF LawInv, HeadingsOK
    <3> QED
      BY <1>5, <2>0, <2>2, <3>1
  <2> QED
    BY <1>5, <2>1, <2>2
<1>11. HeadingsOK(headings)'
  BY <1>5, <1>8, <1>9, <1>10 DEF HeadingsOK, Stands, Standing
<1> QED
  BY <1>6, <1>7, <1>11

\* While lines are read there are no verdicts.
LEMMA ReadOn ==
    ASSUME LawInv, Reading, Next1, UNCHANGED text
    PROVE  /\ TakenOK(taken)' /\ (doc = Cleaned(taken))' /\ (doc \in Seq(Lines))'
           /\ (pos \in 1 .. Len(doc) + 1)'
           /\ VerdictsOK'
           /\ boundaries' = boundaries => (\A b \in boundaries : b.at \in 1 .. pos - 1)'
           /\ boundaries' = boundaries /\ headings' = headings => HeadingsOK(headings)'
<1>1. taken' = taken /\ doc' = doc /\ outcome' = outcome /\ chunks' = chunks /\ pos' = pos + 1
  BY DEF text, Next1
<1>2. TakenOK(taken) /\ doc = Cleaned(taken) /\ doc \in Seq(Lines) /\ pos \in 1 .. Len(doc) + 1
      /\ pos <= Len(doc)
  BY DEF LawInv, Reading
<1>3. pos \in Nat /\ Len(doc) \in Nat /\ pos \in 1 .. Len(doc)
  BY <1>2
<1>4. outcome = NoOutcome
  <2>1. pos # Len(doc) + 1
    BY <1>3
  <2> QED
    BY <2>1 DEF LawInv, VerdictsOK
<1>5. chunks = NoChunks
  BY <1>4 DEF LawInv, VerdictsOK, Accepted, NoOutcome
<1>6. TakenOK(taken') /\ doc' = Cleaned(taken') /\ doc' \in Seq(Lines) /\ pos' \in 1 .. Len(doc') + 1
  BY <1>1, <1>2, <1>3
<1>7. VerdictsOK'
  BY <1>1, <1>4, <1>5 DEF VerdictsOK
<1>8. \A n \in 1 .. pos - 1 : n \in 1 .. pos' - 1
  BY <1>1, <1>3
<1>9. boundaries' = boundaries => \A b \in boundaries' : b.at \in 1 .. pos' - 1
  BY <1>8 DEF LawInv
<1>10. boundaries' = boundaries /\ headings' = headings => HeadingsOK(headings)'
  <2> SUFFICES ASSUME boundaries' = boundaries, headings' = headings PROVE HeadingsOK(headings)'
    OBVIOUS
  <2>1. HeadingsOK(headings)
    BY DEF LawInv
  <2>2. \A k \in 1 .. Len(headings) : headings[k].at \in 1 .. pos' - 1
    BY <1>8, <2>1 DEF HeadingsOK
  <2> QED
    BY <1>1, <2>1, <2>2 DEF HeadingsOK, Stands, Standing
<1> QED
  BY <1>6, <1>7, <1>9, <1>10 DEF TakenOK

\* A line that becomes a boundary is no heading.
LEMMA BoundaryPlaced ==
    ASSUME LawInv, Reading, Next1, UNCHANGED <<text, headings>>, NEW k, Boundary(k)
    PROVE  (\A b \in boundaries : b.at \in 1 .. pos - 1)' /\ HeadingsOK(headings)'
<1>1. doc' = doc /\ pos' = pos + 1 /\ headings' = headings
      /\ boundaries' = boundaries \cup {[kind |-> k, at |-> pos]}
  BY DEF text, Next1, Boundary
<1>2. HeadingsOK(headings) /\ \A b \in boundaries : b.at \in 1 .. pos - 1
  BY DEF LawInv
<1>3. pos \in Nat /\ pos >= 1
  <2>1. doc \in Seq(Lines) /\ pos \in 1 .. Len(doc) + 1
    BY DEF LawInv
  <2> QED
    BY <2>1
<1>4. \A n \in 1 .. pos - 1 : n \in 1 .. pos' - 1 /\ n # pos
  BY <1>1, <1>3
<1>5. pos \in 1 .. pos' - 1
  BY <1>1, <1>3
<1>6. \A b \in boundaries' : b \in boundaries \/ b.at = pos
  BY <1>1
<1>7. \A b \in boundaries' : b.at \in 1 .. pos' - 1
  BY <1>2, <1>4, <1>5, <1>6
<1>8. \A n \in 1 .. Len(headings) : /\ headings[n].at \in 1 .. pos' - 1
                                    /\ \A b \in boundaries' : b.at # headings[n].at
  BY <1>2, <1>4, <1>6 DEF HeadingsOK
<1>9. HeadingsOK(headings)'
  <2>1. /\ headings \in Seq(HeadingRecords)
        /\ \A n \in 1 .. Len(headings) : /\ headings[n].num = doc[headings[n].at].num
                                         /\ headings[n].level = "article" => doc[headings[n].at].kind = "article"
        /\ \A i, j \in 1 .. Len(headings) : i < j => headings[i].at < headings[j].at
    BY <1>2 DEF HeadingsOK
  <2>2. \A n \in 1 .. Len(headings) :
          /\ headings[n].level \in {"clause", "point"} => Stands(headings, "article", headings[n].article, n - 1)
          /\ headings[n].level = "point" => Stands(headings, "clause", headings[n].clause, n - 1)
    BY <1>2 DEF HeadingsOK
  <2>3. \A n \in 1 .. Len(headings') :
          /\ headings'[n].level \in {"clause", "point"} => Stands(headings', "article", headings'[n].article, n - 1)
          /\ headings'[n].level = "point" => Stands(headings', "clause", headings'[n].clause, n - 1)
    BY <1>1, <2>2
  <2> QED
    BY <1>1, <1>8, <2>1, <2>3 DEF HeadingsOK
<1> QED
  BY <1>7, <1>9

\* The context may lose its clause while no heading is added.
LEMMA ContextKept ==
    ASSUME ContextOK, headings' = headings, ctx' \in Contexts, ctx'.article = ctx.article,
           ctx'.clause = ctx.clause \/ ctx'.clause = None
    PROVE  ContextOK'
BY DEF ContextOK, Stands, Standing

\* What the source-note filter leaves of the context.
LEMMA FilteredIs ==
    ASSUME LawInv
    PROVE  /\ ctx \in Contexts /\ Filtered.then \in Contexts
           /\ Filtered.then.article = ctx.article /\ Filtered.then.clause = ctx.clause
BY SuppressIs DEF LawInv, ContextOK, Filtered

LEMMA BeginsSafe ==
    ASSUME LawInit
    PROVE  LawInv
<1>1. PICK stored \in Pages : taken \in Extracted(stored)
  BY DEF LawInit
<1>2. TakenOK(taken) /\ doc = Cleaned(taken) /\ doc \in Seq(Lines)
  BY <1>1, ExtractedType, CleanedType DEF LawInit
<1>3. pos = 1 /\ headings = << >> /\ boundaries = {} /\ ctx = FreshContext /\ outcome = NoOutcome
      /\ chunks = NoChunks
  BY DEF LawInit
<1>4. pos \in 1 .. Len(doc) + 1
  BY <1>2, <1>3
<1>5. HeadingsOK(headings)
  <2>1. << >> \in Seq(HeadingRecords) /\ 1 .. Len(<< >>) = {}
    OBVIOUS
  <2> QED
    BY <1>3, <2>1 DEF HeadingsOK
<1>6. ContextOK
  BY <1>3 DEF ContextOK, FreshContext, Contexts, Numbers
<1>7. VerdictsOK
  BY <1>3 DEF VerdictsOK
<1> QED
  BY <1>2, <1>3, <1>4, <1>5, <1>6, <1>7 DEF LawInv

LEMMA ReadingSafe ==
    ASSUME LawInv, \/ SkipBlank \/ SourceNote \/ OtherBoundary \/ DropNoteContent \/ Plain
    PROVE  LawInv'
<1>1. CASE SkipBlank
  <2>1. Reading /\ Next1 /\ UNCHANGED text /\ boundaries' = boundaries /\ headings' = headings /\ ctx' = ctx
    BY <1>1 DEF SkipBlank
  <2>2. ContextOK'
    BY <2>1 DEF LawInv, ContextOK, Stands, Standing
  <2> QED
    BY <2>1, <2>2, ReadOn DEF LawInv
<1>2. CASE SourceNote
  <2>1. Reading /\ Next1 /\ UNCHANGED text /\ headings' = headings /\ Boundary("source_note")
    BY <1>2 DEF SourceNote
  <2>2. ContextOK /\ ctx \in Contexts
    BY DEF LawInv, ContextOK
  <2>3. PICK t \in BOOLEAN :
           ctx' = [ctx EXCEPT !.note = TRUE, !.started = FALSE, !.quote = FALSE, !.clause = None, !.tail = t]
    BY <1>2 DEF SourceNote
  <2>4. ctx' \in Contexts /\ ctx'.article = ctx.article /\ ctx'.clause = None
    BY <2>2, <2>3 DEF Contexts, Numbers
  <2>5. ContextOK'
    BY <2>1, <2>2, <2>4, ContextKept
  <2> QED
    BY <2>1, <2>5, ReadOn, BoundaryPlaced DEF LawInv
<1>3. CASE OtherBoundary
  <2>1. Reading /\ Next1 /\ UNCHANGED text /\ headings' = headings /\ Boundary(Line.kind)
    BY <1>3 DEF OtherBoundary
  <2>2. ContextOK /\ ctx \in Contexts
    BY DEF LawInv, ContextOK
  <2>3. PICK a \in BOOLEAN, t \in BOOLEAN :
           ctx' = [ctx EXCEPT !.clause = None, !.appendix = a, !.table = t]
    <3>1. ctx' = [ctx EXCEPT !.clause = None, !.appendix = ctx.appendix \/ Line.kind = "appendix",
                             !.table = ctx.table \/ Line.kind = "table"]
      BY <1>3 DEF OtherBoundary
    <3>2. (ctx.appendix \/ Line.kind = "appendix") \in BOOLEAN /\ (ctx.table \/ Line.kind = "table") \in BOOLEAN
      OBVIOUS
    <3> QED
      BY <3>1, <3>2
  <2>4. ctx' \in Contexts /\ ctx'.article = ctx.article /\ ctx'.clause = None
    BY <2>2, <2>3 DEF Contexts, Numbers
  <2>5. ContextOK'
    BY <2>1, <2>2, <2>4, ContextKept
  <2> QED
    BY <2>1, <2>5, ReadOn, BoundaryPlaced DEF LawInv
<1>4. CASE DropNoteContent \/ Plain
  <2>1. Reading /\ Next1 /\ UNCHANGED text /\ boundaries' = boundaries /\ headings' = headings
        /\ ctx' = Filtered.then
    BY <1>4 DEF DropNoteContent, Plain, Content
  <2>2. ContextOK'
    BY <2>1, FilteredIs, ContextKept DEF LawInv
  <2> QED
    BY <2>1, <2>2, ReadOn DEF LawInv
<1> QED
  BY <1>1, <1>2, <1>3, <1>4

LEMMA HeadingSafe ==
    ASSUME LawInv, \/ Structure \/ Article \/ Point \/ Clause
    PROVE  LawInv'
<1>1. Reading /\ Next1 /\ pos' = pos + 1 /\ UNCHANGED text /\ boundaries' = boundaries /\ doc' = doc
  BY DEF Structure, Article, Point, Clause, Content, Next1, text
<1>2. /\ ctx \in Contexts /\ Filtered.then \in Contexts
      /\ Filtered.then.article = ctx.article /\ Filtered.then.clause = ctx.clause
  BY FilteredIs
<1>3. ContextOK
  BY DEF LawInv
<1>4. None \in Numbers /\ FreshContext.article = None /\ FreshContext.clause = None
  BY DEF Numbers, FreshContext
<1>5. Line.num \in Numbers
  <2>1. doc \in Seq(Lines) /\ pos \in 1 .. Len(doc)
    BY <1>1 DEF LawInv, Reading
  <2>2. doc[pos] \in Lines
    BY <2>1
  <2> QED
    BY <2>2 DEF Lines, Numbers, Line
<1>6. ASSUME HeadingsOK(headings)', ContextOK' PROVE LawInv'
  BY <1>1, <1>6, ReadOn DEF LawInv
<1>7. ASSUME headings' = headings, ctx' = Filtered.then PROVE LawInv'
  <2>1. ContextOK'
    BY <1>2, <1>3, <1>7, ContextKept
  <2>2. HeadingsOK(headings)'
    BY <1>1, <1>7, ReadOn
  <2> QED
    BY <1>6, <2>1, <2>2
<1>8. CASE Structure
  <2>1. /\ Line.kind \in DOMAIN MayHold /\ Line.kind \notin {"article", "clause", "point"}
        /\ Heading(Line.kind, FreshContext)
        /\ ctx' = [Filtered.then EXCEPT !.article = None, !.clause = None]
    BY <1>8, HeadingLevels DEF Structure
  <2>2. HeadingsOK(headings)'
    BY <1>1, <1>4, <2>1, OneMoreHeading
  <2>3. ctx' \in Contexts /\ ctx'.article = None /\ ctx'.clause = None
    BY <1>2, <1>4, <2>1 DEF Contexts
  <2>4. ContextOK'
    BY <2>3 DEF ContextOK
  <2> QED
    BY <1>6, <2>2, <2>4
<1>9. CASE Article
  <2>1. /\ Line.kind = "article" /\ Heading("article", FreshContext)
        /\ ctx' = [Filtered.then EXCEPT !.article = Line.num, !.clause = None, !.note = FALSE,
                                  !.started = FALSE, !.quote = FALSE, !.tail = FALSE, !.table = FALSE]
    BY <1>9 DEF Article
  <2>2. "article" \in DOMAIN MayHold
    BY HeadingLevels
  <2>3. HeadingsOK(headings)' /\ Stands(headings', "article", Line.num, Len(headings'))
    BY <1>1, <1>4, <2>1, <2>2, OneMoreHeading
  <2>4. ctx' \in Contexts /\ ctx'.article = Line.num /\ ctx'.clause = None
    BY <1>2, <1>4, <1>5, <2>1 DEF Contexts
  <2>5. ContextOK'
    BY <2>3, <2>4 DEF ContextOK
  <2> QED
    BY <1>6, <2>3, <2>5
<1>10. CASE Point
  <2>1. ctx' = Filtered.then
    BY <1>10 DEF Point
  <2>2. CASE headings' = headings
    BY <1>7, <2>1, <2>2
  <2>3. CASE Filtered.then.clause # None /\ Heading("point", Filtered.then)
    <3>1. "point" \in DOMAIN MayHold
      BY HeadingLevels
    <3>2. /\ Stands(headings, "article", ctx.article, Len(headings))
          /\ Stands(headings, "clause", ctx.clause, Len(headings))
      BY <1>2, <1>3, <2>3 DEF ContextOK
    <3>3. Filtered.then.article \in Numbers /\ Filtered.then.clause \in Numbers
      BY <1>2 DEF Contexts
    <3>4. /\ HeadingsOK(headings)'
          /\ \A l, num : Stands(headings, l, num, Len(headings)) /\ Rank("point") > Rank(l)
                             => Stands(headings', l, num, Len(headings'))
      BY <1>1, <1>2, <2>3, <3>1, <3>2, <3>3, OneMoreHeading
    <3>5. /\ Stands(headings', "article", ctx.article, Len(headings'))
          /\ Stands(headings', "clause", ctx.clause, Len(headings'))
      <4>1. Rank("point") > Rank("article") /\ Rank("point") > Rank("clause")
        BY RankIs
      <4> QED
        BY <3>2, <3>4, <4>1
    <3>6. ContextOK'
      BY <1>2, <1>3, <2>1, <3>5 DEF ContextOK
    <3> QED
      BY <1>6, <3>4, <3>6
  <2> QED
    BY <1>10, <2>2, <2>3 DEF Point
<1>11. CASE Clause
  <2>1. CASE headings' = headings /\ ctx' = Filtered.then
    BY <1>7, <2>1
  <2>2. CASE /\ Filtered.then.article # None /\ Heading("clause", Filtered.then)
             /\ ctx' = OpensClause(Filtered.then)
    <3>1. "clause" \in DOMAIN MayHold
      BY HeadingLevels
    <3>2. Stands(headings, "article", ctx.article, Len(headings))
      BY <1>2, <1>3, <2>2 DEF ContextOK
    <3>3. Filtered.then.article \in Numbers /\ Filtered.then.clause \in Numbers
      BY <1>2 DEF Contexts
    <3>4. /\ HeadingsOK(headings)'
          /\ Stands(headings', "clause", Line.num, Len(headings'))
          /\ \A l, num : Stands(headings, l, num, Len(headings)) /\ Rank("clause") > Rank(l)
                             => Stands(headings', l, num, Len(headings'))
      BY <1>1, <1>2, <2>2, <3>1, <3>2, <3>3, OneMoreHeading
    <3>5. Stands(headings', "article", ctx.article, Len(headings'))
      <4>1. Rank("clause") > Rank("article")
        BY RankIs
      <4> QED
        BY <3>2, <3>4, <4>1
    <3>6. ctx' \in Contexts /\ ctx'.article = ctx.article /\ ctx'.clause = Line.num
      BY <1>2, <1>5, <2>2 DEF OpensClause, Contexts
    <3>7. ContextOK'
      BY <1>2, <2>2, <3>4, <3>5, <3>6 DEF ContextOK
    <3> QED
      BY <1>6, <3>4, <3>7
  <2> QED
    BY <1>11, <2>1, <2>2 DEF Clause
<1> QED
  BY <1>8, <1>9, <1>10, <1>11

LEMMA JudgingSafe ==
    ASSUME LawInv, \/ Parse \/ Chunk \/ UNCHANGED lawVars
    PROVE  LawInv'
<1>1. CASE Parse
  <2>1. /\ Loaded /\ ~ Reading /\ outcome = NoOutcome /\ outcome' = Judged
        /\ UNCHANGED <<taken, doc, pos, ctx, headings, boundaries, refused, issues, chunks>>
    BY <1>1 DEF Parse
  <2>2. pos = Len(doc) + 1
    <3>1. doc \in Seq(Lines) /\ pos \in 1 .. Len(doc) + 1
      BY DEF LawInv
    <3> QED
      BY <2>1, <3>1 DEF Reading
  <2>3. chunks = NoChunks
    BY <2>1 DEF LawInv, VerdictsOK, Accepted, NoOutcome
  <2>4. Judged' = Judged
    BY <2>1 DEF Judged, CountedArticles
  <2>5. VerdictsOK'
    BY <2>1, <2>2, <2>3, <2>4 DEF VerdictsOK, Loaded
  <2>6. HeadingsOK(headings)' /\ ContextOK'
    BY <2>1 DEF LawInv, HeadingsOK, ContextOK, Stands, Standing
  <2> QED
    BY <2>1, <2>5, <2>6 DEF LawInv, TakenOK
<1>2. CASE Chunk
  <2>1. /\ outcome.status \in {"success", "success_with_warnings"} /\ chunks' = Chunked
        /\ UNCHANGED <<taken, doc, pos, ctx, headings, boundaries, refused, issues, outcome>>
    BY <1>2 DEF Chunk
  <2>2. Judged' = Judged /\ Chunked' = Chunked /\ Accepted'
    BY <2>1 DEF Judged, CountedArticles, Chunked, Accepted
  <2>3. VerdictsOK'
    BY <2>1, <2>2 DEF LawInv, VerdictsOK, Loaded
  <2>4. HeadingsOK(headings)' /\ ContextOK'
    <3>1. HeadingsOK(headings) /\ ContextOK
      BY DEF LawInv
    <3>2. doc' = doc /\ pos' = pos /\ ctx' = ctx /\ headings' = headings /\ boundaries' = boundaries
      BY <2>1
    <3>3. HeadingsOK(headings)'
      BY <3>1, <3>2 DEF HeadingsOK, Stands, Standing
    <3>4. ContextOK'
      BY <3>1, <3>2 DEF ContextOK, Stands, Standing
    <3> QED
      BY <3>3, <3>4
  <2> QED
    BY <2>1, <2>3, <2>4 DEF LawInv, TakenOK
<1>3. CASE UNCHANGED lawVars
  <2>1. /\ taken' = taken /\ doc' = doc /\ pos' = pos /\ ctx' = ctx /\ headings' = headings
        /\ boundaries' = boundaries /\ issues' = issues /\ outcome' = outcome /\ chunks' = chunks
    BY <1>3 DEF lawVars
  <2>2. VerdictsOK'
    BY <2>1 DEF LawInv, VerdictsOK, Judged, Chunked, CountedArticles, Accepted, Loaded
  <2>3. HeadingsOK(headings)' /\ ContextOK'
    <3>1. HeadingsOK(headings) /\ ContextOK
      BY DEF LawInv
    <3>2. HeadingsOK(headings)'
      BY <2>1, <3>1 DEF HeadingsOK, Stands, Standing
    <3>3. ContextOK'
      BY <2>1, <3>1 DEF ContextOK, Stands, Standing
    <3> QED
      BY <3>2, <3>3
  <2> QED
    BY <2>1, <2>2, <2>3 DEF LawInv, TakenOK
<1> QED
  BY <1>1, <1>2, <1>3

LEMMA LawInvariant == LawSpec => []LawInv
<1>1. LawInit => LawInv
  BY BeginsSafe
<1>2. LawInv /\ [LawNext]_lawVars => LawInv'
  BY ReadingSafe, HeadingSafe, JudgingSafe DEF LawNext
<1> QED
  BY <1>1, <1>2, PTL DEF LawSpec

\* The state of the pipeline is well formed: what the recognizer keeps lies before the line
\* it reads next, and the parser and the chunking service answer with one of their verdicts.
THEOREM LawTypeInvariant == LawSpec => []LawTypeOK
<1>1. ASSUME LawInv PROVE LawTypeOK
  <2>1. pos \in 1 .. Len(doc) + 1 /\ \A b \in boundaries : b.at \in 1 .. pos - 1
    BY <1>1 DEF LawInv
  <2>2. \A k \in DOMAIN headings : /\ headings[k].at \in 1 .. pos - 1
                                  /\ headings[k].level \in DOMAIN MayHold
    <3>1. headings \in Seq(HeadingRecords) /\ DOMAIN headings = 1 .. Len(headings)
      BY <1>1 DEF LawInv, HeadingsOK
    <3>2. \A k \in 1 .. Len(headings) : headings[k].at \in 1 .. pos - 1
      BY <1>1 DEF LawInv, HeadingsOK
    <3>3. \A k \in 1 .. Len(headings) : headings[k] \in HeadingRecords
      BY <3>1
    <3> QED
      BY <3>1, <3>2, <3>3 DEF HeadingRecords
  <2>3. outcome.status \in {"none", "failed", "success", "success_with_warnings"}
    <3>1. Judged.status \in {"failed", "success", "success_with_warnings"}
      BY DEF Judged
    <3> QED
      BY <1>1, <3>1 DEF LawInv, VerdictsOK, NoOutcome
  <2>4. chunks.status \in {"none", "failed", "success"}
    <3>1. Chunked.status \in {"failed", "success"}
      BY DEF Chunked
    <3> QED
      BY <1>1, <3>1 DEF LawInv, VerdictsOK, NoChunks
  <2> QED
    BY <2>1, <2>2, <2>3, <2>4 DEF LawTypeOK
<1> QED
  BY <1>1, LawInvariant, PTL

\* An article heading after an early Article 1 is in the text the parser reads, unless the
\* end of the law was seen before it.
THEOREM LawArticlesSurvive == LawSpec => []ArticlesSurviveCleaning
<1>1. LawInv => ArticlesSurviveCleaning
  BY CleaningKeepsArticles DEF LawInv, TakenOK, ArticlesSurviveCleaning, HeadingsKept, EndsBefore
<1> QED
  BY <1>1, LawInvariant, PTL

-----------------------------------------------------------------------------
(* Spans.                                                                  *)

\* Headings in the order of their lines, and boundaries at other lines.
Ordered(hs, bs, end) ==
  /\ hs \in Seq(HeadingRecords) /\ end \in Nat
  /\ \A k \in 1 .. Len(hs) : hs[k].at \in 1 .. end - 1
  /\ \A i, j \in 1 .. Len(hs) : i < j => hs[i].at < hs[j].at
  /\ \A b \in bs : b.at \in Nat /\ \A k \in 1 .. Len(hs) : b.at # hs[k].at

LEMMA LevelType ==
    ASSUME NEW hs, NEW bs, NEW end, Ordered(hs, bs, end), NEW k \in 1 .. Len(hs)
    PROVE  hs[k].level \in DOMAIN MayHold /\ hs[k].num \in Nat \X Letters
<1>1. hs \in Seq(HeadingRecords)
  BY DEF Ordered
<1>2. hs[k] \in HeadingRecords
  BY <1>1
<1> QED
  BY <1>2 DEF HeadingRecords

\* No note and no appendix stands before a heading.
NothingCut(hs, bs) ==
  \A b \in bs : b.kind \in {"source_note", "appendix"} => \A k \in 1 .. Len(hs) : ~ (hs[k].at > b.at)

\* Where the headings after i say that it ends, and what ends it before.
Closing(hs, i) ==
  {hs[j].at : j \in {k \in i + 1 .. Len(hs) : Rank(hs[k].level) <= Rank(hs[i].level)}}
Natural(hs, i, end) == Min(Closing(hs, i) \cup {end})
Cutting(hs, bs, i, end) ==
  {b \in bs : /\ hs[i].at < b.at /\ b.at < Natural(hs, i, end)
              /\ \/ b.kind \in {"source_note", "appendix"}
                 \/ /\ b.kind = "signature_footer"
                    /\ \A j \in DOMAIN hs : hs[j].at <= b.at}

LEMMA EndOfIs ==
    ASSUME NEW hs, NEW bs, NEW end, NEW i
    PROVE  EndOf(i, hs, bs, end) = Min({Natural(hs, i, end)} \cup {b.at : b \in Cutting(hs, bs, i, end)})
BY DEF EndOf, Natural, Cutting, Closing

LEMMA NaturalIs ==
    ASSUME NEW hs, NEW bs, NEW end, Ordered(hs, bs, end), NEW i \in 1 .. Len(hs)
    PROVE  /\ Natural(hs, i, end) \in Nat
           /\ hs[i].at < Natural(hs, i, end) /\ Natural(hs, i, end) <= end
           /\ \A j \in i + 1 .. Len(hs) : Rank(hs[j].level) <= Rank(hs[i].level)
                                             => Natural(hs, i, end) <= hs[j].at
           /\ \/ Natural(hs, i, end) = end
              \/ \E j \in i + 1 .. Len(hs) : /\ Rank(hs[j].level) <= Rank(hs[i].level)
                                             /\ Natural(hs, i, end) = hs[j].at
<1> DEFINE S == Closing(hs, i) \cup {end}
<1>1. Len(hs) \in Nat /\ end \in Nat /\ \A k \in 1 .. Len(hs) : hs[k].at \in Nat /\ hs[k].at < end
  BY DEF Ordered
<1>2. \A j \in i + 1 .. Len(hs) : j \in 1 .. Len(hs) /\ hs[i].at < hs[j].at
  BY <1>1 DEF Ordered
<1>3. S \in SUBSET Nat /\ S # {}
  BY <1>1, <1>2 DEF Closing
<1>4. Min(S) \in S /\ \A y \in S : Min(S) <= y
  <2> HIDE DEF S
  <2> QED
    BY <1>3, MinIs
<1>5. Natural(hs, i, end) = Min(S)
  BY DEF Natural
<1>6. \A y \in S : hs[i].at < y
  BY <1>1, <1>2 DEF Closing
<1>7. end \in S
  OBVIOUS
<1>8. \A j \in i + 1 .. Len(hs) : Rank(hs[j].level) <= Rank(hs[i].level) => hs[j].at \in S
  BY DEF Closing
<1>9. Min(S) = end \/ \E j \in i + 1 .. Len(hs) : /\ Rank(hs[j].level) <= Rank(hs[i].level)
                                                  /\ Min(S) = hs[j].at
  BY <1>4 DEF Closing
<1> HIDE DEF S
<1> QED
  BY <1>3, <1>4, <1>5, <1>6, <1>7, <1>8, <1>9

LEMMA EndOfMin ==
    ASSUME NEW hs, NEW bs, NEW end, Ordered(hs, bs, end), NEW i \in 1 .. Len(hs)
    PROVE  /\ EndOf(i, hs, bs, end) \in Nat
           /\ hs[i].at < EndOf(i, hs, bs, end)
           /\ EndOf(i, hs, bs, end) <= Natural(hs, i, end)
           /\ \A b \in Cutting(hs, bs, i, end) : EndOf(i, hs, bs, end) <= b.at
           /\ \/ EndOf(i, hs, bs, end) = Natural(hs, i, end)
              \/ \E b \in Cutting(hs, bs, i, end) : EndOf(i, hs, bs, end) = b.at
<1> DEFINE S == {Natural(hs, i, end)} \cup {b.at : b \in Cutting(hs, bs, i, end)}
<1>1. Natural(hs, i, end) \in Nat /\ hs[i].at < Natural(hs, i, end)
  BY NaturalIs
<1>2. \A b \in Cutting(hs, bs, i, end) : b.at \in Nat /\ hs[i].at < b.at
  BY DEF Cutting, Ordered
<1>3. S \in SUBSET Nat /\ S # {}
  BY <1>1, <1>2
<1>4. Min(S) \in S /\ \A y \in S : Min(S) <= y
  <2> HIDE DEF S
  <2> QED
    BY <1>3, MinIs
<1>5. EndOf(i, hs, bs, end) = Min(S)
  BY EndOfIs
<1>6. \A y \in S : hs[i].at < y
  BY <1>1, <1>2
<1>7. Natural(hs, i, end) \in S /\ \A b \in Cutting(hs, bs, i, end) : b.at \in S
  OBVIOUS
<1>8. Min(S) = Natural(hs, i, end) \/ \E b \in Cutting(hs, bs, i, end) : Min(S) = b.at
  BY <1>4
<1> HIDE DEF S
<1> QED
  BY <1>3, <1>4, <1>5, <1>6, <1>7, <1>8

\* A span holds its heading, ends within the text and before the next heading of its
\* level or above.
LEMMA SpanIs ==
    ASSUME NEW hs, NEW bs, NEW end, Ordered(hs, bs, end), NEW i \in 1 .. Len(hs)
    PROVE  /\ EndOf(i, hs, bs, end) \in Nat
           /\ hs[i].at < EndOf(i, hs, bs, end) /\ EndOf(i, hs, bs, end) <= end
           /\ \A j \in i + 1 .. Len(hs) : Rank(hs[j].level) <= Rank(hs[i].level)
                                             => EndOf(i, hs, bs, end) <= hs[j].at
<1>1. Natural(hs, i, end) \in Nat /\ Natural(hs, i, end) <= end
  BY NaturalIs
<1>2. \A j \in i + 1 .. Len(hs) : Rank(hs[j].level) <= Rank(hs[i].level) => Natural(hs, i, end) <= hs[j].at
  BY NaturalIs
<1>3. /\ EndOf(i, hs, bs, end) \in Nat
      /\ hs[i].at < EndOf(i, hs, bs, end)
      /\ EndOf(i, hs, bs, end) <= Natural(hs, i, end)
  BY EndOfMin
<1>4. end \in Nat /\ \A j \in i + 1 .. Len(hs) : hs[j].at \in Nat
  BY DEF Ordered
<1> QED
  BY <1>1, <1>2, <1>3, <1>4

\* Where nothing is cut, a unit that stands holds the span of the next one.
LEMMA StandingHolds ==
    ASSUME NEW hs, NEW bs, NEW end, Ordered(hs, bs, end), NothingCut(hs, bs),
           NEW p \in 1 .. Len(hs), NEW u \in p + 1 .. Len(hs), Standing(hs, p, u)
    PROVE  hs[p].at < hs[u].at /\ EndOf(u, hs, bs, end) <= EndOf(p, hs, bs, end)
<1>1. Len(hs) \in Nat /\ u \in 1 .. Len(hs) /\ p < u
  BY DEF Ordered
<1>2. hs[p].at < hs[u].at /\ hs[p].at \in Nat /\ hs[u].at \in Nat
  BY <1>1 DEF Ordered
<1>3. \A k \in 1 .. Len(hs) : Rank(hs[k].level) \in 2 .. 7
  BY RankType, LevelType
<1>4. Rank(hs[u].level) > Rank(hs[p].level)
  BY <1>1 DEF Standing
<1>5. Natural(hs, u, end) <= Natural(hs, p, end)
  <2>1. CASE Natural(hs, p, end) = end
    BY <1>1, <2>1, NaturalIs
  <2>2. ASSUME NEW j \in p + 1 .. Len(hs), Rank(hs[j].level) <= Rank(hs[p].level),
               Natural(hs, p, end) = hs[j].at
        PROVE  Natural(hs, u, end) <= Natural(hs, p, end)
    <3>1. j \in 1 .. Len(hs)
      BY <1>1
    <3>2. ~ (j \in p + 1 .. u)
      <4>1. j \in p + 1 .. u => Rank(hs[j].level) > Rank(hs[p].level)
        BY DEF Standing
      <4> QED
        BY <1>3, <2>2, <3>1, <4>1
    <3>3. j \in u + 1 .. Len(hs)
      BY <1>1, <3>2
    <3>4. Rank(hs[j].level) <= Rank(hs[u].level)
      BY <1>1, <1>3, <1>4, <2>2, <3>1, SMTT(30)
    <3> QED
      BY <1>1, <2>2, <3>3, <3>4, NaturalIs
  <2> QED
    BY <2>1, <2>2, NaturalIs
<1>6. EndOf(u, hs, bs, end) <= EndOf(p, hs, bs, end)
  <2>1. /\ EndOf(u, hs, bs, end) \in Nat /\ EndOf(u, hs, bs, end) <= Natural(hs, u, end)
        /\ Natural(hs, u, end) \in Nat /\ Natural(hs, p, end) \in Nat
    BY <1>1, EndOfMin, NaturalIs
  <2>2. CASE EndOf(p, hs, bs, end) = Natural(hs, p, end)
    BY <1>5, <2>1, <2>2
  <2>3. ASSUME NEW b \in Cutting(hs, bs, p, end), EndOf(p, hs, bs, end) = b.at
        PROVE  EndOf(u, hs, bs, end) <= EndOf(p, hs, bs, end)
    <3>1. b \in bs /\ b.at \in Nat /\ b.at # hs[u].at
      BY <1>1 DEF Cutting, Ordered
    <3>2. ~ (hs[u].at > b.at)
      <4>1. CASE b.kind \in {"source_note", "appendix"}
        BY <1>1, <3>1, <4>1 DEF NothingCut
      <4>2. CASE \A j \in DOMAIN hs : hs[j].at <= b.at
        <5>1. u \in DOMAIN hs
          BY <1>1 DEF Ordered
        <5> QED
          BY <1>2, <3>1, <4>2, <5>1
      <4> QED
        BY <4>1, <4>2 DEF Cutting
    <3>3. hs[u].at < b.at
      BY <1>2, <3>1, <3>2
    <3>4. CASE b.at < Natural(hs, u, end)
      <4>1. b \in Cutting(hs, bs, u, end)
        BY <3>1, <3>3, <3>4 DEF Cutting
      <4> QED
        BY <1>1, <2>3, <4>1, EndOfMin
    <3>5. CASE ~ (b.at < Natural(hs, u, end))
      BY <2>1, <2>3, <3>1, <3>5
    <3> QED
      BY <3>4, <3>5
  <2> QED
    BY <2>2, <2>3, EndOfMin
<1> QED
  BY <1>2, <1>6

-----------------------------------------------------------------------------
(* The units that are open while the tree is built.                        *)

OpenLevels == {"part", "chapter", "section", "article", "clause"}
LevelAt(hs, p) == IF p = 1 THEN "law" ELSE hs[p - 1].level

LEMMA ClosesIs ==
    ASSUME NEW u \in DOMAIN MayHold, NEW l \in OpenLevels
    PROVE  l \in Closes[u] <=> Rank(l) > Rank(u)
<1>1. u = "part" \/ u = "chapter" \/ u = "section" \/ u = "article" \/ u = "clause" \/ u = "point"
  BY HeadingLevels
<1>2. l = "part" \/ l = "chapter" \/ l = "section" \/ l = "article" \/ l = "clause"
  BY DEF OpenLevels
<1>3. /\ Closes["part"] = {"chapter", "section", "article", "clause"}
      /\ Closes["chapter"] = {"section", "article", "clause"}
      /\ Closes["section"] = {"article", "clause"} /\ Closes["article"] = {"clause"}
      /\ Closes["clause"] = {} /\ Closes["point"] = {}
  BY DEF Closes
<1> QED
  BY <1>1, <1>2, <1>3, RankIs

LEMMA MayHoldIs ==
    ASSUME NEW u \in DOMAIN MayHold
    PROVE  /\ DOMAIN MayHold[u] \in SUBSET Nat
           /\ \A i \in DOMAIN MayHold[u] : /\ MayHold[u][i] \in OpenLevels \cup {"law"}
                                           /\ Rank(MayHold[u][i]) < Rank(u)
                                           /\ u \in AllowedChildLevels[MayHold[u][i]]
           /\ \A i, j \in DOMAIN MayHold[u] : i <= j => Rank(MayHold[u][i]) >= Rank(MayHold[u][j])
<1>0. /\ AllowedChildLevels["law"] = {"part", "chapter", "section", "article"}
      /\ AllowedChildLevels["part"] = {"chapter", "section", "article"}
      /\ AllowedChildLevels["chapter"] = {"section", "article"}
      /\ AllowedChildLevels["section"] = {"article"} /\ AllowedChildLevels["article"] = {"clause"}
      /\ AllowedChildLevels["clause"] = {"point"} /\ AllowedChildLevels["point"] = {}
  BY DEF AllowedChildLevels
<1>1. CASE u = "part"
  <2>1. MayHold[u] = <<"law">>
    BY <1>1 DEF MayHold
  <2> QED
    BY <1>0, <1>1, <2>1, RankIs DEF OpenLevels
<1>2. CASE u = "chapter"
  <2>1. MayHold[u] = <<"part", "law">>
    BY <1>2 DEF MayHold
  <2> QED
    BY <1>0, <1>2, <2>1, RankIs DEF OpenLevels
<1>3. CASE u = "section"
  <2>1. MayHold[u] = <<"chapter", "part", "law">>
    BY <1>3 DEF MayHold
  <2> QED
    BY <1>0, <1>3, <2>1, RankIs DEF OpenLevels
<1>4. CASE u = "article"
  <2>1. MayHold[u] = <<"section", "chapter", "part", "law">>
    BY <1>4 DEF MayHold
  <2> QED
    BY <1>0, <1>4, <2>1, RankIs DEF OpenLevels
<1>5. CASE u = "clause"
  <2>1. MayHold[u] = <<"article">>
    BY <1>5 DEF MayHold
  <2> QED
    BY <1>0, <1>5, <2>1, RankIs DEF OpenLevels
<1>6. CASE u = "point"
  <2>1. MayHold[u] = <<"clause">>
    BY <1>6 DEF MayHold
  <2> QED
    BY <1>0, <1>6, <2>1, RankIs DEF OpenLevels
<1> QED
  BY <1>1, <1>2, <1>3, <1>4, <1>5, <1>6, HeadingLevels

\* After n units: the open unit of each level is the one of it that stands; its node comes
\* one later, after the law itself.
ActiveOK(active, hs, n) ==
  /\ DOMAIN active = Range(Levels)
  /\ active["law"] = 1 /\ active["point"] = 0
  /\ \A l \in OpenLevels :
       /\ active[l] \in 0 .. n + 1
       /\ active[l] # 0 => /\ active[l] \in 2 .. n + 1 /\ hs[active[l] - 1].level = l
                           /\ Standing(hs, active[l] - 1, n)
       /\ \A a \in 1 .. n : hs[a].level = l /\ Standing(hs, a, n) => active[l] = a + 1

\* The node p holds the next unit of this level, and no open unit further in may.
HoldsNext(hs, level, n, p) ==
  /\ p \in 1 .. n + 1
  /\ p # 1 => Standing(hs, p - 1, n)
  /\ LevelAt(hs, p) \in Range(MayHold[level])
  /\ \A q \in 1 .. n : Standing(hs, q, n) /\ hs[q].level \in Range(MayHold[level])
                          => Rank(hs[q].level) <= Rank(LevelAt(hs, p))

LEMMA LevelsIs ==
    Range(Levels) = {"law", "part", "chapter", "section", "article", "clause", "point"}
<1>1. /\ DOMAIN Levels = 1 .. 7
      /\ Levels[1] = "law" /\ Levels[2] = "part" /\ Levels[3] = "chapter" /\ Levels[4] = "section"
      /\ Levels[5] = "article" /\ Levels[6] = "clause" /\ Levels[7] = "point"
  BY DEF Levels
<1>2. \A i \in DOMAIN Levels : i = 1 \/ i = 2 \/ i = 3 \/ i = 4 \/ i = 5 \/ i = 6 \/ i = 7
  BY <1>1
<1>3. 1 \in DOMAIN Levels /\ 2 \in DOMAIN Levels /\ 3 \in DOMAIN Levels /\ 4 \in DOMAIN Levels
      /\ 5 \in DOMAIN Levels /\ 6 \in DOMAIN Levels /\ 7 \in DOMAIN Levels
  BY <1>1
<1> QED
  BY <1>1, <1>2, <1>3 DEF Range

LEMMA ActiveAtFirst ==
    ASSUME NEW hs
    PROVE  ActiveOK([l \in Range(Levels) |-> IF l = "law" THEN 1 ELSE 0], hs, 0)
BY LevelsIs DEF ActiveOK, OpenLevels

LEMMA ActiveAfter ==
    ASSUME NEW hs, NEW bs, NEW end, Ordered(hs, bs, end), NEW n \in Nat, n + 1 \in 1 .. Len(hs),
           NEW active, ActiveOK(active, hs, n), NEW unit, unit.level = hs[n + 1].level
    PROVE  ActiveOK(UpdateActive(active, unit, n + 2), hs, n + 1)
<1> DEFINE u == hs[n + 1].level
           then == UpdateActive(active, unit, n + 2)
<1>1. u \in DOMAIN MayHold
  BY LevelType
<1>2. then = [l \in DOMAIN active |-> IF l = u /\ l # "point" THEN n + 2
                                      ELSE IF l \in Closes[u] THEN 0 ELSE active[l]]
  BY DEF UpdateActive
<1> HIDE DEF then
<1>3. DOMAIN then = Range(Levels)
  BY <1>2 DEF ActiveOK
<1>4. then["law"] = 1 /\ then["point"] = 0
  <2>1. "law" \in DOMAIN active /\ "point" \in DOMAIN active /\ active["law"] = 1 /\ active["point"] = 0
    BY LevelsIs DEF ActiveOK
  <2>2. u # "law" /\ "law" \notin Closes[u] 
    <3>1. u = "part" \/ u = "chapter" \/ u = "section" \/ u = "article" \/ u = "clause" \/ u = "point"
      BY <1>1, HeadingLevels
    <3> HIDE DEF u
    <3> QED
      BY <3>1 DEF Closes
  <2> QED
    BY <1>2, <2>1, <2>2
<1>5. \A a \in 1 .. n : Standing(hs, a, n + 1) <=> Standing(hs, a, n) /\ Rank(u) > Rank(hs[a].level)
  <2> SUFFICES ASSUME NEW a \in 1 .. n
               PROVE  Standing(hs, a, n + 1) <=> Standing(hs, a, n) /\ Rank(u) > Rank(hs[a].level)
    OBVIOUS
  <2>1. \A k : k \in a + 1 .. n + 1 <=> k \in a + 1 .. n \/ k = n + 1
    OBVIOUS
  <2> QED
    BY <2>1 DEF Standing
<1>6. Standing(hs, n + 1, n + 1)
  <2>1. n + 1 + 1 .. n + 1 = {}
    OBVIOUS
  <2> QED
    BY <2>1, Zenon DEF Standing
<1>7. \A k \in 1 .. n + 1 : Rank(hs[k].level) \in 2 .. 7 /\ (k = n + 1 \/ k \in 1 .. n)
  <2>1. Len(hs) \in Nat
    BY DEF Ordered
  <2>2. \A k \in 1 .. n + 1 : k \in 1 .. Len(hs) /\ (k = n + 1 \/ k \in 1 .. n)
    BY <2>1
  <2> QED
    BY <2>2, LevelType, RankType
<1> HIDE DEF u
<1>8. ASSUME NEW l \in OpenLevels
      PROVE  /\ then[l] \in 0 .. n + 1 + 1
             /\ then[l] # 0 => /\ then[l] \in 2 .. n + 1 + 1 /\ hs[then[l] - 1].level = l
                               /\ Standing(hs, then[l] - 1, n + 1)
             /\ \A a \in 1 .. n + 1 : hs[a].level = l /\ Standing(hs, a, n + 1) => then[l] = a + 1
  <2>1. l \in DOMAIN active /\ l # "point"
    BY LevelsIs DEF ActiveOK, OpenLevels
  <2>2. /\ active[l] \in 0 .. n + 1
        /\ active[l] # 0 => /\ active[l] \in 2 .. n + 1 /\ hs[active[l] - 1].level = l
                            /\ Standing(hs, active[l] - 1, n)
        /\ \A a \in 1 .. n : hs[a].level = l /\ Standing(hs, a, n) => active[l] = a + 1
    BY DEF ActiveOK
  <2>3. l \in Closes[u] <=> Rank(l) > Rank(u)
    BY <1>1, ClosesIs
  <2>4. Rank(l) \in 2 .. 6 /\ Rank(u) \in 2 .. 7
    BY <1>1, RankType, RankIs DEF OpenLevels
  <2>5. CASE l = u
    <3>1. then[l] = n + 2
      BY <1>2, <2>1, <2>5
    <3>2. \A a \in 1 .. n : hs[a].level = l => ~ Standing(hs, a, n + 1)
      BY <1>5, <2>4, <2>5
    <3>3. n + 2 - 1 = n + 1 /\ n + 1 + 1 = n + 2 /\ n + 2 \in 0 .. n + 2 /\ n + 2 \in 2 .. n + 2
      OBVIOUS
    <3>4. hs[n + 1].level = l
      BY <2>5 DEF u
    <3> QED
      BY <1>6, <1>7, <3>1, <3>2, <3>3, <3>4
  <2>6. CASE l # u /\ l \in Closes[u]
    <3>1. then[l] = 0
      BY <1>2, <2>1, <2>6
    <3>2. \A a \in 1 .. n : hs[a].level = l => ~ Standing(hs, a, n + 1)
      BY <1>5, <2>3, <2>4, <2>6
    <3>3. hs[n + 1].level # l
      BY <2>6 DEF u
    <3> QED
      BY <1>7, <3>1, <3>2, <3>3
  <2>7. CASE l # u /\ l \notin Closes[u]
    <3>1. then[l] = active[l]
      BY <1>2, <2>1, <2>7
    <3>2. Rank(u) > Rank(l)
      <4>1. Rank(u) # Rank(l)
        BY <1>1, <2>7, RankIs, HeadingLevels DEF OpenLevels
      <4> QED
        BY <2>3, <2>4, <2>7, <4>1
    <3>3. \A a \in 1 .. n : hs[a].level = l => (Standing(hs, a, n + 1) <=> Standing(hs, a, n))
      BY <1>5, <3>2
    <3>4. hs[n + 1].level # l
      BY <2>7 DEF u
    <3>5. active[l] # 0 => active[l] - 1 \in 1 .. n
      BY <2>2
    <3>6. active[l] # 0 => Standing(hs, active[l] - 1, n + 1)
      BY <2>2, <3>3, <3>5
    <3>7. \A a \in 1 .. n + 1 : hs[a].level = l /\ Standing(hs, a, n + 1) => then[l] = a + 1
      BY <1>7, <2>2, <3>1, <3>3, <3>4
    <3> QED
      BY <2>2, <3>1, <3>6, <3>7
  <2> QED
    BY <2>5, <2>6, <2>7
<1>9. ActiveOK(then, hs, n + 1)
  BY <1>3, <1>4, <1>8 DEF ActiveOK
<1> QED
  BY <1>9 DEF then

\* The parent p of the next unit: 0 when no open unit may hold it.
Selects(hs, n, active, level, p) ==
  /\ p # 0 => HoldsNext(hs, level, n, p)
  /\ p = 0 => \A i \in DOMAIN MayHold[level] : active[MayHold[level][i]] = 0
LEMMA SelectIs ==
    ASSUME NEW hs, NEW n \in Nat, NEW active, ActiveOK(active, hs, n), NEW level \in DOMAIN MayHold
    PROVE  Selects(hs, n, active, level, SelectParent(active, level))
<1> SUFFICES /\ SelectParent(active, level) # 0 => HoldsNext(hs, level, n, SelectParent(active, level))
             /\ SelectParent(active, level) = 0 =>
                  \A i \in DOMAIN MayHold[level] : active[MayHold[level][i]] = 0
  BY DEF Selects
<1> DEFINE held == {i \in DOMAIN MayHold[level] : active[MayHold[level][i]] # 0}
           m == Min(held)
           l == MayHold[level][m]
           p == active[l]
<1>1. held \in SUBSET Nat
  BY MayHoldIs
<1>2. CASE held = {}
  <2>1. SelectParent(active, level) = 0
    BY <1>2 DEF SelectParent
  <2> QED
    BY <1>2, <2>1
<1>3. CASE held # {}
  <2>1. m \in held /\ \A i \in held : m <= i
    <3> HIDE DEF held
    <3> QED
      BY <1>1, <1>3, MinIs
  <2>2. SelectParent(active, level) = p
    BY <1>3 DEF SelectParent
  <2>3. m \in DOMAIN MayHold[level] /\ p # 0
    BY <2>1
  <2>4. /\ l \in OpenLevels \cup {"law"} /\ l \in Range(MayHold[level])
        /\ \A i \in held : i \in DOMAIN MayHold[level] /\ Rank(l) >= Rank(MayHold[level][i])
    BY <2>1, <2>3, MayHoldIs DEF Range
  <2>5. \A q \in 1 .. n : Standing(hs, q, n) /\ hs[q].level \in Range(MayHold[level])
                             => Rank(hs[q].level) <= Rank(l)
    <3> SUFFICES ASSUME NEW q \in 1 .. n, Standing(hs, q, n), hs[q].level \in Range(MayHold[level])
                 PROVE  Rank(hs[q].level) <= Rank(l)
      OBVIOUS
    <3>1. PICK i \in DOMAIN MayHold[level] : MayHold[level][i] = hs[q].level
      BY DEF Range
    <3>2. CASE hs[q].level = "law"
      <4>1. Rank(l) \in 1 .. 7 /\ Rank("law") = 1
        BY <2>4, RankIs DEF OpenLevels
      <4> QED
        BY <3>2, <4>1
    <3>3. CASE hs[q].level # "law"
      <4>1. hs[q].level \in OpenLevels
        BY <3>1, <3>3, MayHoldIs
      <4>2. active[hs[q].level] = q + 1
        BY <4>1 DEF ActiveOK
      <4>3. i \in held
        BY <3>1, <4>2
      <4>4. Rank(l) >= Rank(hs[q].level)
        BY <2>4, <3>1, <4>3
      <4>5. Rank(l) \in 1 .. 7 /\ Rank(hs[q].level) \in 1 .. 7
        BY <2>4, <4>1, RankIs DEF OpenLevels
      <4> QED
        BY <4>4, <4>5
    <3> QED
      BY <3>2, <3>3
  <2> HIDE DEF held, m, l, p
  <2>6. CASE l = "law"
    <3>1. p = 1 /\ LevelAt(hs, p) = l
      BY <2>6 DEF ActiveOK, LevelAt, p
    <3> QED
      BY <2>2, <2>4, <2>5, <3>1 DEF HoldsNext
  <2>7. CASE l # "law"
    <3>1. p \in 2 .. n + 1 /\ hs[p - 1].level = l /\ Standing(hs, p - 1, n)
      BY <2>3, <2>4, <2>7 DEF ActiveOK, p
    <3>2. p # 1 /\ p \in 1 .. n + 1
      BY <3>1
    <3>3. LevelAt(hs, p) = l
      BY <3>1, <3>2 DEF LevelAt
    <3> QED
      BY <2>2, <2>3, <2>4, <2>5, <3>1, <3>2, <3>3 DEF HoldsNext
  <2> QED
    BY <2>6, <2>7, <2>2, <2>3
<1> QED
  BY <1>2, <1>3

-----------------------------------------------------------------------------
(* The tree as it grows.                                                   *)

Tokens == Nat \X Letters
Paths == Seq({"root"} \cup (DOMAIN MayHold) \X Tokens \X Nat)
NodeRecords == [id : Paths, level : Range(Levels), num : Numbers, start : Nat, end : Nat,
                parent : Paths, children : Seq(Paths)]

\* The unit k hangs below the node p; its own node is k + 1.
ParentIs(nodes, hs, k, p) ==
  /\ HoldsNext(hs, hs[k].level, k - 1, p)
  /\ nodes[k + 1].parent = nodes[p].id
  /\ Encloses(nodes[p], nodes[k + 1])
  /\ \E c \in Nat :
       nodes[k + 1].id = Append(nodes[p].id, <<hs[k].level, NodeToken(hs[k].level, hs[k].num), c>>)

\* The children of node p, in order, are the nodes that hang below it: the i-th is g[i].
ChildList(nodes, n, p, g) ==
  /\ Len(nodes[p].children) \in Nat
  /\ g \in [1 .. Len(nodes[p].children) -> 2 .. n + 1]
  /\ \A i \in 1 .. Len(nodes[p].children) : /\ nodes[p].children[i] = nodes[g[i]].id
                                            /\ nodes[g[i]].parent = nodes[p].id
  /\ \A i, j \in 1 .. Len(nodes[p].children) : i < j => g[i] < g[j]
  /\ \A k \in 2 .. n + 1 : nodes[k].parent = nodes[p].id
                             => \E i \in 1 .. Len(nodes[p].children) : g[i] = k

\* The node of the law, and one for each of the first n units.
NodesOK(nodes, hs, bs, end, n) ==
  /\ nodes \in Seq(NodeRecords) /\ Len(nodes) = n + 1
  /\ /\ nodes[1].id = <<"root">> /\ nodes[1].level = "law" /\ nodes[1].num = None
     /\ nodes[1].start = 1 /\ nodes[1].end = end /\ nodes[1].parent = None
  /\ \A k \in 1 .. n :
       /\ nodes[k + 1].level = hs[k].level /\ nodes[k + 1].num = hs[k].num
       /\ nodes[k + 1].start = hs[k].at /\ nodes[k + 1].end = EndOf(k, hs, bs, end)

TreeOK(nodes, hs, bs, end, n) ==
  /\ NodesOK(nodes, hs, bs, end, n)
  /\ \A k \in 1 .. n : \E p \in 1 .. k : ParentIs(nodes, hs, k, p)
  /\ \A i, j \in 1 .. n + 1 : nodes[i].id = nodes[j].id => i = j
  /\ \A p \in 1 .. n + 1 : \E g : ChildList(nodes, n, p, g)

\* The numbers that keep ids apart.
BasesOK(nodes, bases, n) ==
  /\ bases \in Seq(Paths \X (DOMAIN MayHold) \X Tokens) /\ Len(bases) = n
  /\ \A k \in 1 .. n :
       LET token == NodeToken(nodes[k + 1].level, nodes[k + 1].num)
       IN /\ bases[k] = <<nodes[k + 1].parent, nodes[k + 1].level, token>>
          /\ nodes[k + 1].id = Append(nodes[k + 1].parent,
               <<nodes[k + 1].level, token, Cardinality({i \in 1 .. k - 1 : bases[i] = bases[k]}) + 1>>)

BuiltOK(b, hs, bs, end, n) ==
  /\ DOMAIN b = {"nodes", "bases", "collisions", "failed", "active"}
  /\ b.failed = FALSE
  /\ ActiveOK(b.active, hs, n)
  /\ TreeOK(b.nodes, hs, bs, end, n)
  /\ BasesOK(b.nodes, b.bases, n)

LEMMA TokenType ==
    ASSUME NEW level, NEW num \in Tokens
    PROVE  NodeToken(level, num) \in Tokens
<1>1. num[1] \in Nat
  BY DEF Tokens
<1>2. <<num[1], "">> \in Tokens
  BY <1>1, LettersAssumption DEF Tokens
<1> QED
  BY <1>2 DEF NodeToken

LEMMA WithNodeIs ==
    ASSUME NEW nodes \in Seq(NodeRecords), NEW p \in 1 .. Len(nodes), NEW new \in NodeRecords
    PROVE  /\ WithNode(nodes, p, new) \in Seq(NodeRecords)
           /\ Len(WithNode(nodes, p, new)) = Len(nodes) + 1
           /\ WithNode(nodes, p, new)[Len(nodes) + 1] = new
           /\ \A i \in 1 .. Len(nodes) :
                /\ WithNode(nodes, p, new)[i].id = nodes[i].id
                /\ WithNode(nodes, p, new)[i].level = nodes[i].level
                /\ WithNode(nodes, p, new)[i].num = nodes[i].num
                /\ WithNode(nodes, p, new)[i].start = nodes[i].start
                /\ WithNode(nodes, p, new)[i].end = nodes[i].end
                /\ WithNode(nodes, p, new)[i].parent = nodes[i].parent
                /\ i # p => WithNode(nodes, p, new)[i].children = nodes[i].children
           /\ WithNode(nodes, p, new)[p].children = Append(nodes[p].children, new.id)
<1> DEFINE old == [nodes EXCEPT ![p].children = Append(@, new.id)]
<1>1. Len(nodes) \in Nat /\ nodes[p] \in NodeRecords /\ new.id \in Paths
  <2>1. Len(nodes) \in Nat /\ nodes[p] \in NodeRecords
    OBVIOUS
  <2>2. new.id \in Paths
    BY DEF NodeRecords
  <2> QED
    BY <2>1, <2>2
<1>2. Append(nodes[p].children, new.id) \in Seq(Paths)
  BY <1>1 DEF NodeRecords
<1>3. [nodes[p] EXCEPT !.children = Append(@, new.id)] \in NodeRecords
  BY <1>1, <1>2 DEF NodeRecords
<1>4. /\ old \in Seq(NodeRecords) /\ Len(old) = Len(nodes)
      /\ old[p] = [nodes[p] EXCEPT !.children = Append(@, new.id)]
      /\ \A i \in 1 .. Len(nodes) : i # p => old[i] = nodes[i]
  BY <1>1, <1>3, SMTT(30)
<1>5. /\ old[p].id = nodes[p].id /\ old[p].level = nodes[p].level /\ old[p].num = nodes[p].num
      /\ old[p].start = nodes[p].start /\ old[p].end = nodes[p].end /\ old[p].parent = nodes[p].parent
      /\ old[p].children = Append(nodes[p].children, new.id)
  BY <1>1, <1>4 DEF NodeRecords
<1>6. WithNode(nodes, p, new) = Append(old, new)
  BY DEF WithNode
<1> HIDE DEF old
<1>7. /\ Append(old, new) \in Seq(NodeRecords) /\ Len(Append(old, new)) = Len(nodes) + 1
      /\ Append(old, new)[Len(nodes) + 1] = new
      /\ \A i \in 1 .. Len(nodes) : Append(old, new)[i] = old[i]
  BY <1>1, <1>4
<1> QED
  BY <1>4, <1>5, <1>6, <1>7

-----------------------------------------------------------------------------
(* One more unit.                                                          *)

\* The step of the builder, with names for its parts.
Above(b, unit) == SelectParent(b.active, unit.level)
Base(b, unit) == <<b.nodes[Above(b, unit)].id, unit.level, NodeToken(unit.level, unit.num)>>
Times(b, unit) == Cardinality({i \in DOMAIN b.bases : b.bases[i] = Base(b, unit)}) + 1
NewId(b, unit) == Append(b.nodes[Above(b, unit)].id,
                         <<unit.level, NodeToken(unit.level, unit.num), Times(b, unit)>>)
UnitRefused(b, unit) == \/ Above(b, unit) = 0
                    \/ ~ Encloses(b.nodes[Above(b, unit)], unit)
                    \/ \E i \in DOMAIN b.nodes : b.nodes[i].id = NewId(b, unit)

LEMMA AddUnitIs ==
    ASSUME NEW b, DOMAIN b = {"nodes", "bases", "collisions", "failed", "active"}, b.failed = FALSE,
           NEW unit
    PROVE  /\ UnitRefused(b, unit) => AddUnit(b, unit).failed = TRUE
           /\ ~ UnitRefused(b, unit) =>
                /\ DOMAIN AddUnit(b, unit) = {"nodes", "bases", "collisions", "failed", "active"}
                /\ AddUnit(b, unit).failed = FALSE
                /\ AddUnit(b, unit).nodes =
                      WithNode(b.nodes, Above(b, unit),
                               NodeOf(unit, NewId(b, unit), b.nodes[Above(b, unit)].id))
                /\ AddUnit(b, unit).active = UpdateActive(b.active, unit, Len(b.nodes) + 1)
                /\ AddUnit(b, unit).bases = Append(b.bases, Base(b, unit))
<1> DEFINE p == Above(b, unit)
           parent == b.nodes[p]
           id == NewId(b, unit)
           n == Times(b, unit)
           grown == [b EXCEPT
             !.nodes = WithNode(@, p, NodeOf(unit, id, parent.id)),
             !.active = UpdateActive(@, unit, Len(b.nodes) + 1),
             !.bases = Append(@, Base(b, unit)),
             !.collisions = IF n = 1 THEN @
                            ELSE @ \cup {[code |-> "NODE_ID_COLLISION_RESOLVED", node |-> id]}]
<1>0. AddUnit(b, unit) = IF b.failed THEN b
                         ELSE IF p = 0 THEN [b EXCEPT !.failed = TRUE]
                         ELSE IF ~ Encloses(parent, unit) \/ \E i \in DOMAIN b.nodes : b.nodes[i].id = id
                              THEN [b EXCEPT !.failed = TRUE]
                         ELSE grown
  BY Zenon DEF AddUnit, Above, Base, Times, NewId
<1>2. [b EXCEPT !.failed = TRUE].failed = TRUE
  OBVIOUS
<1>4. /\ DOMAIN grown = DOMAIN b
      /\ grown.failed = b.failed
      /\ grown.nodes = WithNode(b.nodes, p, NodeOf(unit, id, parent.id))
      /\ grown.active = UpdateActive(b.active, unit, Len(b.nodes) + 1)
      /\ grown.bases = Append(b.bases, Base(b, unit))
  <2> HIDE DEF p, parent, id, n
  <2>1. DOMAIN grown = DOMAIN b
    OBVIOUS
  <2>2. grown.failed = b.failed
    OBVIOUS
  <2>3. grown.nodes = WithNode(b.nodes, p, NodeOf(unit, id, parent.id))
    OBVIOUS
  <2>4. grown.active = UpdateActive(b.active, unit, Len(b.nodes) + 1)
    OBVIOUS
  <2>5. grown.bases = Append(b.bases, Base(b, unit))
    OBVIOUS
  <2> QED
    BY <2>1, <2>2, <2>3, <2>4, <2>5
<1> HIDE DEF grown
<1>6. /\ UnitRefused(b, unit) => AddUnit(b, unit).failed = TRUE
      /\ ~ UnitRefused(b, unit) => AddUnit(b, unit) = grown
  BY <1>0, <1>2, Zenon DEF UnitRefused
<1> QED
  BY <1>4, <1>6

\* What a step of the builder does to the nodes.
Grown(nodes, more, new, p, n) ==
  /\ Len(more) = n + 2 /\ more[n + 2] = new
  /\ \A i \in 1 .. n + 1 :
       /\ more[i].id = nodes[i].id /\ more[i].level = nodes[i].level /\ more[i].num = nodes[i].num
       /\ more[i].start = nodes[i].start /\ more[i].end = nodes[i].end
       /\ more[i].parent = nodes[i].parent
       /\ i # p => more[i].children = nodes[i].children
  /\ more[p].children = Append(nodes[p].children, new.id)

LEMMA GrownNodes ==
    ASSUME NEW hs, NEW bs, NEW end, NEW n \in Nat, NEW nodes, NodesOK(nodes, hs, bs, end, n),
           NEW more \in Seq(NodeRecords), NEW new, NEW p, Grown(nodes, more, new, p, n),
           new.level = hs[n + 1].level, new.num = hs[n + 1].num, new.start = hs[n + 1].at,
           new.end = EndOf(n + 1, hs, bs, end)
    PROVE  NodesOK(more, hs, bs, end, n + 1)
<1>1. \A k \in 1 .. n + 1 : k = n + 1 \/ k \in 1 .. n
  OBVIOUS
<1>2. \A k \in 1 .. n : k + 1 \in 1 .. n + 1
  OBVIOUS
<1>3. 1 \in 1 .. n + 1 /\ n + 1 + 1 = n + 2
  OBVIOUS
<1>4. \A k \in 1 .. n + 1 :
        /\ more[k + 1].level = hs[k].level /\ more[k + 1].num = hs[k].num
        /\ more[k + 1].start = hs[k].at /\ more[k + 1].end = EndOf(k, hs, bs, end)
  <2> SUFFICES ASSUME NEW k \in 1 .. n + 1
               PROVE  /\ more[k + 1].level = hs[k].level /\ more[k + 1].num = hs[k].num
                      /\ more[k + 1].start = hs[k].at /\ more[k + 1].end = EndOf(k, hs, bs, end)
    OBVIOUS
  <2>1. CASE k = n + 1
    <3>1. more[k + 1] = new
      BY <1>3, <2>1 DEF Grown
    <3> QED
      BY <2>1, <3>1
  <2>2. CASE k \in 1 .. n
    BY <1>2, <2>2 DEF Grown, NodesOK
  <2> QED
    BY <1>1, <2>1, <2>2
<1>5. /\ more[1].id = <<"root">> /\ more[1].level = "law" /\ more[1].num = None
      /\ more[1].start = 1 /\ more[1].end = end /\ more[1].parent = None
  BY <1>3 DEF Grown, NodesOK
<1>6. Len(more) = n + 1 + 1
  BY <1>3 DEF Grown
<1> QED
  BY <1>4, <1>5, <1>6 DEF NodesOK

LEMMA GrownParents ==
    ASSUME NEW hs, NEW bs, NEW end, NEW n \in Nat, NEW nodes, TreeOK(nodes, hs, bs, end, n),
           NEW more, NEW new, NEW p \in 1 .. n + 1, Grown(nodes, more, new, p, n),
           HoldsNext(hs, hs[n + 1].level, n, p), new.parent = nodes[p].id, Encloses(nodes[p], new),
           NEW c \in Nat, new.id = Append(nodes[p].id, <<hs[n + 1].level, NodeToken(hs[n + 1].level, hs[n + 1].num), c>>)
    PROVE  \A k \in 1 .. n + 1 : \E q \in 1 .. k : ParentIs(more, hs, k, q)
<1> SUFFICES ASSUME NEW k \in 1 .. n + 1 PROVE \E q \in 1 .. k : ParentIs(more, hs, k, q)
  OBVIOUS
<1>1. CASE k = n + 1
  <2>1. k - 1 = n /\ k + 1 = n + 2 /\ p \in 1 .. k
    BY <1>1
  <2>2. more[k + 1] = new /\ more[p].id = nodes[p].id /\ more[p].start = nodes[p].start
        /\ more[p].end = nodes[p].end
    BY <2>1 DEF Grown
  <2>3. Encloses(more[p], more[k + 1])
    BY <2>2 DEF Encloses
  <2>4. ParentIs(more, hs, k, p)
    BY <1>1, <2>1, <2>2, <2>3 DEF ParentIs
  <2> QED
    BY <2>1, <2>4
<1>2. CASE k \in 1 .. n
  <2>1. PICK q \in 1 .. k : ParentIs(nodes, hs, k, q)
    BY <1>2 DEF TreeOK
  <2>2. q \in 1 .. n + 1 /\ k + 1 \in 1 .. n + 1
    BY <1>2
  <2>3. /\ more[q].id = nodes[q].id /\ more[q].start = nodes[q].start /\ more[q].end = nodes[q].end
        /\ more[k + 1].parent = nodes[k + 1].parent /\ more[k + 1].id = nodes[k + 1].id
        /\ more[k + 1].start = nodes[k + 1].start /\ more[k + 1].end = nodes[k + 1].end
    BY <2>2 DEF Grown
  <2>4. ParentIs(more, hs, k, q)
    BY <2>1, <2>3 DEF ParentIs, Encloses
  <2> QED
    BY <2>1, <2>4
<1> QED
  BY <1>1, <1>2

LEMMA GrownIds ==
    ASSUME NEW n \in Nat, NEW nodes, \A i, j \in 1 .. n + 1 : nodes[i].id = nodes[j].id => i = j,
           NEW more, NEW new, NEW p, Grown(nodes, more, new, p, n),
           \A i \in 1 .. n + 1 : nodes[i].id # new.id
    PROVE  \A i, j \in 1 .. n + 1 + 1 : more[i].id = more[j].id => i = j
<1>1. \A i \in 1 .. n + 1 + 1 : i = n + 2 \/ i \in 1 .. n + 1
  OBVIOUS
<1>2. more[n + 2] = new /\ \A i \in 1 .. n + 1 : more[i].id = nodes[i].id
  BY DEF Grown
<1> QED
  BY <1>1, <1>2

LEMMA GrownChildren ==
    ASSUME NEW hs, NEW bs, NEW end, NEW n \in Nat, NEW nodes, TreeOK(nodes, hs, bs, end, n),
           NEW more \in Seq(NodeRecords), NEW new, NEW p \in 1 .. n + 1, Grown(nodes, more, new, p, n),
           new.parent = nodes[p].id, new.id \in Paths, new.children = << >>,
           new.id # None, \A i \in 1 .. n + 1 : nodes[i].id # new.id
    PROVE  \A q \in 1 .. n + 1 + 1 : \E g : ChildList(more, n + 1, q, g)
<1> SUFFICES ASSUME NEW q \in 1 .. n + 1 + 1 PROVE \E g : ChildList(more, n + 1, q, g)
  OBVIOUS
<1>1. /\ nodes \in Seq(NodeRecords) /\ Len(nodes) = n + 1
      /\ \A i, j \in 1 .. n + 1 : nodes[i].id = nodes[j].id => i = j
      /\ nodes[1].parent = None
      /\ \A i \in 1 .. n : \E r \in 1 .. i : nodes[i + 1].parent = nodes[r].id
  BY DEF TreeOK, NodesOK, ParentIs
<1>2. /\ more[n + 2] = new
      /\ \A i \in 1 .. n + 1 : /\ more[i].id = nodes[i].id /\ more[i].parent = nodes[i].parent
                               /\ i # p => more[i].children = nodes[i].children
      /\ more[p].children = Append(nodes[p].children, new.id)
  BY DEF Grown
<1>3. \A k \in 2 .. n + 1 + 1 : k = n + 2 \/ k \in 2 .. n + 1
  OBVIOUS
<1>4. \A k \in 2 .. n + 1 : k \in 1 .. n + 1 /\ k \in 2 .. n + 1 + 1
  OBVIOUS
<1>5. CASE q = n + 2
  <2>1. more[q].children = << >> /\ more[q].id = new.id
    BY <1>2, <1>5
  <2>2. \A k \in 2 .. n + 1 + 1 : more[k].parent # more[q].id
    <3> SUFFICES ASSUME NEW k \in 2 .. n + 1 + 1 PROVE more[k].parent # new.id
      BY <2>1
    <3>1. CASE k = n + 2
      BY <1>2, <3>1
    <3>2. CASE k \in 2 .. n + 1
      <4>1. k - 1 \in 1 .. n /\ k - 1 + 1 = k
        BY <3>2
      <4>2. PICK r \in 1 .. k - 1 : nodes[k].parent = nodes[r].id
        BY <1>1, <4>1
      <4>3. r \in 1 .. n + 1 /\ k \in 1 .. n + 1
        BY <4>1
      <4> QED
        BY <1>2, <4>2, <4>3
    <3> QED
      BY <1>3, <3>1, <3>2
  <2>3. ChildList(more, n + 1, q, << >>)
    BY <2>1, <2>2 DEF ChildList
  <2> QED
    BY <2>3
<1>6. CASE q # n + 2 /\ q # p
  <2>1. q \in 1 .. n + 1
    BY <1>6
  <2>2. PICK g : ChildList(nodes, n, q, g)
    BY <2>1 DEF TreeOK
  <2> DEFINE list == nodes[q].children
  <2>3. /\ Len(list) \in Nat /\ g \in [1 .. Len(list) -> 2 .. n + 1]
        /\ \A i \in 1 .. Len(list) : list[i] = nodes[g[i]].id /\ nodes[g[i]].parent = nodes[q].id
        /\ \A i, j \in 1 .. Len(list) : i < j => g[i] < g[j]
        /\ \A k \in 2 .. n + 1 : nodes[k].parent = nodes[q].id => \E i \in 1 .. Len(list) : g[i] = k
    BY <2>2 DEF ChildList
  <2>4. more[q].children = list /\ more[q].id = nodes[q].id
    BY <1>2, <1>6, <2>1
  <2>5. new.parent # nodes[q].id
    BY <1>1, <1>6, <2>1
  <2> HIDE DEF list
  <2>6. g \in [1 .. Len(list) -> 2 .. n + 1 + 1]
    BY <1>4, <2>3
  <2>7. \A i \in 1 .. Len(list) : list[i] = more[g[i]].id /\ more[g[i]].parent = more[q].id
    <3> SUFFICES ASSUME NEW i \in 1 .. Len(list)
                 PROVE  list[i] = more[g[i]].id /\ more[g[i]].parent = more[q].id
      OBVIOUS
    <3>1. g[i] \in 1 .. n + 1
      BY <1>4, <2>3
    <3>2. list[i] = nodes[g[i]].id /\ nodes[g[i]].parent = nodes[q].id
      BY <2>3
    <3>3. more[g[i]].id = nodes[g[i]].id /\ more[g[i]].parent = nodes[g[i]].parent
      BY <1>2, <3>1, Zenon
    <3> QED
      BY <2>4, <3>2, <3>3
  <2>8. \A k \in 2 .. n + 1 + 1 : more[k].parent = more[q].id => \E i \in 1 .. Len(list) : g[i] = k
    BY <1>2, <1>3, <1>4, <2>3, <2>4, <2>5
  <2>9. ChildList(more, n + 1, q, g)
    BY <2>3, <2>4, <2>6, <2>7, <2>8 DEF ChildList
  <2> QED
    BY <2>9
<1>7. CASE q = p
  <2>2. PICK g : ChildList(nodes, n, p, g)
    BY DEF TreeOK
  <2> DEFINE list == nodes[p].children
             h == [i \in 1 .. Len(list) + 1 |-> IF i <= Len(list) THEN g[i] ELSE n + 2]
  <2>3. /\ Len(list) \in Nat /\ g \in [1 .. Len(list) -> 2 .. n + 1]
        /\ \A i \in 1 .. Len(list) : list[i] = nodes[g[i]].id /\ nodes[g[i]].parent = nodes[p].id
        /\ \A i, j \in 1 .. Len(list) : i < j => g[i] < g[j]
        /\ \A k \in 2 .. n + 1 : nodes[k].parent = nodes[p].id => \E i \in 1 .. Len(list) : g[i] = k
    BY <2>2 DEF ChildList
  <2>4. more[p].children = Append(list, new.id) /\ more[p].id = nodes[p].id
    BY <1>2
  <2>5. list \in Seq(Paths)
    <3>1. nodes[p] \in NodeRecords
      BY <1>1
    <3> QED
      BY <3>1 DEF NodeRecords
  <2> HIDE DEF list
  <2>6. /\ Len(Append(list, new.id)) = Len(list) + 1
        /\ Append(list, new.id)[Len(list) + 1] = new.id
        /\ \A i \in 1 .. Len(list) : Append(list, new.id)[i] = list[i]
    BY <2>5
  <2>7. /\ \A i \in 1 .. Len(list) : h[i] = g[i] /\ g[i] \in 1 .. n + 1
        /\ h[Len(list) + 1] = n + 2
        /\ h \in [1 .. Len(list) + 1 -> 2 .. n + 1 + 1]
    <3>1. \A i \in 1 .. Len(list) : h[i] = g[i] /\ g[i] \in 1 .. n + 1 /\ g[i] \in 2 .. n + 1
      BY <2>3, SMTT(30)
    <3>2. h[Len(list) + 1] = n + 2
      BY <2>3
    <3>3. \A i \in 1 .. Len(list) + 1 : (IF i <= Len(list) THEN g[i] ELSE n + 2) \in 2 .. n + 1 + 1
      <4>1. \A i \in 1 .. Len(list) + 1 : i <= Len(list) => i \in 1 .. Len(list)
        BY <2>3
      <4>2. \A i \in 1 .. Len(list) : g[i] \in 2 .. n + 1 + 1
        BY <1>4, <3>1
      <4>3. n + 2 \in 2 .. n + 1 + 1
        OBVIOUS
      <4> QED
        BY <4>1, <4>2, <4>3, Zenon
    <3>4. h \in [1 .. Len(list) + 1 -> 2 .. n + 1 + 1]
      BY <3>3, Zenon
    <3> QED
      BY <3>1, <3>2, <3>4
  <2>8. \A i \in 1 .. Len(list) + 1 : i = Len(list) + 1 \/ i \in 1 .. Len(list)
    BY <2>3
  <2> HIDE DEF h
  <2>9. \A i \in 1 .. Len(list) + 1 : /\ Append(list, new.id)[i] = more[h[i]].id
                                      /\ more[h[i]].parent = more[p].id
    <3> SUFFICES ASSUME NEW i \in 1 .. Len(list) + 1
                 PROVE  Append(list, new.id)[i] = more[h[i]].id /\ more[h[i]].parent = more[p].id
      OBVIOUS
    <3>1. CASE i = Len(list) + 1
      BY <1>2, <2>4, <2>6, <2>7, <3>1
    <3>2. CASE i \in 1 .. Len(list)
      <4>1. list[i] = nodes[g[i]].id /\ nodes[g[i]].parent = nodes[p].id
        BY <2>3, <3>2
      <4>2. more[g[i]].id = nodes[g[i]].id /\ more[g[i]].parent = nodes[g[i]].parent
        BY <1>2, <2>7, <3>2, Zenon
      <4>3. h[i] = g[i] /\ Append(list, new.id)[i] = list[i]
        BY <2>6, <2>7, <3>2
      <4> QED
        BY <2>4, <4>1, <4>2, <4>3
    <3> QED
      BY <2>8, <3>1, <3>2
  <2>10. \A i, j \in 1 .. Len(list) + 1 : i < j => h[i] < h[j]
    <3> SUFFICES ASSUME NEW i \in 1 .. Len(list) + 1, NEW j \in 1 .. Len(list) + 1, i < j
                 PROVE  h[i] < h[j]
      OBVIOUS
    <3>1. i \in 1 .. Len(list)
      BY <2>3
    <3>2. CASE j = Len(list) + 1
      BY <2>7, <3>1, <3>2
    <3>3. CASE j \in 1 .. Len(list)
      BY <2>3, <2>7, <3>1, <3>3
    <3> QED
      BY <2>8, <3>2, <3>3
  <2>11. ASSUME NEW k \in 2 .. n + 1 + 1, more[k].parent = more[p].id
         PROVE  \E i \in 1 .. Len(list) + 1 : h[i] = k
    <3>1. CASE k = n + 2
      <4>1. Len(list) + 1 \in 1 .. Len(list) + 1
        BY <2>3
      <4> QED
        BY <2>7, <3>1, <4>1
    <3>2. CASE k \in 2 .. n + 1
      <4>1. nodes[k].parent = nodes[p].id
        BY <1>2, <1>4, <2>4, <2>11, <3>2
      <4>2. PICK i \in 1 .. Len(list) : g[i] = k
        BY <2>3, <3>2, <4>1
      <4>3. i \in 1 .. Len(list) + 1
        BY <2>3
      <4> QED
        BY <2>7, <4>2, <4>3
    <3> QED
      BY <1>3, <3>1, <3>2
  <2>12. ChildList(more, n + 1, p, h)
    BY <2>3, <2>4, <2>6, <2>7, <2>9, <2>10, <2>11 DEF ChildList
  <2> QED
    BY <1>7, <2>12
<1> QED
  BY <1>5, <1>6, <1>7

LEMMA GrownBases ==
    ASSUME NEW n \in Nat, NEW nodes, NEW bases, BasesOK(nodes, bases, n), NEW more, NEW new, NEW p \in 1 .. n + 1,
           Grown(nodes, more, new, p, n), new.parent \in Paths, new.level \in DOMAIN MayHold,
           new.num \in Tokens,
           NEW base, base = <<new.parent, new.level, NodeToken(new.level, new.num)>>,
           new.id = Append(new.parent, <<new.level, NodeToken(new.level, new.num),
                                         Cardinality({i \in DOMAIN bases : bases[i] = base}) + 1>>)
    PROVE  BasesOK(more, Append(bases, base), n + 1)
<1> DEFINE all == Append(bases, base)
<1>1. bases \in Seq(Paths \X (DOMAIN MayHold) \X Tokens) /\ Len(bases) = n
  BY DEF BasesOK
<1>2. base \in Paths \X (DOMAIN MayHold) \X Tokens
  BY TokenType
<1>3. /\ all \in Seq(Paths \X (DOMAIN MayHold) \X Tokens) /\ Len(all) = n + 1
      /\ all[n + 1] = base /\ \A i \in 1 .. n : all[i] = bases[i]
  BY <1>1, <1>2
<1>4. DOMAIN bases = 1 .. n
  BY <1>1
<1> HIDE DEF all
<1>5. more[n + 2] = new /\ \A i \in 1 .. n + 1 : /\ more[i].id = nodes[i].id
                                                 /\ more[i].level = nodes[i].level
                                                 /\ more[i].num = nodes[i].num
                                                 /\ more[i].parent = nodes[i].parent
  BY DEF Grown
<1>6. ASSUME NEW k \in 1 .. n + 1
      PROVE  LET token == NodeToken(more[k + 1].level, more[k + 1].num)
             IN /\ all[k] = <<more[k + 1].parent, more[k + 1].level, token>>
                /\ more[k + 1].id = Append(more[k + 1].parent,
                     <<more[k + 1].level, token, Cardinality({i \in 1 .. k - 1 : all[i] = all[k]}) + 1>>)
  <2>1. CASE k = n + 1
    <3>1. k + 1 = n + 2 /\ k - 1 = n
      BY <2>1
    <3>2. {i \in 1 .. k - 1 : all[i] = all[k]} = {i \in DOMAIN bases : bases[i] = base}
      BY <1>3, <1>4, <2>1, <3>1
    <3>3. more[k + 1] = new /\ all[k] = base
      BY <1>3, <1>5, <2>1, <3>1
    <3> QED
      BY <3>2, <3>3, Zenon
  <2>2. CASE k \in 1 .. n
    <3>1. k + 1 \in 1 .. n + 1 /\ \A i \in 1 .. k - 1 : i \in 1 .. n
      BY <2>2
    <3>2. {i \in 1 .. k - 1 : all[i] = all[k]} = {i \in 1 .. k - 1 : bases[i] = bases[k]}
      BY <1>3, <2>2, <3>1
    <3>3. all[k] = bases[k]
      BY <1>3, <2>2
    <3>4. /\ more[k + 1].id = nodes[k + 1].id /\ more[k + 1].level = nodes[k + 1].level
          /\ more[k + 1].num = nodes[k + 1].num /\ more[k + 1].parent = nodes[k + 1].parent
      BY <1>5, <3>1
    <3>5. LET token == NodeToken(nodes[k + 1].level, nodes[k + 1].num)
          IN /\ bases[k] = <<nodes[k + 1].parent, nodes[k + 1].level, token>>
             /\ nodes[k + 1].id = Append(nodes[k + 1].parent,
                  <<nodes[k + 1].level, token, Cardinality({i \in 1 .. k - 1 : bases[i] = bases[k]}) + 1>>)
      BY <2>2 DEF BasesOK
    <3> QED
      BY <3>2, <3>3, <3>4, <3>5, Zenon
  <2>3. k = n + 1 \/ k \in 1 .. n
    OBVIOUS
  <2> QED
    BY <2>1, <2>2, <2>3
<1>7. BasesOK(more, all, n + 1)
  BY <1>3, <1>6, Zenon DEF BasesOK
<1> QED
  BY <1>7 DEF all

LEMMA UnitIs ==
    ASSUME NEW hs, NEW bs, NEW end, Ordered(hs, bs, end), NEW k \in 1 .. Len(hs)
    PROVE  /\ Units(hs, bs, end)[k].level = hs[k].level /\ Units(hs, bs, end)[k].num = hs[k].num
           /\ Units(hs, bs, end)[k].start = hs[k].at
           /\ Units(hs, bs, end)[k].end = EndOf(k, hs, bs, end)
           /\ Len(Units(hs, bs, end)) = Len(hs)
<1>1. hs \in Seq(HeadingRecords)
  BY DEF Ordered
<1>2. DOMAIN hs = 1 .. Len(hs) /\ Len(hs) \in Nat
  BY <1>1
<1>3. Units(hs, bs, end) = [i \in 1 .. Len(hs) |-> [level |-> hs[i].level, num |-> hs[i].num,
                              start |-> hs[i].at, end |-> EndOf(i, hs, bs, end)]]
  BY <1>2 DEF Units
<1> QED
  BY <1>2, <1>3

LEMMA TimesType ==
    ASSUME NEW bases, NEW n \in Nat, DOMAIN bases = 1 .. n, NEW base
    PROVE  Cardinality({i \in DOMAIN bases : bases[i] = base}) \in Nat
<1>1. IsFiniteSet(1 .. n)
  BY FS_Interval
<1>2. {i \in DOMAIN bases : bases[i] = base} \subseteq 1 .. n
  OBVIOUS
<1>3. IsFiniteSet({i \in DOMAIN bases : bases[i] = base})
  BY <1>1, <1>2, FS_Subset
<1> QED
  BY <1>3, FS_CardinalityType

\* The node of the next unit.
LEMMA NewNode ==
    ASSUME NEW hs, NEW bs, NEW end, Ordered(hs, bs, end), NEW n \in Nat, n + 1 \in 1 .. Len(hs),
           NEW b, BuiltOK(b, hs, bs, end, n), NEW unit, unit = Units(hs, bs, end)[n + 1],
           Above(b, unit) # 0
    PROVE  /\ Above(b, unit) \in 1 .. n + 1
           /\ HoldsNext(hs, hs[n + 1].level, n, Above(b, unit))
           /\ b.nodes[Above(b, unit)] \in NodeRecords
           /\ Times(b, unit) \in Nat
           /\ NewId(b, unit) \in Paths /\ NewId(b, unit) # None
           /\ Len(NewId(b, unit)) = Len(b.nodes[Above(b, unit)].id) + 1
           /\ NodeOf(unit, NewId(b, unit), b.nodes[Above(b, unit)].id) \in NodeRecords
<1> DEFINE p == Above(b, unit)
           u == hs[n + 1]
           step == <<unit.level, NodeToken(unit.level, unit.num), Times(b, unit)>>
<1>1. /\ unit.level = u.level /\ unit.num = u.num /\ unit.start = u.at
      /\ unit.end = EndOf(n + 1, hs, bs, end)
  BY UnitIs
<1>2. u.level \in DOMAIN MayHold /\ u.num \in Nat \X Letters /\ u.at \in Nat
  <2>1. hs \in Seq(HeadingRecords)
    BY DEF Ordered
  <2>2. u \in HeadingRecords
    BY <2>1
  <2> QED
    BY <2>2 DEF HeadingRecords
<1>3. HoldsNext(hs, u.level, n, p)
  <2>1. ActiveOK(b.active, hs, n) /\ u.level \in DOMAIN MayHold /\ p = SelectParent(b.active, u.level) /\ p # 0
    BY <1>1, <1>2 DEF BuiltOK, Above
  <2>2. Selects(hs, n, b.active, u.level, SelectParent(b.active, u.level))
    BY <2>1, SelectIs
  <2> QED
    BY <2>1, <2>2 DEF Selects
<1>4. p \in 1 .. n + 1
  BY <1>3 DEF HoldsNext
<1>5. b.nodes \in Seq(NodeRecords) /\ Len(b.nodes) = n + 1
  BY DEF BuiltOK, TreeOK, NodesOK
<1>6. b.nodes[p] \in NodeRecords
  BY <1>4, <1>5
<1>7. b.nodes[p].id \in Paths
  BY <1>6 DEF NodeRecords
<1>8. Times(b, unit) \in Nat
  <2>1. b.bases \in Seq(Paths \X (DOMAIN MayHold) \X Tokens) /\ Len(b.bases) = n
    BY DEF BuiltOK, BasesOK
  <2>2. DOMAIN b.bases = 1 .. n
    BY <2>1
  <2>3. Cardinality({i \in DOMAIN b.bases : b.bases[i] = Base(b, unit)}) \in Nat
    BY <2>2, TimesType
  <2> QED
    BY <2>3 DEF Times
<1>9. step \in {"root"} \cup (DOMAIN MayHold) \X Tokens \X Nat
  <2>1. NodeToken(unit.level, unit.num) \in Tokens
    BY <1>1, <1>2, TokenType DEF Tokens
  <2> QED
    BY <1>1, <1>2, <1>8, <2>1
<1>10. NewId(b, unit) = Append(b.nodes[p].id, step)
  BY DEF NewId
<1> HIDE DEF step, p
<1>11. NewId(b, unit) \in Paths /\ Len(NewId(b, unit)) = Len(b.nodes[p].id) + 1
  BY <1>7, <1>9, <1>10 DEF Paths
<1>12. NewId(b, unit) # None
  <2>1. Len(b.nodes[p].id) \in Nat
    BY <1>7 DEF Paths
  <2>2. Len(None) = 0
    BY DEF None
  <2> QED
    BY <1>11, <2>1, <2>2
<1>13. NodeOf(unit, NewId(b, unit), b.nodes[p].id) \in NodeRecords
  <2>1. unit.level \in Range(Levels)
    BY <1>1, <1>2, LevelsIs, HeadingLevels
  <2>2. unit.num \in Numbers /\ unit.start \in Nat /\ unit.end \in Nat
    BY <1>1, <1>2, SpanIs DEF Numbers
  <2>3. << >> \in Seq(Paths)
    OBVIOUS
  <2> QED
    BY <1>7, <1>11, <2>1, <2>2, <2>3 DEF NodeOf, NodeRecords
<1> QED
  BY <1>3, <1>4, <1>6, <1>8, <1>11, <1>12, <1>13 DEF p

LEMMA NodeGrows ==
    ASSUME NEW nodes \in Seq(NodeRecords), NEW p \in 1 .. Len(nodes), NEW new \in NodeRecords,
           NEW n \in Nat, Len(nodes) = n + 1
    PROVE  /\ WithNode(nodes, p, new) \in Seq(NodeRecords)
           /\ Grown(nodes, WithNode(nodes, p, new), new, p, n)
<1> DEFINE more == WithNode(nodes, p, new)
<1>1. Len(nodes) + 1 = n + 2
  OBVIOUS
<1>2. more \in Seq(NodeRecords)
  BY WithNodeIs
<1>3. Len(more) = Len(nodes) + 1 /\ more[Len(nodes) + 1] = new
  BY WithNodeIs
<1>4. more[p].children = Append(nodes[p].children, new.id)
  BY WithNodeIs
<1>5. ASSUME NEW i \in 1 .. Len(nodes)
      PROVE  /\ more[i].id = nodes[i].id /\ more[i].level = nodes[i].level /\ more[i].num = nodes[i].num
             /\ more[i].start = nodes[i].start /\ more[i].end = nodes[i].end
             /\ more[i].parent = nodes[i].parent
             /\ i # p => more[i].children = nodes[i].children
  BY WithNodeIs, ZenonT(30)
<1> HIDE DEF more
<1>6. Grown(nodes, more, new, p, n)
  BY <1>1, <1>3, <1>4, <1>5 DEF Grown
<1> QED
  BY <1>2, <1>6 DEF more

LEMMA BuildsOn ==
    ASSUME NEW hs, NEW bs, NEW end, Ordered(hs, bs, end), NEW n \in Nat, n + 1 \in 1 .. Len(hs),
           NEW b, BuiltOK(b, hs, bs, end, n), NEW unit, unit = Units(hs, bs, end)[n + 1],
           ~ UnitRefused(b, unit)
    PROVE  BuiltOK(AddUnit(b, unit), hs, bs, end, n + 1)
<1> DEFINE p == Above(b, unit)
           u == hs[n + 1]
           nodes == b.nodes
           new == NodeOf(unit, NewId(b, unit), nodes[p].id)
           more == WithNode(nodes, p, new)
           c == AddUnit(b, unit)
<1>1. /\ unit.level = u.level /\ unit.num = u.num /\ unit.start = u.at
      /\ unit.end = EndOf(n + 1, hs, bs, end)
  BY UnitIs
<1>2. u.level \in DOMAIN MayHold /\ u.num \in Nat \X Letters
  BY LevelType
<1>3. /\ p # 0 /\ Encloses(nodes[p], unit)
      /\ \A i \in DOMAIN nodes : nodes[i].id # NewId(b, unit)
  BY DEF UnitRefused
<1>4. /\ p \in 1 .. n + 1 /\ HoldsNext(hs, u.level, n, p) /\ nodes[p] \in NodeRecords
      /\ Times(b, unit) \in Nat /\ NewId(b, unit) \in Paths /\ NewId(b, unit) # None
      /\ new \in NodeRecords
  BY <1>3, NewNode
<1>5. /\ DOMAIN c = {"nodes", "bases", "collisions", "failed", "active"}
      /\ c.failed = FALSE /\ c.nodes = more
      /\ c.active = UpdateActive(b.active, unit, Len(nodes) + 1)
      /\ c.bases = Append(b.bases, Base(b, unit))
  BY AddUnitIs DEF BuiltOK
<1>6. /\ new.id = NewId(b, unit) /\ new.level = u.level /\ new.num = u.num /\ new.start = u.at
      /\ new.end = EndOf(n + 1, hs, bs, end) /\ new.parent = nodes[p].id /\ new.children = << >>
      /\ Encloses(nodes[p], new)
  BY <1>1, <1>3 DEF NodeOf, Encloses
<1>7. TreeOK(nodes, hs, bs, end, n)
  BY DEF BuiltOK
<1>8. nodes \in Seq(NodeRecords) /\ Len(nodes) = n + 1 /\ NodesOK(nodes, hs, bs, end, n)
  BY <1>7 DEF TreeOK, NodesOK
<1>9. DOMAIN nodes = 1 .. n + 1
  BY <1>8
<1>10. ActiveOK(c.active, hs, n + 1)
  <2>1. c.active = UpdateActive(b.active, unit, n + 2)
    BY <1>5, <1>8
  <2>2. ActiveOK(UpdateActive(b.active, unit, n + 2), hs, n + 1)
    BY <1>1, ActiveAfter DEF BuiltOK
  <2> QED
    BY <2>1, <2>2
<1>11. NewId(b, unit) = Append(nodes[p].id, <<u.level, NodeToken(u.level, u.num), Times(b, unit)>>)
  BY <1>1 DEF NewId
<1>12. Base(b, unit) = <<new.parent, new.level, NodeToken(new.level, new.num)>>
  BY <1>1, <1>6 DEF Base
<1>13. Times(b, unit) = Cardinality({i \in DOMAIN b.bases : b.bases[i] = Base(b, unit)}) + 1
  BY DEF Times
<1> HIDE DEF p, new, c
<1>14. more \in Seq(NodeRecords) /\ Grown(nodes, more, new, p, n)
  <2>1. p \in 1 .. Len(nodes)
    BY <1>4, <1>8
  <2> HIDE DEF nodes
  <2> QED
    BY <1>4, <1>8, <2>1, NodeGrows
<1> HIDE DEF more, nodes
<1>15. NodesOK(more, hs, bs, end, n + 1)
  BY <1>6, <1>8, <1>14, GrownNodes
<1>16. \A k \in 1 .. n + 1 : \E q \in 1 .. k : ParentIs(more, hs, k, q)
  <2>1. new.id = Append(nodes[p].id, <<u.level, NodeToken(u.level, u.num), Times(b, unit)>>)
    BY <1>6, <1>11
  <2> QED
    BY <1>4, <1>6, <1>7, <1>14, <2>1, GrownParents
<1>17. \A i \in 1 .. n + 1 : nodes[i].id # new.id
  BY <1>3, <1>6, <1>9
<1>18. \A i, j \in 1 .. n + 1 + 1 : more[i].id = more[j].id => i = j
  <2>1. \A i, j \in 1 .. n + 1 : nodes[i].id = nodes[j].id => i = j
    BY <1>7 DEF TreeOK
  <2> QED
    BY <1>14, <1>17, <2>1, GrownIds, ZenonT(30)
<1>19. \A q \in 1 .. n + 1 + 1 : \E g : ChildList(more, n + 1, q, g)
  BY <1>4, <1>6, <1>7, <1>14, <1>17, GrownChildren
<1>20. BasesOK(more, Append(b.bases, Base(b, unit)), n + 1)
  <2>1. BasesOK(nodes, b.bases, n)
    BY DEF BuiltOK, nodes
  <2>2. new.parent \in Paths /\ new.level \in DOMAIN MayHold /\ new.num \in Tokens
    BY <1>2, <1>4, <1>6 DEF NodeRecords, Tokens
  <2>3. new.id = Append(new.parent, <<new.level, NodeToken(new.level, new.num), Times(b, unit)>>)
    BY <1>6, <1>11
  <2> QED
    BY <1>4, <1>12, <1>13, <1>14, <2>1, <2>2, <2>3, GrownBases
<1>21. BuiltOK(c, hs, bs, end, n + 1)
  BY <1>5, <1>10, <1>15, <1>16, <1>18, <1>19, <1>20 DEF BuiltOK, TreeOK
<1> QED
  BY <1>21 DEF c

LEMMA BuildsFirst ==
    ASSUME NEW hs, NEW bs, NEW end, Ordered(hs, bs, end)
    PROVE  BuiltOK(NothingBuilt(end), hs, bs, end, 0)
<1> DEFINE b == NothingBuilt(end)
           nodes == <<Root(end)>>
<1>1. /\ DOMAIN b = {"nodes", "bases", "collisions", "failed", "active"} /\ b.failed = FALSE
      /\ b.nodes = nodes /\ b.bases = << >>
      /\ b.active = [l \in Range(Levels) |-> IF l = "law" THEN 1 ELSE 0]
  BY DEF NothingBuilt
<1>2. ActiveOK(b.active, hs, 0)
  BY <1>1, ActiveAtFirst
<1>3. Root(end) \in NodeRecords
  <2>1. <<"root">> \in Paths /\ None \in Paths /\ None \in Numbers
    BY DEF Paths, None, Numbers
  <2>2. end \in Nat /\ "law" \in Range(Levels) /\ << >> \in Seq(Paths)
    BY LevelsIs DEF Ordered
  <2> QED
    BY <2>1, <2>2 DEF Root, NodeRecords
<1>4. nodes \in Seq(NodeRecords) /\ Len(nodes) = 1 /\ nodes[1] = Root(end)
  BY <1>3
<1>5. NodesOK(nodes, hs, bs, end, 0)
  BY <1>4 DEF NodesOK, Root
<1>6. \A p \in 1 .. 1 : ChildList(nodes, 0, p, << >>)
  <2>1. nodes[1].children = << >> /\ 2 .. 1 = {}
    BY <1>4 DEF Root
  <2> QED
    BY <2>1 DEF ChildList
<1>7. TreeOK(nodes, hs, bs, end, 0)
  <2>1. 1 .. 0 = {} /\ \A i, j \in 1 .. 0 + 1 : i = j
    OBVIOUS
  <2>2. \A p \in 1 .. 0 + 1 : \E g : ChildList(nodes, 0, p, g)
    BY <1>6
  <2> QED
    BY <1>5, <2>1, <2>2 DEF TreeOK
<1>8. BasesOK(nodes, << >>, 0)
  BY DEF BasesOK
<1> HIDE DEF b
<1>9. BuiltOK(b, hs, bs, end, 0)
  BY <1>1, <1>2, <1>7, <1>8 DEF BuiltOK
<1> QED
  BY <1>9 DEF b

-----------------------------------------------------------------------------
(* The builder refuses no unit where nothing is cut.                       *)

\* What a clause or a point says it belongs to was open when it came.
Lineage(hs) ==
  \A k \in 1 .. Len(hs) :
     /\ hs[k].level \in {"clause", "point"} => Stands(hs, "article", hs[k].article, k - 1)
     /\ hs[k].level = "point" => Stands(hs, "clause", hs[k].clause, k - 1)

LEMMA AppendSame ==
    ASSUME NEW S, NEW s \in Seq(S), NEW t \in Seq(S), NEW x, NEW y, Append(s, x) = Append(t, y)
    PROVE  s = t /\ x = y
<1>1. /\ Len(Append(s, x)) = Len(s) + 1 /\ Len(Append(t, y)) = Len(t) + 1
      /\ Len(s) \in Nat /\ Len(t) \in Nat
  OBVIOUS
<1>2. Len(s) = Len(t)
  BY <1>1
<1>3. Append(s, x)[Len(s) + 1] = x /\ Append(t, y)[Len(t) + 1] = y
  OBVIOUS
<1>4. \A i \in 1 .. Len(s) : Append(s, x)[i] = s[i]
  OBVIOUS
<1>5. \A i \in 1 .. Len(t) : Append(t, y)[i] = t[i]
  OBVIOUS
<1>6. \A i \in 1 .. Len(s) : s[i] = t[i]
  BY <1>2, <1>4, <1>5
<1>7. s = t
  <2>1. s = [i \in 1 .. Len(s) |-> s[i]] /\ t = [i \in 1 .. Len(t) |-> t[i]]
    OBVIOUS
  <2> QED
    BY <1>2, <1>6, <2>1
<1>8. x = y
  BY <1>2, <1>3
<1> QED
  BY <1>7, <1>8

LEMMA IdLengths ==
    ASSUME NEW hs, NEW bs, NEW end, NEW n \in Nat, NEW b, BuiltOK(b, hs, bs, end, n),
           NEW k \in 1 .. n + 1
    PROVE  /\ b.nodes[k].id \in Paths /\ b.nodes[k].parent \in Paths
           /\ Len(b.nodes[k].id) \in Nat /\ Len(b.nodes[k].id) >= 1
<1>1. /\ b.nodes \in Seq(NodeRecords) /\ Len(b.nodes) = n + 1 /\ b.nodes[1].id = <<"root">>
      /\ \A i \in 1 .. n : \E p \in 1 .. i : ParentIs(b.nodes, hs, i, p)
  BY DEF BuiltOK, TreeOK, NodesOK
<1>2. \A i \in 1 .. n + 1 : b.nodes[i].id \in Paths /\ b.nodes[i].parent \in Paths
  <2> SUFFICES ASSUME NEW i \in 1 .. n + 1
               PROVE  b.nodes[i].id \in Paths /\ b.nodes[i].parent \in Paths
    OBVIOUS
  <2>1. b.nodes[i] \in NodeRecords
    BY <1>1
  <2> QED
    BY <2>1 DEF NodeRecords
<1>3. \A i \in 1 .. n + 1 : Len(b.nodes[i].id) \in Nat
  BY <1>2 DEF Paths
<1>4. CASE k = 1
  <2>1. Len(b.nodes[k].id) = 1
    BY <1>1, <1>4
  <2> QED
    BY <1>2, <1>3, <2>1
<1>5. CASE k # 1
  <2>1. k - 1 \in 1 .. n /\ k - 1 + 1 = k
    BY <1>5
  <2>2. PICK p \in 1 .. k - 1 : ParentIs(b.nodes, hs, k - 1, p)
    BY <1>1, <2>1
  <2>3. p \in 1 .. n + 1
    BY <2>1
  <2>4. \E x : b.nodes[k].id = Append(b.nodes[p].id, x)
    BY <2>1, <2>2 DEF ParentIs
  <2>5. Len(b.nodes[k].id) = Len(b.nodes[p].id) + 1
    <3>1. b.nodes[p].id \in Paths
      BY <1>2, <2>3
    <3> QED
      BY <2>4, <3>1 DEF Paths
  <2>6. Len(b.nodes[p].id) \in Nat
    BY <1>3, <2>3
  <2>7. Len(b.nodes[k].id) >= 1 /\ Len(b.nodes[k].id) \in Nat
    BY <2>5, <2>6, SMTT(30)
  <2> QED
    BY <1>2, <2>7
<1> QED
  BY <1>4, <1>5

\* The number in an id is one more than the units of the same base before it.
LEMMA NotTaken ==
    ASSUME NEW hs, NEW bs, NEW end, Ordered(hs, bs, end), NEW n \in Nat, n + 1 \in 1 .. Len(hs),
           NEW b, BuiltOK(b, hs, bs, end, n), NEW unit, unit = Units(hs, bs, end)[n + 1],
           Above(b, unit) # 0, NEW i \in 1 .. n + 1
    PROVE  b.nodes[i].id # NewId(b, unit)
<1>0. Above(b, unit) \in 1 .. n + 1 /\ Len(NewId(b, unit)) = Len(b.nodes[Above(b, unit)].id) + 1
  BY NewNode, SMTT(30)
<1> DEFINE p == Above(b, unit)
           nodes == b.nodes
           bases == b.bases
           token == NodeToken(unit.level, unit.num)
<1>1. p \in 1 .. n + 1 /\ Len(NewId(b, unit)) = Len(nodes[p].id) + 1
  BY <1>0
<1>2. Len(nodes[p].id) \in Nat /\ Len(nodes[p].id) >= 1 /\ nodes[p].id \in Paths
  BY <1>1, IdLengths
<1>3. CASE i = 1
  <2>1. nodes[1].id = <<"root">>
    BY DEF BuiltOK, TreeOK, NodesOK
  <2>2. Len(nodes[i].id) = 1
    BY <1>3, <2>1
  <2>3. Len(NewId(b, unit)) # 1
    BY <1>1, <1>2
  <2> QED
    BY <2>2, <2>3
<1>4. CASE i # 1
  <2> DEFINE k == i - 1
             mine == {j \in 1 .. k - 1 : bases[j] = bases[k]}
             all == {j \in DOMAIN bases : bases[j] = Base(b, unit)}
  <2>1. k \in 1 .. n /\ k + 1 = i
    BY <1>4
  <2>2. /\ bases[k] = <<nodes[i].parent, nodes[i].level, NodeToken(nodes[i].level, nodes[i].num)>>
        /\ nodes[i].id = Append(nodes[i].parent,
              <<nodes[i].level, NodeToken(nodes[i].level, nodes[i].num), Cardinality(mine) + 1>>)
        /\ bases \in Seq(Paths \X (DOMAIN MayHold) \X Tokens) /\ Len(bases) = n
    BY <2>1 DEF BuiltOK, BasesOK
  <2> SUFFICES ASSUME nodes[i].id = NewId(b, unit) PROVE FALSE
    OBVIOUS
  <2>3. NewId(b, unit) = Append(nodes[p].id, <<unit.level, token, Times(b, unit)>>)
    BY DEF NewId
  <2>4. nodes[i].parent \in Paths
    BY IdLengths
  <2>5. /\ nodes[i].parent = nodes[p].id
        /\ <<nodes[i].level, NodeToken(nodes[i].level, nodes[i].num), Cardinality(mine) + 1>>
             = <<unit.level, token, Times(b, unit)>>
    <3>1. Append(nodes[i].parent,
              <<nodes[i].level, NodeToken(nodes[i].level, nodes[i].num), Cardinality(mine) + 1>>)
           = Append(nodes[p].id, <<unit.level, token, Times(b, unit)>>)
      BY <2>2, <2>3
    <3>2. /\ nodes[i].parent \in Seq({"root"} \cup (DOMAIN MayHold) \X Tokens \X Nat)
          /\ nodes[p].id \in Seq({"root"} \cup (DOMAIN MayHold) \X Tokens \X Nat)
      BY <1>2, <2>4 DEF Paths
    <3> DEFINE x == <<nodes[i].level, NodeToken(nodes[i].level, nodes[i].num), Cardinality(mine) + 1>>
               y == <<unit.level, token, Times(b, unit)>>
               s == nodes[i].parent
               t == nodes[p].id
    <3>3. Append(s, x) = Append(t, y)
      BY <3>1
    <3> DEFINE S == {"root"} \cup (DOMAIN MayHold) \X Tokens \X Nat
    <3>5. s \in Seq(S) /\ t \in Seq(S)
      BY <3>2
    <3> HIDE DEF x, y, s, t, S
    <3>4. s = t /\ x = y
      BY <3>3, <3>5, AppendSame, SMTT(30)
    <3> QED
      BY <3>4 DEF x, y, s, t
  <2>6. bases[k] = Base(b, unit) /\ Cardinality(mine) + 1 = Times(b, unit)
    BY <2>2, <2>5 DEF Base
  <2>7. Times(b, unit) = Cardinality(all) + 1
    BY DEF Times
  <2>8. DOMAIN bases = 1 .. n
    <3> DEFINE B == Paths \X (DOMAIN MayHold) \X Tokens
    <3>1. bases \in Seq(B) /\ Len(bases) = n
      BY <2>2
    <3> HIDE DEF B, bases
    <3> QED
      BY <3>1
  <2>9. mine \cup {k} \subseteq all /\ k \notin mine /\ mine \subseteq 1 .. n /\ all \subseteq 1 .. n
    BY <2>1, <2>6, <2>8
  <2> HIDE DEF mine, all, k
  <2>10. IsFiniteSet(mine) /\ IsFiniteSet(all)
    <3>1. IsFiniteSet(1 .. n)
      BY FS_Interval
    <3> QED
      BY <2>9, <3>1, FS_Subset
  <2>11. Cardinality(mine \cup {k}) = Cardinality(mine) + 1 /\ IsFiniteSet(mine \cup {k})
    BY <2>9, <2>10, FS_AddElement
  <2>12. Cardinality(mine \cup {k}) <= Cardinality(all)
    BY <2>9, <2>10, FS_Subset
  <2>13. Cardinality(mine) \in Nat /\ Cardinality(all) \in Nat
    BY <2>10, FS_CardinalityType
  <2> QED
    BY <2>6, <2>7, <2>11, <2>12, <2>13
<1> QED
  BY <1>3, <1>4

LEMMA SomeParent ==
    ASSUME NEW hs, NEW bs, NEW end, Ordered(hs, bs, end), Lineage(hs), NEW n \in Nat,
           n + 1 \in 1 .. Len(hs), NEW active, ActiveOK(active, hs, n)
    PROVE  SelectParent(active, hs[n + 1].level) # 0
<1> DEFINE u == hs[n + 1].level
<1> SUFFICES ASSUME SelectParent(active, u) = 0 PROVE FALSE
  OBVIOUS
<1>1. u \in DOMAIN MayHold
  BY LevelType
<1>2. \A i \in DOMAIN MayHold[u] : active[MayHold[u][i]] = 0
  <2>1. Selects(hs, n, active, u, SelectParent(active, u))
    BY <1>1, SelectIs
  <2> QED
    BY <2>1 DEF Selects
<1>3. u \in {"clause", "point"} => Stands(hs, "article", hs[n + 1].article, n)
  BY DEF Lineage
<1>4. u = "point" => Stands(hs, "clause", hs[n + 1].clause, n)
  BY DEF Lineage
<1> HIDE DEF u
<1>5. active["law"] = 1
  BY DEF ActiveOK
<1>6. \A a \in 1 .. n : \A l \in OpenLevels : hs[a].level = l /\ Standing(hs, a, n) => active[l] = a + 1
  BY DEF ActiveOK
<1>7. CASE u = "part"
  <2>1. MayHold[u] = <<"law">>
    BY <1>7 DEF MayHold
  <2> QED
    BY <1>2, <1>5, <2>1
<1>8. CASE u = "chapter"
  <2>1. MayHold[u] = <<"part", "law">>
    BY <1>8 DEF MayHold
  <2>2. 2 \in DOMAIN MayHold[u] /\ MayHold[u][2] = "law"
    BY <2>1
  <2> QED
    BY <1>2, <1>5, <2>2
<1>9. CASE u = "section"
  <2>1. MayHold[u] = <<"chapter", "part", "law">>
    BY <1>9 DEF MayHold
  <2>2. 3 \in DOMAIN MayHold[u] /\ MayHold[u][3] = "law"
    BY <2>1
  <2> QED
    BY <1>2, <1>5, <2>2
<1>10. CASE u = "article"
  <2>1. MayHold[u] = <<"section", "chapter", "part", "law">>
    BY <1>10 DEF MayHold
  <2>2. 4 \in DOMAIN MayHold[u] /\ MayHold[u][4] = "law"
    BY <2>1
  <2> QED
    BY <1>2, <1>5, <2>2
<1>11. CASE u = "clause"
  <2>1. MayHold[u] = <<"article">>
    BY <1>11 DEF MayHold
  <2>2. 1 \in DOMAIN MayHold[u] /\ MayHold[u][1] = "article"
    BY <2>1
  <2>3. PICK a \in 1 .. n : hs[a].level = "article" /\ Standing(hs, a, n)
    BY <1>3, <1>11 DEF Stands
  <2>4. active["article"] = a + 1
    BY <1>6, <2>3 DEF OpenLevels
  <2> QED
    BY <1>2, <2>2, <2>4
<1>12. CASE u = "point"
  <2>1. MayHold[u] = <<"clause">>
    BY <1>12 DEF MayHold
  <2>2. 1 \in DOMAIN MayHold[u] /\ MayHold[u][1] = "clause"
    BY <2>1
  <2>3. PICK a \in 1 .. n : hs[a].level = "clause" /\ Standing(hs, a, n)
    BY <1>4, <1>12 DEF Stands
  <2>4. active["clause"] = a + 1
    BY <1>6, <2>3 DEF OpenLevels
  <2> QED
    BY <1>2, <2>2, <2>4
<1> QED
  BY <1>1, <1>7, <1>8, <1>9, <1>10, <1>11, <1>12, HeadingLevels

\* What may hold a level outranks it.
LEMMA HolderOutranks ==
    ASSUME NEW u \in DOMAIN MayHold, NEW l \in Range(MayHold[u])
    PROVE  l \in OpenLevels \cup {"law"} /\ Rank(l) < Rank(u) /\ u \in AllowedChildLevels[l]
<1>1. PICK i \in DOMAIN MayHold[u] : MayHold[u][i] = l
  BY DEF Range
<1> QED
  BY <1>1, MayHoldIs

LEMMA ParentEncloses ==
    ASSUME NEW hs, NEW bs, NEW end, Ordered(hs, bs, end), NothingCut(hs, bs), NEW n \in Nat,
           n + 1 \in 1 .. Len(hs), NEW nodes, NodesOK(nodes, hs, bs, end, n), NEW p,
           HoldsNext(hs, hs[n + 1].level, n, p), NEW unit, unit = Units(hs, bs, end)[n + 1]
    PROVE  Encloses(nodes[p], unit)
<1> DEFINE u == hs[n + 1].level
<1>1. p \in 1 .. n + 1 /\ unit.start = hs[n + 1].at /\ unit.end = EndOf(n + 1, hs, bs, end)
  BY UnitIs DEF HoldsNext
<1>2. Len(hs) \in Nat /\ \A k \in 1 .. n + 1 : k \in 1 .. Len(hs)
  BY DEF Ordered
<1>3. CASE p = 1
  <2>1. nodes[p].start = 1 /\ nodes[p].end = end
    BY <1>3 DEF NodesOK
  <2>2. hs[n + 1].at >= 1 /\ EndOf(n + 1, hs, bs, end) <= end
    BY SpanIs DEF Ordered
  <2> QED
    BY <1>1, <2>1, <2>2 DEF Encloses
<1>4. CASE p # 1
  <2>1. p - 1 \in 1 .. n /\ p - 1 + 1 = p /\ p - 1 \in 1 .. Len(hs) /\ n + 1 \in p - 1 + 1 .. Len(hs)
    BY <1>1, <1>2, <1>4
  <2>2. nodes[p].start = hs[p - 1].at /\ nodes[p].end = EndOf(p - 1, hs, bs, end)
    BY <2>1 DEF NodesOK
  <2>3. Standing(hs, p - 1, n) /\ hs[p - 1].level \in Range(MayHold[u])
    BY <1>4 DEF HoldsNext, LevelAt
  <2>4. Rank(hs[p - 1].level) < Rank(u)
    BY <2>3, LevelType, HolderOutranks
  <2>5. Rank(hs[p - 1].level) \in 2 .. 7 /\ Rank(u) \in 2 .. 7
    BY <2>1, LevelType, RankType
  <2>6. Standing(hs, p - 1, n + 1)
    <3>1. \A k \in p - 1 + 1 .. n + 1 : k = n + 1 \/ k \in p - 1 + 1 .. n
      BY <2>1
    <3> QED
      BY <2>3, <2>4, <2>5, <3>1 DEF Standing
  <2>7. hs[p - 1].at < hs[n + 1].at /\ EndOf(n + 1, hs, bs, end) <= EndOf(p - 1, hs, bs, end)
    BY <2>1, <2>6, StandingHolds
  <2>8. hs[p - 1].at \in Nat /\ hs[n + 1].at \in Nat
    BY <2>1 DEF Ordered
  <2> QED
    BY <1>1, <2>2, <2>7, <2>8 DEF Encloses
<1> QED
  BY <1>3, <1>4

LEMMA NeverRefused ==
    ASSUME NEW hs, NEW bs, NEW end, Ordered(hs, bs, end), NothingCut(hs, bs), Lineage(hs),
           NEW n \in Nat, n + 1 \in 1 .. Len(hs),
           NEW b, BuiltOK(b, hs, bs, end, n), NEW unit, unit = Units(hs, bs, end)[n + 1]
    PROVE  ~ UnitRefused(b, unit)
<1>1. unit.level = hs[n + 1].level
  BY UnitIs
<1>2. Above(b, unit) # 0
  BY <1>1, SomeParent DEF BuiltOK, Above
<1>3. HoldsNext(hs, hs[n + 1].level, n, Above(b, unit))
  BY <1>2, NewNode
<1>4. Encloses(b.nodes[Above(b, unit)], unit)
  BY <1>3, ParentEncloses DEF BuiltOK, TreeOK
<1>5. DOMAIN b.nodes = 1 .. n + 1
  BY DEF BuiltOK, TreeOK, NodesOK
<1>6. \A i \in 1 .. n + 1 : b.nodes[i].id # NewId(b, unit)
  BY <1>2, NotTaken
<1> QED
  BY <1>2, <1>4, <1>5, <1>6 DEF UnitRefused

\* What the builder makes of the headings.
LEMMA BuildIs ==
    ASSUME NEW hs, NEW bs, NEW end, Ordered(hs, bs, end)
    PROVE  /\ \/ Build(Units(hs, bs, end), end).failed = TRUE
              \/ BuiltOK(Build(Units(hs, bs, end), end), hs, bs, end, Len(hs))
           /\ NothingCut(hs, bs) /\ Lineage(hs)
                => BuiltOK(Build(Units(hs, bs, end), end), hs, bs, end, Len(hs))
<1> DEFINE units == Units(hs, bs, end)
           N == Len(hs)
           safe == NothingCut(hs, bs) /\ Lineage(hs)
           Good(b, n) == /\ b.failed = TRUE \/ BuiltOK(b, hs, bs, end, n)
                         /\ safe => BuiltOK(b, hs, bs, end, n)
<1>1. N \in Nat /\ hs \in Seq(HeadingRecords)
  BY DEF Ordered
<1>2. Len(units) = N
  <2>1. DOMAIN hs = 1 .. N
    BY <1>1
  <2>2. units = [i \in 1 .. N |-> [level |-> hs[i].level, num |-> hs[i].num,
                              start |-> hs[i].at, end |-> EndOf(i, hs, bs, end)]]
    BY <2>1 DEF Units
  <2> HIDE DEF N
  <2> QED
    BY <1>1, <2>2
<1> HIDE DEF N
<1>3. PICK f : /\ f[0] = NothingBuilt(end)
               /\ \A i \in 1 .. N : f[i] = AddUnit(f[i - 1], units[i])
               /\ Built(units, end, N) = f[N]
  BY <1>1, <1>2, BuiltDef
<1>4. Good(f[0], 0)
  BY <1>3, BuildsFirst
<1>5. ASSUME NEW n \in Nat, n + 1 <= N, Good(f[n], n)
      PROVE  Good(f[n + 1], n + 1)
  <2> DEFINE b == f[n]
             unit == units[n + 1]
  <2>1. n + 1 \in 1 .. N /\ n + 1 - 1 = n /\ n + 1 \in 1 .. Len(hs)
    BY <1>1, <1>5 DEF N
  <2>2. f[n + 1] = AddUnit(b, unit)
    BY <1>3, <2>1
  <2>3. CASE ~ BuiltOK(b, hs, bs, end, n)
    <3>1. ~ safe /\ b.failed = TRUE
      BY <1>5, <2>3
    <3>2. AddUnit(b, unit) = b
      BY <3>1 DEF AddUnit
    <3> QED
      BY <2>2, <3>1, <3>2
  <2>4. CASE BuiltOK(b, hs, bs, end, n)
    <3>1. safe => ~ UnitRefused(b, unit)
      BY <2>1, <2>4, NeverRefused
    <3>2. ~ UnitRefused(b, unit) => BuiltOK(AddUnit(b, unit), hs, bs, end, n + 1)
      BY <2>1, <2>4, BuildsOn
    <3>3. UnitRefused(b, unit) => AddUnit(b, unit).failed = TRUE
      BY <2>4, AddUnitIs DEF BuiltOK
    <3> QED
      BY <2>2, <3>1, <3>2, <3>3
  <2> QED
    BY <2>3, <2>4
<1>6. \A n \in Nat : n <= N => Good(f[n], n)
  <2> DEFINE T == {n \in Nat : n <= N /\ ~ Good(f[n], n)}
  <2> HIDE DEF Good
  <2> SUFFICES ASSUME T # {} PROVE FALSE
    OBVIOUS
  <2>1. PICK m \in T : \A k \in T : m <= k
    BY LeastNumber
  <2>2. m # 0
    BY <1>4, <2>1
  <2>3. m - 1 \in Nat /\ m - 1 + 1 = m /\ m <= N /\ m - 1 \notin T
    BY <2>1, <2>2
  <2>4. Good(f[m - 1], m - 1)
    BY <1>1, <2>3
  <2> QED
    BY <1>5, <2>1, <2>3, <2>4
<1>7. Good(f[N], N)
  BY <1>1, <1>6
<1>8. Build(units, end) = f[N]
  BY <1>2, <1>3 DEF Build
<1> QED
  BY <1>7, <1>8 DEF N

-----------------------------------------------------------------------------
(* The tree validator finds nothing in such a tree.                        *)

NodeFacts(nodes, end, n) ==
  /\ DOMAIN nodes = 1 .. n + 1 /\ Len(nodes) = n + 1 /\ nodes \in Seq(NodeRecords)
  /\ nodes[1].parent = None /\ nodes[1].level = "law" /\ nodes[1].num = None
  /\ nodes[1].start = 1 /\ nodes[1].end = end
  /\ \A k \in 1 .. n + 1 : nodes[k].id \in Paths /\ nodes[k].id # None
  /\ Ids(nodes) = {nodes[k].id : k \in 1 .. n + 1}
  /\ None \notin Ids(nodes)

LEMMA TreeNodes ==
    ASSUME NEW hs, NEW bs, NEW end, NEW n \in Nat, NEW nodes, TreeOK(nodes, hs, bs, end, n)
    PROVE  NodeFacts(nodes, end, n)
<1>1. /\ nodes \in Seq(NodeRecords) /\ Len(nodes) = n + 1 /\ nodes[1].id = <<"root">>
      /\ \A i \in 1 .. n : \E p \in 1 .. i : ParentIs(nodes, hs, i, p)
      /\ nodes[1].parent = None /\ nodes[1].level = "law" /\ nodes[1].num = None
      /\ nodes[1].start = 1 /\ nodes[1].end = end
  BY DEF TreeOK, NodesOK
<1>2. DOMAIN nodes = 1 .. n + 1
  BY <1>1
<1>3. \A i \in 1 .. n + 1 : nodes[i].id \in Paths
  <2> SUFFICES ASSUME NEW i \in 1 .. n + 1 PROVE nodes[i].id \in Paths
    OBVIOUS
  <2>1. nodes[i] \in NodeRecords
    BY <1>1
  <2> QED
    BY <2>1 DEF NodeRecords
<1>4. Len(None) = 0
  BY DEF None
<1>5. ASSUME NEW k \in 1 .. n + 1 PROVE nodes[k].id # None
  <2>1. CASE k = 1
    <3>1. nodes[k].id = <<"root">> /\ Len(<<"root">>) = 1
      BY <1>1, <2>1
    <3> HIDE DEF None
    <3>2. Len(None) # 1
      BY <1>4
    <3> QED
      BY <3>1, <3>2
  <2>2. CASE k # 1
    <3>1. k - 1 \in 1 .. n /\ k - 1 + 1 = k
      BY <2>2
    <3>2. PICK p \in 1 .. k - 1 : ParentIs(nodes, hs, k - 1, p)
      BY <1>1, <3>1
    <3>3. p \in 1 .. n + 1
      BY <3>1
    <3>4. \E x : nodes[k].id = Append(nodes[p].id, x)
      BY <3>1, <3>2 DEF ParentIs
    <3>5. Len(nodes[k].id) = Len(nodes[p].id) + 1 /\ Len(nodes[p].id) \in Nat
      BY <1>3, <3>3, <3>4 DEF Paths
    <3> QED
      BY <1>4, <3>5
  <2> QED
    BY <2>1, <2>2
<1>6. Ids(nodes) = {nodes[k].id : k \in 1 .. n + 1}
  BY <1>2 DEF Ids
<1>7. None \notin Ids(nodes)
  BY <1>5, <1>6
<1> QED
  BY <1>1, <1>2, <1>3, <1>5, <1>6, <1>7 DEF NodeFacts

LEMMA NamedIs ==
    ASSUME NEW hs, NEW bs, NEW end, NEW n \in Nat, NEW nodes, TreeOK(nodes, hs, bs, end, n),
           NEW k \in 1 .. n + 1
    PROVE  Named(nodes, nodes[k].id) = nodes[k]
<1> DEFINE S == {i \in DOMAIN nodes : nodes[i].id = nodes[k].id}
<1>1. DOMAIN nodes = 1 .. n + 1
  <2>1. NodeFacts(nodes, end, n)
    BY TreeNodes
  <2> QED
    BY <2>1 DEF NodeFacts
<1>2. \A i, j \in 1 .. n + 1 : nodes[i].id = nodes[j].id => i = j
  BY DEF TreeOK
<1>3. S = {k}
  BY <1>1, <1>2
<1>4. Min(S) \in S
  <2>1. S \in SUBSET Nat /\ S # {}
    BY <1>3
  <2> HIDE DEF S
  <2> QED
    BY <2>1, MinIs
<1>5. Min(S) = k
  BY <1>3, <1>4
<1> QED
  BY <1>5 DEF Named

\* The parent of a node is a node before it, and is known by its id.
ParentFacts(nodes, hs, n, j) ==
  /\ j # 1 => \E p \in 1 .. j - 1 : nodes[j].parent = nodes[p].id
  /\ \A i \in 1 .. n + 1 : nodes[j].parent = nodes[i].id
                             => i < j /\ j - 1 \in 1 .. n /\ ParentIs(nodes, hs, j - 1, i)

LEMMA ParentIn ==
    ASSUME NEW hs, NEW bs, NEW end, NEW n \in Nat, NEW nodes, TreeOK(nodes, hs, bs, end, n),
           NEW j \in 1 .. n + 1
    PROVE  ParentFacts(nodes, hs, n, j)
<1>1. /\ \A i \in 1 .. n : \E p \in 1 .. i : ParentIs(nodes, hs, i, p)
      /\ \A i, k \in 1 .. n + 1 : nodes[i].id = nodes[k].id => i = k
  BY DEF TreeOK
<1>2. nodes[1].parent = None /\ \A k \in 1 .. n + 1 : nodes[k].id # None
  <2>1. NodeFacts(nodes, end, n)
    BY TreeNodes
  <2> QED
    BY <2>1 DEF NodeFacts
<1>3. CASE j = 1
  BY <1>2, <1>3 DEF ParentFacts
<1>4. CASE j # 1
  <2>1. j - 1 \in 1 .. n /\ j - 1 + 1 = j
    BY <1>4
  <2>2. PICK p \in 1 .. j - 1 : ParentIs(nodes, hs, j - 1, p)
    BY <1>1, <2>1
  <2>3. nodes[j].parent = nodes[p].id
    BY <2>1, <2>2 DEF ParentIs
  <2>4. p \in 1 .. n + 1 /\ p < j
    BY <2>1
  <2>5. \A i \in 1 .. n + 1 : nodes[j].parent = nodes[i].id => i = p
    BY <1>1, <2>3, <2>4
  <2> QED
    BY <2>1, <2>2, <2>3, <2>4, <2>5 DEF ParentFacts
<1> QED
  BY <1>3, <1>4

\* A node is among the children of another exactly when it hangs below it.
LEMMA ChildIs ==
    ASSUME NEW hs, NEW bs, NEW end, NEW n \in Nat, NEW nodes, TreeOK(nodes, hs, bs, end, n),
           NEW i \in 1 .. n + 1
    PROVE  /\ \A id \in Range(nodes[i].children) :
                 \E k \in 2 .. n + 1 : id = nodes[k].id /\ nodes[k].parent = nodes[i].id
           /\ \A k \in 2 .. n + 1 : nodes[k].parent = nodes[i].id
                                       => nodes[k].id \in Range(nodes[i].children)
           /\ IsInjective(nodes[i].children)
<1> DEFINE list == nodes[i].children
<1>1. PICK g : ChildList(nodes, n, i, g)
  BY DEF TreeOK
<1>2. /\ Len(list) \in Nat /\ g \in [1 .. Len(list) -> 2 .. n + 1]
      /\ \A m \in 1 .. Len(list) : list[m] = nodes[g[m]].id /\ nodes[g[m]].parent = nodes[i].id
      /\ \A m, k \in 1 .. Len(list) : m < k => g[m] < g[k]
      /\ \A k \in 2 .. n + 1 : nodes[k].parent = nodes[i].id => \E m \in 1 .. Len(list) : g[m] = k
  BY <1>1 DEF ChildList
<1>3. list \in Seq(Paths)
  <2>0. NodeFacts(nodes, end, n)
    BY TreeNodes
  <2>1. nodes \in Seq(NodeRecords) /\ Len(nodes) = n + 1
    BY <2>0 DEF NodeFacts
  <2>2. nodes[i] \in NodeRecords
    BY <2>1
  <2> QED
    BY <2>2 DEF NodeRecords
<1> HIDE DEF list
<1>4. DOMAIN list = 1 .. Len(list)
  BY <1>3
<1>5. ASSUME NEW id \in Range(list)
      PROVE  \E k \in 2 .. n + 1 : id = nodes[k].id /\ nodes[k].parent = nodes[i].id
  <2>1. PICK m \in 1 .. Len(list) : list[m] = id
    BY <1>4 DEF Range
  <2> QED
    BY <1>2, <2>1
<1>6. ASSUME NEW k \in 2 .. n + 1, nodes[k].parent = nodes[i].id
      PROVE  nodes[k].id \in Range(list)
  <2>1. PICK m \in 1 .. Len(list) : g[m] = k
    BY <1>2, <1>6
  <2>2. list[m] = nodes[k].id
    BY <1>2, <2>1
  <2> QED
    BY <1>4, <2>2 DEF Range
<1>7. ASSUME NEW a \in 1 .. Len(list), NEW b \in 1 .. Len(list), list[a] = list[b]
      PROVE  a = b
  <2>1. g[a] \in 1 .. n + 1 /\ g[b] \in 1 .. n + 1
    BY <1>2
  <2>2. nodes[g[a]].id = nodes[g[b]].id
    BY <1>2, <1>7
  <2>3. \A p, q \in 1 .. n + 1 : nodes[p].id = nodes[q].id => p = q
    BY DEF TreeOK
  <2>4. g[a] = g[b]
    BY <2>1, <2>2, <2>3
  <2> QED
    BY <1>2, <2>1, <2>4
<1>8. IsInjective(list)
  BY <1>4, <1>7 DEF IsInjective
<1> QED
  BY <1>5, <1>6, <1>8 DEF list

\* What the validator needs of it.
Shape(nodes, n) ==
  /\ DOMAIN nodes = 1 .. n + 1 /\ Len(nodes) = n + 1
  /\ nodes[1].parent = None /\ nodes[1].level = "law" /\ nodes[1].num = None
  /\ Ids(nodes) = {nodes[k].id : k \in 1 .. n + 1} /\ None \notin Ids(nodes)
  /\ \A i, j \in 1 .. n + 1 : nodes[i].id = nodes[j].id => i = j
  /\ \A k \in 1 .. n + 1 : Named(nodes, nodes[k].id) = nodes[k]
  /\ \A j \in 2 .. n + 1 : \E p \in 1 .. j - 1 : nodes[j].parent = nodes[p].id
  /\ \A i \in 1 .. n + 1 : \A id \in Range(nodes[i].children) :
        \E k \in 2 .. n + 1 : id = nodes[k].id /\ nodes[k].parent = nodes[i].id
  /\ \A i \in 1 .. n + 1 : \A k \in 2 .. n + 1 :
        nodes[k].parent = nodes[i].id => nodes[k].id \in Range(nodes[i].children)
  /\ \A i \in 1 .. n + 1 : IsInjective(nodes[i].children)

LEMMA ShapeIs ==
    ASSUME NEW hs, NEW bs, NEW end, NEW n \in Nat, NEW nodes, TreeOK(nodes, hs, bs, end, n)
    PROVE  Shape(nodes, n)
<1>1. /\ DOMAIN nodes = 1 .. n + 1 /\ Len(nodes) = n + 1
      /\ nodes[1].parent = None /\ nodes[1].level = "law" /\ nodes[1].num = None
      /\ Ids(nodes) = {nodes[k].id : k \in 1 .. n + 1} /\ None \notin Ids(nodes)
  <2>1. NodeFacts(nodes, end, n)
    BY TreeNodes
  <2> QED
    BY <2>1 DEF NodeFacts
<1>2. \A i, j \in 1 .. n + 1 : nodes[i].id = nodes[j].id => i = j
  BY DEF TreeOK
<1>3. ASSUME NEW k \in 1 .. n + 1 PROVE Named(nodes, nodes[k].id) = nodes[k]
  BY NamedIs
<1>4. ASSUME NEW j \in 2 .. n + 1 PROVE \E p \in 1 .. j - 1 : nodes[j].parent = nodes[p].id
  <2>1. j \in 1 .. n + 1 /\ j # 1
    OBVIOUS
  <2>2. ParentFacts(nodes, hs, n, j)
    BY <2>1, ParentIn
  <2>3. j # 1 => \E p \in 1 .. j - 1 : nodes[j].parent = nodes[p].id
    BY <2>2 DEF ParentFacts
  <2> QED
    BY <2>1, <2>3
<1>5. ASSUME NEW i \in 1 .. n + 1
      PROVE  /\ \A id \in Range(nodes[i].children) :
                   \E k \in 2 .. n + 1 : id = nodes[k].id /\ nodes[k].parent = nodes[i].id
             /\ \A k \in 2 .. n + 1 : nodes[k].parent = nodes[i].id
                                         => nodes[k].id \in Range(nodes[i].children)
             /\ IsInjective(nodes[i].children)
  BY ChildIs
<1> QED
  BY <1>1, <1>2, <1>3, <1>4, <1>5 DEF Shape

LEMMA NoIndexErrors ==
    ASSUME NEW n \in Nat, NEW nodes, Shape(nodes, n)
    PROVE  IndexErrors(nodes) = {}
<1> DEFINE f == [k \in 1 .. n + 1 |-> nodes[k].id]
<1>1. Ids(nodes) = {nodes[k].id : k \in 1 .. n + 1} /\ Len(nodes) = n + 1
  BY DEF Shape
<1>2. \A i, j \in 1 .. n + 1 : nodes[i].id = nodes[j].id => i = j
  BY DEF Shape
<1>3. f \in Surjection(1 .. n + 1, Ids(nodes))
  BY <1>1 DEF Surjection
<1>4. f \in Injection(1 .. n + 1, Ids(nodes))
  BY <1>1, <1>2 DEF Injection, IsInjective
<1> HIDE DEF f
<1>5. IsFiniteSet(1 .. n + 1) /\ Cardinality(1 .. n + 1) = n + 1
  BY FS_Interval
<1>6. Cardinality(Ids(nodes)) = n + 1
  BY <1>3, <1>4, <1>5, FS_Surjection
<1> QED
  BY <1>1, <1>6 DEF IndexErrors

LEMMA NoRootErrors ==
    ASSUME NEW hs, NEW bs, NEW end, Ordered(hs, bs, end), NEW n \in Nat, n = Len(hs),
           NEW nodes, TreeOK(nodes, hs, bs, end, n)
    PROVE  RootErrors(nodes, end) = {}
<1>1. /\ DOMAIN nodes = 1 .. n + 1
      /\ nodes[1].parent = None /\ nodes[1].level = "law" /\ nodes[1].num = None
      /\ nodes[1].start = 1 /\ nodes[1].end = end
  <2>1. NodeFacts(nodes, end, n)
    BY TreeNodes
  <2> QED
    BY <2>1 DEF NodeFacts
<1>2. ASSUME NEW i \in 1 .. n + 1, i # 1 PROVE nodes[i].level # "law"
  <2>1. i - 1 \in 1 .. n /\ i - 1 + 1 = i
    BY <1>2
  <2>2. nodes[i].level = hs[i - 1].level
    BY <2>1 DEF TreeOK, NodesOK
  <2>3. hs[i - 1].level \in DOMAIN MayHold
    BY <2>1, LevelType
  <2> QED
    BY <2>2, <2>3, HeadingLevels
<1>3. {i \in DOMAIN nodes : nodes[i].level = "law"} = {1}
  BY <1>1, <1>2
<1> QED
  BY <1>1, <1>3 DEF RootErrors

LEMMA NoReferenceErrors ==
    ASSUME NEW n \in Nat, NEW nodes, Shape(nodes, n)
    PROVE  ReferenceErrors(nodes) = {}
<1>1. /\ DOMAIN nodes = 1 .. n + 1 /\ Ids(nodes) = {nodes[k].id : k \in 1 .. n + 1}
      /\ nodes[1].parent = None /\ None \notin Ids(nodes)
  BY DEF Shape
<1>2. ASSUME NEW i \in 1 .. n + 1
      PROVE  /\ IsInjective(nodes[i].children)
             /\ \A id \in Range(nodes[i].children) :
                   id \in Ids(nodes) /\ Named(nodes, id).parent = nodes[i].id
             /\ nodes[i].parent \in Ids(nodes) =>
                   nodes[i].id \in Range(Named(nodes, nodes[i].parent).children)
  <2>1. IsInjective(nodes[i].children)
    BY DEF Shape
  <2>2. ASSUME NEW id \in Range(nodes[i].children)
        PROVE  id \in Ids(nodes) /\ Named(nodes, id).parent = nodes[i].id
    <3>1. PICK k \in 2 .. n + 1 : id = nodes[k].id /\ nodes[k].parent = nodes[i].id
      BY DEF Shape
    <3>2. k \in 1 .. n + 1
      OBVIOUS
    <3>3. Named(nodes, id) = nodes[k]
      BY <3>1, <3>2 DEF Shape
    <3> QED
      BY <1>1, <3>1, <3>2, <3>3
  <2>3. ASSUME nodes[i].parent \in Ids(nodes)
        PROVE  nodes[i].id \in Range(Named(nodes, nodes[i].parent).children)
    <3>1. PICK p \in 1 .. n + 1 : nodes[i].parent = nodes[p].id
      BY <1>1, <2>3
    <3>2. Named(nodes, nodes[i].parent) = nodes[p]
      BY <3>1 DEF Shape
    <3>3. i \in 2 .. n + 1
      BY <1>1, <2>3
    <3>4. nodes[i].id \in Range(nodes[p].children)
      BY <3>1, <3>3 DEF Shape
    <3> QED
      BY <3>2, <3>4
  <2> QED
    BY <2>1, <2>2, <2>3
<1>3. ASSUME NEW i \in 1 .. n + 1, i # 1 PROVE nodes[i].parent \in Ids(nodes)
  <2>1. PICK p \in 1 .. i - 1 : nodes[i].parent = nodes[p].id
    BY <1>3 DEF Shape
  <2>2. p \in 1 .. n + 1
    OBVIOUS
  <2> QED
    BY <1>1, <2>1, <2>2
<1> QED
  BY <1>1, <1>2, <1>3 DEF ReferenceErrors

LEMMA NoCycleErrors ==
    ASSUME NEW n \in Nat, NEW nodes, Shape(nodes, n)
    PROVE  CycleErrors(nodes) = {}
<1>1. /\ DOMAIN nodes = 1 .. n + 1 /\ Ids(nodes) = {nodes[k].id : k \in 1 .. n + 1}
      /\ nodes[1].parent = None /\ None \notin Ids(nodes) /\ Len(nodes) = n + 1
  BY DEF Shape
<1>2. \A i, j \in 1 .. n + 1 : nodes[i].id = nodes[j].id => i = j
  BY DEF Shape
<1>3. ASSUME NEW i \in 1 .. n + 1 PROVE nodes[i].id \notin Ancestors(nodes, nodes[i])
  <2> DEFINE links == [id \in Ids(nodes) |-> {Named(nodes, id).parent}]
             Before == {None} \cup {nodes[q].id : q \in 1 .. i - 1}
  <2>1. \A j \in 1 .. i : nodes[j].parent \in Before
    <3> SUFFICES ASSUME NEW j \in 1 .. i PROVE nodes[j].parent \in Before
      OBVIOUS
    <3>1. j \in 1 .. n + 1
      OBVIOUS
    <3>2. CASE j = 1
      BY <1>1, <3>2
    <3>3. CASE j # 1
      <4>1. PICK p \in 1 .. j - 1 : nodes[j].parent = nodes[p].id
        BY <3>1, <3>3 DEF Shape
      <4>2. p \in 1 .. i - 1
        OBVIOUS
      <4> QED
        BY <4>1, <4>2
    <3> QED
      BY <3>2, <3>3
  <2>2. ASSUME NEW id \in Before, id \in DOMAIN links PROVE links[id] \subseteq Before
    <3>1. id \in Ids(nodes)
      BY <2>2
    <3>2. PICK q \in 1 .. i - 1 : id = nodes[q].id
      BY <1>1, <3>1
    <3>3. q \in 1 .. n + 1 /\ q \in 1 .. i
      OBVIOUS
    <3>4. Named(nodes, id) = nodes[q]
      BY <3>2, <3>3 DEF Shape
    <3>5. links[id] = {nodes[q].parent}
      BY <3>1, <3>4
    <3> QED
      BY <2>1, <3>3, <3>5
  <2>3. i \in 1 .. i
    OBVIOUS
  <2>4. {nodes[i].parent} \subseteq Before
    BY <2>1, <2>3
  <2>5. nodes[i].id \notin Before
    <3>1. \A q \in 1 .. i - 1 : q \in 1 .. n + 1 /\ q # i
      OBVIOUS
    <3>2. nodes[i].id \in Ids(nodes)
      BY <1>1
    <3> QED
      BY <1>1, <1>2, <3>1, <3>2
  <2> HIDE DEF links, Before
  <2>6. PICK f : /\ f[0] = {nodes[i].parent}
                 /\ \A j \in 1 .. n + 1 : f[j] = f[j - 1] \cup UNION {links[id] : id \in f[j - 1] \cap DOMAIN links}
                 /\ Linked({nodes[i].parent}, links, n + 1) = f[n + 1]
    <3>1. n + 1 \in Nat
      OBVIOUS
    <3> QED
      BY <3>1, LinkedDef
  <2>7. \A j \in Nat : j <= n + 1 => f[j] \subseteq Before
    <3> DEFINE T == {j \in Nat : j <= n + 1 /\ ~ (f[j] \subseteq Before)}
    <3> SUFFICES ASSUME T # {} PROVE FALSE
      OBVIOUS
    <3>1. PICK m \in T : \A k \in T : m <= k
      BY LeastNumber
    <3>2. m # 0
      BY <2>4, <2>6, <3>1
    <3>3. m \in 1 .. n + 1 /\ m - 1 \in Nat /\ m - 1 <= n + 1 /\ m - 1 \notin T
      BY <3>1, <3>2
    <3>4. f[m - 1] \subseteq Before
      BY <3>3
    <3>5. f[m] = f[m - 1] \cup UNION {links[id] : id \in f[m - 1] \cap DOMAIN links}
      BY <2>6, <3>3
    <3>6. f[m] \subseteq Before
      BY <2>2, <3>4, <3>5
    <3> QED
      BY <3>1, <3>6
  <2>8. Linked({nodes[i].parent}, links, n + 1) \subseteq Before
    BY <2>6, <2>7
  <2>9. Ancestors(nodes, nodes[i]) = Linked({nodes[i].parent}, links, n + 1)
    BY <1>1 DEF Ancestors, links
  <2> QED
    BY <2>5, <2>8, <2>9
<1> QED
  BY <1>1, <1>3 DEF CycleErrors

LEMMA NoReachErrors ==
    ASSUME NEW n \in Nat, NEW nodes, Shape(nodes, n)
    PROVE  ReachErrors(nodes) = {}
<1>1. Ids(nodes) = {nodes[k].id : k \in 1 .. n + 1} /\ Len(nodes) = n + 1
  BY DEF Shape
<1> DEFINE from == {nodes[1].id}
           links == [id \in Ids(nodes) |-> Range(Named(nodes, id).children)]
<1>2. \A p \in 1 .. n + 1 : nodes[p].id \in DOMAIN links /\ links[nodes[p].id] = Range(nodes[p].children)
  <2> SUFFICES ASSUME NEW p \in 1 .. n + 1
               PROVE  nodes[p].id \in DOMAIN links /\ links[nodes[p].id] = Range(nodes[p].children)
    OBVIOUS
  <2>1. nodes[p].id \in Ids(nodes) /\ Named(nodes, nodes[p].id) = nodes[p]
    BY <1>1 DEF Shape
  <2> QED
    BY <2>1
<1> HIDE DEF links, from
<1>3. PICK f : /\ f[0] = from
               /\ \A j \in 1 .. n + 1 : f[j] = f[j - 1] \cup UNION {links[id] : id \in f[j - 1] \cap DOMAIN links}
               /\ Linked(from, links, n + 1) = f[n + 1]
  <2>1. n + 1 \in Nat
    OBVIOUS
  <2> QED
    BY <2>1, LinkedDef
<1> DEFINE Good(j) == \A k \in 1 .. n + 1 : k <= j + 1 => nodes[k].id \in f[j]
<1>4. Good(0)
  BY <1>3 DEF from
<1>5. ASSUME NEW j \in Nat, j + 1 <= n + 1, Good(j) PROVE Good(j + 1)
  <2>1. f[j + 1] = f[j] \cup UNION {links[id] : id \in f[j] \cap DOMAIN links}
    <3>1. j + 1 \in 1 .. n + 1 /\ j + 1 - 1 = j
      BY <1>5
    <3> QED
      BY <1>3, <3>1
  <2> SUFFICES ASSUME NEW k \in 1 .. n + 1, k <= j + 1 + 1 PROVE nodes[k].id \in f[j + 1]
    OBVIOUS
  <2>2. CASE k <= j + 1
    BY <1>5, <2>1, <2>2
  <2>3. CASE k = j + 2
    <3>1. k # 1 /\ k \in 2 .. n + 1
      BY <2>3
    <3>2. PICK p \in 1 .. k - 1 : nodes[k].parent = nodes[p].id
      BY <3>1 DEF Shape
    <3>3. p \in 1 .. n + 1 /\ p <= j + 1
      BY <2>3
    <3>4. nodes[p].id \in f[j] \cap DOMAIN links
      BY <1>2, <1>5, <3>3
    <3>5. nodes[k].id \in links[nodes[p].id]
      BY <1>2, <3>1, <3>2, <3>3 DEF Shape
    <3> QED
      BY <2>1, <3>4, <3>5
  <2> QED
    BY <2>2, <2>3
<1>6. \A j \in Nat : j <= n + 1 => Good(j)
  <2> DEFINE T == {j \in Nat : j <= n + 1 /\ ~ Good(j)}
  <2> HIDE DEF Good
  <2> SUFFICES ASSUME T # {} PROVE FALSE
    OBVIOUS
  <2>1. PICK m \in T : \A k \in T : m <= k
    BY LeastNumber
  <2>2. m # 0
    BY <1>4, <2>1
  <2>3. m - 1 \in Nat /\ m - 1 + 1 = m /\ m <= n + 1 /\ m - 1 \notin T
    BY <2>1, <2>2
  <2> QED
    BY <1>5, <2>1, <2>3
<1>7. \A k \in 1 .. n + 1 : nodes[k].id \in f[n + 1]
  BY <1>6
<1>8. Reachable(nodes) = f[n + 1]
  BY <1>1, <1>3 DEF Reachable, links, from
<1> QED
  BY <1>1, <1>7, <1>8 DEF ReachErrors

LevelsMatch(nodes, hs, n) == \A p \in 1 .. n + 1 : nodes[p].level = LevelAt(hs, p)

LEMMA LevelOf ==
    ASSUME NEW hs, NEW bs, NEW end, NEW n \in Nat, NEW nodes, NodesOK(nodes, hs, bs, end, n)
    PROVE  LevelsMatch(nodes, hs, n)
<1> SUFFICES ASSUME NEW p \in 1 .. n + 1 PROVE nodes[p].level = LevelAt(hs, p)
  BY DEF LevelsMatch
<1>1. CASE p = 1
  BY <1>1 DEF NodesOK, LevelAt
<1>2. CASE p # 1
  <2>1. p - 1 \in 1 .. n /\ p - 1 + 1 = p
    BY <1>2
  <2>2. nodes[p - 1 + 1].level = hs[p - 1].level
    BY <2>1 DEF NodesOK
  <2> QED
    BY <1>2, <2>1, <2>2 DEF LevelAt
<1> QED
  BY <1>1, <1>2

\* A parent has a level that may hold its child, and holds its span.
LEMMA ParentHolds ==
    ASSUME NEW hs, NEW bs, NEW end, Ordered(hs, bs, end), NEW n \in Nat, n = Len(hs),
           NEW nodes, TreeOK(nodes, hs, bs, end, n), NEW i \in 1 .. n + 1, NEW j \in 1 .. n + 1,
           nodes[j].parent = nodes[i].id
    PROVE  nodes[j].level \in AllowedChildLevels[nodes[i].level] /\ Encloses(nodes[i], nodes[j])
<1>1. ParentFacts(nodes, hs, n, j)
  BY ParentIn
<1>2. i < j /\ j - 1 \in 1 .. n /\ ParentIs(nodes, hs, j - 1, i)
  BY <1>1 DEF ParentFacts
<1>3. j - 1 + 1 = j
  OBVIOUS
<1>4. Encloses(nodes[i], nodes[j]) /\ HoldsNext(hs, hs[j - 1].level, j - 1 - 1, i)
  BY <1>2, <1>3 DEF ParentIs
<1>5. LevelAt(hs, i) \in Range(MayHold[hs[j - 1].level])
  BY <1>4 DEF HoldsNext
<1>6. hs[j - 1].level \in DOMAIN MayHold
  BY <1>2, LevelType
<1>7. hs[j - 1].level \in AllowedChildLevels[LevelAt(hs, i)]
  BY <1>5, <1>6, HolderOutranks
<1>8. nodes[i].level = LevelAt(hs, i)
  <2>1. NodesOK(nodes, hs, bs, end, n)
    BY DEF TreeOK
  <2>2. LevelsMatch(nodes, hs, n)
    BY <2>1, LevelOf
  <2> QED
    BY <2>2 DEF LevelsMatch
<1>9. nodes[j].level = hs[j - 1].level
  BY <1>2, <1>3 DEF TreeOK, NodesOK
<1> QED
  BY <1>4, <1>7, <1>8, <1>9

LEMMA NoLevelErrors ==
    ASSUME NEW hs, NEW bs, NEW end, Ordered(hs, bs, end), NEW n \in Nat, n = Len(hs),
           NEW nodes, TreeOK(nodes, hs, bs, end, n)
    PROVE  LevelErrors(nodes) = {}
<1>1. Shape(nodes, n)
  BY ShapeIs
<1>2. ASSUME NEW p \in Pairs(nodes) PROVE p[2].level \in AllowedChildLevels[p[1].level]
  <2>1. PICK i \in DOMAIN nodes, j \in DOMAIN nodes : p = <<nodes[i], nodes[j]>>
    BY DEF Pairs, Below
  <2>2. i \in 1 .. n + 1 /\ j \in 1 .. n + 1 /\ p[1] = nodes[i] /\ p[2] = nodes[j]
    BY <1>1, <2>1 DEF Shape
  <2>3. nodes[j].parent = nodes[i].id
    <3>1. CASE p[2].parent = p[1].id
      BY <2>2, <3>1
    <3>2. CASE p[2].id \in Range(p[1].children)
      <4>1. nodes[j].id \in Range(nodes[i].children)
        BY <2>2, <3>2
      <4>2. PICK k \in 2 .. n + 1 : nodes[j].id = nodes[k].id /\ nodes[k].parent = nodes[i].id
        BY <1>1, <2>2, <4>1 DEF Shape
      <4>3. k = j
        BY <1>1, <2>2, <4>2 DEF Shape
      <4> QED
        BY <4>2, <4>3
    <3> QED
      BY <3>1, <3>2 DEF Pairs
  <2> QED
    BY <2>2, <2>3, ParentHolds
<1> QED
  BY <1>2 DEF LevelErrors

LEMMA NodeBounded ==
    ASSUME NEW hs, NEW bs, NEW end, Ordered(hs, bs, end), end > 1, NEW n \in Nat, n = Len(hs),
           NEW nodes, TreeOK(nodes, hs, bs, end, n), NEW i \in 1 .. n + 1
    PROVE  Bounded(nodes[i], end) /\ nodes[i].start \in Nat /\ nodes[i].end \in Nat
<1>1. CASE i = 1
  BY <1>1 DEF TreeOK, NodesOK, Bounded, Ordered
<1>2. CASE i # 1
  <2>1. i - 1 \in 1 .. n /\ i - 1 + 1 = i /\ i - 1 \in 1 .. Len(hs)
    BY <1>2
  <2>2. nodes[i].start = hs[i - 1].at /\ nodes[i].end = EndOf(i - 1, hs, bs, end)
    BY <2>1 DEF TreeOK, NodesOK
  <2>3. /\ EndOf(i - 1, hs, bs, end) \in Nat
        /\ hs[i - 1].at < EndOf(i - 1, hs, bs, end) /\ EndOf(i - 1, hs, bs, end) <= end
    BY <2>1, SpanIs
  <2>4. hs[i - 1].at \in Nat /\ 1 <= hs[i - 1].at
    BY <2>1 DEF Ordered
  <2> QED
    BY <2>2, <2>3, <2>4 DEF Bounded
<1> QED
  BY <1>1, <1>2

LEMMA NoOffsetErrors ==
    ASSUME NEW hs, NEW bs, NEW end, Ordered(hs, bs, end), end > 1, NEW n \in Nat, n = Len(hs),
           NEW nodes, TreeOK(nodes, hs, bs, end, n)
    PROVE  OffsetErrors(nodes, end) = {}
<1>1. Shape(nodes, n)
  BY ShapeIs
<1>2. \A i \in 1 .. n + 1 : Bounded(nodes[i], end)
  BY NodeBounded
<1> QED
  BY <1>1, <1>2 DEF OffsetErrors, Shape

LEMMA NoContainmentErrors ==
    ASSUME NEW hs, NEW bs, NEW end, Ordered(hs, bs, end), NEW n \in Nat, n = Len(hs),
           NEW nodes, TreeOK(nodes, hs, bs, end, n)
    PROVE  ContainmentErrors(nodes, end) = {}
<1>1. Shape(nodes, n)
  BY ShapeIs
<1>2. ASSUME NEW p \in Below(nodes), p[2].parent = p[1].id PROVE Encloses(p[1], p[2])
  <2>1. PICK i \in DOMAIN nodes, j \in DOMAIN nodes : p = <<nodes[i], nodes[j]>>
    BY DEF Below
  <2>2. i \in 1 .. n + 1 /\ j \in 1 .. n + 1 /\ p[1] = nodes[i] /\ p[2] = nodes[j]
    BY <1>1, <2>1 DEF Shape
  <2> QED
    BY <1>2, <2>2, ParentHolds
<1> QED
  BY <1>2 DEF ContainmentErrors

\* What hangs below the same node as a unit of a lower rank may hold that unit.
LEMMA SharedHolder ==
    ASSUME NEW u \in DOMAIN MayHold, NEW v \in DOMAIN MayHold, Rank(v) < Rank(u),
           NEW l \in Range(MayHold[u]), l \in Range(MayHold[v])
    PROVE  v \in Range(MayHold[u])
<1>1. /\ Range(MayHold["part"]) = {"law"}
      /\ Range(MayHold["chapter"]) = {"part", "law"}
      /\ Range(MayHold["section"]) = {"chapter", "part", "law"}
      /\ Range(MayHold["article"]) = {"section", "chapter", "part", "law"}
      /\ Range(MayHold["clause"]) = {"article"}
      /\ Range(MayHold["point"]) = {"clause"}
  <2>1. \A a : Range(<<a>>) = {a}
    BY DEF Range
  <2>2. \A a, b : Range(<<a, b>>) = {a, b}
    <3> SUFFICES ASSUME NEW a, NEW b PROVE Range(<<a, b>>) = {a, b}
      OBVIOUS
    <3>1. DOMAIN <<a, b>> = {1, 2}
      OBVIOUS
    <3> QED
      BY <3>1 DEF Range
  <2>3. \A a, b, c : Range(<<a, b, c>>) = {a, b, c}
    <3> SUFFICES ASSUME NEW a, NEW b, NEW c PROVE Range(<<a, b, c>>) = {a, b, c}
      OBVIOUS
    <3>1. DOMAIN <<a, b, c>> = {1, 2, 3}
      OBVIOUS
    <3> QED
      BY <3>1 DEF Range
  <2>4. \A a, b, c, d : Range(<<a, b, c, d>>) = {a, b, c, d}
    <3> SUFFICES ASSUME NEW a, NEW b, NEW c, NEW d PROVE Range(<<a, b, c, d>>) = {a, b, c, d}
      OBVIOUS
    <3>1. DOMAIN <<a, b, c, d>> = {1, 2, 3, 4}
      OBVIOUS
    <3> QED
      BY <3>1 DEF Range
  <2>5. /\ MayHold["part"] = <<"law">> /\ MayHold["chapter"] = <<"part", "law">>
        /\ MayHold["section"] = <<"chapter", "part", "law">>
        /\ MayHold["article"] = <<"section", "chapter", "part", "law">>
        /\ MayHold["clause"] = <<"article">> /\ MayHold["point"] = <<"clause">>
    BY DEF MayHold
  <2> QED
    BY <2>1, <2>2, <2>3, <2>4, <2>5
<1>2. u = "part" \/ u = "chapter" \/ u = "section" \/ u = "article" \/ u = "clause" \/ u = "point"
  BY HeadingLevels
<1>3. v = "part" \/ v = "chapter" \/ v = "section" \/ v = "article" \/ v = "clause" \/ v = "point"
  BY HeadingLevels
<1> QED
  BY <1>1, <1>2, <1>3, RankIs

\* Of two units below the same node the first ends before the second begins.
LEMMA SiblingsApart ==
    ASSUME NEW hs, NEW bs, NEW end, Ordered(hs, bs, end), NEW a \in 1 .. Len(hs),
           NEW b \in a + 1 .. Len(hs), NEW p,
           HoldsNext(hs, hs[a].level, a - 1, p), HoldsNext(hs, hs[b].level, b - 1, p)
    PROVE  EndOf(a, hs, bs, end) <= hs[b].at
<1>1. Len(hs) \in Nat /\ b \in 1 .. Len(hs) /\ a < b
  BY DEF Ordered
<1>2. \A k \in 1 .. Len(hs) : Rank(hs[k].level) \in 2 .. 7
  BY LevelType, RankType
<1>3. CASE Rank(hs[b].level) <= Rank(hs[a].level)
  BY <1>3, SpanIs
<1>4. CASE ~ Standing(hs, a, b - 1)
  <2>1. PICK k \in a + 1 .. b - 1 : ~ (Rank(hs[k].level) > Rank(hs[a].level))
    BY <1>4 DEF Standing
  <2>2. k \in a + 1 .. Len(hs) /\ k \in 1 .. Len(hs) /\ k < b
    BY <1>1
  <2>3. Rank(hs[k].level) <= Rank(hs[a].level)
    <3>1. Rank(hs[k].level) \in 2 .. 7 /\ Rank(hs[a].level) \in 2 .. 7
      BY <1>2, <2>2
    <3> QED
      BY <2>1, <3>1
  <2>4. EndOf(a, hs, bs, end) \in Nat /\ EndOf(a, hs, bs, end) <= hs[k].at
    BY <2>2, <2>3, SpanIs
  <2>5. hs[k].at < hs[b].at /\ hs[k].at \in Nat /\ hs[b].at \in Nat
    BY <1>1, <2>2 DEF Ordered
  <2> QED
    BY <2>4, <2>5, SMTT(30)
<1>5. CASE Standing(hs, a, b - 1) /\ ~ (Rank(hs[b].level) <= Rank(hs[a].level))
  <2> DEFINE u == hs[b].level
             v == hs[a].level
             l == LevelAt(hs, p)
  <2>1. u \in DOMAIN MayHold /\ v \in DOMAIN MayHold
    BY <1>1, LevelType
  <2>2. l \in Range(MayHold[u]) /\ l \in Range(MayHold[v])
    BY DEF HoldsNext
  <2>3. Rank(v) < Rank(u) /\ Rank(u) \in 2 .. 7 /\ Rank(v) \in 2 .. 7
    BY <1>1, <1>2, <1>5
  <2>4. a \in 1 .. b - 1
    BY <1>1
  <2>5. hs[a].level \in Range(MayHold[u]) => Rank(hs[a].level) <= Rank(l)
    BY <1>5, <2>4 DEF HoldsNext
  <2> HIDE DEF u, l
  <2>6. v \in Range(MayHold[u])
    BY <2>1, <2>2, <2>3, SharedHolder
  <2>7. l \in OpenLevels \cup {"law"} /\ Rank(l) < Rank(v)
    BY <2>1, <2>2, HolderOutranks
  <2>8. Rank(l) \in 1 .. 7
    BY <2>7, RankIs DEF OpenLevels
  <2> QED
    BY <2>3, <2>5, <2>6, <2>7, <2>8
<1> QED
  BY <1>3, <1>4, <1>5

\* The same of two nodes.
LEMMA NodesApart ==
    ASSUME NEW hs, NEW bs, NEW end, Ordered(hs, bs, end), NEW n \in Nat, n = Len(hs),
           NEW nodes, TreeOK(nodes, hs, bs, end, n), NEW p \in 1 .. n + 1,
           NEW i \in 2 .. n + 1, NEW j \in 2 .. n + 1, i < j,
           nodes[i].parent = nodes[p].id, nodes[j].parent = nodes[p].id
    PROVE  nodes[i].end <= nodes[j].start
<1>1. i \in 1 .. n + 1 /\ j \in 1 .. n + 1
  OBVIOUS
<1>2. ParentFacts(nodes, hs, n, i) /\ ParentFacts(nodes, hs, n, j)
  BY <1>1, ParentIn
<1>3. ParentIs(nodes, hs, i - 1, p) /\ ParentIs(nodes, hs, j - 1, p)
  BY <1>2 DEF ParentFacts
<1>4. HoldsNext(hs, hs[i - 1].level, i - 1 - 1, p) /\ HoldsNext(hs, hs[j - 1].level, j - 1 - 1, p)
  BY <1>3 DEF ParentIs
<1>5. i - 1 \in 1 .. Len(hs) /\ j - 1 \in i - 1 + 1 .. Len(hs)
  OBVIOUS
<1>6. EndOf(i - 1, hs, bs, end) <= hs[j - 1].at
  BY <1>4, <1>5, SiblingsApart
<1>7. i - 1 \in 1 .. n /\ i - 1 + 1 = i /\ j - 1 \in 1 .. n /\ j - 1 + 1 = j
  OBVIOUS
<1>8. nodes[i].end = EndOf(i - 1, hs, bs, end) /\ nodes[j].start = hs[j - 1].at
  BY <1>7 DEF TreeOK, NodesOK
<1> QED
  BY <1>6, <1>8

\* The children of a node at some of their places are nodes below it, in order.
KeptAs(list, nodes, n, p, places, h) ==
  /\ Len(list) \in Nat
  /\ list = [i \in 1 .. Len(list) |-> nodes[h[i]]]
  /\ h \in [1 .. Len(list) -> 2 .. n + 1]
  /\ \A i \in 1 .. Len(list) : /\ nodes[h[i]].parent = nodes[p].id
                               /\ \E k \in places : /\ k \in DOMAIN nodes[p].children
                                                    /\ nodes[h[i]] = Named(nodes, nodes[p].children[k])
  /\ \A i, j \in 1 .. Len(list) : i < j => h[i] < h[j]
  /\ \A k \in DOMAIN nodes[p].children :
        k \in places => \E i \in 1 .. Len(list) : nodes[h[i]].id = nodes[p].children[k]

LEMMA KeptChildren ==
    ASSUME NEW hs, NEW bs, NEW end, NEW n \in Nat, NEW nodes, TreeOK(nodes, hs, bs, end, n),
           NEW p \in 1 .. n + 1, NEW places,
           NEW list, list = Kept([k \in DOMAIN nodes[p].children |-> Named(nodes, nodes[p].children[k])], places)
    PROVE  \E h : KeptAs(list, nodes, n, p, places, h)
<1> DEFINE kids == nodes[p].children
           seq == [k \in DOMAIN kids |-> Named(nodes, kids[k])]
<1>1. PICK g : ChildList(nodes, n, p, g)
  BY DEF TreeOK
<1>2. /\ Len(kids) \in Nat /\ g \in [1 .. Len(kids) -> 2 .. n + 1]
      /\ \A m \in 1 .. Len(kids) : kids[m] = nodes[g[m]].id /\ nodes[g[m]].parent = nodes[p].id
      /\ \A m, k \in 1 .. Len(kids) : m < k => g[m] < g[k]
  BY <1>1 DEF ChildList
<1>3. DOMAIN kids = 1 .. Len(kids)
  <2>0. NodeFacts(nodes, end, n)
    BY TreeNodes
  <2>1. nodes \in Seq(NodeRecords) /\ Len(nodes) = n + 1
    BY <2>0 DEF NodeFacts
  <2>2. nodes[p] \in NodeRecords
    BY <2>1
  <2>3. kids \in Seq(Paths)
    BY <2>2 DEF NodeRecords
  <2> HIDE DEF kids
  <2> QED
    BY <2>3
<1>4. Shape(nodes, n)
  BY ShapeIs
<1> HIDE DEF kids
<1>5. \A m \in 1 .. Len(kids) : seq[m] = nodes[g[m]]
  <2> SUFFICES ASSUME NEW m \in 1 .. Len(kids) PROVE seq[m] = nodes[g[m]]
    OBVIOUS
  <2>1. g[m] \in 1 .. n + 1 /\ kids[m] = nodes[g[m]].id
    BY <1>2
  <2>2. Named(nodes, nodes[g[m]].id) = nodes[g[m]]
    BY <1>4, <2>1 DEF Shape
  <2> QED
    BY <1>3, <2>1, <2>2
<1>6. DOMAIN seq = 1 .. Len(kids) /\ Len(seq) = Len(kids)
  BY <1>2, <1>3
<1>6a. \A m \in 1 .. Len(kids) : seq[m] = Named(nodes, kids[m])
  BY <1>3
<1>7. list = Kept(seq, places)
  BY DEF kids
<1> HIDE DEF seq
<1>8. PICK f : Keeps(list, seq, places, Len(kids), f)
  <2>1. Len(seq) \in Nat
    BY <1>2, <1>6
  <2>2. \E f : Keeps(Kept(seq, places), seq, places, Len(seq), f)
    BY <2>1, KeptIs
  <2> QED
    BY <1>6, <1>7, <2>2
<1>9. /\ Len(list) \in Nat
      /\ list = [i \in 1 .. Len(list) |-> seq[f[i]]]
      /\ f \in [1 .. Len(list) -> 1 .. Len(kids)]
      /\ \A i \in 1 .. Len(list) : f[i] \in places
      /\ \A i, j \in 1 .. Len(list) : i < j => f[i] < f[j]
      /\ \A k \in 1 .. Len(kids) : k \in places => \E i \in 1 .. Len(list) : f[i] = k
  BY <1>8 DEF Keeps
<1> DEFINE h == [i \in 1 .. Len(list) |-> g[f[i]]]
<1>10. \A i \in 1 .. Len(list) : /\ h[i] = g[f[i]] /\ f[i] \in 1 .. Len(kids)
                                 /\ g[f[i]] \in 2 .. n + 1
  BY <1>2, <1>9
<1>11. h \in [1 .. Len(list) -> 2 .. n + 1]
  BY <1>10
<1> HIDE DEF h
<1>12. list = [i \in 1 .. Len(list) |-> nodes[h[i]]]
  <2>1. \A i \in 1 .. Len(list) : seq[f[i]] = nodes[h[i]]
    BY <1>5, <1>10
  <2>2. list = [i \in 1 .. Len(list) |-> seq[f[i]]]
    BY <1>9
  <2> QED
    BY <2>1, <2>2, Zenon
<1>13. ASSUME NEW i \in 1 .. Len(list)
       PROVE  /\ nodes[h[i]].parent = nodes[p].id
              /\ \E k \in places : k \in DOMAIN kids /\ nodes[h[i]] = Named(nodes, kids[k])
  <2>1. f[i] \in places /\ f[i] \in 1 .. Len(kids) /\ h[i] = g[f[i]]
    BY <1>9, <1>10
  <2>2. nodes[h[i]] = Named(nodes, kids[f[i]]) /\ f[i] \in DOMAIN kids
    BY <1>3, <1>5, <1>6a, <2>1
  <2>3. nodes[h[i]].parent = nodes[p].id
    BY <1>2, <2>1
  <2> QED
    BY <2>1, <2>2, <2>3
<1>14. ASSUME NEW i \in 1 .. Len(list), NEW j \in 1 .. Len(list), i < j
       PROVE  h[i] < h[j]
  BY <1>2, <1>9, <1>10, <1>14
<1>15. ASSUME NEW k \in DOMAIN kids, k \in places
       PROVE  \E i \in 1 .. Len(list) : nodes[h[i]].id = kids[k]
  <2>1. k \in 1 .. Len(kids)
    BY <1>3
  <2>2. PICK i \in 1 .. Len(list) : f[i] = k
    BY <1>9, <1>15, <2>1
  <2>3. nodes[h[i]].id = kids[k]
    BY <1>2, <1>10, <2>1, <2>2
  <2> QED
    BY <2>3
<1>16. Len(list) \in Nat
  BY <1>9
<1>17. KeptAs(list, nodes, n, p, places, h)
  BY <1>11, <1>12, <1>13, <1>14, <1>15, <1>16, Zenon DEF KeptAs, kids
<1> QED
  BY <1>17

LEMMA NoSiblingErrors ==
    ASSUME NEW hs, NEW bs, NEW end, Ordered(hs, bs, end), NEW n \in Nat, n = Len(hs),
           NEW nodes, TreeOK(nodes, hs, bs, end, n)
    PROVE  SiblingErrors(nodes, end) = {}
<1>1. Shape(nodes, n)
  BY ShapeIs
<1>2. ASSUME NEW p \in 1 .. n + 1, NEW c,
             c = Kept([k \in DOMAIN nodes[p].children |-> Named(nodes, nodes[p].children[k])],
                      {k \in DOMAIN nodes[p].children : Bounded(Named(nodes, nodes[p].children[k]), end)}),
             NEW k \in 1 .. Len(c) - 1
      PROVE  c[k].end <= c[k + 1].start
  <2> DEFINE places == {m \in DOMAIN nodes[p].children : Bounded(Named(nodes, nodes[p].children[m]), end)}
  <2>0. c = Kept([m \in DOMAIN nodes[p].children |-> Named(nodes, nodes[p].children[m])], places)
    BY <1>2
  <2> HIDE DEF places
  <2>a. PICK h : KeptAs(c, nodes, n, p, places, h)
    BY <2>0, KeptChildren
  <2>1. /\ Len(c) \in Nat
        /\ c = [i \in 1 .. Len(c) |-> nodes[h[i]]]
        /\ h \in [1 .. Len(c) -> 2 .. n + 1]
        /\ \A i \in 1 .. Len(c) : nodes[h[i]].parent = nodes[p].id
        /\ \A i, j \in 1 .. Len(c) : i < j => h[i] < h[j]
    BY <2>a DEF KeptAs
  <2>2. k \in 1 .. Len(c) /\ k + 1 \in 1 .. Len(c) /\ k < k + 1
    BY <2>1
  <2>3. h[k] \in 2 .. n + 1 /\ h[k + 1] \in 2 .. n + 1 /\ h[k] < h[k + 1]
    BY <2>1, <2>2
  <2>4. nodes[h[k]].parent = nodes[p].id /\ nodes[h[k + 1]].parent = nodes[p].id
    BY <2>1, <2>2
  <2>5. nodes[h[k]].end <= nodes[h[k + 1]].start
    BY <2>3, <2>4, NodesApart
  <2>6. c[k] = nodes[h[k]] /\ c[k + 1] = nodes[h[k + 1]]
    BY <2>1, <2>2
  <2> QED
    BY <2>5, <2>6
<1> QED
  BY <1>1, <1>2 DEF SiblingErrors, Shape

LEMMA TreeFine ==
    ASSUME NEW hs, NEW bs, NEW end, Ordered(hs, bs, end), end > 1, NEW n \in Nat, n = Len(hs),
           NEW nodes, TreeOK(nodes, hs, bs, end, n)
    PROVE  TreeErrors(nodes, end) = IF Articles(nodes) = {} THEN {"NO_ARTICLES_FOUND"} ELSE {}
<1>1. Shape(nodes, n)
  BY ShapeIs
<1>2. /\ IndexErrors(nodes) = {} /\ ReferenceErrors(nodes) = {} /\ CycleErrors(nodes) = {}
      /\ ReachErrors(nodes) = {}
  BY <1>1, NoIndexErrors, NoReferenceErrors, NoCycleErrors, NoReachErrors
<1>3. RootErrors(nodes, end) = {} /\ LevelErrors(nodes) = {}
  BY NoRootErrors, NoLevelErrors
<1>4. OffsetErrors(nodes, end) = {} /\ ContainmentErrors(nodes, end) = {} /\ SiblingErrors(nodes, end) = {}
  BY NoOffsetErrors, NoContainmentErrors, NoSiblingErrors
<1> QED
  BY <1>2, <1>3, <1>4 DEF TreeErrors

-----------------------------------------------------------------------------
(* The verdict on a law.                                                   *)

End == Len(doc) + 1
BuiltTree == Build(Units(headings, boundaries, End), End)

LEMMA ReadInOrder ==
    ASSUME LawInv, Loaded, pos = Len(doc) + 1
    PROVE  Ordered(headings, boundaries, End) /\ Lineage(headings) /\ End > 1 /\ Len(headings) \in Nat
<1>1. doc \in Seq(Lines) /\ doc # << >>
  BY DEF LawInv, Loaded
<1>2. Len(doc) \in Nat /\ Len(doc) > 0
  BY <1>1
<1>3. headings \in Seq(HeadingRecords)
  BY DEF LawInv, HeadingsOK
<1>4. \A k \in 1 .. Len(headings) : headings[k].at \in 1 .. End - 1
  BY DEF LawInv, HeadingsOK, End
<1>5. \A i, j \in 1 .. Len(headings) : i < j => headings[i].at < headings[j].at
  BY DEF LawInv, HeadingsOK
<1>6. \A b \in boundaries : b.at \in Nat /\ \A k \in 1 .. Len(headings) : b.at # headings[k].at
  BY DEF LawInv, HeadingsOK
<1>7. Lineage(headings)
  BY DEF LawInv, HeadingsOK, Lineage
<1>8. End \in Nat /\ End > 1
  BY <1>2 DEF End
<1>9. Len(headings) \in Nat
  BY <1>3
<1> QED
  BY <1>3, <1>4, <1>5, <1>6, <1>7, <1>8, <1>9 DEF Ordered

\* A tree that is built has no error but that there is no article in it.
LEMMA BuiltFine ==
    ASSUME LawInv, Loaded, pos = Len(doc) + 1,
           BuiltOK(BuiltTree, headings, boundaries, End, Len(headings))
    PROVE  /\ Ordered(headings, boundaries, End) /\ Len(headings) \in Nat /\ End > 1
           /\ TreeOK(BuiltTree.nodes, headings, boundaries, End, Len(headings))
           /\ BuiltTree.failed = FALSE
           /\ TreeErrors(BuiltTree.nodes, End)
                = IF Articles(BuiltTree.nodes) = {} THEN {"NO_ARTICLES_FOUND"} ELSE {}
<1>1. Ordered(headings, boundaries, End) /\ Len(headings) \in Nat /\ End > 1
  BY ReadInOrder
<1>2. TreeOK(BuiltTree.nodes, headings, boundaries, End, Len(headings)) /\ BuiltTree.failed = FALSE
  BY DEF BuiltOK
<1> DEFINE nodes == BuiltTree.nodes
<1> HIDE DEF nodes
<1>3. TreeErrors(nodes, End) = IF Articles(nodes) = {} THEN {"NO_ARTICLES_FOUND"} ELSE {}
  BY <1>1, <1>2, TreeFine DEF nodes
<1> QED
  BY <1>1, <1>2, <1>3 DEF nodes

\* What is judged is the tree that is built.
LEMMA JudgedIs ==
    /\ BuiltTree.failed = TRUE => Judged.status = "failed"
    /\ BuiltTree.failed = FALSE /\ TreeErrors(BuiltTree.nodes, End) # {}
         => Judged.status = "failed" /\ Judged.errors = TreeErrors(BuiltTree.nodes, End)
    /\ BuiltTree.failed = FALSE /\ TreeErrors(BuiltTree.nodes, End) = {}
         => /\ Judged.status \in {"success", "success_with_warnings"}
            /\ Judged.nodes = BuiltTree.nodes
            /\ Judged.status = "success" =>
                 issues \cup BuiltTree.collisions
                   \cup ArticleWarnings(BuiltTree.nodes, doc, CountedArticles) = {}
<1> DEFINE built == BuiltTree
           errors == TreeErrors(built.nodes, End)
           warnings == issues \cup built.collisions
                         \cup ArticleWarnings(built.nodes, doc, CountedArticles)
<1>1. Judged = IF built.failed
                THEN [status |-> "failed", errors |-> {"INVALID_TREE"}, warnings |-> issues,
                      nodes |-> <<>>, carried |-> {}]
                ELSE IF errors # {}
                THEN [status |-> "failed", errors |-> errors, warnings |-> warnings,
                      nodes |-> <<>>, carried |-> {}]
                ELSE [status |-> IF warnings = {} THEN "success" ELSE "success_with_warnings",
                      errors |-> {}, warnings |-> warnings, nodes |-> built.nodes,
                      carried |-> issues \cup built.collisions]
  BY Zenon DEF Judged, BuiltTree, End
<1> HIDE DEF built, errors, warnings
<1>2. CASE built.failed = TRUE
  BY <1>1, <1>2 DEF built
<1>3. CASE built.failed = FALSE /\ errors # {}
  <2>1. Judged = [status |-> "failed", errors |-> errors, warnings |-> warnings,
                  nodes |-> <<>>, carried |-> {}]
    BY <1>1, <1>3
  <2>2. Judged.status = "failed" /\ Judged.errors = errors
    BY <2>1
  <2> QED
    BY <1>3, <2>2 DEF built, errors
<1>4. CASE built.failed = FALSE /\ errors = {}
  <2>1. Judged = [status |-> IF warnings = {} THEN "success" ELSE "success_with_warnings",
                  errors |-> {}, warnings |-> warnings, nodes |-> built.nodes,
                  carried |-> issues \cup built.collisions]
    BY <1>1, <1>4
  <2>2. /\ Judged.status = IF warnings = {} THEN "success" ELSE "success_with_warnings"
        /\ Judged.nodes = built.nodes
    BY <2>1
  <2> QED
    BY <1>4, <2>2 DEF built, errors, warnings
<1>5. built.failed \notin BOOLEAN \/ built.failed = TRUE \/ built.failed = FALSE
  OBVIOUS
<1> QED
  BY <1>2, <1>3, <1>4 DEF built, errors

LEMMA FailsOnlyPast ==
    ASSUME LawInv
    PROVE  FailsOnlyPastBoundary
<1> SUFFICES ASSUME outcome.status = "failed", outcome.errors # {"NO_ARTICLES_FOUND"},
                    ~ \E b \in boundaries : /\ b.kind \in {"source_note", "appendix"}
                                            /\ \E k \in DOMAIN headings : headings[k].at > b.at
             PROVE  FALSE
  BY DEF FailsOnlyPastBoundary
<1>1. Loaded /\ pos = Len(doc) + 1 /\ outcome = Judged
  <2>1. outcome # NoOutcome
    BY DEF NoOutcome
  <2> QED
    BY <2>1 DEF LawInv, VerdictsOK
<1>2. Ordered(headings, boundaries, End) /\ Lineage(headings)
  BY <1>1, ReadInOrder
<1>3. NothingCut(headings, boundaries)
  <2>1. headings \in Seq(HeadingRecords)
    BY <1>2 DEF Ordered
  <2>2. DOMAIN headings = 1 .. Len(headings)
    BY <2>1
  <2> QED
    BY <2>2 DEF NothingCut
<1>4. BuiltOK(BuiltTree, headings, boundaries, End, Len(headings))
  BY <1>2, <1>3, BuildIs DEF BuiltTree
<1>5. /\ BuiltTree.failed = FALSE
      /\ TreeErrors(BuiltTree.nodes, End)
           = IF Articles(BuiltTree.nodes) = {} THEN {"NO_ARTICLES_FOUND"} ELSE {}
  BY <1>1, <1>4, BuiltFine
<1>6. TreeErrors(BuiltTree.nodes, End) # {}
  BY <1>1, <1>5, JudgedIs
<1>7. outcome.errors = {"NO_ARTICLES_FOUND"}
  BY <1>1, <1>5, <1>6, JudgedIs
<1> QED
  BY <1>7

\* A law fails in the parser, other than for want of articles, only when a source note or an
\* appendix stands before a later heading: otherwise the builder never refuses a unit, as the
\* parent it chooses contains the span the segmenter cut, and the tree validator finds nothing
\* in the tree.
THEOREM LawFailsOnlyPastBoundary == LawSpec => []FailsOnlyPastBoundary
<1>1. LawInv => FailsOnlyPastBoundary
  BY FailsOnlyPast
<1> QED
  BY <1>1, LawInvariant, PTL

\* A law that is accepted has the tree that was built of it.
LEMMA AcceptedIs ==
    ASSUME LawInv, Accepted
    PROVE  /\ Loaded /\ pos = Len(doc) + 1
           /\ BuiltOK(BuiltTree, headings, boundaries, End, Len(headings))
           /\ outcome.nodes = BuiltTree.nodes
           /\ TreeErrors(outcome.nodes, End) = {}
           /\ outcome.status = "success" => ArticleWarnings(outcome.nodes, doc, CountedArticles) = {}
<1>1. Loaded /\ pos = Len(doc) + 1 /\ outcome = Judged
  <2>1. outcome # NoOutcome
    BY DEF NoOutcome, Accepted
  <2> QED
    BY <2>1 DEF LawInv, VerdictsOK
<1>2. Ordered(headings, boundaries, End)
  BY <1>1, ReadInOrder
<1>3. Judged.status # "failed"
  BY <1>1 DEF Accepted
<1>4. BuiltTree.failed # TRUE
  BY <1>3, JudgedIs
<1>5. BuiltOK(BuiltTree, headings, boundaries, End, Len(headings))
  BY <1>2, <1>4, BuildIs DEF BuiltTree
<1>6. BuiltTree.failed = FALSE
  BY <1>5 DEF BuiltOK
<1>7. TreeErrors(BuiltTree.nodes, End) = {}
  BY <1>3, <1>6, JudgedIs
<1>8. /\ Judged.nodes = BuiltTree.nodes
      /\ Judged.status = "success" =>
           issues \cup BuiltTree.collisions
             \cup ArticleWarnings(BuiltTree.nodes, doc, CountedArticles) = {}
  BY <1>6, <1>7, JudgedIs
<1> QED
  BY <1>1, <1>5, <1>7, <1>8

PlainNumbers(nodes) == \A k \in Articles(nodes) : nodes[k].num[2] = ""

\* An article of an accepted tree stands at a line that is counted as one.
LEMMA ArticlesCounted ==
    ASSUME LawInv, Accepted, PlainNumbers(outcome.nodes)
    PROVE  /\ IsFiniteSet(CountedArticles)
           /\ \A k \in Articles(outcome.nodes) : outcome.nodes[k].start \in CountedArticles
           /\ \A j, k \in Articles(outcome.nodes) :
                 outcome.nodes[j].start = outcome.nodes[k].start => j = k
<1> DEFINE nodes == outcome.nodes
           n == Len(headings)
<1>1. doc \in Seq(Lines)
  BY DEF LawInv
<1>1a. Len(doc) \in Nat
  BY <1>1
<1>2. /\ Loaded /\ pos = Len(doc) + 1
      /\ BuiltOK(BuiltTree, headings, boundaries, End, n)
      /\ nodes = BuiltTree.nodes
  BY AcceptedIs
<1>3. Ordered(headings, boundaries, End) /\ n \in Nat
  BY <1>2, ReadInOrder
<1>4. TreeOK(nodes, headings, boundaries, End, n)
  BY <1>2 DEF BuiltOK
<1>3a. /\ \A k \in 1 .. n : headings[k].at \in Nat
       /\ \A i, j \in 1 .. n : i < j => headings[i].at < headings[j].at
  BY <1>3 DEF Ordered
<1> HIDE DEF nodes
<1>5. NodeFacts(nodes, End, n)
  BY <1>3, <1>4, TreeNodes
<1>5a. DOMAIN nodes = 1 .. n + 1 /\ nodes[1].level = "law"
  BY <1>5 DEF NodeFacts
<1>5b. \A k \in 1 .. n : /\ nodes[k + 1].level = headings[k].level
                         /\ nodes[k + 1].num = headings[k].num
                         /\ nodes[k + 1].start = headings[k].at
  BY <1>4 DEF TreeOK, NodesOK
<1>5c. \A k \in 1 .. n : /\ headings[k].at \in 1 .. pos - 1
                         /\ headings[k].num = doc[headings[k].at].num
                         /\ headings[k].level = "article" => doc[headings[k].at].kind = "article"
  BY DEF LawInv, HeadingsOK
<1> HIDE DEF n
<1>6. \A k \in Articles(nodes) : k - 1 \in 1 .. n /\ k - 1 + 1 = k /\ nodes[k].level = "article"
  BY <1>3, <1>5a DEF Articles
<1>7. ASSUME NEW k \in Articles(nodes) PROVE nodes[k].start \in CountedArticles
  <2>1. /\ nodes[k].start = headings[k - 1].at /\ headings[k - 1].level = "article"
        /\ nodes[k].num = headings[k - 1].num
    BY <1>5b, <1>6
  <2>2. /\ headings[k - 1].at \in 1 .. pos - 1
        /\ headings[k - 1].num = doc[headings[k - 1].at].num
        /\ doc[headings[k - 1].at].kind = "article"
    BY <1>5c, <1>6, <2>1
  <2>3. nodes[k].num[2] = ""
    BY DEF nodes, PlainNumbers
  <2>4. nodes[k].start \in 1 .. Len(doc)
    BY <1>1a, <1>2, <2>1, <2>2
  <2>5. HeadingLine(doc[nodes[k].start])
    BY <2>1, <2>2, <2>3 DEF HeadingLine
  <2> QED
    BY <2>4, <2>5 DEF CountedArticles
<1>8. \A j, k \in Articles(nodes) : nodes[j].start = nodes[k].start => j = k
  <2> SUFFICES ASSUME NEW j \in Articles(nodes), NEW k \in Articles(nodes), nodes[j].start = nodes[k].start
               PROVE  j = k
    OBVIOUS
  <2>1. nodes[j].start = headings[j - 1].at /\ nodes[k].start = headings[k - 1].at
    BY <1>5b, <1>6
  <2>2. headings[j - 1].at \in Nat /\ headings[k - 1].at \in Nat
    BY <1>3a, <1>6
  <2>3. ~ (j - 1 < k - 1) /\ ~ (k - 1 < j - 1)
    <3>1. j - 1 \in 1 .. n /\ k - 1 \in 1 .. n
      BY <1>6
    <3>2. headings[j - 1].at = headings[k - 1].at
      BY <2>1
    <3>3. \A p, q \in 1 .. n : p < q => headings[p].at # headings[q].at
      BY <1>3a
    <3> QED
      BY <3>1, <3>2, <3>3
  <2>4. j \in 1 .. n + 1 /\ k \in 1 .. n + 1
    BY <1>5a DEF Articles
  <2> QED
    BY <1>3, <2>3, <2>4
<1>9. IsFiniteSet(CountedArticles)
  <2>1. IsFiniteSet(1 .. Len(doc))
    BY <1>1a, FS_Interval
  <2>2. CountedArticles \subseteq 1 .. Len(doc)
    BY DEF CountedArticles
  <2> QED
    BY <2>1, <2>2, FS_Subset
<1> QED
  BY <1>7, <1>8, <1>9 DEF nodes

LEMMA CleanIsWhole ==
    ASSUME LawInv
    PROVE  CleanLawIsWhole
<1> SUFFICES ASSUME outcome.status = "success", PlainNumbers(outcome.nodes),
                    NEW i \in CountedArticles
             PROVE  \E k \in Articles(outcome.nodes) : outcome.nodes[k].start = i
  BY DEF CleanLawIsWhole, PlainNumbers
<1> DEFINE nodes == outcome.nodes
<1>1. Accepted
  BY DEF Accepted
<1>2. ArticleWarnings(nodes, doc, CountedArticles) = {}
  BY <1>1, AcceptedIs
<1>3. /\ IsFiniteSet(CountedArticles)
      /\ \A k \in Articles(nodes) : nodes[k].start \in CountedArticles
      /\ \A j, k \in Articles(nodes) : nodes[j].start = nodes[k].start => j = k
  BY <1>1, ArticlesCounted
<1> HIDE DEF nodes
<1>4. Cardinality(Articles(nodes)) = Cardinality(CountedArticles)
  <2>1. {w \in {Issue("ARTICLE_COUNT_MISMATCH")} : Cardinality(Articles(nodes)) # Cardinality(CountedArticles)}
          \subseteq ArticleWarnings(nodes, doc, CountedArticles)
    BY DEF ArticleWarnings
  <2> QED
    BY <1>2, <2>1
<1> DEFINE f == [k \in Articles(nodes) |-> nodes[k].start]
<1>5. f \in Injection(Articles(nodes), CountedArticles)
  BY <1>3 DEF Injection, IsInjective
<1>6. f \in Surjection(Articles(nodes), CountedArticles)
  <2> HIDE DEF f
  <2> QED
    BY <1>3, <1>4, <1>5, FS_Injection
<1>7. \E k \in Articles(nodes) : f[k] = i
  BY <1>6 DEF Surjection
<1> QED
  BY <1>7 DEF nodes

\* A law parsed without a warning has an article node for each heading the cleaning step
\* counted in its text, unless it has lettered articles: as many nodes as headings, each at
\* one of them.
THEOREM LawCleanIsWhole == LawSpec => []CleanLawIsWhole
<1>1. LawInv => CleanLawIsWhole
  BY CleanIsWhole
<1> QED
  BY <1>1, LawInvariant, PTL

-----------------------------------------------------------------------------
(* Rows, one list of them after the other.                                 *)

InTurn(rows) == \A i, j \in 1 .. Len(rows) : i < j => rows[i].end <= rows[j].start

\* Of two lists with places m < k every row of the first ends before those of the second.
ListsInTurn(seqs) ==
  \A m, k \in 1 .. Len(seqs) : m < k =>
     \A i \in 1 .. Len(seqs[m]) : \A j \in 1 .. Len(seqs[k]) : seqs[m][i].end <= seqs[k][j].start

Strung(rows, seqs) ==
  /\ InTurn(rows) /\ Len(rows) \in Nat
  /\ \A r \in 1 .. Len(rows) : \E m \in 1 .. Len(seqs) : \E i \in 1 .. Len(seqs[m]) : rows[r] = seqs[m][i]
  /\ \A m \in 1 .. Len(seqs) : \A i \in 1 .. Len(seqs[m]) : \E r \in 1 .. Len(rows) : rows[r] = seqs[m][i]

LEMMA StrungIs ==
    ASSUME NEW S, NEW seqs \in Seq(Seq(S)), ListsInTurn(seqs),
           \A m \in 1 .. Len(seqs) : InTurn(seqs[m])
    PROVE  FlattenSeq(seqs) \in Seq(S) /\ Strung(FlattenSeq(seqs), seqs)
<1>1. FlattenSeq(seqs) \in Seq(S) /\ \E a, b : Flattens(FlattenSeq(seqs), seqs, Len(seqs), a, b)
  BY FlattenIs
<1> DEFINE rows == FlattenSeq(seqs)
<1> HIDE DEF rows
<1>2. PICK a, b : Flattens(rows, seqs, Len(seqs), a, b)
  BY <1>1 DEF rows
<1>3. /\ Len(rows) \in Nat
      /\ a \in [1 .. Len(rows) -> 1 .. Len(seqs)]
      /\ \A i \in 1 .. Len(rows) : b[i] \in 1 .. Len(seqs[a[i]]) /\ rows[i] = seqs[a[i]][b[i]]
      /\ \A i, j \in 1 .. Len(rows) : i < j => a[i] < a[j] \/ (a[i] = a[j] /\ b[i] < b[j])
      /\ \A k \in 1 .. Len(seqs) : \A m \in 1 .. Len(seqs[k]) : \E i \in 1 .. Len(rows) : a[i] = k /\ b[i] = m
  BY <1>2 DEF Flattens
<1>4. ASSUME NEW i \in 1 .. Len(rows), NEW j \in 1 .. Len(rows), i < j
      PROVE  rows[i].end <= rows[j].start
  <2>1. /\ a[i] \in 1 .. Len(seqs) /\ a[j] \in 1 .. Len(seqs)
        /\ b[i] \in 1 .. Len(seqs[a[i]]) /\ b[j] \in 1 .. Len(seqs[a[j]])
        /\ rows[i] = seqs[a[i]][b[i]] /\ rows[j] = seqs[a[j]][b[j]]
    BY <1>3
  <2>2. CASE a[i] < a[j]
    <3>1. seqs[a[i]][b[i]].end <= seqs[a[j]][b[j]].start
      BY <2>1, <2>2 DEF ListsInTurn
    <3> QED
      BY <2>1, <3>1
  <2>3. CASE a[i] = a[j] /\ b[i] < b[j]
    <3>1. InTurn(seqs[a[i]])
      BY <2>1
    <3>2. seqs[a[i]][b[i]].end <= seqs[a[i]][b[j]].start
      BY <2>1, <2>3, <3>1 DEF InTurn
    <3> QED
      BY <2>1, <2>3, <3>2
  <2> QED
    BY <1>3, <1>4, <2>2, <2>3
<1>5. ASSUME NEW r \in 1 .. Len(rows)
      PROVE  \E m \in 1 .. Len(seqs) : \E i \in 1 .. Len(seqs[m]) : rows[r] = seqs[m][i]
  <2>1. a[r] \in 1 .. Len(seqs)
    BY <1>3
  <2>2. b[r] \in 1 .. Len(seqs[a[r]]) /\ rows[r] = seqs[a[r]][b[r]]
    BY <1>3
  <2> QED
    BY <2>1, <2>2, Zenon
<1>6. ASSUME NEW m \in 1 .. Len(seqs), NEW i \in 1 .. Len(seqs[m])
      PROVE  \E r \in 1 .. Len(rows) : rows[r] = seqs[m][i]
  <2>1. PICK r \in 1 .. Len(rows) : a[r] = m /\ b[r] = i
    BY <1>3
  <2>2. rows[r] = seqs[a[r]][b[r]]
    BY <1>3
  <2> QED
    BY <2>1, <2>2
<1>7. Strung(rows, seqs)
  BY <1>3, <1>4, <1>5, <1>6 DEF Strung, InTurn
<1> QED
  BY <1>1, <1>7 DEF rows

LEMMA PrefixSelf ==
    ASSUME NEW S, NEW s \in Seq(S)
    PROVE  IsPrefix(s, s)
<1>1. Len(s) \in Nat /\ SubSeq(s, 1, Len(s)) = s
  OBVIOUS
<1> QED
  BY <1>1 DEF IsPrefix

LEMMA PrefixOne ==
    ASSUME NEW S, NEW s \in Seq(S), NEW x
    PROVE  IsPrefix(s, Append(s, x))
<1>1. Len(s) \in Nat /\ Len(Append(s, x)) = Len(s) + 1
  OBVIOUS
<1>2. SubSeq(s, 1, Len(s)) = [i \in 1 .. Len(s) |-> s[i]]
  OBVIOUS
<1>3. SubSeq(Append(s, x), 1, Len(s)) = [i \in 1 .. Len(s) |-> Append(s, x)[i]]
  OBVIOUS
<1>4. \A i \in 1 .. Len(s) : Append(s, x)[i] = s[i]
  OBVIOUS
<1>5. SubSeq(s, 1, Len(s)) = SubSeq(Append(s, x), 1, Len(s))
  BY <1>2, <1>3, <1>4, Zenon
<1> QED
  BY <1>1, <1>5 DEF IsPrefix

LEMMA PrefixTwo ==
    ASSUME NEW S, NEW s \in Seq(S), NEW x \in S, NEW y \in S
    PROVE  IsPrefix(s, Append(Append(s, x), y))
<1> DEFINE t == Append(Append(s, x), y)
<1>1. Len(s) \in Nat /\ Len(t) = Len(s) + 2 /\ t \in Seq(S)
  OBVIOUS
<1>2. SubSeq(s, 1, Len(s)) = [i \in 1 .. Len(s) |-> s[i]]
  OBVIOUS
<1>4. \A i \in 1 .. Len(s) : t[i] = s[i]
  OBVIOUS
<1> HIDE DEF t
<1>3. SubSeq(t, 1, Len(s)) = [i \in 1 .. Len(s) |-> t[i]]
  BY <1>1
<1>5. SubSeq(s, 1, Len(s)) = SubSeq(t, 1, Len(s))
  BY <1>2, <1>3, <1>4, Zenon
<1>6. IsPrefix(s, t)
  BY <1>1, <1>5 DEF IsPrefix
<1> QED
  BY <1>6 DEF t

-----------------------------------------------------------------------------
(* The children of a node at a level.                                      *)

Brood(list, nodes, n, p, level, h) ==
  /\ Len(list) \in Nat /\ list = [i \in 1 .. Len(list) |-> nodes[h[i]]]
  /\ h \in [1 .. Len(list) -> 2 .. n + 1]
  /\ \A i \in 1 .. Len(list) : nodes[h[i]].parent = nodes[p].id /\ nodes[h[i]].level = level
  /\ \A i, j \in 1 .. Len(list) : i < j => h[i] < h[j]
  /\ \A k \in 2 .. n + 1 : nodes[k].parent = nodes[p].id /\ nodes[k].level = level
                             => \E i \in 1 .. Len(list) : h[i] = k

LEMMA BroodIs ==
    ASSUME NEW hs, NEW bs, NEW end, NEW n \in Nat, NEW nodes, TreeOK(nodes, hs, bs, end, n),
           NEW p \in 1 .. n + 1, NEW level
    PROVE  \E h : Brood(ChildNodes(nodes, nodes[p], level), nodes, n, p, level, h)
<1> DEFINE kids == nodes[p].children
           places == {k \in DOMAIN kids : Named(nodes, kids[k]).level = level}
           list == ChildNodes(nodes, nodes[p], level)
<1>1. list = Kept([k \in DOMAIN nodes[p].children |-> Named(nodes, nodes[p].children[k])], places)
  BY DEF ChildNodes
<1>2. Shape(nodes, n)
  BY ShapeIs
<1>3. \A k \in places : k \in DOMAIN kids /\ Named(nodes, kids[k]).level = level
  OBVIOUS
<1>4. \A k \in DOMAIN kids : Named(nodes, kids[k]).level = level => k \in places
  OBVIOUS
<1> HIDE DEF places, list
<1>5. PICK h : KeptAs(list, nodes, n, p, places, h)
  BY <1>1, KeptChildren
<1>6. /\ Len(list) \in Nat /\ list = [i \in 1 .. Len(list) |-> nodes[h[i]]]
      /\ h \in [1 .. Len(list) -> 2 .. n + 1]
      /\ \A i, j \in 1 .. Len(list) : i < j => h[i] < h[j]
  BY <1>5 DEF KeptAs
<1>7. \A i \in 1 .. Len(list) : /\ nodes[h[i]].parent = nodes[p].id
                                /\ \E k \in places : nodes[h[i]] = Named(nodes, kids[k])
  BY <1>5 DEF KeptAs
<1>8. \A k \in DOMAIN kids : k \in places => \E i \in 1 .. Len(list) : nodes[h[i]].id = kids[k]
  BY <1>5 DEF KeptAs
<1> HIDE DEF kids
<1>9. \A i \in 1 .. Len(list) : nodes[h[i]].parent = nodes[p].id /\ nodes[h[i]].level = level
  BY <1>3, <1>7
<1>10. ASSUME NEW k \in 2 .. n + 1, nodes[k].parent = nodes[p].id, nodes[k].level = level
       PROVE  \E i \in 1 .. Len(list) : h[i] = k
  <2>1. nodes[k].id \in Range(kids)
    BY <1>2, <1>10 DEF Shape, kids
  <2>2. PICK m \in DOMAIN kids : kids[m] = nodes[k].id
    BY <2>1 DEF Range
  <2>3. k \in 1 .. n + 1
    OBVIOUS
  <2>4. Named(nodes, kids[m]) = nodes[k]
    BY <1>2, <2>2, <2>3 DEF Shape
  <2>5. m \in places
    BY <1>4, <1>10, <2>4
  <2>6. PICK i \in 1 .. Len(list) : nodes[h[i]].id = kids[m]
    BY <1>8, <2>5
  <2>7. h[i] \in 2 .. n + 1
    BY <1>6
  <2>8. h[i] \in 1 .. n + 1 /\ nodes[h[i]].id = nodes[k].id
    BY <2>2, <2>6, <2>7
  <2>9. h[i] = k
    BY <1>2, <2>3, <2>8 DEF Shape
  <2> QED
    BY <2>9
<1>11. Brood(list, nodes, n, p, level, h)
  BY <1>6, <1>9, <1>10 DEF Brood
<1> QED
  BY <1>11 DEF list

LEMMA PrefixOfPrefix ==
    ASSUME NEW S, NEW s \in Seq(S), NEW t \in Seq(S), NEW u \in Seq(S),
           IsPrefix(s, t), IsPrefix(t, u)
    PROVE  IsPrefix(s, u)
<1>1. /\ Len(s) \in Nat /\ Len(t) \in Nat /\ Len(u) \in Nat
      /\ Len(s) <= Len(t) /\ Len(t) <= Len(u)
      /\ SubSeq(s, 1, Len(s)) = SubSeq(t, 1, Len(s))
      /\ SubSeq(t, 1, Len(t)) = SubSeq(u, 1, Len(t))
  BY DEF IsPrefix
<1>2. /\ SubSeq(t, 1, Len(s)) = [i \in 1 .. Len(s) |-> t[i]]
      /\ SubSeq(u, 1, Len(s)) = [i \in 1 .. Len(s) |-> u[i]]
  BY <1>1
<1>3. SubSeq(t, 1, Len(t)) = [i \in 1 .. Len(t) |-> t[i]] /\ SubSeq(u, 1, Len(t)) = [i \in 1 .. Len(t) |-> u[i]]
  BY <1>1
<1>4. ASSUME NEW i \in 1 .. Len(s)
      PROVE  t[i] = u[i]
  <2>1. i \in 1 .. Len(t)
    BY <1>1
  <2>2. [j \in 1 .. Len(t) |-> t[j]][i] = [j \in 1 .. Len(t) |-> u[j]][i]
    BY <1>1, <1>3
  <2> QED
    BY <2>1, <2>2
<1>5. [i \in 1 .. Len(s) |-> t[i]] = [i \in 1 .. Len(s) |-> u[i]]
  BY <1>4, Zenon
<1> QED
  BY <1>1, <1>2, <1>5 DEF IsPrefix

-----------------------------------------------------------------------------
(* What is cut of a node.                                                  *)

\* The row is a chunk of the node s, of the clause c and the article a it belongs to.
Cites(row, nodes, n, a, c, s) ==
  /\ s \in 2 .. n + 1 /\ a \in 2 .. n + 1
  /\ row.source = nodes[s].id /\ row.level = nodes[s].level
  /\ row.start = nodes[s].start /\ row.end = nodes[s].end
  /\ row.article = nodes[a].id /\ row.article_number = nodes[a].num
  /\ row.article_start = nodes[a].start /\ row.article_end = nodes[a].end
  /\ nodes[a].level = "article"
  /\ \/ s = a
     \/ /\ c \in 2 .. n + 1 /\ nodes[c].level = "clause" /\ nodes[c].parent = nodes[a].id
        /\ row.clause_number = nodes[c].num
        /\ s = c \/ (nodes[s].level = "point" /\ nodes[s].parent = nodes[c].id)

\* Of the node j, or of what hangs below it, there is a row.
Covered(rows, nodes, n, j) ==
  \E r \in 1 .. Len(rows) : \E s \in 2 .. n + 1 :
     /\ rows[r].source = nodes[s].id /\ rows[r].start >= nodes[j].start
     /\ IsPrefix(nodes[j].id, nodes[s].id)

\* j is k, or a child of it, or a child of a child.
Under(nodes, n, k, j) ==
  \/ j = k
  \/ nodes[j].parent = nodes[k].id
  \/ \E m \in 2 .. n + 1 : nodes[m].parent = nodes[k].id /\ nodes[j].parent = nodes[m].id

RowSet(nodes, n, carried) ==
  LET some == {nodes[k] : k \in 2 .. n + 1}
  IN {BuildChunk(doc, carried, t[1], t[2], t[3]) : t \in some \X some \X ({NoClause} \cup some)}

Row(row, nodes, n) == \E a, c, s : Cites(row, nodes, n, a, c, s)
RowIn(row, nodes, n, k) == /\ Row(row, nodes, n)
                           /\ nodes[k].start <= row.start /\ row.end <= nodes[k].end

CutOf(rows, nodes, n, carried, k) ==
  /\ rows \in Seq(RowSet(nodes, n, carried))
  /\ InTurn(rows)
  /\ \A r \in 1 .. Len(rows) : RowIn(rows[r], nodes, n, k)
  /\ \A j \in 2 .. n + 1 : Under(nodes, n, k, j) => Covered(rows, nodes, n, j)

\* The law has a tree, nothing but the names of its parts.
Tree(nodes, hs, bs, end, n) ==
  /\ Ordered(hs, bs, end) /\ end > 1 /\ n \in Nat /\ n = Len(hs) /\ TreeOK(nodes, hs, bs, end, n)

\* Spans and ids of the nodes of a tree.
Spans(nodes, n) ==
  \A k \in 1 .. n + 1 : /\ nodes[k].id \in Paths
                        /\ nodes[k].start \in Nat /\ nodes[k].end \in Nat
                        /\ nodes[k].start < nodes[k].end
LEMMA SpansAre ==
    ASSUME NEW hs, NEW bs, NEW end, NEW n, NEW nodes, Tree(nodes, hs, bs, end, n)
    PROVE  Spans(nodes, n)
<1>1. /\ Ordered(hs, bs, end) /\ end > 1 /\ n \in Nat /\ n = Len(hs) /\ TreeOK(nodes, hs, bs, end, n)
  BY DEF Tree
<1>2. NodeFacts(nodes, end, n)
  BY <1>1, TreeNodes
<1>3. ASSUME NEW k \in 1 .. n + 1
      PROVE  nodes[k].start \in Nat /\ nodes[k].end \in Nat /\ nodes[k].start < nodes[k].end
  <2>1. Bounded(nodes[k], end) /\ nodes[k].start \in Nat /\ nodes[k].end \in Nat
    BY <1>1, NodeBounded
  <2> QED
    BY <2>1 DEF Bounded
<1> QED
  BY <1>2, <1>3 DEF Spans, NodeFacts

LEMMA RowSpan ==
    ASSUME NEW nodes, NEW n \in Nat, Spans(nodes, n), NEW row, Row(row, nodes, n)
    PROVE  row.start \in Nat /\ row.end \in Nat /\ row.start < row.end
<1>1. PICK a, c, s : Cites(row, nodes, n, a, c, s)
  BY DEF Row
<1>2. s \in 1 .. n + 1 /\ row.start = nodes[s].start /\ row.end = nodes[s].end
  BY <1>1 DEF Cites
<1> QED
  BY <1>2 DEF Spans

\* What covers a node covers its parent.
LEMMA CoversUp ==
    ASSUME NEW hs, NEW bs, NEW end, NEW n, NEW nodes, Tree(nodes, hs, bs, end, n),
           NEW p \in 1 .. n + 1, NEW j \in 2 .. n + 1, nodes[j].parent = nodes[p].id,
           NEW rows, \A r \in 1 .. Len(rows) : Row(rows[r], nodes, n), Covered(rows, nodes, n, j)
    PROVE  Covered(rows, nodes, n, p)
<1>1. /\ Ordered(hs, bs, end) /\ n \in Nat /\ n = Len(hs) /\ TreeOK(nodes, hs, bs, end, n)
  BY DEF Tree
<1>2. Spans(nodes, n)
  BY SpansAre
<1>3. PICK r \in 1 .. Len(rows), s \in 2 .. n + 1 :
        rows[r].source = nodes[s].id /\ rows[r].start >= nodes[j].start /\ IsPrefix(nodes[j].id, nodes[s].id)
  BY DEF Covered
<1>4. j \in 1 .. n + 1 /\ s \in 1 .. n + 1
  BY <1>1
<1>5. Encloses(nodes[p], nodes[j])
  BY <1>1, <1>4, ParentHolds
<1>6. ParentFacts(nodes, hs, n, j)
  BY <1>1, <1>4, ParentIn
<1>7. ParentIs(nodes, hs, j - 1, p)
  BY <1>6 DEF ParentFacts
<1>8. PICK x : nodes[j].id = Append(nodes[p].id, x)
  <2>1. \E c \in Nat :
          nodes[j - 1 + 1].id = Append(nodes[p].id, <<hs[j - 1].level, NodeToken(hs[j - 1].level, hs[j - 1].num), c>>)
    BY <1>7 DEF ParentIs
  <2>2. j - 1 + 1 = j
    BY <1>1
  <2> QED
    BY <2>1, <2>2, Zenon
<1>9. nodes[p].id \in Paths /\ nodes[j].id \in Paths /\ nodes[s].id \in Paths
  BY <1>2, <1>4 DEF Spans
<1>10. IsPrefix(nodes[p].id, nodes[j].id)
  BY <1>8, <1>9, PrefixOne DEF Paths
<1>11. IsPrefix(nodes[p].id, nodes[s].id)
  BY <1>3, <1>9, <1>10, PrefixOfPrefix DEF Paths
<1>12. rows[r].start \in Nat
  BY <1>1, <1>2, RowSpan
<1>13. nodes[p].start \in Nat /\ nodes[j].start \in Nat
  BY <1>2, <1>4 DEF Spans
<1>14. rows[r].start >= nodes[p].start
  BY <1>3, <1>5, <1>12, <1>13 DEF Encloses
<1> QED
  BY <1>3, <1>11, <1>14 DEF Covered

\* The rows of a list are within the node k, one row after the other.
LEMMA ClauseCut ==
    ASSUME NEW hs, NEW bs, NEW end, NEW n, NEW nodes, Tree(nodes, hs, bs, end, n), NEW carried,
           NEW a \in 2 .. n + 1, NEW c \in 2 .. n + 1, nodes[a].level = "article",
           nodes[c].level = "clause", nodes[c].parent = nodes[a].id
    PROVE  CutOf(CutClause(nodes, doc, carried, nodes[a], nodes[c]), nodes, n, carried, c)
<1> DEFINE points == ChildNodes(nodes, nodes[c], "point")
           rows == CutClause(nodes, doc, carried, nodes[a], nodes[c])
<1>1. /\ Ordered(hs, bs, end) /\ n \in Nat /\ n = Len(hs) /\ TreeOK(nodes, hs, bs, end, n)
  BY DEF Tree
<1>2. Spans(nodes, n)
  BY SpansAre
<1>3. a \in 1 .. n + 1 /\ c \in 1 .. n + 1
  BY <1>1
<1>4. PICK h : Brood(points, nodes, n, c, "point", h)
  BY <1>1, <1>3, BroodIs
<1>5. /\ Len(points) \in Nat /\ points = [i \in 1 .. Len(points) |-> nodes[h[i]]]
      /\ h \in [1 .. Len(points) -> 2 .. n + 1]
      /\ \A i \in 1 .. Len(points) : nodes[h[i]].parent = nodes[c].id /\ nodes[h[i]].level = "point"
      /\ \A i, j \in 1 .. Len(points) : i < j => h[i] < h[j]
      /\ \A k \in 2 .. n + 1 : nodes[k].parent = nodes[c].id /\ nodes[k].level = "point"
                                 => \E i \in 1 .. Len(points) : h[i] = k
  BY <1>4 DEF Brood
<1> DEFINE Of(s) == BuildChunk(doc, carried, nodes[s], nodes[a], nodes[c])
<1>6. ASSUME NEW s \in 2 .. n + 1
      PROVE  Of(s) \in RowSet(nodes, n, carried)
  <2> DEFINE some == {nodes[k] : k \in 2 .. n + 1}
             t == <<nodes[s], nodes[a], nodes[c]>>
  <2>1. t \in some \X some \X ({NoClause} \cup some)
    OBVIOUS
  <2>2. t[1] = nodes[s] /\ t[2] = nodes[a] /\ t[3] = nodes[c]
    OBVIOUS
  <2> HIDE DEF t, some
  <2>3. Of(s) = BuildChunk(doc, carried, t[1], t[2], t[3])
    BY <2>2
  <2>4. BuildChunk(doc, carried, t[1], t[2], t[3])
          \in {BuildChunk(doc, carried, u[1], u[2], u[3]) : u \in some \X some \X ({NoClause} \cup some)}
    BY <2>1, Zenon
  <2> QED
    BY <2>3, <2>4 DEF RowSet, some
<1>7. \A s : /\ Of(s).source = nodes[s].id /\ Of(s).level = nodes[s].level
             /\ Of(s).start = nodes[s].start /\ Of(s).end = nodes[s].end
             /\ Of(s).article = nodes[a].id /\ Of(s).article_number = nodes[a].num
             /\ Of(s).article_start = nodes[a].start /\ Of(s).article_end = nodes[a].end
             /\ Of(s).clause_number = nodes[c].num
  BY DEF BuildChunk
<1>8. /\ points = << >> => rows = <<Of(c)>>
      /\ points # << >> => rows = [k \in DOMAIN points |-> BuildChunk(doc, carried, points[k], nodes[a], nodes[c])]
  BY Zenon DEF CutClause
<1> HIDE DEF points, rows, Of
\* The rows are of the nodes g.
<1>9. PICK g : /\ Len(rows) \in Nat /\ Len(rows) >= 1
               /\ g \in [1 .. Len(rows) -> 2 .. n + 1]
               /\ rows = [i \in 1 .. Len(rows) |-> Of(g[i])]
               /\ \A i \in 1 .. Len(rows) : g[i] = c \/ (nodes[g[i]].level = "point" /\ nodes[g[i]].parent = nodes[c].id)
               /\ \A i, j \in 1 .. Len(rows) : i < j =>
                     g[i] < g[j] /\ nodes[g[i]].parent = nodes[c].id /\ nodes[g[j]].parent = nodes[c].id
               /\ points = << >> => g[1] = c
               /\ points # << >> => Len(rows) = Len(points) /\ g = h
  <2>1. CASE points = << >>
    <3>1. rows = <<Of(c)>> /\ Len(rows) = 1
      BY <1>8, <2>1
    <3> DEFINE g == [i \in 1 .. 1 |-> c]
    <3>2. rows = [i \in 1 .. 1 |-> Of(g[i])]
      BY <3>1
    <3>3. g \in [1 .. 1 -> 2 .. n + 1] /\ g[1] = c /\ \A i \in 1 .. 1 : g[i] = c
      BY <1>3
    <3> HIDE DEF g
    <3> QED
      BY <2>1, <3>1, <3>2, <3>3
  <2>2. CASE points # << >>
    <3>1. DOMAIN points = 1 .. Len(points) /\ Len(points) # 0
      BY <1>5, <2>2
    <3>2. rows = [k \in 1 .. Len(points) |-> BuildChunk(doc, carried, points[k], nodes[a], nodes[c])]
      BY <1>8, <2>2, <3>1
    <3>3. Len(rows) = Len(points)
      BY <1>5, <3>2
    <3>4. \A k \in 1 .. Len(points) : points[k] = nodes[h[k]]
      BY <1>5
    <3>5. \A k \in 1 .. Len(points) : BuildChunk(doc, carried, points[k], nodes[a], nodes[c]) = Of(h[k])
      BY <3>4 DEF Of
    <3>6. rows = [k \in 1 .. Len(points) |-> Of(h[k])]
      BY <3>2, <3>5, Zenon
    <3>7. Len(points) >= 1
      BY <1>5, <3>1
    <3> QED
      BY <1>5, <2>2, <3>3, <3>6, <3>7, Zenon
  <2> QED
    BY <2>1, <2>2
<1>10. \A i \in 1 .. Len(rows) : rows[i] = Of(g[i]) /\ g[i] \in 2 .. n + 1
  BY <1>9
<1>11. rows \in Seq(RowSet(nodes, n, carried))
  <2>1. \A i \in 1 .. Len(rows) : Of(g[i]) \in RowSet(nodes, n, carried)
    BY <1>6, <1>9
  <2> DEFINE S == RowSet(nodes, n, carried)
  <2> HIDE DEF S
  <2>2. \A i \in 1 .. Len(rows) : Of(g[i]) \in S
    BY <2>1 DEF S
  <2>3. rows \in [1 .. Len(rows) -> S]
    BY <1>9, <2>2
  <2>4. rows \in Seq(S)
    BY <1>9, <2>3
  <2> QED
    BY <2>4 DEF S
<1>12. ASSUME NEW i \in 1 .. Len(rows)
       PROVE  Cites(rows[i], nodes, n, a, c, g[i])
  <2>1. g[i] = c \/ (nodes[g[i]].level = "point" /\ nodes[g[i]].parent = nodes[c].id)
    BY <1>9
  <2>2. rows[i] = Of(g[i]) /\ g[i] \in 2 .. n + 1
    BY <1>10
  <2>3. /\ rows[i].source = nodes[g[i]].id /\ rows[i].level = nodes[g[i]].level
        /\ rows[i].start = nodes[g[i]].start /\ rows[i].end = nodes[g[i]].end
        /\ rows[i].article = nodes[a].id /\ rows[i].article_number = nodes[a].num
        /\ rows[i].article_start = nodes[a].start /\ rows[i].article_end = nodes[a].end
        /\ rows[i].clause_number = nodes[c].num
    BY <1>7, <2>2
  <2>4. c \in 2 .. n + 1 /\ a \in 2 .. n + 1 /\ nodes[c].level = "clause" /\ nodes[c].parent = nodes[a].id
        /\ nodes[a].level = "article" /\ g[i] \in 2 .. n + 1
    BY <2>2
  <2> QED
    BY <2>1, <2>3, <2>4 DEF Cites
<1>13. ASSUME NEW i \in 1 .. Len(rows)
       PROVE  RowIn(rows[i], nodes, n, c)
  <2>1. Row(rows[i], nodes, n)
    BY <1>12 DEF Row
  <2>2. rows[i].start = nodes[g[i]].start /\ rows[i].end = nodes[g[i]].end /\ g[i] \in 1 .. n + 1
    BY <1>12, <1>1 DEF Cites
  <2>3. nodes[c].start <= nodes[g[i]].start /\ nodes[g[i]].end <= nodes[c].end
    <3>1. CASE g[i] = c
      BY <1>2, <1>3, <3>1 DEF Spans
    <3>2. CASE nodes[g[i]].parent = nodes[c].id
      <4>1. Encloses(nodes[c], nodes[g[i]])
        BY <1>1, <1>3, <2>2, <3>2, ParentHolds
      <4> QED
        BY <4>1 DEF Encloses
    <3> QED
      BY <1>9, <3>1, <3>2
  <2> QED
    BY <2>1, <2>2, <2>3 DEF RowIn
<1>14. InTurn(rows)
  <2>1. ASSUME NEW i \in 1 .. Len(rows), NEW j \in 1 .. Len(rows), i < j
        PROVE  rows[i].end <= rows[j].start
    <3>1. g[i] < g[j] /\ nodes[g[i]].parent = nodes[c].id /\ nodes[g[j]].parent = nodes[c].id
      BY <1>9, <2>1
    <3>2. g[i] \in 2 .. n + 1 /\ g[j] \in 2 .. n + 1
      BY <1>10
    <3>3. nodes[g[i]].end <= nodes[g[j]].start
      BY <1>1, <1>3, <3>1, <3>2, NodesApart
    <3>4. rows[i].end = nodes[g[i]].end /\ rows[j].start = nodes[g[j]].start
      BY <1>12 DEF Cites
    <3> QED
      BY <3>3, <3>4
  <2> QED
    BY <2>1 DEF InTurn
<1>15. \A i \in 1 .. Len(rows) : Covered(rows, nodes, n, g[i])
  <2>1. ASSUME NEW i \in 1 .. Len(rows)
        PROVE  Covered(rows, nodes, n, g[i])
    <3>1. rows[i].source = nodes[g[i]].id /\ rows[i].start = nodes[g[i]].start /\ g[i] \in 2 .. n + 1
      BY <1>12 DEF Cites
    <3>2. nodes[g[i]].id \in Paths /\ nodes[g[i]].start \in Nat
      BY <1>1, <1>2, <3>1 DEF Spans
    <3>3. IsPrefix(nodes[g[i]].id, nodes[g[i]].id)
      BY <3>2, PrefixSelf DEF Paths
    <3>4. rows[i].start >= nodes[g[i]].start
      BY <3>1, <3>2
    <3> QED
      BY <3>1, <3>3, <3>4 DEF Covered
  <2> QED
    BY <2>1
<1>16. Covered(rows, nodes, n, c)
  <2>1. 1 \in 1 .. Len(rows)
    BY <1>9
  <2>2. Covered(rows, nodes, n, g[1]) /\ g[1] \in 2 .. n + 1
    BY <1>10, <1>15, <2>1
  <2>3. CASE g[1] = c
    BY <2>2, <2>3
  <2>4. CASE nodes[g[1]].parent = nodes[c].id
    <3>1. \A r \in 1 .. Len(rows) : Row(rows[r], nodes, n)
      BY <1>13 DEF RowIn
    <3> QED
      BY <1>3, <2>2, <2>4, <3>1, CoversUp
  <2> QED
    BY <1>9, <2>1, <2>3, <2>4
<1>17. ASSUME NEW j \in 2 .. n + 1, Under(nodes, n, c, j)
       PROVE  Covered(rows, nodes, n, j)
  <2>0. \A m \in 2 .. n + 1 : nodes[m].parent = nodes[c].id => nodes[m].level = "point"
    <3>1. ASSUME NEW m \in 2 .. n + 1, nodes[m].parent = nodes[c].id
          PROVE  nodes[m].level = "point"
      <4>1. m \in 1 .. n + 1
        BY <1>1
      <4>2. nodes[m].level \in AllowedChildLevels["clause"]
        BY <1>1, <1>3, <3>1, <4>1, ParentHolds
      <4> QED
        BY <4>2 DEF AllowedChildLevels
    <3> QED
      BY <3>1
  <2>1. CASE j = c
    BY <1>16, <2>1
  <2>2. CASE nodes[j].parent = nodes[c].id
    <3>1. PICK i \in 1 .. Len(points) : h[i] = j
      BY <1>5, <2>0, <2>2
    <3>2. points # << >>
      BY <1>5, <3>1
    <3>3. i \in 1 .. Len(rows) /\ g[i] = j
      BY <1>9, <3>1, <3>2
    <3> QED
      BY <1>15, <3>3
  <2>3. ASSUME NEW m \in 2 .. n + 1, nodes[m].parent = nodes[c].id, nodes[j].parent = nodes[m].id
        PROVE  FALSE
    <3>1. m \in 1 .. n + 1 /\ j \in 1 .. n + 1
      BY <1>1
    <3>2. nodes[m].level = "point"
      BY <2>0, <2>3
    <3>3. nodes[j].level \in AllowedChildLevels["point"]
      BY <1>1, <2>3, <3>1, <3>2, ParentHolds
    <3> QED
      BY <3>3 DEF AllowedChildLevels
  <2> QED
    BY <1>17, <2>1, <2>2, <2>3 DEF Under
<1>18. CutOf(rows, nodes, n, carried, c)
  BY <1>11, <1>13, <1>14, <1>17 DEF CutOf
<1> QED
  BY <1>18 DEF rows

\* Seqs holds what is cut of the nodes h[1], h[2], ..., which stand one after the other.
CutsOf(seqs, nodes, n, carried, h) ==
  /\ Len(seqs) \in Nat /\ DOMAIN seqs = 1 .. Len(seqs)
  /\ seqs = [i \in 1 .. Len(seqs) |-> seqs[i]]
  /\ h \in [1 .. Len(seqs) -> 2 .. n + 1]
  /\ \A i \in 1 .. Len(seqs) : CutOf(seqs[i], nodes, n, carried, h[i])
  /\ \A i, j \in 1 .. Len(seqs) : i < j => nodes[h[i]].end <= nodes[h[j]].start

JoinedCuts(rows, seqs, nodes, n, carried, h) ==
  /\ rows \in Seq(RowSet(nodes, n, carried))
  /\ InTurn(rows) /\ Len(rows) \in Nat
  /\ \A r \in 1 .. Len(rows) : \E i \in 1 .. Len(seqs) : RowIn(rows[r], nodes, n, h[i])
  /\ \A i \in 1 .. Len(seqs) : \A j \in 2 .. n + 1 : Under(nodes, n, h[i], j) => Covered(rows, nodes, n, j)

LEMMA JoinCuts ==
    ASSUME NEW nodes, NEW n \in Nat, Spans(nodes, n), NEW carried, NEW seqs, NEW h,
           CutsOf(seqs, nodes, n, carried, h)
    PROVE  JoinedCuts(FlattenSeq(seqs), seqs, nodes, n, carried, h)
<1> DEFINE S == RowSet(nodes, n, carried)
           rows == FlattenSeq(seqs)
<1>1. /\ Len(seqs) \in Nat /\ DOMAIN seqs = 1 .. Len(seqs)
      /\ seqs = [i \in 1 .. Len(seqs) |-> seqs[i]]
      /\ h \in [1 .. Len(seqs) -> 2 .. n + 1]
      /\ \A i \in 1 .. Len(seqs) : CutOf(seqs[i], nodes, n, carried, h[i])
      /\ \A i, j \in 1 .. Len(seqs) : i < j => nodes[h[i]].end <= nodes[h[j]].start
  BY DEF CutsOf
<1>2. \A i \in 1 .. Len(seqs) :
        /\ seqs[i] \in Seq(S) /\ InTurn(seqs[i])
        /\ \A r \in 1 .. Len(seqs[i]) : RowIn(seqs[i][r], nodes, n, h[i])
        /\ \A j \in 2 .. n + 1 : Under(nodes, n, h[i], j) => Covered(seqs[i], nodes, n, j)
  BY <1>1 DEF CutOf
<1> HIDE DEF S, rows
<1>3. seqs \in Seq(Seq(S))
  <2> DEFINE T == Seq(S)
  <2> HIDE DEF T
  <2>1. \A i \in 1 .. Len(seqs) : seqs[i] \in T
    BY <1>2 DEF T
  <2>2. seqs \in [1 .. Len(seqs) -> T]
    BY <1>1, <2>1
  <2>3. seqs \in Seq(T)
    BY <1>1, <2>2
  <2> QED
    BY <2>3 DEF T
<1>4. ListsInTurn(seqs)
  <2>1. ASSUME NEW m \in 1 .. Len(seqs), NEW k \in 1 .. Len(seqs), m < k,
               NEW i \in 1 .. Len(seqs[m]), NEW j \in 1 .. Len(seqs[k])
        PROVE  seqs[m][i].end <= seqs[k][j].start
    <3>1. RowIn(seqs[m][i], nodes, n, h[m]) /\ RowIn(seqs[k][j], nodes, n, h[k])
      BY <1>2, <2>1
    <3>2. h[m] \in 1 .. n + 1 /\ h[k] \in 1 .. n + 1 /\ nodes[h[m]].end <= nodes[h[k]].start
      BY <1>1, <2>1
    <3>3. seqs[m][i].end <= nodes[h[m]].end /\ nodes[h[k]].start <= seqs[k][j].start
      BY <3>1 DEF RowIn
    <3>4. seqs[m][i].end \in Nat /\ seqs[k][j].start \in Nat
      BY <3>1, RowSpan DEF RowIn
    <3>5. nodes[h[m]].end \in Nat /\ nodes[h[k]].start \in Nat
      BY <3>2 DEF Spans
    <3> DEFINE x == seqs[m][i].end
               y == seqs[k][j].start
               u == nodes[h[m]].end
               v == nodes[h[k]].start
    <3>6. x \in Nat /\ y \in Nat /\ u \in Nat /\ v \in Nat /\ x <= u /\ u <= v /\ v <= y
      BY <3>2, <3>3, <3>4, <3>5
    <3> HIDE DEF x, y, u, v
    <3>7. x <= y
      BY <3>6
    <3> QED
      BY <3>7 DEF x, y
  <2>2. \A m, k \in 1 .. Len(seqs) : m < k =>
           \A i \in 1 .. Len(seqs[m]) : \A j \in 1 .. Len(seqs[k]) : seqs[m][i].end <= seqs[k][j].start
    BY <2>1
  <2> QED
    BY <2>2 DEF ListsInTurn
<1>5. rows \in Seq(S) /\ Strung(rows, seqs)
  BY <1>2, <1>3, <1>4, StrungIs DEF rows
<1>6. /\ InTurn(rows) /\ Len(rows) \in Nat
      /\ \A r \in 1 .. Len(rows) : \E m \in 1 .. Len(seqs) : \E i \in 1 .. Len(seqs[m]) : rows[r] = seqs[m][i]
      /\ \A m \in 1 .. Len(seqs) : \A i \in 1 .. Len(seqs[m]) : \E r \in 1 .. Len(rows) : rows[r] = seqs[m][i]
  BY <1>5 DEF Strung
<1>7. ASSUME NEW r \in 1 .. Len(rows)
      PROVE  \E i \in 1 .. Len(seqs) : RowIn(rows[r], nodes, n, h[i])
  <2>0. PICK m \in 1 .. Len(seqs) : \E i \in 1 .. Len(seqs[m]) : rows[r] = seqs[m][i]
    BY <1>6
  <2>1. PICK i \in 1 .. Len(seqs[m]) : rows[r] = seqs[m][i]
    BY <2>0
  <2>2. RowIn(seqs[m][i], nodes, n, h[m])
    BY <1>2
  <2> QED
    BY <2>1, <2>2
<1>8. ASSUME NEW i \in 1 .. Len(seqs), NEW j \in 2 .. n + 1, Under(nodes, n, h[i], j)
      PROVE  Covered(rows, nodes, n, j)
  <2>1. Covered(seqs[i], nodes, n, j)
    BY <1>2, <1>8
  <2>2. PICK q \in 1 .. Len(seqs[i]), s \in 2 .. n + 1 :
          /\ seqs[i][q].source = nodes[s].id /\ seqs[i][q].start >= nodes[j].start
          /\ IsPrefix(nodes[j].id, nodes[s].id)
    BY <2>1 DEF Covered
  <2>3. PICK r \in 1 .. Len(rows) : rows[r] = seqs[i][q]
    BY <1>6
  <2> QED
    BY <2>2, <2>3 DEF Covered
<1>9. JoinedCuts(rows, seqs, nodes, n, carried, h)
  BY <1>5, <1>6, <1>7, <1>8 DEF JoinedCuts, S
<1> QED
  BY <1>9 DEF rows

LEMMA ArticleCut ==
    ASSUME NEW hs, NEW bs, NEW end, NEW n, NEW nodes, Tree(nodes, hs, bs, end, n), NEW carried,
           NEW a \in 2 .. n + 1, nodes[a].level = "article"
    PROVE  CutOf(CutArticle(nodes, doc, carried, nodes[a]), nodes, n, carried, a)
<1> DEFINE clauses == ChildNodes(nodes, nodes[a], "clause")
           one == BuildChunk(doc, carried, nodes[a], nodes[a], NoClause)
           seqs == [k \in DOMAIN clauses |-> CutClause(nodes, doc, carried, nodes[a], clauses[k])]
           rows == CutArticle(nodes, doc, carried, nodes[a])
<1>1. /\ Ordered(hs, bs, end) /\ n \in Nat /\ n = Len(hs) /\ TreeOK(nodes, hs, bs, end, n)
  BY DEF Tree
<1>2. Spans(nodes, n)
  BY SpansAre
<1>3. a \in 1 .. n + 1 /\ nodes[a].id \in Paths
  BY <1>1, <1>2 DEF Spans
<1>4. PICK h : Brood(clauses, nodes, n, a, "clause", h)
  BY <1>1, <1>3, BroodIs
<1>5. /\ Len(clauses) \in Nat /\ clauses = [i \in 1 .. Len(clauses) |-> nodes[h[i]]]
      /\ h \in [1 .. Len(clauses) -> 2 .. n + 1]
      /\ \A i \in 1 .. Len(clauses) : nodes[h[i]].parent = nodes[a].id /\ nodes[h[i]].level = "clause"
      /\ \A i, j \in 1 .. Len(clauses) : i < j => h[i] < h[j]
      /\ \A k \in 2 .. n + 1 : nodes[k].parent = nodes[a].id /\ nodes[k].level = "clause"
                                 => \E i \in 1 .. Len(clauses) : h[i] = k
  BY <1>4 DEF Brood
<1>6. /\ clauses = << >> => rows = <<one>>
      /\ clauses # << >> => rows = FlattenSeq(seqs)
  BY Zenon DEF CutArticle
<1>7. /\ one.source = nodes[a].id /\ one.level = nodes[a].level
      /\ one.start = nodes[a].start /\ one.end = nodes[a].end
      /\ one.article = nodes[a].id /\ one.article_number = nodes[a].num
      /\ one.article_start = nodes[a].start /\ one.article_end = nodes[a].end
  BY DEF BuildChunk
<1>8. one \in RowSet(nodes, n, carried)
  <2> DEFINE some == {nodes[k] : k \in 2 .. n + 1}
             t == <<nodes[a], nodes[a], NoClause>>
  <2>1. t \in some \X some \X ({NoClause} \cup some)
    OBVIOUS
  <2>2. t[1] = nodes[a] /\ t[2] = nodes[a] /\ t[3] = NoClause
    OBVIOUS
  <2> HIDE DEF t, some
  <2>3. one = BuildChunk(doc, carried, t[1], t[2], t[3])
    BY <2>2
  <2>4. BuildChunk(doc, carried, t[1], t[2], t[3])
          \in {BuildChunk(doc, carried, u[1], u[2], u[3]) : u \in some \X some \X ({NoClause} \cup some)}
    BY <2>1, Zenon
  <2> QED
    BY <2>3, <2>4 DEF RowSet, some
<1>9. /\ \A m \in 2 .. n + 1 : nodes[m].parent = nodes[a].id => nodes[m].level = "clause"
  <2>1. ASSUME NEW m \in 2 .. n + 1, nodes[m].parent = nodes[a].id
        PROVE  nodes[m].level = "clause"
    <3>1. m \in 1 .. n + 1
      BY <1>1
    <3>2. nodes[m].level \in AllowedChildLevels["article"]
      BY <1>1, <1>3, <2>1, <3>1, ParentHolds
    <3> QED
      BY <3>2 DEF AllowedChildLevels
  <2> QED
    BY <2>1
<1> HIDE DEF one
<1>10. CASE clauses = << >>
  <2> HIDE DEF clauses, rows, seqs
  <2>1. rows = <<one>> /\ Len(rows) = 1 /\ rows[1] = one
    BY <1>6, <1>10
  <2>2. Cites(one, nodes, n, a, a, a)
    BY <1>7 DEF Cites
  <2>3. RowIn(one, nodes, n, a)
    BY <1>2, <1>3, <1>7, <2>2 DEF RowIn, Row, Spans
  <2>4. rows \in Seq(RowSet(nodes, n, carried))
    <3> DEFINE S == RowSet(nodes, n, carried)
    <3> HIDE DEF S
    <3>1. one \in S
      BY <1>8 DEF S
    <3>2. rows \in Seq(S)
      BY <2>1, <3>1
    <3> QED
      BY <3>2 DEF S
  <2>5. InTurn(rows)
    BY <2>1 DEF InTurn
  <2>6. \A r \in 1 .. Len(rows) : RowIn(rows[r], nodes, n, a)
    BY <2>1, <2>3
  <2>7. Covered(rows, nodes, n, a)
    <3>1. IsPrefix(nodes[a].id, nodes[a].id)
      BY <1>3, PrefixSelf DEF Paths
    <3>2. rows[1].source = nodes[a].id /\ rows[1].start >= nodes[a].start
      BY <1>2, <1>3, <1>7, <2>1 DEF Spans
    <3>3. 1 \in 1 .. Len(rows)
      BY <2>1
    <3> QED
      BY <3>1, <3>2, <3>3 DEF Covered
  <2>8. ASSUME NEW j \in 2 .. n + 1, nodes[j].parent = nodes[a].id
        PROVE  FALSE
    <3>1. PICK i \in 1 .. Len(clauses) : h[i] = j
      BY <1>5, <1>9, <2>8
    <3> QED
      BY <1>10, <3>1
  <2>9. ASSUME NEW j \in 2 .. n + 1, Under(nodes, n, a, j)
        PROVE  Covered(rows, nodes, n, j)
    BY <2>7, <2>8, <2>9 DEF Under
  <2>10. CutOf(rows, nodes, n, carried, a)
    BY <2>4, <2>5, <2>6, <2>9 DEF CutOf
  <2> QED
    BY <2>10 DEF rows
<1>11. CASE clauses # << >>
  <2>0. Len(clauses) >= 1 /\ DOMAIN clauses = 1 .. Len(clauses)
    BY <1>5, <1>11
  <2>1. seqs = [k \in 1 .. Len(clauses) |-> CutClause(nodes, doc, carried, nodes[a], clauses[k])]
    BY <2>0
  <2>2. rows = FlattenSeq(seqs)
    BY <1>6, <1>11
  <2> HIDE DEF clauses, rows, seqs
  <2>3. /\ Len(seqs) = Len(clauses) /\ DOMAIN seqs = 1 .. Len(seqs)
        /\ \A k \in 1 .. Len(clauses) : seqs[k] = CutClause(nodes, doc, carried, nodes[a], clauses[k])
    BY <1>5, <2>1
  <2>4. seqs = [k \in 1 .. Len(seqs) |-> seqs[k]]
    BY <2>1, <2>3
  <2>5. ASSUME NEW i \in 1 .. Len(seqs)
        PROVE  CutOf(seqs[i], nodes, n, carried, h[i])
    <3>1. clauses[i] = nodes[h[i]] /\ h[i] \in 2 .. n + 1
      BY <1>5, <2>3
    <3>2. nodes[h[i]].level = "clause" /\ nodes[h[i]].parent = nodes[a].id
      BY <1>5, <2>3
    <3>3. CutOf(CutClause(nodes, doc, carried, nodes[a], nodes[h[i]]), nodes, n, carried, h[i])
      BY <3>1, <3>2, ClauseCut
    <3> QED
      BY <2>3, <3>1, <3>3
  <2>6. ASSUME NEW i \in 1 .. Len(seqs), NEW j \in 1 .. Len(seqs), i < j
        PROVE  nodes[h[i]].end <= nodes[h[j]].start
    <3>1. /\ h[i] \in 2 .. n + 1 /\ h[j] \in 2 .. n + 1 /\ h[i] < h[j]
          /\ nodes[h[i]].parent = nodes[a].id /\ nodes[h[j]].parent = nodes[a].id
      BY <1>5, <2>3, <2>6
    <3> QED
      BY <1>1, <1>3, <3>1, NodesApart
  <2>7. Len(seqs) \in Nat /\ h \in [1 .. Len(seqs) -> 2 .. n + 1]
    BY <1>5, <2>3
  <2>8. CutsOf(seqs, nodes, n, carried, h)
    BY <2>3, <2>4, <2>5, <2>6, <2>7 DEF CutsOf
  <2>9. JoinedCuts(rows, seqs, nodes, n, carried, h)
    BY <1>1, <1>2, <2>2, <2>8, JoinCuts
  <2>10. /\ rows \in Seq(RowSet(nodes, n, carried))
         /\ InTurn(rows) /\ Len(rows) \in Nat
         /\ \A r \in 1 .. Len(rows) : \E i \in 1 .. Len(seqs) : RowIn(rows[r], nodes, n, h[i])
         /\ \A i \in 1 .. Len(seqs) : \A j \in 2 .. n + 1 : Under(nodes, n, h[i], j) => Covered(rows, nodes, n, j)
    BY <2>9 DEF JoinedCuts
  <2>11. ASSUME NEW r \in 1 .. Len(rows)
         PROVE  RowIn(rows[r], nodes, n, a)
    <3>1. PICK i \in 1 .. Len(seqs) : RowIn(rows[r], nodes, n, h[i])
      BY <2>10
    <3>2. h[i] \in 1 .. n + 1 /\ nodes[h[i]].parent = nodes[a].id
      BY <1>1, <1>5, <2>3
    <3>3. Encloses(nodes[a], nodes[h[i]])
      BY <1>1, <1>3, <3>2, ParentHolds
    <3>4. Row(rows[r], nodes, n) /\ nodes[h[i]].start <= rows[r].start /\ rows[r].end <= nodes[h[i]].end
      BY <3>1 DEF RowIn
    <3>5. rows[r].start \in Nat /\ rows[r].end \in Nat
      BY <1>1, <1>2, <3>4, RowSpan
    <3>6. /\ nodes[a].start \in Nat /\ nodes[a].end \in Nat
          /\ nodes[h[i]].start \in Nat /\ nodes[h[i]].end \in Nat
      BY <1>2, <1>3, <3>2 DEF Spans
    <3>7. nodes[a].start <= rows[r].start /\ rows[r].end <= nodes[a].end
      BY <3>3, <3>4, <3>5, <3>6, SMTT(30) DEF Encloses
    <3> QED
      BY <3>4, <3>7 DEF RowIn
  <2>12. \A r \in 1 .. Len(rows) : Row(rows[r], nodes, n)
    BY <2>11 DEF RowIn
  <2>13. ASSUME NEW m \in 2 .. n + 1, nodes[m].parent = nodes[a].id
         PROVE  \E i \in 1 .. Len(seqs) : h[i] = m
    BY <1>5, <1>9, <2>3, <2>13
  <2>14. ASSUME NEW j \in 2 .. n + 1, NEW m \in 2 .. n + 1, nodes[m].parent = nodes[a].id,
                Under(nodes, n, m, j)
         PROVE  Covered(rows, nodes, n, j)
    <3>1. PICK i \in 1 .. Len(seqs) : h[i] = m
      BY <2>13, <2>14
    <3> QED
      BY <2>10, <2>14, <3>1
  <2>15. Covered(rows, nodes, n, a)
    <3>1. /\ 1 \in 1 .. Len(clauses) /\ h[1] \in 2 .. n + 1 /\ nodes[h[1]].parent = nodes[a].id
      BY <1>5, <2>0
    <3>2. Under(nodes, n, h[1], h[1])
      BY DEF Under
    <3>3. Covered(rows, nodes, n, h[1])
      BY <2>14, <3>1, <3>2
    <3> QED
      BY <1>3, <2>12, <3>1, <3>3, CoversUp
  <2>16. ASSUME NEW j \in 2 .. n + 1, Under(nodes, n, a, j)
         PROVE  Covered(rows, nodes, n, j)
    <3>1. CASE j = a
      BY <2>15, <3>1
    <3>2. CASE nodes[j].parent = nodes[a].id
      <4>1. Under(nodes, n, j, j)
        BY DEF Under
      <4> QED
        BY <2>14, <3>2, <4>1
    <3>3. ASSUME NEW m \in 2 .. n + 1, nodes[m].parent = nodes[a].id, nodes[j].parent = nodes[m].id
          PROVE  Covered(rows, nodes, n, j)
      <4>1. Under(nodes, n, m, j)
        BY <3>3 DEF Under
      <4> QED
        BY <2>14, <3>3, <4>1
    <3> QED
      BY <2>16, <3>1, <3>2, <3>3 DEF Under
  <2>17. CutOf(rows, nodes, n, carried, a)
    BY <2>10, <2>11, <2>16 DEF CutOf
  <2> QED
    BY <2>17 DEF rows
<1> QED
  BY <1>10, <1>11

\* What is cut of the whole tree.
WholeCut(rows, nodes, n) ==
  /\ Len(rows) \in Nat /\ DOMAIN rows = 1 .. Len(rows) /\ InTurn(rows)
  /\ \A r \in 1 .. Len(rows) : Row(rows[r], nodes, n)
  /\ \A j \in 2 .. n + 1 : nodes[j].level \in {"article", "clause", "point"} => Covered(rows, nodes, n, j)

\* A clause hangs below an article, a point below a clause.
LEMMA HolderOf ==
    ASSUME NEW hs, NEW bs, NEW end, NEW n, NEW nodes, Tree(nodes, hs, bs, end, n),
           NEW j \in 2 .. n + 1
    PROVE  /\ nodes[j].level = "clause" =>
                \E p \in 2 .. n + 1 : nodes[p].level = "article" /\ nodes[j].parent = nodes[p].id
           /\ nodes[j].level = "point" =>
                \E p \in 2 .. n + 1 : nodes[p].level = "clause" /\ nodes[j].parent = nodes[p].id
<1>1. /\ Ordered(hs, bs, end) /\ n \in Nat /\ n = Len(hs) /\ TreeOK(nodes, hs, bs, end, n)
  BY DEF Tree
<1>2. j \in 1 .. n + 1 /\ j # 1
  BY <1>1
<1>3. ParentFacts(nodes, hs, n, j)
  BY <1>1, <1>2, ParentIn
<1>4. PICK p \in 1 .. j - 1 : nodes[j].parent = nodes[p].id
  BY <1>2, <1>3 DEF ParentFacts
<1>5. p \in 1 .. n + 1
  BY <1>1, <1>2
<1>6. nodes[j].level \in AllowedChildLevels[nodes[p].level]
  BY <1>1, <1>2, <1>4, <1>5, ParentHolds
<1>7. LevelsMatch(nodes, hs, n)
  BY <1>1, LevelOf DEF TreeOK
<1>8. nodes[p].level \in {"law", "part", "chapter", "section", "article", "clause", "point"}
  <2>1. p = 1 \/ (p # 1 /\ p - 1 \in 1 .. Len(hs))
    BY <1>1, <1>5
  <2>2. p # 1 => hs[p - 1].level \in DOMAIN MayHold
    BY <1>1, <2>1, LevelType
  <2>3. nodes[p].level = IF p = 1 THEN "law" ELSE hs[p - 1].level
    BY <1>5, <1>7 DEF LevelsMatch, LevelAt
  <2> QED
    BY <2>2, <2>3, HeadingLevels
<1>9. /\ nodes[j].level = "clause" => nodes[p].level = "article"
      /\ nodes[j].level = "point" => nodes[p].level = "clause"
  BY <1>6, <1>8 DEF AllowedChildLevels
<1>10. nodes[p].level # "law" => p \in 2 .. n + 1
  <2>0. NodeFacts(nodes, end, n)
    BY <1>1, TreeNodes
  <2>1. p = 1 => nodes[p].level = "law"
    BY <2>0 DEF NodeFacts
  <2> QED
    BY <1>5, <2>1
<1> QED
  BY <1>4, <1>9, <1>10

LEMMA WholeCutIs ==
    ASSUME NEW hs, NEW bs, NEW end, NEW n, NEW nodes, Tree(nodes, hs, bs, end, n), NEW carried
    PROVE  WholeCut(Cut(nodes, doc, carried), nodes, n)
<1> DEFINE articles == Kept(nodes, Articles(nodes))
           seqs == [k \in DOMAIN articles |-> CutArticle(nodes, doc, carried, articles[k])]
           rows == Cut(nodes, doc, carried)
<1>1. /\ Ordered(hs, bs, end) /\ n \in Nat /\ n = Len(hs) /\ TreeOK(nodes, hs, bs, end, n)
  BY DEF Tree
<1>2. Spans(nodes, n)
  BY SpansAre
<1>3. DOMAIN nodes = 1 .. n + 1 /\ Len(nodes) = n + 1 /\ nodes[1].level = "law"
  <2>1. NodeFacts(nodes, end, n)
    BY <1>1, TreeNodes
  <2> QED
    BY <2>1 DEF NodeFacts
<1>4. Len(nodes) \in Nat
  BY <1>1, <1>3
<1>5. PICK h : Keeps(articles, nodes, Articles(nodes), Len(nodes), h)
  BY <1>4, KeptIs
<1>6. /\ Len(articles) \in Nat /\ articles = [i \in 1 .. Len(articles) |-> nodes[h[i]]]
      /\ h \in [1 .. Len(articles) -> 1 .. n + 1]
      /\ \A i \in 1 .. Len(articles) : h[i] \in Articles(nodes)
      /\ \A i, j \in 1 .. Len(articles) : i < j => h[i] < h[j]
      /\ \A k \in 1 .. n + 1 : k \in Articles(nodes) => \E i \in 1 .. Len(articles) : h[i] = k
  BY <1>3, <1>5 DEF Keeps
<1>7. rows = FlattenSeq(seqs)
  BY Zenon DEF Cut
<1>8. DOMAIN articles = 1 .. Len(articles)
  BY <1>6
<1>9. seqs = [k \in 1 .. Len(articles) |-> CutArticle(nodes, doc, carried, articles[k])]
  BY <1>8
<1> HIDE DEF articles, seqs, rows
<1>10. /\ Len(seqs) = Len(articles) /\ DOMAIN seqs = 1 .. Len(seqs)
       /\ \A k \in 1 .. Len(articles) : seqs[k] = CutArticle(nodes, doc, carried, articles[k])
  BY <1>6, <1>9
<1>11. seqs = [k \in 1 .. Len(seqs) |-> seqs[k]]
  BY <1>9, <1>10
<1>12. ASSUME NEW i \in 1 .. Len(seqs)
       PROVE  h[i] \in 2 .. n + 1 /\ nodes[h[i]].level = "article"
  <2>1. h[i] \in Articles(nodes) /\ h[i] \in 1 .. n + 1
    BY <1>6, <1>10
  <2>2. nodes[h[i]].level = "article"
    BY <2>1 DEF Articles
  <2>3. h[i] # 1
    BY <1>3, <2>2
  <2> QED
    BY <1>1, <2>1, <2>2, <2>3
<1>13. h \in [1 .. Len(seqs) -> 2 .. n + 1]
  BY <1>6, <1>10, <1>12
<1>14. ASSUME NEW i \in 1 .. Len(seqs)
       PROVE  CutOf(seqs[i], nodes, n, carried, h[i])
  <2>1. articles[i] = nodes[h[i]]
    BY <1>6, <1>10
  <2>2. CutOf(CutArticle(nodes, doc, carried, nodes[h[i]]), nodes, n, carried, h[i])
    BY <1>12, ArticleCut
  <2> QED
    BY <1>10, <2>1, <2>2
<1>15. ASSUME NEW i \in 1 .. Len(seqs), NEW j \in 1 .. Len(seqs), i < j
       PROVE  nodes[h[i]].end <= nodes[h[j]].start
  <2>1. h[i] \in 2 .. n + 1 /\ h[j] \in 2 .. n + 1 /\ h[i] < h[j]
    BY <1>6, <1>10, <1>12, <1>15
  <2> DEFINE a == h[i] - 1
             b == h[j] - 1
  <2>2. a \in 1 .. Len(hs) /\ b \in a + 1 .. Len(hs) /\ a + 1 = h[i] /\ b + 1 = h[j] /\ b \in 1 .. Len(hs)
    <3> DEFINE x == h[i]  y == h[j]
    <3>1. n \in Nat /\ n = Len(hs)
      BY <1>1
    <3>2. x \in 2 .. n + 1 /\ y \in 2 .. n + 1 /\ x < y /\ a = x - 1 /\ b = y - 1
      BY <2>1
    <3> HIDE DEF x, y, a, b
    <3>3. a \in 1 .. n /\ b \in a + 1 .. n /\ a + 1 = x /\ b + 1 = y /\ b \in 1 .. n
      BY <3>1, <3>2
    <3> QED
      BY <3>1, <3>3 DEF x, y
  <2> HIDE DEF a, b
  <2>3. NodesOK(nodes, hs, bs, end, n)
    BY <1>1 DEF TreeOK
  <2>4. /\ nodes[a + 1].level = hs[a].level /\ nodes[a + 1].end = EndOf(a, hs, bs, end)
        /\ nodes[b + 1].level = hs[b].level /\ nodes[b + 1].start = hs[b].at
    BY <1>1, <2>2, <2>3 DEF NodesOK
  <2>5. hs[a].level = "article" /\ hs[b].level = "article"
    BY <1>12, <2>2, <2>4
  <2>6. Rank(hs[b].level) <= Rank(hs[a].level)
    BY <2>5, RankIs
  <2>7. EndOf(a, hs, bs, end) <= hs[b].at
    BY <1>1, <2>2, <2>6, SpanIs
  <2> QED
    BY <2>2, <2>4, <2>7
<1>16. CutsOf(seqs, nodes, n, carried, h)
  BY <1>6, <1>10, <1>11, <1>13, <1>14, <1>15 DEF CutsOf
<1>17. JoinedCuts(rows, seqs, nodes, n, carried, h)
  BY <1>1, <1>2, <1>7, <1>16, JoinCuts
<1>18. /\ rows \in Seq(RowSet(nodes, n, carried))
       /\ InTurn(rows) /\ Len(rows) \in Nat
       /\ \A r \in 1 .. Len(rows) : \E i \in 1 .. Len(seqs) : RowIn(rows[r], nodes, n, h[i])
       /\ \A i \in 1 .. Len(seqs) : \A j \in 2 .. n + 1 : Under(nodes, n, h[i], j) => Covered(rows, nodes, n, j)
  BY <1>17 DEF JoinedCuts
<1>19. DOMAIN rows = 1 .. Len(rows)
  <2> DEFINE S == RowSet(nodes, n, carried)
  <2> HIDE DEF S
  <2>1. rows \in Seq(S)
    BY <1>18 DEF S
  <2> QED
    BY <2>1
<1>20. \A r \in 1 .. Len(rows) : Row(rows[r], nodes, n)
  BY <1>18 DEF RowIn
<1>21. ASSUME NEW a \in 2 .. n + 1, nodes[a].level = "article", NEW j \in 2 .. n + 1, Under(nodes, n, a, j)
       PROVE  Covered(rows, nodes, n, j)
  <2>1. a \in 1 .. n + 1 /\ a \in Articles(nodes)
    BY <1>1, <1>3, <1>21 DEF Articles
  <2>2. PICK i \in 1 .. Len(seqs) : h[i] = a
    BY <1>6, <1>10, <2>1
  <2> QED
    BY <1>18, <1>21, <2>2
<1>22. ASSUME NEW j \in 2 .. n + 1, nodes[j].level \in {"article", "clause", "point"}
       PROVE  Covered(rows, nodes, n, j)
  <2>1. CASE nodes[j].level = "article"
    <3>1. Under(nodes, n, j, j)
      BY DEF Under
    <3> QED
      BY <1>21, <2>1, <3>1
  <2>2. CASE nodes[j].level = "clause"
    <3>1. PICK p \in 2 .. n + 1 : nodes[p].level = "article" /\ nodes[j].parent = nodes[p].id
      BY <2>2, HolderOf
    <3>2. Under(nodes, n, p, j)
      BY <3>1 DEF Under
    <3> QED
      BY <1>21, <3>1, <3>2
  <2>3. CASE nodes[j].level = "point"
    <3>1. PICK c \in 2 .. n + 1 : nodes[c].level = "clause" /\ nodes[j].parent = nodes[c].id
      BY <2>3, HolderOf
    <3>2. PICK p \in 2 .. n + 1 : nodes[p].level = "article" /\ nodes[c].parent = nodes[p].id
      BY <3>1, HolderOf
    <3>3. Under(nodes, n, p, j)
      BY <3>1, <3>2 DEF Under
    <3> QED
      BY <1>21, <3>2, <3>3
  <2> QED
    BY <1>22, <2>1, <2>2, <2>3
<1>23. WholeCut(rows, nodes, n)
  BY <1>18, <1>19, <1>20, <1>22 DEF WholeCut
<1> QED
  BY <1>23 DEF rows

\* What is linked to holds where one starts and what is one link away.
LEMMA LinkedHolds ==
    ASSUME NEW from, NEW links, NEW N \in Nat \ {0}
    PROVE  /\ from \subseteq Linked(from, links, N)
           /\ \A id \in from \cap DOMAIN links : links[id] \subseteq Linked(from, links, N)
<1>1. PICK f : /\ f[0] = from
               /\ \A j \in 1 .. N : f[j] = f[j - 1] \cup UNION {links[id] : id \in f[j - 1] \cap DOMAIN links}
               /\ Linked(from, links, N) = f[N]
  BY LinkedDef
<1>2. f[1] = f[0] \cup UNION {links[id] : id \in f[0] \cap DOMAIN links}
  <2>1. 1 \in 1 .. N /\ 1 - 1 = 0
    OBVIOUS
  <2> QED
    BY <1>1, <2>1
<1> DEFINE Good(j) == f[1] \subseteq f[j]
           T == {j \in Nat : 1 <= j /\ j <= N /\ ~ Good(j)}
<1>3. T = {}
  <2> SUFFICES ASSUME T # {} PROVE FALSE
    OBVIOUS
  <2>1. PICK m \in T : \A k \in T : m <= k
    BY LeastNumber
  <2>2. m # 1
    BY <2>1
  <2>3. m \in 1 .. N /\ m - 1 \in Nat /\ 1 <= m - 1 /\ m - 1 <= N /\ m - 1 \notin T
    BY <2>1, <2>2
  <2>4. f[1] \subseteq f[m - 1]
    BY <2>3
  <2>5. f[m - 1] \subseteq f[m]
    BY <1>1, <2>3
  <2> QED
    BY <2>1, <2>4, <2>5
<1>4. f[1] \subseteq f[N]
  BY <1>3
<1> QED
  BY <1>1, <1>2, <1>4

\* The article of a chunk is above its unit.
LEMMA ArticleAbove ==
    ASSUME NEW hs, NEW bs, NEW end, NEW n, NEW nodes, Tree(nodes, hs, bs, end, n),
           NEW row, NEW a, NEW c, NEW s, Cites(row, nodes, n, a, c, s), s # a
    PROVE  nodes[a].id \in Ancestors(nodes, nodes[s]) /\ Encloses(nodes[a], nodes[s])
<1>1. /\ Ordered(hs, bs, end) /\ n \in Nat /\ n = Len(hs) /\ TreeOK(nodes, hs, bs, end, n)
  BY DEF Tree
<1>2. Shape(nodes, n)
  BY <1>1, ShapeIs
<1>3. Spans(nodes, n)
  BY SpansAre
<1>4. /\ a \in 1 .. n + 1 /\ c \in 1 .. n + 1 /\ s \in 1 .. n + 1
      /\ nodes[c].parent = nodes[a].id
      /\ s = c \/ nodes[s].parent = nodes[c].id
  BY <1>1 DEF Cites
<1>5. /\ Len(nodes) = n + 1 /\ Ids(nodes) = {nodes[k].id : k \in 1 .. n + 1}
      /\ Named(nodes, nodes[c].id) = nodes[c]
  BY <1>2, <1>4 DEF Shape
<1> DEFINE links == [id \in Ids(nodes) |-> {Named(nodes, id).parent}]
           from == {nodes[s].parent}
<1>6. nodes[c].id \in DOMAIN links /\ links[nodes[c].id] = {nodes[a].id}
  BY <1>4, <1>5
<1>7. Ancestors(nodes, nodes[s]) = Linked(from, links, n + 1)
  BY <1>5 DEF Ancestors
<1>8. nodes[a].id \in from \/ nodes[c].id \in from
  BY <1>4
<1> HIDE DEF links, from
<1>9. n + 1 \in Nat \ {0}
  BY <1>1
<1>10. /\ from \subseteq Linked(from, links, n + 1)
       /\ \A id \in from \cap DOMAIN links : links[id] \subseteq Linked(from, links, n + 1)
  BY <1>9, LinkedHolds
<1>11. nodes[a].id \in Linked(from, links, n + 1)
  BY <1>6, <1>8, <1>10
<1>12. Encloses(nodes[a], nodes[c])
  BY <1>1, <1>4, ParentHolds
<1>13. s # c => Encloses(nodes[c], nodes[s])
  BY <1>1, <1>4, ParentHolds
<1>14. /\ nodes[a].start \in Nat /\ nodes[c].start \in Nat /\ nodes[s].start \in Nat
       /\ nodes[a].end \in Nat /\ nodes[c].end \in Nat /\ nodes[s].end \in Nat
  BY <1>3, <1>4 DEF Spans
<1>15. Encloses(nodes[a], nodes[s])
  <2>1. CASE s = c
    BY <1>12, <2>1
  <2>2. CASE s # c
    <3> DEFINE x == nodes[a].start
               y == nodes[c].start
               z == nodes[s].start
               u == nodes[a].end
               v == nodes[c].end
               w == nodes[s].end
    <3>1. x <= y /\ y <= z /\ w <= v /\ v <= u
      BY <1>12, <1>13, <2>2 DEF Encloses
    <3>2. x \in Nat /\ y \in Nat /\ z \in Nat /\ u \in Nat /\ v \in Nat /\ w \in Nat
      BY <1>14
    <3> HIDE DEF x, y, z, u, v, w
    <3>3. x <= z /\ w <= u
      BY <3>1, <3>2
    <3> QED
      BY <3>3 DEF x, z, w, u, Encloses
  <2> QED
    BY <2>1, <2>2
<1> QED
  BY <1>7, <1>11, <1>15

\* The chunk validator has nothing against such a row.
LEMMA NoFaults ==
    ASSUME NEW hs, NEW bs, NEW end, NEW n, NEW nodes, Tree(nodes, hs, bs, end, n),
           NEW row, Row(row, nodes, n)
    PROVE  ChunkFaults(nodes, row) = {}
<1>1. /\ Ordered(hs, bs, end) /\ n \in Nat /\ n = Len(hs) /\ TreeOK(nodes, hs, bs, end, n)
  BY DEF Tree
<1>2. Shape(nodes, n)
  BY <1>1, ShapeIs
<1>3. Spans(nodes, n)
  BY SpansAre
<1>4. PICK a, c, s : Cites(row, nodes, n, a, c, s)
  BY DEF Row
<1>5. /\ a \in 1 .. n + 1 /\ s \in 1 .. n + 1
      /\ row.source = nodes[s].id /\ row.level = nodes[s].level
      /\ row.start = nodes[s].start /\ row.end = nodes[s].end
      /\ row.article = nodes[a].id
      /\ row.article_start = nodes[a].start /\ row.article_end = nodes[a].end
      /\ nodes[a].level = "article"
      /\ nodes[s].level \in {"article", "clause", "point"}
      /\ nodes[s].level = "article" => s = a
  BY <1>1, <1>4 DEF Cites
<1>6. /\ Named(nodes, row.source) = nodes[s] /\ Named(nodes, row.article) = nodes[a]
      /\ row.source \in Ids(nodes) /\ DOMAIN nodes = 1 .. n + 1
  BY <1>2, <1>5 DEF Shape
<1>7. a \in Articles(nodes) /\ nodes[a].id = row.article
  BY <1>5, <1>6 DEF Articles
<1>8. LevelFits(row, nodes[s])
  BY <1>5 DEF LevelFits
<1>9. s # a => nodes[a].id \in Ancestors(nodes, nodes[s]) /\ Encloses(nodes[a], nodes[s])
  BY <1>4, ArticleAbove
<1>10. Encloses(nodes[a], nodes[s])
  <2>1. CASE s = a
    BY <1>3, <1>5, <2>1 DEF Encloses, Spans
  <2> QED
    BY <1>9, <2>1
<1>11. OffsetsFit(row, nodes[s], nodes[a])
  BY <1>5, <1>10 DEF OffsetsFit, Encloses
<1>12. LineageFits(nodes, nodes[s], nodes[a])
  BY <1>5, <1>9 DEF LineageFits
<1> QED
  BY <1>6, <1>7, <1>8, <1>11, <1>12 DEF ChunkFaults

\* The rows of one law have different sources.
LEMMA NoDuplicates ==
    ASSUME NEW hs, NEW bs, NEW end, NEW n, NEW nodes, Tree(nodes, hs, bs, end, n),
           NEW rows, WholeCut(rows, nodes, n)
    PROVE  DuplicateChunkIds(rows) = FALSE
<1>0. n \in Nat /\ TreeOK(nodes, hs, bs, end, n)
  BY DEF Tree
<1>1. Spans(nodes, n)
  BY SpansAre
<1>2. /\ Len(rows) \in Nat /\ DOMAIN rows = 1 .. Len(rows)
      /\ \A r \in 1 .. Len(rows) : Row(rows[r], nodes, n)
  BY DEF WholeCut
<1>3. \A i, j \in 1 .. Len(rows) : i < j => rows[i].end <= rows[j].start
  BY DEF WholeCut, InTurn
<1>4. Shape(nodes, n)
  BY <1>0, ShapeIs
<1>5. ASSUME NEW i \in 1 .. Len(rows), NEW j \in 1 .. Len(rows), rows[i].source = rows[j].source
      PROVE  rows[i].start = rows[j].start
  <2>1. PICK a, c, s : Cites(rows[i], nodes, n, a, c, s)
    BY <1>2 DEF Row
  <2>2. PICK b, d, t : Cites(rows[j], nodes, n, b, d, t)
    BY <1>2 DEF Row
  <2>3. s \in 1 .. n + 1 /\ rows[i].source = nodes[s].id /\ rows[i].start = nodes[s].start
    BY <1>0, <2>1 DEF Cites
  <2>4. t \in 1 .. n + 1 /\ rows[j].source = nodes[t].id /\ rows[j].start = nodes[t].start
    BY <1>0, <2>2 DEF Cites
  <2>5. s = t
    BY <1>4, <1>5, <2>3, <2>4 DEF Shape
  <2> QED
    BY <2>3, <2>4, <2>5
<1>6. ASSUME NEW i \in 1 .. Len(rows), NEW j \in 1 .. Len(rows), i < j
      PROVE  rows[i].start # rows[j].start
  <2>1. rows[i].start \in Nat /\ rows[i].end \in Nat /\ rows[i].start < rows[i].end
    BY <1>0, <1>1, <1>2, RowSpan
  <2>2. rows[j].start \in Nat
    BY <1>0, <1>1, <1>2, RowSpan
  <2>3. rows[i].end <= rows[j].start
    BY <1>3, <1>6
  <2> QED
    BY <2>1, <2>2, <2>3
<1>7. ASSUME NEW i \in 1 .. Len(rows), NEW j \in 1 .. Len(rows), rows[i].source = rows[j].source
      PROVE  i = j
  <2>1. rows[i].start = rows[j].start
    BY <1>5, <1>7
  <2>2. ~ (i < j) /\ ~ (j < i)
    BY <1>6, <2>1
  <2> QED
    BY <1>2, <2>2
<1> DEFINE f == [k \in 1 .. Len(rows) |-> rows[k].source]
           sources == {rows[k].source : k \in 1 .. Len(rows)}
<1>8. f \in Surjection(1 .. Len(rows), sources)
  BY DEF Surjection
<1>9. f \in Injection(1 .. Len(rows), sources)
  BY <1>7 DEF Injection, IsInjective
<1>10. sources = {rows[k].source : k \in DOMAIN rows}
  BY <1>2
<1> HIDE DEF f, sources
<1>11. IsFiniteSet(1 .. Len(rows)) /\ Cardinality(1 .. Len(rows)) = Len(rows)
  BY <1>2, FS_Interval, SMTT(30)
<1>12. Cardinality(sources) = Len(rows)
  BY <1>8, <1>9, <1>11, FS_Surjection
<1> QED
  BY <1>10, <1>12 DEF DuplicateChunkIds

LEMMA NoChunkErrors ==
    ASSUME NEW hs, NEW bs, NEW end, NEW n, NEW nodes, Tree(nodes, hs, bs, end, n),
           NEW rows, WholeCut(rows, nodes, n)
    PROVE  ChunkErrors(nodes, rows) = {}
<1>1. DuplicateChunkIds(rows) = FALSE
  BY NoDuplicates
<1>2. ASSUME NEW k \in DOMAIN rows
      PROVE  ChunkFaults(nodes, rows[k]) = {}
  <2>1. Row(rows[k], nodes, n)
    BY <1>2 DEF WholeCut
  <2> QED
    BY <2>1, NoFaults
<1>3. UNION {ChunkFaults(nodes, rows[k]) : k \in DOMAIN rows} = {}
  BY <1>2
<1> QED
  BY <1>1, <1>3 DEF ChunkErrors

\* Two units of the same level do not stand at once.
LEMMA OneStands ==
    ASSUME NEW hs, NEW bs, NEW end, Ordered(hs, bs, end), NEW m \in 0 .. Len(hs),
           NEW p \in 1 .. m, NEW q \in 1 .. m, hs[p].level = hs[q].level,
           Standing(hs, p, m), Standing(hs, q, m)
    PROVE  p = q
<1>1. Len(hs) \in Nat
  BY DEF Ordered
<1>2. p \in 1 .. Len(hs) /\ q \in 1 .. Len(hs)
  BY <1>1
<1>3. hs[p].level \in DOMAIN MayHold
  BY <1>2, LevelType
<1>4. Rank(hs[p].level) \in 2 .. 7
  BY <1>3, RankType
<1>5. CASE p < q
  <2>1. q \in p + 1 .. m
    BY <1>1, <1>5
  <2>2. Rank(hs[q].level) > Rank(hs[p].level)
    BY <2>1 DEF Standing
  <2> QED
    BY <1>4, <2>2
<1>6. CASE q < p
  <2>1. p \in q + 1 .. m
    BY <1>1, <1>6
  <2>2. Rank(hs[p].level) > Rank(hs[q].level)
    BY <2>1 DEF Standing
  <2> QED
    BY <1>4, <2>2
<1> QED
  BY <1>1, <1>5, <1>6

\* The unit that stands is the one the recognizer was reading.
LEMMA StandsIs ==
    ASSUME NEW hs, NEW bs, NEW end, Ordered(hs, bs, end), NEW m \in 0 .. Len(hs),
           NEW p \in 1 .. m, Standing(hs, p, m), NEW num, Stands(hs, hs[p].level, num, m)
    PROVE  hs[p].num = num
<1>1. PICK q \in 1 .. m : hs[q].level = hs[p].level /\ hs[q].num = num /\ Standing(hs, q, m)
  BY DEF Stands
<1>2. p = q
  BY <1>1, OneStands
<1> QED
  BY <1>1, <1>2

\* The unit k hangs below the node p, which stood when k came.
Hangs(hs, p, k) == /\ p - 1 \in 1 .. k - 1 /\ k \in 1 .. Len(hs)
                   /\ Standing(hs, p - 1, k - 1)
LEMMA HangsBelow ==
    ASSUME NEW hs, NEW bs, NEW end, NEW n, NEW nodes, Tree(nodes, hs, bs, end, n),
           NEW p \in 2 .. n + 1, NEW j \in 2 .. n + 1, nodes[j].parent = nodes[p].id
    PROVE  Hangs(hs, p, j - 1)
<1>1. /\ Ordered(hs, bs, end) /\ n \in Nat /\ n = Len(hs) /\ TreeOK(nodes, hs, bs, end, n)
  BY DEF Tree
<1>2. p \in 1 .. n + 1 /\ j \in 1 .. n + 1 /\ p # 1 /\ p \in Nat /\ j \in Nat
  BY <1>1
<1>3. ParentFacts(nodes, hs, n, j)
  BY <1>1, <1>2, ParentIn
<1>4. p < j /\ ParentIs(nodes, hs, j - 1, p)
  BY <1>2, <1>3 DEF ParentFacts
<1>5. HoldsNext(hs, hs[j - 1].level, j - 1 - 1, p)
  BY <1>4 DEF ParentIs
<1>6. Standing(hs, p - 1, j - 1 - 1)
  BY <1>2, <1>5 DEF HoldsNext
<1>7. p - 1 \in 1 .. j - 1 - 1 /\ j - 1 \in 1 .. Len(hs)
  <2>1. n = Len(hs) /\ n \in Nat
    BY <1>1
  <2> QED
    BY <1>2, <1>4, <2>1
<1> QED
  BY <1>6, <1>7 DEF Hangs

\* An article that stood when a clause came stands as long as the clause does.
LEMMA StandsThrough ==
    ASSUME NEW hs, NEW bs, NEW end, Ordered(hs, bs, end), NEW k \in 1 .. Len(hs),
           NEW c \in 1 .. k - 1, NEW a \in 1 .. c - 1,
           hs[a].level = "article", hs[c].level = "clause",
           Standing(hs, a, c - 1), Standing(hs, c, k - 1)
    PROVE  Standing(hs, a, k - 1)
<1> SUFFICES ASSUME NEW j \in a + 1 .. k - 1
             PROVE  Rank(hs[j].level) > Rank("article")
  BY DEF Standing
<1>1. Len(hs) \in Nat
  BY DEF Ordered
<1>2. Rank("article") = 5 /\ Rank("clause") = 6
  BY RankIs
<1>3. j \in 1 .. Len(hs)
  BY <1>1
<1>4. Rank(hs[j].level) \in 2 .. 7
  BY <1>3, LevelType, RankType
<1>5. CASE j < c
  <2>1. j \in a + 1 .. c - 1
    BY <1>1, <1>5
  <2> QED
    BY <2>1 DEF Standing
<1>6. CASE j = c
  BY <1>2, <1>6
<1>7. CASE j > c
  <2>1. j \in c + 1 .. k - 1
    BY <1>1, <1>7
  <2>2. Rank(hs[j].level) > 6
    BY <1>2, <2>1 DEF Standing
  <2> QED
    BY <1>2, <1>4, <2>2
<1> QED
  BY <1>1, <1>5, <1>6, <1>7

\* What a row cites is what the heading of its line says.
CitedAsRead(hs, row, s) ==
  /\ s \in 1 .. Len(hs) /\ row.start = hs[s].at
  /\ row.level \in {"clause", "point"} => hs[s].article = row.article_number
  /\ row.level = "point" => hs[s].clause = row.clause_number
LEMMA CitedIs ==
    ASSUME NEW hs, NEW bs, NEW end, NEW n, NEW nodes, Tree(nodes, hs, bs, end, n), Lineage(hs),
           NEW row, Row(row, nodes, n)
    PROVE  \E s : CitedAsRead(hs, row, s)
<1>1. /\ Ordered(hs, bs, end) /\ n \in Nat /\ n = Len(hs) /\ TreeOK(nodes, hs, bs, end, n)
  BY DEF Tree
<1>2. PICK a, c, s : Cites(row, nodes, n, a, c, s)
  BY DEF Row
<1>3. NodesOK(nodes, hs, bs, end, n)
  BY <1>1 DEF TreeOK
<1>4. \A k \in 2 .. n + 1 : /\ k - 1 \in 1 .. n
                            /\ nodes[k].level = hs[k - 1].level /\ nodes[k].num = hs[k - 1].num
                            /\ nodes[k].start = hs[k - 1].at
  <2>1. ASSUME NEW k \in 2 .. n + 1
        PROVE  /\ k - 1 \in 1 .. n
               /\ nodes[k].level = hs[k - 1].level /\ nodes[k].num = hs[k - 1].num
               /\ nodes[k].start = hs[k - 1].at
    <3>1. k - 1 \in 1 .. n /\ k - 1 + 1 = k
      BY <1>1
    <3>2. /\ nodes[k - 1 + 1].level = hs[k - 1].level /\ nodes[k - 1 + 1].num = hs[k - 1].num
          /\ nodes[k - 1 + 1].start = hs[k - 1].at
      BY <1>3, <3>1 DEF NodesOK
    <3> QED
      BY <3>1, <3>2
  <2> QED
    BY <2>1
<1>5. /\ s \in 2 .. n + 1 /\ a \in 2 .. n + 1
      /\ row.start = nodes[s].start /\ row.level = nodes[s].level
      /\ row.article_number = nodes[a].num /\ nodes[a].level = "article"
  BY <1>2 DEF Cites
<1>6. s - 1 \in 1 .. Len(hs) /\ row.start = hs[s - 1].at
  BY <1>1, <1>4, <1>5
<1>7. CASE s = a
  <2>1. row.level = "article"
    BY <1>5, <1>7
  <2> QED
    BY <1>6, <2>1 DEF CitedAsRead
<1>8. CASE s # a
  <2>1. /\ c \in 2 .. n + 1 /\ nodes[c].level = "clause" /\ nodes[c].parent = nodes[a].id
        /\ row.clause_number = nodes[c].num
        /\ s = c \/ (nodes[s].level = "point" /\ nodes[s].parent = nodes[c].id)
    BY <1>2, <1>8 DEF Cites
  <2>2. /\ hs[a - 1].level = "article" /\ hs[a - 1].num = row.article_number
        /\ hs[c - 1].level = "clause" /\ hs[c - 1].num = row.clause_number
    BY <1>4, <1>5, <2>1
  <2>3. Hangs(hs, a, c - 1)
    BY <1>5, <2>1, HangsBelow
  <2>4. CASE s = c
    <3> DEFINE k == s - 1
               p == a - 1
    <3>1. /\ k \in 1 .. Len(hs) /\ p \in 1 .. k - 1 /\ Standing(hs, p, k - 1)
          /\ hs[k].level = "clause" /\ hs[p].level = "article" /\ hs[p].num = row.article_number
      BY <2>2, <2>3, <2>4 DEF Hangs
    <3>2. row.level = "clause" /\ row.start = hs[k].at
      BY <1>5, <1>6, <2>1, <2>4
    <3> HIDE DEF k, p
    <3>3. Stands(hs, "article", hs[k].article, k - 1)
      BY <3>1 DEF Lineage
    <3>4. k - 1 \in 0 .. Len(hs)
      BY <1>1, <3>1
    <3>5. hs[p].num = hs[k].article
      BY <1>1, <3>1, <3>3, <3>4, StandsIs
    <3>6. CitedAsRead(hs, row, k)
      BY <3>1, <3>2, <3>5 DEF CitedAsRead
    <3> QED
      BY <3>6
  <2>5. CASE nodes[s].level = "point" /\ nodes[s].parent = nodes[c].id
    <3> DEFINE k == s - 1
               q == c - 1
               p == a - 1
    <3>1. Hangs(hs, c, s - 1)
      BY <1>5, <2>1, <2>5, HangsBelow
    <3>2. /\ k \in 1 .. Len(hs) /\ q \in 1 .. k - 1 /\ Standing(hs, q, k - 1)
          /\ p \in 1 .. q - 1 /\ Standing(hs, p, q - 1)
          /\ hs[q].level = "clause" /\ hs[q].num = row.clause_number
          /\ hs[p].level = "article" /\ hs[p].num = row.article_number
      BY <2>2, <2>3, <3>1 DEF Hangs
    <3>3. hs[k].level = "point" /\ row.level = "point" /\ row.start = hs[k].at
      BY <1>4, <1>5, <1>6, <2>5
    <3> HIDE DEF k, p, q
    <3>4. Stands(hs, "article", hs[k].article, k - 1) /\ Stands(hs, "clause", hs[k].clause, k - 1)
      BY <3>2, <3>3 DEF Lineage
    <3>5. k - 1 \in 0 .. Len(hs) /\ p \in 1 .. k - 1
      <4>1. Len(hs) \in Nat
        BY <1>1
      <4> QED
        BY <3>2, <4>1
    <3>6. Standing(hs, p, k - 1)
      BY <1>1, <3>2, StandsThrough
    <3>7. hs[p].num = hs[k].article
      BY <1>1, <3>2, <3>4, <3>5, <3>6, StandsIs
    <3>8. hs[q].num = hs[k].clause
      BY <1>1, <3>2, <3>4, <3>5, StandsIs
    <3>9. CitedAsRead(hs, row, k)
      BY <3>2, <3>3, <3>7, <3>8 DEF CitedAsRead
    <3> QED
      BY <3>9
  <2> QED
    BY <2>1, <2>4, <2>5
<1> QED
  BY <1>7, <1>8

-----------------------------------------------------------------------------
(* The chunks of a law.                                                    *)

\* A law that is chunked has all its chunks, and the chunk validator lets them through.
LEMMA ChunkedIs ==
    ASSUME LawInv, chunks # NoChunks
    PROVE  /\ chunks.status = "success"
           /\ Lineage(headings)
           /\ Tree(outcome.nodes, headings, boundaries, End, Len(headings))
           /\ WholeCut(chunks.rows, outcome.nodes, Len(headings))
<1>1. Accepted /\ chunks = Chunked
  BY DEF LawInv, VerdictsOK
<1>2. /\ Loaded /\ pos = Len(doc) + 1
      /\ BuiltOK(BuiltTree, headings, boundaries, End, Len(headings))
      /\ outcome.nodes = BuiltTree.nodes
      /\ TreeErrors(outcome.nodes, End) = {}
  BY <1>1, AcceptedIs
<1>3. Ordered(headings, boundaries, End) /\ Lineage(headings) /\ End > 1 /\ Len(headings) \in Nat
  BY <1>2, ReadInOrder
<1>4. Tree(outcome.nodes, headings, boundaries, End, Len(headings))
  BY <1>2, <1>3 DEF Tree, BuiltOK
<1> DEFINE cut == Cut(outcome.nodes, doc, outcome.carried)
<1>5. WholeCut(cut, outcome.nodes, Len(headings))
  BY <1>4, WholeCutIs
<1> HIDE DEF cut
<1>6. ChunkErrors(outcome.nodes, cut) = {}
  BY <1>4, <1>5, NoChunkErrors
<1>7. Chunked.status = "success" /\ Chunked.rows = cut
  BY <1>2, <1>6 DEF Chunked, cut, End
<1> QED
  BY <1>1, <1>3, <1>4, <1>5, <1>7

LEMMA UnitsAreReached ==
    ASSUME LawInv
    PROVE  UnitsReachChunks
<1> SUFFICES ASSUME chunks # NoChunks
             PROVE  /\ chunks.status = "success"
                    /\ \A r \in 1 .. Len(chunks.rows) - 1 : chunks.rows[r].end <= chunks.rows[r + 1].start
                    /\ \A k \in DOMAIN headings : headings[k].level \in {"article", "clause", "point"} =>
                          \E r \in DOMAIN chunks.rows :
                             /\ chunks.rows[r].start >= headings[k].at
                             /\ \E n \in DOMAIN outcome.nodes :
                                   /\ outcome.nodes[n].start = headings[k].at
                                   /\ IsPrefix(outcome.nodes[n].id, chunks.rows[r].source)
  BY DEF UnitsReachChunks
<1> DEFINE nodes == outcome.nodes
           rows == chunks.rows
           n == Len(headings)
<1>1. /\ chunks.status = "success"
      /\ Tree(nodes, headings, boundaries, End, n) /\ WholeCut(rows, nodes, n)
  BY ChunkedIs
<1> HIDE DEF nodes, rows
<1>2. /\ Len(rows) \in Nat /\ DOMAIN rows = 1 .. Len(rows) /\ InTurn(rows)
      /\ \A j \in 2 .. n + 1 : nodes[j].level \in {"article", "clause", "point"} => Covered(rows, nodes, n, j)
  BY <1>1 DEF WholeCut
<1>3. ASSUME NEW r \in 1 .. Len(rows) - 1
      PROVE  rows[r].end <= rows[r + 1].start
  <2>1. r \in 1 .. Len(rows) /\ r + 1 \in 1 .. Len(rows) /\ r < r + 1
    BY <1>2
  <2> QED
    BY <1>2, <2>1 DEF InTurn
<1>4. /\ n \in Nat /\ TreeOK(nodes, headings, boundaries, End, n)
      /\ Ordered(headings, boundaries, End)
  BY <1>1 DEF Tree
<1>5. DOMAIN nodes = 1 .. n + 1
  <2>1. NodeFacts(nodes, End, n)
    BY <1>4, TreeNodes
  <2> QED
    BY <2>1 DEF NodeFacts
<1>6. ASSUME NEW k \in DOMAIN headings, headings[k].level \in {"article", "clause", "point"}
      PROVE  \E r \in DOMAIN rows :
                /\ rows[r].start >= headings[k].at
                /\ \E m \in DOMAIN nodes : /\ nodes[m].start = headings[k].at
                                           /\ IsPrefix(nodes[m].id, rows[r].source)
  <2>1. k \in 1 .. n
    BY <1>4 DEF Ordered
  <2>2. nodes[k + 1].level = headings[k].level /\ nodes[k + 1].start = headings[k].at
    BY <1>4, <2>1 DEF TreeOK, NodesOK
  <2>3. k + 1 \in 2 .. n + 1
    BY <1>4, <2>1
  <2>4. Covered(rows, nodes, n, k + 1)
    BY <1>2, <1>6, <2>2, <2>3
  <2>5. PICK r \in 1 .. Len(rows) : \E s \in 2 .. n + 1 :
          /\ rows[r].source = nodes[s].id /\ rows[r].start >= nodes[k + 1].start
          /\ IsPrefix(nodes[k + 1].id, nodes[s].id)
    BY <2>4 DEF Covered
  <2>6. rows[r].start >= headings[k].at /\ IsPrefix(nodes[k + 1].id, rows[r].source)
    BY <2>2, <2>5
  <2>7. k + 1 \in DOMAIN nodes /\ r \in DOMAIN rows
    BY <1>2, <1>4, <1>5, <2>3
  <2> QED
    BY <2>2, <2>6, <2>7
<1> QED
  BY <1>1, <1>3, <1>6 DEF nodes, rows

LEMMA CitationsMatch ==
    ASSUME LawInv
    PROVE  CitationMatchesContext
<1>1. CASE chunks = NoChunks
  <2>1. DOMAIN chunks.rows = {}
    BY <1>1 DEF NoChunks
  <2> QED
    BY <2>1 DEF CitationMatchesContext
<1>2. CASE chunks # NoChunks
  <2> DEFINE rows == chunks.rows
             n == Len(headings)
  <2>1. /\ Lineage(headings) /\ Tree(outcome.nodes, headings, boundaries, End, n)
        /\ WholeCut(rows, outcome.nodes, n)
    BY <1>2, ChunkedIs
  <2> HIDE DEF rows
  <2>2. Ordered(headings, boundaries, End)
    BY <2>1 DEF Tree
  <2>3. ASSUME NEW r \in DOMAIN rows
        PROVE  /\ rows[r].level \in {"clause", "point"} =>
                    HeadingAt(rows[r].start).article = rows[r].article_number
               /\ rows[r].level = "point" => HeadingAt(rows[r].start).clause = rows[r].clause_number
    <3>1. Row(rows[r], outcome.nodes, n)
      BY <2>1 DEF WholeCut
    <3>2. PICK s : CitedAsRead(headings, rows[r], s)
      BY <2>1, <3>1, CitedIs
    <3>3. /\ s \in 1 .. n /\ rows[r].start = headings[s].at
          /\ rows[r].level \in {"clause", "point"} => headings[s].article = rows[r].article_number
          /\ rows[r].level = "point" => headings[s].clause = rows[r].clause_number
      BY <3>2 DEF CitedAsRead
    <3>4. DOMAIN headings = 1 .. n /\ n \in Nat
      BY <2>2 DEF Ordered
    <3>5. ASSUME NEW k \in DOMAIN headings, headings[k].at = rows[r].start
          PROVE  k = s
      <4>1. headings[k].at \in Nat /\ headings[s].at \in Nat
        BY <2>2, <3>3, <3>4 DEF Ordered
      <4>2. k < s => headings[k].at < headings[s].at
        BY <2>2, <3>3, <3>4 DEF Ordered
      <4>3. s < k => headings[s].at < headings[k].at
        BY <2>2, <3>3, <3>4 DEF Ordered
      <4>4. headings[k].at = headings[s].at
        BY <3>3, <3>5
      <4>5. ~ (k < s) /\ ~ (s < k)
        BY <4>1, <4>2, <4>3, <4>4
      <4> QED
        BY <3>3, <3>4, <4>5
    <3>6. (CHOOSE k \in DOMAIN headings : headings[k].at = rows[r].start) = s
      BY <3>3, <3>4, <3>5
    <3>7. HeadingAt(rows[r].start) = headings[s]
      BY <3>6 DEF HeadingAt
    <3> QED
      BY <3>3, <3>7
  <2> QED
    BY <2>3 DEF CitationMatchesContext, rows
<1> QED
  BY <1>1, <1>2

\* The chunks of a law that is accepted are its units, each cited as it was read: the
\* builder, which knows spans only, finds the article and the clause the recognizer was
\* reading, no recognized unit is without a chunk, and the chunk validator refuses none.
THEOREM LawChunksAreTheUnits == LawSpec => []ChunksAreTheUnits
<1>1. LawInv => ChunksAreTheUnits
  BY UnitsAreReached, CitationsMatch DEF ChunksAreTheUnits
<1> QED
  BY <1>1, LawInvariant, PTL
=============================================================================
