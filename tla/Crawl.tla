-------------------------------- MODULE Crawl --------------------------------
(***************************************************************************)
(* Crawling the registry: run_crawl_pipeline selects the laws that are not *)
(* on disk yet and starts one task for each, behind the semaphore of the   *)
(* service.  A task (ThuvienPhapLuatCrawler.crawl) asks the RateLimiter    *)
(* before every attempt: a permit, the lock of the host, a pause since the *)
(* last request to the host.  What it fetched becomes two files of the     *)
(* law, main.html and metadata.json, one after the other.  The operator    *)
(* starts the command again, with or without --no-skip-crawled, and a      *)
(* process may die anywhere.                                               *)
(*                                                                         *)
(* Time is counted in ticks.  The content of a page is the number of the   *)
(* run that fetched it: the site may have changed in between.              *)
(***************************************************************************)
EXTENDS Integers, FiniteSets

CONSTANTS
    Laws, Hosts, HostOf,   \* the registry, and the host of each law's URL
    Untrusted,             \* laws whose URL is outside the trusted domain
    Concurrency,           \* min(--concurrency, 3)
    Delay,                 \* delay_seconds, in ticks
    MaxRetries,
    RetryAfters,           \* waits the site may ask for
    MaxRuns                \* bound: runs of the command

ASSUME RegistryAssumption ==
    /\ IsFiniteSet(Laws)
    /\ HostOf \in [Laws -> Hosts]
    /\ Untrusted \subseteq Laws
ASSUME LimitsAssumption ==
    /\ Concurrency \in 1 .. 3
    /\ Delay \in Nat
    /\ MaxRetries \in Nat
    /\ RetryAfters \subseteq Nat
    /\ MaxRuns \in Nat

VARIABLES
    up,         \* the command is running
    run,        \* runs begun
    at,         \* where the task of each law is
    retries,    \* retry_count
    sleep,      \* ticks left of the task's asyncio.sleep
    slots,      \* the semaphore of the service
    permits,    \* RateLimiter._semaphore
    lock,       \* RateLimiter._host_locks: the task that holds it, or {}
    since,      \* ticks since _last_request of the host, up to Delay
    result,     \* CrawlResult.success
    page,       \* main.html: 0 when it is missing, Torn, or its content
    meta,       \* metadata.json: 0, Torn, or the content it describes
    quiet,      \* ticks since this run sent a request to the host, up to Delay
    recrawled   \* laws fetched again although they were on disk

disk == <<page, meta>>
limiter == <<permits, lock, since, quiet>>
tasks == <<at, retries, sleep, slots, result>>
vars == <<up, run, tasks, limiter, disk, recrawled>>

Torn == -1

AtMost(n, m) == IF n < m THEN n ELSE m

Init ==
    /\ up = FALSE
    /\ run = 0
    /\ at = [l \in Laws |-> "none"]
    /\ retries = [l \in Laws |-> 0]
    /\ sleep = [l \in Laws |-> 0]
    /\ slots = Concurrency
    /\ permits = Concurrency
    /\ lock = [h \in Hosts |-> {}]
    /\ since = [h \in Hosts |-> Delay]
    /\ result = [l \in Laws |-> "none"]
    /\ page = [l \in Laws |-> 0]
    /\ meta = [l \in Laws |-> 0]
    /\ quiet = [h \in Hosts |-> Delay]
    /\ recrawled = {}

\* The process ends, and its memory is gone.
Exit ==
    /\ up' = FALSE
    /\ at' = [l \in Laws |-> "none"]
    /\ retries' = [l \in Laws |-> 0]
    /\ sleep' = [l \in Laws |-> 0]
    /\ slots' = Concurrency
    /\ permits' = Concurrency
    /\ lock' = [h \in Hosts |-> {}]
    /\ since' = [h \in Hosts |-> Delay]
    /\ result' = [l \in Laws |-> "none"]
    /\ quiet' = [h \in Hosts |-> Delay]
    /\ UNCHANGED <<run, recrawled>>

--------------------------------------------------------------------------------
(* The command.                                                            *)

\* metadata.json says success and the page is there.
Crawled(l) == meta[l] > 0 /\ page[l] # 0

\* A run that skips what is on disk, or one with --no-skip-crawled.
Start(skip) ==
    /\ ~up
    /\ run < MaxRuns
    /\ up' = TRUE
    /\ run' = run + 1
    /\ at' = [l \in Laws |-> IF skip /\ Crawled(l) THEN "skipped" ELSE "queued"]
    /\ recrawled' = IF skip THEN recrawled ELSE recrawled \cup {l \in Laws : Crawled(l)}
    /\ UNCHANGED <<retries, sleep, slots, result, limiter, disk>>

\* asyncio.gather has a result for each selected law.
Finish ==
    /\ up
    /\ \A l \in Laws : at[l] \in {"skipped", "done"}
    /\ Exit
    /\ UNCHANGED disk

Crash == up /\ Exit /\ UNCHANGED disk

--------------------------------------------------------------------------------
(* A task, from the semaphore of the service to its result.                *)

Go(l, p) == at' = [at EXCEPT ![l] = p]

Done(l, r) ==
    /\ Go(l, "done")
    /\ result' = [result EXCEPT ![l] = r]
    /\ slots' = slots + 1

\* A URL outside the trusted domain raises, and the pipeline makes it a failed result.
Begin(l) ==
    /\ up
    /\ at[l] = "queued"
    /\ slots > 0
    /\ IF l \in Untrusted
       THEN Go(l, "done") /\ result' = [result EXCEPT ![l] = "failed"] /\ UNCHANGED slots
       ELSE Go(l, "permit") /\ slots' = slots - 1 /\ UNCHANGED result
    /\ UNCHANGED <<up, run, retries, sleep, limiter, disk, recrawled>>

\* Mutant: one attempt too many.
RetryOnceMore(l) ==
    /\ retries' = [retries EXCEPT ![l] = @ + 1]
    /\ IF retries[l] <= MaxRetries
       THEN Go(l, "permit") /\ UNCHANGED <<slots, result>>
       ELSE Done(l, "failed")

\* Another attempt, at once, unless the retries are used up.
Retry(l) ==
    /\ retries' = [retries EXCEPT ![l] = @ + 1]
    /\ IF retries[l] < MaxRetries
       THEN Go(l, "permit") /\ UNCHANGED <<slots, result>>
       ELSE Done(l, "failed")

--------------------------------------------------------------------------------
(* RateLimiter.limit.                                                      *)

AcquirePermit(l) ==
    /\ up
    /\ at[l] = "permit"
    /\ permits > 0
    /\ permits' = permits - 1
    /\ Go(l, "lock")
    /\ UNCHANGED <<up, run, retries, sleep, slots, result, lock, since, quiet, disk, recrawled>>

\* The time of the request is recorded, the lock given back, and the request sent.
Send(l) ==
    /\ Go(l, "inflight")
    /\ since' = [since EXCEPT ![HostOf[l]] = 0]
    /\ quiet' = [quiet EXCEPT ![HostOf[l]] = 0]
    /\ lock' = [lock EXCEPT ![HostOf[l]] = {}]

\* Mutant: the lock is given back before the delay.
HostLockShort(l) ==
    /\ up
    /\ at[l] = "lock"
    /\ lock[HostOf[l]] = {}
    /\ IF since[HostOf[l]] >= Delay
       THEN Send(l) /\ UNCHANGED sleep
       ELSE /\ Go(l, "delay")
            /\ sleep' = [sleep EXCEPT ![l] = Delay - since[HostOf[l]]]
            /\ UNCHANGED <<lock, since, quiet>>
    /\ UNCHANGED <<up, run, retries, slots, result, permits, disk, recrawled>>

\* The lock is kept through the delay.
HostLock(l) ==
    /\ up
    /\ at[l] = "lock"
    /\ lock[HostOf[l]] = {}
    /\ IF since[HostOf[l]] >= Delay
       THEN Send(l) /\ UNCHANGED sleep
       ELSE /\ Go(l, "delay")
            /\ sleep' = [sleep EXCEPT ![l] = Delay - since[HostOf[l]]]
            /\ lock' = [lock EXCEPT ![HostOf[l]] = {l}]
            /\ UNCHANGED <<since, quiet>>
    /\ UNCHANGED <<up, run, retries, slots, result, permits, disk, recrawled>>

DelayEnds(l) ==
    /\ up
    /\ at[l] = "delay"
    /\ sleep[l] = 0
    /\ Send(l)
    /\ UNCHANGED <<up, run, retries, sleep, slots, result, permits, disk, recrawled>>

--------------------------------------------------------------------------------
(* The answer of the site.                                                 *)

\* Mutant: an attempt that fails keeps its permit.
RequestFailsUnreleased(l) ==
    /\ up
    /\ at[l] = "inflight"
    /\ Retry(l)
    /\ UNCHANGED <<up, run, sleep, limiter, disk, recrawled>>

\* A timeout or an error of the connection: no back-off.
RequestFails(l) ==
    /\ up
    /\ at[l] = "inflight"
    /\ permits' = permits + 1
    /\ Retry(l)
    /\ UNCHANGED <<up, run, sleep, lock, since, quiet, disk, recrawled>>

\* 429: the wait counts as a retry, and comes before it.
TooManyRequests(l, wait) ==
    /\ up
    /\ at[l] = "inflight"
    /\ permits' = permits + 1
    /\ Go(l, "pause")
    /\ sleep' = [sleep EXCEPT ![l] = wait]
    /\ UNCHANGED <<up, run, retries, slots, result, lock, since, quiet, disk, recrawled>>

\* Mutant: being told to wait does not count as an attempt.
PauseEndsUncounted(l) ==
    /\ up
    /\ at[l] = "pause"
    /\ sleep[l] = 0
    /\ Go(l, "permit")
    /\ UNCHANGED <<up, run, retries, sleep, slots, result, limiter, disk, recrawled>>

PauseEnds(l) ==
    /\ up
    /\ at[l] = "pause"
    /\ sleep[l] = 0
    /\ Retry(l)
    /\ UNCHANGED <<up, run, sleep, limiter, disk, recrawled>>

\* Another status, or an error nobody expected (a Retry-After that is a date).
Refused(l) ==
    /\ up
    /\ at[l] = "inflight"
    /\ permits' = permits + 1
    /\ Done(l, "failed")
    /\ UNCHANGED <<up, run, retries, sleep, lock, since, quiet, disk, recrawled>>

Fetched(l) ==
    /\ up
    /\ at[l] = "inflight"
    /\ permits' = permits + 1
    /\ Go(l, "fetched")
    /\ UNCHANGED <<up, run, retries, sleep, slots, result, lock, since, quiet, disk, recrawled>>

--------------------------------------------------------------------------------
(* save_html: it does not suspend, so no other task runs in between.       *)

WriteBoth(l) ==
    /\ page' = [page EXCEPT ![l] = run]
    /\ meta' = [meta EXCEPT ![l] = run]

\* Mutant: the description is written first.
WriteSomeMetaFirst(l) ==
    \/ UNCHANGED disk
    \/ meta' = [meta EXCEPT ![l] = run] /\ UNCHANGED page
    \/ meta' = [meta EXCEPT ![l] = run] /\ page' = [page EXCEPT ![l] = Torn]

\* Both files are truncated when they are opened.
WriteSome(l) ==
    \/ UNCHANGED disk
    \/ page' = [page EXCEPT ![l] = Torn] /\ UNCHANGED meta
    \/ page' = [page EXCEPT ![l] = run] /\ UNCHANGED meta
    \/ page' = [page EXCEPT ![l] = run] /\ meta' = [meta EXCEPT ![l] = Torn]

Save(l) ==
    /\ up
    /\ at[l] = "fetched"
    /\ WriteBoth(l)
    /\ Done(l, "ok")
    /\ UNCHANGED <<up, run, retries, sleep, limiter, recrawled>>

\* Mutant: the content that was fetched counts, saved or not.
SaveFailsUnnoticed(l) ==
    /\ up
    /\ at[l] = "fetched"
    /\ WriteSome(l)
    /\ Done(l, "ok")
    /\ UNCHANGED <<up, run, retries, sleep, limiter, recrawled>>

SaveFails(l) ==
    /\ up
    /\ at[l] = "fetched"
    /\ WriteSome(l)
    /\ Done(l, "failed")
    /\ UNCHANGED <<up, run, retries, sleep, limiter, recrawled>>

CrashSaving(l) ==
    /\ up
    /\ at[l] = "fetched"
    /\ WriteSome(l)
    /\ Exit

--------------------------------------------------------------------------------
Tick ==
    /\ up
    /\ \/ \E l \in Laws : sleep[l] > 0
       \/ \E h \in Hosts : since[h] < Delay
    /\ sleep' = [l \in Laws |-> IF sleep[l] > 0 THEN sleep[l] - 1 ELSE 0]
    /\ since' = [h \in Hosts |-> AtMost(since[h] + 1, Delay)]
    /\ quiet' = [h \in Hosts |-> AtMost(quiet[h] + 1, Delay)]
    /\ UNCHANGED <<up, run, at, retries, slots, result, permits, lock, disk, recrawled>>

Answer(l) ==
    \/ RequestFails(l) \/ Refused(l) \/ Fetched(l)
    \/ \E wait \in RetryAfters : TooManyRequests(l, wait)

Step(l) ==
    \/ Begin(l) \/ AcquirePermit(l) \/ HostLock(l) \/ DelayEnds(l)
    \/ Answer(l) \/ PauseEnds(l) \/ Save(l) \/ SaveFails(l)

Next ==
    \/ \E skip \in BOOLEAN : Start(skip)
    \/ Finish \/ Crash
    \/ \E l \in Laws : Step(l) \/ CrashSaving(l)
    \/ Tick

Spec == Init /\ [][Next]_vars

\* Time passes, requests end by their timeout at the latest, and the event loop runs
\* what can go on.  Nothing is assumed of the order in which waiters are served.
FairSpec ==
    /\ Spec
    /\ WF_vars(Tick)
    /\ WF_vars(Finish)
    /\ \A l \in Laws : WF_vars(Step(l))

--------------------------------------------------------------------------------
TaskPlaces == {"none", "skipped", "queued", "permit", "lock", "delay", "inflight",
               "pause", "fetched", "done"}

TypeOK ==
    /\ up \in BOOLEAN
    /\ run \in 0 .. MaxRuns
    /\ at \in [Laws -> TaskPlaces]
    /\ retries \in [Laws -> 0 .. MaxRetries + 1]
    /\ sleep \in [Laws -> Nat]
    /\ slots \in 0 .. Concurrency
    /\ permits \in 0 .. Concurrency
    /\ lock \in [Hosts -> SUBSET Laws]
    /\ since \in [Hosts -> 0 .. Delay]
    /\ result \in [Laws -> {"none", "ok", "failed"}]
    /\ page \in [Laws -> Torn .. MaxRuns]
    /\ meta \in [Laws -> Torn .. MaxRuns]
    /\ quiet \in [Hosts -> 0 .. Delay]
    /\ recrawled \subseteq Laws

\* RateLimiter: two requests to a host are Delay apart, retries and the tasks of other
\* laws included, though every task works out its delay before it sleeps.
RequestsSpaced == [][\A l \in Laws :
    at[l] # "inflight" /\ at'[l] = "inflight" => quiet[HostOf[l]] >= Delay]_vars

\* The limiter has as many permits as the service lets tasks in: one that was let in
\* never waits for a permit, so none is lost on the way out of an attempt.
PermitsSuffice == \A l \in Laws : at[l] = "permit" => permits > 0

\* A law the selector skips has a page that is complete and is the one its metadata
\* describes, whatever stopped the runs before, unless somebody had it fetched again
\* with --no-skip-crawled.
SkippedIsWhole == \A l \in Laws \ recrawled : Crawled(l) => page[l] = meta[l]

\* A result that says success has both files of its own run behind it.
ReportedIsStored == \A l \in Laws :
    result[l] = "ok" => page[l] = run /\ meta[l] = run

\* What the selector and the report say of a law is what is on disk.
DiskIsWhatIsSaid == SkippedIsWhole /\ ReportedIsStored

\* Whatever the site answers, a run ends: the tasks hold permits while they sleep and
\* wait for each other, but never for ever.
RunEnds == up ~> ~up
================================================================================
