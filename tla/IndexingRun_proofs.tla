-------------------------- MODULE IndexingRun_proofs --------------------------
(***************************************************************************)
(* Proofs about IndexingRun, for every corpus, batch size, limit, retry    *)
(* budget and number of faults.                                            *)
(***************************************************************************)
EXTENDS IndexingRun, FiniteSetTheorems, SequenceTheorems, TLAPS

\* Qdrant holds or has accepted c, and what it has yet to apply is of run r or of a
\* later one.
HeldFrom(c, r) ==
    /\ points[c] # 0 \/ queued[c] # 0
    /\ queued[c] # 0 => queued[c] >= r

\* Recorded progress of a run: it is in Qdrant, and a run id stands behind it.
Recorded(S, r) == \A c \in S : r > 0 /\ HeldFrom(c, r)

StoreInv ==
    /\ Recorded(ckpt.processed, ckpt.run)
    /\ Recorded(job.processed, job.run)

\* A real run's id is at least as new as the checkpoint's; the steps that write
\* belong to real runs.
RunInv ==
    /\ ckpt.run <= runs
    /\ pc # "idle" /\ ~job.dry =>
         job.run > 0 /\ ckpt.run <= job.run /\ job.run <= runs
    /\ pc \in {"count", "embed", "upsert", "checkpoint"} => ~job.dry
    /\ \A q \in lost : q.run > 0

\* The batch holds only chunks not processed yet, and none after an outcome.
BatchInv ==
    /\ ProgressConsistent
    /\ BatchIds \cap job.processed = {}
    /\ pc \in {"checkpoint", "finish", "reported"} => job.batch = {}
    /\ job.dry => job.batch = {}

\* Every planned chunk of a real run is processed, failed or in the batch.
PlanInv ==
    /\ pc # "idle" /\ ~job.dry =>
         /\ PlannedIds \subseteq job.processed \cup job.failed \cup BatchIds
         /\ PlannedIds \subseteq job.processed \cup job.runFailed \cup BatchIds
    /\ pc \in {"finish", "reported"} /\ ~job.dry =>
         ckpt.processed = job.processed /\ ckpt.failed = job.failed
    /\ pc = "reported" => job.status = Status

IInv == TypeOK /\ StoreInv /\ RunInv /\ BatchInv /\ PlanInv

--------------------------------------------------------------------------------

\* A row of the corpus has an id and a kind, the ids of a batch are ids, and
\* the job a run starts with has its type.
LEMMA RowType ==
    ASSUME NEW i \in 1 .. Len(Corpus)
    PROVE  Corpus[i].id \in Ids /\ Corpus[i].kind \in Kinds
<1>1. Corpus[i] \in [id : Ids, kind : Kinds]
  BY CorpusAssumption, ElementOfSeq
<1> QED
  BY <1>1

LEMMA BatchIdsType ==
    ASSUME job.batch \subseteq 1 .. Len(Corpus)
    PROVE  BatchIds \subseteq Ids
  BY RowType DEF BatchIds

LEMMA NewJobType ==
    ASSUME NEW r \in RunIds, NEW d \in BOOLEAN, NEW l \in Nat,
           NEW p \in SUBSET Ids, NEW f \in SUBSET Ids
    PROVE  NewJob(r, d, l, p, f) \in JobType
  BY CorpusAssumption, BoundsAssumption DEF NewJob, JobType, RunIds

LEMMA NoJobType == NoJob \in JobType
<1>1. 0 \in RunIds /\ FALSE \in BOOLEAN /\ 0 \in Nat /\ {} \in SUBSET Ids
  BY BoundsAssumption DEF RunIds
<1> QED
  BY <1>1, NewJobType DEF NoJob

\* Taking one more row keeps the position inside the corpus.
LEMMA NextRowType ==
    ASSUME job \in JobType, MoreRows
    PROVE  /\ job.pos + 1 \in 1 .. Len(Corpus)
           /\ job.pos + 1 \in 0 .. Len(Corpus)
           /\ job.planned + 1 \in Nat
           /\ NextRow.id \in Ids
           /\ NextRow.kind \in Kinds
<1>1. Len(Corpus) \in Nat /\ job.pos \in 0 .. Len(Corpus) /\ job.planned \in Nat
  BY CorpusAssumption DEF JobType
<1>2. job.pos < Len(Corpus)
  BY DEF MoreRows
<1>3. job.pos + 1 \in 1 .. Len(Corpus) /\ job.pos + 1 \in 0 .. Len(Corpus)
  BY <1>1, <1>2
<1> QED
  BY <1>1, <1>3, RowType DEF NextRow

\* The outcome of a batch is a job again.
LEMMA OutcomeType ==
    ASSUME job \in JobType
    PROVE  BatchDone \in JobType /\ BatchFailed \in JobType
<1>1. BatchIds \subseteq Ids
  BY BatchIdsType DEF JobType
<1>2. 0 \in 0 .. MaxRetries
  BY BoundsAssumption
<1>3. BatchDone \in JobType
  BY <1>1, <1>2 DEF BatchDone, JobType
<1>4. BatchFailed \in JobType
  BY <1>1, <1>2 DEF BatchFailed, JobType
<1> QED
  BY <1>3, <1>4

\* Every step keeps the local variables of the run in their types.
LEMMA JobTypeStep ==
    ASSUME TypeOK, Next
    PROVE  job' \in JobType
<1>a. job \in JobType
  BY DEF TypeOK
<1>1. ASSUME NEW d \in BOOLEAN, NEW l \in Limits, StartFresh(d, l)
      PROVE  job' \in JobType
  <2>1. (IF d THEN 0 ELSE runs + 1) \in RunIds /\ l \in Nat
    BY <1>1, BoundsAssumption DEF StartFresh, TypeOK, RunIds
  <2> QED
    BY <1>1, <2>1, NewJobType DEF StartFresh
<1>2. ASSUME NEW d \in BOOLEAN, NEW l \in Limits, StartResumed(d, l)
      PROVE  job' \in JobType
  <2>1. ckpt.run \in RunIds /\ ckpt.processed \in SUBSET Ids
        /\ ckpt.failed \in SUBSET Ids /\ l \in Nat
    BY BoundsAssumption DEF TypeOK, Progress
  <2> QED
    BY <1>2, <2>1, NewJobType DEF StartResumed
<1>3. ASSUME ReadCountBefore PROVE job' \in JobType
  <2>1. StoredCount \in Nat
    BY IdsAssumption, FS_Subset, FS_CardinalityType DEF StoredCount
  <2> QED
    BY <1>3, <1>a, <2>1 DEF ReadCountBefore, JobType
<1>4. ASSUME SkipFiltered PROVE job' \in JobType
  <2>1. job.pos + 1 \in 0 .. Len(Corpus)
    BY <1>4, <1>a, NextRowType DEF SkipFiltered
  <2> QED
    BY <1>4, <1>a, <2>1 DEF SkipFiltered, JobType
<1>5. ASSUME SkipProcessed PROVE job' \in JobType
  <2>1. job.pos + 1 \in 0 .. Len(Corpus) /\ job.planned + 1 \in Nat
    BY <1>5, <1>a, NextRowType DEF SkipProcessed
  <2> QED
    BY <1>5, <1>a, <2>1 DEF SkipProcessed, JobType
<1>6. ASSUME FailPreparation PROVE job' \in JobType
  <2>1. job.pos + 1 \in 0 .. Len(Corpus) /\ job.planned + 1 \in Nat
        /\ NextRow.id \in Ids
    BY <1>6, <1>a, NextRowType DEF FailPreparation
  <2> QED
    BY <1>6, <1>a, <2>1 DEF FailPreparation, JobType
<1>7. ASSUME Prepare PROVE job' \in JobType
  <2>1. job.pos + 1 \in 0 .. Len(Corpus) /\ job.planned + 1 \in Nat
        /\ job.pos + 1 \in 1 .. Len(Corpus)
    BY <1>7, <1>a, NextRowType DEF Prepare
  <2>2. (IF job.dry THEN {} ELSE job.batch \cup {job.pos + 1})
          \in SUBSET (1 .. Len(Corpus))
    BY <1>a, <2>1 DEF JobType
  <2> QED
    BY <1>7, <1>a, <2>1, <2>2 DEF Prepare, JobType
<1>8. ASSUME EndScan \/ BreakScan PROVE job' \in JobType
  BY ZenonT(60), <1>8, <1>a DEF EndScan, BreakScan, JobType
<1>9. ASSUME \/ Embed \/ WriteCheckpoint
             \/ (\E c \in Ids : Apply(c)) \/ (\E q \in lost : Arrive(q))
      PROVE  job' \in JobType
  BY <1>9, <1>a DEF Embed, WriteCheckpoint, Apply, Arrive
<1>10. ASSUME UpsertCompleted \/ UpsertAcknowledged \/ EmbedFails
       PROVE  job' \in JobType
  BY <1>10, <1>a, OutcomeType DEF UpsertCompleted, UpsertAcknowledged, EmbedFails
<1>11. ASSUME UpsertRaises PROVE job' \in JobType
  <2>1. CASE job.attempt < MaxRetries /\ job' = [job EXCEPT !.attempt = @ + 1]
    <3>1. job.attempt + 1 \in 0 .. MaxRetries
      BY <2>1, <1>a, BoundsAssumption DEF JobType
    <3> QED
      BY <2>1, <1>a, <3>1 DEF JobType
  <2> QED
    BY <1>11, <1>a, <2>1, OutcomeType DEF UpsertRaises
<1>12. ASSUME Report PROVE job' \in JobType
  <2>1. Status \in {"none", "dry_run", "success", "partial_success", "failed"}
    BY DEF Status
  <2>2. PICK n \in BOOLEAN, v \in {"not_run", "pass", "warning"} :
          job' = [job EXCEPT !.status = Status, !.counted = n, !.reconciled = v]
    BY <1>12 DEF Report
  <2> QED
    BY <1>a, <2>1, <2>2 DEF JobType
<1>13. ASSUME Exit \/ CheckpointFails \/ Crash PROVE job' \in JobType
  BY <1>13, NoJobType DEF Exit, CheckpointFails, Crash
<1> QED
  BY <1>1, <1>2, <1>3, <1>4, <1>5, <1>6, <1>7, <1>8, <1>9, <1>10, <1>11,
     <1>12, <1>13 DEF Next, Start, Work, Faulty

\* Overwriting a function on the ids with a run id gives such a function.
LEMMA OverwriteType ==
    ASSUME NEW f \in [Ids -> RunIds], NEW S, NEW r \in RunIds
    PROVE  Overwrite(f, S, r) \in [Ids -> RunIds]
  BY DEF Overwrite

\* Every step keeps Qdrant's state, the file and the counters in their types.
LEMMA StoreTypeStep ==
    ASSUME TypeOK, Next
    PROVE  /\ points' \in [Ids -> RunIds]
           /\ queued' \in [Ids -> RunIds]
           /\ lost' \subseteq [run : RunIds, ids : SUBSET Ids]
           /\ ckpt' \in Progress
           /\ runs' \in RunIds
           /\ faults' \in Nat
           /\ pc' \in Locations
<1>a. job.run \in RunIds /\ 0 \in RunIds /\ MaxFaults \in Nat /\ MaxRuns \in Nat
  BY BoundsAssumption DEF TypeOK, JobType, RunIds
<1>b. job.processed \in SUBSET Ids /\ job.failed \in SUBSET Ids
  BY DEF TypeOK, JobType
<1>c. \A S \in GivenUp : S \subseteq [run : RunIds, ids : SUBSET Ids]
  BY <1>a, BatchIdsType DEF GivenUp, TypeOK, JobType
<1> USE DEF TypeOK, store, Locations
<1>1. CASE Start
  BY <1>1, <1>a DEF Start, StartFresh, StartResumed, RunIds
<1>2. CASE ReadCountBefore \/ SkipFiltered \/ SkipProcessed \/ FailPreparation
           \/ Prepare \/ EndScan \/ BreakScan \/ Embed \/ Report \/ Exit
  BY <1>2 DEF ReadCountBefore, SkipFiltered, SkipProcessed, FailPreparation,
     Prepare, EndScan, BreakScan, AfterScan, Embed, Report, Exit
<1>3. CASE UpsertCompleted \/ UpsertAcknowledged
  BY <1>3, <1>a, OverwriteType DEF UpsertCompleted, UpsertAcknowledged
<1>4. CASE WriteCheckpoint
  BY <1>4, <1>a, <1>b DEF WriteCheckpoint, Progress
<1>5. CASE EmbedFails \/ CheckpointFails \/ Crash
  BY <1>5, <1>c DEF EmbedFails, CheckpointFails, Crash, Fault
<1>6. CASE UpsertRaises
  BY <1>6, <1>c DEF UpsertRaises, Fault
<1>7. ASSUME NEW c \in Ids, Apply(c)
      PROVE  /\ points' \in [Ids -> RunIds]
             /\ queued' \in [Ids -> RunIds]
             /\ UNCHANGED <<lost, ckpt, runs, faults, pc>>
  BY <1>7, <1>a DEF Apply
<1>8. ASSUME NEW q \in lost, Arrive(q)
      PROVE  /\ points' \in [Ids -> RunIds]
             /\ queued' \in [Ids -> RunIds]
             /\ lost' \subseteq [run : RunIds, ids : SUBSET Ids]
             /\ UNCHANGED <<ckpt, runs, faults, pc>>
  BY <1>8, <1>a, OverwriteType DEF Arrive
<1> QED
  BY <1>1, <1>2, <1>3, <1>4, <1>5, <1>6, <1>7, <1>8 DEF Next, Work, Faulty

LEMMA TypeStep == TypeOK /\ [Next]_vars => TypeOK'
<1>1. TypeOK /\ Next => TypeOK'
  BY JobTypeStep, StoreTypeStep DEF TypeOK
<1>2. TypeOK /\ UNCHANGED vars => TypeOK'
  BY DEF TypeOK, vars
<1> QED
  BY <1>1, <1>2

\* Every variable keeps its type: no step of a run leaves the bounds of the
\* corpus, of the retry budget or of the run ids.
THEOREM TypeInvariant == Spec => []TypeOK
<1>1. Init => TypeOK
  BY NoJobType, BoundsAssumption
  DEF Init, TypeOK, RunIds, Locations, Progress
<1>2. QED
  BY <1>1, TypeStep, PTL DEF Spec


--------------------------------------------------------------------------------
(* The strengthening is inductive, one part after the other.               *)

LEMMA InitIInv == Init => IInv
<1> SUFFICES ASSUME Init PROVE IInv
  OBVIOUS
<1>1. TypeOK
  BY NoJobType, BoundsAssumption
  DEF Init, TypeOK, RunIds, Locations, Progress
<1>2. /\ job.processed = {} /\ job.failed = {} /\ job.batch = {}
      /\ ~job.dry
  BY DEF Init, NoJob, NewJob
<1>3. BatchIds = {}
  BY <1>2 DEF BatchIds
<1> QED
  BY <1>1, <1>2, <1>3, BoundsAssumption
  DEF IInv, Init, StoreInv, RunInv, BatchInv, PlanInv, Recorded,
      ProgressConsistent

\* The run ids of a real run and of the checkpoint stay in order.
LEMMA RunStep ==
    ASSUME TypeOK, RunInv, Next
    PROVE  RunInv'
<1> USE DEF RunInv, RunIds
<1>a. job \in JobType /\ ckpt.run \in Int /\ runs \in Int /\ job.run \in Int
  BY DEF TypeOK, JobType, Progress
<1>b. pc = "upsert" => \A S \in GivenUp : \A q \in S : q.run > 0
  BY DEF GivenUp
<1>1. ASSUME NEW d \in BOOLEAN, NEW l \in Limits, StartFresh(d, l)
      PROVE  RunInv'
  BY <1>1, <1>a DEF StartFresh, NewJob, TypeOK, store
<1>2. ASSUME NEW d \in BOOLEAN, NEW l \in Limits, StartResumed(d, l)
      PROVE  RunInv'
  BY <1>2, <1>a DEF StartResumed, NewJob, TypeOK, Progress, store
<1>3. CASE ReadCountBefore \/ SkipFiltered \/ SkipProcessed \/ FailPreparation
           \/ EndScan \/ BreakScan \/ Report
  <2>1. job'.run = job.run /\ job'.dry = job.dry
    BY <1>3, <1>a DEF JobType, ReadCountBefore, SkipFiltered, SkipProcessed,
       FailPreparation, EndScan, BreakScan, Report
  <2> QED
    BY <1>3, <1>a, <2>1 DEF ReadCountBefore, SkipFiltered, SkipProcessed,
       FailPreparation, EndScan, BreakScan, AfterScan, Report, store
<1>4. CASE Prepare
  <2>1. job'.run = job.run /\ job'.dry = job.dry
    BY <1>4, <1>a DEF JobType, Prepare
  <2>2. pc' = "embed" => ~job.dry
    BY <1>4, FS_EmptySet, BoundsAssumption DEF Prepare
  <2> QED
    BY <1>4, <1>a, <2>1, <2>2 DEF Prepare, store
<1>5. CASE \/ Embed \/ WriteCheckpoint
           \/ (\E c \in Ids : Apply(c)) \/ (\E q \in lost : Arrive(q))
  BY <1>5, <1>a DEF Embed, WriteCheckpoint, Apply, Arrive, store
<1>6. CASE UpsertCompleted \/ UpsertAcknowledged \/ EmbedFails \/ UpsertRaises
  <2>1. job'.run = job.run /\ job'.dry = job.dry
    BY <1>6, <1>a DEF JobType, UpsertCompleted, UpsertAcknowledged, EmbedFails,
       UpsertRaises, BatchDone, BatchFailed
  <2>2. \A q \in lost' : q.run > 0
    BY <1>6, <1>b DEF UpsertCompleted, UpsertAcknowledged, EmbedFails, UpsertRaises, store
  <2> QED
    BY <1>6, <1>a, <2>1, <2>2 DEF UpsertCompleted, UpsertAcknowledged, EmbedFails,
       UpsertRaises
<1>7. CASE Exit \/ CheckpointFails \/ Crash
  BY <1>7, <1>b DEF Exit, CheckpointFails, Crash, store
<1> QED
  BY <1>1, <1>2, <1>3, <1>4, <1>5, <1>6, <1>7 DEF Next, Start, Work, Faulty

\* An upsert of a run leaves its chunks, and every chunk recorded for an earlier
\* or the same run, held, and nothing of an earlier run still to be applied.
LEMMA UpsertKeepsLatest ==
    ASSUME TypeOK, NEW r \in RunIds, NEW c \in Ids,
           job.run > 0, r <= job.run,
           c \in BatchIds \/ HeldFrom(c, r),
           \/ queued' = Overwrite(queued, BatchIds, job.run) /\ points' = points
           \/ queued' = Overwrite(queued, BatchIds, 0)
              /\ points' = Overwrite(points, BatchIds, job.run)
    PROVE  HeldFrom(c, r)'
  BY DEF TypeOK, JobType, RunIds, HeldFrom, Overwrite

\* What Qdrant applies is what it accepted last.
LEMMA ApplyKeepsLatest ==
    ASSUME TypeOK, NEW r \in RunIds, NEW c \in Ids, NEW d \in Ids,
           HeldFrom(c, r), Apply(d)
    PROVE  HeldFrom(c, r)'
  BY DEF TypeOK, RunIds, HeldFrom, Apply

\* An upsert that arrives late may be of an earlier run, but what it overwrites is
\* held all the same.
LEMMA ArriveKeepsHeld ==
    ASSUME TypeOK, RunInv, NEW r \in RunIds, NEW c \in Ids, NEW q \in lost,
           HeldFrom(c, r), Arrive(q)
    PROVE  HeldFrom(c, r)'
<1>1. q.run \in RunIds /\ q.run > 0
  BY DEF TypeOK, RunInv
<1> QED
  BY <1>1 DEF TypeOK, RunIds, HeldFrom, Arrive, Overwrite

\* Recorded progress stays in Qdrant.
LEMMA StoreStep ==
    ASSUME TypeOK, RunInv, StoreInv, Next
    PROVE  StoreInv'
<1>a. /\ job \in JobType /\ job.run \in RunIds /\ ckpt.run \in RunIds
      /\ job.processed \subseteq Ids /\ ckpt.processed \subseteq Ids
      /\ MaxRuns \in Nat
  BY BoundsAssumption DEF TypeOK, JobType, Progress
<1>1. CASE Start
  <2>1. \/ job'.processed = {}
        \/ job'.processed = ckpt.processed /\ job'.run = ckpt.run
    BY <1>1 DEF Start, StartFresh, StartResumed, NewJob
  <2>2. UNCHANGED <<store, ckpt>>
    BY <1>1 DEF Start, StartFresh, StartResumed
  <2> QED
    BY <2>1, <2>2 DEF StoreInv, Recorded, HeldFrom, store
<1>2. CASE ReadCountBefore \/ SkipFiltered \/ SkipProcessed \/ FailPreparation
           \/ Prepare \/ EndScan \/ BreakScan \/ Embed \/ Report
           \/ EmbedFails
  <2>1. job'.processed = job.processed /\ job'.run = job.run
    BY <1>2, <1>a DEF JobType, ReadCountBefore, SkipFiltered, SkipProcessed,
       FailPreparation, Prepare, EndScan, BreakScan, Embed, Report, EmbedFails,
       BatchFailed
  <2>2. UNCHANGED <<store, ckpt>>
    BY <1>2 DEF ReadCountBefore, SkipFiltered, SkipProcessed, FailPreparation,
       Prepare, EndScan, BreakScan, Embed, Report, EmbedFails
  <2> QED
    BY <2>1, <2>2 DEF StoreInv, Recorded, HeldFrom, store
<1>3. CASE UpsertCompleted \/ UpsertAcknowledged
  <2>1. /\ job'.processed = job.processed \cup BatchIds /\ job'.run = job.run
        /\ ckpt' = ckpt
    BY <1>3, <1>a DEF JobType, UpsertCompleted, UpsertAcknowledged, BatchDone
  <2>2. job.run > 0 /\ ckpt.run <= job.run
    BY <1>3 DEF UpsertCompleted, UpsertAcknowledged, RunInv
  <2>3. BatchIds \subseteq Ids
    BY <1>a, BatchIdsType DEF JobType
  <2>4. ASSUME NEW c \in Ids, NEW r \in RunIds, r <= job.run,
               c \in BatchIds \/ HeldFrom(c, r)
        PROVE  HeldFrom(c, r)'
    BY <1>3, <2>2, <2>4, UpsertKeepsLatest
    DEF UpsertCompleted, UpsertAcknowledged
  <2>5. Recorded(ckpt.processed, ckpt.run)'
    BY <1>a, <2>1, <2>2, <2>4 DEF StoreInv, Recorded
  <2>6. Recorded(job.processed, job.run)'
    BY <1>a, <2>1, <2>2, <2>3, <2>4 DEF StoreInv, Recorded, RunIds
  <2> QED
    BY <2>5, <2>6 DEF StoreInv
<1>4. CASE UpsertRaises
  <2>1. job'.processed = job.processed /\ job'.run = job.run /\ ckpt' = ckpt
    BY <1>4, <1>a DEF JobType, UpsertRaises, BatchFailed
  <2> QED
    BY <1>4, <2>1 DEF UpsertRaises, StoreInv, Recorded, HeldFrom
<1>5. CASE WriteCheckpoint
  BY <1>5 DEF WriteCheckpoint, StoreInv, Recorded, HeldFrom, store
<1>6. CASE Exit \/ CheckpointFails \/ Crash
  BY <1>6 DEF Exit, CheckpointFails, Crash, NoJob, NewJob, StoreInv, Recorded,
     HeldFrom, store
<1>7. ASSUME NEW d \in Ids, Apply(d) PROVE StoreInv'
  BY <1>7, <1>a, ApplyKeepsLatest DEF Apply, StoreInv, Recorded
<1>8. ASSUME NEW q \in lost, Arrive(q) PROVE StoreInv'
  BY <1>8, <1>a, ArriveKeepsHeld DEF Arrive, StoreInv, Recorded
<1> QED
  BY <1>1, <1>2, <1>3, <1>4, <1>5, <1>6, <1>7, <1>8 DEF Next, Work, Faulty

\* One more row passes the filter or does not.
LEMMA MatchingNext ==
    ASSUME NEW n \in Nat
    PROVE  MatchingUpTo(n + 1) =
             IF Corpus[n + 1].kind = "filtered" THEN MatchingUpTo(n)
             ELSE MatchingUpTo(n) \cup {n + 1}
<1>1. 1 .. (n + 1) = (1 .. n) \cup {n + 1}
  OBVIOUS
<1> QED
  BY <1>1 DEF MatchingUpTo

\* How the scanning position and the batch move the planned and the batched ids.
LEMMA PlannedNext ==
    ASSUME job \in JobType, MoreRows, job' \in JobType, job'.pos = job.pos + 1
    PROVE  PlannedIds' = IF NextRow.kind = "filtered" THEN PlannedIds
                         ELSE PlannedIds \cup {NextRow.id}
<1>1. job.pos \in Nat
  BY CorpusAssumption DEF JobType
<1>2. MatchingUpTo(job.pos + 1) =
        IF NextRow.kind = "filtered" THEN MatchingUpTo(job.pos)
        ELSE MatchingUpTo(job.pos) \cup {job.pos + 1}
  BY <1>1, MatchingNext DEF NextRow
<1>3. PlannedIds' = {Corpus[i].id : i \in MatchingUpTo(job.pos + 1)}
  BY DEF PlannedIds, MatchingUpTo
<1> QED
  BY <1>2, <1>3 DEF PlannedIds, NextRow

LEMMA PlannedSame ==
    ASSUME job'.pos = job.pos PROVE PlannedIds' = PlannedIds
  BY DEF PlannedIds

LEMMA BatchSame ==
    ASSUME job'.batch = job.batch PROVE BatchIds' = BatchIds
  BY DEF BatchIds

LEMMA BatchEmptied ==
    ASSUME job'.batch = {} PROVE BatchIds' = {}
  BY DEF BatchIds

LEMMA BatchGrows ==
    ASSUME job'.batch = job.batch \cup {job.pos + 1}
    PROVE  BatchIds' = BatchIds \cup {NextRow.id}
  BY DEF BatchIds, NextRow

\* Processed and failed chunks stay apart, and the batch apart from the
\* processed ones.
LEMMA BatchStep ==
    ASSUME TypeOK, BatchInv, Next
    PROVE  BatchInv'
<1> USE DEF BatchInv, ProgressConsistent
<1>a. job \in JobType
  BY DEF TypeOK
<1>1. CASE Start
  <2>1. /\ job'.batch = {} /\ ckpt' = ckpt /\ pc' \in {"scan", "count"}
        /\ \/ job'.processed = {} /\ job'.failed = {}
           \/ job'.processed = ckpt.processed /\ job'.failed = ckpt.failed
    BY <1>1 DEF Start, StartFresh, StartResumed, NewJob
  <2> QED
    BY <2>1, BatchEmptied
<1>2. CASE ReadCountBefore \/ SkipFiltered \/ SkipProcessed \/ Report
  <2>1. /\ job'.batch = job.batch /\ ckpt' = ckpt /\ job'.dry = job.dry
        /\ job'.processed = job.processed /\ job'.failed = job.failed
    BY <1>2, <1>a
    DEF JobType, ReadCountBefore, SkipFiltered, SkipProcessed, Report
  <2>2. pc' \in {"checkpoint", "finish", "reported"} => job.batch = {}
    BY <1>2 DEF ReadCountBefore, SkipFiltered, SkipProcessed, Report
  <2> QED
    BY <2>1, <2>2, BatchSame
<1>3. CASE FailPreparation
  <2>1. /\ job'.batch = job.batch /\ ckpt' = ckpt /\ pc' = "scan"
        /\ job'.processed = job.processed /\ job'.dry = job.dry
        /\ job'.failed = job.failed \cup {NextRow.id}
        /\ NextRow.id \notin job.processed
    BY <1>3, <1>a DEF JobType, FailPreparation
  <2> QED
    BY <2>1, BatchSame
<1>4. CASE Prepare
  <2>1. /\ ckpt' = ckpt /\ pc' \in {"scan", "embed"}
        /\ job'.processed = job.processed /\ job'.failed = job.failed
        /\ NextRow.id \notin job.processed /\ job'.dry = job.dry
        /\ \/ job'.batch = {}
           \/ ~job.dry /\ job'.batch = job.batch \cup {job.pos + 1}
    BY <1>4, <1>a DEF JobType, Prepare
  <2> QED
    BY <2>1, BatchEmptied, BatchGrows
<1>5. CASE EndScan \/ BreakScan
  <2>1. /\ job'.batch = job.batch /\ ckpt' = ckpt /\ job'.dry = job.dry
        /\ job'.processed = job.processed /\ job'.failed = job.failed
    BY <1>5, <1>a DEF JobType, EndScan, BreakScan
  <2>2. /\ pc' \in {"finish", "embed", "checkpoint"}
        /\ pc' = "checkpoint" => job.batch = {}
        /\ pc' = "finish" => job.dry
    BY <1>5 DEF EndScan, BreakScan, AfterScan
  <2> QED
    BY <2>1, <2>2, BatchSame
<1>6. CASE \/ Embed \/ WriteCheckpoint
           \/ (\E c \in Ids : Apply(c)) \/ (\E q \in lost : Arrive(q))
  <2>1. job' = job /\ BatchIds' = BatchIds
    BY <1>6, BatchSame DEF Embed, WriteCheckpoint, Apply, Arrive
  <2> QED
    BY <1>6, <2>1 DEF Embed, WriteCheckpoint, Apply, Arrive
<1>7. CASE UpsertCompleted \/ UpsertAcknowledged
  <2>1. /\ job'.processed = job.processed \cup BatchIds /\ ckpt' = ckpt
        /\ job'.failed = job.failed \ BatchIds /\ job'.batch = {}
    BY <1>7, <1>a DEF JobType, UpsertCompleted, UpsertAcknowledged, BatchDone
  <2> QED
    BY <2>1, BatchEmptied
<1>8. CASE EmbedFails \/ UpsertRaises
  <2>1. CASE job' = BatchFailed /\ pc' = "checkpoint" /\ ckpt' = ckpt
    <3>1. /\ job'.processed = job.processed /\ job'.batch = {}
          /\ job'.failed = job.failed \cup BatchIds
      BY <2>1, <1>a DEF JobType, BatchFailed
    <3> QED
      BY <2>1, <3>1, BatchEmptied
  <2>2. CASE job' = [job EXCEPT !.attempt = @ + 1] /\ pc' = "upsert"
             /\ ckpt' = ckpt
    <3>1. /\ job'.processed = job.processed /\ job'.batch = job.batch
          /\ job'.failed = job.failed /\ job'.dry = job.dry
      BY <2>2, <1>a DEF JobType
    <3> QED
      BY <2>2, <3>1, BatchSame
  <2> QED
    BY <1>8, <2>1, <2>2 DEF EmbedFails, UpsertRaises
<1>9. CASE Exit \/ CheckpointFails \/ Crash
  <2>1. /\ job'.processed = {} /\ job'.failed = {} /\ job'.batch = {}
        /\ ckpt' = ckpt /\ pc' = "idle"
    BY <1>9 DEF Exit, CheckpointFails, Crash, NoJob, NewJob
  <2> QED
    BY <2>1, BatchEmptied
<1> QED
  BY <1>1, <1>2, <1>3, <1>4, <1>5, <1>6, <1>7, <1>8, <1>9
  DEF Next, Start, Work, Faulty

\* Every planned chunk stays accounted for.
LEMMA PlanStep ==
    ASSUME TypeOK, RunInv, BatchInv, PlanInv, Next
    PROVE  PlanInv'
<1> USE DEF PlanInv
<1>a. job \in JobType /\ job' \in JobType
  BY JobTypeStep DEF TypeOK
<1>b. ASSUME job'.dry = job.dry, job'.runFailed = job.runFailed,
             job'.streamFailed = job.streamFailed, job'.upserted = job.upserted
      PROVE  Status' = Status
  BY <1>b DEF Status
<1>1. CASE Start
  <2>1. job'.pos = 0 /\ pc' \in {"scan", "count"}
    BY <1>1 DEF Start, StartFresh, StartResumed, NewJob
  <2>2. PlannedIds' = {}
    BY <2>1 DEF PlannedIds, MatchingUpTo
  <2> QED
    BY <2>1, <2>2
<1>2. CASE ReadCountBefore \/ EndScan \/ BreakScan
  <2>1. /\ job'.batch = job.batch /\ job'.pos = job.pos /\ job'.dry = job.dry
        /\ job'.processed = job.processed /\ job'.failed = job.failed
        /\ job'.runFailed = job.runFailed /\ pc # "idle"
    BY ZenonT(60), <1>2, <1>a DEF JobType, ReadCountBefore, EndScan, BreakScan
  <2>2. pc' # "reported" /\ (pc' = "finish" => job.dry)
    BY <1>2 DEF ReadCountBefore, EndScan, BreakScan, AfterScan
  <2> QED
    BY <2>1, <2>2, BatchSame, PlannedSame
<1>3. CASE SkipFiltered \/ SkipProcessed \/ FailPreparation
  <2>1. /\ job'.batch = job.batch /\ job'.pos = job.pos + 1
        /\ job'.processed = job.processed /\ job'.dry = job.dry
        /\ MoreRows /\ pc' = "scan" /\ pc = "scan"
        /\ \/ /\ NextRow.kind = "filtered"
              /\ job'.failed = job.failed /\ job'.runFailed = job.runFailed
           \/ /\ NextRow.id \in job.processed
              /\ job'.failed = job.failed /\ job'.runFailed = job.runFailed
           \/ /\ job'.failed = job.failed \cup {NextRow.id}
              /\ job'.runFailed = job.runFailed \cup {NextRow.id}
    BY <1>3, <1>a DEF JobType, SkipFiltered, SkipProcessed, FailPreparation
  <2> QED
    BY <1>a, <2>1, BatchSame, PlannedNext
<1>4. CASE Prepare
  <2>1. /\ job'.pos = job.pos + 1 /\ job'.dry = job.dry
        /\ job'.processed = job.processed /\ job'.failed = job.failed
        /\ job'.runFailed = job.runFailed
        /\ MoreRows /\ pc = "scan" /\ pc' \in {"scan", "embed"}
        /\ job.dry \/ job'.batch = job.batch \cup {job.pos + 1}
    BY <1>4, <1>a DEF JobType, Prepare
  <2> QED
    BY <1>a, <2>1, BatchGrows, PlannedNext
<1>5. CASE Embed \/ (\E c \in Ids : Apply(c)) \/ (\E q \in lost : Arrive(q))
  <2>1. /\ job' = job /\ ckpt' = ckpt
        /\ pc' = pc \/ (pc = "embed" /\ pc' = "upsert")
    BY <1>5 DEF Embed, Apply, Arrive
  <2> QED
    BY <2>1, <1>b, BatchSame, PlannedSame
<1>6. CASE UpsertCompleted \/ UpsertAcknowledged
  <2>1. /\ job'.processed = job.processed \cup BatchIds
        /\ job'.failed = job.failed \ BatchIds /\ job'.pos = job.pos
        /\ job'.runFailed = job.runFailed /\ job'.dry = job.dry
        /\ pc = "upsert" /\ pc' = "checkpoint"
    BY ZenonT(60), <1>6, <1>a DEF JobType, UpsertCompleted, UpsertAcknowledged, BatchDone
  <2> QED
    BY <2>1, PlannedSame
<1>7. CASE EmbedFails \/ UpsertRaises
  <2>1. /\ job'.pos = job.pos /\ job'.dry = job.dry
        /\ job'.processed = job.processed
        /\ pc \in {"embed", "upsert"} /\ pc' \in {"upsert", "checkpoint"}
        /\ \/ /\ job'.failed = job.failed \cup BatchIds
              /\ job'.runFailed = job.runFailed \cup BatchIds
           \/ /\ job'.failed = job.failed /\ job'.runFailed = job.runFailed
              /\ job'.batch = job.batch
    BY <1>7, <1>a DEF JobType, EmbedFails, UpsertRaises, BatchFailed
  <2> QED
    BY <2>1, PlannedSame, BatchSame
<1>8. CASE WriteCheckpoint
  <2>1. /\ job' = job /\ pc = "checkpoint" /\ pc' \in {"scan", "finish"}
        /\ ckpt'.processed = job.processed /\ ckpt'.failed = job.failed
    BY <1>8 DEF WriteCheckpoint
  <2> QED
    BY <2>1, BatchSame, PlannedSame
<1>9. CASE Report
  <2>1. /\ job'.batch = job.batch /\ job'.pos = job.pos /\ job'.dry = job.dry
        /\ job'.processed = job.processed /\ job'.failed = job.failed
        /\ job'.runFailed = job.runFailed /\ job'.upserted = job.upserted
        /\ job'.streamFailed = job.streamFailed /\ job'.status = Status
        /\ ckpt' = ckpt /\ pc = "finish" /\ pc' = "reported"
    BY <1>9, <1>a DEF JobType, Report
  <2> QED
    BY <2>1, <1>b, BatchSame, PlannedSame
<1>10. CASE Exit \/ CheckpointFails \/ Crash
  BY <1>10 DEF Exit, CheckpointFails, Crash
<1> QED
  BY <1>1, <1>2, <1>3, <1>4, <1>5, <1>6, <1>7, <1>8, <1>9, <1>10
  DEF Next, Start, Work, Faulty

LEMMA IInvStep == IInv /\ [Next]_vars => IInv'
<1>1. IInv /\ Next => IInv'
  BY TypeStep, RunStep, StoreStep, BatchStep, PlanStep DEF IInv
<1>2. IInv /\ UNCHANGED vars => IInv'
  <2> SUFFICES ASSUME IInv, UNCHANGED vars PROVE IInv'
    OBVIOUS
  <2>1. job' = job /\ ckpt' = ckpt /\ pc' = pc /\ runs' = runs
        /\ points' = points /\ queued' = queued /\ lost' = lost
    BY DEF vars
  <2>2. BatchIds' = BatchIds /\ PlannedIds' = PlannedIds /\ Status' = Status
    BY <2>1 DEF BatchIds, PlannedIds, Status
  <2> QED
    BY <2>1, <2>2, TypeStep
    DEF IInv, StoreInv, RunInv, BatchInv, PlanInv, Recorded, HeldFrom,
        ProgressConsistent
<1> QED
  BY <1>1, <1>2

LEMMA Inductive == Spec => []IInv
  BY InitIInv, IInvStep, PTL DEF Spec

--------------------------------------------------------------------------------
(* What the inductive invariant gives.                                     *)

\* A chunk recorded as processed, in memory or in the checkpoint file, is in
\* Qdrant or accepted by it, whatever fails and whenever the process dies.
THEOREM ProcessedIsStoredAlways == Spec => []ProcessedIsStored
<1>1. IInv => ProcessedIsStored
  BY DEF IInv, TypeOK, StoreInv, Recorded, HeldFrom, ProcessedIsStored,
     Progress, JobType, RunIds
<1> QED
  BY <1>1, Inductive, PTL

\* The validator of IndexingCheckpoint never refuses the progress of a run.
THEOREM ProgressConsistentAlways == Spec => []ProgressConsistent
<1>1. IInv => ProgressConsistent
  BY DEF IInv, BatchInv
<1> QED
  BY <1>1, Inductive, PTL

\* A run that reports success leaves no planned chunk outside Qdrant.
THEOREM SuccessMeansIndexedAlways == Spec => []SuccessMeansIndexed
<1>1. IInv => SuccessMeansIndexed
  <2> SUFFICES ASSUME IInv, pc = "reported", job.status = "success"
               PROVE  /\ PlannedIds \subseteq job.processed
                      /\ \A c \in PlannedIds : points[c] # 0 \/ queued[c] # 0
                      /\ ckpt.processed = job.processed
    BY DEF SuccessMeansIndexed
  <2>1. ~job.dry /\ job.runFailed = {}
    BY DEF IInv, PlanInv, Status
  <2>2. BatchIds = {}
    BY DEF IInv, BatchInv, BatchIds
  <2>3. PlannedIds \subseteq job.processed /\ ckpt.processed = job.processed
    BY <2>1, <2>2 DEF IInv, PlanInv
  <2>4. ProcessedIsStored
    BY DEF IInv, TypeOK, StoreInv, Recorded, HeldFrom, ProcessedIsStored,
       Progress, JobType, RunIds
  <2> QED
    BY <2>3, <2>4 DEF ProcessedIsStored
<1> QED
  BY <1>1, Inductive, PTL

\* A real run that reaches its report has every planned chunk in the checkpoint,
\* as processed or as failed.
THEOREM EveryPlannedChunkAccountedAlways == Spec => []EveryPlannedChunkAccounted
<1>1. IInv => EveryPlannedChunkAccounted
  <2> SUFFICES ASSUME IInv, pc \in {"finish", "reported"}, ~job.dry
               PROVE  PlannedIds \subseteq ckpt.processed \cup ckpt.failed
    BY DEF EveryPlannedChunkAccounted
  <2>1. BatchIds = {}
    BY DEF IInv, BatchInv, BatchIds
  <2> QED
    BY <2>1 DEF IInv, PlanInv
<1> QED
  BY <1>1, Inductive, PTL

\* The point of a chunk that the checkpoint records is replaced by the payload of an
\* earlier run only by an upsert that its client gave up and that arrives late.
THEOREM NoStaleOverwriteAlways == Spec => NoStaleOverwrite
<1>1. IInv /\ Next =>
        \A c \in ckpt.processed : points'[c] # points[c] =>
            \/ points'[c] >= ckpt.run
            \/ \E q \in lost \ lost' : c \in q.ids /\ points'[c] = q.run
  <2> SUFFICES ASSUME IInv, Next, NEW c \in ckpt.processed,
                      points'[c] # points[c]
               PROVE  \/ points'[c] >= ckpt.run
                      \/ \E q \in lost \ lost' : c \in q.ids /\ points'[c] = q.run
    OBVIOUS
  <2>1. c \in Ids /\ HeldFrom(c, ckpt.run)
    BY DEF IInv, StoreInv, Recorded, TypeOK, Progress
  <2>2. CASE UpsertCompleted
    <3>1. ckpt.run <= job.run
      BY <2>2 DEF UpsertCompleted, IInv, RunInv
    <3> QED
      BY <2>1, <2>2, <3>1
      DEF UpsertCompleted, Overwrite, IInv, TypeOK, JobType, Progress, RunIds
  <2>3. ASSUME NEW d \in Ids, Apply(d) PROVE points'[c] >= ckpt.run
    BY <2>1, <2>3 DEF Apply, HeldFrom, IInv, TypeOK
  <2>4. ASSUME NEW q \in lost, Arrive(q)
        PROVE  q \in lost \ lost' /\ c \in q.ids /\ points'[c] = q.run
    BY <2>1, <2>4 DEF Arrive, Overwrite, IInv, TypeOK
  <2>5. CASE Start \/ ReadCountBefore \/ SkipFiltered \/ SkipProcessed
             \/ FailPreparation \/ Prepare \/ EndScan \/ BreakScan \/ Embed
             \/ UpsertAcknowledged \/ WriteCheckpoint \/ Report \/ Exit \/ Faulty
    <3>1. points' = points
      BY <2>5 DEF Start, StartFresh, StartResumed, ReadCountBefore,
         SkipFiltered, SkipProcessed, FailPreparation, Prepare, EndScan,
         BreakScan, Embed, UpsertAcknowledged, WriteCheckpoint, Report, Exit,
         Faulty, EmbedFails, UpsertRaises, CheckpointFails, Crash, store
    <3> QED
      BY <3>1
  <2> QED
    BY <2>2, <2>3, <2>4, <2>5 DEF Next, Work
<1>2. IInv /\ [Next]_vars =>
        [\A c \in ckpt.processed : points'[c] # points[c] =>
            \/ points'[c] >= ckpt.run
            \/ \E q \in lost \ lost' : c \in q.ids /\ points'[c] = q.run]_vars
  BY <1>1
<1> QED
  BY <1>2, Inductive, PTL DEF Spec, NoStaleOverwrite


--------------------------------------------------------------------------------
(* What a step may do to what earlier runs have recorded: besides IInv,    *)
(* the progress of the checkpoint is in the run that resumes it, the count *)
(* before the run is not undone, and the limit counts rows of the corpus.  *)

\* A run that goes on from the checkpoint has all its progress.
GrowInv ==
    pc # "idle" /\ ~job.dry /\ job.run = ckpt.run => ckpt.processed \subseteq job.processed

\* Qdrant never holds fewer points than before the run.
CountInv == job.before <= StoredCount

\* The planned rows are counted against the limit, and the batch is of them.
LimitInv ==
    /\ job.planned = Cardinality(MatchingUpTo(job.pos))
    /\ job.planned <= job.limit
    /\ job.batch \subseteq MatchingUpTo(job.pos)

\* A finite set of row numbers has a number of members, and fewer rows have fewer.
LEMMA MatchingFinite ==
    ASSUME NEW n \in Nat
    PROVE  IsFiniteSet(MatchingUpTo(n)) /\ Cardinality(MatchingUpTo(n)) \in Nat
<1>1. IsFiniteSet(1 .. n)
  BY FS_Interval
<1>2. MatchingUpTo(n) \subseteq 1 .. n
  BY DEF MatchingUpTo
<1> QED
  BY <1>1, <1>2, FS_Subset, FS_CardinalityType

LEMMA MatchingMonotone ==
    ASSUME NEW m \in Nat, NEW n \in Nat, m <= n
    PROVE  MatchingUpTo(m) \subseteq MatchingUpTo(n)
           /\ Cardinality(MatchingUpTo(m)) <= Cardinality(MatchingUpTo(n))
<1>1. MatchingUpTo(m) \subseteq MatchingUpTo(n)
  BY DEF MatchingUpTo
<1> QED
  BY <1>1, MatchingFinite, FS_Subset

LEMMA MatchingZero == MatchingUpTo(0) = {} /\ Cardinality(MatchingUpTo(0)) = 0
  BY FS_EmptySet DEF MatchingUpTo

LEMMA MatchingCount ==
    ASSUME NEW n \in Nat
    PROVE  Cardinality(MatchingUpTo(n + 1)) =
             IF Corpus[n + 1].kind = "filtered" THEN Cardinality(MatchingUpTo(n))
             ELSE Cardinality(MatchingUpTo(n)) + 1
<1>1. n + 1 \notin MatchingUpTo(n)
  BY DEF MatchingUpTo
<1> DEFINE M == MatchingUpTo(n)
<1>2. IsFiniteSet(M) /\ n + 1 \notin M
  BY <1>1, MatchingFinite
<1> HIDE DEF M
<1>3. Cardinality(M \cup {n + 1}) = Cardinality(M) + 1
  BY <1>2, FS_AddElement
<1> QED
  BY <1>3, MatchingNext DEF M

\* The run whose progress the checkpoint has never has less than it.
LEMMA GrowStep == IInv /\ GrowInv /\ [Next]_vars => GrowInv'
<1> SUFFICES ASSUME IInv, GrowInv, [Next]_vars PROVE GrowInv'
  OBVIOUS
<1> USE DEF GrowInv
<1>a. job \in JobType /\ ckpt.run \in Int /\ runs \in Int /\ ckpt.run <= runs
  BY DEF IInv, TypeOK, RunInv, Progress, RunIds
<1>1. CASE Start
  BY <1>1, <1>a DEF Start, StartFresh, StartResumed, NewJob
<1>2. CASE WriteCheckpoint
  BY <1>2 DEF WriteCheckpoint
<1>3. CASE Exit \/ CheckpointFails \/ Crash
  BY <1>3 DEF Exit, CheckpointFails, Crash
<1>4. CASE \/ UNCHANGED vars
           \/ (\E c \in Ids : Apply(c)) \/ (\E q \in lost : Arrive(q))
  BY <1>4 DEF vars, Apply, Arrive
<1>5. CASE ReadCountBefore \/ SkipFiltered \/ SkipProcessed \/ FailPreparation \/ Prepare
           \/ EndScan \/ BreakScan \/ Embed \/ EmbedFails \/ UpsertRaises \/ Report
  <2>1. /\ job'.run = job.run /\ job'.dry = job.dry /\ ckpt' = ckpt /\ pc # "idle"
        /\ job'.processed = job.processed
    BY ZenonT(60), <1>5, <1>a DEF JobType, ReadCountBefore, SkipFiltered, SkipProcessed,
       FailPreparation, Prepare, EndScan, BreakScan, Embed, EmbedFails, UpsertRaises,
       Report, BatchFailed
  <2> QED
    BY <2>1
<1>6. CASE UpsertCompleted \/ UpsertAcknowledged
  <2>1. /\ job'.run = job.run /\ job'.dry = job.dry /\ ckpt' = ckpt /\ pc # "idle"
        /\ job'.processed = job.processed \cup BatchIds
    BY <1>6, <1>a DEF JobType, UpsertCompleted, UpsertAcknowledged, BatchDone
  <2> QED
    BY <2>1
<1> QED
  BY <1>1, <1>2, <1>3, <1>4, <1>5, <1>6 DEF Next, Work, Faulty

\* No step takes a point out of Qdrant.
LEMMA StoredStep ==
    ASSUME IInv, [Next]_vars
    PROVE  \A c \in Ids : points[c] # 0 => points'[c] # 0
<1>a. job.run \in RunIds /\ points \in [Ids -> RunIds]
  BY DEF IInv, TypeOK, JobType
<1>1. CASE UpsertCompleted
  <2>1. job.run # 0
    BY <1>1, <1>a DEF UpsertCompleted, IInv, RunInv, RunIds
  <2> QED
    BY <1>1, <1>a, <2>1 DEF UpsertCompleted, Overwrite
<1>2. CASE \E c \in Ids : Apply(c)
  BY <1>2, <1>a DEF Apply
<1>4. ASSUME NEW q \in lost, Arrive(q)
      PROVE  \A c \in Ids : points[c] # 0 => points'[c] # 0
  <2>1. q.run # 0
    BY DEF IInv, RunInv
  <2> QED
    BY <1>4, <1>a, <2>1 DEF Arrive, Overwrite
<1>3. CASE Start \/ ReadCountBefore \/ SkipFiltered \/ SkipProcessed
           \/ FailPreparation \/ Prepare \/ EndScan \/ BreakScan \/ Embed
           \/ UpsertAcknowledged \/ WriteCheckpoint \/ Report \/ Exit \/ Faulty
           \/ UNCHANGED vars
  <2>1. points' = points
    BY <1>3 DEF Start, StartFresh, StartResumed, ReadCountBefore,
       SkipFiltered, SkipProcessed, FailPreparation, Prepare, EndScan,
       BreakScan, Embed, UpsertAcknowledged, WriteCheckpoint, Report, Exit,
       Faulty, EmbedFails, UpsertRaises, CheckpointFails, Crash, store, vars
  <2> QED
    BY <2>1
<1> QED
  BY <1>1, <1>2, <1>3, <1>4 DEF Next, Work

LEMMA StoredCountGrows ==
    ASSUME IInv, [Next]_vars
    PROVE  StoredCount \in Nat /\ StoredCount' \in Nat /\ StoredCount <= StoredCount'
<1> DEFINE S == {c \in Ids : points[c] # 0}
           T == {c \in Ids : points'[c] # 0}
<1>1. S \subseteq T
  BY StoredStep
<1>2. IsFiniteSet(S) /\ IsFiniteSet(T)
  BY IdsAssumption, FS_Subset
<1>3. StoredCount = Cardinality(S) /\ StoredCount' = Cardinality(T)
  BY DEF StoredCount
<1> HIDE DEF S, T
<1> QED
  BY <1>1, <1>2, <1>3, FS_Subset, FS_CardinalityType

\* What a run knows of Qdrant's counts is read when it begins and when it reports.
LEMMA JobEnds ==
    ASSUME IInv, [Next]_vars
    PROVE  \/ ReadCountBefore \/ Report
           \/ job'.before = 0 /\ job'.reconciled = "not_run"
           \/ job'.before = job.before /\ job'.reconciled = job.reconciled
<1>a. job \in JobType
  BY DEF IInv, TypeOK
<1>1. CASE Start \/ Exit \/ CheckpointFails \/ Crash
  <2>1. job'.before = 0 /\ job'.reconciled = "not_run"
    BY <1>1 DEF Start, StartFresh, StartResumed, NewJob, Exit, CheckpointFails, Crash, NoJob
  <2> QED
    BY <2>1
<1>2. CASE SkipFiltered \/ SkipProcessed \/ FailPreparation \/ Prepare \/ EndScan
           \/ BreakScan
  <2>1. job'.before = job.before /\ job'.reconciled = job.reconciled
    BY <1>2, <1>a DEF JobType, SkipFiltered, SkipProcessed, FailPreparation, Prepare,
       EndScan, BreakScan
  <2> QED
    BY <2>1
<1>3. CASE EmbedFails \/ UpsertRaises \/ UpsertCompleted \/ UpsertAcknowledged
  <2>1. job'.before = job.before /\ job'.reconciled = job.reconciled
    BY <1>3, <1>a DEF JobType, EmbedFails, UpsertRaises, UpsertCompleted,
       UpsertAcknowledged, BatchDone, BatchFailed
  <2> QED
    BY <2>1
<1>4. CASE \/ Embed \/ WriteCheckpoint \/ UNCHANGED vars
           \/ (\E c \in Ids : Apply(c)) \/ (\E q \in lost : Arrive(q))
  <2>1. job' = job
    BY <1>4 DEF Embed, WriteCheckpoint, vars, Apply, Arrive
  <2> QED
    BY <2>1
<1> QED
  BY <1>1, <1>2, <1>3, <1>4 DEF Next, Work, Faulty

LEMMA CountStep == IInv /\ CountInv /\ [Next]_vars => CountInv'
<1> SUFFICES ASSUME IInv, CountInv, [Next]_vars PROVE CountInv'
  OBVIOUS
<1>a. job \in JobType /\ job.before \in Nat
  BY DEF IInv, TypeOK, JobType
<1>b. StoredCount \in Nat /\ StoredCount' \in Nat /\ StoredCount <= StoredCount'
  BY StoredCountGrows
<1>1. job'.before \in {job.before, 0, StoredCount}
  BY <1>a, JobEnds DEF ReadCountBefore, Report, JobType
<1> QED
  BY <1>a, <1>b, <1>1 DEF CountInv

LEMMA LimitStep == IInv /\ LimitInv /\ [Next]_vars => LimitInv'
<1> SUFFICES ASSUME IInv, LimitInv, [Next]_vars PROVE LimitInv'
  OBVIOUS
<1> USE DEF LimitInv
<1>a. job \in JobType /\ job.pos \in Nat /\ job.limit \in Nat /\ Limits \subseteq Nat
      /\ job.planned \in Nat
  BY BoundsAssumption, CorpusAssumption DEF IInv, TypeOK, JobType
<1>1. CASE Start
  <2>1. job'.pos = 0 /\ job'.planned = 0 /\ job'.batch = {} /\ job'.limit \in Nat
    BY <1>1, <1>a DEF Start, StartFresh, StartResumed, NewJob
  <2> QED
    BY <2>1, MatchingZero DEF MatchingUpTo
<1>2. CASE Exit \/ CheckpointFails \/ Crash
  <2>1. job'.pos = 0 /\ job'.planned = 0 /\ job'.batch = {} /\ job'.limit \in Nat
    BY <1>2 DEF Exit, CheckpointFails, Crash, NoJob, NewJob
  <2> QED
    BY <2>1, MatchingZero DEF MatchingUpTo
<1>3. CASE SkipFiltered
  <2>1. /\ job'.pos = job.pos + 1 /\ job'.planned = job.planned
        /\ job'.batch = job.batch /\ job'.limit = job.limit
        /\ Corpus[job.pos + 1].kind = "filtered"
    BY <1>3, <1>a DEF SkipFiltered, JobType, NextRow
  <2> QED
    BY <1>a, <2>1, MatchingNext, MatchingCount DEF MatchingUpTo
<1>4. CASE SkipProcessed \/ FailPreparation \/ Prepare
  <2>1. /\ job'.pos = job.pos + 1 /\ job'.planned = job.planned + 1
        /\ job'.batch \subseteq job.batch \cup {job.pos + 1} /\ job'.limit = job.limit
        /\ Corpus[job.pos + 1].kind # "filtered" /\ job.planned < job.limit
    BY <1>4, <1>a DEF SkipProcessed, FailPreparation, Prepare, JobType, NextRow, MoreRows
  <2>2. MatchingUpTo(job.pos + 1) = MatchingUpTo(job.pos) \cup {job.pos + 1}
    BY <1>a, <2>1, MatchingNext
  <2>3. Cardinality(MatchingUpTo(job.pos + 1)) = job.planned + 1
    BY <1>a, <2>1, MatchingCount
  <2> QED
    BY <1>a, <2>1, <2>2, <2>3 DEF MatchingUpTo
<1>5. CASE ReadCountBefore \/ EndScan \/ BreakScan \/ Embed \/ EmbedFails \/ UpsertRaises
           \/ Report \/ UpsertCompleted \/ UpsertAcknowledged \/ WriteCheckpoint
           \/ UNCHANGED vars
           \/ (\E c \in Ids : Apply(c)) \/ (\E q \in lost : Arrive(q))
  <2>1. /\ job'.pos = job.pos /\ job'.planned = job.planned
        /\ job'.batch \subseteq job.batch /\ job'.limit = job.limit
    BY <1>5, <1>a DEF JobType, ReadCountBefore, EndScan, BreakScan, Embed, EmbedFails,
       UpsertRaises, Report, UpsertCompleted, UpsertAcknowledged, WriteCheckpoint, vars,
       Apply, Arrive, BatchDone, BatchFailed
  <2> QED
    BY <2>1 DEF MatchingUpTo
<1> QED
  BY <1>1, <1>2, <1>3, <1>4, <1>5 DEF Next, Work, Faulty

SInv == GrowInv /\ CountInv /\ LimitInv

LEMMA StepsInductive == Spec => [](IInv /\ SInv)
<1>1. Init => SInv
  <2> SUFFICES ASSUME Init PROVE SInv
    OBVIOUS
  <2>1. job.before = 0 /\ job.pos = 0 /\ job.planned = 0 /\ job.batch = {} /\ job.limit = 0
    BY DEF Init, NoJob, NewJob
  <2>2. StoredCount \in Nat
    BY IdsAssumption, FS_Subset, FS_CardinalityType DEF StoredCount
  <2> QED
    BY <2>1, <2>2, MatchingZero DEF Init, SInv, GrowInv, CountInv, LimitInv
<1>2. IInv /\ SInv /\ [Next]_vars => SInv'
  BY GrowStep, CountStep, LimitStep DEF SInv
<1> QED
  BY <1>1, <1>2, Inductive, PTL DEF Spec

\* As long as runs resume, the progress in the checkpoint file only grows.
LEMMA CheckpointOnlyGrowsStep ==
    ASSUME IInv, SInv, Next, ckpt'.run = ckpt.run
    PROVE  ckpt.processed \subseteq ckpt'.processed
<1>1. CASE WriteCheckpoint
  BY <1>1 DEF WriteCheckpoint, SInv, GrowInv, IInv, RunInv
<1>2. CASE ~WriteCheckpoint
  <2>1. ckpt' = ckpt
    BY <1>2 DEF Next, Start, StartFresh, StartResumed, Work, ReadCountBefore,
       SkipFiltered, SkipProcessed, FailPreparation, Prepare, EndScan,
       BreakScan, Embed, UpsertCompleted, UpsertAcknowledged, Report, Exit,
       Faulty, EmbedFails, UpsertRaises, CheckpointFails, Crash, Apply, Arrive
  <2> QED
    BY <2>1
<1> QED
  BY <1>1, <1>2

\* Only an upsert sends anything, and it sends the batch.
LEMMA SendStep ==
    ASSUME IInv, Next, NEW c \in Ids, ~Unsent(c)
    PROVE  pc = "upsert" /\ c \in BatchIds
<1>a. queued \in [Ids -> RunIds] /\ points \in [Ids -> RunIds]
  BY DEF IInv, TypeOK
<1>b. c \notin BatchIds =>
        \A S \in GivenUp : {q \in S : c \in q.ids} = {q \in lost : c \in q.ids}
  BY DEF GivenUp
<1>c. ASSUME points'[c] = points[c], queued'[c] = queued[c],
             {q \in lost' : c \in q.ids} = {q \in lost : c \in q.ids}
      PROVE  Unsent(c)
  BY <1>c DEF Unsent, Coming
<1>1. CASE UpsertCompleted \/ UpsertAcknowledged
  BY <1>1, <1>a, <1>c DEF UpsertCompleted, UpsertAcknowledged, Overwrite
<1>2. CASE UpsertRaises
  BY <1>2, <1>b, <1>c DEF UpsertRaises
<1>3. CASE Crash
  BY <1>3, <1>b, <1>c DEF Crash
<1>4. ASSUME NEW d \in Ids, Apply(d) PROVE Unsent(c)
  <2>1. points'[c] \in {points[c], queued[c]} /\ queued'[c] \in {queued[c], 0}
        /\ lost' = lost
    BY <1>4, <1>a DEF Apply
  <2> QED
    BY <2>1 DEF Unsent, Coming
<1>5. ASSUME NEW q \in lost, Arrive(q) PROVE Unsent(c)
  <2>1. /\ points'[c] = points[c] \/ (c \in q.ids /\ points'[c] = q.run)
        /\ queued'[c] \in {queued[c], 0}
        /\ lost' \subseteq lost
    BY <1>5, <1>a DEF Arrive, Overwrite
  <2> QED
    BY <2>1 DEF Unsent, Coming
<1>6. CASE Start \/ ReadCountBefore \/ SkipFiltered \/ SkipProcessed
           \/ FailPreparation \/ Prepare \/ EndScan \/ BreakScan \/ Embed
           \/ WriteCheckpoint \/ Report \/ Exit \/ EmbedFails \/ CheckpointFails
  <2>1. points' = points /\ queued' = queued /\ lost' = lost
    BY <1>6 DEF Start, StartFresh, StartResumed, ReadCountBefore,
       SkipFiltered, SkipProcessed, FailPreparation, Prepare, EndScan,
       BreakScan, Embed, WriteCheckpoint, Report, Exit, EmbedFails, CheckpointFails, store
  <2> QED
    BY <1>c, <2>1
<1> QED
  BY <1>1, <1>2, <1>3, <1>4, <1>5, <1>6 DEF Next, Work, Faulty

\* A dry run writes nothing.
LEMMA DryRunStep ==
    ASSUME IInv, Next, pc # "idle", job.dry
    PROVE  ckpt' = ckpt /\ \A c \in Ids : Unsent(c)
<1>1. pc \notin {"upsert", "checkpoint"}
  BY DEF IInv, RunInv
<1>2. \A c \in Ids : Unsent(c)
  BY <1>1, SendStep
<1>3. ckpt' = ckpt
  BY <1>1 DEF Next, Start, StartFresh, StartResumed, Work, ReadCountBefore,
     SkipFiltered, SkipProcessed, FailPreparation, Prepare, EndScan,
     BreakScan, Embed, UpsertCompleted, UpsertAcknowledged, WriteCheckpoint, Report, Exit,
     Faulty, EmbedFails, UpsertRaises, CheckpointFails, Crash, Apply, Arrive
<1> QED
  BY <1>2, <1>3

\* What is upserted is of the rows the limit allows.
LEMMA LimitBoundsCorpusStep ==
    ASSUME IInv, SInv, Next, NEW c \in Ids, ~Unsent(c)
    PROVE  \E i \in MatchingUpTo(Len(Corpus)) :
              Corpus[i].id = c /\ Cardinality(MatchingUpTo(i)) <= job.limit
<1>a. /\ job.pos \in Nat /\ Len(Corpus) \in Nat /\ job.pos <= Len(Corpus)
      /\ job.limit \in Nat /\ job.planned \in Nat
  BY CorpusAssumption DEF IInv, TypeOK, JobType
<1>1. PICK i \in job.batch : Corpus[i].id = c
  BY SendStep DEF BatchIds
<1>2. i \in MatchingUpTo(job.pos) /\ i \in Nat /\ i <= job.pos
  BY <1>a, <1>1 DEF SInv, LimitInv, MatchingUpTo
<1>3. i \in MatchingUpTo(Len(Corpus))
  BY <1>a, <1>2, MatchingMonotone
<1>4. Cardinality(MatchingUpTo(i)) <= Cardinality(MatchingUpTo(job.pos))
  BY <1>a, <1>2, MatchingMonotone
<1>5. Cardinality(MatchingUpTo(job.pos)) = job.planned /\ job.planned <= job.limit
  BY DEF SInv, LimitInv
<1>6. Cardinality(MatchingUpTo(i)) \in Nat
  BY <1>2, MatchingFinite
<1> QED
  BY <1>a, <1>1, <1>3, <1>4, <1>5, <1>6

\* A count warning is no false alarm: where the count was read, fewer points than
\* before plus processed can only be missing because an upsert is still to be applied.
LEMMA WarningStep ==
    ASSUME IInv, SInv, Next, job.reconciled # "warning", job'.reconciled = "warning"
    PROVE  ~job'.counted \/ \E c \in job.processed : points[c] = 0 /\ queued[c] # 0
<1> SUFFICES ASSUME job'.counted
             PROVE  \E c \in job.processed : points[c] = 0 /\ queued[c] # 0
  OBVIOUS
<1>a. job \in JobType /\ job.before \in Nat /\ job.processed \subseteq Ids
  BY DEF IInv, TypeOK, JobType
<1>b. StoredCount \in Nat
  BY StoredCountGrows
<1>1. Report
  BY <1>a, JobEnds DEF ReadCountBefore, JobType
<1>2. ~(StoredCount >= ExpectedMin)
  BY <1>a, <1>1 DEF Report, JobType
<1>3. IsFiniteSet(job.processed) /\ IsFiniteSet({c \in Ids : points[c] # 0})
  BY <1>a, IdsAssumption, FS_Subset
<1>4. ~(Cardinality(job.processed) <= StoredCount)
  BY <1>a, <1>b, <1>2, <1>3, FS_CardinalityType DEF ExpectedMin, SInv, CountInv
<1>5. ~(job.processed \subseteq {c \in Ids : points[c] # 0})
  BY <1>3, <1>4, FS_Subset DEF StoredCount
<1>6. PICK c \in job.processed : points[c] = 0
  BY <1>a, <1>5
<1>7. queued[c] # 0
  BY <1>a, <1>6 DEF IInv, StoreInv, Recorded, HeldFrom
<1> QED
  BY <1>6, <1>7

\* No step of any run, nor what Qdrant applies later, goes against what the run was
\* asked to do or what the runs before it have recorded.
THEOREM StepsRespectRecordsAlways == Spec => StepsRespectRecords
<1>1. IInv /\ SInv /\ [Next]_vars =>
        [ckpt'.run = ckpt.run => ckpt.processed \subseteq ckpt'.processed]_vars
  BY CheckpointOnlyGrowsStep
<1>2. IInv /\ SInv /\ [Next]_vars =>
        [pc # "idle" /\ job.dry => ckpt' = ckpt /\ \A c \in Ids : Unsent(c)]_vars
  BY DryRunStep
<1>3. IInv /\ SInv /\ [Next]_vars =>
        [\A c \in Ids : ~Unsent(c) =>
            \E i \in MatchingUpTo(Len(Corpus)) :
                Corpus[i].id = c /\ Cardinality(MatchingUpTo(i)) <= job.limit]_vars
  BY LimitBoundsCorpusStep
<1>4. IInv /\ SInv /\ [Next]_vars =>
        [job.reconciled # "warning" /\ job'.reconciled = "warning" =>
            \/ ~job'.counted
            \/ \E c \in job.processed : points[c] = 0 /\ queued[c] # 0]_vars
  BY WarningStep
<1>5. Spec => CheckpointOnlyGrows
  BY <1>1, StepsInductive, PTL DEF Spec, CheckpointOnlyGrows
<1>6. Spec => DryRunIsReadOnly
  BY <1>2, StepsInductive, PTL DEF Spec, DryRunIsReadOnly
<1>7. Spec => LimitBoundsCorpus
  BY <1>3, StepsInductive, PTL DEF Spec, LimitBoundsCorpus
<1>8. Spec => WarningMeansPending
  BY <1>4, StepsInductive, PTL DEF Spec, WarningMeansPending
<1> QED
  BY <1>5, <1>6, <1>7, <1>8, NoStaleOverwriteAlways DEF StepsRespectRecords

--------------------------------------------------------------------------------
(* The properties the run checks, from their parts.                        *)

\* The records of progress are true and sound, for every corpus and every fault.
THEOREM RecordsAreTrueAlways == Spec => []RecordsAreTrue
  BY ProcessedIsStoredAlways, ProgressConsistentAlways, PTL DEF RecordsAreTrue

\* The report and the checkpoint account for every planned chunk.
THEOREM ReportIsTrueAlways == Spec => []ReportIsTrue
  BY SuccessMeansIndexedAlways, EveryPlannedChunkAccountedAlways, PTL DEF ReportIsTrue
================================================================================
