------------------------------ MODULE IndexingRun ------------------------------
(***************************************************************************)
(* The resumable dense-indexing run: IndexingService.index_chunks streams  *)
(* a corpus of legal chunks, embeds and upserts them into Qdrant in        *)
(* batches, and keeps a progress checkpoint from which a later run may     *)
(* resume.  The operator starts runs, any fault may happen between two     *)
(* steps, and Qdrant may apply an upsert after its answer (status          *)
(* "acknowledged"), or, at any later time, one the client saw fail.        *)
(*                                                                         *)
(* A chunk is its chunk_id: build_point_id is injective in it, so the      *)
(* point of a chunk is indexed by the chunk.  What a point holds is        *)
(* abstracted to the indexing_run_id in its payload; run ids are numbered  *)
(* in the order in which they are minted.  0 stands for "none".            *)
(***************************************************************************)
EXTENDS Integers, Sequences, FiniteSets

CONSTANTS
    Ids,          \* chunk ids
    Corpus,       \* the JSONL input: a sequence of rows [id, kind]
    BatchSize,    \* rows per embedding batch
    Limits,       \* values of --limit; one at least Len(Corpus) is "no limit"
    MaxRetries,   \* --max-retries
    MaxRuns,      \* bound: fresh runs (minted run ids)
    MaxFaults     \* bound: faults over the whole behaviour

\* What reading a row leads to: a chunk that can be prepared, a chunk whose
\* preparation raises, a chunk of another law than law_id, a row that makes the
\* stream itself raise.
Kinds == {"ok", "unprepared", "filtered", "broken"}

ASSUME CorpusAssumption == Corpus \in Seq([id : Ids, kind : Kinds])
ASSUME IdsAssumption == IsFiniteSet(Ids)
ASSUME BoundsAssumption ==
    /\ BatchSize \in Nat \ {0}
    /\ Limits \subseteq Nat
    /\ MaxRetries \in Nat
    /\ MaxRuns \in Nat
    /\ MaxFaults \in Nat

VARIABLES
    points,   \* points[c]: run id in the payload of the stored point of c
    queued,   \* queued[c]: run id of the upsert of c that Qdrant has yet to apply
    lost,     \* upserts given up by their client that may still reach Qdrant
    ckpt,     \* the checkpoint file; ckpt.run = 0 when there is none
    runs,     \* run ids minted so far
    faults,   \* faults so far
    pc,       \* where the indexing process is; "idle" when there is none
    job       \* the local variables of index_chunks

vars == <<points, queued, lost, ckpt, runs, faults, pc, job>>
store == <<points, queued, lost>>

RunIds == 0 .. MaxRuns
Locations == {"idle", "count", "scan", "embed", "upsert", "checkpoint",
              "finish", "reported"}

NewJob(run, dry, limit, processed, failed) ==
    [run |-> run, dry |-> dry, limit |-> limit,
     processed |-> processed,   \* processed_chunk_id_set
     failed |-> failed,         \* checkpoint_failed_ids
     runFailed |-> {},          \* metrics.failed_chunk_ids
     upserted |-> FALSE,        \* metrics.upserted_count > 0
     streamFailed |-> FALSE,    \* a chunk_stream_failed issue was recorded
     pos |-> 0,                 \* rows taken from the iterator (total_seen)
     planned |-> 0,             \* metrics.planned_count
     batch |-> {},              \* positions of the rows of prepared_batch
     attempt |-> 0,             \* failed upserts of this batch
     ended |-> FALSE,           \* the scanning loop is over
     before |-> 0,              \* points_before, 0 also when it is unknown
     status |-> "none", reconciled |-> "not_run",
     counted |-> FALSE]         \* qdrant_points_count_after is not None

NoJob == NewJob(0, FALSE, 0, {}, {})

Init ==
    /\ points = [c \in Ids |-> 0]
    /\ queued = [c \in Ids |-> 0]
    /\ lost = {}
    /\ ckpt = [run |-> 0, processed |-> {}, failed |-> {}]
    /\ runs = 0
    /\ faults = 0
    /\ pc = "idle"
    /\ job = NoJob

Fault == faults < MaxFaults /\ faults' = faults + 1

--------------------------------------------------------------------------------
(* Starting a run.                                                         *)

\* A run without --resume mints a run id and starts with no progress, whatever
\* the checkpoint file holds.  The id of a dry run reaches neither Qdrant nor
\* the checkpoint: it is 0 here.
StartFresh(dry, limit) ==
    /\ pc = "idle"
    /\ dry \/ runs < MaxRuns
    /\ runs' = IF dry THEN runs ELSE runs + 1
    /\ job' = NewJob(IF dry THEN 0 ELSE runs + 1, dry, limit, {}, {})
    /\ pc' = IF dry THEN "scan" ELSE "count"
    /\ UNCHANGED <<store, ckpt, faults>>

\* Mutant: resuming forgets the progress of the checkpoint.
StartResumedEmpty(dry, limit) ==
    /\ pc = "idle"
    /\ ckpt.run # 0
    /\ job' = NewJob(ckpt.run, dry, limit, {}, {})
    /\ pc' = IF dry THEN "scan" ELSE "count"
    /\ UNCHANGED <<store, ckpt, runs, faults>>

\* A run with --resume takes the run id and the progress of the checkpoint; the
\* limit is not among the fields that must match.
StartResumed(dry, limit) ==
    /\ pc = "idle"
    /\ ckpt.run # 0
    /\ job' = NewJob(ckpt.run, dry, limit, ckpt.processed, ckpt.failed)
    /\ pc' = IF dry THEN "scan" ELSE "count"
    /\ UNCHANGED <<store, ckpt, runs, faults>>

StoredCount == Cardinality({c \in Ids : points[c] # 0})

\* The count before the run; a failed read leaves None, which counts as 0.
ReadCountBefore ==
    /\ pc = "count"
    /\ \E n \in {0, StoredCount} : job' = [job EXCEPT !.before = n]
    /\ pc' = "scan"
    /\ UNCHANGED <<store, ckpt, runs, faults>>

--------------------------------------------------------------------------------
(* The scanning loop.                                                      *)

MoreRows == job.pos < Len(Corpus) /\ job.planned < job.limit
NextRow == Corpus[job.pos + 1]

\* law_id filter: the row is seen and not planned.
SkipFiltered ==
    /\ pc = "scan" /\ MoreRows /\ NextRow.kind = "filtered"
    /\ job' = [job EXCEPT !.pos = @ + 1]
    /\ UNCHANGED <<store, ckpt, runs, faults, pc>>

\* Mutant: a skipped chunk does not count toward the limit.
SkipProcessedUncounted ==
    /\ pc = "scan" /\ MoreRows
    /\ NextRow.kind \in {"ok", "unprepared"} /\ NextRow.id \in job.processed
    /\ job' = [job EXCEPT !.pos = @ + 1]
    /\ UNCHANGED <<store, ckpt, runs, faults, pc>>

\* A chunk processed earlier, in this run or in the one it resumes, counts
\* toward the limit and is not prepared again.
SkipProcessed ==
    /\ pc = "scan" /\ MoreRows
    /\ NextRow.kind \in {"ok", "unprepared"} /\ NextRow.id \in job.processed
    /\ job' = [job EXCEPT !.pos = @ + 1, !.planned = @ + 1]
    /\ UNCHANGED <<store, ckpt, runs, faults, pc>>

\* _prepare_chunk raises.
FailPreparation ==
    /\ pc = "scan" /\ MoreRows
    /\ NextRow.kind = "unprepared" /\ NextRow.id \notin job.processed
    /\ job' = [job EXCEPT !.pos = @ + 1, !.planned = @ + 1,
                          !.failed = @ \cup {NextRow.id},
                          !.runFailed = @ \cup {NextRow.id}]
    /\ UNCHANGED <<store, ckpt, runs, faults, pc>>

\* Mutant: a dry run fills batches too.
PrepareEvenDry ==
    /\ pc = "scan" /\ MoreRows
    /\ NextRow.kind = "ok" /\ NextRow.id \notin job.processed
    /\ LET batch == job.batch \cup {job.pos + 1}
       IN /\ job' = [job EXCEPT !.pos = @ + 1, !.planned = @ + 1,
                                !.batch = batch]
          /\ pc' = IF Cardinality(batch) >= BatchSize THEN "embed" ELSE "scan"
    /\ UNCHANGED <<store, ckpt, runs, faults>>

\* Mutant: a chunk that failed before fails again without another attempt.
PrepareUnlessFailed ==
    /\ pc = "scan" /\ MoreRows
    /\ NextRow.kind = "ok" /\ NextRow.id \notin job.processed
    /\ LET again == NextRow.id \in job.failed
           batch == IF job.dry \/ again THEN job.batch ELSE job.batch \cup {job.pos + 1}
       IN /\ job' = [job EXCEPT !.pos = @ + 1, !.planned = @ + 1, !.batch = batch,
                                !.runFailed = IF again THEN @ \cup {NextRow.id} ELSE @]
          /\ pc' = IF Cardinality(batch) >= BatchSize THEN "embed" ELSE "scan"
    /\ UNCHANGED <<store, ckpt, runs, faults>>

\* The chunk joins the batch; a full batch is indexed at once.
Prepare ==
    /\ pc = "scan" /\ MoreRows
    /\ NextRow.kind = "ok" /\ NextRow.id \notin job.processed
    /\ LET batch == IF job.dry THEN {} ELSE job.batch \cup {job.pos + 1}
       IN /\ job' = [job EXCEPT !.pos = @ + 1, !.planned = @ + 1,
                                !.batch = batch]
          /\ pc' = IF Cardinality(batch) >= BatchSize THEN "embed" ELSE "scan"
    /\ UNCHANGED <<store, ckpt, runs, faults>>

\* The loop is over: the iterator is exhausted or raises, or the limit is
\* reached.  What is left in the batch is indexed, then the final checkpoint is
\* written; a dry run does neither.
AfterScan ==
    pc' = IF job.dry THEN "finish"
          ELSE IF job.batch # {} THEN "embed" ELSE "checkpoint"

EndScan ==
    /\ pc = "scan" /\ ~MoreRows
    /\ job' = [job EXCEPT !.ended = TRUE]
    /\ AfterScan
    /\ UNCHANGED <<store, ckpt, runs, faults>>

BreakScan ==
    /\ pc = "scan" /\ MoreRows /\ NextRow.kind = "broken"
    /\ job' = [job EXCEPT !.ended = TRUE, !.streamFailed = TRUE]
    /\ AfterScan
    /\ UNCHANGED <<store, ckpt, runs, faults>>

--------------------------------------------------------------------------------
(* _index_batch, then _record_batch_outcome.                               *)

BatchIds == {Corpus[i].id : i \in job.batch}

\* Mutants: a failed batch counts as processed; it is left out of the failed ids
\* of the checkpoint; a batch that succeeds stays among the failed ids.
BatchFailedAsProcessed ==
    [job EXCEPT !.processed = @ \cup BatchIds, !.batch = {}, !.attempt = 0]

BatchFailedUnrecorded ==
    [job EXCEPT !.runFailed = @ \cup BatchIds, !.batch = {}, !.attempt = 0]

BatchDoneStillFailed ==
    [job EXCEPT !.processed = @ \cup BatchIds,
                !.upserted = TRUE, !.batch = {}, !.attempt = 0]

\* The job after a batch that failed for good, and after one that succeeded.
BatchFailed ==
    [job EXCEPT !.failed = @ \cup BatchIds, !.runFailed = @ \cup BatchIds,
                !.batch = {}, !.attempt = 0]

BatchDone ==
    [job EXCEPT !.processed = @ \cup BatchIds, !.failed = @ \ BatchIds,
                !.upserted = TRUE, !.batch = {}, !.attempt = 0]

Embed ==
    /\ pc = "embed"
    /\ pc' = "upsert"
    /\ UNCHANGED <<store, ckpt, runs, faults, job>>

\* Embedding, its validation or the building of the points raises: never
\* retried.
EmbedFails ==
    /\ pc = "embed"
    /\ Fault
    /\ job' = BatchFailed
    /\ pc' = "checkpoint"
    /\ UNCHANGED <<store, ckpt, runs>>

Overwrite(f, S, v) == [c \in Ids |-> IF c \in S THEN v ELSE f[c]]

\* Qdrant answers "completed": the points are stored.
UpsertCompleted ==
    /\ pc = "upsert"
    /\ points' = Overwrite(points, BatchIds, job.run)
    /\ queued' = Overwrite(queued, BatchIds, 0)
    /\ job' = BatchDone
    /\ pc' = "checkpoint"
    /\ UNCHANGED <<lost, ckpt, runs, faults>>

\* Qdrant answers "acknowledged": the points will be stored.
UpsertAcknowledged ==
    /\ pc = "upsert"
    /\ queued' = Overwrite(queued, BatchIds, job.run)
    /\ job' = BatchDone
    /\ pc' = "checkpoint"
    /\ UNCHANGED <<points, lost, ckpt, runs, faults>>

\* The request the client no longer waits for never reaches Qdrant, or is on its way.
GivenUp == {lost, lost \cup {[run |-> job.run, ids |-> BatchIds]}}

\* Mutant: one retry too many.
UpsertRaisesOnceMore ==
    /\ pc = "upsert"
    /\ Fault
    /\ lost' \in GivenUp
    /\ \/ /\ job.attempt <= MaxRetries
          /\ job' = [job EXCEPT !.attempt = @ + 1]
          /\ pc' = "upsert"
       \/ /\ job.attempt > MaxRetries
          /\ job' = BatchFailed
          /\ pc' = "checkpoint"
    /\ UNCHANGED <<points, queued, ckpt, runs>>

\* The client sees an error: Qdrant refuses the request, or its answer is lost or
\* late, and then the request may be applied all the same.
UpsertRaises ==
    /\ pc = "upsert"
    /\ Fault
    /\ lost' \in GivenUp
    /\ \/ /\ job.attempt < MaxRetries
          /\ job' = [job EXCEPT !.attempt = @ + 1]
          /\ pc' = "upsert"
       \/ /\ job.attempt = MaxRetries
          /\ job' = BatchFailed
          /\ pc' = "checkpoint"
    /\ UNCHANGED <<points, queued, ckpt, runs>>

--------------------------------------------------------------------------------
(* _write_checkpoint: IndexingCheckpoint refuses inconsistent progress; the *)
(* file is replaced by a rename, so a crash leaves the old one or the new. *)

\* Mutant: the checkpoint names the run id minted last, not the run's own.
WriteCheckpointNewId ==
    /\ pc = "checkpoint"
    /\ job.processed \cap job.failed = {}
    /\ ckpt' = [run |-> runs, processed |-> job.processed,
                failed |-> job.failed]
    /\ pc' = IF job.ended THEN "finish" ELSE "scan"
    /\ UNCHANGED <<store, runs, faults, job>>

WriteCheckpoint ==
    /\ pc = "checkpoint"
    /\ job.processed \cap job.failed = {}
    /\ ckpt' = [run |-> job.run, processed |-> job.processed,
                failed |-> job.failed]
    /\ pc' = IF job.ended THEN "finish" ELSE "scan"
    /\ UNCHANGED <<store, runs, faults, job>>

\* The write raises OSError: index_chunks does not catch it, and the command
\* exits without a report.
CheckpointFails ==
    /\ pc = "checkpoint"
    /\ Fault
    /\ pc' = "idle"
    /\ job' = NoJob
    /\ UNCHANGED <<store, ckpt, runs>>

--------------------------------------------------------------------------------
(* The report: _reconcile_counts and _build_report, then the command ends. *)

\* Mutants: points known from the checkpoint are counted twice; failed chunks do
\* not make a run fail.
ExpectedSum == job.before + Cardinality(job.processed)

StatusOfStream ==
    IF job.dry THEN "dry_run"
    ELSE IF ~job.streamFailed THEN "success"
    ELSE IF job.upserted THEN "partial_success" ELSE "failed"

ExpectedMin ==
    IF job.before >= Cardinality(job.processed) THEN job.before
    ELSE Cardinality(job.processed)

Status ==
    IF job.dry THEN "dry_run"
    ELSE IF job.runFailed = {} /\ ~job.streamFailed THEN "success"
    ELSE IF job.upserted THEN "partial_success" ELSE "failed"

\* The count after the run is read; a read that fails, or that gives no count,
\* is a warning as well.
Report ==
    /\ pc = "finish"
    /\ \E counted \in BOOLEAN :
          job' = [job EXCEPT
                    !.status = Status,
                    !.counted = ~job.dry /\ counted,
                    !.reconciled =
                        IF job.dry THEN "not_run"
                        ELSE IF counted /\ StoredCount >= ExpectedMin THEN "pass"
                        ELSE "warning"]
    /\ pc' = "reported"
    /\ UNCHANGED <<store, ckpt, runs, faults>>

Exit ==
    /\ pc = "reported"
    /\ pc' = "idle"
    /\ job' = NoJob
    /\ UNCHANGED <<store, ckpt, runs, faults>>

--------------------------------------------------------------------------------
(* The environment.                                                        *)

\* The process dies; only Qdrant, the checkpoint file and a request that is on its
\* way survive.
Crash ==
    /\ pc \notin {"idle", "reported"}
    /\ Fault
    /\ pc' = "idle"
    /\ job' = NoJob
    /\ lost' \in IF pc = "upsert" THEN GivenUp ELSE {lost}
    /\ UNCHANGED <<points, queued, ckpt, runs>>

\* Qdrant applies what it has accepted; for one chunk, the latest upsert wins.
Apply(c) ==
    /\ queued[c] # 0
    /\ points' = [points EXCEPT ![c] = queued[c]]
    /\ queued' = [queued EXCEPT ![c] = 0]
    /\ UNCHANGED <<lost, ckpt, runs, faults, pc, job>>

\* An upsert that its client gave up reaches Qdrant after all, and is applied after
\* everything accepted before it.
Arrive(q) ==
    /\ q \in lost
    /\ lost' = lost \ {q}
    /\ points' = Overwrite(points, q.ids, q.run)
    /\ queued' = Overwrite(queued, q.ids, 0)
    /\ UNCHANGED <<ckpt, runs, faults, pc, job>>

Start == \E dry \in BOOLEAN, limit \in Limits :
            StartFresh(dry, limit) \/ StartResumed(dry, limit)

Work ==
    \/ ReadCountBefore
    \/ SkipFiltered \/ SkipProcessed \/ FailPreparation \/ Prepare
    \/ EndScan \/ BreakScan
    \/ Embed \/ UpsertCompleted \/ UpsertAcknowledged
    \/ WriteCheckpoint \/ Report \/ Exit

Faulty == EmbedFails \/ UpsertRaises \/ CheckpointFails \/ Crash

Next ==
    \/ Start \/ Work \/ Faulty
    \/ \E c \in Ids : Apply(c)
    \/ \E q \in lost : Arrive(q)

Spec == Init /\ [][Next]_vars

\* The process runs its next step (an error is one way it may go), Qdrant
\* applies what it accepted, and the operator, whatever other runs are started,
\* starts real runs over the whole corpus again and again.
Retry ==
    \E limit \in Limits :
        /\ limit >= Len(Corpus)
        /\ StartFresh(FALSE, limit) \/ StartResumed(FALSE, limit)

FairSpec ==
    /\ Spec
    /\ WF_vars(Work)
    /\ \A c \in Ids : WF_vars(Apply(c))
    /\ SF_vars(Retry)

--------------------------------------------------------------------------------
(* Properties.                                                             *)

Progress == [run : RunIds, processed : SUBSET Ids, failed : SUBSET Ids]

JobType ==
    [run : RunIds, dry : BOOLEAN, limit : Nat,
     processed : SUBSET Ids, failed : SUBSET Ids, runFailed : SUBSET Ids,
     upserted : BOOLEAN, streamFailed : BOOLEAN,
     pos : 0 .. Len(Corpus), planned : Nat, batch : SUBSET (1 .. Len(Corpus)),
     attempt : 0 .. MaxRetries, ended : BOOLEAN, before : Nat,
     status : {"none", "dry_run", "success", "partial_success", "failed"},
     reconciled : {"not_run", "pass", "warning"}, counted : BOOLEAN]

\* Every variable has its type: run ids are bounded, the batch and the position
\* stay inside the corpus, the retry counter within its bound.
TypeOK ==
    /\ points \in [Ids -> RunIds]
    /\ queued \in [Ids -> RunIds]
    /\ lost \subseteq [run : RunIds, ids : SUBSET Ids]
    /\ ckpt \in Progress
    /\ runs \in RunIds
    /\ faults \in Nat
    /\ pc \in Locations
    /\ job \in JobType

\* A chunk recorded as processed, in memory or in the checkpoint file, is in
\* Qdrant or accepted by it.  A resumed run skips exactly these chunks, so a chunk
\* wrongly recorded would never be indexed.
ProcessedIsStored ==
    /\ \A c \in ckpt.processed : points[c] # 0 \/ queued[c] # 0
    /\ \A c \in job.processed : points[c] # 0 \/ queued[c] # 0

\* What IndexingCheckpoint's validator demands of progress holds whenever a
\* checkpoint is written: no chunk is both processed and failed, however often
\* its id occurs in the corpus, so the validator never ends a run.
ProgressConsistent ==
    /\ ckpt.processed \cap ckpt.failed = {}
    /\ job.processed \cap job.failed = {}

\* The records of progress are true and sound: what they say is stored is stored,
\* and no checkpoint is refused by its own validator.
RecordsAreTrue == ProcessedIsStored /\ ProgressConsistent

\* The rows that pass the filter, up to the i-th row.
MatchingUpTo(i) == {k \in 1 .. i : Corpus[k].kind # "filtered"}

\* The chunks the run has planned: the rows it has taken that pass the filter.
PlannedIds ==
    {Corpus[i].id : i \in MatchingUpTo(job.pos)}

\* A run that reports "success" leaves no planned chunk outside Qdrant, whether
\* it or an earlier run it resumes has indexed it.
SuccessMeansIndexed ==
    pc = "reported" /\ job.status = "success" =>
        /\ PlannedIds \subseteq job.processed
        /\ \A c \in PlannedIds : points[c] # 0 \/ queued[c] # 0
        /\ ckpt.processed = job.processed

\* A run that reports anything but success accounts for every planned chunk: it
\* is processed or it is named as failed in the checkpoint for the next run.
EveryPlannedChunkAccounted ==
    pc \in {"finish", "reported"} /\ ~job.dry =>
        PlannedIds \subseteq ckpt.processed \cup ckpt.failed

\* The report of a run and the checkpoint it leaves give a true account of every
\* chunk it has planned.
ReportIsTrue == SuccessMeansIndexed /\ EveryPlannedChunkAccounted

\* With the collection left to this corpus, a count warning is never a false alarm:
\* the report has no count, because its read failed, or some accepted upsert has yet
\* to be applied.
WarningMeansPending ==
    [][job.reconciled # "warning" /\ job'.reconciled = "warning" =>
            \/ ~job'.counted
            \/ \E c \in job.processed : points[c] = 0 /\ queued[c] # 0]_vars

\* The runs of which an upsert of c is accepted or on its way.
Coming(c) == {queued[c]} \cup {q.run : q \in {p \in lost : c \in p.ids}}

\* No upsert of c is sent in a step: what it stores was coming, and nothing more is.
Unsent(c) ==
    /\ points'[c] \in {points[c]} \cup Coming(c)
    /\ Coming(c)' \subseteq Coming(c) \cup {0}

\* The limit bounds the corpus and not the work: a run with limit L, however much of
\* the corpus it skips because of its checkpoint, upserts only chunks of the first L
\* rows that pass the filter.
LimitBoundsCorpus ==
    [][\A c \in Ids : ~Unsent(c) =>
            \E i \in MatchingUpTo(Len(Corpus)) :
                Corpus[i].id = c /\ Cardinality(MatchingUpTo(i)) <= job.limit]_vars

\* Progress in the checkpoint file is only lost when a fresh run replaces it;
\* as long as runs resume, it only grows.
CheckpointOnlyGrows ==
    [][ckpt'.run = ckpt.run => ckpt.processed \subseteq ckpt'.processed]_vars

\* The point of a chunk that the checkpoint records is replaced by the payload of an
\* earlier run only by an upsert that its client saw fail and that arrives late:
\* what Qdrant has answered never undoes the records, however late it is applied.
NoStaleOverwrite ==
    [][\A c \in ckpt.processed : points'[c] # points[c] =>
            \/ points'[c] >= ckpt.run
            \/ \E q \in lost \ lost' : c \in q.ids /\ points'[c] = q.run]_vars

\* A dry run sends Qdrant nothing and leaves the checkpoint as it is.
DryRunIsReadOnly ==
    [][pc # "idle" /\ job.dry => ckpt' = ckpt /\ \A c \in Ids : Unsent(c)]_vars

\* No step of any run, nor an answer that comes late, goes against what the run was
\* asked to do or what runs before it have recorded.
StepsRespectRecords ==
    NoStaleOverwrite /\ CheckpointOnlyGrows /\ DryRunIsReadOnly
        /\ LimitBoundsCorpus /\ WarningMeansPending

\* Once faults stop, an operator who keeps starting runs gets every chunk that
\* can be prepared into Qdrant, up to the row at which the file cannot be read
\* any further: chunks that failed, rows that cannot be prepared, and dry or
\* limited runs in between keep none of them out.
Convergence ==
    \A i \in 1 .. Len(Corpus) :
        Corpus[i].kind = "ok" /\ (\A k \in 1 .. i : Corpus[k].kind # "broken")
            => <>(points[Corpus[i].id] # 0)
================================================================================
