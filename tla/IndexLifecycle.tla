--------------------------- MODULE IndexLifecycle ---------------------------
(***************************************************************************)
(* The life of one Qdrant collection: the set-up command creates it or     *)
(* replaces it, indexing runs fill it from the chunk file, the validation  *)
(* command reads it.  Set-ups may overlap each other and everything else;  *)
(* any command can be killed between two requests, and any request can     *)
(* fail.  IndexingRun has the batches, retries and reports of a run; here  *)
(* a run is one chunk after the other, so that what it stores can be       *)
(* followed over changes of the chunk file and of the collection.          *)
(***************************************************************************)
EXTENDS Naturals, Sequences, FiniteSets, SequencesExt

CONSTANTS Order,       \* the chunk ids, in the order of the chunk file
          Text,        \* [chunk id -> sequence over versions of a row], see Row
          Fields,      \* build_payload_index_specs: the fields with an index
          Plans,       \* set-up plans: a dense dimension with a distance
          ModelPlan,   \* the plan that fits the embedding model
          Setups,      \* set-up commands
          Filters,     \* payload filters of the validation: sets of chunk ids
          MaxJobs, MaxFaults   \* bounds: commands started, faults

Ids == Range(Order)

ASSUME OrderAssumption == Order \in Seq(Ids)
\* every chunk is in the file at first
ASSUME TextAssumption == \A c \in Ids : Len(Text[c]) \in Nat \ {0}

Versions(c) == 0 .. Len(Text[c])    \* 0: the file has no row of the chunk
NoPoint == [version |-> 0]
None == "none"

VARIABLES coll,      \* the collection [plan, indexes, points, epoch]; plan None: not there
          corpus,    \* the chunk file: version of each chunk
          ckpt,      \* the checkpoint [there, done]
          run,       \* the indexing run
          setup,     \* [Setups -> local state]
          check,     \* the validation
          faults, jobs,   \* counted for the bounds
          \* history
          disturbed, \* [run, ckpt]: its chunk file or collection changed since that run began
          overlapped,\* [Setups -> another one was under way during this one]
          group      \* results of the set-ups since none was under way

vars == <<coll, corpus, ckpt, run, setup, check, faults, jobs, disturbed, overlapped, group>>
indexing == <<ckpt, run>>
ghosts == <<overlapped, group>>

Empty == [c \in Ids |-> NoPoint]
NoSetup == [pc |-> "off", plan |-> None, recreate |-> FALSE, missing |-> {}]
NoRun == [pc |-> "off", at |-> 1, version |-> 0, done |-> {}, failed |-> {}, status |-> None]
NoCheck == [pc |-> "off", status |-> {}, epoch |-> 0]

\* the collection is not there, or an earlier set-up left it, whole or not
Init == /\ \E plan \in Plans \cup {None}, indexes \in SUBSET Fields :
             /\ plan = None => indexes = {}
             /\ coll = [plan |-> plan, indexes |-> indexes, points |-> Empty, epoch |-> 0]
        /\ corpus = [c \in Ids |-> 1]
        /\ ckpt = [there |-> FALSE, done |-> {}]
        /\ run = NoRun /\ check = NoCheck
        /\ setup = [s \in Setups |-> NoSetup]
        /\ faults = 0 /\ jobs = 0 /\ disturbed = [run |-> FALSE, ckpt |-> FALSE]
        /\ overlapped = [s \in Setups |-> FALSE] /\ group = {}

Disturb == disturbed' = [run |-> TRUE, ckpt |-> TRUE]
Job == jobs < MaxJobs /\ jobs' = jobs + 1
Fault == faults < MaxFaults /\ faults' = faults + 1

\* a new chunk file, or one without the chunk
Rebuild(c) == /\ Job
              /\ \E v \in Versions(c) :
                   v # corpus[c] /\ v \in {0, corpus[c] + 1} /\ corpus' = [corpus EXCEPT ![c] = v]
              /\ Disturb
              /\ UNCHANGED <<coll, indexing, setup, check, faults, ghosts>>

----------------------------------------------------------------------------
(* Set-up: ensure_collection.                                              *)

Running(s) == setup[s].pc \notin {"off", "ended"}
Go(s, pc) == setup' = [setup EXCEPT ![s].pc = pc]
\* a set-up ends; what its group knows is forgotten when a new group starts
Ends(s, result) ==
  /\ setup' = [setup EXCEPT ![s].pc = "ended"]
  /\ group' = group \cup {[plan |-> setup[s].plan, result |-> result]}
  /\ UNCHANGED overlapped

StartSetup(s, plan, recreate) ==
  /\ setup[s].pc = "off" /\ Job
  /\ setup' = [setup EXCEPT ![s] = [pc |-> "exists", plan |-> plan, recreate |-> recreate, missing |-> {}]]
  /\ LET others == {o \in Setups : Running(o)}
     IN /\ overlapped' = [o \in Setups |-> overlapped[o] \/ o \in others \/ (o = s /\ others # {})]
        /\ group' = IF others = {} THEN {} ELSE group
  /\ UNCHANGED <<coll, corpus, indexing, check, faults, disturbed>>

CollectionExists(s) ==
  /\ setup[s].pc = "exists"
  /\ Go(s, IF coll.plan = None THEN "create" ELSE "inspect")
  /\ UNCHANGED <<coll, corpus, indexing, check, faults, jobs, disturbed, ghosts>>

\* Mutant: a collection that matches is left as it is.
InspectNoIndexes(s) ==
  /\ setup[s].pc = "inspect"
  /\ \/ coll.plan = setup[s].plan /\ Ends(s, "success")
     \/ /\ coll.plan # setup[s].plan /\ coll.plan # None /\ setup[s].recreate
        /\ Go(s, "delete") /\ UNCHANGED ghosts
     \/ coll.plan # setup[s].plan /\ (coll.plan = None \/ ~ setup[s].recreate) /\ Ends(s, "failed")
  /\ UNCHANGED <<coll, corpus, indexing, check, faults, jobs, disturbed>>
\* Mutant: recreating deletes a collection that matches, too.
InspectRecreates(s) ==
  /\ setup[s].pc = "inspect"
  /\ IF setup[s].recreate /\ coll.plan # None THEN Go(s, "delete") /\ UNCHANGED ghosts
     ELSE IF coll.plan # setup[s].plan THEN Ends(s, "failed")
     ELSE /\ setup' = [setup EXCEPT ![s].pc = "index", ![s].missing = Fields \ coll.indexes]
          /\ UNCHANGED ghosts
  /\ UNCHANGED <<coll, corpus, indexing, check, faults, jobs, disturbed>>
\* a missing index is no mismatch: the set-up adds it
Inspect(s) ==
  /\ setup[s].pc = "inspect"
  /\ \/ /\ coll.plan = setup[s].plan
        /\ setup' = [setup EXCEPT ![s].pc = "index", ![s].missing = Fields \ coll.indexes]
        /\ UNCHANGED ghosts
     \/ /\ coll.plan # setup[s].plan /\ coll.plan # None /\ setup[s].recreate
        /\ Go(s, "delete") /\ UNCHANGED ghosts
     \/ /\ coll.plan # setup[s].plan
        /\ coll.plan = None \/ ~ setup[s].recreate
        /\ Ends(s, "failed")
  /\ UNCHANGED <<coll, corpus, indexing, check, faults, jobs, disturbed>>

Gone == [plan |-> None, indexes |-> {}, points |-> Empty, epoch |-> coll.epoch]
\* Qdrant does not confirm the deletion of what is not there
Delete(s) ==
  /\ setup[s].pc = "delete"
  /\ \/ /\ coll.plan # None /\ coll' = Gone /\ Disturb
        /\ Go(s, "create") /\ UNCHANGED ghosts
     \/ /\ coll.plan = None /\ Ends(s, "failed") /\ UNCHANGED <<coll, disturbed>>
  /\ UNCHANGED <<corpus, indexing, check, faults, jobs>>

\* a collection of that name that is there already makes the request fail
Create(s) ==
  /\ setup[s].pc = "create"
  /\ \/ /\ coll.plan = None
        /\ coll' = [plan |-> setup[s].plan, indexes |-> {}, points |-> Empty, epoch |-> coll.epoch + 1]
        /\ setup' = [setup EXCEPT ![s].pc = "index", ![s].missing = Fields]
        /\ Disturb /\ UNCHANGED ghosts
     \/ /\ coll.plan # None /\ Ends(s, "failed") /\ UNCHANGED <<coll, disturbed>>
  /\ UNCHANGED <<corpus, indexing, check, faults, jobs>>

\* one request for each missing index; an index that is there already is no error
CreateIndex(s) ==
  /\ setup[s].pc = "index"
  /\ \/ \E f \in setup[s].missing :
          /\ coll.plan # None
          /\ coll' = [coll EXCEPT !.indexes = @ \cup {f}]
          /\ setup' = [setup EXCEPT ![s].missing = @ \ {f}]
          /\ UNCHANGED ghosts
     \/ /\ setup[s].missing # {} /\ coll.plan = None
        /\ Ends(s, "failed") /\ UNCHANGED coll
     \/ /\ setup[s].missing = {}
        /\ Ends(s, "success") /\ UNCHANGED coll
  /\ UNCHANGED <<corpus, indexing, check, faults, jobs, disturbed>>

\* a request fails, before or after Qdrant acted on it, or the process is killed
SetupFails(s) ==
  /\ Running(s) /\ Fault
  /\ Ends(s, "failed")
  /\ \/ UNCHANGED <<coll, disturbed>>
     \/ setup[s].pc = "delete" /\ coll.plan # None /\ coll' = Gone /\ Disturb
     \/ /\ setup[s].pc = "create" /\ coll.plan = None /\ Disturb
        /\ coll' = [plan |-> setup[s].plan, indexes |-> {}, points |-> Empty, epoch |-> coll.epoch + 1]
  /\ UNCHANGED <<corpus, indexing, check, jobs>>

----------------------------------------------------------------------------
(* Indexing: one chunk after the other, the checkpoint after each.         *)

\* What the loader and the payload builder make of a row: nothing when its text is
\* blank, or any other value the payload must have.
Row(c, version) == Text[c][version]
Prepared(row) == row.blank = {}
Payload(c) == [version |-> run.version, blank |-> Row(c, run.version).blank, plan |-> ModelPlan]

\* Mutant: a run that does not resume skips what the checkpoint has, too.
StartRunWithProgress(resume) ==
  /\ run.pc = "off" /\ Job
  /\ resume => ckpt.there
  /\ run' = [NoRun EXCEPT !.pc = "scan", !.done = ckpt.done]
  /\ disturbed' = [disturbed EXCEPT !.run = resume /\ disturbed.ckpt]
  /\ UNCHANGED <<coll, corpus, ckpt, setup, check, faults, ghosts>>
StartRun(resume) ==
  /\ run.pc = "off" /\ Job
  /\ resume => ckpt.there
  /\ run' = [NoRun EXCEPT !.pc = "scan", !.done = IF resume THEN ckpt.done ELSE {}]
  /\ disturbed' = [disturbed EXCEPT !.run = resume /\ disturbed.ckpt]
  /\ UNCHANGED <<coll, corpus, ckpt, setup, check, faults, ghosts>>

Next1 == Order[run.at]
Scan == /\ run.pc = "scan" /\ run.at <= Len(Order)
        /\ run' = IF corpus[Next1] = 0 \/ Next1 \in run.done THEN [run EXCEPT !.at = @ + 1]
                  ELSE IF ~ Prepared(Row(Next1, corpus[Next1]))
                  THEN [run EXCEPT !.at = @ + 1, !.failed = @ \cup {Next1}]
                  ELSE [run EXCEPT !.pc = "upsert", !.version = corpus[Next1]]
        /\ UNCHANGED <<coll, corpus, ckpt, setup, check, faults, jobs, disturbed, ghosts>>

\* Qdrant takes a point whose vector fits the collection
Fits == coll.plan = ModelPlan
Stored == coll' = [coll EXCEPT !.points[Next1] = Payload(Next1)]
Upsert == /\ run.pc = "upsert"
          /\ \/ /\ Fits /\ Stored
                /\ run' = [run EXCEPT !.pc = "save", !.done = @ \cup {Next1}, !.failed = @ \ {Next1}]
             \/ /\ ~ Fits /\ UNCHANGED coll
                /\ run' = [run EXCEPT !.pc = "save", !.failed = @ \cup {Next1}]
          /\ UNCHANGED <<corpus, ckpt, setup, check, faults, jobs, disturbed, ghosts>>
UpsertFails == /\ run.pc = "upsert" /\ Fault
               /\ (Fits /\ Stored) \/ UNCHANGED coll
               /\ run' = [run EXCEPT !.pc = "save", !.failed = @ \cup {Next1}]
               /\ UNCHANGED <<corpus, ckpt, setup, check, jobs, disturbed, ghosts>>
SaveCheckpoint == /\ run.pc = "save"
                  /\ ckpt' = [there |-> TRUE, done |-> run.done]
                  /\ run' = [run EXCEPT !.pc = "scan", !.at = @ + 1]
                  /\ disturbed' = [disturbed EXCEPT !.ckpt = disturbed.run]
                  /\ UNCHANGED <<coll, corpus, setup, check, faults, jobs, ghosts>>
FinishRun == /\ run.pc = "scan" /\ run.at > Len(Order)
             /\ run' = [run EXCEPT !.pc = "ended",
                          !.status = IF run.failed = {} THEN "success" ELSE "failed"]
             /\ UNCHANGED <<coll, corpus, ckpt, setup, check, faults, jobs, disturbed, ghosts>>
ExitRun == /\ run.pc = "ended" /\ run' = NoRun
           /\ UNCHANGED <<coll, corpus, ckpt, setup, check, faults, jobs, disturbed, ghosts>>
CrashRun == /\ run.pc \in {"scan", "upsert", "save"} /\ Fault
            /\ run' = NoRun
            /\ UNCHANGED <<coll, corpus, ckpt, setup, check, jobs, disturbed, ghosts>>

----------------------------------------------------------------------------
(* Validation: validate_index reads the schema, a sample of the points,    *)
(* the counts of the filters and the answers to sample queries in turn.    *)

Points == {c \in Ids : coll.points[c] # NoPoint}
Worst(statuses) == IF "failed" \in statuses THEN "failed"
                   ELSE IF "warning" \in statuses THEN "warning" ELSE "pass"

\* Mutant: a missing payload index is not looked for.
SchemaStatusOfVectors(green) ==
  IF coll.plan # ModelPlan \/ Points = {} THEN "failed" ELSE IF green THEN "pass" ELSE "warning"
SchemaStatus(green) ==
  IF coll.plan # ModelPlan \/ Points = {} \/ coll.indexes # Fields THEN "failed"
  ELSE IF green THEN "pass" ELSE "warning"
PointPasses(point, plan) == point.blank = {} /\ point.plan = plan
SampleStatus(sample, plan) ==
  IF sample # {} /\ \A c \in sample : PointPasses(coll.points[c], plan) THEN "pass" ELSE "failed"
FilterStatus(filter) == IF filter \cap Points = {} THEN "warning" ELSE "pass"

Checked(pc, status) == check' = [check EXCEPT !.pc = pc, !.status = @ \cup status]
Others == UNCHANGED <<coll, corpus, indexing, setup, faults, disturbed, ghosts>>
Reading == Others /\ UNCHANGED jobs

StartCheck == /\ check.pc = "off" /\ Job /\ coll.plan # None
                    /\ check' = [pc |-> "schema", status |-> {}, epoch |-> coll.epoch]
                    /\ Others
\* a collection that is gone ends the command
Lost == check.pc \in {"schema", "sample"} /\ coll.plan = None
CheckLost == /\ Lost /\ check' = NoCheck /\ Reading
CheckSchema == /\ check.pc = "schema" /\ ~ Lost
               /\ \E green \in BOOLEAN :
                    check' = [check EXCEPT !.pc = "sample", !.epoch = coll.epoch,
                                           !.status = {SchemaStatus(green)}]
               /\ Reading
\* a bounded sample: any part of the points, none only when there is none
CheckSample == /\ check.pc = "sample" /\ ~ Lost
               /\ \E sample \in SUBSET Points :
                    /\ sample = {} => Points = {}
                    /\ Checked("filters", {SampleStatus(sample, ModelPlan)})
               /\ Reading
CheckFilters == /\ check.pc = "filters"
                /\ Checked("queries", IF coll.plan = None THEN {"failed"}
                                      ELSE {FilterStatus(f) : f \in Filters})
                /\ Reading
\* without the embedding model the queries are not run; a hint can be missing
CheckQueries == /\ check.pc = "queries"
                /\ Checked("reported", IF coll.plan # ModelPlan \/ Points = {} THEN {"failed"} ELSE {})
                   \/ Checked("reported", {"not_run"})
                   \/ (coll.plan = ModelPlan /\ Points # {} /\ Checked("reported", {"warning"}))
                /\ Reading
ExitCheck == check.pc = "reported" /\ check' = NoCheck /\ Reading

\* exit code 0 also comes with warnings
Successful == Worst(check.status) = "pass"

Next == \/ \E c \in Ids : Rebuild(c)
        \/ \E s \in Setups :
             \/ \E plan \in Plans, r \in BOOLEAN : StartSetup(s, plan, r)
             \/ CollectionExists(s) \/ Inspect(s) \/ Delete(s) \/ Create(s) \/ CreateIndex(s) \/ SetupFails(s)
        \/ \E r \in BOOLEAN : StartRun(r)
        \/ Scan \/ Upsert \/ UpsertFails \/ SaveCheckpoint \/ FinishRun \/ ExitRun \/ CrashRun
        \/ StartCheck
        \/ CheckLost \/ CheckSchema \/ CheckSample \/ CheckFilters \/ CheckQueries \/ ExitCheck

Spec == Init /\ [][Next]_vars

----------------------------------------------------------------------------
(* Properties.                                                             *)

\* Set-ups with one plan that overlapped each other, when all of them reported
\* success and none is under way: the collection is of that plan and has every
\* payload index, whatever earlier set-ups left half done.
SetupSuccessIsWhole ==
  (\A s \in Setups : ~ Running(s)) /\ group # {} =>
    \A plan \in Plans :
      group = {[plan |-> plan, result |-> "success"]} => coll.plan = plan /\ coll.indexes = Fields

\* A set-up that no other one overlapped never takes points out of a collection
\* that matches its plan, recreating or not.
LoneSetupKeepsPoints ==
  [][\A s \in Setups :
       setup[s].pc = "delete" /\ setup'[s].pc # "delete" /\ coll.plan = setup[s].plan => overlapped[s]]_vars

\* A run that reports success has stored the current version of every chunk of the
\* file, over failed requests, crashes and resumptions, unless the file or the
\* collection changed after the run it resumes, or itself, began.
SuccessfulRunIsCurrent ==
  run.status = "success" /\ ~ disturbed.run =>
    \A c \in Ids : corpus[c] # 0 => coll.points[c] # NoPoint /\ coll.points[c].version = corpus[c]

\* A report that is good in every part tells of a collection that is, as long as it
\* is not replaced, of the plan, indexed in every field and not empty; set-ups and
\* runs may go on between the reads of the report.
GoodReportHolds ==
  check.pc = "reported" /\ Successful /\ coll.epoch = check.epoch /\ coll.plan # None =>
    coll.plan = ModelPlan /\ coll.indexes = Fields /\ Points # {}
=============================================================================
