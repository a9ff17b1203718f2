------------------------ MODULE IndexLifecycle_proofs ------------------------
(***************************************************************************)
(* Proofs about IndexLifecycle, for every chunk file, set of fields, of    *)
(* plans and of set-up commands, and any number of commands and faults.    *)
(***************************************************************************)
EXTENDS IndexLifecycle, TLAPS

\* The points a chunk may have: a payload of one of its versions that passed the
\* preparation, for the embedding model.
PointsOf(c) == {NoPoint} \cup
    [version : 1 .. Len(Text[c]), blank : {{}}, plan : {ModelPlan}]

SetupPlaces == {"off", "exists", "inspect", "delete", "create", "index", "ended"}
RunPlaces == {"off", "scan", "upsert", "save", "ended"}
CheckPlaces == {"off", "schema", "sample", "filters", "queries", "reported"}

TypeOK ==
    /\ coll \in [plan : Plans \cup {None}, indexes : SUBSET Fields,
                 points : [Ids -> UNION {PointsOf(c) : c \in Ids}], epoch : Nat]
    /\ \A c \in Ids : coll.points[c] \in PointsOf(c)
    /\ corpus \in [Ids -> Nat] /\ \A c \in Ids : corpus[c] \in Versions(c)
    /\ ckpt \in [there : BOOLEAN, done : SUBSET Ids]
    /\ run \in [pc : RunPlaces, at : 1 .. Len(Order) + 1, version : Nat,
                done : SUBSET Ids, failed : SUBSET Ids, status : {None, "success", "failed"}]
    /\ setup \in [Setups -> [pc : SetupPlaces, plan : Plans \cup {None},
                             recreate : BOOLEAN, missing : SUBSET Fields]]
    /\ check \in [pc : CheckPlaces, status : SUBSET {"pass", "warning", "failed", "not_run"},
                  epoch : Nat]
    /\ faults \in Nat /\ jobs \in Nat
    /\ disturbed \in [run : BOOLEAN, ckpt : BOOLEAN]
    /\ overlapped \in [Setups -> BOOLEAN]
    /\ group \subseteq [plan : Plans \cup {None}, result : {"success", "failed"}]

\* The row a run has read is prepared; a run ends after the last chunk.
RunInv ==
    /\ run.pc \in {"upsert", "save"} => run.at <= Len(Order)
    /\ run.pc = "upsert" =>
         run.version \in 1 .. Len(Text[Next1]) /\ Prepared(Row(Next1, run.version))
    /\ run.pc = "off" => run = NoRun
    /\ run.pc = "ended" => run.at > Len(Order)
    /\ run.status # None => run.pc = "ended"
    /\ run.status = "success" => run.failed = {}

Current(c) == coll.points[c] # NoPoint /\ coll.points[c].version = corpus[c]

\* Where the run has been.
Passed(i) == i < run.at \/ (i = run.at /\ run.pc = "save")

\* Undisturbed progress, in the checkpoint or of the run, is in the collection at the
\* version of the file; what the run has passed is there or has failed.
FreshInv ==
    /\ disturbed.run => disturbed.ckpt
    /\ ~ disturbed.ckpt => \A c \in ckpt.done : Current(c)
    /\ run.pc # "off" /\ ~ disturbed.run =>
         /\ \A c \in run.done : Current(c)
         /\ run.pc = "upsert" => run.version = corpus[Next1]
         /\ \A i \in 1 .. Len(Order) : Passed(i) =>
              corpus[Order[i]] = 0 \/ Order[i] \in run.done \cup run.failed

\* A set-up alone deletes only what does not fit its plan.
LoneInv ==
    /\ \A s, o \in Setups : Running(s) /\ Running(o) /\ s # o => overlapped[s]
    /\ \A s \in Setups :
         setup[s].pc = "delete" /\ ~ overlapped[s] => coll.plan # setup[s].plan

\* All set-ups of the group have the plan, and none has failed so far.
Pure(plan) ==
    /\ \A s \in Setups : Running(s) => setup[s].plan = plan
    /\ group \subseteq {[plan |-> plan, result |-> "success"]}

\* What the collection lacks, this set-up makes or reports a failure.
Answers(s, plan) ==
    \/ setup[s].pc \in {"delete", "create"}
    \/ setup[s].pc = "index" /\ coll.plan = plan /\ Fields \ coll.indexes \subseteq setup[s].missing

Whole(plan) == coll.plan = plan /\ coll.indexes = Fields

\* The collection is whole, some set-up answers for what it lacks, or none has come to
\* the payload indexes yet.
GroupInv == \A plan \in Plans : Pure(plan) =>
    \/ Whole(plan)
    \/ \E s \in Setups : Answers(s, plan)
    \/ group = {} /\ \A s \in Setups : setup[s].pc # "index"

\* What a validation saw good stays good in the collection it saw.
CheckInv ==
    /\ check.pc # "off" => check.epoch <= coll.epoch
    /\ /\ check.pc \in {"sample", "filters", "queries", "reported"}
       /\ check.status \cap {"failed", "warning"} = {}
       /\ coll.epoch = check.epoch /\ coll.plan # None
       => Whole(ModelPlan) /\ Points # {}

IInv == TypeOK /\ RunInv /\ FreshInv /\ LoneInv /\ GroupInv /\ CheckInv

----------------------------------------------------------------------------

LEMMA LenOrder == Len(Order) \in Nat /\ DOMAIN Order = 1 .. Len(Order)
  BY OrderAssumption

\* The chunk a run looks at is one of the file.
LEMMA NextIsId ==
    ASSUME TypeOK, run.at <= Len(Order)
    PROVE  Next1 \in Ids /\ run.at \in 1 .. Len(Order)
<1>1. run.at \in 1 .. Len(Order)
  BY LenOrder DEF TypeOK
<1> QED
  BY <1>1, LenOrder DEF Next1, Ids, Range

\* A payload is a point of its chunk, and no absent one.
LEMMA PayloadIsPoint ==
    ASSUME TypeOK, RunInv, run.pc = "upsert"
    PROVE  /\ Next1 \in Ids
           /\ Payload(Next1) \in PointsOf(Next1)
           /\ Payload(Next1) # NoPoint
           /\ Payload(Next1).version = run.version
<1>1. Next1 \in Ids
  BY NextIsId DEF RunInv
<1>2. run.version \in 1 .. Len(Text[Next1]) /\ Row(Next1, run.version).blank = {}
  BY DEF RunInv, Prepared
<1>3. Payload(Next1).version = run.version
  BY DEF Payload
<1>4. NoPoint.version = 0 /\ run.version # 0
  BY <1>1, <1>2, TextAssumption DEF NoPoint
<1> QED
  BY <1>1, <1>2, <1>3, <1>4 DEF Payload, PointsOf

\* The fields of the collection have their types.
CollType ==
    /\ coll \in [plan : Plans \cup {None}, indexes : SUBSET Fields,
                 points : [Ids -> UNION {PointsOf(c) : c \in Ids}], epoch : Nat]
    /\ \A c \in Ids : coll.points[c] \in PointsOf(c)

LEMMA EmptyType ==
    /\ Empty \in [Ids -> UNION {PointsOf(c) : c \in Ids}]
    /\ \A c \in Ids : Empty[c] = NoPoint /\ Empty[c] \in PointsOf(c)
  BY DEF Empty, PointsOf

LEMMA GoneType ==
    ASSUME CollType, coll' = Gone
    PROVE  CollType'
  BY EmptyType DEF CollType, Gone

LEMMA CreatedType ==
    ASSUME CollType, NEW plan \in Plans \cup {None},
           coll' = [plan |-> plan, indexes |-> {}, points |-> Empty, epoch |-> coll.epoch + 1]
    PROVE  CollType'
  BY EmptyType DEF CollType

\* Storing changes one point, and leaves one there.
LEMMA StoredIs ==
    ASSUME TypeOK, RunInv, run.pc = "upsert", Stored
    PROVE  /\ CollType'
           /\ coll'.plan = coll.plan /\ coll'.indexes = coll.indexes /\ coll'.epoch = coll.epoch
           /\ coll'.points[Next1] = Payload(Next1)
           /\ \A c \in Ids : c # Next1 => coll'.points[c] = coll.points[c]
           /\ Points' # {}
<1>1. /\ Next1 \in Ids
      /\ Payload(Next1) \in PointsOf(Next1)
      /\ Payload(Next1) # NoPoint
  BY PayloadIsPoint
<1>2. coll' = [coll EXCEPT !.points = [coll.points EXCEPT ![Next1] = Payload(Next1)]]
  BY DEF Stored
<1>3. coll.points \in [Ids -> UNION {PointsOf(c) : c \in Ids}]
  BY DEF TypeOK
<1>4. coll'.points = [coll.points EXCEPT ![Next1] = Payload(Next1)]
  BY <1>2 DEF TypeOK
<1>5. /\ coll'.plan = coll.plan /\ coll'.indexes = coll.indexes /\ coll'.epoch = coll.epoch
      /\ coll'.points[Next1] = Payload(Next1)
      /\ \A c \in Ids : c # Next1 => coll'.points[c] = coll.points[c]
  BY <1>1, <1>2, <1>3, <1>4 DEF TypeOK
<1>6. coll'.points \in [Ids -> UNION {PointsOf(c) : c \in Ids}]
  BY <1>1, <1>3, <1>4
<1>7. CollType'
  BY <1>1, <1>2, <1>5, <1>6 DEF TypeOK, CollType
<1>8. Next1 \in Points'
  BY <1>1, <1>5 DEF Points
<1> QED
  BY <1>5, <1>7, <1>8

\* The collection changes through set-ups and through the run's upserts only.
LEMMA CollStep ==
    ASSUME TypeOK, RunInv, Next
    PROVE  CollType'
<1>a. CollType
  BY DEF TypeOK, CollType
<1>k. ASSUME UNCHANGED coll PROVE CollType'
  BY <1>a, <1>k DEF CollType
<1>1. ASSUME NEW s \in Setups, Delete(s) PROVE CollType'
  BY <1>1, <1>a, <1>k, GoneType DEF Delete
<1>2. ASSUME NEW s \in Setups, Create(s) PROVE CollType'
  <2>1. setup[s].plan \in Plans \cup {None}
    BY DEF TypeOK
  <2> QED
    BY <1>2, <1>a, <1>k, <2>1, CreatedType DEF Create
<1>3. ASSUME NEW s \in Setups, CreateIndex(s) PROVE CollType'
  <2>1. ASSUME NEW f \in setup[s].missing, coll' = [coll EXCEPT !.indexes = @ \cup {f}]
        PROVE  CollType'
    <3>1. f \in Fields
      BY DEF TypeOK
    <3> QED
      BY <1>a, <2>1, <3>1 DEF CollType
  <2> QED
    BY <1>3, <1>k, <2>1 DEF CreateIndex
<1>4. ASSUME NEW s \in Setups, SetupFails(s) PROVE CollType'
  <2>1. setup[s].plan \in Plans \cup {None}
    BY DEF TypeOK
  <2> QED
    BY <1>4, <1>a, <1>k, <2>1, GoneType, CreatedType DEF SetupFails
<1>5. ASSUME Upsert PROVE CollType'
  BY <1>5, <1>k, StoredIs DEF Upsert
<1>6. ASSUME UpsertFails PROVE CollType'
  BY <1>6, <1>k, StoredIs DEF UpsertFails
<1> QED
  BY <1>k, <1>1, <1>2, <1>3, <1>4, <1>5, <1>6
  DEF Next, Rebuild, StartSetup, CollectionExists, Inspect, StartRun, Scan, SaveCheckpoint,
      FinishRun, ExitRun, CrashRun, StartCheck, CheckLost, CheckSchema, CheckSample,
      CheckFilters, CheckQueries, ExitCheck, Reading, Others

SetupType ==
    /\ setup \in [Setups -> [pc : SetupPlaces, plan : Plans \cup {None},
                             recreate : BOOLEAN, missing : SUBSET Fields]]
    /\ overlapped \in [Setups -> BOOLEAN]
    /\ group \subseteq [plan : Plans \cup {None}, result : {"success", "failed"}]

LEMMA EndsType ==
    ASSUME SetupType, NEW s \in Setups, NEW result \in {"success", "failed"}, Ends(s, result)
    PROVE  SetupType'
  BY DEF SetupType, SetupPlaces, Ends

LEMMA GoType ==
    ASSUME SetupType, NEW s \in Setups, NEW pc \in SetupPlaces, Go(s, pc), UNCHANGED ghosts
    PROVE  SetupType'
  BY DEF SetupType, Go, ghosts

LEMMA MissingType ==
    ASSUME SetupType, NEW s \in Setups, NEW missing \in SUBSET Fields, UNCHANGED ghosts,
           setup' = [setup EXCEPT ![s].pc = "index", ![s].missing = missing]
    PROVE  SetupType'
  BY DEF SetupType, SetupPlaces, ghosts

LEMMA SetupStep ==
    ASSUME TypeOK, Next
    PROVE  SetupType'
<1>a. SetupType
  BY DEF TypeOK, SetupType
<1>k. ASSUME UNCHANGED <<setup, ghosts>> PROVE SetupType'
  BY <1>a, <1>k DEF SetupType, ghosts
<1>1. ASSUME NEW s \in Setups, NEW plan \in Plans, NEW r \in BOOLEAN, StartSetup(s, plan, r)
      PROVE  SetupType'
  <2>1. setup' \in [Setups -> [pc : SetupPlaces, plan : Plans \cup {None},
                               recreate : BOOLEAN, missing : SUBSET Fields]]
    BY <1>1, <1>a DEF StartSetup, SetupType, SetupPlaces
  <2>2. overlapped' \in [Setups -> BOOLEAN] /\ (group' = {} \/ group' = group)
    BY <1>1, <1>a DEF StartSetup, SetupType
  <2> QED
    BY <1>a, <2>1, <2>2 DEF SetupType
<1>2. ASSUME NEW s \in Setups, CollectionExists(s) PROVE SetupType'
  BY <1>2, <1>a, GoType DEF CollectionExists, SetupPlaces
<1>3. ASSUME NEW s \in Setups, Inspect(s) PROVE SetupType'
  <2>1. Fields \ coll.indexes \in SUBSET Fields
    OBVIOUS
  <2> QED
    BY <1>3, <1>a, <2>1, GoType, MissingType, EndsType DEF Inspect, SetupPlaces
<1>4. ASSUME NEW s \in Setups, Delete(s) PROVE SetupType'
  BY <1>4, <1>a, GoType, EndsType DEF Delete, SetupPlaces
<1>5. ASSUME NEW s \in Setups, Create(s) PROVE SetupType'
  BY <1>5, <1>a, MissingType, EndsType DEF Create
<1>6. ASSUME NEW s \in Setups, CreateIndex(s) PROVE SetupType'
  <2>1. ASSUME NEW f \in setup[s].missing, UNCHANGED ghosts,
               setup' = [setup EXCEPT ![s].missing = @ \ {f}]
        PROVE  SetupType'
    BY <1>a, <2>1 DEF SetupType, ghosts
  <2> QED
    BY <1>6, <1>a, <2>1, EndsType DEF CreateIndex
<1>7. ASSUME NEW s \in Setups, SetupFails(s) PROVE SetupType'
  BY <1>7, <1>a, EndsType DEF SetupFails
<1> QED
  BY <1>k, <1>1, <1>2, <1>3, <1>4, <1>5, <1>6, <1>7
  DEF Next, Rebuild, StartRun, Scan, Upsert, UpsertFails, SaveCheckpoint,
      FinishRun, ExitRun, CrashRun, StartCheck, CheckLost, CheckSchema, CheckSample,
      CheckFilters, CheckQueries, ExitCheck, Reading, Others

RunType ==
    /\ ckpt \in [there : BOOLEAN, done : SUBSET Ids]
    /\ run \in [pc : RunPlaces, at : 1 .. Len(Order) + 1, version : Nat,
                done : SUBSET Ids, failed : SUBSET Ids, status : {None, "success", "failed"}]
    /\ disturbed \in [run : BOOLEAN, ckpt : BOOLEAN]

\* The run keeps its type and its place.
LEMMA RunStep ==
    ASSUME TypeOK, RunInv, Next
    PROVE  RunType' /\ RunInv'
<1>a. RunType
  BY DEF TypeOK, RunType
<1>b. run.at <= Len(Order) =>
        Next1 \in Ids /\ run.at \in 1 .. Len(Order) /\ run.at + 1 \in 1 .. Len(Order) + 1
  BY NextIsId, LenOrder
<1>c. None \notin {"success", "failed"}
  BY DEF None
<1>k. ASSUME UNCHANGED <<ckpt, run>>, disturbed' \in [run : BOOLEAN, ckpt : BOOLEAN]
      PROVE  RunType' /\ RunInv'
  BY <1>a, <1>k DEF RunType, RunInv, Next1
<1>u. ASSUME UNCHANGED <<ckpt, run, disturbed>> PROVE RunType' /\ RunInv'
  BY <1>a, <1>u DEF RunType, RunInv, Next1
<1>n. NoRun \in [pc : RunPlaces, at : 1 .. Len(Order) + 1, version : Nat,
                 done : SUBSET Ids, failed : SUBSET Ids, status : {None, "success", "failed"}]
  BY LenOrder DEF NoRun, RunPlaces
<1>1. ASSUME NEW r \in BOOLEAN, StartRun(r) PROVE RunType' /\ RunInv'
  BY <1>1, <1>a, <1>n, <1>c DEF StartRun, RunType, RunInv, RunPlaces, NoRun
<1>2. ASSUME Scan PROVE RunType' /\ RunInv'
  <2>1. /\ Next1 \in Ids /\ run.at + 1 \in 1 .. Len(Order) + 1
        /\ corpus[Next1] \in Nat
        /\ corpus[Next1] # 0 => corpus[Next1] \in 1 .. Len(Text[Next1])
    BY <1>2, <1>b, TextAssumption DEF Scan, TypeOK, Versions
  <2>2. RunType'
    BY <1>2, <1>a, <2>1 DEF Scan, RunType, RunPlaces
  <2>3. run.status = None
    BY <1>2 DEF Scan, RunInv
  <2>4. /\ run'.pc \in {"scan", "upsert"} /\ run'.status = None
        /\ run'.pc = "upsert" => /\ run'.at = run.at /\ run'.version = corpus[Next1]
                                 /\ corpus[Next1] # 0
                                 /\ Prepared(Row(Next1, corpus[Next1]))
    BY <1>2, <1>a, <2>3 DEF Scan, RunType
  <2>5. run'.pc = "upsert" => Next1' = Next1 /\ run.at <= Len(Order)
    BY <1>2, <2>4 DEF Next1, Scan
  <2>6. run'.pc = "upsert" =>
          run'.version \in 1 .. Len(Text[Next1']) /\ Prepared(Row(Next1', run'.version))
    BY <2>1, <2>4, <2>5
  <2> QED
    BY <2>2, <2>4, <2>5, <2>6, <1>c DEF RunInv
<1>3. ASSUME Upsert PROVE RunType' /\ RunInv'
  <2>1. Next1 \in Ids
    BY <1>3, <1>b DEF Upsert, RunInv
  <2>2. UNCHANGED <<ckpt, disturbed>> /\ run' \in
          {[run EXCEPT !.pc = "save", !.done = @ \cup {Next1}, !.failed = @ \ {Next1}],
           [run EXCEPT !.pc = "save", !.failed = @ \cup {Next1}]}
    BY <1>3 DEF Upsert
  <2>3. RunType' /\ run'.pc = "save" /\ run'.status = run.status /\ run'.at = run.at
    <3>1. CASE run' = [run EXCEPT !.pc = "save", !.done = @ \cup {Next1}, !.failed = @ \ {Next1}]
      <4>1. run.done \cup {Next1} \in SUBSET Ids /\ run.failed \ {Next1} \in SUBSET Ids
        BY <1>a, <2>1 DEF RunType
      <4> QED
        BY <1>a, <2>2, <3>1, <4>1 DEF RunType, RunPlaces
    <3>2. CASE run' = [run EXCEPT !.pc = "save", !.failed = @ \cup {Next1}]
      BY <1>a, <2>1, <2>2, <3>2 DEF RunType, RunPlaces
    <3> QED
      BY <2>2, <3>1, <3>2
  <2>4. run.pc = "upsert"
    BY <1>3 DEF Upsert
  <2> QED
    BY <2>3, <2>4, <1>c DEF RunInv
<1>4. ASSUME UpsertFails PROVE RunType' /\ RunInv'
  BY <1>4, <1>a, <1>b, <1>c DEF UpsertFails, RunType, RunInv, RunPlaces
<1>5. ASSUME SaveCheckpoint PROVE RunType' /\ RunInv'
  BY <1>5, <1>a, <1>b, <1>c DEF SaveCheckpoint, RunType, RunInv, RunPlaces
<1>6. ASSUME FinishRun PROVE RunType' /\ RunInv'
  BY <1>6, <1>a, <1>b, <1>c DEF FinishRun, RunType, RunInv, RunPlaces
<1>7. ASSUME ExitRun PROVE RunType' /\ RunInv'
  BY <1>7, <1>a, <1>n, <1>c DEF ExitRun, RunType, RunInv, RunPlaces, NoRun
<1>8. ASSUME CrashRun PROVE RunType' /\ RunInv'
  BY <1>8, <1>a, <1>n, <1>c DEF CrashRun, RunType, RunInv, RunPlaces, NoRun
<1>9. ASSUME Disturb PROVE disturbed' \in [run : BOOLEAN, ckpt : BOOLEAN]
  BY <1>9 DEF Disturb
<1>10. ASSUME NEW c \in Ids, Rebuild(c) PROVE RunType' /\ RunInv'
  BY <1>10, <1>9, <1>k DEF Rebuild, indexing
<1>11. ASSUME NEW s \in Setups, Delete(s) \/ Create(s) \/ SetupFails(s)
       PROVE  RunType' /\ RunInv'
  BY <1>11, <1>9, <1>k, <1>u DEF Delete, Create, SetupFails, indexing
<1> QED
  BY <1>u, <1>1, <1>2, <1>3, <1>4, <1>5, <1>6, <1>7, <1>8, <1>10, <1>11
  DEF Next, StartSetup, CollectionExists, Inspect, CreateIndex, StartCheck, CheckLost,
      CheckSchema, CheckSample, CheckFilters, CheckQueries, ExitCheck, Reading, Others, indexing

\* The chunk file, the validation and the counters.
LEMMA OtherStep ==
    ASSUME TypeOK, Next
    PROVE  /\ corpus' \in [Ids -> Nat] /\ \A c \in Ids : corpus'[c] \in Versions(c)
           /\ check' \in [pc : CheckPlaces, epoch : Nat,
                          status : SUBSET {"pass", "warning", "failed", "not_run"}]
           /\ faults' \in Nat /\ jobs' \in Nat
<1>1. corpus' \in [Ids -> Nat] /\ \A c \in Ids : corpus'[c] \in Versions(c)
  <2>1. ASSUME NEW c \in Ids, Rebuild(c)
        PROVE  corpus' \in [Ids -> Nat] /\ \A d \in Ids : corpus'[d] \in Versions(d)
    <3>1. PICK v \in Versions(c) : corpus' = [corpus EXCEPT ![c] = v]
      BY <2>1 DEF Rebuild
    <3>2. v \in Nat
      BY TextAssumption DEF Versions
    <3> QED
      BY <3>1, <3>2 DEF TypeOK
  <2> QED
    BY <2>1 DEF TypeOK, Next, StartSetup, CollectionExists, Inspect, Delete, Create, CreateIndex,
       SetupFails, StartRun, Scan, Upsert, UpsertFails, SaveCheckpoint, FinishRun, ExitRun,
       CrashRun, StartCheck, CheckLost, CheckSchema, CheckSample, CheckFilters, CheckQueries,
       ExitCheck, Reading, Others
<1>2. faults' \in Nat /\ jobs' \in Nat
  <2>1. (Fault \/ UNCHANGED faults) /\ (Job \/ UNCHANGED jobs)
    BY DEF Next, Rebuild, StartSetup, CollectionExists, Inspect, Delete, Create,
       CreateIndex, SetupFails, StartRun, Scan, Upsert, UpsertFails, SaveCheckpoint, FinishRun,
       ExitRun, CrashRun, StartCheck, CheckLost, CheckSchema, CheckSample, CheckFilters,
       CheckQueries, ExitCheck, Reading, Others
  <2> QED
    BY <2>1 DEF TypeOK, Job, Fault
<1> DEFINE Reports == [pc : CheckPlaces, epoch : Nat,
                       status : SUBSET {"pass", "warning", "failed", "not_run"}]
<1>a. check \in Reports
  BY DEF TypeOK
<1>3. check' \in Reports
  <2>1. ASSUME NEW pc \in CheckPlaces, NEW more \in SUBSET {"pass", "warning", "failed", "not_run"},
               Checked(pc, more)
        PROVE  check' \in Reports
    BY <1>a, <2>1 DEF Checked
  <2>2. CASE StartCheck \/ CheckLost \/ ExitCheck
    BY <2>2 DEF TypeOK, StartCheck, CheckLost, ExitCheck, NoCheck, CheckPlaces
  <2>3. CASE CheckSchema
    <3>1. PICK green \in BOOLEAN :
            check' = [check EXCEPT !.pc = "sample", !.epoch = coll.epoch,
                                   !.status = {SchemaStatus(green)}]
      BY <2>3 DEF CheckSchema
    <3>2. SchemaStatus(green) \in {"pass", "warning", "failed"}
      BY DEF SchemaStatus
    <3> QED
      BY <1>a, <3>1, <3>2 DEF TypeOK, CheckPlaces
  <2>4. CASE CheckSample
    BY <2>1, <2>4 DEF CheckSample, SampleStatus, CheckPlaces
  <2>5. CASE CheckFilters
    BY <2>1, <2>5 DEF CheckFilters, FilterStatus, CheckPlaces
  <2>6. CASE CheckQueries
    BY <2>1, <2>6 DEF CheckQueries, CheckPlaces
  <2>7. CASE UNCHANGED check
    BY <1>a, <2>7
  <2> QED
    BY <2>2, <2>3, <2>4, <2>5, <2>6, <2>7
    DEF Next, Rebuild, StartSetup, CollectionExists, Inspect, Delete, Create, CreateIndex,
       SetupFails, StartRun, Scan, Upsert, UpsertFails, SaveCheckpoint, FinishRun, ExitRun,
       CrashRun
<1> QED
  BY <1>1, <1>2, <1>3

LEMMA TypeStep ==
    ASSUME TypeOK, RunInv, Next
    PROVE  TypeOK'
<1>1. CollType' /\ SetupType' /\ RunType'
  BY CollStep, SetupStep, RunStep
<1> QED
  BY <1>1, OtherStep DEF TypeOK, CollType, SetupType, RunType, Versions

----------------------------------------------------------------------------

\* A run that stores a point for an undisturbed file leaves what is current current.
LEMMA StoredIsCurrent ==
    ASSUME TypeOK, RunInv, FreshInv, run.pc = "upsert", Stored, UNCHANGED corpus,
           ~ disturbed.run
    PROVE  \A c \in Ids : c = Next1 \/ Current(c) => Current(c)'
<1>1. /\ Payload(Next1) # NoPoint /\ Payload(Next1).version = corpus[Next1]
      /\ Next1 \in Ids
  BY PayloadIsPoint DEF FreshInv
<1>2. /\ coll'.points[Next1] = Payload(Next1)
      /\ \A c \in Ids : c # Next1 => coll'.points[c] = coll.points[c]
  BY StoredIs
<1>3. coll'.points[Next1] # NoPoint /\ coll'.points[Next1].version = corpus'[Next1]
  BY <1>1, <1>2
<1>4. ASSUME NEW c \in Ids, Current(c) PROVE coll'.points[c] # NoPoint /\ coll'.points[c].version = corpus'[c]
  BY <1>2, <1>3, <1>4 DEF Current
<1> QED
  BY <1>3, <1>4 DEF Current

LEMMA FreshStep ==
    ASSUME TypeOK, RunInv, FreshInv, Next
    PROVE  FreshInv'
<1> USE DEF Current
<1>d. ASSUME Disturb PROVE FreshInv'
  BY <1>d DEF Disturb, FreshInv
<1>k. ASSUME coll'.points = coll.points, UNCHANGED <<corpus, ckpt, run, disturbed>>
      PROVE  FreshInv'
  BY <1>k DEF FreshInv, Passed, Next1
<1>1. ASSUME NEW c \in Ids, Rebuild(c) PROVE FreshInv'
  BY <1>1, <1>d DEF Rebuild
<1>2. ASSUME NEW s \in Setups, Delete(s) \/ Create(s) \/ SetupFails(s) PROVE FreshInv'
  BY <1>2, <1>d, <1>k DEF Delete, Create, SetupFails, indexing
<1>3. ASSUME NEW s \in Setups, CreateIndex(s) PROVE FreshInv'
  <2>1. coll'.points = coll.points
    BY <1>3 DEF CreateIndex, TypeOK
  <2> QED
    BY <1>3, <2>1, <1>k DEF CreateIndex, indexing
<1>4. ASSUME NEW r \in BOOLEAN, StartRun(r) PROVE FreshInv'
  <2>1. UNCHANGED <<coll, corpus, ckpt>> /\ disturbed'.ckpt = disturbed.ckpt
        /\ disturbed'.run = (r /\ disturbed.ckpt)
    BY <1>4 DEF StartRun, TypeOK
  <2>2. run'.pc = "scan" /\ run'.at = 1 /\ run'.done = IF r THEN ckpt.done ELSE {}
    BY <1>4 DEF StartRun, NoRun
  <2>3. \A i \in 1 .. Len(Order) : ~ Passed(i)'
    BY <2>2, LenOrder DEF Passed
  <2> QED
    BY <2>1, <2>2, <2>3 DEF FreshInv
<1>5. ASSUME Scan PROVE FreshInv'
  <2> DEFINE Done(i) == corpus[Order[i]] = 0 \/ Order[i] \in run.done \cup run.failed
             Done1(i) == corpus'[Order[i]] = 0 \/ Order[i] \in run'.done \cup run'.failed
  <2>1. UNCHANGED <<coll, corpus, ckpt, disturbed>> /\ run'.done = run.done
        /\ run.failed \subseteq run'.failed
    BY <1>5 DEF Scan, TypeOK
  <2>2. run'.pc = "upsert" => run'.version = corpus[Next1] /\ run'.at = run.at
    BY <1>5 DEF Scan, TypeOK
  <2>3. \/ run'.pc = "upsert" /\ run'.at = run.at
        \/ run'.pc = "scan" /\ run'.at = run.at + 1 /\ Done1(run.at)
    BY <1>5 DEF Scan, TypeOK, Next1
  <2>4. ASSUME ~ disturbed'.run PROVE \A i \in 1 .. Len(Order) : Passed(i)' => Done1(i)
    <3>1. \A i \in 1 .. Len(Order) : i < run.at => Done1(i)
      BY <1>5, <2>1, <2>4 DEF FreshInv, Passed, Scan
    <3>2. \A i \in 1 .. Len(Order) : i < run.at + 1 => i < run.at \/ i = run.at
      BY LenOrder DEF TypeOK
    <3> QED
      BY <2>3, <3>1, <3>2 DEF Passed
  <2>5. run.pc = "scan"
    BY <1>5 DEF Scan
  <2>6. run'.pc = "upsert" => run'.version = corpus'[Next1']
    BY <2>1, <2>2 DEF Next1
  <2>7. /\ disturbed.run => disturbed.ckpt
        /\ ~ disturbed.ckpt => \A c \in ckpt.done : Current(c)
        /\ ~ disturbed.run => \A c \in run.done : Current(c)
    BY <2>5 DEF FreshInv
  <2> HIDE DEF Done1
  <2>8. \A i \in 1 .. Len(Order) :
          Done1(i) => corpus'[Order[i]] = 0 \/ Order[i] \in run'.done \cup run'.failed
    BY DEF Done1
  <2> QED
    BY <2>1, <2>4, <2>6, <2>7, <2>8 DEF FreshInv
<1>6. ASSUME Upsert \/ UpsertFails PROVE FreshInv'
  <2>1. /\ UNCHANGED <<corpus, ckpt, disturbed>>
        /\ run.pc = "upsert" /\ run'.pc = "save" /\ run'.at = run.at
        /\ run.done \cup run.failed \cup {Next1} \subseteq run'.done \cup run'.failed
        /\ \/ Stored /\ run'.done \subseteq run.done \cup {Next1}
           \/ UNCHANGED coll /\ run'.done = run.done
    BY <1>6 DEF Upsert, UpsertFails, TypeOK
  <2>2. /\ disturbed.run => disturbed.ckpt
        /\ ~ disturbed.ckpt => \A c \in ckpt.done : Current(c)
        /\ ~ disturbed.run => \A c \in run.done : Current(c)
    BY <2>1 DEF FreshInv
  <2>3. ckpt.done \subseteq Ids /\ run.done \subseteq Ids
    BY DEF TypeOK
  <2>4. ~ disturbed'.ckpt => \A c \in ckpt'.done : Current(c)'
    BY <2>1, <2>2, <2>3, StoredIsCurrent
  <2>5. ~ disturbed'.run => \A c \in run'.done : Current(c)'
    <3>1. Next1 \in Ids
      BY <2>1, PayloadIsPoint
    <3> QED
      BY <2>1, <2>2, <2>3, <3>1, StoredIsCurrent
  <2>6. ASSUME ~ disturbed'.run, NEW i \in 1 .. Len(Order), Passed(i)'
        PROVE  corpus'[Order[i]] = 0 \/ Order[i] \in run'.done \cup run'.failed
    <3>1. CASE i < run.at
      BY <2>1, <2>6, <3>1 DEF FreshInv, Passed
    <3>2. CASE i = run.at
      BY <2>1, <3>2 DEF Next1
    <3> QED
      BY <2>1, <2>6, <3>1, <3>2 DEF Passed
  <2> QED
    BY <2>1, <2>2, <2>4, <2>5, <2>6 DEF FreshInv
<1>7. ASSUME SaveCheckpoint PROVE FreshInv'
  <2>1. /\ UNCHANGED <<coll, corpus>> /\ ckpt'.done = run.done
        /\ disturbed'.run = disturbed.run /\ disturbed'.ckpt = disturbed.run
        /\ run.pc = "save" /\ run'.pc = "scan" /\ run'.at = run.at + 1
        /\ run'.done = run.done /\ run'.failed = run.failed
    BY <1>7 DEF SaveCheckpoint, TypeOK
  <2>2. \A i \in 1 .. Len(Order) : Passed(i)' => Passed(i)
    BY <2>1, LenOrder DEF Passed, TypeOK
  <2> QED
    BY <2>1, <2>2 DEF FreshInv
<1>8. ASSUME FinishRun PROVE FreshInv'
  <2>1. /\ UNCHANGED <<coll, corpus, ckpt, disturbed>>
        /\ run.pc = "scan" /\ run'.pc = "ended" /\ run'.at = run.at
        /\ run'.done = run.done /\ run'.failed = run.failed
    BY <1>8 DEF FinishRun, TypeOK
  <2> QED
    BY <2>1 DEF FreshInv, Passed
<1>9. ASSUME ExitRun \/ CrashRun PROVE FreshInv'
  BY <1>9 DEF ExitRun, CrashRun, NoRun, FreshInv
<1> QED
  BY <1>k, <1>1, <1>2, <1>3, <1>4, <1>5, <1>6, <1>7, <1>8, <1>9
  DEF Next, StartSetup, CollectionExists, Inspect, StartCheck, CheckLost,
      CheckSchema, CheckSample, CheckFilters, CheckQueries, ExitCheck, Reading, Others, indexing

----------------------------------------------------------------------------

\* A set-up that has started takes one step.
Moves(s) == CollectionExists(s) \/ Inspect(s) \/ Delete(s) \/ Create(s) \/ CreateIndex(s) \/ SetupFails(s)

\* Nothing else changes the schema of the collection or a set-up.
LEMMA ByOthers ==
    ASSUME TypeOK, RunInv, Next
    PROVE  \/ \E s \in Setups, plan \in Plans, r \in BOOLEAN : StartSetup(s, plan, r)
           \/ \E s \in Setups : Moves(s)
           \/ /\ UNCHANGED <<setup, overlapped, group>>
              /\ coll'.plan = coll.plan /\ coll'.indexes = coll.indexes
              /\ coll'.epoch = coll.epoch
<1>1. CASE Upsert \/ UpsertFails
  BY <1>1, StoredIs DEF Upsert, UpsertFails, ghosts
<1>2. CASE UNCHANGED <<coll, setup, overlapped, group>>
  BY <1>2
<1> QED
  BY <1>1, <1>2
  DEF Moves, Next, Rebuild, StartRun, Scan, SaveCheckpoint, FinishRun, ExitRun, CrashRun,
      StartCheck, CheckLost, CheckSchema, CheckSample, CheckFilters, CheckQueries, ExitCheck,
      Reading, Others, ghosts

\* A step of a set-up is its own: the others stay where they are.
LEMMA MovesAlone ==
    ASSUME TypeOK, NEW s \in Setups, Moves(s)
    PROVE  /\ Running(s)
           /\ UNCHANGED overlapped
           /\ setup'[s].plan = setup[s].plan
           /\ \A o \in Setups : o # s => setup'[o] = setup[o]
<1>1. setup \in [Setups -> [pc : SetupPlaces, plan : Plans \cup {None},
                           recreate : BOOLEAN, missing : SUBSET Fields]]
  BY DEF TypeOK
<1>2. ASSUME NEW pc, Go(s, pc)
      PROVE  setup'[s].plan = setup[s].plan /\ \A o \in Setups : o # s => setup'[o] = setup[o]
  BY <1>1, <1>2 DEF Go
<1>3. ASSUME NEW r, Ends(s, r)
      PROVE  /\ setup'[s].plan = setup[s].plan /\ \A o \in Setups : o # s => setup'[o] = setup[o]
             /\ UNCHANGED overlapped
  BY <1>1, <1>3 DEF Ends
<1>4. ASSUME NEW pc, NEW m, setup' = [setup EXCEPT ![s].pc = pc, ![s].missing = m]
      PROVE  setup'[s].plan = setup[s].plan /\ \A o \in Setups : o # s => setup'[o] = setup[o]
  BY <1>1, <1>4
<1>5. ASSUME NEW m, setup' = [setup EXCEPT ![s].missing = m]
      PROVE  setup'[s].plan = setup[s].plan /\ \A o \in Setups : o # s => setup'[o] = setup[o]
  BY <1>1, <1>5
<1>6. CASE CollectionExists(s)
  BY <1>2, <1>6 DEF CollectionExists, Running, ghosts
<1>7. CASE Inspect(s)
  BY <1>2, <1>3, <1>4, <1>7 DEF Inspect, Running, ghosts
<1>8. CASE Delete(s)
  BY <1>2, <1>3, <1>8 DEF Delete, Running, ghosts
<1>9. CASE Create(s)
  BY <1>3, <1>4, <1>9 DEF Create, Running, ghosts
<1>10. CASE CreateIndex(s)
  BY <1>3, <1>5, <1>10 DEF CreateIndex, Running, ghosts
<1>11. CASE SetupFails(s)
  BY <1>3, <1>11 DEF SetupFails, Running
<1> QED
  BY <1>6, <1>7, <1>8, <1>9, <1>10, <1>11 DEF Moves

\* A set-up is about to delete only after it has seen another plan.
LEMMA ToDelete ==
    ASSUME TypeOK, NEW s \in Setups, Moves(s), setup'[s].pc = "delete"
    PROVE  setup[s].pc # "delete" /\ coll.plan # setup[s].plan /\ UNCHANGED coll
<1>1. setup \in [Setups -> [pc : SetupPlaces, plan : Plans \cup {None},
                           recreate : BOOLEAN, missing : SUBSET Fields]]
  BY DEF TypeOK
<1>2. ASSUME NEW pc, Go(s, pc) PROVE setup'[s].pc = pc
  BY <1>1, <1>2 DEF Go
<1>3. ASSUME NEW r, Ends(s, r) PROVE FALSE
  BY <1>1, <1>3 DEF Ends
<1>4. ASSUME NEW pc, NEW m, setup' = [setup EXCEPT ![s].pc = pc, ![s].missing = m]
      PROVE  setup'[s].pc = pc
  BY <1>1, <1>4
<1>5. ASSUME NEW m, setup' = [setup EXCEPT ![s].missing = m]
      PROVE  setup'[s].pc = setup[s].pc
  BY <1>1, <1>5
<1> QED
  BY <1>2, <1>3, <1>4, <1>5
  DEF Moves, CollectionExists, Inspect, Delete, Create, CreateIndex, SetupFails

LEMMA LoneStep ==
    ASSUME TypeOK, RunInv, LoneInv, Next
    PROVE  LoneInv'
<1>1. ASSUME NEW s \in Setups, NEW plan \in Plans, NEW r \in BOOLEAN, StartSetup(s, plan, r)
      PROVE  LoneInv'
  <2>1. /\ setup'[s].pc = "exists" /\ ~ Running(s) /\ UNCHANGED coll
        /\ \A o \in Setups : o # s => setup'[o] = setup[o]
    BY <1>1 DEF StartSetup, TypeOK, Running
  <2>2. \A o \in Setups : overlapped'[o] =
          (overlapped[o] \/ o \in {q \in Setups : Running(q)}
                         \/ (o = s /\ {q \in Setups : Running(q)} # {}))
    BY <1>1 DEF StartSetup
  <2>3. ASSUME NEW o \in Setups, NEW q \in Setups, Running(o)', Running(q)', o # q
        PROVE  overlapped'[o]
    <3>1. CASE o = s
      BY <2>1, <2>2, <2>3, <3>1 DEF Running
    <3>2. CASE o # s
      <4>1. Running(o)
        BY <2>1, <2>3, <3>2 DEF Running
      <4> QED
        BY <2>2, <4>1
    <3> QED
      BY <3>1, <3>2
  <2>4. ASSUME NEW o \in Setups, setup'[o].pc = "delete", ~ overlapped'[o]
        PROVE  coll'.plan # setup'[o].plan
    BY <2>1, <2>2, <2>4 DEF LoneInv
  <2> QED
    BY <2>3, <2>4 DEF LoneInv
<1>2. ASSUME NEW s \in Setups, Moves(s) PROVE LoneInv'
  <2>1. /\ Running(s) /\ UNCHANGED overlapped /\ setup'[s].plan = setup[s].plan
        /\ \A o \in Setups : o # s => setup'[o] = setup[o]
    BY <1>2, MovesAlone
  <2>2. \A o \in Setups : Running(o)' => Running(o)
    BY <2>1 DEF Running
  <2>3. ASSUME NEW o \in Setups, setup'[o].pc = "delete", ~ overlapped'[o]
        PROVE  coll'.plan # setup'[o].plan
    <3>1. Running(o)
      BY <2>2, <2>3 DEF Running
    <3>2. o = s
      BY <2>1, <2>3, <3>1 DEF LoneInv
    <3> QED
      BY <1>2, <2>1, <2>3, <3>2, ToDelete
  <2> QED
    BY <2>1, <2>2, <2>3 DEF LoneInv
<1>3. CASE UNCHANGED <<setup, overlapped>> /\ coll'.plan = coll.plan
  BY <1>3 DEF LoneInv, Running
<1> QED
  BY <1>1, <1>2, <1>3, ByOthers

\* A group whose set-ups have one plan and do not fail had no other plan before the step.
LEMMA PureBefore ==
    ASSUME TypeOK, NEW s \in Setups, Moves(s), NEW plan \in Plans, Pure(plan)'
    PROVE  /\ Pure(plan) /\ setup[s].plan = plan
           /\ ~ Ends(s, "failed")
<1>1. /\ Running(s) /\ setup'[s].plan = setup[s].plan
      /\ \A o \in Setups : o # s => setup'[o] = setup[o]
  BY MovesAlone
<1>2. /\ \A o \in Setups : Running(o)' => setup'[o].plan = plan
      /\ group' \subseteq {[plan |-> plan, result |-> "success"]}
  BY DEF Pure
<1>3. ASSUME NEW result, Ends(s, result)
      PROVE  setup[s].plan = plan /\ result = "success" /\ group \subseteq group'
  <2>1. [plan |-> setup[s].plan, result |-> result] = [plan |-> plan, result |-> "success"]
    BY <1>2, <1>3 DEF Ends
  <2> QED
    BY <1>3, <2>1 DEF Ends
<1>4. ASSUME \A result : ~ Ends(s, result)
      PROVE  Running(s)' /\ group' = group
  <2>1. setup \in [Setups -> [pc : SetupPlaces, plan : Plans \cup {None},
                             recreate : BOOLEAN, missing : SUBSET Fields]]
    BY DEF TypeOK
  <2>2. ASSUME NEW pc \in SetupPlaces \ {"off", "ended"}, Go(s, pc) PROVE Running(s)'
    BY <2>1, <2>2 DEF Go, Running
  <2>3. ASSUME NEW m, setup' = [setup EXCEPT ![s].pc = "index", ![s].missing = m] PROVE Running(s)'
    BY <2>1, <2>3 DEF Running
  <2>4. ASSUME NEW m, setup' = [setup EXCEPT ![s].missing = m] PROVE Running(s)'
    BY <1>1, <2>1, <2>4 DEF Running
  <2> QED
    BY <1>4, <2>2, <2>3, <2>4
    DEF Moves, CollectionExists, Inspect, Delete, Create, CreateIndex, SetupFails, ghosts, SetupPlaces
<1>5. setup[s].plan = plan /\ group \subseteq group'
  BY <1>1, <1>2, <1>3, <1>4
<1>6. ~ Ends(s, "failed")
  BY <1>3
<1>7. \A o \in Setups : Running(o) => setup[o].plan = plan
  BY <1>1, <1>2, <1>5 DEF Running
<1> QED
  BY <1>2, <1>5, <1>6, <1>7 DEF Pure

LEMMA GroupStep ==
    ASSUME TypeOK, RunInv, GroupInv, Next
    PROVE  GroupInv'
<1> DEFINE Held(plan) == \/ Whole(plan)
                         \/ \E s \in Setups : Answers(s, plan)
                         \/ group = {} /\ \A s \in Setups : setup[s].pc # "index"
<1>t. setup \in [Setups -> [pc : SetupPlaces, plan : Plans \cup {None},
                           recreate : BOOLEAN, missing : SUBSET Fields]]
      /\ coll.indexes \subseteq Fields
  BY DEF TypeOK
<1>1. ASSUME NEW s \in Setups, NEW p \in Plans, NEW r \in BOOLEAN, StartSetup(s, p, r),
             NEW plan \in Plans, Pure(plan)'
      PROVE  Held(plan)'
  <2>1. /\ setup'[s].pc = "exists" /\ setup[s].pc = "off" /\ UNCHANGED coll
        /\ \A o \in Setups : o # s => setup'[o] = setup[o]
    BY <1>1, <1>t DEF StartSetup
  <2>2. CASE {o \in Setups : Running(o)} = {}
    <3>1. group' = {}
      BY <1>1, <2>2 DEF StartSetup
    <3>2. \A o \in Setups : setup'[o].pc # "index"
      BY <2>1, <2>2 DEF Running
    <3> QED
      BY <3>1, <3>2
  <2>3. CASE {o \in Setups : Running(o)} # {}
    <3>1. group' = group
      BY <1>1, <2>3 DEF StartSetup
    <3>2. Pure(plan)
      BY <1>1, <2>1, <3>1 DEF Pure, Running
    <3>3. Held(plan)
      BY <3>2 DEF GroupInv
    <3>4. \A o \in Setups : Answers(o, plan) => Answers(o, plan)'
      BY <2>1 DEF Answers
    <3>5. Whole(plan) => Whole(plan)'
      BY <2>1 DEF Whole
    <3> QED
      BY <2>1, <3>1, <3>3, <3>4, <3>5
  <2> QED
    BY <2>2, <2>3
<1>2. ASSUME NEW s \in Setups, Moves(s), NEW plan \in Plans, Pure(plan)'
      PROVE  Held(plan)'
  <2>1. /\ Pure(plan) /\ setup[s].plan = plan /\ ~ Ends(s, "failed")
    BY <1>2, PureBefore
  <2>2. Held(plan)
    BY <2>1 DEF GroupInv
  <2>3. \A o \in Setups : o # s => setup'[o] = setup[o]
    BY <1>2, MovesAlone
  <2>4. ASSUME Go(s, "delete") \/ Go(s, "create") PROVE Answers(s, plan)'
    BY <1>t, <2>4 DEF Go, Answers
  <2>5. CASE CollectionExists(s)
    <3>1. Go(s, "inspect") => setup'[s].pc = "inspect"
      BY <1>t DEF Go
    <3>2. \A o \in Setups : Answers(o, plan) => Answers(o, plan)'
      BY <2>3, <2>5 DEF CollectionExists, Answers
    <3>3. Whole(plan) => Whole(plan)'
      BY <2>5 DEF CollectionExists, Whole
    <3>4. group' = group
      BY <2>5 DEF CollectionExists, ghosts
    <3> QED
      BY <2>2, <2>3, <2>4, <2>5, <3>1, <3>2, <3>3, <3>4 DEF CollectionExists
  <2>6. CASE Inspect(s)
    <3>1. ASSUME coll.plan = setup[s].plan,
                 setup' = [setup EXCEPT ![s].pc = "index", ![s].missing = Fields \ coll.indexes]
          PROVE  Answers(s, plan)'
      <4>1. setup'[s].pc = "index" /\ setup'[s].missing = Fields \ coll.indexes
        BY <1>t, <3>1
      <4>2. UNCHANGED coll
        BY <2>6 DEF Inspect
      <4> QED
        BY <2>1, <3>1, <4>1, <4>2 DEF Answers
    <3> QED
      BY <2>1, <2>4, <2>6, <3>1 DEF Inspect
  <2>7. CASE Delete(s)
    BY <2>1, <2>4, <2>7 DEF Delete
  <2>8. CASE Create(s)
    <3>1. coll'.plan = plan /\ setup' = [setup EXCEPT ![s].pc = "index", ![s].missing = Fields]
      BY <2>1, <2>8 DEF Create
    <3>2. setup'[s].pc = "index" /\ setup'[s].missing = Fields
      BY <1>t, <3>1
    <3> QED
      BY <3>1, <3>2 DEF Answers
  <2>9. CASE CreateIndex(s)
    <3>0. setup[s].pc = "index" /\ setup[s].missing \subseteq Fields
      BY <2>9, <1>t DEF CreateIndex
    <3>1. ASSUME NEW f \in setup[s].missing, coll' = [coll EXCEPT !.indexes = @ \cup {f}],
                 setup' = [setup EXCEPT ![s].missing = @ \ {f}]
          PROVE  Held(plan)'
      <4>1. coll'.plan = coll.plan /\ coll'.indexes = coll.indexes \cup {f}
        BY <3>1 DEF TypeOK
      <4>2. setup'[s].pc = "index" /\ setup'[s].missing = setup[s].missing \ {f}
        BY <1>t, <3>0, <3>1
      <4>3. Whole(plan) => Whole(plan)'
        BY <3>0, <3>1, <4>1 DEF Whole
      <4>4. \A o \in Setups : Answers(o, plan) => Answers(o, plan)'
        BY <2>3, <3>0, <4>1, <4>2 DEF Answers
      <4> QED
        BY <2>2, <3>0, <4>3, <4>4
    <3>2. ASSUME setup[s].missing = {}, UNCHANGED coll
          PROVE  Held(plan)'
      <4>1. Whole(plan) => Whole(plan)'
        BY <3>2 DEF Whole
      <4>2. Answers(s, plan) => Whole(plan)'
        BY <1>t, <3>0, <3>2 DEF Whole, Answers
      <4>3. \A o \in Setups : o # s /\ Answers(o, plan) => Answers(o, plan)'
        BY <2>3, <3>2 DEF Answers
      <4> QED
        BY <2>2, <3>0, <4>1, <4>2, <4>3
    <3> QED
      BY <2>1, <2>9, <3>1, <3>2 DEF CreateIndex
  <2>10. CASE SetupFails(s)
    BY <2>1, <2>10 DEF SetupFails
  <2> QED
    BY <1>2, <2>5, <2>6, <2>7, <2>8, <2>9, <2>10 DEF Moves
<1>3. ASSUME UNCHANGED <<setup, group>>, coll'.plan = coll.plan, coll'.indexes = coll.indexes,
             NEW plan \in Plans, Pure(plan)'
      PROVE  Held(plan)'
  <2>1. Pure(plan)
    BY <1>3 DEF Pure, Running
  <2>2. Held(plan)
    BY <2>1 DEF GroupInv
  <2> QED
    BY <1>3, <2>2 DEF Whole, Answers
<1> QED
  BY <1>1, <1>2, <1>3, ByOthers DEF GroupInv

----------------------------------------------------------------------------

\* As long as a collection is not replaced it keeps its plan, its indexes and its points.
LEMMA CollGrows ==
    ASSUME TypeOK, RunInv, Next
    PROVE  /\ coll.epoch <= coll'.epoch
           /\ coll'.epoch = coll.epoch /\ coll'.plan # None =>
                /\ coll'.plan = coll.plan
                /\ coll.indexes \subseteq coll'.indexes
                /\ Points # {} => Points' # {}
<1> DEFINE Grows == /\ coll.epoch <= coll'.epoch
                    /\ coll'.epoch = coll.epoch /\ coll'.plan # None =>
                         /\ coll'.plan = coll.plan
                         /\ coll.indexes \subseteq coll'.indexes
                         /\ Points # {} => Points' # {}
<1>a. coll.epoch \in Nat /\ coll'.epoch \in Nat
  BY CollStep DEF TypeOK, CollType
<1>k. ASSUME UNCHANGED coll PROVE Grows
  BY <1>a, <1>k DEF Points
<1>g. ASSUME coll' = Gone PROVE Grows
  BY <1>a, <1>g DEF Gone
<1>c. ASSUME NEW plan,
             coll' = [plan |-> plan, indexes |-> {}, points |-> Empty, epoch |-> coll.epoch + 1]
      PROVE  Grows
  BY <1>a, <1>c
<1>1. ASSUME NEW s \in Setups, Delete(s) \/ Create(s) \/ SetupFails(s) PROVE Grows
  BY <1>1, <1>k, <1>g, <1>c DEF Delete, Create, SetupFails
<1>2. ASSUME NEW s \in Setups, CreateIndex(s) PROVE Grows
  <2>1. ASSUME NEW f, coll' = [coll EXCEPT !.indexes = @ \cup {f}] PROVE Grows
    <3>1. /\ coll'.plan = coll.plan /\ coll'.points = coll.points /\ coll'.epoch = coll.epoch
          /\ coll'.indexes = coll.indexes \cup {f}
      BY <2>1 DEF TypeOK
    <3> QED
      BY <1>a, <3>1 DEF Points
  <2> QED
    BY <1>2, <1>k, <2>1 DEF CreateIndex
<1>3. ASSUME Upsert \/ UpsertFails PROVE Grows
  BY <1>3, <1>a, <1>k, StoredIs DEF Upsert, UpsertFails
<1> QED
  BY <1>k, <1>1, <1>2, <1>3
  DEF Next, Rebuild, StartSetup, CollectionExists, Inspect, StartRun, Scan, SaveCheckpoint,
      FinishRun, ExitRun, CrashRun, StartCheck, CheckLost, CheckSchema, CheckSample,
      CheckFilters, CheckQueries, ExitCheck, Reading, Others

LEMMA CheckStep ==
    ASSUME TypeOK, RunInv, CheckInv, Next
    PROVE  CheckInv'
<1>a. /\ coll.epoch \in Nat /\ coll'.epoch \in Nat /\ check.epoch \in Nat
      /\ coll.indexes \subseteq Fields /\ coll'.indexes \subseteq Fields
  BY CollStep DEF TypeOK, CollType
<1>1. CASE UNCHANGED check
  <2>1. check.pc # "off" => check'.epoch <= coll'.epoch
    BY <1>1, <1>a, CollGrows DEF CheckInv
  <2>2. ASSUME check'.pc \in {"sample", "filters", "queries", "reported"},
               check'.status \cap {"failed", "warning"} = {},
               coll'.epoch = check'.epoch, coll'.plan # None
        PROVE  Whole(ModelPlan)' /\ Points' # {}
    <3>1. coll'.epoch = coll.epoch
      BY <1>1, <1>a, <2>2, CollGrows DEF CheckInv
    <3>2. coll'.plan = coll.plan /\ coll.indexes \subseteq coll'.indexes /\ (Points # {} => Points' # {})
      BY <2>2, <3>1, CollGrows
    <3>3. Whole(ModelPlan) /\ Points # {}
      BY <1>1, <2>2, <3>1, <3>2 DEF CheckInv
    <3> QED
      BY <1>a, <3>2, <3>3 DEF Whole
  <2> QED
    BY <1>1, <2>1, <2>2 DEF CheckInv
<1>2. CASE StartCheck
  BY <1>2, <1>a DEF StartCheck, Others, CheckInv
<1>3. CASE CheckLost \/ ExitCheck
  BY <1>3 DEF CheckLost, ExitCheck, NoCheck, CheckInv
<1>4. CASE CheckSchema
  <2>1. UNCHANGED coll /\ coll.plan # None /\ check'.pc = "sample" /\ check'.epoch = coll.epoch
    BY <1>4 DEF CheckSchema, Reading, Others, Lost, TypeOK
  <2>2. PICK green \in BOOLEAN : check'.status = {SchemaStatus(green)}
    BY <1>4 DEF CheckSchema, TypeOK
  <2>3. SchemaStatus(green) \notin {"failed", "warning"} => Whole(ModelPlan) /\ Points # {}
    BY DEF SchemaStatus, Whole
  <2>4. check'.status \cap {"failed", "warning"} = {} => SchemaStatus(green) \notin {"failed", "warning"}
    BY <2>2
  <2>5. Whole(ModelPlan)' = Whole(ModelPlan) /\ Points' = Points
    BY <2>1 DEF Whole, Points
  <2> QED
    BY <1>a, <2>1, <2>3, <2>4, <2>5 DEF CheckInv
<1>5. ASSUME NEW pc, NEW more, Checked(pc, more), UNCHANGED coll,
             check.pc \in {"sample", "filters", "queries"}
      PROVE  CheckInv'
  <2>1. check'.epoch = check.epoch /\ check.status \subseteq check'.status
    BY <1>5 DEF Checked, TypeOK
  <2>2. Whole(ModelPlan)' = Whole(ModelPlan) /\ Points' = Points
    BY <1>5 DEF Whole, Points
  <2> QED
    BY <1>5, <2>1, <2>2 DEF CheckInv
<1>6. CASE CheckSample \/ CheckFilters \/ CheckQueries
  BY <1>5, <1>6 DEF CheckSample, CheckFilters, CheckQueries, Reading, Others
<1> QED
  BY <1>1, <1>2, <1>3, <1>4, <1>6
  DEF Next, Rebuild, StartSetup, CollectionExists, Inspect, Delete, Create, CreateIndex,
     SetupFails, StartRun, Scan, Upsert, UpsertFails, SaveCheckpoint, FinishRun, ExitRun,
     CrashRun

----------------------------------------------------------------------------

LEMMA InitIInv == Init => IInv
<1> SUFFICES ASSUME Init PROVE IInv
  OBVIOUS
<1>1. PICK plan \in Plans \cup {None}, indexes \in SUBSET Fields :
        coll = [plan |-> plan, indexes |-> indexes, points |-> Empty, epoch |-> 0]
  BY DEF Init
<1>2. TypeOK
  <2>1. corpus \in [Ids -> Nat] /\ \A c \in Ids : corpus[c] \in Versions(c)
    BY TextAssumption DEF Init, Versions
  <2>2. CollType
    BY <1>1, EmptyType DEF CollType
  <2>3. SetupType
    BY DEF Init, NoSetup, SetupType, SetupPlaces
  <2>4. RunType
    BY LenOrder DEF Init, NoRun, RunType, RunPlaces
  <2> QED
    BY <2>1, <2>2, <2>3, <2>4
    DEF TypeOK, CollType, SetupType, RunType, Init, NoCheck, CheckPlaces
<1>3. RunInv
  BY DEF Init, NoRun, RunInv, None
<1>4. FreshInv
  BY DEF Init, NoRun, FreshInv
<1>5. LoneInv
  BY DEF Init, NoSetup, LoneInv, Running
<1>6. GroupInv
  BY DEF Init, NoSetup, GroupInv
<1>7. CheckInv
  BY DEF Init, NoCheck, CheckInv
<1> QED
  BY <1>2, <1>3, <1>4, <1>5, <1>6, <1>7 DEF IInv

LEMMA Inductive == IInv /\ [Next]_vars => IInv'
<1>1. ASSUME IInv, Next PROVE IInv'
  BY <1>1, TypeStep, RunStep, FreshStep, LoneStep, GroupStep, CheckStep DEF IInv
<1>2. ASSUME IInv, UNCHANGED vars PROVE IInv'
  <2>1. TypeOK'
    BY <1>2 DEF vars, indexing, ghosts, IInv, TypeOK, Versions
  <2>2. RunInv' /\ FreshInv'
    BY <1>2 DEF vars, indexing, IInv, RunInv, FreshInv, Passed, Current, Next1
  <2>3. LoneInv' /\ GroupInv'
    BY <1>2 DEF vars, ghosts, IInv, LoneInv, GroupInv, Pure, Whole, Answers, Running
  <2>4. CheckInv'
    BY <1>2 DEF vars, IInv, CheckInv, Whole, Points
  <2> QED
    BY <2>1, <2>2, <2>3, <2>4 DEF IInv
<1> QED
  BY <1>1, <1>2

LEMMA Invariance == Spec => []IInv
  BY InitIInv, Inductive, PTL DEF Spec

\* Every variable keeps its type; a point is the payload of a prepared row of its chunk.
THEOREM TypeInvariant == Spec => []TypeOK
<1>1. IInv => TypeOK
  BY DEF IInv
<1> QED
  BY <1>1, Invariance, PTL

\* A group of overlapping set-ups with one plan that all report success leaves the
\* collection with that plan and every payload index, for any number of set-ups, and
\* whatever requests of earlier ones failed.
THEOREM SetupSuccessIsWholeAlways == Spec => []SetupSuccessIsWhole
<1>1. IInv => SetupSuccessIsWhole
  <2> SUFFICES ASSUME IInv, \A s \in Setups : ~ Running(s), group # {},
                      NEW plan \in Plans, group = {[plan |-> plan, result |-> "success"]}
               PROVE  Whole(plan)
    BY DEF SetupSuccessIsWhole, Whole
  <2>1. Pure(plan)
    BY DEF Pure
  <2>2. \A s \in Setups : ~ Answers(s, plan)
    BY DEF Running, Answers
  <2> QED
    BY <2>1, <2>2 DEF IInv, GroupInv
<1> QED
  BY <1>1, Invariance, PTL

\* A run that reports success without a disturbance has every chunk of the file in the
\* collection at its version, for every file, checkpoint and number of faults.
THEOREM SuccessfulRunIsCurrentAlways == Spec => []SuccessfulRunIsCurrent
<1>1. IInv => SuccessfulRunIsCurrent
  <2> SUFFICES ASSUME IInv, run.status = "success", ~ disturbed.run,
                      NEW c \in Ids, corpus[c] # 0
               PROVE  Current(c)
    BY DEF SuccessfulRunIsCurrent, Current
  <2>1. run.pc = "ended" /\ run.failed = {} /\ run.at > Len(Order)
    BY DEF IInv, RunInv, None
  <2>2. PICK i \in 1 .. Len(Order) : c = Order[i]
    BY LenOrder DEF Ids, Range
  <2>3. Passed(i)
    BY <2>1, LenOrder DEF Passed, IInv, TypeOK
  <2> QED
    BY <2>1, <2>2, <2>3 DEF IInv, FreshInv
<1> QED
  BY <1>1, Invariance, PTL

\* A report of the validation that is good in every part holds for as long as the
\* collection is not replaced, whatever runs and set-ups did between its reads.
THEOREM GoodReportHoldsAlways == Spec => []GoodReportHolds
<1>1. IInv => GoodReportHolds
  <2> SUFFICES ASSUME IInv, check.pc = "reported", Successful, coll.epoch = check.epoch,
                      coll.plan # None
               PROVE  Whole(ModelPlan) /\ Points # {}
    BY DEF GoodReportHolds, Whole
  <2>1. check.status \cap {"failed", "warning"} = {}
    BY DEF Successful, Worst
  <2> QED
    BY <2>1 DEF IInv, CheckInv
<1> QED
  BY <1>1, Invariance, PTL

\* A set-up that no other one overlapped deletes no collection that matches its plan,
\* for any number of set-ups and with or without recreating.
THEOREM LoneSetupKeepsPointsAlways == Spec => LoneSetupKeepsPoints
<1>1. IInv => [\A s \in Setups : setup[s].pc = "delete" /\ setup'[s].pc # "delete"
                 /\ coll.plan = setup[s].plan => overlapped[s]]_vars
  BY DEF IInv, LoneInv
<1> QED
  BY <1>1, Invariance, PTL DEF LoneSetupKeepsPoints
=============================================================================
