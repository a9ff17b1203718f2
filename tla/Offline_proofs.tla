--------------------------- MODULE Offline_proofs ---------------------------
(***************************************************************************)
(* What the commands that run before the service goes up leave behind:     *)
(* the corpus commands a chunk file, and the evaluation of the answers a   *)
(* verdict.                                                                *)
(***************************************************************************)
EXTENDS CorpusBuild, QualityGate, SequenceTheorems, FiniteSetTheorems, WellFoundedInduction, TLAPS

-----------------------------------------------------------------------------
(* Sequences joined.                                                       *)

\* A set of numbers has a least one.
LEMMA LeastNumber ==
    ASSUME NEW T \in SUBSET Nat, T # {}
    PROVE  \E m \in T : \A k \in T : m <= k
<1>1. PICK m \in T : \A k \in T : ~ (<<k, m>> \in OpToRel(<, Nat))
  BY NatLessThanWellFounded, WFMin
<1>2. \A k \in T : ~ (k < m)
  BY <1>1 DEF OpToRel
<1> QED
  BY <1>2

\* The function that defines Joined, spelt out.
LEMMA JoinedDef ==
    ASSUME NEW S, NEW parts \in Seq(Seq(S))
    PROVE  /\ Joined(parts, 0) = << >>
           /\ \A n \in 1 .. Len(parts) : Joined(parts, n) = Joined(parts, n - 1) \o parts[n]
<1> DEFINE Body(g, i) == IF i = 0 THEN << >> ELSE g[i - 1] \o parts[i]
           Def(n) == \E g : g = [i \in 0 .. n |-> Body(g, i)]
           T == {n \in Nat : ~ Def(n)}
<1>1. T = {}
  <2> SUFFICES ASSUME T # {} PROVE FALSE
    OBVIOUS
  <2>1. PICK m \in T : \A k \in T : m <= k
    BY LeastNumber
  <2>2. CASE m = 0
    <3> DEFINE h == [i \in 0 .. 0 |-> << >>]
    <3>1. h = [i \in 0 .. 0 |-> Body(h, i)]
      BY SMT
    <3> QED
      BY <2>1, <2>2, <3>1
  <2>3. CASE m # 0
    <3>1. m - 1 \in Nat /\ m - 1 \notin T
      <4>1. T \subseteq Nat
        OBVIOUS
      <4> HIDE DEF T
      <4> QED
        BY <2>1, <2>3, <4>1
    <3>2. PICK g : g = [i \in 0 .. m - 1 |-> Body(g, i)]
      BY <3>1
    <3> DEFINE h == [i \in 0 .. m |-> IF i < m THEN g[i] ELSE Body(g, m)]
    <3>3. \A i \in 0 .. m : h[i] = Body(h, i)
      <4> SUFFICES ASSUME NEW i \in 0 .. m PROVE h[i] = Body(h, i)
        OBVIOUS
      <4>1. i # 0 => h[i - 1] = g[i - 1]
        BY <2>1
      <4>2. Body(h, i) = Body(g, i)
        BY <4>1
      <4>3. i < m => g[i] = Body(g, i)
        <5>1. m \in Nat
          OBVIOUS
        <5> HIDE DEF Body, T
        <5> QED
          BY <3>2, <5>1
      <4> QED
        BY <4>2, <4>3, <2>1
    <3>4. h = [i \in 0 .. m |-> Body(h, i)]
      BY <3>3
    <3> QED
      BY <2>1, <3>4
  <2> QED
    BY <2>2, <2>3
<1>2. Len(parts) \in Nat
  OBVIOUS
<1>3. \E g : g = [i \in 0 .. Len(parts) |-> Body(g, i)]
  BY <1>1, <1>2
<1> DEFINE f == CHOOSE g : g = [i \in 0 .. Len(parts) |-> Body(g, i)]
<1>4. f = [i \in 0 .. Len(parts) |-> Body(f, i)]
  BY <1>3
<1>5. \A n : Joined(parts, n) = f[n]
  BY DEF Joined
<1> HIDE DEF f
<1>6. \A i \in 0 .. Len(parts) : f[i] = Body(f, i)
  <2> HIDE DEF Body
  <2> QED
    BY <1>4
<1>7. Joined(parts, 0) = << >>
  BY <1>2, <1>5, <1>6
<1>8. ASSUME NEW n \in 1 .. Len(parts)
      PROVE  Joined(parts, n) = Joined(parts, n - 1) \o parts[n]
  <2>1. f[n] = f[n - 1] \o parts[n]
    <3>1. n \in 0 .. Len(parts) /\ n # 0
      BY <1>2
    <3>2. f[n] = Body(f, n)
      <4> HIDE DEF Body
      <4> QED
        BY <1>6, <3>1
    <3> QED
      BY <3>1, <3>2, Zenon
  <2> QED
    BY <1>5, <2>1
<1> QED
  BY <1>7, <1>8

\* Sequences of S joined are a sequence of S.
LEMMA JoinedType ==
    ASSUME NEW S, NEW parts \in Seq(Seq(S)), NEW n \in 0 .. Len(parts)
    PROVE  Joined(parts, n) \in Seq(S)
<1>0. /\ Joined(parts, 0) = << >>
      /\ \A k \in 1 .. Len(parts) : Joined(parts, k) = Joined(parts, k - 1) \o parts[k]
  BY JoinedDef
<1> DEFINE T == {k \in Nat : k <= Len(parts) /\ Joined(parts, k) \notin Seq(S)}
<1>1. T = {}
  <2> SUFFICES ASSUME T # {} PROVE FALSE
    OBVIOUS
  <2>1. PICK m \in T : \A k \in T : m <= k
    BY LeastNumber
  <2>2. m \in Nat /\ m <= Len(parts) /\ Joined(parts, m) \notin Seq(S)
    OBVIOUS
  <2>3. m # 0
    <3>1. << >> \in Seq(S)
      OBVIOUS
    <3> HIDE DEF T
    <3> QED
      BY <1>0, <2>2, <3>1, Zenon
  <2>4. m \in 1 .. Len(parts) /\ m - 1 \in Nat /\ m - 1 <= Len(parts)
    BY <2>2, <2>3
  <2>5. Joined(parts, m - 1) \in Seq(S)
    BY <2>1, <2>4
  <2>6. Joined(parts, m) = Joined(parts, m - 1) \o parts[m]
    BY <1>0, <2>4, Zenon
  <2>7. parts[m] \in Seq(S)
    BY <2>4
  <2> HIDE DEF T
  <2> QED
    BY <2>2, <2>5, <2>6, <2>7
<1> QED
  BY <1>1

-----------------------------------------------------------------------------
(* Rows of a law.                                                          *)

\* The lines that chunking may make of a law.
LinesOf(l) == {[line |-> "row", row |-> Row(l, nodes, id)] :
                 nodes \in {NodesOf(l, v) : v \in Versions},
                 id \in UNION {DOMAIN NodesOf(l, v) : v \in Versions}}

\* A line that is made of a law is a row of that law.
LEMMA LinesAreOfTheLaw ==
    ASSUME NEW l, NEW x \in LinesOf(l)
    PROVE  x.line = "row" /\ x.row.law_id = l
<1>1. PICK nodes, id : x = [line |-> "row", row |-> Row(l, nodes, id)]
  BY DEF LinesOf
<1>2. Row(l, nodes, id).law_id = l
  BY DEF Row
<1> QED
  BY <1>1, <1>2

\* The rows of a law are among the lines that may be made of it.
LEMMA RowsOfType ==
    ASSUME NEW l \in Laws, NEW v \in Versions
    PROVE  RowsOf(l, v) \in Seq(LinesOf(l))
<1> DEFINE nodes == NodesOf(l, v)
           order == Fate[l][v].order
           RowOf(id) == IF Chunked(nodes, id) THEN <<[line |-> "row", row |-> Row(l, nodes, id)]>>
                        ELSE << >>
           parts == [i \in DOMAIN order |-> RowOf(order[i])]
<1>1. order \in Seq(DOMAIN nodes)
  BY FateAssumption DEF NodesOf
<1>2. DOMAIN order = 1 .. Len(order) /\ Len(order) \in Nat
  BY <1>1
<1>3. \A id \in DOMAIN nodes : RowOf(id) \in Seq(LinesOf(l))
  <2> SUFFICES ASSUME NEW id \in DOMAIN nodes PROVE RowOf(id) \in Seq(LinesOf(l))
    OBVIOUS
  <2>1. [line |-> "row", row |-> Row(l, nodes, id)] \in LinesOf(l)
    BY DEF LinesOf
  <2> HIDE DEF nodes
  <2> QED
    BY <2>1
<1>4. parts \in Seq(Seq(LinesOf(l))) /\ Len(parts) = Len(order)
  <2> HIDE DEF RowOf, nodes, order
  <2>1. \A i \in 1 .. Len(order) : order[i] \in DOMAIN nodes
    BY <1>1
  <2> QED
    BY <1>2, <1>3, <2>1
<1>5. RowsOf(l, v) = Joined(parts, Len(order))
  BY DEF RowsOf
<1> HIDE DEF parts, order
<1> QED
  BY <1>2, <1>4, <1>5, JoinedType

-----------------------------------------------------------------------------
(* What the commands leave.                                                *)

Statuses == {"success", "success_with_warnings", "failed"}

Files == 0 .. MaxVersion + 1

Lines == UNION {LinesOf(l) : l \in Laws}

CleanJob == [cmd : {"clean"}, todo : SUBSET Laws, write_txt : BOOLEAN, failed : BOOLEAN]

ParseJob == [cmd : {"parse"}, todo : SUBSET Laws, overwrite : BOOLEAN,
             results : UNION {[D -> Statuses] : D \in SUBSET Laws}]

ChunkJob == [cmd : {"chunk"}, todo : SUBSET Laws, all : BOOLEAN, lines : Seq(Lines),
             failed : BOOLEAN, written : BOOLEAN]

CorpusType ==
  /\ raw \in [Laws -> Versions]
  /\ norm \in [Laws -> Files] /\ txt \in [Laws -> Files] /\ hier \in [Laws -> Files]
  /\ job \in {Idle} \cup CleanJob \cup ParseJob \cup ChunkJob
  /\ quiet \in 0 .. 3

\* Where a stage has ended quietly, its files are of the text that was downloaded last,
\* but for laws that have failed in it again since.
StagesInv ==
  /\ quiet >= 1 => \A l \in Laws : norm[l] = raw[l] \/ (job.cmd = "clean" /\ job.failed)
  /\ job.cmd = "clean" /\ ~ job.failed => \A l \in Laws \ job.todo : norm[l] = raw[l]
  /\ quiet >= 2 => \A l \in Laws :
       \/ hier[l] = raw[l]
       \/ job.cmd = "parse" /\ l \in DOMAIN job.results /\ job.results[l] = "failed"
  /\ job.cmd = "parse" =>
       \A l \in DOMAIN job.results : job.results[l] # "failed" => hier[l] = norm[l]

\* the laws that come after the k-th
LawsAfter(k) == {LawOrder[i] : i \in k + 1 .. Len(LawOrder)}

\* A chunking of all laws has the rows of those it has gone through.
InStep == \E k \in 0 .. Len(LawOrder) : job.todo = LawsAfter(k) /\ job.lines = RowsUpTo(raw, k)

\* The chunk file is that of the last quiet chunking, or of a chunking at work.
ChunksInv ==
  /\ job.cmd = "chunk" /\ job.all /\ quiet >= 2 => InStep
  /\ job.cmd = "chunk" /\ ~ job.all => Laws # {}
  /\ job.cmd = "chunk" /\ job.written => job.todo = {} /\ jsonl = job.lines
  /\ quiet = 3 => jsonl = AllRows(raw) \/ (job.cmd = "chunk" /\ job.written /\ ~ job.all)

\* The job of a command is of its kind.
LEMMA JobKinds ==
    ASSUME CorpusType
    PROVE  /\ job.cmd = "clean" => job \in CleanJob
           /\ job.cmd = "parse" => job \in ParseJob
           /\ job.cmd = "chunk" => job \in ChunkJob
           /\ job # Idle => job.todo \in SUBSET Laws
  BY DEF CorpusType, Idle, CleanJob, ParseJob, ChunkJob

\* The order goes through every law.
LEMMA LawOrderIs ==
    /\ Len(LawOrder) \in Nat /\ DOMAIN LawOrder = 1 .. Len(LawOrder)
    /\ Laws = {LawOrder[i] : i \in DOMAIN LawOrder}
    /\ Laws = LawsAfter(0) /\ LawsAfter(Len(LawOrder)) = {}
<1>1. Len(LawOrder) \in Nat /\ DOMAIN LawOrder = 1 .. Len(LawOrder)
  BY LawsAssumption
<1>2. Laws = {LawOrder[i] : i \in DOMAIN LawOrder}
  BY DEF Laws, Range
<1> QED
  BY <1>1, <1>2 DEF LawsAfter

\* The law a command is at is the first it has not gone through.
LEMMA LawIsFirst ==
    ASSUME job.todo \in SUBSET Laws, job.todo # {}
    PROVE  \E i \in DOMAIN LawOrder :
             /\ Law = LawOrder[i] /\ Law \in job.todo
             /\ \A j \in DOMAIN LawOrder : LawOrder[j] \in job.todo => i <= j
<1> DEFINE T == {i \in DOMAIN LawOrder : LawOrder[i] \in job.todo}
<1>1. T \in SUBSET Nat /\ T # {}
  BY LawOrderIs
<1>2. PICK m \in T : \A k \in T : m <= k
  BY <1>1, LeastNumber
<1>3. Min(T) \in T /\ \A k \in T : Min(T) <= k
  BY <1>2 DEF Min
<1>4. Law = LawOrder[Min(T)]
  BY DEF Law
<1> HIDE DEF T
<1>5. Min(T) \in DOMAIN LawOrder /\ LawOrder[Min(T)] \in job.todo
      /\ \A j \in DOMAIN LawOrder : LawOrder[j] \in job.todo => Min(T) <= j
  BY <1>3 DEF T
<1> QED
  BY <1>4, <1>5

\* The law a command is at is one that it still has to go through.
LEMMA LawIsALaw ==
    ASSUME CorpusType, NEW cmd \in {"clean", "parse", "chunk"}, Working(cmd)
    PROVE  Law \in Laws /\ Law \in job.todo /\ raw[Law] \in Versions
<1>1. job.todo \in SUBSET Laws /\ job.todo # {}
  BY JobKinds DEF Working, Idle
<1>2. Law \in job.todo
  BY <1>1, LawIsFirst
<1> QED
  BY <1>1, <1>2 DEF CorpusType

\* Versions are told from what is not one.
LEMMA VersionsAre ==
    /\ Versions \subseteq Files /\ Versions \subseteq Nat \ {Absent}
    /\ Absent \in Files /\ Torn \in Files /\ Torn # Absent
    /\ Absent \notin Versions /\ Torn \notin Versions
    /\ \A v : Readable(v) <=> v \in Versions
  BY BoundsAssumption DEF Versions, Files, Absent, Torn, Readable

\* A law that parses has a status.
LEMMA ParseStatusIs ==
    ASSUME CorpusType, NEW l \in Laws, Readable(norm[l])
    PROVE  ParseStatus(l) \in Statuses
<1>1. Fate[l][norm[l]].parses \in Statuses
  BY FateAssumption DEF Readable, Statuses
<1> QED
  BY <1>1 DEF ParseStatus, Statuses

-----------------------------------------------------------------------------
(* Types.                                                                  *)

\* A law gets its status in the parsing report, and the others keep theirs.
LEMMA RecordedIs ==
    ASSUME CorpusType, Working("parse"), NEW st \in Statuses
    PROVE  /\ Recorded(st) \in ParseJob /\ Recorded(st).cmd = "parse"
           /\ DOMAIN Recorded(st).results = DOMAIN job.results \cup {Law}
           /\ Recorded(st).results[Law] = st
           /\ \A l \in DOMAIN job.results : l # Law => Recorded(st).results[l] = job.results[l]
<1>1. job \in ParseJob /\ Law \in Laws
  BY JobKinds, LawIsALaw DEF Working
<1> DEFINE D == DOMAIN job.results \cup {Law}
           results == [l \in D |-> IF l = Law THEN st ELSE job.results[l]]
<1>2. PICK d \in SUBSET Laws : job.results \in [d -> Statuses]
  BY <1>1 DEF ParseJob
<1>3. D \in SUBSET Laws /\ results \in [D -> Statuses]
  BY <1>1, <1>2
<1>4. results \in UNION {[d2 -> Statuses] : d2 \in SUBSET Laws}
  BY <1>3
<1>5. Recorded(st) = [job EXCEPT !.todo = Rest, !.results = results]
  BY DEF Recorded
<1>6. Rest \in SUBSET Laws
  BY <1>1 DEF Rest, ParseJob
<1>7. DOMAIN results = D /\ results[Law] = st
      /\ \A l \in DOMAIN job.results : l # Law => results[l] = job.results[l]
  OBVIOUS
<1> HIDE DEF results
<1>8. Recorded(st) \in ParseJob /\ Recorded(st).results = results
  BY <1>1, <1>4, <1>5, <1>6 DEF ParseJob
<1> QED
  BY <1>7, <1>8 DEF ParseJob

\* A write that fails or is cut off changes at most one file of one law.
FilesKept ==
  \/ UNCHANGED interim
  \/ /\ Working("clean") /\ norm' = [norm EXCEPT ![Law] = Torn]
     /\ UNCHANGED <<txt, hier>>
  \/ /\ Working("parse") /\ ~ Blocked(job.overwrite)
     /\ hier' = [hier EXCEPT ![Law] = Torn] /\ UNCHANGED <<norm, txt>>

\* A command that ends before its time.
LEMMA AbortKeeps ==
    ASSUME Abort
    PROVE  /\ FilesKept /\ job # Idle /\ job' = Idle /\ UNCHANGED raw
           /\ quiet' = CASE job.cmd = "clean" -> 0
                         [] job.cmd = "parse" -> IF quiet > 1 THEN 1 ELSE quiet
                         [] OTHER -> IF quiet > 2 THEN 2 ELSE quiet
  BY DEF Abort, FilesKept, interim, output, Writing

\* A command goes through laws that there are.
LEMMA BatchType ==
    ASSUME NEW found \in SUBSET Laws, NEW only \in {{}} \cup {{l} : l \in Laws}
    PROVE  Batch(found, only) \in SUBSET Laws
  BY DEF Batch

\* Every step keeps the types.
LEMMA CorpusTypeStep == CorpusType /\ [Next]_vars => CorpusType'
<1> SUFFICES ASSUME CorpusType, [Next]_vars PROVE CorpusType'
  OBVIOUS
<1>1. ASSUME NEW l \in Laws, Download(l) PROVE CorpusType'
  <2>1. raw[l] + 1 \in Versions
    BY <1>1, BoundsAssumption DEF CorpusType, Download, Versions
  <2> QED
    BY <1>1, <2>1 DEF CorpusType, Download, interim
<1>2. ASSUME NEW w \in BOOLEAN, StartCleaning(w) PROVE CorpusType'
  <2>1. job' \in CleanJob
    BY <1>2 DEF StartCleaning, Begin, CleanJob
  <2> QED
    BY <1>2, <2>1 DEF CorpusType, StartCleaning, interim
<1>3. ASSUME NEW o \in BOOLEAN, NEW only \in {{}} \cup {{l} : l \in Laws}, StartParsing(o, only)
      PROVE CorpusType'
  <2>1. Batch({l \in Laws : norm[l] # Absent}, only) \in SUBSET Laws
    BY BatchType
  <2>2. [l \in {} |-> ""] \in UNION {[D -> Statuses] : D \in SUBSET Laws}
    <3>1. [l \in {} |-> ""] \in [{} -> Statuses]
      OBVIOUS
    <3>2. {} \in SUBSET Laws
      OBVIOUS
    <3> QED
      BY <3>1, <3>2
  <2>3. job' \in ParseJob
    BY <1>3, <2>1, <2>2 DEF StartParsing, Begin, ParseJob
  <2> QED
    BY <1>3, <2>3 DEF CorpusType, StartParsing, interim
<1>4. ASSUME NEW o \in BOOLEAN, NEW only \in {{}} \cup {{l} : l \in Laws}, StartChunking(o, only)
      PROVE CorpusType'
  <2>1. Batch({l \in Laws : hier[l] # Absent}, only) \in SUBSET Laws
    BY BatchType
  <2>2. << >> \in Seq(Lines) /\ (only = {}) \in BOOLEAN
    OBVIOUS
  <2>3. job' \in ChunkJob
    BY <1>4, <2>1, <2>2 DEF StartChunking, Begin, ChunkJob
  <2> QED
    BY <1>4, <2>3 DEF CorpusType, StartChunking, interim
<1>5. CASE Clean
  <2>1. job \in CleanJob /\ Law \in Laws /\ raw[Law] \in Versions
    BY <1>5, JobKinds, LawIsALaw DEF Clean, Working
  <2>2. Fate[Law][raw[Law]].cleans \in BOOLEAN /\ raw[Law] \in Files
    BY <2>1, FateAssumption, VersionsAre
  <2>3. job' \in CleanJob
    BY <1>5, <2>1, <2>2 DEF Clean, CleanJob, Rest
  <2>4. norm' \in [Laws -> Files] /\ txt' \in [Laws -> Files]
    BY <1>5, <2>1, <2>2 DEF Clean, CorpusType
  <2> QED
    BY <1>5, <2>3, <2>4 DEF CorpusType, Clean
<1>6. CASE CleanWriteFails
  <2>1. job \in CleanJob /\ Law \in Laws /\ raw[Law] \in Files
    BY <1>6, JobKinds, LawIsALaw, VersionsAre DEF CleanWriteFails, Working
  <2>3. job' \in CleanJob
    BY <1>6, <2>1 DEF CleanWriteFails, CleanJob, Rest
  <2>4. norm' \in [Laws -> Files] /\ txt' \in [Laws -> Files]
    BY <1>6, <2>1, VersionsAre DEF CleanWriteFails, CorpusType
  <2> QED
    BY <1>6, <2>3, <2>4 DEF CorpusType, CleanWriteFails
<1>7. CASE FinishCleaning
  BY <1>7 DEF FinishCleaning, Quietly, CorpusType, interim
<1>8. CASE Parse
  <2>1. Law \in Laws
    BY <1>8, LawIsALaw DEF Parse
  <2>2. ~ Blocked(job.overwrite) => ParseStatus(Law) \in Statuses /\ norm[Law] \in Files
    BY <2>1, ParseStatusIs DEF Blocked, CorpusType
  <2>3. job' \in ParseJob
    <3>1. "failed" \in Statuses
      BY DEF Statuses
    <3> QED
      BY <1>8, <2>2, <3>1, RecordedIs DEF Parse
  <2>4. hier' \in [Laws -> Files]
    BY <1>8, <2>1, <2>2 DEF Parse, CorpusType
  <2> QED
    BY <1>8, <2>3, <2>4 DEF CorpusType, Parse
<1>9. CASE ParseWriteFails
  <2>1. Law \in Laws
    BY <1>9, LawIsALaw DEF ParseWriteFails
  <2>2. "failed" \in Statuses
    BY DEF Statuses
  <2>3. job' \in ParseJob
    BY <1>9, <2>2, RecordedIs DEF ParseWriteFails
  <2>4. hier' \in [Laws -> Files]
    BY <1>9, <2>1, VersionsAre DEF ParseWriteFails, CorpusType
  <2> QED
    BY <1>9, <2>3, <2>4 DEF CorpusType, ParseWriteFails
<1>10. CASE FinishParsing
  BY <1>10 DEF FinishParsing, Quietly, CorpusType, interim
<1>11. CASE Chunk
  <2>1. job \in ChunkJob /\ Law \in Laws
    BY <1>11, JobKinds, LawIsALaw DEF Chunk, Working
  <2>2. ASSUME Readable(hier[Law])
        PROVE  job.lines \o RowsOf(Law, hier[Law]) \in Seq(Lines)
    <3>1. RowsOf(Law, hier[Law]) \in Seq(LinesOf(Law))
      BY <2>1, <2>2, RowsOfType DEF Readable
    <3>2. LinesOf(Law) \subseteq Lines
      BY <2>1 DEF Lines
    <3>3. RowsOf(Law, hier[Law]) \in Seq(Lines) /\ job.lines \in Seq(Lines)
      BY <2>1, <3>1, <3>2 DEF ChunkJob
    <3> QED
      BY <3>3
  <2>3. job' \in ChunkJob
    BY <1>11, <2>1, <2>2 DEF Chunk, ChunkJob, Rest
  <2> QED
    BY <1>11, <2>3 DEF CorpusType, Chunk, interim
<1>12. CASE WriteChunks
  <2>1. job \in ChunkJob
    BY <1>12, JobKinds DEF WriteChunks, Writing
  <2>2. job' \in ChunkJob
    BY <1>12, <2>1 DEF WriteChunks, ChunkJob
  <2> QED
    BY <1>12, <2>2 DEF CorpusType, WriteChunks, interim
<1>13. CASE WriteReport
  BY <1>13 DEF WriteReport, Quietly, CorpusType, interim
<1>14. CASE Abort
  <2>1. FilesKept => norm' \in [Laws -> Files] /\ txt' \in [Laws -> Files] /\ hier' \in [Laws -> Files]
    BY LawIsALaw, VersionsAre DEF FilesKept, CorpusType, interim
  <2>2. quiet' \in 0 .. 3
    BY <1>14, AbortKeeps DEF CorpusType
  <2> QED
    BY <1>14, <2>1, <2>2, AbortKeeps DEF CorpusType
<1>15. CASE UNCHANGED vars
  BY <1>15 DEF vars, CorpusType
<1> QED
  BY <1>1, <1>2, <1>3, <1>4, <1>5, <1>6, <1>7, <1>8, <1>9, <1>10, <1>11, <1>12, <1>13, <1>14,
     <1>15 DEF Next

-----------------------------------------------------------------------------
(* A quiet pass.                                                           *)

\* Every step keeps the files of quiet stages current.
LEMMA StagesStep == CorpusType /\ StagesInv /\ [Next]_vars => StagesInv'
<1> SUFFICES ASSUME CorpusType, StagesInv, [Next]_vars PROVE StagesInv'
  OBVIOUS
<1> USE DEF Idle
<1>1. ASSUME NEW l \in Laws, Download(l) PROVE StagesInv'
  <2>1. quiet' = 0 /\ job' = job /\ job.cmd = "none"
    BY <1>1 DEF Download
  <2> QED
    BY <2>1 DEF StagesInv
<1>2. ASSUME NEW w \in BOOLEAN, StartCleaning(w) PROVE StagesInv'
  <2>1. /\ job'.cmd = "clean" /\ job'.todo = Laws /\ job.cmd = "none"
        /\ UNCHANGED <<raw, norm, hier, quiet>>
    BY <1>2 DEF StartCleaning, Begin, interim
  <2> QED
    BY <2>1 DEF StagesInv
<1>3. ASSUME NEW o, NEW only, StartParsing(o, only) PROVE StagesInv'
  <2>1. /\ job'.cmd = "parse" /\ DOMAIN job'.results = {} /\ job.cmd = "none"
        /\ UNCHANGED <<raw, norm, hier, quiet>>
    BY <1>3 DEF StartParsing, Begin, interim
  <2> QED
    BY <2>1 DEF StagesInv
<1>4. ASSUME NEW o, NEW only, StartChunking(o, only) PROVE StagesInv'
  <2>1. /\ job'.cmd = "chunk" /\ job.cmd = "none"
        /\ UNCHANGED <<raw, norm, hier, quiet>>
    BY <1>4 DEF StartChunking, Begin, interim
  <2> QED
    BY <2>1 DEF StagesInv
<1>5. CASE Clean
  <2>1. job \in CleanJob /\ job.cmd = "clean" /\ Law \in Laws
    BY <1>5, JobKinds, LawIsALaw DEF Clean, Working
  <2> DEFINE good == Fate[Law][raw[Law]].cleans
  <2>2. /\ job'.cmd = "clean" /\ job'.todo = job.todo \ {Law}
        /\ job'.failed = (job.failed \/ ~ good)
        /\ norm' = IF good THEN [norm EXCEPT ![Law] = raw[Law]] ELSE norm
        /\ UNCHANGED <<raw, hier, quiet>>
    BY <1>5, <2>1 DEF Clean, CleanJob, Rest
  <2> HIDE DEF good
  <2>3. good => norm'[Law] = raw[Law]
    BY <2>1, <2>2 DEF CorpusType
  <2>4. \A l \in Laws : norm'[l] = norm[l] \/ norm'[l] = raw[l]
    BY <2>1, <2>2 DEF CorpusType
  <2>5. ~ job'.failed => ~ job.failed /\ good
    BY <2>2
  <2>6. quiet' >= 1 => \A l \in Laws : norm'[l] = raw'[l] \/ (job'.cmd = "clean" /\ job'.failed)
    BY <2>1, <2>2, <2>4, <2>5 DEF StagesInv
  <2>7. ~ job'.failed => \A l \in Laws \ job'.todo : norm'[l] = raw'[l]
    BY <2>1, <2>2, <2>3, <2>4, <2>5 DEF StagesInv
  <2> QED
    BY <2>1, <2>2, <2>6, <2>7 DEF StagesInv
<1>6. CASE CleanWriteFails
  <2>1. job \in CleanJob /\ job.cmd = "clean"
    BY <1>6, JobKinds DEF CleanWriteFails, Working
  <2>2. job'.cmd = "clean" /\ job'.failed /\ UNCHANGED <<raw, hier, quiet>>
    BY <1>6, <2>1 DEF CleanWriteFails, CleanJob
  <2> QED
    BY <2>1, <2>2 DEF StagesInv
<1>7. CASE FinishCleaning
  <2>1. job.cmd = "clean" /\ job.todo = {} /\ job'.cmd = "none"
        /\ UNCHANGED <<raw, norm, hier>> /\ Quietly(1, job.failed)
    BY <1>7 DEF FinishCleaning, interim
  <2>2. job.failed => quiet' = 0
    BY <2>1 DEF Quietly, CorpusType
  <2>3. ~ job.failed => quiet' = 1 /\ \A l \in Laws : norm[l] = raw[l]
    BY <2>1 DEF Quietly, CorpusType, StagesInv
  <2> QED
    BY <2>1, <2>2, <2>3 DEF StagesInv
<1>8. ASSUME Working("parse"), NEW st \in Statuses, job' = Recorded(st),
             UNCHANGED <<raw, norm, quiet>>,
             \A l \in Laws : l # Law => hier'[l] = hier[l],
             st # "failed" => hier'[Law] = norm[Law]
      PROVE  StagesInv'
  <2>1. job.cmd = "parse" /\ job \in ParseJob /\ Law \in Laws
    BY <1>8, JobKinds, LawIsALaw DEF Working
  <2>2. /\ job'.cmd = "parse" /\ DOMAIN job'.results = DOMAIN job.results \cup {Law}
        /\ job'.results[Law] = st
        /\ \A l \in DOMAIN job.results : l # Law => job'.results[l] = job.results[l]
    BY <1>8, RecordedIs
  <2>3. DOMAIN job.results \subseteq Laws
    BY <2>1 DEF ParseJob
  <2>4. \A l \in DOMAIN job'.results : job'.results[l] # "failed" => hier'[l] = norm'[l]
    BY <1>8, <2>1, <2>2, <2>3 DEF StagesInv
  <2>5. quiet >= 1 => \A l \in Laws : norm[l] = raw[l]
    BY <2>1 DEF StagesInv
  <2>6. ASSUME quiet' >= 2, NEW l \in Laws
        PROVE  hier'[l] = raw'[l] \/ (l \in DOMAIN job'.results /\ job'.results[l] = "failed")
    <3>1. CASE l = Law
      BY <1>8, <2>2, <2>5, <2>6, <3>1 DEF CorpusType
    <3>2. CASE l # Law
      BY <1>8, <2>1, <2>2, <2>6, <3>2 DEF StagesInv
    <3> QED
      BY <3>1, <3>2
  <2> QED
    BY <1>8, <2>1, <2>2, <2>4, <2>5, <2>6 DEF StagesInv
<1>9. CASE Parse
  <2>1. Law \in Laws /\ "failed" \in Statuses
    BY <1>9, LawIsALaw DEF Parse, Statuses
  <2>2. CASE Blocked(job.overwrite) /\ job' = Recorded("failed") /\ UNCHANGED hier
    BY <1>8, <1>9, <2>1, <2>2 DEF Parse
  <2>3. CASE /\ ~ Blocked(job.overwrite)
             /\ job' = Recorded(ParseStatus(Law))
             /\ hier' = IF ParseStatus(Law) = "failed" THEN hier
                        ELSE [hier EXCEPT ![Law] = norm[Law]]
    <3>1. ParseStatus(Law) \in Statuses
      BY <2>1, <2>3, ParseStatusIs DEF Blocked
    <3>2. ParseStatus(Law) # "failed" => hier'[Law] = norm[Law]
      BY <2>1, <2>3 DEF CorpusType
    <3>3. \A l \in Laws : l # Law => hier'[l] = hier[l]
      BY <2>1, <2>3 DEF CorpusType
    <3> QED
      BY <1>8, <1>9, <2>3, <3>1, <3>2, <3>3 DEF Parse
  <2> QED
    BY <1>9, <2>2, <2>3 DEF Parse
<1>10. CASE ParseWriteFails
  <2>1. Law \in Laws /\ "failed" \in Statuses
    BY <1>10, LawIsALaw DEF ParseWriteFails, Statuses
  <2>2. \A l \in Laws : l # Law => hier'[l] = hier[l]
    BY <1>10 DEF ParseWriteFails, CorpusType
  <2> QED
    BY <1>8, <1>10, <2>1, <2>2 DEF ParseWriteFails
<1>11. CASE FinishParsing
  <2>1. job.cmd = "parse" /\ job'.cmd = "none" /\ UNCHANGED <<raw, norm, hier>>
    BY <1>11 DEF FinishParsing, interim
  <2> DEFINE bad == \/ "failed" \in Range(job.results)
                    \/ \E l \in Laws : norm[l] # Absent /\ l \notin DOMAIN job.results
  <2>2. Quietly(2, bad)
    BY <1>11 DEF FinishParsing
  <2>3. ASSUME ~ bad, quiet' >= 2 PROVE \A l \in Laws : hier[l] = raw[l]
    <3>1. quiet >= 1
      BY <2>2, <2>3 DEF Quietly, CorpusType
    <3>2. \A l \in Laws : norm[l] = raw[l] /\ norm[l] # Absent
      BY <2>1, <3>1, VersionsAre DEF StagesInv, CorpusType
    <3>3. \A l \in Laws : l \in DOMAIN job.results /\ job.results[l] # "failed"
      BY <2>3, <3>2 DEF Range
    <3> QED
      BY <2>1, <3>2, <3>3 DEF StagesInv
  <2>4. quiet' >= 2 => ~ bad
    <3> HIDE DEF bad
    <3> QED
      BY <2>2 DEF Quietly, CorpusType
  <2>5. quiet' >= 1 => quiet >= 1
    <3> HIDE DEF bad
    <3> QED
      BY <2>2 DEF Quietly, CorpusType
  <2> HIDE DEF bad
  <2> QED
    BY <2>1, <2>3, <2>4, <2>5 DEF StagesInv
<1>12. CASE Chunk \/ WriteChunks
  <2>1. job.cmd = "chunk" /\ job'.cmd = "chunk" /\ UNCHANGED <<raw, norm, hier, quiet>>
    <3>1. job \in ChunkJob
      BY <1>12, JobKinds DEF Chunk, WriteChunks, Working, Writing
    <3> QED
      BY <1>12, <3>1 DEF Chunk, WriteChunks, Working, Writing, interim, ChunkJob
  <2> QED
    BY <2>1 DEF StagesInv
<1>13. CASE WriteReport
  <2> DEFINE bad == job.failed \/ \E l \in Laws : ~ job.all /\ hier[l] # Absent
  <2>1. job.cmd = "chunk" /\ job'.cmd = "none" /\ UNCHANGED <<raw, norm, hier>>
        /\ Quietly(3, bad)
    BY <1>13 DEF WriteReport, Writing, interim
  <2> HIDE DEF bad
  <2>2. (quiet' >= 1 => quiet >= 1) /\ (quiet' >= 2 => quiet >= 2)
    BY <2>1 DEF Quietly, CorpusType
  <2> QED
    BY <2>1, <2>2 DEF StagesInv
<1>14. CASE Abort
  <2>1. FilesKept /\ job' = Idle /\ UNCHANGED raw
        /\ quiet' = CASE job.cmd = "clean" -> 0
                      [] job.cmd = "parse" -> IF quiet > 1 THEN 1 ELSE quiet
                      [] OTHER -> IF quiet > 2 THEN 2 ELSE quiet
    BY <1>14, AbortKeeps
  <2>2. CASE job.cmd = "clean"
    BY <2>1, <2>2 DEF StagesInv
  <2>3. CASE job.cmd = "parse"
    <3>1. quiet' <= 1 /\ (quiet' >= 1 => quiet >= 1) /\ norm' = norm
      BY <2>1, <2>3 DEF CorpusType, FilesKept, Working, interim
    <3> QED
      BY <2>1, <2>3, <3>1 DEF StagesInv, CorpusType
  <2>4. CASE job.cmd \notin {"clean", "parse"}
    <3>1. quiet' <= quiet /\ norm' = norm /\ hier' = hier /\ quiet' \in Nat
      BY <2>1, <2>4 DEF CorpusType, FilesKept, Working, interim
    <3> QED
      BY <2>1, <2>4, <3>1 DEF StagesInv, CorpusType
  <2> QED
    BY <2>2, <2>3, <2>4
<1>15. CASE UNCHANGED vars
  BY <1>15 DEF vars, StagesInv
<1> QED
  BY <1>1, <1>2, <1>3, <1>4, <1>5, <1>6, <1>7, <1>9, <1>10, <1>11, <1>12, <1>13, <1>14, <1>15
     DEF Next

\* So are the rows of a law whose file cannot be read: there are none.
LEMMA RowsInType ==
    ASSUME NEW source, NEW l \in Laws
    PROVE  RowsIn(source, l) \in Seq(LinesOf(l)) /\ RowsIn(source, l) \in Seq(Lines)
<1>1. RowsIn(source, l) \in Seq(LinesOf(l))
  BY RowsOfType DEF RowsIn, Readable
<1>2. LinesOf(l) \subseteq Lines
  BY DEF Lines
<1> QED
  BY <1>1, <1>2

\* The rows of the first laws, spelt out.
LEMMA RowsUpToDef ==
    ASSUME NEW source
    PROVE  /\ RowsUpTo(source, 0) = << >>
           /\ \A n \in 1 .. Len(LawOrder) :
                RowsUpTo(source, n) = RowsUpTo(source, n - 1) \o RowsIn(source, LawOrder[n])
           /\ \A n \in 0 .. Len(LawOrder) : RowsUpTo(source, n) \in Seq(Lines)
<1> DEFINE parts == [i \in DOMAIN LawOrder |-> RowsIn(source, LawOrder[i])]
<1>1. Len(LawOrder) \in Nat /\ DOMAIN LawOrder = 1 .. Len(LawOrder)
  BY LawOrderIs
<1>2. \A i \in DOMAIN LawOrder : LawOrder[i] \in Laws
  BY LawOrderIs
<1>3. parts \in Seq(Seq(Lines)) /\ Len(parts) = Len(LawOrder)
  BY <1>1, <1>2, RowsInType
<1>4. \A n : RowsUpTo(source, n) = Joined(parts, n)
  BY DEF RowsUpTo
<1>5. \A n \in DOMAIN LawOrder : parts[n] = RowsIn(source, LawOrder[n])
  OBVIOUS
<1> HIDE DEF parts
<1>6. RowsUpTo(source, 0) = << >>
  BY <1>3, <1>4, JoinedDef
<1>7. ASSUME NEW n \in 1 .. Len(LawOrder)
      PROVE  RowsUpTo(source, n) = RowsUpTo(source, n - 1) \o RowsIn(source, LawOrder[n])
  <2>1. Joined(parts, n) = Joined(parts, n - 1) \o parts[n]
    <3>1. \A k \in 1 .. Len(parts) : Joined(parts, k) = Joined(parts, k - 1) \o parts[k]
      BY <1>3, JoinedDef
    <3> QED
      BY <1>3, <3>1, Zenon
  <2>2. parts[n] = RowsIn(source, LawOrder[n])
    BY <1>1, <1>5
  <2> QED
    BY <1>4, <2>1, <2>2
<1>8. \A n \in 0 .. Len(LawOrder) : RowsUpTo(source, n) \in Seq(Lines)
  BY <1>3, <1>4, JoinedType
<1> QED
  BY <1>6, <1>7, <1>8

\* The first law of those after the k-th is the next one.
LEMMA NextLaw ==
    ASSUME NEW k \in 0 .. Len(LawOrder), job.todo = LawsAfter(k), job.todo # {}
    PROVE  /\ k + 1 \in 1 .. Len(LawOrder) /\ k + 1 \in 0 .. Len(LawOrder)
           /\ Law = LawOrder[k + 1]
           /\ Rest = LawsAfter(k + 1)
<1>1. Len(LawOrder) \in Nat /\ DOMAIN LawOrder = 1 .. Len(LawOrder)
      /\ \A i, j \in DOMAIN LawOrder : LawOrder[i] = LawOrder[j] => i = j
  BY LawOrderIs, LawsAssumption
<1>2. k + 1 \in 1 .. Len(LawOrder) /\ k + 1 \in 0 .. Len(LawOrder)
  BY <1>1 DEF LawsAfter
<1>3. job.todo \in SUBSET Laws
  BY <1>1, LawOrderIs DEF LawsAfter
<1>4. PICK i \in DOMAIN LawOrder :
         /\ Law = LawOrder[i] /\ Law \in job.todo
         /\ \A j \in DOMAIN LawOrder : LawOrder[j] \in job.todo => i <= j
  BY <1>3, LawIsFirst
<1>5. LawOrder[k + 1] \in LawsAfter(k)
  BY <1>1, <1>2 DEF LawsAfter
<1>6. i <= k + 1
  BY <1>1, <1>2, <1>4, <1>5
<1>7. i >= k + 1
  <2>1. PICK j \in k + 1 .. Len(LawOrder) : LawOrder[i] = LawOrder[j]
    BY <1>4 DEF LawsAfter
  <2> QED
    BY <1>1, <1>4, <2>1
<1>8. Law = LawOrder[k + 1]
  BY <1>1, <1>4, <1>6, <1>7
<1>9. LawsAfter(k) \ {LawOrder[k + 1]} = LawsAfter(k + 1)
  <2>1. LawsAfter(k + 1) \subseteq LawsAfter(k) \ {LawOrder[k + 1]}
    BY <1>1, <1>2 DEF LawsAfter
  <2>2. LawsAfter(k) \ {LawOrder[k + 1]} \subseteq LawsAfter(k + 1)
    BY <1>1, <1>2 DEF LawsAfter
  <2> QED
    BY <2>1, <2>2
<1> QED
  BY <1>2, <1>8, <1>9 DEF Rest

\* When no law is left, the last has been gone through.
LEMMA AllGoneThrough ==
    ASSUME NEW k \in 0 .. Len(LawOrder), LawsAfter(k) = {}
    PROVE  k = Len(LawOrder)
<1>1. Len(LawOrder) \in Nat
  BY LawOrderIs
<1>2. \A i \in k + 1 .. Len(LawOrder) : LawOrder[i] \in LawsAfter(k)
  BY DEF LawsAfter
<1>3. k + 1 .. Len(LawOrder) = {}
  BY <1>2
<1> QED
  BY <1>1, <1>3

\* Every step keeps the chunk file that of a quiet pass.
LEMMA ChunksStep == CorpusType /\ StagesInv /\ ChunksInv /\ [Next]_vars => ChunksInv'
<1> SUFFICES ASSUME CorpusType, StagesInv, ChunksInv, [Next]_vars PROVE ChunksInv'
  OBVIOUS
<1> USE DEF Idle
\* the commands and steps that are not of the chunker: the chunk file stays as it is
<1>a. ASSUME job.cmd # "chunk", job'.cmd # "chunk", quiet' = 3 => quiet = 3 /\ raw' = raw,
             jsonl' = jsonl
      PROVE  ChunksInv'
  BY <1>a DEF ChunksInv, AllRows, RowsUpTo
<1>1. ASSUME NEW l \in Laws, Download(l) PROVE ChunksInv'
  BY <1>1, <1>a DEF Download, output
<1>2. ASSUME NEW w \in BOOLEAN, StartCleaning(w) PROVE ChunksInv'
  BY <1>2, <1>a DEF StartCleaning, Begin, output
<1>3. ASSUME NEW o, NEW only, StartParsing(o, only) PROVE ChunksInv'
  BY <1>3, <1>a DEF StartParsing, Begin, output
<1>4. ASSUME NEW o, NEW only \in {{}} \cup {{l} : l \in Laws}, StartChunking(o, only)
      PROVE ChunksInv'
  <2>1. /\ job.cmd = "none" /\ UNCHANGED <<raw, hier, jsonl, quiet>>
        /\ job'.cmd = "chunk" /\ job'.todo = Batch({l \in Laws : hier[l] # Absent}, only)
        /\ job'.all = (only = {}) /\ job'.lines = << >> /\ ~ job'.written
    BY <1>4 DEF StartChunking, Begin, interim, output
  <2>2. ASSUME job'.all, quiet' >= 2 PROVE InStep'
    <3>1. \A l \in Laws : hier[l] = raw[l] /\ hier[l] # Absent
      BY <2>1, <2>2, VersionsAre DEF StagesInv, CorpusType
    <3>2. job'.todo = Laws
      BY <2>1, <2>2, <3>1 DEF Batch
    <3>3. job'.todo = LawsAfter(0) /\ 0 \in 0 .. Len(LawOrder)
      BY <3>2, LawOrderIs
    <3>4. job'.lines = RowsUpTo(raw', 0)
      BY <2>1, RowsUpToDef
    <3> QED
      BY <3>3, <3>4 DEF InStep
  <2>3. ~ job'.all => Laws # {}
    BY <2>1
  <2>4. quiet' = 3 => jsonl' = AllRows(raw')
    BY <2>1 DEF ChunksInv
  <2> QED
    BY <2>1, <2>2, <2>3, <2>4 DEF ChunksInv
<1>5. CASE Clean \/ CleanWriteFails
  <2>1. job.cmd = "clean" /\ job \in CleanJob
    BY <1>5, JobKinds DEF Clean, CleanWriteFails, Working
  <2>2. job'.cmd = "clean" /\ UNCHANGED <<raw, jsonl, quiet>>
    BY <1>5, <2>1 DEF Clean, CleanWriteFails, output, CleanJob
  <2> QED
    BY <2>1, <2>2, <1>a
<1>6. CASE FinishCleaning
  <2>1. quiet' # 3
    BY <1>6 DEF FinishCleaning, Quietly, CorpusType
  <2> QED
    BY <1>6, <2>1, <1>a DEF FinishCleaning, output
<1>7. CASE Parse \/ ParseWriteFails
  <2>1. job.cmd = "parse" /\ job'.cmd = "parse"
    <3>1. Working("parse") /\ Law \in Laws /\ "failed" \in Statuses
      BY <1>7, LawIsALaw DEF Parse, ParseWriteFails, Statuses
    <3>2. \E st \in Statuses : job' = Recorded(st)
      BY <1>7, <3>1, ParseStatusIs DEF Parse, ParseWriteFails, Blocked
    <3> QED
      BY <3>1, <3>2, RecordedIs DEF Working
  <2>2. UNCHANGED <<raw, jsonl, quiet>>
    BY <1>7 DEF Parse, ParseWriteFails, output
  <2> QED
    BY <2>1, <2>2, <1>a
<1>8. CASE FinishParsing
  <2> DEFINE bad == \/ "failed" \in Range(job.results)
                    \/ \E l \in Laws : norm[l] # Absent /\ l \notin DOMAIN job.results
  <2>1. Quietly(2, bad)
    BY <1>8 DEF FinishParsing
  <2> HIDE DEF bad
  <2>2. quiet' # 3
    BY <2>1 DEF Quietly, CorpusType
  <2> QED
    BY <1>8, <2>2, <1>a DEF FinishParsing, output
<1>9. CASE Chunk
  <2>1. job \in ChunkJob /\ job.cmd = "chunk" /\ job.todo # {} /\ Law \in Laws
    BY <1>9, JobKinds, LawIsALaw DEF Chunk, Working
  <2>2. /\ job'.cmd = "chunk" /\ job'.all = job.all /\ job'.written = job.written
        /\ job'.todo = Rest
        /\ job'.lines = IF Readable(hier[Law]) THEN job.lines \o RowsOf(Law, hier[Law]) ELSE job.lines
        /\ UNCHANGED <<raw, jsonl, quiet>>
    BY <1>9, <2>1 DEF Chunk, ChunkJob, output
  <2>3. ~ job.written
    BY <2>1 DEF ChunksInv, ChunkJob
  <2>4. ASSUME job.all, quiet >= 2 PROVE InStep'
    <3>1. PICK k \in 0 .. Len(LawOrder) : job.todo = LawsAfter(k) /\ job.lines = RowsUpTo(raw, k)
      BY <2>1, <2>4 DEF ChunksInv, InStep
    <3>2. /\ k + 1 \in 1 .. Len(LawOrder) /\ k + 1 \in 0 .. Len(LawOrder)
          /\ Law = LawOrder[k + 1] /\ Rest = LawsAfter(k + 1)
      BY <2>1, <3>1, NextLaw
    <3>3. hier[Law] = raw[Law] /\ Readable(hier[Law])
      BY <2>1, <2>4, VersionsAre DEF StagesInv, CorpusType
    <3>4. job'.lines = RowsUpTo(raw, k) \o RowsIn(raw, LawOrder[k + 1])
      BY <2>2, <3>1, <3>2, <3>3 DEF RowsIn
    <3>5. RowsUpTo(raw, k + 1) = RowsUpTo(raw, k) \o RowsIn(raw, LawOrder[k + 1])
      <4>1. (k + 1) - 1 = k
        BY LawOrderIs
      <4> QED
        BY <3>2, <4>1, RowsUpToDef
    <3> QED
      BY <2>2, <3>2, <3>4, <3>5 DEF InStep
  <2> QED
    BY <2>1, <2>2, <2>3, <2>4 DEF ChunksInv
<1>10. CASE WriteChunks
  <2>1. job \in ChunkJob /\ job.cmd = "chunk" /\ job.todo = {}
    BY <1>10, JobKinds DEF WriteChunks, Writing
  <2>2. /\ job' = [job EXCEPT !.written = TRUE] /\ jsonl' = job.lines /\ UNCHANGED <<raw, quiet>>
    BY <1>10 DEF WriteChunks
  <2>3. job'.cmd = "chunk" /\ job'.all = job.all /\ job'.todo = {} /\ job'.lines = job.lines
    BY <2>1, <2>2 DEF ChunkJob
  <2>4. ASSUME job.all, quiet >= 2 PROVE InStep' /\ job.lines = AllRows(raw)
    <3>1. PICK k \in 0 .. Len(LawOrder) : job.todo = LawsAfter(k) /\ job.lines = RowsUpTo(raw, k)
      BY <2>1, <2>4 DEF ChunksInv, InStep
    <3>2. k = Len(LawOrder)
      BY <2>1, <3>1, AllGoneThrough
    <3> QED
      BY <2>1, <2>2, <2>3, <3>1, <3>2 DEF InStep, AllRows
  <2>5. job'.written
    BY <2>1, <2>2 DEF ChunkJob
  <2> QED
    BY <2>1, <2>2, <2>3, <2>4, <2>5 DEF ChunksInv
<1>11. CASE WriteReport
  <2> DEFINE bad == job.failed \/ \E l \in Laws : ~ job.all /\ hier[l] # Absent
  <2>1. /\ job \in ChunkJob /\ job.cmd = "chunk" /\ job.todo = {} /\ job.written
        /\ job'.cmd = "none" /\ UNCHANGED <<raw, hier, jsonl>> /\ Quietly(3, bad)
    BY <1>11, JobKinds DEF WriteReport, Writing, interim
  <2>2. ASSUME quiet' = 3 PROVE jsonl = AllRows(raw)
    <3>1. ~ bad /\ quiet >= 2
      <4> HIDE DEF bad
      <4> QED
        BY <2>1, <2>2 DEF Quietly, CorpusType
    <3>2. \A l \in Laws : hier[l] # Absent
      BY <2>1, <3>1, VersionsAre DEF StagesInv, CorpusType
    <3>3. job.all
      BY <2>1, <3>1, <3>2 DEF ChunksInv
    <3>4. PICK k \in 0 .. Len(LawOrder) : job.todo = LawsAfter(k) /\ job.lines = RowsUpTo(raw, k)
      BY <2>1, <3>1, <3>3 DEF ChunksInv, InStep
    <3>5. k = Len(LawOrder)
      BY <2>1, <3>4, AllGoneThrough
    <3> QED
      BY <2>1, <3>4, <3>5 DEF ChunksInv, AllRows
  <2> QED
    BY <2>1, <2>2 DEF ChunksInv
<1>12. CASE Abort
  <2>1. /\ job' = Idle /\ UNCHANGED raw
        /\ quiet' = CASE job.cmd = "clean" -> 0
                      [] job.cmd = "parse" -> IF quiet > 1 THEN 1 ELSE quiet
                      [] OTHER -> IF quiet > 2 THEN 2 ELSE quiet
    BY <1>12, AbortKeeps
  <2>2. quiet' # 3
    BY <2>1 DEF CorpusType
  <2> QED
    BY <2>1, <2>2 DEF ChunksInv
<1>13. CASE UNCHANGED vars
  BY <1>13 DEF vars, ChunksInv, InStep, AllRows, RowsUpTo
<1> QED
  BY <1>1, <1>2, <1>3, <1>4, <1>5, <1>6, <1>7, <1>8, <1>9, <1>10, <1>11, <1>12, <1>13 DEF Next

\* What the first version of a law was made into.
LEMMA BuiltIs ==
    ASSUME NEW l \in Laws
    PROVE  Built(l) \in {Absent, 1} /\ Built(l) \in Files /\ 1 \in Versions
  BY BoundsAssumption DEF Built, Files, Absent, Versions

\* A checkout without files, with those of the first texts, or with a foreign chunk file.
LEMMA CorpusInit == Init => CorpusType /\ StagesInv /\ ChunksInv
<1> SUFFICES ASSUME Init PROVE CorpusType /\ StagesInv /\ ChunksInv
  OBVIOUS
<1> USE DEF Idle
<1>1. job.cmd = "none" /\ raw \in [Laws -> Versions] /\ \A l \in Laws : raw[l] = 1
  BY BoundsAssumption DEF Init, Versions
<1>2. CASE norm = [l \in Laws |-> Absent] /\ txt = norm /\ hier = norm /\ quiet = 0
  <2>1. norm \in [Laws -> Files]
    BY <1>2, VersionsAre
  <2> QED
    BY <1>1, <1>2, <2>1 DEF Init, CorpusType, StagesInv, ChunksInv
<1>3. CASE /\ norm = [l \in Laws |-> Built(l)] /\ txt = norm /\ hier = norm
           /\ quiet = 3 => (\A l \in Laws : Built(l) = 1) /\ jsonl = AllRows(norm)
           /\ quiet \in {0, 3}
  <2>1. norm \in [Laws -> Files]
    BY <1>3, BuiltIs
  <2>2. quiet = 3 => norm = raw
    BY <1>3 DEF Init
  <2> QED
    BY <1>1, <1>3, <2>1, <2>2 DEF Init, CorpusType, StagesInv, ChunksInv
<1> QED
  BY <1>2, <1>3 DEF Init

\* What a command is at work on and what it has left are of the kinds the code keeps.
THEOREM CorpusTypeAlways == Spec => []CorpusType
<1>1. Init => CorpusType
  BY CorpusInit
<1> QED
  BY <1>1, CorpusTypeStep, PTL DEF Spec

\* The stages work on each other's files, killed or told to go through some laws
\* only at any point (clean, parse and chunk commands): when all three have ended
\* quietly since the last download, the chunk file is that of the downloaded texts.
THEOREM QuietPassIsCurrentAlways == Spec => []QuietPassIsCurrent
<1>1. Init => CorpusType /\ StagesInv /\ ChunksInv
  BY CorpusInit
<1>2. CorpusType /\ StagesInv /\ ChunksInv /\ [Next]_vars => (CorpusType /\ StagesInv /\ ChunksInv)'
  BY CorpusTypeStep, StagesStep, ChunksStep
<1>3. ChunksInv => QuietPassIsCurrent
  BY DEF ChunksInv, QuietPassIsCurrent, Idle
<1> QED
  BY <1>1, <1>2, <1>3, PTL DEF Spec

-----------------------------------------------------------------------------
(* One version of each law.                                                *)

\* The rows of law l in these lines are all those of version v, after the first d lines.
BlockAt(lines, l, v, d) ==
  /\ RowsAt(lines, l) = d + 1 .. d + Len(RowsOf(l, v))
  /\ \A i \in 1 .. Len(RowsOf(l, v)) : lines[d + i] = RowsOf(l, v)[i]

\* All rows of one version of the law, or none.
WholeIn(lines, l) ==
  RowsAt(lines, l) = {} \/ \E v \in Versions, d \in Nat : BlockAt(lines, l, v, d)

\* The lines are rows of laws that have been gone through, each law whole.
Tidy(lines, todo) ==
  /\ lines \in Seq(Lines)
  /\ \A i \in 1 .. Len(lines) : lines[i].line = "row" /\ lines[i].row.law_id \in Laws \ todo
  /\ \A l \in Laws : WholeIn(lines, l)

\* Without lines there is nothing untidy.
LEMMA TidyAtFirst ==
    ASSUME NEW todo
    PROVE  Tidy(<< >>, todo)
<1>1. << >> \in Seq(Lines) /\ DOMAIN << >> = {} /\ 1 .. Len(<< >>) = {}
  OBVIOUS
<1>2. \A l : RowsAt(<< >>, l) = {}
  BY <1>1 DEF RowsAt
<1> QED
  BY <1>1, <1>2 DEF Tidy, WholeIn

\* The rows of a law that has not been gone through are added.
LEMMA TidyGrows ==
    ASSUME NEW lines, NEW todo \in SUBSET Laws, Tidy(lines, todo),
           NEW l \in todo, NEW v \in Versions
    PROVE  Tidy(lines \o RowsOf(l, v), todo \ {l})
<1> DEFINE rows == RowsOf(l, v)
           new == lines \o rows
<1>1. rows \in Seq(LinesOf(l)) /\ rows \in Seq(Lines) /\ lines \in Seq(Lines)
  <2>1. rows \in Seq(LinesOf(l)) /\ LinesOf(l) \subseteq Lines
    BY RowsOfType DEF Lines
  <2> HIDE DEF rows
  <2> QED
    BY <2>1 DEF Tidy
<1>2. \A i \in 1 .. Len(rows) : rows[i].line = "row" /\ rows[i].row.law_id = l
  <2> SUFFICES ASSUME NEW i \in 1 .. Len(rows) PROVE rows[i].line = "row" /\ rows[i].row.law_id = l
    OBVIOUS
  <2>1. rows[i] \in LinesOf(l)
    <3> HIDE DEF rows
    <3> QED
      BY <1>1
  <2> QED
    BY <2>1, LinesAreOfTheLaw
<1> HIDE DEF rows
<1>3. /\ new \in Seq(Lines) /\ Len(new) = Len(lines) + Len(rows)
      /\ Len(lines) \in Nat /\ Len(rows) \in Nat /\ DOMAIN lines = 1 .. Len(lines)
      /\ DOMAIN new = 1 .. Len(new)
      /\ \A i \in 1 .. Len(lines) : new[i] = lines[i]
      /\ \A i \in 1 .. Len(rows) : new[Len(lines) + i] = rows[i]
      /\ \A i \in Len(lines) + 1 .. Len(new) :
           i - Len(lines) \in 1 .. Len(rows) /\ new[i] = rows[i - Len(lines)]
  BY <1>1
<1> HIDE DEF new
<1>4. \A i \in 1 .. Len(lines) : lines[i].line = "row" /\ lines[i].row.law_id \in Laws \ todo
  BY DEF Tidy
<1>5. \A i \in Len(lines) + 1 .. Len(new) : new[i].line = "row" /\ new[i].row.law_id = l
  BY <1>2, <1>3
<1>6. \A i \in 1 .. Len(new) : new[i].line = "row" /\ new[i].row.law_id \in Laws \ (todo \ {l})
  BY <1>3, <1>4, <1>5
<1>7. WholeIn(new, l)
  <2>1. RowsAt(new, l) = Len(lines) + 1 .. Len(lines) + Len(rows)
    BY <1>3, <1>4, <1>5, SMTT(30) DEF RowsAt
  <2>2. BlockAt(new, l, v, Len(lines))
    BY <1>3, <2>1 DEF BlockAt, rows
  <2> QED
    BY <1>3, <2>2 DEF WholeIn
<1>8. ASSUME NEW m \in Laws, m # l PROVE WholeIn(new, m)
  <2>1. RowsAt(new, m) = RowsAt(lines, m)
    BY <1>3, <1>5, <1>8 DEF RowsAt
  <2>2. WholeIn(lines, m)
    BY DEF Tidy
  <2>3. ASSUME NEW w \in Versions, NEW d \in Nat, BlockAt(lines, m, w, d)
        PROVE  BlockAt(new, m, w, d)
    <3>1. Len(RowsOf(m, w)) \in Nat
      BY RowsOfType
    <3>2. ASSUME NEW i \in 1 .. Len(RowsOf(m, w)) PROVE new[d + i] = RowsOf(m, w)[i]
      <4>1. d + i \in RowsAt(lines, m)
        BY <2>3, <3>1 DEF BlockAt
      <4>2. d + i \in 1 .. Len(lines)
        BY <1>3, <4>1 DEF RowsAt
      <4> QED
        BY <1>3, <2>3, <4>2 DEF BlockAt
    <3> QED
      BY <2>1, <2>3, <3>2 DEF BlockAt
  <2> QED
    BY <2>1, <2>2, <2>3 DEF WholeIn
<1>9. new \in Seq(Lines) /\ \A m \in Laws : WholeIn(new, m)
  BY <1>3, <1>7, <1>8
<1> QED
  BY <1>6, <1>9 DEF Tidy, new, rows

\* A law that has no rows is passed over.
LEMMA TidyKept ==
    ASSUME NEW lines, NEW todo, Tidy(lines, todo), NEW rest \in SUBSET todo
    PROVE  Tidy(lines, rest)
  BY DEF Tidy

\* A law is gone through, whatever is known of it.
LEMMA TidyRowsIn ==
    ASSUME NEW lines, NEW todo \in SUBSET Laws, Tidy(lines, todo), NEW l \in todo, NEW source
    PROVE  Tidy(lines \o RowsIn(source, l), todo \ {l})
<1>1. CASE Readable(source[l])
  BY <1>1, TidyGrows DEF RowsIn, Readable
<1>2. CASE ~ Readable(source[l])
  <2>1. lines \o << >> = lines
    BY DEF Tidy
  <2>2. Tidy(lines, todo \ {l})
    BY TidyKept
  <2> QED
    BY <1>2, <2>1, <2>2 DEF RowsIn
<1> QED
  BY <1>1, <1>2

\* The rows of the first laws are tidy, whatever file of each of them is read.
LEMMA TidyUpTo ==
    ASSUME NEW source, NEW n \in 0 .. Len(LawOrder)
    PROVE  Tidy(RowsUpTo(source, n), LawsAfter(n))
<1>0. /\ Len(LawOrder) \in Nat /\ DOMAIN LawOrder = 1 .. Len(LawOrder)
      /\ Laws = {LawOrder[i] : i \in DOMAIN LawOrder}
      /\ \A i, j \in DOMAIN LawOrder : LawOrder[i] = LawOrder[j] => i = j
  BY LawOrderIs, LawsAssumption
<1> DEFINE T == {k \in Nat : k <= Len(LawOrder) /\ ~ Tidy(RowsUpTo(source, k), LawsAfter(k))}
<1>1. T = {}
  <2> SUFFICES ASSUME T # {} PROVE FALSE
    OBVIOUS
  <2>1. PICK m \in T : \A k \in T : m <= k
    BY LeastNumber
  <2>2. m \in Nat /\ m <= Len(LawOrder) /\ ~ Tidy(RowsUpTo(source, m), LawsAfter(m))
    OBVIOUS
  <2>3. m # 0
    BY <2>2, RowsUpToDef, TidyAtFirst
  <2>4. m \in 1 .. Len(LawOrder) /\ m - 1 \in Nat /\ m - 1 <= Len(LawOrder)
    BY <1>0, <2>2, <2>3
  <2>5. Tidy(RowsUpTo(source, m - 1), LawsAfter(m - 1))
    BY <2>1, <2>4
  <2> HIDE DEF T
  <2>6. RowsUpTo(source, m) = RowsUpTo(source, m - 1) \o RowsIn(source, LawOrder[m])
    BY <2>4, RowsUpToDef
  <2>7. /\ LawsAfter(m - 1) \in SUBSET Laws
        /\ LawOrder[m] \in LawsAfter(m - 1)
        /\ LawsAfter(m - 1) \ {LawOrder[m]} = LawsAfter(m)
    <3>1. (m - 1) + 1 = m
      BY <2>4
    <3>2. LawsAfter(m - 1) = {LawOrder[i] : i \in m .. Len(LawOrder)}
      BY <3>1 DEF LawsAfter
    <3>3. LawsAfter(m) \subseteq LawsAfter(m - 1) \ {LawOrder[m]}
      BY <1>0, <2>4, <3>2 DEF LawsAfter
    <3>4. LawsAfter(m - 1) \ {LawOrder[m]} \subseteq LawsAfter(m)
      BY <1>0, <2>4, <3>2 DEF LawsAfter
    <3>5. LawsAfter(m - 1) \in SUBSET Laws /\ LawOrder[m] \in LawsAfter(m - 1)
      BY <1>0, <2>4, <3>2
    <3> QED
      BY <3>3, <3>4, <3>5
  <2>8. Tidy(RowsUpTo(source, m - 1) \o RowsIn(source, LawOrder[m]), LawsAfter(m - 1) \ {LawOrder[m]})
    BY <2>5, <2>7, TidyRowsIn
  <2> QED
    BY <2>2, <2>6, <2>7, <2>8
<1> QED
  BY <1>0, <1>1

\* The rows of each law stand together and are of one version.
Settled(lines) ==
  \A l \in Laws : RowsAt(lines, l) = {} \/ \E v \in Versions : IsBlock(lines, l, RowsOf(l, v))

\* A file that has tidy lines up to the n-th and no row from there on.
LEMMA TidyCutIsSettled ==
    ASSUME NEW lines, NEW todo, Tidy(lines, todo), NEW n \in 0 .. Len(lines),
           NEW S, NEW out \in Seq(S), n <= Len(out),
           \A i \in 1 .. n : out[i] = lines[i],
           \A i \in n + 1 .. Len(out) : out[i].line # "row"
    PROVE  Settled(out)
<1>1. /\ Len(lines) \in Nat /\ n \in Nat /\ n <= Len(lines) /\ DOMAIN lines = 1 .. Len(lines)
      /\ Len(out) \in Nat /\ DOMAIN out = 1 .. Len(out)
  BY DEF Tidy
<1> SUFFICES ASSUME NEW l \in Laws, RowsAt(out, l) # {}
             PROVE  \E v \in Versions : IsBlock(out, l, RowsOf(l, v))
  BY DEF Settled
<1>2. RowsAt(out, l) = {i \in RowsAt(lines, l) : i <= n}
  BY <1>1 DEF RowsAt
<1>3. WholeIn(lines, l) /\ RowsAt(lines, l) # {}
  BY <1>2 DEF Tidy
<1>4. PICK v \in Versions, d \in Nat : BlockAt(lines, l, v, d)
  BY <1>3 DEF WholeIn
<1> DEFINE whole == RowsOf(l, v)
           first == d + 1
           last == IF d + Len(whole) <= n THEN d + Len(whole) ELSE n
<1>5. Len(whole) \in Nat
  BY RowsOfType
<1> HIDE DEF whole
<1>6. RowsAt(lines, l) = d + 1 .. d + Len(whole) /\ \A i \in 1 .. Len(whole) : lines[d + i] = whole[i]
  BY <1>4 DEF BlockAt, whole
<1>7. RowsAt(out, l) = first .. last
  BY <1>1, <1>2, <1>5, <1>6
<1>8. PICK i0 \in RowsAt(out, l) : TRUE
  OBVIOUS
<1>9. first \in Nat /\ last \in Nat /\ first <= last /\ 1 <= first /\ last <= n /\ last <= d + Len(whole)
  BY <1>1, <1>5, <1>7, <1>8
<1>10. first \in DOMAIN out /\ last \in DOMAIN out /\ last - first < Len(whole)
  BY <1>1, <1>5, <1>9
<1>11. \A i \in first .. last : out[i] = whole[i - first + 1]
  <2> SUFFICES ASSUME NEW i \in first .. last PROVE out[i] = whole[i - first + 1]
    OBVIOUS
  <2>1. out[i] = lines[i]
    BY <1>1, <1>9
  <2>2. i - d \in 1 .. Len(whole) /\ d + (i - d) = i /\ i - first + 1 = i - d
    BY <1>1, <1>5, <1>9
  <2>3. lines[d + (i - d)] = whole[i - d]
    BY <1>6, <2>2
  <2> QED
    BY <2>1, <2>2, <2>3
<1>12. last - first + 1 < Len(whole) => \A i \in last + 1 .. Len(out) : out[i].line # "row"
  <2> SUFFICES ASSUME last - first + 1 < Len(whole) PROVE last = n
    OBVIOUS
  <2> QED
    BY <1>1, <1>5, <1>9
<1> HIDE DEF first, last
<1>13. IsBlock(out, l, whole)
  BY <1>7, <1>10, <1>11, <1>12 DEF IsBlock
<1> QED
  BY <1>13 DEF whole

\* Lines that are tidy are a settled file when they are written to the end.
LEMMA TidyIsSettled ==
    ASSUME NEW lines, NEW todo, Tidy(lines, todo)
    PROVE  Settled(lines)
<1>1. lines \in Seq(Lines) /\ Len(lines) \in 0 .. Len(lines) /\ Len(lines) + 1 .. Len(lines) = {}
  BY DEF Tidy
<1> QED
  BY <1>1, TidyCutIsSettled

\* The lines of a chunking at work are tidy; the file is settled.
OneVersionInv ==
  /\ job.cmd = "chunk" => Tidy(job.lines, job.todo)
  /\ RowsOfALawAreOneVersion

\* A settled file has what the property asks for.
LEMMA SettledIsOneVersion == Settled(jsonl) => RowsOfALawAreOneVersion
  BY DEF Settled, RowsOfALawAreOneVersion

\* A file that is there at first is made from tidy lines, or comes from elsewhere.
LEMMA OneVersionInit == Init => OneVersionInv
<1> SUFFICES ASSUME Init PROVE OneVersionInv
  OBVIOUS
<1>1. job.cmd # "chunk"
  BY DEF Init, Idle
<1>2. CASE jsonl = AllRows(norm)
  <2>1. Len(LawOrder) \in 0 .. Len(LawOrder)
    BY LawOrderIs
  <2>2. Settled(jsonl)
    BY <1>2, <2>1, TidyUpTo, TidyIsSettled DEF AllRows
  <2> QED
    BY <1>1, <2>2, SettledIsOneVersion DEF OneVersionInv
<1>3. CASE jsonl = NoFile \/ \E f \in Foreign : jsonl = f.lines
  BY <1>1, <1>3 DEF OneVersionInv, RowsOfALawAreOneVersion
<1> QED
  BY <1>2, <1>3 DEF Init

\* Every step keeps the lines tidy and the file settled.
LEMMA OneVersionStep == CorpusType /\ OneVersionInv /\ [Next]_vars => OneVersionInv'
<1> SUFFICES ASSUME CorpusType, OneVersionInv, [Next]_vars PROVE OneVersionInv'
  OBVIOUS
<1> USE DEF Idle
\* the chunk file stays as it is
<1>a. jsonl' = jsonl => RowsOfALawAreOneVersion'
  BY DEF OneVersionInv, RowsOfALawAreOneVersion
<1>b. ASSUME job'.cmd # "chunk", jsonl' = jsonl PROVE OneVersionInv'
  BY <1>a, <1>b DEF OneVersionInv
<1>1. ASSUME NEW l \in Laws, Download(l) PROVE OneVersionInv'
  BY <1>1, <1>b DEF Download, output
<1>2. ASSUME NEW w \in BOOLEAN, StartCleaning(w) PROVE OneVersionInv'
  BY <1>2, <1>b DEF StartCleaning, Begin, output
<1>3. ASSUME NEW o, NEW only, StartParsing(o, only) PROVE OneVersionInv'
  BY <1>3, <1>b DEF StartParsing, Begin, output
<1>4. ASSUME NEW o, NEW only, StartChunking(o, only) PROVE OneVersionInv'
  <2>1. job'.lines = << >> /\ jsonl' = jsonl
    BY <1>4 DEF StartChunking, Begin, output
  <2>2. Tidy(job'.lines, job'.todo)
    BY <2>1, TidyAtFirst
  <2> QED
    BY <1>a, <2>1, <2>2 DEF OneVersionInv
<1>5. CASE Clean \/ CleanWriteFails
  <2>1. job.cmd = "clean" /\ job \in CleanJob
    BY <1>5, JobKinds DEF Clean, CleanWriteFails, Working
  <2>2. job'.cmd = "clean" /\ jsonl' = jsonl
    BY <1>5, <2>1 DEF Clean, CleanWriteFails, output, CleanJob
  <2> QED
    BY <2>2, <1>b
<1>6. CASE FinishCleaning \/ FinishParsing
  <2>1. CASE FinishCleaning
    BY <2>1, <1>b DEF FinishCleaning, output
  <2>2. CASE FinishParsing
    BY <2>2, <1>b DEF FinishParsing, output
  <2> QED
    BY <1>6, <2>1, <2>2
<1>7. CASE Parse \/ ParseWriteFails
  <2>1. job'.cmd = "parse"
    <3>1. Working("parse") /\ Law \in Laws /\ "failed" \in Statuses
      BY <1>7, LawIsALaw DEF Parse, ParseWriteFails, Statuses
    <3>2. \E st \in Statuses : job' = Recorded(st)
      BY <1>7, <3>1, ParseStatusIs DEF Parse, ParseWriteFails, Blocked
    <3> QED
      BY <3>1, <3>2, RecordedIs DEF Working
  <2>2. jsonl' = jsonl
    BY <1>7 DEF Parse, ParseWriteFails, output
  <2> QED
    BY <2>1, <2>2, <1>b
<1>8. CASE Chunk
  <2>1. job \in ChunkJob /\ job.cmd = "chunk" /\ Law \in job.todo /\ job.todo \in SUBSET Laws
    BY <1>8, JobKinds, LawIsALaw DEF Chunk, Working
  <2>2. /\ job'.todo = job.todo \ {Law} /\ jsonl' = jsonl
        /\ job'.lines = IF Readable(hier[Law]) THEN job.lines \o RowsOf(Law, hier[Law]) ELSE job.lines
    BY <1>8, <2>1 DEF Chunk, ChunkJob, output, Rest
  <2>3. Tidy(job.lines, job.todo)
    BY <2>1 DEF OneVersionInv
  <2>4. Tidy(job'.lines, job'.todo)
    <3>1. CASE Readable(hier[Law])
      BY <2>1, <2>2, <2>3, <3>1, TidyGrows DEF Readable
    <3>2. CASE ~ Readable(hier[Law])
      BY <2>1, <2>2, <2>3, <3>2, TidyKept
    <3> QED
      BY <3>1, <3>2
  <2> QED
    BY <1>a, <2>2, <2>4 DEF OneVersionInv
<1>9. CASE WriteChunks
  <2>1. job \in ChunkJob /\ job.cmd = "chunk"
    BY <1>9, JobKinds DEF WriteChunks, Writing
  <2>2. job'.lines = job.lines /\ job'.todo = job.todo /\ jsonl' = job.lines
    BY <1>9, <2>1 DEF WriteChunks, ChunkJob
  <2>3. Tidy(job.lines, job.todo)
    BY <2>1 DEF OneVersionInv
  <2>4. RowsOfALawAreOneVersion'
    <3>1. Settled(jsonl')
      BY <2>2, <2>3, TidyIsSettled
    <3> QED
      BY <3>1 DEF Settled, RowsOfALawAreOneVersion
  <2> QED
    BY <2>2, <2>3, <2>4 DEF OneVersionInv
<1>10. CASE WriteReport
  BY <1>10, <1>b DEF WriteReport
<1>11. CASE Abort
  <2>1. job'.cmd # "chunk"
    BY <1>11 DEF Abort
  <2>2. CASE jsonl' = jsonl
    BY <2>1, <2>2, <1>b
  <2>3. CASE jsonl' # jsonl
    <3>1. PICK n \in 0 .. Len(job.lines) :
            /\ job.cmd = "chunk"
            /\ \/ jsonl' = SubSeq(job.lines, 1, n)
               \/ jsonl' = SubSeq(job.lines, 1, n) \o <<Garbled>>
      BY <1>11, <2>3 DEF Abort, output, Writing
    <3>2. Tidy(job.lines, job.todo) /\ job.lines \in Seq(Lines)
      BY <3>1 DEF OneVersionInv, Tidy
    <3>3. /\ SubSeq(job.lines, 1, n) \in Seq(Lines) /\ Len(SubSeq(job.lines, 1, n)) = n /\ n \in Nat
          /\ \A i \in 1 .. n : SubSeq(job.lines, 1, n)[i] = job.lines[i]
      BY <3>2
    <3>4. Settled(jsonl')
      <4>1. CASE jsonl' = SubSeq(job.lines, 1, n)
        <5>1. jsonl' \in Seq(Lines) /\ Len(jsonl') = n /\ \A i \in 1 .. n : jsonl'[i] = job.lines[i]
          BY <3>3, <4>1
        <5>2. n + 1 .. Len(jsonl') = {}
          BY <3>3, <5>1
        <5> QED
          BY <3>2, <3>3, <5>1, <5>2, TidyCutIsSettled
      <4>2. CASE jsonl' = SubSeq(job.lines, 1, n) \o <<Garbled>>
        <5> DEFINE cut == SubSeq(job.lines, 1, n)
        <5>1. cut \in Seq(Lines \cup {Garbled}) /\ <<Garbled>> \in Seq(Lines \cup {Garbled})
              /\ Len(<<Garbled>>) = 1 /\ <<Garbled>>[1] = Garbled
          BY <3>3
        <5> HIDE DEF cut
        <5>2. /\ jsonl' \in Seq(Lines \cup {Garbled}) /\ Len(jsonl') = n + 1
              /\ \A i \in 1 .. n : jsonl'[i] = cut[i]
              /\ jsonl'[n + 1] = Garbled
          BY <3>3, <4>2, <5>1 DEF cut
        <5>3. \A i \in 1 .. n : jsonl'[i] = job.lines[i]
          BY <3>3, <5>2 DEF cut
        <5>4. \A i \in n + 1 .. Len(jsonl') : jsonl'[i].line # "row"
          BY <3>3, <5>2 DEF Garbled
        <5>5. n <= Len(jsonl')
          BY <3>3, <5>2
        <5> QED
          BY <3>2, <5>2, <5>3, <5>4, <5>5, TidyCutIsSettled
      <4> QED
        BY <3>1, <4>1, <4>2
    <3> QED
      BY <2>1, <3>4 DEF OneVersionInv, Settled, RowsOfALawAreOneVersion
  <2> QED
    BY <2>2, <2>3
<1>12. CASE UNCHANGED vars
  BY <1>12, <1>a DEF vars, OneVersionInv
<1> QED
  BY <1>1, <1>2, <1>3, <1>4, <1>5, <1>6, <1>7, <1>8, <1>9, <1>10, <1>11, <1>12 DEF Next

\* The chunk file is replaced, whole or cut off by a kill, never patched (chunk
\* command): the rows of a law in it are of one version, without a gap, and only
\* the law that is written last can be cut short.
THEOREM RowsOfALawAreOneVersionAlways == Spec => []RowsOfALawAreOneVersion
<1>1. Init => CorpusType /\ OneVersionInv
  BY CorpusInit, OneVersionInit
<1>2. CorpusType /\ OneVersionInv /\ [Next]_vars => (CorpusType /\ OneVersionInv)'
  BY CorpusTypeStep, OneVersionStep
<1>3. OneVersionInv => RowsOfALawAreOneVersion
  BY DEF OneVersionInv
<1> QED
  BY <1>1, <1>2, <1>3, PTL DEF Spec

-----------------------------------------------------------------------------
(* The validator of the chunk file.                                        *)

\* What can be wrong with a line.
Categories == {"duplicate_chunk_ids", "hash_mismatches", "citation_failures",
               "traceability_failures", "contamination_failures", "repealed_metadata_mismatches",
               "empty_text", "payload_failures"}

LEMMA CategoriesFinite == IsFiniteSet(Categories)
<1> DEFINE A == {"duplicate_chunk_ids"}  B == A \cup {"hash_mismatches"}
           C == B \cup {"citation_failures"}  D == C \cup {"traceability_failures"}
           E == D \cup {"contamination_failures"}  F == E \cup {"repealed_metadata_mismatches"}
           G == F \cup {"empty_text"}  H == G \cup {"payload_failures"}
<1>1. /\ IsFiniteSet({"duplicate_chunk_ids"}) /\ IsFiniteSet({"hash_mismatches"})
      /\ IsFiniteSet({"citation_failures"}) /\ IsFiniteSet({"traceability_failures"})
      /\ IsFiniteSet({"contamination_failures"}) /\ IsFiniteSet({"repealed_metadata_mismatches"})
      /\ IsFiniteSet({"empty_text"}) /\ IsFiniteSet({"payload_failures"})
  BY FS_Singleton
<1>2. Categories = H
  BY DEF Categories
<1>3. IsFiniteSet(A) /\ IsFiniteSet(B) /\ IsFiniteSet(C) /\ IsFiniteSet(D)
  <2>1. IsFiniteSet(A)
    BY <1>1
  <2>2. IsFiniteSet(B)
    BY <1>1, <2>1, FS_Union
  <2>3. IsFiniteSet(C)
    <3> HIDE DEF B
    <3> QED
      BY <1>1, <2>2, FS_Union
  <2>4. IsFiniteSet(D)
    <3> HIDE DEF C
    <3> QED
      BY <1>1, <2>3, FS_Union
  <2> QED
    BY <2>1, <2>2, <2>3, <2>4
<1>4. IsFiniteSet(E)
  <2> HIDE DEF D
  <2> QED
    BY <1>1, <1>3, FS_Union
<1>5. IsFiniteSet(F)
  <2> HIDE DEF E
  <2> QED
    BY <1>1, <1>4, FS_Union
<1>6. IsFiniteSet(G)
  <2> HIDE DEF F
  <2> QED
    BY <1>1, <1>5, FS_Union
<1>7. IsFiniteSet(H)
  <2> HIDE DEF G
  <2> QED
    BY <1>1, <1>6, FS_Union
<1> HIDE DEF H
<1> QED
  BY <1>2, <1>7

\* What is found in a line is a finite set.
LEMMA ErrorsAreFew ==
    ASSUME NEW l, NEW seen, NEW hierarchy
    PROVE  IsFiniteSet(ErrorsOf(l, seen, hierarchy))
<1>1. IsFiniteSet({StopsAt(l)})
  BY FS_Singleton
<1>2. RowErrors(l.row, seen, hierarchy) \subseteq Categories
  BY DEF RowErrors, PayloadErrors, Categories
<1>3. IsFiniteSet(RowErrors(l.row, seen, hierarchy))
  BY <1>2, CategoriesFinite, FS_Subset
<1> QED
  BY <1>1, <1>3 DEF ErrorsOf

\* What a function makes of finitely many arguments is finite.
LEMMA ImageFinite ==
    ASSUME NEW f, IsFiniteSet(DOMAIN f)
    PROVE  IsFiniteSet({f[x] : x \in DOMAIN f})
<1> DEFINE T == {f[x] : x \in DOMAIN f}
           g == [x \in DOMAIN f |-> f[x]]
<1>1. g \in Surjection(DOMAIN f, T)
  BY DEF Surjection
<1> HIDE DEF T, g
<1>2. IsFiniteSet(T)
  BY <1>1, FS_Surjection
<1> QED
  BY <1>2 DEF T

\* The places of a sequence are as many as it is long.
LEMMA PlacesOf ==
    ASSUME NEW S, NEW s \in Seq(S)
    PROVE  /\ Len(s) \in Nat /\ DOMAIN s = 1 .. Len(s)
           /\ IsFiniteSet(DOMAIN s) /\ Cardinality(DOMAIN s) = Len(s)
<1>1. Len(s) \in Nat /\ DOMAIN s = 1 .. Len(s)
  OBVIOUS
<1>2. /\ IsFiniteSet(1 .. Len(s))
      /\ Cardinality(1 .. Len(s)) = IF 1 > Len(s) THEN 0 ELSE Len(s) - 1 + 1
  BY <1>1, FS_Interval
<1> DEFINE n == Len(s) c == Cardinality(1 .. n)
<1>3. c = n
  <2>1. n \in Nat /\ c = IF 1 > n THEN 0 ELSE n - 1 + 1
    BY <1>1, <1>2
  <2> HIDE DEF n, c
  <2> QED
    BY <2>1
<1> QED
  BY <1>1, <1>2, <1>3

\* A total is none only where nothing is found.
LEMMA TotalIs ==
    ASSUME NEW S, NEW s \in Seq(S), NEW found, DOMAIN found = DOMAIN s,
           \A i \in DOMAIN s : IsFiniteSet(found[i])
    PROVE  Total(found) \in Nat /\ (Total(found) = 0 => \A i \in DOMAIN s : found[i] = {})
<1> DEFINE At(i) == {i} \X found[i]
           parts == {At(i) : i \in DOMAIN found}
<1>1. IsFiniteSet(DOMAIN found)
  BY PlacesOf
<1>2. IsFiniteSet(parts)
  <2> DEFINE g == [i \in DOMAIN found |-> At(i)]
  <2>1. DOMAIN g = DOMAIN found /\ parts = {g[i] : i \in DOMAIN g}
    <3> HIDE DEF At
    <3> QED
      OBVIOUS
  <2> HIDE DEF g, parts
  <2> QED
    BY <1>1, <2>1, ImageFinite
<1>3. \A p \in parts : IsFiniteSet(p)
  <2> SUFFICES ASSUME NEW i \in DOMAIN found PROVE IsFiniteSet(At(i))
    BY Zenon
  <2>1. IsFiniteSet({i}) /\ IsFiniteSet(found[i])
    BY FS_Singleton
  <2> QED
    BY <2>1, FS_Product
<1>4. IsFiniteSet(UNION parts)
  <2> HIDE DEF parts
  <2> QED
    BY <1>2, <1>3, FS_UNION
<1>5. Total(found) = Cardinality(UNION parts)
  BY DEF Total
<1>6. Total(found) \in Nat /\ (Total(found) = 0 => UNION parts = {})
  <2> HIDE DEF parts
  <2> QED
    BY <1>4, <1>5, FS_CardinalityType, FS_EmptySet
<1>7. ASSUME NEW i \in DOMAIN s, found[i] # {}
      PROVE  UNION parts # {}
  <2>1. PICK c : c \in found[i]
    BY <1>7
  <2>2. <<i, c>> \in At(i) /\ At(i) \in parts
    BY <2>1
  <2> HIDE DEF At, parts
  <2> QED
    BY <2>2
<1> HIDE DEF parts
<1> QED
  BY <1>6, <1>7

\* What the commands leave are files of lines, and the report counts a few levels.
FilesInv ==
  /\ jsonl \in Seq(Range(jsonl))
  /\ report.readable => IsFiniteSet(DOMAIN report.chunks_by_level)

\* A sequence is one of its own elements.
LEMMA OwnRange ==
    ASSUME NEW S, NEW s \in Seq(S)
    PROVE  s \in Seq(Range(s))
<1>1. DOMAIN s = 1 .. Len(s) /\ Len(s) \in Nat
  OBVIOUS
<1>2. \A i \in 1 .. Len(s) : s[i] \in Range(s)
  BY <1>1 DEF Range
<1>3. s = [i \in 1 .. Len(s) |-> s[i]]
  BY <1>1
<1> QED
  BY <1>1, <1>2, <1>3

\* A report counts finitely many levels.
LEMMA ReportLevels ==
    ASSUME NEW S, NEW s \in Seq(S)
    PROVE  IsFiniteSet(DOMAIN ReportOf(s).chunks_by_level)
<1> DEFINE g == [i \in DOMAIN s |-> s[i].row.level]
<1>1. DOMAIN g = DOMAIN s /\ IsFiniteSet(DOMAIN s)
  BY PlacesOf
<1>2. DOMAIN ReportOf(s).chunks_by_level = {g[i] : i \in DOMAIN g}
  BY DEF ReportOf
<1> HIDE DEF g
<1> QED
  BY <1>1, <1>2, ImageFinite

\* The rows of all laws are lines.
LEMMA AllRowsType ==
    ASSUME NEW source \in [Laws -> Files]
    PROVE  AllRows(source) \in Seq(Lines)
<1>1. RowsUpTo(source, Len(LawOrder)) \in Seq(Lines)
  <2> DEFINE parts == [i \in DOMAIN LawOrder |-> RowsIn(source, LawOrder[i])]
  <2>1. DOMAIN LawOrder = 1 .. Len(LawOrder) /\ Len(LawOrder) \in Nat
        /\ \A i \in DOMAIN LawOrder : LawOrder[i] \in Laws
    BY LawOrderIs
  <2>2. \A i \in DOMAIN LawOrder : RowsIn(source, LawOrder[i]) \in Seq(Lines)
    BY <2>1, RowsInType
  <2>3. parts \in Seq(Seq(Lines)) /\ Len(parts) = Len(LawOrder)
    BY <2>1, <2>2
  <2>4. RowsUpTo(source, Len(LawOrder)) = Joined(parts, Len(LawOrder))
    BY DEF RowsUpTo
  <2> HIDE DEF parts
  <2> QED
    BY <2>1, <2>3, <2>4, JoinedType
<1> QED
  BY <1>1 DEF AllRows

\* The files that are there at first are such files.
LEMMA FilesInit == Init => FilesInv
<1> SUFFICES ASSUME Init PROVE FilesInv
  OBVIOUS
<1>1. CASE jsonl = NoFile /\ report = NoReport
  <2>1. jsonl \in Seq({[line |-> "no file"]})
    <3> DEFINE r == [line |-> "no file"]
    <3>1. jsonl = <<r>>
      BY <1>1 DEF NoFile
    <3> HIDE DEF r
    <3>2. jsonl \in Seq({r})
      BY <3>1
    <3> QED
      BY <3>2 DEF r
  <2> QED
    BY <1>1, <2>1, OwnRange DEF FilesInv, NoReport
<1>2. CASE norm = [l \in Laws |-> Built(l)] /\ jsonl = AllRows(norm) /\ report = ReportOf(jsonl)
  <2>1. norm \in [Laws -> Files]
    BY <1>2, BuiltIs
  <2>2. jsonl \in Seq(Lines)
    BY <1>2, <2>1, AllRowsType
  <2> QED
    BY <1>2, <2>2, OwnRange, ReportLevels DEF FilesInv
<1>3. CASE \E f \in Foreign : jsonl = f.lines /\ report = f.report
  <2>1. PICK f \in Foreign : jsonl = f.lines /\ report = f.report
    BY <1>3
  <2> QED
    BY <2>1, ForeignAssumption DEF FilesInv
<1> QED
  BY <1>1, <1>2, <1>3 DEF Init

\* Every command leaves such files, also one that is killed while it writes.
LEMMA FilesStep == CorpusType /\ FilesInv /\ [Next]_vars => FilesInv'
<1> SUFFICES ASSUME CorpusType, FilesInv, [Next]_vars PROVE FilesInv'
  OBVIOUS
<1>a. ASSUME UNCHANGED output PROVE FilesInv'
  BY <1>a DEF FilesInv, output
<1>1. ASSUME NEW l \in Laws, Download(l) PROVE FilesInv'
  BY <1>1, <1>a DEF Download
<1>2. ASSUME NEW w \in BOOLEAN, StartCleaning(w) PROVE FilesInv'
  BY <1>2, <1>a DEF StartCleaning
<1>3. ASSUME NEW o, NEW only, StartParsing(o, only) PROVE FilesInv'
  BY <1>3, <1>a DEF StartParsing
<1>4. ASSUME NEW o, NEW only, StartChunking(o, only) PROVE FilesInv'
  BY <1>4, <1>a DEF StartChunking
<1>5. CASE Clean \/ CleanWriteFails \/ FinishCleaning \/ Parse \/ ParseWriteFails
           \/ FinishParsing \/ Chunk
  BY <1>5, <1>a DEF Clean, CleanWriteFails, FinishCleaning, Parse, ParseWriteFails,
                    FinishParsing, Chunk
<1>6. CASE WriteChunks
  <2>1. job.lines \in Seq(Lines)
    BY <1>6, JobKinds DEF WriteChunks, Writing, ChunkJob
  <2>2. jsonl' \in Seq(Lines) /\ report' = report
    BY <1>6, <2>1 DEF WriteChunks
  <2>3. jsonl' \in Seq(Range(jsonl'))
    BY <2>2, OwnRange
  <2> QED
    BY <2>2, <2>3 DEF FilesInv
<1>7. CASE WriteReport
  <2>1. job.lines \in Seq(Lines)
    BY <1>7, JobKinds DEF WriteReport, Writing, ChunkJob
  <2>2. report' = ReportOf(job.lines) /\ jsonl' = jsonl
    BY <1>7 DEF WriteReport
  <2>3. IsFiniteSet(DOMAIN report'.chunks_by_level)
    BY <2>1, <2>2, ReportLevels
  <2> QED
    BY <2>2, <2>3 DEF FilesInv
<1>8. CASE Abort
  <2>1. CASE UNCHANGED output
    BY <2>1, <1>a
  <2>2. CASE /\ Writing /\ ~ job.written
             /\ \E n \in 0 .. Len(job.lines) :
                   \/ jsonl' = SubSeq(job.lines, 1, n)
                   \/ n < Len(job.lines) /\ jsonl' = SubSeq(job.lines, 1, n) \o <<Garbled>>
             /\ UNCHANGED <<interim, report>>
    <3>1. job.lines \in Seq(Lines)
      BY <2>2, JobKinds DEF Writing, ChunkJob
    <3>2. PICK n \in 0 .. Len(job.lines) :
             \/ jsonl' = SubSeq(job.lines, 1, n)
             \/ n < Len(job.lines) /\ jsonl' = SubSeq(job.lines, 1, n) \o <<Garbled>>
      BY <2>2
    <3>3. SubSeq(job.lines, 1, n) \in Seq(Lines \cup {Garbled})
      <4>1. n \in Nat /\ n <= Len(job.lines) /\ Len(job.lines) \in Nat
        BY <3>1
      <4>2. \A i \in 1 .. n : job.lines[i] \in Lines \cup {Garbled}
        BY <3>1, <4>1
      <4> QED
        BY <3>1, <4>1, <4>2, SubSeqProperties
    <3>4. jsonl' \in Seq(Lines \cup {Garbled})
      <4>1. <<Garbled>> \in Seq(Lines \cup {Garbled})
        OBVIOUS
      <4> QED
        BY <3>2, <3>3, <4>1
    <3>5. jsonl' \in Seq(Range(jsonl'))
      BY <3>4, OwnRange
    <3> QED
      BY <2>2, <3>5 DEF FilesInv
  <2>3. CASE report' = Unreadable /\ UNCHANGED <<interim, jsonl>>
    BY <2>3 DEF FilesInv, Unreadable
  <2> QED
    BY <1>8, <2>1, <2>2, <2>3 DEF Abort, output
<1>9. CASE UNCHANGED vars
  BY <1>9, <1>a DEF vars, output
<1> QED
  BY <1>1, <1>2, <1>3, <1>4, <1>5, <1>6, <1>7, <1>8, <1>9 DEF Next

\* A chunk file in which the validator finds no error is ready exactly if it has a row.
LEMMA ReadyIs == FilesInv => ReadyUnlessEmpty
<1> SUFFICES ASSUME FilesInv, Validated.status # "fail"
             PROVE  Validated.embedding_ready <=> jsonl # << >>
  BY DEF ReadyUnlessEmpty
<1> DEFINE found == Errors(jsonl, Hierarchy)
           counted == {i \in DOMAIN jsonl : FitsModel(jsonl[i])}
           unreconciled == ReconciliationErrors(jsonl, counted, report)
           invalid == Cardinality({i \in DOMAIN jsonl : found[i] # {}})
           objects == Cardinality({i \in DOMAIN jsonl : jsonl[i].line = "row"})
           unready == Cardinality({i \in DOMAIN jsonl : NotReady(jsonl[i])})
           errors == Total(found) + unreconciled
<1>0. /\ \E w : Validated.status = StatusOf(errors, w)
      /\ Validated.embedding_ready = Ready(errors, invalid, unready, objects)
  BY DEF Validated, Validation
<1>1. /\ jsonl \in Seq(Range(jsonl)) /\ Len(jsonl) \in Nat /\ DOMAIN jsonl = 1 .. Len(jsonl)
      /\ Cardinality(DOMAIN jsonl) = Len(jsonl)
  BY PlacesOf DEF FilesInv
<1>2. unreconciled \in Nat
  <2>1. ASSUME report.readable PROVE unreconciled \in Nat
    <3> DEFINE odd == {level \in DOMAIN report.chunks_by_level :
                        report.chunks_by_level[level] # CountOf(jsonl, counted, level)}
    <3>1. IsFiniteSet(odd)
      BY <2>1, FS_Subset DEF FilesInv
    <3>2. Cardinality(odd) \in Nat
      <4> HIDE DEF odd
      <4> QED
        BY <3>1, FS_CardinalityType
    <3>3. unreconciled = (IF report.total_chunks = Len(jsonl) THEN 0 ELSE 1) + Cardinality(odd)
      BY <2>1 DEF ReconciliationErrors
    <3> HIDE DEF odd, unreconciled
    <3> QED
      BY <3>2, <3>3
  <2>2. ~ report.readable => unreconciled = 0
    BY DEF ReconciliationErrors
  <2> HIDE DEF unreconciled
  <2> QED
    BY <2>1, <2>2
<1>3. DOMAIN found = DOMAIN jsonl
      /\ \A i \in DOMAIN jsonl : found[i] = ErrorsOf(jsonl[i], IdsBefore(jsonl, i), Hierarchy)
  BY DEF Errors
<1>4. \A i \in DOMAIN jsonl : IsFiniteSet(found[i])
  BY <1>3, ErrorsAreFew
<1> HIDE DEF found, unreconciled, counted
<1>5. Total(found) \in Nat /\ (Total(found) = 0 => \A i \in DOMAIN jsonl : found[i] = {})
  BY <1>1, <1>3, <1>4, TotalIs
<1>6. errors = 0 /\ Total(found) = 0
  BY <1>0, <1>2, <1>5 DEF StatusOf
<1>7. ASSUME NEW i \in DOMAIN jsonl
      PROVE  found[i] = {} /\ jsonl[i].line = "row" /\ ~ NotReady(jsonl[i])
  <2>1. ErrorsOf(jsonl[i], IdsBefore(jsonl, i), Hierarchy) = {}
    BY <1>3, <1>5, <1>6
  <2>2. Passes(jsonl[i])
    BY <2>1 DEF ErrorsOf
  <2>3. RowErrors(jsonl[i].row, IdsBefore(jsonl, i), Hierarchy) = {}
    BY <2>1, <2>2 DEF ErrorsOf
  <2>4. PayloadErrors(jsonl[i].row) = {}
    BY <2>3 DEF RowErrors
  <2>5. PayloadFailures(jsonl[i].row) = {}
    BY <2>4 DEF PayloadErrors
  <2> QED
    BY <1>3, <2>1, <2>2, <2>5 DEF Passes, FitsModel, NotReady
<1>8. /\ {i \in DOMAIN jsonl : found[i] # {}} = {}
      /\ {i \in DOMAIN jsonl : jsonl[i].line = "row"} = DOMAIN jsonl
      /\ {i \in DOMAIN jsonl : NotReady(jsonl[i])} = {}
  BY <1>7
<1>9. invalid = 0 /\ objects = Len(jsonl) /\ unready = 0
  BY <1>1, <1>8, FS_EmptySet
<1>10. Len(jsonl) > 0 <=> jsonl # << >>
  BY <1>1
<1> HIDE DEF errors, invalid, objects, unready
<1> QED
  BY <1>0, <1>1, <1>6, <1>9, <1>10 DEF Ready

\* After a quiet pass the report is that of the chunk file.
ReportInv == quiet = 3 => report = ReportOf(jsonl) \/ (job.cmd = "chunk" /\ job.written)

\* A report that is there at first with quiet stages was made from its chunk file.
LEMMA ReportInit == Init => ReportInv
  BY DEF Init, ReportInv

\* Every step keeps the report in step with the chunk file.
LEMMA ReportStep == CorpusType /\ ChunksInv /\ ReportInv /\ [Next]_vars => ReportInv'
<1> SUFFICES ASSUME CorpusType, ChunksInv, ReportInv, [Next]_vars PROVE ReportInv'
  OBVIOUS
<1> USE DEF Idle
<1>a. ASSUME job.cmd # "chunk", quiet' = 3 => quiet = 3, UNCHANGED output PROVE ReportInv'
  BY <1>a DEF ReportInv, output
<1>1. ASSUME NEW l \in Laws, Download(l) PROVE ReportInv'
  BY <1>1 DEF Download, ReportInv
<1>2. ASSUME NEW w \in BOOLEAN, StartCleaning(w) PROVE ReportInv'
  BY <1>2, <1>a DEF StartCleaning, Begin
<1>3. ASSUME NEW o, NEW only, StartParsing(o, only) PROVE ReportInv'
  BY <1>3, <1>a DEF StartParsing, Begin
<1>4. ASSUME NEW o, NEW only, StartChunking(o, only) PROVE ReportInv'
  BY <1>4, <1>a DEF StartChunking, Begin
<1>5. CASE Clean \/ CleanWriteFails \/ Parse \/ ParseWriteFails
  BY <1>5, <1>a DEF Clean, CleanWriteFails, Parse, ParseWriteFails, Working
<1>6. CASE FinishCleaning
  <2>1. quiet' # 3
    BY <1>6 DEF FinishCleaning, Quietly, CorpusType
  <2> QED
    BY <2>1 DEF ReportInv
<1>7. CASE FinishParsing
  <2> DEFINE bad == \/ "failed" \in Range(job.results)
                    \/ \E l \in Laws : norm[l] # Absent /\ l \notin DOMAIN job.results
  <2>1. Quietly(2, bad)
    BY <1>7 DEF FinishParsing
  <2> HIDE DEF bad
  <2>2. quiet' # 3
    BY <2>1 DEF Quietly, CorpusType
  <2> QED
    BY <2>2 DEF ReportInv
<1>8. CASE Chunk
  <2>1. job \in ChunkJob /\ job.cmd = "chunk"
    BY <1>8, JobKinds DEF Chunk, Working
  <2>2. /\ job'.cmd = "chunk" /\ job'.written = job.written
        /\ UNCHANGED <<jsonl, report, quiet>>
    BY <1>8, <2>1 DEF Chunk, ChunkJob, output
  <2> QED
    BY <2>1, <2>2 DEF ReportInv
<1>9. CASE WriteChunks
  <2>1. job \in ChunkJob /\ job.cmd = "chunk"
    BY <1>9, JobKinds DEF WriteChunks, Writing
  <2>2. job'.cmd = "chunk" /\ job'.written
    BY <1>9, <2>1 DEF WriteChunks, ChunkJob
  <2> QED
    BY <2>2 DEF ReportInv
<1>10. CASE WriteReport
  <2>1. jsonl = job.lines
    BY <1>10 DEF WriteReport, Writing, ChunksInv
  <2>2. report' = ReportOf(jsonl) /\ jsonl' = jsonl
    BY <1>10, <2>1 DEF WriteReport
  <2>3. report' = ReportOf(jsonl')
    BY <2>2
  <2> QED
    BY <2>3 DEF ReportInv
<1>11. CASE Abort
  <2>1. quiet' = CASE job.cmd = "clean" -> 0
                   [] job.cmd = "parse" -> IF quiet > 1 THEN 1 ELSE quiet
                   [] OTHER -> IF quiet > 2 THEN 2 ELSE quiet
    BY <1>11, AbortKeeps
  <2>2. quiet' # 3
    BY <2>1 DEF CorpusType
  <2> QED
    BY <2>2 DEF ReportInv
<1>12. CASE UNCHANGED vars
  <2>1. UNCHANGED <<quiet, report, jsonl, job>>
    BY <1>12 DEF vars
  <2>2. ReportOf(jsonl') = ReportOf(jsonl)
    BY <2>1
  <2> QED
    BY <2>1, <2>2 DEF ReportInv
<1> QED
  BY <1>1, <1>2, <1>3, <1>4, <1>5, <1>6, <1>7, <1>8, <1>9, <1>10, <1>11, <1>12 DEF Next

-----------------------------------------------------------------------------
(* What chunking makes of a law passes the checks of a row.                *)

\* The nodes of a law that are chunked are units with what the validator looks for.
UnitFits(nodes, id) ==
  /\ id \in DOMAIN nodes /\ nodes[id].level \in {"article", "clause", "point"}
  /\ ArticleOf(nodes, id) \in DOMAIN nodes /\ nodes[ArticleOf(nodes, id)].level = "article"
  /\ nodes[id].level = "article" => ArticleOf(nodes, id) = id
  /\ nodes[id].level = "clause" => ArticleOf(nodes, id) = nodes[id].parent
  /\ nodes[id].level = "point" =>
       /\ nodes[id].parent \in DOMAIN nodes /\ nodes[nodes[id].parent].level = "clause"
       /\ ArticleOf(nodes, id) = nodes[nodes[id].parent].parent

\* The units that are chunked in a hierarchy the tree validator let through.
LEMMA UnitIs ==
    ASSUME NEW nodes, TreeFits(nodes), NEW id \in DOMAIN nodes, Chunked(nodes, id)
    PROVE  UnitFits(nodes, id)
<1>1. nodes[id].level \in {"article", "clause", "point"}
  BY DEF Chunked
<1>2. CASE nodes[id].level = "article"
  BY <1>1, <1>2 DEF UnitFits, ArticleOf
<1>3. CASE nodes[id].level = "clause"
  <2>1. HangsBelow(nodes, id, "article")
    BY <1>3 DEF TreeFits
  <2> QED
    BY <1>3, <2>1 DEF UnitFits, ArticleOf, HangsBelow
<1>4. CASE nodes[id].level = "point"
  <2>1. HangsBelow(nodes, id, "clause")
    BY <1>4 DEF TreeFits
  <2>2. HangsBelow(nodes, nodes[id].parent, "article")
    BY <2>1 DEF TreeFits, HangsBelow
  <2> QED
    BY <1>4, <2>1, <2>2 DEF UnitFits, ArticleOf, HangsBelow
<1> QED
  BY <1>1, <1>2, <1>3, <1>4

\* The text and the number of a unit.
LEMMA UnitTexts ==
    ASSUME NEW nodes, TreeFits(nodes), NEW id \in DOMAIN nodes,
           nodes[id].level \in {"article", "clause", "point"}
    PROVE  /\ id \notin Blank /\ nodes[id].number \notin Blank
           /\ nodes[id].text.chars \in Nat \ {0} /\ nodes[id].text.visible
           /\ nodes[id].text.repealed \in BOOLEAN
BY DEF TreeFits

\* What a row says.
RowSays(r, l, nodes, id) ==
  /\ DOMAIN r = Present \cup {"source_url"}
  /\ r.law_id = l /\ r.law_name = l /\ r.source_url = l
  /\ r.chunk_id = id /\ r.level = nodes[id].level /\ r.chunk_kind = Kind(nodes[id])
  /\ r.source_node_id = id /\ r.parent_article_node_id = ArticleOf(nodes, id)
  /\ r.hierarchy_path = id
  /\ r.article_number = nodes[ArticleOf(nodes, id)].number
  /\ r.clause_number = ClauseNumber(nodes, id) /\ r.point_label = PointLabel(nodes, id)
  /\ r.citation = {p \in {<<"article_number", nodes[ArticleOf(nodes, id)].number>>,
                          <<"clause_number", ClauseNumber(nodes, id)>>,
                          <<"point_label", PointLabel(nodes, id)>>} : p[2] # ""}
  /\ r.text = nodes[id].text /\ r.parent_text = nodes[ArticleOf(nodes, id)].text
  /\ r.text_hash = r.text /\ r.parent_text_hash = r.parent_text
  /\ r.metadata.given = Flags /\ r.metadata.empty = nodes[id].text.repealed
  /\ r.metadata.unit = nodes[id].text.repealed

LEMMA RowIs ==
    ASSUME NEW l, NEW nodes, NEW id
    PROVE  RowSays(Row(l, nodes, id), l, nodes, id)
BY DEF RowSays, Row, Present, Required

\* What chunking makes of law l in version v: the lines of its chunked nodes.
LineOf(l, nodes, id) == [line |-> "row", row |-> Row(l, nodes, id)]
ChunkLines(l, v) ==
  {LineOf(l, NodesOf(l, v), id) : id \in {n \in DOMAIN NodesOf(l, v) : Chunked(NodesOf(l, v), n)}}

\* the unit of a row: a chunked node and its article have what the rows are made of
RowStands(l, nodes, id) ==
  /\ l \notin Blank /\ id \notin Blank /\ id \in DOMAIN nodes
  /\ UnitFits(nodes, id)
  /\ nodes[id].number \notin Blank /\ nodes[id].text.chars \in Nat \ {0} /\ nodes[id].text.visible
  /\ nodes[id].text.repealed \in BOOLEAN
  /\ ArticleOf(nodes, id) \notin Blank /\ nodes[ArticleOf(nodes, id)].number \notin Blank
  /\ nodes[ArticleOf(nodes, id)].text.chars \in Nat \ {0}
  /\ nodes[ArticleOf(nodes, id)].text.visible
  /\ nodes[id].level = "point" => nodes[nodes[id].parent].number \notin Blank

\* What the tree validator lets through is what the rows are made of.
LEMMA RowStandsIs ==
    ASSUME NEW l \in Laws, NEW nodes, TreeFits(nodes),
           NEW id \in DOMAIN nodes, Chunked(nodes, id)
    PROVE  RowStands(l, nodes, id)
<1>1. UnitFits(nodes, id) /\ nodes[id].level \in {"article", "clause", "point"}
  BY UnitIs DEF Chunked
<1>2. /\ id \notin Blank /\ nodes[id].number \notin Blank
      /\ nodes[id].text.chars \in Nat \ {0} /\ nodes[id].text.visible
      /\ nodes[id].text.repealed \in BOOLEAN
  BY <1>1, UnitTexts
<1> DEFINE a == ArticleOf(nodes, id)
<1>3. a \in DOMAIN nodes /\ nodes[a].level = "article"
  BY <1>1 DEF UnitFits
<1>4. /\ a \notin Blank /\ nodes[a].number \notin Blank
      /\ nodes[a].text.chars \in Nat \ {0} /\ nodes[a].text.visible
  <2> HIDE DEF a
  <2> QED
    BY <1>3, UnitTexts
<1>5. ASSUME nodes[id].level = "point" PROVE nodes[nodes[id].parent].number \notin Blank
  <2> DEFINE p == nodes[id].parent
  <2>1. p \in DOMAIN nodes /\ nodes[p].level = "clause"
    BY <1>1, <1>5 DEF UnitFits
  <2> HIDE DEF p
  <2>2. nodes[p].number \notin Blank
    BY <2>1, UnitTexts
  <2> QED
    BY <2>2 DEF p
<1>6. l \notin Blank
  BY TreesAssumption
<1> QED
  BY <1>1, <1>2, <1>4, <1>5, <1>6 DEF RowStands

\* the numbers of a row's parts
LEMMA NumbersAre ==
    ASSUME NEW nodes, NEW id
    PROVE  /\ nodes[id].level = "clause" =>
                ClauseNumber(nodes, id) = nodes[id].number /\ PointLabel(nodes, id) = ""
           /\ nodes[id].level = "point" =>
                /\ ClauseNumber(nodes, id) = nodes[nodes[id].parent].number
                /\ PointLabel(nodes, id) = nodes[id].number
           /\ nodes[id].level = "article" =>
                ClauseNumber(nodes, id) = "" /\ PointLabel(nodes, id) = ""
BY DEF ClauseNumber, PointLabel

\* The kind of a chunk is that of the level of its unit.
LEMMA KindsAre ==
    ASSUME NEW l, NEW nodes, NEW id, RowStands(l, nodes, id)
    PROVE  /\ nodes[id].level = "clause" => Kind(nodes[id]) = "clause_level"
           /\ nodes[id].level = "point" => Kind(nodes[id]) = "point_level"
           /\ nodes[id].level = "article" =>
                Kind(nodes[id]) \in {"article_level", "article_level_empty"}
           /\ nodes[id].level \in {"article", "clause", "point"}
BY DEF Kind, RowStands, UnitFits

\* The schema lets a row of the chunker through.
LEMMA RowFits ==
    ASSUME NEW l, NEW nodes, NEW id, RowStands(l, nodes, id)
    PROVE  FitsModel(LineOf(l, nodes, id))
<1> DEFINE r == Row(l, nodes, id)  x == LineOf(l, nodes, id)
           a == ArticleOf(nodes, id)
           n == nodes[id].text.chars  m == nodes[a].text.chars
<1>1. x.line = "row" /\ x.row = r
  BY DEF LineOf
<1>2. RowSays(r, l, nodes, id)
  BY RowIs
<1>3. l # "" /\ id # "" /\ a # "" /\ nodes[a].number # ""
  BY DEF RowStands, Blank
<1>4. n \in Nat \ {0} /\ m \in Nat \ {0}
  BY DEF RowStands
<1>5. n > 0 /\ m > 0
  <2> HIDE DEF n, m
  <2> QED
    BY <1>4
<1>6. Kind(nodes[id]) # "" /\ nodes[id].level \in {"article", "clause", "point"}
  BY KindsAre
<1> HIDE DEF r, x
<1>7. r.citation # {}
  <2> DEFINE p == <<"article_number", nodes[a].number>>
             all == {p, <<"clause_number", ClauseNumber(nodes, id)>>,
                     <<"point_label", PointLabel(nodes, id)>>}
  <2>1. p[2] # "" /\ p \in all
    BY <1>3
  <2>2. r.citation = {q \in all : q[2] # ""}
    BY <1>2 DEF RowSays
  <2> HIDE DEF p, all
  <2> QED
    BY <2>1, <2>2
<1>8. \A f \in MinLength1 : r[f] # ""
  BY <1>2, <1>3, <1>6 DEF MinLength1, RowSays
<1>9. /\ DOMAIN r = Present \cup {"source_url"} /\ r.level = nodes[id].level
      /\ r.text = nodes[id].text /\ r.parent_text = nodes[a].text
  BY <1>2 DEF RowSays
<1>10. FitsSchema(r)
  BY <1>5, <1>6, <1>7, <1>8, <1>9 DEF FitsSchema
<1>11. \A f \in Present : ~ Lacks(r, f)
  BY <1>9 DEF Lacks
<1> QED
  BY <1>1, <1>10, <1>11 DEF FitsModel, x

\* Its required values are there.
LEMMA RowPasses ==
    ASSUME NEW l, NEW nodes, NEW id, RowStands(l, nodes, id)
    PROVE  Passes(LineOf(l, nodes, id))
<1> DEFINE r == Row(l, nodes, id)  x == LineOf(l, nodes, id)
           a == ArticleOf(nodes, id)
<1>1. FitsModel(x) /\ x.row = r
  BY RowFits DEF LineOf
<1>2. RowSays(r, l, nodes, id)
  BY RowIs
<1>3. /\ nodes[a].number # "" /\ nodes[id].number # ""
      /\ nodes[id].level = "point" => nodes[nodes[id].parent].number # ""
      /\ nodes[id].text.chars # 0 /\ nodes[a].text.chars # 0
  BY DEF RowStands, Blank
<1> HIDE DEF r, x
<1>4. \A h \in Hashes : r[h].chars # 0
  BY <1>2, <1>3 DEF Hashes, RowSays
<1>5. \A f \in NumbersOf(r.chunk_kind) : r[f] # ""
  <2>1. /\ r.chunk_kind = Kind(nodes[id]) /\ r.article_number # ""
        /\ r.clause_number = ClauseNumber(nodes, id) /\ r.point_label = PointLabel(nodes, id)
    BY <1>2, <1>3 DEF RowSays
  <2>2. CASE nodes[id].level = "clause"
    <3>0. Kind(nodes[id]) = "clause_level" /\ ClauseNumber(nodes, id) = nodes[id].number
      <4>1. Kind(nodes[id]) = "clause_level"
        BY <2>2, KindsAre
      <4> QED
        BY <2>2, <4>1, NumbersAre
    <3>1. r.chunk_kind = "clause_level" /\ r.clause_number # ""
      BY <1>3, <2>1, <3>0
    <3>2. NumbersOf(r.chunk_kind) = {"article_number", "clause_number"}
      BY <3>1 DEF NumbersOf, Conditional
    <3> QED
      BY <2>1, <3>1, <3>2
  <2>3. CASE nodes[id].level = "point"
    <3>0. /\ Kind(nodes[id]) = "point_level" /\ PointLabel(nodes, id) = nodes[id].number
          /\ ClauseNumber(nodes, id) = nodes[nodes[id].parent].number
      <4>1. Kind(nodes[id]) = "point_level"
        BY <2>3, KindsAre
      <4> QED
        BY <2>3, <4>1, NumbersAre
    <3>1. r.chunk_kind = "point_level" /\ r.clause_number # "" /\ r.point_label # ""
      BY <1>3, <2>1, <2>3, <3>0
    <3>2. NumbersOf(r.chunk_kind) = {"article_number", "clause_number", "point_label"}
      BY <3>1 DEF NumbersOf, Conditional
    <3> QED
      BY <2>1, <3>1, <3>2
  <2>4. CASE nodes[id].level = "article"
    <3>1. r.chunk_kind \in {"article_level", "article_level_empty"}
      BY <2>1, <2>4, KindsAre
    <3>2. NumbersOf(r.chunk_kind) \subseteq {"article_number"}
      BY <3>1 DEF NumbersOf, Conditional
    <3> QED
      BY <2>1, <3>2
  <2> QED
    BY <2>2, <2>3, <2>4, KindsAre
<1>6. ~ ValuesMissing(r)
  BY <1>4, <1>5 DEF ValuesMissing
<1> QED
  BY <1>1, <1>6 DEF Passes, x

\* Its citation names every number the validator looks for.
LEMMA RowCites ==
    ASSUME NEW l, NEW nodes, NEW id, RowStands(l, nodes, id)
    PROVE  CitationErrors(Row(l, nodes, id)) = {}
<1> DEFINE r == Row(l, nodes, id)
           all == {<<"article_number", r.article_number>>, <<"clause_number", r.clause_number>>,
                   <<"point_label", r.point_label>>}
<1>1. r.citation = {p \in all : p[2] # ""}
  <2>1. RowSays(r, l, nodes, id)
    BY RowIs
  <2> HIDE DEF r
  <2> QED
    BY <2>1 DEF RowSays
<1>2. CitationErrors(r) = {p \in all : p[1] \in Conditional(r.chunk_kind) /\ p[2] # "" /\ p \notin r.citation}
  BY DEF CitationErrors
<1> HIDE DEF r, all
<1> QED
  BY <1>1, <1>2 DEF r

\* It can be traced: its source and its article are nodes of the hierarchy, of the right
\* levels, with the numbers and the parents it gives.
LEMMA RowTraces ==
    ASSUME NEW l, NEW nodes, NEW id, RowStands(l, nodes, id)
    PROVE  ~ Untraceable(Row(l, nodes, id), nodes)
<1> DEFINE r == Row(l, nodes, id)
<1>1. RowSays(r, l, nodes, id)
  BY RowIs
<1> HIDE DEF r
<1>2. /\ r.source_node_id = id /\ r.parent_article_node_id = ArticleOf(nodes, id)
      /\ r.chunk_kind = Kind(nodes[id])
      /\ r.article_number = nodes[ArticleOf(nodes, id)].number
      /\ r.clause_number = ClauseNumber(nodes, id) /\ r.point_label = PointLabel(nodes, id)
  BY <1>1 DEF RowSays
<1>3. UnitFits(nodes, id) /\ id \in DOMAIN nodes
  BY DEF RowStands
<1>4. ~ SourceErrors(r, nodes)
  <2>1. CASE nodes[id].level = "clause"
    <3>1. ArticleOf(nodes, id) = nodes[id].parent
      BY <1>3, <2>1 DEF UnitFits
    <3>2. Kind(nodes[id]) = "clause_level" /\ ClauseNumber(nodes, id) = nodes[id].number
      <4>1. Kind(nodes[id]) = "clause_level"
        BY <2>1, KindsAre
      <4> QED
        BY <2>1, <4>1, NumbersAre
    <3>3. SourceErrors(r, nodes) =
            (\/ nodes[id].level # "clause" \/ Differs(nodes[id].number, r.clause_number)
             \/ Differs(nodes[id].parent, r.parent_article_node_id))
      BY <1>2, <3>2 DEF SourceErrors
    <3> QED
      BY <1>2, <2>1, <3>1, <3>2, <3>3 DEF Differs
  <2>2. CASE nodes[id].level = "point"
    <3>1. /\ nodes[id].parent \in DOMAIN nodes /\ nodes[nodes[id].parent].level = "clause"
          /\ ArticleOf(nodes, id) = nodes[nodes[id].parent].parent
      BY <1>3, <2>2 DEF UnitFits
    <3>2. /\ Kind(nodes[id]) = "point_level" /\ PointLabel(nodes, id) = nodes[id].number
          /\ ClauseNumber(nodes, id) = nodes[nodes[id].parent].number
      <4>1. Kind(nodes[id]) = "point_level"
        BY <2>2, KindsAre
      <4> QED
        BY <2>2, <4>1, NumbersAre
    <3> DEFINE up == nodes[id].parent
    <3>3. SourceErrors(r, nodes) =
            (\/ nodes[id].level # "point" \/ Differs(nodes[id].number, r.point_label)
             \/ /\ up # ""
                /\ IF up \notin DOMAIN nodes THEN TRUE
                   ELSE \/ nodes[up].level # "clause" \/ Differs(nodes[up].number, r.clause_number)
                        \/ Differs(nodes[up].parent, r.parent_article_node_id))
      BY <1>2, <3>2 DEF SourceErrors
    <3> QED
      BY <1>2, <2>2, <3>1, <3>2, <3>3 DEF Differs
  <2>3. CASE nodes[id].level = "article"
    <3>1. ArticleOf(nodes, id) = id
      BY <1>3, <2>3 DEF UnitFits
    <3>2. Kind(nodes[id]) \in {"article_level", "article_level_empty"}
      BY <2>3, KindsAre
    <3> QED
      BY <1>2, <2>3, <3>1, <3>2 DEF SourceErrors, Differs
  <2> QED
    BY <2>1, <2>2, <2>3, KindsAre
<1>5. ArticleOf(nodes, id) \in DOMAIN nodes /\ nodes[ArticleOf(nodes, id)].level = "article"
  BY <1>3 DEF UnitFits
<1> QED
  BY <1>2, <1>3, <1>4, <1>5 DEF Untraceable, Differs, r

\* What was repealed is marked in its metadata.
LEMMA RowIsMarked ==
    ASSUME NEW l, NEW nodes, NEW id, RowStands(l, nodes, id)
    PROVE  ~ RepealLost(Row(l, nodes, id))
<1> DEFINE r == Row(l, nodes, id)
<1>1. RowSays(r, l, nodes, id)
  BY RowIs
<1> HIDE DEF r
<1>2. /\ r.text = nodes[id].text /\ r.parent_text = nodes[ArticleOf(nodes, id)].text
      /\ r.metadata.empty = nodes[id].text.repealed /\ r.chunk_kind = Kind(nodes[id])
  BY <1>1 DEF RowSays
<1>3. nodes[id].level = "article" => ArticleOf(nodes, id) = id
  BY DEF RowStands, UnitFits
<1>4. nodes[id].level # "article" => r.chunk_kind \notin {"article_level", "article_level_empty"}
  BY <1>2, KindsAre
<1> QED
  BY <1>2, <1>3, <1>4 DEF RepealLost, Marked, r

\* The fields an index needs are there.
LEMMA RowIsLoaded ==
    ASSUME NEW l, NEW nodes, NEW id, RowStands(l, nodes, id)
    PROVE  PayloadFailures(Row(l, nodes, id)) = {}
<1> DEFINE r == Row(l, nodes, id)
<1>1. RowSays(r, l, nodes, id)
  BY RowIs
<1>2. FitsModel(LineOf(l, nodes, id)) /\ LineOf(l, nodes, id).row = r
  BY RowFits DEF LineOf
<1> HIDE DEF r
<1>3. DOMAIN r = Present \cup {"source_url"} /\ r.citation # {}
  BY <1>1, <1>2 DEF RowSays, FitsModel, FitsSchema
<1>4. /\ l \notin Blank /\ id \notin Blank /\ ArticleOf(nodes, id) \notin Blank
      /\ nodes[ArticleOf(nodes, id)].number \notin Blank /\ nodes[id].number \notin Blank
      /\ nodes[id].level = "point" => nodes[nodes[id].parent].number \notin Blank
      /\ nodes[id].text.visible /\ nodes[ArticleOf(nodes, id)].text.visible
  BY DEF RowStands
<1>5. Kind(nodes[id]) \notin Blank /\ nodes[id].level \notin Blank
  BY KindsAre DEF Blank
<1>6. \A f \in {"law_id", "chunk_id", "chunk_kind", "level", "hierarchy_path",
                "source_node_id", "parent_article_node_id", "article_number"} : r[f] \notin Blank
  BY <1>1, <1>4, <1>5, ZenonT(30) DEF RowSays
<1>7. \A f \in Strings : Empty(r, f) <=> r[f] \in Blank
  BY DEF Empty, Strings, Hashes
<1>8. ~ Empty(r, "citation") /\ ~ Empty(r, "metadata")
      /\ ~ Empty(r, "text_hash") /\ ~ Empty(r, "parent_text_hash")
  <2>1. ~ Empty(r, "citation")
    BY <1>3 DEF Empty, Strings, Hashes
  <2>2. ~ Empty(r, "metadata")
    <3>1. NoMetadata(r.metadata) = FALSE
      BY <1>1 DEF RowSays, NoMetadata, Flags
    <3> QED
      BY <3>1 DEF Empty, Strings, Hashes
  <2>3. ~ Empty(r, "text_hash") /\ ~ Empty(r, "parent_text_hash")
    <3>1. r.text_hash.visible /\ r.parent_text_hash.visible
      BY <1>1, <1>4 DEF RowSays
    <3> QED
      BY <3>1 DEF Empty, Strings, Hashes
  <2> QED
    BY <2>1, <2>2, <2>3
<1>9. \A f \in Required : ~ LacksValue(r, f)
  <2>1. \A f \in Required : ~ Lacks(r, f)
    BY <1>3 DEF Lacks, Present
  <2>2. Required = {"law_id", "chunk_id", "chunk_kind", "level", "hierarchy_path",
                    "source_node_id", "parent_article_node_id"}
                   \cup {"citation", "metadata", "text_hash", "parent_text_hash"}
    BY DEF Required
  <2>3. {"law_id", "chunk_id", "chunk_kind", "level", "hierarchy_path",
         "source_node_id", "parent_article_node_id"} \subseteq Strings
    BY DEF Strings, Present, Required
  <2> QED
    BY <1>6, <1>7, <1>8, <2>1, <2>2, <2>3 DEF LacksValue
<1>10. \A f \in Conditional(r.chunk_kind) : ~ LacksValue(r, f)
  <2>1. {"article_number", "clause_number", "point_label"} \subseteq Strings
        /\ \A f \in {"article_number", "clause_number", "point_label"} : ~ Lacks(r, f)
    BY <1>3 DEF Strings, Present, Lacks
  <2>2. /\ r.chunk_kind = Kind(nodes[id])
        /\ r.clause_number = ClauseNumber(nodes, id) /\ r.point_label = PointLabel(nodes, id)
    BY <1>1 DEF RowSays
  <2>3. CASE nodes[id].level = "clause"
    <3>1. r.chunk_kind = "clause_level" /\ r.clause_number \notin Blank
      BY <1>4, <2>2, <2>3, NumbersAre, KindsAre
    <3>2. Conditional(r.chunk_kind) = {"article_number", "clause_number"}
      BY <3>1 DEF Conditional
    <3> QED
      BY <1>6, <1>7, <2>1, <3>1, <3>2 DEF LacksValue
  <2>4. CASE nodes[id].level = "point"
    <3>1. r.chunk_kind = "point_level" /\ r.clause_number \notin Blank /\ r.point_label \notin Blank
      BY <1>4, <2>2, <2>4, NumbersAre, KindsAre
    <3>2. Conditional(r.chunk_kind) = {"article_number", "clause_number", "point_label"}
      BY <3>1 DEF Conditional
    <3> QED
      BY <1>6, <1>7, <2>1, <3>1, <3>2 DEF LacksValue
  <2>5. CASE nodes[id].level = "article"
    <3>1. r.chunk_kind \in {"article_level", "article_level_empty"}
      BY <2>2, <2>5, KindsAre
    <3>2. Conditional(r.chunk_kind) = {"article_number"}
      BY <3>1 DEF Conditional
    <3> QED
      BY <1>6, <1>7, <2>1, <3>2 DEF LacksValue
  <2> QED
    BY <2>3, <2>4, <2>5, KindsAre
<1> QED
  BY <1>9, <1>10 DEF PayloadFailures, r

\* Only the page's own text can be wrong in a row that no row before it has the id of.
LEMMA RowIsRight ==
    ASSUME NEW l, NEW nodes, NEW id, RowStands(l, nodes, id), NEW seen, id \notin seen,
           NEW hierarchy, l \in DOMAIN hierarchy, hierarchy[l] = nodes
    PROVE  ErrorsOf(LineOf(l, nodes, id), seen, hierarchy) \subseteq {"contamination_failures"}
<1> DEFINE r == Row(l, nodes, id)
<1>1. Passes(LineOf(l, nodes, id)) /\ LineOf(l, nodes, id).row = r
  BY RowPasses DEF LineOf
<1>2. /\ CitationErrors(r) = {} /\ ~ Untraceable(r, nodes) /\ ~ RepealLost(r)
      /\ PayloadErrors(r) = {}
  BY RowCites, RowTraces, RowIsMarked, RowIsLoaded DEF PayloadErrors
<1>3. RowSays(r, l, nodes, id)
  BY RowIs
<1> HIDE DEF r
<1>4. /\ r.chunk_id \notin seen /\ r.text_hash = r.text /\ r.parent_text_hash = r.parent_text
      /\ r.law_id = l /\ r.text.visible
  BY <1>3 DEF RowSays, RowStands
<1>5. RowErrors(r, seen, hierarchy) \subseteq {"contamination_failures"}
  BY <1>2, <1>4 DEF RowErrors
<1> QED
  BY <1>1, <1>5 DEF ErrorsOf

\* Lines of T whose ids are among ids, each once.
Keyed(lines, T, ids) ==
  /\ lines \in Seq(T)
  /\ \A i \in DOMAIN lines : lines[i].row.chunk_id \in ids
  /\ \A i, j \in DOMAIN lines : lines[i].row.chunk_id = lines[j].row.chunk_id => i = j

\* Two such sequences without an id in common are one together.
LEMMA KeyedJoin ==
    ASSUME NEW T, NEW A, NEW B, NEW a, NEW b, Keyed(a, T, A), Keyed(b, T, B), A \cap B = {}
    PROVE  Keyed(a \o b, T, A \cup B)
<1> DEFINE c == a \o b  m == Len(a)  n == Len(b)
<1>1. /\ a \in Seq(T) /\ b \in Seq(T) /\ m \in Nat /\ n \in Nat
      /\ DOMAIN a = 1 .. m /\ DOMAIN b = 1 .. n
  BY DEF Keyed
<1>2. /\ c \in Seq(T) /\ DOMAIN c = 1 .. m + n
      /\ \A i \in 1 .. m : c[i] = a[i]
      /\ \A i \in m + 1 .. m + n : c[i] = b[i - m]
  BY <1>1
<1> HIDE DEF c
<1>3. \A i \in 1 .. m : c[i].row.chunk_id = a[i].row.chunk_id /\ c[i].row.chunk_id \in A
  BY <1>1, <1>2 DEF Keyed
<1>4. \A i \in m + 1 .. m + n : /\ i - m \in 1 .. n
                                /\ c[i].row.chunk_id = b[i - m].row.chunk_id
                                /\ c[i].row.chunk_id \in B
  <2> SUFFICES ASSUME NEW i \in m + 1 .. m + n
               PROVE  /\ i - m \in 1 .. n
                      /\ c[i].row.chunk_id = b[i - m].row.chunk_id
                      /\ c[i].row.chunk_id \in B
    OBVIOUS
  <2>1. i - m \in 1 .. n
    <3> HIDE DEF m, n
    <3> QED
      BY <1>1
  <2>2. c[i] = b[i - m]
    BY <1>2
  <2> QED
    BY <1>1, <2>1, <2>2 DEF Keyed
<1>5. \A i \in DOMAIN c : i \in 1 .. m \/ i \in m + 1 .. m + n
  <2> HIDE DEF m, n
  <2> QED
    BY <1>1, <1>2
<1>6. \A i \in DOMAIN c : c[i].row.chunk_id \in A \cup B
  BY <1>3, <1>4, <1>5
<1>7. ASSUME NEW i \in DOMAIN c, NEW j \in DOMAIN c, c[i].row.chunk_id = c[j].row.chunk_id
      PROVE  i = j
  <2>1. CASE i \in 1 .. m /\ j \in 1 .. m
    BY <1>1, <1>3, <1>7, <2>1 DEF Keyed
  <2>2. CASE i \in m + 1 .. m + n /\ j \in m + 1 .. m + n
    <3>1. i - m = j - m
      BY <1>1, <1>4, <1>7, <2>2 DEF Keyed
    <3> HIDE DEF m, n
    <3> QED
      BY <1>1, <2>2, <3>1
  <2>3. CASE (i \in 1 .. m /\ j \in m + 1 .. m + n) \/ (j \in 1 .. m /\ i \in m + 1 .. m + n)
    BY <1>3, <1>4, <1>7, <2>3
  <2> QED
    BY <1>5, <2>1, <2>2, <2>3
<1> QED
  BY <1>2, <1>6, <1>7 DEF Keyed, c

\* Such a sequence is one of more lines and more ids too.
LEMMA KeyedMore ==
    ASSUME NEW T, NEW A, NEW a, Keyed(a, T, A), NEW U, T \subseteq U, NEW B, A \subseteq B
    PROVE  Keyed(a, U, B)
BY DEF Keyed

\* The empty sequence is one.
LEMMA KeyedNone ==
    ASSUME NEW T, NEW A
    PROVE  Keyed(<< >>, T, A)
<1>1. << >> \in Seq(T) /\ DOMAIN << >> = {}
  OBVIOUS
<1> QED
  BY <1>1 DEF Keyed

\* Sequences whose ids have nothing in common are joined to one without an id twice.
LEMMA KeyedJoined ==
    ASSUME NEW T, NEW parts \in Seq(Seq(T)), NEW own,
           \A i \in 1 .. Len(parts) : Keyed(parts[i], T, own[i]),
           \A i, j \in 1 .. Len(parts) : i # j => own[i] \cap own[j] = {},
           NEW all, \A i \in 1 .. Len(parts) : own[i] \subseteq all
    PROVE  Keyed(Joined(parts, Len(parts)), T, all)
<1> DEFINE N == Len(parts)
           Ids(n) == UNION {own[i] : i \in 1 .. n}
           Good(n) == Keyed(Joined(parts, n), T, Ids(n))
           Bad == {n \in Nat : n <= N /\ ~ Good(n)}
<1>0. /\ Joined(parts, 0) = << >> /\ N \in Nat
      /\ \A n \in 1 .. N : Joined(parts, n) = Joined(parts, n - 1) \o parts[n]
  <2>1. N \in Nat
    OBVIOUS
  <2>2. /\ Joined(parts, 0) = << >>
        /\ \A n \in 1 .. Len(parts) : Joined(parts, n) = Joined(parts, n - 1) \o parts[n]
    BY JoinedDef
  <2> QED
    BY <2>1, <2>2, Zenon
<1>1. Bad = {}
  <2> SUFFICES ASSUME Bad # {} PROVE FALSE
    OBVIOUS
  <2>1. PICK n \in Bad : \A k \in Bad : n <= k
    BY LeastNumber
  <2>2. n \in Nat /\ n <= N /\ ~ Good(n)
    BY <2>1
  <2>3. Good(0)
    BY <1>0, KeyedNone
  <2>4. n # 0
    <3> HIDE DEF Good
    <3> QED
      BY <2>2, <2>3
  <2>5. n \in 1 .. N /\ n - 1 \in Nat /\ n - 1 <= N /\ n - 1 < n
    BY <1>0, <2>2, <2>4
  <2>6. Good(n - 1)
    <3> HIDE DEF Good
    <3> QED
      BY <1>0, <2>1, <2>2, <2>5
  <2>7. Ids(n) = Ids(n - 1) \cup own[n]
    <3>1. 1 .. n = (1 .. n - 1) \cup {n}
      BY <2>2, <2>4
    <3> QED
      BY <3>1
  <2>8. Ids(n - 1) \cap own[n] = {}
    <3>1. \A i \in 1 .. n - 1 : i \in 1 .. N /\ i # n
      BY <1>0, <2>5
    <3> QED
      BY <2>5, <3>1
  <2>9. Joined(parts, n) = Joined(parts, n - 1) \o parts[n]
    BY <1>0, <2>5
  <2>10. Keyed(parts[n], T, own[n])
    BY <2>5
  <2> HIDE DEF Ids, Bad
  <2>11. Good(n)
    BY <2>6, <2>7, <2>8, <2>9, <2>10, KeyedJoin
  <2> QED
    BY <2>2, <2>11
<1>2. N \in Nat /\ N <= N
  BY <1>0
<1>3. Good(N)
  <2> HIDE DEF Good, N
  <2> QED
    BY <1>1, <1>2
<1>4. Ids(N) \subseteq all
  <2> SUFFICES ASSUME NEW i \in 1 .. N PROVE own[i] \subseteq all
    BY Zenon
  <2> QED
    OBVIOUS
<1> HIDE DEF Ids
<1> QED
  BY <1>3, <1>4, KeyedMore

\* The chunks of a law have the ids of its nodes, each once.
LEMMA RowsOfKeyed ==
    ASSUME NEW l \in Laws, NEW v \in Versions
    PROVE  Keyed(RowsOf(l, v), ChunkLines(l, v), DOMAIN NodesOf(l, v))
<1> DEFINE nodes == NodesOf(l, v)
           order == Fate[l][v].order
           RowOf(id) == IF Chunked(nodes, id) THEN <<[line |-> "row", row |-> Row(l, nodes, id)]>>
                        ELSE << >>
           parts == [i \in DOMAIN order |-> RowOf(order[i])]
           own == [i \in DOMAIN order |-> {order[i]}]
           T == ChunkLines(l, v)
<1>1. order \in Seq(DOMAIN nodes)
  BY FateAssumption DEF NodesOf
<1>2. DOMAIN order = 1 .. Len(order) /\ Len(order) \in Nat
  BY <1>1
<1>3. \A i \in 1 .. Len(order) : order[i] \in DOMAIN nodes
  BY <1>1
<1>4. ASSUME NEW id \in DOMAIN nodes PROVE Keyed(RowOf(id), T, {id})
  <2>1. CASE ~ Chunked(nodes, id)
    BY <2>1, KeyedNone
  <2>2. CASE Chunked(nodes, id)
    <3> DEFINE x == [line |-> "row", row |-> Row(l, nodes, id)]
    <3>1. x \in T
      BY <2>2 DEF ChunkLines, LineOf
    <3>2. x.row.chunk_id = id
      <4> DEFINE r == Row(l, nodes, id)
      <4>1. RowSays(r, l, nodes, id)
        BY RowIs
      <4>2. x.row = r
        OBVIOUS
      <4> HIDE DEF r, x
      <4> QED
        BY <4>1, <4>2 DEF RowSays
    <3>3. RowOf(id) = <<x>>
      BY <2>2
    <3> HIDE DEF x, RowOf, T
    <3>4. <<x>> \in Seq(T) /\ DOMAIN <<x>> = {1} /\ <<x>>[1] = x
      BY <3>1
    <3> QED
      BY <3>2, <3>3, <3>4 DEF Keyed
  <2> QED
    BY <2>1, <2>2
<1> HIDE DEF RowOf, nodes, order, T
<1>5. \A i \in 1 .. Len(order) : parts[i] = RowOf(order[i]) /\ own[i] = {order[i]}
  BY <1>2
<1>6. \A i \in 1 .. Len(order) : Keyed(parts[i], T, own[i])
  BY <1>3, <1>4, <1>5
<1>7. parts \in Seq(Seq(T)) /\ Len(parts) = Len(order)
  <2>1. \A i \in 1 .. Len(order) : RowOf(order[i]) \in Seq(T)
    BY <1>5, <1>6 DEF Keyed
  <2> QED
    BY <1>2, <2>1
<1>8. \A i, j \in DOMAIN order : order[i] = order[j] => i = j
  BY TreesAssumption DEF order
<1>9. \A i, j \in 1 .. Len(order) : i # j => own[i] \cap own[j] = {}
  BY <1>2, <1>5, <1>8
<1>10. RowsOf(l, v) = Joined(parts, Len(order))
  BY DEF RowsOf, RowOf, nodes, order
<1> HIDE DEF parts, own
<1>11. \A i \in 1 .. Len(order) : own[i] \subseteq DOMAIN nodes
  BY <1>3, <1>5
<1>12. Keyed(Joined(parts, Len(parts)), T, DOMAIN nodes)
  <2> DEFINE n == Len(order)  all == DOMAIN nodes
  <2>1. /\ \A i \in 1 .. n : Keyed(parts[i], T, own[i]) /\ own[i] \subseteq all
        /\ \A i, j \in 1 .. n : i # j => own[i] \cap own[j] = {}
        /\ Len(parts) = n /\ parts \in Seq(Seq(T))
    BY <1>6, <1>7, <1>9, <1>11
  <2> HIDE DEF n, all
  <2>2. /\ \A i \in 1 .. Len(parts) : Keyed(parts[i], T, own[i])
        /\ \A i, j \in 1 .. Len(parts) : i # j => own[i] \cap own[j] = {}
        /\ \A i \in 1 .. Len(parts) : own[i] \subseteq all
    BY <2>1
  <2>3. Keyed(Joined(parts, Len(parts)), T, all)
    BY <2>1, <2>2, KeyedJoined
  <2> QED
    BY <2>3 DEF all
<1>13. Keyed(RowsOf(l, v), T, DOMAIN nodes)
  BY <1>7, <1>10, <1>12
<1> QED
  BY <1>13 DEF T, nodes

\* The chunks of the laws have the ids of their nodes, each once.
LEMMA AllRowsKeyed ==
    ASSUME NEW source \in [Laws -> Versions]
    PROVE  Keyed(AllRows(source), UNION {ChunkLines(l, source[l]) : l \in Laws},
                 UNION {DOMAIN NodesOf(l, source[l]) : l \in Laws})
<1> DEFINE parts == [i \in DOMAIN LawOrder |-> RowsIn(source, LawOrder[i])]
           own == [i \in DOMAIN LawOrder |-> DOMAIN NodesOf(LawOrder[i], source[LawOrder[i]])]
           T == UNION {ChunkLines(l, source[l]) : l \in Laws}
           all == UNION {DOMAIN NodesOf(l, source[l]) : l \in Laws}
           n == Len(LawOrder)
<1>1. n \in Nat /\ DOMAIN LawOrder = 1 .. n /\ \A i \in 1 .. n : LawOrder[i] \in Laws
  BY LawOrderIs
<1>2. \A i \in 1 .. n :
        /\ parts[i] = RowsOf(LawOrder[i], source[LawOrder[i]])
        /\ own[i] = DOMAIN NodesOf(LawOrder[i], source[LawOrder[i]])
  BY <1>1 DEF RowsIn, Readable
<1> HIDE DEF parts, own, n
<1>3. ASSUME NEW i \in 1 .. n PROVE Keyed(parts[i], T, own[i]) /\ own[i] \subseteq all
  <2> DEFINE l == LawOrder[i]
  <2>1. l \in Laws /\ source[l] \in Versions
    BY <1>1
  <2>2. parts[i] = RowsOf(l, source[l]) /\ own[i] = DOMAIN NodesOf(l, source[l])
    BY <1>2
  <2> HIDE DEF l
  <2>3. Keyed(parts[i], ChunkLines(l, source[l]), own[i])
    BY <2>1, <2>2, RowsOfKeyed
  <2>4. ChunkLines(l, source[l]) \subseteq T /\ own[i] \subseteq all
    BY <2>1, <2>2
  <2> HIDE DEF T
  <2> QED
    BY <2>3, <2>4, KeyedMore
<1>4. ASSUME NEW i \in 1 .. n, NEW j \in 1 .. n, i # j PROVE own[i] \cap own[j] = {}
  <2>1. LawOrder[i] # LawOrder[j] /\ LawOrder[i] \in Laws /\ LawOrder[j] \in Laws
    BY <1>1, <1>4, LawsAssumption
  <2>2. source[LawOrder[i]] \in Versions /\ source[LawOrder[j]] \in Versions
    BY <2>1
  <2> DEFINE k == LawOrder[i]  l == LawOrder[j]  v == source[k]  w == source[l]
  <2>3. k # l /\ k \in Laws /\ l \in Laws /\ v \in Versions /\ w \in Versions
    BY <2>1, <2>2
  <2>4. own[i] = DOMAIN NodesOf(k, v) /\ own[j] = DOMAIN NodesOf(l, w)
    BY <1>2
  <2> HIDE DEF k, l, v, w
  <2>5. DOMAIN Fate[k][v].nodes \cap DOMAIN Fate[l][w].nodes = {}
    BY <2>3, TreesAssumption
  <2> QED
    BY <2>4, <2>5 DEF NodesOf
<1> HIDE DEF T, all
<1>5. parts \in Seq(Seq(T)) /\ Len(parts) = n
  <2>1. DOMAIN parts = 1 .. n
    BY <1>1 DEF parts
  <2>2. \A i \in 1 .. n : parts[i] \in Seq(T)
    BY <1>3 DEF Keyed
  <2>3. parts = [i \in 1 .. n |-> parts[i]]
    BY <1>1 DEF parts
  <2> QED
    BY <1>1, <2>1, <2>2, <2>3
<1>6. /\ \A i \in 1 .. Len(parts) : Keyed(parts[i], T, own[i])
      /\ \A i, j \in 1 .. Len(parts) : i # j => own[i] \cap own[j] = {}
      /\ \A i \in 1 .. Len(parts) : own[i] \subseteq all
  BY <1>3, <1>4, <1>5
<1>7. Keyed(Joined(parts, Len(parts)), T, all)
  BY <1>5, <1>6, KeyedJoined
<1>9. AllRows(source) = Joined(parts, Len(parts))
  BY <1>5 DEF AllRows, RowsUpTo, parts, n
<1>10. Keyed(AllRows(source), T, all)
  BY <1>7, <1>9
<1> QED
  BY <1>10 DEF T, all

\* A line of the chunker is one of a chunked unit of its law.
LEMMA ChunkLineIs ==
    ASSUME NEW source \in [Laws -> Versions],
           NEW x \in UNION {ChunkLines(l, source[l]) : l \in Laws}
    PROVE  \E l \in Laws : \E id :
             /\ x = LineOf(l, NodesOf(l, source[l]), id)
             /\ RowStands(l, NodesOf(l, source[l]), id)
<1>1. PICK l \in Laws : x \in ChunkLines(l, source[l])
  OBVIOUS
<1> DEFINE nodes == NodesOf(l, source[l])
<1>2. PICK id \in DOMAIN nodes : Chunked(nodes, id) /\ x = LineOf(l, nodes, id)
  BY <1>1 DEF ChunkLines
<1>3. TreeFits(nodes)
  <2>1. source[l] \in Versions
    OBVIOUS
  <2> QED
    BY <2>1, TreesAssumption DEF NodesOf
<1> HIDE DEF nodes
<1>4. RowStands(l, nodes, id)
  BY <1>2, <1>3, RowStandsIs
<1> QED
  BY <1>2, <1>4 DEF nodes

\* In a file without an id twice, no row has the id of one before it.
LEMMA NewId ==
    ASSUME NEW lines, NEW T, NEW ids, Keyed(lines, T, ids), NEW i \in DOMAIN lines
    PROVE  lines[i].row.chunk_id \notin IdsBefore(lines, i)
<1>1. DOMAIN lines = 1 .. Len(lines) /\ Len(lines) \in Nat
  BY DEF Keyed
<1>2. ASSUME NEW j \in 1 .. i - 1 PROVE j \in DOMAIN lines /\ j # i
  BY <1>1
<1> QED
  BY <1>2 DEF IdsBefore, Keyed

\* After a quiet pass the validator finds no fault in the file but the page's own text.
LEMMA QuietPassValidates ==
    ASSUME CorpusType, StagesInv, ChunksInv, ReportInv
    PROVE  CurrentCorpusValidates
<1> SUFFICES ASSUME quiet = 3, job = Idle
             PROVE  /\ Validated.failures \subseteq {"contamination_failures"}
                    /\ Validated.reconciled
  BY DEF CurrentCorpusValidates
<1> USE DEF Idle
<1>1. jsonl = AllRows(raw) /\ report = ReportOf(jsonl) /\ raw \in [Laws -> Versions]
  BY DEF ChunksInv, ReportInv, CorpusType
<1>2. \A l \in Laws : hier[l] = raw[l]
  BY DEF StagesInv
<1>3. \A l \in Laws : l \in DOMAIN Hierarchy /\ Hierarchy[l] = NodesOf(l, raw[l])
  BY <1>1, <1>2 DEF Hierarchy, Readable
<1> DEFINE T == UNION {ChunkLines(l, raw[l]) : l \in Laws}
           ids == UNION {DOMAIN NodesOf(l, raw[l]) : l \in Laws}
<1>4. Keyed(jsonl, T, ids)
  BY <1>1, AllRowsKeyed
<1>5. ASSUME NEW i \in DOMAIN jsonl
      PROVE  /\ FitsModel(jsonl[i])
             /\ ErrorsOf(jsonl[i], IdsBefore(jsonl, i), Hierarchy) \subseteq {"contamination_failures"}
  <2>1. jsonl[i] \in T
    <3> HIDE DEF T
    <3> QED
      BY <1>4 DEF Keyed
  <2>2. \E l \in Laws : \E id : /\ jsonl[i] = LineOf(l, NodesOf(l, raw[l]), id)
                                /\ RowStands(l, NodesOf(l, raw[l]), id)
    <3> DEFINE x == jsonl[i]
    <3>1. x \in T
      BY <2>1
    <3> HIDE DEF x
    <3>2. \E l \in Laws : \E id : /\ x = LineOf(l, NodesOf(l, raw[l]), id)
                                  /\ RowStands(l, NodesOf(l, raw[l]), id)
      BY <1>1, <3>1, ChunkLineIs
    <3> QED
      BY <3>2 DEF x
  <2>3. PICK l \in Laws : \E id : /\ jsonl[i] = LineOf(l, NodesOf(l, raw[l]), id)
                                  /\ RowStands(l, NodesOf(l, raw[l]), id)
    BY <2>2
  <2> DEFINE nodes == NodesOf(l, raw[l])
  <2>4. PICK id : jsonl[i] = LineOf(l, nodes, id) /\ RowStands(l, nodes, id)
    BY <2>3
  <2>5. l \in DOMAIN Hierarchy /\ Hierarchy[l] = nodes
    BY <1>3
  <2> HIDE DEF nodes, T, ids
  <2>6. jsonl[i].row.chunk_id = id
    <3> DEFINE r == Row(l, nodes, id)
    <3>1. RowSays(r, l, nodes, id) /\ jsonl[i].row = r
      BY <2>4, RowIs DEF LineOf
    <3> HIDE DEF r
    <3> QED
      BY <3>1 DEF RowSays
  <2>7. id \notin IdsBefore(jsonl, i)
    BY <1>4, <2>6, NewId
  <2>8. ErrorsOf(LineOf(l, nodes, id), IdsBefore(jsonl, i), Hierarchy) \subseteq {"contamination_failures"}
    BY <2>4, <2>5, <2>7, RowIsRight
  <2>9. FitsModel(LineOf(l, nodes, id))
    BY <2>4, RowFits
  <2> QED
    BY <2>4, <2>8, <2>9
<1> DEFINE found == Errors(jsonl, Hierarchy)
           counted == {i \in DOMAIN jsonl : FitsModel(jsonl[i])}
<1>6. /\ Validated.failures = UNION {found[i] : i \in DOMAIN jsonl}
      /\ Validated.reconciled = (ReconciliationErrors(jsonl, counted, report) = 0)
  BY DEF Validated, Validation
<1>7. \A i \in DOMAIN jsonl : found[i] \subseteq {"contamination_failures"}
  BY <1>5 DEF Errors
<1>8. UNION {found[i] : i \in DOMAIN jsonl} \subseteq {"contamination_failures"}
  <2> HIDE DEF found
  <2> QED
    BY <1>7
<1>9. counted = DOMAIN jsonl
  BY <1>5
<1>10. ReconciliationErrors(jsonl, DOMAIN jsonl, report) = 0
  <2> DEFINE odd == {level \in DOMAIN report.chunks_by_level :
                       report.chunks_by_level[level] # CountOf(jsonl, DOMAIN jsonl, level)}
  <2>1. /\ report.readable /\ report.total_chunks = Len(jsonl)
        /\ report.chunks_by_level = [level \in {jsonl[i].row.level : i \in DOMAIN jsonl} |->
                                       CountOf(jsonl, DOMAIN jsonl, level)]
    BY <1>1 DEF ReportOf
  <2>2. odd = {}
    BY <2>1
  <2>3. ReconciliationErrors(jsonl, DOMAIN jsonl, report) = 0 + Cardinality(odd)
    BY <2>1 DEF ReconciliationErrors
  <2> HIDE DEF odd
  <2> QED
    BY <2>2, <2>3, FS_EmptySet
<1> QED
  BY <1>6, <1>8, <1>9, <1>10

\* The chunker and the validator of its file, which share no code, agree: after a quiet
\* cleaning, parsing and chunking it finds nothing wrong with a row or with the counts but
\* what the web page left in a law, and a file in which it finds no error it calls ready,
\* unless it is empty (JsonlChunkWriter, ProcessedJsonlValidator).
THEOREM ValidatorAgreesAlways == Spec => []ValidatorAgrees
<1> DEFINE Inv == CorpusType /\ StagesInv /\ ChunksInv /\ FilesInv /\ ReportInv
<1>1. Init => Inv
  BY CorpusInit, FilesInit, ReportInit
<1>2. Inv /\ [Next]_vars => Inv'
  BY CorpusTypeStep, StagesStep, ChunksStep, FilesStep, ReportStep
<1>3. Inv => ValidatorAgrees
  BY QuietPassValidates, ReadyIs DEF ValidatorAgrees
<1> HIDE DEF Inv
<1> QED
  BY <1>1, <1>2, <1>3, PTL DEF Spec

-----------------------------------------------------------------------------
(* The quality gate, for every dataset and every policy, in whatever order *)
(* suites and reviews come.                                                *)

Case == [e : Expectations, r : Results]

\* A record of the manifest, as a careful reviewer leaves it: the verdict of a fallback is
\* for fallbacks, and there is nothing to find in them.
ReviewRecord == [verdict : Verdicts \cup {"not_applicable_for_fallback"},
                 claims : SUBSET Claims, completed : BOOLEAN, decision : Decisions,
                 blocking : BOOLEAN, caution : BOOLEAN]

FitsItsOutcome(v) ==
    /\ v.verdict = "not_applicable_for_fallback" <=> ~IsAnswer(v)
    /\ ~IsAnswer(v) => v.claims = {}

ReportOK == \A c \in DOMAIN evalReport : evalReport[c] \in Case

ReviewsOK == \A c \in DOMAIN reviews : reviews[c] \in ReviewRecord /\ FitsItsOutcome(reviews[c])

GateInv == ReportOK /\ ReviewsOK

\* What a reviewer leaves of a case is a record that fits the outcome it is about.
LEMMA ReviewFits ==
    ASSUME NEW case \in Case, NEW completed \in BOOLEAN, NEW j \in Judgements(case.r),
           NEW v, v = [verdict |-> j.verdict, claims |-> j.claims,
                       completed |-> completed, decision |-> case.r.decision,
                       blocking |-> case.e.blocking, caution |-> case.r.caution]
    PROVE  v \in ReviewRecord /\ FitsItsOutcome(v)
<1>1. case.r \in Results /\ case.e \in Expectations
  BY DEF Case
<1>2. case.r.decision \in Decisions /\ case.e.blocking \in BOOLEAN /\ case.r.caution \in BOOLEAN
  BY <1>1 DEF Results, Expectations
<1>3. IsAnswer(v) <=> IsAnswer(case.r)
  BY DEF IsAnswer
<1>4. CASE IsAnswer(case.r)
  <2>1. j \in [verdict : Verdicts, claims : SUBSET Claims]
    BY <1>4, JudgementsAssumption DEF Judgements
  <2> QED
    BY <1>2, <1>3, <1>4, <2>1 DEF ReviewRecord, FitsItsOutcome, Verdicts
<1>5. CASE ~IsAnswer(case.r)
  <2>1. j.verdict = "not_applicable_for_fallback" /\ j.claims = {}
    BY <1>5 DEF Judgements
  <2> QED
    BY <1>2, <1>3, <1>5, <2>1 DEF ReviewRecord, FitsItsOutcome
<1> QED
  BY <1>4, <1>5

\* A report is written by a suite, of cases of a dataset and outcomes of the pipeline, and a
\* review is added to the manifest.
LEMMA GateInvStep == GateInv /\ [GateNext]_gateVars => GateInv'
<1> SUFFICES ASSUME GateInv, [GateNext]_gateVars PROVE GateInv'
  OBVIOUS
<1>1. CASE Suite
  <2>1. PICK dataset \in Datasets :
          \E result \in [DOMAIN dataset -> UNION {Outcomes[c] : c \in DOMAIN dataset}] :
            LET cases == [c \in DOMAIN dataset |-> [e |-> dataset[c], r |-> result[c]]] IN
            /\ \A c \in DOMAIN dataset : result[c] \in Outcomes[c]
            /\ IF Refused(cases) THEN UNCHANGED evalReport ELSE evalReport' = cases
    BY <1>1 DEF Suite
  <2>2. PICK result :
            LET cases == [c \in DOMAIN dataset |-> [e |-> dataset[c], r |-> result[c]]] IN
            /\ \A c \in DOMAIN dataset : result[c] \in Outcomes[c]
            /\ IF Refused(cases) THEN UNCHANGED evalReport ELSE evalReport' = cases
    BY <2>1
  <2>3. ASSUME NEW c \in DOMAIN dataset
        PROVE  dataset[c] \in Expectations /\ result[c] \in Results
    BY <2>2, DatasetsAssumption, OutcomesAssumption
  <2>4. ReportOK'
    BY <2>2, <2>3 DEF GateInv, ReportOK, Case
  <2> QED
    BY <1>1, <2>4 DEF GateInv, ReviewsOK, Suite
<1>2. CASE Review
  <2>. DEFINE Reviewed(c, completed, j) ==
                reviews' = [d \in DOMAIN reviews \cup {c} |->
                              IF d # c THEN reviews[d]
                              ELSE [verdict |-> j.verdict, claims |-> j.claims,
                                    completed |-> completed, decision |-> evalReport[c].r.decision,
                                    blocking |-> evalReport[c].e.blocking,
                                    caution |-> evalReport[c].r.caution]]
  <2>0. \E c \in DOMAIN evalReport, completed \in BOOLEAN :
          \E j \in Judgements(evalReport[c].r) : Reviewed(c, completed, j)
    BY <1>2 DEF Review
  <2>1. PICK c \in DOMAIN evalReport, completed \in BOOLEAN :
          \E j \in Judgements(evalReport[c].r) : Reviewed(c, completed, j)
    BY <2>0
  <2>a. PICK j \in Judgements(evalReport[c].r) : Reviewed(c, completed, j)
    BY <2>1
  <2>2. reviews'[c] \in ReviewRecord /\ FitsItsOutcome(reviews'[c])
    BY <2>a, ReviewFits DEF GateInv, ReportOK
  <2>3. ReviewsOK'
    BY <2>a, <2>2 DEF GateInv, ReviewsOK
  <2> QED
    BY <1>2, <2>3 DEF GateInv, ReportOK, Review
<1>3. CASE SuiteRaises \/ UNCHANGED gateVars
  BY <1>3 DEF GateInv, ReportOK, ReviewsOK, SuiteRaises, gateVars
<1> QED
  BY <1>1, <1>2, <1>3 DEF GateNext

\* Reports and manifests are of the shape the gate reads, and every verdict fits the outcome
\* it was given for.
THEOREM GateInvariant == GateSpec => []GateInv
<1>1. GateInit => GateInv
  BY DEF GateInit, Nothing, GateInv, ReportOK, ReviewsOK
<1> QED
  BY <1>1, GateInvStep, PTL DEF GateSpec

-----------------------------------------------------------------------------
\* A gate that is not blocked and found no hard violation has read, for every required
\* case, a result and a review of the same outcome.
LEMMA WhatIsNotHard ==
    ASSUME GateInv, Blockers = {}, HardViolations = {}, NEW c \in RequiredCases
    PROVE  /\ c \in Cases /\ Res(c) \in Results /\ Exp(c) \in Expectations
           /\ c \in DOMAIN reviews /\ reviews[c] \in ReviewRecord
           /\ FitsItsOutcome(reviews[c])
           /\ reviews[c].decision = Res(c).decision
           /\ reviews[c].blocking = Exp(c).blocking
           /\ reviews[c].caution = Res(c).caution
           /\ ~CautionUnreviewed(c)
           /\ Refuted \cap reviews[c].claims = {}
<1>1. c \in Cases /\ c \in DOMAIN reviews
  BY DEF Blockers
<1>2. /\ Res(c) \in Results /\ Exp(c) \in Expectations
      /\ reviews[c] \in ReviewRecord /\ FitsItsOutcome(reviews[c])
  BY <1>1 DEF GateInv, ReportOK, ReviewsOK, Cases, Res, Exp, Case
<1>3. CaseHard(c) = {} /\ ManifestHard = {}
  <2>1. UNION {CaseHard(d) : d \in RequiredCases} \subseteq {} /\ ManifestHard \subseteq {}
    BY DEF HardViolations
  <2>2. CaseHard(c) \in {CaseHard(d) : d \in RequiredCases}
    OBVIOUS
  <2>3. CaseHard(c) \subseteq UNION {CaseHard(d) : d \in RequiredCases}
    BY <2>2
  <2> QED
    BY <2>1, <2>3
<1>4. /\ reviews[c].decision = Res(c).decision
      /\ reviews[c].blocking = Exp(c).blocking
      /\ reviews[c].caution = Res(c).caution
      /\ ~CautionUnreviewed(c)
  BY <1>3 DEF CaseHard
<1>5. Refuted \cap reviews[c].claims = {}
  <2>1. reviews[c].claims \in {reviews[d].claims : d \in DOMAIN reviews}
    BY <1>1
  <2>2. reviews[c].claims \subseteq UNION {reviews[d].claims : d \in DOMAIN reviews}
    BY <2>1
  <2>3. (UNION {reviews[d].claims : d \in DOMAIN reviews})
            \cap Refuted = {}
    BY <1>3 DEF ManifestHard
  <2> QED
    BY <2>2, <2>3
<1> QED
  BY <1>1, <1>2, <1>4, <1>5

\* The status of the report is that of its worst case: where no hard violation is found, no
\* case breaks a rule.
LEMMA WhatPassed ==
    ASSUME GateInv, HardViolations = {}, NEW c \in Cases
    PROVE  /\ Res(c).decision \in Exp(c).decisions /\ Res(c).text = "fine" /\ ~Res(c).errors
           /\ IF IsAnswer(Res(c)) THEN Res(c).called /\ Res(c).cites = {"known"}
              ELSE ~Res(c).called /\ Res(c).cites = {}
<1>1. AllPassed
  <2>1. ReportHardViolations = {}
    BY DEF HardViolations
  <2> QED
    BY <2>1 DEF ReportHardViolations
<1>2. Passed(Exp(c), Res(c))
  BY <1>1 DEF AllPassed
<1>3. Res(c) \in Results /\ Exp(c) \in Expectations
  BY DEF GateInv, ReportOK, Cases, Res, Exp, Case
<1>4. Res(c).decision \in Exp(c).decisions /\ Res(c).text = "fine" /\ ~Res(c).errors
  BY <1>2, <1>3 DEF Passed, SecretLeak, Results
<1>5. Res(c).called = IsAnswer(Res(c))
  BY <1>2 DEF Passed, LlmCallPolicyPassed
<1>6. CitationIssues(Res(c)) = {} /\ (~IsAnswer(Res(c)) => Res(c).cites = {})
  BY <1>2 DEF Passed, CitationPolicyPassed
<1>7. "unknown" \notin Res(c).cites /\ (Res(c).called => Res(c).cites # {})
  BY <1>6 DEF CitationIssues
<1>8. Res(c).cites \subseteq {"known", "unknown"}
  BY <1>3 DEF Results
<1> QED
  BY <1>4, <1>5, <1>6, <1>7, <1>8

\* PassedGateIsSafe is a fact about one state.
LEMMA SafeWherePassed == GateInv => PassedGateIsSafe
<1> SUFFICES ASSUME GateInv, Status = "quality_gate_passed" PROVE PassedGateIsSafe
  BY DEF PassedGateIsSafe
<1>1. Blockers = {} /\ HardViolations = {} /\ QualityViolations = {}
  BY DEF Status
<1>2. ASSUME NEW c \in RequiredCases
      PROVE  /\ Refuted \cap reviews[c].claims = {}
             /\ IsAnswer(Res(c)) /\ Exp(c).blocking =>
                    reviews[c].verdict = "pass" /\ Reported \cap reviews[c].claims = {}
             /\ IsAnswer(Res(c)) /\ Res(c).caution => reviews[c].completed
  <2>1. /\ reviews[c].blocking = Exp(c).blocking /\ ~CautionUnreviewed(c)
        /\ Refuted \cap reviews[c].claims = {}
        /\ reviews[c] \in ReviewRecord
    BY <1>1, <1>2, WhatIsNotHard
  <2>2. CaseQuality(c) = {}
    <3>1. CaseQuality(c) \in {CaseQuality(d) : d \in RequiredCases}
      BY <1>2
    <3> QED
      BY <1>1, <3>1 DEF QualityViolations
  <2>3. ASSUME IsAnswer(Res(c)), Exp(c).blocking
        PROVE  reviews[c].verdict = "pass" /\ Reported \cap reviews[c].claims = {}
    BY <2>1, <2>2, <2>3 DEF CaseQuality
  <2>4. IsAnswer(Res(c)) /\ Res(c).caution => reviews[c].completed
    BY <2>1 DEF CautionUnreviewed
  <2> QED
    BY <2>1, <2>3, <2>4
<1> QED
  BY <1>1, <1>2, WhatPassed DEF PassedGateIsSafe

\* A passed gate guarantees what the policy is for: no case of the report broke a rule, and
\* a person stands behind the required answers - for every dataset, every outcome of its
\* cases and every set of required cases, however suites and reviews follow each other.
THEOREM PassedGateIsSafeAlways == GateSpec => []PassedGateIsSafe
  BY GateInvariant, SafeWherePassed, PTL

-----------------------------------------------------------------------------
\* Where the gate does not fail, verdicts and findings are of the outcome in the report.
LEMMA HeardWhereJudged == GateInv => ReviewsAreHeard
<1> SUFFICES ASSUME GateInv, Status \in {"quality_gate_passed", "quality_gate_partial"},
                    NEW c \in RequiredCases
             PROVE  /\ reviews[c].verdict = "not_applicable_for_fallback" <=> ~IsAnswer(Res(c))
                    /\ reviews[c].claims \cap Reported \subseteq CaseQuality(c) \cup CaseWarnings(c)
  BY DEF ReviewsAreHeard, VerdictsFitOutcomes, FindingsAreTold
<1>1. Blockers = {} /\ HardViolations = {}
  BY DEF Status
<1>2. /\ FitsItsOutcome(reviews[c]) /\ reviews[c].decision = Res(c).decision
      /\ reviews[c].blocking = Exp(c).blocking /\ Exp(c) \in Expectations
  BY <1>1, WhatIsNotHard
<1>3. IsAnswer(reviews[c]) <=> IsAnswer(Res(c))
  BY <1>2 DEF IsAnswer
<1>4. reviews[c].verdict = "not_applicable_for_fallback" <=> ~IsAnswer(Res(c))
  BY <1>2, <1>3 DEF FitsItsOutcome
<1>5. reviews[c].claims \cap Reported \subseteq CaseQuality(c) \cup CaseWarnings(c)
  <2>1. CASE ~IsAnswer(Res(c))
    BY <1>2, <1>3, <2>1 DEF FitsItsOutcome
  <2>2. CASE IsAnswer(Res(c)) /\ reviews[c].blocking
    BY <2>2 DEF CaseQuality
  <2>3. CASE IsAnswer(Res(c)) /\ ~reviews[c].blocking
    BY <2>3 DEF CaseWarnings
  <2> QED
    BY <2>1, <2>2, <2>3
<1> QED
  BY <1>4, <1>5

\* A verdict never stands for another outcome than the one it was given for, and findings
\* that pass through the two functions for blocking and other cases are lost in neither.
THEOREM ReviewsAreHeardAlways == GateSpec => []ReviewsAreHeard
  BY GateInvariant, HeardWhereJudged, PTL

-----------------------------------------------------------------------------
\* A good baseline: the hypothesis of GoodBaselinePasses.
GoodCase(c) ==
    /\ Res(c).decision \in Exp(c).decisions /\ Res(c).text = "fine" /\ ~Res(c).errors
    /\ IF IsAnswer(Res(c))
       THEN Res(c).called /\ Res(c).cites = {"known"} /\ Exp(c).called # "no"
       ELSE ~Res(c).called /\ Res(c).cites = {} /\ Exp(c).called # "yes"

\* A case without a fault passes every check of it.
LEMMA GoodCasePasses ==
    ASSUME GateInv, NEW c \in Cases, GoodCase(c)
    PROVE  /\ Passed(Exp(c), Res(c)) /\ CitationIssues(Res(c)) = {}
           /\ LlmCallPolicyPassed(Exp(c), Res(c)) /\ FallbackPolicyPassed(Res(c))
           /\ CitationPolicyPassed(Exp(c), Res(c))
           /\ ~SecretLeak(Res(c)) /\ Res(c).text # "forbidden"
<1>1. Res(c) \in Results /\ Exp(c) \in Expectations
  BY DEF GateInv, ReportOK, Cases, Res, Exp, Case
<1>2. Exp(c).called \in {"yes", "no", "any"} /\ Res(c).called \in BOOLEAN
  BY <1>1 DEF Results, Expectations
<1>3. IsAnswer(Res(c)) \in BOOLEAN
  BY DEF IsAnswer
<1>4. LlmCallPolicyPassed(Exp(c), Res(c)) /\ FallbackPolicyPassed(Res(c))
  BY <1>2, <1>3 DEF GoodCase, LlmCallPolicyPassed, FallbackPolicyPassed
<1>5. CitationIssues(Res(c)) = {}
  BY DEF GoodCase, CitationIssues
<1>6. CitationPolicyPassed(Exp(c), Res(c))
  BY <1>5 DEF GoodCase, CitationPolicyPassed
<1>7. ~SecretLeak(Res(c)) /\ Res(c).text \notin {"foreign", "forbidden"}
  BY DEF GoodCase, SecretLeak
<1> QED
  BY <1>4, <1>5, <1>6, <1>7 DEF GoodCase, Passed

\* A report of such cases has no hard violation.
LEMMA GoodReport ==
    ASSUME GateInv, Cardinality(Cases) >= MinimumTotal, \A c \in Cases : GoodCase(c)
    PROVE  ReportHardViolations = {}
<1>1. \A c \in Cases :
        /\ Res(c).decision \in Exp(c).decisions
        /\ Passed(Exp(c), Res(c)) /\ CitationIssues(Res(c)) = {}
        /\ LlmCallPolicyPassed(Exp(c), Res(c)) /\ FallbackPolicyPassed(Res(c))
        /\ CitationPolicyPassed(Exp(c), Res(c))
        /\ ~SecretLeak(Res(c)) /\ Res(c).text # "forbidden"
  BY GoodCasePasses DEF GoodCase
<1>2. AllPassed
  BY <1>1 DEF AllPassed
<1>3. /\ Every(Cases, {c \in Cases : Res(c).decision \in Exp(c).decisions})
      /\ Every(Cases, {c \in Cases : LlmCallPolicyPassed(Exp(c), Res(c))})
  BY <1>1 DEF Every
<1>4. Every(Cases \ {c \in Cases : IsAnswer(Res(c))}, {c \in Cases : FallbackPolicyPassed(Res(c))})
  BY <1>1 DEF Every
<1>5. Every({c \in {d \in Cases : IsAnswer(Res(d))} : Exp(c).cites},
            {c \in Cases : CitationPolicyPassed(Exp(c), Res(c))})
  BY <1>1 DEF Every
<1>6. UNION {CitationIssues(Res(c)) : c \in Cases} = {}
  BY <1>1
<1> QED
  BY <1>1, <1>2, <1>3, <1>4, <1>5, <1>6 DEF ReportHardViolations

\* So a baseline of good cases with complete reviews of them passes.
LEMMA GoodWherePassed == GateInv => GoodBaselinePasses
<1> SUFFICES ASSUME GateInv,
                    Cardinality(Cases) >= MinimumTotal,
                    RequiredCases \subseteq Cases, RequiredCases \subseteq DOMAIN reviews,
                    \A c \in Cases : GoodCase(c),
                    \A c \in DOMAIN reviews :
                      reviews[c].claims \cap (Reported \cup Refuted) = {} /\ reviews[c].completed,
                    \A c \in RequiredCases :
                      /\ reviews[c].verdict \in {"pass", "not_applicable_for_fallback"}
                      /\ reviews[c].decision = Res(c).decision
                      /\ reviews[c].blocking = Exp(c).blocking
                      /\ reviews[c].caution = Res(c).caution
             PROVE  Status = "quality_gate_passed"
  BY DEF GoodBaselinePasses, GoodCase
<1>1. Blockers = {}
  BY DEF Blockers
<1>2. ReportHardViolations = {}
  BY GoodReport
<1>3. ManifestHard = {}
  BY DEF ManifestHard
<1>4. ASSUME NEW c \in RequiredCases
      PROVE  CaseHard(c) = {} /\ CaseQuality(c) = {}
  <2>1. /\ FitsItsOutcome(reviews[c]) /\ (IsAnswer(reviews[c]) <=> IsAnswer(Res(c)))
        /\ GoodCase(c) /\ reviews[c].claims \cap Reported = {} /\ reviews[c].completed
    BY DEF GateInv, ReviewsOK, IsAnswer
  <2>2. FallbackCaseHard(c) = {}
    BY <2>1 DEF FallbackCaseHard, FitsItsOutcome, GoodCase
  <2>3. ~CautionUnreviewed(c)
    BY <2>1 DEF CautionUnreviewed
  <2>4. CaseHard(c) = {}
    BY <2>2, <2>3 DEF CaseHard
  <2>5. CaseQuality(c) = {}
    BY <2>1 DEF CaseQuality, FitsItsOutcome
  <2> QED
    BY <2>4, <2>5
<1>5. HardViolations = {}
  BY <1>2, <1>3, <1>4 DEF HardViolations
<1>6. QualityViolations = {}
  BY <1>4 DEF QualityViolations
<1> QED
  BY <1>1, <1>5, <1>6 DEF Status

\* A report without a fault that was reviewed to the end is not turned down, however many of
\* its cases a rate is taken over, none included.
THEOREM GoodBaselinePassesAlways == GateSpec => []GoodBaselinePasses
  BY GateInvariant, GoodWherePassed, PTL
=============================================================================
