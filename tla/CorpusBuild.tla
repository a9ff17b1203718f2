---------------------------- MODULE CorpusBuild ----------------------------
(***************************************************************************)
(* From raw laws to the chunk file: the cleaning, parsing and chunking     *)
(* commands, run one at a time by an operator, with the files each leaves  *)
(* behind, and the validator of the chunk file (ProcessedJsonl).           *)
(*                                                                         *)
(* A file holds the version of the law it was made from.  No command       *)
(* writes a file in one step: a failing disk or a killed process leaves it *)
(* Torn.  What LegalText does with a text is a constant here: Fate.        *)
(***************************************************************************)
EXTENDS Naturals, Sequences, FiniteSets, SequencesExt, ProcessedJsonl

CONSTANTS LawOrder,     \* the law ids in their order
          MaxVersion,   \* how often a law can be downloaded again
          Fate,         \* [law -> [version -> [cleans, parses, nodes]]]
          Foreign,      \* chunk files from elsewhere, with a report each
          MaxJobs,      \* bound: commands started
          MaxFaults     \* bound: failing writes and killed processes

Laws == Range(LawOrder)
Absent == 0
Torn == MaxVersion + 1
Versions == 1 .. MaxVersion
NoFile == <<[line |-> "no file"]>>
NoReport == [readable |-> FALSE, there |-> FALSE]
Unreadable == [readable |-> FALSE, there |-> TRUE]
Idle == [cmd |-> "none"]

ASSUME LawsAssumption ==
    LawOrder \in Seq(Range(LawOrder)) /\ \A i, j \in DOMAIN LawOrder : LawOrder[i] = LawOrder[j] => i = j

ASSUME BoundsAssumption == MaxVersion \in Nat \ {0} /\ MaxJobs \in Nat /\ MaxFaults \in Nat

ASSUME FateAssumption ==
    \A l \in Laws : \A v \in Versions :
      /\ Fate[l][v].cleans \in BOOLEAN
      /\ Fate[l][v].parses \in {"success", "success_with_warnings", "failed"}
      /\ Fate[l][v].order \in Seq(DOMAIN Fate[l][v].nodes)

\* what the tree validator and the models of a hierarchy let through: the units that are
\* chunked have numbers, texts with something in them, and the parents of their levels
HangsBelow(nodes, id, level) ==
    nodes[id].parent \in DOMAIN nodes /\ nodes[nodes[id].parent].level = level
TreeFits(nodes) ==
    \A id \in {n \in DOMAIN nodes : nodes[n].level \in {"article", "clause", "point"}} :
      /\ id \notin Blank /\ nodes[id].number \notin Blank
      /\ nodes[id].text.chars \in Nat \ {0} /\ nodes[id].text.visible
      /\ nodes[id].text.repealed \in BOOLEAN
      /\ nodes[id].level = "clause" => HangsBelow(nodes, id, "article")
      /\ nodes[id].level = "point" => HangsBelow(nodes, id, "clause")

\* node ids begin with the id of their law
ASSUME TreesAssumption ==
    /\ \A l \in Laws : l \notin Blank
    /\ \A l \in Laws : \A v \in Versions :
         /\ TreeFits(Fate[l][v].nodes)
         /\ \A i, j \in DOMAIN Fate[l][v].order : Fate[l][v].order[i] = Fate[l][v].order[j] => i = j
    /\ \A k, l \in Laws : \A v, w \in Versions :
         k # l => DOMAIN Fate[k][v].nodes \cap DOMAIN Fate[l][w].nodes = {}

ASSUME ForeignAssumption ==
    \A f \in Foreign :
      /\ f.lines \in Seq(Range(f.lines))
      /\ f.report.readable => IsFiniteSet(DOMAIN f.report.chunks_by_level)

VARIABLES raw,      \* data/raw: the version of main.html of each law
          norm,     \* data/interim/<law>/normalized.json
          txt,      \* data/interim/<law>/cleaned.txt
          hier,     \* data/interim/<law>/hierarchy.json
          jsonl,    \* data/processed/legal_chunks.jsonl
          report,   \* chunking_report.json
          job,      \* the command that runs, or Idle
          parsed,   \* legal_parsing_report.json: status of each law
          quiet,    \* history: stages finished without a failure since the last download
          jobs, faults

vars == <<raw, norm, txt, hier, jsonl, report, job, parsed, quiet, jobs, faults>>
interim == <<norm, txt, hier>>
output == <<jsonl, report>>

----------------------------------------------------------------------------
(* What a hierarchy becomes in the chunk file.                             *)

NodesOf(l, v) == Fate[l][v].nodes
Readable(v) == v \in Versions
Hierarchy == [l \in {k \in Laws : Readable(hier[k])} |-> NodesOf(l, hier[l])]

\* chunked nodes have no child that is chunked; the sequence is the source order
HasChild(nodes, id) == \E c \in DOMAIN nodes : nodes[c].parent = id
Chunked(nodes, id) == nodes[id].level \in {"article", "clause", "point"} /\ ~ HasChild(nodes, id)
\* Mutant: the article of a point is taken for its parent.
ParentOf(nodes, id) == IF nodes[id].level = "article" THEN id ELSE nodes[id].parent
ArticleOf(nodes, id) ==
  IF nodes[id].level = "article" THEN id
  ELSE IF nodes[id].level = "clause" THEN nodes[id].parent
  ELSE nodes[nodes[id].parent].parent
ClauseNumber(nodes, id) ==
  CASE nodes[id].level = "clause" -> nodes[id].number
    [] nodes[id].level = "point" -> nodes[nodes[id].parent].number
    [] OTHER -> ""
PointLabel(nodes, id) == IF nodes[id].level = "point" THEN nodes[id].number ELSE ""
Kind(node) == CASE node.level = "clause" -> "clause_level"
                [] node.level = "point" -> "point_level"
                [] OTHER -> IF node.text.repealed THEN "article_level_empty" ELSE "article_level"

Row(l, nodes, id) ==
  LET article == ArticleOf(nodes, id)
      parts == {<<"article_number", nodes[article].number>>,
                <<"clause_number", ClauseNumber(nodes, id)>>,
                <<"point_label", PointLabel(nodes, id)>>}
  IN [law_id |-> l, law_name |-> l, source_url |-> l, chunk_id |-> id,
      level |-> nodes[id].level, chunk_kind |-> Kind(nodes[id]),
      source_node_id |-> id, parent_article_node_id |-> article, hierarchy_path |-> id,
      article_number |-> nodes[article].number, clause_number |-> ClauseNumber(nodes, id),
      point_label |-> PointLabel(nodes, id), citation |-> {p \in parts : p[2] # ""},
      text |-> nodes[id].text, parent_text |-> nodes[article].text,
      text_hash |-> nodes[id].text, parent_text_hash |-> nodes[article].text,
      metadata |-> [given |-> Flags, empty |-> nodes[id].text.repealed,
                    unit |-> nodes[id].text.repealed]]
\* the first n of these sequences, one after the other
Joined(parts, n) ==
  LET f[i \in 0 .. Len(parts)] == IF i = 0 THEN << >> ELSE f[i - 1] \o parts[i] IN f[n]

RowsOf(l, v) ==
  LET nodes == NodesOf(l, v)
      order == Fate[l][v].order
      RowOf(id) == IF Chunked(nodes, id) THEN <<[line |-> "row", row |-> Row(l, nodes, id)]>>
                   ELSE << >>
  IN Joined([i \in DOMAIN order |-> RowOf(order[i])], Len(order))

ReportOf(lines) ==
  [readable |-> TRUE, there |-> TRUE, total_chunks |-> Len(lines),
   laws |-> LawsOf(lines, DOMAIN lines),
   chunks_by_level |-> [level \in {lines[i].row.level : i \in DOMAIN lines} |->
                          CountOf(lines, DOMAIN lines, level)]]

----------------------------------------------------------------------------
(* Commands.                                                               *)

Built(l) == IF Fate[l][1].cleans /\ Fate[l][1].parses # "failed" THEN 1 ELSE Absent
RowsIn(source, l) == IF Readable(source[l]) THEN RowsOf(l, source[l]) ELSE << >>
RowsUpTo(source, n) == Joined([i \in DOMAIN LawOrder |-> RowsIn(source, LawOrder[i])], n)
AllRows(source) == RowsUpTo(source, Len(LawOrder))

\* nothing is made yet; or all is, from the first version; or an output from elsewhere is there
Init == /\ raw = [l \in Laws |-> 1]
        /\ \/ /\ norm = [l \in Laws |-> Absent] /\ txt = norm /\ hier = norm
              /\ jsonl = NoFile /\ report = NoReport /\ quiet = 0
           \/ /\ norm = [l \in Laws |-> Built(l)] /\ txt = norm /\ hier = norm
              /\ \/ /\ jsonl = AllRows(norm) /\ report = ReportOf(jsonl)
                    /\ quiet = IF \A l \in Laws : Built(l) = 1 THEN 3 ELSE 0
                 \/ /\ \E f \in Foreign : jsonl = f.lines /\ report = f.report
                    /\ quiet = 0
        /\ job = Idle
        /\ parsed = [l \in Laws |-> "none"]
        /\ jobs = 0 /\ faults = 0

\* the crawler stores a newer text of a law
Download(l) == /\ job = Idle /\ raw[l] < MaxVersion
               /\ raw' = [raw EXCEPT ![l] = @ + 1]
               /\ quiet' = 0
               /\ UNCHANGED <<interim, output, job, parsed, jobs, faults>>

Begin(j) == /\ job = Idle /\ jobs < MaxJobs
            /\ job' = j /\ jobs' = jobs + 1
\* the laws a command goes through, in their order: those with an input, or those asked for
Batch(found, only) == IF only = {} THEN found ELSE only

StartCleaning(write_txt) ==
  /\ Begin([cmd |-> "clean", todo |-> Laws, write_txt |-> write_txt, failed |-> FALSE])
  /\ UNCHANGED <<raw, interim, output, parsed, quiet, faults>>

StartParsing(overwrite, only) ==
  /\ Begin([cmd |-> "parse", todo |-> Batch({l \in Laws : norm[l] # Absent}, only),
            overwrite |-> overwrite, results |-> [l \in {} |-> ""]])
  /\ UNCHANGED <<raw, interim, output, parsed, quiet, faults>>

\* refused before anything is read when an output is there and may not be replaced
StartChunking(overwrite, only) ==
  /\ overwrite \/ (jsonl = NoFile /\ ~ report.there)
  /\ Begin([cmd |-> "chunk", todo |-> Batch({l \in Laws : hier[l] # Absent}, only),
            all |-> only = {}, lines |-> << >>, failed |-> FALSE, written |-> FALSE])
  /\ UNCHANGED <<raw, interim, output, parsed, quiet, faults>>

Working(cmd) == job.cmd = cmd /\ job.todo # {}
Law == LawOrder[Min({i \in DOMAIN LawOrder : LawOrder[i] \in job.todo})]
Rest == job.todo \ {Law}

\* a law that cannot be cleaned keeps the files of an earlier cleaning
Clean ==
  /\ Working("clean")
  /\ LET good == Fate[Law][raw[Law]].cleans
     IN /\ norm' = IF good THEN [norm EXCEPT ![Law] = raw[Law]] ELSE norm
        /\ txt' = IF good /\ job.write_txt THEN [txt EXCEPT ![Law] = raw[Law]] ELSE txt
        /\ job' = [job EXCEPT !.todo = Rest, !.failed = @ \/ ~ good]
  /\ UNCHANGED <<raw, hier, output, parsed, quiet, jobs, faults>>

\* the disk fails under normalized.json, or under cleaned.txt after it: the law has failed
CleanWriteFails ==
  /\ Working("clean") /\ faults < MaxFaults /\ Fate[Law][raw[Law]].cleans
  /\ \/ norm' = [norm EXCEPT ![Law] = Torn] /\ UNCHANGED txt
     \/ /\ job.write_txt
        /\ norm' = [norm EXCEPT ![Law] = raw[Law]] /\ txt' = [txt EXCEPT ![Law] = Torn]
  /\ job' = [job EXCEPT !.todo = Rest, !.failed = TRUE]
  /\ faults' = faults + 1
  /\ UNCHANGED <<raw, hier, output, parsed, quiet, jobs>>

\* a stage is quiet when no law failed in it and the stages before it were
Quietly(stage, failed) == quiet' = IF ~ failed /\ quiet >= stage - 1 THEN stage
                                   ELSE IF quiet >= stage THEN stage - 1 ELSE quiet

FinishCleaning == /\ job.cmd = "clean" /\ job.todo = {}
                  /\ job' = Idle
                  /\ Quietly(1, job.failed)
                  /\ UNCHANGED <<raw, interim, output, parsed, jobs, faults>>

Recorded(status) == [job EXCEPT !.todo = Rest,
                                !.results = [l \in DOMAIN @ \cup {Law} |-> IF l = Law THEN status ELSE @[l]]]

\* cleaned.txt is only compared with; a difference is a warning of the law
ParseStatus(l) ==
  LET status == Fate[l][norm[l]].parses
  IN IF status = "success" /\ txt[l] \notin {Absent, norm[l]} THEN "success_with_warnings" ELSE status

Blocked(overwrite) == \/ norm[Law] = Absent
                      \/ hier[Law] # Absent /\ ~ overwrite
                      \/ ~ Readable(norm[Law])
\* Mutant: a law whose hierarchy is there already counts as parsed.
ParseOnce ==
  /\ Working("parse")
  /\ IF Blocked(job.overwrite)
     THEN /\ job' = Recorded(IF hier[Law] # Absent THEN "success" ELSE "failed") /\ UNCHANGED hier
     ELSE /\ job' = Recorded(ParseStatus(Law))
          /\ hier' = IF ParseStatus(Law) = "failed" THEN hier ELSE [hier EXCEPT ![Law] = norm[Law]]
  /\ UNCHANGED <<raw, norm, txt, output, parsed, quiet, jobs, faults>>
Parse ==
  /\ Working("parse")
  /\ \/ /\ Blocked(job.overwrite)
        /\ job' = Recorded("failed") /\ UNCHANGED hier
     \/ /\ ~ Blocked(job.overwrite)
        /\ job' = Recorded(ParseStatus(Law))
        /\ hier' = IF ParseStatus(Law) = "failed" THEN hier ELSE [hier EXCEPT ![Law] = norm[Law]]
  /\ UNCHANGED <<raw, norm, txt, output, parsed, quiet, jobs, faults>>

ParseWriteFails ==
  /\ Working("parse") /\ faults < MaxFaults
  /\ ~ Blocked(job.overwrite) /\ ParseStatus(Law) # "failed"
  /\ hier' = [hier EXCEPT ![Law] = Torn]
  /\ job' = Recorded("failed")
  /\ faults' = faults + 1
  /\ UNCHANGED <<raw, norm, txt, output, parsed, quiet, jobs>>

\* a command for some of the laws is quiet when it happened to go through all there are
FinishParsing ==
  /\ job.cmd = "parse" /\ job.todo = {}
  /\ job' = Idle
  /\ parsed' = [l \in Laws |-> IF l \in DOMAIN job.results THEN job.results[l] ELSE "none"]
  /\ Quietly(2, \/ "failed" \in Range(job.results)
                \/ \E l \in Laws : norm[l] # Absent /\ l \notin DOMAIN job.results)
  /\ UNCHANGED <<raw, interim, output, jobs, faults>>

Chunk ==
  /\ Working("chunk")
  /\ job' = IF Readable(hier[Law])
            THEN [job EXCEPT !.todo = Rest, !.lines = @ \o RowsOf(Law, hier[Law])]
            ELSE [job EXCEPT !.todo = Rest, !.failed = TRUE]
  /\ UNCHANGED <<raw, interim, output, parsed, quiet, jobs, faults>>

\* first the chunks, then the report
Writing == job.cmd = "chunk" /\ job.todo = {}
\* Mutant: the chunk file is appended to.
AppendChunks == /\ Writing /\ ~ job.written
                /\ jsonl' = IF jsonl = NoFile THEN job.lines ELSE jsonl \o job.lines
                /\ job' = [job EXCEPT !.written = TRUE]
                /\ UNCHANGED <<raw, interim, report, parsed, quiet, jobs, faults>>
WriteChunks == /\ Writing /\ ~ job.written
               /\ jsonl' = job.lines
               /\ job' = [job EXCEPT !.written = TRUE]
               /\ UNCHANGED <<raw, interim, report, parsed, quiet, jobs, faults>>
WriteReport == /\ Writing /\ job.written
               /\ report' = ReportOf(job.lines)
               /\ job' = Idle
               /\ Quietly(3, job.failed \/ \E l \in Laws : ~ job.all /\ hier[l] # Absent)
               /\ UNCHANGED <<raw, interim, jsonl, parsed, jobs, faults>>

\* a write that fails ends the command; so does a killed process, at any point
Garbled == [line |-> "garbled"]
Abort ==
  /\ job # Idle /\ faults < MaxFaults
  /\ \/ UNCHANGED <<interim, output>>
     \/ /\ Working("clean") /\ norm' = [norm EXCEPT ![Law] = Torn]
        /\ UNCHANGED <<txt, hier, output>>
     \/ /\ Working("parse") /\ ~ Blocked(job.overwrite) /\ ParseStatus(Law) # "failed"
        /\ hier' = [hier EXCEPT ![Law] = Torn]
        /\ UNCHANGED <<norm, txt, output>>
     \/ /\ Writing /\ ~ job.written
        /\ \E n \in 0 .. Len(job.lines) :
              \/ jsonl' = SubSeq(job.lines, 1, n)
              \/ n < Len(job.lines) /\ jsonl' = SubSeq(job.lines, 1, n) \o <<Garbled>>
        /\ UNCHANGED <<interim, report>>
     \/ /\ Writing /\ job.written /\ report' = Unreadable
        /\ UNCHANGED <<interim, jsonl>>
  /\ job' = Idle
  /\ quiet' = CASE job.cmd = "clean" -> 0
                [] job.cmd = "parse" -> IF quiet > 1 THEN 1 ELSE quiet
                [] OTHER -> IF quiet > 2 THEN 2 ELSE quiet
  /\ faults' = faults + 1
  /\ UNCHANGED <<raw, parsed, jobs>>

Next == \/ \E l \in Laws : Download(l)
        \/ \E w \in BOOLEAN : StartCleaning(w)
        \/ \E o \in BOOLEAN, only \in {{}} \cup {{l} : l \in Laws} : StartParsing(o, only) \/ StartChunking(o, only)
        \/ Clean \/ CleanWriteFails \/ FinishCleaning
        \/ Parse \/ ParseWriteFails \/ FinishParsing
        \/ Chunk \/ WriteChunks \/ WriteReport \/ Abort

Spec == Init /\ [][Next]_vars

----------------------------------------------------------------------------
(* Properties.                                                             *)

Validated == Validation(jsonl, report, Hierarchy)

\* After a cleaning, a parsing and a chunking that all ended without a failed
\* law, in this order and with nothing failing between them, the chunk file holds
\* exactly the rows of the text that was downloaded last, law by law.
QuietPassIsCurrent == quiet = 3 /\ job = Idle => jsonl = AllRows(raw)

RowsAt(lines, l) ==
  {i \in DOMAIN lines : lines[i].line = "row" /\ lines[i].row.law_id = l}

\* The rows of law l stand together, are those of whole, and are all of them unless no
\* row comes after.
IsBlock(lines, l, whole) ==
  \E first, last \in DOMAIN lines :
    /\ RowsAt(lines, l) = first .. last
    /\ last - first < Len(whole)
    /\ \A i \in first .. last : lines[i] = whole[i - first + 1]
    /\ last - first + 1 < Len(whole) => \A i \in last + 1 .. Len(lines) : lines[i].line # "row"

\* Whatever commands were killed or run for some laws only: the rows of one law in
\* the chunk file come from one version of it, without a gap, and only the law
\* that is written last can be cut short.
RowsOfALawAreOneVersion ==
  jsonl = NoFile \/ (\E f \in Foreign : jsonl = f.lines) \/
  \A l \in Laws : RowsAt(jsonl, l) = {} \/ \E v \in Versions : IsBlock(jsonl, l, RowsOf(l, v))

\* What chunking makes of hierarchies that are current passes the separately
\* written validator: ids, hashes, citations, parents and counts agree.  Only the
\* web page's own text in a law (contamination) can still fail it.
CurrentCorpusValidates ==
  quiet = 3 /\ job = Idle => /\ Validated.failures \subseteq {"contamination_failures"}
                            /\ Validated.reconciled

\* A chunk file that does not fail is ready for embedding exactly when it has a
\* row: the readiness rules are no stricter than the errors, but for the empty file.
ReadyUnlessEmpty ==
  jsonl # NoFile /\ job = Idle /\ Validated.status # "fail" =>
    (Validated.embedding_ready <=> jsonl # << >>)

\* The chunker and the validator, which share no code, have the same idea of a corpus:
\* the one lets through what the other makes, and calls it ready but for an empty file.
ValidatorAgrees == CurrentCorpusValidates /\ ReadyUnlessEmpty
=============================================================================
