--------------------------- MODULE ProcessedJsonl ---------------------------
(***************************************************************************)
(* The validator of the processed JSONL file, as a function of the file,   *)
(* the chunking report beside it and the hierarchies it is traced to.      *)
(*                                                                         *)
(* A line is blank, garbled (no JSON), scalar (JSON, no object) or a row.  *)
(* A row maps the fields it has to values: strings ("" stands for null     *)
(* too, " " for blanks only), a text [chars, visible, repealed, markers,   *)
(* body] or the metadata [given, empty, unit].  A hash is the text that    *)
(* was hashed; a citation is the set of its <<label, number>> parts.       *)
(***************************************************************************)
EXTENDS Naturals, Sequences, FiniteSets

Blank == {"", " "}
NoMetadata(m) == m.given = {}

\* the settings of configs/processing/processed_jsonl_validation.yml
ShortText == 50
LongText == 4000
LongParent == 15000

Required == {"law_id", "chunk_id", "chunk_kind", "level", "citation", "hierarchy_path",
             "source_node_id", "parent_article_node_id", "text_hash", "parent_text_hash",
             "metadata"}
Conditional(kind) ==
  CASE kind \in {"article_level", "article_level_empty"} -> {"article_number"}
    [] kind = "clause_level" -> {"article_number", "clause_number"}
    [] kind = "point_level" -> {"article_number", "clause_number", "point_label"}
    [] OTHER -> {}
Flags == {"is_empty_or_repealed", "is_source_unit_repealed"}
SourceFields == {"law_name", "source_url"}   \* and the other source_* fields
Present == Required \cup {"law_name", "article_number", "clause_number", "point_label",
                          "text", "parent_text"}

Strings == (Present \cup SourceFields)
             \ {"citation", "text", "parent_text", "text_hash", "parent_text_hash", "metadata"}
Hashes == {"text_hash", "parent_text_hash"}

\* _is_empty, by the type of the field
Empty(row, f) ==
  CASE f \in Strings -> row[f] \in Blank
    [] f \in Hashes \cup {"text", "parent_text"} -> ~ row[f].visible
    [] f = "citation" -> row[f] = {}
    [] f = "metadata" -> NoMetadata(row[f])
Lacks(row, f) == f \notin DOMAIN row
LacksValue(row, f) == IF Lacks(row, f) THEN TRUE ELSE Empty(row, f)

PayloadFailures(row) ==
  {f \in Required : LacksValue(row, f)}
    \cup (IF Lacks(row, "chunk_kind") THEN {}
          ELSE {f \in Conditional(row.chunk_kind) : LacksValue(row, f)})
PayloadWarnings(row) ==
  (IF Lacks(row, "metadata") THEN Flags ELSE Flags \ row.metadata.given)
    \cup {f \in SourceFields : LacksValue(row, f)}

\* LegalChunk: these fields have at least one character, and the offsets are in order
MinLength1 == {"chunk_id", "law_id", "law_name", "source_url", "level", "chunk_kind",
               "source_node_id", "parent_article_node_id"}
FitsSchema(row) ==
  /\ "source_url" \in DOMAIN row
  /\ \A f \in MinLength1 : row[f] # ""
  /\ row.level \in {"article", "clause", "point"}
  /\ row.citation # {} /\ row.text.chars > 0 /\ row.parent_text.chars > 0

\* _check_required_field_values, for what the schema lets through
NumbersOf(kind) == IF kind = "article_level_empty" THEN {} ELSE Conditional(kind)
ValuesMissing(row) ==
  \/ \E h \in Hashes : row[h].chars = 0
  \/ \E f \in NumbersOf(row.chunk_kind) : row[f] = ""

CitationErrors(row) ==
  LET needed == {<<"article_number", row.article_number>>, <<"clause_number", row.clause_number>>,
                 <<"point_label", row.point_label>>}
  IN {p \in needed : p[1] \in Conditional(row.chunk_kind) /\ p[2] # "" /\ p \notin row.citation}

----------------------------------------------------------------------------
(* Traceability: nodes maps the node ids of a hierarchy to [level, number, *)
(* parent].                                                                *)

Differs(a, b) == a # "" /\ b # "" /\ a # b
SourceErrors(row, nodes) ==
  LET source == nodes[row.source_node_id]
      article == row.parent_article_node_id
  IN CASE row.chunk_kind \in {"article_level", "article_level_empty"} ->
            \/ source.level # "article" \/ Differs(source.number, row.article_number)
            \/ row.source_node_id # article
       [] row.chunk_kind = "clause_level" ->
            \/ source.level # "clause" \/ Differs(source.number, row.clause_number)
            \/ Differs(source.parent, article)
       [] row.chunk_kind = "point_level" ->
            \/ source.level # "point" \/ Differs(source.number, row.point_label)
            \/ /\ source.parent # ""
               /\ IF source.parent \notin DOMAIN nodes THEN TRUE
                  ELSE LET clause == nodes[source.parent]
                       IN \/ clause.level # "clause"
                          \/ Differs(clause.number, row.clause_number)
                          \/ Differs(clause.parent, article)
       [] OTHER -> FALSE
Untraceable(row, nodes) ==
  \/ row.parent_article_node_id \notin DOMAIN nodes
  \/ LET article == nodes[row.parent_article_node_id]
     IN article.level # "article" \/ Differs(article.number, row.article_number)
  \/ row.source_node_id \notin DOMAIN nodes
  \/ SourceErrors(row, nodes)

----------------------------------------------------------------------------
(* One line: the categories of the errors and warnings it adds.            *)

Marked(row) == row.metadata.empty \/ row.metadata.unit
SaysRepealed(row) == row.text.repealed \/ row.parent_text.repealed
RepealLost(row) ==
  /\ ~ Marked(row)
  /\ \/ row.text.repealed
     \/ row.chunk_kind \in {"article_level", "article_level_empty"} /\ row.parent_text.repealed
Markers(row) == row.text.markers \cup row.parent_text.markers
LengthWarned(row) ==
  \/ row.text.chars < ShortText /\ row.text.visible /\ ~ Marked(row)
  \/ row.text.chars > LongText
  \/ ~ row.parent_text.visible
  \/ row.parent_text.chars > LongParent

PayloadErrors(row) == {c \in {"payload_failures"} : PayloadFailures(row) # {}}

RowErrors(row, seen, hierarchy) ==
  {c \in {"duplicate_chunk_ids"} : row.chunk_id \in seen}
  \cup {c \in {"hash_mismatches"} :
           row.text_hash # row.text \/ row.parent_text_hash # row.parent_text}
  \cup {c \in {"citation_failures"} : CitationErrors(row) # {}}
  \cup {c \in {"traceability_failures"} :
           row.law_id \notin DOMAIN hierarchy \/ Untraceable(row, hierarchy[row.law_id])}
  \cup {c \in {"contamination_failures"} : "hard" \in Markers(row)}
  \cup {c \in {"repealed_metadata_mismatches"} : RepealLost(row)}
  \cup {c \in {"empty_text"} : ~ row.text.visible /\ ~ Marked(row)}
  \cup PayloadErrors(row)
RowWarnings(row) ==
  {c \in {"contamination_warnings"} : "warning" \in Markers(row)}
  \cup {c \in {"repealed_metadata_warnings"} : Marked(row) /\ ~ SaysRepealed(row)}
  \cup {c \in {"text_length_warnings"} : LengthWarned(row)}
  \cup {c \in {"payload_warnings"} : PayloadWarnings(row) # {}}

\* LegalChunk accepts the row; and the checks of the row are reached
FitsModel(l) == l.line = "row" /\ (\A f \in Present : ~ Lacks(l.row, f)) /\ FitsSchema(l.row)
Passes(l) == FitsModel(l) /\ ~ ValuesMissing(l.row)
StopsAt(l) ==
  IF l.line \in {"blank", "garbled"} THEN "jsonl_parse_failures"
  ELSE IF l.line = "row" /\ (FitsModel(l) \/ \E f \in Present : Lacks(l.row, f))
  THEN "required_field_failures"
  ELSE "schema_failures"
ErrorsOf(l, seen, hierarchy) ==
  IF Passes(l) THEN RowErrors(l.row, seen, hierarchy) ELSE {StopsAt(l)}
WarningsOf(l) == IF Passes(l) THEN RowWarnings(l.row) ELSE {}
NotReady(l) == l.line = "row" /\ PayloadFailures(l.row) # {}

----------------------------------------------------------------------------
(* The file and its report.                                                *)

\* counted: the places of the lines that count
CountOf(lines, counted, level) == Cardinality({i \in counted : lines[i].row.level = level})
LawsOf(lines, counted) == {lines[i].row.law_id : i \in counted}

\* _reconcile_counts_with_chunking_report: what the report lacks or cannot be read is a
\* warning, a count that differs an error; of the laws only their number is compared
ReconciliationErrors(lines, counted, report) ==
  IF ~ report.readable THEN 0
  ELSE (IF report.total_chunks = Len(lines) THEN 0 ELSE 1)
       + Cardinality({level \in DOMAIN report.chunks_by_level :
                        report.chunks_by_level[level] # CountOf(lines, counted, level)})
ReconciliationWarnings(lines, counted, report) ==
  IF ~ report.readable THEN 1
  ELSE IF Cardinality(report.laws) # Cardinality(LawsOf(lines, counted)) THEN 1 ELSE 0

\* the ids of the rows before line i; what is found in each line; how much that is
IdsBefore(lines, i) == {lines[j].row.chunk_id : j \in {k \in 1 .. i - 1 : Passes(lines[k])}}
Errors(lines, hierarchy) ==
  [i \in DOMAIN lines |-> ErrorsOf(lines[i], IdsBefore(lines, i), hierarchy)]
Warnings(lines) == [i \in DOMAIN lines |-> WarningsOf(lines[i])]
Total(found) == Cardinality(UNION {{i} \X found[i] : i \in DOMAIN found})

\* _build_embedding_readiness_summary; the payload rate of a file without objects
\* is 0, which blocks too
Ready(errors, invalid, unready, objects) ==
  errors = 0 /\ invalid = 0 /\ unready = 0 /\ objects > 0
StatusOf(errors, warnings) ==
  IF errors > 0 THEN "fail" ELSE IF warnings > 0 THEN "pass_with_warnings" ELSE "pass"

Validation(lines, report, hierarchy) ==
  LET found == Errors(lines, hierarchy)
      counted == {i \in DOMAIN lines : FitsModel(lines[i])}
      unreconciled == ReconciliationErrors(lines, counted, report)
      errors == Total(found) + unreconciled
      warnings == Total(Warnings(lines)) + ReconciliationWarnings(lines, counted, report)
      invalid == Cardinality({i \in DOMAIN lines : found[i] # {}})
      objects == Cardinality({i \in DOMAIN lines : lines[i].line = "row"})
      unready == Cardinality({i \in DOMAIN lines : NotReady(lines[i])})
  IN [errors |-> errors, warnings |-> warnings, invalid |-> invalid,
      failures |-> UNION {found[i] : i \in DOMAIN lines},
      reconciled |-> unreconciled = 0,
      valid |-> Len(lines) - invalid,
      status |-> StatusOf(errors, warnings),
      embedding_ready |-> Ready(errors, invalid, unready, objects)]
=============================================================================
