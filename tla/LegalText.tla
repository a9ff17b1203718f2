----------------------------- MODULE LegalText -----------------------------
(***************************************************************************)
(* One law through the text pipeline: what the cleaning step takes from a  *)
(* stored page is read by the heading recognizer line by line, the         *)
(* segmenter turns headings into spans, the builder hangs the spans into a *)
(* tree, the tree validator judges it, and the chunker cuts what was       *)
(* accepted.                                                               *)
(*                                                                         *)
(* A line is what the recognizer's patterns see of it: the first pattern   *)
(* that matches (kind), the number in it as a pair of digits and letter    *)
(* ("217a" is <<217, "a">>), and nothing else.  Offsets are line numbers:  *)
(* a unit [start, end) holds the lines start .. end - 1.                   *)
(***************************************************************************)
EXTENDS Naturals, Sequences, FiniteSets, SequencesExt, LegalGrammar, Cleaning

CONSTANTS Letters,  \* what may follow the digits of a number
          Pages     \* the stored pages considered

Kinds == {"blank", "text", "title", "amending_law", "reference", "end_phrase", "end_line",
          "site_line", "watermark", "word_dieu", "note", "footnote", "tail", "appendix", "table",
          "signature_footer", "part", "chapter", "section", "point"}
           \cup Quoting \cup ArticleLike \cup ClauseLike
Lines == [kind : Kinds, num : Nat \X Letters]

ASSUME LettersAssumption == "" \in Letters
ASSUME PagesAssumption ==
  \A page \in Pages : /\ page.known \in BOOLEAN
                      /\ page.before \in Seq(Lines) /\ page.after \in Seq(Lines)
                      /\ page.blocks \in Seq(Seq(Lines))

VARIABLES taken,      \* the lines the cleaning step took of a page, how, and from which blocks
          doc,        \* normalized_text
          pos,        \* the next line of the recognizer's loop
          ctx,        \* _RecognitionState
          headings,   \* HeadingRecognitionResult.headings
          boundaries, \* HeadingRecognitionResult.boundaries
          refused,    \* rejected and ambiguous candidates, with the reason
          issues,     \* codes of the recognizer's warnings
          outcome,    \* of LegalParser.parse_loaded; NoOutcome before it
          chunks      \* of ChunkingService for this law; NoChunks before it

lawVars == <<taken, doc, pos, ctx, headings, boundaries, refused, issues, outcome, chunks>>
text == <<taken, doc, outcome, chunks>>

NoOutcome == [status |-> "none"]
NoChunks == [status |-> "none", rows |-> << >>]

----------------------------------------------------------------------------
(* The recognizer.                                                         *)

FreshContext == [article |-> None, clause |-> None, note |-> FALSE, started |-> FALSE,
                 quote |-> FALSE, tail |-> FALSE, appendix |-> FALSE, table |-> FALSE]

LawInit == /\ \E page \in Pages : taken \in Extracted(page)
           /\ doc = Cleaned(taken)
           /\ pos = 1
           /\ ctx = FreshContext
           /\ headings = <<>> /\ boundaries = {} /\ refused = {} /\ issues = {}
           /\ outcome = NoOutcome
           /\ chunks = NoChunks

\* a source note may be over when the next article of the law itself comes
Resumes(c, l) == /\ l.kind = "article"
                 /\ l.num[1] = (IF c.article = None THEN 1 ELSE c.article[1] + 1)

\* _should_suppress_source_note_content: is the line dropped, and the context it leaves
Suppress(c, l) ==
  LET Keep(d) == [drop |-> FALSE, then |-> d]
      Drop(d) == [drop |-> TRUE, then |-> d]
      quoted == l.kind \in Quoting
  IN CASE ~ c.note -> Keep(c)
       [] c.note /\ c.tail -> Drop(c)
       [] c.note /\ ~ c.tail /\ ~ c.started ->
            IF quoted \/ l.kind \in ArticleLike
            THEN Drop([c EXCEPT !.started = TRUE, !.tail = TRUE, !.quote = quoted])
            ELSE Keep([c EXCEPT !.started = TRUE])
       [] c.note /\ ~ c.tail /\ c.started ->
            IF quoted THEN Drop([c EXCEPT !.tail = TRUE, !.quote = TRUE])
            ELSE IF l.kind \notin ArticleLike THEN Keep(c)
            ELSE IF Resumes(c, l)
                 THEN Keep([c EXCEPT !.note = FALSE, !.started = FALSE, !.quote = FALSE])
                 ELSE Drop([c EXCEPT !.tail = TRUE])

Excluded(c) == c.note \/ c.appendix \/ c.table

Line == doc[pos]
Reading == pos <= Len(doc)
Next1 == pos' = pos + 1
\* Mutant: a boundary is placed after its line.
BoundaryAfter(k) == boundaries' = boundaries \cup {[kind |-> k, at |-> pos + 1]}
Boundary(k) == boundaries' = boundaries \cup {[kind |-> k, at |-> pos]}

SkipBlank == /\ Reading /\ Line.kind = "blank"
             /\ Next1
             /\ UNCHANGED <<text, ctx, headings, boundaries, refused, issues>>

\* an introduction of a source note, and the certification or preamble that starts the
\* tail of a consolidated text once an article has been seen
SourceNote ==
  /\ Reading
  /\ \/ Line.kind \in {"note", "footnote"}
     \/ Line.kind = "tail" /\ ctx.article # None
  /\ ctx' = [ctx EXCEPT !.note = TRUE, !.started = FALSE, !.quote = FALSE, !.clause = None,
                        !.tail = (Line.kind # "note")]
  /\ Boundary("source_note")
  /\ issues' = issues \cup {Issue("SOURCE_NOTE_EXCLUDED")}
  /\ Next1
  /\ UNCHANGED <<text, headings, refused>>

\* an appendix never ends; a table ends with the next article; a signature only ends
\* the clause
OtherBoundary ==
  /\ Reading /\ Line.kind \in {"appendix", "table", "signature_footer"}
  /\ Boundary(Line.kind)
  /\ ctx' = [ctx EXCEPT !.clause = None,
                        !.appendix = @ \/ Line.kind = "appendix",
                        !.table = @ \/ Line.kind = "table"]
  /\ Next1
  /\ UNCHANGED <<text, headings, refused, issues>>

\* lines of other kinds reach the source-note filter, which may drop them
Filtered == Suppress(ctx, Line)
Content == /\ Reading
           /\ Line.kind \notin {"blank", "note", "footnote", "appendix", "table", "signature_footer"}
           /\ ~ (Line.kind = "tail" /\ ctx.article # None)
           /\ Next1
           /\ UNCHANGED <<text, boundaries>>

DropNoteContent == /\ Content /\ Filtered.drop
                   /\ ctx' = Filtered.then
                   /\ UNCHANGED <<headings, refused, issues>>

Heading(level, c) == headings' = Append(headings,
    [level |-> level, num |-> Line.num, at |-> pos, article |-> c.article, clause |-> c.clause])
Refuse(reason) == refused' = refused \cup {[at |-> pos, reason |-> reason]}

Structure == /\ Content /\ ~ Filtered.drop
             /\ Line.kind \in {"part", "chapter", "section"}
             /\ Heading(Line.kind, FreshContext)
             /\ ctx' = [Filtered.then EXCEPT !.article = None, !.clause = None]
             /\ UNCHANGED <<refused, issues>>

Article == /\ Content /\ ~ Filtered.drop
           /\ Line.kind = "article" /\ ~ Filtered.then.appendix
           /\ Heading("article", FreshContext)
           /\ ctx' = [Filtered.then EXCEPT !.article = Line.num, !.clause = None, !.note = FALSE,
                                      !.started = FALSE, !.quote = FALSE, !.tail = FALSE,
                                      !.table = FALSE]
           /\ UNCHANGED <<refused, issues>>

Point ==
  LET c == Filtered.then
  IN /\ Content /\ ~ Filtered.drop
     /\ Line.kind = "point"
     /\ ctx' = c
     /\ \/ /\ Excluded(c)
           /\ Refuse("excluded")
           /\ UNCHANGED <<headings, issues>>
        \/ /\ ~ Excluded(c) /\ c.clause = None
           /\ Refuse("missing_active_clause")
           /\ issues' = issues \cup {Issue("POINT_LIKE_LINE_OUTSIDE_CLAUSE")}
           /\ UNCHANGED headings
        \/ /\ ~ Excluded(c) /\ c.clause # None
           /\ Heading("point", c)
           /\ UNCHANGED <<refused, issues>>

\* `N Text` without its dot is a clause when what follows says so
NextVisible == {i \in pos + 1 .. Len(doc) : doc[i].kind # "blank"
                                             /\ \A j \in pos + 1 .. i - 1 : doc[j].kind = "blank"}
SafeWithoutDot ==
  \/ Line.kind = "repealed_clause"
  \/ /\ Line.kind = "clause_without_dot"
     /\ \E i \in NextVisible : \/ doc[i].kind = "point"
                               \/ doc[i].kind = "clause" /\ doc[i].num[1] = Line.num[1] + 1

\* Mutant: a malformed clause does not become the active one.
OpensOnlyWellFormed(c) == IF Line.kind = "clause" THEN [c EXCEPT !.clause = Line.num] ELSE c
OpensClause(c) == [c EXCEPT !.clause = Line.num]

Clause ==
  LET c == Filtered.then
      certain == \/ Line.kind \in {"clause", "quoted_clause", "compact_clause"}
                 \/ Line.kind \in DotlessClauses /\ SafeWithoutDot
      barred == Excluded(c) \/ Line.kind = "date" \/ c.article = None
  IN /\ Content /\ ~ Filtered.drop
     /\ Line.kind \in ClauseLike
     /\ \/ /\ barred
           /\ Refuse("not_here")
           /\ ctx' = c
           /\ UNCHANGED <<headings, issues>>
        \/ /\ ~ barred /\ certain
           /\ Heading("clause", c)
           /\ ctx' = OpensClause(c)
           /\ UNCHANGED <<refused, issues>>
        \/ /\ ~ barred /\ Line.kind = "formula"
           /\ Refuse("formula_like_numbered_line")
           /\ ctx' = c
           /\ UNCHANGED <<headings, issues>>
        \/ /\ ~ barred /\ ~ certain /\ Line.kind # "formula"
           /\ Refuse("ambiguous")
           /\ issues' = issues \cup {Issue("AMBIGUOUS_CLAUSE_CANDIDATE")}
           /\ ctx' = c
           /\ UNCHANGED headings

\* every other line is left where it is; so is an article of an appendix
Plain == /\ Content /\ ~ Filtered.drop
         /\ \/ Line.kind \notin {"part", "chapter", "section", "article", "point"} \cup ClauseLike
            \/ Line.kind = "article" /\ Filtered.then.appendix
         /\ ctx' = Filtered.then
         /\ UNCHANGED <<headings, refused, issues>>

----------------------------------------------------------------------------
(* The parser facade and the chunking of its document.                     *)

\* markers of the cleaning step: what it counts as article headings
CountedArticles == {i \in 1 .. Len(doc) : HeadingLine(doc[i])}

\* NormalizedLegalArtifact: there is a text
Loaded == doc # << >>

Judged ==
  LET units == Units(headings, boundaries, Len(doc) + 1)
      built == Build(units, Len(doc) + 1)
      errors == TreeErrors(built.nodes, Len(doc) + 1)
      warnings == issues \cup built.collisions
                    \cup ArticleWarnings(built.nodes, doc, CountedArticles)
  IN IF built.failed
     THEN [status |-> "failed", errors |-> {"INVALID_TREE"}, warnings |-> issues,
           nodes |-> <<>>, carried |-> {}]
     ELSE IF errors # {}
     THEN [status |-> "failed", errors |-> errors, warnings |-> warnings,
           nodes |-> <<>>, carried |-> {}]
     ELSE [status |-> IF warnings = {} THEN "success" ELSE "success_with_warnings",
           errors |-> {}, warnings |-> warnings, nodes |-> built.nodes,
           carried |-> issues \cup built.collisions]

Parse == /\ Loaded /\ ~ Reading /\ outcome = NoOutcome
         /\ outcome' = Judged
         /\ UNCHANGED <<taken, doc, pos, ctx, headings, boundaries, refused, issues, chunks>>

\* ChunkingService for one stored hierarchy: the tree is validated again, against its own
\* root text; what the chunk validator refuses is not written
Chunked ==
  LET cut == Cut(outcome.nodes, doc, outcome.carried)
      errors == ChunkErrors(outcome.nodes, cut)
  IN IF TreeErrors(outcome.nodes, Len(doc) + 1) # {}
     THEN [status |-> "failed", errors |-> {"TREE_VALIDATION_FAILED"}, rows |-> <<>>]
     ELSE IF errors # {}
     THEN [status |-> "failed", errors |-> errors, rows |-> <<>>]
     ELSE [status |-> "success", errors |-> {}, rows |-> cut]

Chunk == /\ outcome.status \in {"success", "success_with_warnings"} /\ chunks = NoChunks
         /\ chunks' = Chunked
         /\ UNCHANGED <<taken, doc, pos, ctx, headings, boundaries, refused, issues, outcome>>

LawNext == \/ SkipBlank \/ SourceNote \/ OtherBoundary \/ DropNoteContent
           \/ Structure \/ Article \/ Point \/ Clause \/ Plain
           \/ Parse \/ Chunk

LawSpec == LawInit /\ [][LawNext]_lawVars

----------------------------------------------------------------------------
(* Properties.                                                             *)

Accepted == outcome.status \in {"success", "success_with_warnings"}

\* The state is well formed: headings and boundaries are at lines already read.
LawTypeOK ==
  /\ pos \in 1 .. Len(doc) + 1
  /\ \A k \in DOMAIN headings : /\ headings[k].at \in 1 .. pos - 1
                                 /\ headings[k].level \in DOMAIN MayHold
  /\ \A b \in boundaries : b.at \in 1 .. pos - 1
  /\ outcome.status \in {"none", "failed", "success", "success_with_warnings"}
  /\ chunks.status \in {"none", "failed", "success"}

\* A block of the law that the text may lack: one of at most ShortText characters, which
\* the site's container drops whatever stands in it, and one that is not the container
\* that scored best.
LeftOut(t, n) ==
  \/ t.by = "preferred_tvpl_selector" /\ Len(t.blocks[n]) <= ShortText
  \/ t.by = "fallback_scoring" /\ \E m \in DOMAIN t.blocks \ {n} : t.lines = t.blocks[m]

HeadingsTaken(t) ==
  \A n \in DOMAIN t.blocks : \A i \in DOMAIN t.blocks[n] :
     HeadingLine(t.blocks[n][i]) =>
        LeftOut(t, n) \/ \E k \in DOMAIN t.lines : t.lines[k] = t.blocks[n][i]

\* A line that ends the law, outside the container of the site.
EndsBefore(i) ==
  /\ taken.by # "preferred_tvpl_selector"
  /\ \E j \in 1 .. i - 1 : /\ taken.lines[j].kind \in {"end_line", "end_phrase"}
                           /\ Count(SubSeq(taken.lines, 1, j), NamesArticle) >= 3

HeadingsKept ==
  LET lines == taken.lines
      early == {k \in Firsts(lines, FirstArticle) : k - 1 <= EarlyWindow}
  IN \A k \in early : \A i \in {n \in DOMAIN lines : n > k /\ HeadingLine(lines[n])} :
        EndsBefore(i) \/ \E n \in DOMAIN doc : doc[n] = lines[i]

\* An article heading in the law's blocks of a page is in the text that was taken of the
\* page, unless its whole block was left out (extract_legal_text_from_html: a block too
\* short for the site's container, or, where the page has none, a block beside the one
\* that scored best).  Where Article 1 stands near the beginning of that text, no heading
\* after it is lost in what follows, except, outside the container of the site, past a
\* line that holds one of the phrases of END_MARKERS after three names of articles
\* (trim_to_legal_body): such a phrase in a sentence of the law cuts off its rest, or the
\* whole of it when it comes after three references in the preamble.  Nothing compares
\* the text with the page: clean_raw_artifact warns of a text shorter than a minimum,
\* of one that names no article, and of four named laws with too few articles.
ArticlesSurviveCleaning == HeadingsTaken(taken) /\ HeadingsKept

HeadingAt(line) == headings[CHOOSE k \in DOMAIN headings : headings[k].at = line]

\* A law whose headings were recognized fails to become a tree only when a source note or
\* an appendix stands before a later heading of it; otherwise the parents the builder
\* chooses always contain the spans the segmenter cut, and the tree validator agrees with
\* both.
FailsOnlyPastBoundary ==
  outcome.status = "failed" /\ outcome.errors # {"NO_ARTICLES_FOUND"} =>
     \E b \in boundaries : /\ b.kind \in {"source_note", "appendix"}
                           /\ \E k \in DOMAIN headings : headings[k].at > b.at

\* The article and the clause a chunk cites are those the recognizer was reading when it
\* came to the chunk's line, though the builder finds them again from spans alone.
CitationMatchesContext ==
  \A r \in DOMAIN chunks.rows :
     LET row == chunks.rows[r]
         h == HeadingAt(row.start)
     IN /\ row.level \in {"clause", "point"} => h.article = row.article_number
        /\ row.level = "point" => h.clause = row.clause_number

\* A law parsed without a warning lost none of the article headings that the cleaning step
\* counted in its text (which knows no lettered articles, so a law with one may hide a
\* loss).
CleanLawIsWhole ==
  /\ outcome.status = "success"
  /\ \A k \in Articles(outcome.nodes) : outcome.nodes[k].num[2] = ""
  => \A i \in CountedArticles : \E k \in Articles(outcome.nodes) : outcome.nodes[k].start = i

\* Of an accepted law every article, clause and point that was recognized reaches the
\* corpus: in a chunk of its own or in those of its parts, which follow each other without
\* overlap, and the chunk validator lets them all through.
UnitsReachChunks ==
  chunks # NoChunks =>
     /\ chunks.status = "success"
     /\ \A r \in 1 .. Len(chunks.rows) - 1 : chunks.rows[r].end <= chunks.rows[r + 1].start
     /\ \A k \in DOMAIN headings : headings[k].level \in {"article", "clause", "point"} =>
           \E r \in DOMAIN chunks.rows : /\ chunks.rows[r].start >= headings[k].at
                                         /\ \E n \in DOMAIN outcome.nodes :
                                               /\ outcome.nodes[n].start = headings[k].at
                                               /\ IsPrefix(outcome.nodes[n].id, chunks.rows[r].source)

\* The chunks of an accepted law are its units, each cited as it was read.
ChunksAreTheUnits == CitationMatchesContext /\ UnitsReachChunks

\* What the tests say of a source note inside an article (it ends where the next article of
\* the law comes, and does not take that article away), for a law that gets a tree at all
\* without it.
NoteEndsAtNextArticle ==
  /\ outcome.status = "failed"
  /\ \A b \in boundaries : b.kind = "source_note"
  /\ ~ ctx.note
  => outcome.errors = {"NO_ARTICLES_FOUND"}

\* What the chunk model says of its flag: the article of a flagged chunk is empty, repealed
\* or a placeholder; so a chunk of an article the parser reported as empty is flagged.
EmptyArticleIsFlagged ==
  \A r \in DOMAIN chunks.rows :
     [code |-> "EMPTY_ARTICLE_NODE", node |-> chunks.rows[r].article] \in outcome.warnings
        => chunks.rows[r].is_empty_or_repealed
=============================================================================
