------------------------------ MODULE Cleaning ------------------------------
(***************************************************************************)
(* From a stored page to the text the parser reads: the container that     *)
(* holds the law is chosen, what the site puts before and after the law is *)
(* cut off, and lines of the site between its lines are dropped.           *)
(*                                                                         *)
(* Lines are those of LegalText.  More kinds matter here: a title, whose   *)
(* number is its place in START_MARKERS; a reference, which names an       *)
(* article; a phrase of END_MARKERS within a sentence of the law           *)
(* (end_phrase) or as a line of the site (end_line); another line of the   *)
(* site (site_line), its watermark, and the word "Điều" alone.  A blank    *)
(* line of a page is one with nothing to see in it.  Lengths are counted   *)
(* in lines.                                                               *)
(***************************************************************************)
EXTENDS Naturals, Sequences, FiniteSets, SequencesExt, Listing

CONSTANTS ShortText,    \* 100 characters
          BodyText,     \* 500 characters
          EarlyWindow   \* EARLY_ARTICLE_1_WINDOW_CHARS

ASSUME LengthsAssumption ==
  /\ ShortText \in Nat /\ BodyText \in Nat /\ EarlyWindow \in Nat
  /\ ShortText <= BodyText

HeaderLookback == 6     \* HEADER_LOOKBACK_LINES

\* RE_ARTICLE_HEADING_LINE knows no lettered articles; RE_ARTICLE finds references too
HeadingLine(l) == l.kind \in {"article", "lower_article"} /\ l.num[2] = ""
NamesArticle(l) == l.kind \in {"article", "lower_article", "quoted_article", "note", "reference"}
FirstArticle(l) == HeadingLine(l) /\ l.num[1] = 1
Marked(l) == NamesArticle(l) \/ l.kind \in {"part", "chapter", "section", "title", "amending_law"}

Count(lines, Test(_)) == Cardinality({i \in DOMAIN lines : Test(lines[i])})
Some(lines, Test(_)) == Count(lines, Test) > 0
From(lines, n) == SubSeq(lines, n, Len(lines))
Firsts(lines, Test(_)) ==
  {i \in DOMAIN lines : Test(lines[i]) /\ \A j \in 1 .. i - 1 : ~ Test(lines[j])}

----------------------------------------------------------------------------
(* The container.  A page has the blocks of the law, in the container of   *)
(* the site or in one of another name, and lines around them.              *)

Blank == [kind |-> "blank", num |-> <<0, "">>]
Joined(blocks) == FlattenSeq([n \in DOMAIN blocks |-> IF n = 1 THEN blocks[n] ELSE <<Blank>> \o blocks[n]])

\* PREFERRED_CONTENT_SELECTORS: each block by itself, or the container as one
Selections(page) ==
  IF page.known THEN <<page.blocks, <<FlattenSeq(page.blocks)>>>> ELSE << >>
Legal(block) == Len(block) > ShortText /\ Some(block, Marked)
\* Mutant: one element is taken of those the selector finds.
TextOfFirst(blocks) ==
  LET legal == {n \in DOMAIN blocks : Legal(blocks[n])}
  IN IF legal = {} THEN << >> ELSE blocks[Min(legal)]
TextOf(blocks) == Joined(Kept(blocks, {n \in DOMAIN blocks : Legal(blocks[n])}))
Preferred(page) ==
  {n \in DOMAIN Selections(page) :
     LET lines == TextOf(Selections(page)[n])
     IN Len(lines) > BodyText /\ Some(lines, LAMBDA l : HeadingLine(l) /\ l.num[1] > 0)}

Whole(page) == page.before \o FlattenSeq(page.blocks) \o page.after

\* which of these scores best depends on links, names and lengths: any may
Candidates(page) ==
  {c \in {Whole(page), FlattenSeq(page.blocks)} \cup Range(page.blocks) :
     Some(c, LAMBDA l : l.kind \in {"article", "quoted_article", "note", "reference",
                                   "chapter", "section"})}

\* the lines taken, how they were found, and the blocks they were taken from
Extracted(page) ==
  LET preferred == Preferred(page)
      candidates == Candidates(page)
      Found(strategy, found) == [by |-> strategy, blocks |-> page.blocks, lines |-> found]
  IN IF preferred # {}
     THEN {Found("preferred_tvpl_selector", TextOf(Selections(page)[Min(preferred)]))}
     ELSE IF candidates # {} THEN {Found("fallback_scoring", c) : c \in candidates}
     ELSE {Found("body_fallback", Whole(page))}

----------------------------------------------------------------------------
(* The beginning and the end of the law.                                   *)

Evidence(lines, min_length) == Count(lines, NamesArticle) >= 2 /\ Len(lines) >= min_length

\* an official title; the note of an amending law is none
Header(l) == l.kind = "title" /\ l.num[1] <= 5
HeaderBefore(lines, article) ==
  LET near == {i \in 1 .. article - 1 : i >= article - HeaderLookback /\ Header(lines[i])}
  IN IF near = {} THEN article ELSE CHOOSE i \in near : \A j \in near : j <= i

EarlyStarts(lines) ==
  {HeaderBefore(lines, i) : i \in {k \in Firsts(lines, FirstArticle) :
                                     k - 1 <= EarlyWindow /\ Evidence(From(lines, k), ShortText)}}

\* START_MARKERS, the most reliable first; a note of an amending law begins like a title
Matches(l, marker) == \/ l.kind = "title" /\ l.num[1] = marker
                      \/ l.kind = "amending_law" /\ marker = 5
                      \/ l.kind = "chapter" /\ l.num[1] = 1 /\ marker = 7
                      \/ FirstArticle(l) /\ marker = 8
MarkedStarts(lines) ==
  LET At(marker) == {i \in Firsts(lines, LAMBDA l : Matches(l, marker)) :
                       Evidence(From(lines, i), BodyText)}
      found == {m \in 1 .. 8 : At(m) # {}}
  IN UNION {At(m) : m \in {n \in found : \A k \in found : n <= k}}

Beginning(lines) ==
  LET early == EarlyStarts(lines)
      starts == IF early # {} THEN early ELSE MarkedStarts(lines)
  IN IF starts = {} THEN 1 ELSE CHOOSE s \in starts : TRUE

\* an end marker counts after three articles
Ends(lines) ==
  LET begin == Firsts(lines, NamesArticle)
  IN {i \in DOMAIN lines :
        /\ lines[i].kind \in {"end_line", "end_phrase"}
        /\ \E b \in begin : /\ b + 3 <= i /\ b + ShortText <= i
                            /\ Count(SubSeq(lines, b, i - 1), NamesArticle) >= 3}
BeforeEnd(lines) ==
  LET ends == Ends(lines)
  IN IF ends = {} THEN lines ELSE SubSeq(lines, 1, (CHOOSE i \in ends : \A j \in ends : i <= j) - 1)

\* Mutant: the end is trimmed wherever the text comes from.
TrimBothEnds(taken) == BeforeEnd(From(taken.lines, Beginning(taken.lines)))
\* trim_to_legal_body: what the container of the site holds keeps its end
Trim(taken) ==
  LET body == From(taken.lines, Beginning(taken.lines))
  IN IF taken.by = "preferred_tvpl_selector" THEN body ELSE BeforeEnd(body)

----------------------------------------------------------------------------
(* Lines.                                                                  *)

\* SAFE_BOILERPLATE, end markers that are a line of their own among them
WithoutBoilerplate(lines) ==
  Kept(lines, {i \in DOMAIN lines : lines[i].kind \notin {"site_line", "end_line"}})

\* "Điều" and "1. Title" on the next line are one heading
Joins(l, next) == l.kind = "word_dieu" /\ next.kind = "clause"
JoinFragments(lines) ==
  LET joined == {i \in DOMAIN lines : i > 1 /\ Joins(lines[i - 1], lines[i])}
  IN Kept([i \in DOMAIN lines |-> IF i + 1 \in joined THEN [kind |-> "article", num |-> lines[i + 1].num]
                                 ELSE lines[i]],
          DOMAIN lines \ joined)
CollapseBlanks(lines) ==
  Kept(lines, {i \in DOMAIN lines : ~ (i > 1 /\ lines[i - 1].kind = "blank" /\ lines[i].kind = "blank")})
WithoutWatermark(lines) == Kept(lines, {i \in DOMAIN lines : lines[i].kind # "watermark"})

Cleaned(taken) ==
  WithoutWatermark(CollapseBlanks(JoinFragments(WithoutBoilerplate(Trim(taken)))))
=============================================================================
