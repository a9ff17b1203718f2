---------------------------- MODULE LegalGrammar ----------------------------
(***************************************************************************)
(* The passes over a recognized law that keep no state of their own: the   *)
(* span segmenter, the hierarchy builder, the tree validator, the chunker  *)
(* and the chunk validator.  Offsets are line numbers; a span [start, end) *)
(* holds the lines start .. end - 1, and a text is the span it was cut     *)
(* from.  A number is a pair of digits and letter: "217a" is <<217, "a">>. *)
(***************************************************************************)
EXTENDS Naturals, Sequences, FiniteSets, SequencesExt, Listing

None == << >>    \* no number, no node

Quoting == {"quote", "quoted_article", "quoted_clause"}
ArticleLike == {"article", "lower_article", "quoted_article"}
DotlessClauses == {"clause_without_dot", "repealed_clause"}
ClauseLike == {"clause", "compact_clause", "quoted_clause", "bad_dot_clause", "date",
               "formula"} \cup DotlessClauses

Levels == <<"law", "part", "chapter", "section", "article", "clause", "point">>
Rank(level) == CHOOSE i \in DOMAIN Levels : Levels[i] = level

----------------------------------------------------------------------------
(* Segmentation: a unit ends at the next heading of its level or above, or *)
(* at the first boundary inside it that ends spans.                        *)

EndOf(i, headings, boundaries, end) ==
  LET h == headings[i]
      closing == {headings[j].at : j \in {k \in i + 1 .. Len(headings) :
                                            Rank(headings[k].level) <= Rank(h.level)}}
      natural == Min(closing \cup {end})
      cutting == {b \in boundaries :
                    /\ h.at < b.at /\ b.at < natural
                    /\ \/ b.kind \in {"source_note", "appendix"}
                       \/ /\ b.kind = "signature_footer"
                          /\ \A j \in DOMAIN headings : headings[j].at <= b.at}
  IN Min({natural} \cup {b.at : b \in cutting})

Units(headings, boundaries, end) ==
  [i \in DOMAIN headings |-> [level |-> headings[i].level, num |-> headings[i].num,
                              start |-> headings[i].at, end |-> EndOf(i, headings, boundaries, end)]]

----------------------------------------------------------------------------
(* Building: units in source order hang below the nearest active unit that *)
(* may hold them.  A node is known by its path of <<level, token, n>>.     *)

MayHold == [part |-> <<"law">>, chapter |-> <<"part", "law">>,
            section |-> <<"chapter", "part", "law">>,
            article |-> <<"section", "chapter", "part", "law">>,
            clause |-> <<"article">>, point |-> <<"clause">>]
\* Mutant: a chapter leaves the section before it open.
ClosesButSections == [part |-> {"chapter", "section", "article", "clause"},
                      chapter |-> {"article", "clause"}, section |-> {"article", "clause"},
                      article |-> {"clause"}, clause |-> {}, point |-> {}]
Closes == [part |-> {"chapter", "section", "article", "clause"},
           chapter |-> {"section", "article", "clause"},
           section |-> {"article", "clause"}, article |-> {"clause"},
           clause |-> {}, point |-> {}]

\* roman numerals of chapters are upper-cased; the model writes "i" as <<1, "i">>
NodeToken(level, num) == IF level = "chapter" THEN <<num[1], "">> ELSE num

SelectParent(active, level) ==
  LET held == {i \in DOMAIN MayHold[level] : active[MayHold[level][i]] # 0}
  IN IF held = {} THEN 0 ELSE active[MayHold[level][Min(held)]]

Encloses(outer, inner) == outer.start <= inner.start /\ inner.end <= outer.end

NodeOf(unit, id, parent) == [id |-> id, level |-> unit.level, num |-> unit.num, start |-> unit.start,
                             end |-> unit.end, parent |-> parent, children |-> << >>]

\* a new node, the last child of node p
WithNode(nodes, p, new) == Append([nodes EXCEPT ![p].children = Append(@, new.id)], new)

UpdateActive(active, unit, n) ==
  [l \in DOMAIN active |-> IF l = unit.level /\ l # "point" THEN n
                           ELSE IF l \in Closes[unit.level] THEN 0 ELSE active[l]]

AddUnit(built, unit) ==
  LET p == SelectParent(built.active, unit.level)
      parent == built.nodes[p]
      base == <<parent.id, unit.level, NodeToken(unit.level, unit.num)>>
      n == Cardinality({i \in DOMAIN built.bases : built.bases[i] = base}) + 1
      id == Append(parent.id, <<unit.level, NodeToken(unit.level, unit.num), n>>)
      taken == \E i \in DOMAIN built.nodes : built.nodes[i].id = id
  IN IF built.failed THEN built
     ELSE IF p = 0 THEN [built EXCEPT !.failed = TRUE]
     ELSE IF ~ Encloses(parent, unit) \/ taken THEN [built EXCEPT !.failed = TRUE]
     ELSE [built EXCEPT
             !.nodes = WithNode(@, p, NodeOf(unit, id, parent.id)),
             !.active = UpdateActive(@, unit, Len(built.nodes) + 1),
             !.bases = Append(@, base),
             !.collisions = IF n = 1 THEN @
                            ELSE @ \cup {[code |-> "NODE_ID_COLLISION_RESOLVED", node |-> id]}]

Root(end) == [id |-> <<"root">>, level |-> "law", num |-> None, start |-> 1, end |-> end,
              parent |-> None, children |-> << >>]
NothingBuilt(end) == [nodes |-> <<Root(end)>>, bases |-> << >>, collisions |-> {}, failed |-> FALSE,
                      active |-> [l \in Range(Levels) |-> IF l = "law" THEN 1 ELSE 0]]

\* what is built of the first n units
Built(units, end, n) ==
  LET f[i \in 0 .. Len(units)] == IF i = 0 THEN NothingBuilt(end) ELSE AddUnit(f[i - 1], units[i])
  IN f[n]
Build(units, end) == Built(units, end, Len(units))

----------------------------------------------------------------------------
(* The tree validator: the codes of the errors it finds.                   *)

Ids(nodes) == {nodes[i].id : i \in DOMAIN nodes}
Named(nodes, id) == nodes[Min({i \in DOMAIN nodes : nodes[i].id = id})]
Bounded(n, end) == 1 <= n.start /\ n.start < n.end /\ n.end <= end

IndexErrors(nodes) ==
  IF Cardinality(Ids(nodes)) # Len(nodes) THEN {"UNRESOLVED_DUPLICATE_NODE_ID"} ELSE {}

RootErrors(nodes, end) ==
  LET laws == {i \in DOMAIN nodes : nodes[i].level = "law"}
      root == nodes[1]
  IN (IF laws # {1} \/ root.parent # None \/ root.num # None THEN {"INVALID_TREE"} ELSE {})
     \cup (IF root.start # 1 \/ root.end # end THEN {"INVALID_OFFSET", "TEXT_OFFSET_MISMATCH"} ELSE {})

ReferenceErrors(nodes) ==
  LET linked == \A i \in DOMAIN nodes :
                  /\ IsInjective(nodes[i].children)
                  /\ \A id \in Range(nodes[i].children) :
                        id \in Ids(nodes) /\ Named(nodes, id).parent = nodes[i].id
                  /\ nodes[i].parent \in Ids(nodes) =>
                        nodes[i].id \in Range(Named(nodes, nodes[i].parent).children)
      orphan == \E i \in DOMAIN nodes : i # 1 /\ nodes[i].parent \notin Ids(nodes)
  IN (IF linked THEN {} ELSE {"INVALID_TREE"}) \cup (IF orphan THEN {"ORPHAN_NODE"} ELSE {})

\* the ids within n links of those in from; links maps an id to the ids it is linked to
Linked(from, links, n) ==
  LET f[i \in 0 .. n] == IF i = 0 THEN from
                         ELSE f[i - 1] \cup UNION {links[id] : id \in f[i - 1] \cap DOMAIN links}
  IN f[n]
Ancestors(nodes, n) ==
  Linked({n.parent}, [id \in Ids(nodes) |-> {Named(nodes, id).parent}], Len(nodes))
Reachable(nodes) ==
  Linked({nodes[1].id}, [id \in Ids(nodes) |-> Range(Named(nodes, id).children)], Len(nodes))

CycleErrors(nodes) ==
  IF \E i \in DOMAIN nodes : nodes[i].id \in Ancestors(nodes, nodes[i])
  THEN {"PARENT_CYCLE"} ELSE {}
ReachErrors(nodes) == IF Ids(nodes) \subseteq Reachable(nodes) THEN {} ELSE {"ORPHAN_NODE"}

AllowedChildLevels ==
  [law |-> {"part", "chapter", "section", "article"}, part |-> {"chapter", "section", "article"},
   chapter |-> {"section", "article"}, section |-> {"article"}, article |-> {"clause"},
   clause |-> {"point"}, point |-> {}]
Below(nodes) == {<<nodes[i], nodes[j]>> : i, j \in DOMAIN nodes}
Pairs(nodes) == {p \in Below(nodes) : p[2].parent = p[1].id \/ p[2].id \in Range(p[1].children)}

LevelErrors(nodes) ==
  IF \A p \in Pairs(nodes) : p[2].level \in AllowedChildLevels[p[1].level]
  THEN {} ELSE {"INVALID_TREE"}

OffsetErrors(nodes, end) ==
  IF \A i \in DOMAIN nodes : Bounded(nodes[i], end) THEN {} ELSE {"INVALID_OFFSET"}

ContainmentErrors(nodes, end) ==
  IF \A p \in Below(nodes) : p[2].parent = p[1].id /\ Bounded(p[1], end) /\ Bounded(p[2], end)
                                 => Encloses(p[1], p[2])
  THEN {} ELSE {"INVALID_OFFSET"}

SiblingErrors(nodes, end) ==
  LET Children(n) == Kept([k \in DOMAIN n.children |-> Named(nodes, n.children[k])],
                          {k \in DOMAIN n.children : Bounded(Named(nodes, n.children[k]), end)})
      orderly == \A i \in DOMAIN nodes : LET c == Children(nodes[i])
                                         IN \A k \in 1 .. Len(c) - 1 : c[k].end <= c[k + 1].start
  IN IF orderly THEN {} ELSE {"INVALID_TREE"}

Articles(nodes) == {i \in DOMAIN nodes : nodes[i].level = "article"}

TreeErrors(nodes, end) ==
  IndexErrors(nodes) \cup RootErrors(nodes, end) \cup ReferenceErrors(nodes)
    \cup CycleErrors(nodes) \cup ReachErrors(nodes) \cup LevelErrors(nodes)
    \cup OffsetErrors(nodes, end) \cup ContainmentErrors(nodes, end) \cup SiblingErrors(nodes, end)
    \cup (IF Articles(nodes) = {} THEN {"NO_ARTICLES_FOUND"} ELSE {})

\* against the counts of the cleaning step (counted: the lines it took for article
\* headings); an article with nothing under its heading line is empty
Largest(S) == Max(S \cup {0})
Issue(code) == [code |-> code, node |-> None]
\* Mutant: only the largest number is compared.
LargestIsEnough(nodes, doc, counted) ==
  {w \in {Issue("MAX_ARTICLE_NUMBER_MISMATCH")} :
     Largest({nodes[k].num[1] : k \in Articles(nodes)}) # Largest({doc[k].num[1] : k \in counted})}
ArticleWarnings(nodes, doc, counted) ==
  LET found == Articles(nodes)
      Empty(n) == \A i \in n.start + 1 .. n.end - 1 : doc[i].kind = "blank"
      first_lost == /\ \E i \in counted : doc[i].num[1] = 1
                    /\ \A k \in found : nodes[k].num # <<1, "">>
  IN {w \in {Issue("MISSING_ARTICLE_1")} : first_lost}
     \cup {w \in {Issue("ARTICLE_COUNT_MISMATCH")} : Cardinality(found) # Cardinality(counted)}
     \cup {w \in {Issue("MAX_ARTICLE_NUMBER_MISMATCH")} :
              Largest({nodes[k].num[1] : k \in found}) # Largest({doc[k].num[1] : k \in counted})}
     \cup {[code |-> "EMPTY_ARTICLE_NODE", node |-> nodes[k].id] :
              k \in {a \in found : Empty(nodes[a])}}

----------------------------------------------------------------------------
(* Chunking: one chunk for each article without clauses, clause without    *)
(* points, and point.                                                      *)

ChildNodes(nodes, parent, level) ==
  Kept([k \in DOMAIN parent.children |-> Named(nodes, parent.children[k])],
       {k \in DOMAIN parent.children : Named(nodes, parent.children[k]).level = level})

\* a placeholder says that its unit was repealed; an empty article is one the carried
\* warnings call empty
BuildChunk(doc, carried, source, article, clause) ==
  LET repealed == \E i \in source.start .. source.end - 1 : doc[i].kind = "repealed_clause"
      empty == [code |-> "EMPTY_ARTICLE_NODE", node |-> article.id] \in carried
  IN [source |-> source.id, article |-> article.id, level |-> source.level,
      start |-> source.start, end |-> source.end,
      article_start |-> article.start, article_end |-> article.end,
      article_number |-> article.num, clause_number |-> clause.num,
      point_label |-> IF source.level = "point" THEN source.num ELSE None,
      is_empty_or_repealed |-> repealed \/ empty, is_source_unit_repealed |-> repealed,
      warnings |-> {w \in carried : w.node \in {source.id, article.id}}]

NoClause == [num |-> None]
CutClause(nodes, doc, carried, article, clause) ==
  LET points == ChildNodes(nodes, clause, "point")
  IN IF points = << >> THEN <<BuildChunk(doc, carried, clause, article, clause)>>
     ELSE [k \in DOMAIN points |-> BuildChunk(doc, carried, points[k], article, clause)]
\* Mutant: only clauses and points are cut out.
CutClausesOnly(nodes, doc, carried, article) ==
  LET clauses == ChildNodes(nodes, article, "clause")
  IN FlattenSeq([k \in DOMAIN clauses |-> CutClause(nodes, doc, carried, article, clauses[k])])
CutArticle(nodes, doc, carried, article) ==
  LET clauses == ChildNodes(nodes, article, "clause")
  IN IF clauses = << >> THEN <<BuildChunk(doc, carried, article, article, NoClause)>>
     ELSE FlattenSeq([k \in DOMAIN clauses |-> CutClause(nodes, doc, carried, article, clauses[k])])
Cut(nodes, doc, carried) ==
  LET articles == Kept(nodes, Articles(nodes))
  IN FlattenSeq([k \in DOMAIN articles |-> CutArticle(nodes, doc, carried, articles[k])])

\* the chunk validator
DuplicateChunkIds(cut) == Cardinality({cut[k].source : k \in DOMAIN cut}) # Len(cut)
LevelFits(c, source) == source.level \in {"article", "clause", "point"} /\ c.level = source.level
OffsetsFit(c, source, article) ==
  /\ <<c.start, c.end>> = <<source.start, source.end>>
  /\ <<c.article_start, c.article_end>> = <<article.start, article.end>>
  /\ article.start <= c.start /\ c.end <= article.end
LineageFits(nodes, source, article) ==
  IF source.level = "article" THEN source.id = article.id
  ELSE article.id \in Ancestors(nodes, source) /\ Encloses(article, source)
ChunkFaults(nodes, c) ==
  IF c.source \notin Ids(nodes) THEN {"SOURCE_NODE_NOT_FOUND"}
  ELSE LET source == Named(nodes, c.source)
       IN IF ~ \E i \in Articles(nodes) : nodes[i].id = c.article THEN {"INVALID_PARENT_ARTICLE"}
          ELSE {f \in {"INVALID_CHUNK_LEVEL"} : ~ LevelFits(c, source)}
               \cup {f \in {"OFFSET_MISMATCH"} : ~ OffsetsFit(c, source, Named(nodes, c.article))}
               \cup {f \in {"INVALID_PARENT_ARTICLE"} :
                        ~ LineageFits(nodes, source, Named(nodes, c.article))}
ChunkErrors(nodes, cut) ==
  {f \in {"DUPLICATE_CHUNK_ID"} : DuplicateChunkIds(cut)}
    \cup UNION {ChunkFaults(nodes, cut[k]) : k \in DOMAIN cut}
=============================================================================
