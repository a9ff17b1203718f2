--------------------------- MODULE MCCorpusBuild ---------------------------
(* Two laws, two versions each, and chunk files from elsewhere. *)
EXTENDS CorpusBuild

Text(body) == [chars |-> 60, visible |-> TRUE, repealed |-> FALSE, markers |-> {}, body |-> body]
Repealed(body) == [Text(body) EXCEPT !.repealed = TRUE, !.chars = 17]
Page(body, marker) == [Text(body) EXCEPT !.markers = {marker}, !.chars = 4001]
N(level, number, parent, text) == [level |-> level, number |-> number, parent |-> parent, text |-> text]

\* article 1 with a clause and a clause of points; then one article is split in two
A1 == ("c1" :> N("chapter", "I", "", Text("a")))
   @@ ("d1" :> N("article", "1", "c1", Text("a")))
   @@ ("k1" :> N("clause", "1", "d1", Text("a1")))
   @@ ("k2" :> N("clause", "2", "d1", Text("a2")))
   @@ ("p1" :> N("point", "a", "k2", Text("a2a")))
A2 == ("d1" :> N("article", "1", "", Text("new")))
   @@ ("k1" :> N("clause", "1", "d1", Text("new1")))
   @@ ("d2" :> N("article", "2", "", Page("new2", "hard")))
\* an article that was repealed; its next version does not parse
B1 == ("e1" :> N("article", "1", "", Repealed("b")))
   @@ ("e2" :> N("article", "2", "", Page("b2", "warning")))

Stage(parses, nodes, order) == [cleans |-> TRUE, parses |-> parses, nodes |-> nodes, order |-> order]
MCFate ==
  [A |-> <<Stage("success", A1, <<"c1", "d1", "k1", "k2", "p1">>),
           Stage("success_with_warnings", A2, <<"d1", "k1", "d2">>)>>,
   B |-> <<Stage("success", B1, <<"e1", "e2">>), Stage("failed", << >>, << >>)>>]
MCLawOrder == <<"A", "B">>

Good == [law_id |-> "B", law_name |-> "B", source_url |-> "B", chunk_id |-> "x",
         level |-> "article", chunk_kind |-> "article_level", source_node_id |-> "e2",
         parent_article_node_id |-> "e2", hierarchy_path |-> "e2", article_number |-> "2",
         clause_number |-> "", point_label |-> "", citation |-> {<<"article_number", "2">>},
         text |-> Text("t"), parent_text |-> Text("t"), text_hash |-> Text("t"),
         parent_text_hash |-> Text("t"),
         metadata |-> [given |-> {"is_empty_or_repealed", "is_source_unit_repealed"},
                       empty |-> FALSE, unit |-> FALSE]]
Line(row) == [line |-> "row", row |-> row]
Odd == {[line |-> "blank"], [line |-> "garbled"], [line |-> "scalar"]}
  \cup {Line(r) : r \in
    {[Good EXCEPT !.chunk_id = "y"], Good,
     [Good EXCEPT !.chunk_id = "y", !.metadata.given = {}],
     [Good EXCEPT !.chunk_id = "y", !.metadata.given = {"is_empty_or_repealed"}],
     [Good EXCEPT !.chunk_id = "y", !.hierarchy_path = " "],
     [Good EXCEPT !.chunk_id = "y", !.law_name = " "],
     [Good EXCEPT !.chunk_id = "y", !.article_number = ""],
     [Good EXCEPT !.chunk_id = "y", !.text = Text("u")],
     [Good EXCEPT !.chunk_id = "y", !.law_id = "Z"],
     [Good EXCEPT !.chunk_id = "y", !.citation = {<<"article_number", "3">>}],
     [Good EXCEPT !.chunk_id = "y", !.level = "chapter"],
     [Good EXCEPT !.chunk_id = "y", !.metadata.empty = TRUE],
     [Good EXCEPT !.chunk_id = "y", !.chunk_kind = "other"],
     [f \in DOMAIN Good \ {"parent_text"} |-> Good[f]]}}
MCForeign == {[lines |-> << >>, report |-> Unreadable]}
  \cup {[lines |-> <<Line(Good), odd>>, report |-> Unreadable] : odd \in Odd}
=============================================================================
