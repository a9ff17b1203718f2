---- MODULE MCLegalText ----
EXTENDS LegalText

L(kind, digits, letter) == [kind |-> kind, num |-> <<digits, letter>>]
Core == {L("chapter", 1, ""), L("article", 1, ""), L("article", 2, ""), L("clause", 1, ""),
         L("point", 0, "a"), L("note", 0, ""), L("text", 0, "")}
Free == Core \cup
  {L(k, 0, "") : k \in {"blank", "footnote", "tail", "appendix", "table", "signature_footer",
                        "quote", "formula", "date", "bad_dot_clause"}}
  \cup {L("part", 1, ""), L("chapter", 1, "i"), L("section", 1, ""), L("article", 1, "a"),
        L("lower_article", 2, ""), L("quoted_article", 2, ""), L("quoted_clause", 1, ""),
        L("compact_clause", 2, ""), L("clause_without_dot", 1, ""), L("repealed_clause", 1, ""),
        L("clause", 2, ""), L("point", 0, "b")}

\* any two lines after the beginnings of a law, and then one of the common ones; and
\* every four common ones
Texts ==
  {<<p[1], p[2], a, b, c>> : p \in {<<L("chapter", 1, ""), L("article", 1, "")>>,
                                   <<L("article", 1, ""), L("clause", 1, "")>>,
                                   <<L("article", 1, ""), L("note", 0, "")>>},
                            a \in Free, b \in Free, c \in Core}
  \cup {<<a, b, c, d>> : a, b, c, d \in Core}

Page(known, before, blocks, after) ==
  [known |-> known, before |-> before, blocks |-> blocks, after |-> after]
Title(rank) == L("title", rank, "")
Alone == {Page(TRUE, << >>, <<<<Title(5)>> \o t>>, << >>) : t \in Texts}

\* laws between lines of the site, in one block or two, in the container of the site or not
Inner == {L("text", 0, ""), L("end_phrase", 0, ""), L("reference", 0, ""), L("word_dieu", 0, ""),
          L("clause", 3, ""), L("article", 3, ""), L("amending_law", 0, ""), Title(4)}
Around ==
  {Page(known, <<x>>, <<<<t, L("chapter", 1, ""), L("article", 1, ""), a>>,
                        <<L("article", 2, ""), b, c, L("article", 4, "")>>>>, <<y>>) :
     known \in BOOLEAN, x \in {L("site_line", 0, ""), L("reference", 0, "")},
     y \in {L("end_line", 0, ""), L("watermark", 0, "")},
     t \in {Title(1), Title(6), L("text", 0, "")}, a \in Inner, b \in Inner,
     c \in {L("text", 0, ""), L("clause", 3, ""), L("end_phrase", 0, "")}}

\* nothing to see; and a preamble of three references and a phrase of END_MARKERS
Odd == {Page(FALSE, <<L("site_line", 0, "")>>, << >>, << >>),
        Page(FALSE, << >>, <<<<Title(5), L("reference", 0, ""), L("reference", 0, ""),
                              L("reference", 0, ""), L("end_phrase", 0, ""), L("article", 1, ""),
                              L("article", 2, "")>>>>, << >>)}

\* an article in a short block of its own, before, among or after longer ones
Long(n) == <<L("article", n, ""), L("text", 0, ""), L("clause", 1, "")>>
Short(n) == <<L("article", n, "")>>
Split == {Page(known, << >>, blocks, << >>) :
                   known \in BOOLEAN, blocks \in {<<Short(1), Long(2), Long(3)>>,
                                                  <<Long(1), Short(2), Long(3)>>,
                                                  <<Long(1), Long(2), Short(3)>>}}

MCPages == Alone \cup Around \cup Odd \cup Split
====
