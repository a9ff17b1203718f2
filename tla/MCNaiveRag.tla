----------------------------- MODULE MCNaiveRag -----------------------------
(* Four chunks, of which the answer can rest on two; the dense candidates are
   taken in the order of their numbers; the sparse ones in every order, with
   repetitions and rows without a chunk id, lists of three without c1. *)
EXTENDS NaiveRag, TLC

Chunks == <<"c1", "c2", "c3", "c4">>
MCDenseLists == {SubSeq(Chunks, 1, n) : n \in 0 .. 3}
MCSparseLists == UNION {[1 .. n -> F!Range(Chunks) \cup {NoId}] : n \in 0 .. 2}
                 \cup [1 .. 3 -> {"c2", "c3", "c4"}]

Whole == [missing |-> {}, web |-> TRUE, flags |-> {}, child |-> FALSE, parent |-> "none",
          same |-> FALSE, long |-> {}, malformed |-> FALSE]
Clause == [Whole EXCEPT !.child = TRUE, !.parent = "article"]
MCContents == {Whole, Clause,
               [Clause EXCEPT !.flags = {"is_source_unit_repealed"}],
               [Clause EXCEPT !.same = TRUE],
               [Clause EXCEPT !.long = {"parent"}],
               [Whole EXCEPT !.long = {"text"}],
               [Whole EXCEPT !.missing = {"source_url"}],
               [Whole EXCEPT !.web = FALSE],
               [Whole EXCEPT !.malformed = TRUE]}
=============================================================================
