-------------------------- MODULE MCIndexLifecycle --------------------------
(* Two chunks: one changes, one gets a blank citation. *)
EXTENDS IndexLifecycle, TLC
MCOrder == <<"c", "d">>
MCText == [c |-> <<[blank |-> {}], [blank |-> {}]>>, d |-> <<[blank |-> {}], [blank |-> {"citation"}]>>]
Symmetric == Permutations(Setups)
MCFilters == {{"c"}}
=============================================================================
