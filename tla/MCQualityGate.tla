--------------------------- MODULE MCQualityGate ---------------------------
(* The three kinds of cases of the repository's dataset: one that must be
   answered, the fallback control, which the policy does not ask for here, and
   an open one that may be either. *)
EXTENDS QualityGate, TLC

Answerable == [decisions |-> {"answer_allowed"}, called |-> "yes", cites |-> TRUE, blocking |-> TRUE]
Control == [decisions |-> {"fallback_required", "needs_review"}, called |-> "no", cites |-> FALSE,
            blocking |-> TRUE]
Open == [decisions |-> {"answer_allowed", "needs_review", "fallback_required"}, called |-> "any",
         cites |-> TRUE, blocking |-> FALSE]
\* the open case, as a blocking one and where no citations are asked for
Uncited == [Open EXCEPT !.cites = FALSE, !.blocking = TRUE]

MCDatasets == {("answer" :> Answerable) @@ ("control" :> Control) @@ ("open" :> Open),
               ("answer" :> Answerable) @@ ("control" :> Control) @@ ("open" :> Uncited),
               ("answer" :> Answerable) @@ ("open" :> Open),
               ("answer" :> Answerable) @@ ("control" :> Control)}

Good == [decision |-> "answer_allowed", called |-> TRUE, cites |-> {"known"}, text |-> "fine",
         errors |-> FALSE, caution |-> FALSE]
Fallback == [decision |-> "fallback_required", called |-> FALSE, cites |-> {}, text |-> "fine",
             errors |-> FALSE, caution |-> FALSE]
ModelDown == [Fallback EXCEPT !.errors = TRUE]
MCOutcomes == [c \in {"answer", "control", "open"} |->
  CASE c = "answer" -> {Good, [Good EXCEPT !.caution = TRUE],
                        [Good EXCEPT !.cites = {"known", "unknown"}],
                        [Good EXCEPT !.text = "key"], [Good EXCEPT !.text = "header"]}
    [] c = "control" -> {Fallback, Good}
    [] c = "open" -> {Good, Fallback, ModelDown, [Good EXCEPT !.cites = {}]}]

\* also a finding in a case that passes
MCOfAnswers == {[verdict |-> "pass", claims |-> {"supported"}],
                [verdict |-> "pass", claims |-> {"partially_supported", "too_broad"}],
                [verdict |-> "partial", claims |-> {"missing_key_condition"}],
                [verdict |-> "fail", claims |-> {"unsupported"}]}
=============================================================================
