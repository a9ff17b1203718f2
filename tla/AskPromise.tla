------------------------------ MODULE AskPromise ------------------------------
(***************************************************************************)
(* What one question to POST /api/v1/legal-qa/ask promises, whatever       *)
(* happens inside: it is answered exactly once, and a legal answer rests   *)
(* on evidence the selection allowed and on citations of that evidence.    *)
(***************************************************************************)
VARIABLES
    response,   \* decision of the response sent, "none" before there is one
    verdict,    \* what evidence selection said: "unknown" until it has spoken
    cited       \* the generated answer cites the selected evidence, and only it

vars == <<response, verdict, cited>>

Init == response = "none" /\ verdict = "unknown" /\ cited = FALSE

Judge ==
    /\ verdict = "unknown"
    /\ verdict' \in {"safe", "caution", "refused"}
    /\ UNCHANGED <<response, cited>>

Cite ==
    /\ verdict \in {"safe", "caution"}
    /\ cited' = TRUE
    /\ UNCHANGED <<response, verdict>>

Supported(decision) ==
    \/ decision \in {"fallback", "error"}
    \/ decision = "answered" /\ verdict = "safe" /\ cited
    \/ decision = "answered_with_caution" /\ verdict = "caution" /\ cited

Respond ==
    /\ response = "none"
    /\ response' \in {"answered", "answered_with_caution", "fallback", "error"}
    /\ Supported(response')
    /\ UNCHANGED <<verdict, cited>>

Next == Judge \/ Cite \/ Respond

Safety == Init /\ [][Next]_vars

Spec == Safety /\ WF_vars(Respond)
================================================================================
