---------------------------- MODULE QualityGate ----------------------------
(***************************************************************************)
(* The offline regression of generated answers.  A suite runs the cases of *)
(* a dataset and writes one report; a person reviews the answers, case by  *)
(* case, into a manifest; the gate compares the report of the latest suite *)
(* with the manifest, which may be about earlier ones.                     *)
(*                                                                         *)
(* Of an answer only what the checks tell apart is kept: its decision,     *)
(* whether the model was called, the kinds of evidence ids it cites, what  *)
(* is wrong with its text, pipeline errors, and whether all its evidence   *)
(* needs caution.  The thresholds of the policy are those of               *)
(* configs/retrieval/quality_gate.yml: rates of 1.0 and maxima of 0.       *)
(***************************************************************************)
EXTENDS Naturals, FiniteSets

CONSTANTS Datasets,        \* [case -> expectation]: what the query file may hold
          Outcomes,        \* [case -> set of results the pipeline may give it]
          RequiredCases,   \* required_case_ids
          MinimumTotal,    \* minimum_total_cases
          OfAnswers,       \* what a reviewer may say of an answer: a verdict, and the findings
                           \* ("unsupported", "irrelevant_citation", "too_broad", ...) behind it
          MaxSuites        \* bound: reports written

Decisions == {"answer_allowed", "answer_with_caution_allowed", "fallback_required", "needs_review"}

\* GenerationEvalQuery
Expectations == [decisions : SUBSET Decisions, called : {"yes", "no", "any"}, cites : BOOLEAN,
                 blocking : BOOLEAN]

\* RagAnswerResult
Results == [decision : Decisions, called : BOOLEAN, cites : SUBSET {"known", "unknown"},
            text : {"fine", "key", "header", "foreign", "forbidden"}, errors : BOOLEAN,
            caution : BOOLEAN]

\* what a reviewer may say of a claim of an answer (ClaimReviewVerdict), and of the case
Claims == {"supported", "partially_supported", "unsupported", "too_broad",
           "missing_key_condition", "irrelevant_citation", "needs_more_evidence"}

Verdicts == {"pass", "partial", "fail", "needs_more_evidence"}

ASSUME DatasetsAssumption ==
    \A dataset \in Datasets : /\ DOMAIN dataset \subseteq DOMAIN Outcomes
                              /\ dataset \in [DOMAIN dataset -> Expectations]

ASSUME OutcomesAssumption == \A c \in DOMAIN Outcomes : Outcomes[c] \subseteq Results

ASSUME JudgementsAssumption ==
    OfAnswers \subseteq [verdict : Verdicts, claims : SUBSET Claims]

VARIABLES suites,      \* reports written so far
          evalReport,  \* the latest report: [case -> its expectation and result]
          reviews      \* the manifest: [case -> record of the latest review]

gateVars == <<suites, evalReport, reviews>>

Nothing == << >>

GateInit == suites = 0 /\ evalReport = Nothing /\ reviews = Nothing

IsAnswer(r) == r.decision \in {"answer_allowed", "answer_with_caution_allowed"}

-----------------------------------------------------------------------------
(* validate_generation_result                                              *)

LlmCallPolicyPassed(e, r) == /\ r.called = IsAnswer(r)
                             /\ e.called # "any" => r.called = (e.called = "yes")

FallbackPolicyPassed(r) == IsAnswer(r) \/ (~r.called /\ r.cites = {})

\* check_generated_citations: the codes it may find in a generated text
CitationIssues(r) == (IF "unknown" \in r.cites THEN {"unknown_citation_id"} ELSE {})
                     \cup (IF r.called /\ r.cites = {} THEN {"missing_citation_id"} ELSE {})

CitationPolicyPassed(e, r) == /\ CitationIssues(r) = {}
                              /\ ~IsAnswer(r) => r.cites = {}
                              /\ IsAnswer(r) /\ e.cites => "known" \in r.cites

SecretLeak(r) == r.text \in {"key", "header"}

Passed(e, r) == /\ r.decision \in e.decisions
                /\ LlmCallPolicyPassed(e, r)
                /\ FallbackPolicyPassed(r)
                /\ CitationPolicyPassed(e, r)
                /\ r.text \notin {"foreign", "forbidden"} /\ ~SecretLeak(r)
                /\ ~r.errors

-----------------------------------------------------------------------------
(* run_generation_eval_suite.  A case that raises ends the suite, and      *)
(* write_report refuses a report that itself looks like a secret: the      *)
(* labels of a leaked header do.  Both leave the report before.            *)
Refused(cases) == \E c \in DOMAIN cases : cases[c].r.text = "header"

Suite == /\ suites < MaxSuites
         /\ \E dataset \in Datasets :
              \E result \in [DOMAIN dataset -> UNION {Outcomes[c] : c \in DOMAIN dataset}] :
                LET cases == [c \in DOMAIN dataset |-> [e |-> dataset[c], r |-> result[c]]] IN
                /\ \A c \in DOMAIN dataset : result[c] \in Outcomes[c]
                /\ IF Refused(cases) THEN UNCHANGED evalReport ELSE evalReport' = cases
         /\ suites' = suites + 1
         /\ UNCHANGED reviews

SuiteRaises == suites < MaxSuites /\ suites' = suites + 1 /\ UNCHANGED <<evalReport, reviews>>

(* The reviewer looks at one case of the latest report at a time.          *)
Judgements(r) == IF IsAnswer(r) THEN OfAnswers
                 ELSE {[verdict |-> "not_applicable_for_fallback", claims |-> {}]}

Review == \E c \in DOMAIN evalReport, completed \in BOOLEAN :
            LET case == evalReport[c] IN
            \E j \in Judgements(case.r) :
              reviews' = [d \in DOMAIN reviews \cup {c} |->
                            IF d # c THEN reviews[d]
                            ELSE [verdict |-> j.verdict, claims |-> j.claims,
                                  completed |-> completed, decision |-> case.r.decision,
                                  blocking |-> case.e.blocking, caution |-> case.r.caution]]
         /\ UNCHANGED <<suites, evalReport>>

GateNext == Suite \/ SuiteRaises \/ Review

GateSpec == GateInit /\ [][GateNext]_gateVars

-----------------------------------------------------------------------------
(* build_generation_eval_report: the numbers the gate reads                *)
Cases == DOMAIN evalReport
Exp(c) == evalReport[c].e
Res(c) == evalReport[c].r

\* Mutant: the status looks at the blocking cases alone.
BlockingPassed == \A c \in Cases : Exp(c).blocking => Passed(Exp(c), Res(c))

AllPassed == \A c \in Cases : Passed(Exp(c), Res(c))

\* Mutant: a rate over no cases is zero.
EveryOfSome(over, ok) == over # {} /\ over \subseteq ok

\* a rate of 1.0, which is also the rate over no cases
Every(over, ok) == over \subseteq ok

(* QualityGateEvaluator                                                    *)
Blockers == (RequiredCases \ Cases) \cup (RequiredCases \ DOMAIN reviews)

ReportHardViolations ==
  LET answered == {c \in Cases : IsAnswer(Res(c))} IN
  (IF AllPassed THEN {} ELSE {"generation_report_status"})
  \cup (IF Cardinality(Cases) >= MinimumTotal THEN {} ELSE {"total_cases"})
  \cup (IF Every(Cases, {c \in Cases : Res(c).decision \in Exp(c).decisions})
        THEN {} ELSE {"decision_pass_rate"})
  \cup (IF Every(Cases, {c \in Cases : LlmCallPolicyPassed(Exp(c), Res(c))})
        THEN {} ELSE {"llm_call_policy_pass_rate"})
  \cup (IF Every(Cases \ answered, {c \in Cases : FallbackPolicyPassed(Res(c))})
        THEN {} ELSE {"fallback_policy_pass_rate"})
  \cup (IF Every({c \in answered : Exp(c).cites},
                 {c \in Cases : CitationPolicyPassed(Exp(c), Res(c))})
        THEN {} ELSE {"citation_id_coverage_rate"})
  \cup (IF \E c \in Cases : SecretLeak(Res(c)) THEN {"secret_leak_failures"} ELSE {})
  \cup (IF \E c \in Cases : Res(c).text = "forbidden" THEN {"forbidden_phrase_failures"} ELSE {})
  \cup UNION {CitationIssues(Res(c)) : c \in Cases}

\* the verdict of a fallback, on what is an answer by now
FallbackCaseHard(c) ==
  IF reviews[c].verdict # "not_applicable_for_fallback" THEN {}
  ELSE (IF Res(c).called THEN {"fallback_called_llm"} ELSE {})
       \cup (IF "known" \in Res(c).cites THEN {"fallback_has_citations"} ELSE {})

CautionUnreviewed(c) == IsAnswer(Res(c)) /\ Res(c).caution /\ ~reviews[c].completed

\* Mutant: the decisions are not compared.
CaseHardButDecision(c) ==
  (IF Exp(c).blocking # reviews[c].blocking THEN {"case_blocking_mismatch"} ELSE {})
  \cup (IF Res(c).caution # reviews[c].caution THEN {"case_all_caution_mismatch"} ELSE {})
  \cup FallbackCaseHard(c)
  \cup (IF CautionUnreviewed(c) THEN {"all_caution_manual_review_missing"} ELSE {})

CaseHard(c) ==
  (IF Res(c).decision # reviews[c].decision THEN {"case_decision_mismatch"} ELSE {})
  \cup (IF Exp(c).blocking # reviews[c].blocking THEN {"case_blocking_mismatch"} ELSE {})
  \cup (IF Res(c).caution # reviews[c].caution THEN {"case_all_caution_mismatch"} ELSE {})
  \cup FallbackCaseHard(c)
  \cup (IF CautionUnreviewed(c) THEN {"all_caution_manual_review_missing"} ELSE {})

Reported == {"too_broad", "missing_key_condition"}

\* Mutant: the verdict of a blocking case is enough.
CaseQualityOfVerdict(c) ==
  IF IsAnswer(Res(c)) /\ reviews[c].blocking /\ reviews[c].verdict # "pass"
  THEN {"blocking_case_not_pass"} ELSE {}

CaseQuality(c) ==
  IF ~IsAnswer(Res(c)) \/ ~reviews[c].blocking THEN {}
  ELSE (IF reviews[c].verdict = "pass" THEN {} ELSE {"blocking_case_not_pass"})
       \cup (reviews[c].claims \cap Reported)

\* partial verdicts are allowed here, so only their findings are told
CaseWarnings(c) ==
  IF IsAnswer(Res(c)) /\ ~reviews[c].blocking THEN reviews[c].claims \cap Reported ELSE {}

Refuted == {"unsupported", "irrelevant_citation"}

ManifestHard == Refuted \cap UNION {reviews[c].claims : c \in DOMAIN reviews}

HardViolations == ReportHardViolations \cup ManifestHard \cup UNION {CaseHard(c) : c \in RequiredCases}
QualityViolations == UNION {CaseQuality(c) : c \in RequiredCases}

Status == IF Blockers # {} THEN "blocked"
          ELSE IF HardViolations # {} THEN "quality_gate_failed"
          ELSE IF QualityViolations # {} THEN "quality_gate_partial"
          ELSE "quality_gate_passed"

-----------------------------------------------------------------------------
\* The gate may be asked in every state.  Where it passes, the report has no case, asked
\* for or not, that broke a rule, and a person stands behind the answers: none was found
\* unsupported or wrongly cited, those of blocking cases are also complete and not too broad,
\* and an answer from evidence that needs caution was reviewed to the end.
PassedGateIsSafe ==
  Status = "quality_gate_passed" =>
    /\ \A c \in Cases :
         /\ Res(c).decision \in Exp(c).decisions /\ Res(c).text = "fine" /\ ~Res(c).errors
         /\ IF IsAnswer(Res(c)) THEN Res(c).called /\ Res(c).cites = {"known"}
            ELSE ~Res(c).called /\ Res(c).cites = {}
    /\ \A c \in RequiredCases :
         /\ Refuted \cap reviews[c].claims = {}
         /\ IsAnswer(Res(c)) /\ Exp(c).blocking =>
                reviews[c].verdict = "pass" /\ Reported \cap reviews[c].claims = {}
         /\ IsAnswer(Res(c)) /\ Res(c).caution => reviews[c].completed

\* Suites and reviews come in any order.  The gate never lets a verdict on an answer stand
\* for a fallback of a later suite, nor the reverse, though both outcomes may be allowed
\* for the case.
VerdictsFitOutcomes ==
  Status \in {"quality_gate_passed", "quality_gate_partial"} =>
    \A c \in RequiredCases :
      reviews[c].verdict = "not_applicable_for_fallback" <=> ~IsAnswer(Res(c))

\* The gate does not reject a good baseline: a report without a fault, reviewed to the end
\* and without findings that count, passes, also when no case, or every case, is a fallback.
GoodBaselinePasses ==
  /\ Cardinality(Cases) >= MinimumTotal
  /\ RequiredCases \subseteq Cases /\ RequiredCases \subseteq DOMAIN reviews
  /\ \A c \in Cases :
       /\ Res(c).decision \in Exp(c).decisions /\ Res(c).text = "fine" /\ ~Res(c).errors
       /\ IF IsAnswer(Res(c))
          THEN Res(c).called /\ Res(c).cites = {"known"} /\ Exp(c).called # "no"
          ELSE ~Res(c).called /\ Res(c).cites = {} /\ Exp(c).called # "yes"
  /\ \A c \in DOMAIN reviews :
       reviews[c].claims \cap (Reported \cup Refuted) = {} /\ reviews[c].completed
  /\ \A c \in RequiredCases :
       /\ reviews[c].verdict \in {"pass", "not_applicable_for_fallback"}
       /\ reviews[c].decision = Res(c).decision
       /\ reviews[c].blocking = Exp(c).blocking /\ reviews[c].caution = Res(c).caution
  => Status = "quality_gate_passed"

\* What a reviewer found too broad or incomplete in a required answer of the report never
\* gets lost: if the gate does not fail, it is a violation or a warning.
FindingsAreTold ==
  Status \in {"quality_gate_passed", "quality_gate_partial"} =>
    \A c \in RequiredCases :
      reviews[c].claims \cap Reported \subseteq CaseQuality(c) \cup CaseWarnings(c)

\* What a reviewer has said counts for the outcome it was said of, and all of it counts.
ReviewsAreHeard == VerdictsFitOutcomes /\ FindingsAreTold
=============================================================================
