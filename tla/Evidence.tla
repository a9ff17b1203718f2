------------------------------ MODULE Evidence ------------------------------
(***************************************************************************)
(* From retrieved chunks to what the language model may be shown: evidence *)
(* packets with their safety level, the selection and its decision, and    *)
(* the numbered evidence of the prompt.                                    *)
(*                                                                         *)
(* A retrieved chunk is a record                                           *)
(*   id, copy, rank   its chunk id, where it comes from, its rank          *)
(*   missing          fields without a usable value                        *)
(*   web              its source URL is one of HTTP                        *)
(*   flags            is_empty_or_repealed, is_source_unit_repealed        *)
(*   child            it is not at the level of an article                 *)
(*   parent           key of the article text it carries, or None          *)
(*   same             that text is its own                                 *)
(*   long             which of "text", "parent" exceed their bounds        *)
(*   malformed        its metadata or warnings have the wrong type         *)
(***************************************************************************)
EXTENDS Naturals, Sequences, SequencesExt, FiniteSetsExt, Listing

CONSTANTS NoId,
          MaxPackets,     \* ContextAssemblyConfig.max_packets
          MaxSelected     \* EvidenceSelectionConfig.max_selected_packets

EvidenceSettings == MaxPackets \in Nat \ {0} /\ MaxSelected \in Nat \ {0}

None == "none"
Critical == {"chunk_id", "law_id", "citation", "text"}
Required == {"citation", "law_id", "source_url", "text"}
Issue(code, severity) == [code |-> code, severity |-> severity]

\* a gap is an error in a payload of Qdrant and a warning in a row of the chunk file
Gap(severity) == Issue("retrieval_issue", severity)
MalformedFields(c) == IF c.malformed THEN {Gap("error")} ELSE {}
PayloadIssues(c) == {Gap("error") : f \in Critical \cap c.missing} \cup MalformedFields(c)
RowIssues(c) == {Gap("warning") : f \in Critical \cap c.missing}
RetrievalIssues(c) == IF c.copy = "dense" THEN PayloadIssues(c) ELSE RowIssues(c)

BaseIssues(c) == {Issue(f, "error") : f \in (Required \cap c.missing) \cup c.flags} \cup RetrievalIssues(c)
Truncated(c) == IF \/ "text" \in c.long \ c.missing
                   \/ "parent" \in c.long /\ c.parent # None
                THEN {Issue("truncated", "warning")} ELSE {}

ParentPolicy(c) ==
  CASE c.parent = None -> "absent"
    [] c.parent # None /\ ~c.child -> "citable_article_context"
    [] c.parent # None /\ c.child /\ c.same /\ "text" \notin c.missing \cup c.long -> "equivalent_to_child"
    [] OTHER -> "auxiliary_only"

CitationScope(c) ==
  CASE "citation" \in c.missing -> "missing_citation"
    [] "citation" \notin c.missing /\ ParentPolicy(c) = "citable_article_context" -> "article_context"
    [] "citation" \notin c.missing /\ ParentPolicy(c) = "auxiliary_only" /\ "text" \in c.missing -> "unsafe_parent_context"
    [] OTHER -> "child_exact"

AuxiliaryIssue(c) == IF ParentPolicy(c) = "auxiliary_only"
                     THEN {Issue("parent_context_auxiliary_only", "warning")} ELSE {}
Issues(c) == BaseIssues(c) \cup Truncated(c) \cup AuxiliaryIssue(c)
Has(issues, severity) == \E i \in issues : i.severity = severity

SafetyLevel(c) ==
  CASE Has(Issues(c), "error") -> "unsafe"
    [] ~Has(Issues(c), "error") /\ Has(Issues(c), "warning") -> "caution"
    [] OTHER -> "safe"

Packet(c) == [chunk |-> c, policy |-> ParentPolicy(c), scope |-> CitationScope(c),
              level |-> SafetyLevel(c), issues |-> Issues(c),
              citable |-> "text" \notin c.missing /\ SafetyLevel(c) # "unsafe",
              aux |-> IF ParentPolicy(c) = "auxiliary_only" THEN c.parent ELSE None]

Deduplicated(p) == [p EXCEPT !.aux = None, !.policy = "deduplicated",
                             !.issues = @ \cup {Issue("parent_context_deduplicated", "info")}]

\* Mutant: a chunk is left out where its article text is repeated.
AddChunkOncePerParent(bundle, c) ==
  LET p == Packet(c) IN
  IF Len(bundle.packets) >= MaxPackets \/ c.id \in bundle.ids \/ p.aux \in bundle.parents THEN bundle
  ELSE [packets |-> IF p.level = "unsafe" THEN bundle.packets ELSE Append(bundle.packets, p),
        ids |-> bundle.ids \cup {c.id}, parents |-> bundle.parents \cup ({p.aux} \ {None})]

\* one chunk of the loop: skipped, or a packet whose article text is shown
\* once; an unsafe packet is dropped after its article text counts as seen
AddChunk(bundle, c) ==
  LET p == Packet(c)
      again == p.aux # None /\ p.aux \in bundle.parents
      q == IF again THEN Deduplicated(p) ELSE p
  IN IF Len(bundle.packets) >= MaxPackets \/ (c.id # NoId /\ c.id \in bundle.ids) THEN bundle
     ELSE [packets |-> IF p.level = "unsafe" THEN bundle.packets ELSE Append(bundle.packets, q),
           ids |-> bundle.ids \cup {c.id}, parents |-> bundle.parents \cup ({p.aux} \ {None})]

\* what the loop has made of the first n chunks
BundleOf(chunks, n) ==
  LET bundle[i \in 0 .. Len(chunks)] ==
        IF i = 0 THEN [packets |-> << >>, ids |-> {}, parents |-> {}]
        ELSE AddChunk(bundle[i - 1], chunks[i])
  IN bundle[n]
EvidenceBundle(chunks) == BundleOf(chunks, Len(chunks)).packets

(* Selection.  The reasons to reject a packet, with the default settings; a
   packet without a chunk id is its own key. *)
Rejected(p) == p.level = "unsafe" \/ Required \cap p.chunk.missing # {} \/ ~p.citable

\* safe ones first, then by rank, and a sort is stable
Preferred(packets, i, j) ==
  LET p == packets[i]
      q == packets[j] IN
  \/ p.level = "safe" /\ q.level # "safe"
  \/ /\ (p.level = "safe") = (q.level = "safe")
     /\ p.chunk.rank < q.chunk.rank \/ (p.chunk.rank = q.chunk.rank /\ i < j)

Selected(packets) ==
  LET kept == {i \in DOMAIN packets : ~Rejected(packets[i])}
      order == InOrder(kept, {p \in kept \X kept : Preferred(packets, p[1], p[2])})
  IN [n \in 1 .. Min({MaxSelected, Len(order)}) |-> packets[order[n]]]

\* Mutant: truncation is among the codes that are allowed.
AuxiliaryOrTruncated(p) ==
  /\ p.level = "caution" /\ p.scope = "child_exact" /\ p.chunk.id # NoId
  /\ \A i \in p.issues : i.code # "retrieval_issue"

OnlyAuxiliaryCaution(p) ==
  /\ p.level = "caution" /\ p.scope = "child_exact" /\ p.chunk.id # NoId
  /\ \A i \in p.issues : i.code \in {"parent_context_auxiliary_only", "parent_context_deduplicated"}

ParentOnly(p) == p.scope = "unsafe_parent_context" /\ ~p.citable /\ p.aux # None

\* the reasons select_evidence_for_answer gives; the bundle holds no unsafe packet
Reasons(packets, selected) ==
  LET allCaution == \A i \in DOMAIN selected : selected[i].level = "caution" IN
  CASE packets = << >> -> {"no_evidence"}
    [] packets # << >> /\ selected = << >> -> {"no_citable_evidence"}
    [] selected # << >> /\ allCaution /\ (\A i \in DOMAIN selected : ParentOnly(selected[i])) -> {"parent_context_only"}
    [] selected # << >> /\ allCaution /\ (\A i \in DOMAIN selected : OnlyAuxiliaryCaution(selected[i])) -> {}
    [] selected # << >> /\ allCaution /\ (\E i \in DOMAIN selected : ~OnlyAuxiliaryCaution(selected[i])) -> {"all_selected_evidence_caution"}
    [] OTHER -> {}

HardFallback == {"no_evidence", "no_citable_evidence", "parent_context_only"}
Decision(packets, selected) ==
  CASE Reasons(packets, selected) = {} -> "answer_allowed"
    [] Reasons(packets, selected) \cap HardFallback # {} -> "fallback_required"
    [] OTHER -> "answer_with_caution_allowed"

\* the prompt numbers the selection by position, whatever the ranks
PromptEvidence(selected) == [i \in DOMAIN selected |-> [eid |-> i, chunk |-> selected[i].chunk, aux |-> selected[i].aux]]
=============================================================================
