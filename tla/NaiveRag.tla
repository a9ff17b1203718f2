------------------------------ MODULE NaiveRag ------------------------------
(***************************************************************************)
(* What one question is answered from: retrieval and fusion, the evidence  *)
(* gate, generation, the citation check and the two mappings to a          *)
(* response.  AskRequest has the time and the threads of a question and    *)
(* leaves open what these steps compute; this module is about that.        *)
(***************************************************************************)
EXTENDS Naturals, Sequences, FiniteSets, Listing

CONSTANTS NoId, FinalTopK, RrfK, DenseWeight, SparseWeight, FusedBest, SparseQuota, DenseQuota,
          MaxPackets, MaxSelected,
          DenseLists, SparseLists,   \* candidate lists a query can yield
          Contents,                  \* contents of a chunk, see Evidence
          MaxCited                   \* bound: evidence numbers the model writes

F == INSTANCE Fusion
E == INSTANCE Evidence

ASSUME SettingsAssumption == F!FusionSettings /\ E!EvidenceSettings
ASSUME ListsAssumption ==
  \A list \in DenseLists \cup SparseLists : list \in Seq(F!Range(list))
ASSUME ContentsAssumption ==
  \A content \in Contents : content.missing \subseteq {"law_id", "citation", "source_url", "text"}

VARIABLES phase, mode,             \* where the question is; retrieval_mode
          denseList, sparseList,   \* candidate lists, while they are in scope
          results,                 \* retrieved chunks
          packets, selected, prompt,
          citedIds,                \* evidence numbers the generated text cites
          response

ragVars == <<phase, mode, denseList, sparseList, results, packets, selected, prompt,
             citedIds, response>>
candidates == <<denseList, sparseList>>
evidence == <<packets, selected, prompt>>

NotAnswered == [decision |-> "none", citations |-> {}]
Fallback == [decision |-> "fallback", citations |-> {}]

RagInit ==
  /\ phase = "asked" /\ mode = "none"
  /\ denseList = << >> /\ sparseList = << >> /\ results = << >>
  /\ packets = << >> /\ selected = << >> /\ prompt = << >>
  /\ citedIds = {} /\ response = NotAnswered

(* CoverageAwareQuotaRetriever.retrieve *)
Retrieve == /\ phase = "asked" /\ phase' = "fused" /\ mode' = "hybrid"
            /\ denseList' \in DenseLists /\ sparseList' \in SparseLists
            /\ results' = F!ReciprocalRankFusion(denseList', sparseList')
            /\ UNCHANGED <<evidence, citedIds, response>>

\* dense retrieval failed: the sparse candidates alone, with their own ranks
FallBackToSparse ==
  /\ phase = "asked" /\ phase' = "fused" /\ mode' = "sparse_only"
  /\ \E list \in SparseLists :
       /\ sparseList' = F!FirstOf(list, FinalTopK)
       /\ results' = [r \in DOMAIN sparseList' |-> [id |-> sparseList'[r], copy |-> "sparse", rank |-> r]]
  /\ UNCHANGED <<denseList, evidence, citedIds, response>>

\* the route answers with an error
RetrievalFails == /\ phase = "asked" /\ phase' = "failed"
                  /\ UNCHANGED <<mode, candidates, results, evidence, citedIds, response>>

(* run_naive_rag: what the chunks hold is looked at here for the first time;
   the sparse retriever leaves out an id it does not have *)
Missing(hit, content) == content.missing \cup (IF hit.id = NoId THEN {"chunk_id"} ELSE {})
ChunkOf(hit, content) ==
  [id |-> hit.id, copy |-> hit.copy, rank |-> hit.rank, missing |-> Missing(hit, content),
   web |-> content.web, flags |-> content.flags, child |-> content.child,
   parent |-> content.parent, same |-> content.same, long |-> content.long,
   malformed |-> content.malformed]

Gate == /\ phase = "fused"
        /\ \E content \in [DOMAIN results -> Contents] :
             /\ results' = [r \in DOMAIN results |-> ChunkOf(results[r], content[r])]
             /\ packets' = E!EvidenceBundle(results')
        /\ selected' = E!Selected(packets')
        /\ IF E!Decision(packets', selected') \in {"answer_allowed", "answer_with_caution_allowed"}
           THEN /\ phase' = "prompted" /\ prompt' = E!PromptEvidence(selected')
                /\ UNCHANGED response
           ELSE /\ phase' = "done" /\ response' = Fallback
                /\ UNCHANGED prompt
        /\ denseList' = << >> /\ sparseList' = << >>
        /\ UNCHANGED <<mode, citedIds>>

GenerateText ==
  /\ phase = "prompted" /\ phase' = "generated"
  /\ citedIds' \in SUBSET (1 .. MaxCited)
  /\ UNCHANGED <<mode, candidates, results, evidence, response>>

\* a client error is a fallback, a timeout an error of the route
GenerateFails == /\ phase = "prompted"
                 /\ \/ phase' = "unavailable" /\ response' = Fallback
                    \/ phase' = "failed" /\ UNCHANGED response
                 /\ UNCHANGED <<mode, candidates, results, evidence, citedIds>>

(* check_generated_citations and the mappings of the result *)
UnknownIds == citedIds \ DOMAIN prompt
\* Mutant: citations are taken for packet ids, which carry the rank.
ByPacketId == {[eid |-> prompt[i].chunk.rank, chunk |-> prompt[i].chunk] :
                 i \in {j \in DOMAIN prompt : prompt[j].chunk.rank \in citedIds}}

ValidCitations == {[eid |-> i, chunk |-> prompt[i].chunk] : i \in citedIds \cap DOMAIN prompt}

MissingMetadata(citations) ==
  \/ citations = {}
  \/ \E c \in citations : {"chunk_id", "law_id", "citation", "source_url"} \cap c.chunk.missing # {}
  \/ \E i \in DOMAIN prompt : {"text", "source_url"} \cap prompt[i].chunk.missing # {}

\* the service looks again, and at the addresses of all evidence
MetadataIssues(citations) == MissingMetadata(citations) \/ \E i \in DOMAIN prompt : ~prompt[i].chunk.web

AnswerDecision == IF E!Decision(packets, selected) = "answer_with_caution_allowed"
                  THEN "answered_with_caution" ELSE "answered"

WorkflowResult == IF UnknownIds # {} \/ MissingMetadata(ValidCitations) THEN Fallback
                  ELSE [decision |-> AnswerDecision, citations |-> ValidCitations]

Respond == /\ phase = "generated" /\ phase' = "done"
           /\ response' = IF WorkflowResult = Fallback \/ MetadataIssues(WorkflowResult.citations)
                          THEN Fallback ELSE WorkflowResult
           /\ UNCHANGED <<mode, candidates, results, evidence, citedIds>>

RagNext == \/ Retrieve \/ FallBackToSparse \/ RetrievalFails
           \/ Gate \/ GenerateText \/ GenerateFails \/ Respond

RagSpec == RagInit /\ [][RagNext]_ragVars

-----------------------------------------------------------------------------
Ids(list) == {list[r] : r \in DOMAIN list} \ {NoId}
Answers == {"answered", "answered_with_caution"}

\* The final list of a hybrid retrieval (select_with_source_quotas) has no
\* chunk twice, is as long as the candidates allow, and keeps the head of each
\* retriever's own list, however low its fused score.
SourcesAreHeard ==
  phase = "fused" /\ mode = "hybrid" =>
    LET kept == {results[r].id : r \in DOMAIN results}
        found == Ids(denseList) \cup Ids(sparseList) IN
    /\ kept \subseteq found
    /\ Cardinality(kept) = Len(results)
    /\ kept # found => Len(results) = FinalTopK
    /\ Ids(F!FirstOf(denseList, DenseQuota)) \subseteq kept
    /\ Ids(F!FirstOf(sparseList, SparseQuota)) \subseteq kept

\* Whatever the model writes, an answer has citations, and each of them is a
\* number it wrote, naming the chunk whose text stood under this number in the
\* prompt: a retrieved one, complete and in force (prompting.py numbers by
\* position, evidence.py by rank).
AnswerIsGrounded ==
  response.decision \in Answers =>
    /\ {c.eid : c \in response.citations} = citedIds /\ citedIds # {}
    /\ \A c \in response.citations :
         /\ c.chunk = prompt[c.eid].chunk
         /\ \E r \in DOMAIN results : results[r] = c.chunk
         /\ c.chunk.missing = {} /\ c.chunk.flags = {} /\ c.chunk.web

\* A retrieved chunk the answer may rest on; of the rows with one chunk id the
\* first counts
Usable(r) == LET c == results[r] IN
             /\ c.missing \cap E!Required = {} /\ c.flags = {} /\ E!RetrievalIssues(c) = {}
             /\ \A q \in 1 .. r - 1 : results[q].id # c.id

\* The client is told that there is no sufficient basis only if no retrieved
\* chunk was usable, or generation failed, or the model cited nothing, or what
\* is not in the prompt or has no id, or some of its evidence has no address.
FallbackIsJustified ==
  response.decision = "fallback" =>
    \/ \A r \in DOMAIN results : ~Usable(r)
    \/ phase = "unavailable"
    \/ prompt # << >> /\ (citedIds = {} \/ ~(citedIds \subseteq DOMAIN prompt))
    \/ \E i \in citedIds : prompt[i].chunk.id = NoId
    \/ \E i \in DOMAIN prompt : ~prompt[i].chunk.web

\* An answer without the caution is never drawn from a prompt that holds only
\* texts that were cut short or whose source record has gaps.
PlainAnswerHasCleanEvidence ==
  response.decision = "answered" =>
    \E i \in DOMAIN prompt : E!Truncated(prompt[i].chunk) = {} /\ E!RetrievalIssues(prompt[i].chunk) = {}

\* Article text that is left out as repeated stands with other evidence of the
\* same prompt (the message of parent_context_deduplicated in evidence.py).
RepeatedParentIsShown ==
  \A i \in DOMAIN selected :
    selected[i].policy = "deduplicated" =>
      \E j \in DOMAIN prompt : prompt[j].aux = selected[i].chunk.parent
=============================================================================
