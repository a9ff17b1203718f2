------------------------------- MODULE Fusion -------------------------------
(***************************************************************************)
(* Reciprocal rank fusion of a dense and a sparse candidate list, and the  *)
(* quotas the final list is filled by.  A list is a sequence of chunk ids  *)
(* in rank order: Qdrant and the BM25 retriever both number their          *)
(* candidates from one without gaps.  NoId stands for a candidate without  *)
(* a chunk id; a sparse list may hold an id twice, as the chunk file may.  *)
(***************************************************************************)
EXTENDS Naturals, Sequences, SequencesExt, FiniteSetsExt, Listing

CONSTANTS NoId,
          FinalTopK, RrfK, DenseWeight, SparseWeight,
          FusedBest, SparseQuota, DenseQuota

\* _validate_fusion_settings; that the quotas fit is a fact of the one
\* configuration CoverageAwareQuotaRetriever accepts (5 + 4 + 1 = 10)
FusionSettings == /\ FinalTopK \in Nat \ {0} /\ RrfK \in Nat \ {0}
                  /\ DenseWeight \in Nat /\ SparseWeight \in Nat
                  /\ DenseWeight + SparseWeight > 0
                  /\ {FusedBest, SparseQuota, DenseQuota} \subseteq Nat
                  /\ FusedBest + SparseQuota + DenseQuota <= FinalTopK

InList(id, list) == id \in Range(list)
RankIn(id, list) == Min({r \in DOMAIN list : list[r] = id})

\* the score as a fraction: weight / (RrfK + rank), summed over the lists
Score(id, dense, sparse) ==
  LET d == RrfK + RankIn(id, dense)
      s == RrfK + RankIn(id, sparse) IN
  IF ~InList(id, sparse) THEN [num |-> DenseWeight, den |-> d]
  ELSE IF ~InList(id, dense) THEN [num |-> SparseWeight, den |-> s]
  ELSE [num |-> DenseWeight * s + SparseWeight * d, den |-> d * s]

Cross(x, y) == x.num * y.den
Earlier(x, y, list) == InList(x, list) /\ (InList(y, list) => RankIn(x, list) < RankIn(y, list))

\* by score, then by dense rank, then by sparse rank; no two candidates agree in all three
Before(x, y, dense, sparse) ==
  LET a == Score(x, dense, sparse)
      b == Score(y, dense, sparse) IN
  \/ Cross(a, b) > Cross(b, a)
  \/ /\ Cross(a, b) = Cross(b, a)
     /\ \/ Earlier(x, y, dense)
        \/ ~InList(x, dense) /\ ~InList(y, dense) /\ Earlier(x, y, sparse)

Candidates(dense, sparse) == (Range(dense) \cup Range(sparse)) \ {NoId}
ByScore(dense, sparse) ==
  LET found == Candidates(dense, sparse)
  IN InOrder(found, {p \in found \X found : Before(p[1], p[2], dense, sparse)})

FirstOf(list, n) == SubSeq(list, 1, Min({n, Len(list)}))

\* where candidates has an id for the first time, and one that is not selected yet
Fresh(selected, candidates) ==
  {r \in DOMAIN candidates : /\ candidates[r] # NoId /\ ~InList(candidates[r], selected)
                             /\ \A q \in 1 .. r - 1 : candidates[q] # candidates[r]}
InTurn(places) == InOrder(places, {p \in places \X places : p[1] < p[2]})

\* appends the first limit candidates that are not selected yet
AppendFrom(selected, candidates, limit) ==
  LET turns == InTurn(Fresh(selected, candidates))
  IN selected \o FirstOf([n \in DOMAIN turns |-> candidates[turns[n]]], limit)

\* Mutant: the list is filled before the last quota is served.
FillBeforeDense(dense, sparse) ==
  LET all == ByScore(dense, sparse)
      best == AppendFrom(<< >>, all, FusedBest)
      withSparse == AppendFrom(best, sparse, SparseQuota)
      filled == AppendFrom(withSparse, all, FinalTopK - Len(withSparse))
  IN FirstOf(AppendFrom(filled, dense, DenseQuota), FinalTopK)

SelectWithQuotas(dense, sparse) ==
  LET all == ByScore(dense, sparse)
      best == AppendFrom(<< >>, all, FusedBest)
      withSparse == AppendFrom(best, sparse, SparseQuota)
      withDense == AppendFrom(withSparse, dense, DenseQuota)
  IN FirstOf(AppendFrom(withDense, all, FinalTopK - Len(withDense)), FinalTopK)

\* the content of a candidate is that of its dense copy, if there is one
CopyOf(id, dense) == IF InList(id, dense) THEN "dense" ELSE "sparse"
ReciprocalRankFusion(dense, sparse) ==
  [r \in DOMAIN SelectWithQuotas(dense, sparse) |->
     LET id == SelectWithQuotas(dense, sparse)[r] IN [id |-> id, copy |-> CopyOf(id, dense), rank |-> r]]
=============================================================================
