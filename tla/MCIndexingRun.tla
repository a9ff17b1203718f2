----------------------------- MODULE MCIndexingRun -----------------------------
(* The instance of IndexingRun for TLC. *)
EXTENDS IndexingRun

Row(c, k) == [id |-> c, kind |-> k]

\* Every kind of row, in batches of two; one id that can be prepared in one row and
\* not in another, and one in two rows, so that a batch that failed has a second
\* one, a partial one, after it in the same run; the limit of two ends a batch early.
MixedCorpus == <<Row("a", "ok"), Row("x", "filtered"), Row("b", "unprepared"),
                 Row("b", "ok"), Row("a", "ok"), Row("b", "broken")>>

MixedIds == {"a", "b", "x"}
================================================================================
