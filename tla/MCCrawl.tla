------------------------------ MODULE MCCrawl -------------------------------
(* All laws on one host; one has a URL outside the trusted domain.         *)
EXTENDS RawAudit

CONSTANTS www, a

MCHostOf == [l \in Laws |-> www]
MCAnswers == [l \in Laws |-> [n \in 1 .. MaxRuns |->
                 IF l = a THEN (IF n = 1 THEN "error" ELSE "law")
                 ELSE IF n = 1 THEN "law" ELSE "short"]]
================================================================================
