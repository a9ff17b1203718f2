------------------------------ MODULE RawAudit ------------------------------
(***************************************************************************)
(* The audit of the raw corpus (audit_raw_corpus): what it says of each    *)
(* law of the registry from the two files the crawler left (Crawl).  It    *)
(* looks at the size and the beginning of a page and at the fields of its  *)
(* metadata, and does not compare the page with the hash in them.          *)
(***************************************************************************)
EXTENDS Crawl

CONSTANT Answers   \* [law -> [run -> what the site sends]]: a "law", a "short" one, without
                   \* "words" of a law, an "error" page, "nothing" or "bytes" that are no text

ASSUME AnswersAssumption ==
    Answers \in [Laws -> [1 .. MaxRuns -> {"law", "short", "words", "error", "nothing", "bytes"}]]

\* A torn page is the beginning of one: empty, cut within a character, short, or long enough.
Looks(l) == IF page[l] = Torn THEN {"nothing", "bytes", "short", "law"}
            ELSE {Answers[l][page[l]]}

\* scan_raw_artifacts: both files are there
Scanned == {l \in Laws : page[l] # 0 /\ meta[l] # 0}

\* Mutant: a page of an error is passed on.
HtmlPasses(look) == look \notin {"nothing", "bytes"}
\* validate_html: errors; a small page, or one without a word of laws, is a warning
HtmlValid(look) == look \notin {"nothing", "bytes", "error"}
HtmlWarns(look) == look \in {"short", "words"}

\* validate_metadata: what save_html writes has every field; a torn file is not JSON
MetadataValid(l) == meta[l] # Torn

\* audit_single_artifact
StatusOf(l, look) ==
    IF ~HtmlValid(look) \/ ~MetadataValid(l) THEN "invalid"
    ELSE IF HtmlWarns(look) THEN "warning"
    ELSE "valid"

\* audit_raw_corpus: the statuses the report may have for a law
Statuses(l) == IF l \in Scanned THEN {StatusOf(l, look) : look \in Looks(l)} ELSE {"missing"}

Passing == {"valid", "warning"}

\* The audit and the selector judge the same files by rules of their own: a law that
\* passes the audit is not fetched again, and one that is skipped and whole passes unless
\* the site answered with something else than a law, in every state that crashes, failed
\* saves and repeated downloads leave.
AuditAgreesWithSelector == \A l \in Laws :
    /\ Statuses(l) \cap Passing # {} => Crawled(l)
    /\ Crawled(l) /\ page[l] = meta[l] =>
           (Statuses(l) \subseteq Passing <=> Answers[l][page[l]] \in {"law", "short", "words"})
================================================================================
