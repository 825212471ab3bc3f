-------------------------------- MODULE Reports --------------------------------
(***************************************************************************)
(* What the two reporters make of a report: the counts at its head, the    *)
(* findings they list and, for the strings in them, the characters that    *)
(* the output holds.  Titles, explanations and layout are left out.        *)
(***************************************************************************)
EXTENDS Readiness, FiniteSets

(* Of the characters JSON treats differently evidence may hold the tab:    *)
(* it comes from command output and source files, line by line and with    *)
(* the spaces and tabs it has there.                                       *)
EvidenceCharacters(s) == {"plain"} \cup (IF s.sources.tabs THEN {"tab"} ELSE {})

(* esc: what becomes of a character.                                       *)
Esc(c) ==
    IF c \in {"backslash", "quote", "newline"} THEN {"escaped"}
    ELSE IF c = "return" THEN {} ELSE {c}

(* What a JSON string may hold.                                            *)
JsonCharacters == {"plain", "escaped"}

CountUnlessIssues(found, issues, status) ==
    Cardinality({id \in DOMAIN found : found[id] = status})

(* count_status: the findings of the rules, and one unknown per issue.     *)
Count(found, issues, status) ==
    Cardinality({id \in DOMAIN found : found[id] = status})
    + (IF status = "unknown" THEN Cardinality(issues) ELSE 0)

Summary(found, issues) ==
    [status \in Statuses \ {"passed"} |-> Count(found, issues, status)]

ListedWhenRisky(found, verbose) ==
    {id \in DOMAIN found : found[id] \in {"warning", "blocked"} \/ verbose}

(* The findings the text shows: passed ones only on request.               *)
Listed(found, verbose) == {id \in DOMAIN found : found[id] # "passed" \/ verbose}

TextReport(s, issues, verdict, verbose) ==
    LET found == Findings(s)
    IN  [format |-> "text", overall |-> verdict, summary |-> Summary(found, issues),
         findings |-> [id \in Listed(found, verbose) |-> found[id]], issues |-> issues,
         characters |-> EvidenceCharacters(s)]

(* JSON lists every finding, whether or not the scan was verbose.          *)
JsonReport(s, issues, verdict) ==
    LET found == Findings(s)
    IN  [format |-> "json", overall |-> verdict, summary |-> Summary(found, issues),
         findings |-> [id \in DOMAIN found |-> found[id]], issues |-> issues,
         characters |-> UNION {Esc(c) : c \in EvidenceCharacters(s)}]

NoReport ==
    [format |-> "none", overall |-> "incomplete", summary |-> [status \in {} |-> 0],
     findings |-> [id \in {} |-> "passed"], issues |-> {}, characters |-> {}]

=============================================================================
