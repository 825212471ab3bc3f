----------------------------- MODULE CommandLine ------------------------------
(***************************************************************************)
(* The command line: which invocations are answered at once, and what the  *)
(* options of scan and export mean.  A line is the sequence of its words   *)
(* after the name of the program.                                          *)
(***************************************************************************)
EXTENDS Naturals, Sequences

Valued == {"--target", "--format", "--output"}
Flags == {"--force", "--no-color", "--verbose"}
Targets == {"24.04", "26.04"}
Formats == {"text", "json"}
FindingIds ==
    {"UG-REL-001", "UG-REL-002", "UG-REL-003", "UG-APT-001", "UG-APT-002", "UG-APT-003",
     "UG-APT-004", "UG-APT-005", "UG-APT-006", "UG-APT-007", "UG-DSK-001", "UG-DSK-002",
     "UG-DSK-003", "UG-DKM-001", "UG-SEC-001", "UG-KRN-001", "UG-KRN-002", "UG-RBT-001"}

(* Where the loop stands: what it has read, the option that waits for its  *)
(* value, if any, and whether every word was understood.                   *)
Defaults ==
    [target |-> "26.04", format |-> "text", output |-> "", force |-> FALSE,
     verbose |-> FALSE, waiting |-> "", legal |-> TRUE]

Store(seen, option, value) ==
    CASE option = "--target" -> [seen EXCEPT !.target = value]
      [] option = "--format" -> [seen EXCEPT !.format = value]
      [] option = "--output" -> [seen EXCEPT !.output = value]

(* The value is looked at as a word of its own once more.                  *)
ReadValueTwice(words, seen, k) ==
    IF ~seen.legal THEN seen
    ELSE IF seen.waiting # "" /\ words[k] \notin Valued \cup Flags
         THEN [Store(seen, seen.waiting, words[k]) EXCEPT !.waiting = ""]
    ELSE IF words[k] \in Valued THEN [seen EXCEPT !.waiting = words[k]]
    ELSE IF words[k] \in Flags
         THEN [seen EXCEPT !.force = @ \/ words[k] = "--force",
                           !.verbose = @ \/ words[k] = "--verbose"]
    ELSE [seen EXCEPT !.legal = FALSE]

(* A word after an option that takes a value is that value, whatever it    *)
(* looks like; such an option at the end of the line is not understood.    *)
ReadWord(words, seen, k) ==
    IF ~seen.legal THEN seen
    ELSE IF seen.waiting # ""
         THEN [Store(seen, seen.waiting, words[k]) EXCEPT !.waiting = ""]
    ELSE IF words[k] \in Valued /\ k < Len(words) THEN [seen EXCEPT !.waiting = words[k]]
    ELSE IF words[k] \in Flags
         THEN [seen EXCEPT !.force = @ \/ words[k] = "--force",
                           !.verbose = @ \/ words[k] = "--verbose"]
    ELSE [seen EXCEPT !.legal = FALSE]

(* The loop, after each word.                                              *)
Reading(words) ==
    LET read[k \in 0 .. Len(words)] ==
            IF k = 0 THEN Defaults ELSE ReadWord(words, read[k - 1], k)
    IN  read

ReadOptions(words) == Reading(words)[Len(words)]

SettingsUnchecked(line) ==
    LET seen == ReadOptions(Tail(line))
    IN  [seen EXCEPT !.format = IF Head(line) = "export" THEN "json" ELSE seen.format]

(* export writes JSON, though it asks for a format it knows.               *)
Settings(line) ==
    LET seen == ReadOptions(Tail(line))
    IN  [seen EXCEPT
            !.legal = seen.legal /\ seen.target \in Targets /\ seen.format \in Formats,
            !.format = IF Head(line) = "export" /\ seen.legal /\ seen.format \in Formats
                       THEN "json" ELSE seen.format]

(* The exit code of an invocation that inspects nothing.                   *)
Usage == 64
Answered(line) ==
    \/ line = <<>>
    \/ line[1] \notin {"scan", "export"}
    \/ Len(line) = 2 /\ line[2] = "--help"

AnswerCode(line) ==
    IF line = <<>> THEN Usage
    ELSE IF \/ line[1] \in {"help", "--help", "version", "--version"}
            \/ Len(line) = 2 /\ line[2] = "--help"
            \/ line[1] = "explain" /\ Len(line) = 2 /\ line[2] \in FindingIds
            \/ line = <<"list-checks">>
         THEN 0 ELSE Usage

-----------------------------------------------------------------------------
(* What an option line means, said without a loop: a word is a value if    *)
(* the words that take one stand before it in an unbroken row of odd       *)
(* length.  The last value of an option counts.                            *)
IsValue(words, k) ==
    \E first \in 1 .. k - 1 :
        /\ (k - first) % 2 = 1
        /\ \A j \in first .. k - 1 : words[j] \in Valued
        /\ first = 1 \/ words[first - 1] \notin Valued

IsOption(words, k) == ~IsValue(words, k)

Understood(words) ==
    \A k \in DOMAIN words :
        \/ IsValue(words, k)
        \/ words[k] \in Flags
        \/ words[k] \in Valued /\ k < Len(words)

Given(words, flag) == \E k \in DOMAIN words : words[k] = flag /\ IsOption(words, k)

ValuesOf(words, option) ==
    {k \in DOMAIN words : IsValue(words, k) /\ words[k - 1] = option}

Value(words, option, default) ==
    IF ValuesOf(words, option) = {} THEN default
    ELSE words[CHOOSE k \in ValuesOf(words, option) :
                   \A j \in ValuesOf(words, option) : j <= k]

=============================================================================
