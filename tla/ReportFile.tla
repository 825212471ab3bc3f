------------------------------ MODULE ReportFile ------------------------------
(***************************************************************************)
(* An invocation of the tool from its command line to its exit code, and   *)
(* the report on its way to --output: several invocations, and another     *)
(* program, meet at one path.  cli::run reads the line, scans, and         *)
(* write_output looks whether the file exists, opens it and writes.        *)
(*                                                                         *)
(* The file is the sequence of the authors of its bytes.  A text shorter   *)
(* than the stream's buffer stays in the buffer until the stream is        *)
(* destroyed; a longer one is written when it is inserted.                 *)
(***************************************************************************)
EXTENDS CommandLine

CONSTANTS
    Invocations,    \* concurrent runs of the tool
    CommandLines,   \* what may be asked of all of them
    Sizes,          \* lengths of a report
    Buffer          \* from this length on a text bypasses the stream's buffer

ASSUME LineAssumption == CommandLines \subseteq [Invocations -> Seq(STRING)]
ASSUME SizesAssumption == Sizes \subseteq Nat \ {0} /\ Buffer \in Nat

VARIABLES
    line,       \* the words of an invocation
    pc,         \* where it stands; "start" before it is begun
    settings,   \* what the option loop made of the words
    size,       \* length of its report, when there is one
    verdict,    \* exit code its report calls for
    exit,       \* exit code of the process, or none
    exists,     \* the path names a file
    data,       \* its content
    old,        \* the path named a file from the start (history)
    opened,     \* invocations that opened the file for writing (history)
    sole        \* the last of them, if no other had the file open then (history)

vars ==
    <<line, pc, settings, size, verdict, exit, exists, data, old, opened, sole>>
file == <<exists, data, opened, sole>>

None == 255
Program == "another program"
ThePath == "FILE"

Points ==
    {"start", "scan", "check", "open", "insert", "destroy", "elsewhere", "done", "killed"}

TypeOK ==
    /\ DOMAIN line = Invocations
    /\ pc \in [Invocations -> Points]
    /\ \A i \in Invocations :
          pc[i] \in Points \ {"start", "done", "killed"} =>
              settings[i].target \in Targets /\ settings[i].format \in Formats
    /\ size \in [Invocations -> Sizes \cup {0}]
    /\ verdict \in [Invocations -> 0 .. 3]
    /\ exit \in [Invocations -> 0 .. 3 \cup {Usage, None}]
    /\ exists \in BOOLEAN
    /\ data \in Seq(Invocations \cup {Program})
    /\ ~exists => data = <<>>
    /\ old \in BOOLEAN
    /\ opened \subseteq Invocations
    /\ sole \subseteq opened

Init ==
    /\ line \in CommandLines
    /\ pc = [i \in Invocations |-> "start"]
    /\ settings = [i \in Invocations |-> Defaults]
    /\ size = [i \in Invocations |-> 0]
    /\ verdict = [i \in Invocations |-> 3]
    /\ exit = [i \in Invocations |-> None]
    /\ exists \in BOOLEAN
    /\ data = IF exists THEN <<Program>> ELSE <<>>
    /\ old = exists
    /\ opened = {}
    /\ sole = {}

Goto(i, point) == pc' = [pc EXCEPT ![i] = point]
Return(i, code) == Goto(i, "done") /\ exit' = [exit EXCEPT ![i] = code]

(* The file after one write of n bytes by i at the start of it.            *)
Written(i, n) ==
    [k \in 1 .. (IF n > Len(data) THEN n ELSE Len(data)) |-> IF k <= n THEN i ELSE data[k]]

-----------------------------------------------------------------------------
(* An invocation                                                           *)

(* Nothing is inspected or written for a line that asks for a text of the  *)
(* tool itself, or that is not understood.                                 *)
ParseArguments(i) ==
    /\ pc[i] = "start"
    /\ IF Answered(line[i])
          THEN Return(i, AnswerCode(line[i])) /\ UNCHANGED settings
          ELSE /\ settings' = [settings EXCEPT ![i] = Settings(line[i])]
               /\ IF settings'[i].legal THEN Goto(i, "scan") /\ UNCHANGED exit
                                        ELSE Return(i, Usage)
    /\ UNCHANGED <<line, size, verdict, old, file>>

(* The scan ends with a report, or with an exception.                      *)
FinishScan(i) ==
    /\ pc[i] = "scan"
    /\ \/ /\ \E code \in 0 .. 3, n \in Sizes :
                verdict' = [verdict EXCEPT ![i] = code] /\ size' = [size EXCEPT ![i] = n]
          /\ Goto(i, IF settings[i].output = ThePath THEN "check" ELSE "elsewhere")
          /\ UNCHANGED exit
       \/ Return(i, 3) /\ UNCHANGED <<size, verdict>>
    /\ UNCHANGED <<line, settings, old, file>>

(* Standard output, where nothing is looked at that may go wrong, or some  *)
(* other file.                                                             *)
WriteElsewhere(i) ==
    /\ pc[i] = "elsewhere"
    /\ \/ Return(i, verdict[i])
       \/ settings[i].output # "" /\ Return(i, 3)
    /\ UNCHANGED <<line, settings, size, verdict, old, file>>

ConflictWithForce(i) == exists /\ settings[i].force
ConflictWithContent(i) == exists /\ data # <<>> /\ ~settings[i].force
Conflict(i) == exists /\ ~settings[i].force

ConflictIsUsage(i) ==
    /\ pc[i] = "check"
    /\ IF Conflict(i) THEN Return(i, Usage) ELSE Goto(i, "open") /\ UNCHANGED exit
    /\ UNCHANGED <<line, settings, size, verdict, old, file>>

(* A file in the way without --force, or a path that cannot be looked up,  *)
(* is an operational error.                                                *)
CheckExists(i) ==
    /\ pc[i] = "check"
    /\ \/ Return(i, 3)
       \/ ~Conflict(i) /\ Goto(i, "open") /\ UNCHANGED exit
    /\ UNCHANGED <<line, settings, size, verdict, old, file>>

OpenedAlone(i) ==
    IF \E j \in Invocations : pc[j] \in {"insert", "destroy"} THEN {} ELSE {i}

(* The file is emptied, or created, while others may have it open.         *)
Truncate(i) ==
    /\ exists' = TRUE
    /\ data' = <<>>
    /\ opened' = opened \cup {i}
    /\ sole' = OpenedAlone(i)

OpenKeepingContent(i) ==
    /\ pc[i] = "open"
    /\ \/ Return(i, 3) /\ UNCHANGED file
       \/ /\ Goto(i, "insert")
          /\ exists' = TRUE
          /\ opened' = opened \cup {i}
          /\ sole' = OpenedAlone(i)
          /\ UNCHANGED <<data, exit>>
    /\ UNCHANGED <<line, settings, size, verdict, old>>

(* The file is created or truncated; or the open fails.                    *)
OpenFile(i) ==
    /\ pc[i] = "open"
    /\ \/ Return(i, 3) /\ UNCHANGED file
       \/ Goto(i, "insert") /\ Truncate(i) /\ UNCHANGED exit
    /\ UNCHANGED <<line, settings, size, verdict, old>>

(* A long text goes to the file; when the disk takes only some of it, the  *)
(* stream is bad and the code throws.                                      *)
InsertText(i) ==
    /\ pc[i] = "insert"
    /\ IF size[i] < Buffer
          THEN Goto(i, "destroy") /\ UNCHANGED <<data, exit>>
          ELSE \/ data' = Written(i, size[i]) /\ Goto(i, "destroy") /\ UNCHANGED exit
               \/ (\E n \in 0 .. size[i] - 1 : data' = Written(i, n)) /\ Return(i, 3)
    /\ UNCHANGED <<line, settings, size, verdict, exists, old, opened, sole>>

(* The destructor flushes what the buffer holds, and tells nobody whether  *)
(* that worked.                                                            *)
DestroyStream(i) ==
    /\ pc[i] = "destroy"
    /\ IF size[i] < Buffer
          THEN \E n \in 0 .. size[i] : data' = Written(i, n)
          ELSE UNCHANGED data
    /\ Return(i, verdict[i])
    /\ UNCHANGED <<line, settings, size, verdict, exists, old, opened, sole>>

(* The next step hands the text to the file, piece by piece.               *)
Flushing(i) == pc[i] = IF size[i] < Buffer THEN "destroy" ELSE "insert"

(* A kill comes between two steps, or when some of the text is written.    *)
Killed(i) ==
    /\ pc[i] \notin {"start", "done", "killed"}
    /\ Goto(i, "killed")
    /\ \/ UNCHANGED data
       \/ Flushing(i) /\ \E n \in 1 .. size[i] : data' = Written(i, n)
    /\ UNCHANGED <<line, settings, size, verdict, exit, exists, old, opened, sole>>

Step(i) ==
    \/ ParseArguments(i) \/ FinishScan(i) \/ WriteElsewhere(i)
    \/ CheckExists(i) \/ OpenFile(i) \/ InsertText(i) \/ DestroyStream(i)

(* Some other program puts a file of its own where there was none.         *)
CreateFile ==
    /\ ~exists
    /\ \E i \in Invocations : pc[i] \notin {"done", "killed"}
    /\ exists' = TRUE
    /\ data' = <<Program>>
    /\ UNCHANGED <<line, pc, settings, size, verdict, exit, old, opened, sole>>

Terminated ==
    /\ \A i \in Invocations : pc[i] \in {"done", "killed"}
    /\ UNCHANGED vars

Next == (\E i \in Invocations : Step(i) \/ Killed(i)) \/ CreateFile \/ Terminated

(* When an invocation begins is the user's choice, so one may be the second*)
(* try after another failed or was killed.  A scan need not end (see       *)
(* ProcessRunner), so no step is assumed to be taken.                      *)
Spec == Init /\ [][Next]_vars

-----------------------------------------------------------------------------
(* Properties                                                              *)

Inspects(i) == ~Answered(line[i])
Options(i) == Tail(line[i])
Reported(i) == exit[i] \in 0 .. 2 /\ Inspects(i)
Whole(i) == [k \in 1 .. size[i] |-> i]

(* The line is one the tool can follow: every word is an option or belongs *)
(* to one, and release and format are known ones.                          *)
Legal(i) ==
    IF Inspects(i)
       THEN /\ Understood(Options(i))
            /\ Value(Options(i), "--target", "26.04") \in Targets
            /\ Value(Options(i), "--format", "text") \in Formats
       ELSE AnswerCode(line[i]) = 0

(* The tool does what its command line says when the line is read as a     *)
(* whole, for every line: the release, format and file are the last ones   *)
(* given, a word that is the value of an option is no option itself, and   *)
(* export always writes JSON.                                              *)
ReadAsWritten ==
    \A i \in Invocations :
        pc[i] \notin {"start", "done", "killed"} =>
            /\ settings[i].target = Value(Options(i), "--target", "26.04")
            /\ settings[i].output = Value(Options(i), "--output", "")
            /\ settings[i].force = Given(Options(i), "--force")
            /\ settings[i].verbose = Given(Options(i), "--verbose")
            /\ settings[i].format = IF Head(line[i]) = "export" THEN "json"
                                    ELSE Value(Options(i), "--format", "text")

(* Exit code 64 tells of the command line and of nothing else: a conflict  *)
(* or a write failure has another code, and a line at fault neither opens  *)
(* the file nor ends with a verdict, whatever else happens.                *)
UsageIsTheLine ==
    \A i \in Invocations :
        /\ pc[i] = "done" => (exit[i] = Usage <=> ~Legal(i))
        /\ i \in opened => Legal(i) /\ Value(Options(i), "--output", "") = ThePath

(* A file that was there before any invocation began is never touched by   *)
(* invocations whose line does not say --force as an option, whatever      *)
(* fails or is killed meanwhile.                                           *)
OldFileKept ==
    old /\ (\A i \in opened : ~Given(Options(i), "--force")) =>
        exists /\ data = <<Program>>

(* Exit code 0, 1 or 2 after a report of at least the buffer's length means*)
(* that the file holds the whole report and nothing else, also where the   *)
(* invocation followed one that failed or was killed half-way - unless     *)
(* another one had the file open at the same time, or has opened it since. *)
ReportedIsWritten ==
    \A i \in sole :
        Reported(i) /\ size[i] >= Buffer => exists /\ data = Whole(i)

(* The inductive invariant behind it: an invocation that is not past the   *)
(* open has opened nothing, a file opened alone has no other writer, and   *)
(* at each step of its writer holds what was written so far.               *)
Writing(i) == pc[i] \in {"insert", "destroy"}

FileTypes ==
    /\ pc \in [Invocations -> Points]
    /\ size \in [Invocations -> Sizes \cup {0}]
    /\ verdict \in [Invocations -> 0 .. 3]
    /\ exit \in [Invocations -> 0 .. 3 \cup {Usage, None}]
    /\ opened \subseteq Invocations
    /\ sole \subseteq opened

OpenedInTurn ==
    \A i \in opened : pc[i] \in {"insert", "destroy", "done", "killed"}

NoOtherWriter ==
    \A i \in sole : exists /\ \A j \in Invocations : j \in sole \/ Writing(j) => j = i

ContentSoFar ==
    \A i \in sole :
        /\ pc[i] = "insert" => data = <<>>
        /\ pc[i] = "destroy" => data = IF size[i] < Buffer THEN <<>> ELSE Whole(i)

CodeAtTheEnd == \A i \in Invocations : pc[i] # "done" => exit[i] = None

IInv ==
    /\ FileTypes /\ OpenedInTurn /\ NoOtherWriter /\ ContentSoFar /\ CodeAtTheEnd
    /\ ReportedIsWritten

(* Once the path names a file, whoever made it - the empty or partial one  *)
(* of an invocation that failed, was killed or is still writing included - *)
(* an invocation that has not looked yet never opens it, unless its line   *)
(* says --force: a second try does not write over the rubble of the first. *)
StillToLook(i) == pc[i] \in {"start", "scan", "check"}
Unforced(i) == Inspects(i) /\ ~Given(Options(i), "--force")
FoundFileRefused ==
    \A i \in Invocations :
        [](exists /\ StillToLook(i) /\ Unforced(i) => [](i \notin opened))

(* "Existing files are protected unless --force is supplied": also one that*)
(* appears while the tool is at work.                                      *)
ExistingFilesProtected ==
    [][\A i \in Invocations : opened' = opened \cup {i} /\ i \notin opened /\ exists
          => settings[i].force]_vars

(* "Write failures are operational errors and return 3": for a report of   *)
(* any length.                                                             *)
WriteFailureIsReported ==
    \A i \in sole : Reported(i) => exists /\ data = Whole(i)

=============================================================================
