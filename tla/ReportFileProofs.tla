--------------------------- MODULE ReportFileProofs ---------------------------
(***************************************************************************)
(* Proofs about ReportFile, for any number of invocations, every set of    *)
(* command lines, all lengths of reports and every size of the buffer.     *)
(***************************************************************************)
EXTENDS ReportFile, CommandLineProofs, TLAPS

USE DEF Points

(* A line answered at once gets 0 or 64.                                   *)
LEMMA Codes == \A words : AnswerCode(words) \in {0, Usage}
  BY DEF AnswerCode

LEMMA Ending ==
    ASSUME NEW i, NEW code \in 0 .. 3, Return(i, code)
    PROVE  Goto(i, "done") /\ \E c \in 0 .. 3 \cup {Usage} : Return(i, c)
  <1>1. Goto(i, "done")
    BY DEF Return
  <1> QED BY <1>1

LEMMA SizesAreNumbers == \A n \in Sizes \cup {0} : n \in Nat
  BY SizesAssumption

(* A step of one invocation away from the file: it had not opened it, and  *)
(* goes to another place before the open, or ends with some code.          *)
LEMMA AwayFromFile ==
    ASSUME IInv, NEW i \in Invocations, UNCHANGED file,
           pc[i] \in {"start", "scan", "check", "open", "elsewhere"},
           NEW next \in {"scan", "check", "open", "elsewhere", "done"}, Goto(i, next),
           exit' = exit \/ \E code \in 0 .. 3 \cup {Usage} : Return(i, code),
           exit' # exit => next = "done",
           size' \in [Invocations -> Sizes \cup {0}],
           \A j \in Invocations \ {i} : size'[j] = size[j],
           verdict' \in [Invocations -> 0 .. 3], line' = line
    PROVE  IInv'
  <1> USE DEF IInv
  <1>1. i \notin opened /\ i \notin sole
    BY DEF OpenedInTurn, FileTypes
  <1>2. \A j \in Invocations \ {i} : pc'[j] = pc[j] /\ exit'[j] = exit[j]
    BY DEF FileTypes, Goto, Return
  <1>3. pc'[i] = next
    BY DEF FileTypes, Goto
  <1>4. FileTypes'
    BY <1>3 DEF FileTypes, Goto, Return, file
  <1>5. OpenedInTurn'
    BY <1>1, <1>2 DEF OpenedInTurn, FileTypes, file
  <1>6. NoOtherWriter'
    BY <1>1, <1>2, <1>3 DEF NoOtherWriter, Writing, FileTypes, file
  <1>7. ContentSoFar'
    BY <1>1, <1>2 DEF ContentSoFar, Whole, FileTypes, file
  <1>8. CodeAtTheEnd'
    BY <1>2, <1>3 DEF CodeAtTheEnd, FileTypes, Return
  <1>9. ReportedIsWritten'
    <2> SUFFICES ASSUME NEW j \in sole', Reported(j)', (size[j] >= Buffer)'
                 PROVE  exists' /\ data' = Whole(j)'
      BY DEF ReportedIsWritten
    <2>1. j \in sole /\ j \in Invocations \ {i}
      BY <1>1 DEF file, FileTypes
    <2>2. Reported(j) /\ size[j] >= Buffer /\ Whole(j)' = Whole(j)
      BY <2>1, <1>2 DEF Reported, Inspects, Whole
    <2> QED BY <2>1, <2>2 DEF ReportedIsWritten, file
  <1> QED BY <1>4, <1>5, <1>6, <1>7, <1>8, <1>9

LEMMA InitInv == Init => IInv
  BY DEF Init, IInv, FileTypes, OpenedInTurn, NoOtherWriter, ContentSoFar, CodeAtTheEnd,
         ReportedIsWritten

LEMMA StutterInv == IInv /\ UNCHANGED vars => IInv'
  BY DEF IInv, vars, FileTypes, OpenedInTurn, NoOtherWriter, ContentSoFar, CodeAtTheEnd,
         ReportedIsWritten, Writing, Whole, Reported, Inspects

(* A kill leaves any part of the text in the file, and no report is        *)
(* claimed: its invocation has no exit code.                               *)
LEMMA KilledInv == ASSUME IInv, NEW i \in Invocations, Killed(i) PROVE IInv'
  <1> USE DEF IInv
  <1>1. /\ pc' = [pc EXCEPT ![i] = "killed"] /\ exit[i] = None
        /\ UNCHANGED <<line, size, verdict, exit, exists, opened, sole>>
    BY DEF Killed, Goto, CodeAtTheEnd
  <1>2. FileTypes' /\ OpenedInTurn' /\ NoOtherWriter' /\ CodeAtTheEnd'
    BY <1>1 DEF FileTypes, OpenedInTurn, NoOtherWriter, CodeAtTheEnd, Writing
  <1>3. \A j \in sole : j # i => data' = data
    BY DEF Killed, Flushing, NoOtherWriter, Writing, FileTypes
  <1>4. ContentSoFar'
    BY <1>1, <1>3 DEF ContentSoFar, Whole, FileTypes
  <1>5. ReportedIsWritten'
    <2> SUFFICES ASSUME NEW j \in sole, Reported(j), size[j] >= Buffer
                 PROVE  exists /\ data' = Whole(j)
      BY <1>1 DEF ReportedIsWritten, Reported, Inspects, Whole
    <2>1. j # i
      BY <1>1 DEF Reported, None
    <2> QED BY <1>3, <2>1 DEF ReportedIsWritten
  <1> QED BY <1>2, <1>4, <1>5

(* Another program only creates a file where there is none, so nobody is   *)
(* the only one to have opened it.                                         *)
LEMMA CreateFileInv == ASSUME IInv, CreateFile PROVE IInv'
  <1> USE DEF IInv
  <1>1. sole = {} /\ UNCHANGED <<pc, size, verdict, exit, opened, sole>>
    BY DEF CreateFile, NoOtherWriter
  <1> QED BY <1>1 DEF FileTypes, OpenedInTurn, NoOtherWriter, ContentSoFar, CodeAtTheEnd,
                      ReportedIsWritten

-----------------------------------------------------------------------------
(* The steps of an invocation                                              *)

LEMMA ParseArgumentsInv ==
    ASSUME IInv, NEW i \in Invocations, ParseArguments(i) PROVE IInv'
  <1> USE DEF IInv
  <1>1. /\ UNCHANGED file /\ pc[i] = "start" /\ line' = line
        /\ size' \in [Invocations -> Sizes \cup {0}] /\ size' = size
        /\ verdict' \in [Invocations -> 0 .. 3]
    BY DEF ParseArguments, FileTypes
  <1>2. CASE Answered(line[i])
    <2>1. AnswerCode(line[i]) \in 0 .. 3 \cup {Usage}
      BY Codes
    <2>2. Goto(i, "done") /\ \E code \in 0 .. 3 \cup {Usage} : Return(i, code)
      BY <1>2, <2>1 DEF ParseArguments, Return
    <2> QED BY <1>1, <2>2, AwayFromFile
  <1>3. CASE ~Answered(line[i]) /\ settings'[i].legal
    BY <1>1, <1>3, AwayFromFile DEF ParseArguments
  <1>4. CASE ~Answered(line[i]) /\ ~settings'[i].legal
    <2>1. Goto(i, "done") /\ \E code \in 0 .. 3 \cup {Usage} : Return(i, code)
      BY <1>4 DEF ParseArguments, Return
    <2> QED BY <1>1, <2>1, AwayFromFile
  <1> QED BY <1>2, <1>3, <1>4

LEMMA FinishScanInv == ASSUME IInv, NEW i \in Invocations, FinishScan(i) PROVE IInv'
  <1> USE DEF IInv
  <1>1. /\ UNCHANGED file /\ pc[i] = "scan" /\ line' = line
        /\ size' \in [Invocations -> Sizes \cup {0}]
        /\ \A j \in Invocations \ {i} : size'[j] = size[j]
        /\ verdict' \in [Invocations -> 0 .. 3]
    BY DEF FinishScan, FileTypes
  <1>2. CASE Return(i, 3)
    BY <1>1, <1>2, Ending, AwayFromFile
  <1>3. CASE UNCHANGED exit /\ (Goto(i, "check") \/ Goto(i, "elsewhere"))
    BY <1>1, <1>3, AwayFromFile
  <1> QED BY <1>2, <1>3 DEF FinishScan

LEMMA WriteElsewhereInv ==
    ASSUME IInv, NEW i \in Invocations, WriteElsewhere(i) PROVE IInv'
  <1> USE DEF IInv
  <1>1. /\ UNCHANGED file /\ pc[i] = "elsewhere" /\ UNCHANGED <<line, size, verdict>>
        /\ verdict[i] \in 0 .. 3
    BY DEF WriteElsewhere, FileTypes
  <1>2. \E code \in 0 .. 3 : Return(i, code)
    <2>1. Return(i, verdict[i]) \/ Return(i, 3)
      BY DEF WriteElsewhere
    <2>2. 3 \in 0 .. 3
      OBVIOUS
    <2> QED BY <1>1, <2>1, <2>2, Zenon
  <1>3. Goto(i, "done") /\ \E code \in 0 .. 3 \cup {Usage} : Return(i, code)
    BY <1>2, Ending
  <1> QED BY <1>1, <1>3, AwayFromFile DEF FileTypes

LEMMA CheckExistsInv == ASSUME IInv, NEW i \in Invocations, CheckExists(i) PROVE IInv'
  <1> USE DEF IInv
  <1>1. UNCHANGED file /\ pc[i] = "check" /\ UNCHANGED <<line, size, verdict>>
    BY DEF CheckExists
  <1>2. CASE Return(i, 3)
    BY <1>1, <1>2, Ending, AwayFromFile DEF FileTypes
  <1>3. CASE Goto(i, "open") /\ UNCHANGED exit
    BY <1>1, <1>3, AwayFromFile DEF FileTypes
  <1> QED BY <1>2, <1>3 DEF CheckExists

(* Who opens the file is its only writer, or no invocation is.             *)
LEMMA OpenFileInv == ASSUME IInv, NEW i \in Invocations, OpenFile(i) PROVE IInv'
  <1> USE DEF IInv
  <1>1. CASE Return(i, 3) /\ UNCHANGED file
    BY <1>1, Ending, AwayFromFile DEF OpenFile, FileTypes
  <1>2. CASE Goto(i, "insert") /\ Truncate(i) /\ UNCHANGED exit
    <2>1. /\ pc[i] = "open" /\ pc' = [pc EXCEPT ![i] = "insert"] /\ exit[i] = None
          /\ exists' = TRUE /\ data' = <<>> /\ opened' = opened \cup {i}
          /\ UNCHANGED <<line, size, verdict, exit>>
      BY <1>2 DEF OpenFile, Goto, Truncate, CodeAtTheEnd
    <2>2. sole' = {} \/ (sole' = {i} /\ \A j \in Invocations : ~Writing(j))
      BY <1>2 DEF Truncate, OpenedAlone, Writing
    <2>3. FileTypes' /\ OpenedInTurn' /\ CodeAtTheEnd'
      BY <2>1, <2>2 DEF FileTypes, OpenedInTurn, CodeAtTheEnd
    <2>4. NoOtherWriter' /\ ContentSoFar'
      BY <2>1, <2>2 DEF NoOtherWriter, ContentSoFar, Writing, FileTypes
    <2>5. ReportedIsWritten'
      BY <2>1, <2>2 DEF ReportedIsWritten, Reported, Inspects, None
    <2> QED BY <2>3, <2>4, <2>5
  <1> QED BY <1>1, <1>2 DEF OpenFile

(* A write to an empty file leaves the whole report there.                 *)
LEMMA WholeWritten ==
    ASSUME NEW i \in Invocations, data = <<>>, size[i] \in Nat
    PROVE  Written(i, size[i]) = Whole(i)
  BY DEF Written, Whole

(* A writer moves on: its file was opened by it alone, or by nobody alone. *)
LEMMA WriterInv ==
    ASSUME IInv, NEW i \in Invocations, Writing(i),
           UNCHANGED <<line, size, verdict, exists, opened, sole>>,
           \/ Goto(i, "destroy") /\ exit' = exit
           \/ \E code \in 0 .. 3 : Return(i, code),
           i \in sole => IF pc'[i] = "destroy"
                        THEN data' = IF size[i] < Buffer THEN <<>> ELSE Whole(i)
                        ELSE exit'[i] = 3 \/ size[i] < Buffer \/ data' = Whole(i)
    PROVE  IInv'
  <1> USE DEF IInv
  <1>1. \A j \in Invocations \ {i} : j \notin sole
    BY DEF NoOtherWriter
  <1>2. /\ pc'[i] \in {"destroy", "done"}
        /\ \A j \in Invocations \ {i} : pc'[j] = pc[j] /\ exit'[j] = exit[j]
    BY DEF FileTypes, Goto, Return
  <1>3. FileTypes' /\ CodeAtTheEnd'
    BY <1>2 DEF FileTypes, CodeAtTheEnd, Goto, Return, Writing
  <1>4. OpenedInTurn' /\ NoOtherWriter'
    BY <1>2 DEF OpenedInTurn, NoOtherWriter, FileTypes, Writing
  <1>5. ContentSoFar'
    BY <1>1, <1>2 DEF ContentSoFar, Whole, FileTypes
  <1>6. ReportedIsWritten'
    <2> SUFFICES ASSUME NEW j \in sole, Reported(j)', size[j] >= Buffer
                 PROVE  exists /\ data' = Whole(j)
      BY DEF ReportedIsWritten, Whole
    <2>1. j = i /\ exists
      BY <1>1 DEF NoOtherWriter, FileTypes
    <2>2. exit'[i] \in 0 .. 2
      BY <2>1 DEF Reported
    <2>3. CASE pc'[i] = "destroy"
      BY <1>3, <2>1, <2>2, <2>3 DEF CodeAtTheEnd, None
    <2>4. CASE pc'[i] = "done"
      <3>1. exit'[i] = 3 \/ size[i] < Buffer \/ data' = Whole(i)
        BY <2>1, <2>4
      <3>2. size[i] \in Nat /\ Buffer \in Nat
        BY SizesAreNumbers, SizesAssumption DEF FileTypes
      <3> QED BY <2>1, <2>2, <3>1, <3>2
    <2> QED BY <1>2, <2>3, <2>4
  <1> QED BY <1>3, <1>4, <1>5, <1>6

LEMMA InsertTextInv == ASSUME IInv, NEW i \in Invocations, InsertText(i) PROVE IInv'
  <1> USE DEF IInv
  <1>1. pc[i] = "insert" /\ Writing(i)
        /\ UNCHANGED <<line, size, verdict, exists, opened, sole>>
    BY DEF InsertText, Writing
  <1>2. size[i] \in Nat
    BY SizesAreNumbers DEF FileTypes
  <1>3. i \in sole => data = <<>>
    BY <1>1 DEF ContentSoFar
  <1>4. CASE size[i] < Buffer
    <2>1. Goto(i, "destroy") /\ data' = data /\ exit' = exit /\ pc'[i] = "destroy"
      BY <1>4 DEF InsertText, Goto, FileTypes
    <2> QED BY <1>1, <1>3, <1>4, <2>1, WriterInv
  <1>5. CASE ~(size[i] < Buffer) /\ data' = Written(i, size[i]) /\ Goto(i, "destroy")
             /\ exit' = exit
    <2>1. i \in sole => data' = Whole(i)
      BY <1>2, <1>3, <1>5, WholeWritten
    <2>2. pc'[i] = "destroy"
      BY <1>5 DEF Goto, FileTypes
    <2> QED BY <1>1, <1>5, <2>1, <2>2, WriterInv
  <1>6. CASE Return(i, 3)
    <2>1. pc'[i] = "done" /\ exit'[i] = 3
      BY <1>6 DEF Return, Goto, FileTypes
    <2> QED BY <1>1, <1>6, <2>1, WriterInv
  <1> QED BY <1>4, <1>5, <1>6 DEF InsertText

LEMMA DestroyStreamInv == ASSUME IInv, NEW i \in Invocations, DestroyStream(i) PROVE IInv'
  <1> USE DEF IInv
  <1>1. /\ pc[i] = "destroy" /\ Writing(i) /\ Return(i, verdict[i])
        /\ UNCHANGED <<line, size, verdict, exists, opened, sole>>
    BY DEF DestroyStream, Writing
  <1>2. verdict[i] \in 0 .. 3 /\ pc'[i] = "done"
    BY <1>1 DEF Return, Goto, FileTypes
  <1>3. i \in sole => size[i] < Buffer \/ data' = Whole(i)
    BY <1>1 DEF DestroyStream, ContentSoFar
  <1> QED BY <1>1, <1>2, <1>3, WriterInv

-----------------------------------------------------------------------------
(* Theorems                                                                *)

LEMMA NextInv == IInv /\ [Next]_vars => IInv'
  <1> SUFFICES ASSUME IInv, [Next]_vars PROVE IInv'
    OBVIOUS
  <1>1. ASSUME NEW i \in Invocations, Step(i) PROVE IInv'
    BY <1>1, ParseArgumentsInv, FinishScanInv, WriteElsewhereInv, CheckExistsInv,
       OpenFileInv, InsertTextInv, DestroyStreamInv DEF Step
  <1>2. ASSUME NEW i \in Invocations, Killed(i) PROVE IInv'
    BY <1>2, KilledInv
  <1>3. CASE CreateFile
    BY <1>3, CreateFileInv
  <1>4. CASE UNCHANGED vars
    BY <1>4, StutterInv
  <1> QED BY <1>1, <1>2, <1>3, <1>4 DEF Next, Terminated

(* The invariant holds whatever invocations, kills and another program do, *)
(* in any order.                                                           *)
THEOREM FileInvariance == Spec => []IInv
  <1> QED BY InitInv, NextInv, PTL DEF Spec

(* cli::run: an exit code of 0, 1 or 2 after a long report means that the  *)
(* file holds this report, also after an earlier invocation was killed     *)
(* between truncation and write.                                           *)
THEOREM ReportInFile == Spec => []ReportedIsWritten
  <1>1. IInv => ReportedIsWritten
    BY DEF IInv
  <1> QED BY <1>1, FileInvariance, PTL

-----------------------------------------------------------------------------
(* Old files                                                               *)

(* A file that was there from the start is there still; who has passed the *)
(* check or opened it has --force; nobody opened it and it is unchanged, or*)
(* somebody did.                                                           *)
OldFileInv ==
    /\ DOMAIN settings = Invocations
    /\ \A i \in Invocations : Writing(i) => i \in opened
    /\ old => /\ exists
              /\ \A i \in Invocations : pc[i] = "open" \/ i \in opened => settings[i].force
              /\ opened = {} => data = <<Program>>

(* OldFileKept as the settings have it: whether the option loop understands*)
(* --force as it is written is a matter of ReadAsWritten.                  *)
OldFileProtected ==
    old /\ (\A i \in opened : ~settings[i].force) => exists /\ data = <<Program>>

LEMMA OldFileInit == Init => OldFileInv
  BY DEF Init, OldFileInv, Writing

LEMMA OldFileNext == IInv /\ OldFileInv /\ [Next]_vars => OldFileInv'
  <1> SUFFICES ASSUME IInv, OldFileInv, [Next]_vars PROVE OldFileInv'
    OBVIOUS
  <1>1. FileTypes /\ OpenedInTurn
    BY DEF IInv
  <1>2. ASSUME NEW i \in Invocations, ParseArguments(i) PROVE OldFileInv'
    <2>1. i \notin opened /\ DOMAIN settings' = Invocations /\ pc'[i] # "open"
      BY <1>1, <1>2 DEF ParseArguments, OpenedInTurn, FileTypes, Goto, Return, OldFileInv
    <2>2. \A j \in Invocations \ {i} : pc'[j] = pc[j] /\ settings'[j] = settings[j]
      BY <1>1, <1>2 DEF ParseArguments, FileTypes, Goto, Return, OldFileInv
    <2> QED BY <1>1, <1>2, <2>1, <2>2
            DEF ParseArguments, OldFileInv, Writing, FileTypes, Goto, Return, file
  <1>3. ASSUME NEW i \in Invocations, FinishScan(i) \/ WriteElsewhere(i)
        PROVE  OldFileInv'
    <2>1. UNCHANGED <<settings, old, file>>
      BY <1>3 DEF FinishScan, WriteElsewhere
    <2>2. \E next \in {"check", "elsewhere", "done"} : Goto(i, next)
      BY <1>3 DEF FinishScan, WriteElsewhere, Return
    <2>3. \A j \in Invocations :
             /\ pc'[j] = "open" => pc[j] = "open"
             /\ pc'[j] \in {"insert", "destroy"} => pc'[j] = pc[j]
      BY <1>1, <2>2 DEF FileTypes, Goto
    <2> QED BY <2>1, <2>3 DEF OldFileInv, Writing, file
  <1>4. ASSUME NEW i \in Invocations, CheckExists(i) PROVE OldFileInv'
    BY <1>1, <1>4 DEF CheckExists, Conflict, FileTypes, Goto, Return, OldFileInv,
                     Writing, file
  <1>5. ASSUME NEW i \in Invocations, OpenFile(i) PROVE OldFileInv'
    BY <1>1, <1>5 DEF OpenFile, Truncate, FileTypes, Goto, Return, OldFileInv,
                     Writing, file
  <1>6. ASSUME NEW i \in Invocations, InsertText(i) \/ DestroyStream(i) \/ Killed(i)
        PROVE  OldFileInv'
    <2>1. UNCHANGED <<settings, exists, old, opened>>
      BY <1>6 DEF InsertText, DestroyStream, Killed
    <2>2. pc[i] \in {"insert", "destroy"} \/ data' = data
      BY <1>6 DEF InsertText, DestroyStream, Killed, Flushing
    <2>3. \E next \in {"destroy", "done", "killed"} : Goto(i, next)
      BY <1>6 DEF InsertText, DestroyStream, Killed, Return
    <2>4. \A j \in Invocations : pc'[j] = "open" => pc[j] = "open"
      BY <1>1, <2>3 DEF FileTypes, Goto
    <2>5. \A j \in Invocations : Writing(j)' => Writing(j)
      <3>1. pc'[i] = "destroy" => Writing(i)
        BY <1>1, <1>6 DEF InsertText, DestroyStream, Killed, FileTypes, Goto, Return, Writing
      <3> QED BY <1>1, <2>3, <3>1 DEF FileTypes, Goto, Writing
    <2>6. data' = data \/ i \in opened
      BY <2>2 DEF OldFileInv, Writing
    <2> QED BY <2>1, <2>4, <2>5, <2>6 DEF OldFileInv
  <1>7. CASE CreateFile
    BY <1>7 DEF CreateFile, OldFileInv, Writing
  <1>8. CASE UNCHANGED vars
    BY <1>8 DEF vars, OldFileInv, Writing
  <1> QED BY <1>2, <1>3, <1>4, <1>5, <1>6, <1>7, <1>8 DEF Next, Step, Terminated

(* write_output: while nobody with --force has opened it, a file that was  *)
(* there from the start is what it was, whatever fails or is killed.       *)
THEOREM OldFileStays == Spec => []OldFileProtected
  <1>1. OldFileInv /\ IInv => OldFileProtected
    <2> SUFFICES ASSUME OldFileInv, IInv, old, \A i \in opened : ~settings[i].force
                 PROVE  exists /\ data = <<Program>>
      BY DEF OldFileProtected
    <2>1. opened = {}
      BY DEF OldFileInv, IInv, FileTypes
    <2> QED BY <2>1 DEF OldFileInv
  <1>2. Spec => []OldFileInv
    BY OldFileInit, OldFileNext, FileInvariance, PTL DEF Spec
  <1> QED BY <1>1, <1>2, FileInvariance, PTL

-----------------------------------------------------------------------------
(* The line and what is made of it                                         *)

(* The settings of an invocation that was let through.                     *)
Taken(i) ==
    /\ ~Answered(line[i])
    /\ settings[i] = Settings(line[i])
    /\ settings[i].legal

(* Past the option loop an invocation has the settings of its line; it     *)
(* nears the file only if the line names it, and ends with 64 only if the  *)
(* line is at fault.                                                       *)
LineInv ==
    /\ line \in CommandLines
    /\ DOMAIN settings = Invocations
    /\ \A i \in Invocations :
          /\ pc[i] \notin {"start", "done", "killed"} \/ i \in opened => Taken(i)
          /\ pc[i] \in {"check", "open", "insert", "destroy"} \/ i \in opened =>
                settings[i].output = ThePath
          /\ pc[i] = "done" =>
                IF Answered(line[i]) THEN exit[i] = AnswerCode(line[i])
                ELSE exit[i] = Usage <=> ~Settings(line[i]).legal

LEMMA LineWords ==
    ASSUME LineInv, NEW i \in Invocations
    PROVE  line[i] \in Seq(STRING)
  BY LineAssumption DEF LineInv

LEMMA OptionWords ==
    ASSUME LineInv, NEW i \in Invocations, ~Answered(line[i])
    PROVE  Options(i) \in Seq(STRING)
  <1>1. line[i] \in Seq(STRING) /\ line[i] # <<>>
    BY LineWords DEF Answered
  <1> QED BY <1>1, HeadTailProperties DEF Options

(* What Settings makes of a line is what the line says.                    *)
LEMMA SettingsOfLine ==
    ASSUME LineInv, NEW i \in Invocations, ~Answered(line[i])
    PROVE  /\ Settings(line[i]).legal <=> Legal(i)
           /\ Settings(line[i]).legal =>
                /\ Settings(line[i]).target = Value(Options(i), "--target", "26.04")
                /\ Settings(line[i]).output = Value(Options(i), "--output", "")
                /\ Settings(line[i]).force = Given(Options(i), "--force")
                /\ Settings(line[i]).verbose = Given(Options(i), "--verbose")
                /\ Settings(line[i]).format = IF Head(line[i]) = "export" THEN "json"
                                              ELSE Value(Options(i), "--format", "text")
                /\ Settings(line[i]).target \in Targets
                /\ Settings(line[i]).format \in Formats
  <1> DEFINE seen == ReadOptions(Options(i))
             made == Settings(line[i])
             texts == {Options(i)[k] : k \in 1 .. Len(Options(i))} \cup {"26.04", "text", ""}
  <1>1. /\ seen \in [target : texts, format : texts, output : texts, force : BOOLEAN,
                     verbose : BOOLEAN, waiting : Valued \cup {""}, legal : BOOLEAN]
        /\ seen.legal <=> Understood(Options(i))
        /\ seen.legal => /\ seen.target = Value(Options(i), "--target", "26.04")
                         /\ seen.format = Value(Options(i), "--format", "text")
                         /\ seen.output = Value(Options(i), "--output", "")
                         /\ seen.force = Given(Options(i), "--force")
                         /\ seen.verbose = Given(Options(i), "--verbose")
    BY OptionWords, LoopReadsLine DEF Readings
  <1>2. made = [seen EXCEPT
                  !.legal = seen.legal /\ seen.target \in Targets /\ seen.format \in Formats,
                  !.format = IF Head(line[i]) = "export" /\ seen.legal /\ seen.format \in Formats
                             THEN "json" ELSE seen.format]
    BY DEF Settings, Options
  <1> HIDE DEF seen, made, texts
  <1>3. /\ made.legal <=> seen.legal /\ seen.target \in Targets /\ seen.format \in Formats
        /\ made.target = seen.target /\ made.output = seen.output
        /\ made.force = seen.force /\ made.verbose = seen.verbose
        /\ made.format = IF Head(line[i]) = "export" /\ seen.legal /\ seen.format \in Formats
                         THEN "json" ELSE seen.format
    BY <1>1, <1>2
  <1>4. Legal(i) <=> /\ Understood(Options(i))
                     /\ Value(Options(i), "--target", "26.04") \in Targets
                     /\ Value(Options(i), "--format", "text") \in Formats
    BY DEF Legal, Inspects
  <1>5. "json" \in Formats
    BY DEF Formats
  <1> QED BY <1>1, <1>3, <1>4, <1>5 DEF made

LEMMA LineInit == Init => LineInv
  BY DEF Init, LineInv

(* A step of an invocation that was let through.                           *)
LEMMA OnTheWay ==
    ASSUME IInv, LineInv, NEW i \in Invocations, UNCHANGED <<line, settings>>,
           pc[i] \notin {"start", "done", "killed"},
           NEW next \in Points \ {"start"}, Goto(i, next),
           next = "done" => \E code \in 0 .. 3 : Return(i, code),
           next # "done" => exit' = exit,
           opened' = opened \/ opened' = opened \cup {i},
           next \in {"check", "open", "insert", "destroy"} \/ opened' # opened =>
               settings[i].output = ThePath
    PROVE  LineInv'
  <1> USE DEF IInv
  <1>1. Taken(i) /\ i \in opened' => settings[i].output = ThePath
    BY DEF LineInv
  <1>2. /\ pc'[i] = next
        /\ \A j \in Invocations \ {i} : pc'[j] = pc[j] /\ exit'[j] = exit[j]
    BY DEF FileTypes, Goto, Return
  <1>3. Taken(i)
    BY DEF LineInv
  <1>4. next = "done" => exit'[i] # Usage /\ ~Answered(line[i]) /\ Settings(line[i]).legal
    BY <1>3 DEF Taken, FileTypes, Return, Usage
  <1>5. \A j \in Invocations : Taken(j)' <=> Taken(j)
    BY DEF Taken
  <1>6. \A j \in Invocations \ {i} : j \in opened' => j \in opened
    OBVIOUS
  <1> QED BY <1>1, <1>2, <1>3, <1>4, <1>5, <1>6 DEF LineInv

LEMMA LineNext == IInv /\ LineInv /\ [Next]_vars => LineInv'
  <1> SUFFICES ASSUME IInv, LineInv, [Next]_vars PROVE LineInv'
    OBVIOUS
  <1>1. FileTypes /\ OpenedInTurn
    BY DEF IInv
  <1>2. ASSUME NEW i \in Invocations, ParseArguments(i) PROVE LineInv'
    <2>1. i \notin opened /\ pc[i] = "start" /\ UNCHANGED <<line, opened>>
      BY <1>1, <1>2 DEF ParseArguments, OpenedInTurn, file
    <2>2. /\ DOMAIN settings' = Invocations
          /\ \A j \in Invocations \ {i} :
                pc'[j] = pc[j] /\ settings'[j] = settings[j] /\ exit'[j] = exit[j]
      BY <1>1, <1>2 DEF ParseArguments, FileTypes, Goto, Return, LineInv
    <2>3. \A j \in Invocations \ {i} : Taken(j)' <=> Taken(j)
      BY <2>1, <2>2 DEF Taken
    <2>4. CASE Answered(line[i])
      <3>1. pc'[i] = "done" /\ exit'[i] = AnswerCode(line[i])
        BY <1>1, <1>2, <2>4 DEF ParseArguments, Return, Goto, FileTypes
      <3> QED BY <2>1, <2>2, <2>3, <2>4, <3>1 DEF LineInv
    <2>5. CASE ~Answered(line[i]) /\ Settings(line[i]).legal
      <3>1. settings'[i] = Settings(line[i]) /\ pc'[i] = "scan"
        BY <1>1, <1>2, <2>5 DEF ParseArguments, Goto, FileTypes, LineInv
      <3>2. Taken(i)'
        BY <2>1, <2>5, <3>1 DEF Taken
      <3> QED BY <2>1, <2>2, <2>3, <3>1, <3>2 DEF LineInv
    <2>6. CASE ~Answered(line[i]) /\ ~Settings(line[i]).legal
      <3>1. pc'[i] = "done" /\ exit'[i] = Usage
        BY <1>1, <1>2, <2>6 DEF ParseArguments, Return, Goto, FileTypes, LineInv
      <3> QED BY <2>1, <2>2, <2>3, <2>6, <3>1 DEF LineInv
    <2> QED BY <2>4, <2>5, <2>6
  <1>3. ASSUME NEW i \in Invocations, FinishScan(i) PROVE LineInv'
    <2>1. CASE Return(i, 3)
      BY <1>3, <2>1, Ending, OnTheWay DEF FinishScan, file
    <2>2. CASE exit' = exit /\ Goto(i, IF settings[i].output = ThePath
                                       THEN "check" ELSE "elsewhere")
      BY <1>3, <2>2, OnTheWay DEF FinishScan, file
    <2> QED BY <1>3, <2>1, <2>2 DEF FinishScan
  <1>4. ASSUME NEW i \in Invocations, WriteElsewhere(i) PROVE LineInv'
    <2>1. verdict[i] \in 0 .. 3 /\ 3 \in 0 .. 3
      BY <1>1 DEF FileTypes
    <2>2. Goto(i, "done") /\ \E code \in 0 .. 3 : Return(i, code)
      BY <1>4, <2>1, Ending DEF WriteElsewhere
    <2> QED BY <1>4, <2>2, OnTheWay DEF WriteElsewhere, file
  <1>5. ASSUME NEW i \in Invocations, CheckExists(i) PROVE LineInv'
    <2>1. settings[i].output = ThePath
      BY <1>5 DEF CheckExists, LineInv
    <2>2. CASE Return(i, 3)
      BY <1>5, <2>2, Ending, OnTheWay DEF CheckExists, file
    <2>3. CASE Goto(i, "open") /\ exit' = exit
      BY <1>5, <2>1, <2>3, OnTheWay DEF CheckExists, file
    <2> QED BY <1>5, <2>2, <2>3 DEF CheckExists
  <1>6. ASSUME NEW i \in Invocations, OpenFile(i) PROVE LineInv'
    <2>1. settings[i].output = ThePath
      BY <1>6 DEF OpenFile, LineInv
    <2>2. CASE Return(i, 3) /\ UNCHANGED file
      BY <1>6, <2>2, Ending, OnTheWay DEF OpenFile, file
    <2>3. CASE Goto(i, "insert") /\ Truncate(i) /\ exit' = exit
      BY <1>6, <2>1, <2>3, OnTheWay DEF OpenFile, Truncate
    <2> QED BY <1>6, <2>2, <2>3 DEF OpenFile
  <1>7. ASSUME NEW i \in Invocations, InsertText(i) PROVE LineInv'
    <2>1. settings[i].output = ThePath
      BY <1>7 DEF InsertText, LineInv
    <2>2. CASE Return(i, 3)
      BY <1>7, <2>2, Ending, OnTheWay DEF InsertText
    <2>3. CASE Goto(i, "destroy") /\ exit' = exit
      BY <1>7, <2>1, <2>3, OnTheWay DEF InsertText
    <2> QED BY <1>7, <2>2, <2>3 DEF InsertText
  <1>8. ASSUME NEW i \in Invocations, DestroyStream(i) PROVE LineInv'
    <2>1. verdict[i] \in 0 .. 3
      BY <1>1 DEF FileTypes
    <2>2. Goto(i, "done") /\ \E code \in 0 .. 3 : Return(i, code)
      BY <1>8, <2>1, Ending DEF DestroyStream
    <2> QED BY <1>8, <2>2, OnTheWay DEF DestroyStream
  <1>9. ASSUME NEW i \in Invocations, Killed(i) PROVE LineInv'
    BY <1>9, OnTheWay DEF Killed
  <1>10. CASE CreateFile
    BY <1>10 DEF CreateFile, LineInv, Taken
  <1>11. CASE UNCHANGED vars
    BY <1>11 DEF vars, LineInv, Taken
  <1> QED BY <1>2, <1>3, <1>4, <1>5, <1>6, <1>7, <1>8, <1>9, <1>10, <1>11
          DEF Next, Step, Terminated

LEMMA LineInvariance == Spec => []LineInv
  BY LineInit, LineNext, FileInvariance, PTL DEF Spec

(* CliApplication: an invocation that inspects the machine does what its   *)
(* line says, whatever the line is.                                        *)
THEOREM LinesReadAsWritten == Spec => []ReadAsWritten
  <1>1. LineInv => ReadAsWritten
    BY SettingsOfLine DEF LineInv, Taken, ReadAsWritten
  <1> QED BY <1>1, LineInvariance, PTL

(* cli::run: code 64 is for lines at fault and for nothing else, and only a*)
(* line that is legal and names the file opens it.                         *)
THEOREM UsageTellsOfTheLine == Spec => []UsageIsTheLine
  <1>1. ASSUME LineInv, NEW i \in Invocations, pc[i] = "done"
        PROVE  exit[i] = Usage <=> ~Legal(i)
    <2>1. CASE Answered(line[i])
      BY <1>1, <2>1, Codes DEF LineInv, Legal, Inspects, Usage
    <2>2. CASE ~Answered(line[i])
      BY <1>1, <2>2, SettingsOfLine DEF LineInv
    <2> QED BY <2>1, <2>2
  <1>2. ASSUME LineInv, NEW i \in Invocations, i \in opened
        PROVE  Legal(i) /\ Value(Options(i), "--output", "") = ThePath
    BY <1>2, SettingsOfLine DEF LineInv, Taken
  <1>3. LineInv => UsageIsTheLine
    BY <1>1, <1>2 DEF UsageIsTheLine
  <1> QED BY <1>3, LineInvariance, PTL

(* write_output and the option loop together: without --force as an option *)
(* in the line of one who opened it, a file that was there before is what  *)
(* it was.                                                                 *)
THEOREM OldFileOutlives == Spec => []OldFileKept
  <1>1. OldFileProtected /\ LineInv /\ IInv => OldFileKept
    <2> SUFFICES ASSUME OldFileProtected, LineInv, IInv, old,
                        \A i \in opened : ~Given(Options(i), "--force")
                 PROVE  exists /\ data = <<Program>>
      BY DEF OldFileKept
    <2>1. \A i \in opened : ~settings[i].force
      BY SettingsOfLine DEF LineInv, Taken, IInv, FileTypes
    <2> QED BY <2>1 DEF OldFileProtected
  <1> QED BY <1>1, OldFileStays, LineInvariance, FileInvariance, PTL

-----------------------------------------------------------------------------
(* Files that were found                                                   *)

(* The path names a file, and this invocation is not, and never was, past  *)
(* the check.                                                              *)
Refused(i) ==
    /\ exists /\ Unforced(i)
    /\ i \notin opened /\ pc[i] \notin {"open", "insert", "destroy"}

LEMMA RefusedStays ==
    ASSUME IInv, LineInv, NEW i \in Invocations, Refused(i), [Next]_vars
    PROVE  Refused(i)'
  <1>1. FileTypes
    BY DEF IInv
  <1>2. line' = line /\ Unforced(i)'
    BY DEF Next, Step, Terminated, ParseArguments, FinishScan, WriteElsewhere, CheckExists,
           OpenFile, InsertText, DestroyStream, Killed, CreateFile, vars, Refused, Unforced,
           Inspects, Options
  <1>3. exists'
    BY DEF Next, Step, Terminated, ParseArguments, FinishScan, WriteElsewhere, CheckExists,
           OpenFile, Truncate, InsertText, DestroyStream, Killed, CreateFile, vars, file, Refused
  <1>4. pc[i] = "check" => Conflict(i)
    BY SettingsOfLine DEF LineInv, Taken, Refused, Unforced, Inspects, Conflict
  <1>5. i \notin opened' /\ pc'[i] \notin {"open", "insert", "destroy"}
    <2>1. ASSUME NEW j \in Invocations, Step(j) \/ Killed(j), j # i
          PROVE  pc'[i] = pc[i] /\ (i \in opened' => i \in opened)
      BY <1>1, <2>1 DEF Step, ParseArguments, FinishScan, WriteElsewhere, CheckExists,
             OpenFile, Truncate, InsertText, DestroyStream, Killed, FileTypes, Goto, Return, file
    <2>2. ASSUME Step(i) \/ Killed(i)
          PROVE  opened' = opened /\ pc'[i] \notin {"open", "insert", "destroy"}
      BY <1>1, <1>4, <2>2 DEF Step, ParseArguments, FinishScan, WriteElsewhere, CheckExists,
             OpenFile, InsertText, DestroyStream, Killed, FileTypes, Goto, Return, file, Refused
    <2>3. CASE CreateFile \/ UNCHANGED vars
      BY <2>3 DEF CreateFile, vars, Refused
    <2> QED BY <2>1, <2>2, <2>3 DEF Next, Terminated, Refused
  <1> QED BY <1>2, <1>3, <1>5 DEF Refused

(* write_output: whoever made the file, an invocation that finds it in its *)
(* way does not open it without --force in its line, now or later.         *)
THEOREM FoundFileIsRefused == Spec => FoundFileRefused
  <1>1. ASSUME NEW i \in Invocations
        PROVE  Spec => [](exists /\ StillToLook(i) /\ Unforced(i) => [](i \notin opened))
    <2>1. IInv /\ exists /\ StillToLook(i) /\ Unforced(i) => Refused(i)
      BY DEF IInv, OpenedInTurn, StillToLook, Refused
    <2>2. IInv /\ LineInv /\ Refused(i) /\ [Next]_vars => Refused(i)'
      BY RefusedStays
    <2>3. Refused(i) => i \notin opened
      BY DEF Refused
    <2> QED BY <2>1, <2>2, <2>3, FileInvariance, LineInvariance, PTL DEF Spec
  <1> QED BY <1>1 DEF FoundFileRefused

-----------------------------------------------------------------------------
(* Types                                                                   *)

(* The file has content only if it exists, and it exists once opened.      *)
DataInv ==
    /\ exists \in BOOLEAN
    /\ old \in BOOLEAN
    /\ data \in Seq(Invocations \cup {Program})
    /\ ~exists => data = <<>> /\ opened = {}
    /\ \A i \in Invocations : Writing(i) => i \in opened

LEMMA WrittenType ==
    ASSUME data \in Seq(Invocations \cup {Program}), NEW i \in Invocations, NEW n \in Nat
    PROVE  Written(i, n) \in Seq(Invocations \cup {Program})
  <1> DEFINE length == IF n > Len(data) THEN n ELSE Len(data)
  <1>1. length \in Nat
    OBVIOUS
  <1>2. \A k \in 1 .. length :
           (IF k <= n THEN i ELSE data[k]) \in Invocations \cup {Program}
    <2>1. \A k \in 1 .. Len(data) : data[k] \in Invocations \cup {Program}
      OBVIOUS
    <2>2. \A k \in 1 .. length : k <= n \/ k \in 1 .. Len(data)
      OBVIOUS
    <2> HIDE DEF length
    <2> QED BY <2>1, <2>2
  <1> HIDE DEF length
  <1>3. [k \in 1 .. length |-> IF k <= n THEN i ELSE data[k]]
           \in Seq(Invocations \cup {Program})
    BY <1>1, <1>2, IsASeq
  <1> QED BY <1>3 DEF Written, length

LEMMA DataNext == IInv /\ DataInv /\ [Next]_vars => DataInv'
  <1> SUFFICES ASSUME IInv, DataInv, [Next]_vars PROVE DataInv'
    OBVIOUS
  <1>1. FileTypes
    BY DEF IInv
  <1>2. ASSUME NEW i \in Invocations,
               ParseArguments(i) \/ FinishScan(i) \/ WriteElsewhere(i) \/ CheckExists(i)
        PROVE  DataInv'
    <2>1. UNCHANGED <<exists, data, old, opened>>
      BY <1>2 DEF ParseArguments, FinishScan, WriteElsewhere, CheckExists, file
    <2>2. \E next \in Points \ {"insert", "destroy"} : Goto(i, next)
      BY <1>2 DEF ParseArguments, FinishScan, WriteElsewhere, CheckExists, Return
    <2>3. \A j \in Invocations : Writing(j)' => Writing(j)
      BY <1>1, <2>2 DEF FileTypes, Goto, Writing
    <2> QED BY <2>1, <2>3 DEF DataInv
  <1>3. ASSUME NEW i \in Invocations, OpenFile(i) PROVE DataInv'
    <2>1. CASE Return(i, 3) /\ UNCHANGED file
      BY <1>1, <1>3, <2>1 DEF OpenFile, FileTypes, Return, Goto, Writing, DataInv, file
    <2>2. CASE Goto(i, "insert") /\ Truncate(i)
      <3>1. <<>> \in Seq(Invocations \cup {Program})
        OBVIOUS
      <3> QED BY <1>1, <1>3, <2>2, <3>1
              DEF OpenFile, Truncate, FileTypes, Goto, Writing, DataInv
    <2> QED BY <1>3, <2>1, <2>2 DEF OpenFile
  <1>4. ASSUME NEW i \in Invocations, InsertText(i) \/ DestroyStream(i) \/ Killed(i)
        PROVE  DataInv'
    <2>1. UNCHANGED <<exists, old, opened>> /\ size[i] \in Nat
      BY <1>1, <1>4, SizesAreNumbers DEF InsertText, DestroyStream, Killed, FileTypes
    <2>2. data' = data \/ (Writing(i) /\ \E n \in Nat : data' = Written(i, n))
      BY <1>4, <2>1 DEF InsertText, DestroyStream, Killed, Flushing, Writing
    <2>3. data' \in Seq(Invocations \cup {Program})
      BY <2>2, WrittenType DEF DataInv
    <2>4. data' = data \/ exists
      BY <2>2 DEF DataInv
    <2>5. \A j \in Invocations : Writing(j)' => Writing(j)
      BY <1>1, <1>4, <2>1
         DEF InsertText, DestroyStream, Killed, FileTypes, Goto, Return, Writing
    <2> QED BY <2>1, <2>3, <2>4, <2>5 DEF DataInv
  <1>5. CASE CreateFile
    <2>1. <<Program>> \in Seq(Invocations \cup {Program})
      OBVIOUS
    <2> QED BY <1>5, <2>1 DEF CreateFile, DataInv, Writing
  <1>6. CASE UNCHANGED vars
    BY <1>6 DEF vars, DataInv, Writing
  <1> QED BY <1>2, <1>3, <1>4, <1>5, <1>6 DEF Next, Step, Terminated

(* Every state of the model has the types it is meant to have; in          *)
(* particular only known releases and formats reach the scan.              *)
THEOREM FileTypeCorrect == Spec => []TypeOK
  <1>1. Init => DataInv
    <2>1. {<<>>, <<Program>>} \subseteq Seq(Invocations \cup {Program})
      OBVIOUS
    <2>2. Init => data \in {<<>>, <<Program>>}
      BY DEF Init
    <2>3. Init => \A i \in Invocations : ~Writing(i)
      BY DEF Init, Writing
    <2> QED BY <2>1, <2>2, <2>3 DEF Init, DataInv
  <1>2. Spec => []DataInv
    BY <1>1, DataNext, FileInvariance, PTL DEF Spec
  <1>3. ASSUME DataInv, LineInv, IInv PROVE TypeOK
    <2>1. DOMAIN line = Invocations
      BY <1>3, LineAssumption DEF LineInv
    <2>2. \A i \in Invocations :
             pc[i] \in Points \ {"start", "done", "killed"} =>
                settings[i].target \in Targets /\ settings[i].format \in Formats
      BY <1>3, SettingsOfLine DEF LineInv, Taken
    <2> QED BY <1>3, <2>1, <2>2 DEF TypeOK, DataInv, IInv, FileTypes
  <1> QED BY <1>2, <1>3, LineInvariance, FileInvariance, PTL

=============================================================================
