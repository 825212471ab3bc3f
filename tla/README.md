# Upgrade Guard in TLA+

Upgrade Guard inspects an Ubuntu machine without changing it and says whether a
release upgrade can go ahead: exit code 0 ready, 1 ready with warnings, 2 blocked,
3 incomplete evidence or operational error, 64 usage error. This directory holds
TLA+ models of the program, TLC configurations that check them and proofs for
TLAPS. Paths below are relative to the repository.

## 1. Inventory

| Component | Source | State | Operations | Module here |
| --- | --- | --- | --- | --- |
| process runner | `src/infrastructure/PosixProcessRunner.cpp` | pipes, child, output so far, deadline | `run` | `ProcessRunner`, `Descriptors` |
| process port | `include/upgrade_guard/ports/IProcessRunner.hpp` | answer to a call | `run` as callers see it | `ProcessContract` |
| scan service, composition root | `src/application/ScanService.cpp`, `src/cli/CompositionRoot.cpp` | snapshot, issues, findings | `execute`, `aggregate` | `Scan`, `Readiness` |
| nine collectors | `modules/*/*Collector.cpp` | one part of the snapshot each | `collect` | `Scan`; the source parser in `Sources`, the simulation's text in `AptOutput` |
| eighteen rules | `modules/*/*Rules.cpp` | none | `evaluate` | `Readiness` |
| command line | `src/cli/CliApplication.cpp` `run` | options | dispatch, option loop | `CommandLine`, `ReportFile` |
| report file | `src/cli/CliApplication.cpp` `write_output`, end of `run` | the file | check, open, write, exit | `ReportFile` |
| reporters | `src/reporting/TextReporter.cpp`, `JsonReporter.cpp` | none | `format` | `Reports`, in `Scan` |
| redaction | `src/reporting/Redaction.cpp` | none | `redact_sensitive` | no |
| packaging, scripts, schemas | several | - | - | no |

The command line builds the object graph, calls `ScanService::execute`, which calls
each collector in a fixed order on one snapshot, then each rule on the finished
snapshot; five collectors call the process runner, one at a time. The report is
formatted and written, and the verdict becomes the exit code. There are no threads:
what runs concurrently is outside the process - the command being run and what it
forks, the kernel, the clock, other programs and other invocations in the filesystem.

What is hard, and therefore what the properties are about:

* **The runner against its child.** The order of writes, exits, forks, polls, reads,
  `waitpid` and the deadline is arbitrary. Correct means: bounded exact output, an
  honest truncation flag, no leaked descriptor or zombie on any return path, no
  signal to a foreign process, a return in every case.
* **Missing evidence.** Nearly everything a collector does may fail: start, time out,
  be cut off, exit with an error, throw. Defaults in the snapshot look healthy.
  Correct means: no false readiness and no false alarm.
* **The report file.** Check-then-open on a shared filesystem, buffering, full disks,
  kills. Correct means: files are protected and an exit code means a written report.
* **The command line.** Words that are options or values depending on what stands
  before them. Correct means: read as written, and nothing is inspected or written for
  a line that is at fault.
* **The report** counts and filters on its own. Correct means: it explains the exit code.
* **Source files** in an arbitrary order, in two formats, with state carried from
  line to line. Correct means: the same facts whatever the order.

`PROJECT.json` lists the hazards one by one with their lines and the properties
that catch them.

## 2. Modules

| Module | What it is |
| --- | --- |
| `ProcessContract` | abstract: what `IProcessRunner::run` promises |
| `Descriptors` | the numbers of the pipes' ends and the child's table of them |
| `ProcessRunner` | one call of `run`, the command, a descendant, the clock; extends `Descriptors` |
| `ProcessRunnerProofs` | its theorems |
| `MCProcessRunner` | values for `ProcessRunner.cfg`, `LostTail.cfg`, `Flood.cfg` |
| `Readiness` | rules, aggregation, exit code as operators on a snapshot |
| `AptOutput` | what `apt-get --simulate` prints and `parse_section` reads |
| `Reports` | counts, filter and characters of the two reports |
| `Scan` | the collectors in their order, evidence beside truth, the report; extends the three above |
| `ScanProofs` | its theorems |
| `MCScan` | values for `Scan.cfg` and four configurations of findings |
| `Sources`, `MCSources` | the parser of APT source files; what the files declare, said without an order |
| `SourcesProofs` | its theorems |
| `CommandLine` | dispatch and option loop; what a line means, said without a loop |
| `CommandLineProofs` | that the loop reads what the line says |
| `LeastNumbers` | induction over lines and words, for `SourcesProofs` and `CommandLineProofs` |
| `ReportFile`, `MCReportFile` | invocations from the command line to the exit code, at one output path; extends `CommandLine` |
| `ReportFileProofs` | its theorems |

An operator right above the definition it resembles (`AppendUnlimited` above
`AppendLimited`, `PipeFailedLeaking` above `PipeFailed`, `ConflictWithForce` above
`Conflict`, ...) is a plausible wrong version of it. No specification uses these;
substituting one for its neighbour makes the property named in `PROJECT.json` fail,
which shows that the property can see the mistake.

### ProcessRunner

`pc` is the place in `run`. Each action is the code up to the next system call whose
result depends on another process: `OpenOutPipe`, `OpenErrPipe`, `SpawnChild`,
`CloseWriteEnds`, then the loop `Poll`, `DrainOut`, `DrainErr`, `TryWait`,
`CheckDeadline`, and on a timeout `Kill`, `Reap`; `CloseReadEnds` ends it. `fds` are
the pipe ends the parent holds, `text` and `truncated` are counted per stream by
`append_limited`. `answer` is the result being built: `error` is a `domain::Error`,
`spawn_failed`, `timed_out`, or how the command ended.

The command (external, modelled from what the code must cope with) may write in
pieces of any size that fits the pipe, close a stream, fork a descendant that
inherits its open streams, exit in any way at any time - with success only after all
of its output - or hang. SIGKILL reaches the command only. If the tool was started
with SIGCHLD ignored (`autoReap`) the kernel reaps the child and `waitpid` finds none.
The clock is `early`, in the last millisecond (where `poll` does not wait: whole
milliseconds are left) or `late`.

`closed` says which standard descriptors the tool was started without. `Descriptors`
gives the four ends their numbers (always the lowest free ones), copies and closes them
as `spawn_child` does, and `Connected` says whether a stream of the command leads into
its pipe. The result: with 1 missing the command's standard output is lost, with 2
missing its standard error (the copy lands on the number of an end, which is closed
right after); a missing 0 does no harm. `OutputDelivered` - a command that answers 0
has its whole output on its way - is therefore stated for a tool that has 1 and 2, and
what is lost without them is the hazard at `PosixProcessRunner.cpp:92`.

Left out: argument vector and environment, the allowlist as names (it is one way for
`SpawnChild` to answer `spawn_failed`), interrupted system calls (no handler is
installed), failing `fcntl`.

### Readiness and Scan

`Readiness` has one operator per rule; a finding is its status. `collector_complete`
is cleared by a rule exactly where it answers unknown, so aggregation needs the status
only. Facts that no rule reads (upgradable packages, `/var`, names, versions) are left
out.

`Scan` runs the collectors in the order of the composition root. Each action meets a
part of the machine in some condition and an answer of each command drawn from
`Answers`: an error, a failed start, a timeout or failure with any part of the output, a
success cut off by the limit, a success. `evidence` is the snapshot of the code,
`truth` the same record for the machine as it was when looked at, `blind` what could
not be had. `Throw` is a filesystem exception, which nothing below `cli::run` catches.
`TailCanBeLost` lets a successful answer lack lines without any mark, which is what
`lost_tail` shows of the runner: so the scan is checked with the runner as it is.
`Epochs` says where `file_time_type{}` may lie; the standard leaves it open.

The answers of most commands are sets of lines, of which any may be missing
(`AnswersOf`). That of `apt-get` is a text whose end may be missing (`AnswersIn`), also
within a name, of which the beginning may be the name of another package: `Section`
reads it line by line. `CollectPlatform` starts from what `os-release` names.
`CollectKernel` knows that `linux-image-*` matches meta packages.

`Conclude` evaluates the rules, aggregates and lets either reporter format the report,
verbose or not; `printed` is what the reader gets: the counts, the findings listed, the
issues and the characters that evidence brought in.

Not part of the model: a machine that changes during the scan (each fact is looked at
once), and lines other than names of packages that are cut in the middle - a cut line
in `dkms status` comes with an issue and cannot look better than unknown.

### Sources

A line is its kind and its words. `InspectLine` is one line of a `.list` file,
`ReadStanzaLine` one line of a `.sources` file, `EndFile` the end of either; `NextFile`
takes any file of the directory not yet read. The properties compare the result with
`Enabled`, the sources the files declare, said without an order: each stands at a place
(`Places`: the main list, or a name in the directory) and a line; `StanzaBounds` says
where a stanza lies in its file and `Value` what a field holds, its last occurrence with
the indented lines after it. A file that cannot be opened belongs to `Scan`.

Two details of the code a reader may stumble on: a line that begins with `deb` and a tab
is not an entry (`inspect_line` asks for a space), and where `dkms` is not installed
UG-DKM-001 is unknown, since the command cannot be started.

### CommandLine and ReportFile

A line is a sequence of words. `Reading` is what the loop has read after each of them
(`ReadWord`, one turn of the loop) and `ReadOptions` what it has read in the end,
with `waiting` for the option whose value comes next. `Settings` adds the validation and
that `export` writes JSON; `Answered` and `AnswerCode` are the commands that inspect
nothing. `IsValue`, `Understood`, `Given` and `Value` say what a line means without a
loop: a word is a value if an unbroken row of odd length of `--target`, `--format` and
`--output` stands before it.

`ReportFile` takes each invocation from there: `ParseArguments`, `FinishScan` (a verdict
and a report of some length, or an exception), then `CheckExists`, `OpenFile`,
`InsertText`, `DestroyStream` for the path `FILE` or `WriteElsewhere` for standard output
and other files, and `Killed` anywhere after the start: between two steps, or where the
text goes to the file (`Flushing`), with any part of it written. The file is the sequence
of the authors of its bytes, written from the start by each writer at its own offset. A
text shorter than the stream's buffer reaches the file in the destructor only. `CreateFile`
is another program. An invocation begins when it likes, so the second one may be the
retry after the first was killed; `sole` remembers the last opener that had the file for
itself.

## 3. Runs

| Run | Bounds | Shows |
| --- | --- | --- |
| `process_runner` | limit 1, buffer 2, pipe 2, up to 3 bytes on one stream and 1 on the other; all standard descriptors, or without 0, or without 1 | `TypeOK`, `OutputExact`, `OutputDelivered`, `NothingLeftBehind`, `KillsOwnChild`, `Returns`, the inductive invariant `IInv`, refinement of `ProcessContract` |
| `scan` | at most 2 deviations per scan, either epoch, tails may be lost | `NeverBetterThanTruth`, `BlockedIsReal`, `GapsPreventReady`, `HealthyIsReady`, `ReportExplainsExit`, the inductive invariant `IInv` |
| `sources` | every `.sources` text of 5 lines of 7 kinds, one `.list` file, `sources.list` with or without an entry | `ThirdPartyExact`, `DuplicatesExact`, the inductive invariant `IInv` |
| `report_file` | two invocations, reports of 1, 2 and 3 bytes with a buffer of 2, one other program; any line of up to 3 words out of 10 (4 out of 4) beside an idle invocation, three writing lines against each other | `ReadAsWritten`, `UsageIsTheLine`, `OldFileKept`, `FoundFileRefused`, `ReportedIsWritten`, the inductive invariant `IInv` |
| eight violation runs | - | the findings of section 5 |

Why the bounds are enough. *Runner:* three bytes against a limit of one, a buffer and a
pipe of two make a read below, at and above the limit, a read after it, a full pipe that
blocks its writer, and a drain of more than one read; the theorems hold for all sizes.
*Scan:* the verdict is a function of eighteen statuses and of the issues; a false verdict
needs something wrong that is not seen, hence one unhealthy fact and one gap, and a
second fact or gap to hide either. *Sources:* five lines hold two stanzas, one of them
with a second field. *Report file:* two invocations are the fewest that race or retry;
the sizes lie on both sides of the buffer, and two of them above it, so that a report can
be shorter than the rubble it replaces. A value that looks like an option, an option
twice and one at the end of the line take two to four words. *Scan, texts:* the
simulation names at most one essential and one other package, in either order.

Unnamed bounds: a command forks one descendant at a time; output is bounded by `Plans`
except on `Endless` streams, whose backlog is always what `Plans` says.

**Fairness.** `ProcessRunner`: weak fairness of the runner's own steps (the scheduler
runs the process), of `Tick` (time passes) and of `DieKilled` (the kernel delivers
SIGKILL). The command and its descendant have none: they may hang. `ReportFile`, `Scan`
and `Sources` have no liveness property and no fairness. In `ReportFile` none would be
justified: a user need not begin, and the scan need not end, as the `flood` run shows.

**Deadlock** is checked everywhere; `Terminated` lets a finished behaviour stutter.

## 4. Proofs

`ProcessRunnerProofs` proves, for every `Limit`, `BufSize`, `PipeCap`, `Plans`,
`Endless` and `ClosedSets` allowed by the assumptions of `ProcessRunner`:

| Theorem | Statement |
| --- | --- |
| `TypeCorrect` | `Spec => []TypeOK` |
| `Invariance` | `Spec => []IInv` |
| `ExactOutput` | `Spec => []OutputExact` |
| `NoLeak` | `Spec => []NothingLeftBehind` |
| `SignalsOwnChild` | `Spec => KillsOwnChild` |
| `Delivery` | `Spec => []OutputDelivered` |
| `Refinement` | `Spec => KeepsContract` |

The assumptions are `SizeAssumption` (sizes are naturals; buffer and pipe are not
empty), `PlanAssumption`, `EndlessAssumption` and `ClosedAssumption`.

`NothingLeftBehind` is not inductive: it speaks of the last moment only. `Lifecycle`
says for every value of `pc` which ends are open, whether a process exists and whether
the answer is known, and implies it at `done`. `KillsOwnChild` follows from its last
part: a child whose status was collected means that `pc` has left the loop.
`OutputExact` needs `todo + pipe <= plan` to make sense of the subtraction in
`Consumed`. The refinement needs `CutOnlyWhenFull` beside: a stream marked as cut never
grows again. `IInv` is the conjunction. Each part is preserved separately: type
correctness by actions of the runner and of the environment, `Lifecycle` likewise,
`OutputExact` from two lemmas, one on moving bytes from `todo` to `pipe` and one on
moving them from `pipe` to `text`. For the refinement each action is shown to be a step
of the contract or a stutter under the mapping in `Contract`.

`Delivery` rests on lemmas about `Descriptors`: which numbers the four ends get with and
without descriptor 0 (`EndsNumbered`), hence that both copies land on their streams and
survive the closing (`OutputConnected`). Its invariant `NothingUnsaid` says that a command
that ended with success has nothing left to write; `Lifecycle` gives the rest.

`ReportFileProofs` proves, for any set of `Invocations`, every set of lines, all `Sizes`
and every `Buffer` allowed by `LineAssumption` and `SizesAssumption` (reports are not
empty):

| Theorem | Statement |
| --- | --- |
| `FileInvariance` | `Spec => []IInv` |
| `ReportInFile` | `Spec => []ReportedIsWritten` |
| `OldFileStays` | `Spec => []OldFileProtected` |
| `LinesReadAsWritten` | `Spec => []ReadAsWritten` |
| `UsageTellsOfTheLine` | `Spec => []UsageIsTheLine` |
| `OldFileOutlives` | `Spec => []OldFileKept` |
| `FoundFileIsRefused` | `Spec => FoundFileRefused` |
| `FileTypeCorrect` | `Spec => []TypeOK` |

`ReportedIsWritten` is not inductive: it speaks of an invocation that has ended, and says
neither what the file held before the last write nor that nobody else can write. `IInv`
adds `FileTypes`; `OpenedInTurn`: who has opened the file is writing it or finished;
`NoOtherWriter`: an invocation that had the file for itself when it opened it is the only
one that writes; `ContentSoFar`: what the file holds at each of its points; and
`CodeAtTheEnd`: nobody has an exit code before the end. Each action has a lemma of its
own. `OldFileStays` needs one more invariant, `OldFileInv`: whoever passed the check of an
old file carries `force`.

The last five join the file with the command line. `LineInv` says that an invocation past
the option loop, or one that opened the file, has the settings the loop made of its line,
that only one whose settings name the file comes near it, and that an ended one has code
64 exactly where its line was refused. `FoundFileIsRefused` speaks of two moments; the
predicate `Refused` holds from the first one on and is kept by every step
(`RefusedStays`). It leaves out the race of the `clobber` run: there the invocation had
looked before the file appeared. What the loop makes of a line is the theorem
`LoopReadsLine` of `CommandLineProofs`: for every sequence of words the recursion over the
words agrees with `Understood`, `Value` and `Given`, which look at the line as a whole.
The library's induction theorems take an operator as parameter and cannot be used here;
`UpTo` of `LeastNumbers` does their work: a set of numbers up to `n` that holds 0 and,
with each number, the next is all of `0 .. n`, because otherwise there would be a least
number missing (`LeastElement`). `ReadingExists` shows with it that the recursive definition defines a
function, `AlwaysReads` that after `k` words the loop has read what the first `k` words
say (`Reads`). The step rests on `ValueFollows`: a word is a value if and only if the word
before it takes one and is no value itself.

`ScanProofs` proves, for any `MaxDeviations`, any `Epochs` and either `TailCanBeLost`
allowed by the assumptions of `Scan` (`DeviationAssumption`, `EpochAssumption`,
`TailAssumption`):

| Theorem | Statement |
| --- | --- |
| `ScanInvariance` | `Spec => []IInv` |
| `ScanTypeCorrect` | `Spec => []TypeOK` |
| `NeverFalselyReady` | `Spec => []NeverBetterThanTruth` |
| `NoFalseAlarm` | `Spec => []BlockedIsReal` |
| `GapsShow` | `Spec => []GapsPreventReady` |
| `HealthyReady` | `Spec => []HealthyIsReady` |
| `ReportTellsWhy` | `Spec => []ReportExplainsExit` |

All of these speak of the end of a scan, so none is inductive. `IInv` follows the snapshot
from collector to collector: `Agreement` says for each part already collected how far what
was seen may be from what was real, given the gaps in `blind`; `Accounted` that every gap
other than the `Holes` belongs to a collector that has run (`Own`) and has left an issue
or shows in what was seen (`Tells`), where a rule will find it; `Unharmed` that without
deviations there is nothing but the healthy machine; `Outcome` that exit code and report
are those of the snapshot; `Shape` is the types. Each collector has a lemma that it is
`Sound`: its own part fits and its gaps are accounted for. The remaining steps are about
the rules: if evidence fits truth, no finding is better than the truth allows
(`NeverFalselyReady`) and no blocker is invented (`NoFalseAlarm`). The lemmas about
`AptOutput` say for a text of any order what `Section` finds in it and in each of its
beginnings; those about `Reports` that its counts are the sizes of the sets of findings it
lists.

One thing was learnt from the proof: `GapsPreventReady` does not follow for gaps of
"dpkg" or "storage" as a whole. No step of the model makes one - their commands and mounts
fail one by one - so these two are no `Evidence` of their own.

`SourcesProofs` proves, for every `MainLists` and `Directories` allowed by
`InputAssumption` (a list file holds lines of a list, a `.sources` file lines of stanzas,
as many as there may be):

| Theorem | Statement |
| --- | --- |
| `SourcesInvariance` | `Spec => []IInv` |
| `SourcesTypeCorrect` | `Spec => []TypeOK` |
| `ThirdPartyReported` | `Spec => []ThirdPartyExact` |
| `DuplicatesReported` | `Spec => []DuplicatesExact` |

The last two speak of the end, when every file was read; `IInv` of any moment. `Noted(S)`
says what the facts are once the sources in `S` were met, in whatever order: for each
kind one entry less among the duplicates than sources in `S`. Between two files `S` is
what the files of `Met` declare (`BetweenFiles`). Within a file, after `n` lines, with
the open stanza beginning at line `s` (`InFile`), it is what the other files of `Met`
declare and what begins before line `s` in this one, and `StanzaSoFar` relates the stanza
and its key to lines `s` to `n`: for every field that is read later, whether it was set,
its value as the reference definition has it, and whether an indented line would go on
with it. What is kept under another name never matters, so nothing is said of it.

The lemmas follow this division. `FieldRead` and `MoreRead` say what one more line makes
of the value of a field; they rest on `GatheredExists`, which shows with `UpTo` that the
words of a field, defined recursively over its lines, exist. `StanzaMore` and
`ListLineMore` say which sources begin before a later line, from `StretchIsStanza`: lines
without a blank one, read from where a stanza may begin to where it must end, are a
stanza of the file. `OneMore` says that noting a source that was not met before turns
`Noted(S)` into `Noted(S \cup {e})`; that it was not met before follows from where it
stands (`NotMetYet`). Each action has a lemma of its own that it keeps `IInv`.

Model-checked only: liveness (`Returns`), since TLAPS here has no `ENABLED`. The
other properties of the passing runs are all theorems.

## 5. Findings

Each has a run that TLC finds violated, and an entry in `PROJECT.json` with the quoted
document.

| Run | What the code does |
| --- | --- |
| `lost_tail` | the end of a command's output is lost when it exits between the last read and `waitpid` (a few instructions; 40,000 real calls on an idle machine did not hit it) |
| `flood` | a stream that always has bytes keeps `run` in the read loop past the deadline; with one ordinary fast writer the reader does catch up in practice, nothing in the code makes it |
| `unreadable_sources` | an unreadable source file counts as empty, exit code 0 remains possible |
| `meta_package` | with one kernel and its meta package `linux-image-generic` UG-KRN-001 reports a fallback kernel |
| `broken_json` | a tab inside a third-party source line makes the JSON report unreadable for a parser |
| `libstdcxx_clock` | with libstdc++'s file clock UG-APT-007 is always unknown: 0 and 1 are out of reach |
| `clobber` | a file that appears between the check and the open is overwritten without `--force` |
| `swallowed_write` | a short report that cannot be flushed is reported as written |

`NeverBetterThanTruth` and `GapsPreventReady` hold apart from `Holes`, the ways in
which evidence disappears without a trace: unreadable source files, control groups of
process 1 that cannot be read (a container goes unnoticed), the runner's lost tail, a
name cut within such a tail, and meta packages.
UG-APT-001 passes when `dpkg --audit` fails; the verdict stays incomplete through
UG-COL-001, which `GapsPreventReady` checks.
A forced overwrite is not atomic: a kill between open and write leaves the old report
truncated. No document promises more.

## 6. Not modelled, and why

* Redaction: regular expressions over text. Titles, explanations and layout of reports.
* libapt-pkg (`AptCacheAdapter.cpp`): only its outcomes, in `CollectApt`.
* Proposed installs and upgrades, `/var`, names and versions: collected, read by no rule.
* The spelling of `os-release`, `dkms status`, `mokutil`: abstracted to what is found.
* Packaging, scripts, containers, schemas: no behaviour of the program.

## 7. Plan

1. Done: `ProcessContract`, `Descriptors`, `ProcessRunner` and its proofs, `Readiness`,
   `AptOutput`, `Reports`, `Scan`, `Sources`, `CommandLine`, `ReportFile`.
2. Done: `ReportFileProofs` and `Delivery`.
3. Done: `ScanProofs`, `CommandLineProofs`, and the properties of `ReportFile` that join the
   two.
4. Done: `SourcesProofs`: types, `ThirdPartyExact` and `DuplicatesExact` for files of any
   length.
5. Next: lemmas about the parts of `Readiness` that `Scan` takes for granted, and the
   spelling of what the collectors parse, where it decides a finding.
