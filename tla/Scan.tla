--------------------------------- MODULE Scan ---------------------------------
(***************************************************************************)
(* One scan: ScanService::execute runs the nine collectors in the order of *)
(* the composition root, evaluates the rules and aggregates; the CLI maps  *)
(* the verdict, or an exception, to the exit code.                         *)
(*                                                                         *)
(* Each collector meets a machine in some condition and evidence that can  *)
(* be had or not.  What the machine was really like when the collector     *)
(* looked is kept beside what the collector saw, in a snapshot of the same *)
(* shape, so that the verdict can be compared with the one the same rules  *)
(* give on the truth.                                                      *)
(***************************************************************************)
EXTENDS AptOutput, Reports

CONSTANTS
    MaxDeviations,  \* unhealthy parts of the machine and gaps in the evidence, in all
    Epochs,         \* where file_time_type{} may lie: the standard leaves it open
    TailCanBeLost   \* whether the runner may miss the end of a successful output

ASSUME DeviationAssumption == MaxDeviations \in Nat
ASSUME EpochAssumption == Epochs \subseteq {"past", "future"}
ASSUME TailAssumption == TailCanBeLost \in BOOLEAN

VARIABLES
    pc,         \* the collector that runs next, "report" or "done"
    epoch,      \* the build's file clock
    target,     \* request.target_release
    evidence,   \* the snapshot
    issues,     \* collectors named in snapshot.collector_issues
    exit,       \* the exit code, or none yet
    printed,    \* the report as it was formatted
    truth,      \* the machine as it was when each collector looked
    blind,      \* evidence that could not be had (history)
    deviations  \* what went wrong so far, bounded by MaxDeviations

vars ==
    <<pc, epoch, target, evidence, issues, exit, printed, truth, blind, deviations>>

Collectors ==
    {"platform", "apt", "dpkg", "sources", "storage", "kernel", "dkms", "secureBoot",
     "reboot"}
None == 255

(* What a collector may fail to get: all it looks for, or one thing of it. *)
Evidence ==
    (Collectors \ {"dpkg", "storage"})
    \cup {"cgroup", "libapt-pkg", "audit", "holds", "root", "boot", "efi", "tail",
          "word", "meta"}

(* The names an issue may have.                                            *)
Issues == {"platform", "apt", "libapt-pkg", "audit", "holds", "kernel", "dkms"}

(* A machine on which every rule passes.                                   *)
Healthy ==
    [platform |-> [known |-> TRUE, derivative |-> FALSE, current |-> TRUE, path |-> TRUE,
                   container |-> FALSE],
     apt |-> [broken |-> FALSE, removals |-> {}, performed |-> TRUE, incomplete |-> FALSE,
              freshKnown |-> TRUE, stale |-> FALSE],
     dpkg |-> [audit |-> FALSE, held |-> FALSE],
     sources |-> [thirdParty |-> FALSE, duplicates |-> FALSE, tabs |-> FALSE],
     storage |-> [root |-> "enough", boot |-> "enough", efi |-> "enough"],
     kernel |-> [kernels |-> 2, fallback |-> TRUE, inconsistent |-> FALSE],
     dkms |-> [missing |-> FALSE, lines |-> {"installed"}],
     secureBoot |-> [unknown |-> FALSE, enabled |-> FALSE],
     reboot |-> [required |-> FALSE, unreadable |-> FALSE]]

(* A default-constructed SystemSnapshot.                                   *)
Blank ==
    [platform |-> [known |-> FALSE, derivative |-> FALSE, current |-> FALSE, path |-> FALSE,
                   container |-> FALSE],
     apt |-> [broken |-> FALSE, removals |-> {}, performed |-> FALSE, incomplete |-> FALSE,
              freshKnown |-> FALSE, stale |-> FALSE],
     dpkg |-> [audit |-> FALSE, held |-> FALSE],
     sources |-> [thirdParty |-> FALSE, duplicates |-> FALSE, tabs |-> FALSE],
     storage |-> [root |-> "absent", boot |-> "absent", efi |-> "absent"],
     kernel |-> [kernels |-> 0, fallback |-> FALSE, inconsistent |-> FALSE],
     dkms |-> [missing |-> FALSE, lines |-> {}],
     secureBoot |-> [unknown |-> TRUE, enabled |-> FALSE],
     reboot |-> [required |-> FALSE, unreadable |-> FALSE]]

Init ==
    /\ pc = "platform"
    /\ epoch \in Epochs
    /\ target \in {"24.04", "26.04"}
    /\ evidence = Blank
    /\ issues = {}
    /\ exit = None
    /\ printed = NoReport
    /\ truth = Healthy
    /\ blind = {}
    /\ deviations = 0

-----------------------------------------------------------------------------
(* What a collector gets for a command with this to say, of which these    *)
(* parts may arrive alone: an answer of the runner's contract.  "cut" is   *)
(* status zero with truncated output, "whole" status zero without,         *)
(* "failed" any other status.                                              *)
Answers(all, parts, nothing) ==
    {[kind |-> k, lines |-> nothing] : k \in {"error", "spawn_failed"}}
    \cup {[kind |-> k, lines |-> l] : k \in {"timed_out", "failed"}, l \in parts}
    \cup {[kind |-> "cut", lines |-> l] : l \in parts \ {nothing}}
    \cup {[kind |-> "whole", lines |-> l] : l \in IF TailCanBeLost THEN parts ELSE {all}}

AnswersOf(lines) == Answers(lines, SUBSET lines, {})
AnswersIn(text) == Answers(text, Beginnings(text), <<>>)

Started(a) == a.kind \notin {"error", "spawn_failed"}
Succeeded(a) == a.kind \in {"cut", "whole"}

Gap(a, lines, name) ==
    IF a.kind # "whole" THEN {name} ELSE IF a.lines # lines THEN {"tail"} ELSE {}

(* A collector returns, having seen one thing of the part of the machine it*)
(* looks at while another was real.                                        *)
Collect(next, part, seen, real, reported, gaps) ==
    /\ pc' = next
    /\ evidence' = [evidence EXCEPT ![part] = seen]
    /\ truth' = [truth EXCEPT ![part] = real]
    /\ issues' = issues \cup reported
    /\ blind' = blind \cup gaps
    /\ deviations' = deviations + Cardinality(gaps) + (IF real = Healthy[part] THEN 0 ELSE 1)
    /\ deviations' <= MaxDeviations
    /\ UNCHANGED <<epoch, target, exit, printed>>

(* A filesystem call throws: nothing catches it below cli::run.            *)
Throw(here) ==
    /\ pc = here
    /\ pc' = "done"
    /\ exit' = 3
    /\ blind' = blind \cup {here}
    /\ deviations < MaxDeviations
    /\ deviations' = deviations + 1
    /\ UNCHANGED <<epoch, target, evidence, issues, printed, truth>>

(* The system os-release names: an Ubuntu release, two derivatives (one of *)
(* them also known by its name) and something else.                        *)
Systems ==
    [id : {"ubuntu"}, version : {"22.04", "24.04", "26.04", "25.10"}, like : {FALSE}]
    \cup [id : {"linuxmint", "pop"}, version : {"22.04"}, like : {TRUE}]
    \cup [id : {"debian"}, version : {"24.04"}, like : {FALSE}]

DetectionOnly(system) == (system.id # "ubuntu" /\ system.like) \/ system.id = "pop"

SupportedCurrent(system) ==
    system.id = "ubuntu" /\ system.version \in {"22.04", "24.04", "26.04"}

SupportedPath(system, to) ==
    /\ system.id = "ubuntu"
    /\ <<system.version, to>> \in {<<"24.04", "26.04">>, <<"22.04", "24.04">>}

(* A container leaves a marker file or shows in the control groups of      *)
(* process 1; groups that cannot be read show nothing.                     *)
IsContainer(marker, groups, readable) == marker \/ (groups /\ readable)

(* os-release that cannot be read, or is empty, leaves no platform at all. *)
CollectPlatform ==
    /\ pc = "platform"
    /\ \/ Throw("platform")
       \/ \E system \in Systems, marker, groups, readable \in BOOLEAN :
              LET Facts(inside) ==
                      [known |-> TRUE, derivative |-> DetectionOnly(system),
                       current |-> SupportedCurrent(system),
                       path |-> SupportedPath(system, target),
                       container |-> inside]
                  real == Facts(marker \/ groups)
              IN  \/ Collect("apt", "platform",
                             Facts(IsContainer(marker, groups, readable)), real, {},
                             IF groups /\ ~marker /\ ~readable THEN {"cgroup"} ELSE {})
                  \/ Collect("apt", "platform", Blank.platform, real, {"platform"},
                             {"platform"})

-----------------------------------------------------------------------------
(* Packages                                                                *)

FreshKnownFromNow(lists) == FALSE

(* The newest change of the package lists is sought from file_time_type{}  *)
(* on: no file is newer than a default time that lies in the future.       *)
FreshKnown(lists) == lists \in {"fresh", "stale"} /\ epoch = "past"

(* The dry run of apt-get, when it ran to its end in time.                 *)
FromTruncatedSimulation(sim) ==
    IF Started(sim) /\ sim.kind # "timed_out"
       THEN [performed |-> Succeeded(sim), incomplete |-> ~Succeeded(sim),
             removals |-> Section(sim.lines)]
       ELSE [performed |-> FALSE, incomplete |-> TRUE, removals |-> {}]

FromSimulation(sim) ==
    IF Started(sim) /\ sim.kind # "timed_out"
       THEN [performed |-> Succeeded(sim), incomplete |-> sim.kind # "whole",
             removals |-> Section(sim.lines)]
       ELSE [performed |-> FALSE, incomplete |-> TRUE, removals |-> {}]

(* A text that ends within a name may tell of a removal that is not one.   *)
GapIn(sim, text, removals) ==
    IF sim.kind = "whole" /\ ~(Section(sim.lines) \subseteq removals) THEN {"word"}
    ELSE Gap(sim, text, "apt")

(* apt-get fails on broken dependencies and may say so on standard error;  *)
(* libapt-pkg, where it is compiled in, counts the broken packages itself. *)
CollectApt ==
    /\ pc = "apt"
    /\ \E broken \in BOOLEAN, removals \in SUBSET Removals,
          lists \in {"missing", "empty", "fresh", "stale"},
          libapt \in {"not_compiled", "failed", "opened"} :
           \/ \E text \in {SimulationText(order) : order \in Orders(removals)},
                 unmet \in BOOLEAN : \E sim \in AnswersIn(text) :
                 /\ broken => ~Succeeded(sim)
                 /\ unmet => broken /\ sim.kind = "failed"
                 /\ ~(lists = "missing" /\ libapt = "opened")
                 /\ LET found == FromSimulation(sim)
                        seen == [broken |-> unmet \/ (broken /\ libapt = "opened"),
                                 removals |-> found.removals,
                                 performed |-> found.performed,
                                 incomplete |-> found.incomplete,
                                 freshKnown |-> FreshKnown(lists),
                                 stale |-> FreshKnown(lists) /\ lists = "stale"]
                        real == [broken |-> broken, removals |-> removals,
                                 performed |-> TRUE, incomplete |-> FALSE,
                                 freshKnown |-> lists \in {"fresh", "stale"},
                                 stale |-> lists = "stale"]
                        failed == IF libapt = "failed" THEN {"libapt-pkg"} ELSE {}
                        unfinished ==
                            IF Started(sim) /\ sim.kind # "timed_out" THEN {} ELSE {"apt"}
                    IN  Collect("dpkg", "apt", seen, real, failed \cup unfinished,
                                failed \cup GapIn(sim, text, removals))
           \/ lists = "missing" /\ libapt = "opened" /\ Throw("apt")

(* The package lists exist and cannot be listed.                           *)
AptListsUnreadable == Throw("apt")

Entry(exists) == IF exists THEN {"entry"} ELSE {}

(* dpkg --audit and apt-mark showhold: each failure leaves its own issue   *)
(* and an empty list.                                                      *)
IssueOfMissing(a, what) == IF Started(a) THEN {} ELSE {what}
IssueOf(a, what) == IF Succeeded(a) THEN {} ELSE {what}

CollectDpkg ==
    /\ pc = "dpkg"
    /\ \E audit, held \in BOOLEAN :
           \E a \in AnswersOf(Entry(audit)), h \in AnswersOf(Entry(held)) :
               Collect("sources", "dpkg",
                       [audit |-> Succeeded(a) /\ a.lines # {},
                        held |-> Succeeded(h) /\ h.lines # {}],
                       [audit |-> audit, held |-> held],
                       IssueOf(a, "audit") \cup IssueOf(h, "holds"),
                       Gap(a, Entry(audit), "audit") \cup Gap(h, Entry(held), "holds"))

(* A source file that cannot be opened reads like an empty one.            *)
CollectSources ==
    /\ pc = "sources"
    /\ \/ \E third, duplicate, tabs \in BOOLEAN :
           LET real == [thirdParty |-> third, duplicates |-> duplicate, tabs |-> tabs]
           IN  /\ tabs => third \/ duplicate
               /\ \/ Collect("storage", "sources", real, real, {}, {})
                  \/ \E seenThird, seenDuplicate, seenTabs \in BOOLEAN :
                        /\ seenThird => third
                        /\ seenDuplicate => duplicate
                        /\ seenTabs => tabs /\ (seenThird \/ seenDuplicate)
                        /\ Collect("storage", "sources",
                                   [thirdParty |-> seenThird, duplicates |-> seenDuplicate,
                                    tabs |-> seenTabs],
                                   real, {}, {"sources"})
       \/ Throw("sources")

-----------------------------------------------------------------------------
(* Storage, kernel, DKMS, Secure Boot and reboot                           *)

(* statvfs fails: with ENOENT there is no such mount, else it is unread.   *)
Probe(room, failing) == IF failing THEN "unreadable" ELSE room

CollectStorage ==
    /\ pc = "storage"
    /\ \E root \in {"enough", "low"}, boot, efi \in {"enough", "low", "absent"},
          failing \in SUBSET {"root", "boot", "efi"} :
           Collect("kernel", "storage",
                   [root |-> Probe(root, "root" \in failing),
                    boot |-> Probe(boot, "boot" \in failing),
                    efi |-> Probe(efi, "efi" \in failing)],
                   [root |-> root, boot |-> boot, efi |-> efi],
                   {},
                   failing)

(* Every package dpkg-query lists counts, a meta package (or one that was  *)
(* removed and keeps its configuration) like a kernel; two names seen are  *)
(* a fallback, whatever else the list would hold.                          *)
CollectKernel ==
    /\ pc = "kernel"
    /\ \/ \E installed \in SUBSET {"running", "older", "meta"}, issue \in BOOLEAN :
           \E a \in AnswersOf(installed) :
               LET listed == IF Succeeded(a) THEN a.lines ELSE {}
                   kernels == installed \ {"meta"}
               IN  Collect("dkms", "kernel",
                           [kernels |-> Cardinality(listed),
                            fallback |-> Cardinality(listed) > 1, inconsistent |-> issue],
                           [kernels |-> Cardinality(kernels),
                            fallback |-> Cardinality(kernels) > 1, inconsistent |-> issue],
                           IssueOf(a, "kernel"),
                           (IF Cardinality(listed) > 1 THEN {} ELSE Gap(a, installed, "kernel"))
                           \cup IF "meta" \in listed /\ Cardinality(kernels) < 2
                                THEN {"meta"} ELSE {})
       \/ Throw("kernel")

(* Whatever dkms printed counts, and an answer that is not a clean success *)
(* leaves an issue as well.                                                *)
CollectDkms ==
    /\ pc = "dkms"
    /\ \E lines \in SUBSET DkmsLines :
           \E a \in AnswersOf(lines) :
               Collect("secureBoot", "dkms",
                       [missing |-> ~Started(a), lines |-> a.lines],
                       [missing |-> FALSE, lines |-> lines],
                       IF Started(a) /\ a.kind # "whole" THEN {"dkms"} ELSE {},
                       Gap(a, lines, "dkms"))

(* Without EFI variables mokutil fails and says nothing on standard output.*)
CollectSecureBoot ==
    /\ pc = "secureBoot"
    /\ \E state \in {"enabled", "disabled", "unsupported"} :
           LET lines == {state} \ {"unsupported"}
           IN  \E a \in AnswersOf(lines) :
                   /\ state = "unsupported" => ~Succeeded(a)
                   /\ Collect("reboot", "secureBoot",
                              [unknown |-> a.lines = {} \/ a.kind # "whole",
                               enabled |-> "enabled" \in a.lines],
                              [unknown |-> state = "unsupported",
                               enabled |-> state = "enabled"],
                              {},
                              Gap(a, lines, "secureBoot"))

(* The marker cannot be looked up, or the list of packages not be read.    *)
CollectReboot ==
    /\ pc = "reboot"
    /\ \/ \E required \in BOOLEAN, failing \in {"nothing", "marker", "list"} :
           Collect("report", "reboot",
                   [required |-> required /\ failing # "marker",
                    unreadable |-> failing # "nothing"],
                   [required |-> required, unreadable |-> FALSE],
                   {},
                   IF failing = "nothing" THEN {} ELSE {"reboot"})
       \/ Throw("reboot")

(* Rules, report and exit code.  The format and the verbosity asked for on *)
(* the command line make no difference before.                             *)
Conclude ==
    /\ pc = "report"
    /\ pc' = "done"
    /\ LET verdict == Aggregate(Report(evidence, issues))
       IN  /\ \/ \E verbose \in BOOLEAN :
                    printed' = TextReport(evidence, issues, verdict, verbose)
              \/ printed' = JsonReport(evidence, issues, verdict)
           /\ exit' = ExitFor(verdict)
    /\ UNCHANGED <<epoch, target, evidence, issues, truth, blind, deviations>>

Terminated == pc = "done" /\ UNCHANGED vars

Next ==
    \/ CollectPlatform \/ CollectApt \/ AptListsUnreadable \/ CollectDpkg \/ CollectSources
    \/ CollectStorage \/ CollectKernel \/ CollectDkms \/ CollectSecureBoot \/ CollectReboot
    \/ Conclude \/ Terminated

Spec == Init /\ [][Next]_vars

-----------------------------------------------------------------------------
(* Properties                                                              *)

TypeOK ==
    /\ pc \in Collectors \cup {"report", "done"}
    /\ epoch \in Epochs
    /\ target \in {"24.04", "26.04"}
    /\ WellFormed(evidence)
    /\ issues \subseteq Issues
    /\ exit \in ExitCodes \cup {None}
    /\ WellFormed(truth)
    /\ blind \subseteq Evidence
    /\ deviations \in 0 .. MaxDeviations

(* The ways in which evidence gets lost without a trace.                   *)
Holes == {"sources", "cgroup", "tail", "word", "meta"}

TrueVerdict == Aggregate(RuleStatuses(truth))

(* The tool makes no false readiness claim: when it exits with 0 or 1 the  *)
(* same rules on the machine as it really was say nothing worse, whatever  *)
(* commands failed, hung, were cut or could not be started, and whatever   *)
(* files could not be read - except through the holes.                     *)
NeverBetterThanTruth ==
    blind \cap Holes = {} =>
        /\ exit = 0 => TrueVerdict = "ready"
        /\ exit = 1 => TrueVerdict \in {"ready", "ready_with_warnings"}

(* No false alarm: exit code 2 means that the machine really has a blocker *)
(* - unless a lost tail turned the name of a package into the beginning of *)
(* it.                                                                     *)
BlockedIsReal == exit = 2 /\ "word" \notin blind => TrueVerdict = "blocked"

(* Evidence that could not be had rules exit code 0 out, except through the*)
(* holes (docs/exit-codes.md).                                             *)
GapsPreventReady == exit = 0 => blind \subseteq Holes

(* A machine with nothing to report gets exit code 0, on a build whose file*)
(* clock starts in the past.                                               *)
Unremarkable == pc = "done" /\ deviations = 0
HealthyIsReady == Unremarkable /\ epoch = "past" => exit = 0

(* Who reads the report, in either format, verbose or not, can tell why the*)
(* tool exits with the code it does: the counts at its head decide the     *)
(* code, and every finding behind a count is listed.  Without a report the *)
(* code is 3.                                                              *)
ListedAs(status) ==
    Cardinality({id \in DOMAIN printed.findings : printed.findings[id] = status})
    + (IF status = "unknown" THEN Cardinality(printed.issues) ELSE 0)

ReportExplainsExit ==
    pc = "done" =>
        IF printed = NoReport THEN exit = 3
        ELSE /\ exit = CASE printed.summary.blocked > 0 -> 2
                         [] printed.summary.blocked = 0 /\ printed.summary.unknown > 0 -> 3
                         [] OTHER -> IF printed.summary.warning > 0 THEN 1 ELSE 0
             /\ exit = ExitFor(printed.overall)
             /\ \A status \in DOMAIN printed.summary :
                    printed.summary[status] = ListedAs(status)

-----------------------------------------------------------------------------
(* The inductive invariant behind these properties                         *)

Position ==
    [platform |-> 1, apt |-> 2, dpkg |-> 3, sources |-> 4, storage |-> 5, kernel |-> 6,
     dkms |-> 7, secureBoot |-> 8, reboot |-> 9, report |-> 10, done |-> 11]

Collected(part) == Position[part] < Position[pc]

(* The gaps a collector can have beside the holes.                         *)
Own ==
    [platform |-> {"platform"}, apt |-> {"apt", "libapt-pkg"}, dpkg |-> {"audit", "holds"},
     sources |-> {}, storage |-> {"root", "boot", "efi"}, kernel |-> {"kernel"},
     dkms |-> {"dkms"}, secureBoot |-> {"secureBoot"}, reboot |-> {"reboot"}]

Without(gaps, b) == gaps \cap b = {}

(* How far what was seen (e) of a part can be from what was real (t), when *)
(* nothing else than b could not be had.                                   *)
PlatformFits(e, t, b) ==
    /\ t.known
    /\ e.known => \A fact \in {"derivative", "current", "path"} : e[fact] = t[fact]
    /\ Without({"platform", "cgroup"}, b) => e = t

AptFits(e, t, b) ==
    LET usable == e.performed /\ ~e.incomplete
    IN  /\ t.performed /\ ~t.incomplete
        /\ e.broken => t.broken
        /\ "apt" \notin b => usable
        /\ usable => /\ ~t.broken
                     /\ "word" \notin b => e.removals \subseteq t.removals
                     /\ Without({"word", "tail"}, b) => e.removals = t.removals
        /\ e.freshKnown => t.freshKnown /\ e.stale = t.stale
        /\ epoch = "past" => e.freshKnown = t.freshKnown

DpkgFits(e, t, b) ==
    /\ e.audit => t.audit
    /\ e.held => t.held
    /\ Without({"audit", "tail"}, b) => e.audit = t.audit
    /\ Without({"holds", "tail"}, b) => e.held = t.held

SourcesFits(e, t, b) == "sources" \notin b => e = t

StorageFits(e, t, b) == \A mount \in {"root", "boot", "efi"} \ b : e[mount] = t[mount]

KernelFits(e, t, b) ==
    /\ e.inconsistent = t.inconsistent
    /\ e.fallback => e.kernels > 0
    /\ "meta" \notin b /\ e.kernels > 0 => t.kernels > 0 /\ (e.fallback => t.fallback)
    /\ Without({"kernel", "tail"}, b) /\ t.fallback => e.fallback

DkmsFits(e, t, b) ==
    /\ ~t.missing
    /\ e.lines \subseteq t.lines
    /\ Without({"dkms", "tail"}, b) => e = t

SecureBootFits(e, t, b) == Without({"secureBoot", "tail"}, b) => e = t

RebootFits(e, t, b) == "reboot" \notin b => e = t

Fits(part, e, t, b) ==
    /\ part = "platform" => PlatformFits(e, t, b)
    /\ part = "apt" => AptFits(e, t, b)
    /\ part = "dpkg" => DpkgFits(e, t, b)
    /\ part = "sources" => SourcesFits(e, t, b)
    /\ part = "storage" => StorageFits(e, t, b)
    /\ part = "kernel" => KernelFits(e, t, b)
    /\ part = "dkms" => DkmsFits(e, t, b)
    /\ part = "secureBoot" => SecureBootFits(e, t, b)
    /\ part = "reboot" => RebootFits(e, t, b)

Agreement ==
    \A part \in Collectors :
        Collected(part) => Fits(part, evidence[part], truth[part], blind)

(* What tells of a gap that left no issue: the report is not one of a ready*)
(* system.                                                                 *)
Tells(gap, e) ==
    \/ gap = "apt" /\ (~e.performed \/ e.incomplete)
    \/ gap = "audit" /\ e.audit
    \/ gap = "holds" /\ e.held
    \/ gap \in {"root", "boot", "efi"} /\ e[gap] = "unreadable"
    \/ gap = "kernel" /\ ~e.fallback
    \/ gap = "dkms" /\ e.missing
    \/ gap = "secureBoot" /\ e.unknown
    \/ gap = "reboot" /\ e.unreadable

Accounted ==
    \A part \in Collectors : \A gap \in blind \cap Own[part] :
        Collected(part) /\ (issues # {} \/ Tells(gap, evidence[part]))

(* The scan came to no report: one of its collectors threw.                *)
Threw == pc = "done" /\ printed = NoReport

Shape ==
    /\ pc \in DOMAIN Position
    /\ epoch \in Epochs
    /\ target \in {"24.04", "26.04"}
    /\ evidence \in Snapshots
    /\ truth \in Snapshots
    /\ issues \subseteq Issues
    /\ blind \subseteq Evidence
    /\ deviations \in 0 .. MaxDeviations

Unharmed == deviations = 0 => truth = Healthy /\ blind = {} /\ issues = {}

Outcome ==
    LET verdict == Aggregate(Report(evidence, issues))
    IN  IF pc # "done" THEN exit = None /\ printed = NoReport
        ELSE IF Threw THEN exit = 3 /\ deviations > 0
        ELSE /\ exit = ExitFor(verdict)
             /\ \/ \E verbose \in BOOLEAN :
                      printed = TextReport(evidence, issues, verdict, verbose)
                \/ printed = JsonReport(evidence, issues, verdict)

(* What each collector saw agrees with what was real but for the evidence  *)
(* it could not have, which the snapshot shows or is one of the holes; the *)
(* report and the exit code are those of the snapshot.                     *)
IInv == Shape /\ Unharmed /\ Outcome /\ (~Threw => Agreement /\ Accounted)

-----------------------------------------------------------------------------
(* What the documents say and the code does not do                         *)

(* "Unknown essential evidence cannot yield exit code 0."                  *)
UnknownIsNeverReady == exit = 0 => blind = {}

(* "An installed fallback kernel was detected", says the passed finding.   *)
FallbackIsReal ==
    pc = "done" /\ FallbackKernel(evidence) = "passed" => truth.kernel.fallback

(* "JSON report is invalid" is what the test of the export says of a report*)
(* that cannot be parsed.                                                  *)
JsonReportIsValid ==
    printed.format = "json" => printed.characters \subseteq JsonCharacters

(* "0: System is ready for an upgrade", for a healthy system at least.     *)
HealthyExitsZero == Unremarkable => exit = 0

=============================================================================
