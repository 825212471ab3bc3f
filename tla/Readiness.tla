------------------------------ MODULE Readiness ------------------------------
(***************************************************************************)
(* The eighteen readiness rules, the aggregation of their findings and the *)
(* exit code, as functions of the snapshot that the collectors fill.       *)
(*                                                                         *)
(* A finding is its status.  In the code a finding also carries a flag     *)
(* collector_complete, which every rule clears exactly where it answers    *)
(* unknown, and wording, which no verdict depends on.                      *)
(***************************************************************************)
EXTENDS Naturals

Statuses == {"passed", "warning", "blocked", "unknown"}
Verdicts == {"ready", "ready_with_warnings", "blocked", "incomplete"}
ExitCodes == {0, 1, 2, 3}

(* A line of "dkms status", a package to be removed, room in a filesystem. *)
DkmsLines == {"installed", "failed", "incomplete", "malformed"}
Removals == {"essential", "other"}
Rooms == {"enough", "low", "absent", "unreadable"}

Snapshots ==
    [platform : [known : BOOLEAN, derivative : BOOLEAN, current : BOOLEAN, path : BOOLEAN,
                 container : BOOLEAN],
     apt : [broken : BOOLEAN, removals : SUBSET Removals, performed : BOOLEAN,
            incomplete : BOOLEAN, freshKnown : BOOLEAN, stale : BOOLEAN],
     dpkg : [audit : BOOLEAN, held : BOOLEAN],
     sources : [thirdParty : BOOLEAN, duplicates : BOOLEAN, tabs : BOOLEAN],
     storage : [root : Rooms, boot : Rooms, efi : Rooms],
     kernel : [kernels : Nat, fallback : BOOLEAN, inconsistent : BOOLEAN],
     dkms : [missing : BOOLEAN, lines : SUBSET DkmsLines],
     secureBoot : [unknown : BOOLEAN, enabled : BOOLEAN],
     reboot : [required : BOOLEAN, unreadable : BOOLEAN]]

Flags(r) == \A fact \in DOMAIN r : r[fact] \in BOOLEAN

(* Membership in Snapshots, one part after the other.                      *)
WellFormed(s) ==
    /\ DOMAIN s = {"platform", "apt", "dpkg", "sources", "storage", "kernel", "dkms",
                   "secureBoot", "reboot"}
    /\ Flags(s.platform) /\ Flags(s.dpkg) /\ Flags(s.sources)
    /\ Flags(s.secureBoot) /\ Flags(s.reboot)
    /\ s.apt.removals \subseteq Removals
    /\ {s.apt.broken, s.apt.performed, s.apt.incomplete, s.apt.freshKnown, s.apt.stale}
          \subseteq BOOLEAN
    /\ \A mount \in DOMAIN s.storage : s.storage[mount] \in Rooms
    /\ s.kernel.kernels \in Nat
    /\ {s.kernel.fallback, s.kernel.inconsistent} \subseteq BOOLEAN
    /\ s.dkms.missing \in BOOLEAN
    /\ s.dkms.lines \subseteq DkmsLines

-----------------------------------------------------------------------------
(* Platform                                                                *)

Supported(p, fact) ==
    IF ~p.known THEN "unknown"
    ELSE IF p.derivative THEN "warning"
    ELSE IF ~fact THEN "blocked" ELSE "passed"

CurrentRelease(s) == Supported(s.platform, s.platform.current)
UpgradePath(s) == Supported(s.platform, s.platform.path)

Derivative(s) ==
    IF ~s.platform.known THEN "unknown"
    ELSE IF s.platform.derivative THEN "warning" ELSE "passed"

InContainer(s) == s.platform.known /\ s.platform.container

-----------------------------------------------------------------------------
(* Packages and sources                                                    *)

SimulationUsable(s) == s.apt.performed /\ ~s.apt.incomplete

BlockedUnlessProven(s) ==
    IF s.dpkg.audit \/ ~SimulationUsable(s) THEN "blocked" ELSE "passed"

Database(s) ==
    IF s.dpkg.audit THEN "blocked"
    ELSE IF ~SimulationUsable(s) THEN "unknown" ELSE "passed"

Broken(s) ==
    IF s.apt.broken THEN "blocked"
    ELSE IF ~SimulationUsable(s) THEN "unknown" ELSE "passed"

WarnIf(fact) == IF fact THEN "warning" ELSE "passed"

Holds(s) == WarnIf(s.dpkg.held)
ThirdParty(s) == WarnIf(s.sources.thirdParty)
Duplicates(s) == WarnIf(s.sources.duplicates)

RiskyRemovals(s) ==
    IF ~SimulationUsable(s) THEN "unknown"
    ELSE IF "essential" \in s.apt.removals THEN "blocked" ELSE WarnIf(s.apt.removals # {})

CacheFreshness(s) ==
    IF ~s.apt.freshKnown \/ s.apt.stale THEN "unknown" ELSE "passed"

-----------------------------------------------------------------------------
(* Storage, kernel, DKMS, Secure Boot and reboot                           *)

CheckSpace(room, optional) ==
    IF optional /\ room = "absent" THEN "passed"
    ELSE IF room \in {"absent", "unreadable"} THEN "unknown" ELSE WarnIf(room = "low")

RootSpace(s) == CheckSpace(s.storage.root, FALSE)
BootSpace(s) == CheckSpace(s.storage.boot, FALSE)
EfiSpace(s) == CheckSpace(s.storage.efi, TRUE)

FallbackKernel(s) ==
    IF InContainer(s) \/ s.kernel.kernels = 0 THEN "unknown" ELSE WarnIf(~s.kernel.fallback)

KernelConsistency(s) == IF InContainer(s) THEN "unknown" ELSE WarnIf(s.kernel.inconsistent)

DkmsHealth(s) ==
    IF s.dkms.missing THEN "unknown"
    ELSE IF s.dkms.lines \cap {"failed", "incomplete"} # {} THEN "blocked"
    ELSE IF "malformed" \in s.dkms.lines THEN "unknown" ELSE "passed"

SecureBoot(s) ==
    IF InContainer(s) \/ s.secureBoot.unknown THEN "unknown"
    ELSE WarnIf(s.secureBoot.enabled /\ s.dkms.lines # {})

PendingReboot(s) ==
    IF s.reboot.unreadable THEN "unknown" ELSE WarnIf(s.reboot.required)

-----------------------------------------------------------------------------
(* Report                                                                  *)

Findings(s) ==
    [REL_001 |-> CurrentRelease(s), REL_002 |-> UpgradePath(s), REL_003 |-> Derivative(s),
     APT_001 |-> Database(s), APT_002 |-> Broken(s), APT_003 |-> Holds(s),
     APT_004 |-> ThirdParty(s), APT_005 |-> Duplicates(s), APT_006 |-> RiskyRemovals(s),
     APT_007 |-> CacheFreshness(s),
     DSK_001 |-> RootSpace(s), DSK_002 |-> BootSpace(s), DSK_003 |-> EfiSpace(s),
     DKM_001 |-> DkmsHealth(s), KRN_001 |-> FallbackKernel(s),
     KRN_002 |-> KernelConsistency(s), SEC_001 |-> SecureBoot(s),
     RBT_001 |-> PendingReboot(s)]

(* The statuses in a report: those of the rules, and one UG-COL-001 for    *)
(* each issue a collector left.                                            *)
RuleStatuses(s) == LET found == Findings(s) IN {found[id] : id \in DOMAIN found}
Report(s, issues) ==
    RuleStatuses(s) \cup (IF issues = {} THEN {} ELSE {"unknown"})

Aggregate(found) ==
    IF "blocked" \in found THEN "blocked"
    ELSE IF "unknown" \in found THEN "incomplete"
    ELSE IF "warning" \in found THEN "ready_with_warnings" ELSE "ready"

ExitAsUsage(verdict) ==
    CASE verdict = "ready" -> 0
      [] verdict = "ready_with_warnings" -> 1
      [] verdict = "blocked" -> 2
      [] OTHER -> 64

ExitFor(verdict) ==
    CASE verdict = "ready" -> 0
      [] verdict = "ready_with_warnings" -> 1
      [] verdict = "blocked" -> 2
      [] verdict = "incomplete" -> 3

=============================================================================
