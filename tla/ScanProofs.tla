------------------------------ MODULE ScanProofs ------------------------------
(***************************************************************************)
(* Theorems about Scan, for any number of deviations, any place of the     *)
(* file clock's epoch, and whether or not the end of an output can be lost.*)
(***************************************************************************)
EXTENDS Scan, FiniteSetTheorems, SequenceTheorems, TLAPS

(* What each collector must say for itself so that the invariant lasts:    *)
(* what it sees fits what is real but for its gaps, each of its own gaps   *)
(* leaves an issue or is told of by what it saw, and an issue means a gap. *)
Sound(part, seen, real, reported, gaps) ==
    /\ Fits(part, seen, real, gaps)
    /\ gaps \subseteq Own[part] \cup Holes
    /\ \A gap \in gaps \cap Own[part] : reported # {} \/ Tells(gap, seen)
    /\ reported \subseteq Issues
    /\ reported # {} => gaps # {}

-----------------------------------------------------------------------------
(* Finite sets                                                             *)

LEMMA SixAreFinite ==
    ASSUME NEW a, NEW b, NEW c, NEW d, NEW e, NEW f
    PROVE  IsFiniteSet({a, b, c, d, e, f})
  <1>1. IsFiniteSet({a}) /\ IsFiniteSet({b}) /\ IsFiniteSet({c}) /\ IsFiniteSet({d})
        /\ IsFiniteSet({e}) /\ IsFiniteSet({f})
    BY FS_Singleton
  <1>2. IsFiniteSet({a} \cup {b}) /\ IsFiniteSet({c} \cup {d}) /\ IsFiniteSet({e} \cup {f})
    BY <1>1, FS_Union
  <1>3. IsFiniteSet(({a} \cup {b}) \cup ({c} \cup {d}))
    BY <1>2, FS_Union
  <1>4. IsFiniteSet((({a} \cup {b}) \cup ({c} \cup {d})) \cup ({e} \cup {f}))
    BY <1>2, <1>3, FS_Union
  <1>5. (({a} \cup {b}) \cup ({c} \cup {d})) \cup ({e} \cup {f}) = {a, b, c, d, e, f}
    OBVIOUS
  <1> QED BY <1>4, <1>5

LEMMA EvidenceIsFinite == IsFiniteSet(Evidence) /\ IsFiniteSet(Issues)
  <1> DEFINE A == {"platform", "apt", "dpkg", "sources", "storage", "kernel"}
             B == {"dkms", "secureBoot", "reboot", "cgroup", "libapt-pkg", "audit"}
             C == {"holds", "root", "boot", "efi", "tail", "word"}
             D == {"meta", "meta", "meta", "meta", "meta", "meta"}
  <1>1. IsFiniteSet(A) /\ IsFiniteSet(B) /\ IsFiniteSet(C) /\ IsFiniteSet(D)
    BY SixAreFinite
  <1>2. IsFiniteSet(A \cup B) /\ IsFiniteSet(C \cup D)
    BY <1>1, FS_Union
  <1>3. IsFiniteSet((A \cup B) \cup (C \cup D))
    BY <1>2, FS_Union
  <1>4. /\ Evidence \subseteq (A \cup B) \cup (C \cup D)
        /\ Issues \subseteq (A \cup B) \cup (C \cup D)
    BY DEF Evidence, Collectors, Issues
  <1> QED BY <1>3, <1>4, FS_Subset

-----------------------------------------------------------------------------
(* One collector                                                           *)

(* More gaps excuse more.                                                  *)
LEMMA FitsForMore ==
    ASSUME NEW part \in Collectors, NEW e, NEW t, NEW b, NEW c, b \subseteq c,
           Fits(part, e, t, b)
    PROVE  Fits(part, e, t, c)
  <1>1. CASE part = "platform"
    BY <1>1 DEF Fits, PlatformFits, Without
  <1>2. CASE part = "apt"
    BY <1>2 DEF Fits, AptFits, Without
  <1>3. CASE part = "dpkg"
    BY <1>3 DEF Fits, DpkgFits, Without
  <1>4. CASE part = "sources"
    BY <1>4 DEF Fits, SourcesFits
  <1>5. CASE part = "storage"
    BY <1>5 DEF Fits, StorageFits
  <1>6. CASE part = "kernel"
    BY <1>6 DEF Fits, KernelFits, Without
  <1>7. CASE part = "dkms"
    BY <1>7 DEF Fits, DkmsFits, Without
  <1>8. CASE part = "secureBoot"
    BY <1>8 DEF Fits, SecureBootFits, Without
  <1>9. CASE part = "reboot"
    BY <1>9 DEF Fits, RebootFits
  <1> QED
    BY <1>1, <1>2, <1>3, <1>4, <1>5, <1>6, <1>7, <1>8, <1>9 DEF Collectors

(* Each gap beside the holes has one owner.                                *)
LEMMA OneOwner ==
    /\ \A p, q \in Collectors : p # q => Own[p] \cap Own[q] = {}
    /\ \A p \in Collectors : Own[p] \cap Holes = {} /\ Own[p] \subseteq Evidence
    /\ Holes \subseteq Evidence
  <1>1. \A p, q \in Collectors : p # q => Own[p] \cap Own[q] = {}
    BY DEF Own, Collectors
  <1>2. \A p \in Collectors : Own[p] \cap Holes = {} /\ Own[p] \subseteq Evidence
    BY DEF Own, Collectors, Holes, Evidence
  <1>3. Holes \subseteq Evidence
    BY DEF Holes, Evidence, Collectors
  <1> QED BY <1>1, <1>2, <1>3

LEMMA CollectInv ==
    ASSUME IInv, NEW part \in Collectors, pc = part,
           NEW next \in DOMAIN Position \ {"done"}, Position[next] = Position[part] + 1,
           NEW seen, NEW real, NEW reported, NEW gaps,
           Collect(next, part, seen, real, reported, gaps),
           [evidence EXCEPT ![part] = seen] \in Snapshots,
           [truth EXCEPT ![part] = real] \in Snapshots,
           Sound(part, seen, real, reported, gaps)
    PROVE  IInv'
  <1> DEFINE n == Cardinality(gaps)
  <1>1. gaps \subseteq Evidence /\ n \in Nat /\ (n = 0 => gaps = {})
    <2>1. gaps \subseteq Evidence
      BY OneOwner DEF Sound
    <2>2. IsFiniteSet(gaps)
      BY <2>1, EvidenceIsFinite, FS_Subset
    <2> QED BY <2>1, <2>2, FS_CardinalityType, FS_EmptySet
  <1>2. pc # "done" /\ pc' # "done" /\ pc' = next
    BY DEF Collect, Collectors
  <1>3. /\ evidence' = [evidence EXCEPT ![part] = seen]
        /\ truth' = [truth EXCEPT ![part] = real]
        /\ issues' = issues \cup reported
        /\ blind' = blind \cup gaps
        /\ UNCHANGED <<epoch, target, exit, printed>>
        /\ deviations' = deviations + n + (IF real = Healthy[part] THEN 0 ELSE 1)
        /\ deviations' <= MaxDeviations
    BY DEF Collect
  <1>4. Shape'
    BY <1>1, <1>2, <1>3, DeviationAssumption DEF Shape, IInv, Sound
  <1>5. Unharmed'
    <2> SUFFICES ASSUME deviations' = 0
                 PROVE  truth' = Healthy /\ blind' = {} /\ issues' = {}
      BY DEF Unharmed
    <2>1. deviations = 0 /\ n = 0 /\ real = Healthy[part]
      BY <1>1, <1>3, DeviationAssumption DEF IInv, Shape
    <2>2. truth = Healthy /\ blind = {} /\ issues = {} /\ gaps = {} /\ reported = {}
      BY <2>1, <1>1 DEF IInv, Unharmed, Sound
    <2>3. [Healthy EXCEPT ![part] = Healthy[part]] = Healthy
      BY DEF Healthy
    <2> QED BY <2>1, <2>2, <2>3, <1>3
  <1>6. Outcome'
    BY <1>2, <1>3 DEF IInv, Outcome
  <1>7. Agreement /\ Accounted
    BY <1>2 DEF IInv, Threw
  <1>8. ASSUME NEW q \in Collectors
        PROVE  /\ Collected(q)' <=> Collected(q) \/ q = part
               /\ ~Collected(part)
               /\ q # part => evidence'[q] = evidence[q] /\ truth'[q] = truth[q]
               /\ evidence'[part] = seen /\ truth'[part] = real
    BY <1>2, <1>3 DEF Collected, Position, Collectors, IInv, Shape, Snapshots
  <1>9. Agreement'
    <2> SUFFICES ASSUME NEW q \in Collectors, Collected(q)'
                 PROVE  Fits(q, evidence'[q], truth'[q], blind')
      BY <1>3 DEF Agreement, Fits, AptFits
    <2>1. CASE q = part
      BY <2>1, <1>3, <1>8, FitsForMore DEF Sound
    <2>2. CASE q # part
      BY <2>2, <1>3, <1>7, <1>8, FitsForMore DEF Agreement
    <2> QED BY <2>1, <2>2
  <1>10. Accounted'
    <2> SUFFICES ASSUME NEW q \in Collectors, NEW gap \in blind' \cap Own[q]
                 PROVE  Collected(q)' /\ (issues' # {} \/ Tells(gap, evidence'[q]))
      BY DEF Accounted
    <2>1. CASE q = part
      BY <2>1, <1>3, <1>7, <1>8 DEF Accounted, Sound
    <2>2. CASE q # part
      BY <2>2, <1>3, <1>7, <1>8, OneOwner DEF Accounted, Sound
    <2> QED BY <2>1, <2>2
  <1> QED BY <1>4, <1>5, <1>6, <1>9, <1>10 DEF IInv

(* A collector that throws ends the scan without a report.                 *)
LEMMA ThrowInv ==
    ASSUME IInv, NEW here \in Collectors \cap Evidence, Throw(here)
    PROVE  IInv'
  <1>1. /\ pc # "done" /\ pc' = "done" /\ exit' = 3 /\ printed = NoReport
        /\ blind' = blind \cup {here}
        /\ deviations < MaxDeviations /\ deviations' = deviations + 1
        /\ UNCHANGED <<epoch, target, evidence, issues, printed, truth>>
    BY DEF Throw, IInv, Outcome, Collectors
  <1>2. Threw'
    BY <1>1 DEF Threw
  <1>3. deviations' > 0 /\ deviations' \in 0 .. MaxDeviations
    BY <1>1, DeviationAssumption DEF IInv, Shape
  <1>4. Shape' /\ Unharmed'
    BY <1>1, <1>3 DEF Shape, Unharmed, IInv, Evidence, Position
  <1>5. Outcome'
    BY <1>1, <1>2, <1>3 DEF Outcome
  <1> QED BY <1>2, <1>4, <1>5 DEF IInv

-----------------------------------------------------------------------------
(* The collectors, each in its turn                                        *)

LEMMA PlatformInv == IInv /\ CollectPlatform => IInv'
  <1> SUFFICES ASSUME IInv, CollectPlatform PROVE IInv'
    OBVIOUS
  <1> DEFINE Type == [known : BOOLEAN, derivative : BOOLEAN, current : BOOLEAN,
                      path : BOOLEAN, container : BOOLEAN]
             Facts(system, inside) ==
                 [known |-> TRUE, derivative |-> DetectionOnly(system),
                  current |-> SupportedCurrent(system),
                  path |-> SupportedPath(system, target), container |-> inside]
  <1>1. CASE Throw("platform")
    BY <1>1, ThrowInv DEF Collectors, Evidence
  <1>2. ASSUME NEW seen \in Type, NEW real \in Type, NEW reported, NEW gaps,
               Collect("apt", "platform", seen, real, reported, gaps),
               Sound("platform", seen, real, reported, gaps)
        PROVE  IInv'
    <2>1. pc = "platform"
      BY DEF CollectPlatform, Throw
    <2>2. /\ [evidence EXCEPT !["platform"] = seen] \in Snapshots
          /\ [truth EXCEPT !["platform"] = real] \in Snapshots
      BY <1>2 DEF Snapshots, IInv, Shape
    <2> QED BY <1>2, <2>1, <2>2, CollectInv DEF Collectors, Position
  <1>3. ASSUME NEW system \in Systems, NEW marker \in BOOLEAN, NEW groups \in BOOLEAN,
               NEW readable \in BOOLEAN,
               Collect("apt", "platform",
                       Facts(system, IsContainer(marker, groups, readable)),
                       Facts(system, marker \/ groups), {},
                       IF groups /\ ~marker /\ ~readable THEN {"cgroup"} ELSE {})
        PROVE  IInv'
    <2> DEFINE seen == Facts(system, IsContainer(marker, groups, readable))
               real == Facts(system, marker \/ groups)
               gaps == IF groups /\ ~marker /\ ~readable THEN {"cgroup"} ELSE {}
    <2>1. seen \in Type /\ real \in Type
      BY DEF IsContainer, DetectionOnly, SupportedCurrent, SupportedPath
    <2>2. gaps = {} => seen = real
      BY DEF IsContainer
    <2>3. PlatformFits(seen, real, gaps)
      BY <2>2 DEF PlatformFits, Without
    <2>4. Sound("platform", seen, real, {}, gaps)
      BY <2>3 DEF Sound, Fits, Own, Holes
    <2> QED BY <1>2, <1>3, <2>1, <2>4
  <1>4. ASSUME NEW system \in Systems, NEW inside \in BOOLEAN,
               Collect("apt", "platform", Blank.platform, Facts(system, inside),
                       {"platform"}, {"platform"})
        PROVE  IInv'
    <2>1. Facts(system, inside) \in Type /\ Blank.platform \in Type
      BY DEF DetectionOnly, SupportedCurrent, SupportedPath, Blank
    <2>2. Sound("platform", Blank.platform, Facts(system, inside), {"platform"}, {"platform"})
      BY DEF Sound, Fits, PlatformFits, Blank, Without, Own, Issues, Collectors
    <2> QED BY <1>2, <1>4, <2>1, <2>2
  <1>5. CASE ~Throw("platform")
    <2>1. PICK system \in Systems, marker \in BOOLEAN, groups \in BOOLEAN,
               readable \in BOOLEAN :
             \/ Collect("apt", "platform",
                        Facts(system, IsContainer(marker, groups, readable)),
                        Facts(system, marker \/ groups), {},
                        IF groups /\ ~marker /\ ~readable THEN {"cgroup"} ELSE {})
             \/ Collect("apt", "platform", Blank.platform, Facts(system, marker \/ groups),
                        {"platform"}, {"platform"})
      BY <1>5 DEF CollectPlatform
    <2>2. (marker \/ groups) \in BOOLEAN
      OBVIOUS
    <2> HIDE DEF Facts
    <2> QED BY <1>3, <1>4, <2>1, <2>2
  <1> QED BY <1>1, <1>5

(* The answer of a command that prints these lines.                        *)
LEMMA AnswerOfLines ==
    ASSUME NEW lines, NEW a \in AnswersOf(lines)
    PROVE  /\ a.kind \in {"error", "spawn_failed", "timed_out", "failed", "cut", "whole"}
           /\ a.lines \subseteq lines
           /\ ~Started(a) => a.lines = {}
           /\ a.kind = "cut" => a.lines # {}
  BY DEF AnswersOf, Answers, Started

LEMMA DpkgInv == IInv /\ CollectDpkg => IInv'
  <1> SUFFICES ASSUME IInv, CollectDpkg PROVE IInv'
    OBVIOUS
  <1> DEFINE Seen(a, h) == [audit |-> Succeeded(a) /\ a.lines # {},
                            held |-> Succeeded(h) /\ h.lines # {}]
             Reported(a, h) == IssueOf(a, "audit") \cup IssueOf(h, "holds")
             Gaps(audit, held, a, h) ==
                 Gap(a, Entry(audit), "audit") \cup Gap(h, Entry(held), "holds")
  <1>0. PICK audit \in BOOLEAN, held \in BOOLEAN :
           \E a \in AnswersOf(Entry(audit)), h \in AnswersOf(Entry(held)) :
               Collect("sources", "dpkg", Seen(a, h), [audit |-> audit, held |-> held],
                       Reported(a, h), Gaps(audit, held, a, h))
    BY DEF CollectDpkg
  <1>1. PICK a \in AnswersOf(Entry(audit)), h \in AnswersOf(Entry(held)) :
           Collect("sources", "dpkg", Seen(a, h), [audit |-> audit, held |-> held],
                   Reported(a, h), Gaps(audit, held, a, h))
    BY <1>0
  <1> DEFINE seen == Seen(a, h)
             real == [audit |-> audit, held |-> held]
             reported == Reported(a, h)
             gaps == Gaps(audit, held, a, h)
  <1>2. ASSUME NEW what \in BOOLEAN, NEW b \in AnswersOf(Entry(what)), NEW name,
               name # "tail"
        PROVE  /\ Succeeded(b) /\ b.lines # {} => what
               /\ {name, "tail"} \cap Gap(b, Entry(what), name) = {} =>
                     (what <=> Succeeded(b) /\ b.lines # {})
               /\ name \in Gap(b, Entry(what), name) =>
                     IssueOf(b, name) # {} \/ (Succeeded(b) /\ b.lines # {})
               /\ IssueOf(b, name) # {} => Gap(b, Entry(what), name) # {}
    <2>1. /\ b.kind \in {"error", "spawn_failed", "timed_out", "failed", "cut", "whole"}
          /\ b.lines \subseteq Entry(what)
          /\ b.kind = "cut" => b.lines # {}
      BY AnswerOfLines
    <2>2. b.lines # {} => what
      BY <2>1 DEF Entry
    <2>3. b.lines = Entry(what) /\ what => b.lines # {}
      BY DEF Entry
    <2>4. CASE b.kind = "whole"
      <3>1. Succeeded(b) /\ IssueOf(b, name) = {}
        BY <2>4 DEF Succeeded, IssueOf
      <3>2. CASE b.lines = Entry(what)
        <4>1. Gap(b, Entry(what), name) = {} /\ (what <=> b.lines # {})
          BY <2>2, <2>3, <2>4, <3>2 DEF Gap
        <4> QED BY <3>1, <4>1
      <3>3. CASE b.lines # Entry(what)
        <4>1. Gap(b, Entry(what), name) = {"tail"}
          BY <2>4, <3>3 DEF Gap
        <4>2. /\ "tail" \in {name, "tail"} \cap Gap(b, Entry(what), name)
              /\ name \notin Gap(b, Entry(what), name)
          BY <1>2, <4>1
        <4> QED BY <2>2, <3>1, <4>2
      <3> QED BY <3>2, <3>3
    <2>5. CASE b.kind = "cut"
      <3>1. b.lines # {} /\ what /\ Succeeded(b)
        BY <2>1, <2>2, <2>5 DEF Succeeded
      <3>2. IssueOf(b, name) = {}
        BY <3>1 DEF IssueOf
      <3> QED BY <3>1, <3>2
    <2>6. CASE b.kind \notin {"cut", "whole"}
      BY <2>6 DEF Succeeded, Gap, IssueOf
    <2> QED BY <2>4, <2>5, <2>6
  <1>3. DpkgFits(seen, real, gaps)
    <2>1. /\ {"audit", "tail"} \cap gaps = {} =>
                {"audit", "tail"} \cap Gap(a, Entry(audit), "audit") = {}
          /\ {"holds", "tail"} \cap gaps = {} =>
                {"holds", "tail"} \cap Gap(h, Entry(held), "holds") = {}
      OBVIOUS
    <2> QED BY <1>2, <2>1 DEF DpkgFits, Without
  <1>4. \A gap \in gaps \cap Own["dpkg"] : reported # {} \/ Tells(gap, seen)
    BY <1>2 DEF Own, Tells, Gap
  <1>5. reported # {} => gaps # {}
    BY <1>2
  <1>6. Sound("dpkg", seen, real, reported, gaps)
    <2>1. gaps \subseteq Own["dpkg"] \cup Holes /\ reported \subseteq Issues
      BY DEF Own, Holes, Issues, Gap, IssueOf
    <2> HIDE DEF seen, real, reported, gaps
    <2> QED BY <1>3, <1>4, <1>5, <2>1 DEF Sound, Fits
  <1>7. pc = "dpkg"
    BY DEF CollectDpkg
  <1>8. /\ [evidence EXCEPT !["dpkg"] = seen] \in Snapshots
        /\ [truth EXCEPT !["dpkg"] = real] \in Snapshots
    <2>1. /\ seen \in [audit : BOOLEAN, held : BOOLEAN]
            /\ real \in [audit : BOOLEAN, held : BOOLEAN]
      BY DEF Succeeded
    <2> HIDE DEF seen, real
    <2> QED BY <2>1 DEF Snapshots, IInv, Shape
  <1> QED BY <1>1, <1>6, <1>7, <1>8, CollectInv DEF Collectors, Position

LEMMA SourcesInv == IInv /\ CollectSources => IInv'
  <1> SUFFICES ASSUME IInv, CollectSources PROVE IInv'
    OBVIOUS
  <1>1. CASE Throw("sources")
    BY <1>1, ThrowInv DEF Collectors, Evidence
  <1>2. CASE ~Throw("sources")
    <2> DEFINE Type == [thirdParty : BOOLEAN, duplicates : BOOLEAN, tabs : BOOLEAN]
    <2>1. PICK seen \in Type, real \in Type, gaps \in {{}, {"sources"}} :
             /\ Collect("storage", "sources", seen, real, {}, gaps)
             /\ gaps = {} => seen = real
      <3> DEFINE Facts(a, b, c) == [thirdParty |-> a, duplicates |-> b, tabs |-> c]
      <3>1. PICK a \in BOOLEAN, b \in BOOLEAN, c \in BOOLEAN :
               /\ c => a \/ b
               /\ \/ Collect("storage", "sources", Facts(a, b, c), Facts(a, b, c), {}, {})
                  \/ \E d, e, f \in BOOLEAN :
                        /\ d => a
                        /\ e => b
                        /\ f => c /\ (d \/ e)
                        /\ Collect("storage", "sources", Facts(d, e, f), Facts(a, b, c), {},
                                   {"sources"})
        BY <1>2, Zenon DEF CollectSources
      <3>2. \A d, e, f \in BOOLEAN : Facts(d, e, f) \in Type
        OBVIOUS
      <3> HIDE DEF Facts
      <3> QED BY <3>1, <3>2
    <2>2. Sound("sources", seen, real, {}, gaps)
      BY <2>1 DEF Sound, Fits, SourcesFits, Own, Holes
    <2>3. /\ [evidence EXCEPT !["sources"] = seen] \in Snapshots
          /\ [truth EXCEPT !["sources"] = real] \in Snapshots
      BY DEF Snapshots, IInv, Shape
    <2>4. pc = "sources"
      BY DEF CollectSources, Throw
    <2> QED BY <2>1, <2>2, <2>3, <2>4, CollectInv DEF Collectors, Position
  <1> QED BY <1>1, <1>2

LEMMA StorageInv == IInv /\ CollectStorage => IInv'
  <1> SUFFICES ASSUME IInv, CollectStorage PROVE IInv'
    OBVIOUS
  <1>1. PICK root \in {"enough", "low"}, boot \in {"enough", "low", "absent"},
             efi \in {"enough", "low", "absent"}, failing \in SUBSET {"root", "boot", "efi"} :
           Collect("kernel", "storage",
                   [root |-> Probe(root, "root" \in failing),
                    boot |-> Probe(boot, "boot" \in failing),
                    efi |-> Probe(efi, "efi" \in failing)],
                   [root |-> root, boot |-> boot, efi |-> efi], {}, failing)
    BY DEF CollectStorage
  <1> DEFINE seen == [root |-> Probe(root, "root" \in failing),
                      boot |-> Probe(boot, "boot" \in failing),
                      efi |-> Probe(efi, "efi" \in failing)]
             real == [root |-> root, boot |-> boot, efi |-> efi]
  <1>2. StorageFits(seen, real, failing)
    BY DEF StorageFits, Probe
  <1>3. \A gap \in failing : Tells(gap, seen)
    BY DEF Tells, Probe
  <1>4. Sound("storage", seen, real, {}, failing)
    BY <1>2, <1>3 DEF Sound, Fits, Own
  <1>5. pc = "storage"
    BY DEF CollectStorage
  <1>6. /\ [evidence EXCEPT !["storage"] = seen] \in Snapshots
        /\ [truth EXCEPT !["storage"] = real] \in Snapshots
    <2>1. /\ seen \in [root : Rooms, boot : Rooms, efi : Rooms]
            /\ real \in [root : Rooms, boot : Rooms, efi : Rooms]
      BY DEF Probe, Rooms
    <2> HIDE DEF seen, real
    <2> QED BY <2>1 DEF Snapshots, IInv, Shape
  <1> QED BY <1>1, <1>4, <1>5, <1>6, CollectInv DEF Collectors, Position

LEMMA DkmsInv == IInv /\ CollectDkms => IInv'
  <1> SUFFICES ASSUME IInv, CollectDkms PROVE IInv'
    OBVIOUS
  <1> DEFINE Seen(a) == [missing |-> ~Started(a), lines |-> a.lines]
             Real(lines) == [missing |-> FALSE, lines |-> lines]
             Reported(a) == IF Started(a) /\ a.kind # "whole" THEN {"dkms"} ELSE {}
  <1>0. PICK lines \in SUBSET DkmsLines : \E a \in AnswersOf(lines) :
           Collect("secureBoot", "dkms", Seen(a), Real(lines), Reported(a),
                   Gap(a, lines, "dkms"))
    BY DEF CollectDkms
  <1>1. PICK a \in AnswersOf(lines) :
           Collect("secureBoot", "dkms", Seen(a), Real(lines), Reported(a),
                   Gap(a, lines, "dkms"))
    BY <1>0
  <1> DEFINE seen == Seen(a)
             real == Real(lines)
             reported == Reported(a)
             gaps == Gap(a, lines, "dkms")
  <1>2. DkmsFits(seen, real, gaps)
    BY AnswerOfLines DEF DkmsFits, Without, Gap, Started
  <1>3. Sound("dkms", seen, real, reported, gaps)
    BY <1>2, AnswerOfLines
       DEF Sound, Fits, Own, Holes, Issues, Collectors, Gap, Tells, Started
  <1>4. pc = "dkms"
    BY DEF CollectDkms
  <1>5. /\ [evidence EXCEPT !["dkms"] = seen] \in Snapshots
        /\ [truth EXCEPT !["dkms"] = real] \in Snapshots
    <2>1. /\ seen \in [missing : BOOLEAN, lines : SUBSET DkmsLines]
            /\ real \in [missing : BOOLEAN, lines : SUBSET DkmsLines]
      BY AnswerOfLines DEF Started
    <2> HIDE DEF seen, real
    <2> QED BY <2>1 DEF Snapshots, IInv, Shape
  <1> HIDE DEF Seen, Real, Reported
  <1> QED BY <1>1, <1>3, <1>4, <1>5, CollectInv DEF Collectors, Position

LEMMA SecureBootInv == IInv /\ CollectSecureBoot => IInv'
  <1> SUFFICES ASSUME IInv, CollectSecureBoot PROVE IInv'
    OBVIOUS
  <1> DEFINE Lines(state) == {state} \ {"unsupported"}
             Looked(state, a) ==
                /\ state = "unsupported" => ~Succeeded(a)
                /\ Collect("reboot", "secureBoot",
                      [unknown |-> a.lines = {} \/ a.kind # "whole",
                       enabled |-> "enabled" \in a.lines],
                      [unknown |-> state = "unsupported", enabled |-> state = "enabled"],
                      {}, Gap(a, Lines(state), "secureBoot"))
  <1>0. PICK state \in {"enabled", "disabled", "unsupported"} :
           \E a \in AnswersOf(Lines(state)) : Looked(state, a)
    BY DEF CollectSecureBoot
  <1>1. PICK a \in AnswersOf(Lines(state)) : Looked(state, a)
    BY <1>0
  <1> DEFINE seen == [unknown |-> a.lines = {} \/ a.kind # "whole",
                      enabled |-> "enabled" \in a.lines]
             real == [unknown |-> state = "unsupported", enabled |-> state = "enabled"]
             gaps == Gap(a, Lines(state), "secureBoot")
  <1>2. gaps = {} => seen = real
    BY <1>1 DEF Gap, Succeeded
  <1>3. Sound("secureBoot", seen, real, {}, gaps)
    BY <1>2 DEF Sound, Fits, SecureBootFits, Without, Own, Holes, Gap, Tells
  <1>4. pc = "secureBoot"
    BY DEF CollectSecureBoot
  <1>5. /\ [evidence EXCEPT !["secureBoot"] = seen] \in Snapshots
        /\ [truth EXCEPT !["secureBoot"] = real] \in Snapshots
    <2>1. /\ seen \in [unknown : BOOLEAN, enabled : BOOLEAN]
            /\ real \in [unknown : BOOLEAN, enabled : BOOLEAN]
      OBVIOUS
    <2> HIDE DEF seen, real
    <2> QED BY <2>1 DEF Snapshots, IInv, Shape
  <1> QED BY <1>1, <1>3, <1>4, <1>5, CollectInv DEF Collectors, Position

LEMMA RebootInv == IInv /\ CollectReboot => IInv'
  <1> SUFFICES ASSUME IInv, CollectReboot PROVE IInv'
    OBVIOUS
  <1>1. CASE Throw("reboot")
    BY <1>1, ThrowInv DEF Collectors, Evidence
  <1>2. CASE ~Throw("reboot")
    <2> DEFINE Seen(required, failing) == [required |-> required /\ failing # "marker",
                                           unreadable |-> failing # "nothing"]
               Real(required) == [required |-> required, unreadable |-> FALSE]
               Gaps(failing) == IF failing = "nothing" THEN {} ELSE {"reboot"}
    <2>1. PICK required \in BOOLEAN, failing \in {"nothing", "marker", "list"} :
             Collect("report", "reboot", Seen(required, failing), Real(required), {},
                     Gaps(failing))
      BY <1>2 DEF CollectReboot
    <2> DEFINE seen == Seen(required, failing)
               real == Real(required)
               gaps == Gaps(failing)
    <2>2. Sound("reboot", seen, real, {}, gaps)
      BY DEF Sound, Fits, RebootFits, Own, Tells
    <2>3. /\ [evidence EXCEPT !["reboot"] = seen] \in Snapshots
          /\ [truth EXCEPT !["reboot"] = real] \in Snapshots
      <3>1. /\ seen \in [required : BOOLEAN, unreadable : BOOLEAN]
              /\ real \in [required : BOOLEAN, unreadable : BOOLEAN]
        OBVIOUS
      <3> HIDE DEF seen, real
      <3> QED BY <3>1 DEF Snapshots, IInv, Shape
    <2>4. pc = "reboot"
      BY DEF CollectReboot, Throw
    <2> HIDE DEF Seen, Real, Gaps
    <2> QED BY <2>1, <2>2, <2>3, <2>4, CollectInv DEF Collectors, Position
  <1> QED BY <1>1, <1>2

-----------------------------------------------------------------------------
(* Kernels are counted                                                     *)

LEMMA SmallSets ==
    ASSUME NEW S \in SUBSET {"running", "older", "meta"}, NEW T \in SUBSET S
    PROVE  /\ Cardinality(S) \in Nat /\ Cardinality(T) \in Nat
           /\ Cardinality(T) <= Cardinality(S)
           /\ Cardinality(S) > 0 <=> S # {}
  <1>1. IsFiniteSet({"running", "older", "meta", "meta", "meta", "meta"})
    BY SixAreFinite
  <1>2. IsFiniteSet(S)
    BY <1>1, FS_Subset
  <1>3. IsFiniteSet(T) /\ Cardinality(T) <= Cardinality(S)
    BY <1>2, FS_Subset
  <1>4. Cardinality(S) \in Nat /\ Cardinality(T) \in Nat
    BY <1>2, <1>3, FS_CardinalityType
  <1> QED BY <1>2, <1>3, <1>4, FS_EmptySet

LEMMA KernelInv == IInv /\ CollectKernel => IInv'
  <1> SUFFICES ASSUME IInv, CollectKernel PROVE IInv'
    OBVIOUS
  <1>1. CASE Throw("kernel")
    BY <1>1, ThrowInv DEF Collectors, Evidence
  <1> DEFINE Found(a) == IF Succeeded(a) THEN a.lines ELSE {}
             Kernels(installed) == installed \ {"meta"}
             Facts(names, issue) ==
                 [kernels |-> Cardinality(names), fallback |-> Cardinality(names) > 1,
                  inconsistent |-> issue]
             Gaps(a, installed) ==
                 (IF Cardinality(Found(a)) > 1 THEN {} ELSE Gap(a, installed, "kernel"))
                 \cup IF "meta" \in Found(a) /\ Cardinality(Kernels(installed)) < 2
                      THEN {"meta"} ELSE {}
  <1>2. CASE ~Throw("kernel")
    <2>1. PICK installed \in SUBSET {"running", "older", "meta"}, issue \in BOOLEAN :
             \E a \in AnswersOf(installed) :
                Collect("dkms", "kernel", Facts(Found(a), issue),
                        Facts(Kernels(installed), issue), IssueOf(a, "kernel"),
                        Gaps(a, installed))
      BY <1>2 DEF CollectKernel
    <2>2. PICK a \in AnswersOf(installed) :
             Collect("dkms", "kernel", Facts(Found(a), issue),
                     Facts(Kernels(installed), issue), IssueOf(a, "kernel"),
                     Gaps(a, installed))
      BY <2>1
    <2> DEFINE listed == Found(a)
               kernels == Kernels(installed)
               gaps == Gaps(a, installed)
               seen == Facts(listed, issue)
               real == Facts(kernels, issue)
    <2>3. listed \subseteq installed /\ (listed # {} => Succeeded(a))
      BY AnswerOfLines
    <2>4. /\ Cardinality(listed) \in Nat /\ Cardinality(kernels) \in Nat
          /\ Cardinality(listed) > 0 <=> listed # {}
          /\ Cardinality(kernels) > 0 <=> kernels # {}
      BY <2>3, SmallSets
    <2>5. "meta" \notin listed => Cardinality(listed) <= Cardinality(kernels)
      <3> SUFFICES ASSUME "meta" \notin listed PROVE listed \subseteq kernels
        BY SmallSets
      <3> QED BY <2>3
    <2>6. "meta" \in listed /\ "meta" \notin gaps => Cardinality(kernels) > 1
      BY <2>4
    <2>7. listed = installed => Cardinality(kernels) <= Cardinality(listed)
      BY SmallSets
    <2>8. Cardinality(listed) > 1 \/ Gap(a, installed, "kernel") \subseteq gaps
      OBVIOUS
    <2>9. Gap(a, installed, "kernel") = {} => listed = installed
      BY DEF Gap, Succeeded
    <2>10. Gap(a, installed, "kernel") \subseteq {"kernel", "tail"}
      BY DEF Gap
    <2>11. "kernel" \in gaps => ~(Cardinality(listed) > 1)
      OBVIOUS
    <2>12. IssueOf(a, "kernel") # {} => gaps # {}
      <3> SUFFICES ASSUME IssueOf(a, "kernel") # {} PROVE "kernel" \in gaps
        OBVIOUS
      <3>1. ~Succeeded(a) /\ listed = {}
        BY <2>3 DEF IssueOf
      <3>2. Gap(a, installed, "kernel") = {"kernel"} /\ ~(Cardinality(listed) > 1)
        BY <2>4, <3>1 DEF Gap, Succeeded
      <3> QED BY <2>8, <3>2
    <2>13. gaps \subseteq {"kernel", "tail", "meta"} /\ IssueOf(a, "kernel") \subseteq Issues
      BY <2>10 DEF IssueOf, Issues, Collectors
    <2> HIDE DEF listed, kernels, gaps
    <2>14. KernelFits(seen, real, gaps)
      <3>1. "meta" \notin gaps /\ Cardinality(listed) > 0 =>
               /\ Cardinality(kernels) > 0
               /\ Cardinality(listed) > 1 => Cardinality(kernels) > 1
        BY <2>4, <2>5, <2>6
      <3>2. {"kernel", "tail"} \cap gaps = {} /\ Cardinality(kernels) > 1
               => Cardinality(listed) > 1
        BY <2>4, <2>7, <2>8, <2>9, <2>10
      <3>3. Cardinality(listed) > 1 => Cardinality(listed) > 0
        BY <2>4
      <3> QED BY <3>1, <3>2, <3>3 DEF KernelFits, Without
    <2>15. Sound("kernel", seen, real, IssueOf(a, "kernel"), gaps)
      BY <2>11, <2>12, <2>13, <2>14 DEF Sound, Fits, Own, Holes, Tells
    <2>16. /\ [evidence EXCEPT !["kernel"] = seen] \in Snapshots
           /\ [truth EXCEPT !["kernel"] = real] \in Snapshots
      <3>1. /\ seen \in [kernels : Nat, fallback : BOOLEAN, inconsistent : BOOLEAN]
            /\ real \in [kernels : Nat, fallback : BOOLEAN, inconsistent : BOOLEAN]
        BY <2>4
      <3> HIDE DEF seen, real
      <3> QED BY <3>1 DEF Snapshots, IInv, Shape
    <2>17. pc = "kernel"
      BY DEF CollectKernel, Throw
    <2>18. Collect("dkms", "kernel", seen, real, IssueOf(a, "kernel"), gaps)
      BY <2>2 DEF listed, kernels, gaps
    <2> HIDE DEF seen, real
    <2> QED BY <2>15, <2>16, <2>17, <2>18, CollectInv DEF Collectors, Position
  <1> QED BY <1>1, <1>2

-----------------------------------------------------------------------------
(* The text of the simulation                                              *)

Words == {"banner", "REMOVED", "NEW", "new", "summary", "essential", "other"}

(* Line by line, what SimulationText puts together.                        *)
LEMMA TextLines ==
    ASSUME NEW n \in Nat \ {0}, NEW order \in [1 .. n -> Removals]
    PROVE  LET text == SimulationText(order)
           IN  /\ text \in Seq(Words) /\ Len(text) = n + 5 /\ DOMAIN text = 1 .. n + 5
               /\ text[1] = "banner" /\ text[2] = "REMOVED"
               /\ \A i \in 1 .. n : text[i + 2] = order[i]
               /\ text[n + 3] = "NEW" /\ text[n + 4] = "new" /\ text[n + 5] = "summary"
  <1> DEFINE end == <<"NEW", "new", "summary">>
             named == <<"REMOVED">> \o order
             front == <<"banner">> \o named
  <1>1. order \in Seq(Words) /\ Len(order) = n /\ order # <<>>
    <2>1. order \in [1 .. n -> Words]
      BY DEF Removals, Words
    <2>2. order \in Seq(Words)
      BY <2>1, SeqDef
    <2>3. Len(order) \in Nat /\ 1 .. Len(order) = 1 .. n
      BY <2>2, LenProperties
    <2>4. Len(order) = n
      BY <2>3
    <2> QED BY <2>2, <2>4, EmptySeq
  <1>2. /\ named \in Seq(Words) /\ Len(named) = n + 1 /\ named[1] = "REMOVED"
        /\ \A i \in 1 .. n : named[i + 1] = order[i]
    <2>1. <<"REMOVED">> \in Seq(Words) /\ Len(<<"REMOVED">>) = 1 /\ <<"REMOVED">>[1] = "REMOVED"
      BY DEF Words
    <2>2. /\ named \in Seq(Words) /\ Len(named) = 1 + n
          /\ \A i \in 1 .. 1 + n :
                named[i] = IF i <= 1 THEN <<"REMOVED">>[i] ELSE order[i - 1]
      BY <1>1, <2>1, ConcatProperties
    <2> HIDE DEF named
    <2> QED BY <2>1, <2>2
  <1> HIDE DEF named
  <1>3. /\ front \in Seq(Words) /\ Len(front) = n + 2 /\ front[1] = "banner"
        /\ \A i \in 1 .. n + 1 : front[i + 1] = named[i]
    <2>1. <<"banner">> \in Seq(Words) /\ Len(<<"banner">>) = 1 /\ <<"banner">>[1] = "banner"
      BY DEF Words
    <2>2. /\ front \in Seq(Words) /\ Len(front) = 1 + (n + 1)
          /\ \A i \in 1 .. 1 + (n + 1) :
                front[i] = IF i <= 1 THEN <<"banner">>[i] ELSE named[i - 1]
      BY <1>2, <2>1, ConcatProperties
    <2> HIDE DEF front
    <2> QED BY <2>1, <2>2
  <1> HIDE DEF front
  <1>4. front[2] = "REMOVED" /\ \A i \in 1 .. n : front[i + 2] = order[i]
    <2>1. 1 \in 1 .. n + 1 /\ \A i \in 1 .. n : i + 1 \in 1 .. n + 1 /\ (i + 1) + 1 = i + 2
      OBVIOUS
    <2>2. front[1 + 1] = named[1]
      BY <1>3, <2>1
    <2> QED BY <1>2, <1>3, <2>1, <2>2
  <1>5. /\ front \o end \in Seq(Words)
        /\ Len(front \o end) = n + 5 /\ DOMAIN (front \o end) = 1 .. n + 5
        /\ \A i \in 1 .. n + 2 : (front \o end)[i] = front[i]
        /\ (front \o end)[n + 3] = "NEW" /\ (front \o end)[n + 4] = "new"
        /\ (front \o end)[n + 5] = "summary"
    <2>1. /\ end \in Seq(Words) /\ Len(end) = 3
          /\ end[1] = "NEW" /\ end[2] = "new" /\ end[3] = "summary"
      BY DEF Words
    <2>2. /\ front \o end \in Seq(Words) /\ Len(front \o end) = (n + 2) + 3
          /\ \A i \in 1 .. (n + 2) + 3 :
                (front \o end)[i] = IF i <= n + 2 THEN front[i] ELSE end[i - (n + 2)]
      BY <1>3, <2>1, ConcatProperties
    <2>3. DOMAIN (front \o end) = 1 .. n + 5
      BY <2>2, LenProperties
    <2> HIDE DEF end
    <2>4. /\ n + 3 \in 1 .. (n + 2) + 3 /\ ~(n + 3 <= n + 2) /\ (n + 3) - (n + 2) = 1
          /\ n + 4 \in 1 .. (n + 2) + 3 /\ ~(n + 4 <= n + 2) /\ (n + 4) - (n + 2) = 2
          /\ n + 5 \in 1 .. (n + 2) + 3 /\ ~(n + 5 <= n + 2) /\ (n + 5) - (n + 2) = 3
      OBVIOUS
    <2>5. \A i \in 1 .. n + 2 : i \in 1 .. (n + 2) + 3 /\ i <= n + 2
      OBVIOUS
    <2> QED BY <2>1, <2>2, <2>3, <2>4, <2>5
  <1>6. SimulationText(order) = front \o end
    BY <1>1 DEF SimulationText, front, named
  <1>7. 1 \in 1 .. n + 2 /\ 2 \in 1 .. n + 2 /\ \A i \in 1 .. n : i + 2 \in 1 .. n + 2
    OBVIOUS
  <1> HIDE DEF end
  <1> QED BY <1>3, <1>4, <1>5, <1>6, <1>7

LEMMA EmptyText ==
    LET text == SimulationText(<<>>)
    IN  text \in Seq(Words) /\ Len(text) = 4 /\ \A i \in 1 .. 4 : text[i] # "REMOVED"
  <1> DEFINE banner == <<"banner">>
             end == <<"NEW", "new", "summary">>
  <1>1. /\ banner \in Seq(Words) /\ Len(banner) = 1 /\ banner[1] = "banner"
        /\ end \in Seq(Words) /\ Len(end) = 3
        /\ end[1] = "NEW" /\ end[2] = "new" /\ end[3] = "summary"
    BY DEF Words
  <1> HIDE DEF banner, end
  <1>2. banner \o <<>> = banner
    BY <1>1, ConcatEmptySeq
  <1>3. SimulationText(<<>>) = banner \o end
    BY <1>2 DEF SimulationText, banner, end
  <1>4. /\ banner \o end \in Seq(Words) /\ Len(banner \o end) = Len(banner) + Len(end)
        /\ \A i \in 1 .. Len(banner) + Len(end) :
              (banner \o end)[i] = IF i <= Len(banner) THEN banner[i]
                                   ELSE end[i - Len(banner)]
    BY <1>1, ConcatProperties
  <1> DEFINE text == banner \o end
  <1>5. Len(text) = 4
    BY <1>1, <1>4
  <1>6. text[1] = banner[1] /\ \A i \in 2 .. 4 : text[i] = end[i - 1]
    BY <1>1, <1>4
  <1> HIDE DEF text
  <1>7. text[1] = "banner" /\ text[2] = "NEW" /\ text[3] = "new" /\ text[4] = "summary"
    <2>1. 2 \in 2 .. 4 /\ 3 \in 2 .. 4 /\ 4 \in 2 .. 4
      OBVIOUS
    <2>2. text[2] = end[1] /\ text[3] = end[2] /\ text[4] = end[3]
      BY <1>6, <2>1
    <2> QED BY <1>1, <1>6, <2>2
  <1>8. \A i \in 1 .. 4 : i = 1 \/ i = 2 \/ i = 3 \/ i = 4
    OBVIOUS
  <1>9. text \in Seq(Words)
    BY <1>4 DEF text
  <1> QED BY <1>3, <1>5, <1>7, <1>8, <1>9 DEF text

(* The names under the heading of a whole text are the removals.           *)
LEMMA SectionIsRemovals ==
    ASSUME NEW n \in Nat \ {0}, NEW order \in [1 .. n -> Removals]
    PROVE  Section(SimulationText(order)) = {order[i] : i \in 1 .. n}
  <1> DEFINE text == SimulationText(order)
  <1>1. /\ Len(text) = n + 5 /\ DOMAIN text = 1 .. n + 5
        /\ text[1] = "banner" /\ text[2] = "REMOVED"
        /\ \A i \in 1 .. n : text[i + 2] = order[i]
        /\ text[n + 3] = "NEW"
    BY TextLines
  <1> HIDE DEF text
  <1>2. \A h \in Nat \ {0} : Heading(text, h) <=> h = 2
    BY <1>1 DEF Heading
  <1>3. \A i \in 3 .. n + 2 : text[i] \in Removals /\ text[i] = order[i - 2]
    BY <1>1
  <1>4. ASSUME NEW j \in DOMAIN text
        PROVE  /\ text[j] \in Indented
               /\ \E h \in 1 .. j - 1 :
                     /\ Heading(text, h)
                     /\ \A k \in h .. j : text[k] \in Indented \cup {"REMOVED"}
               <=> j \in 3 .. n + 2
    <2>1. ASSUME j \in 3 .. n + 2
          PROVE  \A k \in 2 .. j : text[k] \in Indented \cup {"REMOVED"}
      BY <1>1, <1>3, <2>1 DEF Indented
    <2>2. ASSUME j > 2, \A k \in 2 .. j : text[k] \in Indented \cup {"REMOVED"}
          PROVE  j \in 3 .. n + 2
      <3>1. j \in Nat /\ (n + 3 <= j => n + 3 \in 2 .. j)
        BY <1>1
      <3>2. text[n + 3] \notin Indented \cup {"REMOVED"}
        BY <1>1 DEF Indented, Removals
      <3> QED BY <2>2, <3>1, <3>2
    <2>3. j \in 3 .. n + 2 => text[j] \in Indented
      BY <1>3 DEF Indented
    <2> QED BY <1>1, <1>2, <2>1, <2>2, <2>3
  <1>5. Section(text) = {text[i] : i \in 3 .. n + 2}
    <2>1. 3 .. n + 2 \subseteq DOMAIN text
      BY <1>1
    <2> QED BY <1>4, <2>1 DEF Section
  <1>6. {text[i] : i \in 3 .. n + 2} = {order[i] : i \in 1 .. n}
    <2>1. \A i \in 1 .. n : i + 2 \in 3 .. n + 2 /\ text[i + 2] = order[i]
      BY <1>1
    <2>2. \A i \in 3 .. n + 2 : i - 2 \in 1 .. n /\ text[i] = order[i - 2]
      BY <1>1
    <2> QED BY <2>1, <2>2
  <1> QED BY <1>5, <1>6 DEF text

(* What is left of a text is no longer than it, and a line that has changed*)
(* was a name and is one.                                                  *)
LEMMA BeginningLines ==
    ASSUME NEW text \in Seq(Words), NEW lines \in Beginnings(text) \cup {text}
    PROVE  /\ lines \in Seq(Words) /\ Len(lines) <= Len(text)
           /\ \A i \in 1 .. Len(lines) :
                 lines[i] = text[i] \/ {lines[i], text[i]} \subseteq Removals
  <1> DEFINE Left(n) == SubSeq(text, 1, n)
  <1>1. Len(text) \in Nat /\ \A i \in 1 .. Len(text) : text[i] \in Words
    BY LenProperties, ElementOfSeq
  <1>2. ASSUME NEW n \in 0 .. Len(text)
        PROVE  /\ Left(n) \in Seq(Words) /\ Len(Left(n)) = n
               /\ \A i \in 1 .. n : Left(n)[i] = text[i]
    <2>1. /\ Left(n) \in Seq(Words)
          /\ Len(Left(n)) = IF 1 <= n THEN n - 1 + 1 ELSE 0
          /\ \A i \in 1 .. n - 1 + 1 : Left(n)[i] = text[1 + i - 1]
      <3>1. 1 \in Int /\ n \in Int /\ \A i \in 1 .. n : text[i] \in Words
        BY <1>1
      <3> QED BY <3>1, SubSeqProperties
    <2> HIDE DEF Left
    <2>2. n - 1 + 1 = n /\ (~(1 <= n) => n = 0) /\ \A i \in 1 .. n : 1 + i - 1 = i
      BY <1>1
    <2> QED BY <2>1, <2>2
  <1>3. CASE lines = text
    BY <1>1, <1>3
  <1>4. CASE \E n \in 0 .. Len(text) : lines = Left(n)
    <2>1. PICK n \in 0 .. Len(text) : lines = Left(n)
      BY <1>4
    <2> HIDE DEF Left
    <2> QED BY <1>1, <1>2, <2>1
  <1>5. CASE \E n \in {m \in 1 .. Len(text) : text[m] \in Removals}, name \in Removals :
                lines = [Left(n) EXCEPT ![n] = name]
    <2>1. PICK n \in {m \in 1 .. Len(text) : text[m] \in Removals}, name \in Removals :
             lines = [Left(n) EXCEPT ![n] = name]
      BY <1>5
    <2>2. n \in 0 .. Len(text) /\ n \in 1 .. n /\ name \in Words
      BY <1>1 DEF Words, Removals
    <2> HIDE DEF Left
    <2>3. /\ Left(n) \in Seq(Words) /\ Len(Left(n)) = n
          /\ \A i \in 1 .. n : Left(n)[i] = text[i]
      BY <1>2, <2>2
    <2>4. /\ lines \in Seq(Words) /\ Len(lines) = n
          /\ \A i \in 1 .. n : lines[i] = IF i = n THEN name ELSE Left(n)[i]
      BY <2>1, <2>2, <2>3, ExceptSeq
    <2> QED BY <1>1, <2>1, <2>3, <2>4
  <1> QED
    BY <1>3, <1>4, <1>5 DEF Beginnings

LEMMA OrderOf ==
    ASSUME NEW removals \in SUBSET Removals, NEW order \in Orders(removals)
    PROVE  \/ removals = {} /\ order = <<>>
           \/ \E n \in Nat \ {0} : /\ order \in [1 .. n -> Removals]
                                   /\ {order[i] : i \in 1 .. n} = removals
  <1> DEFINE n == Cardinality(removals)
  <1>1. IsFiniteSet({"essential", "other", "other", "other", "other", "other"})
    BY SixAreFinite
  <1>2. IsFiniteSet(removals)
    BY <1>1, FS_Subset DEF Removals
  <1>3. n \in Nat /\ (n = 0 <=> removals = {})
    BY <1>2, FS_CardinalityType, FS_EmptySet
  <1> HIDE DEF n
  <1>4. order \in [1 .. n -> removals] /\ \A t \in removals : \E s \in 1 .. n : order[s] = t
    BY DEF Orders, Surjection, n
  <1>5. CASE n = 0
    <2>1. removals = {} /\ 1 .. n = {}
      BY <1>3, <1>5
    <2>2. order \in Seq(Words)
      <3>1. order \in [1 .. n -> Words]
        BY <1>4, <2>1
      <3> QED BY <1>3, <3>1, SeqDef
    <2>3. Len(order) \in Nat /\ 1 .. Len(order) = {}
      BY <1>4, <2>1, <2>2, LenProperties
    <2>4. Len(order) = 0
      BY <2>3
    <2> QED BY <2>1, <2>2, <2>4, EmptySeq
  <1>6. CASE n # 0
    <2>1. order \in [1 .. n -> Removals] /\ {order[i] : i \in 1 .. n} = removals
      BY <1>4
    <2> QED BY <1>3, <1>6, <2>1
  <1> QED BY <1>5, <1>6

(* The names under the heading of a whole text are the removals, those of  *)
(* the beginning of one are names of packages.                             *)
LEMMA SectionOfWhole ==
    ASSUME NEW removals \in SUBSET Removals, NEW order \in Orders(removals)
    PROVE  Section(SimulationText(order)) = removals
  <1>1. CASE removals = {} /\ order = <<>>
    <2> DEFINE text == SimulationText(<<>>)
    <2>1. DOMAIN text = 1 .. 4 /\ \A i \in 1 .. 4 : text[i] # "REMOVED"
      BY EmptyText, LenProperties
    <2> HIDE DEF text
    <2>2. \A j \in DOMAIN text : \A h \in 1 .. j - 1 : ~Heading(text, h)
      BY <2>1 DEF Heading
    <2>3. Section(text) = {}
      BY <2>2 DEF Section
    <2> QED BY <1>1, <2>3 DEF text
  <1>2. CASE \E n \in Nat \ {0} : /\ order \in [1 .. n -> Removals]
                                  /\ {order[i] : i \in 1 .. n} = removals
    BY <1>2, SectionIsRemovals
  <1> QED BY <1>1, <1>2, OrderOf

LEMMA SectionOfBeginning ==
    ASSUME NEW removals \in SUBSET Removals, NEW order \in Orders(removals),
           NEW lines \in Beginnings(SimulationText(order)) \cup {SimulationText(order)}
    PROVE  Section(lines) \subseteq Removals
  <1> DEFINE text == SimulationText(order)
  <1> SUFFICES ASSUME NEW j \in DOMAIN lines, lines[j] \in Indented, NEW h \in 1 .. j - 1,
                      Heading(lines, h),
                      \A k \in h .. j : lines[k] \in Indented \cup {"REMOVED"}
               PROVE  lines[j] \in Removals
    BY DEF Section
  <1>1. CASE removals = {} /\ order = <<>>
    <2>1. text \in Seq(Words) /\ Len(text) = 4 /\ \A i \in 1 .. 4 : text[i] # "REMOVED"
      BY <1>1, EmptyText
    <2>2. /\ lines \in Seq(Words) /\ Len(lines) <= 4
          /\ \A i \in 1 .. Len(lines) :
                lines[i] = text[i] \/ {lines[i], text[i]} \subseteq Removals
      BY <2>1, BeginningLines
    <2>3. Len(lines) \in Nat /\ DOMAIN lines = 1 .. Len(lines)
      BY <2>2, LenProperties
    <2> HIDE DEF text
    <2>4. h \in 1 .. Len(lines) /\ h \in 1 .. 4 /\ lines[h] = "REMOVED"
      BY <2>2, <2>3 DEF Heading
    <2> QED BY <2>1, <2>2, <2>4 DEF Removals
  <1>2. CASE \E n \in Nat \ {0} : order \in [1 .. n -> Removals]
    <2>1. PICK n \in Nat \ {0} : order \in [1 .. n -> Removals]
      BY <1>2
    <2>2. /\ text \in Seq(Words) /\ Len(text) = n + 5
          /\ text[1] = "banner" /\ text[2] = "REMOVED"
          /\ \A i \in 1 .. n : text[i + 2] = order[i]
          /\ text[n + 3] = "NEW" /\ text[n + 4] = "new" /\ text[n + 5] = "summary"
      BY <2>1, TextLines
    <2>3. /\ lines \in Seq(Words) /\ Len(lines) <= n + 5
          /\ \A i \in 1 .. Len(lines) :
                lines[i] = text[i] \/ {lines[i], text[i]} \subseteq Removals
      BY <2>2, BeginningLines
    <2>4. Len(lines) \in Nat /\ DOMAIN lines = 1 .. Len(lines)
      BY <2>3, LenProperties
    <2> HIDE DEF text
    <2>5. \A i \in 3 .. n + 2 : text[i] \in Removals
      <3> SUFFICES ASSUME NEW i \in 3 .. n + 2 PROVE text[i] \in Removals
        OBVIOUS
      <3> DEFINE k == i - 2
      <3>1. k \in 1 .. n /\ k + 2 = i
        OBVIOUS
      <3> HIDE DEF k
      <3> QED BY <2>1, <2>2, <3>1
    <2>6. h = 2
      <3>1. h \in 1 .. Len(lines) /\ h \in 1 .. n + 5 /\ lines[h] = "REMOVED"
        BY <2>3, <2>4 DEF Heading
      <3>2. text[h] = "REMOVED"
        BY <2>3, <3>1 DEF Removals
      <3>3. h \notin 3 .. n + 2 /\ h \notin {1, n + 3, n + 4, n + 5}
        BY <2>2, <2>5, <3>2 DEF Removals
      <3> QED BY <3>1, <3>3
    <2>7. j \in 3 .. n + 2
      <3>1. CASE j >= n + 3
        <4>1. n + 3 \in h .. j /\ n + 3 \in 1 .. Len(lines)
          BY <2>4, <2>6, <3>1
        <4>2. lines[n + 3] = "NEW"
          BY <2>2, <2>3, <4>1 DEF Removals
        <4> QED BY <4>1, <4>2 DEF Indented, Removals
      <3> QED BY <2>4, <2>6, <3>1
    <2> QED BY <2>3, <2>4, <2>5, <2>7
  <1> QED BY <1>1, <1>2, OrderOf

-----------------------------------------------------------------------------
(* The APT collector                                                       *)

LEMMA AnswerInText ==
    ASSUME NEW text, NEW a \in AnswersIn(text)
    PROVE  /\ a.kind \in {"error", "spawn_failed", "timed_out", "failed", "cut", "whole"}
           /\ Started(a) => a.lines \in Beginnings(text) \cup {text}
  BY DEF AnswersIn, Answers, Started

LEMMA AptInv == IInv /\ (CollectApt \/ AptListsUnreadable) => IInv'
  <1> SUFFICES ASSUME IInv, CollectApt \/ AptListsUnreadable PROVE IInv'
    OBVIOUS
  <1>1. CASE Throw("apt")
    BY <1>1, ThrowInv DEF Collectors, Evidence
  <1> DEFINE Finished(sim) == Started(sim) /\ sim.kind # "timed_out"
             Seen(broken, lists, libapt, unmet, sim) ==
                 [broken |-> unmet \/ (broken /\ libapt = "opened"),
                  removals |-> FromSimulation(sim).removals,
                  performed |-> FromSimulation(sim).performed,
                  incomplete |-> FromSimulation(sim).incomplete,
                  freshKnown |-> FreshKnown(lists),
                  stale |-> FreshKnown(lists) /\ lists = "stale"]
             Real(broken, removals, lists) ==
                 [broken |-> broken, removals |-> removals,
                  performed |-> TRUE, incomplete |-> FALSE,
                  freshKnown |-> lists \in {"fresh", "stale"}, stale |-> lists = "stale"]
             Failed(libapt) == IF libapt = "failed" THEN {"libapt-pkg"} ELSE {}
             Unfinished(sim) == IF Finished(sim) THEN {} ELSE {"apt"}
             Looked(broken, removals, lists, libapt, text, unmet, sim) ==
                 /\ broken => ~Succeeded(sim)
                 /\ unmet => broken /\ sim.kind = "failed"
                 /\ ~(lists = "missing" /\ libapt = "opened")
                 /\ Collect("dpkg", "apt", Seen(broken, lists, libapt, unmet, sim),
                            Real(broken, removals, lists),
                            Failed(libapt) \cup Unfinished(sim),
                            Failed(libapt) \cup GapIn(sim, text, removals))
  <1>2. CASE ~Throw("apt")
    <2>1. PICK broken \in BOOLEAN, removals \in SUBSET Removals,
               lists \in {"missing", "empty", "fresh", "stale"},
               libapt \in {"not_compiled", "failed", "opened"} :
             \/ \E text \in {SimulationText(order) : order \in Orders(removals)},
                   unmet \in BOOLEAN : \E sim \in AnswersIn(text) :
                   Looked(broken, removals, lists, libapt, text, unmet, sim)
             \/ lists = "missing" /\ libapt = "opened" /\ Throw("apt")
      <3>1. CollectApt
        BY <1>2 DEF AptListsUnreadable
      <3> QED BY <3>1 DEF CollectApt
    <2>2. PICK text \in {SimulationText(order) : order \in Orders(removals)},
               unmet \in BOOLEAN : \E sim \in AnswersIn(text) :
                Looked(broken, removals, lists, libapt, text, unmet, sim)
      BY <1>2, <2>1
    <2>3. PICK sim \in AnswersIn(text) :
                Looked(broken, removals, lists, libapt, text, unmet, sim)
      BY <2>2
    <2>4. PICK order \in Orders(removals) : text = SimulationText(order)
      OBVIOUS
    <2> DEFINE seen == Seen(broken, lists, libapt, unmet, sim)
               real == Real(broken, removals, lists)
               gaps == Failed(libapt) \cup GapIn(sim, text, removals)
               reported == Failed(libapt) \cup Unfinished(sim)
               found == Section(sim.lines)
    <2>5. /\ sim.kind \in {"error", "spawn_failed", "timed_out", "failed", "cut", "whole"}
          /\ Started(sim) => found \subseteq Removals
      BY <2>4, AnswerInText, SectionOfBeginning
    <2>6. Section(text) = removals
      BY <2>4, SectionOfWhole
    <2>7. Succeeded(sim) => ~broken
      BY <2>3
    <2> DEFINE fresh == FreshKnown(lists)
               simulated == FromSimulation(sim)
    <2>8. /\ fresh \in BOOLEAN
          /\ fresh => lists \in {"fresh", "stale"}
          /\ epoch = "past" => fresh = (lists \in {"fresh", "stale"})
      BY DEF FreshKnown
    <2>9. simulated \in [performed : BOOLEAN, incomplete : BOOLEAN,
                          removals : SUBSET Removals]
      BY <2>5 DEF FromSimulation, Succeeded
    <2> HIDE DEF fresh, simulated
    <2>10. unmet => broken
      BY <2>3
    <2>11. /\ seen.broken => broken
           /\ seen.freshKnown => lists \in {"fresh", "stale"}
           /\ seen.stale = (seen.freshKnown /\ lists = "stale")
           /\ epoch = "past" => seen.freshKnown = (lists \in {"fresh", "stale"})
      <3>1. /\ seen.broken = (unmet \/ (broken /\ libapt = "opened"))
            /\ seen.freshKnown = fresh /\ seen.stale = (fresh /\ lists = "stale")
        BY DEF fresh
      <3> HIDE DEF seen
      <3> QED BY <2>8, <2>10, <3>1
    <2>12. seen.performed /\ ~seen.incomplete <=> sim.kind = "whole"
      BY <2>5 DEF FromSimulation, Started, Succeeded
    <2>13. sim.kind = "whole" => seen.removals = found /\ Succeeded(sim) /\ Started(sim)
      BY DEF FromSimulation, Started, Succeeded
    <2>14. "apt" \in gaps <=> sim.kind # "whole"
      BY DEF GapIn, Gap
    <2>15. sim.kind = "whole" =>
              /\ "word" \notin gaps => found \subseteq removals
              /\ Without({"word", "tail"}, gaps) => found = removals
      BY <2>6 DEF GapIn, Gap, Without
    <2>16. gaps \subseteq {"libapt-pkg", "apt", "word", "tail"}
      BY DEF GapIn, Gap
    <2>17. reported \subseteq Issues /\ (reported # {} => gaps # {})
      BY <2>5, <2>14 DEF Issues, Collectors, Started
    <2>18. "libapt-pkg" \in gaps => reported # {}
      BY DEF GapIn, Gap
    <2>19. /\ seen \in [broken : BOOLEAN, removals : SUBSET Removals, performed : BOOLEAN,
                        incomplete : BOOLEAN, freshKnown : BOOLEAN, stale : BOOLEAN]
           /\ real \in [broken : BOOLEAN, removals : SUBSET Removals, performed : BOOLEAN,
                        incomplete : BOOLEAN, freshKnown : BOOLEAN, stale : BOOLEAN]
      <3> DEFINE R(b, f) == [broken |-> b, removals |-> simulated.removals,
                             performed |-> simulated.performed,
                             incomplete |-> simulated.incomplete,
                             freshKnown |-> f, stale |-> f /\ lists = "stale"]
      <3>1. ASSUME NEW b \in BOOLEAN, NEW f \in BOOLEAN
            PROVE  R(b, f) \in [broken : BOOLEAN, removals : SUBSET Removals,
                                performed : BOOLEAN, incomplete : BOOLEAN,
                                freshKnown : BOOLEAN, stale : BOOLEAN]
        BY <2>9
      <3>2. seen = R(unmet \/ (broken /\ libapt = "opened"), fresh)
        BY DEF fresh, simulated
      <3>3. (unmet \/ (broken /\ libapt = "opened")) \in BOOLEAN
        OBVIOUS
      <3> HIDE DEF seen, R
      <3> QED BY <2>8, <3>1, <3>2, <3>3
    <2>20. /\ real.performed /\ ~real.incomplete /\ real.broken = broken
           /\ real.removals = removals /\ real.freshKnown = (lists \in {"fresh", "stale"})
           /\ real.stale = (lists = "stale")
      OBVIOUS
    <2>21. Collect("dpkg", "apt", seen, real, reported, gaps)
      BY <2>3
    <2>22. pc = "apt"
      BY <1>2 DEF CollectApt, AptListsUnreadable
    <2> HIDE DEF seen, real, gaps, reported, found
    <2>23. AptFits(seen, real, gaps)
      <3>1. "apt" \notin gaps => seen.performed /\ ~seen.incomplete
        BY <2>12, <2>14
      <3>2. seen.performed /\ ~seen.incomplete =>
               /\ ~real.broken
               /\ "word" \notin gaps => seen.removals \subseteq real.removals
               /\ Without({"word", "tail"}, gaps) => seen.removals = real.removals
        BY <2>7, <2>12, <2>13, <2>15, <2>20
      <3>3. /\ seen.freshKnown => real.freshKnown /\ seen.stale = real.stale
            /\ epoch = "past" => seen.freshKnown = real.freshKnown
        BY <2>11, <2>19, <2>20
      <3> QED BY <2>11, <2>20, <3>1, <3>2, <3>3 DEF AptFits
    <2>24. Sound("apt", seen, real, reported, gaps)
      BY <2>12, <2>14, <2>16, <2>17, <2>18, <2>23 DEF Sound, Fits, Own, Holes, Tells
    <2>25. /\ [evidence EXCEPT !["apt"] = seen] \in Snapshots
           /\ [truth EXCEPT !["apt"] = real] \in Snapshots
      BY <2>19 DEF Snapshots, IInv, Shape
    <2> QED BY <2>21, <2>22, <2>24, <2>25, CollectInv DEF Collectors, Position
  <1> QED BY <1>1, <1>2

-----------------------------------------------------------------------------
(* The invariant                                                           *)

LEMMA InitInv == Init => IInv
  <1> SUFFICES ASSUME Init PROVE IInv
    OBVIOUS
  <1>1. Blank \in Snapshots /\ Healthy \in Snapshots
    BY DEF Blank, Healthy, Snapshots, Rooms, DkmsLines, Removals
  <1>2. Shape
    BY <1>1, DeviationAssumption DEF Init, Shape, Position
  <1>3. Unharmed /\ Outcome
    BY DEF Init, Unharmed, Outcome
  <1>4. \A part \in Collectors : ~Collected(part)
    BY DEF Init, Collected, Position, Collectors
  <1>5. Agreement /\ Accounted
    BY <1>4 DEF Init, Agreement, Accounted
  <1> QED BY <1>2, <1>3, <1>5 DEF IInv

LEMMA ConcludeInv == IInv /\ Conclude => IInv'
  <1> SUFFICES ASSUME IInv, Conclude PROVE IInv'
    OBVIOUS
  <1> DEFINE verdict == Aggregate(Report(evidence, issues))
  <1>1. /\ pc = "report" /\ pc' = "done" /\ exit' = ExitFor(verdict)
        /\ \/ \E verbose \in BOOLEAN :
                 printed' = TextReport(evidence, issues, verdict, verbose)
           \/ printed' = JsonReport(evidence, issues, verdict)
        /\ UNCHANGED <<epoch, target, evidence, issues, truth, blind, deviations>>
    BY DEF Conclude
  <1>2. printed' # NoReport
    BY <1>1 DEF TextReport, JsonReport, NoReport
  <1>3. ~Threw /\ ~Threw'
    BY <1>1, <1>2 DEF Threw
  <1>4. Shape' /\ Unharmed'
    BY <1>1 DEF IInv, Shape, Unharmed, Position
  <1>5. Outcome'
    <2> HIDE DEF verdict
    <2>1. verdict' = verdict
      BY <1>1 DEF verdict
    <2> QED BY <1>1, <1>3, <2>1 DEF Outcome, verdict
  <1>6. \A part \in Collectors : Collected(part)' /\ Collected(part)
    BY <1>1 DEF Collected, Position, Collectors
  <1>7. Agreement' /\ Accounted'
    BY <1>1, <1>3, <1>6 DEF IInv, Agreement, Accounted, Fits, AptFits
  <1> QED BY <1>4, <1>5, <1>7 DEF IInv

LEMMA StutterInv == IInv /\ UNCHANGED vars => IInv'
  <1> SUFFICES ASSUME IInv, UNCHANGED vars PROVE IInv'
    OBVIOUS
  <1>1. Shape' /\ Unharmed' /\ Outcome' /\ (Threw' <=> Threw)
    BY DEF vars, IInv, Shape, Unharmed, Outcome, Threw
  <1>2. Agreement => Agreement'
    BY DEF vars, Agreement, Collected, Fits, AptFits
  <1>3. Accounted => Accounted'
    BY DEF vars, Accounted, Collected
  <1> QED BY <1>1, <1>2, <1>3 DEF IInv

(* What the collectors saw agrees with the machine but for the evidence    *)
(* that is accounted for, and the report and the exit code are those of    *)
(* what they saw: however commands and files fail (ScanService::execute,   *)
(* the nine collectors, the rules and the exit code of the CLI).           *)
THEOREM ScanInvariance == Spec => []IInv
  <1>1. IInv /\ [Next]_vars => IInv'
    <2> SUFFICES ASSUME IInv, [Next]_vars PROVE IInv'
      OBVIOUS
    <2>1. CASE CollectPlatform BY <2>1, PlatformInv
    <2>2. CASE CollectApt \/ AptListsUnreadable BY <2>2, AptInv
    <2>3. CASE CollectDpkg BY <2>3, DpkgInv
    <2>4. CASE CollectSources BY <2>4, SourcesInv
    <2>5. CASE CollectStorage BY <2>5, StorageInv
    <2>6. CASE CollectKernel BY <2>6, KernelInv
    <2>7. CASE CollectDkms BY <2>7, DkmsInv
    <2>8. CASE CollectSecureBoot BY <2>8, SecureBootInv
    <2>9. CASE CollectReboot BY <2>9, RebootInv
    <2>10. CASE Conclude BY <2>10, ConcludeInv
    <2>11. CASE Terminated \/ UNCHANGED vars BY <2>11, StutterInv DEF Terminated
    <2> QED
      BY <2>1, <2>2, <2>3, <2>4, <2>5, <2>6, <2>7, <2>8, <2>9, <2>10, <2>11 DEF Next
  <1> QED BY <1>1, InitInv, PTL DEF Spec

-----------------------------------------------------------------------------
(* What the rules say, seen from the snapshot                              *)

(* Nothing is blocked or unknown.                                          *)
Confident(s) ==
    /\ s.platform.known /\ ~s.platform.container
    /\ s.platform.derivative \/ (s.platform.current /\ s.platform.path)
    /\ s.apt.performed /\ ~s.apt.incomplete /\ ~s.apt.broken
    /\ "essential" \notin s.apt.removals /\ s.apt.freshKnown /\ ~s.apt.stale
    /\ ~s.dpkg.audit
    /\ s.storage.root \in {"enough", "low"} /\ s.storage.boot \in {"enough", "low"}
    /\ s.storage.efi # "unreadable"
    /\ s.kernel.kernels # 0
    /\ ~s.dkms.missing /\ s.dkms.lines \subseteq {"installed"}
    /\ ~s.secureBoot.unknown
    /\ ~s.reboot.unreadable

(* Nothing is worth a warning either.                                      *)
Spotless(s) ==
    /\ Confident(s)
    /\ ~s.platform.derivative
    /\ s.apt.removals = {} /\ ~s.dpkg.held
    /\ ~s.sources.thirdParty /\ ~s.sources.duplicates
    /\ s.storage.root = "enough" /\ s.storage.boot = "enough" /\ s.storage.efi # "low"
    /\ s.kernel.fallback /\ ~s.kernel.inconsistent
    /\ s.secureBoot.enabled => s.dkms.lines = {}
    /\ ~s.reboot.required

(* Something is blocked.                                                   *)
Hopeless(s) ==
    \/ /\ s.platform.known /\ ~s.platform.derivative
       /\ ~s.platform.current \/ ~s.platform.path
    \/ s.apt.broken \/ s.dpkg.audit
    \/ s.apt.performed /\ ~s.apt.incomplete /\ "essential" \in s.apt.removals
    \/ ~s.dkms.missing /\ s.dkms.lines \cap {"failed", "incomplete"} # {}

FindingIds ==
    {"REL_001", "REL_002", "REL_003", "APT_001", "APT_002", "APT_003", "APT_004", "APT_005",
     "APT_006", "APT_007", "DSK_001", "DSK_002", "DSK_003", "DKM_001", "KRN_001", "KRN_002",
     "SEC_001", "RBT_001"}

LEMMA FindingsOf ==
    ASSUME NEW s
    PROVE  /\ DOMAIN Findings(s) = FindingIds
           /\ RuleStatuses(s) =
                 {CurrentRelease(s), UpgradePath(s), Derivative(s), Database(s), Broken(s),
                  Holds(s), ThirdParty(s), Duplicates(s), RiskyRemovals(s),
                  CacheFreshness(s), RootSpace(s), BootSpace(s), EfiSpace(s),
                  DkmsHealth(s), FallbackKernel(s), KernelConsistency(s), SecureBoot(s),
                  PendingReboot(s)}
  <1>1. DOMAIN Findings(s) = FindingIds
    BY DEF Findings, FindingIds
  <1>2. RuleStatuses(s) = {Findings(s)[id] : id \in FindingIds}
    BY <1>1 DEF RuleStatuses
  <1>3. /\ Findings(s).REL_001 = CurrentRelease(s) /\ Findings(s).REL_002 = UpgradePath(s)
        /\ Findings(s).REL_003 = Derivative(s) /\ Findings(s).APT_001 = Database(s)
        /\ Findings(s).APT_002 = Broken(s) /\ Findings(s).APT_003 = Holds(s)
        /\ Findings(s).APT_004 = ThirdParty(s) /\ Findings(s).APT_005 = Duplicates(s)
        /\ Findings(s).APT_006 = RiskyRemovals(s) /\ Findings(s).APT_007 = CacheFreshness(s)
        /\ Findings(s).DSK_001 = RootSpace(s) /\ Findings(s).DSK_002 = BootSpace(s)
        /\ Findings(s).DSK_003 = EfiSpace(s) /\ Findings(s).DKM_001 = DkmsHealth(s)
        /\ Findings(s).KRN_001 = FallbackKernel(s)
        /\ Findings(s).KRN_002 = KernelConsistency(s)
        /\ Findings(s).SEC_001 = SecureBoot(s) /\ Findings(s).RBT_001 = PendingReboot(s)
    BY DEF Findings
  <1> QED BY <1>1, <1>2, <1>3 DEF FindingIds

LEMMA NoWorseThanWarning ==
    ASSUME NEW s \in Snapshots
    PROVE  RuleStatuses(s) \cap {"blocked", "unknown"} = {} <=> Confident(s)
  <1>1. /\ {CurrentRelease(s), UpgradePath(s), Derivative(s)}
              \cap {"blocked", "unknown"} = {}
           <=> /\ s.platform.known
               /\ s.platform.derivative \/ (s.platform.current /\ s.platform.path)
    BY DEF CurrentRelease, UpgradePath, Derivative, Supported
  <1>2. {Database(s), Broken(s), Holds(s), ThirdParty(s), Duplicates(s), RiskyRemovals(s),
         CacheFreshness(s)} \cap {"blocked", "unknown"} = {}
           <=> /\ s.apt.performed /\ ~s.apt.incomplete /\ ~s.apt.broken
               /\ "essential" \notin s.apt.removals /\ s.apt.freshKnown /\ ~s.apt.stale
               /\ ~s.dpkg.audit
    BY DEF Database, Broken, Holds, ThirdParty, Duplicates, RiskyRemovals, CacheFreshness,
           SimulationUsable, WarnIf
  <1>3. {RootSpace(s), BootSpace(s), EfiSpace(s)} \cap {"blocked", "unknown"} = {}
           <=> /\ s.storage.root \in {"enough", "low"}
               /\ s.storage.boot \in {"enough", "low"}
               /\ s.storage.efi # "unreadable"
    BY DEF RootSpace, BootSpace, EfiSpace, CheckSpace, WarnIf, Snapshots, Rooms
  <1>4. {DkmsHealth(s), PendingReboot(s)} \cap {"blocked", "unknown"} = {}
           <=> /\ ~s.dkms.missing /\ s.dkms.lines \subseteq {"installed"}
               /\ ~s.reboot.unreadable
    <2>1. s.dkms.lines \subseteq DkmsLines
      BY DEF Snapshots
    <2>2. s.dkms.lines \subseteq {"installed"}
             <=> /\ s.dkms.lines \cap {"failed", "incomplete"} = {}
                 /\ "malformed" \notin s.dkms.lines
      BY <2>1 DEF DkmsLines
    <2>3. DkmsHealth(s) \notin {"blocked", "unknown"}
             <=> ~s.dkms.missing /\ s.dkms.lines \subseteq {"installed"}
      BY <2>2 DEF DkmsHealth
    <2>4. PendingReboot(s) \notin {"blocked", "unknown"} <=> ~s.reboot.unreadable
      BY DEF PendingReboot, WarnIf
    <2> QED BY <2>3, <2>4
  <1>5. {FallbackKernel(s), KernelConsistency(s), SecureBoot(s)}
              \cap {"blocked", "unknown"} = {}
           <=> /\ ~InContainer(s) /\ s.kernel.kernels # 0 /\ ~s.secureBoot.unknown
    BY DEF FallbackKernel, KernelConsistency, SecureBoot, WarnIf
  <1>6. InContainer(s) <=> s.platform.known /\ s.platform.container
    BY DEF InContainer
  <1> DEFINE bad == {"blocked", "unknown"}
  <1>7. RuleStatuses(s) \cap bad = {}
           <=> /\ {CurrentRelease(s), UpgradePath(s), Derivative(s)} \cap bad = {}
               /\ {Database(s), Broken(s), Holds(s), ThirdParty(s), Duplicates(s),
                   RiskyRemovals(s), CacheFreshness(s)} \cap bad = {}
               /\ {RootSpace(s), BootSpace(s), EfiSpace(s)} \cap bad = {}
               /\ {DkmsHealth(s), PendingReboot(s)} \cap bad = {}
               /\ {FallbackKernel(s), KernelConsistency(s), SecureBoot(s)} \cap bad = {}
    <2> HIDE DEF bad
    <2> QED BY FindingsOf
  <1> QED BY <1>1, <1>2, <1>3, <1>4, <1>5, <1>6, <1>7 DEF Confident

LEMMA NoWarning ==
    ASSUME NEW s \in Snapshots
    PROVE  RuleStatuses(s) \cap {"blocked", "unknown", "warning"} = {} <=> Spotless(s)
  <1> SUFFICES ASSUME Confident(s)
               PROVE  "warning" \notin RuleStatuses(s) <=> Spotless(s)
    BY NoWorseThanWarning DEF Spotless
  <1>1. "warning" \notin {CurrentRelease(s), UpgradePath(s), Derivative(s)}
           <=> ~s.platform.derivative
    BY DEF CurrentRelease, UpgradePath, Derivative, Supported, Confident
  <1>2. "warning" \notin {Database(s), Broken(s), Holds(s), RiskyRemovals(s),
                         CacheFreshness(s)}
           <=> s.apt.removals = {} /\ ~s.dpkg.held
    BY DEF Database, Broken, Holds, RiskyRemovals, CacheFreshness,
           SimulationUsable, WarnIf, Confident
  <1>3. "warning" \notin {ThirdParty(s), Duplicates(s)}
           <=> ~s.sources.thirdParty /\ ~s.sources.duplicates
    BY DEF ThirdParty, Duplicates, WarnIf
  <1>4. "warning" \notin {RootSpace(s), BootSpace(s), EfiSpace(s)}
           <=> s.storage.root = "enough" /\ s.storage.boot = "enough" /\ s.storage.efi # "low"
    BY DEF RootSpace, BootSpace, EfiSpace, CheckSpace, WarnIf, Confident
  <1>5. "warning" \notin {FallbackKernel(s), KernelConsistency(s)}
           <=> s.kernel.fallback /\ ~s.kernel.inconsistent
    BY DEF FallbackKernel, KernelConsistency, WarnIf, Confident, InContainer
  <1>6. "warning" \notin {DkmsHealth(s), SecureBoot(s), PendingReboot(s)}
           <=> /\ s.secureBoot.enabled => s.dkms.lines = {}
               /\ ~s.reboot.required
    BY DEF DkmsHealth, SecureBoot, PendingReboot, WarnIf, Confident, InContainer
  <1> QED BY <1>1, <1>2, <1>3, <1>4, <1>5, <1>6, FindingsOf DEF Spotless

LEMMA SomethingBlocked ==
    ASSUME NEW s \in Snapshots
    PROVE  "blocked" \in RuleStatuses(s) <=> Hopeless(s)
  <1>1. "blocked" \in {CurrentRelease(s), UpgradePath(s), Derivative(s)}
           <=> /\ s.platform.known /\ ~s.platform.derivative
               /\ ~s.platform.current \/ ~s.platform.path
    BY DEF CurrentRelease, UpgradePath, Derivative, Supported
  <1>2. "blocked" \in {Database(s), Broken(s), RiskyRemovals(s)}
           <=> \/ s.apt.broken \/ s.dpkg.audit
               \/ s.apt.performed /\ ~s.apt.incomplete /\ "essential" \in s.apt.removals
    BY DEF Database, Broken, RiskyRemovals, SimulationUsable, WarnIf
  <1>3. "blocked" \notin {Holds(s), ThirdParty(s), Duplicates(s), CacheFreshness(s)}
    BY DEF Holds, ThirdParty, Duplicates, CacheFreshness, WarnIf
  <1>4. "blocked" \notin {RootSpace(s), BootSpace(s), EfiSpace(s)}
    BY DEF RootSpace, BootSpace, EfiSpace, CheckSpace, WarnIf
  <1>5. "blocked" \notin {FallbackKernel(s), KernelConsistency(s), SecureBoot(s),
                         PendingReboot(s)}
    BY DEF FallbackKernel, KernelConsistency, SecureBoot, PendingReboot, WarnIf
  <1>6. "blocked" = DkmsHealth(s)
           <=> ~s.dkms.missing /\ s.dkms.lines \cap {"failed", "incomplete"} # {}
    BY DEF DkmsHealth
  <1> QED BY <1>1, <1>2, <1>3, <1>4, <1>5, <1>6, FindingsOf DEF Hopeless

(* The verdict and the exit code.                                          *)
LEMMA ExitCodeOf ==
    ASSUME NEW found
    PROVE  LET exitCode == ExitFor(Aggregate(found))
           IN  /\ exitCode = 0 <=> found \cap {"blocked", "unknown", "warning"} = {}
               /\ exitCode = 1 <=> /\ found \cap {"blocked", "unknown"} = {}
                                   /\ "warning" \in found
               /\ exitCode = 2 <=> "blocked" \in found
               /\ exitCode = 3 <=> "blocked" \notin found /\ "unknown" \in found
               /\ exitCode \in ExitCodes
  <1>1. CASE "blocked" \in found
    BY <1>1 DEF Aggregate, ExitFor, ExitCodes
  <1>2. CASE "blocked" \notin found /\ "unknown" \in found
    BY <1>2 DEF Aggregate, ExitFor, ExitCodes
  <1>3. CASE found \cap {"blocked", "unknown"} = {} /\ "warning" \in found
    BY <1>3 DEF Aggregate, ExitFor, ExitCodes
  <1>4. CASE found \cap {"blocked", "unknown", "warning"} = {}
    BY <1>4 DEF Aggregate, ExitFor, ExitCodes
  <1> QED BY <1>1, <1>2, <1>3, <1>4

-----------------------------------------------------------------------------
(* What the exit code says                                                 *)

(* A code below 3 comes from a report.                                     *)
LEMMA ReportBehindCode ==
    ASSUME IInv, exit # None, exit # 3
    PROVE  /\ pc = "done" /\ ~Threw /\ Agreement /\ Accounted
           /\ exit = ExitFor(Aggregate(Report(evidence, issues)))
           /\ evidence \in Snapshots /\ truth \in Snapshots
           /\ \A part \in Collectors : Collected(part)
  <1>1. pc = "done" /\ ~Threw /\ exit = ExitFor(Aggregate(Report(evidence, issues)))
    BY DEF IInv, Outcome
  <1>2. Agreement /\ Accounted /\ evidence \in Snapshots /\ truth \in Snapshots
    BY <1>1 DEF IInv, Shape
  <1>3. \A part \in Collectors : Collected(part)
    BY <1>1 DEF Collected, Position, Collectors
  <1> QED BY <1>1, <1>2, <1>3

LEMMA BlindIsOwnedOrHole ==
    ASSUME blind \subseteq Evidence, NEW excused,
           \A part \in Collectors : blind \cap Own[part] \subseteq excused
    PROVE  blind \subseteq Holes \cup excused
  <1>1. /\ Own["platform"] = {"platform"} /\ Own["apt"] = {"apt", "libapt-pkg"}
        /\ Own["dpkg"] = {"audit", "holds"} /\ Own["storage"] = {"root", "boot", "efi"}
        /\ Own["kernel"] = {"kernel"} /\ Own["dkms"] = {"dkms"}
        /\ Own["secureBoot"] = {"secureBoot"} /\ Own["reboot"] = {"reboot"}
    BY DEF Own
  <1>2. /\ "platform" \in Collectors /\ "apt" \in Collectors /\ "dpkg" \in Collectors
        /\ "storage" \in Collectors /\ "kernel" \in Collectors /\ "dkms" \in Collectors
        /\ "secureBoot" \in Collectors /\ "reboot" \in Collectors
    BY DEF Collectors
  <1>3. /\ blind \cap {"platform"} \subseteq excused
        /\ blind \cap {"apt", "libapt-pkg"} \subseteq excused
        /\ blind \cap {"audit", "holds"} \subseteq excused
        /\ blind \cap {"root", "boot", "efi"} \subseteq excused
        /\ blind \cap {"kernel"} \subseteq excused /\ blind \cap {"dkms"} \subseteq excused
        /\ blind \cap {"secureBoot"} \subseteq excused
        /\ blind \cap {"reboot"} \subseteq excused
    BY <1>1, <1>2, Zenon
  <1>4. ASSUME NEW gap \in blind
        PROVE  gap \in Holes \cup excused
    <2>1. /\ gap \in {"platform", "secureBoot", "reboot", "kernel", "dkms"} => gap \in excused
          /\ gap \in {"apt", "libapt-pkg", "audit", "holds", "root", "boot", "efi"}
                => gap \in excused
      BY <1>3
    <2> QED BY <2>1 DEF Evidence, Collectors, Holes
  <1> QED BY <1>4

(* Behind exit code 0 there are no issues, nothing worth a word and no gap *)
(* that is not a hole.                                                     *)
LEMMA ReadyMeans ==
    ASSUME IInv, exit = 0
    PROVE  issues = {} /\ Spotless(evidence) /\ blind \subseteq Holes
  <1>1. /\ Accounted /\ evidence \in Snapshots /\ blind \subseteq Evidence
        /\ exit = ExitFor(Aggregate(Report(evidence, issues)))
    BY ReportBehindCode DEF None, IInv, Shape
  <1>2. Report(evidence, issues) \cap {"blocked", "unknown", "warning"} = {}
    BY <1>1, ExitCodeOf
  <1>3. issues = {} /\ RuleStatuses(evidence) \cap {"blocked", "unknown", "warning"} = {}
    BY <1>2 DEF Report
  <1>4. Spotless(evidence)
    BY <1>1, <1>3, NoWarning
  <1>5. ASSUME NEW part \in Collectors, NEW gap \in blind \cap Own[part]
        PROVE  FALSE
    <2>1. Tells(gap, evidence[part])
      BY <1>1, <1>3 DEF Accounted
    <2> QED BY <1>4, <2>1 DEF Tells, Spotless, Confident, Own, Collectors
  <1>6. \A part \in Collectors : blind \cap Own[part] \subseteq {}
    BY <1>5
  <1> QED BY <1>1, <1>3, <1>4, <1>6, BlindIsOwnedOrHole

(* Behind exit code 1 there are no issues, nothing unknown or blocked and  *)
(* no gap that is not a hole, but for what only ever leads to a warning.   *)
LEMMA WarningMeans ==
    ASSUME IInv, exit = 1
    PROVE  /\ issues = {} /\ Confident(evidence)
           /\ blind \subseteq Holes \cup {"holds", "kernel"}
  <1>1. /\ Accounted /\ evidence \in Snapshots /\ blind \subseteq Evidence
        /\ exit = ExitFor(Aggregate(Report(evidence, issues)))
    BY ReportBehindCode DEF None, IInv, Shape
  <1>2. Report(evidence, issues) \cap {"blocked", "unknown"} = {}
    BY <1>1, ExitCodeOf
  <1>3. issues = {} /\ RuleStatuses(evidence) \cap {"blocked", "unknown"} = {}
    BY <1>2 DEF Report
  <1>4. Confident(evidence)
    BY <1>1, <1>3, NoWorseThanWarning
  <1>5. ASSUME NEW part \in Collectors, NEW gap \in blind \cap Own[part]
        PROVE  gap \in {"holds", "kernel"}
    <2>1. Tells(gap, evidence[part])
      BY <1>1, <1>3 DEF Accounted
    <2> QED BY <1>4, <2>1 DEF Tells, Confident, Own, Collectors
  <1>6. \A part \in Collectors : blind \cap Own[part] \subseteq {"holds", "kernel"}
    BY <1>5
  <1> QED BY <1>1, <1>3, <1>4, <1>6, BlindIsOwnedOrHole

(* The same, part by part.                                                 *)
LEMMA PartsAgree ==
    ASSUME Agreement, \A part \in Collectors : Collected(part)
    PROVE  /\ PlatformFits(evidence.platform, truth.platform, blind)
           /\ AptFits(evidence.apt, truth.apt, blind)
           /\ DpkgFits(evidence.dpkg, truth.dpkg, blind)
           /\ SourcesFits(evidence.sources, truth.sources, blind)
           /\ StorageFits(evidence.storage, truth.storage, blind)
           /\ KernelFits(evidence.kernel, truth.kernel, blind)
           /\ DkmsFits(evidence.dkms, truth.dkms, blind)
           /\ SecureBootFits(evidence.secureBoot, truth.secureBoot, blind)
           /\ RebootFits(evidence.reboot, truth.reboot, blind)
  <1>1. \A part \in Collectors : Fits(part, evidence[part], truth[part], blind)
    BY DEF Agreement
  <1>2. /\ Fits("platform", evidence.platform, truth.platform, blind)
        /\ Fits("apt", evidence.apt, truth.apt, blind)
        /\ Fits("dpkg", evidence.dpkg, truth.dpkg, blind)
        /\ Fits("sources", evidence.sources, truth.sources, blind)
        /\ Fits("storage", evidence.storage, truth.storage, blind)
        /\ Fits("kernel", evidence.kernel, truth.kernel, blind)
        /\ Fits("dkms", evidence.dkms, truth.dkms, blind)
        /\ Fits("secureBoot", evidence.secureBoot, truth.secureBoot, blind)
        /\ Fits("reboot", evidence.reboot, truth.reboot, blind)
    BY <1>1 DEF Collectors
  <1> QED BY <1>2 DEF Fits

(* Without holes, what the exit code says of the snapshot is true of the   *)
(* machine.                                                                *)
LEMMA ConfidentTruth ==
    ASSUME Agreement, \A part \in Collectors : Collected(part), Confident(evidence),
           evidence \in Snapshots, truth \in Snapshots, blind \subseteq {"holds", "kernel"}
    PROVE  Confident(truth)
  <1>1. evidence.platform = truth.platform
    BY PartsAgree DEF PlatformFits, Without
  <1>2. /\ truth.apt.performed /\ ~truth.apt.incomplete /\ ~truth.apt.broken
        /\ truth.apt.removals = evidence.apt.removals
        /\ truth.apt.freshKnown /\ evidence.apt.stale = truth.apt.stale
    BY PartsAgree DEF AptFits, Without, Confident
  <1>3. evidence.dpkg.audit = truth.dpkg.audit
    BY PartsAgree DEF DpkgFits, Without
  <1>4. \A mount \in {"root", "boot", "efi"} : evidence.storage[mount] = truth.storage[mount]
    BY PartsAgree DEF StorageFits
  <1>5. truth.kernel.kernels # 0
    <2>1. evidence.kernel.kernels > 0 => truth.kernel.kernels > 0
      BY PartsAgree DEF KernelFits
    <2>2. evidence.kernel.kernels \in Nat /\ evidence.kernel.kernels # 0
      BY DEF Confident, Snapshots
    <2> QED BY <2>1, <2>2
  <1>6. evidence.dkms = truth.dkms /\ evidence.secureBoot = truth.secureBoot
    BY PartsAgree DEF DkmsFits, SecureBootFits, Without
  <1>7. evidence.reboot = truth.reboot
    BY PartsAgree DEF RebootFits
  <1> QED BY <1>1, <1>2, <1>3, <1>4, <1>5, <1>6, <1>7 DEF Confident

LEMMA SpotlessTruth ==
    ASSUME Agreement, \A part \in Collectors : Collected(part), Spotless(evidence),
           evidence \in Snapshots, truth \in Snapshots, blind = {}
    PROVE  Spotless(truth)
  <1>1. Confident(truth)
    BY ConfidentTruth DEF Spotless
  <1>2. evidence.platform = truth.platform /\ evidence.apt.removals = truth.apt.removals
    BY PartsAgree DEF PlatformFits, AptFits, Without
  <1>3. evidence.dpkg.held = truth.dpkg.held
    BY PartsAgree DEF DpkgFits, Without
  <1>4. evidence.sources = truth.sources /\ evidence.reboot = truth.reboot
    BY PartsAgree DEF SourcesFits, RebootFits
  <1>5. \A mount \in {"root", "boot", "efi"} : evidence.storage[mount] = truth.storage[mount]
    BY PartsAgree DEF StorageFits
  <1>6. truth.kernel.fallback /\ evidence.kernel.inconsistent = truth.kernel.inconsistent
    BY PartsAgree DEF KernelFits, Spotless
  <1>7. evidence.dkms = truth.dkms /\ evidence.secureBoot = truth.secureBoot
    BY PartsAgree DEF DkmsFits, SecureBootFits, Without
  <1> QED BY <1>1, <1>2, <1>3, <1>4, <1>5, <1>6, <1>7 DEF Spotless

-----------------------------------------------------------------------------
(* The properties                                                          *)

LEMMA SnapshotsAreWellFormed == ASSUME NEW s \in Snapshots PROVE WellFormed(s)
  <1>1. DOMAIN s = {"platform", "apt", "dpkg", "sources", "storage", "kernel", "dkms",
                    "secureBoot", "reboot"}
    BY DEF Snapshots
  <1>2. /\ s.platform \in [known : BOOLEAN, derivative : BOOLEAN, current : BOOLEAN,
                          path : BOOLEAN, container : BOOLEAN]
        /\ s.dpkg \in [audit : BOOLEAN, held : BOOLEAN]
        /\ s.sources \in [thirdParty : BOOLEAN, duplicates : BOOLEAN, tabs : BOOLEAN]
        /\ s.secureBoot \in [unknown : BOOLEAN, enabled : BOOLEAN]
        /\ s.reboot \in [required : BOOLEAN, unreadable : BOOLEAN]
        /\ s.storage \in [root : Rooms, boot : Rooms, efi : Rooms]
    BY DEF Snapshots
  <1>3. Flags(s.platform) /\ Flags(s.dpkg) /\ Flags(s.sources)
    BY <1>2 DEF Flags
  <1>4. Flags(s.secureBoot) /\ Flags(s.reboot)
    BY <1>2 DEF Flags
  <1>5. \A mount \in DOMAIN s.storage : s.storage[mount] \in Rooms
    BY <1>2
  <1>6. /\ s.apt.removals \subseteq Removals
        /\ {s.apt.broken, s.apt.performed, s.apt.incomplete, s.apt.freshKnown,
            s.apt.stale} \subseteq BOOLEAN
        /\ s.kernel.kernels \in Nat
        /\ {s.kernel.fallback, s.kernel.inconsistent} \subseteq BOOLEAN
        /\ s.dkms.missing \in BOOLEAN
        /\ s.dkms.lines \subseteq DkmsLines
    BY DEF Snapshots
  <1> QED BY <1>1, <1>3, <1>4, <1>5, <1>6 DEF WellFormed

(* The state of a scan has its type: the snapshot has all its parts        *)
(* (scan_service.hpp, SystemSnapshot), the exit code is one of the four    *)
(* that docs/exit-codes.md gives a scan, or not there yet.                 *)
THEOREM ScanTypeCorrect == Spec => []TypeOK
  <1>1. IInv => TypeOK
    <2> SUFFICES ASSUME IInv PROVE TypeOK
      OBVIOUS
    <2>1. exit \in ExitCodes \cup {None}
      <3>1. 3 \in ExitCodes
        BY DEF ExitCodes
      <3> QED BY <3>1, ExitCodeOf DEF IInv, Outcome
    <2>2. WellFormed(evidence) /\ WellFormed(truth)
      BY SnapshotsAreWellFormed DEF IInv, Shape
    <2>3. pc \in Collectors \cup {"report", "done"}
      BY DEF IInv, Shape, Position, Collectors
    <2> QED BY <2>1, <2>2, <2>3 DEF IInv, Shape, TypeOK
  <1> QED BY <1>1, ScanInvariance, PTL

(* No false readiness claim: a scan that exits with 0 or 1 does so on a    *)
(* machine about which the same rules say nothing worse, but for the holes *)
(* (CliApplication.cpp, exit codes 0 and 1).                               *)
THEOREM NeverFalselyReady == Spec => []NeverBetterThanTruth
  <1>1. IInv => NeverBetterThanTruth
    <2> SUFFICES ASSUME IInv, blind \cap Holes = {}
                 PROVE  /\ exit = 0 => TrueVerdict = "ready"
                        /\ exit = 1 => TrueVerdict \in {"ready", "ready_with_warnings"}
      BY DEF NeverBetterThanTruth
    <2>1. ASSUME exit = 0 PROVE TrueVerdict = "ready"
      <3>1. Spotless(evidence) /\ blind = {}
        BY <2>1, ReadyMeans
      <3>2. /\ Agreement /\ evidence \in Snapshots /\ truth \in Snapshots
            /\ \A part \in Collectors : Collected(part)
        BY <2>1, ReportBehindCode DEF None
      <3>3. RuleStatuses(truth) \cap {"blocked", "unknown", "warning"} = {}
        BY <3>1, <3>2, SpotlessTruth, NoWarning
      <3> QED BY <3>3 DEF TrueVerdict, Aggregate
    <2>2. ASSUME exit = 1 PROVE TrueVerdict \in {"ready", "ready_with_warnings"}
      <3>1. Confident(evidence) /\ blind \subseteq {"holds", "kernel"}
        BY <2>2, WarningMeans
      <3>2. /\ Agreement /\ evidence \in Snapshots /\ truth \in Snapshots
            /\ \A part \in Collectors : Collected(part)
        BY <2>2, ReportBehindCode DEF None
      <3>3. RuleStatuses(truth) \cap {"blocked", "unknown"} = {}
        BY <3>1, <3>2, ConfidentTruth, NoWorseThanWarning
      <3> QED BY <3>3 DEF TrueVerdict, Aggregate
    <2> QED BY <2>1, <2>2
  <1> QED BY <1>1, ScanInvariance, PTL

(* No false alarm: exit code 2 is given only for a machine with a blocker, *)
(* but for the name of a package that lost its end.                        *)
THEOREM NoFalseAlarm == Spec => []BlockedIsReal
  <1>1. IInv => BlockedIsReal
    <2> SUFFICES ASSUME IInv, exit = 2, "word" \notin blind
                 PROVE  TrueVerdict = "blocked"
      BY DEF BlockedIsReal
    <2>1. /\ Agreement /\ evidence \in Snapshots /\ truth \in Snapshots
          /\ \A part \in Collectors : Collected(part)
          /\ exit = ExitFor(Aggregate(Report(evidence, issues)))
      BY ReportBehindCode DEF None
    <2>2. "blocked" \in RuleStatuses(evidence)
      <3>1. "blocked" \in Report(evidence, issues)
        BY <2>1, ExitCodeOf
      <3> QED BY <3>1 DEF Report
    <2>3. Hopeless(evidence)
      BY <2>1, <2>2, SomethingBlocked
    <2>4. /\ truth.platform.known
          /\ evidence.platform.known =>
                /\ evidence.platform.derivative = truth.platform.derivative
                /\ evidence.platform.current = truth.platform.current
                /\ evidence.platform.path = truth.platform.path
      BY <2>1, PartsAgree DEF PlatformFits
    <2>5. /\ evidence.apt.broken => truth.apt.broken
          /\ evidence.apt.performed /\ ~evidence.apt.incomplete =>
                evidence.apt.removals \subseteq truth.apt.removals
          /\ truth.apt.performed /\ ~truth.apt.incomplete
      BY <2>1, PartsAgree DEF AptFits
    <2>6. evidence.dpkg.audit => truth.dpkg.audit
      BY <2>1, PartsAgree DEF DpkgFits
    <2>7. ~truth.dkms.missing /\ evidence.dkms.lines \subseteq truth.dkms.lines
      BY <2>1, PartsAgree DEF DkmsFits
    <2>8. Hopeless(truth)
      <3>1. CASE /\ evidence.platform.known /\ ~evidence.platform.derivative
                 /\ ~evidence.platform.current \/ ~evidence.platform.path
        BY <2>4, <3>1 DEF Hopeless
      <3>2. CASE \/ evidence.apt.broken \/ evidence.dpkg.audit
                 \/ /\ evidence.apt.performed /\ ~evidence.apt.incomplete
                    /\ "essential" \in evidence.apt.removals
        BY <2>5, <2>6, <3>2 DEF Hopeless
      <3>3. CASE evidence.dkms.lines \cap {"failed", "incomplete"} # {}
        BY <2>7, <3>3 DEF Hopeless
      <3> QED BY <2>3, <3>1, <3>2, <3>3 DEF Hopeless
    <2> QED BY <2>1, <2>8, SomethingBlocked DEF TrueVerdict, Aggregate
  <1> QED BY <1>1, ScanInvariance, PTL

(* Exit code 0 rules evidence that could not be had out, but for the holes *)
(* (docs/exit-codes.md).                                                   *)
THEOREM GapsShow == Spec => []GapsPreventReady
  <1>1. IInv => GapsPreventReady
    BY ReadyMeans DEF GapsPreventReady
  <1> QED BY <1>1, ScanInvariance, PTL

(* A machine with nothing to report gets exit code 0 where the file clock  *)
(* starts in the past.                                                     *)
THEOREM HealthyReady == Spec => []HealthyIsReady
  <1>1. IInv => HealthyIsReady
    <2> SUFFICES ASSUME IInv, pc = "done", deviations = 0, epoch = "past"
                 PROVE  exit = 0
      BY DEF HealthyIsReady, Unremarkable
    <2>1. truth = Healthy /\ blind = {} /\ issues = {}
      BY DEF IInv, Unharmed
    <2>2. ~Threw /\ exit = ExitFor(Aggregate(Report(evidence, issues)))
      BY DEF IInv, Outcome
    <2>3. /\ Agreement /\ evidence \in Snapshots
          /\ \A part \in Collectors : Collected(part)
      BY <2>2 DEF IInv, Shape, Collected, Position, Collectors
    <2>4. evidence.platform = Healthy.platform /\ evidence.sources = Healthy.sources
      BY <2>1, <2>3, PartsAgree DEF PlatformFits, SourcesFits, Without
    <2>5. /\ evidence.apt.performed /\ ~evidence.apt.incomplete
          /\ evidence.apt.broken => Healthy.apt.broken
          /\ evidence.apt.removals = Healthy.apt.removals
          /\ evidence.apt.freshKnown = Healthy.apt.freshKnown
          /\ evidence.apt.freshKnown => evidence.apt.stale = Healthy.apt.stale
      BY <2>1, <2>3, PartsAgree DEF AptFits, Without
    <2>6. /\ evidence.dpkg.audit = Healthy.dpkg.audit
          /\ evidence.dpkg.held = Healthy.dpkg.held
      BY <2>1, <2>3, PartsAgree DEF DpkgFits, Without
    <2>7. \A mount \in {"root", "boot", "efi"} :
             evidence.storage[mount] = Healthy.storage[mount]
      BY <2>1, <2>3, PartsAgree DEF StorageFits
    <2>8. /\ Healthy.kernel.fallback => evidence.kernel.fallback
          /\ evidence.kernel.fallback => evidence.kernel.kernels > 0
          /\ evidence.kernel.inconsistent = Healthy.kernel.inconsistent
      BY <2>1, <2>3, PartsAgree DEF KernelFits, Without
    <2>9. /\ evidence.dkms = Healthy.dkms /\ evidence.secureBoot = Healthy.secureBoot
          /\ evidence.reboot = Healthy.reboot
      BY <2>1, <2>3, PartsAgree DEF DkmsFits, SecureBootFits, RebootFits, Without
    <2>10. Spotless(evidence)
      BY <2>4, <2>5, <2>6, <2>7, <2>8, <2>9 DEF Spotless, Confident, Healthy
    <2>11. Report(evidence, issues) \cap {"blocked", "unknown", "warning"} = {}
      BY <2>1, <2>3, <2>10, NoWarning DEF Report
    <2> QED BY <2>2, <2>11, ExitCodeOf
  <1> QED BY <1>1, ScanInvariance, PTL

-----------------------------------------------------------------------------
(* The report                                                              *)

LEMMA Counted ==
    ASSUME NEW s, NEW reported \in SUBSET Issues, NEW status \in Statuses \ {"passed"}
    PROVE  /\ Summary(Findings(s), reported)[status] \in Nat
           /\ Summary(Findings(s), reported)[status] > 0 <=> status \in Report(s, reported)
  <1> DEFINE found == Findings(s)
             ids == {id \in DOMAIN found : found[id] = status}
  <1>1. IsFiniteSet(ids) /\ IsFiniteSet(reported)
    <2> DEFINE A == {"REL_001", "REL_002", "REL_003", "APT_001", "APT_002", "APT_003"}
               B == {"APT_004", "APT_005", "APT_006", "APT_007", "DSK_001", "DSK_002"}
               C == {"DSK_003", "DKM_001", "KRN_001", "KRN_002", "SEC_001", "RBT_001"}
    <2>1. IsFiniteSet(A) /\ IsFiniteSet(B) /\ IsFiniteSet(C)
      BY SixAreFinite
    <2>2. IsFiniteSet(A \cup B)
      BY <2>1, FS_Union
    <2>3. IsFiniteSet((A \cup B) \cup C)
      BY <2>1, <2>2, FS_Union
    <2>4. ids \subseteq (A \cup B) \cup C
      <3>1. ids \subseteq FindingIds
        BY FindingsOf
      <3>2. FindingIds \subseteq (A \cup B) \cup C
        BY DEF FindingIds
      <3> HIDE DEF ids, A, B, C
      <3> QED BY <3>1, <3>2
    <2> HIDE DEF ids, A, B, C
    <2> QED BY <2>3, <2>4, FS_Subset, EvidenceIsFinite
  <1>2. ids # {} <=> status \in RuleStatuses(s)
    BY DEF RuleStatuses
  <1>3. status \in Report(s, reported)
           <=> ids # {} \/ (status = "unknown" /\ reported # {})
    BY <1>2 DEF Report
  <1>4. Summary(found, reported)[status] =
           Cardinality(ids) + (IF status = "unknown" THEN Cardinality(reported) ELSE 0)
    BY DEF Summary, Count
  <1> HIDE DEF ids
  <1>5. /\ Cardinality(ids) \in Nat /\ (Cardinality(ids) = 0 <=> ids = {})
        /\ Cardinality(reported) \in Nat /\ (Cardinality(reported) = 0 <=> reported = {})
    BY <1>1, FS_CardinalityType, FS_EmptySet
  <1> QED BY <1>3, <1>4, <1>5

(* Who reads the report can tell why the tool exits as it does: the counts *)
(* at its head decide the code and every finding behind a count is listed, *)
(* in both formats, verbose or not; without a report the code is 3         *)
(* (TextReporter.cpp, JsonReporter.cpp and the exit codes of the CLI).     *)
THEOREM ReportTellsWhy == Spec => []ReportExplainsExit
  <1>1. IInv => ReportExplainsExit
    <2> SUFFICES ASSUME IInv, pc = "done", printed # NoReport
                 PROVE  /\ exit = CASE printed.summary.blocked > 0 -> 2
                                  [] /\ printed.summary.blocked = 0
                                     /\ printed.summary.unknown > 0 -> 3
                                  [] OTHER -> IF printed.summary.warning > 0 THEN 1 ELSE 0
                        /\ exit = ExitFor(printed.overall)
                        /\ \A status \in DOMAIN printed.summary :
                               printed.summary[status] = ListedAs(status)
      BY DEF IInv, Outcome, Threw, ReportExplainsExit
    <2> DEFINE found == Findings(evidence)
               verdict == Aggregate(Report(evidence, issues))
    <2>1. /\ exit = ExitFor(verdict) /\ issues \in SUBSET Issues
          /\ \/ \E verbose \in BOOLEAN :
                   printed = TextReport(evidence, issues, verdict, verbose)
             \/ printed = JsonReport(evidence, issues, verdict)
      BY DEF IInv, Outcome, Threw, Shape
    <2>2. /\ printed.summary = Summary(found, issues)
          /\ printed.overall = verdict /\ printed.issues = issues
      BY <2>1 DEF TextReport, JsonReport
    <2>3. \A status \in Statuses \ {"passed"} :
             {id \in DOMAIN printed.findings : printed.findings[id] = status}
                = {id \in DOMAIN found : found[id] = status}
      <3>1. \E ids \in SUBSET DOMAIN found :
               /\ printed.findings = [id \in ids |-> found[id]]
               /\ \A id \in DOMAIN found : found[id] # "passed" => id \in ids
        <4>1. ASSUME NEW verbose \in BOOLEAN,
                     printed = TextReport(evidence, issues, verdict, verbose)
              PROVE  /\ Listed(found, verbose) \in SUBSET DOMAIN found
                     /\ printed.findings = [id \in Listed(found, verbose) |-> found[id]]
                     /\ \A id \in DOMAIN found :
                           found[id] # "passed" => id \in Listed(found, verbose)
          <5>1. printed.findings = [id \in Listed(found, verbose) |-> found[id]]
            BY <4>1 DEF TextReport
          <5> HIDE DEF found
          <5> QED BY <5>1 DEF Listed
        <4>2. ASSUME printed = JsonReport(evidence, issues, verdict)
              PROVE  printed.findings = [id \in DOMAIN found |-> found[id]]
          BY <4>2 DEF JsonReport
        <4> HIDE DEF found, verdict
        <4> QED BY <2>1, <4>1, <4>2
      <3> HIDE DEF found
      <3>2. PICK ids \in SUBSET DOMAIN found :
               /\ printed.findings = [id \in ids |-> found[id]]
               /\ \A id \in DOMAIN found : found[id] # "passed" => id \in ids
        BY <3>1
      <3>3. DOMAIN printed.findings = ids /\ \A id \in ids : printed.findings[id] = found[id]
        BY <3>2
      <3> QED BY <3>2, <3>3
    <2>4. DOMAIN printed.summary = Statuses \ {"passed"}
      BY <2>2 DEF Summary
    <2>5. \A status \in DOMAIN printed.summary :
             printed.summary[status] = ListedAs(status)
      BY <2>2, <2>3, <2>4 DEF Summary, Count, ListedAs
    <2>6. \A status \in {"blocked", "unknown", "warning"} :
             /\ printed.summary[status] \in Nat
             /\ printed.summary[status] > 0 <=> status \in Report(evidence, issues)
      BY <2>1, <2>2, Counted DEF Statuses
    <2>7. exit = CASE printed.summary.blocked > 0 -> 2
                   [] /\ printed.summary.blocked = 0
                      /\ printed.summary.unknown > 0 -> 3
                   [] OTHER -> IF printed.summary.warning > 0 THEN 1 ELSE 0
      <3> DEFINE b == printed.summary.blocked
                 u == printed.summary.unknown
                 w == printed.summary.warning
      <3>1. /\ b \in Nat /\ (b > 0 <=> "blocked" \in Report(evidence, issues))
            /\ u \in Nat /\ (u > 0 <=> "unknown" \in Report(evidence, issues))
            /\ w \in Nat /\ (w > 0 <=> "warning" \in Report(evidence, issues))
        BY <2>6
      <3> HIDE DEF b, u, w
      <3>2. exit = CASE b > 0 -> 2
                     [] b = 0 /\ u > 0 -> 3
                     [] OTHER -> IF w > 0 THEN 1 ELSE 0
        <4>1. CASE b > 0
          BY <2>1, <3>1, <4>1 DEF Aggregate, ExitFor
        <4>2. CASE b = 0 /\ u > 0
          BY <2>1, <3>1, <4>2 DEF Aggregate, ExitFor
        <4>3. CASE b = 0 /\ u = 0
          BY <2>1, <3>1, <4>3 DEF Aggregate, ExitFor
        <4> QED BY <3>1, <4>1, <4>2, <4>3
      <3> QED BY <3>2 DEF b, u, w
    <2> QED BY <2>1, <2>2, <2>5, <2>7
  <1> QED BY <1>1, ScanInvariance, PTL

=============================================================================
