------------------------------- MODULE AptOutput -------------------------------
(***************************************************************************)
(* What "apt-get --simulate dist-upgrade" prints and what parse_section    *)
(* reads out of it.  A line is its kind: a heading, a name below a heading *)
(* (one line may hold several names in the code, which makes no            *)
(* difference), or anything else.                                          *)
(***************************************************************************)
EXTENDS Readiness, Sequences, FiniteSets, Functions

(* Lines that begin with two spaces.                                       *)
Indented == Removals \cup {"new"}

(* The text for these removals, one after the other: a banner, the section *)
(* of removals, the section of new packages, a summary.                    *)
SimulationText(removed) ==
    <<"banner">> \o (IF removed = <<>> THEN <<>> ELSE <<"REMOVED">> \o removed)
    \o <<"NEW", "new", "summary">>

Orders(removals) == Surjection(1 .. Cardinality(removals), removals)

(* The first line with this heading.                                       *)
Heading(text, h) == text[h] = "REMOVED" /\ \A k \in 1 .. h - 1 : text[k] # "REMOVED"

(* A line that is no name is skipped, and the section never ends.          *)
SectionOfAll(text) ==
    {text[i] : i \in {j \in DOMAIN text : /\ text[j] \in Indented
                                         /\ \E h \in 1 .. j - 1 : Heading(text, h)}}

(* The names below the heading, up to the first line that is neither       *)
(* indented nor the heading again.                                         *)
Section(text) ==
    {text[i] : i \in {j \in DOMAIN text :
        /\ text[j] \in Indented
        /\ \E h \in 1 .. j - 1 :
              /\ Heading(text, h)
              /\ \A k \in h .. j : text[k] \in Indented \cup {"REMOVED"}}}

(* What may be left of a text whose end is lost: it ends after a line, or  *)
(* within a name, of which the beginning is a name too ("apt" of           *)
(* "apt-utils", "ap" of "apt").                                            *)
Beginnings(text) ==
    LET Left(n) == SubSeq(text, 1, n)
    IN  {Left(n) : n \in 0 .. Len(text)}
        \cup {[Left(n) EXCEPT ![n] = name] :
                 n \in {m \in 1 .. Len(text) : text[m] \in Removals}, name \in Removals}

=============================================================================
