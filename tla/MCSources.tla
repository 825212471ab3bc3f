------------------------------- MODULE MCSources -------------------------------
(***************************************************************************)
(* A sources.list with one source or none, and a directory of one .list    *)
(* and one .sources file; the latter is every text of five lines, enough   *)
(* for two stanzas of which one is disabled, names a suite or goes on over *)
(* an indented line.                                                       *)
(***************************************************************************)
EXTENDS Sources

Deb(off, words) == [kind |-> "deb", off |-> off, words |-> words]
Field(name, word) == [kind |-> "field", name |-> name, words |-> <<word>>]

MCStanzaLines ==
    {[kind |-> "blank"], [kind |-> "comment"],
     Field("URIs", "ubuntu"), Field("URIs", "other"),
     Field("Suites", "noble"), Field("Enabled", "no"),
     [kind |-> "more", words |-> <<"ppa">>]}

MCMainLists ==
    {[format |-> "list", lines |-> l] :
        l \in {<<[kind |-> "none"]>>, <<Deb(FALSE, <<"ppa">>)>>}}

MCDirectories ==
    {("a.list" :> [format |-> "list", lines |-> <<l>>]) @@
     ("b.sources" :> [format |-> "sources", lines |-> s]) :
        l \in {Deb(FALSE, <<"other">>), Deb(TRUE, <<"other">>)},
        s \in [1 .. 5 -> MCStanzaLines]}

=============================================================================
