----------------------------- MODULE MCReportFile -----------------------------
(***************************************************************************)
(* Two invocations.  Either one gives any short line and the other asks for*)
(* help, or both write to the same file, with and without --force.         *)
(***************************************************************************)
EXTENDS ReportFile

CONSTANTS first, second

MCInvocations == {first, second}

Words ==
    {"--target", "--format", "--output", "--force", "--verbose", "24.04", "22.04", "json",
     "FILE", ""}
FewWords == {"--target", "--output", "--force", "FILE"}

(* A line that begins with neither an option nor a value ends there.       *)
Beginning == {"--target", "--format", "--output", "--force", "22.04"}

Short ==
    {<<>>} \cup {<<word>> \o rest : word \in Beginning,
                 rest \in UNION {[1 .. n -> Words] : n \in 0 .. 2} \cup [1 .. 3 -> FewWords]}

OwnTexts ==
    {<<>>, <<"help">>, <<"--version">>, <<"explain", "UG-APT-004">>, <<"explain", "UG">>,
     <<"explain">>, <<"list-checks">>, <<"list-checks", "FILE">>, <<"list-checks", "--help">>,
     <<"scan", "--help">>, <<"scan", "--help", "--force">>, <<"upgrade">>}

Alone == OwnTexts \cup {<<command>> \o words : command \in {"scan", "export"}, words \in Short}

WritingLines ==
    {<<"scan", "--output", "FILE">>, <<"export", "--output", "FILE", "--force">>,
     <<"scan", "--output", "--force", "--output", "FILE">>}

MCCommandLines ==
    {[i \in MCInvocations |-> IF i = first THEN words ELSE <<"help">>] : words \in Alone}
    \cup [MCInvocations -> WritingLines]

MCWriting == [MCInvocations -> WritingLines]

=============================================================================
