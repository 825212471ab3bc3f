-------------------------------- MODULE Sources --------------------------------
(***************************************************************************)
(* SourcesCollector: the APT source files, read line by line, one .list    *)
(* file first and then a directory in whatever order the filesystem lists  *)
(* it.                                                                     *)
(*                                                                         *)
(* A line is what the parser tells apart of it.  The words of a source are *)
(* the hosts and suites it names: what classifies it and what makes it a   *)
(* duplicate.  Suites stands for the Suites and Components of a stanza.    *)
(***************************************************************************)
EXTENDS Naturals, Sequences, FiniteSets, SequencesExt

CONSTANTS
    MainLists,      \* what sources.list may hold
    Directories     \* what sources.list.d may hold: functions from file names

Words == {"ubuntu", "ppa", "other", "noble", "no"}
Fields == {"URIs", "Suites", "Enabled", "Other"}

(* A .list file: "deb" lines, in comment or not, and lines that are none.  *)
ListLines ==
    [kind : {"deb"}, off : BOOLEAN, words : Seq(Words)] \cup [kind : {"none"}]

(* A .sources file: blank lines, fields, indented lines, and comments with *)
(* no colon.  A comment with one is a field like any other to this parser. *)
StanzaLines ==
    [kind : {"blank", "comment"}]
    \cup [kind : {"field"}, name : Fields, words : Seq(Words)]
    \cup [kind : {"more"}, words : Seq(Words)]

Files == [format : {"list"}, lines : Seq(ListLines)]
         \cup [format : {"sources"}, lines : Seq(StanzaLines)]

ASSUME InputAssumption ==
    /\ MainLists \subseteq [format : {"list"}, lines : Seq(ListLines)]
    /\ \A d \in Directories : \A name \in DOMAIN d : d[name] \in Files

VARIABLES
    main, dir,      \* the files (constant during a run)
    unread,         \* names in the directory not yet visited
    current,        \* the file being read: its format and the lines left
    stanza, key,    \* the fields of the stanza so far, and the last one
    seen,           \* sources met so far, in any file
    thirdParty,     \* facts.third_party_sources
    duplicates,     \* facts.duplicate_sources
    disabled        \* facts.disabled_sources

facts == <<seen, thirdParty, duplicates, disabled>>
vars == <<main, dir, unread, current, stanza, key, facts>>

NoStanza == <<>>
NoKey == "none"

Init ==
    /\ main \in MainLists
    /\ dir \in Directories
    /\ unread = DOMAIN dir
    /\ current = main
    /\ stanza = NoStanza
    /\ key = NoKey
    /\ seen = {}
    /\ thirdParty = <<>>
    /\ duplicates = <<>>
    /\ disabled = <<>>

ThirdParty(words) == "ppa" \in ToSet(words) \/ "ubuntu" \notin ToSet(words)

Classify(words) ==
    thirdParty' = IF ThirdParty(words) THEN Append(thirdParty, words) ELSE thirdParty

(* Classified before asking whether it is off.                             *)
NoteClassifyingFirst(words, off) ==
    /\ Classify(words)
    /\ IF off
          THEN disabled' = Append(disabled, words) /\ UNCHANGED <<seen, duplicates>>
          ELSE /\ seen' = seen \cup {words}
               /\ duplicates' = IF words \in seen THEN Append(duplicates, words) ELSE duplicates
               /\ UNCHANGED disabled

(* What happens to a source, in comment or disabled, or enabled.           *)
NoteSource(words, off) ==
    IF off
       THEN disabled' = Append(disabled, words) /\ UNCHANGED <<seen, thirdParty, duplicates>>
       ELSE /\ seen' = seen \cup {words}
            /\ Classify(words)
            /\ duplicates' = IF words \in seen THEN Append(duplicates, words) ELSE duplicates
            /\ UNCHANGED disabled

-----------------------------------------------------------------------------
(* One line of a .list file                                                *)

InspectLine ==
    /\ current.format = "list"
    /\ current.lines # <<>>
    /\ LET line == Head(current.lines)
       IN  IF line.kind = "deb" THEN NoteSource(line.words, line.off) ELSE UNCHANGED facts
    /\ current' = [current EXCEPT !.lines = Tail(@)]
    /\ UNCHANGED <<main, dir, unread, stanza, key>>

-----------------------------------------------------------------------------
(* One line of a .sources file                                             *)

FieldOrNothing(name) == IF name \in DOMAIN stanza THEN stanza[name] ELSE <<>>

InspectStanza ==
    IF "URIs" \in DOMAIN stanza
       THEN NoteSource(stanza["URIs"] \o FieldOrNothing("Suites"),
                       "Enabled" \in DOMAIN stanza /\ stanza["Enabled"] = <<"no">>)
       ELSE UNCHANGED facts

SetField(name, words) ==
    [f \in DOMAIN stanza \cup {name} |-> IF f = name THEN words ELSE stanza[f]]

(* The last field stays open for more lines across the blank one.          *)
EndStanzaKeepingKey ==
    /\ InspectStanza
    /\ stanza' = NoStanza
    /\ UNCHANGED key

EndStanza ==
    /\ InspectStanza
    /\ stanza' = NoStanza
    /\ key' = NoKey

(* An indented line goes on with the last field; before any field it is    *)
(* itself taken for one, because of the colon in its address.              *)
ReadStanzaLine ==
    /\ current.format = "sources"
    /\ current.lines # <<>>
    /\ LET line == Head(current.lines)
       IN  \/ line.kind = "blank" /\ EndStanza
           \/ line.kind = "comment" /\ UNCHANGED <<stanza, key, facts>>
           \/ /\ line.kind = "more" /\ key # NoKey
              /\ stanza' = SetField(key, FieldOrNothing(key) \o line.words)
              /\ UNCHANGED <<key, facts>>
           \/ /\ line.kind = "more" /\ key = NoKey
              /\ key' = "Other"
              /\ stanza' = SetField("Other", line.words)
              /\ UNCHANGED facts
           \/ /\ line.kind = "field"
              /\ key' = line.name
              /\ stanza' = SetField(line.name, line.words)
              /\ UNCHANGED facts
    /\ current' = [current EXCEPT !.lines = Tail(@)]
    /\ UNCHANGED <<main, dir, unread>>

-----------------------------------------------------------------------------
(* From file to file                                                       *)

Idle == [format |-> "none", lines |-> <<>>]

ForgetStanza ==
    /\ stanza' = NoStanza
    /\ key' = NoKey
    /\ UNCHANGED facts

(* The end of a file ends its last stanza.                                 *)
FinishFile == IF current.format = "sources" THEN EndStanza ELSE ForgetStanza

EndFile ==
    /\ current # Idle
    /\ current.lines = <<>>
    /\ FinishFile
    /\ current' = Idle
    /\ UNCHANGED <<main, dir, unread>>

NextFile ==
    /\ current = Idle
    /\ \E name \in unread :
          /\ current' = dir[name]
          /\ unread' = unread \ {name}
    /\ UNCHANGED <<main, dir, stanza, key, facts>>

Done == current = Idle /\ unread = {}
Terminated == Done /\ UNCHANGED vars

Next == InspectLine \/ ReadStanzaLine \/ EndFile \/ NextFile \/ Terminated

Spec == Init /\ [][Next]_vars

-----------------------------------------------------------------------------
(* What the files mean, said without reading them in an order              *)

(* The stanzas of a file are its stretches without a blank line, from where*)
(* one starts to where it ends.                                            *)
StanzaBounds(lines) ==
    {b \in (1 .. Len(lines)) \X (1 .. Len(lines)) :
        /\ b[1] <= b[2]
        /\ \A i \in b[1] .. b[2] : lines[i].kind # "blank"
        /\ b[1] > 1 => lines[b[1] - 1].kind = "blank"
        /\ b[2] < Len(lines) => lines[b[2] + 1].kind = "blank"}

WordsOf(line) == IF line.kind \in {"field", "more"} THEN line.words ELSE <<>>

(* The words from one line on, up to each of the lines after it.           *)
Gathered(lines, first) ==
    LET words[k \in first .. Len(lines)] ==
            IF k = first THEN WordsOf(lines[k]) ELSE words[k - 1] \o WordsOf(lines[k])
    IN  words

Greatest(numbers) == CHOOSE n \in numbers : \A k \in numbers : k <= n

(* The value of a field: its last occurrence in the stanza and the indented*)
(* lines after it, comments between them aside.                            *)
Value(lines, b, name) ==
    LET starts == {i \in b[1] .. b[2] : lines[i].kind = "field" /\ lines[i].name = name}
        first == Greatest(starts)
        mine == {i \in first .. b[2] :
                    \A j \in first + 1 .. i : lines[j].kind \in {"more", "comment"}}
    IN  IF starts = {} THEN <<>> ELSE Gathered(lines, first)[Greatest(mine)]

HasField(lines, b, name) ==
    \E i \in b[1] .. b[2] : lines[i].kind = "field" /\ lines[i].name = name

Disabled(lines, b) == Value(lines, b, "Enabled") = <<"no">>

(* The enabled sources of a file, each with the place where it stands.     *)
EnabledIn(place, file) ==
    IF file.format = "list"
       THEN {[at |-> <<place, i>>, words |-> file.lines[i].words] :
                i \in {j \in 1 .. Len(file.lines) :
                          file.lines[j].kind = "deb" /\ ~file.lines[j].off}}
       ELSE {[at |-> <<place, b[1]>>, words |-> Value(file.lines, b, "URIs")
                                     \o Value(file.lines, b, "Suites")] :
                b \in {c \in StanzaBounds(file.lines) :
                          HasField(file.lines, c, "URIs") /\ ~Disabled(file.lines, c)}}

(* A file of the directory by its name, or sources.list.                   *)
MainPlace == <<>>
Places == {MainPlace} \cup {<<name>> : name \in DOMAIN dir}
FileAt(place) == IF place = MainPlace THEN main ELSE dir[place[1]]

EnabledAt(places) == UNION {EnabledIn(place, FileAt(place)) : place \in places}
Enabled == EnabledAt(Places)

-----------------------------------------------------------------------------
(* Properties                                                              *)

TypeOK ==
    /\ unread \subseteq DOMAIN dir
    /\ DOMAIN stanza \subseteq Fields
    /\ key \in Fields \cup {NoKey}
    /\ ToSet(duplicates) \cup ToSet(thirdParty) \subseteq seen

(* Every enabled source outside Ubuntu is reported, and nothing else is,   *)
(* in whatever order the files are met (third_party_sources).              *)
ThirdPartyExact ==
    Done => ToSet(thirdParty) = {s.words : s \in {e \in Enabled : ThirdParty(e.words)}}

(* Every source beyond the first of its kind is reported once as a         *)
(* duplicate, across files and formats and in whatever order they are met; *)
(* a disabled one never is (duplicate_sources).                            *)
DuplicatesExact ==
    Done => LET enabled == Enabled
                Times(words) == Cardinality({e \in enabled : e.words = words})
            IN  \A words \in {e.words : e \in enabled} \cup ToSet(duplicates) :
                    Times(words) = 1 + Cardinality({i \in DOMAIN duplicates :
                                                       duplicates[i] = words})

-----------------------------------------------------------------------------
(* The inductive invariant behind these properties                         *)

Types ==
    /\ unread \subseteq DOMAIN dir
    /\ DOMAIN stanza \subseteq Fields
    /\ \A name \in DOMAIN stanza : stanza[name] \in Seq(Words)
    /\ key \in Fields \cup {NoKey}
    /\ seen \subseteq Seq(Words)
    /\ thirdParty \in Seq(Seq(Words)) /\ duplicates \in Seq(Seq(Words))

(* What the facts are once these sources were met.                         *)
Noted(sources) ==
    /\ IsFiniteSet(sources)
    /\ seen = {s.words : s \in sources}
    /\ ToSet(thirdParty) = {words \in seen : ThirdParty(words)}
    /\ ToSet(duplicates) \subseteq seen
    /\ \A words \in seen :
          Cardinality({s \in sources : s.words = words}) =
             1 + Cardinality({i \in DOMAIN duplicates : duplicates[i] = words})

(* The stanza that is open after n lines begins at line s, which is n + 1  *)
(* when nothing of it was read.                                            *)
Stretch(lines, s, n) ==
    /\ s \in 1 .. n + 1
    /\ s > 1 => lines[s - 1].kind = "blank"
    /\ \A i \in s .. n : lines[i].kind # "blank"

(* The field that an indented line would go on with.                       *)
Continues(lines, s, n, name) ==
    \E i \in s .. n :
        /\ lines[i].kind = "field" /\ lines[i].name = name
        /\ \A j \in i + 1 .. n : lines[j].kind \in {"more", "comment"}

StanzaSoFar(lines, s, n) ==
    \A name \in Fields \ {"Other"} :
        /\ name \in DOMAIN stanza <=> HasField(lines, <<s, n>>, name)
        /\ FieldOrNothing(name) = Value(lines, <<s, n>>, name)
        /\ key = name <=> Continues(lines, s, n, name)

Met == Places \ {<<name>> : name \in unread}

BetweenFiles ==
    /\ current = Idle /\ stanza = NoStanza /\ key = NoKey
    /\ Noted(EnabledAt(Met))

(* After n lines of the file at this place: what begins before line s is   *)
(* noted.                                                                  *)
InFile(place, n, s) ==
    LET file == FileAt(place)
    IN  /\ current = [format |-> file.format,
                      lines |-> SubSeq(file.lines, n + 1, Len(file.lines))]
        /\ IF file.format = "list" THEN s = n + 1 /\ stanza = NoStanza /\ key = NoKey
           ELSE Stretch(file.lines, s, n) /\ StanzaSoFar(file.lines, s, n)
        /\ Noted(EnabledAt(Met \ {place})
                    \cup {e \in EnabledIn(place, file) : e.at[2] < s})

(* The facts are those of the files and stanzas that were left, and stanza *)
(* and key those of the lines since.                                       *)
IInv ==
    /\ Types
    /\ \/ BetweenFiles
       \/ \E place \in Met : \E n \in 0 .. Len(FileAt(place).lines) : \E s \in 1 .. n + 1 :
             InFile(place, n, s)

=============================================================================
