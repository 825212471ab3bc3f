--------------------------- MODULE MCProcessRunner ---------------------------
(***************************************************************************)
(* A call of the runner small enough for TLC: a limit of one byte is met   *)
(* exactly, passed by one write and passed in the middle of a read.        *)
(***************************************************************************)
EXTENDS ProcessRunner

(* Commands that are silent, that fill one stream past the limit and past  *)
(* what the pipe holds, and that write to both.                            *)
MCPlans == {[s \in Streams |-> IF s = "out" THEN m ELSE n] : m \in {0, 1, 3}, n \in {0, 1}}

(* The same with an empty standard error, for the runs that need one       *)
(* stream only.                                                            *)
MCOneStream == {[s \in Streams |-> IF s = "out" THEN 1 ELSE 0]}

(* A tool started as usual, and one started without standard input or      *)
(* without standard output.                                                *)
MCClosedSets == {{}, {0}, {1}}
MCNoneClosed == {{}}

=============================================================================
