--------------------------- MODULE ProcessContract ---------------------------
(***************************************************************************)
(* What IProcessRunner::run promises its callers, whatever runs the        *)
(* command and however: one answer to a call, no answer while a process of *)
(* the call is alive, an exit status only if the process ended with it, and*)
(* of each stream at most Limit bytes, marked as cut only when they are.   *)
(***************************************************************************)
EXTENDS Naturals

CONSTANT Limit

VARIABLES
    answer,     \* ProcessResult or Error, "pending" before the call returns
    process,    \* "none", "live", "ended"
    fate,       \* how the process ended
    output,     \* bytes of each stream the caller gets
    cut         \* streams that had more

vars == <<answer, process, fate, output, cut>>

Init ==
    /\ answer = "pending"
    /\ process = "none"
    /\ fate = "none"
    /\ output = [s \in {"out", "err"} |-> 0]
    /\ cut = [s \in {"out", "err"} |-> FALSE]

(* The call fails without a process.                                       *)
Refuse ==
    /\ answer = "pending"
    /\ process = "none"
    /\ answer' \in {"error", "spawn_failed"}
    /\ UNCHANGED <<process, fate, output, cut>>

Start ==
    /\ answer = "pending"
    /\ process = "none"
    /\ process' = "live"
    /\ UNCHANGED <<answer, fate, output, cut>>

(* Output arrives; what does not fit is dropped and marked.                *)
Receive(s) ==
    /\ answer = "pending"
    /\ process # "none"
    /\ \E n \in output[s] .. Limit, c \in BOOLEAN :
          /\ cut[s] => c
          /\ c => n = Limit
          /\ output' = [output EXCEPT ![s] = n]
          /\ cut' = [cut EXCEPT ![s] = c]
    /\ UNCHANGED <<answer, process, fate>>

End(f) ==
    /\ answer = "pending"
    /\ process = "live"
    /\ process' = "ended"
    /\ fate' = f
    /\ UNCHANGED <<answer, output, cut>>

(* The process is gone: its status, or that it took too long.              *)
Report ==
    /\ answer = "pending"
    /\ process = "ended"
    /\ answer' \in {fate, "timed_out"}
    /\ UNCHANGED <<process, fate, output, cut>>

Next ==
    \/ Refuse \/ Start \/ Report
    \/ \E s \in {"out", "err"} : Receive(s)
    \/ \E f \in {"zero", "nonzero", "signaled"} : End(f)

Spec == Init /\ [][Next]_vars

=============================================================================
