------------------------------ MODULE Descriptors ------------------------------
(***************************************************************************)
(* The descriptor numbers behind the two pipes: which number pipe() gives  *)
(* each end when the tool itself was started with some of its standard     *)
(* descriptors closed, and what spawn_child makes of them in the child.    *)
(***************************************************************************)
EXTENDS Naturals

Standard == 0 .. 2

(* Numbers with which the tool never runs out: four ends of pipes beside   *)
(* the standard descriptors.                                               *)
Numbers == 0 .. 6

Lowest(numbers) == CHOOSE n \in numbers : \A m \in numbers : n <= m

Without(numbers) == numbers \ {Lowest(numbers)}

(* Every end gets the lowest number that is free: out_pipe[0], out_pipe[1],*)
(* err_pipe[0], err_pipe[1], in this order.                                *)
NumberOf(closed, stream, end) ==
    LET first == closed \cup (Numbers \ Standard)
        second == Without(first)
        third == Without(second)
    IN  CASE stream = "out" /\ end = "read" -> Lowest(first)
          [] stream = "out" /\ end = "write" -> Lowest(second)
          [] stream = "err" /\ end = "read" -> Lowest(third)
          [] stream = "err" /\ end = "write" -> Lowest(Without(third))

(* The standard descriptor a command writes this stream to.                *)
Standing(stream) == IF stream = "out" THEN 1 ELSE 2

(* What the child's numbers mean after fork: an end of a pipe, something   *)
(* the tool was started with, or nothing.                                  *)
AfterFork(closed) ==
    [n \in Numbers |->
        IF \E s \in {"out", "err"}, e \in {"read", "write"} : NumberOf(closed, s, e) = n
        THEN CHOOSE end \in {"out", "err"} \X {"read", "write"} :
                NumberOf(closed, end[1], end[2]) = n
        ELSE IF n \in Standard \ closed THEN <<"inherited", n>> ELSE <<"closed", n>>]

Dup2(table, from, to) == [table EXCEPT ![to] = table[from]]
Close(table, numbers) ==
    [n \in Numbers |-> IF n \in numbers THEN <<"closed", n>> ELSE table[n]]

Copied(closed) ==
    Dup2(Dup2(AfterFork(closed), NumberOf(closed, "out", "write"), 1),
         NumberOf(closed, "err", "write"), 2)

EndNumbers(closed) ==
    {NumberOf(closed, s, e) : s \in {"out", "err"}, e \in {"read", "write"}}

(* The ends are closed while they are still to be copied.                  *)
CloseBeforeCopying(closed) ==
    LET t == Close(AfterFork(closed), EndNumbers(closed))
    IN  Dup2(Dup2(t, NumberOf(closed, "out", "write"), 1),
             NumberOf(closed, "err", "write"), 2)

(* The table execve leaves to the command: both write ends copied to the   *)
(* standard descriptors, then all four ends closed by number - also the    *)
(* ones that are standard descriptors themselves.                          *)
ChildTable(closed) == Close(Copied(closed), EndNumbers(closed))

(* The command's output on this stream goes into the pipe run reads.       *)
Connected(closed, stream) == ChildTable(closed)[Standing(stream)] = <<stream, "write">>

=============================================================================
