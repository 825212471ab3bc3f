---------------------------- MODULE ProcessRunner ----------------------------
(***************************************************************************)
(* One call of PosixProcessRunner::run, interleaved with the command it    *)
(* starts, with a descendant that inherits the command's streams and with  *)
(* the clock.                                                              *)
(*                                                                         *)
(* Output is counted, never spelled out: a number stands for that many     *)
(* bytes of one stream.  A call starts at "pipe_out" and ends at "done";   *)
(* every value of pc between the two is a point of the code where another  *)
(* process may run and make a difference.                                  *)
(***************************************************************************)
EXTENDS Naturals, Descriptors

CONSTANTS
    Limit,      \* request.max_output_bytes
    BufSize,    \* sizeof buffer of the drain loop
    PipeCap,    \* what the kernel keeps of one stream before a writer blocks
    Plans,      \* how much a command may have to write to each stream
    Endless,    \* streams to which a command never stops writing
    ClosedSets  \* standard descriptors the tool may have been started without

Streams == {"out", "err"}

ASSUME SizeAssumption ==
    /\ Limit \in Nat
    /\ BufSize \in Nat \ {0}
    /\ PipeCap \in Nat \ {0}
ASSUME PlanAssumption == Plans \subseteq [Streams -> Nat]
ASSUME EndlessAssumption == Endless \subseteq Streams
ASSUME ClosedAssumption == ClosedSets \subseteq SUBSET Standard

VARIABLES
    pc,         \* where run stands
    fds,        \* ends of the two pipes this process holds open
    answer,     \* what run has found out so far, and returns
    text,       \* bytes kept of each stream: stdout_text, stderr_text
    truncated,  \* stdout_truncated, stderr_truncated
    clock,      \* now against the deadline
    child,      \* the command's process
    status,     \* how that process ended
    holders,    \* processes that hold the write end of each pipe
    todo,       \* bytes still to be written to each stream
    pipe,       \* bytes written to each stream and not read yet
    plan,       \* bytes there were to write in all (history)
    autoReap,   \* this process was started with SIGCHLD ignored
    closed      \* standard descriptors it was started without

runnerVars == <<pc, fds, answer, text, truncated>>
childVars == <<child, status, holders, todo, plan, autoReap, closed>>
vars == <<runnerVars, clock, childVars, pipe>>

Ends == Streams \X {"read", "write"}
Fates == {"zero", "nonzero", "signaled"}
Answers == {"pending", "error", "spawn_failed", "timed_out"} \cup Fates
RunnerPoints ==
    {"pipe_out", "pipe_err", "spawn", "close_writes", "poll", "drain_out", "drain_err",
     "wait", "deadline", "kill", "reap", "close_reads", "done"}

TypeOK ==
    /\ pc \in RunnerPoints
    /\ fds \in SUBSET Ends
    /\ answer \in Answers
    /\ text \in [Streams -> 0 .. Limit]
    /\ truncated \in [Streams -> BOOLEAN]
    /\ clock \in {"early", "last_ms", "late"}
    /\ child \in {"none", "running", "doomed", "zombie", "gone"}
    /\ status \in Fates \cup {"none"}
    /\ holders \in [Streams -> SUBSET {"command", "descendant"}]
    /\ todo \in [Streams -> Nat]
    /\ pipe \in [Streams -> 0 .. PipeCap]
    /\ plan \in [Streams -> Nat]
    /\ autoReap \in BOOLEAN
    /\ closed \subseteq Standard

Lesser(a, b) == IF a <= b THEN a ELSE b

Init ==
    /\ pc = "pipe_out"
    /\ fds = {}
    /\ answer = "pending"
    /\ text = [s \in Streams |-> 0]
    /\ truncated = [s \in Streams |-> FALSE]
    /\ clock = "early"
    /\ child = "none"
    /\ status = "none"
    /\ holders = [s \in Streams |-> {}]
    /\ plan \in Plans
    /\ todo = plan
    /\ pipe = [s \in Streams |-> 0]
    /\ autoReap \in BOOLEAN
    /\ closed \in ClosedSets

-----------------------------------------------------------------------------
(* run, up to its loop                                                     *)

(* The early return of a failed pipe(), after closing what is open already.*)
PipeFailedLeaking(opened) == pc' = "done" /\ answer' = "error" /\ UNCHANGED fds
PipeFailed(opened) == pc' = "done" /\ answer' = "error" /\ fds' = fds \ opened

(* pipe(out_pipe) fails, or opens both ends.                               *)
OpenOutPipe ==
    /\ pc = "pipe_out"
    /\ \/ PipeFailed({})
       \/ /\ pc' = "pipe_err"
          /\ fds' = {"out"} \X {"read", "write"}
          /\ UNCHANGED answer
    /\ UNCHANGED <<text, truncated, clock, childVars, pipe>>

(* pipe(err_pipe) fails, and the first pipe is closed; or all is open.     *)
OpenErrPipe ==
    /\ pc = "pipe_err"
    /\ \/ PipeFailed({"out"} \X {"read", "write"})
       \/ /\ pc' = "spawn"
          /\ fds' = fds \cup ({"err"} \X {"read", "write"})
          /\ UNCHANGED answer
    /\ UNCHANGED <<text, truncated, clock, childVars, pipe>>

(* The executable is refused or not found, fork fails, or a child runs with*)
(* the write ends that its descriptor table still holds when execve is     *)
(* through.  The timeout of the request may be zero.                       *)
SpawnChild ==
    /\ pc = "spawn"
    /\ pc' = "close_writes"
    /\ \/ /\ answer' \in {"spawn_failed", "error"}
          /\ UNCHANGED <<child, holders, clock>>
       \/ /\ child' = "running"
          /\ holders' =
                [s \in Streams |-> IF Connected(closed, s) THEN {"command"} ELSE {}]
          /\ clock' \in {"early", "late"}
          /\ UNCHANGED answer
    /\ UNCHANGED <<fds, text, truncated, status, todo, plan,
                   autoReap, closed, pipe>>

(* The parent's write ends are closed whatever spawn_child answered; with  *)
(* no child the read ends are closed too and the call returns.             *)
CloseWriteEnds ==
    /\ pc = "close_writes"
    /\ IF answer = "pending"
          THEN pc' = "poll" /\ fds' = fds \ (Streams \X {"write"})
          ELSE pc' = "done" /\ fds' = fds \ Ends
    /\ UNCHANGED <<answer, text, truncated, clock, childVars, pipe>>

-----------------------------------------------------------------------------
(* The loop of run                                                         *)

(* poll wakes when a stream has bytes or has lost its last writer, and no  *)
(* later than the deadline; the wait is whole milliseconds, hence zero in  *)
(* the last one.                                                           *)
WakesOnStreams == \E s \in Streams : pipe[s] > 0 \/ holders[s] = {}
Wakes == clock # "early" \/ WakesOnStreams

Poll ==
    /\ pc = "poll"
    /\ Wakes
    /\ pc' = "drain_out"
    /\ UNCHANGED <<fds, answer, text, truncated, clock, childVars, pipe>>

AppendUnlimited(s, n) ==
    /\ text' = [text EXCEPT ![s] = @ + n]
    /\ UNCHANGED truncated

AppendWhenItFits(s, n) ==
    /\ text' = [text EXCEPT ![s] = IF @ + n <= Limit THEN @ + n ELSE @]
    /\ truncated' = [truncated EXCEPT ![s] = @ \/ text[s] + n > Limit]

(* append_limited: keep what fits, and say so when something does not.     *)
AppendLimited(s, n) ==
    /\ text' = [text EXCEPT ![s] = Lesser(@ + n, Limit)]
    /\ truncated' = [truncated EXCEPT ![s] = @ \/ text[s] + n > Limit]

(* One turn of the inner loop: a read that returns bytes stays in it, a    *)
(* read that finds none leaves it.                                         *)
Drain(s, here, next) ==
    /\ pc = here
    /\ \/ /\ pipe[s] > 0
          /\ LET n == Lesser(BufSize, pipe[s])
             IN  /\ pipe' = [pipe EXCEPT ![s] = @ - n]
                 /\ AppendLimited(s, n)
          /\ UNCHANGED pc
       \/ /\ pipe[s] = 0
          /\ pc' = next
          /\ UNCHANGED <<pipe, text, truncated>>
    /\ UNCHANGED <<fds, answer, clock, childVars>>

DrainOut == Drain("out", "drain_out", "drain_err")
DrainErr == Drain("err", "drain_err", "wait")

(* The reaped process falls through to the check of the deadline.          *)
TryWaitAndFallThrough ==
    /\ pc = "wait"
    /\ child' = IF child = "zombie" THEN "gone" ELSE child
    /\ pc' = "deadline"
    /\ UNCHANGED <<fds, answer, text, truncated, clock, status, holders, todo, plan,
                   autoReap, closed, pipe>>

(* waitpid(WNOHANG): a process that ended is reaped and answered for; one  *)
(* that is still there, or that the kernel reaped already, is not.         *)
TryWait ==
    /\ pc = "wait"
    /\ \/ /\ child = "zombie"
          /\ child' = "gone"
          /\ answer' = status
          /\ pc' = "close_reads"
       \/ /\ child # "zombie"
          /\ pc' = "deadline"
          /\ UNCHANGED <<child, answer>>
    /\ UNCHANGED <<fds, text, truncated, clock, status, holders, todo, plan,
                   autoReap, closed, pipe>>

CheckDeadline ==
    /\ pc = "deadline"
    /\ pc' = IF clock = "late" THEN "kill" ELSE "poll"
    /\ UNCHANGED <<fds, answer, text, truncated, clock, childVars, pipe>>

(* SIGKILL reaches the command only, never its descendants.                *)
Kill ==
    /\ pc = "kill"
    /\ pc' = "reap"
    /\ child' = IF child = "running" THEN "doomed" ELSE child
    /\ UNCHANGED <<fds, answer, text, truncated, clock, status, holders, todo, plan,
                   autoReap, closed, pipe>>

(* WNOHANG for the second waitpid too.                                     *)
ReapIfDead ==
    /\ pc = "reap"
    /\ child' = IF child = "zombie" THEN "gone" ELSE child
    /\ answer' = "timed_out"
    /\ pc' = "close_reads"
    /\ UNCHANGED <<fds, text, truncated, clock, status, holders, todo, plan,
                   autoReap, closed, pipe>>

(* The second waitpid blocks; it fails at once when there is no child.     *)
Reap ==
    /\ pc = "reap"
    /\ child \in {"zombie", "gone"}
    /\ child' = "gone"
    /\ answer' = "timed_out"
    /\ pc' = "close_reads"
    /\ UNCHANGED <<fds, text, truncated, clock, status, holders, todo, plan,
                   autoReap, closed, pipe>>

(* What is left in the pipes is lost here.                                 *)
CloseReadEnds ==
    /\ pc = "close_reads"
    /\ fds' = fds \ (Streams \X {"read"})
    /\ pc' = "done"
    /\ UNCHANGED <<answer, text, truncated, clock, childVars, pipe>>

RunnerStep ==
    \/ OpenOutPipe \/ OpenErrPipe \/ SpawnChild \/ CloseWriteEnds
    \/ Poll \/ DrainOut \/ DrainErr
    \/ TryWait \/ CheckDeadline \/ Kill \/ Reap \/ CloseReadEnds

-----------------------------------------------------------------------------
(* The command, its descendant, the kernel and the clock.  Nothing they do *)
(* once the call has returned matters to it.                               *)

Running == pc # "done"

(* A process that holds a stream writes some of what is to be written.     *)
WriteOutput(s) ==
    /\ Running
    /\ \/ child = "running" /\ "command" \in holders[s]
       \/ "descendant" \in holders[s]
    /\ \E n \in 1 .. Lesser(todo[s], PipeCap - pipe[s]) :
          /\ pipe' = [pipe EXCEPT ![s] = @ + n]
          /\ todo' = IF s \in Endless THEN todo ELSE [todo EXCEPT ![s] = @ - n]
    /\ UNCHANGED <<runnerVars, clock, child, status, holders, plan,
                   autoReap, closed>>

CloseStream(s) ==
    /\ Running
    /\ child = "running"
    /\ "command" \in holders[s]
    /\ holders' = [holders EXCEPT ![s] = @ \ {"command"}]
    /\ UNCHANGED <<runnerVars, clock, child, status, todo, plan,
                   autoReap, closed, pipe>>

(* The command forks: the new process holds the streams the command holds. *)
ForkDescendant ==
    /\ Running
    /\ child = "running"
    /\ \A s \in Streams : "descendant" \notin holders[s]
    /\ \E s \in Streams : "command" \in holders[s]
    /\ holders' = [s \in Streams |->
                      IF "command" \in holders[s] THEN {"command", "descendant"} ELSE {}]
    /\ UNCHANGED <<runnerVars, clock, child, status, todo, plan,
                   autoReap, closed, pipe>>

DescendantEnds ==
    /\ Running
    /\ \E s \in Streams : "descendant" \in holders[s]
    /\ holders' = [s \in Streams |-> holders[s] \ {"descendant"}]
    /\ UNCHANGED <<runnerVars, clock, child, status, todo, plan,
                   autoReap, closed, pipe>>

(* A dead process closes its streams; it stays a zombie until somebody     *)
(* waits for it, unless the kernel was told not to keep it.                *)
CommandEnds(fate) ==
    /\ status' = fate
    /\ child' = IF autoReap THEN "gone" ELSE "zombie"
    /\ holders' = [s \in Streams |-> holders[s] \ {"command"}]
    /\ UNCHANGED <<runnerVars, clock, todo, plan, autoReap, closed, pipe>>

(* By itself, when the command is through, gives up, fails to execve or    *)
(* dies of a signal of its own: success only after all of its output, of   *)
(* which nothing gets anywhere on a stream that is not connected.          *)
ExitCommand ==
    /\ Running
    /\ child = "running"
    /\ \E fate \in Fates :
          /\ fate = "zero" =>
                \A s \in Streams \ Endless : todo[s] = 0 \/ ~Connected(closed, s)
          /\ CommandEnds(fate)

(* SIGKILL takes effect.                                                   *)
DieKilled == Running /\ child = "doomed" /\ CommandEnds("signaled")

Tick ==
    /\ Running
    /\ child # "none"
    /\ clock # "late"
    /\ clock' = IF clock = "early" THEN "last_ms" ELSE "late"
    /\ UNCHANGED <<runnerVars, childVars, pipe>>

CommandStep ==
    \/ \E s \in Streams : WriteOutput(s) \/ CloseStream(s)
    \/ ForkDescendant \/ DescendantEnds \/ ExitCommand

Terminated == pc = "done" /\ UNCHANGED vars

Next == RunnerStep \/ CommandStep \/ DieKilled \/ Tick \/ Terminated

(* The scheduler runs this process, time passes and the kernel kills; the  *)
(* command owes nobody a step.                                             *)
Fairness == WF_vars(RunnerStep) /\ WF_vars(Tick) /\ WF_vars(DieKilled)

Spec == Init /\ [][Next]_vars /\ Fairness

-----------------------------------------------------------------------------
(* Properties                                                              *)

(* What the callers of IProcessRunner may rely on: the answer counts from  *)
(* the moment it is returned, the process until it has ended.              *)
Contract ==
    INSTANCE ProcessContract WITH
        answer <- IF pc = "done" THEN answer ELSE "pending",
        process <- CASE child = "none" -> "none"
                     [] child \in {"running", "doomed"} -> "live"
                     [] OTHER -> "ended",
        fate <- status,
        output <- text,
        cut <- truncated

(* Every step of a call is a step of the contract or none at all.          *)
KeepsContract == Contract!Spec

(* Bytes of a stream that run has read, kept or not.                       *)
Consumed(s) == plan[s] - todo[s] - pipe[s]

(* What is returned of a stream is exactly its first bytes up to the limit,*)
(* and the truncation flag tells exactly whether a byte that was read was  *)
(* dropped, however writes, reads and the end of the command interleave.   *)
OutputExact ==
    \A s \in Streams \ Endless :
        /\ todo[s] + pipe[s] <= plan[s]
        /\ text[s] = Lesser(Consumed(s), Limit)
        /\ truncated[s] <=> Consumed(s) > Limit

(* However the call returns, partial failures included, it holds no end of *)
(* a pipe and leaves no process behind as a zombie or running: the command *)
(* was never started or is dead and reaped.                                *)
NothingLeftBehind == pc = "done" => fds = {} /\ child \in {"none", "gone"}

(* A signal is sent only while the process id is still the command's: never*)
(* after the status was collected, when the kernel may have given the id to*)
(* another process.  (Under an ignored SIGCHLD nobody can promise that.)   *)
KillsOwnChild == [][pc = "kill" /\ pc' = "reap" /\ ~autoReap => child # "gone"]_vars

(* The call returns, whatever a command with finite output does: hang, keep*)
(* or close its streams, leave them to a descendant, exit at the deadline. *)
Returns == <>(pc = "done")

(* Success means that all the command had to say went into the two pipes,  *)
(* whether or not the tool was started with a standard input: the numbers  *)
(* pipe(), dup2 and close work with connect the command's streams to the   *)
(* right ends.  (Started without standard output or error, the child       *)
(* closes what it has just copied, and a command that does not check its   *)
(* writes succeeds in silence.)                                            *)
OutputDelivered ==
    pc = "done" /\ answer = "zero" /\ closed \subseteq {0} =>
        \A s \in Streams \ Endless : todo[s] = 0

(* Where a call stands tells which ends of the pipes it holds, whether a   *)
(* process exists and whether the answer is known: the part of the state   *)
(* that every return path, early or late, has to leave in order.           *)
LoopPoints == {"poll", "drain_out", "drain_err", "wait", "deadline", "kill", "reap"}

EndsHeld ==
    CASE pc \in {"pipe_out", "done"} -> {}
      [] pc = "pipe_err" -> {"out"} \X {"read", "write"}
      [] pc \in {"spawn", "close_writes"} -> Ends
      [] OTHER -> Streams \X {"read"}

Lifecycle ==
    /\ fds = EndsHeld
    /\ pc \in {"pipe_out", "pipe_err", "spawn"} => child = "none" /\ answer = "pending"
    /\ pc = "close_writes" =>
          IF child = "none" THEN answer \in {"error", "spawn_failed"} ELSE answer = "pending"
    /\ pc \in LoopPoints => child # "none" /\ answer = "pending"
    /\ pc = "close_reads" => child = "gone" /\ answer \in {status, "timed_out"}
    /\ pc = "done" =>
          IF child = "none" THEN answer \in {"error", "spawn_failed"}
                            ELSE child = "gone" /\ answer \in {status, "timed_out"}
    /\ status = "none" <=> child \in {"none", "running", "doomed"}
    /\ child = "none" => text = [s \in Streams |-> 0] /\ truncated = [s \in Streams |-> FALSE]
    /\ child = "gone" /\ ~autoReap => pc \in {"close_reads", "done"}

CutOnlyWhenFull == \A s \in Streams : truncated[s] => text[s] = Limit

(* The inductive invariant behind the safety properties above.             *)
IInv == TypeOK /\ Lifecycle /\ CutOnlyWhenFull /\ OutputExact

(* When a command is answered for by its own exit status 0 and nobody else *)
(* held its streams, everything it wrote has been read.                    *)
CompleteOutput ==
    pc = "done" /\ answer = "zero" => \A s \in Streams : holders[s] = {} => pipe[s] = 0

=============================================================================
