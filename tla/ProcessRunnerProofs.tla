------------------------- MODULE ProcessRunnerProofs -------------------------
(***************************************************************************)
(* Proofs about ProcessRunner, for every limit, buffer and pipe capacity,  *)
(* every set of commands, and commands that never stop writing.            *)
(***************************************************************************)
EXTENDS ProcessRunner, TLAPS

USE DEF Streams

-----------------------------------------------------------------------------
(* Type correctness                                                        *)

(* append_limited never keeps more than the limit.                         *)
LEMMA AppendType ==
    ASSUME TypeOK, NEW s \in Streams, NEW n \in Nat, AppendLimited(s, n)
    PROVE  /\ text' \in [Streams -> 0 .. Limit]
           /\ truncated' \in [Streams -> BOOLEAN]
  <1>1. Lesser(text[s] + n, Limit) \in 0 .. Limit
    BY SizeAssumption DEF TypeOK, Lesser
  <1>2. text' \in [Streams -> 0 .. Limit]
    BY <1>1 DEF TypeOK, AppendLimited
  <1>3. truncated' \in [Streams -> BOOLEAN]
    BY Zenon DEF TypeOK, AppendLimited
  <1> QED BY <1>2, <1>3

LEMMA TypeInit == Init => TypeOK
  BY PlanAssumption, SizeAssumption, ClosedAssumption
  DEF Init, TypeOK, RunnerPoints, Answers, Fates, Ends

LEMMA TypeDrain ==
    ASSUME TypeOK, NEW s \in Streams, NEW here, NEW next \in RunnerPoints,
           Drain(s, here, next)
    PROVE  TypeOK'
  <1>1. CASE pipe[s] = 0 /\ pc' = next /\ UNCHANGED <<pipe, text, truncated>>
    BY <1>1 DEF TypeOK, Drain, childVars
  <1>2. CASE pipe[s] > 0 /\ pc' = pc
    <2> DEFINE n == Lesser(BufSize, pipe[s])
    <2>1. n \in Nat /\ n <= pipe[s]
      BY SizeAssumption DEF TypeOK, Lesser
    <2>2. pipe' = [pipe EXCEPT ![s] = @ - n] /\ AppendLimited(s, n)
      BY <1>2 DEF Drain, TypeOK
    <2>3. pipe' \in [Streams -> 0 .. PipeCap]
      BY <2>1, <2>2, SizeAssumption DEF TypeOK
    <2> HIDE DEF n
    <2>4. text' \in [Streams -> 0 .. Limit] /\ truncated' \in [Streams -> BOOLEAN]
      BY <2>1, <2>2, AppendType
    <2> QED BY <1>2, <2>3, <2>4 DEF TypeOK, Drain, childVars
  <1> QED BY <1>1, <1>2 DEF Drain

LEMMA TypeWrite ==
    ASSUME TypeOK, NEW s \in Streams, WriteOutput(s)
    PROVE  TypeOK'
  <1>1. PICK n \in 1 .. Lesser(todo[s], PipeCap - pipe[s]) :
           /\ pipe' = [pipe EXCEPT ![s] = @ + n]
           /\ todo' = IF s \in Endless THEN todo ELSE [todo EXCEPT ![s] = @ - n]
    BY DEF WriteOutput
  <1>2. n \in Nat /\ n <= todo[s] /\ pipe[s] + n <= PipeCap
    BY SizeAssumption DEF TypeOK, Lesser
  <1>3. pipe' \in [Streams -> 0 .. PipeCap]
    BY <1>1, <1>2, SizeAssumption DEF TypeOK
  <1>4. todo' \in [Streams -> Nat]
    BY <1>1, <1>2 DEF TypeOK
  <1> QED BY <1>3, <1>4 DEF TypeOK, WriteOutput, runnerVars

LEMMA TypeRunner == TypeOK /\ Lifecycle /\ RunnerStep => TypeOK'
  <1> SUFFICES ASSUME TypeOK, Lifecycle, RunnerStep PROVE TypeOK'
    OBVIOUS
  <1> USE DEF TypeOK, RunnerPoints, Answers, Fates, childVars
  <1>1. CASE OpenOutPipe
    BY <1>1 DEF OpenOutPipe, PipeFailed, Ends
  <1>2. CASE OpenErrPipe
    BY <1>2 DEF OpenErrPipe, PipeFailed, Ends
  <1>3. CASE SpawnChild
    BY <1>3 DEF SpawnChild
  <1>4. CASE CloseWriteEnds
    BY <1>4 DEF CloseWriteEnds, Ends
  <1>5. CASE Poll
    BY <1>5 DEF Poll
  <1>6. CASE DrainOut
    BY <1>6, TypeDrain DEF DrainOut
  <1>7. CASE DrainErr
    BY <1>7, TypeDrain DEF DrainErr
  <1>8. CASE TryWait
    BY <1>8 DEF TryWait, Lifecycle
  <1>9. CASE CheckDeadline
    BY <1>9 DEF CheckDeadline
  <1>10. CASE Kill
    BY <1>10 DEF Kill
  <1>11. CASE Reap
    BY <1>11 DEF Reap
  <1>12. CASE CloseReadEnds
    BY <1>12 DEF CloseReadEnds, Ends
  <1> QED
    BY <1>1, <1>2, <1>3, <1>4, <1>5, <1>6, <1>7, <1>8, <1>9, <1>10, <1>11, <1>12
    DEF RunnerStep

LEMMA TypeStep == TypeOK /\ Lifecycle /\ [Next]_vars => TypeOK'
  <1> SUFFICES ASSUME TypeOK, Lifecycle, [Next]_vars PROVE TypeOK'
    OBVIOUS
  <1>1. CASE RunnerStep
    BY <1>1, TypeRunner
  <1>2. CASE \E s \in Streams : WriteOutput(s)
    BY <1>2, TypeWrite
  <1> USE DEF TypeOK, runnerVars, childVars, Fates
  <1>3. CASE \E s \in Streams : CloseStream(s)
    BY <1>3 DEF CloseStream
  <1>4. CASE ForkDescendant
    BY <1>4 DEF ForkDescendant
  <1>5. CASE DescendantEnds
    BY <1>5 DEF DescendantEnds
  <1>6. CASE ExitCommand
    BY <1>6 DEF ExitCommand, CommandEnds
  <1>7. CASE DieKilled
    BY <1>7 DEF DieKilled, CommandEnds
  <1>8. CASE Tick
    BY <1>8 DEF Tick
  <1>9. CASE UNCHANGED vars
    BY <1>9 DEF vars
  <1> QED
    BY <1>1, <1>2, <1>3, <1>4, <1>5, <1>6, <1>7, <1>8, <1>9
    DEF Next, CommandStep, Terminated

-----------------------------------------------------------------------------
(* The inductive invariant                                                 *)

LEMMA LifecycleRunner == TypeOK /\ Lifecycle /\ RunnerStep => Lifecycle'
  <1> SUFFICES ASSUME TypeOK, Lifecycle, RunnerStep PROVE Lifecycle'
    OBVIOUS
  <1> USE DEF Lifecycle, EndsHeld, LoopPoints, childVars
  <1>1. CASE OpenOutPipe
    BY <1>1 DEF OpenOutPipe, PipeFailed
  <1>2. CASE OpenErrPipe
    BY <1>2 DEF OpenErrPipe, PipeFailed, Ends
  <1>3. CASE SpawnChild
    BY <1>3 DEF SpawnChild
  <1>4. CASE CloseWriteEnds
    BY <1>4 DEF CloseWriteEnds, Ends
  <1>5. CASE Poll
    BY <1>5 DEF Poll
  <1>6. CASE DrainOut
    BY <1>6 DEF DrainOut, Drain
  <1>7. CASE DrainErr
    BY <1>7 DEF DrainErr, Drain
  <1>8. CASE TryWait
    BY <1>8 DEF TryWait
  <1>9. CASE CheckDeadline
    BY <1>9 DEF CheckDeadline
  <1>10. CASE Kill
    BY <1>10 DEF Kill
  <1>11. CASE Reap
    BY <1>11 DEF Reap
  <1>12. CASE CloseReadEnds
    BY <1>12 DEF CloseReadEnds
  <1> QED
    BY <1>1, <1>2, <1>3, <1>4, <1>5, <1>6, <1>7, <1>8, <1>9, <1>10, <1>11, <1>12
    DEF RunnerStep

LEMMA LifecycleStep == TypeOK /\ Lifecycle /\ [Next]_vars => Lifecycle'
  <1> SUFFICES ASSUME TypeOK, Lifecycle, [Next]_vars PROVE Lifecycle'
    OBVIOUS
  <1>1. CASE RunnerStep
    BY <1>1, LifecycleRunner
  <1> USE DEF Lifecycle, EndsHeld, LoopPoints, runnerVars, childVars
  <1>2. CASE \E s \in Streams : WriteOutput(s) \/ CloseStream(s)
    BY <1>2 DEF WriteOutput, CloseStream
  <1>3. CASE ForkDescendant \/ DescendantEnds
    BY <1>3 DEF ForkDescendant, DescendantEnds
  <1>4. CASE ExitCommand
    BY <1>4 DEF ExitCommand, CommandEnds, Running, Fates, TypeOK, RunnerPoints
  <1>5. CASE DieKilled
    BY <1>5 DEF DieKilled, CommandEnds, Running, TypeOK, RunnerPoints
  <1>6. CASE Tick \/ UNCHANGED vars
    BY <1>6 DEF Tick, vars
  <1> QED
    BY <1>1, <1>2, <1>3, <1>4, <1>5, <1>6 DEF Next, CommandStep, Terminated

(* Output moves only when it is read and when it is written.               *)
LEMMA OutputMoves ==
    [Next]_vars => \/ DrainOut \/ DrainErr
                   \/ \E s \in Streams : WriteOutput(s)
                   \/ UNCHANGED <<text, truncated, todo, pipe, plan>>
  <1> SUFFICES ASSUME [Next]_vars,
                      ~DrainOut, ~DrainErr, ~\E s \in Streams : WriteOutput(s)
               PROVE  UNCHANGED <<text, truncated, todo, pipe, plan>>
    OBVIOUS
  <1> USE DEF runnerVars, childVars
  <1>1. CASE OpenOutPipe \/ OpenErrPipe \/ SpawnChild \/ CloseWriteEnds
    BY <1>1 DEF OpenOutPipe, OpenErrPipe, SpawnChild, CloseWriteEnds
  <1>2. CASE Poll \/ TryWait \/ CheckDeadline \/ Kill \/ Reap \/ CloseReadEnds
    BY <1>2 DEF Poll, TryWait, CheckDeadline, Kill, Reap, CloseReadEnds
  <1>3. CASE (\E s \in Streams : CloseStream(s)) \/ ForkDescendant \/ DescendantEnds
    BY <1>3 DEF CloseStream, ForkDescendant, DescendantEnds
  <1>4. CASE ExitCommand \/ DieKilled \/ Tick \/ UNCHANGED vars
    BY <1>4 DEF ExitCommand, DieKilled, CommandEnds, Tick, vars
  <1> QED
    BY <1>1, <1>2, <1>3, <1>4 DEF Next, RunnerStep, CommandStep, Terminated

(* append_limited marks a stream only once its text is full.               *)
LEMMA CutStep == TypeOK /\ CutOnlyWhenFull /\ [Next]_vars => CutOnlyWhenFull'
  <1> SUFFICES ASSUME TypeOK, CutOnlyWhenFull, [Next]_vars PROVE CutOnlyWhenFull'
    OBVIOUS
  <1>1. ASSUME NEW s \in Streams, NEW n \in Nat, AppendLimited(s, n)
        PROVE  CutOnlyWhenFull'
    <2>1. Limit \in Nat /\ text[s] \in 0 .. Limit
      BY SizeAssumption DEF TypeOK
    <2>2. text' = [text EXCEPT ![s] = Lesser(text[s] + n, Limit)]
          /\ truncated' = [truncated EXCEPT ![s] = truncated[s] \/ text[s] + n > Limit]
      BY <1>1 DEF AppendLimited
    <2>3. truncated[s] => text[s] = Limit
      BY DEF CutOnlyWhenFull
    <2>4. truncated'[s] => truncated[s] \/ text[s] + n > Limit
      BY <2>2, Zenon DEF TypeOK
    <2>5. truncated'[s] => text'[s] = Limit
      BY <2>1, <2>2, <2>3, <2>4 DEF Lesser, TypeOK
    <2>6. \A t \in Streams \ {s} : truncated'[t] = truncated[t] /\ text'[t] = text[t]
      BY <2>2, Zenon DEF TypeOK
    <2> QED BY <2>5, <2>6 DEF CutOnlyWhenFull
  <1>2. CASE DrainOut
    <2>1. Lesser(BufSize, pipe["out"]) \in Nat
      BY SizeAssumption DEF TypeOK, Lesser
    <2> QED BY <1>1, <1>2, <2>1 DEF DrainOut, Drain, CutOnlyWhenFull
  <1>3. CASE DrainErr
    <2>1. Lesser(BufSize, pipe["err"]) \in Nat
      BY SizeAssumption DEF TypeOK, Lesser
    <2> QED BY <1>1, <1>3, <2>1 DEF DrainErr, Drain, CutOnlyWhenFull
  <1>4. CASE UNCHANGED <<text, truncated>>
    BY <1>4 DEF CutOnlyWhenFull
  <1> QED
    BY <1>2, <1>3, <1>4, OutputMoves DEF WriteOutput, runnerVars

(* Reading n bytes moves the text and the flag exactly n bytes further.    *)
LEMMA ReadStep ==
    ASSUME TypeOK, OutputExact, NEW s \in Streams, NEW here, NEW next, Drain(s, here, next)
    PROVE  OutputExact'
  <1> USE DEF OutputExact, Consumed
  <1>1. CASE UNCHANGED <<pipe, text, truncated>>
    BY <1>1 DEF Drain, childVars
  <1>2. CASE pipe[s] > 0 /\ ~UNCHANGED <<pipe, text, truncated>>
    <2> DEFINE n == Lesser(BufSize, pipe[s])
    <2>1. n \in Nat /\ n <= pipe[s]
      BY SizeAssumption DEF TypeOK, Lesser
    <2>2. /\ pipe' = [pipe EXCEPT ![s] = @ - n]
          /\ text' = [text EXCEPT ![s] = Lesser(@ + n, Limit)]
          /\ truncated' = [truncated EXCEPT ![s] = @ \/ text[s] + n > Limit]
          /\ todo' = todo /\ plan' = plan
      BY <1>2 DEF Drain, AppendLimited, childVars
    <2> HIDE DEF n
    <2>3. \A t \in Streams \ {s} : pipe'[t] = pipe[t] /\ text'[t] = text[t]
      BY <2>2 DEF TypeOK
    <2>4. \A t \in Streams \ {s} : truncated'[t] = truncated[t]
      BY <2>2, Zenon DEF TypeOK
    <2>5. /\ pipe'[s] = pipe[s] - n
          /\ text'[s] = Lesser(text[s] + n, Limit)
      BY <2>2 DEF TypeOK
    <2>6. truncated'[s] <=> truncated[s] \/ text[s] + n > Limit
      BY <2>2, Zenon DEF TypeOK
    <2>7. ASSUME s \notin Endless
          PROVE  /\ todo[s] + pipe'[s] <= plan[s]
                 /\ text'[s] = Lesser(plan[s] - todo[s] - pipe'[s], Limit)
                 /\ truncated'[s] <=> plan[s] - todo[s] - pipe'[s] > Limit
      <3>1. /\ plan[s] \in Nat /\ todo[s] \in Nat /\ pipe[s] \in Nat
            /\ text[s] \in Nat /\ Limit \in Nat /\ n \in Nat /\ n <= pipe[s]
        BY <2>1, SizeAssumption DEF TypeOK
      <3>2. /\ todo[s] + pipe[s] <= plan[s]
            /\ text[s] = Lesser(plan[s] - todo[s] - pipe[s], Limit)
            /\ truncated[s] <=> plan[s] - todo[s] - pipe[s] > Limit
        BY <2>7
      <3> QED BY <2>5, <2>6, <3>1, <3>2 DEF Lesser
    <2> QED BY <2>2, <2>3, <2>4, <2>7
  <1> QED BY <1>1, <1>2 DEF Drain

(* Writing moves bytes from what is to be written into the pipe.           *)
LEMMA WriteStep ==
    ASSUME TypeOK, OutputExact, NEW s \in Streams, WriteOutput(s)
    PROVE  OutputExact'
  <1>1. PICK n \in 1 .. Lesser(todo[s], PipeCap - pipe[s]) :
           /\ pipe' = [pipe EXCEPT ![s] = @ + n]
           /\ todo' = IF s \in Endless THEN todo ELSE [todo EXCEPT ![s] = @ - n]
    BY DEF WriteOutput
  <1>2. n \in Nat /\ n <= todo[s]
    BY SizeAssumption DEF TypeOK, Lesser
  <1>3. UNCHANGED <<text, truncated, plan>>
    BY DEF WriteOutput, runnerVars
  <1>4. \A t \in Streams \ Endless : todo'[t] + pipe'[t] = todo[t] + pipe[t]
    BY <1>1, <1>2 DEF TypeOK
  <1>5. \A t \in Streams : /\ plan[t] \in Nat /\ todo[t] \in Nat /\ pipe[t] \in Nat
                          /\ todo'[t] \in Nat /\ pipe'[t] \in Nat
    BY <1>1, <1>2 DEF TypeOK
  <1>6. ASSUME NEW t \in Streams \ Endless
        PROVE  plan'[t] - todo'[t] - pipe'[t] = plan[t] - todo[t] - pipe[t]
    <2>1. plan'[t] = plan[t] /\ todo'[t] + pipe'[t] = todo[t] + pipe[t]
      BY <1>3, <1>4
    <2> QED BY <1>5, <2>1
  <1> QED BY <1>3, <1>4, <1>6 DEF OutputExact, Consumed

LEMMA ExactStep == TypeOK /\ OutputExact /\ [Next]_vars => OutputExact'
  <1> SUFFICES ASSUME TypeOK, OutputExact, [Next]_vars PROVE OutputExact'
    OBVIOUS
  <1>1. CASE DrainOut \/ DrainErr
    BY <1>1, ReadStep DEF DrainOut, DrainErr
  <1>2. CASE \E s \in Streams : WriteOutput(s)
    BY <1>2, WriteStep
  <1>3. CASE UNCHANGED <<text, truncated, todo, pipe, plan>>
    BY <1>3 DEF OutputExact, Consumed
  <1> QED BY <1>1, <1>2, <1>3, OutputMoves

LEMMA InitInv == Init => IInv
  <1> SUFFICES ASSUME Init PROVE IInv
    OBVIOUS
  <1>1. TypeOK
    BY TypeInit
  <1>2. Lifecycle
    BY DEF Init, Lifecycle, EndsHeld, LoopPoints
  <1>3. CutOnlyWhenFull
    BY DEF Init, CutOnlyWhenFull
  <1>4. OutputExact
    BY PlanAssumption, SizeAssumption DEF Init, OutputExact, Consumed, Lesser
  <1> QED BY <1>1, <1>2, <1>3, <1>4 DEF IInv

LEMMA StepInv == IInv /\ [Next]_vars => IInv'
  BY TypeStep, LifecycleStep, CutStep, ExactStep DEF IInv

(* The inductive invariant holds of every call.                            *)
THEOREM Invariance == Spec => []IInv
  BY InitInv, StepInv, PTL DEF Spec

-----------------------------------------------------------------------------
(* What follows for the callers                                            *)

(* The variables of a call keep their types: no stream of the result is    *)
(* ever longer than the limit of the request.                              *)
THEOREM TypeCorrect == Spec => []TypeOK
  BY Invariance, PTL DEF IInv

(* What is returned of a stream is its first bytes up to the limit, and the*)
(* truncation flag is exact, for every limit, buffer and pipe capacity.    *)
THEOREM ExactOutput == Spec => []OutputExact
  BY Invariance, PTL DEF IInv

(* A call that returned holds no descriptor and left no process behind,    *)
(* through whichever of its return paths it came.                          *)
THEOREM NoLeak == Spec => []NothingLeftBehind
  <1>1. IInv => NothingLeftBehind
    BY DEF IInv, Lifecycle, EndsHeld, NothingLeftBehind
  <1> QED BY <1>1, Invariance, PTL

(* No signal is sent to a process id whose process was already reaped.     *)
THEOREM SignalsOwnChild == Spec => KillsOwnChild
  <1>1. IInv /\ [Next]_vars
          => [pc = "kill" /\ pc' = "reap" /\ ~autoReap => child # "gone"]_vars
    BY DEF IInv, Lifecycle
  <1> QED BY <1>1, Invariance, PTL DEF Spec, KillsOwnChild

-----------------------------------------------------------------------------
(* Delivery of the command's output                                        *)

LEMMA LowestIs ==
    ASSUME NEW numbers \in SUBSET Nat, NEW n \in numbers, \A m \in numbers : n <= m
    PROVE  Lowest(numbers) = n
  <1> DEFINE P(k) == \A m \in numbers : k <= m
  <1>1. \A k \in numbers : P(k) => k = n
    <2> SUFFICES ASSUME NEW k \in numbers, P(k) PROVE k = n
      OBVIOUS
    <2>1. k <= n /\ n <= k /\ k \in Nat /\ n \in Nat
      OBVIOUS
    <2> QED BY <2>1
  <1>2. P(n)
    OBVIOUS
  <1>3. Lowest(numbers) = CHOOSE k \in numbers : P(k)
    BY DEF Lowest
  <1> HIDE DEF P
  <1>4. (CHOOSE k \in numbers : P(k)) = n
    BY <1>1, <1>2
  <1> QED BY <1>3, <1>4

(* Which numbers the four ends get when the tool has its output and error. *)
LEMMA EndsNumbered ==
    ASSUME NEW c \in SUBSET {0}
    PROVE  /\ NumberOf(c, "out", "read") \in {0, 3}
           /\ NumberOf(c, "out", "write") \in {3, 4}
           /\ NumberOf(c, "err", "read") \in {4, 5}
           /\ NumberOf(c, "err", "write") \in {5, 6}
           /\ NumberOf(c, "out", "write") < NumberOf(c, "err", "read")
           /\ NumberOf(c, "out", "read") < NumberOf(c, "out", "write")
           /\ NumberOf(c, "err", "read") < NumberOf(c, "err", "write")
  <1>1. CASE c = {}
    <2>1. Lowest(c \cup (Numbers \ Standard)) = 3
      BY <1>1, LowestIs DEF Numbers, Standard
    <2>2. Lowest(Without(c \cup (Numbers \ Standard))) = 4
      BY <1>1, <2>1, LowestIs DEF Numbers, Standard, Without
    <2>3. Lowest(Without(Without(c \cup (Numbers \ Standard)))) = 5
      BY <1>1, <2>1, <2>2, LowestIs DEF Numbers, Standard, Without
    <2>4. Lowest(Without(Without(Without(c \cup (Numbers \ Standard))))) = 6
      BY <1>1, <2>1, <2>2, <2>3, LowestIs DEF Numbers, Standard, Without
    <2> QED BY <2>1, <2>2, <2>3, <2>4 DEF NumberOf
  <1>2. CASE c = {0}
    <2>1. Lowest(c \cup (Numbers \ Standard)) = 0
      BY <1>2, LowestIs DEF Numbers, Standard
    <2>2. Lowest(Without(c \cup (Numbers \ Standard))) = 3
      BY <1>2, <2>1, LowestIs DEF Numbers, Standard, Without
    <2>3. Lowest(Without(Without(c \cup (Numbers \ Standard)))) = 4
      BY <1>2, <2>1, <2>2, LowestIs DEF Numbers, Standard, Without
    <2>4. Lowest(Without(Without(Without(c \cup (Numbers \ Standard))))) = 5
      BY <1>2, <2>1, <2>2, <2>3, LowestIs DEF Numbers, Standard, Without
    <2> QED BY <2>1, <2>2, <2>3, <2>4 DEF NumberOf
  <1> QED BY <1>1, <1>2

(* The child copies each write end before it closes any, and closes neither*)
(* 1 nor 2.                                                                *)
LEMMA OutputConnected ==
    ASSUME NEW c \in SUBSET {0}, NEW s \in Streams
    PROVE  Connected(c, s)
  <1>1. /\ 1 \notin EndNumbers(c) /\ 2 \notin EndNumbers(c)
        /\ 1 \in Numbers /\ 2 \in Numbers
    BY EndsNumbered DEF EndNumbers, Numbers
  <1>2. ChildTable(c)[1] = Copied(c)[1] /\ ChildTable(c)[2] = Copied(c)[2]
    BY <1>1 DEF ChildTable, Close
  <1>3. /\ NumberOf(c, "out", "write") \in Numbers \ Standard
        /\ NumberOf(c, "err", "write") \in Numbers \ Standard
    BY EndsNumbered DEF Numbers, Standard
  <1>4. \A stream \in Streams :
           AfterFork(c)[NumberOf(c, stream, "write")] = <<stream, "write">>
    <2> SUFFICES ASSUME NEW stream \in Streams
                 PROVE  AfterFork(c)[NumberOf(c, stream, "write")] = <<stream, "write">>
      OBVIOUS
    <2>1. \A end \in {"out", "err"} \X {"read", "write"} :
             NumberOf(c, end[1], end[2]) = NumberOf(c, stream, "write")
                <=> end = <<stream, "write">>
      BY EndsNumbered
    <2>2. <<stream, "write">> \in {"out", "err"} \X {"read", "write"}
      OBVIOUS
    <2>3. (CHOOSE end \in {"out", "err"} \X {"read", "write"} :
              NumberOf(c, end[1], end[2]) = NumberOf(c, stream, "write"))
            = <<stream, "write">>
      BY <2>1, <2>2
    <2> QED BY <1>3, <2>2, <2>3 DEF AfterFork
  <1>5. Copied(c)[1] = <<"out", "write">> /\ Copied(c)[2] = <<"err", "write">>
    <2> DEFINE table == AfterFork(c)
               once == Dup2(table, NumberOf(c, "out", "write"), 1)
    <2>1. DOMAIN table = Numbers
      BY DEF AfterFork
    <2>2. once[1] = <<"out", "write">>
      BY <1>1, <1>4, <2>1 DEF Dup2, Streams
    <2>3. DOMAIN once = Numbers
      BY <2>1 DEF Dup2
    <2>4. NumberOf(c, "err", "write") # 1
      BY <1>3 DEF Standard
    <2>5. once[NumberOf(c, "err", "write")] = <<"err", "write">>
      BY <1>3, <1>4, <2>1, <2>4 DEF Dup2, Streams
    <2>6. Copied(c) = Dup2(once, NumberOf(c, "err", "write"), 2)
      BY DEF Copied
    <2> HIDE DEF once
    <2> QED BY <1>1, <2>2, <2>3, <2>5, <2>6 DEF Dup2
  <1> QED BY <1>2, <1>5 DEF Connected, Standing

(* Once the command has ended with success nothing is left to be written.  *)
NothingUnsaid ==
    status = "zero" /\ closed \subseteq {0} => \A s \in Streams \ Endless : todo[s] = 0

LEMMA UnsaidStep == IInv /\ NothingUnsaid /\ [Next]_vars => NothingUnsaid'
  <1> SUFFICES ASSUME IInv, NothingUnsaid, [Next]_vars PROVE NothingUnsaid'
    OBVIOUS
  <1> USE DEF NothingUnsaid, childVars, runnerVars
  <1>1. CASE RunnerStep
    BY <1>1 DEF RunnerStep, OpenOutPipe, OpenErrPipe, PipeFailed, SpawnChild, CloseWriteEnds,
                Poll, DrainOut, DrainErr, Drain, TryWait, CheckDeadline, Kill, Reap,
                CloseReadEnds, IInv, TypeOK, Lifecycle
  <1>2. ASSUME NEW s \in Streams, WriteOutput(s) PROVE NothingUnsaid'
    <2>1. UNCHANGED <<status, closed>>
      BY <1>2 DEF WriteOutput
    <2>2. CASE s \in Endless
      BY <1>2, <2>1, <2>2 DEF WriteOutput
    <2>3. CASE s \notin Endless
      <3>1. PICK n \in 1 .. Lesser(todo[s], PipeCap - pipe[s]) :
               todo' = [todo EXCEPT ![s] = @ - n]
        BY <1>2, <2>3 DEF WriteOutput
      <3>2. todo[s] # 0
        BY <3>1, SizeAssumption DEF Lesser, IInv, TypeOK
      <3> QED BY <2>1, <2>3, <3>2
    <2> QED BY <2>2, <2>3
  <1>3. CASE ExitCommand
    BY <1>3, OutputConnected DEF ExitCommand, CommandEnds
  <1>4. CASE DieKilled
    BY <1>4 DEF DieKilled, CommandEnds
  <1>5. CASE \/ \E s \in Streams : CloseStream(s)
             \/ ForkDescendant \/ DescendantEnds \/ Tick \/ UNCHANGED vars
    BY <1>5 DEF CloseStream, ForkDescendant, DescendantEnds, Tick, vars
  <1> QED BY <1>1, <1>2, <1>3, <1>4, <1>5 DEF Next, CommandStep, Terminated

(* spawn_child: exit code 0 means that all output of the command went into *)
(* the pipes run reads, with or without a standard input of the tool.      *)
THEOREM Delivery == Spec => []OutputDelivered
  <1>1. Init => NothingUnsaid
    BY DEF Init, NothingUnsaid
  <1>2. IInv /\ NothingUnsaid => OutputDelivered
    BY DEF IInv, Lifecycle, NothingUnsaid, OutputDelivered
  <1> QED BY <1>1, <1>2, UnsaidStep, Invariance, PTL DEF Spec

-----------------------------------------------------------------------------
(* The runner implements the contract                                      *)

LEMMA RefinesInit == Init => Contract!Init
  BY DEF Init, Contract!Init

(* A read is output received, and cut only when the text is full.          *)
LEMMA RefinesDrain ==
    ASSUME IInv, IInv', NEW s \in Streams, NEW here \in LoopPoints, NEW next \in LoopPoints,
           Drain(s, here, next)
    PROVE  Contract!Next \/ UNCHANGED Contract!vars
  <1> USE DEF LoopPoints
  <1>1. CASE UNCHANGED <<pipe, text, truncated>>
    BY <1>1 DEF Drain, childVars, Contract!vars
  <1>2. CASE pipe[s] > 0 /\ UNCHANGED pc
    <2> DEFINE n == Lesser(BufSize, pipe[s])
    <2>1. n \in Nat
      BY SizeAssumption DEF IInv, TypeOK, Lesser
    <2>2. AppendLimited(s, n)
      BY <1>2 DEF Drain, IInv, TypeOK
    <2> HIDE DEF n
    <2>3. /\ text[s] \in 0 .. Limit /\ Limit \in Nat
          /\ text' = [text EXCEPT ![s] = Lesser(text[s] + n, Limit)]
      BY <2>2, SizeAssumption DEF AppendLimited, IInv, TypeOK
    <2>4. Lesser(text[s] + n, Limit) \in text[s] .. Limit
      BY <2>1, <2>3 DEF Lesser
    <2>5. /\ truncated'[s] \in BOOLEAN
          /\ truncated' = [truncated EXCEPT ![s] = truncated'[s]]
          /\ truncated[s] => truncated'[s]
      BY <2>2, Zenon DEF AppendLimited, IInv, TypeOK
    <2>6. truncated'[s] => Lesser(text[s] + n, Limit) = Limit
      BY <2>3 DEF IInv, CutOnlyWhenFull, TypeOK
    <2>7. /\ pc \in LoopPoints /\ pc' = pc /\ child # "none"
          /\ UNCHANGED <<answer, child, status>>
      BY <1>2 DEF Drain, childVars, IInv, Lifecycle
    <2>8. \E m \in text[s] .. Limit, c \in BOOLEAN :
             /\ truncated[s] => c
             /\ c => m = Limit
             /\ text' = [text EXCEPT ![s] = m]
             /\ truncated' = [truncated EXCEPT ![s] = c]
      BY <2>3, <2>4, <2>5, <2>6, Zenon
    <2>9. Contract!Receive(s)
      BY <2>7, <2>8 DEF Contract!Receive
    <2> QED BY <2>9 DEF Contract!Next
  <1> QED BY <1>1, <1>2 DEF Drain

LEMMA RefinesStep == IInv /\ IInv' /\ [Next]_vars => [Contract!Next]_(Contract!vars)
  <1> SUFFICES ASSUME IInv, IInv', [Next]_vars
               PROVE  Contract!Next \/ UNCHANGED Contract!vars
    OBVIOUS
  <1> USE DEF runnerVars, childVars
  <1>1. CASE OpenOutPipe \/ OpenErrPipe \/ CloseWriteEnds
    BY <1>1 DEF OpenOutPipe, OpenErrPipe, CloseWriteEnds, PipeFailed, IInv, Lifecycle,
                Contract!Next, Contract!Refuse, Contract!vars
  <1>2. CASE SpawnChild
    BY <1>2 DEF SpawnChild, IInv, Lifecycle, Contract!Next, Contract!Start, Contract!vars
  <1>3. CASE DrainOut \/ DrainErr
    BY <1>3, RefinesDrain DEF DrainOut, DrainErr, LoopPoints
  <1>4. CASE Poll \/ CheckDeadline \/ Kill
    BY <1>4 DEF Poll, CheckDeadline, Kill, Contract!vars
  <1>5. CASE TryWait \/ Reap
    BY <1>5 DEF TryWait, Reap, Contract!vars
  <1>6. CASE CloseReadEnds
    BY <1>6 DEF CloseReadEnds, IInv, Lifecycle, Contract!Next, Contract!Report
  <1>7. CASE \E s \in Streams : WriteOutput(s) \/ CloseStream(s)
    BY <1>7 DEF WriteOutput, CloseStream, Contract!vars
  <1>8. CASE ForkDescendant \/ DescendantEnds \/ Tick \/ UNCHANGED vars
    BY <1>8 DEF ForkDescendant, DescendantEnds, Tick, vars, Contract!vars
  <1>9. ASSUME NEW fate \in Fates, Running, child \in {"running", "doomed"}, CommandEnds(fate)
        PROVE  Contract!Next
    <2>1. Contract!End(fate)
      BY <1>9 DEF CommandEnds, Running, Contract!End
    <2> QED BY <2>1 DEF Contract!Next, Fates
  <1>10. CASE ExitCommand \/ DieKilled
    BY <1>9, <1>10 DEF ExitCommand, DieKilled, Fates
  <1> QED
    BY <1>1, <1>2, <1>3, <1>4, <1>5, <1>6, <1>7, <1>8, <1>10
    DEF Next, RunnerStep, CommandStep, Terminated

(* Every run of the runner is a run of the contract its callers rely on.   *)
THEOREM Refinement == Spec => KeepsContract
  BY RefinesInit, RefinesStep, Invariance, PTL DEF Spec, KeepsContract, Contract!Spec

=============================================================================
