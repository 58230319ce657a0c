-------------------------- MODULE RunCommandsProofs --------------------------
(***************************************************************************)
(* The safety properties of RunCommands for every number of commands, any  *)
(* amount of output and pipes of any size.                                 *)
(***************************************************************************)
EXTENDS RunCommands, TLAPS

(* The inductive invariant.  A command that has exited has nothing left to *)
(* write.  The commands in front of the one waited for have been collected *)
(* or given up; the ones behind it, when they run one at a time, have not  *)
(* been started.                                                           *)

Drained == \A c \in Cmd : state[c] = "exited" => toWrite[c] = 0

CollectedUpToCur == \A c \in Cmd : c < cur /\ c \notin timedOut => AtEnd(c)

InTurn ==
    ~Parallel =>
        /\ \A c \in Cmd : /\ c < cur => state[c] = "exited"
                          /\ c > cur => state[c] = "new"
        /\ phase = "run" => timedOut = {}
        /\ phase = "exit130" => cur \in sigterm

AllWaitedFor == phase = "returned" => cur = N + 1

NoOutputYet ==
    phase = "run" /\ output = 0 => cur = 1 /\ timedOut = {} /\ reported = {}

RunInv ==
    /\ TypeOK /\ Drained /\ CollectedUpToCur /\ InTurn /\ AllWaitedFor
    /\ NoOutputYet /\ ErrorsReported /\ CrashOnlyAtFirst

-----------------------------------------------------------------------------
(* Types *)

\* TypeOK holds before the first command.
LEMMA InitTypeOK == ASSUME Init PROVE TypeOK
  <1>1. /\ state = [c \in Cmd |-> "new"] /\ pipe = [c \in Cmd |-> 0]
        /\ got = [c \in Cmd |-> 0] /\ 1 \in 1 .. N + 1 /\ 0 \in 0..N
        /\ 0 \in 0..PipeCap
    BY CommandsAssumption DEF Init
  <1>2. /\ call \in Calls /\ fate \in [Cmd -> Fates]
        /\ toWrite \in [Cmd -> 0..MaxChunks]
        /\ sigterm = {} /\ reported = {} /\ timedOut = {}
        /\ cur = 1 /\ phase = "run" /\ output = 0
    BY DEF Init
  <1> QED BY <1>1, <1>2 DEF TypeOK

\* A step of a command changes its own state and no other's.
LEMMA ChildTypeOK == ASSUME TypeOK, NEW c \in Cmd, Child(c) PROVE TypeOK'
  <1>1. CASE Write(c)
    <2>1. toWrite' \in [Cmd -> 0..MaxChunks]
      BY <1>1, CommandsAssumption DEF TypeOK, Write
    <2>2. pipe' \in [Cmd -> 0..PipeCap]
      BY <1>1, CommandsAssumption DEF TypeOK, Write
    <2> QED BY <1>1, <2>1, <2>2 DEF TypeOK, Write, parentVars
  <1>2. CASE Exit(c)
    BY <1>2 DEF TypeOK, Exit, parentVars
  <1>3. CASE Terminated(c) \/ BrokenPipe(c)
    <2>1. toWrite' \in [Cmd -> 0..MaxChunks]
      BY <1>3, CommandsAssumption DEF TypeOK, Terminated, BrokenPipe
    <2>2. /\ fate' \in [Cmd -> Fates]
          /\ state' \in [Cmd -> {"new", "running", "exited"}]
      BY <1>3 DEF TypeOK, Terminated, BrokenPipe, Fates
    <2>3. UNCHANGED <<pipe, parentVars>>
      BY <1>3 DEF Terminated, BrokenPipe
    <2> QED BY <2>1, <2>2, <2>3 DEF TypeOK, parentVars
  <1> QED BY <1>1, <1>2, <1>3 DEF Child

\* The caller's own steps keep TypeOK.
LEMMA CallerTypeOK ==
    ASSUME TypeOK, Read \/ Collect \/ Timeout \/ Interrupt \/ Return
    PROVE  TypeOK'
  <1>0. N \in Nat /\ cur \in 1 .. N + 1 /\ output \in 0..N
    BY CommandsAssumption DEF TypeOK
  <1>1. CASE Read
    <2>0. cur \in Cmd
      BY <1>0, <1>1 DEF Read, Waiting, Cmd
    <2>1. pipe' \in [Cmd -> 0..PipeCap]
      BY <1>1, <2>0, CommandsAssumption DEF TypeOK, Read
    <2>2. got' \in [Cmd -> Nat]
      BY <1>1, <2>0 DEF TypeOK, Read
    <2> QED BY <1>1, <2>1, <2>2 DEF TypeOK, Read
  <1>2. CASE Collect
    <2>0. cur \in Cmd /\ cur \in 0..N /\ cur + 1 \in 1 .. N + 1
      BY <1>0, <1>2 DEF Collect, Waiting, Cmd
    <2>1. /\ output' \in 0..N /\ cur' \in 1 .. N + 1
          /\ phase' \in {"run", "returned", "exit130", "exit_fail", "crash"}
          /\ reported' \subseteq Cmd
      BY <1>2, <2>0 DEF TypeOK, Collect
    <2>2. UNCHANGED <<childVars, sigterm, got, timedOut>>
      BY <1>2 DEF Collect
    <2> QED BY <2>1, <2>2 DEF TypeOK, childVars
  <1>3. CASE Timeout
    <2>0. cur \in Cmd /\ cur + 1 \in 1 .. N + 1
      BY <1>0, <1>3 DEF Timeout, TimeoutParallel, TimeoutSingle, Waiting, Cmd
    <2>1. /\ cur' \in 1 .. N + 1
          /\ phase' \in {"run", "returned", "exit130", "exit_fail", "crash"}
          /\ sigterm' \subseteq Cmd /\ timedOut' \subseteq Cmd
      BY <1>3, <2>0 DEF TypeOK, Timeout, TimeoutParallel, TimeoutSingle
    <2>2. UNCHANGED <<childVars, got, output, reported>>
      BY <1>3 DEF Timeout, TimeoutParallel, TimeoutSingle
    <2> QED BY <2>1, <2>2 DEF TypeOK, childVars
  <1>4. CASE Interrupt
    <2>0. cur \in Cmd
      BY <1>0, <1>4 DEF Interrupt, Waiting, Cmd
    <2>1. sigterm' \subseteq Cmd /\ phase' = "exit130"
      BY <1>4, <2>0 DEF TypeOK, Interrupt
    <2> QED BY <1>4, <2>1 DEF TypeOK, Interrupt, childVars
  <1>5. CASE Return
    BY <1>5 DEF TypeOK, Return, childVars
  <1> QED BY <1>1, <1>2, <1>3, <1>4, <1>5

\* Starting a command keeps TypeOK.
LEMMA StartTypeOK == ASSUME TypeOK, NEW c \in Cmd, Start(c) PROVE TypeOK'
  BY DEF TypeOK, Start, parentVars

-----------------------------------------------------------------------------
(* What a step of a command, and its start, leave of the state.            *)

\* A command that is not running keeps what it has; one that exits has
\* nothing left to write; none begins to fail.
LEMMA ChildMoves ==
    ASSUME TypeOK, NEW c \in Cmd, Child(c)
    PROVE  /\ UNCHANGED parentVars
           /\ \A d \in Cmd :
                 /\ state[d] # "running" =>
                       /\ state'[d] = state[d]
                       /\ toWrite'[d] = toWrite[d]
                       /\ pipe'[d] = pipe[d]
                 /\ state[d] = "running" => state'[d] \in {"running", "exited"}
                 /\ state[d] = "running" /\ state'[d] = "exited" => toWrite'[d] = 0
                 /\ fate'[d] = "fail" => fate[d] = "fail"
  <1>1. CASE Write(c)
    BY <1>1 DEF TypeOK, Write, parentVars
  <1>2. CASE Exit(c)
    BY <1>2 DEF TypeOK, Exit, parentVars
  <1>3. CASE Terminated(c)
    BY <1>3 DEF TypeOK, Terminated, parentVars
  <1>4. CASE BrokenPipe(c)
    BY <1>4 DEF TypeOK, BrokenPipe, parentVars
  <1> QED BY <1>1, <1>2, <1>3, <1>4 DEF Child

\* What starting a command changes.
LEMMA StartMoves ==
    ASSUME TypeOK, NEW c \in Cmd, Start(c)
    PROVE  /\ UNCHANGED <<fate, toWrite, pipe, parentVars>>
           /\ state[c] = "new" /\ state'[c] = "running"
           /\ phase = "run" /\ (~Parallel => c = cur)
           /\ \A d \in Cmd : d # c => state'[d] = state[d]
  BY DEF TypeOK, Start, parentVars

-----------------------------------------------------------------------------
(* The invariant *)

\* The invariant holds before the first command.
LEMMA InitRunInv == ASSUME Init PROVE RunInv
  <1>1. TypeOK
    BY InitTypeOK
  <1>2. N \in Nat /\ cur = 1 /\ phase = "run" /\ timedOut = {} /\ reported = {}
        /\ \A c \in Cmd : state[c] = "new"
    BY CommandsAssumption DEF Init
  <1>3. \A c \in Cmd : c \in Nat /\ ~(c < cur)
    BY <1>2 DEF Cmd
  <1> QED BY <1>1, <1>2, <1>3
          DEF RunInv, Drained, CollectedUpToCur, InTurn, AllWaitedFor, NoOutputYet,
              ErrorsReported, CrashOnlyAtFirst

\* A command's own steps keep the invariant.
LEMMA ChildRunInv == ASSUME RunInv, NEW c \in Cmd, Child(c) PROVE RunInv'
  <1>0. TypeOK /\ TypeOK'
    BY ChildTypeOK DEF RunInv
  <1>1. UNCHANGED <<call, sigterm, cur, phase, got, output, reported, timedOut>>
    BY <1>0, ChildMoves DEF parentVars
  <1>2. Drained'
    <2> SUFFICES ASSUME NEW d \in Cmd, state'[d] = "exited" PROVE toWrite'[d] = 0
      BY DEF Drained
    <2>1. state[d] \in {"new", "running", "exited"}
      BY <1>0 DEF TypeOK
    <2> QED BY <1>0, <2>1, ChildMoves DEF RunInv, Drained
  <1>3. CollectedUpToCur'
    <2> SUFFICES ASSUME NEW d \in Cmd, d < cur, d \notin timedOut PROVE AtEnd(d)'
      BY <1>1 DEF CollectedUpToCur
    <2>1. state[d] = "exited" /\ pipe[d] = 0
      BY DEF RunInv, CollectedUpToCur, AtEnd
    <2> QED BY <1>0, <2>1, ChildMoves DEF AtEnd
  <1>4. InTurn'
    <2> SUFFICES ASSUME ~Parallel
                 PROVE  \A d \in Cmd : /\ d < cur => state'[d] = "exited"
                                       /\ d > cur => state'[d] = "new"
      BY <1>1 DEF RunInv, InTurn, Parallel
    <2> QED BY <1>0, ChildMoves DEF RunInv, InTurn
  <1>5. ErrorsReported'
    <2>1. \A d \in Cmd : IsError(d)' => IsError(d)
      BY <1>0, ChildMoves DEF IsError
    <2>2. \A d \in Cmd : d < cur /\ IsError(d)' /\ d \notin timedOut => d \in reported
      BY <2>1 DEF RunInv, ErrorsReported
    <2>3. \A d \in Cmd : ExitOnError /\ d \in reported => phase = "exit_fail" /\ cur = d
      BY DEF RunInv, ErrorsReported
    <2> QED BY <1>1, <2>2, <2>3 DEF ErrorsReported, ExitOnError
  <1>6. AllWaitedFor' /\ NoOutputYet' /\ CrashOnlyAtFirst'
    BY <1>1 DEF RunInv, AllWaitedFor, NoOutputYet, CrashOnlyAtFirst
  <1> QED BY <1>0, <1>2, <1>3, <1>4, <1>5, <1>6 DEF RunInv

\* Starting a command keeps the invariant.
LEMMA StartRunInv == ASSUME RunInv, NEW c \in Cmd, Start(c) PROVE RunInv'
  <1>0. TypeOK /\ TypeOK'
    BY StartTypeOK DEF RunInv
  <1>1. UNCHANGED <<fate, toWrite, pipe, call, sigterm, cur, phase, got, output,
                    reported, timedOut>>
    BY <1>0, StartMoves DEF parentVars
  <1>2. Drained'
    BY <1>0, <1>1, StartMoves DEF RunInv, Drained
  <1>3. CollectedUpToCur'
    <2> SUFFICES ASSUME NEW d \in Cmd, d < cur, d \notin timedOut PROVE AtEnd(d)'
      BY <1>1 DEF CollectedUpToCur
    <2>1. state[d] = "exited" /\ pipe[d] = 0
      BY DEF RunInv, CollectedUpToCur, AtEnd
    <2> QED BY <1>0, <1>1, <2>1, StartMoves DEF AtEnd
  <1>4. InTurn'
    <2> SUFFICES ASSUME ~Parallel, NEW d \in Cmd
                 PROVE  /\ d < cur => state'[d] = "exited"
                        /\ d > cur => state'[d] = "new"
      BY <1>1 DEF RunInv, InTurn, Parallel
    <2>1. c = cur /\ d \in Nat
      BY <1>0, StartMoves, CommandsAssumption DEF Cmd
    <2>2. (d < cur => state[d] = "exited") /\ (d > cur => state[d] = "new")
      BY DEF RunInv, InTurn
    <2>3. cur \in Nat
      BY <1>0, CommandsAssumption DEF TypeOK
    <2>4. d < cur \/ d > cur => d # c
      BY <2>1, <2>3
    <2> QED BY <1>0, <2>2, <2>4, StartMoves
  <1>5. ErrorsReported' /\ AllWaitedFor' /\ NoOutputYet' /\ CrashOnlyAtFirst'
    BY <1>1 DEF RunInv, ErrorsReported, AllWaitedFor, NoOutputYet, CrashOnlyAtFirst,
                IsError, ExitOnError
  <1> QED BY <1>0, <1>2, <1>3, <1>4, <1>5 DEF RunInv

\* Reading takes chunks from the pipe of a command that has not been collected.
LEMMA ReadRunInv == ASSUME RunInv, Read PROVE RunInv'
  <1>0. TypeOK /\ TypeOK'
    BY CallerTypeOK DEF RunInv
  <1>1. UNCHANGED <<call, fate, state, toWrite, sigterm, cur, phase, output,
                    reported, timedOut>>
    BY DEF Read
  <1>2. CollectedUpToCur'
    <2> SUFFICES ASSUME NEW d \in Cmd, d < cur, d \notin timedOut PROVE AtEnd(d)'
      BY <1>1 DEF CollectedUpToCur
    <2>1. d # cur
      BY <1>0, CommandsAssumption DEF TypeOK, Cmd
    <2>2. pipe'[d] = pipe[d]
      BY <1>0, <2>1 DEF Read, TypeOK
    <2> QED BY <1>1, <2>2 DEF RunInv, CollectedUpToCur, AtEnd
  <1>3. /\ Drained' /\ InTurn' /\ AllWaitedFor' /\ NoOutputYet'
        /\ ErrorsReported' /\ CrashOnlyAtFirst'
    BY <1>1 DEF RunInv, Drained, InTurn, AllWaitedFor, NoOutputYet, ErrorsReported,
                CrashOnlyAtFirst, IsError, ExitOnError, Parallel
  <1> QED BY <1>0, <1>2, <1>3 DEF RunInv

\* Collecting the output of a command keeps the invariant.
LEMMA CollectRunInv == ASSUME RunInv, Collect PROVE RunInv'
  <1>0. TypeOK /\ TypeOK'
    BY CallerTypeOK DEF RunInv
  <1>1. /\ phase = "run" /\ AtEnd(cur) /\ output' = cur
        /\ UNCHANGED <<call, fate, state, toWrite, pipe, sigterm, got, timedOut>>
    BY DEF Collect, Waiting, childVars
  <1>2. cur \in Cmd /\ cur \in Nat /\ cur > 0 /\ \A d \in Cmd : d \in Nat
    BY <1>0, CommandsAssumption DEF TypeOK, Collect, Waiting, Cmd
  <1>3. \/ cur' = cur + 1 /\ phase' = "run" /\ ~(IsError(cur) /\ ExitOnError)
        \/ cur' = cur /\ phase' = "exit_fail" /\ IsError(cur) /\ ExitOnError
    BY <1>1 DEF Collect
  <1>4. \A d \in Cmd : d < cur' => d < cur \/ (d = cur /\ phase' = "run")
    BY <1>2, <1>3
  <1>5. Drained'
    BY <1>1 DEF RunInv, Drained
  <1>6. CollectedUpToCur'
    BY <1>1, <1>4 DEF RunInv, CollectedUpToCur, AtEnd
  <1>7. InTurn'
    <2> SUFFICES ASSUME ~Parallel
                 PROVE  /\ \A d \in Cmd : /\ d < cur' => state[d] = "exited"
                                          /\ d > cur' => state[d] = "new"
                        /\ timedOut = {} /\ phase' # "exit130"
      BY <1>1 DEF InTurn, Parallel
    <2>1. \A d \in Cmd : d > cur' => d > cur
      BY <1>2, <1>3
    <2> QED BY <1>1, <1>3, <1>4, <2>1 DEF RunInv, InTurn, AtEnd
  <1>8. ErrorsReported'
    <2>1. reported' = IF IsError(cur) THEN reported \cup {cur} ELSE reported
      BY DEF Collect
    <2>2. ASSUME NEW d \in Cmd, d < cur', IsError(d), d \notin timedOut PROVE d \in reported'
      BY <1>4, <2>1, <2>2 DEF RunInv, ErrorsReported
    <2>3. ASSUME NEW d \in Cmd, ExitOnError, d \in reported'
          PROVE  phase' = "exit_fail" /\ cur' = d
      <3>1. d \notin reported
        BY <1>1, <2>3 DEF RunInv, ErrorsReported
      <3>2. d = cur /\ IsError(cur)
        BY <2>1, <2>3, <3>1
      <3> QED BY <1>3, <2>3, <3>2
    <2> QED BY <1>1, <2>2, <2>3 DEF ErrorsReported, IsError, ExitOnError
  <1>9. AllWaitedFor' /\ NoOutputYet' /\ CrashOnlyAtFirst'
    BY <1>1, <1>2, <1>3 DEF AllWaitedFor, NoOutputYet, CrashOnlyAtFirst
  <1> QED BY <1>0, <1>5, <1>6, <1>7, <1>8, <1>9 DEF RunInv

\* A timeout keeps the invariant.
LEMMA TimeoutRunInv == ASSUME RunInv, Timeout PROVE RunInv'
  <1>0. TypeOK /\ TypeOK'
    BY CallerTypeOK DEF RunInv
  <1>1. /\ phase = "run"
        /\ UNCHANGED <<call, fate, state, toWrite, pipe, got, output, reported>>
        /\ timedOut' = timedOut \cup {cur} /\ sigterm' = sigterm \cup {cur}
    BY DEF Timeout, TimeoutParallel, TimeoutSingle, Waiting, childVars
  <1>2. cur \in Cmd /\ cur \in Nat /\ \A d \in Cmd : d \in Nat
    BY <1>0, CommandsAssumption
       DEF TypeOK, Timeout, TimeoutParallel, TimeoutSingle, Waiting, Cmd
  <1>3. \/ Parallel /\ output = 0 /\ phase' = "crash" /\ cur' = cur
        \/ Parallel /\ output # 0 /\ phase' = "run" /\ cur' = cur + 1
        \/ ~Parallel /\ phase' = "exit130" /\ cur' = cur
    BY <1>1 DEF Timeout, TimeoutParallel, TimeoutSingle
  <1>4. \A d \in Cmd : d < cur' /\ d \notin timedOut' => d < cur /\ d \notin timedOut
    BY <1>1, <1>2, <1>3
  <1>5. Drained'
    BY <1>1 DEF RunInv, Drained
  <1>6. CollectedUpToCur'
    BY <1>1, <1>4 DEF RunInv, CollectedUpToCur, AtEnd
  <1>7. InTurn'
    BY <1>1, <1>3 DEF RunInv, InTurn, Parallel
  <1>8. ErrorsReported'
    <2>1. \A d \in Cmd : ExitOnError => d \notin reported
      BY <1>1 DEF RunInv, ErrorsReported
    <2> QED BY <1>1, <1>4, <2>1 DEF RunInv, ErrorsReported, IsError, ExitOnError
  <1>9. AllWaitedFor' /\ NoOutputYet' /\ CrashOnlyAtFirst'
    BY <1>1, <1>3 DEF RunInv, AllWaitedFor, NoOutputYet, CrashOnlyAtFirst
  <1> QED BY <1>0, <1>5, <1>6, <1>7, <1>8, <1>9 DEF RunInv

\* Ctrl-C, and the end of the list: the caller's end is all that changes.
LEMMA EndRunInv == ASSUME RunInv, Interrupt \/ Return PROVE RunInv'
  <1>0. TypeOK /\ TypeOK'
    BY CallerTypeOK DEF RunInv
  <1>1. /\ phase = "run"
        /\ UNCHANGED <<call, fate, state, toWrite, pipe, cur, got, output, reported,
                       timedOut>>
    BY DEF Interrupt, Return, Waiting, childVars
  <1>2. \/ phase' = "exit130" /\ (~Parallel => cur \in sigterm')
        \/ phase' = "returned" /\ cur = N + 1
    BY DEF Interrupt, Return
  <1>3. ErrorsReported'
    <2>1. \A d \in Cmd : ExitOnError => d \notin reported
      BY <1>1 DEF RunInv, ErrorsReported
    <2> QED BY <1>1, <2>1 DEF RunInv, ErrorsReported, IsError, ExitOnError
  <1>4. Drained' /\ CollectedUpToCur'
    BY <1>1 DEF RunInv, Drained, CollectedUpToCur, AtEnd
  <1>5. InTurn' /\ AllWaitedFor' /\ NoOutputYet' /\ CrashOnlyAtFirst'
    BY <1>1, <1>2 DEF RunInv, InTurn, AllWaitedFor, NoOutputYet, CrashOnlyAtFirst,
                      Parallel
  <1> QED BY <1>0, <1>3, <1>4, <1>5 DEF RunInv

\* Every step keeps the invariant.
LEMMA NextRunInv == ASSUME RunInv, [Next]_vars PROVE RunInv'
  <1>1. ASSUME NEW c \in Cmd, Child(c) \/ Start(c) PROVE RunInv'
    BY <1>1, ChildRunInv, StartRunInv
  <1>2. CASE Read \/ Collect \/ Timeout \/ Interrupt \/ Return
    BY <1>2, ReadRunInv, CollectRunInv, TimeoutRunInv, EndRunInv
  <1>3. CASE UNCHANGED vars
    BY <1>3 DEF vars, RunInv, TypeOK, Drained, CollectedUpToCur, InTurn, AllWaitedFor,
                NoOutputYet, ErrorsReported, CrashOnlyAtFirst, AtEnd, IsError,
                Parallel, ExitOnError
  <1> QED BY <1>1, <1>2, <1>3 DEF Next

-----------------------------------------------------------------------------
(* Theorems *)

\* RunInv holds in every state of run_cmd and run_parallel_cmd, whatever the
\* commands do.
THEOREM RunInductive == Spec => []RunInv
  <1>1. Init => RunInv
    BY InitRunInv
  <1>2. RunInv /\ [Next]_vars => RunInv'
    BY NextRunInv
  <1> QED BY <1>1, <1>2, PTL DEF Spec

\* The variables of the two loops and the commands' states keep their types.
THEOREM CommandsTypeCorrect == Spec => []TypeOK
  <1>1. RunInv => TypeOK
    BY DEF RunInv
  <1> QED BY <1>1, RunInductive, PTL

\* A caller that goes on (lib.py:168-190) has collected every command but
\* those it gave up for a timeout.
THEOREM CollectedOnReturn == Spec => []ReturnedMeansCollected
  <1>1. RunInv => ReturnedMeansCollected
    <2> SUFFICES ASSUME RunInv, phase = "returned", NEW c \in Cmd \ timedOut
                 PROVE  AtEnd(c) /\ toWrite[c] = 0
      BY DEF ReturnedMeansCollected
    <2>1. c < cur
      BY CommandsAssumption DEF RunInv, AllWaitedFor, Cmd
    <2>2. AtEnd(c)
      BY <2>1 DEF RunInv, CollectedUpToCur
    <2> QED BY <2>2 DEF RunInv, Drained, AtEnd
  <1> QED BY <1>1, RunInductive, PTL

\* An error of a collected command is reported, and the first one ends a
\* caller for which errors are fatal (lib.py:182-188).
THEOREM NoErrorUnreported == Spec => []ErrorsReported
  <1>1. RunInv => ErrorsReported
    BY DEF RunInv
  <1> QED BY <1>1, RunInductive, PTL

\* Commands run through run_cmd never overlap, and none is left running by a
\* timeout or Ctrl-C without SIGTERM (lib.py:106-131).
THEOREM NoOverlap == Spec => []OneAtATime
  <1>1. RunInv => OneAtATime
    <2> SUFFICES ASSUME RunInv, ~Parallel
                 PROVE  /\ \A c \in Cmd : state[c] = "running" => c = cur
                        /\ phase = "exit130" => cur \in sigterm
      BY DEF OneAtATime
    <2>1. ASSUME NEW c \in Cmd, state[c] = "running" PROVE c = cur
      <3>1. ~(c < cur) /\ ~(c > cur)
        BY <2>1 DEF RunInv, InTurn
      <3>2. c \in Nat /\ cur \in Nat
        BY CommandsAssumption DEF RunInv, TypeOK, Cmd
      <3> QED BY <3>1, <3>2
    <2> QED BY <2>1 DEF RunInv, InTurn
  <1> QED BY <1>1, RunInductive, PTL

\* run_parallel_cmd has no output to log only when the first command it waits
\* for times out (lib.py:190).
THEOREM OnlyFirstTimeoutCrashes == Spec => []CrashOnlyAtFirst
  <1>1. RunInv => CrashOnlyAtFirst
    BY DEF RunInv
  <1> QED BY <1>1, RunInductive, PTL
=============================================================================
