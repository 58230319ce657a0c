---------------------------- MODULE RunCommands ----------------------------
(***************************************************************************)
(* How the flow runs its generators and simulators (scripts/lib.py):       *)
(*                                                                         *)
(*   Parallel           run_parallel_cmd: all commands are started, then   *)
(*                      waited for one after the other;                    *)
(*   ~Parallel          the loops of run.py around run_cmd: a command is   *)
(*                      started when the one before it has ended.          *)
(*                                                                         *)
(* A command writes its output into a pipe that holds PipeCap chunks, and  *)
(* communicate() reads the pipe of the command being waited for only.      *)
(* Wall-clock time is not modelled: a wait may time out as long as it has  *)
(* not ended.                                                              *)
(***************************************************************************)
EXTENDS Integers, FiniteSets

CONSTANTS
    N,            \* number of commands
    MaxChunks,    \* most output a command writes
    PipeCap,      \* what a pipe holds
    Calls         \* how the flow calls them: run_parallel_cmd or run_cmd, exit_on_error

ASSUME CommandsAssumption ==
    /\ N \in Nat \ {0}
    /\ MaxChunks \in Nat
    /\ PipeCap \in Nat \ {0}
    /\ Calls \subseteq [parallel : BOOLEAN, exit_on_error : BOOLEAN]

Cmd == 1..N

\* How a command ends by itself: return code 0, a positive one, death by a
\* signal (a negative return code), or never.
Fates == {"ok", "fail", "signal", "hang"}

VARIABLES
    call,      \* the kind of call, never changed
    fate,      \* how the command would end
    state,     \* "new", "running", "exited"
    toWrite,   \* output it still has to write
    pipe,      \* chunks in its pipe
    sigterm,   \* the commands whose process group was sent SIGTERM
    cur,       \* the command being waited for
    phase,     \* "run", then how the caller ended
    got,       \* chunks communicate() has returned
    output,    \* whose output the variable "output" holds, 0: unassigned
    reported,  \* commands whose return code was reported
    timedOut   \* commands whose wait timed out

vars == <<call, fate, state, toWrite, pipe, sigterm, cur, phase, got,
          output, reported, timedOut>>

childVars  == <<call, fate, state, toWrite, pipe>>
parentVars == <<call, sigterm, cur, phase, got, output, reported, timedOut>>

Parallel == call.parallel
ExitOnError == call.exit_on_error

Init ==
    /\ call \in Calls
    /\ fate \in [Cmd -> Fates]
    /\ toWrite \in [Cmd -> 0..MaxChunks]
    /\ state = [c \in Cmd |-> "new"]
    /\ pipe = [c \in Cmd |-> 0]
    /\ sigterm = {}
    /\ cur = 1
    /\ phase = "run"
    /\ got = [c \in Cmd |-> 0]
    /\ output = 0
    /\ reported = {}
    /\ timedOut = {}

-----------------------------------------------------------------------------
(* The commands *)

\* Mutant: a pipe without limit
WriteOn(c) ==
    /\ state[c] = "running"
    /\ phase = "run"
    /\ toWrite[c] > 0
    /\ toWrite' = [toWrite EXCEPT ![c] = @ - 1]
    /\ pipe' = [pipe EXCEPT ![c] = @ + 1]
    /\ UNCHANGED <<fate, state, parentVars>>

Write(c) ==
    /\ state[c] = "running"
    /\ phase = "run"
    /\ toWrite[c] > 0
    /\ pipe[c] < PipeCap
    /\ toWrite' = [toWrite EXCEPT ![c] = @ - 1]
    /\ pipe' = [pipe EXCEPT ![c] = @ + 1]
    /\ UNCHANGED <<fate, state, parentVars>>

Exit(c) ==
    /\ state[c] = "running"
    /\ toWrite[c] = 0
    /\ fate[c] # "hang"
    /\ state' = [state EXCEPT ![c] = "exited"]
    /\ UNCHANGED <<fate, toWrite, pipe, parentVars>>

\* SIGTERM arrives, some time after it was sent
Terminated(c) ==
    /\ state[c] = "running"
    /\ c \in sigterm
    /\ state' = [state EXCEPT ![c] = "exited"]
    /\ fate' = [fate EXCEPT ![c] = "signal"]
    /\ toWrite' = [toWrite EXCEPT ![c] = 0]
    /\ UNCHANGED <<pipe, parentVars>>

\* The caller is gone, and a write finds the pipe without a reader.
BrokenPipe(c) ==
    /\ state[c] = "running"
    /\ phase # "run"
    /\ toWrite[c] > 0
    /\ state' = [state EXCEPT ![c] = "exited"]
    /\ fate' = [fate EXCEPT ![c] = "signal"]
    /\ toWrite' = [toWrite EXCEPT ![c] = 0]
    /\ UNCHANGED <<pipe, parentVars>>

-----------------------------------------------------------------------------
(* The caller *)

AllStarted == \A c \in Cmd : state[c] # "new"

Start(c) ==
    /\ phase = "run"
    /\ state[c] = "new"
    /\ IF Parallel THEN \A d \in 1 .. c - 1 : state[d] # "new" ELSE c = cur
    /\ state' = [state EXCEPT ![c] = "running"]
    /\ UNCHANGED <<fate, toWrite, pipe, parentVars>>

\* communicate(timeout) on command "cur"
Waiting ==
    /\ phase = "run"
    /\ cur <= N
    /\ state[cur] # "new"
    /\ Parallel => AllStarted

Read ==
    /\ Waiting
    /\ pipe[cur] > 0
    /\ pipe' = [pipe EXCEPT ![cur] = @ - 1]
    /\ got' = [got EXCEPT ![cur] = @ + 1]
    /\ UNCHANGED <<call, fate, state, toWrite, sigterm, cur, phase,
                   output, reported, timedOut>>

AtEnd(c) == state[c] = "exited" /\ pipe[c] = 0

\* "if rc and check_return_code and rc > 0"
IsError(c) == fate[c] = "fail"

\* Mutant: the return code is not looked at
CollectSilently ==
    /\ Waiting
    /\ AtEnd(cur)
    /\ output' = cur
    /\ cur' = cur + 1
    /\ UNCHANGED <<childVars, sigterm, phase, got, reported, timedOut>>

\* Mutant: an error is reported and never fatal
CollectGoesOn ==
    /\ Waiting
    /\ AtEnd(cur)
    /\ output' = cur
    /\ reported' = IF IsError(cur) THEN reported \cup {cur} ELSE reported
    /\ cur' = cur + 1
    /\ UNCHANGED <<childVars, sigterm, phase, got, timedOut>>

Collect ==
    /\ Waiting
    /\ AtEnd(cur)
    /\ output' = cur
    /\ reported' = IF IsError(cur) THEN reported \cup {cur} ELSE reported
    /\ IF IsError(cur) /\ ExitOnError
       THEN phase' = "exit_fail" /\ UNCHANGED cur
       ELSE cur' = cur + 1 /\ UNCHANGED phase
    /\ UNCHANGED <<childVars, sigterm, got, timedOut>>

\* Mutant: communicate() without a timeout
NoTimeout == FALSE

\* Mutant: the output of the command before is not kept
TimeoutForgets ==
    /\ Parallel
    /\ Waiting
    /\ ~AtEnd(cur)
    /\ sigterm' = sigterm \cup {cur}
    /\ timedOut' = timedOut \cup {cur}
    /\ IF output # cur - 1 \/ output = 0
       THEN phase' = "crash" /\ UNCHANGED cur
       ELSE cur' = cur + 1 /\ UNCHANGED phase
    /\ UNCHANGED <<childVars, got, output, reported>>

\* run_parallel_cmd logs "output" after the timeout of a command as well: it
\* is the one of an earlier command, and unassigned before the first.
TimeoutParallel ==
    /\ Parallel
    /\ Waiting
    /\ ~AtEnd(cur)
    /\ sigterm' = sigterm \cup {cur}
    /\ timedOut' = timedOut \cup {cur}
    /\ IF output = 0
       THEN phase' = "crash" /\ UNCHANGED cur
       ELSE cur' = cur + 1 /\ UNCHANGED phase
    /\ UNCHANGED <<childVars, got, output, reported>>

\* Mutant: sys.exit without the SIGTERM
TimeoutLeaves ==
    /\ ~Parallel
    /\ Waiting
    /\ ~AtEnd(cur)
    /\ timedOut' = timedOut \cup {cur}
    /\ phase' = "exit130"
    /\ UNCHANGED <<childVars, sigterm, cur, got, output, reported>>

\* killgroup: SIGTERM, then sys.exit(130)
TimeoutSingle ==
    /\ ~Parallel
    /\ Waiting
    /\ ~AtEnd(cur)
    /\ sigterm' = sigterm \cup {cur}
    /\ timedOut' = timedOut \cup {cur}
    /\ phase' = "exit130"
    /\ UNCHANGED <<childVars, cur, got, output, reported>>

\* Ctrl-C: the commands run in sessions of their own and do not see it
Interrupt ==
    /\ Waiting
    /\ phase' = "exit130"
    /\ sigterm' = IF Parallel THEN sigterm ELSE sigterm \cup {cur}
    /\ UNCHANGED <<childVars, cur, got, output, reported, timedOut>>

\* Mutant: the last command is not waited for
ReturnEarly ==
    /\ phase = "run"
    /\ AllStarted
    /\ cur >= N
    /\ phase' = "returned"
    /\ UNCHANGED <<childVars, sigterm, cur, got, output, reported, timedOut>>

Return ==
    /\ phase = "run"
    /\ cur = N + 1
    /\ phase' = "returned"
    /\ UNCHANGED <<childVars, sigterm, cur, got, output, reported, timedOut>>

Child(c) == Write(c) \/ Exit(c) \/ Terminated(c) \/ BrokenPipe(c)

Timeout == TimeoutParallel \/ TimeoutSingle

Next ==
    \/ \E c \in Cmd : Child(c) \/ Start(c)
    \/ Read \/ Collect \/ Timeout \/ Interrupt \/ Return

\* The commands and the caller run, and time passes.
Fairness ==
    /\ \A c \in Cmd : WF_vars(Child(c)) /\ WF_vars(Start(c))
    /\ WF_vars(Read) /\ WF_vars(Collect) /\ WF_vars(Timeout) /\ WF_vars(Return)

Spec == Init /\ [][Next]_vars /\ Fairness

-----------------------------------------------------------------------------
(* Properties *)

TypeOK ==
    /\ call \in Calls
    /\ fate \in [Cmd -> Fates]
    /\ state \in [Cmd -> {"new", "running", "exited"}]
    /\ toWrite \in [Cmd -> 0..MaxChunks]
    /\ pipe \in [Cmd -> 0..PipeCap]
    /\ sigterm \subseteq Cmd /\ reported \subseteq Cmd /\ timedOut \subseteq Cmd
    /\ cur \in 1 .. N + 1
    /\ phase \in {"run", "returned", "exit130", "exit_fail", "crash"}
    /\ got \in [Cmd -> Nat]
    /\ output \in 0..N

Ended == phase # "run"

\* Whatever the commands do - fill their pipes, die, hang - the flow gets an
\* end: waiting in list order is no deadlock, although commands later in the
\* list are blocked on full pipes meanwhile.
CallerEnds == <>Ended

\* A command that is blocked on its full pipe because another one is being
\* waited for does not stay blocked: its turn comes, or the caller ends.
Blocked(c) == state[c] = "running" /\ toWrite[c] > 0 /\ pipe[c] = PipeCap

BlockedProceeds == \A c \in Cmd : Blocked(c) ~> ~Blocked(c)

\* A flow that goes on has nothing running behind its back except commands
\* whose wait timed out: all others have exited and all they wrote was read.
ReturnedMeansCollected ==
    phase = "returned" =>
        \A c \in Cmd \ timedOut : AtEnd(c) /\ toWrite[c] = 0

\* Every return code above zero of a command that was waited for to its end
\* is reported, and when errors are fatal no later command is waited for.
ErrorsReported ==
    \A c \in Cmd :
        /\ (c < cur /\ IsError(c) /\ c \notin timedOut) => c \in reported
        /\ ExitOnError /\ c \in reported => phase = "exit_fail" /\ cur = c

\* Commands run one at a time never overlap, and what is still running when
\* the flow exits on a timeout or on Ctrl-C has been sent SIGTERM.
OneAtATime ==
    ~Parallel =>
        /\ \A c, d \in Cmd : state[c] = "running" /\ state[d] = "running" => c = d
        /\ phase = "exit130" =>
              \A c \in Cmd : state[c] = "running" => c \in sigterm

\* run_parallel_cmd gives up on the rest of the list only for the timeout of
\* the first command; a timeout behind a collected command is survived.
CrashOnlyAtFirst ==
    phase = "crash" => cur = 1 /\ timedOut = {1} /\ reported = {}
=============================================================================
