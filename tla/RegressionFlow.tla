--------------------------- MODULE RegressionFlow ---------------------------
(***************************************************************************)
(* run.py: one output directory, used by one run after the other.  A run   *)
(* takes the steps gen, gcc_compile, iss_sim and iss_cmp, or some of them; *)
(* nothing but the files it leaves connects a step with the next one.      *)
(*                                                                         *)
(* A program is <<k, i>>: iteration i of test k of the matched list.  What *)
(* a file holds is the number of the run that generated the program it     *)
(* comes from, 0 when there is no such file.                               *)
(***************************************************************************)
EXTENDS Integers, Sequences, FiniteSets

CONSTANTS
    Options,    \* what run.py is called with: [tests, batch_size, iss_cnt, lsf]
    MaxRuns     \* bound: runs that use the directory

ASSUME FlowAssumption ==
    /\ MaxRuns \in Nat
    /\ \A o \in Options :
          /\ o.tests \in Seq([iterations : Nat \ {0}, csr : BOOLEAN,
                              no_gcc : BOOLEAN, no_iss : BOOLEAN])
          /\ Len(o.tests) > 0
          /\ o.batch_size \in Nat
          /\ o.iss_cnt \in Nat \ {0}
          /\ o.lsf \in BOOLEAN

VARIABLES
    args,    \* the options, the same for all runs over the directory
    run,     \* number of the current run
    steps,   \* the steps it was asked for
    step,    \* the one it is in, "idle" between two runs
    status,  \* how the last run ended
    todo,    \* what the step still has to go through
    jobs,    \* generator processes: [run, job, left, state]
    asm,     \* asm_test/<test>_<i>.S
    seeds,   \* seed.yaml: the run whose seeds it lists
    elf,     \* asm_test/<test>_<i>.o
    log,     \* <iss>_sim/<test>_<i>.log and <iss>_sim/<test>.<i>.log
    report,  \* programs with a verdict in iss_regr.log
    lost     \* programs of this run that its generator may not have written

vars == <<args, run, steps, step, status, todo, jobs, asm, seeds, elf, log, report, lost>>
files == <<asm, seeds, elf, log, report>>

TestList  == args.tests        \* matched_list
BatchSize == args.batch_size   \* --batch_size
IssCnt    == args.iss_cnt      \* simulators given with --iss
Lsf       == args.lsf          \* is there an --lsf_cmd?

Test == 1 .. Len(TestList)
Iss  == 1..IssCnt
Prog == UNION {{<<k, i>> : i \in 0 .. TestList[k].iterations - 1} : k \in Test}

\* The batches of a test, and the programs of one (start_idx, test_cnt)
BatchCnt(k) ==
    IF BatchSize = 0 \/ TestList[k].csr THEN 1
    ELSE (TestList[k].iterations + BatchSize - 1) \div BatchSize

Job == UNION {{<<k, b>> : b \in 0 .. BatchCnt(k) - 1} : k \in Test}

\* Mutant: the last batch is as large as the others
FullBatch(j) == BatchSize

TestCnt(j) ==
    IF j[2] < BatchCnt(j[1]) - 1 THEN BatchSize
    ELSE TestList[j[1]].iterations - j[2] * BatchSize

Programs(j) ==
    IF TestList[j[1]].csr
    THEN {<<j[1], i>> : i \in 0 .. TestList[j[1]].iterations - 1}
    ELSE {<<j[1], n + j[2] * BatchSize>> : n \in 0 .. TestCnt(j) - 1}

StepOrder == <<"gen", "gcc_compile", "iss_sim", "iss_cmp">>
Step == {StepOrder[n] : n \in 1..4}

Partial == -1   \* a log that a dying simulator left behind

Init ==
    /\ args \in Options
    /\ run = 0
    /\ steps = {}
    /\ step = "idle"
    /\ status = "none"
    /\ todo = {}
    /\ jobs = {}
    /\ asm = [p \in Prog |-> 0]
    /\ seeds = 0
    /\ elf = [p \in Prog |-> 0]
    /\ log = [x \in Iss \X Prog \X {"_", "."} |-> 0]
    /\ report = {}
    /\ lost = {}

-----------------------------------------------------------------------------
(* Steps of a run *)

\* The loops go through tests, then iterations; iss_sim takes one simulator
\* after the other.
Item(s, p) == <<s, p[1], p[2]>>
ProgOf(x) == <<x[2], x[3]>>

First ==
    CHOOSE x \in todo : \A y \in todo :
        y = x \/ \E n \in 1..3 : x[n] < y[n] /\ \A m \in 1 .. n - 1 : x[m] = y[m]

\* What a step goes through
Work(s) ==
    CASE s = "gen" -> {Item(1, j) : j \in Job}
      [] s = "gcc_compile" -> {Item(1, p) : p \in {q \in Prog : ~TestList[q[1]].no_gcc}}
      [] s = "iss_sim" ->
            UNION {{Item(n, p) : p \in {q \in Prog : ~TestList[q[1]].no_iss}} : n \in Iss}
      [] s = "iss_cmp" -> IF IssCnt = 2 THEN {Item(1, p) : p \in Prog} ELSE {}

Position(s) == CHOOSE n \in 1..4 : StepOrder[n] = s

\* The first step of "chosen" behind the first n ones, if any
StepBehind(n, chosen) ==
    LET later == {m \in n + 1 .. 4 : StepOrder[m] \in chosen}
    IN  IF later = {} THEN "idle"
        ELSE StepOrder[CHOOSE m \in later : \A l \in later : m <= l]

Enter(s) ==
    /\ step' = s
    /\ todo' = IF s = "idle" THEN {} ELSE Work(s)
    /\ status' = IF s = "idle" THEN "success" ELSE "running"

End(how) ==
    /\ step' = "idle"
    /\ todo' = {}
    /\ status' = how

StepDone ==
    /\ step \in Step
    /\ todo = {}
    /\ Enter(StepBehind(Position(step), steps))
    /\ report' = IF StepBehind(Position(step), steps) = "iss_cmp" /\ IssCnt = 2
                 THEN {} ELSE report
    /\ UNCHANGED <<args, run, steps, jobs, asm, seeds, elf, log, lost>>

\* --noclean is on by default: a run finds the files of the runs before it.
StartRun ==
    /\ step = "idle"
    /\ run < MaxRuns
    /\ \E chosen \in (SUBSET Step) \ {{}} :
          /\ steps' = chosen
          /\ Enter(StepBehind(0, chosen))
          /\ report' = IF StepBehind(0, chosen) = "iss_cmp" /\ IssCnt = 2
                       THEN {} ELSE report
    /\ run' = run + 1
    /\ lost' = {}
    /\ UNCHANGED <<args, jobs, asm, seeds, elf, log>>

\* Ctrl-C.  run_cmd has its process ended by a SIGTERM, which takes a while,
\* and run_parallel_cmd leaves its processes, which run in sessions of their
\* own: either way they may go on writing.
Interrupt ==
    /\ step \in Step
    /\ End("exit130")
    /\ UNCHANGED <<args, run, steps, jobs, files, lost>>

-----------------------------------------------------------------------------
(* gen: the generator processes and do_simulate *)

NewJob(x) == [run |-> run, job |-> ProgOf(x), left |-> Programs(ProgOf(x)),
              state |-> "running"]

Started(x) == \E j \in jobs : j.run = run /\ j.job = ProgOf(x)

\* Seeds are drawn for the generator, not for the csr tests' script.
Seeded == \E k \in Test : ~TestList[k].csr

\* Without LSF a batch is started when the one before it has ended; with LSF
\* all are, and seed.yaml is written before they start.
StartJobs ==
    /\ step = "gen"
    /\ todo # {}
    /\ ~Started(First)
    /\ jobs' = jobs \cup (IF Lsf THEN {NewJob(x) : x \in todo} ELSE {NewJob(First)})
    /\ seeds' = IF Lsf /\ Seeded THEN run ELSE seeds
    /\ UNCHANGED <<args, run, steps, step, status, todo, asm, elf, log, report, lost>>

\* A process writes its programs in any order.  One that belongs to an
\* earlier run writes over the files of the current one.
WriteProgram(j, p) ==
    /\ j.state = "running"
    /\ p \in j.left
    /\ asm' = [asm EXCEPT ![p] = j.run]
    /\ jobs' = (jobs \ {j}) \cup {[j EXCEPT !.left = @ \ {p}]}
    /\ lost' = IF j.run # run THEN lost \cup {p} ELSE lost
    /\ UNCHANGED <<args, run, steps, step, status, todo, seeds, elf, log, report>>

\* It ends: with all written, with an exit code above zero, or by a signal.
Orphan(j) == j.run # run \/ step # "gen" \/ Item(1, j.job) \notin todo

JobEnds(j) ==
    /\ j.state = "running"
    /\ \E how \in {"ok", "fail", "signal"} :
          /\ how = "ok" => j.left = {}
          /\ jobs' = (jobs \ {j}) \cup
                     (IF Orphan(j) THEN {} ELSE {[j EXCEPT !.state = how]})
    /\ UNCHANGED <<args, run, steps, step, status, todo, files, lost>>

Current == CHOOSE j \in jobs : j.run = run /\ j.job = ProgOf(First)

WaitsForJob == step = "gen" /\ todo # {} /\ Started(First)

\* Mutant: a batch's seed is listed as soon as the batch has ended
ListAtOnce == seeds' = IF step' = "gen" /\ ~Lsf THEN run ELSE seeds

\* seed.yaml, without LSF: behind the last batch, if none has failed
WriteSeeds == seeds' = IF step' = "gen" /\ todo' = {} /\ ~Lsf /\ Seeded THEN run ELSE seeds

\* Mutant: a generator that fails is no reason to stop
CollectAny ==
    /\ WaitsForJob
    /\ Current.state # "running"
    /\ todo' = todo \ {First}
    /\ jobs' = jobs \ {Current}
    /\ lost' = IF Current.state = "signal" \/ Lsf THEN lost \cup Current.left ELSE lost
    /\ UNCHANGED <<args, run, steps, step, status, asm, elf, log, report>>
    /\ WriteSeeds

\* A negative return code is not an error, and run_parallel_cmd is called
\* without exit_on_error.
CollectJob ==
    /\ WaitsForJob
    /\ Current.state # "running"
    /\ IF Current.state = "fail" /\ ~Lsf
       THEN End("exit_fail")
       ELSE todo' = todo \ {First} /\ UNCHANGED <<step, status>>
    /\ jobs' = jobs \ {Current}
    /\ lost' = IF Current.state = "signal" \/ Lsf THEN lost \cup Current.left ELSE lost
    /\ WriteSeeds
    /\ UNCHANGED <<args, run, steps, asm, elf, log, report>>

\* Mutant: no timeout
NoTimeout == FALSE

\* gen_timeout: the process is sent a SIGTERM.  Waiting for the first of the
\* parallel commands, it ends the run: run_parallel_cmd then logs an output it
\* does not have.
JobTimeout ==
    /\ WaitsForJob
    /\ Current.state = "running"
    /\ lost' = lost \cup Current.left
    /\ IF Lsf
       THEN IF todo = Work("gen")
            THEN End("crash")
            ELSE todo' = todo \ {First} /\ UNCHANGED <<step, status>>
       ELSE End("exit130")
    /\ UNCHANGED <<args, run, steps, jobs, files>>

-----------------------------------------------------------------------------
(* gcc_compile, iss_sim, iss_cmp *)

\* Mutant: what has been compiled before is not compiled again
CompileOnce ==
    /\ step = "gcc_compile"
    /\ todo # {}
    /\ asm[ProgOf(First)] # 0
    /\ elf' = [elf EXCEPT ![ProgOf(First)] = IF @ = 0 THEN asm[ProgOf(First)] ELSE @]
    /\ todo' = todo \ {First}
    /\ UNCHANGED <<args, run, steps, step, status, jobs, asm, seeds, log, report, lost>>

CompileProgram ==
    /\ step = "gcc_compile"
    /\ todo # {}
    /\ asm[ProgOf(First)] # 0
    /\ elf' = [elf EXCEPT ![ProgOf(First)] = asm[ProgOf(First)]]
    /\ todo' = todo \ {First}
    /\ UNCHANGED <<args, run, steps, step, status, jobs, asm, seeds, log, report, lost>>

\* "Cannot find assembly test", or run_cmd_output raises what gcc returned
CompileFails ==
    /\ step = "gcc_compile"
    /\ todo # {}
    /\ \/ asm[ProgOf(First)] = 0 /\ End("exit_fail")
       \/ asm[ProgOf(First)] # 0 /\ End("crash")
    /\ UNCHANGED <<args, run, steps, jobs, files, lost>>

\* Mutant: one log directory for all simulators
SharedLog(x) == <<1, ProgOf(x), "_">>

\* The names iss_sim and iss_cmp use
SimLog(x) == <<x[1], ProgOf(x), "_">>
CmpLog(n, x) == <<n, ProgOf(x), ".">>

Simulate ==
    /\ step = "iss_sim"
    /\ todo # {}
    /\ elf[ProgOf(First)] # 0
    /\ log' = [log EXCEPT ![SimLog(First)] = elf[ProgOf(First)]]
    /\ todo' = todo \ {First}
    /\ UNCHANGED <<args, run, steps, step, status, jobs, asm, seeds, elf, report, lost>>

\* The shell has emptied the log before the simulator starts.  Death by a
\* signal is not an error.
SimulationFails ==
    /\ step = "iss_sim"
    /\ todo # {}
    /\ log' = [log EXCEPT ![SimLog(First)] = Partial]
    /\ \/ End("exit_fail")
       \/ elf[ProgOf(First)] # 0 /\ End("exit130")   \* iss_timeout
       \/ /\ elf[ProgOf(First)] # 0
          /\ todo' = todo \ {First}
          /\ UNCHANGED <<step, status>>
    /\ UNCHANGED <<args, run, steps, jobs, asm, seeds, elf, report, lost>>

\* Opening a log that is not there ends the run with a traceback.
CompareLogs ==
    /\ step = "iss_cmp"
    /\ todo # {}
    /\ IF \A n \in Iss : log[CmpLog(n, First)] # 0
       THEN /\ report' = report \cup {ProgOf(First)}
            /\ todo' = todo \ {First}
            /\ UNCHANGED <<step, status>>
       ELSE End("crash") /\ UNCHANGED report
    /\ UNCHANGED <<args, run, steps, jobs, asm, seeds, elf, log, lost>>

RunStep ==
    \/ StepDone \/ StartJobs \/ CollectJob \/ JobTimeout
    \/ CompileProgram \/ CompileFails \/ Simulate \/ SimulationFails
    \/ CompareLogs

Next ==
    \/ StartRun \/ Interrupt \/ RunStep
    \/ \E j \in jobs : JobEnds(j) \/ \E p \in j.left : WriteProgram(j, p)

\* A run goes on; a wait for a process that does not end times out.
Spec == Init /\ [][Next]_vars /\ WF_vars(RunStep)

-----------------------------------------------------------------------------
(* Properties *)

TypeOK ==
    /\ args \in Options
    /\ run \in 0..MaxRuns
    /\ steps \subseteq Step /\ step \in Step \cup {"idle"}
    /\ status \in {"none", "running", "success", "exit_fail", "exit130", "crash"}
    /\ todo \subseteq (1 .. IssCnt + 1) \X Test \X Nat
    /\ jobs \subseteq [run : 1..run, job : Job, left : SUBSET Prog,
                       state : {"running", "ok", "fail", "signal"}]
    /\ asm \in [Prog -> 0..run]
    /\ seeds \in 0..run
    /\ elf \in [Prog -> 0..run]
    /\ log \in [Iss \X Prog \X {"_", "."} -> Partial..run]
    /\ report \subseteq Prog /\ lost \subseteq Prog

Succeeded(chosen) == status = "success" /\ chosen \subseteq steps

Compiled == {p \in Prog : ~TestList[p[1]].no_gcc}
Simulated == {p \in Prog : ~TestList[p[1]].no_iss}

\* A run that generates, compiles and ends well has compiled the programs it
\* generated, each of them, whatever older runs left in the directory -
\* except where a generator process died unnoticed, was given up, or one of
\* an older run was still writing.
StaleNeedsLoss ==
    Succeeded({"gen", "gcc_compile"}) =>
        \A p \in Compiled : elf[p] = run \/ (p \in lost /\ elf[p] # 0)

\* After a run that compiles and simulates, the logs of all simulators are
\* about the same program, the one in the .o file, or cut short.
LogsOfOneProgram ==
    Succeeded({"gcc_compile", "iss_sim"}) =>
        \A p \in Simulated, n \in Iss : log[<<n, p, "_">>] \in {elf[p], Partial}

\* What seed.yaml says of the programs.  Once it lists the seeds of the current
\* run, which without LSF it does behind the last batch, it is about the
\* programs in the directory, but for the lost ones; and programs of this run
\* without their seeds there are only where a generator was still at work when
\* the run ended.
SeedsMatch ==
    run > 0 /\ ~Lsf =>
        /\ seeds = run => \A p \in Prog : asm[p] = run \/ p \in lost
        /\ seeds # run /\ (\E p \in Prog : asm[p] = run) /\ Seeded =>
              step = "gen" \/ status \in {"exit_fail", "exit130"}

\* Every run comes to an end.
RunsEnd == (step # "idle") ~> (step = "idle")

\* "We have added a flow to run ISS simulation with both spike and
\* riscv-ovpsim, the instruction trace from these runs will be cross compared"
CrossCompared ==
    /\ step = "iss_cmp" /\ todo # {} /\ {"gcc_compile", "iss_sim"} \subseteq steps
    => \A n \in Iss : log[CmpLog(n, First)] # 0
=============================================================================
