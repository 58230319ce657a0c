# Formal models of RISCV-DV

RISCV-DV generates random RISC-V assembly programs, compiles them, runs them on
instruction set simulators (ISS), compares the instruction traces and collects
functional coverage from them. This directory models the parts of it whose behaviour
is more than text output, checks the models with TLC and proves the central invariants
with TLAPS.

## 1. The system

Paths are relative to the repository. The Python generator (`pygen/`) is the one
that is modelled; `src/*.sv` is the original it was ported from, `euvm/` a second
port.

| Component | State it keeps | Operations | Hard part | Modelled |
|---|---|---|---|---|
| Instruction sequence: `riscv_instr_stream.py`, `riscv_instr_sequence.py` | `instr_list`, `label_idx`, `branch_idx`, `branch_target` | `gen_instr`, `insert_instr_stream`, `mix_instr_stream`, `post_process_instr`, `generate_instr_stream` | random positions, labels assigned and removed in overlapping passes | yes, without the dead branches |
| Directed streams: `riscv_directed_instr_lib.py`, `riscv_loop_instr.py`, `riscv_load_store_instr_lib.py`, `riscv_amo_instr_lib.py` | the instructions of one stream | `post_randomize` | jump order, loop counters, base registers under mixed-in random instructions | jumps, loops, push and pop |
| Call stack: `riscv_callstack_gen.py` | levels, callees | `post_randomize` | every program called, no recursion | no |
| Program: `riscv_asm_program_gen.py`, `riscv_privileged_common_seq.py` | sections of text | `gen_program`, trap handlers | trap entry and exit, privileged setup | no |
| CSR tests: `scripts/gen_csr_test.py` | predicted CSR value | `gen_csr_instr`, `predict_csr_val` | prediction agrees with what the instruction does | yes |
| Regression flow: `run.py` | output directory | `gen`, `gcc_compile`, `iss_sim`, `iss_cmp` | partial failure, stale files, batches, processes that outlive their run | generated tests |
| Commands: `scripts/lib.py` | child processes, their pipes | `run_cmd`, `run_parallel_cmd` | timeouts, signals, Ctrl-C, full pipes | yes |
| Log parsers: `scripts/*_log_to_trace_csv.py` | the instruction in hand | line by line | first and last instruction, traps, calls | five of them |
| Trace comparison: `scripts/instr_trace_compare.py` | two register files, two positions | `compare_trace_csv` | what PASSED means | yes |
| Coverage: `cov.py`, `riscv_instr_cov_test.py`, `riscv_cov_instr.py`, `riscv_instr_cover_group.py` | register values, the instruction before, bins | `sim_cov`, `run_phase`, `sample` | what a row does not show, state kept from row to row and from file to file | scalar instructions |

How they interact: `run.py` starts the generator through `scripts/lib.py`, one
process for each batch of programs. A generator process builds each program from
sequences, and each sequence from a random main stream and directed streams; for a
test of CSRs it runs `gen_csr_test.py` instead. The programs are files; `gcc_compile`,
`iss_sim` and `iss_cmp` find the files of the step before by name, so a step can be run
by itself later, in a run of its own. `iss_cmp` has the log parsers write a CSV file for
each simulator and compares the two. `cov.py` gives the same kind of CSV files, some at
a time, to a coverage collector, a second program of the generator's library.

What makes each part correct:

* sequence: directed streams stay in one piece; every branch operand names a label
  that is printed, ahead of it, and means one instruction only; generation ends;
* generated program: control enters an atomic stream only at its head; the program
  ends, whatever its branches do;
* CSR test: it passes on a conforming hart, and fails on one that is not;
* log parsers: a trace has the register changes of the program, all of them and in
  order, and two simulators that agree pass;
* comparison: each register change is judged once, against the change at its place;
* commands: the flow always goes on or ends, nothing keeps running behind it, and a
  command that failed is reported;
* regression: the verdict of a run, and the list of its seeds, are about the programs
  of that run;
* coverage: the bins hit are those of the instructions the program executed.

## 2. Modules

| Module | Models | Actions |
|---|---|---|
| `DirectedStreams` | instructions; atomic streams; the back-to-back jump stream | none: operators only |
| `InstrSequence` | one sequence, from random instructions to the printed list | 11 |
| `ProgramFlow` | `InstrSequence` followed by a run of the printed list | 4, and those of `InstrSequence` |
| `ProgramFlowProofs` | the theorems of `InstrSequence` and `ProgramFlow` | |
| `StreamMix`, `LoopStream` | mixing a stream into random instructions; loops and their mixing | 1; 2 |
| `LoopStreamProofs` | their theorems | |
| `CsrTest` | the generated CSR test and the hart that runs it | 9 |
| `CsrTestProofs` | its theorems | |
| `RunCommands` | `run_cmd`, `run_parallel_cmd` and the processes they start | 12 |
| `RunCommandsProofs` | its theorems | |
| `RegressionFlow` | runs of `run.py` over one output directory | 13 |
| `RegressionFlowProofs` | its theorems | |
| `TraceCompare` | `compare_trace_csv` | 9 |
| `TraceCompareProofs` | the theorems of `TraceCompare` and `TraceLogs` | |
| `AbstractCompare` | what a comparison promises: pairs of register changes | 5 |
| `TraceLogs` | `compare_iss_log`: two logs are converted and compared; composes the parsers with `TraceCompare`, which it shows to implement `AbstractCompare` | 4, and those of `TraceCompare` |
| `InstrAttributes` | the names of the instructions and what `get_attr_list` says of them | none: tables |
| `CoverPoints`, `FpCoverGroups`, `CoverGroups` | coverpoints; the cover groups; which of them exist | none: tables |
| `CovInstr` | one instruction of the collector: operands, values, hazards | none: operators only |
| `TraceText` | the row a converter writes for an executed instruction | none: operators only |
| `CoverageRun` | the collector's run over several CSV files beside the program they are of | 9 |
| `CoverageProofs` | its theorems | |
| `RecursionLemmas` | least and greatest numbers, induction, functions defined by recursion: lemmas that several proofs cite | |
| `MC*` | constants of the TLC runs | |

Some definitions are marked "Mutant: ...". They are variants with a bug of the
definition that follows them and are used nowhere in a specification: put in its
place, TLC must find a property violated. `PROJECT.json` pairs each property with
its variant.

### InstrSequence

The state is that of `riscv_instr_sequence`: `instr_list` with the attributes the
post-process reads or writes, and the local variables of `post_process_instr`. An
instruction also carries its origin, `<<stream, pos>>`, which the code does not
have and no action reads.

| Code | Action |
|---|---|
| `gen_instr`: random instructions, branches at the end popped | `GenMainStream` |
| `insert_instr_stream`: in front of a non-atomic instruction | `InsertDirected`, `InsertFails` (`sys.exit(1)`), `InsertDone` |
| first loop of `post_process_instr` | `NumberInstr`, `NumberDone` |
| `branch_idx[i] = random.randint(1, max_branch_step)` | `PickBranchIdx` |
| second loop | `AssignBranch`, `PassInstr` |
| end of it, and the first label of `generate_instr_stream` | `WalkDone` |
| `generate_instr_stream` of an empty list: its loop variable, used behind the loop (l. 251), is not set | `EmptyProgram` |

A random choice of the code is an existential. Ten tries for a random place and a
search for the first non-atomic one (l. 82-93) give, together, any non-atomic
place: the loop of tries stops at an *atomic* instruction, and the fallback then
takes the first that is not.

A directed stream may hold branches without a target. `setup_allowed_instr`
(`riscv_instr_stream.py` l. 166-170) takes the class's own list
`riscv_instr.basic_instr` and appends the branches to that, so that every stream drawn
after the first call with `no_branch = 0` may get one where it asked for none: an
instruction mixed into a stream (`add_mixed_instr`), the end of a jump chain, a filler of
a loop. `AtomicStream` and `JalStream` take them as parameters, and `DirectedStream`, which
says what `post_process_instr` is handed, leaves open which branches have a target. The
second loop resolves those like its own (`NeedsTarget`): their index is that of the next
random instruction, which may be the target. When no random instruction is left there is
no numeric label, `label_idx - 1` is -1 (`NoLabel`), and the branch names a label that
does not exist. `BranchesResolved` and `OperandsDefined` say that this is the only case.

Illegal and hint instructions are left out: `illegal_instr_pct` and
`hint_instr_pct` are never set in the Python port. The calls that add stack code
are commented out there (`riscv_instr_sequence.py` l. 81-84), and
`insert_jump_instr` is a stub.

### ProgramFlow

A hart steps through the finished list. Local labels are resolved the way the
assembler does: `nf` is the next `n:` after the instruction, `nb` the last one up
to it. A branch may be taken or not, a jump is always taken. Only control flow is
modelled, no data, traps or calls. A program in which an operand has no label does not
assemble (`Assembles`) and is not run.

The streams here are jump chains and streams that do not jump; a branch in them is left to
the post-process or goes to a numeric label of its own stream. Loops, whose branches go to
names, are the matter of `LoopStream`. In the Python port a filler of a loop comes from
`get_rand_instr()` without any constraint (`riscv_loop_instr.py` l. 152, 168, 207) and may
be a jump without a target, which no part of the code resolves; that is not modelled.

### StreamMix and LoopStream

`StreamMix` is `mix_instr_stream`: one `InsertInstr` per instruction mixed in, at a
position drawn from `Positions`. The code draws all positions, sorts them and
overwrites the first and last when `contained` is set; drawing each one from the one
before on gives the same lists of positions.

`LoopStream` extends it with `riscv_loop_instr`: the list `build_loop_instr_stream`
makes (`LoopInstr`), its mixing (`Insert`) and the attributes set at the end (`Seal`);
the push and pop stack streams are mixed and finished the same way.
It is about places only. Registers, immediates and opcodes come from a constraint
solver, and the Python port leaves the update instruction without constraints
(l. 206-216), so nothing can be said about how often a loop turns.

A nested loop is not nested in the Python port: l. 253 of `riscv_loop_instr.py` appends
`loop_instr[i]`, one instruction, where `src/riscv_loop_instr.sv` l. 198 puts the whole
list of the inner loop inside the outer one. `LoopInstr` is what the port does, one
loop behind the other; no text of the repository contradicts it, so it is no finding.

### CsrTest

A value is the set of its bits that are one. `csr_map` is the generator's copy of the
CSRs, which `predict_csr_val` reads and writes; `hart_csr` is what the hart has. The
three loops of `gen_csr_instr` are `csr`, `op` and `i`. What is emitted for one
instruction runs before the next one is emitted, which is the same order of effects:
the test is a straight line that branches to its end only.

| Code | Action |
|---|---|
| one turn of the inner loop (l. 330-369) | `Emit`, then on the hart `LoadOperand`, `ExecuteCsr`, `LoadPrediction`, `BranchFails` or `NextInstr` |
| the final check (l. 370-390) | `EmitFinal`, `FinalRead`, `LoadPrediction`, `BranchFails` or `Pass` |
| `LegalizeWriteCSRField.write` | `Stored`, with `warl_legalize` the constant `Legalize` |

The hart is external. It follows the description bit by bit (`WriteAsDescribed`), not
field by field like the generator, and an instruction that sets or clears with an
immediate of zero does not write. Once, it may write one bit wrong (`Faulty`).

`get_rs1_val` draws 32 random bits from the top of the word (`Word`): with an `xlen` of 64
the immediates, five bits from the bottom, are zero in every third instruction. The
message of the assertion at l. 114 names `rv`, which is not defined there; only the
message of a failure is affected.

### RunCommands

Processes write into pipes of `PipeCap` chunks, fail, die or hang, as `Fates` says;
the caller runs one of the two loops. There is no clock: a wait may time out as long
as the process has not ended and its pipe been read.

### RegressionFlow

A file holds the number of the run that generated the program it comes from, 0 when
it does not exist. Up to `MaxRuns` runs, each with any set of steps, use one
directory with the same options (`args`): `--noclean` is always on (`run.py` l. 870:
`store_true` with default `True`). Generator processes are elements of `jobs` and
outlive their run after Ctrl-C or a timeout. `seeds` is the run whose seeds `seed.yaml`
lists: if any test but those of CSRs is generated (`Seeded`), the file is written in front
of the batches with LSF and behind the last one without. `lost` is history: programs of the current run whose process died of a
signal, was given up, failed where failure is not fatal (LSF), or that a process of an
older run has written over.

Left out: the compilation of the SystemVerilog generator, `--co`, `--so` and
`--debug`, hand-written assembly and C tests, and the numbers of the seeds. Of those:
batches of a test get seeds that lie the number of batches apart (l. 307), where the
help of `--start_seed` (l. 882-886) has them count up by one.

### TraceCompare and AbstractCompare

The local variables of `compare_trace_csv`, one step for each entry read and for each
verdict. `changes1` and `changes2` are history: the entries found to change a
register. The reference, `ChangesOf`, is defined on the whole trace.

`AbstractCompare` knows only the two lists of register changes not judged yet. It takes
one from each (`Pair`), counts a change the other side lacks (`Missing`, `Extra`), and may
end as soon as the second side is used up (`Finish`): that much the code does promise.
`TraceLogs` maps the two positions, the change flag and the phase to those lists and
checks `Abstract!Spec` (property `Pairing`).

### TraceLogs

A program is a sequence of executed instructions; `Printed` and `Dumps` are what a
simulator prints of them (external), `SpikeLine`, `OvpsimLine`, `SailLine`,
`WhisperLine` and `RenodeLine` what the converters do with a line. `OpenLog`,
`ReadLine` and `WriteCsv` convert one log, then the other; `Abandon` is the exit of
`ovpsim_log_to_trace_csv.py` for a log without instructions. Two CSV files made
elsewhere can be compared too, as the script does when it is called by hand.

Values are small numbers, an instruction is reduced to what it does to a register. The
CSR column, which no comparison reads, and `full_trace` are left out. `compare_iss_log`
has no branch for Renode, whose converter is a script of its own, and its branch
"imperas" calls `process_imperas_sim_log`, which `run.py` does not import and the
repository does not have.

### CoverageRun and its tables

`CoverPoints`, `FpCoverGroups` and `CoverGroups` are the 8000 lines of
`riscv_instr_cover_group.py`: for each group the fields it samples, their bins and its
crosses, mistakes included (the point called `lsu_hazard` of the loads reads the register
hazard; two instructions have the group of the other precision; `FSW` is assigned twice).
`InstrAttributes` is the list of names and what `get_attr_list` answers; `CovInstr`
decodes the operands in the order the collector expects, per format, and computes values,
signs and hazards; `TraceText` is the row a converter writes, in the order of the
simulators or of a core's own log.

`CoverageRun` runs a program beside the collector. Each row is skipped by its form or
its name (`SkipMalformed`, `PassByName`), unknown (`RejectUnknown`), of an extension
the target has not (`PassUnsupported`), sampled (`Sample`), or ends the collector
(`Die`). `NextFile` keeps the register values and the instruction before, `NextBatch`
is the second command of `cov.py`, whose list of files starts with a comma and which the
collector refuses. `WellFormed` says what the programs are: an instruction has the
operands of its form (`FormatRoles`, of `TraceText`), with registers that exist; the
numbers, values and words, and the names outside the table, are arbitrary. `registers`,
`unseen`, `access`, `earned`, `doubt` and `culprit` are history: what the program did,
what the collector cannot have seen, and the row that ended it.

A CSR is in a row under its name. `update_src_regs` (`riscv_cov_instr.py` l. 452-456,
484-488) takes a name that `privileged_reg_t` lacks for a number, and `int()` raises:
`NameKnown`, with the constant `privileged_reg_t` for the CSRs it has. Immediates are taken
to be decimal numbers or hexadecimal ones after `0x`, with a sign or not. `get_val` reads
both, so Spike's `-0xf` would be read also without the conversion that
`process_instr` makes for `jal` (`spike_log_to_trace_csv.py` l. 43-52), and OVPsim's
branch targets, which `sint_to_hex` writes, are of the second kind. What else a version of a
simulator may print in their place, such as an expression or the short name of a counter's
instruction, is external and not modelled.

Vector instructions, the report and the database, and values no group reads are left out.
The overflow of a division is looked for at divisor 1 and two values always differ in one
bit (`riscv_cov_instr.py` l. 294 and following); both are translated as they are, and
`Sound` leaves the points that read them out of what is compared, because nothing in the
repository says what they should be.

## 3. Runs

| Run | What it shows | Bounds |
|---|---|---|
| `program_flow` | generating: streams intact, branches resolved, labels unique and all used, fatal error only without random instructions, `IInv` holds; running: every operand has a label, a stream without labels is entered at its head only, a jump chain runs each of its jumps once; generation and the program end | 4 random instructions, branch distance up to 3, 2 branch distances; up to 2 streams: atomic ones of 1 or 2 with no branch, one or two in any place, jump chains of 2, with either end, and of 3, in every order |
| `program_flow_capture` | finding 1 | jump chains only |
| `loop_stream` | wherever its parts fall, a loop is set up before its target, updated between target and branch, and labelled at its target only; push and pop streams keep their order | 1 and 2 loops in up to 3 random instructions; stack streams with 1 register, as in the code, and up to 9 random instructions, of which `gen_instr` may have dropped any number |
| `loop_order` | finding 4 | 1 loop |
| `csr_test` | the test passes on a conforming hart; it finds a wrong write, unless it is the last one to a CSR that is not the last; `TestInv` holds | 2 CSRs of 8 bits with a gap, a read-only, a reserved and two legalized fields, one of which keeps its old value; every random operand |
| `run_commands` | what is collected and reported when the flow goes on; waiting in list order is no deadlock; commands one after the other do not overlap, errors stop the flow, nothing is left without SIGTERM | 3 commands, pipes of 1, outputs of up to 2, both kinds of call |
| `regression` | the files of a run that ends well are that run's, and so are the seeds it lists, unless a generator was lost; every run ends | 2 runs with any steps over one directory; batches of 2 and 1 and a CSR test; 2 simulators; 2 batches at a time with LSF |
| `regression_compare` | finding 3 | 1 run, 1 test of 2 programs, 2 simulators |
| `trace_compare` | a trace has the program's register changes; two simulators that agree pass; the exact meaning of a verdict; the comparison implements the abstract pairing; it comes to a verdict | every pair of 5 simulators on programs of up to 2 instructions of 6 kinds, cut off or ended by a call; every pair of CSV files of up to 3 entries with 2 registers, 3 values and a double update |
| `trace_compare_short` | finding 2 | the same simulators and programs |
| `coverage` | the bins hit are those of the program's instructions; memory hazards are real, also at the start of a file; the names, forms and CSRs on which the collector dies | 4 rows over 3 CSV files in batches of 2; every name once as the second row, a CSR with a known name and one without; both orders of operands |
| `coverage_rows` | finding 5 | 3 rows |

Why the bounds are enough to be interesting. Four instructions with a distance of
three reach the cap at the last label, an exhausted and reshuffled `branch_idx`, popped
trailing branches down to the empty list, and an insertion in front of, between and
behind branches and streams. Three trace entries with one double update reach every
way to end: both traces, either one first, inside and behind the last change. Two
instructions and an ending reach every state of each converter: before the start mark,
with and without an instruction in hand, after a trap, after the call. Pipes of
one chunk fill at once. Two runs are what a stale file or a leftover process needs,
three iterations with batches of two what a last, shorter batch needs. Two CSRs are the
last one and one that is not. A hazard needs two rows, a value missed by the collector a
third one that reads it; three files are two of a batch and one of the next. The
theorems of section 6 remove the bounds where it matters most.

Deadlock checking is off in all runs: each of the programs stops.

## 4. Fairness

* `InstrSequence`, `ProgramFlow`, `TraceCompare`, `TraceLogs`: one sequential program;
  weak fairness of its next step.
* `RunCommands`: weak fairness for each process and each step of the caller, and for
  its timeout, which the code passes to `communicate`. Ctrl-C is not fair.
* `RegressionFlow`: weak fairness of the run's own next step, in which a wait for a
  process ends or times out. Generator processes are not fair: they may hang.
  `gcc` runs without a timeout in the code (`run_cmd_output`) and is taken to end.
* `StreamMix`, `LoopStream`, `CsrTest` and `CoverageRun` are checked for safety only:
  each is a walk over a list of fixed length.

## 5. Findings

1. Labels of a jump chain capture branches (`program_flow_capture`).
2. A short second trace passes (`trace_compare_short`): a log of OVPsim that was cut off
   loses its last instruction in the conversion, and still passes against a whole one.
3. `iss_cmp` opens logs under names `iss_sim` does not use (`regression_compare`).
4. Mixing a loop into random instructions changes its order (`loop_order`).
   The same line puts the last instruction in front of the list's last one, so that a
   "contained" mix never ends with it.
5. The collector reads base and offset of a load or store in another order than the
   converters write them, and ends with an exception (`coverage_rows`).

`PROJECT.json` has the lines and the quotations.

## 6. Proofs

No proof depends on the bounds of section 3; each needs the assumptions on the constants
that are named in its module, and TLC evaluates those on its runs.

`ProgramFlowProofs` proves of `InstrSequence`, for every number of random instructions, branch
distance, length of `branch_idx` and list of directed streams (assumptions
`ConstantAssumption` and `DirectedAssumption`: a directed stream is nonempty, atomic, and
without numeric labels of the post-process; its branches may have a target or not):

    Spec => []TypeOK              Spec => []LabelsUnique
    Spec => []StreamsIntact       Spec => []OnlyTargetsLabelled
    Spec => []BranchesResolved    Spec => []FatalOnlyWithoutMain

They follow from the inductive invariant `IInv`. None of the properties is
inductive by itself. `BranchesResolved` is kept by the removal of labels only
because (1) the list ends in a random instruction that is not a branch
(`EndsInMain`), so a capped target is ahead; (2) labels count the random instructions
(`LabelsCount`), so a target has exactly one carrier, and one further on in the list;
(3) an instruction the second loop has not reached has its label, and one it has
passed has it exactly if it is a target (`Shape`, `TargetsKept`). `StreamsIntact` is
kept because an insertion is in front of a non-atomic instruction, which no stream
stands across. The branches of directed streams come in by `Shape`, which says of an
instruction that the second loop has not reached that it is assigned exactly if its stream
has done that, and by `TargetAhead`, which separates the two kinds: a random branch has a
target beyond its own index, one in a stream may have its own, which is that of the next
random instruction, and without random instructions the target is `NoLabel`. One lemma for
each action, one step for each conjunct it disturbs.

It goes on to the run of the printed list, for any list of directed streams that are jump
chains, with either kind of end, or do not jump (`OperandAssumption`: those of their
branches that have a numeric target have it in the stream, as `Contained` says; the others
are left to the post-process):

    FlowSpec => []OperandsDefined    FlowSpec => PlainEntry    FlowSpec => ChainRunsWhole

`ListInv` adds to `IInv` where the streams stand: each one as a whole around every one
of its instructions (`Whole`), once (`Once`), as it was made but for the first label of
the program and the targets of the branches it had left open (`Faithful`), among random
instructions that never jump and resolved branches that never go backward (`Forward`).
`OperandsDefined` is an equivalence: a list with a random instruction assembles because a
label ahead is printed for every branch that is resolved; one without has no numeric label
but those of chains, and -1 is none of them (`NobodysLabel`). `FlowInv` adds where the
hart stands: `trail` holds the positions run since the stream at `pc` was entered, and if
it was entered at its head they follow its chain (`OnPath`). That a chain runs each jump once is then arithmetic: its order is a
shuffle, so the t-th position run is a function of t with an inverse.

`LoopStreamProofs` proves `Spec => []UncontainedOrder` and `Spec => []LoopWhole` for
lists of any length, the random one empty too (`MixAssumption`, and `LoopAssumption`: a
stream with a branch target is one that `build_loop_instr_stream` makes). `UncontainedOrder` compares
positions that every insertion shifts; `MixInv` makes that inductive with a function
from the new instructions that are in to where they stand (`IsPlacing`), and with what
the next position drawn relies on: behind the last one drawn there are random
instructions only (`RandomBehind`). Only the last two instructions of a contained mix
may change places (`MaySwap`); in a stream of loops the first of them is a copy of an
instruction that stands further ahead, and `LoopWhole` does not rest on it.

`RegressionFlowProofs` proves the four safety properties of `RegressionFlow` for every
test list, batch size, number of simulators and number of runs over the directory, with
and without LSF:

    Spec => []TypeOK              Spec => []StaleNeedsLoss
    Spec => []LogsOfOneProgram    Spec => []SeedsMatch

`FlowInv` says what each step of a run leaves for the next one: what `gen` has gone
through is of this run or was lost by its generator process (`GeneratedSoFar`, with
`WrittenByJobs` for the programs a process has behind it, also a process that runs on
after its step), what `gcc_compile` has gone through has a binary of it
(`CompiledSoFar`), what `iss_sim` has gone through has a log of that binary or a part of
one (`SimulatedSoFar`). `SeedsMatch` needs that without LSF a step has one process at a
time (`OneJobAtATime`) and that the batches' programs lie apart.

`TraceCompareProofs` proves of `compare_trace_csv`, for traces of any length,

    Spec => []TypeOK    Spec => []PassedMatches    Spec => []VerdictExact

The reference of `VerdictExact` is recursive: the changes of a whole trace. `VInv` ties
the two loops to it: the registers and changes found are those of the entries read
(`Following`), what a loop holds between two steps (`InHand`), and that a mismatch
counted is one of the whole traces (`Judgement`).

For the logs of two simulators, for any programs, endings and simulators
(`LogsAssumption`: nothing changes x0, and what an instruction writes is an entry), it proves

    LogSpec => []ConversionExact    LogSpec => [](PassedMatches /\ VerdictExact)
    LogSpec => []SameRunPasses      LogSpec => Pairing

`ConvInv` says of the log that is being read how far its converter has got, one
predicate for each simulator (`SpikeReading` and so on, together `Reading`). What is
left of the log is what is printed behind the k-th instruction (`Rest`, `RestIsFlat`: a
log is `FlattenSeq` of what is printed of each instruction), or the second of its two
lines, or the converter is past the ecall; and the rows written, with the instruction in
hand where the converter would still write it, are `Alike` the trace of the first k
instructions: they have the same changes and leave the same registers, so that no entry
that follows can tell them apart. The traces are not the same: Spike's has rows for a
wfi, Sail's and Whisper's leave out or add rows that change nothing, Renode's has only
the registers that differ from the last dump. For OVPsim alone they are equal, but one
instruction behind, which is the one that is lost when the log is cut off. Whisper's
rows for x0 are quiet only because x0 stays zero (`ZeroStays`). `SameRunPasses` follows:
both traces have the changes of the same body, and `VerdictExact` has no mismatch then.
That the comparison implements `AbstractCompare` (`Pairing`) needs `LInv`: before the
second trace is there nothing has been compared.

The prover has no induction over data. The lemmas of `RecursionLemmas` make up for it
where a recursion is over an interval of numbers: `LeastNat` comes from the library's
theorem on well-founded sets, which takes no operator, and the others from it: a set
that has 0 and, with each number, the next one has them all (`SetInduction`,
`IntervalInduction`); a function defined by recursion over 0..n exists (`Recursion`).

`CsrTestProofs` proves `ConformingPasses` and `FaultsFound` for any number of CSRs, any
fields that lie apart (`FieldAssumption`), any word length and any `warl_legalize` whose
results are legal, that is, fixed points of it (`LegalAssumption`). The inductive
invariant is `TestInv`. `InStep` says that on a conforming hart the generator's copy is
ahead of the hart by exactly the instruction emitted and not yet executed, and that every
CSR holds legal values; without the latter, an immediate of zero, which the hart does
not write and the generator does, could make a difference. `Found` says where the
difference a wrong write made is kept until a branch sees it: between the two copies,
then between prediction and hart, then between the two registers. The lemma behind
the first part is `WriteBack`: a CSR that holds legal values and is written with what it
holds keeps it.

`CoverageProofs` proves the four invariants of `CoverageRun`,

    Spec => []TypeOK           Spec => []DiesOnlyOnKnownForms
    Spec => []CoverageExact    Spec => []MemHazardsReal

for traces of any length, any instructions in them that have the operands of their form
(`StepsAssumption`), either order of operands, any target, and any width of registers
(`FilesAssumption` and `XlenAssumption` say that the numbers are numbers). The argument
goes along a row. The attribute table says of each name what its format and category
imply (`NameFacts`, one step for each part of the table). From the format follows the
order in which a simulator prints the operands, and that each one the collector reads is
at the place it is read from, or a base register stands where the offset is expected
(`IntOrder`, `FdOrder`); a converter that writes another name, MV for ADDI, puts back
what the disassembler left out (`ConvertedRow`). Then each operand is of the kind the
collector reads (`KindsReadable`), and it is read unless it is a CSR whose name is not
known (`KindsSuffice`). That is all `DiesOnlyOnKnownForms` needs; which CSRs have known
names does not matter. For the two others the operands have to be the program's: `RowShows`, and for
the values the inductive invariant `RegistersKnown`: the collector's registers are the
program's, but for those whose last change it missed. It survives the start of a CSV,
where the program's registers are blank and the collector's are not, because a register
that is not 0 counts as missed there. Then what is sampled agrees with what was executed
in each field a cover group reads (`CollectedAgrees`), with one exception: the immediate
of `C_ADDI4SPN`, which the collector leaves at 0 and whose group does not read it
(`Addi4spnRead`). `SameHits` turns that into bins, for every group of the 81 names whose
bins `Sound` keeps (`InstanceTable`, `IntGroupRead`). `MemHazardsReal` needs
`LastAccess`: the access of the row before is that of `pre_instr`, or is not known; at
the start of a CSV there is none, although `pre_instr` is still there.

`RunCommandsProofs` proves the four safety properties of `RunCommands` for any number of
commands, any output and pipes of any size (`CommandsAssumption`). `RunInv` adds to them
that a process that has exited has nothing left to write (`Drained`), that what stands
before the command waited for has been collected or given up (`CollectedUpToCur`), that
one at a time the commands behind it have not started (`InTurn`), that the loop has gone
through the whole list when it returns (`AllWaitedFor`) and that there is no output to
log only at the first command (`NoOutputYet`).

Only model-checked is liveness: `ProgramEnds`, `VerdictComes`, `CallerEnds`,
`BlockedProceeds` and `RunsEnd`, which are out of the prover's reach. The invariants that
make the theorems inductive are proved, not checked, for `CoverageRun`
(`RegistersKnown`, `LastAccess`).

## 7. Not modelled, and what is left

Not modelled, and why:

* Hand-written assembly and C tests: `run_assembly` and `run_c` are the commands of the
  regression flow in a row, without state of their own.
* Load, store and AMO streams, the call stack, illegal instructions, the configuration:
  constraints for an external solver decide all that varies; the lists the streams make
  are mixed by `StreamMix`. The call stack's random caller at a level with a single one
  is drawn from an empty range (`riscv_callstack_gen.py` l. 130), which no model is
  needed to see.
* Program assembly and trap handlers: text in a fixed order, with the configuration's
  values in it. What trap entry and exit promise depends on the instructions' meaning
  for data, which `ProgramFlow` has not.
* The numbers of seeds and the options that choose them; the command lines of
  `run.py`, of which l. 313 replaces the test's name once for all tests.
* The SystemVerilog and the D generator: the Python port stands for both. PMP setup, page
  tables and the debug ROM exist in SystemVerilog only.

What would add most next:

1. Trap handlers: the context saved and restored around an interrupt, on a hart with
   registers and a stack.
2. The SystemVerilog parts without a Python port: PMP setup and page tables.
3. `SeedGen`: which programs a rerun with `--seed_yaml` reproduces.
