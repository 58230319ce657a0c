----------------------------- MODULE TraceLogs -----------------------------
(***************************************************************************)
(* compare_iss_log (run.py): the logs of one program on two simulators are *)
(* converted, each by its own script, and the two CSV files compared.      *)
(*                                                                         *)
(* A program is the sequence of instructions it executes.  What a          *)
(* simulator prints of it is external; a log is a sequence of lines.  The  *)
(* converters read those lines one by one.  Two CSV files made elsewhere   *)
(* may also be compared directly (instr_trace_compare.py as a script).     *)
(***************************************************************************)
EXTENDS TraceCompare, SequencesExt

CONSTANTS
    Sims,        \* simulators: "spike", "ovpsim", "sail", "whisper", "renode"
    Executed,    \* instructions: [op, rd, val], a register written if op = "set"
    Endings,     \* what follows them: nothing, or ecall and what comes after
    CsvEntries,  \* the entries of a CSV file made elsewhere
    MaxSteps,    \* bound on the instructions before the ending
    Xreg         \* the integer registers of Gpr

Instruction == [op : {"set", "none", "trap", "wfi", "ecall"}, rd : Gpr, val : Val]
Update(s) == [rd |-> s.rd, val |-> s.val]

\* Nothing changes x0.
Writable(s) == s.op = "set" => <<Update(s)>> \in Entries /\ (s.rd = "zero" => s.val = 0)

ASSUME LogsAssumption ==
    /\ Sims \subseteq {"spike", "ovpsim", "sail", "whisper", "renode"}
    /\ Xreg \subseteq Gpr
    /\ CsvEntries \subseteq Entries
    /\ MaxSteps \in Nat
    /\ Executed \subseteq {s \in Instruction : s.op # "ecall" /\ Writable(s)}
    /\ Endings \subseteq Seq(Instruction)
    /\ \A ending \in Endings : \A k \in 1..Len(ending) : Writable(ending[k])
    /\ {<<>>, <<[rd |-> "zero", val |-> 0]>>} \subseteq Entries

Bodies == UNION {[1..n -> Executed] : n \in 0..MaxSteps}
Programs == {body \o ending : body \in Bodies, ending \in Endings}

VARIABLES
    program, sim1, sim2,
    stage,      \* "log1" and "log2" are converted, then "compare"; or "fatal"
    opened,     \* a log is being read
    log,        \* its lines not read yet
    conv        \* the state of the converter

logVars == <<program, sim1, sim2, stage, opened, log, conv>>

-----------------------------------------------------------------------------
(* The logs.  Spike and Sail print the start-up code first, which also     *)
(* writes registers, and print a register on a line of its own after the   *)
(* instruction; Spike says when an instruction trapped.  Whisper prints    *)
(* one line per instruction, "r" with x0 when it wrote nothing and "f" for *)
(* a floating point register.  Renode dumps the integer registers.         *)

Line(kind, s) == [kind |-> kind, op |-> s.op, rd |-> s.rd, val |-> s.val]

Boot(sim) ==
    LET s == [op |-> "set", rd |-> "a0", val |-> 2]
    IN  IF sim \in {"spike", "sail"}
        THEN <<Line("instr", s), Line("reg", s), Line("start", s)>>
        ELSE <<>>

Printed(sim, s) ==
    IF sim = "whisper"
    THEN <<IF s.op = "set"
           THEN Line(IF s.rd \in Xreg THEN "r" ELSE "f", s)
           ELSE Line("r", [s EXCEPT !.rd = "zero", !.val = 0])>>
    ELSE CASE s.op = "set" -> <<Line("instr", s), Line("reg", s)>>
           [] s.op \in {"trap", "ecall"} /\ sim = "spike" ->
                <<Line("instr", s), Line(s.op, s)>>
           [] OTHER -> <<Line("instr", s)>>

\* the integer registers after an instruction
Effect(regs, s) == IF s.op = "set" /\ s.rd \in Xreg THEN [regs EXCEPT ![s.rd] = s.val] ELSE regs

Dumps(prog) ==
    LET regs[k \in 0..Len(prog)] ==
          IF k = 0 THEN [r \in Xreg |-> 0] ELSE Effect(regs[k - 1], prog[k])
    IN  [k \in 1..Len(prog) |->
            [kind |-> IF prog[k].op = "ecall" THEN "ecall" ELSE "dump", regs |-> regs[k]]]

LogOf(sim, prog) ==
    IF sim = "renode" THEN Dumps(prog)
    ELSE Boot(sim) \o FlattenSeq([k \in 1..Len(prog) |-> Printed(sim, prog[k])])

-----------------------------------------------------------------------------
(* The converters.  Each is a step over one line; "over" is its break, and *)
(* "hand" the instruction whose effect lines are still being read.         *)

Taken(line) == <<[op |-> line.op, gpr |-> <<>>]>>
WithReg(hand, line) == <<[hand[1] EXCEPT !.gpr = Append(@, Update(line))]>>

Start == [on |-> FALSE, over |-> FALSE, hand |-> <<>>, rows |-> <<>>]

\* process_spike_sim_log keeps what has an architectural effect
Kept(hand) == IF hand # <<>> /\ (hand[1].gpr # <<>> \/ hand[1].op \in {"wfi", "ecall"})
              THEN hand ELSE <<>>

(* Mutant: the next instruction takes the place of the one in hand. *)
SpikeOverwrites(c, line) ==
    IF c.over THEN c
    ELSE IF ~c.on THEN [c EXCEPT !.on = line.kind = "start"]
    ELSE CASE line.kind = "instr" ->
                [c EXCEPT !.hand = Taken(line), !.over = line.op = "ecall"]
           [] line.kind = "reg" /\ c.hand # <<>> ->
                [c EXCEPT !.hand = WithReg(@, line)]
           [] OTHER -> c

\* read_spike_trace: TRAMPOLINE, INSTR and EFFECT
SpikeLine(c, line) ==
    IF c.over THEN c
    ELSE IF ~c.on THEN [c EXCEPT !.on = line.kind = "start"]
    ELSE CASE line.kind = "instr" ->
                [c EXCEPT !.rows = @ \o Kept(c.hand), !.hand = Taken(line),
                          !.over = line.op = "ecall"]
           [] line.kind = "trap" /\ c.hand # <<>> ->
                [c EXCEPT !.rows = @ \o Kept(c.hand), !.hand = <<>>]
           [] line.kind = "reg" /\ c.hand # <<>> ->
                [c EXCEPT !.hand = WithReg(@, line)]
           [] OTHER -> c

\* process_ovpsim_sim_log: sed cuts the log after the first ecall; an
\* instruction is written when the next one begins
UpToEcall(lines) ==
    LET calls == {k \in 1..Len(lines) : lines[k].op = "ecall"}
    IN  IF calls = {} THEN lines
        ELSE SubSeq(lines, 1, CHOOSE k \in calls : \A m \in calls : k <= m)

OvpsimLine(c, line) ==
    IF line.kind = "instr"
    THEN [c EXCEPT !.rows = @ \o c.hand, !.hand = Taken(line)]
    ELSE [c EXCEPT !.hand = WithReg(@, line)]

\* process_sail_sim_log: one entry per instruction, at its first x register
SailLine(c, line) ==
    IF c.over THEN c
    ELSE CASE line.kind = "start" -> [c EXCEPT !.on = TRUE]
           [] line.kind = "instr" /\ line.op = "ecall" -> [c EXCEPT !.over = TRUE]
           [] line.kind = "instr" /\ line.op # "ecall" /\ c.on ->
                [c EXCEPT !.hand = Taken(line)]
           [] line.kind = "reg" /\ c.on /\ line.rd \in Xreg /\ c.hand # <<>> ->
                [c EXCEPT !.rows = @ \o WithReg(c.hand, line), !.hand = <<>>]
           [] OTHER -> c

(* Mutant: an ecall does not end the conversion. *)
WhisperThroughEcall(c, line) ==
    IF line.kind = "r" THEN [c EXCEPT !.rows = @ \o WithReg(Taken(line), line)] ELSE c

\* process_whisper_sim_log
WhisperLine(c, line) ==
    IF c.over THEN c
    ELSE CASE line.op = "ecall" -> [c EXCEPT !.over = TRUE]
           [] line.op # "ecall" /\ line.kind = "r" ->
                [c EXCEPT !.rows = @ \o WithReg(Taken(line), line)]
           [] OTHER -> c

\* process_renode_sim_log: the difference of each dump to the one before
RenodeLine(c, line) ==
    LET diff == {r \in Xreg : line.regs[r] # c.regs[r]}
        gpr == SetToSeq({[rd |-> r, val |-> line.regs[r]] : r \in diff})
    IN  IF c.over THEN c
        ELSE CASE line.kind = "ecall" -> [c EXCEPT !.over = TRUE]
               [] line.kind = "dump" /\ diff # {} ->
                    [c EXCEPT !.regs = line.regs,
                              !.rows = Append(@, [op |-> "none", gpr |-> gpr])]
               [] OTHER -> c

Open(sim) ==
    IF sim = "ovpsim" THEN UpToEcall(LogOf(sim, program)) ELSE LogOf(sim, program)

Beginning(sim) ==
    IF sim = "renode"
    THEN [over |-> FALSE, regs |-> [r \in Xreg |-> 0], rows |-> <<>>]
    ELSE Start

ReadWith(sim, line) ==
    CASE sim = "spike" -> SpikeLine(conv, line)
      [] sim = "ovpsim" -> OvpsimLine(conv, line)
      [] sim = "sail" -> SailLine(conv, line)
      [] sim = "whisper" -> WhisperLine(conv, line)
      [] sim = "renode" -> RenodeLine(conv, line)

RowsOf(sim) ==
    IF sim = "spike" THEN conv.rows \o Kept(conv.hand) ELSE conv.rows

\* the gpr column, written by write_trace_entry and read by read_trace
Csv(rows) == [k \in 1..Len(rows) |-> rows[k].gpr]

\* "No Instructions in logfile": sys.exit(RET_FATAL)
NoInstructions(sim) == sim = "ovpsim" /\ conv.rows = <<>>

-----------------------------------------------------------------------------

LogInit ==
    /\ opened = FALSE /\ log = <<>> /\ conv = Start
    /\ \/ /\ stage = "compare" /\ program = <<>>
          /\ sim1 = "none" /\ sim2 = "none"
       \/ /\ stage = "log1" /\ program \in Programs
          /\ sim1 \in Sims /\ sim2 \in Sims
          /\ trace1 = <<>> /\ trace2 = <<>>
    /\ Init
    /\ ToSet(trace1) \cup ToSet(trace2) \subseteq CsvEntries

Sim == IF stage = "log1" THEN sim1 ELSE sim2
Converting == stage \in {"log1", "log2"}

OpenLog ==
    /\ Converting /\ ~opened
    /\ opened' = TRUE
    /\ log' = Open(Sim)
    /\ conv' = Beginning(Sim)
    /\ UNCHANGED <<vars, program, sim1, sim2, stage>>

ReadLine ==
    /\ opened /\ log # <<>>
    /\ conv' = ReadWith(Sim, Head(log))
    /\ log' = Tail(log)
    /\ UNCHANGED <<vars, program, sim1, sim2, stage, opened>>

WriteCsv ==
    /\ opened /\ log = <<>> /\ ~NoInstructions(Sim)
    /\ \/ stage = "log1" /\ stage' = "log2"
          /\ trace1' = Csv(RowsOf(sim1)) /\ UNCHANGED trace2
       \/ stage = "log2" /\ stage' = "compare"
          /\ trace2' = Csv(RowsOf(sim2)) /\ UNCHANGED trace1
    /\ opened' = FALSE /\ conv' = Start
    /\ UNCHANGED <<index1, index2, gpr1, gpr2, change2, matched, mismatch, phase,
                   changes1, changes2, program, sim1, sim2, log>>

Abandon ==
    /\ opened /\ log = <<>> /\ NoInstructions(Sim)
    /\ opened' = FALSE /\ conv' = Start
    /\ stage' = "fatal"
    /\ UNCHANGED <<vars, program, sim1, sim2, log>>

CompareStep ==
    /\ stage = "compare"
    /\ Next
    /\ UNCHANGED logVars

LogNext == OpenLog \/ ReadLine \/ WriteCsv \/ Abandon \/ CompareStep

LogSpec == LogInit /\ [][LogNext]_<<vars, logVars>> /\ WF_<<vars, logVars>>(LogNext)

-----------------------------------------------------------------------------
(* Properties *)

\* The instructions up to the first ecall, which every converter takes as
\* the end of the program.
Calls(prog) == {k \in 1..Len(prog) : prog[k].op = "ecall"}
Ends(prog) == Calls(prog) # {}
Body(prog) ==
    IF Ends(prog)
    THEN SubSeq(prog, 1, (CHOOSE k \in Calls(prog) : \A m \in Calls(prog) : k <= m) - 1)
    ELSE prog

Sees(sim) == IF sim \in {"spike", "ovpsim"} THEN Gpr ELSE Xreg

\* What a simulator's converter can see of the register writes of a sequence
\* of instructions: an entry for each instruction.
Written(sim, s) == IF s.op = "set" /\ s.rd \in Sees(sim) THEN <<Update(s)>> ELSE <<>>
Writes(sim, body) == [k \in 1..Len(body) |-> Written(sim, body[k])]

\* What the converter of OVPsim reads of a program that does not end with
\* ecall: not its last instruction.
Read(sim, prog) ==
    IF sim = "ovpsim" /\ ~Ends(prog) THEN Front(Body(prog)) ELSE Body(prog)

\* A converted trace has the register changes of the program up to its ecall,
\* all of them and in order, whatever start-up code, traps, waits or calls
\* stand between them in the log; only OVPsim's loses the last instruction of
\* a log that was cut off.  The conversion is abandoned only when OVPsim's log
\* has no instruction but that one.
ConversionExact ==
    /\ stage \in {"log2", "compare"} /\ sim1 # "none" =>
         ChangesOf(trace1) = ChangesOf(Writes(sim1, Read(sim1, program)))
    /\ stage = "compare" /\ sim2 # "none" =>
         ChangesOf(trace2) = ChangesOf(Writes(sim2, Read(sim2, program)))
    /\ stage = "fatal" => Len(Body(program)) <= (IF Ends(program) THEN 0 ELSE 1)

\* Two simulators that executed the same program and print the same kinds of
\* register pass the comparison, whichever logs they write, when the program
\* ends with an ecall: no false alarm.
SameRunPasses ==
    /\ phase = "end" /\ sim1 # "none" /\ Ends(program)
    /\ Sees(sim1) = Sees(sim2) \/ \A k \in 1..Len(program) : program[k].rd \in Xreg
    => mismatch = 0

\* The comparison always comes to a verdict, unless a log had no instruction.
VerdictComes == <>(phase = "end" \/ stage = "fatal")

\* The two loops implement the pairing of AbstractCompare.
Judged1 == Len(changes1) - (IF phase = "seek2" THEN 1 ELSE 0)
Judged2 == Len(changes2) - (IF phase = "seek2" /\ change2 THEN 1 ELSE 0)
Left(trace, judged) ==
    IF stage \in {"log1", "log2", "fatal"} THEN <<>>
    ELSE SubSeq(ChangesOf(trace), judged + 1, Len(ChangesOf(trace)))

Abstract == INSTANCE AbstractCompare WITH
    Change <- Entries,
    left1 <- Left(trace1, Judged1),
    left2 <- Left(trace2, Judged2),
    state <- CASE stage # "compare" -> "waiting"
               [] stage = "compare" /\ phase = "end" -> "over"
               [] OTHER -> "pairing"

\* Every step of the comparison is a step of the abstract pairing or changes
\* nothing it sees: each change of either trace is judged exactly once, in
\* order, against the change of the other trace at the same place.
Pairing == Abstract!Spec
=============================================================================
