---------------------------- MODULE ProgramFlow ----------------------------
(***************************************************************************)
(* The generated program, run: InstrSequence builds the list, then a hart  *)
(* steps through what was printed.  A local label operand is resolved the  *)
(* way the assembler does ("<n>f" is the next "<n>:" after the instruction,*)
(* "<n>b" the last one up to it), so a label printed by a directed stream  *)
(* competes with the ones post_process_instr has numbered.                 *)
(***************************************************************************)
EXTENDS InstrSequence, FiniteSets

VARIABLES
    pc,      \* 0 before the run, then the position of the next instruction
    trail    \* positions run since the stream at pc was entered

flowVars == <<vars, pc, trail>>

End == Len(instr_list) + 1

Carries(p, n) == instr_list[p].has_label /\ instr_list[p].label = n

\* The positions "<n>f" / "<n>b" may mean in the instruction at p.
Ahead(p)  == {q \in (p + 1)..Len(instr_list) : Carries(q, instr_list[p].imm)}
Behind(p) == {q \in 1..p : Carries(q, instr_list[p].imm)}

IsTarget(p, q) ==
    IF instr_list[p].back
    THEN q \in Behind(p) /\ \A r \in Behind(p) : r <= q
    ELSE q \in Ahead(p) /\ \A r \in Ahead(p) : q <= r

HasOperand(p) == instr_list[p].jump \/ instr_list[p].branch

(***************************************************************************)
(* What a directed stream brings along: a jump chain, or instructions that *)
(* do not jump.  A branch that has its target already goes to a label      *)
(* inside its own stream, one without is for the post-process.  The first  *)
(* instruction is no target: it loses its label when the stream begins the *)
(* program.  Labels are numbers: a loop, whose branch goes to a name, is   *)
(* the matter of LoopStream.                                               *)
(***************************************************************************)
JumpChain(s, d) ==
    LET n == Len(d) - 2
    IN  /\ n > 0
        /\ \E order \in [0 .. n - 1 -> 0 .. n - 1], endsInBranch \in BOOLEAN :
              /\ \A a, b \in 0 .. n - 1 : order[a] = order[b] => a = b
              /\ \A k \in 0 .. n - 1 : \E t \in 0 .. n - 1 : order[t] = k
              /\ d = JalStream(s, n, order, endsInBranch)

Contained(d) ==
    \A k \in 1..Len(d) : d[k].jump \/ (d[k].branch /\ d[k].assigned) =>
        \E m \in 2..Len(d) : /\ d[m].has_label /\ d[m].label = d[k].imm
                             /\ d[k].imm # None
                             /\ IF d[k].back THEN m <= k ELSE m > k

ASSUME OperandAssumption ==
    \A ds \in DirectedChoices : \A s \in 1..Len(ds) :
        \/ JumpChain(s, ds[s])
        \/ Contained(ds[s]) /\ \A k \in 1..Len(ds[s]) : ~ds[s][k].jump

\* Every branch and jump operand finds a label in the direction it names.
Assembles ==
    \A p \in 1..Len(instr_list) :
        HasOperand(p) => (IF instr_list[p].back THEN Behind(p) ELSE Ahead(p)) # {}

FlowInit == Init /\ pc = 0 /\ trail = <<>>

Generate == Next /\ UNCHANGED <<pc, trail>>

Start ==
    /\ phase = "done"
    /\ Assembles
    /\ pc = 0
    /\ pc' = 1
    /\ UNCHANGED <<vars, trail>>

\* The trail restarts whenever the flow leaves the stream it is in.  It stops at
\* the length of the list, when it holds a repetition already.
MoveTo(q) ==
    /\ pc' = q
    /\ trail' = IF q < End /\ instr_list[q].stream = instr_list[pc].stream
                THEN IF Len(trail) < End THEN Append(trail, pc) ELSE trail
                ELSE <<>>
    /\ UNCHANGED vars

Running == phase = "done" /\ pc \in 1..Len(instr_list)

\* Any instruction but a jump may continue with the next one.
Continue == Running /\ ~instr_list[pc].jump /\ MoveTo(pc + 1)

Jump ==
    /\ Running
    /\ HasOperand(pc)
    /\ \E q \in 1..Len(instr_list) : IsTarget(pc, q) /\ MoveTo(q)

FlowNext == Generate \/ Start \/ Continue \/ Jump

FlowSpec == FlowInit /\ [][FlowNext]_flowVars /\ WF_flowVars(FlowNext)

-----------------------------------------------------------------------------
(* Properties *)

\* A generated program assembles, except in one case: gen_instr has popped every
\* random instruction, so that a directed stream is the whole program, and the
\* stream has a branch that was left to the post-process.
OperandsDefined ==
    phase = "done" =>
        (Assembles <=> ~(NoMain /\ \E p \in 1..Len(instr_list) : Resolves(p)))

\* "Avoid branching into an atomic instruction stream which breaks its
\* atomicy" (riscv_instr_sequence.py, above post_process_instr): control
\* enters a directed stream at its first instruction only.
EnteredAtHead(p, q) ==
    \/ q = End
    \/ instr_list[q].stream = 0
    \/ instr_list[q].pos = 1
    \/ p > 0 /\ instr_list[q].stream = instr_list[p].stream

AtomicEntry == [][pc' # pc => EnteredAtHead(pc, pc')]_<<pc, trail>>

\* The same for streams without labels of their own, whatever stands around them.
HasLabels(s) == \E k \in DOMAIN directed[s] : directed[s][k].has_label

PlainEntry ==
    [][pc' # pc =>
          \/ EnteredAtHead(pc, pc')
          \/ HasLabels(instr_list[pc'].stream)]_<<pc, trail>>

\* A jump chain that is entered at its head runs every one of its
\* instructions exactly once before control leaves it: the shuffled forward
\* and backward targets form one path.
IsChain(s) == \E k \in 1..Len(directed[s]) : directed[s][k].jump

LeavesChain ==
    /\ pc \in 1..Len(instr_list)
    /\ instr_list[pc].stream > 0
    /\ IsChain(instr_list[pc].stream)
    /\ pc' = End \/ instr_list[pc'].stream # instr_list[pc].stream
    /\ instr_list[Append(trail, pc)[1]].pos = 1

ChainRunsWhole ==
    [][LeavesChain =>
          LET run == Append(trail, pc)
          IN  /\ Len(run) = Len(directed[instr_list[pc].stream])
              /\ \A a, b \in 1..Len(run) : run[a] = run[b] => a = b
      ]_<<pc, trail>>

\* A generated program that assembles has no dead loop: whatever its branches
\* do, and wherever they enter a jump chain, the flow reaches the end.
\* ("Randomly choosing a backward branch target could lead to dead loops".)
ProgramEnds ==
    <>(\/ phase = "fatal"
       \/ phase = "done" /\ pc = 0 /\ ~Assembles
       \/ pc > 0 /\ pc = End)
=============================================================================
