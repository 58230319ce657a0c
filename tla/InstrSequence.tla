--------------------------- MODULE InstrSequence ---------------------------
(***************************************************************************)
(* One program (main or sub program) of a generated test, from the random  *)
(* main stream to the list of labelled instructions that is printed:       *)
(*                                                                         *)
(*   riscv_rand_instr_stream.gen_instr         the random main stream      *)
(*   riscv_instr_stream.insert_instr_stream    directed streams mixed in   *)
(*   riscv_instr_sequence.post_process_instr   labels and branch targets   *)
(*                                                                         *)
(* The two loops of post_process_instr take one step per instruction.      *)
(* Positions are 1-based (Python and SystemVerilog count from 0).          *)
(***************************************************************************)
EXTENDS DirectedStreams

CONSTANTS
    InstrCnt,        \* instr_cnt of the sequence
    MaxBranchStep,   \* cfg.max_branch_step
    BranchIdxLen,    \* size of branch_idx, 30 in the code
    DirectedChoices  \* the lists of directed streams a test may ask for

(***************************************************************************)
(* What post_process_instr is handed: every instruction of a directed      *)
(* stream is atomic and carries its name.  A branch in it may have been    *)
(* given its target by the stream itself, as in a loop, or not: one drawn  *)
(* from basic_instr is left to post_process_instr.                         *)
(***************************************************************************)
DirectedStream(s, d) ==
    /\ d \in Seq(Instr)
    /\ Len(d) > 0
    /\ \A k \in 1..Len(d) : /\ d[k].stream = s
                            /\ d[k].pos = k
                            /\ d[k].atomic
                            /\ ~d[k].numeric

ASSUME ConstantAssumption ==
    /\ InstrCnt \in Nat \ {0}
    /\ MaxBranchStep \in Nat \ {0}
    /\ BranchIdxLen \in Nat \ {0}

ASSUME DirectedAssumption ==
    \A ds \in DirectedChoices :
        /\ ds \in Seq(Seq(Instr))
        /\ \A s \in 1..Len(ds) : DirectedStream(s, ds[s])

VARIABLES
    phase,          \* which part of the flow runs next
    directed,       \* directed_instr
    inserted,       \* how many directed streams have been inserted
    instr_list,     \* instr_stream.instr_list
    label_idx,      \* next numeric label
    i,              \* loop variable of the labelling loop
    j,              \* loop variable of the branch loop
    branch_idx,     \* the random branch distances
    branch_cnt,     \* which of them the next branch uses
    branch_target   \* the numeric labels some branch targets

vars == <<phase, directed, inserted, instr_list, label_idx, i, j,
          branch_idx, branch_cnt, branch_target>>

Phases == {"gen", "insert", "number", "pick", "walk", "done", "fatal"}

Init ==
    /\ phase = "gen"
    /\ directed \in DirectedChoices
    /\ inserted = 0
    /\ instr_list = <<>>
    /\ label_idx = 0
    /\ i = 1
    /\ j = 1
    /\ branch_idx = [k \in 0 .. BranchIdxLen - 1 |-> 1]
    /\ branch_cnt = 0
    /\ branch_target = {}

-----------------------------------------------------------------------------
(* gen_instr: InstrCnt random instructions, the branches at the end popped *)

GenMainStream ==
    /\ phase = "gen"
    /\ \E isBranch \in [1..InstrCnt -> BOOLEAN], n \in 0..InstrCnt :
          /\ \A k \in (n + 1)..InstrCnt : isBranch[k]
          /\ n > 0 => ~isBranch[n]
          /\ instr_list' = [k \in 1..n |-> NewInstr(0, k, isBranch[k])]
    /\ phase' = "insert"
    /\ UNCHANGED <<directed, inserted, label_idx, i, j,
                   branch_idx, branch_cnt, branch_target>>

-----------------------------------------------------------------------------
(* insert_instr_stream: every directed stream goes in front of a           *)
(* non-atomic instruction, or becomes the list when the list is empty.     *)

\* "d" in front of position "at" of "list"
InsertBefore(list, at, d) ==
    [k \in 1 .. Len(list) + Len(d) |->
        IF k < at THEN list[k]
        ELSE IF k < at + Len(d) THEN d[k - at + 1]
        ELSE list[k - Len(d)]]

\* Mutant: the retry for a non-atomic position is missing
InsertAnywhere ==
    /\ phase = "insert"
    /\ inserted < Len(directed)
    /\ \E at \in 1 .. Len(instr_list) + 1 :
          instr_list' = InsertBefore(instr_list, at, directed[inserted + 1])
    /\ inserted' = inserted + 1
    /\ UNCHANGED <<phase, directed, label_idx, i, j,
                   branch_idx, branch_cnt, branch_target>>

InsertDirected ==
    /\ phase = "insert"
    /\ inserted < Len(directed)
    /\ \/ /\ instr_list = <<>>
          /\ instr_list' = directed[inserted + 1]
       \/ \E at \in 1..Len(instr_list) :
             /\ ~instr_list[at].atomic
             /\ instr_list' = InsertBefore(instr_list, at, directed[inserted + 1])
    /\ inserted' = inserted + 1
    /\ UNCHANGED <<phase, directed, label_idx, i, j,
                   branch_idx, branch_cnt, branch_target>>

\* Mutant: gives up at the first atomic position
InsertFailsEarly ==
    /\ phase = "insert"
    /\ inserted < Len(directed)
    /\ \E at \in 1..Len(instr_list) : instr_list[at].atomic
    /\ phase' = "fatal"
    /\ UNCHANGED <<directed, inserted, instr_list, label_idx, i, j,
                   branch_idx, branch_cnt, branch_target>>

\* "Cannot inject the instruction": sys.exit(1)
InsertFails ==
    /\ phase = "insert"
    /\ inserted < Len(directed)
    /\ instr_list # <<>>
    /\ \A at \in 1..Len(instr_list) : instr_list[at].atomic
    /\ phase' = "fatal"
    /\ UNCHANGED <<directed, inserted, instr_list, label_idx, i, j,
                   branch_idx, branch_cnt, branch_target>>

InsertDone ==
    /\ phase = "insert"
    /\ inserted = Len(directed)
    /\ phase' = "number"
    /\ UNCHANGED <<directed, inserted, instr_list, label_idx, i, j,
                   branch_idx, branch_cnt, branch_target>>

-----------------------------------------------------------------------------
(* First loop of post_process_instr: an index for every instruction, a     *)
(* numeric label for every non-atomic one.                                 *)

GetsNumber(x) == x.has_label /\ ~x.atomic

Numbered(x, n) == [x EXCEPT !.idx = n, !.label = n, !.numeric = TRUE]

\* Mutant: label_idx is not advanced
NumberSame ==
    /\ phase = "number"
    /\ i <= Len(instr_list)
    /\ instr_list' = [instr_list EXCEPT ![i] =
          IF GetsNumber(@) THEN Numbered(@, label_idx) ELSE [@ EXCEPT !.idx = label_idx]]
    /\ i' = i + 1
    /\ UNCHANGED <<phase, directed, inserted, label_idx, j,
                   branch_idx, branch_cnt, branch_target>>

NumberInstr ==
    /\ phase = "number"
    /\ i <= Len(instr_list)
    /\ IF GetsNumber(instr_list[i])
       THEN /\ instr_list' = [instr_list EXCEPT ![i] = Numbered(@, label_idx)]
            /\ label_idx' = label_idx + 1
       ELSE /\ instr_list' = [instr_list EXCEPT ![i].idx = label_idx]
            /\ UNCHANGED label_idx
    /\ i' = i + 1
    /\ UNCHANGED <<phase, directed, inserted, j,
                   branch_idx, branch_cnt, branch_target>>

NumberDone ==
    /\ phase = "number"
    /\ i > Len(instr_list)
    /\ phase' = "pick"
    /\ UNCHANGED <<directed, inserted, instr_list, label_idx, i, j,
                   branch_idx, branch_cnt, branch_target>>

\* Mutant: a branch distance may be zero
PickFromZero ==
    /\ phase = "pick"
    /\ branch_idx' \in [0 .. BranchIdxLen - 1 -> 0..MaxBranchStep]
    /\ phase' = "walk"
    /\ UNCHANGED <<directed, inserted, instr_list, label_idx, i, j,
                   branch_cnt, branch_target>>

PickBranchIdx ==
    /\ phase = "pick"
    /\ branch_idx' \in [0 .. BranchIdxLen - 1 -> 1..MaxBranchStep]
    /\ phase' = "walk"
    /\ UNCHANGED <<directed, inserted, instr_list, label_idx, i, j,
                   branch_cnt, branch_target>>

-----------------------------------------------------------------------------
(* Second loop: a forward target for every branch without one, that of a   *)
(* directed stream too, and the numeric labels that no branch seen so far  *)
(* targets are dropped.  Without any numeric label the target is -1.       *)

NeedsTarget(x) == x.branch /\ ~x.assigned

\* Mutant: one label too far
TargetOffByOne(x, step) ==
    IF x.idx + step > label_idx THEN label_idx - 1 ELSE x.idx + step

BranchTarget(x, step) ==
    IF x.idx + step >= label_idx THEN label_idx - 1 ELSE x.idx + step

\* Mutant: unused labels are kept
KeepAll(x, targets) == x

KeepIfTarget(x, targets) ==
    IF x.has_label /\ x.numeric /\ x.label \notin targets
    THEN [x EXCEPT !.has_label = FALSE] ELSE x

Shuffled(f) ==
    {[k \in DOMAIN f |-> f[p[k]]] :
        p \in {q \in [DOMAIN f -> DOMAIN f] :
                  \A a, b \in DOMAIN f : q[a] = q[b] => a = b}}

AssignBranch ==
    /\ phase = "walk"
    /\ j <= Len(instr_list)
    /\ NeedsTarget(instr_list[j])
    /\ LET target  == BranchTarget(instr_list[j], branch_idx[branch_cnt])
           targets == branch_target \cup {target}
       IN  /\ branch_target' = targets
           /\ instr_list' = [instr_list EXCEPT ![j] =
                 KeepIfTarget([@ EXCEPT !.imm = target, !.back = FALSE,
                                        !.assigned = TRUE], targets)]
    /\ IF branch_cnt + 1 = BranchIdxLen
       THEN /\ branch_cnt' = 0
            /\ branch_idx' \in Shuffled(branch_idx)
       ELSE /\ branch_cnt' = branch_cnt + 1
            /\ UNCHANGED branch_idx
    /\ j' = j + 1
    /\ UNCHANGED <<phase, directed, inserted, label_idx, i>>

PassInstr ==
    /\ phase = "walk"
    /\ j <= Len(instr_list)
    /\ ~NeedsTarget(instr_list[j])
    /\ instr_list' = [instr_list EXCEPT ![j] = KeepIfTarget(@, branch_target)]
    /\ j' = j + 1
    /\ UNCHANGED <<phase, directed, inserted, label_idx, i,
                   branch_idx, branch_cnt, branch_target>>

\* generate_instr_stream of an empty list: the loop variable it uses behind
\* its loop was never set, the generator dies of an UnboundLocalError.
EmptyProgram ==
    /\ phase = "walk"
    /\ instr_list = <<>>
    /\ phase' = "fatal"
    /\ UNCHANGED <<directed, inserted, instr_list, label_idx, i, j,
                   branch_idx, branch_cnt, branch_target>>

\* The loop is over, and generate_instr_stream labels the first instruction
\* with the program's name instead of its own label.
WalkDone ==
    /\ phase = "walk"
    /\ instr_list # <<>>
    /\ j > Len(instr_list)
    /\ instr_list' = [k \in 1..Len(instr_list) |->
          IF k = 1 THEN [instr_list[k] EXCEPT !.has_label = TRUE, !.label = None]
          ELSE instr_list[k]]
    /\ phase' = "done"
    /\ UNCHANGED <<directed, inserted, label_idx, i, j,
                   branch_idx, branch_cnt, branch_target>>

Next ==
    \/ GenMainStream
    \/ InsertDirected \/ InsertFails \/ InsertDone
    \/ NumberInstr \/ NumberDone \/ PickBranchIdx
    \/ AssignBranch \/ PassInstr \/ EmptyProgram \/ WalkDone

Spec == Init /\ [][Next]_vars /\ WF_vars(Next)

-----------------------------------------------------------------------------
(* Properties *)

TypeOK ==
    /\ phase \in Phases
    /\ directed \in DirectedChoices
    /\ inserted \in 0..Len(directed)
    /\ instr_list \in Seq(Instr)
    /\ label_idx \in Nat
    /\ i \in 1 .. Len(instr_list) + 1
    /\ j \in 1 .. Len(instr_list) + 1
    /\ branch_idx \in [0 .. BranchIdxLen - 1 -> 1..MaxBranchStep]
    /\ branch_cnt \in 0 .. BranchIdxLen - 1
    /\ branch_target \subseteq Nat \cup {NoLabel}

\* Instruction k of directed stream s stands at position p of the list.
Holds(p, s, k) == instr_list[p].stream = s /\ instr_list[p].pos = k

\* Every inserted directed stream is in the list, whole, in order and
\* without an instruction between two of its own: no later insertion and no
\* retry of insert_instr_stream lands inside an atomic stream.
StreamsIntact ==
    \A s \in 1..inserted :
        \E at \in 0..Len(instr_list) :
            /\ at + Len(directed[s]) <= Len(instr_list)
            /\ \A k \in 1..Len(directed[s]) : Holds(at + k, s, k)

\* The numeric label "n" is still printed at position p.
PrintsLabel(p, n) ==
    instr_list[p].has_label /\ instr_list[p].numeric /\ instr_list[p].label = n

Main(p) == ~instr_list[p].atomic

NoMain == \A p \in 1..Len(instr_list) : ~Main(p)

\* the instruction of a directed stream as the stream made it
Original(p) == directed[instr_list[p].stream][instr_list[p].pos]

\* the branches whose targets are the post-process's to choose
Resolves(p) == instr_list[p].branch /\ (Main(p) \/ ~Original(p).assigned)

\* Every branch the post-process resolves, a random one or one of a directed
\* stream, names a label that some later instruction still carries: the target
\* is ahead of the branch ("only forward branch is handled"), it is no longer
\* beyond the last label, and the removal of unused labels, which runs in the
\* same pass as the assignment, has not taken it away.  The exception is a
\* directed stream that became the list because gen_instr had popped every
\* random instruction: its branches get the target -1, a label nobody has.
BranchesResolved ==
    \A b \in 1..Len(instr_list) :
        (b < j /\ Resolves(b)) =>
            /\ instr_list[b].assigned
            /\ IF NoMain THEN instr_list[b].imm = NoLabel
               ELSE \E p \in (b + 1)..Len(instr_list) :
                       PrintsLabel(p, instr_list[b].imm)

\* No numeric label is printed twice by the instructions the post-process
\* labels, so a "<n>f" operand means one of them only.
LabelsUnique ==
    \A p, q \in 1..Len(instr_list) :
        (instr_list[p].numeric /\ instr_list[q].numeric
           /\ instr_list[p].label = instr_list[q].label
           /\ instr_list[p].label # None) => p = q

\* A finished program prints no numeric label but those some branch targets:
\* the single pass is enough, although it decides about a label before it has
\* seen the branches that follow.
OnlyTargetsLabelled ==
    phase = "done" =>
        \A p \in 2..Len(instr_list) :
            (instr_list[p].has_label /\ instr_list[p].numeric) =>
                \E b \in 1 .. p - 1 : /\ Resolves(b)
                                      /\ instr_list[b].imm = instr_list[p].label

\* The generator dies of an insertion or of an empty program only when the
\* popping of trailing branches has left no random instruction at all, however
\* many directed streams it has put in.
FatalOnlyWithoutMain ==
    phase = "fatal" => \A p \in 1..Len(instr_list) : instr_list[p].atomic
                                                  /\ instr_list[p].stream # 0

-----------------------------------------------------------------------------
(* The inductive invariant behind the safety properties above.             *)

\* Main instructions are stream 0, the others belong to a stream that has been
\* inserted.  A main instruction that the branch loop has not reached has its
\* label and no target, another one the target its stream gave it, if any.
Shape ==
    \A p \in 1..Len(instr_list) :
        /\ Main(p) <=> instr_list[p].stream = 0
        /\ instr_list[p].numeric => Main(p) /\ p < i
        /\ Main(p) /\ p >= j =>
              instr_list[p].has_label /\ ~instr_list[p].assigned
        /\ ~Main(p) =>
              /\ instr_list[p].stream \in 1..inserted
              /\ instr_list[p].pos \in 1..Len(directed[instr_list[p].stream])
              /\ p >= j => instr_list[p].assigned = Original(p).assigned

\* A list with main instructions ends in one that is not a branch: insertion
\* is always in front of a main instruction.
EndsInMain ==
    (\E p \in 1..Len(instr_list) : Main(p)) =>
        Main(Len(instr_list)) /\ ~instr_list[Len(instr_list)].branch

\* The labels given so far count the main instructions.
LabelsCount ==
    /\ \A p \in 1 .. i - 1 :
          /\ p <= Len(instr_list)
          /\ instr_list[p].idx <= label_idx
          /\ Main(p) => /\ instr_list[p].idx < label_idx
                        /\ instr_list[p].numeric
                        /\ \/ instr_list[p].label = instr_list[p].idx
                           \/ p = 1 /\ phase = "done" /\ instr_list[p].label = None
    /\ \A p, q \in 1 .. i - 1 :
          p < q => /\ instr_list[p].idx <= instr_list[q].idx
                   /\ Main(p) => instr_list[p].idx < instr_list[q].idx
    /\ \A n \in 0 .. label_idx - 1 :
          \E p \in 1 .. i - 1 : Main(p) /\ instr_list[p].idx = n

\* An atomic branch has the index of the next main instruction, which may be
\* its target; without main instructions the target is the index before 0.
TargetAhead(b) ==
    /\ instr_list[b].assigned
    /\ instr_list[b].imm \in branch_target
    /\ IF NoMain THEN instr_list[b].imm = NoLabel
       ELSE instr_list[b].idx <= instr_list[b].imm
    /\ Main(b) => instr_list[b].idx < instr_list[b].imm

\* Behind the branch loop every branch it resolves has a target ahead, and a
\* main instruction has its label exactly when some branch so far targets it.
TargetsKept ==
    /\ \A b \in 1 .. j - 1 :
          /\ b <= Len(instr_list)
          /\ Resolves(b) => TargetAhead(b)
          /\ Main(b) /\ instr_list[b].idx \in branch_target =>
                instr_list[b].has_label
          /\ Main(b) /\ instr_list[b].has_label =>
                \/ instr_list[b].idx \in branch_target
                \/ b = 1 /\ phase = "done"
    /\ \A t \in branch_target :
          /\ t < label_idx
          /\ \E b \in 1 .. j - 1 : Resolves(b) /\ instr_list[b].imm = t

\* Where the loop variables stand in each phase.
Progress ==
    /\ phase = "gen" => instr_list = <<>> /\ inserted = 0
    /\ phase \in {"gen", "insert", "fatal"} => i = 1
    /\ phase \in {"gen", "insert", "fatal", "number"} => j = 1
    /\ phase = "pick" => j = 1
    /\ phase \in {"pick", "walk", "done"} => i = Len(instr_list) + 1
    /\ phase = "done" => j = Len(instr_list) + 1
    /\ i = 1 => label_idx = 0
    /\ j = 1 => branch_target = {}

IInv == /\ TypeOK /\ Progress /\ Shape /\ EndsInMain /\ StreamsIntact
        /\ LabelsCount /\ TargetsKept /\ FatalOnlyWithoutMain
=============================================================================
