-------------------------- MODULE DirectedStreams --------------------------
(***************************************************************************)
(* Instructions, and the directed streams that a sequence mixes into its   *)
(* random main stream, as riscv_directed_instr_lib.py builds them.         *)
(***************************************************************************)
EXTENDS Integers, Sequences

None == -2   \* no numeric label / no local branch target

NoLabel == -1   \* the target post_process_instr computes in a list without numeric labels

(***************************************************************************)
(* An instruction, with the attributes the post-process reads or writes.   *)
(* <<stream, pos>> names the instruction: stream 0 is the random main      *)
(* stream, stream s > 0 the s-th directed stream.  "imm" is the numeric    *)
(* label of a "<n>f" / "<n>b" operand, "back" tells which of the two.      *)
(* A label that is a name, not a number, is None: nothing here jumps to it.*)
(***************************************************************************)
Instr == [stream : Nat, pos : Nat, atomic : BOOLEAN,
          branch : BOOLEAN, jump : BOOLEAN, assigned : BOOLEAN,
          has_label : BOOLEAN, label : Nat \cup {None}, numeric : BOOLEAN,
          idx : Nat, imm : Nat \cup {NoLabel, None}, back : BOOLEAN]

\* riscv_instr.__init__: not atomic, with a label, branch_assigned = 0
NewInstr(s, k, isBranch) ==
    [stream |-> s, pos |-> k, atomic |-> FALSE, branch |-> isBranch,
     jump |-> FALSE, assigned |-> FALSE, has_label |-> TRUE, label |-> None,
     numeric |-> FALSE, idx |-> 0, imm |-> None, back |-> FALSE]

(***************************************************************************)
(* riscv_directed_instr_stream.post_randomize over "n" instructions.  Those *)
(* at the places "branches" were drawn from riscv_instr.basic_instr after  *)
(* setup_allowed_instr, called for an earlier sequence, had appended the   *)
(* branches to that list itself: nobody has given them a target.           *)
(***************************************************************************)
AtomicStream(s, n, branches) ==
    [k \in 1..n |-> [NewInstr(s, k, k \in branches) EXCEPT !.atomic = TRUE,
                                                          !.has_label = FALSE]]

(***************************************************************************)
(* riscv_jal_instr.post_randomize: "order" is a shuffle of 0..n-1, jump    *)
(* order[t] goes to jump order[t+1], forward or backward as their labels   *)
(* compare, and the last one to the chain's end.  That is an instruction   *)
(* drawn from basic_instr: a branch without a target if "endsInBranch".    *)
(* Here and below, a definition "Mutant: ..." is a variant of the one that *)
(* follows it with a bug in it, for seeing that a property notices.        *)
(***************************************************************************)
At(n, order, k) == CHOOSE t \in 0 .. n - 1 : order[t] = k

\* Mutant: the last jump closes the circle
CircularTarget(n, order, k) ==
    order[IF At(n, order, k) = n - 1 THEN 0 ELSE At(n, order, k) + 1]

\* Mutant: jump to the next instruction of the list, not of the shuffle
ListOrderTarget(n, order, k) == k + 1

JumpTarget(n, order, k) ==
    IF At(n, order, k) = n - 1 THEN n ELSE order[At(n, order, k) + 1]

\* Mutant: forward and backward swapped
SwappedDirection(k, target) == target > k

GoesBack(k, target) == target < k

JalStream(s, n, order, endsInBranch) ==
    LET Target(k) == JumpTarget(n, order, k)
        Atomic(k) == [NewInstr(s, k, FALSE) EXCEPT !.atomic = TRUE]
        Start == [Atomic(1) EXCEPT !.jump = TRUE, !.imm = order[0]]
        Jump(k) == [Atomic(k + 2) EXCEPT !.jump = TRUE, !.label = k,
                                         !.imm = Target(k),
                                         !.back = GoesBack(k, Target(k))]
        End == [Atomic(n + 2) EXCEPT !.label = n, !.branch = endsInBranch]
    IN  [p \in 1 .. n + 2 |->
            IF p = 1 THEN Start ELSE IF p = n + 2 THEN End ELSE Jump(p - 2)]
=============================================================================
