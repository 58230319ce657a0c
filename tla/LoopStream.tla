----------------------------- MODULE LoopStream -----------------------------
(***************************************************************************)
(* The streams made by mixing.  riscv_loop_instr.post_randomize: the key   *)
(* instructions of each loop, the list build_loop_instr_stream makes of    *)
(* them, and its mixing into random instructions.  The same with the push  *)
(* and pop stack streams.  Registers, immediates and opcodes are left out: *)
(* this is about what stands where.                                        *)
(***************************************************************************)
EXTENDS StreamMix

Key(role, l) == [role |-> role, group |-> l, has_label |-> TRUE, atomic |-> FALSE]

\* Mutant: the target behind the update
UpdateOutside(l) ==
    <<Key("init", l), Key("limit", l), Key("update", l), Key("target", l)>>

\* what stands before a loop's inner part
Opening(l) ==
    <<Key("init", l), Key("limit", l), Key("target", l), Key("update", l)>>

\* One turn of build_loop_instr_stream: self.loop_instr[i], the i-th instruction of
\* the list so far, is appended where the inner loop would belong.
Turn(n, inner, l) ==
    LET opened == inner \o Opening(l) IN opened \o <<opened[n], Key("branch", l)>>

\* num_of_nested_loop is 1 or 2
MaxNested == 2

LoopInstr[n \in 0..MaxNested] ==
    IF n = 0 THEN <<>> ELSE Turn(n, LoopInstr[n - 1], n - 1)

\* a stream with branch targets is one of loops
ASSUME LoopAssumption ==
    \A mix \in Mixes :
        (\E k \in DOMAIN mix.new : mix.new[k].role = "target")
            => \E n \in 1..MaxNested : mix.new = LoopInstr[n]

\* The stack pointer is moved before registers are pushed and after they are popped.
Push(saved) ==
    [k \in 1 .. saved + 1 |-> Key(IF k = 1 THEN "addi" ELSE "sw", k)]
Pop(saved) ==
    [k \in 1 .. saved + 1 |-> Key(IF k = saved + 1 THEN "addi" ELSE "lw", k)]

VARIABLE sealed   \* the attributes have been set, the stream is ready

vars == <<mixVars, sealed>>

Init == MixInit /\ sealed = FALSE

Insert == InsertInstr /\ UNCHANGED sealed

\* the loop at the end: atomic, with a label if there is a text for it.  Only
\* branch targets have one.
HasText(instr) == instr.role = "target"

Seal ==
    /\ Mixed /\ ~sealed
    /\ instr_list' = [k \in DOMAIN instr_list |->
                         [instr_list[k] EXCEPT !.atomic = TRUE, !.has_label = HasText(instr_list[k])]]
    /\ sealed' = TRUE
    /\ UNCHANGED <<new_instr, contained, i, at>>

Next == Insert \/ Seal

Spec == Init /\ [][Next]_vars

-----------------------------------------------------------------------------
Loops == {l \in 0 .. MaxNested - 1 : \E k \in DOMAIN new_instr : new_instr[k] = Key("target", l)}

\* where a key instruction of a loop stands; its first place if it has two
Place(role, l) ==
    LET places == {k \in DOMAIN instr_list :
                      instr_list[k].role = role /\ instr_list[k].group = l}
    IN  CHOOSE k \in places : \A m \in places : k <= m

\* Wherever the positions fall, each loop of the finished stream sets its registers
\* before its branch target, updates its counter between target and branch, and
\* branches backward (the comments in riscv_loop_instr.py:150-219).
LoopWhole ==
    sealed =>
        \A l \in Loops :
            /\ Place("init", l) < Place("limit", l)
            /\ Place("limit", l) < Place("target", l)
            /\ Place("target", l) < Place("update", l)
            /\ Place("update", l) < Place("branch", l)

=============================================================================
