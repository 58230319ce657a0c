------------------------------ MODULE CsrTest ------------------------------
(***************************************************************************)
(* scripts/gen_csr_test.py: a self-checking test of the CSRs described in  *)
(* a YAML file.  Every CSR instruction is executed three times on every    *)
(* CSR, and what it reads is compared with what the generator predicted.   *)
(*                                                                         *)
(* The generator keeps a copy of each CSR (csr_map) that it writes the way *)
(* the description says; the hart under test (external) has the CSRs       *)
(* proper.  A value is the set of its bits that are one.  What is emitted  *)
(* for an instruction runs before the next is emitted: the test only ever  *)
(* branches to its end.                                                    *)
(***************************************************************************)
EXTENDS Integers, Sequences

CONSTANTS
    XLEN,               \* --xlen, a multiple of 8
    Word,               \* the random bits of get_rs1_val, 32 in the code
    ImmLen,             \* the bits of an immediate, 5
    Csrs,               \* the descriptions, [fields, reset] in the file's order
    Legalize(_, _, _),  \* warl_legalize of a field: val_in, val_orig to val_out
    Faulty              \* may the hart get a write wrong, once?

Bits == 0 .. XLEN - 1
Values == SUBSET Bits

\* a field: [msb, lsb, type, legalized]
FieldBits(f) == f.lsb .. f.msb

Fixed(f) == {v \in SUBSET FieldBits(f) : Legalize(f, v, v) = v}

(* The description is one of a CSR: its fields lie apart, and "legal" is   *)
(* what a write makes of a value and a further write leaves alone.         *)
ASSUME CsrAssumption ==
    /\ XLEN \in Nat /\ Word \in Nat /\ ImmLen \in Nat
    /\ Word <= XLEN /\ ImmLen <= XLEN
    /\ Faulty \in BOOLEAN
    /\ Csrs \in Seq([fields : SUBSET [msb : Bits, lsb : Bits, legalized : BOOLEAN,
                                      type : {"WPRI", "WLRL", "WARL", "R"}],
                     reset : Values])
    /\ Len(Csrs) > 0

ASSUME FieldAssumption ==
    \A c \in 1..Len(Csrs) : \A f \in Csrs[c].fields :
        /\ \A g \in Csrs[c].fields : f # g => FieldBits(f) \cap FieldBits(g) = {}
        /\ f.legalized => f.type = "WARL"

ASSUME LegalAssumption ==
    \A c \in 1..Len(Csrs) : \A f \in Csrs[c].fields :
        f.legalized =>
            /\ Csrs[c].reset \cap FieldBits(f) \in Fixed(f)
            /\ \A new, old \in SUBSET FieldBits(f) : Legalize(f, new, old) \in Fixed(f)

-----------------------------------------------------------------------------
(* get_csr_map: a WPRI field is in neither the value nor the masks.        *)

Csr == 1..Len(Csrs)
Described(c) == {f \in Csrs[c].fields : f.type # "WPRI"}
Writable(c) == {f \in Described(c) : f.type # "R"}
ReadMask(c) == UNION {FieldBits(f) : f \in Described(c)}
ResetValue(c) == Csrs[c].reset \cap ReadMask(c)

csr_read(c, val) == val \cap ReadMask(c)

\* SimpleWriteCSRField.write and LegalizeWriteCSRField.write
Stored(f, new, old) ==
    IF f.legalized THEN Legalize(f, new \cap FieldBits(f), old \cap FieldBits(f))
    ELSE new \cap FieldBits(f)

(* Mutant: a legalized field is stored as it was given. *)
WriteUnchecked(c, new, old) ==
    (old \ UNION {FieldBits(f) : f \in Writable(c)})
        \cup UNION {new \cap FieldBits(f) : f \in Writable(c)}

csr_write(c, new, old) ==
    (old \ UNION {FieldBits(f) : f \in Writable(c)})
        \cup UNION {Stored(f, new, old) : f \in Writable(c)}

csr_ops == <<"csrrw", "csrrs", "csrrc", "csrrwi", "csrrsi", "csrrci">>
Immediate(op) == op \in {"csrrwi", "csrrsi", "csrrci"}

\* what an instruction writes, from its operand and the value it reads
Operand(op, val) == IF Immediate(op) THEN val \cap (0 .. ImmLen - 1) ELSE val

Result(op, val, read) ==
    CASE op \in {"csrrw", "csrrwi"} -> val
      [] op \in {"csrrs", "csrrsi"} -> val \cup read
      [] op \in {"csrrc", "csrrci"} -> read \ val

\* predict_csr_val returns what is read and updates csr_val
Predicted(c, val) == csr_read(c, val)
Updated(c, op, val, old) ==
    csr_write(c, Result(op, Operand(op, val), csr_read(c, old)), old)

\* 0xa5a5..., 0x5a5a..., and a number whose first 32 bits are random
get_rs1_val(n) ==
    CASE n = 0 -> {{b \in Bits : b % 8 \in {0, 2, 5, 7}}}
      [] n = 1 -> {{b \in Bits : b % 8 \in {1, 3, 4, 6}}}
      [] n = 2 -> SUBSET (XLEN - Word .. XLEN - 1)

-----------------------------------------------------------------------------
VARIABLES
    csr, op, i,         \* the loops of gen_csr_instr
    csr_map,            \* the values of the generator's CSRs
    step,               \* the next instruction of what has been emitted
    operand,            \* the value that is written to rs1 or the immediate
    prediction,         \* the value of predict_li
    hart_csr,           \* the CSRs of the hart
    source, dest,       \* its registers source_reg and dest_reg
    verdict,            \* where the test has branched to
    fault               \* history: the instruction whose write went wrong

genVars == <<csr, op, i, csr_map, operand, prediction>>
hartVars == <<hart_csr, source, dest, fault>>
vars == <<genVars, hartVars, step, verdict>>

Op == csr_ops[op]
NoFault == <<0, 0, 0>>
AtEnd == csr = Len(Csrs) /\ op = Len(csr_ops) /\ i = 2

\* a hart starts with the values the description gives
Init ==
    /\ csr = 1 /\ op = 1 /\ i = 0
    /\ csr_map = [c \in Csr |-> ResetValue(c)]
    /\ hart_csr = [c \in Csr |-> ResetValue(c)]
    /\ step = "emit"
    /\ operand = {} /\ prediction = {}
    /\ source = {} /\ dest = {}
    /\ verdict = "running" /\ fault = NoFault

(* Mutant: the prediction is what the instruction writes, not what it reads. *)
EmitWritten ==
    /\ step = "emit"
    /\ \E val \in get_rs1_val(i) :
          /\ operand' = val
          /\ csr_map' = [csr_map EXCEPT ![csr] = Updated(csr, Op, val, @)]
    /\ prediction' = Predicted(csr, csr_map'[csr])
    /\ step' = IF Immediate(Op) THEN "csr" ELSE "li"
    /\ UNCHANGED <<csr, op, i, hartVars, verdict>>

Emit ==
    /\ step = "emit"
    /\ \E val \in get_rs1_val(i) :
          /\ operand' = val
          /\ csr_map' = [csr_map EXCEPT ![csr] = Updated(csr, Op, val, @)]
    /\ prediction' = Predicted(csr, csr_map[csr])
    /\ step' = IF Immediate(Op) THEN "csr" ELSE "li"
    /\ UNCHANGED <<csr, op, i, hartVars, verdict>>

\* li source_reg, rs1_val
LoadOperand ==
    /\ step = "li"
    /\ source' = operand
    /\ step' = "csr"
    /\ UNCHANGED <<genVars, hart_csr, dest, verdict, fault>>

\* The instruction on the hart.  One with an immediate of zero sets or
\* clears nothing and does not write at all.
Writes == ~(Op \in {"csrrsi", "csrrci"} /\ Operand(Op, operand) = {})

\* what the description says of each bit of a CSR that is written
WriteAsDescribed(c, new, old) ==
    {b \in Bits : \E f \in Csrs[c].fields :
        /\ b \in FieldBits(f)
        /\ f.type # "WPRI"
        /\ \/ f.type = "R" /\ b \in old
           \/ /\ f.type # "R" /\ f.legalized
              /\ b \in Legalize(f, new \cap FieldBits(f), old \cap FieldBits(f))
           \/ f.type # "R" /\ ~f.legalized /\ b \in new}

HartResult ==
    IF Writes
    THEN WriteAsDescribed(csr, Result(Op, Operand(Op, IF Immediate(Op) THEN operand ELSE source),
                                     hart_csr[csr]), hart_csr[csr])
    ELSE hart_csr[csr]

ExecuteCsr ==
    /\ step = "csr"
    /\ dest' = hart_csr[csr]
    /\ \/ /\ hart_csr' = [hart_csr EXCEPT ![csr] = HartResult]
          /\ UNCHANGED fault
       \/ /\ Faulty /\ fault = NoFault
          /\ \E b \in ReadMask(csr) :
                hart_csr' = [hart_csr EXCEPT ![csr] =
                                (HartResult \ {b}) \cup ({b} \ HartResult)]
          /\ fault' = <<csr, op, i>>
    /\ step' = "predict"
    /\ UNCHANGED <<genVars, source, verdict>>

\* li source_reg, the prediction
LoadPrediction ==
    /\ step \in {"predict", "final_predict"}
    /\ source' = prediction
    /\ step' = IF step = "predict" THEN "branch" ELSE "final_branch"
    /\ UNCHANGED <<genVars, hart_csr, dest, verdict, fault>>

\* bne source_reg, dest_reg, csr_fail
BranchFails ==
    /\ step \in {"branch", "final_branch"}
    /\ source # dest
    /\ verdict' = "fail" /\ step' = "end"
    /\ UNCHANGED <<genVars, hartVars>>

Advance ==
    IF i < 2 THEN i' = i + 1 /\ UNCHANGED <<csr, op>>
    ELSE /\ i' = 0
         /\ IF op < Len(csr_ops) THEN op' = op + 1 /\ UNCHANGED csr
            ELSE op' = 1 /\ csr' = csr + 1

NextInstr ==
    /\ step = "branch" /\ source = dest
    /\ ~AtEnd
    /\ Advance
    /\ step' = "emit"
    /\ UNCHANGED <<csr_map, operand, prediction, hartVars, verdict>>

(* Mutant: the test ends without the final check. *)
NoFinal ==
    /\ step = "branch" /\ source = dest
    /\ AtEnd
    /\ verdict' = "pass" /\ step' = "end"
    /\ UNCHANGED <<genVars, hartVars>>

\* "one final CSR check, as the value that has last been written to the CSR
\* has not been tested": csrr, predicted as a csrrs of zero
EmitFinal ==
    /\ step = "branch" /\ source = dest
    /\ AtEnd
    /\ prediction' = Predicted(csr, csr_map[csr])
    /\ csr_map' = [csr_map EXCEPT ![csr] = Updated(csr, "csrrs", {}, @)]
    /\ step' = "final_read"
    /\ UNCHANGED <<csr, op, i, operand, hartVars, verdict>>

FinalRead ==
    /\ step = "final_read"
    /\ dest' = hart_csr[csr]
    /\ step' = "final_predict"
    /\ UNCHANGED <<genVars, hart_csr, source, verdict, fault>>

\* csr_pass
Pass ==
    /\ step = "final_branch" /\ source = dest
    /\ verdict' = "pass" /\ step' = "end"
    /\ UNCHANGED <<genVars, hartVars>>

Next ==
    \/ Emit \/ LoadOperand \/ ExecuteCsr \/ LoadPrediction \/ BranchFails
    \/ NextInstr \/ EmitFinal \/ FinalRead \/ Pass

Spec == Init /\ [][Next]_vars

-----------------------------------------------------------------------------
(* Properties *)

TypeOK ==
    /\ csr \in Csr /\ op \in 1..Len(csr_ops) /\ i \in 0..2
    /\ csr_map \in [Csr -> Values] /\ hart_csr \in [Csr -> Values]
    /\ step \in {"emit", "li", "csr", "predict", "branch", "final_read",
                 "final_predict", "final_branch", "end"}
    /\ operand \in Values /\ prediction \in Values
    /\ source \in Values /\ dest \in Values
    /\ verdict \in {"running", "pass", "fail"}
    /\ fault \in {NoFault} \cup (Csr \X (1..Len(csr_ops)) \X (0..2))

\* A hart that does what the description says never takes the branch to
\* csr_fail, whatever the random operands are: the prediction follows every
\* write, masked, legalized or refused, and the write that is none.
ConformingPasses == fault = NoFault => verdict # "fail"

\* One wrong bit in one write fails the test, unless it was the last write to
\* a CSR that is not the last one: only that one is read once more.
LastWrite(f) == f[1] < Len(Csrs) /\ f[2] = Len(csr_ops) /\ f[3] = 2

FaultsFound == verdict = "pass" => fault = NoFault \/ LastWrite(fault)

-----------------------------------------------------------------------------
(* The inductive invariant behind ConformingPasses and FaultsFound.        *)

\* a value the CSR can hold: nothing outside its fields, legalized fields legal
Legal(c, val) ==
    /\ val \subseteq ReadMask(c)
    /\ \A f \in Writable(c) : f.legalized => val \cap FieldBits(f) \in Fixed(f)

\* The copy of the generator is ahead of the hart by the instruction that
\* has been emitted and not yet executed.
InStep ==
    fault = NoFault =>
        /\ verdict # "fail"
        /\ \A c \in Csr : Legal(c, hart_csr[c])
        /\ step \notin {"li", "csr"} => csr_map = hart_csr
        /\ step \in {"li", "csr"} =>
              /\ csr_map = [hart_csr EXCEPT ![csr] = Updated(csr, Op, operand, @)]
              /\ prediction = hart_csr[csr]
        /\ step = "csr" /\ ~Immediate(Op) => source = operand
        /\ step = "li" => ~Immediate(Op)
        /\ step \in {"predict", "final_predict"} => prediction = dest
        /\ step = "final_read" => prediction = hart_csr[csr]
        /\ step \in {"branch", "final_branch"} => source = dest

\* Nothing is ever stored outside the fields.
InMask ==
    \A c \in Csr : csr_map[c] \subseteq ReadMask(c) /\ hart_csr[c] \subseteq ReadMask(c)

\* Until it is found, a wrong write has left a difference: first between the
\* two CSRs, then between the prediction and what the hart holds or has read.
WroteNow == fault = <<csr, op, i>> /\ hart_csr[csr] # csr_map[csr]

Found ==
    fault # NoFault /\ ~LastWrite(fault) =>
        /\ verdict # "pass"
        /\ step = "emit" => hart_csr[csr] # csr_map[csr]
        /\ step \in {"li", "csr", "final_read"} => prediction # hart_csr[csr]
        /\ step = "predict" => WroteNow \/ prediction # dest
        /\ step = "branch" => WroteNow \/ source # dest
        /\ step = "final_predict" => prediction # dest
        /\ step = "final_branch" => source # dest

\* The final check comes when nothing else is left.
FinalLast == step \in {"final_read", "final_predict", "final_branch"} => AtEnd

Running == step # "end" => verdict = "running"

TestInv == TypeOK /\ InStep /\ InMask /\ Found /\ FinalLast /\ Running
=============================================================================
