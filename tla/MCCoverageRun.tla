--------------------------- MODULE MCCoverageRun ---------------------------
(* Instances of CoverageRun small enough for TLC. *)
EXTENDS CoverageRun

Instr(name, arg, value) ==
  [name |-> name, arg |-> arg, value |-> value, mark |-> "",
   word |-> [compressed |-> FALSE, binary_6_2 |-> 4, hint |-> 0, reserved |-> 0]]

CInstr(name, arg, value) ==
  [Instr(name, arg, value) EXCEPT !.word.compressed = TRUE, !.word.hint = 1]

Marked(p, mark) == [p EXCEPT !.mark = mark]

NoOperand == [role \in {} |-> 0]

Addi(rd, rs1, imm, value) ==
  Instr("ADDI", [rd |-> rd, rs1 |-> rs1, imm |-> imm], value)
Move == Addi(8, 0, 4, 4)
Update == Addi(8, 8, 8, 12)
Store == CInstr("C_SW", [rs1 |-> 8, rs2 |-> 9, imm |-> 4], 0)
Load == CInstr("C_LW", [rs1 |-> 8, rd |-> 9, imm |-> 4], 5)
JumpLink == Instr("JALR", [rd |-> 8, rs1 |-> 9, imm |-> 0], 4)
Unknown == Instr("UNKNOWN", NoOperand, 0)
ReadCsr == Instr("CSRRS", [rd |-> 9, csr |-> 833, rs1 |-> 0], 2)
(* CSRs of a core's own, in a row and with an immediate: unknown names. *)
ReadOwnCsr == Instr("CSRRS", [rd |-> 9, csr |-> 1984, rs1 |-> 0], 2)
WriteOwnCsr == Instr("CSRRWI", [rd |-> 0, csr |-> 1984, imm |-> 3], 0)
Negate == Instr("SUB", [rd |-> 10, rs1 |-> 0, rs2 |-> 8], 4)
Branch == Instr("BEQ", [rs1 |-> 8, rs2 |-> 0, imm |-> 8], 0)
FpAdd == Instr("FADD_S", [fd |-> 10, fs1 |-> 8, fs2 |-> 9], 9)

(* Every name once, with the operands of its form. *)
ArgOf(name) ==
  [r \in Roles(name) |->
     CASE r = "rs1" -> IF ReadsSp(name, get_attr_list[name]) THEN SP ELSE 8
       [] r \in {"rs2", "fs2"} -> 9
       [] r = "imm" -> 4
       [] r = "csr" -> 833
       [] r = "rd" -> CASE name = "C_JAL" -> 1
                         [] name \in {"C_SUB", "C_XOR", "C_OR", "C_AND", "C_SUBW",
                                     "C_ADDW", "C_ANDI", "C_SRLI", "C_SRAI"} -> 8
                         [] OTHER -> 10
       [] r = "fd" -> 10
       [] r = "fs1" -> 8
       [] r = "fs3" -> 11]

EveryName ==
  {Instr(n, ArgOf(n), 9) : n \in Listed}
    \cup {Instr(n, NoOperand, 0) : n \in Unlisted}
    \cup {Instr(n, [fd |-> 10, fs1 |-> 8], 7) :
            n \in DOMAIN update_instr_name \ {"FMV_S_X", "FMV_X_S"}}
    \cup {Instr("FMV_S_X", [fd |-> 10, rs1 |-> 8], 7),
          Instr("FMV_X_S", [rd |-> 10, fs1 |-> 8], 7)}

Few == {Move, Update, Load, Store, JumpLink, Marked(Unknown, "illegal")}
More == Few \cup {Negate, Branch, ReadCsr, ReadOwnCsr, WriteOwnCsr, FpAdd,
                  Unknown, Marked(Move, "short"), Addi(0, 0, 0, 0), Addi(9, 8, 0, 4)}

Rows == <<Few, EveryName \cup More, Few, {Move, Load, Store}>>
(* Rows of instructions that get_attr_list has, for one CSV after another. *)
ListedRows == <<{Move, Load, Store, Negate}, {Move, Load, Store, Branch},
                {Move, Load, Store, ReadCsr}>>
=============================================================================
