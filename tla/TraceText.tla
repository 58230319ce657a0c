------------------------------ MODULE TraceText ------------------------------
(***************************************************************************)
(* From an executed instruction to the row of a trace CSV: the text a      *)
(* simulator prints (external), and what the log converters make of it.    *)
(*                                                                         *)
(* An executed instruction is [name, arg, value, word, mark]: "arg" gives  *)
(* each operand it has, a number, and "value" is what it writes to its     *)
(* destination.  A row is [instr, operand, gpr]: the operands in the order *)
(* of the CSV's column, and the register changes, <<register, value>>.     *)
(* Names are written as the collector compares them, in capitals and with  *)
(* an underscore for a dot.                                                *)
(***************************************************************************)
EXTENDS CovInstr, SequencesExt

Kind(role) ==
  CASE role \in {"rd", "rs1", "rs2"} -> "x"
    [] role \in {"fd", "fs1", "fs2", "fs3"} -> "f"
    [] OTHER -> role

(* The operands an executed instruction has: those of its format, and the  *)
(* registers that the text of a compressed instruction leaves out.  The    *)
(* instructions that are counted without their operands have none here.    *)
FormatRoles ==
  [R_FORMAT |-> {"rd", "rs1", "rs2"}, I_FORMAT |-> {"rd", "rs1", "imm"},
   S_FORMAT |-> {"rs1", "rs2", "imm"}, B_FORMAT |-> {"rs1", "rs2", "imm"},
   U_FORMAT |-> {"rd", "imm"}, J_FORMAT |-> {"rd", "imm"},
   CI_FORMAT |-> {"rd", "imm"}, CIW_FORMAT |-> {"rd", "imm"},
   CL_FORMAT |-> {"rd", "rs1", "imm"}, CS_FORMAT |-> {"rs1", "rs2", "imm"},
   CSS_FORMAT |-> {"rs2", "imm"}, CA_FORMAT |-> {"rd", "rs1", "rs2"},
   CB_FORMAT |-> {"rs1", "imm"}, CR_FORMAT |-> {"rd", "rs2"},
   CJ_FORMAT |-> {"imm"}]

IntRoles(name, a) ==
  CASE a.category = "CSR" ->
         {"rd", "csr", IF a.format = "I_FORMAT" THEN "imm" ELSE "rs1"}
    [] name = "C_JR" -> {"rs1"}
    [] name = "C_JALR" -> {"rd", "rs1"}
    [] OTHER -> FormatRoles[a.format]
                  \cup {r \in {"rs1"} : ReadsSp(name, a)}
                  \cup {r \in {"rd"} :
                          name \in {"C_JAL", "C_ANDI", "C_SRLI", "C_SRAI"}}

FdRoles(name, a) ==
  LET has == HasOperands(name, a)
  IN  CASE name \in {"FLW", "FLD"} -> {"fd", "rs1", "imm"}
        [] name \in {"FSW", "FSD"} -> {"fs2", "rs1", "imm"}
        [] OTHER -> {r \in {"rd", "fd", "rs1", "fs1", "fs2", "fs3"} :
                       has[r] /\ (r = "rd" => ~has.fd) /\ (r = "rs1" => ~has.fs1)}

Roles(name) ==
  LET a == get_attr_list[name]
  IN  IF name \in WithoutOperands \cup {"DRET"} THEN {}
      ELSE IF IsFd(a) THEN FdRoles(name, a) ELSE IntRoles(name, a)

Operand(p, role) == <<Kind(role), p.arg[role]>>
Zero == <<"x", 0>>
Ra == <<"x", 1>>
Imm(n) == <<"imm", n>>

(* A form with a base register.  The converters of Spike and of OVPsim     *)
(* write base and offset in this order, a core's own log ("core") has the  *)
(* order of the assembly text.                                             *)
BaseForm(reg, layout) ==
  IF layout = "iss" THEN <<reg, "rs1", "imm">> ELSE <<reg, "imm", "rs1">>

(* An offset from the stack pointer is such a form for the simulators.     *)
StackForm(reg, layout) ==
  IF layout = "iss" THEN <<reg, "rs1", "imm">> ELSE <<reg, "imm">>

(* The order of the operands in assembly text.                             *)
Assembly(name, a, has, layout) ==
  LET Is(format) == a.format = format
      Shown(r) == IF r \in has THEN <<r>> ELSE <<>>
      InOrder == Shown("rd") \o Shown("fd") \o Shown("rs1") \o Shown("fs1")
                   \o Shown("fs2") \o Shown("fs3")
  IN  IF name \notin Listed THEN InOrder ELSE
      CASE name \in {"FLW", "FLD"} -> BaseForm("fd", layout)
        [] name \in {"FSW", "FSD"} -> BaseForm("fs2", layout)
        [] name \in {"C_LWSP", "C_LDSP"} -> StackForm("rd", layout)
        [] name = "C_ADDI4SPN" -> <<"rd", "rs1", "imm">>
        [] name \in {"C_JR", "C_JALR"} -> <<"rs1">>
        [] IsFd(a) /\ name \notin {"FLW", "FLD", "FSW", "FSD"} ->
             InOrder
        [] Is("I_FORMAT") /\ a.category = "LOAD" /\ ~IsFd(a) ->
             BaseForm("rd", layout)
        [] Is("S_FORMAT") /\ ~IsFd(a) -> BaseForm("rs2", layout)
        [] a.category = "CSR" ->
             <<"rd", "csr", IF Is("I_FORMAT") THEN "imm" ELSE "rs1">>
        [] Is("I_FORMAT") /\ a.category \notin {"LOAD", "CSR"} /\ ~IsFd(a)
             /\ has # {} -> <<"rd", "rs1", "imm">>
        [] Is("R_FORMAT") /\ a.category # "CSR" /\ ~IsFd(a) /\ has # {} ->
             <<"rd", "rs1", "rs2">>
        [] Is("B_FORMAT") -> <<"rs1", "rs2", "imm">>
        [] Is("U_FORMAT") \/ Is("J_FORMAT") -> <<"rd", "imm">>
        [] Is("CI_FORMAT") /\ name \notin {"C_LWSP", "C_LDSP"} /\ has # {} ->
             <<"rd", "imm">>
        [] Is("CL_FORMAT") -> BaseForm("rd", layout)
        [] Is("CS_FORMAT") -> BaseForm("rs2", layout)
        [] Is("CSS_FORMAT") -> StackForm("rs2", layout)
        [] Is("CA_FORMAT") -> <<"rs1", "rs2">>
        [] Is("CB_FORMAT") -> <<"rs1", "imm">>
        [] Is("CR_FORMAT") /\ name \notin {"C_JR", "C_JALR"} -> <<"rd", "rs2">>
        [] Is("CJ_FORMAT") -> <<"imm">>
        [] OTHER -> <<>>

Plain(p, layout) ==
  LET roles == Assembly(p.name, get_attr_list[p.name], DOMAIN p.arg, layout)
  IN  [k \in DOMAIN roles |-> Operand(p, roles[k])]

-----------------------------------------------------------------------------
(* A pseudo instruction stands for a base instruction with one operand     *)
(* fixed: <<pseudo, base, position of that operand, operand>>.  Those that *)
(* convert_pseudo_instr turns back (it makes a CSRRW, which writes, of the *)
(* read of a CSR):                                                         *)
ConvertedForms ==
  {<<"MV", "ADDI", 3, Imm(0)>>, <<"SEXT_W", "ADDIW", 3, Imm(0)>>,
   <<"SEQZ", "SLTIU", 3, Imm(1)>>, <<"NOT", "XORI", 3, Imm(-1)>>,
   <<"NEG", "SUB", 2, Zero>>, <<"NEGW", "SUBW", 2, Zero>>,
   <<"SNEZ", "SLTU", 2, Zero>>, <<"SLTZ", "SLT", 3, Zero>>,
   <<"SGTZ", "SLT", 2, Zero>>, <<"BEQZ", "BEQ", 2, Zero>>,
   <<"BNEZ", "BNE", 2, Zero>>, <<"BGEZ", "BGE", 2, Zero>>,
   <<"BLTZ", "BLT", 2, Zero>>, <<"BLEZ", "BGE", 1, Zero>>,
   <<"BGTZ", "BLT", 1, Zero>>, <<"J", "JAL", 1, Zero>>,
   <<"JAL", "JAL", 1, Ra>>, <<"CSRR", "CSRRW", 3, Zero>>,
   <<"CSRW", "CSRRW", 1, Zero>>, <<"CSRS", "CSRRS", 1, Zero>>,
   <<"CSRC", "CSRRC", 1, Zero>>, <<"CSRWI", "CSRRWI", 1, Zero>>,
   <<"CSRSI", "CSRRSI", 1, Zero>>, <<"CSRCI", "CSRRCI", 1, Zero>>}

(* The forms a simulator prints for a base instruction. *)
PrintedForms ==
  (ConvertedForms \ {<<"CSRR", "CSRRW", 3, Zero>>})
    \cup {<<"CSRR", "CSRRS", 3, Zero>>}

Disassemble(name, o) ==
  LET forms == {f \in PrintedForms :
                  f[2] = name /\ f[3] <= Len(o) /\ o[f[3]] = f[4]}
      f == CHOOSE g \in forms : TRUE
  IN  CASE name = "ADDI" /\ o = <<Zero, Zero, Imm(0)>> -> <<"NOP", <<>>>>
        [] forms = {} -> <<name, o>>
        [] OTHER -> <<f[1], RemoveAt(o, f[3])>>

convert_pseudo_instr(name, o) ==
  LET forms == {f \in ConvertedForms : f[1] = name}
      f == CHOOSE g \in forms : TRUE
  IN  CASE name = "NOP" -> <<"ADDI", <<Zero, Zero, Imm(0)>>>>
        [] name # "NOP" /\ (forms = {} \/ (name = "JAL" /\ Len(o) = 2)) -> <<name, o>>
        [] OTHER -> <<f[2], InsertAt(o, f[3], f[4])>>

-----------------------------------------------------------------------------
(* The register an instruction writes; x0 is never reported.               *)
Dest(p) == {<<Kind(r), p.arg[r]>> : r \in DOMAIN p.arg \cap {"rd", "fd"}} \ {Zero}

Converted(name, o, layout) ==
  IF layout = "iss" /\ name \in Listed
  THEN LET d == Disassemble(name, o) IN convert_pseudo_instr(d[1], d[2])
  ELSE <<name, o>>

Text(p, layout) ==
  LET text == Converted(p.name, Plain(p, layout), layout)
  IN  [instr |-> text[1], operand |-> text[2],
       gpr |-> IF Dest(p) = {} THEN <<>>
               ELSE <<<<CHOOSE r \in Dest(p) : TRUE, p.value>>>>]
=============================================================================
