------------------------------ MODULE CovInstr ------------------------------
(***************************************************************************)
(* One instruction of the coverage collector: what riscv_cov_instr and     *)
(* riscv_floating_point_instr make of a row of a trace, and what they      *)
(* compute from it before it is sampled.                                   *)
(*                                                                         *)
(* An operand of a row is a pair <<kind, number>>: "x" an integer          *)
(* register, "f" a floating-point register, "imm" a number in a notation   *)
(* that get_val reads, "csr" the name of a CSR.  Converting an operand of  *)
(* another kind than the code expects raises an exception, and so does a   *)
(* missing operand or a CSR under a name that privileged_reg_t lacks.      *)
(***************************************************************************)
EXTENDS InstrAttributes, CoverGroups, Integers, Sequences

CONSTANTS XLEN,              \* width of an integer register
          privileged_reg_t   \* the CSRs whose names that enumeration has

ASSUME XlenAssumption == XLEN \in Nat \ {0}

SP == 2
MinValue == 2 ^ (XLEN - 1)

(* A floating-point value is its class, plus 6 when its sign bit is set.   *)
FpClass(v) == v % 6
FpSign(v) == v \div 6

POSITIVE == 0
NEGATIVE == 1
DIV_NORMAL == 0
DIV_BY_ZERO == 1
DIV_OVERFLOW == 2
IDENTICAL == 0
SIMILAR == 2

-----------------------------------------------------------------------------
(* assign_attributes: the flags of the operands an instruction has.  They  *)
(* start as those of an R-format integer instruction; set_mode clears      *)
(* flags by format and category, set_fd_mode goes on for F and D.          *)
IsFd(a) == a.group \in {"RV32D", "RV32F"}

FpToIntNames ==
  {"FMV_X_W", "FMV_X_D", "FCVT_W_S", "FCVT_WU_S", "FCVT_L_S", "FCVT_LU_S",
   "FCVT_L_D", "FCVT_LU_D", "FCVT_W_D", "FCVT_WU_D"}
IntToFpNames ==
  {"FMV_W_X", "FMV_D_X", "FCVT_S_W", "FCVT_S_WU", "FCVT_S_L", "FCVT_D_L",
   "FCVT_S_LU", "FCVT_D_W", "FCVT_D_LU", "FCVT_D_WU"}
ClassifyNames == {"FCLASS_S", "FCLASS_D"}

set_mode(a) ==
  [rs1 |-> /\ a.format \notin {"U_FORMAT", "J_FORMAT"}
           /\ a.category = "CSR" => a.format # "I_FORMAT",
   rs2 |-> /\ a.format \notin {"I_FORMAT", "U_FORMAT", "J_FORMAT"}
           /\ a.category # "CSR",
   rd  |-> a.format \notin {"S_FORMAT", "B_FORMAT"},
   fs1 |-> TRUE, fs2 |-> TRUE, fs3 |-> FALSE, fd |-> TRUE]

set_fd_mode(name, a, has) ==
  CASE a.format = "I_FORMAT" ->
         [has EXCEPT !.fs2 = FALSE,
                     !.fd  = name \notin FpToIntNames,
                     !.fs1 = name \notin IntToFpNames]
    [] a.format = "S_FORMAT" -> [has EXCEPT !.rs1 = TRUE, !.fs1 = FALSE]
    [] a.format = "R_FORMAT" ->
         [has EXCEPT !.fd  = ~(a.category = "COMPARE" \/ name \in ClassifyNames),
                     !.fs2 = name \notin ClassifyNames]
    [] a.format = "R4_FORMAT" -> [has EXCEPT !.fs3 = TRUE]
    [] OTHER -> has

HasOperands(name, a) ==
  IF IsFd(a) THEN set_fd_mode(name, a, set_mode(a)) ELSE set_mode(a)

-----------------------------------------------------------------------------
(* update_src_regs: the position of the operand each field is read from.   *)
(* A field that has no position keeps its default, 0.                      *)
IntSources(name, a) ==
  CASE a.format \in {"J_FORMAT", "U_FORMAT"} -> [imm |-> 2]
    [] a.format = "I_FORMAT" /\ a.category = "LOAD" -> [rs1 |-> 3, imm |-> 2]
    [] a.format = "I_FORMAT" /\ a.category = "CSR" -> [imm |-> 3, csr |-> 2]
    [] a.format = "I_FORMAT" /\ a.category \notin {"LOAD", "CSR"} ->
         [rs1 |-> 2, imm |-> 3]
    [] a.format \in {"S_FORMAT", "B_FORMAT"} /\ a.category = "STORE" ->
         [rs2 |-> 1, rs1 |-> 3, imm |-> 2]
    [] a.format \in {"S_FORMAT", "B_FORMAT"} /\ a.category # "STORE" ->
         [rs1 |-> 1, rs2 |-> 2, imm |-> 3]
    [] a.format = "R_FORMAT" /\ a.category = "CSR" -> [csr |-> 2, rs1 |-> 3]
    [] a.format = "R_FORMAT" /\ a.category # "CSR" -> [rs1 |-> 2, rs2 |-> 3]
    [] a.format \in {"CI_FORMAT", "CIW_FORMAT"} ->
         IF name = "C_ADDI4SPN" THEN <<>> ELSE [imm |-> 2]
    [] a.format = "CL_FORMAT" -> [imm |-> 2, rs1 |-> 3]
    [] a.format = "CS_FORMAT" -> [rs2 |-> 1, rs1 |-> 3, imm |-> 2]
    [] a.format = "CA_FORMAT" -> [rs2 |-> 2, rs1 |-> 1]
    [] a.format = "CB_FORMAT" -> [rs1 |-> 1, imm |-> 2]
    [] a.format = "CSS_FORMAT" -> [rs2 |-> 1, imm |-> 2]
    [] a.format = "CR_FORMAT" ->
         IF name \in {"C_JR", "C_JALR"} THEN [rs1 |-> 1] ELSE [rs2 |-> 2]
    [] a.format = "CJ_FORMAT" -> [imm |-> 1]

(* The stack pointer is an operand these forms do not spell out.           *)
ReadsSp(name, a) ==
  \/ a.format = "CSS_FORMAT"
  \/ name \in {"C_ADDI16SP", "C_ADDI4SPN", "C_LDSP", "C_LWSP", "C_LQSP"}

(* riscv_floating_point_instr.update_src_regs.  Its test for loads         *)
(* compares a category with a string and never holds, so a load is read as *)
(* an arithmetic I-format instruction; the sources of an R-format          *)
(* instruction are read only in the two-operand forms of FSGNJ.            *)
SignInjection ==
  {"FSGNJ_S", "FSGNJX_S", "FSGNJN_S", "FSGNJ_D", "FSGNJX_D", "FSGNJN_D"}

FdSources(name, a, n) ==
  LET has == HasOperands(name, a)
  IN  CASE a.format = "I_FORMAT" /\ has.fs1 -> [fs1 |-> 2]
        [] a.format = "I_FORMAT" /\ ~has.fs1 /\ has.rs1 -> [rs1 |-> 2]
        [] a.format = "S_FORMAT" -> [fs2 |-> 1, rs1 |-> 2, imm |-> 3]
        [] a.format = "R_FORMAT" /\ n = 2 /\ name \in SignInjection ->
             [fs1 |-> 2, fs2 |-> 1]
        [] a.format = "R4_FORMAT" -> [fs1 |-> 2, fs2 |-> 3, fs3 |-> 4]
        [] OTHER -> <<>>

(* Mutant: the sources of a register instruction change places. *)
SwappedSources(name, a, n) ==
  IF IsFd(a) THEN FdSources(name, a, n)
  ELSE IF a.format = "R_FORMAT" /\ a.category # "CSR"
       THEN [rs1 |-> 3, rs2 |-> 2] ELSE IntSources(name, a)

Sources(name, a, n) ==
  IF IsFd(a) THEN FdSources(name, a, n) ELSE IntSources(name, a)

(* Mutant: a jump is expected to have three operands. *)
ThreeOperands(a, n) == IF a.format = "J_FORMAT" THEN 3 ELSE n

(* The number of operands the code asserts; any other format is read       *)
(* without an assertion.                                                   *)
OperandCount(a, n) ==
  CASE IsFd(a) /\ a.format = "S_FORMAT" -> 3
    [] a.format = "R4_FORMAT" -> 4
    [] ~IsFd(a) /\ a.format \in {"J_FORMAT", "U_FORMAT"} -> 2
    [] ~IsFd(a)
         /\ a.format \in {"I_FORMAT", "S_FORMAT", "B_FORMAT", "R_FORMAT"} -> 3
    [] OTHER -> n

(* The instructions whose operands are not read, nor their results.        *)
WithoutOperands ==
  {"NOP", "WFI", "FENCE", "FENCE_I", "EBREAK", "C_EBREAK", "SFENCE_VMA",
   "ECALL", "C_NOP", "MRET", "SRET", "URET"}

KindOf(field) ==
  CASE field \in {"rs1", "rs2", "rd"} -> {"x"}
    [] field \in {"fs1", "fs2", "fs3", "fd"} -> {"f"}
    [] field = "imm" -> {"imm"}
    [] field = "csr" -> {"csr", "imm"}

(* A CSR whose name is not in the enumeration is taken for a number.       *)
NameKnown(operand) == operand[1] = "csr" => operand[2] \in privileged_reg_t

(* The conversions of a row's operands succeed, and those of the register  *)
(* its result went to: get_gpr and get_fpr look the name up in their       *)
(* enumeration, get_val is int().                                          *)
SourcesReadable(name, a, operands) ==
  LET s == Sources(name, a, Len(operands))
  IN  /\ Len(operands) = OperandCount(a, Len(operands))
      /\ \A f \in DOMAIN s : /\ s[f] <= Len(operands)
                             /\ operands[s[f]][1] \in KindOf(f)
                             /\ NameKnown(operands[s[f]])

ResultField(name, a) ==
  IF IsFd(a) /\ HasOperands(name, a).fd THEN "fd" ELSE "rd"

Readable(name, a, operands, gpr) ==
  \/ name \in WithoutOperands
  \/ /\ SourcesReadable(name, a, operands)
     /\ \A k \in DOMAIN gpr : gpr[k][1][1] \in KindOf(ResultField(name, a))

-----------------------------------------------------------------------------
(* The instruction object after assign_trace_info_to_instr and the         *)
(* effective address of pre_sample.  "before" and "after" are gpr_state    *)
(* before and after the row's result; every register starts at 0 in it.    *)
Decode(name, a, operands, gpr, before, after) ==
  LET s == IF name \in WithoutOperands THEN <<>> ELSE Sources(name, a, Len(operands))
      Implicit(f) == /\ f = "rs1" /\ f \notin DOMAIN s
                     /\ ~IsFd(a) /\ ReadsSp(name, a)
      Number(f) == CASE f \in DOMAIN s -> operands[s[f]][2]
                     [] Implicit(f) -> SP
                     [] OTHER -> 0
      Value(f) == CASE f \in DOMAIN s -> before[operands[s[f]]]
                    [] Implicit(f) -> before[<<"x", SP>>]
                    [] OTHER -> 0
      Written(f) ==
        name \notin WithoutOperands /\ gpr # <<>> /\ ResultField(name, a) = f
      dest == gpr[Len(gpr)][1]
  IN  [name |-> name, format |-> a.format, category |-> a.category,
       group |-> a.group, has |-> HasOperands(name, a),
       rs1 |-> Number("rs1"), rs2 |-> Number("rs2"),
       fs1 |-> Number("fs1"), fs2 |-> Number("fs2"), fs3 |-> Number("fs3"),
       rs1_value |-> Value("rs1"), rs2_value |-> Value("rs2"),
       fs1_value |-> Value("fs1"), fs2_value |-> Value("fs2"),
       fs3_value |-> Value("fs3"),
       imm |-> Number("imm"), csr |-> Number("csr"),
       rd |-> IF Written("rd") THEN dest[2] ELSE 0,
       rd_value |-> IF Written("rd") THEN after[dest] ELSE 0,
       fd |-> IF Written("fd") THEN dest[2] ELSE 0,
       fd_value |-> IF Written("fd") THEN after[dest] ELSE 0,
       mem_addr |-> IF a.category \in {"LOAD", "STORE"} /\ ~IsFd(a)
                    THEN Value("rs1") + Number("imm") ELSE 0,
       gpr_hazard |-> NO_HAZARD, lsu_hazard |-> NO_HAZARD]

-----------------------------------------------------------------------------
(* The values pre_sample derives.                                          *)
get_operand_sign(v) == IF v >= MinValue THEN NEGATIVE ELSE POSITIVE

get_imm_sign(imm) ==
  IF imm < 0 \/ imm >= MinValue THEN NEGATIVE ELSE POSITIVE

is_unaligned_mem_access(i) ==
  \/ i.name \in {"LWU", "LD", "SD", "C_LD", "C_SD"} /\ i.mem_addr % 8 # 0
  \/ i.name \in {"LW", "SW", "C_LW", "C_SW"} /\ i.mem_addr % 4 # 0
  \/ i.name \in {"LH", "LHU", "SH"} /\ i.mem_addr % 2 # 0

(* The overflow of a division is looked for at divisor 1.                  *)
get_div_result(i) ==
  CASE i.rs2_value = 0 -> DIV_BY_ZERO
    [] i.rs2_value = 1 /\ i.rs1_value = MinValue -> DIV_OVERFLOW
    [] OTHER -> DIV_NORMAL

(* The signed and the unsigned comparison are the same.                    *)
is_branch_hit(i) ==
  CASE i.name = "BEQ" -> i.rs1_value = i.rs2_value
    [] i.name = "C_BEQZ" -> i.rs1_value = 0
    [] i.name = "BNE" -> i.rs1_value # i.rs2_value
    [] i.name = "C_BNEZ" -> i.rs1_value # 0
    [] i.name \in {"BLT", "BLTU"} -> i.rs1_value < i.rs2_value
    [] i.name \in {"BGE", "BGEU"} -> i.rs1_value >= i.rs2_value

(* The number of different bits is the length of a list of one list: it is *)
(* always 1, so two values are identical or similar.                       *)
get_logical_similarity(i) ==
  LET other == IF i.format = "I_FORMAT" THEN i.imm ELSE i.rs2_value
  IN  IF i.rs1_value = other THEN IDENTICAL ELSE SIMILAR

-----------------------------------------------------------------------------
(* check_hazard_condition.  A hazard between two instructions, from the    *)
(* registers each one reads and writes.                                    *)
HazardOf(reads, writes, preReads, preWrites) ==
  IF reads \cap preWrites # {} THEN RAW_HAZARD
  ELSE IF writes \cap preWrites # {} THEN WAW_HAZARD
  ELSE IF writes \cap preReads # {} THEN WAR_HAZARD
  ELSE NO_HAZARD

Having(i, fields) == {i[f] : f \in {g \in fields : i.has[g]}}

IntReads(i) == Having(i, {"rs1", "rs2"})
IntWrites(i) == Having(i, {"rd"})
FpReads(i) == Having(i, {"fs1", "fs2", "fs3"})
FpWrites(i) == Having(i, {"fd"})

(* The second half of the function is meant for F and D but runs for every *)
(* instruction and overwrites the result of the first half: an integer     *)
(* instruction has the flags of floating-point operands set and their      *)
(* numbers 0.                                                              *)
gpr_hazard(i, pre) ==
  CASE pre.has.fd -> HazardOf(FpReads(i), FpWrites(i), FpReads(pre), {pre.fd})
    [] ~pre.has.fd /\ pre.has.rd ->
         HazardOf(IntReads(i), IntWrites(i), IntReads(pre), {pre.rd})
    [] OTHER -> NO_HAZARD

(* Mutant: two loads are taken for a read after a write. *)
LoadAfterLoad(category, preCategory) ==
  CASE category = "LOAD" /\ preCategory \in {"STORE", "LOAD"} -> RAW_HAZARD
    [] category = "STORE" /\ preCategory = "STORE" -> WAW_HAZARD
    [] category = "STORE" /\ preCategory = "LOAD" -> WAR_HAZARD
    [] OTHER -> NO_HAZARD

MemHazard(category, preCategory) ==
  CASE category = "LOAD" /\ preCategory = "STORE" -> RAW_HAZARD
    [] category = "STORE" /\ preCategory = "STORE" -> WAW_HAZARD
    [] category = "STORE" /\ preCategory = "LOAD" -> WAR_HAZARD
    [] OTHER -> NO_HAZARD

lsu_hazard(i, pre) ==
  IF pre.mem_addr = i.mem_addr THEN MemHazard(i.category, pre.category)
  ELSE NO_HAZARD
=============================================================================
