----------------------------- MODULE CoverPoints ----------------------------
(***************************************************************************)
(* The coverpoints of the functional coverage model                        *)
(* (riscv_instr_cover_group.py) and the sets of them that several cover    *)
(* groups share.                                                           *)
(*                                                                         *)
(* A cover group is a set of coverpoints and a set of crosses.  A          *)
(* coverpoint reads one field of the sampled instruction and counts the    *)
(* values that are in its bins; a cross counts combinations.  All fields   *)
(* and bins are numbers: an enumeration is its set of values, and a value  *)
(* is compared with a bin as a number, as the source's IntEnum values are. *)
(* A slice of a field is a field of its own (rd_value[1] is rd_value_1).   *)
(* The wildcard patterns on the low half word are numbered: field "hint"   *)
(* is the number of the hint pattern the word matches, "reserved" that of  *)
(* the reserved pattern, 0 for none.  A floating-point value is a class    *)
(* (below), so a point on special values is a point on classes.            *)
(***************************************************************************)
EXTENDS Naturals

riscv_reg_t == 0 .. 31
riscv_reg_ex_zero_t == 1 .. 31
riscv_reg_ex_zero_sp_t == riscv_reg_t \ {0, 2}
compressed_gpr == 8 .. 15
riscv_fpr_t == 0 .. 31
(* RA and T1 are numbered from 0 here, x1 and x6 in riscv_reg_t. *)
jalr_riscv_reg_t == 0 .. 1
operand_sign_e == 0 .. 1
logical_similarity_e == 0 .. 3
div_result_e == 0 .. 2
div_result_ex_overflow_e == 0 .. 1
rv32i_misc_instrs == 0 .. 4

NO_HAZARD == 0
RAW_HAZARD == 1
WAR_HAZARD == 2
WAW_HAZARD == 3
hazard_e == {NO_HAZARD, RAW_HAZARD, WAR_HAZARD, WAW_HAZARD}
branch_hazard_e == {NO_HAZARD, RAW_HAZARD}
(* The enumeration leaves RAW_HAZARD out by numbering on: its WAR_HAZARD   *)
(* has the number of hazard_e's RAW_HAZARD, its WAW_HAZARD of WAR_HAZARD.  *)
store_lsu_hazard_e == 0 .. 2

(* Classes of floating-point values: the bins of the special-value points, *)
(* and the two kinds of values outside them.                               *)
FpInfinity == 1
FpLargest == 2
FpZero == 0
FpNaN == 3
FpSubnormal == 4
FpNormal == 5

-----------------------------------------------------------------------------
Group(points, crosses) == [points |-> points, crosses |-> crosses]

Point(field, bins) ==
  [name |-> field, field |-> field, bins |-> bins, weight |-> 1]

Points(fields, bins) == {Point(f, bins) : f \in fields}

Regs(fields) == Points(fields, riscv_reg_t)
NonzeroRegs(fields) == Points(fields, riscv_reg_ex_zero_t)
CompressedGprs(fields) == Points(fields, compressed_gpr)
Fprs(fields) == Points(fields, riscv_fpr_t)
Signs(fields) == Points(fields, operand_sign_e)
Flag(field) == {Point(field, 0 .. 1)}
GprHazard == {Point("gpr_hazard", hazard_e)}

(* The loads outside the compressed and floating-point sets: the point     *)
(* named for the memory hazard reads the register hazard.                  *)
LsuHazardOfGpr ==
  {[name |-> "lsu_hazard", field |-> "gpr_hazard",
    bins |-> branch_hazard_e, weight |-> 1]}

(* The four points on a floating-point value: special values and           *)
(* subnormals, in single and in double precision.  The weight of a point   *)
(* is 0 when the group's instruction has the other precision.  A subnormal *)
(* point counts whether the exponent is 0.                                 *)
SubnormalOf ==
  [fs1_value |-> "fs1_exponent_0", fs2_value |-> "fs2_exponent_0",
   fs3_value |-> "fs3_exponent_0", fd_value |-> "fd_exponent_0"]

FpValuePoints(value, single, double) ==
  LET Special(name, weight) ==
        [name |-> name, field |-> value,
         bins |-> {FpInfinity, FpLargest, FpZero, FpNaN}, weight |-> weight]
      Subnormal(name, weight) ==
        [name |-> name, field |-> SubnormalOf[value], bins |-> 0 .. 1,
         weight |-> weight]
  IN  {Special("sfp_special_values", single), Subnormal("sfp_subnormal", single),
       Special("dfp_special_values", double), Subnormal("dfp_subnormal", double)}

FpValues(fields, precision) ==
  UNION {FpValuePoints(f, precision, 1 - precision) : f \in fields}

(* The conversions that give their points no weight option. *)
FpAnyValues(fields) == UNION {FpValuePoints(f, 1, 1) : f \in fields}

-----------------------------------------------------------------------------
(* Operand sets that several groups share. *)
SourceSigns == {<<"rs1_sign", "rs2_sign">>}
OperandSigns == {<<"rs1_sign", "rs2_sign", "rd_sign">>}
ImmSigns == {<<"rs1_sign", "imm_sign">>}
FpSourceSigns == {<<"fs1_sign", "fs2_sign">>}
FpOperandSigns == {<<"fs1_sign", "fs2_sign", "fd_sign">>}
FpR4Signs == {<<"fs1_sign", "fs2_sign", "fs3_sign", "fd_sign">>}

ROperands ==
  Regs({"rs1", "rs2", "rd"})
    \cup Signs({"rs1_sign", "rs2_sign", "rd_sign"}) \cup GprHazard
ShiftImmOperands ==
  Regs({"rs1", "rd"}) \cup Signs({"rs1_sign", "rd_sign"}) \cup GprHazard
UOperands == Regs({"rd"}) \cup Signs({"rd_sign"}) \cup GprHazard
DivOperands == ROperands \cup {Point("div_result", div_result_e)}
UnsignedDivOperands ==
  ROperands \cup {Point("div_result", div_result_ex_overflow_e)}
LogicalOperands ==
  ROperands \cup {Point("logical_similarity", logical_similarity_e)}
LogicalImmOperands ==
  ShiftImmOperands \cup Signs({"imm_sign"})
    \cup {Point("logical_similarity", logical_similarity_e)}
CompareOperands ==
  Regs({"rs1", "rs2", "rd"}) \cup Signs({"rs1_sign", "rs2_sign"})
    \cup Flag("rd_value_0") \cup GprHazard
CompareImmOperands ==
  Regs({"rs1", "rd"}) \cup Signs({"rs1_sign", "imm_sign"})
    \cup Flag("rd_value_0") \cup GprHazard
BranchOperands ==
  Regs({"rs1", "rs2"}) \cup Signs({"rs1_sign", "rs2_sign", "imm_sign"})
    \cup Flag("branch_hit") \cup {Point("gpr_hazard", branch_hazard_e)}
LoadOperands ==
  Regs({"rd"}) \cup NonzeroRegs({"rs1"}) \cup Signs({"imm_sign"})
    \cup GprHazard \cup LsuHazardOfGpr
AlignedLoadOperands == LoadOperands \cup Flag("unaligned_mem_access")
StoreOperands ==
  Regs({"rs2"}) \cup NonzeroRegs({"rs1"}) \cup Signs({"imm_sign"})
    \cup {Point("gpr_hazard", branch_hazard_e),
          Point("lsu_hazard", store_lsu_hazard_e)}
ImmOperands ==
  Signs({"imm_sign"}) \cup {Point("gpr_hazard", store_lsu_hazard_e)}
CIOperands == NonzeroRegs({"rd"}) \cup ImmOperands
CAOperands == CompressedGprs({"rs2", "rd"}) \cup GprHazard
CROperands == NonzeroRegs({"rs2", "rd"}) \cup Signs({"rs2_sign"}) \cup GprHazard
CShiftOperands ==
  CompressedGprs({"rs1"}) \cup {Point("gpr_hazard", branch_hazard_e)}
CBOperands == CShiftOperands \cup Signs({"imm_sign"})
CLOperands ==
  CompressedGprs({"rs1", "rd"}) \cup GprHazard
    \cup {Point("lsu_hazard", branch_hazard_e)}
CSOperands ==
  CompressedGprs({"rs1", "rs2"})
    \cup {Point("gpr_hazard", branch_hazard_e),
          Point("lsu_hazard", store_lsu_hazard_e)}

FpLoad(precision) ==
  Fprs({"fd"}) \cup NonzeroRegs({"rs1"}) \cup Signs({"imm_sign"})
    \cup GprHazard \cup {Point("lsu_hazard", branch_hazard_e)}
    \cup FpValues({"fd_value"}, precision)
FpStore(precision) ==
  Regs({"fs2"}) \cup NonzeroRegs({"rs1"}) \cup Signs({"imm_sign"})
    \cup GprHazard \cup {Point("lsu_hazard", store_lsu_hazard_e)}
    \cup FpValues({"fs2_value"}, precision)
FpR(precision) ==
  Fprs({"fs1", "fs2", "fd"}) \cup Signs({"fs1_sign", "fs2_sign", "fd_sign"})
    \cup GprHazard
    \cup FpValues({"fs1_value", "fs2_value", "fd_value"}, precision)
FpUnaryOperands ==
  Fprs({"fs1", "fd"}) \cup Signs({"fs1_sign", "fd_sign"}) \cup GprHazard
FpUnary(precision) ==
  FpUnaryOperands \cup FpValues({"fs1_value", "fd_value"}, precision)
FpR4(precision) ==
  Fprs({"fs1", "fs2", "fs3", "fd"})
    \cup Signs({"fs1_sign", "fs2_sign", "fs3_sign", "fd_sign"})
    \cup GprHazard
    \cup FpValues({"fs1_value", "fs2_value", "fs3_value", "fd_value"}, precision)
FpToIntOperands ==
  Regs({"fs1", "rd"}) \cup Signs({"fs1_sign", "rd_sign"}) \cup GprHazard
FpToInt(precision) == FpToIntOperands \cup FpValues({"fs1_value"}, precision)
IntToFpOperands ==
  Regs({"rs1"}) \cup Fprs({"fd"}) \cup Signs({"rs1_sign", "fd_sign"})
    \cup GprHazard
FpCompare(precision) ==
  Regs({"fs1", "fs2", "rd"}) \cup Signs({"fs1_sign", "fs2_sign"})
    \cup GprHazard \cup FpValues({"fs1_value", "fs2_value"}, precision)
(* The result of a classification is a mask, which its point reads as a    *)
(* sign.                                                                   *)
FpClassify(precision) ==
  Regs({"fs1", "rd"}) \cup Signs({"fs1_sign", "rd_value"})
    \cup GprHazard \cup FpValues({"fs1_value"}, precision)
=============================================================================
