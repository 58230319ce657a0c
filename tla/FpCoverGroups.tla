---------------------------- MODULE FpCoverGroups ---------------------------
(***************************************************************************)
(* The cover groups of the floating-point instructions.  "precision" is    *)
(* the constructor's argument: 1 for single, 0 for double.                 *)
(***************************************************************************)
EXTENDS CoverPoints

flw_cg(precision) == Group(FpLoad(precision), {})
fld_cg(precision) == Group(FpLoad(precision), {})
fsw_cg(precision) == Group(FpStore(precision), {})
fsd_cg(precision) == Group(FpStore(precision), {})
fadd_s_cg(precision) == Group(FpR(precision), {})
fadd_d_cg(precision) == Group(FpR(precision), FpOperandSigns)
fsub_s_cg(precision) == Group(FpR(precision), FpOperandSigns)
fsub_d_cg(precision) == Group(FpR(precision), FpOperandSigns)
fmul_s_cg(precision) == Group(FpR(precision), FpSourceSigns)
fmul_d_cg(precision) == Group(FpR(precision), FpSourceSigns)
fdiv_s_cg(precision) == Group(FpR(precision), FpSourceSigns)
fdiv_d_cg(precision) == Group(FpR(precision), FpSourceSigns)
fsqrt_s_cg(precision) == Group(FpUnary(precision), {})
fsqrt_d_cg(precision) == Group(FpUnary(precision), {})
fmin_s_cg(precision) == Group(FpR(precision), FpSourceSigns)
fmin_d_cg(precision) == Group(FpR(precision), FpSourceSigns)
fmax_s_cg(precision) == Group(FpR(precision), FpSourceSigns)
fmax_d_cg(precision) == Group(FpR(precision), FpSourceSigns)
fmadd_s_cg(precision) == Group(FpR4(precision), FpR4Signs)
fmadd_d_cg(precision) == Group(FpR4(precision), FpR4Signs)
fnmadd_s_cg(precision) == Group(FpR4(precision), FpR4Signs)
fnmadd_d_cg(precision) ==
  Group((FpR4(precision) \ Fprs({"fd"})) \cup Regs({"fd"}), {})
fmsub_s_cg(precision) == Group(FpR4(precision), FpR4Signs)
fmsub_d_cg(precision) == Group(FpR4(precision), FpR4Signs)
fnmsub_s_cg(precision) == Group(FpR4(precision), FpR4Signs)
fnmsub_d_cg(precision) == Group(FpR4(precision), FpR4Signs)
fcvt_s_d_cg == Group(FpUnaryOperands \cup FpAnyValues({"fd_value"}), {})
fcvt_d_s_cg == Group(FpUnaryOperands \cup FpAnyValues({"fd_value"}), {})
fcvt_w_s_cg(precision) == Group(FpToInt(precision), {})
fcvt_wu_s_cg(precision) == Group(FpToInt(precision), {})
fcvt_l_s_cg(precision) ==
  Group(FpToIntOperands \cup FpAnyValues({"fs1_value"}), {})
fcvt_lu_s_cg(precision) ==
  Group(FpToIntOperands \cup FpAnyValues({"fs1_value"}), {})
fcvt_l_d_cg(precision) ==
  Group(FpToIntOperands \cup FpAnyValues({"fd_value"}), {})
fcvt_lu_d_cg(precision) ==
  Group(FpToIntOperands \cup FpAnyValues({"fd_value"}), {})
fcvt_w_d_cg(precision) == Group(FpToInt(precision), {})
fcvt_wu_d_cg(precision) == Group(FpToInt(precision), {})
fcvt_s_w_cg(precision) == Group(IntToFpOperands, {})
fcvt_s_wu_cg(precision) == Group(IntToFpOperands, {})
fcvt_s_l_cg(precision) == Group(IntToFpOperands, {})
fcvt_d_l_cg(precision) ==
  Group(IntToFpOperands \cup FpAnyValues({"fd_value"}), {})
fcvt_s_lu_cg(precision) == Group(IntToFpOperands, {})
fcvt_d_w_cg(precision) == Group(IntToFpOperands, {})
fcvt_d_lu_cg(precision) ==
  Group(Regs({"rs1", "fd"}) \cup Signs({"rs1_sign", "fd_sign"}) \cup
        GprHazard \cup FpAnyValues({"fd_value"}), {})
fcvt_d_wu_cg(precision) == Group(IntToFpOperands, {})
fsgnj_s_cg(precision) == Group(FpR(precision), FpOperandSigns)
fsgnj_d_cg(precision) == Group(FpR(precision), FpOperandSigns)
fsgnjn_s_cg(precision) == Group(FpR(precision), FpOperandSigns)
fsgnjn_d_cg(precision) == Group(FpR(precision), FpOperandSigns)
fsgnjx_s_cg(precision) == Group(FpR(precision), {})
fsgnjx_d_cg(precision) == Group(FpR(precision), FpOperandSigns)
fmv_x_w_cg(precision) == Group(FpToInt(precision), {})
fmv_x_d_cg(precision) ==
  Group(FpToIntOperands \cup FpAnyValues({"fs1_value"}), {})
fmv_w_x_cg(precision) == Group(IntToFpOperands, {})
fmv_d_x_cg(precision) == Group(IntToFpOperands, {})
feq_s_cg(precision) == Group(FpCompare(precision), {})
feq_d_cg(precision) == Group(FpCompare(precision), {})
flt_s_cg(precision) == Group(FpCompare(precision), {})
flt_d_cg(precision) == Group(FpCompare(precision), {})
fle_s_cg(precision) == Group(FpCompare(precision), {})
fle_d_cg(precision) == Group(FpCompare(precision), {})
fclass_s_cg(precision) == Group(FpClassify(precision), {})
fclass_d_cg(precision) == Group(FpClassify(precision), {})
=============================================================================
