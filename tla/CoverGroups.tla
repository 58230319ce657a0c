----------------------------- MODULE CoverGroups ----------------------------
(***************************************************************************)
(* The functional coverage model: what each cover group of                 *)
(* riscv_instr_cover_group.py samples of an instruction, and which groups  *)
(* cg_instantiation creates.                                               *)
(***************************************************************************)
EXTENDS FpCoverGroups

(* Groups of the integer instructions; the first six are per format and no *)
(* instruction uses them.                                                  *)
r_instr_cg == Group(ROperands, {})
i_instr_cg ==
  Group(Regs({"rs1", "rd"}) \cup Signs({"rs1_sign", "rd_sign", "imm_sign"})
        \cup GprHazard, {})
u_instr_cg == Group(UOperands, {})
cmp_instr_cg ==
  Group(Regs({"rs1", "rd"}) \cup Signs({"rs1_sign"}) \cup Flag("rd_value_0")
        \cup GprHazard, {})
sb_instr_cg == Group(BranchOperands, SourceSigns)
j_instr_cg ==
  Group(Regs({"rd"}) \cup Signs({"imm_sign"}) \cup Flag("rd_value_1"), {})
mulw_cg == Group(ROperands, SourceSigns)
divw_cg == Group(DivOperands, OperandSigns)
divuw_cg == Group(DivOperands, OperandSigns)
remw_cg == Group(DivOperands, SourceSigns)
remuw_cg == Group(DivOperands, SourceSigns)
c_ld_cg == Group(CLOperands, {})
c_ldsp_cg == Group(CompressedGprs({"rd"}), {})
c_sd_cg == Group(CSOperands, {})
c_sdsp_cg == Group(CompressedGprs({"rs2"}), {})
c_addiw_cg == Group(CIOperands, {})
c_subw_cg == Group(CAOperands, {})
c_addw_cg == Group(CAOperands, {})
lwu_cg == Group(LoadOperands, {})
ld_cg == Group(LoadOperands, {})
sd_cg == Group(StoreOperands, {})
sraw_cg == Group(ROperands, OperandSigns)
sllw_cg == Group(ROperands, OperandSigns)
srlw_cg == Group(ROperands, SourceSigns)
srai64_cg == Group(ImmOperands, {})
slli64_cg == Group(ImmOperands, {})
srli64_cg == Group(ImmOperands, {})
sraiw_cg == Group(ShiftImmOperands, {})
slliw_cg == Group(ShiftImmOperands, {})
srliw_cg == Group(ShiftImmOperands, {})
addw_cg == Group(ROperands, OperandSigns)
subw_cg == Group(ROperands, OperandSigns)
addiw_cg == Group(LogicalImmOperands, ImmSigns)
load_instr_cg == Group(LoadOperands, {})
lb_cg == Group(LoadOperands, {})
lh_cg == Group(AlignedLoadOperands, {})
lw_cg == Group(AlignedLoadOperands, {})
lbu_cg == Group(LoadOperands, {})
lhu_cg == Group(AlignedLoadOperands, {})
store_instr_cg == Group(StoreOperands, {})
sb_cg == Group(StoreOperands, {})
sh_cg == Group(StoreOperands \cup Flag("unaligned_mem_access"), {})
sw_cg == Group(StoreOperands \cup Flag("unaligned_mem_access"), {})
sll_cg == Group(ROperands, SourceSigns)
slli_cg == Group(ShiftImmOperands, {})
srl_cg == Group(ROperands, SourceSigns)
srli_cg == Group(ShiftImmOperands, {})
sra_cg == Group(ROperands, SourceSigns)
srai_cg == Group(ShiftImmOperands, {})
add_cg == Group(ROperands, OperandSigns)
addi_cg ==
  Group(Regs({"rs1"}) \cup NonzeroRegs({"rd"}) \cup GprHazard
          \cup Signs({"rs1_sign", "rd_sign", "imm_sign"}),
        {<<"rs1_sign", "imm_sign", "rd_sign">>})
sub_cg == Group(ROperands, OperandSigns)
lui_cg == Group(UOperands, {})
auipc_cg == Group(UOperands, {})
xor_cg == Group(LogicalOperands, SourceSigns)
xori_cg == Group(LogicalImmOperands, ImmSigns)
or_cg == Group(LogicalOperands, SourceSigns)
ori_cg == Group(LogicalImmOperands, ImmSigns)
and_cg == Group(LogicalOperands, SourceSigns)
andi_cg == Group(LogicalImmOperands, ImmSigns)
slt_cg == Group(CompareOperands, SourceSigns)
slti_cg == Group(CompareImmOperands, ImmSigns)
sltu_cg == Group(CompareOperands, SourceSigns)
sltiu_cg == Group(CompareImmOperands, ImmSigns)
beq_cg == Group(BranchOperands, SourceSigns)
bne_cg == Group(BranchOperands, SourceSigns)
blt_cg == Group(BranchOperands, SourceSigns)
bge_cg == Group(BranchOperands, SourceSigns)
bltu_cg == Group(BranchOperands, SourceSigns)
bgeu_cg == Group(BranchOperands, SourceSigns)
jal_cg ==
  Group(Regs({"rd"}) \cup Signs({"imm_sign"}) \cup Flag("rd_value_1") \cup
        Flag("imm_1"), {})
jalr_cg ==
  Group(Regs({"rd"}) \cup Signs({"imm_sign"}) \cup Flag("rd_value_1")
          \cup Points({"rs1", "rd"}, jalr_riscv_reg_t)
          \cup Points({"imm_2_0", "rs1_value_2_0"}, 0 .. 3),
        {<<"imm_2_0", "rs1_value_2_0">>, <<"rs1", "rd">>})
mul_cg == Group(ROperands, OperandSigns)
mulh_cg == Group(ROperands, OperandSigns)
mulhsu_cg == Group(ROperands, OperandSigns)
mulhu_cg == Group(ROperands, OperandSigns)
div_cg == Group(DivOperands, OperandSigns)
divu_cg == Group(UnsignedDivOperands, OperandSigns)
rem_cg == Group(DivOperands, OperandSigns)
remu_cg == Group(UnsignedDivOperands, OperandSigns)

(* Groups that are not per instruction. *)
csrrw_cg == Group(Regs({"rs1", "rd"}) \cup GprHazard, {})
opcode_cg == Group({Point("binary_6_2", 0 .. 31)}, {})
rv32i_misc_cg == Group({Point("instr", rv32i_misc_instrs)}, {})
mepc_alignment_cg == Group({Point("rd_value_2_0", {0, 2})}, {})
hint_cg == Group({Point("hint", 1 .. 9)}, {})
illegal_compressed_instr_cg == Group({Point("reserved", 1 .. 11)}, {})
compressed_opcode_cg == Group({}, {})

(* Groups of the compressed instructions. *)
c_lw_cg == Group(CLOperands, {})
c_lwsp_cg == Group(CompressedGprs({"rd"}), {})
c_sw_cg == Group(CSOperands, {})
c_swsp_cg == Group(CompressedGprs({"rs2"}), {})
c_addi4spn_cg ==
  Group(CompressedGprs({"rd"}) \cup {Point("gpr_hazard",
        store_lsu_hazard_e)}, {})
c_addi_cg == Group(CIOperands, {})
c_addi16sp_cg == Group(ImmOperands, {})
c_li_cg == Group(CIOperands, {})
c_lui_cg == Group({Point("rd", riscv_reg_ex_zero_sp_t)}, {})
c_sub_cg == Group(CAOperands, {})
c_add_cg == Group(CROperands, {})
c_mv_cg == Group(CROperands, {})
c_andi_cg == Group(CBOperands, {})
c_xor_cg == Group(CAOperands, {})
c_or_cg == Group(CAOperands, {})
c_and_cg == Group(CAOperands, {})
c_beqz_cg == Group(CBOperands, {})
c_bnez_cg == Group(CBOperands, {})
c_srli_cg == Group(CShiftOperands, {})
c_srai_cg == Group(CShiftOperands, {})
c_slli_cg ==
  Group(NonzeroRegs({"rd"}) \cup {Point("gpr_hazard", branch_hazard_e)}, {})
c_j_cg == Group(Signs({"imm_sign"}), {})
c_jal_cg == Group(Signs({"imm_sign"}), {})
c_jr_cg ==
  Group(NonzeroRegs({"rs1"}) \cup {Point("rs1_value_1_0", 0 .. 3)}, {})
c_jalr_cg ==
  Group(NonzeroRegs({"rs1"}) \cup {Point("rs1_value_1_0", 0 .. 3)} \cup
        Flag("rd_value_1"), {})

-----------------------------------------------------------------------------
(* cg_instantiation: the group sampled for an instruction name.  The       *)
(* attribute for FSW is assigned twice, the second time for double         *)
(* precision, and FSD has none; the group of FCVT_D_L is created for       *)
(* single precision.                                                       *)
instances ==
  [CSRRW |-> csrrw_cg, BEQ |-> beq_cg, JAL |-> jal_cg, LUI |-> lui_cg,
   ADDI |-> addi_cg, AUIPC |-> auipc_cg, ORI |-> ori_cg, ADD |-> add_cg,
   SUB |-> sub_cg, SRA |-> sra_cg, ANDI |-> andi_cg, SRLI |-> srli_cg,
   AND |-> and_cg, SRL |-> srl_cg, SLL |-> sll_cg, XOR |-> xor_cg,
   OR |-> or_cg, SLTU |-> sltu_cg, SLTIU |-> sltiu_cg, XORI |-> xori_cg,
   SLTI |-> slti_cg, SRAI |-> srai_cg, SLT |-> slt_cg, SLLI |-> slli_cg,
   MUL |-> mul_cg, MULH |-> mulh_cg, MULHSU |-> mulhsu_cg,
   MULHU |-> mulhu_cg, DIV |-> div_cg, DIVU |-> divu_cg, REM |-> rem_cg,
   REMU |-> remu_cg, C_LW |-> c_lw_cg, C_LWSP |-> c_lwsp_cg,
   C_SW |-> c_sw_cg, C_SWSP |-> c_swsp_cg, C_ADDI4SPN |-> c_addi4spn_cg,
   C_ADDI |-> c_addi_cg, C_ADDI16SP |-> c_addi16sp_cg, C_LI |-> c_li_cg,
   C_LUI |-> c_lui_cg, C_SUB |-> c_sub_cg, C_ADD |-> c_add_cg,
   C_MV |-> c_mv_cg, C_ANDI |-> c_andi_cg, C_XOR |-> c_xor_cg,
   C_OR |-> c_or_cg, C_AND |-> c_and_cg, C_BEQZ |-> c_beqz_cg,
   C_BNEZ |-> c_bnez_cg, C_SRLI |-> c_srli_cg, C_SRAI |-> c_srai_cg,
   C_SLLI |-> c_slli_cg, C_J |-> c_j_cg, C_JAL |-> c_jal_cg,
   C_JR |-> c_jr_cg, C_JALR |-> c_jalr_cg, FLW |-> flw_cg(1),
   FLD |-> fld_cg(0), FSW |-> fsw_cg(0), FADD_S |-> fadd_s_cg(1),
   FADD_D |-> fadd_d_cg(0), FSUB_S |-> fsub_s_cg(1), FSUB_D |-> fsub_d_cg(0),
   FMUL_S |-> fmul_s_cg(1), FMUL_D |-> fmul_d_cg(0), FDIV_S |-> fdiv_s_cg(1),
   FDIV_D |-> fdiv_d_cg(0), FSQRT_S |-> fsqrt_s_cg(1),
   FSQRT_D |-> fsqrt_d_cg(0), FMIN_S |-> fmin_s_cg(1),
   FMIN_D |-> fmin_d_cg(0), FMAX_S |-> fmax_s_cg(1), FMAX_D |-> fmax_d_cg(0),
   FMADD_S |-> fmadd_s_cg(1), FMADD_D |-> fmadd_d_cg(0),
   FNMADD_S |-> fnmadd_s_cg(1), FNMADD_D |-> fnmadd_d_cg(0),
   FMSUB_S |-> fmsub_s_cg(1), FMSUB_D |-> fmsub_d_cg(0),
   FNMSUB_S |-> fnmsub_s_cg(1), FNMSUB_D |-> fnmsub_d_cg(0),
   FCVT_S_D |-> fcvt_s_d_cg, FCVT_D_S |-> fcvt_d_s_cg,
   FCVT_W_S |-> fcvt_w_s_cg(1), FCVT_WU_S |-> fcvt_wu_s_cg(1),
   FCVT_L_S |-> fcvt_l_s_cg(1), FCVT_LU_S |-> fcvt_lu_s_cg(1),
   FCVT_L_D |-> fcvt_l_d_cg(0), FCVT_LU_D |-> fcvt_lu_d_cg(0),
   FCVT_W_D |-> fcvt_w_d_cg(0), FCVT_WU_D |-> fcvt_wu_d_cg(0),
   FCVT_S_W |-> fcvt_s_w_cg(1), FCVT_S_WU |-> fcvt_s_wu_cg(1),
   FCVT_S_L |-> fcvt_s_l_cg(1), FCVT_D_L |-> fcvt_d_l_cg(1),
   FCVT_S_LU |-> fcvt_s_lu_cg(1), FCVT_D_W |-> fcvt_d_w_cg(0),
   FCVT_D_LU |-> fcvt_d_lu_cg(0), FCVT_D_WU |-> fcvt_d_wu_cg(0),
   FSGNJ_S |-> fsgnj_s_cg(1), FSGNJ_D |-> fsgnj_d_cg(0),
   FSGNJN_S |-> fsgnjn_s_cg(1), FSGNJN_D |-> fsgnjn_d_cg(0),
   FSGNJX_S |-> fsgnjx_s_cg(1), FSGNJX_D |-> fsgnjx_d_cg(0),
   FMV_X_W |-> fmv_x_w_cg(1), FMV_X_D |-> fmv_x_d_cg(0),
   FMV_W_X |-> fmv_w_x_cg(1), FMV_D_X |-> fmv_d_x_cg(0),
   FEQ_S |-> feq_s_cg(1), FEQ_D |-> feq_d_cg(0), FLT_S |-> flt_s_cg(1),
   FLT_D |-> flt_d_cg(0), FLE_S |-> fle_s_cg(1), FLE_D |-> fle_d_cg(0),
   FCLASS_S |-> fclass_s_cg(1), FCLASS_D |-> fclass_d_cg(0),
   MULW |-> mulw_cg, DIVW |-> divw_cg, DIVUW |-> divuw_cg, REMW |-> remw_cg,
   REMUW |-> remuw_cg, C_ADDIW |-> c_addiw_cg, C_SUBW |-> c_subw_cg,
   C_ADDW |-> c_addw_cg, C_LD |-> c_ld_cg, C_SD |-> c_sd_cg,
   C_LDSP |-> c_ldsp_cg, C_SDSP |-> c_sdsp_cg, LWU |-> lwu_cg, LD |-> ld_cg,
   SD |-> sd_cg, ADDIW |-> addiw_cg, SLLIW |-> slliw_cg, SRLIW |-> srliw_cg,
   SRAIW |-> sraiw_cg, ADDW |-> addw_cg, SUBW |-> subw_cg, SLLW |-> sllw_cg,
   SRLW |-> srlw_cg, SRAW |-> sraw_cg]
=============================================================================
