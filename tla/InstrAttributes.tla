--------------------------- MODULE InstrAttributes ---------------------------
(***************************************************************************)
(* The instruction names the generator and the coverage collector know     *)
(* (riscv_instr_name_t) and the format, category and extension the         *)
(* collector looks up for a name (get_attr_list).  The two lists are       *)
(* written by hand in the source and do not cover the same names: the      *)
(* lookup answers a name it lacks with a string, not with a record.        *)
(*                                                                         *)
(* Not kept: the vector names (the Python collector knows none of them and *)
(* treats each one as it treats a bit-manipulation name), and the          *)
(* immediate type, which only feeds values that no cover group samples.    *)
(***************************************************************************)
EXTENDS Naturals

RV32INames ==
  {"LUI", "AUIPC", "JAL", "JALR", "BEQ", "BNE", "BLT", "BGE", "BLTU", "BGEU",
   "LB", "LH", "LW", "LBU", "LHU", "SB", "SH", "SW", "ADDI", "SLTI", "SLTIU",
   "XORI", "ORI", "ANDI", "SLLI", "SRLI", "SRAI", "ADD", "SUB", "SLL", "SLT",
   "SLTU", "XOR", "SRL", "SRA", "OR", "AND", "NOP", "FENCE", "FENCE_I",
   "ECALL", "EBREAK", "CSRRW", "CSRRS", "CSRRC", "CSRRWI", "CSRRSI", "CSRRCI"}

RV32BNames ==
  {"ANDN", "ORN", "XNOR", "GORC", "SLO", "SRO", "ROL", "ROR", "SBCLR",
   "SBSET", "SBINV", "SBEXT", "GREV", "SLOI", "SROI", "RORI", "SBCLRI",
   "SBSETI", "SBINVI", "SBEXTI", "GORCI", "GREVI", "CMIX", "CMOV", "FSL",
   "FSR", "FSRI", "CLZ", "CTZ", "PCNT", "SEXT_B", "SEXT_H", "CRC32_B",
   "CRC32_H", "CRC32_W", "CRC32C_B", "CRC32C_H", "CRC32C_W", "CLMUL",
   "CLMULR", "CLMULH", "MIN", "MAX", "MINU", "MAXU", "SHFL", "UNSHFL",
   "BDEP", "BEXT", "PACK", "PACKU", "BMATOR", "BMATXOR", "PACKH", "BFP",
   "SHFLI", "UNSHFLI"}

RV64BNames ==
  {"ADDIWU", "SLLIU_W", "ADDWU", "SUBWU", "BMATFLIP", "CRC32_D", "CRC32C_D",
   "ADDU_W", "SUBU_W", "SLOW", "SROW", "ROLW", "RORW", "SBCLRW", "SBSETW",
   "SBINVW", "SBEXTW", "GORCW", "GREVW", "SLOIW", "SROIW", "RORIW",
   "SBCLRIW", "SBSETIW", "SBINVIW", "GORCIW", "GREVIW", "FSLW", "FSRW",
   "FSRIW", "CLZW", "CTZW", "PCNTW", "CLMULW", "CLMULRW", "CLMULHW", "SHFLW",
   "UNSHFLW", "BDEPW", "BEXTW", "PACKW", "PACKUW", "BFPW"}

RV32MNames ==
  {"MUL", "MULH", "MULHSU", "MULHU", "DIV", "DIVU", "REM", "REMU"}

RV64MNames ==
  {"MULW", "DIVW", "DIVUW", "REMW", "REMUW"}

RV32FNames ==
  {"FLW", "FSW", "FMADD_S", "FMSUB_S", "FNMSUB_S", "FNMADD_S", "FADD_S",
   "FSUB_S", "FMUL_S", "FDIV_S", "FSQRT_S", "FSGNJ_S", "FSGNJN_S",
   "FSGNJX_S", "FMIN_S", "FMAX_S", "FCVT_W_S", "FCVT_WU_S", "FMV_X_W",
   "FEQ_S", "FLT_S", "FLE_S", "FCLASS_S", "FCVT_S_W", "FCVT_S_WU", "FMV_W_X"}

RV64FNames ==
  {"FCVT_L_S", "FCVT_LU_S", "FCVT_S_L", "FCVT_S_LU"}

RV32DNames ==
  {"FLD", "FSD", "FMADD_D", "FMSUB_D", "FNMSUB_D", "FNMADD_D", "FADD_D",
   "FSUB_D", "FMUL_D", "FDIV_D", "FSQRT_D", "FSGNJ_D", "FSGNJN_D",
   "FSGNJX_D", "FMIN_D", "FMAX_D", "FCVT_S_D", "FCVT_D_S", "FEQ_D", "FLT_D",
   "FLE_D", "FCLASS_D", "FCVT_W_D", "FCVT_WU_D", "FCVT_D_W", "FCVT_D_WU"}

RV64DNames ==
  {"FCVT_L_D", "FCVT_LU_D", "FMV_X_D", "FCVT_D_L", "FCVT_D_LU", "FMV_D_X"}

RV64INames ==
  {"LWU", "LD", "SD", "ADDIW", "SLLIW", "SRLIW", "SRAIW", "ADDW", "SUBW",
   "SLLW", "SRLW", "SRAW"}

RV32CNames ==
  {"C_LW", "C_SW", "C_LWSP", "C_SWSP", "C_ADDI4SPN", "C_ADDI", "C_LI",
   "C_ADDI16SP", "C_LUI", "C_SRLI", "C_SRAI", "C_ANDI", "C_SUB", "C_XOR",
   "C_OR", "C_AND", "C_BEQZ", "C_BNEZ", "C_SLLI", "C_MV", "C_EBREAK",
   "C_ADD", "C_NOP", "C_J", "C_JAL", "C_JR", "C_JALR"}

RV64CNames ==
  {"C_ADDIW", "C_SUBW", "C_ADDW", "C_LD", "C_SD", "C_LDSP", "C_SDSP"}

RV128CNames ==
  {"C_SRLI64", "C_SRAI64", "C_SLLI64", "C_LQ", "C_SQ", "C_LQSP", "C_SQSP"}

RV32FCNames ==
  {"C_FLW", "C_FSW", "C_FLWSP", "C_FSWSP"}

RV32DCNames ==
  {"C_FLD", "C_FSD", "C_FLDSP", "C_FSDSP"}

RV32ANames ==
  {"LR_W", "SC_W", "AMOSWAP_W", "AMOADD_W", "AMOAND_W", "AMOOR_W",
   "AMOXOR_W", "AMOMIN_W", "AMOMAX_W", "AMOMINU_W", "AMOMAXU_W"}

RV64ANames ==
  {"LR_D", "SC_D", "AMOSWAP_D", "AMOADD_D", "AMOAND_D", "AMOOR_D",
   "AMOXOR_D", "AMOMIN_D", "AMOMAX_D", "AMOMINU_D", "AMOMAXU_D"}

SystemNames ==
  {"DRET", "MRET", "URET", "SRET", "WFI", "SFENCE_VMA", "INVALID_INSTR"}

(* riscv_instr_name_t.__members__ *)
Names ==
  RV32INames \cup RV32BNames \cup RV64BNames \cup RV32MNames \cup RV64MNames
  \cup RV32FNames \cup RV64FNames \cup RV32DNames \cup RV64DNames \cup
  RV64INames \cup RV32CNames \cup RV64CNames \cup RV128CNames \cup RV32FCNames
  \cup RV32DCNames \cup RV32ANames \cup RV64ANames \cup SystemNames

LoadStoreShiftAttributes ==
  {<<{"LB", "LH", "LW", "LBU", "LHU"},
     "I_FORMAT", "LOAD", "RV32I">>,
   <<{"SB", "SH", "SW"},
     "S_FORMAT", "STORE", "RV32I">>,
   <<{"SLL", "SRL", "SRA"},
     "R_FORMAT", "SHIFT", "RV32I">>,
   <<{"SLLI", "SRLI", "SRAI"},
     "I_FORMAT", "SHIFT", "RV32I">>}

ArithmeticLogicalCompareAttributes ==
  {<<{"ADD", "SUB"},
     "R_FORMAT", "ARITHMETIC", "RV32I">>,
   <<{"ADDI", "NOP"},
     "I_FORMAT", "ARITHMETIC", "RV32I">>,
   <<{"LUI", "AUIPC"},
     "U_FORMAT", "ARITHMETIC", "RV32I">>,
   <<{"XOR", "OR", "AND"},
     "R_FORMAT", "LOGICAL", "RV32I">>,
   <<{"XORI", "ORI", "ANDI"},
     "I_FORMAT", "LOGICAL", "RV32I">>,
   <<{"SLT", "SLTU"},
     "R_FORMAT", "COMPARE", "RV32I">>,
   <<{"SLTI", "SLTIU"},
     "I_FORMAT", "COMPARE", "RV32I">>}

BranchJumpSystemCsrAttributes ==
  {<<{"BEQ", "BNE", "BLT", "BGE", "BLTU", "BGEU"},
     "B_FORMAT", "BRANCH", "RV32I">>,
   <<{"JAL"},
     "J_FORMAT", "JUMP", "RV32I">>,
   <<{"JALR"},
     "I_FORMAT", "JUMP", "RV32I">>,
   <<{"FENCE", "FENCE_I"},
     "I_FORMAT", "SYNCH", "RV32I">>,
   <<{"SFENCE_VMA"},
     "R_FORMAT", "SYNCH", "RV32I">>,
   <<{"ECALL", "EBREAK", "URET", "SRET", "MRET", "DRET"},
     "I_FORMAT", "SYSTEM", "RV32I">>,
   <<{"WFI"},
     "I_FORMAT", "INTERRUPT", "RV32I">>,
   <<{"CSRRW", "CSRRS", "CSRRC"},
     "R_FORMAT", "CSR", "RV32I">>,
   <<{"CSRRWI", "CSRRSI", "CSRRCI"},
     "I_FORMAT", "CSR", "RV32I">>}

MulDivAttributes ==
  {<<{"MUL", "MULH", "MULHU", "MULHSU", "DIV", "DIVU", "REM", "REMU"},
     "R_FORMAT", "ARITHMETIC", "RV32M">>}

CompressedAttributes ==
  {<<{"C_LW"},
     "CL_FORMAT", "LOAD", "RV32C">>,
   <<{"C_SW"},
     "CS_FORMAT", "STORE", "RV32C">>,
   <<{"C_LWSP"},
     "CI_FORMAT", "LOAD", "RV32C">>,
   <<{"C_SWSP"},
     "CSS_FORMAT", "STORE", "RV32C">>,
   <<{"C_ADDI4SPN"},
     "CIW_FORMAT", "ARITHMETIC", "RV32C">>,
   <<{"C_ADDI", "C_ADDI16SP", "C_LI", "C_LUI", "C_NOP"},
     "CI_FORMAT", "ARITHMETIC", "RV32C">>,
   <<{"C_SUB"},
     "CA_FORMAT", "ARITHMETIC", "RV32C">>,
   <<{"C_ADD", "C_MV"},
     "CR_FORMAT", "ARITHMETIC", "RV32C">>,
   <<{"C_ANDI"},
     "CB_FORMAT", "LOGICAL", "RV32C">>,
   <<{"C_XOR", "C_OR", "C_AND"},
     "CA_FORMAT", "LOGICAL", "RV32C">>,
   <<{"C_BEQZ", "C_BNEZ"},
     "CB_FORMAT", "BRANCH", "RV32C">>,
   <<{"C_SRLI", "C_SRAI"},
     "CB_FORMAT", "SHIFT", "RV32C">>,
   <<{"C_SLLI"},
     "CI_FORMAT", "SHIFT", "RV32C">>,
   <<{"C_J", "C_JAL"},
     "CJ_FORMAT", "JUMP", "RV32C">>,
   <<{"C_JR", "C_JALR"},
     "CR_FORMAT", "JUMP", "RV32C">>,
   <<{"C_EBREAK"},
     "CI_FORMAT", "SYSTEM", "RV32C">>}

SinglePrecisionAttributes ==
  {<<{"FLW"},
     "I_FORMAT", "LOAD", "RV32F">>,
   <<{"FSW"},
     "S_FORMAT", "STORE", "RV32F">>,
   <<{"FMADD_S", "FMSUB_S", "FNMSUB_S", "FNMADD_S"},
     "R4_FORMAT", "ARITHMETIC", "RV32F">>,
   <<{"FADD_S", "FSUB_S", "FMUL_S", "FDIV_S", "FSGNJ_S", "FSGNJN_S",
      "FSGNJX_S", "FMIN_S", "FMAX_S", "FCLASS_S"},
     "R_FORMAT", "ARITHMETIC", "RV32F">>,
   <<{"FSQRT_S", "FCVT_W_S", "FCVT_WU_S", "FMV_X_W", "FCVT_S_W", "FCVT_S_WU",
      "FMV_W_X"},
     "I_FORMAT", "ARITHMETIC", "RV32F">>,
   <<{"FEQ_S", "FLT_S", "FLE_S"},
     "R_FORMAT", "COMPARE", "RV32F">>}

DoublePrecisionAttributes ==
  {<<{"FLD", "FSD"},
     "I_FORMAT", "LOAD", "RV32D">>,
   <<{"FMADD_D", "FMSUB_D", "FNMSUB_D", "FNMADD_D"},
     "R4_FORMAT", "ARITHMETIC", "RV32D">>,
   <<{"FADD_D", "FSUB_D", "FMUL_D", "FDIV_D", "FSGNJ_D", "FSGNJN_D",
      "FSGNJX_D", "FMIN_D", "FMAX_D", "FCLASS_D"},
     "R_FORMAT", "ARITHMETIC", "RV32D">>,
   <<{"FSQRT_D", "FCVT_S_D", "FCVT_D_S", "FCVT_W_D", "FCVT_WU_D", "FCVT_D_W",
      "FCVT_D_WU"},
     "I_FORMAT", "ARITHMETIC", "RV32D">>,
   <<{"FEQ_D", "FLT_D", "FLE_D"},
     "R_FORMAT", "COMPARE", "RV32D">>}

Rv64Attributes ==
  {<<{"LWU", "LD"},
     "I_FORMAT", "LOAD", "RV64I">>,
   <<{"SD"},
     "S_FORMAT", "STORE", "RV64I">>,
   <<{"SLLW", "SRLW", "SRAW"},
     "R_FORMAT", "SHIFT", "RV64I">>,
   <<{"SLLIW", "SRLIW", "SRAIW"},
     "I_FORMAT", "SHIFT", "RV64I">>,
   <<{"ADDW", "SUBW"},
     "R_FORMAT", "ARITHMETIC", "RV64I">>,
   <<{"ADDIW"},
     "I_FORMAT", "ARITHMETIC", "RV64I">>,
   <<{"MULW", "DIVW", "DIVUW", "REMW", "REMUW"},
     "R_FORMAT", "ARITHMETIC", "RV64M">>,
   <<{"C_ADDIW"},
     "CI_FORMAT", "ARITHMETIC", "RV64C">>,
   <<{"C_SUBW", "C_ADDW"},
     "CA_FORMAT", "ARITHMETIC", "RV64C">>,
   <<{"C_LD"},
     "CL_FORMAT", "LOAD", "RV64C">>,
   <<{"C_SD"},
     "CS_FORMAT", "STORE", "RV64C">>,
   <<{"C_LDSP"},
     "CI_FORMAT", "LOAD", "RV64C">>,
   <<{"C_SDSP"},
     "CSS_FORMAT", "STORE", "RV64C">>}

Attributes ==
  UNION {LoadStoreShiftAttributes,
         ArithmeticLogicalCompareAttributes,
         BranchJumpSystemCsrAttributes,
         MulDivAttributes,
         CompressedAttributes,
         SinglePrecisionAttributes,
         DoublePrecisionAttributes,
         Rv64Attributes}

(* The names that have attributes. *)
Listed == UNION {entry[1] : entry \in Attributes}

(* get_attr_list: the record of a listed name.  For any other name the     *)
(* source returns a string, whose characters the caller then takes for the *)
(* format, category and group and fails on the first use of their names.   *)
get_attr_list ==
  [name \in Listed |->
     LET entry == CHOOSE r \in Attributes : name \in r[1]
     IN  [format |-> entry[2], category |-> entry[3], group |-> entry[4]]]

(* The names in the enumeration that the lookup lacks. *)
Unlisted == Names \ Listed
=============================================================================
