--------------------------- MODULE CoverageProofs ---------------------------
(***************************************************************************)
(* What the coverage collector's report shows, for every program, every    *)
(* order of operands and every target: how a row's text is built and read  *)
(* (operands at their places), what the collector knows of the registers,  *)
(* the hazard between two accesses, and the bins a row hits.               *)
(***************************************************************************)
EXTENDS CoverageRun, SequenceTheorems, TLAPS

-----------------------------------------------------------------------------
(* The attribute table, read by entry.                                     *)

(* A listed name has the attributes of an entry that names it.             *)
LEMMA EntryOfName ==
  ASSUME NEW n \in Listed
  PROVE  \E r \in Attributes :
           /\ n \in r[1]
           /\ get_attr_list[n] = [format |-> r[2], category |-> r[3], group |-> r[4]]
  BY DEF Listed, get_attr_list

(* What the formats and categories of the table say of the names of the    *)
(* integer instructions.                                                   *)
IntFacts(n, f, c) ==
  /\ f \in DOMAIN FormatRoles
  /\ c = "CSR" => f \in {"R_FORMAT", "I_FORMAT"}
  /\ c = "LOAD" => f \in {"I_FORMAT", "CL_FORMAT", "CI_FORMAT"}
  /\ c = "STORE" <=> f \in {"S_FORMAT", "CS_FORMAT", "CSS_FORMAT"}
  /\ n \in {"C_LWSP", "C_LDSP"} <=> f = "CI_FORMAT" /\ c = "LOAD"
  /\ n = "C_ADDI16SP" => f = "CI_FORMAT"
  /\ n = "C_ADDI4SPN" <=> f = "CIW_FORMAT"
  /\ n \in {"C_JR", "C_JALR"} => f = "CR_FORMAT"
  /\ n = "C_JAL" => f = "CJ_FORMAT"
  /\ n \in {"C_ANDI", "C_SRLI", "C_SRAI"} => f = "CB_FORMAT"
  /\ n \in {"CSRRW", "CSRRS", "CSRRC"} => c = "CSR" /\ f = "R_FORMAT"
  /\ n \in {"FENCE", "FENCE_I", "ECALL", "EBREAK", "URET", "SRET", "MRET", "DRET", "WFI",
            "NOP"} => f = "I_FORMAT"
  /\ n = "NOP" => c = "ARITHMETIC"
  /\ n = "JAL" => f = "J_FORMAT"
  /\ n = "ADDI" => f = "I_FORMAT" /\ c = "ARITHMETIC"
  /\ n \in WithoutOperands \cup {"DRET"}
       => f \in {"I_FORMAT", "R_FORMAT", "CI_FORMAT"} /\ c \notin {"LOAD", "STORE", "CSR"}
  /\ c = "BRANCH" => n \in {"BEQ", "BNE", "BLT", "BGE", "BLTU", "BGEU", "C_BEQZ",
                            "C_BNEZ"}
  /\ n \notin {"FLW", "FLD", "FSW", "FSD", "C_LQSP", "FMV_W_X", "FMV_X_W"}
  /\ n \notin SignInjection

(* ... and of the floating-point ones.                                     *)
FdFacts(n, f, c) ==
  /\ f \in {"I_FORMAT", "S_FORMAT", "R_FORMAT", "R4_FORMAT"}
  /\ c \in {"LOAD", "STORE"} <=> n \in {"FLW", "FLD", "FSW", "FSD"}
  /\ c \notin {"LOAD", "STORE"} => f # "S_FORMAT"
  /\ n \in {"FLW", "FLD"} => f = "I_FORMAT"
  /\ c \in {"LOAD", "STORE", "ARITHMETIC", "COMPARE"}
  /\ c = "COMPARE" => f = "R_FORMAT"
  /\ n \in FpToIntNames \cup IntToFpNames => f = "I_FORMAT"
  /\ n \in ClassifyNames \cup SignInjection => f = "R_FORMAT" /\ c = "ARITHMETIC"
  /\ n \notin WithoutOperands \cup {"DRET", "JAL", "ADDI", "CSRRW", "CSRRS",
                                     "C_LWSP", "C_LDSP", "C_ADDI4SPN", "C_JR", "C_JALR"}

Facts(n, r) ==
  IF r[4] \in FdGroups THEN FdFacts(n, r[2], r[3]) ELSE IntFacts(n, r[2], r[3])

(* Every entry of the table obeys them.                                    *)
LEMMA EntryFacts ==
  ASSUME NEW r \in Attributes, NEW n \in r[1]
  PROVE  Facts(n, r)
<1> USE DEF Facts, FdFacts, IntFacts, FormatRoles, FdGroups, FpToIntNames, IntToFpNames,
            ClassifyNames, SignInjection, WithoutOperands
<1>1. CASE r \in LoadStoreShiftAttributes
  BY <1>1 DEF LoadStoreShiftAttributes
<1>2. CASE r \in ArithmeticLogicalCompareAttributes
  BY <1>2 DEF ArithmeticLogicalCompareAttributes
<1>3. CASE r \in BranchJumpSystemCsrAttributes
  BY <1>3 DEF BranchJumpSystemCsrAttributes
<1>4. CASE r \in MulDivAttributes
  BY <1>4 DEF MulDivAttributes
<1>5. CASE r \in CompressedAttributes
  BY <1>5 DEF CompressedAttributes
<1>6. CASE r \in SinglePrecisionAttributes
  BY <1>6 DEF SinglePrecisionAttributes
<1>7. CASE r \in DoublePrecisionAttributes
  BY <1>7 DEF DoublePrecisionAttributes
<1>8. CASE r \in Rv64Attributes
  BY <1>8 DEF Rv64Attributes
<1> HIDE DEF Facts
<1>9. QED
  BY <1>1, <1>2, <1>3, <1>4, <1>5, <1>6, <1>7, <1>8 DEF Attributes

(* ... and of a name with the attributes it is given.                      *)
LEMMA NameFacts ==
  ASSUME NEW n \in Listed
  PROVE  LET a == get_attr_list[n]
         IN  IF IsFd(a) THEN FdFacts(n, a.format, a.category)
             ELSE IntFacts(n, a.format, a.category)
<1>1. PICK r \in Attributes :
        /\ n \in r[1]
        /\ get_attr_list[n] = [format |-> r[2], category |-> r[3], group |-> r[4]]
  BY EntryOfName
<1>2. Facts(n, r)
  BY <1>1, EntryFacts
<1>3. QED
  BY <1>1, <1>2 DEF Facts, IsFd, FdGroups

(* Two names of one instruction are not both in the table, and of the      *)
(* names a disassembler prints for another instruction only JAL is.        *)
PseudoNames ==
  {"MV", "SEXT_W", "SEQZ", "NOT", "NEG", "NEGW", "SNEZ", "SLTZ", "SGTZ", "BEQZ", "BNEZ",
   "BGEZ", "BLTZ", "BLEZ", "BGTZ", "J", "CSRR", "CSRW", "CSRS", "CSRC", "CSRWI", "CSRSI",
   "CSRCI"}

(* None of these names has attributes of its own.                          *)
LEMMA OtherNamesNotListed ==
  Listed \cap (DOMAIN update_instr_name \cup PseudoNames) = {}
<1>1. SUFFICES ASSUME NEW r \in Attributes, NEW n \in r[1],
                      n \in DOMAIN update_instr_name \cup PseudoNames
               PROVE  FALSE
  BY DEF Listed
<1> USE <1>1 DEF update_instr_name, PseudoNames
<1>2. CASE r \in LoadStoreShiftAttributes
  BY <1>2 DEF LoadStoreShiftAttributes
<1>3. CASE r \in ArithmeticLogicalCompareAttributes
  BY <1>3 DEF ArithmeticLogicalCompareAttributes
<1>4. CASE r \in BranchJumpSystemCsrAttributes
  BY <1>4 DEF BranchJumpSystemCsrAttributes
<1>5. CASE r \in MulDivAttributes
  BY <1>5 DEF MulDivAttributes
<1>6. CASE r \in CompressedAttributes
  BY <1>6 DEF CompressedAttributes
<1>7. CASE r \in SinglePrecisionAttributes
  BY <1>7 DEF SinglePrecisionAttributes
<1>8. CASE r \in DoublePrecisionAttributes
  BY <1>8 DEF DoublePrecisionAttributes
<1>9. CASE r \in Rv64Attributes
  BY <1>9 DEF Rv64Attributes
<1>10. QED
  BY <1>2, <1>3, <1>4, <1>5, <1>6, <1>7, <1>8, <1>9 DEF Attributes

-----------------------------------------------------------------------------
(* The order of the operands.                                              *)

Order(n, lay) == Assembly(n, get_attr_list[n], Roles(n), lay)

(* A base register printed before the offset: the place the offset is read *)
(* from holds the register.                                                *)
Misplaced(n, lay) ==
  LET a == get_attr_list[n]
      s == IntSources(n, a)
      L == Order(n, lay)
  IN  /\ n \in BaseForms
      /\ "imm" \in DOMAIN s /\ s["imm"] \in DOMAIN L /\ L[s["imm"]] = "rs1"

(* Every operand that is read is at its place.                             *)
Placed(n, lay) ==
  LET a == get_attr_list[n]
      s == IntSources(n, a)
      L == Order(n, lay)
  IN  \A f \in DOMAIN s : s[f] \in 1 .. Len(L) /\ L[s[f]] = f

(* The operands of an integer instruction come in an order in which each   *)
(* one that is read is at its place, or a base register takes the place of *)
(* the offset.                                                             *)
LEMMA IntOrder ==
  ASSUME NEW n \in Listed, NEW lay, ~IsFd(get_attr_list[n]),
         n \notin WithoutOperands \cup {"DRET"}
  PROVE  LET a == get_attr_list[n]
             L == Order(n, lay)
         IN  /\ L \in Seq(Roles(n)) /\ Len(L) = OperandCount(a, Len(L))
             /\ DOMAIN IntSources(n, a) \subseteq Roles(n) \ {"rd"}
             /\ Placed(n, lay) \/ Misplaced(n, lay)
<1> DEFINE a == get_attr_list[n]
           L == Order(n, lay)
           s == IntSources(n, a)
<1>0. ~IsFd(a) /\ n \in Listed /\ a = get_attr_list[n]
  OBVIOUS
<1>1. IntFacts(n, a.format, a.category)
  BY NameFacts
<1>2. Roles(n) = IntRoles(n, a)
  BY DEF Roles
<1>3. L = Assembly(n, a, IntRoles(n, a), lay)
  BY <1>2 DEF Order
<1>4. SUFFICES
        /\ L \in Seq(IntRoles(n, a)) /\ Len(L) = OperandCount(a, Len(L))
        /\ DOMAIN s \subseteq IntRoles(n, a) \ {"rd"}
        /\ \/ \A f \in DOMAIN s : s[f] \in 1 .. Len(L) /\ L[s[f]] = f
           \/ /\ n \in BaseForms
              /\ "imm" \in DOMAIN s /\ s["imm"] \in DOMAIN L /\ L[s["imm"]] = "rs1"
  BY <1>2, Zenon DEF Placed, Misplaced
<1> HIDE DEF a, L, s
<1> USE DEF IntFacts
<1>5. CASE a.format = "U_FORMAT"
  <2>1. IntRoles(n, a) = {"rd", "imm"}
    BY <1>1, <1>5 DEF IntRoles, FormatRoles, ReadsSp
  <2>2. L = <<"rd", "imm">>
    BY <1>0, <1>1, <1>3, <1>5, <2>1 DEF Assembly
  <2>3. s = [imm |-> 2]
    BY <1>1, <1>5 DEF IntSources, s
  <2>4. QED
    BY <1>0, <1>5, <2>1, <2>2, <2>3 DEF OperandCount
<1>6. CASE a.format = "J_FORMAT"
  <2>1. IntRoles(n, a) = {"rd", "imm"}
    BY <1>1, <1>6 DEF IntRoles, FormatRoles, ReadsSp
  <2>2. L = <<"rd", "imm">>
    BY <1>0, <1>1, <1>3, <1>6, <2>1 DEF Assembly
  <2>3. s = [imm |-> 2]
    BY <1>1, <1>6 DEF IntSources, s
  <2>4. QED
    BY <1>0, <1>6, <2>1, <2>2, <2>3 DEF OperandCount
<1>7. CASE a.format = "I_FORMAT" /\ a.category = "LOAD"
  <2>1. IntRoles(n, a) = {"rd", "rs1", "imm"}
    BY <1>1, <1>7 DEF IntRoles, FormatRoles, ReadsSp
  <2>2. L = BaseForm("rd", lay)
    BY <1>0, <1>1, <1>3, <1>7, <2>1 DEF Assembly
  <2>3. s = [rs1 |-> 3, imm |-> 2]
    BY <1>1, <1>7 DEF IntSources, s
  <2>4. CASE lay = "iss"
    <3>1. L[s["imm"]] = "rs1" /\ s["imm"] \in DOMAIN L /\ n \in BaseForms
      BY <1>0, <1>1, <1>7, <2>2, <2>3, <2>4 DEF BaseForm, BaseForms
    <3>2. QED
      BY <1>0, <2>1, <2>2, <2>3, <2>4, <3>1, <1>7 DEF BaseForm, OperandCount
  <2>5. CASE lay # "iss"
    BY <1>0, <2>1, <2>2, <2>3, <2>5, <1>7 DEF BaseForm, OperandCount
  <2>6. QED
    BY <2>4, <2>5
<1>8. CASE a.format = "I_FORMAT" /\ a.category = "CSR"
  <2>1. IntRoles(n, a) = {"rd", "csr", "imm"}
    BY <1>1, <1>8 DEF IntRoles, FormatRoles, ReadsSp
  <2>2. L = <<"rd", "csr", "imm">>
    BY <1>0, <1>1, <1>3, <1>8, <2>1 DEF Assembly
  <2>3. s = [imm |-> 3, csr |-> 2]
    BY <1>1, <1>8 DEF IntSources, s
  <2>4. QED
    BY <1>0, <1>8, <2>1, <2>2, <2>3 DEF OperandCount
<1>9. CASE a.format = "I_FORMAT" /\ a.category \notin {"LOAD", "CSR"}
  <2>1. IntRoles(n, a) = {"rd", "rs1", "imm"}
    BY <1>1, <1>9 DEF IntRoles, FormatRoles, ReadsSp
  <2>2. L = <<"rd", "rs1", "imm">>
    BY <1>0, <1>1, <1>3, <1>9, <2>1 DEF Assembly
  <2>3. s = [rs1 |-> 2, imm |-> 3]
    BY <1>1, <1>9 DEF IntSources, s
  <2>4. QED
    BY <1>0, <1>9, <2>1, <2>2, <2>3 DEF OperandCount
<1>10. CASE a.format = "S_FORMAT"
  <2>1. IntRoles(n, a) = {"rs1", "rs2", "imm"}
    BY <1>1, <1>10 DEF IntRoles, FormatRoles, ReadsSp
  <2>2. L = BaseForm("rs2", lay)
    BY <1>0, <1>1, <1>3, <1>10, <2>1 DEF Assembly
  <2>3. s = [rs2 |-> 1, rs1 |-> 3, imm |-> 2]
    BY <1>1, <1>10 DEF IntSources, s
  <2>4. CASE lay = "iss"
    <3>1. L[s["imm"]] = "rs1" /\ s["imm"] \in DOMAIN L /\ n \in BaseForms
      BY <1>0, <1>1, <1>10, <2>2, <2>3, <2>4 DEF BaseForm, BaseForms
    <3>2. QED
      BY <1>0, <2>1, <2>2, <2>3, <2>4, <3>1, <1>10 DEF BaseForm, OperandCount
  <2>5. CASE lay # "iss"
    BY <1>0, <2>1, <2>2, <2>3, <2>5, <1>10 DEF BaseForm, OperandCount
  <2>6. QED
    BY <2>4, <2>5
<1>11. CASE a.format = "B_FORMAT"
  <2>1. IntRoles(n, a) = {"rs1", "rs2", "imm"}
    BY <1>1, <1>11 DEF IntRoles, FormatRoles, ReadsSp
  <2>2. L = <<"rs1", "rs2", "imm">>
    BY <1>0, <1>1, <1>3, <1>11, <2>1 DEF Assembly
  <2>3. s = [rs1 |-> 1, rs2 |-> 2, imm |-> 3]
    BY <1>1, <1>11 DEF IntSources, s
  <2>4. QED
    BY <1>0, <1>11, <2>1, <2>2, <2>3 DEF OperandCount
<1>12. CASE a.format = "R_FORMAT" /\ a.category = "CSR"
  <2>1. IntRoles(n, a) = {"rd", "csr", "rs1"}
    BY <1>1, <1>12 DEF IntRoles, FormatRoles, ReadsSp
  <2>2. L = <<"rd", "csr", "rs1">>
    BY <1>0, <1>1, <1>3, <1>12, <2>1 DEF Assembly
  <2>3. s = [csr |-> 2, rs1 |-> 3]
    BY <1>1, <1>12 DEF IntSources, s
  <2>4. QED
    BY <1>0, <1>12, <2>1, <2>2, <2>3 DEF OperandCount
<1>13. CASE a.format = "R_FORMAT" /\ a.category # "CSR"
  <2>1. IntRoles(n, a) = {"rd", "rs1", "rs2"}
    BY <1>1, <1>13 DEF IntRoles, FormatRoles, ReadsSp
  <2>2. L = <<"rd", "rs1", "rs2">>
    BY <1>0, <1>1, <1>3, <1>13, <2>1 DEF Assembly
  <2>3. s = [rs1 |-> 2, rs2 |-> 3]
    BY <1>1, <1>13 DEF IntSources, s
  <2>4. QED
    BY <1>0, <1>13, <2>1, <2>2, <2>3 DEF OperandCount
<1>14. CASE a.format = "CI_FORMAT" /\ n = "C_ADDI16SP"
  <2>1. IntRoles(n, a) = {"rd", "rs1", "imm"}
    BY <1>1, <1>14 DEF IntRoles, FormatRoles, ReadsSp
  <2>2. L = <<"rd", "imm">>
    BY <1>0, <1>1, <1>3, <1>14, <2>1 DEF Assembly
  <2>3. s = [imm |-> 2]
    BY <1>1, <1>14 DEF IntSources, s
  <2>4. QED
    BY <1>0, <1>14, <2>1, <2>2, <2>3 DEF OperandCount
<1>15. CASE a.format = "CI_FORMAT" /\ a.category = "LOAD"
  <2>1. IntRoles(n, a) = {"rd", "rs1", "imm"}
    BY <1>1, <1>15 DEF IntRoles, FormatRoles, ReadsSp
  <2>2. L = StackForm("rd", lay)
    BY <1>0, <1>1, <1>3, <1>15, <2>1 DEF Assembly
  <2>3. s = [imm |-> 2]
    BY <1>1, <1>15 DEF IntSources, s
  <2>4. CASE lay = "iss"
    <3>1. L[s["imm"]] = "rs1" /\ s["imm"] \in DOMAIN L /\ n \in BaseForms
      BY <1>0, <1>1, <1>15, <2>2, <2>3, <2>4 DEF StackForm, BaseForms
    <3>2. QED
      BY <1>0, <2>1, <2>2, <2>3, <2>4, <3>1, <1>15 DEF StackForm, OperandCount
  <2>5. CASE lay # "iss"
    BY <1>0, <2>1, <2>2, <2>3, <2>5, <1>15 DEF StackForm, OperandCount
  <2>6. QED
    BY <2>4, <2>5
<1>16. CASE a.format = "CI_FORMAT" /\ a.category # "LOAD" /\ n # "C_ADDI16SP"
  <2>1. IntRoles(n, a) = {"rd", "imm"}
    BY <1>1, <1>16 DEF IntRoles, FormatRoles, ReadsSp
  <2>2. L = <<"rd", "imm">>
    BY <1>0, <1>1, <1>3, <1>16, <2>1 DEF Assembly
  <2>3. s = [imm |-> 2]
    BY <1>1, <1>16 DEF IntSources, s
  <2>4. QED
    BY <1>0, <1>16, <2>1, <2>2, <2>3 DEF OperandCount
<1>17. CASE a.format = "CIW_FORMAT"
  <2>1. IntRoles(n, a) = {"rd", "rs1", "imm"}
    BY <1>1, <1>17 DEF IntRoles, FormatRoles, ReadsSp
  <2>2. L = <<"rd", "rs1", "imm">>
    BY <1>0, <1>1, <1>3, <1>17, <2>1 DEF Assembly
  <2>3. s = <<>>
    BY <1>1, <1>17 DEF IntSources, s
  <2>4. QED
    BY <1>0, <1>17, <2>1, <2>2, <2>3 DEF OperandCount
<1>18. CASE a.format = "CL_FORMAT"
  <2>1. IntRoles(n, a) = {"rd", "rs1", "imm"}
    BY <1>1, <1>18 DEF IntRoles, FormatRoles, ReadsSp
  <2>2. L = BaseForm("rd", lay)
    BY <1>0, <1>1, <1>3, <1>18, <2>1 DEF Assembly
  <2>3. s = [imm |-> 2, rs1 |-> 3]
    BY <1>1, <1>18 DEF IntSources, s
  <2>4. CASE lay = "iss"
    <3>1. L[s["imm"]] = "rs1" /\ s["imm"] \in DOMAIN L /\ n \in BaseForms
      BY <1>0, <1>1, <1>18, <2>2, <2>3, <2>4 DEF BaseForm, BaseForms
    <3>2. QED
      BY <1>0, <2>1, <2>2, <2>3, <2>4, <3>1, <1>18 DEF BaseForm, OperandCount
  <2>5. CASE lay # "iss"
    BY <1>0, <2>1, <2>2, <2>3, <2>5, <1>18 DEF BaseForm, OperandCount
  <2>6. QED
    BY <2>4, <2>5
<1>19. CASE a.format = "CS_FORMAT"
  <2>1. IntRoles(n, a) = {"rs1", "rs2", "imm"}
    BY <1>1, <1>19 DEF IntRoles, FormatRoles, ReadsSp
  <2>2. L = BaseForm("rs2", lay)
    BY <1>0, <1>1, <1>3, <1>19, <2>1 DEF Assembly
  <2>3. s = [rs2 |-> 1, rs1 |-> 3, imm |-> 2]
    BY <1>1, <1>19 DEF IntSources, s
  <2>4. CASE lay = "iss"
    <3>1. L[s["imm"]] = "rs1" /\ s["imm"] \in DOMAIN L /\ n \in BaseForms
      BY <1>0, <1>1, <1>19, <2>2, <2>3, <2>4 DEF BaseForm, BaseForms
    <3>2. QED
      BY <1>0, <2>1, <2>2, <2>3, <2>4, <3>1, <1>19 DEF BaseForm, OperandCount
  <2>5. CASE lay # "iss"
    BY <1>0, <2>1, <2>2, <2>3, <2>5, <1>19 DEF BaseForm, OperandCount
  <2>6. QED
    BY <2>4, <2>5
<1>20. CASE a.format = "CSS_FORMAT"
  <2>1. IntRoles(n, a) = {"rs1", "rs2", "imm"}
    BY <1>1, <1>20 DEF IntRoles, FormatRoles, ReadsSp
  <2>2. L = StackForm("rs2", lay)
    BY <1>0, <1>1, <1>3, <1>20, <2>1 DEF Assembly
  <2>3. s = [rs2 |-> 1, imm |-> 2]
    BY <1>1, <1>20 DEF IntSources, s
  <2>4. CASE lay = "iss"
    <3>1. L[s["imm"]] = "rs1" /\ s["imm"] \in DOMAIN L /\ n \in BaseForms
      BY <1>0, <1>1, <1>20, <2>2, <2>3, <2>4 DEF StackForm, BaseForms
    <3>2. QED
      BY <1>0, <2>1, <2>2, <2>3, <2>4, <3>1, <1>20 DEF StackForm, OperandCount
  <2>5. CASE lay # "iss"
    BY <1>0, <2>1, <2>2, <2>3, <2>5, <1>20 DEF StackForm, OperandCount
  <2>6. QED
    BY <2>4, <2>5
<1>21. CASE a.format = "CA_FORMAT"
  <2>1. IntRoles(n, a) = {"rd", "rs1", "rs2"}
    BY <1>1, <1>21 DEF IntRoles, FormatRoles, ReadsSp
  <2>2. L = <<"rs1", "rs2">>
    BY <1>0, <1>1, <1>3, <1>21, <2>1 DEF Assembly
  <2>3. s = [rs2 |-> 2, rs1 |-> 1]
    BY <1>1, <1>21 DEF IntSources, s
  <2>4. QED
    BY <1>0, <1>21, <2>1, <2>2, <2>3 DEF OperandCount
<1>22. CASE a.format = "CB_FORMAT"
  <2>1. {"rs1", "imm"} \subseteq IntRoles(n, a)
    BY <1>1, <1>22 DEF IntRoles, FormatRoles, ReadsSp
  <2>2. L = <<"rs1", "imm">>
    BY <1>0, <1>1, <1>3, <1>22, <2>1 DEF Assembly
  <2>3. s = [rs1 |-> 1, imm |-> 2]
    BY <1>1, <1>22 DEF IntSources, s
  <2>4. QED
    BY <1>0, <1>22, <2>1, <2>2, <2>3 DEF OperandCount
<1>23. CASE a.format = "CR_FORMAT" /\ n \in {"C_JR", "C_JALR"}
  <2>1. "rs1" \in IntRoles(n, a)
    BY <1>1, <1>23 DEF IntRoles, FormatRoles, ReadsSp
  <2>2. L = <<"rs1">>
    BY <1>0, <1>1, <1>3, <1>23, <2>1 DEF Assembly
  <2>3. s = [rs1 |-> 1]
    BY <1>1, <1>23 DEF IntSources, s
  <2>4. QED
    BY <1>0, <1>23, <2>1, <2>2, <2>3 DEF OperandCount
<1>24. CASE a.format = "CR_FORMAT" /\ n \notin {"C_JR", "C_JALR"}
  <2>1. IntRoles(n, a) = {"rd", "rs2"}
    BY <1>1, <1>24 DEF IntRoles, FormatRoles, ReadsSp
  <2>2. L = <<"rd", "rs2">>
    BY <1>0, <1>1, <1>3, <1>24, <2>1 DEF Assembly
  <2>3. s = [rs2 |-> 2]
    BY <1>1, <1>24 DEF IntSources, s
  <2>4. QED
    BY <1>0, <1>24, <2>1, <2>2, <2>3 DEF OperandCount
<1>25. CASE a.format = "CJ_FORMAT"
  <2>1. "imm" \in IntRoles(n, a)
    BY <1>1, <1>25 DEF IntRoles, FormatRoles, ReadsSp
  <2>2. L = <<"imm">>
    BY <1>0, <1>1, <1>3, <1>25, <2>1 DEF Assembly
  <2>3. s = [imm |-> 1]
    BY <1>1, <1>25 DEF IntSources, s
  <2>4. QED
    BY <1>0, <1>25, <2>1, <2>2, <2>3 DEF OperandCount
<1>26. QED
  BY <1>0, <1>1, <1>5, <1>6, <1>7, <1>8, <1>9, <1>10, <1>11, <1>12, <1>13, <1>14,
     <1>15, <1>16, <1>17, <1>18, <1>19, <1>20, <1>21, <1>22, <1>23, <1>24, <1>25
     DEF FormatRoles

-----------------------------------------------------------------------------
(* The operands of the floating-point forms, in the order of the text.     *)
Shown(R, r) == IF r \in R THEN <<r>> ELSE <<>>
InOrder(R) ==
  Shown(R, "rd") \o Shown(R, "fd") \o Shown(R, "rs1") \o Shown(R, "fs1")
    \o Shown(R, "fs2") \o Shown(R, "fs3")

(* Operands put one behind the other.                                      *)
LEMMA WithOne ==
  ASSUME NEW a
  PROVE  <<>> \o <<>> = <<>> /\ <<>> \o <<a>> = <<a>> /\ <<a>> \o <<>> = <<a>>
<1>1. <<>> \in Seq({a}) /\ <<a>> \in Seq({a})
  OBVIOUS
<1>2. QED
  BY <1>1, ConcatEmptySeq

(* Joining two names shown one by one.                                     *)
LEMMA WithTwo ==
  ASSUME NEW a, NEW b
  PROVE  <<a>> \o <<b>> = <<a, b>> /\ <<a, b>> \o <<>> = <<a, b>>
<1> DEFINE s == <<a>> \o <<b>>
           t == <<a, b>>
<1>1. <<a>> \in Seq({a, b}) /\ <<b>> \in Seq({a, b}) /\ t \in Seq({a, b})
  OBVIOUS
<1>2. Len(s) = 2 /\ s \in Seq({a, b})
  BY <1>1, ConcatProperties
<1>3. s[1] = a /\ s[2] = b
  BY <1>1, ConcatProperties
<1>4. Len(t) = 2 /\ t[1] = a /\ t[2] = b
  OBVIOUS
<1> HIDE DEF s, t
<1>5. \A k \in 1 .. Len(s) : s[k] = t[k]
  BY <1>2, <1>3, <1>4
<1>6. s = t
  BY <1>1, <1>2, <1>4, <1>5, SeqEqual
<1>7. QED
  BY <1>1, <1>6, ConcatEmptySeq DEF s, t

(* Joining three names.                                                    *)
LEMMA WithThree ==
  ASSUME NEW a, NEW b, NEW c
  PROVE  <<a, b>> \o <<c>> = <<a, b, c>> /\ <<a, b, c>> \o <<>> = <<a, b, c>>
<1> DEFINE s == <<a, b>> \o <<c>>
           t == <<a, b, c>>
<1>1. /\ <<a, b>> \in Seq({a, b, c}) /\ <<c>> \in Seq({a, b, c})
      /\ t \in Seq({a, b, c})
  OBVIOUS
<1>2. Len(s) = 3 /\ s \in Seq({a, b, c})
  BY <1>1, ConcatProperties
<1>3. s[1] = a /\ s[2] = b /\ s[3] = c
  BY <1>1
<1>4. Len(t) = 3 /\ t[1] = a /\ t[2] = b /\ t[3] = c
  OBVIOUS
<1> HIDE DEF s, t
<1>5. \A k \in 1 .. Len(s) : s[k] = t[k]
  BY <1>2, <1>3, <1>4
<1>6. s = t
  BY <1>1, <1>2, <1>4, <1>5, SeqEqual
<1>7. QED
  BY <1>1, <1>6, ConcatEmptySeq DEF s, t

(* Joining four names.                                                     *)
LEMMA WithFour ==
  ASSUME NEW a, NEW b, NEW c, NEW d
  PROVE  <<a, b, c>> \o <<d>> = <<a, b, c, d>>
<1> DEFINE s == <<a, b, c>> \o <<d>>
           t == <<a, b, c, d>>
<1>1. /\ <<a, b, c>> \in Seq({a, b, c, d}) /\ <<d>> \in Seq({a, b, c, d})
      /\ t \in Seq({a, b, c, d})
  OBVIOUS
<1>2. Len(s) = 4 /\ s \in Seq({a, b, c, d})
  BY <1>1, ConcatProperties
<1>3. s[1] = a /\ s[2] = b /\ s[3] = c /\ s[4] = d
  BY <1>1
<1>4. Len(t) = 4 /\ t[1] = a /\ t[2] = b /\ t[3] = c /\ t[4] = d
  OBVIOUS
<1> HIDE DEF s, t
<1>5. \A k \in 1 .. Len(s) : s[k] = t[k]
  BY <1>2, <1>3, <1>4
<1>6. s = t
  BY <1>1, <1>2, <1>4, <1>5, SeqEqual
<1>7. QED
  BY <1>6 DEF s, t

(* The operands a floating-point instruction shows, in the order the       *)
(* disassembler prints them.                                               *)
LEMMA ShownInOrder ==
  /\ InOrder({"rd", "fs1"}) = <<"rd", "fs1">>
  /\ InOrder({"fd", "rs1"}) = <<"fd", "rs1">>
  /\ InOrder({"fd", "fs1"}) = <<"fd", "fs1">>
  /\ InOrder({"rd", "fs1", "fs2"}) = <<"rd", "fs1", "fs2">>
  /\ InOrder({"fd", "fs1", "fs2"}) = <<"fd", "fs1", "fs2">>
  /\ InOrder({"fd", "fs1", "fs2", "fs3"}) = <<"fd", "fs1", "fs2", "fs3">>
<1>1. InOrder({"rd", "fs1"}) = <<"rd", "fs1">>
  BY WithOne, WithTwo DEF InOrder, Shown
<1>2. InOrder({"fd", "rs1"}) = <<"fd", "rs1">>
  BY WithOne, WithTwo DEF InOrder, Shown
<1>3. InOrder({"fd", "fs1"}) = <<"fd", "fs1">>
  BY WithOne, WithTwo DEF InOrder, Shown
<1>4. InOrder({"rd", "fs1", "fs2"}) = <<"rd", "fs1", "fs2">>
  <2> DEFINE R == {"rd", "fs1", "fs2"}
  <2>1. /\ Shown(R, "rd") = <<"rd">>
        /\ Shown(R, "fd") = <<>>
        /\ Shown(R, "rs1") = <<>>
        /\ Shown(R, "fs1") = <<"fs1">>
        /\ Shown(R, "fs2") = <<"fs2">>
        /\ Shown(R, "fs3") = <<>>
    BY DEF Shown
  <2> HIDE DEF R
  <2>2. Shown(R, "rd") \o Shown(R, "fd") \o Shown(R, "rs1") = <<"rd">>
    BY <2>1, WithOne
  <2>3. <<"rd">> \o Shown(R, "fs1") = <<"rd", "fs1">>
    BY <2>1, WithTwo
  <2>4. <<"rd", "fs1">> \o Shown(R, "fs2") = <<"rd", "fs1", "fs2">>
    BY <2>1, WithThree
  <2>5. <<"rd", "fs1", "fs2">> \o Shown(R, "fs3") = <<"rd", "fs1", "fs2">>
    BY <2>1, WithThree
  <2>6. QED
    BY <2>2, <2>3, <2>4, <2>5 DEF InOrder, R
<1>5. InOrder({"fd", "fs1", "fs2"}) = <<"fd", "fs1", "fs2">>
  <2> DEFINE R == {"fd", "fs1", "fs2"}
  <2>1. /\ Shown(R, "rd") = <<>>
        /\ Shown(R, "fd") = <<"fd">>
        /\ Shown(R, "rs1") = <<>>
        /\ Shown(R, "fs1") = <<"fs1">>
        /\ Shown(R, "fs2") = <<"fs2">>
        /\ Shown(R, "fs3") = <<>>
    BY DEF Shown
  <2> HIDE DEF R
  <2>2. Shown(R, "rd") \o Shown(R, "fd") \o Shown(R, "rs1") = <<"fd">>
    BY <2>1, WithOne
  <2>3. <<"fd">> \o Shown(R, "fs1") = <<"fd", "fs1">>
    BY <2>1, WithTwo
  <2>4. <<"fd", "fs1">> \o Shown(R, "fs2") = <<"fd", "fs1", "fs2">>
    BY <2>1, WithThree
  <2>5. <<"fd", "fs1", "fs2">> \o Shown(R, "fs3") = <<"fd", "fs1", "fs2">>
    BY <2>1, WithThree
  <2>6. QED
    BY <2>2, <2>3, <2>4, <2>5 DEF InOrder, R
<1>6. InOrder({"fd", "fs1", "fs2", "fs3"}) = <<"fd", "fs1", "fs2", "fs3">>
  <2> DEFINE R == {"fd", "fs1", "fs2", "fs3"}
  <2>1. /\ Shown(R, "rd") = <<>>
        /\ Shown(R, "fd") = <<"fd">>
        /\ Shown(R, "rs1") = <<>>
        /\ Shown(R, "fs1") = <<"fs1">>
        /\ Shown(R, "fs2") = <<"fs2">>
        /\ Shown(R, "fs3") = <<"fs3">>
    BY DEF Shown
  <2> HIDE DEF R
  <2>2. Shown(R, "rd") \o Shown(R, "fd") \o Shown(R, "rs1") = <<"fd">>
    BY <2>1, WithOne
  <2>3. <<"fd">> \o Shown(R, "fs1") = <<"fd", "fs1">>
    BY <2>1, WithTwo
  <2>4. <<"fd", "fs1">> \o Shown(R, "fs2") = <<"fd", "fs1", "fs2">>
    BY <2>1, WithThree
  <2>5. <<"fd", "fs1", "fs2">> \o Shown(R, "fs3") = <<"fd", "fs1", "fs2", "fs3">>
    BY <2>1, WithFour
  <2>6. QED
    BY <2>2, <2>3, <2>4, <2>5 DEF InOrder, R
<1>7. QED
  BY <1>1, <1>2, <1>3, <1>4, <1>5, <1>6

(* The operands of a floating-point instruction that is not a load or a    *)
(* store.                                                                  *)
LEMMA FdRolesOf ==
  ASSUME NEW n \in Listed, IsFd(get_attr_list[n]), n \notin {"FLW", "FLD", "FSW", "FSD"}
  PROVE  LET a == get_attr_list[n]
             has == HasOperands(n, a)
         IN  /\ a.format = "I_FORMAT" /\ n \in FpToIntNames =>
                  Roles(n) = {"rd", "fs1"} /\ ~has.fd /\ has.fs1
             /\ a.format = "I_FORMAT" /\ n \in IntToFpNames =>
                  Roles(n) = {"fd", "rs1"} /\ has.fd /\ ~has.fs1 /\ has.rs1
             /\ a.format = "I_FORMAT" /\ n \notin FpToIntNames \cup IntToFpNames =>
                  Roles(n) = {"fd", "fs1"} /\ has.fd /\ has.fs1
             /\ a.format = "R_FORMAT" /\ a.category = "COMPARE" =>
                  Roles(n) = {"rd", "fs1", "fs2"} /\ ~has.fd
             /\ a.format = "R_FORMAT" /\ n \in ClassifyNames =>
                  Roles(n) = {"rd", "fs1"} /\ ~has.fd
             /\ a.format = "R_FORMAT" /\ a.category # "COMPARE" /\ n \notin ClassifyNames =>
                  Roles(n) = {"fd", "fs1", "fs2"} /\ has.fd
             /\ a.format = "R4_FORMAT" =>
                  Roles(n) = {"fd", "fs1", "fs2", "fs3"} /\ has.fd
<1> DEFINE a == get_attr_list[n]
           has == HasOperands(n, a)
<1>1. FdFacts(n, a.format, a.category)
  BY NameFacts
<1>2. Roles(n) = {r \in {"rd", "fd", "rs1", "fs1", "fs2", "fs3"} :
                    has[r] /\ (r = "rd" => ~has.fd) /\ (r = "rs1" => ~has.fs1)}
  BY <1>1 DEF Roles, FdRoles, FdFacts
<1>3. has = set_fd_mode(n, a, set_mode(a))
  BY DEF HasOperands
<1> HIDE DEF a
<1> USE DEF set_fd_mode, set_mode, FdFacts, FpToIntNames, IntToFpNames
<1>4. CASE a.format = "I_FORMAT"
  <2>1. /\ has.fd = (n \notin FpToIntNames) /\ has.fs1 = (n \notin IntToFpNames)
        /\ has.rd /\ has.rs1 /\ ~has.fs2 /\ ~has.fs3
    BY <1>1, <1>3, <1>4
  <2> HIDE DEF has
  <2>2. n \in FpToIntNames => n \notin IntToFpNames /\ Roles(n) = {"rd", "fs1"}
    BY <1>2, <2>1
  <2>3. n \in IntToFpNames => Roles(n) = {"fd", "rs1"}
    BY <1>2, <2>1, <2>2
  <2>4. n \notin FpToIntNames \cup IntToFpNames => Roles(n) = {"fd", "fs1"}
    BY <1>2, <2>1
  <2> HIDE DEF FpToIntNames, IntToFpNames
  <2>5. QED
    BY <1>4, <2>1, <2>2, <2>3, <2>4 DEF a, has
<1>5. CASE a.format = "R_FORMAT"
  <2>1. /\ has.fd = ~(a.category = "COMPARE" \/ n \in ClassifyNames)
        /\ has.fs2 = (n \notin ClassifyNames) /\ has.fs1 /\ has.rd /\ has.rs1 /\ ~has.fs3
    BY <1>1, <1>3, <1>5
  <2> HIDE DEF has
  <2>2. n \in ClassifyNames => a.category # "COMPARE" /\ Roles(n) = {"rd", "fs1"}
    BY <1>1, <1>2, <2>1
  <2>3. a.category = "COMPARE" => Roles(n) = {"rd", "fs1", "fs2"}
    BY <1>1, <1>2, <2>1, <2>2
  <2>4. a.category # "COMPARE" /\ n \notin ClassifyNames => Roles(n) = {"fd", "fs1", "fs2"}
    BY <1>2, <2>1
  <2>5. QED
    BY <1>5, <2>1, <2>2, <2>3, <2>4 DEF a, has
<1>6. CASE a.format = "R4_FORMAT"
  <2>1. has.fd /\ has.fs1 /\ has.fs2 /\ has.fs3 /\ has.rd /\ has.rs1
    BY <1>1, <1>3, <1>6
  <2> HIDE DEF has
  <2>2. QED
    BY <1>1, <1>2, <1>6, <2>1 DEF a, has
<1>7. QED
  BY <1>1, <1>4, <1>5, <1>6 DEF a, has

(* The kinds of the operands read from the places of a list of roles.      *)
KindsRead(s, L) ==
  \A f \in DOMAIN s : s[f] \in 1 .. Len(L) /\ Kind(L[s[f]]) \in KindOf(f)

(* The moves with an old name.                                             *)
LEMMA MovesRenamed ==
  /\ Range(update_instr_name) = SignInjection \cup {"FMV_W_X", "FMV_X_W"}
  /\ DOMAIN update_instr_name \cap Listed = {}
  BY OtherNamesNotListed DEF update_instr_name, Range, SignInjection

(* The text of such an instruction is read without an exception.           *)
LEMMA FdOrder ==
  ASSUME NEW n \in Listed, IsFd(get_attr_list[n]), n \notin {"FLW", "FLD", "FSW", "FSD"},
         NEW R, R = Roles(n) \/ (n \in Range(update_instr_name) /\ R = Roles(n) \ {"fs2"})
  PROVE  LET a == get_attr_list[n]
             L == InOrder(R)
         IN  /\ L \in Seq(R) /\ Len(L) = OperandCount(a, Len(L))
             /\ KindsRead(FdSources(n, a, Len(L)), L)
             /\ "fd" \in R <=> HasOperands(n, a).fd
             /\ "rd" \in R <=> ~HasOperands(n, a).fd
<1> DEFINE a == get_attr_list[n]
           L == InOrder(R)
           has == HasOperands(n, a)
           s == FdSources(n, a, Len(L))
<1>1. FdFacts(n, a.format, a.category) /\ IsFd(a)
  BY NameFacts
<1>2. SUFFICES /\ L \in Seq(R) /\ Len(L) = OperandCount(a, Len(L)) /\ KindsRead(s, L)
               /\ "fd" \in R <=> has.fd
               /\ "rd" \in R <=> ~has.fd
  BY Zenon
<1>3. a = get_attr_list[n]
  OBVIOUS
<1> HIDE DEF a, has
<1>4. CASE a.format = "I_FORMAT" /\ n \in FpToIntNames
  <2>1. Roles(n) = {"rd", "fs1"} /\ ~has.fd /\ has.fs1
    BY <1>3, <1>4, FdRolesOf DEF has
  <2>2. R = {"rd", "fs1"}
    BY <2>1
  <2>3. L = <<"rd", "fs1">>
    BY <2>2, ShownInOrder
  <2> HIDE DEF L
  <2>4. s = [fs1 |-> 2]
    BY <1>1, <1>4, <2>1, <2>3 DEF FdSources, has, FdFacts
  <2> HIDE DEF s
  <2>5. KindsRead(s, L)
    BY <2>3, <2>4 DEF KindsRead, Kind, KindOf
  <2>6. QED
    BY <1>1, <1>4, <2>1, <2>2, <2>3, <2>5 DEF OperandCount
<1>5. CASE a.format = "I_FORMAT" /\ n \in IntToFpNames
  <2>1. Roles(n) = {"fd", "rs1"} /\ has.fd /\ ~has.fs1 /\ has.rs1
    BY <1>3, <1>5, FdRolesOf DEF has
  <2>2. R = {"fd", "rs1"}
    BY <2>1
  <2>3. L = <<"fd", "rs1">>
    BY <2>2, ShownInOrder
  <2> HIDE DEF L
  <2>4. s = [rs1 |-> 2]
    BY <1>1, <1>5, <2>1, <2>3 DEF FdSources, has, FdFacts
  <2> HIDE DEF s
  <2>5. KindsRead(s, L)
    BY <2>3, <2>4 DEF KindsRead, Kind, KindOf
  <2>6. QED
    BY <1>1, <1>5, <2>1, <2>2, <2>3, <2>5 DEF OperandCount
<1>6. CASE a.format = "I_FORMAT" /\ n \notin FpToIntNames \cup IntToFpNames
  <2>1. Roles(n) = {"fd", "fs1"} /\ has.fd /\ has.fs1
    BY <1>3, <1>6, FdRolesOf DEF has
  <2>2. R = {"fd", "fs1"}
    BY <2>1
  <2>3. L = <<"fd", "fs1">>
    BY <2>2, ShownInOrder
  <2> HIDE DEF L
  <2>4. s = [fs1 |-> 2]
    BY <1>1, <1>6, <2>1, <2>3 DEF FdSources, has, FdFacts
  <2> HIDE DEF s
  <2>5. KindsRead(s, L)
    BY <2>3, <2>4 DEF KindsRead, Kind, KindOf
  <2>6. QED
    BY <1>1, <1>6, <2>1, <2>2, <2>3, <2>5 DEF OperandCount
<1>7. CASE a.format = "R_FORMAT" /\ a.category = "COMPARE"
  <2>1. Roles(n) = {"rd", "fs1", "fs2"} /\ ~has.fd
    BY <1>3, <1>7, FdRolesOf DEF has
  <2>2. R = {"rd", "fs1", "fs2"}
    BY <1>1, <1>7, <2>1, MovesRenamed DEF FdFacts, FpToIntNames, IntToFpNames
  <2>3. L = <<"rd", "fs1", "fs2">>
    BY <2>2, ShownInOrder
  <2> HIDE DEF L
  <2>4. s = <<>>
    BY <1>1, <1>7, <2>1, <2>3 DEF FdSources, SignInjection, ClassifyNames, FdFacts
  <2> HIDE DEF s
  <2>5. KindsRead(s, L)
    BY <2>3, <2>4 DEF KindsRead, Kind, KindOf
  <2>6. QED
    BY <1>1, <1>7, <2>1, <2>2, <2>3, <2>5 DEF OperandCount
<1>8. CASE a.format = "R_FORMAT" /\ n \in ClassifyNames
  <2>1. Roles(n) = {"rd", "fs1"} /\ ~has.fd
    BY <1>3, <1>8, FdRolesOf DEF has
  <2>2. R = {"rd", "fs1"}
    BY <2>1
  <2>3. L = <<"rd", "fs1">>
    BY <2>2, ShownInOrder
  <2> HIDE DEF L
  <2>4. s = <<>>
    BY <1>1, <1>8, <2>1, <2>3 DEF FdSources, SignInjection, ClassifyNames, FdFacts
  <2> HIDE DEF s
  <2>5. KindsRead(s, L)
    BY <2>3, <2>4 DEF KindsRead, Kind, KindOf
  <2>6. QED
    BY <1>1, <1>8, <2>1, <2>2, <2>3, <2>5 DEF OperandCount
<1>9. CASE a.format = "R_FORMAT" /\ a.category # "COMPARE" /\ n \notin ClassifyNames
  <2>1. Roles(n) = {"fd", "fs1", "fs2"} /\ has.fd
    BY <1>3, <1>9, FdRolesOf DEF has
  <2>2. CASE R = {"fd", "fs1", "fs2"}
    <3>1. L = <<"fd", "fs1", "fs2">>
      BY <2>2, ShownInOrder
    <3> HIDE DEF L
    <3>2. s = <<>>
      BY <1>9, <3>1 DEF FdSources
    <3> HIDE DEF s
    <3>3. KindsRead(s, L)
      BY <3>2 DEF KindsRead
    <3>4. QED
      BY <1>1, <1>9, <2>1, <2>2, <3>1, <3>3 DEF OperandCount
  <2>3. CASE R # {"fd", "fs1", "fs2"}
    <3>1. n \in SignInjection /\ R = {"fd", "fs1"}
      BY <1>1, <1>9, <2>1, <2>3, MovesRenamed DEF FdFacts, IntToFpNames, FpToIntNames
    <3>2. L = <<"fd", "fs1">>
      BY <3>1, ShownInOrder
    <3> HIDE DEF L
    <3>3. s = [fs1 |-> 2, fs2 |-> 1]
      BY <1>9, <3>1, <3>2 DEF FdSources
    <3> HIDE DEF s
    <3>4. KindsRead(s, L)
      BY <3>2, <3>3 DEF KindsRead, Kind, KindOf
    <3>5. QED
      BY <1>1, <1>9, <2>1, <3>1, <3>2, <3>4 DEF OperandCount
  <2>4. QED
    BY <2>2, <2>3
<1>10. CASE a.format = "R4_FORMAT"
  <2>1. Roles(n) = {"fd", "fs1", "fs2", "fs3"} /\ has.fd
    BY <1>3, <1>10, FdRolesOf DEF has
  <2>2. R = {"fd", "fs1", "fs2", "fs3"}
    BY <1>1, <1>10, <2>1, MovesRenamed DEF FdFacts, FpToIntNames, IntToFpNames
  <2>3. L = <<"fd", "fs1", "fs2", "fs3">>
    BY <2>2, ShownInOrder
  <2> HIDE DEF L
  <2>4. s = [fs1 |-> 2, fs2 |-> 3, fs3 |-> 4]
    BY <1>1, <1>10, <2>1, <2>3 DEF FdSources, has, FdFacts
  <2> HIDE DEF s
  <2>5. KindsRead(s, L)
    BY <2>3, <2>4 DEF KindsRead, Kind, KindOf
  <2>6. QED
    BY <1>1, <1>10, <2>1, <2>2, <2>3, <2>5 DEF OperandCount
<1>11. QED
  BY <1>1, <1>4, <1>5, <1>6, <1>7, <1>8, <1>9, <1>10 DEF FdFacts

-----------------------------------------------------------------------------
(* Pseudo instructions.                                                    *)

(* An element taken out of a sequence and put back at its place.           *)
LEMMA RemovedAndInserted ==
  ASSUME NEW S, NEW o \in Seq(S), NEW i \in 1 .. Len(o)
  PROVE  /\ RemoveAt(o, i) \in Seq(S)
         /\ Len(RemoveAt(o, i)) = Len(o) - 1
         /\ InsertAt(RemoveAt(o, i), i, o[i]) = o
<1> DEFINE u == SubSeq(o, 1, i - 1)
           w == SubSeq(o, i + 1, Len(o))
           r == u \o w
<1>1. Len(o) \in Nat /\ i \in Nat /\ i > 0 /\ i <= Len(o)
  OBVIOUS
<1>2. u \in Seq(S) /\ Len(u) = i - 1 /\ \A k \in 1 .. i - 1 : u[k] = o[k]
  BY <1>1
<1>3. /\ w \in Seq(S) /\ Len(w) = Len(o) - i
      /\ \A k \in 1 .. Len(o) - i : w[k] = o[i + k]
  BY <1>1
<1>4. RemoveAt(o, i) = r
  BY DEF RemoveAt
<1> HIDE DEF u, w
<1>5. r \in Seq(S) /\ Len(r) = Len(o) - 1
  <2>1. r \in Seq(S) /\ Len(r) = Len(u) + Len(w)
    BY <1>2, <1>3, ConcatProperties
  <2>2. QED
    BY <1>1, <1>2, <1>3, <2>1
<1>6. \A k \in 1 .. i - 1 : r[k] = o[k]
  BY <1>1, <1>2, <1>3
<1>7. \A k \in i .. Len(o) - 1 : r[k] = o[k + 1]
  <2> TAKE k \in i .. Len(o) - 1
  <2>1. k - (i - 1) \in 1 .. Len(o) - i /\ k \in 1 .. Len(o) - 1 /\ k > i - 1
    BY <1>1
  <2>2. r[k] = w[k - (i - 1)]
    BY <1>1, <1>2, <1>3, <2>1
  <2>3. w[k - (i - 1)] = o[i + (k - (i - 1))] /\ i + (k - (i - 1)) = k + 1
    BY <1>1, <1>3, <2>1
  <2>4. QED
    BY <2>2, <2>3
<1> HIDE DEF r
<1> DEFINE b == SubSeq(r, 1, i - 1)
           c == SubSeq(r, i, Len(r))
           d == b \o <<o[i]>>
<1>8. b \in Seq(S) /\ Len(b) = i - 1 /\ \A k \in 1 .. i - 1 : b[k] = o[k]
  <2>1. b \in Seq(S) /\ Len(b) = i - 1 /\ \A k \in 1 .. i - 1 : b[k] = r[k]
    BY <1>1, <1>5
  <2>2. QED
    BY <1>6, <2>1
<1>9. /\ c \in Seq(S) /\ Len(c) = Len(o) - i
      /\ \A k \in 1 .. Len(o) - i : c[k] = o[i + k]
  <2>1. /\ c \in Seq(S) /\ Len(c) = Len(o) - i
        /\ \A k \in 1 .. Len(o) - i : c[k] = r[i + k - 1]
    BY <1>1, <1>5
  <2>2. \A k \in 1 .. Len(o) - i : r[i + k - 1] = o[i + k]
    BY <1>1, <1>7
  <2>3. QED
    BY <2>1, <2>2
<1> HIDE DEF b, c
<1>10. /\ d \in Seq(S) /\ Len(d) = i /\ d[i] = o[i]
       /\ \A k \in 1 .. i - 1 : d[k] = o[k]
  BY <1>1, <1>8
<1>11. InsertAt(r, i, o[i]) = d \o c
  BY DEF InsertAt, b, c, d
<1> HIDE DEF d
<1>12. d \o c \in Seq(S) /\ Len(d \o c) = Len(o)
  <2>1. d \o c \in Seq(S) /\ Len(d \o c) = Len(d) + Len(c)
    BY <1>9, <1>10, ConcatProperties
  <2>2. QED
    BY <1>1, <1>9, <1>10, <2>1
<1>13. \A k \in 1 .. i : (d \o c)[k] = o[k]
  BY <1>1, <1>9, <1>10
<1>14. \A k \in i + 1 .. Len(o) : (d \o c)[k] = o[k]
  <2> TAKE k \in i + 1 .. Len(o)
  <2>1. k - i \in 1 .. Len(o) - i /\ k \in 1 .. Len(o) /\ k > i
    BY <1>1
  <2>2. (d \o c)[k] = c[k - i]
    BY <1>1, <1>9, <1>10, <2>1
  <2>3. c[k - i] = o[i + (k - i)] /\ i + (k - i) = k
    BY <1>1, <1>9, <2>1
  <2>4. QED
    BY <2>2, <2>3
<1>15. d \o c = o
  <2>1. \A k \in 1 .. Len(o) : k \in 1 .. i \/ k \in i + 1 .. Len(o)
    BY <1>1
  <2>2. \A k \in 1 .. Len(o) : (d \o c)[k] = o[k]
    BY <1>13, <1>14, <2>1, Zenon
  <2>3. QED
    BY <1>12, <2>2, SeqEqual
<1>16. QED
  BY <1>4, <1>5, <1>11, <1>15

(* The forms a simulator prints are those the converters turn back, but    *)
(* for the read of a CSR.                                                  *)
LEMMA FormsMatch ==
  ASSUME NEW f \in PrintedForms, NEW g \in ConvertedForms, f[1] = g[1]
  PROVE  \/ f[1] # "CSRR" /\ g = f
         \/ f[1] = "CSRR" /\ f[2] = "CSRRS" /\ f[3] = 3 /\ f[4] = g[4] /\ g[2] = "CSRRW" /\ g[3] = 3
  BY DEF PrintedForms, ConvertedForms

(* What a printed form says of its name, and of the one it stands for.     *)
LEMMA FormOf ==
  ASSUME NEW f \in PrintedForms
  PROVE  /\ f[1] \in PseudoNames \cup {"JAL"}
         /\ f[1] = "JAL" => f[2] = "JAL"
         /\ f[3] \in 1 .. 3
         /\ f[2] # "NOP"
         /\ \E g \in ConvertedForms : g[1] = f[1]
  BY DEF PrintedForms, ConvertedForms, PseudoNames

(* A base form whose pseudo name is turned back is the same row again.     *)
LEMMA TurnedBack ==
  ASSUME NEW S, NEW o \in Seq(S), NEW f \in PrintedForms,
         f[3] <= Len(o), o[f[3]] = f[4], f[1] = "JAL" => Len(o) = 2
  PROVE  LET t == convert_pseudo_instr(f[1], RemoveAt(o, f[3]))
         IN  t = <<f[2], o>> \/ (f[2] = "CSRRS" /\ t = <<"CSRRW", o>>)
<1> DEFINE q == RemoveAt(o, f[3])
           forms == {h \in ConvertedForms : h[1] = f[1]}
           g == CHOOSE h \in forms : TRUE
<1>1. f[3] \in 1 .. Len(o) /\ Len(o) \in Nat
  BY FormOf
<1>2. InsertAt(q, f[3], f[4]) = o /\ Len(q) = Len(o) - 1
  BY <1>1, RemovedAndInserted
<1>3. forms # {} /\ g \in forms
  BY FormOf
<1>4. g \in ConvertedForms /\ g[1] = f[1]
  BY <1>3
<1>5. f[1] # "NOP" /\ ~(f[1] = "JAL" /\ Len(q) = 2)
  BY <1>1, <1>2, FormOf DEF PseudoNames
<1> HIDE DEF q
<1>6. convert_pseudo_instr(f[1], q) = <<g[2], InsertAt(q, g[3], g[4])>>
  BY <1>3, <1>5, Zenon DEF convert_pseudo_instr
<1> HIDE DEF g, forms
<1>7. CASE f[1] # "CSRR"
  <2>1. g = f
    BY <1>4, <1>7, FormsMatch
  <2>2. QED
    BY <1>2, <1>6, <2>1 DEF q
<1>8. CASE f[1] = "CSRR"
  <2>1. f[2] = "CSRRS" /\ f[3] = g[3] /\ f[4] = g[4] /\ g[2] = "CSRRW"
    BY <1>4, <1>8, FormsMatch
  <2>2. QED
    BY <1>2, <1>6, <2>1 DEF q
<1>9. QED
  BY <1>7, <1>8

(* What the converters make of the row of a known instruction: the row     *)
(* again, but for the read of a CSR, which they take for a write, and for  *)
(* NOP.                                                                    *)
LEMMA ConvertedRow ==
  ASSUME NEW S, NEW o \in Seq(S), NEW n \in Listed, NEW lay,
         n = "JAL" => Len(o) = 2, n = "NOP" => o = <<>>
  PROVE  LET t == Converted(n, o, lay)
         IN  \/ t = <<n, o>>
             \/ n = "CSRRS" /\ t = <<"CSRRW", o>>
             \/ n = "NOP" /\ t = <<"ADDI", <<Zero, Zero, Imm(0)>>>>
<1> DEFINE d == Disassemble(n, o)
           forms == {f \in PrintedForms :
                       f[2] = n /\ f[3] <= Len(o) /\ o[f[3]] = f[4]}
           f == CHOOSE g \in forms : TRUE
<1>1. CASE lay # "iss"
  BY <1>1 DEF Converted
<1>2. CASE lay = "iss"
  <2>1. Converted(n, o, lay) = convert_pseudo_instr(d[1], d[2])
    BY <1>2, Zenon DEF Converted
  <2>2. CASE n = "ADDI" /\ o = <<Zero, Zero, Imm(0)>>
    <3>0. forms # {}
      <4>1. <<"MV", "ADDI", 3, Imm(0)>> \in PrintedForms
        BY DEF PrintedForms, ConvertedForms
      <4>2. Len(o) = 3 /\ o[3] = Imm(0)
        BY <2>2
      <4>3. <<"MV", "ADDI", 3, Imm(0)>> \in forms
        BY <2>2, <4>1, <4>2
      <4>4. QED
        BY <4>3
    <3>1. d = <<"NOP", <<>>>>
      BY <2>2, <3>0, Zenon DEF Disassemble
    <3> HIDE DEF d
    <3>2. convert_pseudo_instr("NOP", <<>>) = <<n, o>>
      BY <2>2, Zenon DEF convert_pseudo_instr
    <3>3. QED
      BY <2>1, <3>1, <3>2
  <2>3. CASE ~(n = "ADDI" /\ o = <<Zero, Zero, Imm(0)>>) /\ forms = {}
    <3>1. d = <<n, o>>
      BY <2>3, Zenon DEF Disassemble
    <3> HIDE DEF d
    <3>2. CASE n = "NOP"
      <4>1. convert_pseudo_instr("NOP", <<>>) = <<"ADDI", <<Zero, Zero, Imm(0)>>>>
        BY Zenon DEF convert_pseudo_instr
      <4>2. QED
        BY <2>1, <3>1, <3>2, <4>1
    <3>3. CASE n # "NOP"
      <4>1. n = "JAL" \/ {g \in ConvertedForms : g[1] = n} = {}
        <5>1. \A g \in ConvertedForms : g[1] \in PseudoNames \cup {"JAL"}
          BY DEF ConvertedForms, PseudoNames
        <5>2. QED
          BY <5>1, OtherNamesNotListed
      <4>2. convert_pseudo_instr(n, o) = <<n, o>>
        BY <3>3, <4>1 DEF convert_pseudo_instr
      <4>3. QED
        BY <2>1, <3>1, <4>2
    <3>4. QED
      BY <3>2, <3>3
  <2>4. CASE ~(n = "ADDI" /\ o = <<Zero, Zero, Imm(0)>>) /\ forms # {}
    <3>1. d = <<f[1], RemoveAt(o, f[3])>>
      BY <2>4, Zenon DEF Disassemble
    <3>2. f \in PrintedForms /\ f[2] = n /\ f[3] <= Len(o) /\ o[f[3]] = f[4]
      BY <2>4
    <3> HIDE DEF d, f, forms
    <3>3. f[1] = "JAL" => Len(o) = 2
      BY <3>2, FormOf
    <3>4. QED
      BY <2>1, <3>1, <3>2, <3>3, TurnedBack
  <2>5. QED
    BY <2>2, <2>3, <2>4
<1>3. QED
  BY <1>1, <1>2

(* The text of a floating-point instruction that is not a load or a store. *)
LEMMA FdText ==
  ASSUME NEW n \in Listed, IsFd(get_attr_list[n]), n \notin {"FLW", "FLD", "FSW", "FSD"},
         NEW R, NEW lay
  PROVE  Assembly(n, get_attr_list[n], R, lay) = InOrder(R)
<1> DEFINE a == get_attr_list[n]
<1>1. FdFacts(n, a.format, a.category) /\ IsFd(a)
  BY NameFacts
<1>2. n \notin {"C_LWSP", "C_LDSP", "C_ADDI4SPN", "C_JR", "C_JALR"}
  BY <1>1, NameFacts DEF FdFacts
<1> HIDE DEF a
<1>3. Assembly(n, a, R, lay) = InOrder(R)
  BY <1>1, <1>2 DEF FdFacts, Assembly, InOrder, Shown
<1>4. QED
  BY <1>3 DEF a

-----------------------------------------------------------------------------
(* The row of an instruction.                                              *)

(* The instructions without operands show none.                            *)
LEMMA NothingShown ==
  ASSUME NEW n \in Listed, n \in WithoutOperands \cup {"DRET"}, NEW lay
  PROVE  Roles(n) = {} /\ Order(n, lay) = <<>>
<1> DEFINE a == get_attr_list[n]
<1>1. ~IsFd(a) /\ IntFacts(n, a.format, a.category)
  BY NameFacts DEF FdFacts
<1>2. Roles(n) = {}
  BY DEF Roles
<1>3. Order(n, lay) = Assembly(n, a, {}, lay)
  BY <1>2 DEF Order
<1>4. n \notin {"C_LWSP", "C_LDSP", "C_ADDI4SPN", "C_JR", "C_JALR", "FLW", "FLD", "FSW", "FSD"}
  BY DEF WithoutOperands
<1> HIDE DEF a
<1>5. Assembly(n, a, {}, lay) = <<>>
  BY <1>1, <1>4 DEF IntFacts, Assembly
<1>6. QED
  BY <1>2, <1>3, <1>5

(* The operands shown are operands the instruction has.                    *)
LEMMA ShownAreRoles ==
  ASSUME NEW n \in Listed, NEW lay
  PROVE  /\ Order(n, lay) \in Seq(Roles(n))
         /\ n = "JAL" => Len(Order(n, lay)) = 2
         /\ n = "NOP" => Order(n, lay) = <<>>
<1> DEFINE a == get_attr_list[n]
           L == Order(n, lay)
<1>1. CASE n \in WithoutOperands \cup {"DRET"}
  <2>1. L = <<>> /\ n # "JAL"
    BY <1>1, NothingShown DEF WithoutOperands
  <2>2. QED
    BY <2>1
<1>2. CASE ~IsFd(a) /\ n \notin WithoutOperands \cup {"DRET"}
  <2>1. L \in Seq(Roles(n)) /\ Len(L) = OperandCount(a, Len(L))
    BY <1>2, IntOrder
  <2>2. n = "JAL" => a.format = "J_FORMAT"
    BY <1>2, NameFacts DEF IntFacts
  <2>3. n = "JAL" => Len(L) = 2
    BY <1>2, <2>1, <2>2 DEF OperandCount
  <2>4. n # "NOP"
    BY <1>2 DEF WithoutOperands
  <2>5. QED
    BY <2>1, <2>3, <2>4
<1>3. CASE IsFd(a)
  <2>1. FdFacts(n, a.format, a.category) /\ n \notin {"JAL", "NOP"}
    BY <1>3, NameFacts DEF FdFacts, WithoutOperands
  <2>2. CASE n \in {"FLW", "FLD", "FSW", "FSD"}
    <3>1. Roles(n) = FdRoles(n, a)
      BY <1>3, <2>1 DEF Roles, FdFacts
    <3>2. CASE n \in {"FLW", "FLD"}
      <4>1. Roles(n) = {"fd", "rs1", "imm"}
        BY <3>1, <3>2 DEF FdRoles
      <4>2. Assembly(n, a, Roles(n), lay) = BaseForm("fd", lay)
        BY <1>3, <2>1, <3>2 DEF Assembly, FdFacts
      <4>3. BaseForm("fd", lay) \in Seq({"fd", "rs1", "imm"})
        <5>1. /\ <<"fd", "rs1", "imm">> \in Seq({"fd", "rs1", "imm"})
              /\ <<"fd", "imm", "rs1">> \in Seq({"fd", "rs1", "imm"})
          OBVIOUS
        <5>2. QED
          BY <5>1, Zenon DEF BaseForm
      <4>4. QED
        BY <2>1, <4>1, <4>2, <4>3 DEF Order
    <3>3. CASE n \in {"FSW", "FSD"}
      <4>1. Roles(n) = {"fs2", "rs1", "imm"}
        BY <3>1, <3>3 DEF FdRoles
      <4>2. Assembly(n, a, Roles(n), lay) = BaseForm("fs2", lay)
        BY <1>3, <2>1, <3>3 DEF Assembly, FdFacts
      <4>3. BaseForm("fs2", lay) \in Seq({"fs2", "rs1", "imm"})
        <5>1. /\ <<"fs2", "rs1", "imm">> \in Seq({"fs2", "rs1", "imm"})
              /\ <<"fs2", "imm", "rs1">> \in Seq({"fs2", "rs1", "imm"})
          OBVIOUS
        <5>2. QED
          BY <5>1, Zenon DEF BaseForm
      <4>4. QED
        BY <2>1, <4>1, <4>2, <4>3 DEF Order
    <3>4. QED
      BY <2>2, <3>2, <3>3
  <2>3. CASE n \notin {"FLW", "FLD", "FSW", "FSD"}
    <3>1. L = InOrder(Roles(n))
      BY <1>3, <2>3, FdText DEF Order
    <3>2. QED
      BY <1>3, <2>1, <2>3, <3>1, FdOrder
  <2>4. QED
    BY <2>2, <2>3
<1>4. QED
  BY <1>1, <1>2, <1>3

(* The row of a known instruction: its own, but for the read of a CSR and  *)
(* NOP.                                                                    *)
LEMMA TextOfKnown ==
  ASSUME NEW p, WellFormed(p), p.name \in Listed, NEW lay
  PROVE  LET t == Text(p, lay)
             o == Plain(p, lay)
             L == Order(p.name, lay)
         IN  /\ o = [k \in 1 .. Len(L) |-> Operand(p, L[k])]
             /\ Len(o) = Len(L)
             /\ \/ t.instr = p.name /\ t.operand = o
                \/ p.name = "CSRRS" /\ t.instr = "CSRRW" /\ t.operand = o
                \/ /\ p.name = "NOP" /\ t.instr = "ADDI"
                   /\ t.operand = <<Zero, Zero, Imm(0)>>
<1> DEFINE n == p.name
           L == Order(n, lay)
           o == Plain(p, lay)
           S == {Operand(p, r) : r \in Roles(n)}
           c == Converted(n, o, lay)
<1>1. L \in Seq(Roles(n)) /\ (n = "JAL" => Len(L) = 2) /\ (n = "NOP" => L = <<>>)
  BY ShownAreRoles
<1>2. o = [k \in DOMAIN L |-> Operand(p, L[k])]
  BY Zenon DEF Plain, Order, WellFormed
<1>3. DOMAIN L = 1 .. Len(L) /\ Len(L) \in Nat /\ \A k \in 1 .. Len(L) : L[k] \in Roles(n)
  BY <1>1
<1> HIDE DEF L
<1>4. o = [k \in 1 .. Len(L) |-> Operand(p, L[k])]
  BY <1>2, <1>3
<1>5. o \in Seq(S) /\ Len(o) = Len(L)
  BY <1>3, <1>4, IsASeq
<1>6. n = "NOP" => o = <<>>
  <2>1. n = "NOP" => Len(o) = 0
    BY <1>1, <1>5
  <2>2. QED
    BY <1>5, <2>1, EmptySeq
<1>7. n = "JAL" => Len(o) = 2
  BY <1>1, <1>5
<1> HIDE DEF o, S
<1>8. \/ c = <<n, o>>
      \/ n = "CSRRS" /\ c = <<"CSRRW", o>>
      \/ n = "NOP" /\ c = <<"ADDI", <<Zero, Zero, Imm(0)>>>>
  BY <1>5, <1>6, <1>7, ConvertedRow
<1>9. Text(p, lay).instr = c[1] /\ Text(p, lay).operand = c[2]
  BY DEF Text, o
<1> HIDE DEF c
<1>10. QED
  BY <1>4, <1>5, <1>8, <1>9 DEF L, o

(* The old name of a move is printed as it is.                             *)
LEMMA TextOfMove ==
  ASSUME NEW p, p.name \notin Listed, NEW lay
  PROVE  LET t == Text(p, lay)
             L == InOrder(DOMAIN p.arg)
         IN  /\ t.instr = p.name
             /\ t.operand = [k \in DOMAIN L |-> Operand(p, L[k])]
<1>1. Converted(p.name, Plain(p, lay), lay) = <<p.name, Plain(p, lay)>>
  BY Zenon DEF Converted
<1>2. Assembly(p.name, get_attr_list[p.name], DOMAIN p.arg, lay) = InOrder(DOMAIN p.arg)
  BY Zenon DEF Assembly, InOrder, Shown
<1>3. Plain(p, lay) = [k \in DOMAIN InOrder(DOMAIN p.arg) |->
                            Operand(p, InOrder(DOMAIN p.arg)[k])]
  BY <1>2, Zenon DEF Plain
<1>4. QED
  BY <1>1, <1>3 DEF Text

(* An instruction has at most one destination, the one its result is       *)
(* looked for in.                                                          *)
LEMMA ResultRole ==
  ASSUME NEW n \in Listed
  PROVE  Roles(n) \cap {"rd", "fd"} \subseteq {ResultField(n, get_attr_list[n])}
<1> DEFINE a == get_attr_list[n]
           has == HasOperands(n, a)
<1>1. CASE n \in WithoutOperands \cup {"DRET"}
  BY <1>1, NothingShown
<1>2. CASE ~IsFd(a) /\ n \notin WithoutOperands \cup {"DRET"}
  <2>1. ResultField(n, a) = "rd"
    BY <1>2 DEF ResultField
  <2>2. Roles(n) = IntRoles(n, a) /\ IntFacts(n, a.format, a.category)
    BY <1>2, NameFacts DEF Roles
  <2> HIDE DEF a
  <2>3. "fd" \notin IntRoles(n, a)
    BY <2>2 DEF IntFacts, IntRoles, FormatRoles
  <2>4. QED
    BY <2>1, <2>2, <2>3 DEF a
<1>3. CASE IsFd(a) /\ n \notin WithoutOperands \cup {"DRET"}
  <2>1. FdFacts(n, a.format, a.category)
    BY <1>3, NameFacts
  <2>2. Roles(n) = FdRoles(n, a)
    BY <1>3 DEF Roles
  <2>3. ResultField(n, a) = IF has.fd THEN "fd" ELSE "rd"
    BY <1>3, Zenon DEF ResultField
  <2>4. CASE n \in {"FLW", "FLD"}
    <3>1. a.format = "I_FORMAT"
      BY <2>1, <2>4 DEF FdFacts
    <3>2. has.fd
      BY <1>3, <2>4, <3>1 DEF HasOperands, set_fd_mode, set_mode, FpToIntNames
    <3>3. Roles(n) = {"fd", "rs1", "imm"}
      BY <2>2, <2>4 DEF FdRoles
    <3> HIDE DEF has
    <3>4. QED
      BY <2>3, <3>2, <3>3
  <2>5. CASE n \in {"FSW", "FSD"}
    <3>1. Roles(n) = {"fs2", "rs1", "imm"}
      BY <2>2, <2>5 DEF FdRoles
    <3>2. QED
      BY <3>1
  <2>6. CASE n \notin {"FLW", "FLD", "FSW", "FSD"}
    <3>1. "fd" \in Roles(n) <=> has.fd
      BY <1>3, <2>6, FdOrder
    <3>2. "rd" \in Roles(n) <=> ~has.fd
      BY <1>3, <2>6, FdOrder
    <3> HIDE DEF has
    <3>3. QED
      BY <2>3, <3>1, <3>2
  <2>7. QED
    BY <2>4, <2>5, <2>6
<1>4. QED
  BY <1>1, <1>2, <1>3

(* The name the collector gives an instruction of the program.             *)
LEMMA KnownName ==
  ASSUME NEW p, WellFormed(p), process_instr_name(p.name) \in Listed
  PROVE  /\ DOMAIN p.arg \subseteq Roles(process_instr_name(p.name))
         /\ p.name \in Listed => process_instr_name(p.name) = p.name
         /\ p.name \notin Listed =>
              /\ p.name \in DOMAIN update_instr_name
              /\ process_instr_name(p.name) \in Range(update_instr_name)
              /\ DOMAIN p.arg = Roles(process_instr_name(p.name)) \ {"fs2"}
<1>1. CASE p.name \in Listed
  <2>1. p.name \notin DOMAIN update_instr_name
    BY <1>1, MovesRenamed
  <2>2. process_instr_name(p.name) = p.name
    BY <2>1, Zenon DEF process_instr_name
  <2>3. QED
    BY <1>1, <2>2 DEF WellFormed
<1>2. CASE p.name \notin Listed
  <2>1. p.name \in DOMAIN update_instr_name
    BY <1>2, Zenon DEF process_instr_name
  <2>2. process_instr_name(p.name) = update_instr_name[p.name]
    BY <2>1, Zenon DEF process_instr_name
  <2>3. QED
    BY <1>2, <2>1, <2>2, Zenon DEF WellFormed, Range
<1>3. QED
  BY <1>1, <1>2

(* The register a row reports is the one its result went to.               *)
LEMMA DestOfResult ==
  ASSUME NEW p, WellFormed(p), process_instr_name(p.name) \in Listed
  PROVE  LET q == process_instr_name(p.name)
             f == ResultField(q, get_attr_list[q])
         IN  \A d \in Dest(p) :
               /\ f \in DOMAIN p.arg /\ d = <<Kind(f), p.arg[f]>>
               /\ d[1] \in KindOf(f) /\ d \in Registers /\ d # Zero
<1> DEFINE q == process_instr_name(p.name)
           f == ResultField(q, get_attr_list[q])
<1> SUFFICES ASSUME NEW d \in Dest(p)
             PROVE  /\ f \in DOMAIN p.arg /\ d = <<Kind(f), p.arg[f]>>
                    /\ d[1] \in KindOf(f) /\ d \in Registers /\ d # Zero
  OBVIOUS
<1>1. PICK r \in DOMAIN p.arg \cap {"rd", "fd"} : d = <<Kind(r), p.arg[r]>>
  BY DEF Dest
<1>2. Roles(q) \cap {"rd", "fd"} \subseteq {f} /\ DOMAIN p.arg \subseteq Roles(q)
  BY ResultRole, KnownName
<1> HIDE DEF f, q
<1>3. r = f /\ f \in {"rd", "fd"}
  BY <1>1, <1>2
<1>4. Kind(f) \in {"x", "f"} /\ Kind(f) \in KindOf(f)
  BY <1>3 DEF Kind, KindOf
<1>5. p.arg[f] \in riscv_reg_t
  BY <1>1, <1>3, <1>4 DEF WellFormed
<1>6. QED
  BY <1>1, <1>3, <1>4, <1>5 DEF Registers, Dest

(* A row reports the one register the instruction changes, with its value, *)
(* or none.                                                                *)
LEMMA ReportedRegister ==
  ASSUME NEW p, WellFormed(p), process_instr_name(p.name) \in Listed, NEW lay
  PROVE  LET g == Text(p, lay).gpr
         IN  \/ Dest(p) = {} /\ g = <<>>
             \/ \E d \in Dest(p) : Dest(p) = {d} /\ g = <<<<d, p.value>>>>
<1>1. CASE Dest(p) = {}
  BY <1>1 DEF Text
<1>2. CASE Dest(p) # {}
  <2> DEFINE d == CHOOSE r \in Dest(p) : TRUE
  <2>1. d \in Dest(p)
    BY <1>2
  <2>2. Text(p, lay).gpr = <<<<d, p.value>>>>
    BY <1>2 DEF Text
  <2> HIDE DEF d
  <2>3. Dest(p) = {d}
    BY <2>1, DestOfResult
  <2>4. QED
    BY <2>1, <2>2, <2>3
<1>3. QED
  BY <1>1, <1>2

(* The name in the row and the name the collector gives it.                *)
LEMMA NameInRow ==
  ASSUME NEW p, WellFormed(p), NEW lay, NameOf(Text(p, lay)) \in Listed
  PROVE  LET m == NameOf(Text(p, lay))
             q == process_instr_name(p.name)
         IN  /\ q \in Listed
             /\ \/ m = q
                \/ q = "CSRRS" /\ p.name = "CSRRS" /\ m = "CSRRW"
                \/ q = "NOP" /\ p.name = "NOP" /\ m = "ADDI"
<1>1. CASE p.name \in Listed
  <2>1. process_instr_name(p.name) = p.name
    BY <1>1, MovesRenamed, Zenon DEF process_instr_name
  <2>2. \A x \in {"CSRRW", "ADDI"} : process_instr_name(x) = x
    BY DEF process_instr_name, update_instr_name
  <2>3. QED
    BY <1>1, <2>1, <2>2, TextOfKnown DEF NameOf
<1>2. CASE p.name \notin Listed
  BY <1>2, TextOfMove DEF NameOf
<1>3. QED
  BY <1>1, <1>2

(* The reported register is of the kind the collector converts it to.      *)
LEMMA GprReadable ==
  ASSUME NEW p, WellFormed(p), NEW lay, NameOf(Text(p, lay)) \in Listed
  PROVE  LET t == Text(p, lay)
             m == NameOf(t)
         IN  \A k \in DOMAIN t.gpr :
               t.gpr[k][1][1] \in KindOf(ResultField(m, get_attr_list[m]))
<1> DEFINE t == Text(p, lay)
           m == NameOf(t)
           q == process_instr_name(p.name)
<1>1. q \in Listed
  BY NameInRow
<1>2. CASE m = q
  <2>1. CASE Dest(p) = {}
    BY <1>1, <2>1, ReportedRegister
  <2>2. CASE Dest(p) # {}
    <3>1. PICK d \in Dest(p) : t.gpr = <<<<d, p.value>>>>
      BY <1>1, <2>2, ReportedRegister
    <3>2. d[1] \in KindOf(ResultField(q, get_attr_list[q]))
      BY <1>1, DestOfResult
    <3>3. QED
      BY <1>2, <3>1, <3>2
  <2>3. QED
    BY <2>1, <2>2
<1>3. CASE q = "CSRRS" /\ p.name = "CSRRS" /\ m = "CSRRW"
  <2>1. ~IsFd(get_attr_list[q]) /\ ~IsFd(get_attr_list[m])
    BY <1>1, <1>3, NameFacts DEF FdFacts
  <2>2. ResultField(q, get_attr_list[q]) = "rd" /\ ResultField(m, get_attr_list[m]) = "rd"
    BY <2>1 DEF ResultField
  <2>3. CASE Dest(p) = {}
    BY <1>1, <2>3, ReportedRegister
  <2>4. CASE Dest(p) # {}
    <3>1. PICK d \in Dest(p) : t.gpr = <<<<d, p.value>>>>
      BY <1>1, <2>4, ReportedRegister
    <3>2. d[1] \in KindOf("rd")
      BY <1>1, <2>2, DestOfResult
    <3>3. QED
      BY <2>2, <3>1, <3>2
  <2>5. QED
    BY <2>3, <2>4
<1>4. CASE q = "NOP" /\ p.name = "NOP" /\ m = "ADDI"
  <2>1. Roles(q) = {}
    BY <1>1, <1>4, NothingShown DEF WithoutOperands
  <2>2. Dest(p) = {}
    BY <1>1, <2>1, KnownName DEF Dest
  <2>3. t.gpr = <<>>
    BY <1>1, <2>2, ReportedRegister
  <2>4. QED
    BY <2>3
<1>5. QED
  BY <1>2, <1>3, <1>4, NameInRow

(* The operands of an integer instruction.                                 *)
LEMMA IntRolesOnly ==
  ASSUME NEW n \in Listed, ~IsFd(get_attr_list[n])
  PROVE  Roles(n) \subseteq {"rd", "rs1", "rs2", "imm", "csr"}
<1> DEFINE a == get_attr_list[n]
<1>1. CASE n \in WithoutOperands \cup {"DRET"}
  BY <1>1, NothingShown
<1>2. CASE n \notin WithoutOperands \cup {"DRET"}
  <2>1. Roles(n) = IntRoles(n, a) /\ IntFacts(n, a.format, a.category)
    BY <1>2, NameFacts DEF Roles
  <2> HIDE DEF a
  <2>2. IntRoles(n, a) \subseteq {"rd", "rs1", "rs2", "imm", "csr"}
    BY <2>1 DEF IntFacts, IntRoles, FormatRoles
  <2>3. QED
    BY <2>1, <2>2
<1>3. QED
  BY <1>1, <1>2

(* What the collector finds at the places it reads: the operands, or the   *)
(* base register where it expects the offset.                              *)
LEMMA RowRead ==
  ASSUME NEW p, WellFormed(p), p.name \in Listed, NEW lay,
         ~IsFd(get_attr_list[p.name]), p.name \notin WithoutOperands \cup {"DRET"}
  PROVE  LET a == get_attr_list[p.name]
             o == Plain(p, lay)
             s == IntSources(p.name, a)
         IN  /\ Len(o) = OperandCount(a, Len(o))
             /\ DOMAIN s \subseteq {"rs1", "rs2", "imm", "csr"}
             /\ DOMAIN s \subseteq DOMAIN p.arg
             /\ \/ \A f \in DOMAIN s : s[f] \in 1 .. Len(o) /\ o[s[f]] = Operand(p, f)
                \/ p.name \in BaseForms /\ "imm" \in DOMAIN s /\ o[s["imm"]][1] = "x"
<1> DEFINE n == p.name
           a == get_attr_list[n]
           o == Plain(p, lay)
           s == IntSources(n, a)
           L == Order(n, lay)
<1>1. o = [k \in 1 .. Len(L) |-> Operand(p, L[k])] /\ Len(o) = Len(L)
  BY TextOfKnown
<1>2. /\ L \in Seq(Roles(n)) /\ Len(L) = OperandCount(a, Len(L))
      /\ DOMAIN s \subseteq Roles(n) \ {"rd"}
      /\ Placed(n, lay) \/ Misplaced(n, lay)
  BY IntOrder
<1>3. Roles(n) \subseteq {"rd", "rs1", "rs2", "imm", "csr"} /\ DOMAIN p.arg = Roles(n)
  BY IntRolesOnly DEF WellFormed
<1>4. CASE Placed(n, lay)
  <2>1. \A f \in DOMAIN s : s[f] \in 1 .. Len(L) /\ L[s[f]] = f
    BY <1>4 DEF Placed
  <2> HIDE DEF s, L, o, a
  <2>2. \A f \in DOMAIN s : s[f] \in 1 .. Len(o) /\ o[s[f]] = Operand(p, f)
    BY <1>1, <2>1
  <2>3. QED
    BY <1>1, <1>2, <1>3, <2>2 DEF s, o, a
<1>5. CASE Misplaced(n, lay)
  <2>1. /\ n \in BaseForms
        /\ "imm" \in DOMAIN s /\ s["imm"] \in DOMAIN L /\ L[s["imm"]] = "rs1"
    BY <1>5 DEF Misplaced
  <2>2. s["imm"] \in 1 .. Len(L)
    BY <1>2, <2>1
  <2> HIDE DEF s, L, o, a
  <2>3. o[s["imm"]] = Operand(p, "rs1")
    BY <1>1, <2>1, <2>2
  <2>4. o[s["imm"]][1] = "x"
    BY <2>3 DEF Operand, Kind
  <2>5. QED
    BY <1>1, <1>2, <1>3, <2>1, <2>4 DEF s, o, a
<1>6. QED
  BY <1>2, <1>4, <1>5

(* The operands are as many as expected, and each source is of its kind.   *)
KindsReadable(name, a, operands) ==
  LET s == Sources(name, a, Len(operands))
  IN  /\ Len(operands) = OperandCount(a, Len(operands))
      /\ \A f \in DOMAIN s : /\ s[f] \in DOMAIN operands
                             /\ s[f] <= Len(operands)
                             /\ operands[s[f]][1] \in KindOf(f)

(* They are read unless one is a CSR whose name the enumeration lacks.     *)
LEMMA KindsSuffice ==
  ASSUME NEW name, NEW a, NEW t, ~NamesUnknownCsr(t),
         KindsReadable(name, a, t.operand)
  PROVE  SourcesReadable(name, a, t.operand)
BY Zenon DEF KindsReadable, SourcesReadable, NamesUnknownCsr

(* A row with its operands in place is of these kinds.                     *)
LEMMA PlacedIsReadable ==
  ASSUME NEW p, NEW m, NEW a, ~IsFd(a), NEW o, Len(o) = OperandCount(a, Len(o)),
         DOMAIN IntSources(m, a) \subseteq {"rs1", "rs2", "imm", "csr"},
         \A f \in DOMAIN IntSources(m, a) :
           IntSources(m, a)[f] \in 1 .. Len(o) /\ o[IntSources(m, a)[f]] = Operand(p, f),
         Len(o) \in Nat, DOMAIN o = 1 .. Len(o)
  PROVE  KindsReadable(m, a, o)
<1> DEFINE s == IntSources(m, a)
<1>1. Sources(m, a, Len(o)) = s
  BY DEF Sources
<1>2. \A f \in DOMAIN s : s[f] \in 1 .. Len(o) /\ o[s[f]] = Operand(p, f)
                            /\ f \in {"rs1", "rs2", "imm", "csr"}
  OBVIOUS
<1> HIDE DEF s
<1>3. ASSUME NEW f \in DOMAIN s
      PROVE  s[f] \in DOMAIN o /\ s[f] <= Len(o) /\ o[s[f]][1] \in KindOf(f)
  <2>1. s[f] \in 1 .. Len(o) /\ o[s[f]] = Operand(p, f) /\ f \in {"rs1", "rs2", "imm", "csr"}
    BY <1>2, <1>3
  <2>2. Operand(p, f)[1] \in KindOf(f)
    BY <2>1 DEF Operand, Kind, KindOf
  <2>3. QED
    BY <2>1, <2>2
<1>4. QED
  BY <1>1, <1>3 DEF KindsReadable

(* Which rows the collector reads: those of all names but those of a form  *)
(* with a base register and DRET.                                          *)
LEMMA IntRowsRead ==
  ASSUME NEW p, WellFormed(p), NEW lay, p.name \in Listed,
         ~IsFd(get_attr_list[p.name]), NameOf(Text(p, lay)) \in Listed,
         NameOf(Text(p, lay)) \notin BaseForms \cup {"DRET"} \cup WithoutOperands
  PROVE  LET t == Text(p, lay)
             m == NameOf(t)
         IN  KindsReadable(m, get_attr_list[m], t.operand)
<1> DEFINE n == p.name
           t == Text(p, lay)
           m == NameOf(t)
           o == Plain(p, lay)
           a == get_attr_list[n]
           b == get_attr_list[m]
<1>1. process_instr_name(n) = n
  BY MovesRenamed, Zenon DEF process_instr_name
<1>2. \/ m = n
      \/ n = "CSRRS" /\ m = "CSRRW"
      \/ n = "NOP" /\ m = "ADDI"
  BY <1>1, NameInRow
<1>3. Len(o) \in Nat /\ DOMAIN o = 1 .. Len(o)
  BY TextOfKnown, ShownAreRoles
<1>4. "CSRRW" \notin {"ADDI", "CSRRS", "NOP"} /\ process_instr_name("CSRRW") = "CSRRW"
      /\ process_instr_name("ADDI") = "ADDI"
  BY DEF process_instr_name, update_instr_name
<1>5. CASE m = n
  <2>1. t.operand = o
    BY <1>1, <1>4, <1>5, TextOfKnown DEF NameOf
  <2>2. n \notin WithoutOperands \cup {"DRET"} /\ n \notin BaseForms
    BY <1>5
  <2>3. /\ Len(o) = OperandCount(a, Len(o))
        /\ DOMAIN IntSources(n, a) \subseteq {"rs1", "rs2", "imm", "csr"}
        /\ \A f \in DOMAIN IntSources(n, a) :
             IntSources(n, a)[f] \in 1 .. Len(o) /\ o[IntSources(n, a)[f]] = Operand(p, f)
    BY <2>2, RowRead
  <2> HIDE DEF o, t, m, a
  <2>4. KindsReadable(n, a, o)
    BY <1>3, <2>3, PlacedIsReadable DEF a
  <2>5. QED
    BY <1>5, <2>1, <2>4 DEF m, t, a
<1>6. CASE n = "CSRRS" /\ m = "CSRRW"
  <2>1. ~IsFd(a) /\ ~IsFd(b) /\ IntFacts(n, a.format, a.category)
        /\ IntFacts(m, b.format, b.category)
    BY <1>6, NameFacts DEF FdFacts
  <2>2. a.format = "R_FORMAT" /\ a.category = "CSR" /\ b.format = "R_FORMAT" /\ b.category = "CSR"
    BY <1>6, <2>1 DEF IntFacts
  <2>3. n \notin WithoutOperands \cup {"DRET"} /\ n \notin BaseForms
    BY <1>6, <2>2 DEF WithoutOperands, BaseForms
  <2>4. t.operand = o
    BY <1>6, TextOfKnown
  <2>5. /\ Len(o) = OperandCount(a, Len(o))
        /\ DOMAIN IntSources(n, a) \subseteq {"rs1", "rs2", "imm", "csr"}
        /\ \A f \in DOMAIN IntSources(n, a) :
             IntSources(n, a)[f] \in 1 .. Len(o) /\ o[IntSources(n, a)[f]] = Operand(p, f)
    BY <2>1, <2>3, RowRead
  <2> HIDE DEF o, t, m, a, b, n
  <2>6. IntSources(m, b) = IntSources(n, a) /\ OperandCount(b, Len(o)) = OperandCount(a, Len(o))
    <3>1. IntSources(m, b) = [csr |-> 2, rs1 |-> 3] /\ IntSources(n, a) = [csr |-> 2, rs1 |-> 3]
      BY <2>2 DEF IntSources
    <3>2. OperandCount(b, Len(o)) = 3 /\ OperandCount(a, Len(o)) = 3
      BY <2>1, <2>2 DEF OperandCount
    <3>3. QED
      BY <3>1, <3>2
  <2>7. KindsReadable(m, b, o)
    BY <1>3, <2>1, <2>5, <2>6, PlacedIsReadable
  <2>8. QED
    BY <2>4, <2>7 DEF m, t, b
<1>7. CASE n = "NOP" /\ m = "ADDI"
  <2>1. ~IsFd(b) /\ IntFacts(m, b.format, b.category)
    BY <1>7, NameFacts DEF FdFacts
  <2>2. b.format = "I_FORMAT" /\ b.category = "ARITHMETIC"
    BY <1>7, <2>1 DEF IntFacts
  <2>3. process_instr_name("NOP") = "NOP"
    BY DEF process_instr_name, update_instr_name
  <2>4. t.operand = <<Zero, Zero, Imm(0)>>
    BY <1>7, <2>3, TextOfKnown DEF NameOf
  <2> DEFINE w == t.operand
  <2>5. Len(w) = 3 /\ DOMAIN w = 1 .. 3 /\ w[2][1] = "x" /\ w[3][1] = "imm"
    BY <2>4 DEF Zero, Imm
  <2> HIDE DEF w, t, m, b
  <2>6. Sources(m, b, Len(w)) = [rs1 |-> 2, imm |-> 3] /\ OperandCount(b, Len(w)) = 3
    BY <2>1, <2>2, <2>5 DEF Sources, IntSources, OperandCount
  <2>7. KindsReadable(m, b, w)
    BY <2>5, <2>6 DEF KindsReadable, KindOf
  <2>8. QED
    BY <2>7 DEF w, t, m, b
<1>8. QED
  BY <1>2, <1>5, <1>6, <1>7

(* The row of an F or D instruction has the operands the collector reads,  *)
(* unless it is a load or store.                                           *)
LEMMA FdRowsRead ==
  ASSUME NEW p, WellFormed(p), NEW lay, NameOf(Text(p, lay)) \in Listed,
         process_instr_name(p.name) \in Listed,
         IsFd(get_attr_list[process_instr_name(p.name)]),
         NameOf(Text(p, lay)) \notin BaseForms
  PROVE  LET t == Text(p, lay)
             m == NameOf(t)
         IN  m = process_instr_name(p.name) /\ KindsReadable(m, get_attr_list[m], t.operand)
<1> DEFINE q == process_instr_name(p.name)
           t == Text(p, lay)
           m == NameOf(t)
           a == get_attr_list[q]
           R == DOMAIN p.arg
           L == InOrder(R)
<1>1. FdFacts(q, a.format, a.category)
  BY NameFacts
<1>2. m = q
  BY <1>1, NameInRow DEF FdFacts, WithoutOperands
<1>3. q \notin {"FLW", "FLD", "FSW", "FSD"}
  BY <1>1, <1>2 DEF FdFacts, BaseForms
<1>4. R = Roles(q) \/ (q \in Range(update_instr_name) /\ R = Roles(q) \ {"fs2"})
  BY KnownName DEF WellFormed
<1>5. /\ L \in Seq(R) /\ Len(L) = OperandCount(a, Len(L))
      /\ KindsRead(FdSources(q, a, Len(L)), L)
  BY <1>3, <1>4, FdOrder
<1>6. t.operand = [k \in 1 .. Len(L) |-> Operand(p, L[k])]
  <2>1. CASE p.name \notin Listed
    BY <1>5, <2>1, TextOfMove
  <2>2. CASE p.name \in Listed
    <3>1. q = p.name /\ R = Roles(q)
      BY <2>2, KnownName DEF WellFormed
    <3>2. p.name \notin {"CSRRS", "NOP"}
      BY <1>1, <3>1 DEF FdFacts, WithoutOperands
    <3>3. t.operand = Plain(p, lay)
      BY <2>2, <3>2, TextOfKnown
    <3>4. Order(q, lay) = L
      BY <1>3, <3>1, FdText DEF Order
    <3>5. QED
      BY <2>2, <3>1, <3>3, <3>4, TextOfKnown
  <2>3. QED
    BY <2>1, <2>2
<1> DEFINE o == t.operand
           s == FdSources(q, a, Len(L))
<1> HIDE DEF L, o, t, m, q
<1>7. Len(L) \in Nat /\ DOMAIN L = 1 .. Len(L)
  BY <1>5
<1>8. o = [k \in 1 .. Len(L) |-> Operand(p, L[k])]
  BY <1>6 DEF o
<1>9. Len(o) = Len(L) /\ \A k \in 1 .. Len(L) : o[k][1] = Kind(L[k])
  BY <1>7, <1>8, IsASeq DEF Operand
<1>10. Sources(q, a, Len(o)) = s
  BY <1>9 DEF Sources, q
<1> HIDE DEF s, a
<1>11. \A f \in DOMAIN s : /\ s[f] \in DOMAIN o /\ s[f] <= Len(o)
                           /\ o[s[f]][1] \in KindOf(f)
  BY <1>5, <1>7, <1>8, <1>9 DEF KindsRead, s
<1>12. KindsReadable(q, a, o)
  BY <1>5, <1>9, <1>10, <1>11 DEF KindsReadable
<1>13. QED
  BY <1>2, <1>12 DEF q, a, o, t, m

(* A row of a listed instruction is read without an exception, unless its  *)
(* form has a base register, it is a DRET, or it shows a CSR under a name  *)
(* the enumeration lacks.                                                  *)
LEMMA KnownRowsAccepted ==
  ASSUME NEW p, WellFormed(p), NEW lay, NameOf(Text(p, lay)) \in Listed,
         NameOf(Text(p, lay)) \notin BaseForms \cup {"DRET"},
         ~NamesUnknownCsr(Text(p, lay))
  PROVE  Accepted(Text(p, lay))
<1> DEFINE t == Text(p, lay)
           m == NameOf(t)
           q == process_instr_name(p.name)
<1>1. \A k \in DOMAIN t.gpr : t.gpr[k][1][1] \in KindOf(ResultField(m, get_attr_list[m]))
  BY GprReadable
<1>2. q \in Listed
  BY NameInRow
<1>3. m \in WithoutOperands \/ SourcesReadable(m, get_attr_list[m], t.operand)
  <2>1. CASE m \in WithoutOperands
    BY <2>1
  <2>2. CASE m \notin WithoutOperands /\ IsFd(get_attr_list[q])
    BY <1>2, <2>2, FdRowsRead, KindsSuffice
  <2>3. CASE m \notin WithoutOperands /\ ~IsFd(get_attr_list[q])
    <3>1. p.name \in Listed
      <4>1. q \notin SignInjection \cup {"FMV_W_X", "FMV_X_W"}
        BY <1>2, <2>3, NameFacts DEF IntFacts
      <4>2. QED
        BY <1>2, <4>1, KnownName, MovesRenamed
    <3>2. q = p.name
      BY <1>2, <3>1, KnownName
    <3>3. QED
      BY <2>3, <3>1, <3>2, IntRowsRead, KindsSuffice
  <2>4. QED
    BY <2>1, <2>2, <2>3
<1>4. QED
  BY <1>1, <1>3, Zenon DEF Accepted, Readable

-----------------------------------------------------------------------------
(* The steps of the collector.                                             *)

(* Every variable keeps the values the source gives it.                    *)
LEMMA InitType == Init => TypeOK
<1> SUFFICES ASSUME Init PROVE TypeOK
  OBVIOUS
<1>1. file \in 1 .. MaxFiles /\ row \in 0 .. Len(Steps)
  BY StepsAssumption, FilesAssumption DEF Init
<1>2. DOMAIN gpr_state = Registers
  BY DEF Init, Blank
<1>3. row = 0 /\ instr_cnt = 0 /\ skipped_cnt = 0 /\ unexpected_illegal_instr_cnt = 0
      /\ layout \in Layouts /\ status = "reading" /\ expect_illegal_instr = FALSE
  BY DEF Init, NothingSampled
<1>4. /\ instr_cnt \in 0 .. row /\ skipped_cnt \in 0 .. row
      /\ unexpected_illegal_instr_cnt \in 0 .. row /\ ~(instr_cnt > 0)
  BY <1>3
<1>5. QED
  BY <1>1, <1>2, <1>3, <1>4, Zenon DEF TypeOK

(* The row that is read counts for one.                                    *)
LEMMA NextRow ==
  ASSUME TypeOK, Reading
  PROVE  /\ row + 1 \in 1 .. Len(Steps) /\ row + 1 \in 0 .. Len(Steps)
         /\ instr_cnt \in 0 .. row + 1 /\ instr_cnt + 1 \in 0 .. row + 1
         /\ instr_cnt + 1 > 0
         /\ skipped_cnt \in 0 .. row + 1 /\ skipped_cnt + 1 \in 0 .. row + 1
         /\ unexpected_illegal_instr_cnt \in 0 .. row + 1
         /\ unexpected_illegal_instr_cnt + 1 \in 0 .. row + 1
  BY StepsAssumption DEF TypeOK, Reading

(* The instruction sampled has the name in the row.                        *)
LEMMA DecodedName ==
  ASSUME NEW n, NEW a, NEW o, NEW g, NEW before, NEW after
  PROVE  WithHazards(Decode(n, a, o, g, before, after)).name = n
<1> DEFINE i == Decode(n, a, o, g, before, after)
<1>1. i.name = n
  BY DEF Decode
<1>2. [i EXCEPT !.gpr_hazard = gpr_hazard(i, pre_instr),
                !.lsu_hazard = lsu_hazard(i, pre_instr)].name = i.name
  <2>1. "name" \in DOMAIN i
    BY DEF Decode
  <2> HIDE DEF i
  <2>2. QED
    BY <2>1, Zenon
<1> HIDE DEF i
<1>3. WithHazards(i).name = n
  BY <1>1, <1>2 DEF WithHazards
<1>4. QED
  BY <1>3 DEF i

(* What a row is sampled as.                                               *)
Collects(p, t) ==
  LET n == NameOf(t)
      changed == IF n \in WithoutOperands THEN {} ELSE {t.gpr[k][1] : k \in DOMAIN t.gpr}
  IN  Decode(n, get_attr_list[n], t.operand, t.gpr, gpr_state,
             Changed(gpr_state, changed, p.value))

(* The last instruction sampled is that one, with its hazards.             *)
LEMMA SampledInstr ==
  ASSUME NEW p, NEW t, Sample(p, t)
  PROVE  /\ pre_instr' = WithHazards(Collects(p, t))
         /\ covered' = covered \cup sample(WithHazards(Collects(p, t)), p.word)
  BY Zenon DEF Sample, Collects

(* A name the lookup lacks, a form with a base register, DRET, or a CSR    *)
(* under a name the enumeration lacks.                                     *)
LEMMA DeathOfKnownForm ==
  ASSUME NEW p, WellFormed(p), Die(p, Text(p, layout))
  PROVE  \/ NameOf(Text(p, layout)) \in Unlisted \cup BaseForms \cup {"DRET"}
         \/ NamesUnknownCsr(Text(p, layout))
<1>1. NameOf(Text(p, layout)) \in Names /\ ~Accepted(Text(p, layout))
  BY Zenon DEF Die
<1>2. CASE NameOf(Text(p, layout)) \in Listed
  BY <1>1, <1>2, KnownRowsAccepted
<1>3. CASE NameOf(Text(p, layout)) \notin Listed
  BY <1>1, <1>3 DEF Unlisted
<1>4. QED
  BY <1>1, <1>2, <1>3

(* A row that is read is that of an instruction the program may execute.   *)
LEMMA RowOfProgram ==
  ASSUME TypeOK, ReadRow
  PROVE  \E p \in Steps[row + 1] :
           /\ WellFormed(p) /\ Reading
           /\ \/ SkipMalformed(p)
              \/ PassByName(p, Text(p, layout))
              \/ RejectUnknown(p, Text(p, layout))
              \/ PassUnsupported(p, Text(p, layout))
              \/ Sample(p, Text(p, layout))
              \/ Die(p, Text(p, layout))
<1>1. Reading
  BY Zenon DEF ReadRow
<1>2. row + 1 \in 1 .. Len(Steps)
  BY <1>1, NextRow
<1>3. \A p \in Steps[row + 1] : WellFormed(p)
  BY <1>2, StepsAssumption
<1>4. QED
  BY <1>1, <1>3, Zenon DEF ReadRow

(* The types are kept by every step: by each way of handling a row, by the *)
(* next CSV, the next batch and the end.                                   *)
LEMMA StepType == TypeOK /\ [Next]_vars => TypeOK'
<1> SUFFICES ASSUME TypeOK, [Next]_vars PROVE TypeOK'
  OBVIOUS
<1>1. ASSUME NEW p \in Steps[row + 1], Reading, SkipMalformed(p)
      PROVE  TypeOK'
  BY <1>1, NextRow DEF TypeOK, SkipMalformed, Executes
<1>2. ASSUME NEW p \in Steps[row + 1], Reading, PassByName(p, Text(p, layout))
      PROVE  TypeOK'
  BY <1>2, NextRow DEF TypeOK, PassByName, Takes, Executes
<1>3. ASSUME NEW p \in Steps[row + 1], Reading, RejectUnknown(p, Text(p, layout))
      PROVE  TypeOK'
  BY <1>3, NextRow DEF TypeOK, RejectUnknown, Judged, Takes, Executes
<1>4. ASSUME NEW p \in Steps[row + 1], Reading, PassUnsupported(p, Text(p, layout))
      PROVE  TypeOK'
  BY <1>4, NextRow DEF TypeOK, PassUnsupported, Judged, Takes, Executes
<1>5. ASSUME NEW p \in Steps[row + 1], Reading, Sample(p, Text(p, layout))
      PROVE  TypeOK'
  <2> DEFINE t == Text(p, layout)
  <2>1. pre_instr'.name = NameOf(t)
    <3>1. pre_instr' = WithHazards(Collects(p, t))
      BY <1>5, SampledInstr
    <3>2. WithHazards(Collects(p, t)).name = NameOf(t)
      BY DecodedName DEF Collects
    <3>3. QED
      BY <3>1, <3>2
  <2>2. NameOf(t) \in Listed
    BY <1>5, Zenon DEF Sample, Accepted
  <2>3. DOMAIN gpr_state' = Registers
    BY <1>5, Zenon DEF Sample, Changed
  <2>4. row' = row + 1 /\ instr_cnt' = instr_cnt + 1
    BY <1>5, Zenon DEF Sample, Executes
  <2>5. UNCHANGED <<layout, file, status, skipped_cnt, unexpected_illegal_instr_cnt>>
    BY <1>5, Zenon DEF Sample
  <2>6. expect_illegal_instr' \in BOOLEAN
    BY <1>5 DEF Sample, Judged, Takes, TypeOK
  <2> HIDE DEF t
  <2>7. QED
    BY <1>5, <2>1, <2>2, <2>3, <2>4, <2>5, <2>6, NextRow DEF TypeOK
<1>6. ASSUME NEW p \in Steps[row + 1], Reading, Die(p, Text(p, layout))
      PROVE  TypeOK'
  BY <1>6 DEF TypeOK, Die, Judged, Takes
<1>7. CASE NextFile
  <2>1. file' \in 1 .. MaxFiles
    BY <1>7, FilesAssumption DEF NextFile, TypeOK
  <2>2. QED
    BY <1>7, <2>1, StepsAssumption DEF TypeOK, NextFile
<1>8. CASE NextBatch
  BY <1>8 DEF TypeOK, NextBatch, ghosts
<1>9. CASE Finish
  BY <1>9 DEF TypeOK, Finish, ghosts
<1>10. CASE UNCHANGED vars
  BY <1>10 DEF TypeOK, vars, ghosts
<1>11. CASE ReadRow
  BY <1>1, <1>2, <1>3, <1>4, <1>5, <1>6, <1>11, RowOfProgram
<1>12. QED
  BY <1>7, <1>8, <1>9, <1>10, <1>11, Zenon DEF Next

(* The variables keep the values the source gives them (run_phase,         *)
(* assign_trace_info_to_instr): the counters never exceed the rows read,   *)
(* and an instruction that was sampled is one of get_attr_list.            *)
THEOREM TypeCorrect == Spec => []TypeOK
  BY InitType, StepType, PTL DEF Spec

(* The collector dies on a row only for a name that get_attr_list lacks, a *)
(* form whose operands come in another order than it reads them, a DRET,   *)
(* or a CSR whose name privileged_reg_t lacks, whichever CSRs those are    *)
(* (assign_attributes, update_src_regs, update_dst_regs).                  *)
THEOREM DeathsExplained == Spec => []DiesOnlyOnKnownForms
<1>1. Init => DiesOnlyOnKnownForms
  BY DEF Init, DiesOnlyOnKnownForms
<1>2. TypeOK /\ DiesOnlyOnKnownForms /\ [Next]_vars => DiesOnlyOnKnownForms'
  <2> SUFFICES ASSUME TypeOK, DiesOnlyOnKnownForms, [Next]_vars
               PROVE  DiesOnlyOnKnownForms'
    OBVIOUS
  <2>1. CASE UNCHANGED <<status, culprit>>
    BY <2>1 DEF DiesOnlyOnKnownForms
  <2>2. CASE status' \in {"refused", "done"}
    BY <2>2 DEF DiesOnlyOnKnownForms
  <2>3. ASSUME NEW p, WellFormed(p), Die(p, Text(p, layout))
        PROVE  DiesOnlyOnKnownForms'
    <3>1. culprit' = Text(p, layout)
      BY <2>3, Zenon DEF Die
    <3>2. \/ NameOf(culprit') \in Unlisted \cup BaseForms \cup {"DRET"}
          \/ NamesUnknownCsr(culprit')
      BY <2>3, <3>1, DeathOfKnownForm, Zenon
    <3>3. QED
      BY <3>2, Zenon DEF DiesOnlyOnKnownForms
  <2>4. CASE ReadRow
    <3>1. PICK p \in Steps[row + 1] :
            /\ WellFormed(p)
            /\ \/ SkipMalformed(p)
               \/ PassByName(p, Text(p, layout))
               \/ RejectUnknown(p, Text(p, layout))
               \/ PassUnsupported(p, Text(p, layout))
               \/ Sample(p, Text(p, layout))
               \/ Die(p, Text(p, layout))
      BY <2>4, RowOfProgram
    <3>2. UNCHANGED <<status, culprit>> \/ Die(p, Text(p, layout))
      BY <3>1, Zenon DEF SkipMalformed, PassByName, RejectUnknown, PassUnsupported, Sample
    <3>3. QED
      BY <2>1, <2>3, <3>1, <3>2
  <2>5. CASE NextFile
    BY <2>1, <2>5, Zenon DEF NextFile
  <2>6. CASE NextBatch \/ Finish
    BY <2>2, <2>6, Zenon DEF NextBatch, Finish
  <2>7. CASE UNCHANGED vars
    BY <2>1, <2>7, Zenon DEF vars, ghosts
  <2>8. QED
    BY <2>4, <2>5, <2>6, <2>7, Zenon DEF Next
<1>3. QED
  BY <1>1, <1>2, TypeCorrect, PTL DEF Spec

(* The operands a row's fields are read from are all the operands but the  *)
(* destination, the stack pointer where the form leaves it out, and the    *)
(* offset of C_ADDI4SPN, which is not read.                                *)
LEMMA RolesRead ==
  ASSUME NEW n \in Listed, ~IsFd(get_attr_list[n]), n \notin WithoutOperands \cup {"DRET"}
  PROVE  LET a == get_attr_list[n]
             s == IntSources(n, a)
         IN  /\ \A f \in Roles(n) : \/ f = "rd" \/ f \in DOMAIN s
                                    \/ f = "rs1" /\ ReadsSp(n, a)
                                    \/ f = "imm" /\ n = "C_ADDI4SPN"
             /\ ReadsSp(n, a) => "rs1" \in Roles(n)
<1> DEFINE a == get_attr_list[n]
           s == IntSources(n, a)
<1>1. IntFacts(n, a.format, a.category)
  BY NameFacts
<1>2. Roles(n) = IntRoles(n, a)
  BY DEF Roles
<1>3. SUFFICES
        /\ \A f \in IntRoles(n, a) : \/ f = "rd" \/ f \in DOMAIN s
                                     \/ f = "rs1" /\ ReadsSp(n, a)
                                     \/ f = "imm" /\ n = "C_ADDI4SPN"
        /\ ReadsSp(n, a) => "rs1" \in IntRoles(n, a)
  BY <1>2, Zenon
<1> HIDE DEF a, s
<1> USE DEF IntFacts
<1>4. CASE a.format = "U_FORMAT"
  <2>1. IntRoles(n, a) = {"rd", "imm"}
    BY <1>1, <1>4 DEF IntRoles, FormatRoles, ReadsSp
  <2>2. s = [imm |-> 2]
    BY <1>1, <1>4 DEF IntSources, s
  <2>3. ReadsSp(n, a) => "rs1" \in IntRoles(n, a)
    BY <1>1, <1>4, <2>1 DEF ReadsSp
  <2>4. QED
    BY <2>1, <2>2, <2>3
<1>5. CASE a.format = "J_FORMAT"
  <2>1. IntRoles(n, a) = {"rd", "imm"}
    BY <1>1, <1>5 DEF IntRoles, FormatRoles, ReadsSp
  <2>2. s = [imm |-> 2]
    BY <1>1, <1>5 DEF IntSources, s
  <2>3. ReadsSp(n, a) => "rs1" \in IntRoles(n, a)
    BY <1>1, <1>5, <2>1 DEF ReadsSp
  <2>4. QED
    BY <2>1, <2>2, <2>3
<1>6. CASE a.format = "I_FORMAT" /\ a.category = "LOAD"
  <2>1. IntRoles(n, a) = {"rd", "rs1", "imm"}
    BY <1>1, <1>6 DEF IntRoles, FormatRoles, ReadsSp
  <2>2. s = [rs1 |-> 3, imm |-> 2]
    BY <1>1, <1>6 DEF IntSources, s
  <2>3. ReadsSp(n, a) => "rs1" \in IntRoles(n, a)
    BY <1>1, <1>6, <2>1 DEF ReadsSp
  <2>4. QED
    BY <2>1, <2>2, <2>3
<1>7. CASE a.format = "I_FORMAT" /\ a.category = "CSR"
  <2>1. IntRoles(n, a) = {"rd", "csr", "imm"}
    BY <1>1, <1>7 DEF IntRoles, FormatRoles, ReadsSp
  <2>2. s = [imm |-> 3, csr |-> 2]
    BY <1>1, <1>7 DEF IntSources, s
  <2>3. ReadsSp(n, a) => "rs1" \in IntRoles(n, a)
    BY <1>1, <1>7, <2>1 DEF ReadsSp
  <2>4. QED
    BY <2>1, <2>2, <2>3
<1>8. CASE a.format = "I_FORMAT" /\ a.category \notin {"LOAD", "CSR"}
  <2>1. IntRoles(n, a) = {"rd", "rs1", "imm"}
    BY <1>1, <1>8 DEF IntRoles, FormatRoles, ReadsSp
  <2>2. s = [rs1 |-> 2, imm |-> 3]
    BY <1>1, <1>8 DEF IntSources, s
  <2>3. ReadsSp(n, a) => "rs1" \in IntRoles(n, a)
    BY <1>1, <1>8, <2>1 DEF ReadsSp
  <2>4. QED
    BY <2>1, <2>2, <2>3
<1>9. CASE a.format = "S_FORMAT"
  <2>1. IntRoles(n, a) = {"rs1", "rs2", "imm"}
    BY <1>1, <1>9 DEF IntRoles, FormatRoles, ReadsSp
  <2>2. s = [rs2 |-> 1, rs1 |-> 3, imm |-> 2]
    BY <1>1, <1>9 DEF IntSources, s
  <2>3. ReadsSp(n, a) => "rs1" \in IntRoles(n, a)
    BY <1>1, <1>9, <2>1 DEF ReadsSp
  <2>4. QED
    BY <2>1, <2>2, <2>3
<1>10. CASE a.format = "B_FORMAT"
  <2>1. IntRoles(n, a) = {"rs1", "rs2", "imm"}
    BY <1>1, <1>10 DEF IntRoles, FormatRoles, ReadsSp
  <2>2. s = [rs1 |-> 1, rs2 |-> 2, imm |-> 3]
    BY <1>1, <1>10 DEF IntSources, s
  <2>3. ReadsSp(n, a) => "rs1" \in IntRoles(n, a)
    BY <1>1, <1>10, <2>1 DEF ReadsSp
  <2>4. QED
    BY <2>1, <2>2, <2>3
<1>11. CASE a.format = "R_FORMAT" /\ a.category = "CSR"
  <2>1. IntRoles(n, a) = {"rd", "csr", "rs1"}
    BY <1>1, <1>11 DEF IntRoles, FormatRoles, ReadsSp
  <2>2. s = [csr |-> 2, rs1 |-> 3]
    BY <1>1, <1>11 DEF IntSources, s
  <2>3. ReadsSp(n, a) => "rs1" \in IntRoles(n, a)
    BY <1>1, <1>11, <2>1 DEF ReadsSp
  <2>4. QED
    BY <2>1, <2>2, <2>3
<1>12. CASE a.format = "R_FORMAT" /\ a.category # "CSR"
  <2>1. IntRoles(n, a) = {"rd", "rs1", "rs2"}
    BY <1>1, <1>12 DEF IntRoles, FormatRoles, ReadsSp
  <2>2. s = [rs1 |-> 2, rs2 |-> 3]
    BY <1>1, <1>12 DEF IntSources, s
  <2>3. ReadsSp(n, a) => "rs1" \in IntRoles(n, a)
    BY <1>1, <1>12, <2>1 DEF ReadsSp
  <2>4. QED
    BY <2>1, <2>2, <2>3
<1>13. CASE a.format = "CI_FORMAT" /\ n = "C_ADDI16SP"
  <2>1. IntRoles(n, a) = {"rd", "rs1", "imm"} /\ ReadsSp(n, a)
    BY <1>1, <1>13 DEF IntRoles, FormatRoles, ReadsSp
  <2>2. s = [imm |-> 2]
    BY <1>1, <1>13 DEF IntSources, s
  <2>3. QED
    BY <1>1, <1>13, <2>1, <2>2
<1>14. CASE a.format = "CI_FORMAT" /\ a.category = "LOAD"
  <2>1. IntRoles(n, a) = {"rd", "rs1", "imm"} /\ ReadsSp(n, a)
    BY <1>1, <1>14 DEF IntRoles, FormatRoles, ReadsSp
  <2>2. s = [imm |-> 2]
    BY <1>1, <1>14 DEF IntSources, s
  <2>3. QED
    BY <1>1, <1>14, <2>1, <2>2
<1>15. CASE a.format = "CI_FORMAT" /\ a.category # "LOAD" /\ n # "C_ADDI16SP"
  <2>1. IntRoles(n, a) = {"rd", "imm"}
    BY <1>1, <1>15 DEF IntRoles, FormatRoles, ReadsSp
  <2>2. s = [imm |-> 2]
    BY <1>1, <1>15 DEF IntSources, s
  <2>3. ReadsSp(n, a) => "rs1" \in IntRoles(n, a)
    BY <1>1, <1>15, <2>1 DEF ReadsSp
  <2>4. QED
    BY <2>1, <2>2, <2>3
<1>16. CASE a.format = "CIW_FORMAT"
  <2>1. IntRoles(n, a) = {"rd", "rs1", "imm"} /\ ReadsSp(n, a)
    BY <1>1, <1>16 DEF IntRoles, FormatRoles, ReadsSp
  <2>2. s = <<>>
    BY <1>1, <1>16 DEF IntSources, s
  <2>3. QED
    BY <1>1, <1>16, <2>1, <2>2
<1>17. CASE a.format = "CL_FORMAT"
  <2>1. IntRoles(n, a) = {"rd", "rs1", "imm"}
    BY <1>1, <1>17 DEF IntRoles, FormatRoles, ReadsSp
  <2>2. s = [imm |-> 2, rs1 |-> 3]
    BY <1>1, <1>17 DEF IntSources, s
  <2>3. ReadsSp(n, a) => "rs1" \in IntRoles(n, a)
    BY <1>1, <1>17, <2>1 DEF ReadsSp
  <2>4. QED
    BY <2>1, <2>2, <2>3
<1>18. CASE a.format = "CS_FORMAT"
  <2>1. IntRoles(n, a) = {"rs1", "rs2", "imm"}
    BY <1>1, <1>18 DEF IntRoles, FormatRoles, ReadsSp
  <2>2. s = [rs2 |-> 1, rs1 |-> 3, imm |-> 2]
    BY <1>1, <1>18 DEF IntSources, s
  <2>3. ReadsSp(n, a) => "rs1" \in IntRoles(n, a)
    BY <1>1, <1>18, <2>1 DEF ReadsSp
  <2>4. QED
    BY <2>1, <2>2, <2>3
<1>19. CASE a.format = "CSS_FORMAT"
  <2>1. IntRoles(n, a) = {"rs1", "rs2", "imm"} /\ ReadsSp(n, a)
    BY <1>1, <1>19 DEF IntRoles, FormatRoles, ReadsSp
  <2>2. s = [rs2 |-> 1, imm |-> 2]
    BY <1>1, <1>19 DEF IntSources, s
  <2>3. QED
    BY <1>1, <1>19, <2>1, <2>2
<1>20. CASE a.format = "CA_FORMAT"
  <2>1. IntRoles(n, a) = {"rd", "rs1", "rs2"}
    BY <1>1, <1>20 DEF IntRoles, FormatRoles, ReadsSp
  <2>2. s = [rs2 |-> 2, rs1 |-> 1]
    BY <1>1, <1>20 DEF IntSources, s
  <2>3. ReadsSp(n, a) => "rs1" \in IntRoles(n, a)
    BY <1>1, <1>20, <2>1 DEF ReadsSp
  <2>4. QED
    BY <2>1, <2>2, <2>3
<1>21. CASE a.format = "CB_FORMAT"
  <2>1. IntRoles(n, a) \ {"rd"} = {"rs1", "imm"}
    BY <1>1, <1>21 DEF IntRoles, FormatRoles, ReadsSp
  <2>2. s = [rs1 |-> 1, imm |-> 2]
    BY <1>1, <1>21 DEF IntSources, s
  <2>3. ReadsSp(n, a) => "rs1" \in IntRoles(n, a)
    BY <1>1, <1>21, <2>1 DEF ReadsSp
  <2>4. QED
    BY <2>1, <2>2, <2>3
<1>22. CASE a.format = "CR_FORMAT" /\ n \in {"C_JR", "C_JALR"}
  <2>1. IntRoles(n, a) \ {"rd"} = {"rs1"}
    BY <1>1, <1>22 DEF IntRoles, FormatRoles, ReadsSp
  <2>2. s = [rs1 |-> 1]
    BY <1>1, <1>22 DEF IntSources, s
  <2>3. ReadsSp(n, a) => "rs1" \in IntRoles(n, a)
    BY <1>1, <1>22, <2>1 DEF ReadsSp
  <2>4. QED
    BY <2>1, <2>2, <2>3
<1>23. CASE a.format = "CR_FORMAT" /\ n \notin {"C_JR", "C_JALR"}
  <2>1. IntRoles(n, a) = {"rd", "rs2"}
    BY <1>1, <1>23 DEF IntRoles, FormatRoles, ReadsSp
  <2>2. s = [rs2 |-> 2]
    BY <1>1, <1>23 DEF IntSources, s
  <2>3. ReadsSp(n, a) => "rs1" \in IntRoles(n, a)
    BY <1>1, <1>23, <2>1 DEF ReadsSp
  <2>4. QED
    BY <2>1, <2>2, <2>3
<1>24. CASE a.format = "CJ_FORMAT"
  <2>1. IntRoles(n, a) \ {"rd"} = {"imm"}
    BY <1>1, <1>24 DEF IntRoles, FormatRoles, ReadsSp
  <2>2. s = [imm |-> 1]
    BY <1>1, <1>24 DEF IntSources, s
  <2>3. ReadsSp(n, a) => "rs1" \in IntRoles(n, a)
    BY <1>1, <1>24, <2>1 DEF ReadsSp
  <2>4. QED
    BY <2>1, <2>2, <2>3
<1>25. QED
  BY <1>1, <1>4, <1>5, <1>6, <1>7, <1>8, <1>9, <1>10, <1>11, <1>12, <1>13, <1>14,
     <1>15, <1>16, <1>17, <1>18, <1>19, <1>20, <1>21, <1>22, <1>23, <1>24
     DEF FormatRoles

-----------------------------------------------------------------------------
(* What a sampled row says of its instruction.                             *)

(* The sources of a row, by the name in it.                                *)
RowSources(t) ==
  IF NameOf(t) \in WithoutOperands THEN <<>>
  ELSE Sources(NameOf(t), get_attr_list[NameOf(t)], Len(t.operand))

(* The row of an integer instruction that was read without an exception    *)
(* and kept its name shows the operands of the instruction, each at the    *)
(* place its field is read from.                                           *)
LEMMA RowShows ==
  ASSUME NEW p, WellFormed(p), NEW lay, Accepted(Text(p, lay)),
         NameOf(Text(p, lay)) = process_instr_name(p.name),
         ~IsFd(get_attr_list[process_instr_name(p.name)])
  PROVE  LET t == Text(p, lay)
             n == NameOf(t)
             s == RowSources(t)
             sp == ReadsSp(n, get_attr_list[n])
         IN  /\ n = p.name /\ n \in Listed
             /\ DOMAIN s \subseteq {"rs1", "rs2", "imm", "csr"} \cap DOMAIN p.arg
             /\ \A f \in DOMAIN s : t.operand[s[f]] = Operand(p, f)
             /\ \A f \in DOMAIN p.arg : \/ f = "rd" \/ f \in DOMAIN s
                                        \/ f = "rs1" /\ sp
                                        \/ f = "imm" /\ n = "C_ADDI4SPN"
             /\ sp => "rs1" \in DOMAIN p.arg /\ p.arg["rs1"] = SP
             /\ DOMAIN p.arg \subseteq {"rd", "rs1", "rs2", "imm", "csr"}
             /\ n \in WithoutOperands => DOMAIN p.arg = {}
<1> DEFINE t == Text(p, lay)
           n == NameOf(t)
           a == get_attr_list[n]
           o == t.operand
           s == RowSources(t)
<1>1. n \in Listed /\ ~IsFd(a)
  BY DEF Accepted
<1>2. IntFacts(n, a.format, a.category)
  BY <1>1, NameFacts
<1>3. n = p.name
  <2>1. n \notin SignInjection \cup {"FMV_W_X", "FMV_X_W"}
    BY <1>2 DEF IntFacts
  <2>2. QED
    BY <1>1, <2>1, KnownName, MovesRenamed
<1>4. DOMAIN p.arg = Roles(n) /\ (ReadsSp(n, a) => p.arg["rs1"] = SP)
  BY <1>1, <1>3 DEF WellFormed
<1>5. DOMAIN p.arg \subseteq {"rd", "rs1", "rs2", "imm", "csr"}
  BY <1>1, <1>4, IntRolesOnly
<1>6. CASE n \in WithoutOperands
  <2>1. DOMAIN p.arg = {}
    BY <1>1, <1>4, <1>6, NothingShown
  <2>2. ~ReadsSp(n, a)
    BY <1>2, <1>6 DEF IntFacts, ReadsSp, WithoutOperands
  <2>3. s = <<>> /\ DOMAIN s = {}
    BY <1>6 DEF RowSources
  <2> HIDE DEF s, a, n, t
  <2>4. QED
    BY <1>1, <1>3, <2>1, <2>2, <2>3 DEF a, n, s, t
<1>7. CASE n \notin WithoutOperands
  <2>1. SourcesReadable(n, a, o)
    BY <1>7, Zenon DEF Accepted, Readable
  <2>2. s = IntSources(n, a)
    BY <1>1, <1>7 DEF RowSources, Sources
  <2>3. /\ Len(o) = OperandCount(a, Len(o))
        /\ \A f \in DOMAIN s : o[s[f]][1] \in KindOf(f)
    BY <1>1, <2>1, <2>2, Zenon DEF SourcesReadable, Sources
  <2>4. n # "DRET"
    <3> SUFFICES ASSUME n = "DRET" PROVE FALSE
      OBVIOUS
    <3>1. Order(n, lay) = <<>>
      BY <1>1, NothingShown
    <3>2. o = Plain(p, lay) /\ Len(o) = 0
      BY <1>1, <1>3, <3>1, TextOfKnown
    <3>3. a.format = "I_FORMAT"
      BY <1>2 DEF IntFacts
    <3> HIDE DEF o, a, n
    <3>4. OperandCount(a, Len(o)) = 3
      BY <1>1, <3>3 DEF OperandCount
    <3>5. QED
      BY <2>3, <3>2, <3>4
  <2>5. o = Plain(p, lay)
    <3>1. n \notin {"CSRRW", "ADDI"} \/ p.name \notin {"CSRRS", "NOP"}
      BY <1>3
    <3>2. process_instr_name("CSRRW") = "CSRRW" /\ process_instr_name("ADDI") = "ADDI"
      BY DEF process_instr_name, update_instr_name
    <3>3. QED
      BY <1>1, <1>3, <3>1, <3>2, TextOfKnown DEF NameOf
  <2>6. /\ DOMAIN s \subseteq {"rs1", "rs2", "imm", "csr"}
        /\ DOMAIN s \subseteq DOMAIN p.arg
        /\ \/ \A f \in DOMAIN s : o[s[f]] = Operand(p, f)
           \/ "imm" \in DOMAIN s /\ o[s["imm"]][1] = "x"
    BY <1>1, <1>3, <1>7, <2>2, <2>4, <2>5, RowRead
  <2>7. \A f \in DOMAIN s : o[s[f]] = Operand(p, f)
    <3>1. KindOf("imm") = {"imm"}
      BY DEF KindOf
    <3> HIDE DEF o, s
    <3>2. QED
      BY <2>3, <2>6, <3>1
  <2>8. /\ \A f \in Roles(n) : \/ f = "rd" \/ f \in DOMAIN s
                               \/ f = "rs1" /\ ReadsSp(n, a)
                               \/ f = "imm" /\ n = "C_ADDI4SPN"
        /\ ReadsSp(n, a) => "rs1" \in Roles(n)
    BY <1>1, <1>7, <2>2, <2>4, RolesRead
  <2> HIDE DEF o, s, a
  <2>9. QED
    BY <1>1, <1>3, <1>4, <1>5, <1>7, <2>6, <2>7, <2>8 DEF o, s, a
<1>8. QED
  BY <1>6, <1>7

(* Its result, with the register it went to.                               *)
LEMMA ResultShown ==
  ASSUME NEW p, WellFormed(p), NEW lay, process_instr_name(p.name) \in Listed,
         ~IsFd(get_attr_list[process_instr_name(p.name)])
  PROVE  LET g == Text(p, lay).gpr
             d == <<"x", p.arg["rd"]>>
         IN  \/ /\ Dest(p) = {} /\ g = <<>>
                /\ "rd" \in DOMAIN p.arg => p.arg["rd"] = 0
             \/ /\ "rd" \in DOMAIN p.arg
                /\ Dest(p) = {d} /\ d \in Registers /\ g = <<<<d, p.value>>>>
<1> DEFINE q == process_instr_name(p.name)
           g == Text(p, lay).gpr
<1>1. ResultField(q, get_attr_list[q]) = "rd"
  BY DEF ResultField
<1>2. Kind("rd") = "x"
  BY DEF Kind
<1>3. CASE Dest(p) = {}
  <2>1. g = <<>>
    BY <1>3, ReportedRegister
  <2>2. ASSUME "rd" \in DOMAIN p.arg PROVE p.arg["rd"] = 0
    <3>1. <<"x", p.arg["rd"]>> = Zero
      BY <1>2, <1>3, <2>2 DEF Dest
    <3>2. QED
      BY <3>1 DEF Zero
  <2>3. QED
    BY <1>3, <2>1, <2>2
<1>4. ASSUME NEW d \in Dest(p), Dest(p) = {d}, g = <<<<d, p.value>>>>
      PROVE  /\ "rd" \in DOMAIN p.arg /\ d = <<"x", p.arg["rd"]>>
             /\ d \in Registers
  BY <1>1, <1>2, DestOfResult
<1>5. QED
  BY <1>3, <1>4, ReportedRegister

(* The collector knows every register whose last change it has seen.       *)
RegistersKnown ==
  /\ DOMAIN gpr_state = Registers /\ DOMAIN registers = Registers
  /\ \A r \in Registers \ unseen : gpr_state[r] = registers[r]

(* Two instructions that agree on all that the cover groups read, but for  *)
(* the hazards with the instruction before.                                *)
Agree(i, e) ==
  /\ i.name = e.name /\ i.format = e.format /\ i.category = e.category
  /\ i.group = e.group /\ i.csr = e.csr /\ i.mem_addr = e.mem_addr
  /\ i.rs1 = e.rs1 /\ i.rs2 = e.rs2 /\ i.rd = e.rd
  /\ i.fs1 = e.fs1 /\ i.fs2 = e.fs2 /\ i.fs3 = e.fs3 /\ i.fd = e.fd
  /\ i.rs1_value = e.rs1_value /\ i.rs2_value = e.rs2_value
  /\ i.rd_value = e.rd_value
  /\ i.fs1_value = e.fs1_value /\ i.fs2_value = e.fs2_value
  /\ i.fs3_value = e.fs3_value /\ i.fd_value = e.fd_value
  /\ i.name # "C_ADDI4SPN" => i.imm = e.imm

(* The number the collector has for a field, and the value.                *)
NumberOf(f, t) ==
  LET s == RowSources(t)
      n == NameOf(t)
  IN  CASE f \in DOMAIN s -> t.operand[s[f]][2]
        [] f = "rs1" /\ f \notin DOMAIN s /\ ReadsSp(n, get_attr_list[n]) -> SP
        [] OTHER -> 0

ValueOf(f, t) ==
  LET s == RowSources(t)
      n == NameOf(t)
  IN  CASE f \in DOMAIN s -> gpr_state[t.operand[s[f]]]
        [] f = "rs1" /\ f \notin DOMAIN s /\ ReadsSp(n, get_attr_list[n]) ->
             gpr_state[<<"x", SP>>]
        [] OTHER -> 0

(* The fields of the instruction the collector makes of a row.             *)
LEMMA CollectedFields ==
  ASSUME NEW p, NEW t, ~IsFd(get_attr_list[NameOf(t)])
  PROVE  LET i == Collects(p, t)
             n == NameOf(t)
             a == get_attr_list[n]
             written == n \notin WithoutOperands /\ t.gpr # <<>>
             dest == t.gpr[Len(t.gpr)][1]
             changed == IF n \in WithoutOperands THEN {} ELSE {t.gpr[k][1] : k \in DOMAIN t.gpr}
         IN  /\ i.name = n /\ i.format = a.format /\ i.category = a.category
             /\ i.group = a.group
             /\ i.rs1 = NumberOf("rs1", t) /\ i.rs2 = NumberOf("rs2", t)
             /\ i.fs1 = NumberOf("fs1", t) /\ i.fs2 = NumberOf("fs2", t)
             /\ i.fs3 = NumberOf("fs3", t)
             /\ i.imm = NumberOf("imm", t) /\ i.csr = NumberOf("csr", t)
             /\ i.rs1_value = ValueOf("rs1", t) /\ i.rs2_value = ValueOf("rs2", t)
             /\ i.fs1_value = ValueOf("fs1", t) /\ i.fs2_value = ValueOf("fs2", t)
             /\ i.fs3_value = ValueOf("fs3", t)
             /\ i.rd = IF written THEN dest[2] ELSE 0
             /\ i.rd_value = IF written THEN Changed(gpr_state, changed, p.value)[dest] ELSE 0
             /\ i.fd = 0 /\ i.fd_value = 0
             /\ i.mem_addr = IF a.category \in {"LOAD", "STORE"}
                             THEN ValueOf("rs1", t) + NumberOf("imm", t) ELSE 0
             /\ i.gpr_hazard = NO_HAZARD /\ i.lsu_hazard = NO_HAZARD
<1> DEFINE n == NameOf(t)
           a == get_attr_list[n]
           o == t.operand
           s == RowSources(t)
           i == Collects(p, t)
           Implicit(f) == /\ f = "rs1" /\ f \notin DOMAIN s
                          /\ ~IsFd(a) /\ ReadsSp(n, a)
           Number(f) == CASE f \in DOMAIN s -> o[s[f]][2]
                          [] Implicit(f) -> SP
                          [] OTHER -> 0
           Value(f) == CASE f \in DOMAIN s -> gpr_state[o[s[f]]]
                         [] Implicit(f) -> gpr_state[<<"x", SP>>]
                         [] OTHER -> 0
           changed == IF n \in WithoutOperands THEN {} ELSE {t.gpr[k][1] : k \in DOMAIN t.gpr}
           after == Changed(gpr_state, changed, p.value)
           Written(f) == n \notin WithoutOperands /\ t.gpr # <<>> /\ ResultField(n, a) = f
           dest == t.gpr[Len(t.gpr)][1]
           has == HasOperands(n, a)
<1>1. i = [name |-> n, format |-> a.format, category |-> a.category,
           group |-> a.group, has |-> has,
           rs1 |-> Number("rs1"), rs2 |-> Number("rs2"),
           fs1 |-> Number("fs1"), fs2 |-> Number("fs2"), fs3 |-> Number("fs3"),
           rs1_value |-> Value("rs1"), rs2_value |-> Value("rs2"),
           fs1_value |-> Value("fs1"), fs2_value |-> Value("fs2"),
           fs3_value |-> Value("fs3"),
           imm |-> Number("imm"), csr |-> Number("csr"),
           rd |-> IF Written("rd") THEN dest[2] ELSE 0,
           rd_value |-> IF Written("rd") THEN after[dest] ELSE 0,
           fd |-> IF Written("fd") THEN dest[2] ELSE 0,
           fd_value |-> IF Written("fd") THEN after[dest] ELSE 0,
           mem_addr |-> IF a.category \in {"LOAD", "STORE"} /\ ~IsFd(a)
                        THEN Value("rs1") + Number("imm") ELSE 0,
           gpr_hazard |-> NO_HAZARD, lsu_hazard |-> NO_HAZARD]
  BY Zenon DEF Collects, Decode, RowSources
<1>2. \A f : Number(f) = NumberOf(f, t) /\ Value(f) = ValueOf(f, t)
  <2> TAKE f
  <2>1. Implicit(f) <=> f = "rs1" /\ f \notin DOMAIN s /\ ReadsSp(n, a)
    OBVIOUS
  <2>2. QED
    BY <2>1, Zenon DEF NumberOf, ValueOf
<1>3. /\ Written("rd") <=> (n \notin WithoutOperands /\ t.gpr # <<>>)
      /\ ~Written("fd")
  BY DEF ResultField
<1>4. ~IsFd(a)
  OBVIOUS
<1> HIDE DEF Number, Value, Written, dest, after, a, n, i, has
<1>5. /\ i.name = n /\ i.format = a.format /\ i.category = a.category
      /\ i.group = a.group
      /\ i.rs1 = Number("rs1") /\ i.rs2 = Number("rs2")
      /\ i.fs1 = Number("fs1") /\ i.fs2 = Number("fs2")
      /\ i.fs3 = Number("fs3")
      /\ i.imm = Number("imm") /\ i.csr = Number("csr")
      /\ i.rs1_value = Value("rs1") /\ i.rs2_value = Value("rs2")
      /\ i.fs1_value = Value("fs1") /\ i.fs2_value = Value("fs2")
      /\ i.fs3_value = Value("fs3")
  BY <1>1
<1>6. /\ i.rd = IF Written("rd") THEN dest[2] ELSE 0
      /\ i.rd_value = IF Written("rd") THEN after[dest] ELSE 0
      /\ i.fd = 0 /\ i.fd_value = 0
      /\ i.gpr_hazard = NO_HAZARD /\ i.lsu_hazard = NO_HAZARD
  BY <1>1, <1>3
<1>7. i.mem_addr = IF a.category \in {"LOAD", "STORE"}
                   THEN ValueOf("rs1", t) + NumberOf("imm", t) ELSE 0
  BY <1>1, <1>2, <1>4
<1>8. QED
  BY <1>2, <1>3, <1>5, <1>6, <1>7, Zenon DEF Number, Value, Written, dest, after, a,
     n, i, changed

(* The same of the instruction the program executes.                       *)
NumberIn(f, p) == IF f \in DOMAIN p.arg THEN p.arg[f] ELSE 0
ValueIn(f, p) == IF f \in DOMAIN p.arg THEN registers[<<Kind(f), p.arg[f]>>] ELSE 0

(* The fields of the instruction the program executes.                     *)
LEMMA ExecutedFields ==
  ASSUME NEW p
  PROVE  LET e == Executed(p)
             n == process_instr_name(p.name)
             a == get_attr_list[n]
         IN  /\ e.name = n /\ e.format = a.format /\ e.category = a.category
             /\ e.group = a.group
             /\ e.rs1 = NumberIn("rs1", p) /\ e.rs2 = NumberIn("rs2", p)
             /\ e.rd = NumberIn("rd", p)
             /\ e.fs1 = 0 /\ e.fs2 = 0 /\ e.fs3 = 0 /\ e.fd = 0
             /\ e.rs1_value = ValueIn("rs1", p) /\ e.rs2_value = ValueIn("rs2", p)
             /\ e.rd_value = IF <<"x", NumberIn("rd", p)>> \in Dest(p) THEN p.value ELSE 0
             /\ e.fs1_value = 0 /\ e.fs2_value = 0 /\ e.fs3_value = 0 /\ e.fd_value = 0
             /\ e.imm = NumberIn("imm", p) /\ e.csr = NumberIn("csr", p)
             /\ e.mem_addr = IF a.category \in {"LOAD", "STORE"}
                             THEN ValueIn("rs1", p) + NumberIn("imm", p) ELSE 0
<1> DEFINE n == process_instr_name(p.name)
           a == get_attr_list[n]
           e == Executed(p)
           Result == IF <<Kind("rd"), NumberIn("rd", p)>> \in Dest(p) THEN p.value ELSE 0
<1>1. e = [name |-> n, format |-> a.format, category |-> a.category,
           group |-> a.group,
           rs1 |-> NumberIn("rs1", p), rs2 |-> NumberIn("rs2", p),
           rd |-> NumberIn("rd", p),
           fs1 |-> 0, fs2 |-> 0, fs3 |-> 0, fd |-> 0,
           rs1_value |-> ValueIn("rs1", p), rs2_value |-> ValueIn("rs2", p),
           rd_value |-> Result,
           fs1_value |-> 0, fs2_value |-> 0, fs3_value |-> 0, fd_value |-> 0,
           imm |-> NumberIn("imm", p), csr |-> NumberIn("csr", p),
           mem_addr |-> IF a.category \in {"LOAD", "STORE"}
                        THEN ValueIn("rs1", p) + NumberIn("imm", p) ELSE 0,
           gpr_hazard |-> NO_HAZARD, lsu_hazard |-> NO_HAZARD]
  BY Zenon DEF Executed, NumberIn, ValueIn
<1>2. Result = IF <<"x", NumberIn("rd", p)>> \in Dest(p) THEN p.value ELSE 0
  BY DEF Kind
<1> HIDE DEF a, n, e, Result
<1>3. QED
  BY <1>1, <1>2 DEF a, n, e

(* An operand read from a row is the program's; so is the value, if the    *)
(* collector knows the register.                                           *)
LEMMA OperandsAgree ==
  ASSUME NEW p, WellFormed(p), Accepted(Text(p, layout)),
         NameOf(Text(p, layout)) = process_instr_name(p.name),
         ~IsFd(get_attr_list[process_instr_name(p.name)]),
         RegistersKnown, Reads(p) \cap unseen = {}
  PROVE  LET t == Text(p, layout)
         IN  /\ \A f \in {"rs1", "rs2", "csr"} : NumberOf(f, t) = NumberIn(f, p)
             /\ p.name # "C_ADDI4SPN" => NumberOf("imm", t) = NumberIn("imm", p)
             /\ \A f \in {"rs1", "rs2"} : ValueOf(f, t) = ValueIn(f, p)
             /\ \A f \in {"fs1", "fs2", "fs3"} : NumberOf(f, t) = 0 /\ ValueOf(f, t) = 0
<1> DEFINE t == Text(p, layout)
           n == NameOf(t)
           s == RowSources(t)
           o == t.operand
           sp == ReadsSp(n, get_attr_list[n])
<1>1. /\ n = p.name
      /\ DOMAIN s \subseteq {"rs1", "rs2", "imm", "csr"} \cap DOMAIN p.arg
      /\ \A f \in DOMAIN s : o[s[f]] = Operand(p, f)
      /\ \A f \in DOMAIN p.arg : \/ f = "rd" \/ f \in DOMAIN s
                                 \/ f = "rs1" /\ sp
                                 \/ f = "imm" /\ n = "C_ADDI4SPN"
      /\ sp => "rs1" \in DOMAIN p.arg /\ p.arg["rs1"] = SP
  BY RowShows, Zenon
<1>2. \A f : NumberOf(f, t) = CASE f \in DOMAIN s -> o[s[f]][2]
                                [] f = "rs1" /\ f \notin DOMAIN s /\ sp -> SP
                                [] OTHER -> 0
  BY Zenon DEF NumberOf
<1>3. \A f : ValueOf(f, t) = CASE f \in DOMAIN s -> gpr_state[o[s[f]]]
                                [] f = "rs1" /\ f \notin DOMAIN s /\ sp -> gpr_state[<<"x", SP>>]
                                [] OTHER -> 0
  BY Zenon DEF ValueOf
<1>4. ASSUME NEW f \in {"rs1", "rs2"}, f \in DOMAIN p.arg
      PROVE  /\ Operand(p, f) = <<"x", p.arg[f]>> /\ Kind(f) = "x"
             /\ gpr_state[<<"x", p.arg[f]>>] = registers[<<"x", p.arg[f]>>]
  <2>1. Kind(f) = "x"
    BY DEF Kind
  <2>2. <<"x", p.arg[f]>> \in Registers /\ <<"x", p.arg[f]>> \in Reads(p)
    BY <1>4, <2>1 DEF WellFormed, Registers, Reads
  <2>3. QED
    BY <2>1, <2>2 DEF RegistersKnown, Operand
<1> HIDE DEF t, n, s, o, sp
<1>5. ASSUME NEW f \in {"rs1", "rs2", "csr", "imm"}, f # "imm" \/ p.name # "C_ADDI4SPN"
      PROVE  NumberOf(f, t) = NumberIn(f, p)
  <2>1. CASE f \in DOMAIN s
    BY <1>1, <1>2, <2>1 DEF NumberIn, Operand
  <2>2. CASE f \notin DOMAIN s /\ f = "rs1" /\ sp
    BY <1>1, <1>2, <2>2 DEF NumberIn
  <2>3. CASE f \notin DOMAIN s /\ ~(f = "rs1" /\ sp)
    BY <1>1, <1>2, <1>5, <2>3 DEF NumberIn
  <2>4. QED
    BY <2>1, <2>2, <2>3
<1>6. ASSUME NEW f \in {"rs1", "rs2"}
      PROVE  ValueOf(f, t) = ValueIn(f, p)
  <2>1. CASE f \in DOMAIN s
    BY <1>1, <1>3, <1>4, <2>1 DEF ValueIn
  <2>2. CASE f \notin DOMAIN s /\ f = "rs1" /\ sp
    BY <1>1, <1>3, <1>4, <2>2 DEF ValueIn
  <2>3. CASE f \notin DOMAIN s /\ ~(f = "rs1" /\ sp)
    BY <1>1, <1>3, <2>3 DEF ValueIn
  <2>4. QED
    BY <2>1, <2>2, <2>3
<1>7. ASSUME NEW f \in {"fs1", "fs2", "fs3"}
      PROVE  NumberOf(f, t) = 0 /\ ValueOf(f, t) = 0
  BY <1>1, <1>2, <1>3
<1>8. QED
  BY <1>5, <1>6, <1>7 DEF t

(* The collector's instruction is the program's, when the row shows it and *)
(* the registers it reads are known.                                       *)
LEMMA CollectedAgrees ==
  ASSUME NEW p, WellFormed(p), Accepted(Text(p, layout)),
         NameOf(Text(p, layout)) = process_instr_name(p.name),
         ~IsFd(get_attr_list[process_instr_name(p.name)]),
         RegistersKnown, Reads(p) \cap unseen = {}
  PROVE  Agree(Collects(p, Text(p, layout)), Executed(p))
<1> DEFINE t == Text(p, layout)
           n == NameOf(t)
           a == get_attr_list[n]
           i == Collects(p, t)
           e == Executed(p)
           d == <<"x", p.arg["rd"]>>
           changed == IF n \in WithoutOperands THEN {} ELSE {t.gpr[k][1] : k \in DOMAIN t.gpr}
           written == n \notin WithoutOperands /\ t.gpr # <<>>
           dest == t.gpr[Len(t.gpr)][1]
<1>1. n \in Listed /\ ~IsFd(a) /\ n = p.name /\ (n \in WithoutOperands => DOMAIN p.arg = {})
  BY RowShows DEF Accepted
<1>2. IntFacts(n, a.format, a.category)
  BY <1>1, NameFacts
<1>3. /\ \A f \in {"rs1", "rs2", "csr"} : NumberOf(f, t) = NumberIn(f, p)
      /\ p.name # "C_ADDI4SPN" => NumberOf("imm", t) = NumberIn("imm", p)
      /\ \A f \in {"rs1", "rs2"} : ValueOf(f, t) = ValueIn(f, p)
      /\ \A f \in {"fs1", "fs2", "fs3"} : NumberOf(f, t) = 0 /\ ValueOf(f, t) = 0
  BY OperandsAgree
<1>4. /\ i.rd = IF written THEN dest[2] ELSE 0
      /\ i.rd_value = IF written THEN Changed(gpr_state, changed, p.value)[dest] ELSE 0
  BY <1>1, CollectedFields, Zenon
<1>5. /\ e.rd = NumberIn("rd", p)
      /\ e.rd_value = IF <<"x", NumberIn("rd", p)>> \in Dest(p) THEN p.value ELSE 0
  BY ExecutedFields, Zenon
<1>6. i.rd = e.rd /\ i.rd_value = e.rd_value
  <2>1. CASE /\ Dest(p) = {} /\ t.gpr = <<>>
             /\ "rd" \in DOMAIN p.arg => p.arg["rd"] = 0
    BY <1>4, <1>5, <2>1 DEF NumberIn
  <2>2. CASE /\ "rd" \in DOMAIN p.arg
             /\ Dest(p) = {d} /\ d \in Registers /\ t.gpr = <<<<d, p.value>>>>
    <3>1. n \notin WithoutOperands /\ NumberIn("rd", p) = p.arg["rd"]
      BY <1>1, <2>2 DEF NumberIn
    <3>2. t.gpr # <<>> /\ dest = d /\ d[2] = p.arg["rd"] /\ d \in changed
      BY <2>2, <3>1
    <3>3. written
      BY <3>1, <3>2
    <3> HIDE DEF dest, d, changed, i, e, t, written
    <3>4. Changed(gpr_state, changed, p.value)[dest] = p.value
      BY <2>2, <3>2 DEF Changed
    <3>5. e.rd = p.arg["rd"] /\ e.rd_value = p.value
      BY <1>5, <2>2, <3>1 DEF d
    <3>6. QED
      BY <1>4, <3>2, <3>3, <3>4, <3>5
  <2>3. QED
    BY <1>1, <2>1, <2>2, ResultShown
<1>7. /\ i.name = n /\ i.format = a.format /\ i.category = a.category
      /\ i.group = a.group
      /\ i.rs1 = NumberOf("rs1", t) /\ i.rs2 = NumberOf("rs2", t)
      /\ i.fs1 = NumberOf("fs1", t) /\ i.fs2 = NumberOf("fs2", t)
      /\ i.fs3 = NumberOf("fs3", t)
      /\ i.imm = NumberOf("imm", t) /\ i.csr = NumberOf("csr", t)
      /\ i.rs1_value = ValueOf("rs1", t) /\ i.rs2_value = ValueOf("rs2", t)
      /\ i.fs1_value = ValueOf("fs1", t) /\ i.fs2_value = ValueOf("fs2", t)
      /\ i.fs3_value = ValueOf("fs3", t) /\ i.fd = 0 /\ i.fd_value = 0
      /\ i.mem_addr = IF a.category \in {"LOAD", "STORE"}
                      THEN ValueOf("rs1", t) + NumberOf("imm", t) ELSE 0
  <2>1. /\ i.rs1 = NumberOf("rs1", t) /\ i.rs2 = NumberOf("rs2", t)
        /\ i.fs1 = NumberOf("fs1", t) /\ i.fs2 = NumberOf("fs2", t)
        /\ i.fs3 = NumberOf("fs3", t)
    BY <1>1, CollectedFields, Zenon
  <2>2. i.name = n
    BY <1>1, CollectedFields, Zenon
  <2>3. i.format = a.format
    BY <1>1, CollectedFields, Zenon
  <2>4. i.category = a.category
    BY <1>1, CollectedFields, Zenon
  <2>5. i.group = a.group
    BY <1>1, CollectedFields, Zenon
  <2>6. /\ i.imm = NumberOf("imm", t) /\ i.csr = NumberOf("csr", t)
        /\ i.rs1_value = ValueOf("rs1", t) /\ i.rs2_value = ValueOf("rs2", t)
        /\ i.fs1_value = ValueOf("fs1", t) /\ i.fs2_value = ValueOf("fs2", t)
        /\ i.fs3_value = ValueOf("fs3", t)
    BY <1>1, CollectedFields, Zenon
  <2>7. i.fd = 0 /\ i.fd_value = 0
    BY <1>1, CollectedFields, Zenon
  <2>8. i.mem_addr = IF a.category \in {"LOAD", "STORE"}
                     THEN ValueOf("rs1", t) + NumberOf("imm", t) ELSE 0
    BY <1>1, CollectedFields, Zenon
  <2>9. QED
    BY <2>1, <2>2, <2>3, <2>4, <2>5, <2>6, <2>7, <2>8, Zenon
<1>8. /\ e.name = n /\ e.format = a.format /\ e.category = a.category
      /\ e.group = a.group
      /\ e.rs1 = NumberIn("rs1", p) /\ e.rs2 = NumberIn("rs2", p)
      /\ e.fs1 = 0 /\ e.fs2 = 0 /\ e.fs3 = 0 /\ e.fd = 0
      /\ e.rs1_value = ValueIn("rs1", p) /\ e.rs2_value = ValueIn("rs2", p)
      /\ e.fs1_value = 0 /\ e.fs2_value = 0 /\ e.fs3_value = 0 /\ e.fd_value = 0
      /\ e.imm = NumberIn("imm", p) /\ e.csr = NumberIn("csr", p)
      /\ e.mem_addr = IF a.category \in {"LOAD", "STORE"}
                      THEN ValueIn("rs1", p) + NumberIn("imm", p) ELSE 0
  BY <1>1, ExecutedFields, Zenon
<1> HIDE DEF i, e, a, n, t
<1>9. i.mem_addr = e.mem_addr
  <2>1. CASE a.category \in {"LOAD", "STORE"}
    <3>1. n # "C_ADDI4SPN"
      BY <1>2, <2>1 DEF IntFacts
    <3>2. QED
      BY <1>1, <1>3, <1>7, <1>8, <2>1, <3>1
  <2>2. CASE a.category \notin {"LOAD", "STORE"}
    BY <1>7, <1>8, <2>2
  <2>3. QED
    BY <2>1, <2>2
<1>10. /\ i.name = e.name /\ i.format = e.format /\ i.category = e.category
      /\ i.group = e.group /\ i.csr = e.csr
      /\ i.rs1 = e.rs1 /\ i.rs2 = e.rs2
      /\ i.rs1_value = e.rs1_value /\ i.rs2_value = e.rs2_value
  BY <1>3, <1>7, <1>8
<1>11. /\ i.fs1 = e.fs1 /\ i.fs2 = e.fs2 /\ i.fs3 = e.fs3 /\ i.fd = e.fd
      /\ i.fs1_value = e.fs1_value /\ i.fs2_value = e.fs2_value
      /\ i.fs3_value = e.fs3_value /\ i.fd_value = e.fd_value
  BY <1>3, <1>7, <1>8
<1>12. i.name = p.name /\ (p.name # "C_ADDI4SPN" => i.imm = e.imm)
  BY <1>1, <1>3, <1>7, <1>8
<1>13. Agree(i, e)
  BY <1>6, <1>9, <1>10, <1>11, <1>12 DEF Agree
<1>14. QED
  BY <1>13 DEF i, e, t

(* The register changes the collector takes from a sampled row are those   *)
(* of the instruction.                                                     *)
LEMMA ChangesOfRow ==
  ASSUME NEW p, WellFormed(p), NEW lay, NameOf(Text(p, lay)) \in Listed
  PROVE  LET t == Text(p, lay)
         IN  Dest(p) = IF NameOf(t) \in WithoutOperands THEN {}
                       ELSE {t.gpr[k][1] : k \in DOMAIN t.gpr}
<1> DEFINE t == Text(p, lay)
           m == NameOf(t)
           q == process_instr_name(p.name)
           g == t.gpr
<1>1. q \in Listed /\ (m = q \/ m \in {"CSRRW", "ADDI"})
  BY NameInRow
<1>2. CASE m \in WithoutOperands
  <2>1. m = q
    BY <1>1, <1>2 DEF WithoutOperands
  <2>2. DOMAIN p.arg = {}
    BY <1>1, <1>2, <2>1, KnownName, NothingShown
  <2>3. Dest(p) = {}
    BY <2>2 DEF Dest
  <2>4. QED
    BY <1>2, <2>3
<1>3. CASE m \notin WithoutOperands
  <2>1. CASE Dest(p) = {} /\ g = <<>>
    BY <1>3, <2>1
  <2>2. ASSUME NEW d \in Dest(p), Dest(p) = {d}, g = <<<<d, p.value>>>>
        PROVE  Dest(p) = {g[k][1] : k \in DOMAIN g}
    <3>1. DOMAIN g = {1} /\ g[1][1] = d
      BY <2>2
    <3> HIDE DEF g
    <3>2. QED
      BY <2>2, <3>1
  <2>3. Dest(p) = {g[k][1] : k \in DOMAIN g}
    BY <1>1, <2>1, <2>2, ReportedRegister
  <2>4. QED
    BY <1>3, <2>3
<1>4. QED
  BY <1>2, <1>3

(* What the collector knows of the registers stays true: a change it       *)
(* misses is among the unseen ones, as is every register that is not zero  *)
(* when the next CSV begins.                                               *)
LEMMA KnownAfterMissedRow ==
  ASSUME RegistersKnown, NEW p, Executes(p, FALSE), UNCHANGED gpr_state
  PROVE  RegistersKnown'
<1>1. /\ registers' = [r \in Registers |-> IF r \in Dest(p) THEN p.value ELSE registers[r]]
      /\ unseen' = unseen \cup Dest(p)
  BY DEF Executes, Changed
<1>2. \A r \in Registers \ unseen' : gpr_state'[r] = registers'[r]
  BY <1>1 DEF RegistersKnown
<1>3. DOMAIN registers' = Registers /\ DOMAIN gpr_state' = Registers
  BY <1>1 DEF RegistersKnown
<1>4. QED
  BY <1>2, <1>3 DEF RegistersKnown

(* A sampled row changes the registers on both sides alike.                *)
LEMMA KnownAfterSample ==
  ASSUME RegistersKnown, NEW p, WellFormed(p), Sample(p, Text(p, layout))
  PROVE  RegistersKnown'
<1> DEFINE t == Text(p, layout)
<1>1. gpr_state' = Changed(gpr_state, IF NameOf(t) \in WithoutOperands THEN {}
                                      ELSE {t.gpr[k][1] : k \in DOMAIN t.gpr}, p.value)
  BY Zenon DEF Sample
<1>2. gpr_state' = Changed(gpr_state, Dest(p), p.value)
  <2>1. NameOf(t) \in Listed
    BY Zenon DEF Sample, Accepted
  <2>2. QED
    BY <1>1, <2>1, ChangesOfRow
<1>3. registers' = Changed(registers, Dest(p), p.value) /\ unseen' = unseen \ Dest(p)
  BY DEF Sample, Executes
<1>4. DOMAIN registers' = Registers /\ DOMAIN gpr_state' = Registers
  BY <1>2, <1>3 DEF Changed
<1>5. ASSUME NEW r \in Registers \ unseen' PROVE gpr_state'[r] = registers'[r]
  <2>1. CASE r \in Dest(p)
    BY <1>2, <1>3, <2>1 DEF Changed
  <2>2. CASE r \notin Dest(p)
    <3>1. gpr_state[r] = registers[r]
      BY <1>3, <1>5, <2>2 DEF RegistersKnown
    <3>2. QED
      BY <1>2, <1>3, <2>2, <3>1 DEF Changed
  <2>3. QED
    BY <2>1, <2>2
<1>6. QED
  BY <1>4, <1>5 DEF RegistersKnown

(* Every step keeps what the collector knows of the registers true.        *)
LEMMA StepKnown == TypeOK /\ RegistersKnown /\ [Next]_vars => RegistersKnown'
<1> SUFFICES ASSUME TypeOK, RegistersKnown, [Next]_vars PROVE RegistersKnown'
  OBVIOUS
<1>1. CASE ReadRow
  <2>1. PICK p \in Steps[row + 1] :
          /\ WellFormed(p)
          /\ \/ SkipMalformed(p)
             \/ PassByName(p, Text(p, layout))
             \/ RejectUnknown(p, Text(p, layout))
             \/ PassUnsupported(p, Text(p, layout))
             \/ Sample(p, Text(p, layout))
             \/ Die(p, Text(p, layout))
    BY <1>1, RowOfProgram
  <2>2. \/ Executes(p, FALSE) /\ UNCHANGED gpr_state
        \/ Sample(p, Text(p, layout))
        \/ UNCHANGED <<gpr_state, registers, unseen>>
    BY <2>1, Zenon DEF SkipMalformed, PassByName, RejectUnknown, PassUnsupported, Die
  <2>3. QED
    BY <2>1, <2>2, KnownAfterMissedRow, KnownAfterSample DEF RegistersKnown
<1>2. CASE NextFile
  <2>1. /\ registers' = Blank /\ unseen' = {r \in Registers : gpr_state[r] # 0}
        /\ UNCHANGED gpr_state
    BY <1>2, Zenon DEF NextFile
  <2>2. QED
    BY <2>1 DEF RegistersKnown, Blank
<1>3. CASE UNCHANGED <<gpr_state, registers, unseen>>
  BY <1>3 DEF RegistersKnown
<1>4. QED
  BY <1>1, <1>2, <1>3, Zenon DEF Next, NextBatch, Finish, vars, ghosts

-----------------------------------------------------------------------------
(* The hazards between memory accesses.                                    *)

(* The fields of a collected instruction are all there.                    *)
LEMMA CollectedDomain ==
  ASSUME NEW p, NEW t
  PROVE  {"name", "format", "category", "group", "csr", "mem_addr", "imm",
          "rs1", "rs2", "rd", "fs1", "fs2", "fs3", "fd",
          "rs1_value", "rs2_value", "rd_value", "fs1_value", "fs2_value",
          "fs3_value", "fd_value", "gpr_hazard", "lsu_hazard"} \subseteq DOMAIN Collects(p, t)
  BY DEF Collects, Decode

(* Only the hazards are added to it.                                       *)
LEMMA HazardsAdded ==
  ASSUME NEW p, NEW t
  PROVE  LET i == Collects(p, t)
             j == WithHazards(i)
         IN  /\ Agree(j, i)
             /\ instr_cnt > 0 => j.lsu_hazard = lsu_hazard(i, pre_instr)
             /\ ~(instr_cnt > 0) => j.lsu_hazard = i.lsu_hazard
<1> DEFINE i == Collects(p, t)
           j == WithHazards(i)
           D == {"name", "format", "category", "group", "csr", "mem_addr", "imm",
                 "rs1", "rs2", "rd", "fs1", "fs2", "fs3", "fd",
                 "rs1_value", "rs2_value", "rd_value", "fs1_value", "fs2_value",
                 "fs3_value", "fd_value"}
<1>1. D \subseteq DOMAIN i /\ {"gpr_hazard", "lsu_hazard"} \subseteq DOMAIN i
  BY CollectedDomain
<1>2. D \cap {"gpr_hazard", "lsu_hazard"} = {}
  OBVIOUS
<1>3. CASE instr_cnt > 0
  <2>1. j = [i EXCEPT !.gpr_hazard = gpr_hazard(i, pre_instr),
                      !.lsu_hazard = lsu_hazard(i, pre_instr)]
    BY <1>3, Zenon DEF WithHazards
  <2> HIDE DEF i, j, D
  <2>2. \A f \in D : j[f] = i[f]
    BY <1>1, <1>2, <2>1
  <2>3. j.lsu_hazard = lsu_hazard(i, pre_instr)
    BY <1>1, <2>1
  <2>4. Agree(j, i)
    BY <2>2 DEF Agree, D
  <2>5. QED
    BY <1>3, <2>3, <2>4 DEF i, j
<1>4. CASE ~(instr_cnt > 0)
  <2>1. j = i
    BY <1>4, Zenon DEF WithHazards
  <2> HIDE DEF i, j, D
  <2>2. Agree(j, i)
    BY <2>1, Zenon DEF Agree
  <2>3. QED
    BY <1>4, <2>1, <2>2 DEF i, j
<1>5. QED
  BY <1>3, <1>4

(* The access an instruction of the collector makes.                       *)
ShownAccess(i) ==
  IF i.category \in {"LOAD", "STORE"}
  THEN [kind |-> i.category, address |-> i.mem_addr] ELSE NoAccess

(* The access the program made, when it is known, is that of the           *)
(* instruction that was sampled.                                           *)
LEMMA AccessShown ==
  ASSUME RegistersKnown, NEW p, WellFormed(p), Sample(p, Text(p, layout)),
         AccessOf(p).kind # "UNKNOWN"
  PROVE  LET t == Text(p, layout)
         IN  /\ NameOf(t) \in Listed /\ ~IsFd(get_attr_list[NameOf(t)])
             /\ AccessOf(p) = ShownAccess(Collects(p, t))
<1> DEFINE t == Text(p, layout)
           m == NameOf(t)
           q == process_instr_name(p.name)
           i == Collects(p, t)
           e == Executed(p)
<1>1. Accepted(t)
  BY Zenon DEF Sample
<1>2. q \in Listed /\ m \in Listed /\ (m = q \/ (q \in {"CSRRS", "NOP"} /\ m \in {"CSRRW", "ADDI"}))
  BY <1>1, NameInRow DEF Accepted
<1>3. /\ e.group \notin FdGroups /\ Reads(p) \cap unseen = {}
      /\ AccessOf(p) = ShownAccess(e)
  BY DEF AccessOf, UnknownAccess, ShownAccess
<1>4. e.group = get_attr_list[q].group /\ e.category = get_attr_list[q].category
  BY ExecutedFields, Zenon
<1>5. ~IsFd(get_attr_list[q])
  BY <1>3, <1>4 DEF IsFd, FdGroups
<1>6. CASE m = q
  <2>1. Agree(i, e)
    BY <1>1, <1>3, <1>5, <1>6, CollectedAgrees
  <2> HIDE DEF i, e
  <2>2. ShownAccess(i) = ShownAccess(e)
    BY <2>1 DEF ShownAccess, Agree
  <2>3. QED
    BY <1>2, <1>3, <1>5, <1>6, <2>2 DEF i, e
<1>7. CASE q \in {"CSRRS", "NOP"} /\ m \in {"CSRRW", "ADDI"}
  <2>1. ~IsFd(get_attr_list[m])
    BY <1>2, <1>7, NameFacts DEF FdFacts
  <2>2. /\ get_attr_list[m].category \notin {"LOAD", "STORE"}
        /\ get_attr_list[q].category \notin {"LOAD", "STORE"}
    BY <1>2, <1>5, <1>7, <2>1, NameFacts DEF IntFacts
  <2>3. i.category = get_attr_list[m].category
    BY <2>1, CollectedFields, Zenon
  <2> HIDE DEF i, e
  <2>4. ShownAccess(i) = NoAccess /\ ShownAccess(e) = NoAccess
    BY <1>4, <2>2, <2>3 DEF ShownAccess
  <2>5. QED
    BY <1>2, <1>3, <2>1, <2>4 DEF i, e
<1>8. QED
  BY <1>2, <1>6, <1>7

(* The inductive invariant: of the row before, the access is the one of    *)
(* the last sampled instruction, or is not known; at the start of a CSV    *)
(* there is none.                                                          *)
LastAccess ==
  /\ instr_cnt = 0 => access[2] \in {NoAccess, UnknownAccess}
  /\ instr_cnt > 0 /\ access[2].kind # "UNKNOWN" => access[2] = ShownAccess(pre_instr)

(* A row that is not sampled leaves an access that is not known.           *)
LEMMA HazardsAfterMissedRow ==
  ASSUME access' = <<access[2], UnknownAccess>>
  PROVE  LastAccess' /\ MemHazardsReal'
<1>1. access'[2] = UnknownAccess
  OBVIOUS
<1>2. access'[2].kind = "UNKNOWN"
  BY <1>1 DEF UnknownAccess
<1>3. LastAccess'
  BY <1>1, <1>2 DEF LastAccess
<1>4. MemHazardsReal'
  BY <1>2 DEF MemHazardsReal
<1>5. QED
  BY <1>3, <1>4

(* The hazard of a sampled row is the one between the two accesses.        *)
LEMMA HazardsAfterSample ==
  ASSUME TypeOK, RegistersKnown, LastAccess, NEW p, WellFormed(p), Sample(p, Text(p, layout))
  PROVE  LastAccess' /\ MemHazardsReal'
<1> DEFINE t == Text(p, layout)
           i == Collects(p, t)
           j == WithHazards(i)
<1>1. /\ instr_cnt' = instr_cnt + 1 /\ pre_instr' = j
      /\ access' = <<access[2], AccessOf(p)>>
  BY SampledInstr, Zenon DEF Sample
<1>2. access'[1] = access[2] /\ access'[2] = AccessOf(p)
  BY <1>1
<1>3. instr_cnt \in Nat /\ instr_cnt' > 0 /\ instr_cnt' # 0
  BY <1>1 DEF TypeOK
<1>4. CASE AccessOf(p).kind = "UNKNOWN"
  BY <1>2, <1>3, <1>4 DEF LastAccess, MemHazardsReal
<1>5. CASE AccessOf(p).kind # "UNKNOWN"
  <2>1. /\ ~IsFd(get_attr_list[NameOf(t)]) /\ AccessOf(p) = ShownAccess(i)
    BY <1>5, AccessShown
  <2>2. /\ Agree(j, i)
        /\ instr_cnt > 0 => j.lsu_hazard = lsu_hazard(i, pre_instr)
        /\ ~(instr_cnt > 0) => j.lsu_hazard = i.lsu_hazard
    BY HazardsAdded
  <2>3. i.lsu_hazard = NO_HAZARD
    BY <2>1, CollectedFields, Zenon
  <2>4. j.category = i.category /\ j.mem_addr = i.mem_addr
    BY <2>2 DEF Agree
  <2> HIDE DEF i, j, t
  <2>5. access'[2] = ShownAccess(pre_instr')
    BY <1>1, <1>2, <2>1, <2>4 DEF ShownAccess
  <2>6. LastAccess'
    BY <1>3, <2>5 DEF LastAccess
  <2>7. MemHazardsReal'
    <3> DEFINE before == access'[1]
               last == access'[2]
               Pair(a, b) == before.kind = a /\ last.kind = b
                               /\ before.address = last.address
               lsu == pre_instr'.lsu_hazard
    <3>1. SUFFICES ASSUME "UNKNOWN" \notin {before.kind, last.kind}, last.kind # "NONE"
                   PROVE  /\ lsu = RAW_HAZARD <=> Pair("STORE", "LOAD")
                          /\ lsu = WAW_HAZARD <=> Pair("STORE", "STORE")
                          /\ lsu = WAR_HAZARD <=> Pair("LOAD", "STORE")
      BY Zenon DEF MemHazardsReal
    <3>2. lsu = j.lsu_hazard /\ before = access[2] /\ last = ShownAccess(i)
      BY <1>1, <1>2, <2>1
    <3> HIDE DEF lsu, before, last
    <3>3. i.category \in {"LOAD", "STORE"} /\ last.kind = i.category /\ last.address = i.mem_addr
      BY <3>1, <3>2 DEF ShownAccess, NoAccess
    <3>4. CASE ~(instr_cnt > 0)
      <4>1. before.kind = "NONE"
        BY <1>3, <3>1, <3>2, <3>4 DEF LastAccess, NoAccess, UnknownAccess
      <4>2. lsu = NO_HAZARD
        BY <2>2, <2>3, <3>2, <3>4
      <4>3. QED
        BY <4>1, <4>2 DEF NO_HAZARD, RAW_HAZARD, WAW_HAZARD, WAR_HAZARD
    <3>5. CASE instr_cnt > 0
      <4>1. before = ShownAccess(pre_instr)
        BY <3>1, <3>2, <3>5 DEF LastAccess
      <4>2. lsu = lsu_hazard(i, pre_instr)
        BY <2>2, <3>2, <3>5
      <4>3. CASE pre_instr.category \in {"LOAD", "STORE"}
        <5>1. before.kind = pre_instr.category /\ before.address = pre_instr.mem_addr
          BY <4>1, <4>3 DEF ShownAccess
        <5>2. QED
          BY <3>3, <4>2, <4>3, <5>1
          DEF lsu_hazard, MemHazard, NO_HAZARD, RAW_HAZARD, WAW_HAZARD, WAR_HAZARD
      <4>4. CASE pre_instr.category \notin {"LOAD", "STORE"}
        <5>1. before.kind = "NONE"
          BY <4>1, <4>4 DEF ShownAccess, NoAccess
        <5>2. lsu = NO_HAZARD
          BY <4>2, <4>4 DEF lsu_hazard, MemHazard
        <5>3. QED
          BY <5>1, <5>2 DEF NO_HAZARD, RAW_HAZARD, WAW_HAZARD, WAR_HAZARD
      <4>5. QED
        BY <4>3, <4>4
    <3>6. QED
      BY <3>4, <3>5
  <2>8. QED
    BY <2>6, <2>7
<1>6. QED
  BY <1>4, <1>5

(* Every step keeps the access of the row before, and so the hazard.       *)
LEMMA StepHazards ==
  TypeOK /\ RegistersKnown /\ LastAccess /\ MemHazardsReal /\ [Next]_vars
    => LastAccess' /\ MemHazardsReal'
<1> SUFFICES ASSUME TypeOK, RegistersKnown, LastAccess, MemHazardsReal, [Next]_vars
             PROVE  LastAccess' /\ MemHazardsReal'
  OBVIOUS
<1>1. CASE UNCHANGED <<instr_cnt, pre_instr, access>>
  BY <1>1 DEF LastAccess, MemHazardsReal
<1>2. CASE ReadRow
  <2>1. PICK p \in Steps[row + 1] :
          /\ WellFormed(p)
          /\ \/ SkipMalformed(p)
             \/ PassByName(p, Text(p, layout))
             \/ RejectUnknown(p, Text(p, layout))
             \/ PassUnsupported(p, Text(p, layout))
             \/ Sample(p, Text(p, layout))
             \/ Die(p, Text(p, layout))
    BY <1>2, RowOfProgram
  <2>2. \/ access' = <<access[2], UnknownAccess>>
        \/ Sample(p, Text(p, layout))
        \/ UNCHANGED <<instr_cnt, pre_instr, access>>
    BY <2>1, Zenon DEF SkipMalformed, PassByName, RejectUnknown, PassUnsupported, Die
  <2>3. QED
    BY <1>1, <2>1, <2>2, HazardsAfterMissedRow, HazardsAfterSample
<1>3. CASE NextFile
  <2>1. instr_cnt' = 0 /\ access' = <<NoAccess, NoAccess>>
    BY <1>3, Zenon DEF NextFile
  <2>2. access'[2] = NoAccess /\ access'[2].kind = "NONE"
    BY <2>1 DEF NoAccess
  <2>3. QED
    BY <2>1, <2>2 DEF LastAccess, MemHazardsReal
<1>4. QED
  BY <1>1, <1>2, <1>3, Zenon DEF Next, NextBatch, Finish, vars, ghosts

(* Both start with blank registers, and with no access.                    *)
LEMMA InitHazards == Init => RegistersKnown /\ LastAccess /\ MemHazardsReal
<1> SUFFICES ASSUME Init PROVE RegistersKnown /\ LastAccess /\ MemHazardsReal
  OBVIOUS
<1>1. RegistersKnown
  BY DEF Init, RegistersKnown, Blank
<1>2. instr_cnt = 0 /\ access[2] = NoAccess /\ access[2].kind = "NONE"
  BY DEF Init, NothingSampled, NoAccess
<1>3. QED
  BY <1>1, <1>2 DEF LastAccess, MemHazardsReal

(* The collector's idea of the registers: those whose last change it has   *)
(* seen have the program's value (get_gpr_state, update_dst_regs).         *)
THEOREM KnownRegistersAgree == Spec => []RegistersKnown
  BY InitHazards, TypeCorrect, StepKnown, PTL DEF Spec

(* The hazard sampled for an integer load or store is the one between it   *)
(* and the instruction before it, when that one was sampled too, also at   *)
(* the start of a CSV (check_hazard_condition, the counter that reset      *)
(* clears, and pre_instr).                                                 *)
THEOREM MemoryHazards == Spec => []MemHazardsReal
  BY InitHazards, TypeCorrect, KnownRegistersAgree, StepHazards, PTL DEF Spec

-----------------------------------------------------------------------------
(* The bins a sampled instruction hits.                                    *)

HazardFields == {"gpr_hazard", "lsu_hazard"}

(* A group reads the fields F, besides the hazards; a point with the name  *)
(* of one of them reads it, and its crosses name such points.              *)
FieldsRead(g, F) ==
  /\ \A p \in g.points : p.field \in F \cup HazardFields
  /\ \A p \in g.points : p.name \in F => p.field = p.name
  /\ \A c \in g.crosses : \A k \in DOMAIN c :
       c[k] \in F /\ \E p \in g.points : p.name = c[k]

(* Two samples that agree on the fields a group reads hit the same bins of *)
(* it, but for those on hazards.                                           *)
LEMMA SameHits ==
  ASSUME NEW s, NEW u, NEW F, \A f \in F : s[f] = u[f],
         NEW g, FieldsRead(g, F), NEW name
  PROVE  Sound(Hits(name, g, s)) \subseteq Hits(name, g, u)
<1> SUFFICES ASSUME NEW h \in Hits(name, g, s),
                    Range(h[2]) \cap HazardFields = {}
             PROVE  h \in Hits(name, g, u)
  BY DEF Sound, HazardFields
<1>1. CASE h \in PointHits(name, g, s)
  <2>1. PICK p \in g.points : /\ h = <<name, <<p.name, p.field>>, <<s[p.field]>>>>
                              /\ s[p.field] \in p.bins
    BY <1>1 DEF PointHits
  <2>2. p.field \in Range(h[2])
    <3>1. h[2] = <<p.name, p.field>>
      BY <2>1
    <3>2. h[2][2] = p.field /\ 2 \in DOMAIN h[2]
      BY <3>1
    <3>3. QED
      BY <3>2 DEF Range
  <2>3. p.field \in F
    BY <2>2 DEF FieldsRead
  <2>4. s[p.field] = u[p.field]
    BY <2>3
  <2>5. QED
    BY <2>1, <2>4 DEF Hits, PointHits
<1>2. CASE h \in CrossHits(name, g, s)
  <2> DEFINE At(n) == CHOOSE p \in g.points : p.name = n
  <2>1. PICK c \in g.crosses :
          /\ \A k \in DOMAIN c : s[At(c[k]).field] \in At(c[k]).bins
          /\ h = <<name, c, [k \in DOMAIN c |-> s[At(c[k]).field]]>>
    BY <1>2 DEF CrossHits
  <2>2. ASSUME NEW k \in DOMAIN c PROVE s[At(c[k]).field] = u[At(c[k]).field]
    <3>1. At(c[k]) \in g.points /\ At(c[k]).name = c[k]
      BY DEF FieldsRead
    <3>2. At(c[k]).field = c[k] /\ c[k] \in F
      BY <3>1 DEF FieldsRead
    <3>3. QED
      BY <3>2
  <2>3. \A k \in DOMAIN c : u[At(c[k]).field] \in At(c[k]).bins
    BY <2>1, <2>2
  <2>4. [k \in DOMAIN c |-> s[At(c[k]).field]] = [k \in DOMAIN c |-> u[At(c[k]).field]]
    BY <2>2
  <2>5. h = <<name, c, [k \in DOMAIN c |-> u[At(c[k]).field]]>>
    BY <2>1, <2>4
  <2>6. h \in CrossHits(name, g, u)
    <3>1. CrossHits(name, g, u)
            = {<<name, d, [k \in DOMAIN d |-> u[At(d[k]).field]]>> :
                 d \in {d \in g.crosses :
                          \A k \in DOMAIN d : u[At(d[k]).field] \in At(d[k]).bins}}
      BY DEF CrossHits
    <3> HIDE DEF At
    <3>2. c \in {d \in g.crosses :
                    \A k \in DOMAIN d : u[At(d[k]).field] \in At(d[k]).bins}
      BY <2>3
    <3>3. QED
      BY <2>5, <3>1, <3>2
  <2>7. QED
    BY <2>6 DEF Hits
<1>3. QED
  BY <1>1, <1>2 DEF Hits

(* The groups that are not per instruction read the word, and the value    *)
(* written to a CSR's register.                                            *)
LEMMA WordGroups ==
  /\ FieldsRead(hint_cg, {"hint"}) /\ FieldsRead(illegal_compressed_instr_cg, {"reserved"})
  /\ FieldsRead(opcode_cg, {"binary_6_2"}) /\ FieldsRead(mepc_alignment_cg, {"rd_value_2_0"})
  BY DEF FieldsRead, hint_cg, illegal_compressed_instr_cg, opcode_cg, mepc_alignment_cg,
         Group, Point

(* Two instructions of one name hit the same bins, but for those Sound     *)
(* leaves out, when the fields that the groups of the name read agree.     *)
LEMMA SameSample ==
  ASSUME NEW i, NEW e, NEW w, i.name = e.name, i.group = e.group,
         i.category = e.category, i.name \in Listed,
         i.category = "CSR" => i.csr = e.csr /\ i.rd_value = e.rd_value,
         get_attr_list[i.name].group \notin FdGroups /\ i.name \in DOMAIN instances =>
           \E F : /\ FieldsRead(instances[i.name], F)
                  /\ \A f \in F : Fields(i, w)[f] = Fields(e, w)[f]
  PROVE  Sound(sample(i, w)) \subseteq Sound(sample(e, w))
<1> DEFINE s == Fields(i, w)
           u == Fields(e, w)
           n == i.name
<1>1. /\ s["hint"] = u["hint"] /\ s["reserved"] = u["reserved"]
      /\ s["binary_6_2"] = u["binary_6_2"]
  BY DEF Fields
<1>2. i.category = "CSR" => s["rd_value_2_0"] = u["rd_value_2_0"]
  BY DEF Fields
<1> DEFINE Word(r) == IF w.compressed /\ "RV32C" \in supported_isa
                      THEN Hits("hint", hint_cg, r)
                             \cup Hits("illegal_compressed", illegal_compressed_instr_cg, r)
                      ELSE {}
           Opcode(r) == IF ~w.compressed THEN Hits("opcode", opcode_cg, r) ELSE {}
           Own(r) == IF n \in DOMAIN instances THEN Hits(n, instances[n], r) ELSE {}
           Misc(r) == IF i.group = "RV32I" THEN Hits("rv32i_misc", rv32i_misc_cg, r) ELSE {}
           Mepc(r) == IF i.category = "CSR" /\ i.csr = 833
                      THEN Hits("mepc_alignment", mepc_alignment_cg, r) ELSE {}
<1>3. sample(i, w) = Word(s) \cup Opcode(s) \cup Own(s) \cup Misc(s) \cup Mepc(s)
  <2>1. sample(i, w) = UNION {Word(s), Opcode(s), Own(s), Misc(s), Mepc(s)}
    BY Zenon DEF sample
  <2> HIDE DEF Word, Opcode, Own, Misc, Mepc, s
  <2>2. QED
    BY <2>1
<1>4. sample(e, w) = Word(u) \cup Opcode(u) \cup Own(u) \cup Misc(u) \cup Mepc(u)
  <2>1. sample(e, w) = UNION {Word(u), Opcode(u), Own(u), Misc(u), Mepc(u)}
    <3>1. (e.category = "CSR" /\ e.csr = 833) <=> (i.category = "CSR" /\ i.csr = 833)
      OBVIOUS
    <3>2. QED
      BY <3>1 DEF sample
  <2> HIDE DEF Word, Opcode, Own, Misc, Mepc, u
  <2>2. QED
    BY <2>1
<1> HIDE DEF s, u
<1>5. SUFFICES ASSUME NEW h \in Sound(sample(i, w)) PROVE h \in sample(e, w)
  BY DEF Sound
<1>6. /\ h[1] # "rv32i_misc" /\ (h[1] \in Listed => get_attr_list[h[1]].group \notin FdGroups)
      /\ \A T : h \in T => h \in Sound(T)
  BY DEF Sound
<1>7. CASE h \in Word(s)
  <2>1. CASE h \in Hits("hint", hint_cg, s)
    <3>1. h \in Hits("hint", hint_cg, u)
      BY <1>1, <1>6, <2>1, SameHits, WordGroups
    <3>2. QED
      BY <1>4, <1>7, <3>1
  <2>2. CASE h \in Hits("illegal_compressed", illegal_compressed_instr_cg, s)
    <3>1. h \in Hits("illegal_compressed", illegal_compressed_instr_cg, u)
      BY <1>1, <1>6, <2>2, SameHits, WordGroups
    <3>2. QED
      BY <1>4, <1>7, <3>1
  <2>3. QED
    BY <1>7, <2>1, <2>2
<1>8. CASE h \in Opcode(s)
  <2>1. h \in Hits("opcode", opcode_cg, u)
    BY <1>1, <1>6, <1>8, SameHits, WordGroups
  <2>2. QED
    BY <1>4, <1>8, <2>1
<1>9. CASE h \in Own(s)
  <2>1. n \in DOMAIN instances /\ h \in Hits(n, instances[n], s)
    BY <1>9
  <2>2. h[1] = n
    BY <2>1 DEF Hits, PointHits, CrossHits
  <2>3. PICK F : /\ FieldsRead(instances[n], F)
                 /\ \A f \in F : s[f] = u[f]
    BY <1>6, <2>1, <2>2 DEF s, u
  <2>4. h \in Hits(n, instances[n], u)
    BY <1>6, <2>1, <2>3, SameHits
  <2>5. QED
    BY <1>4, <2>1, <2>4
<1>10. CASE h \in Misc(s)
  <2>1. h[1] = "rv32i_misc"
    BY <1>10 DEF Hits, PointHits, CrossHits
  <2>2. QED
    BY <1>6, <2>1
<1>11. CASE h \in Mepc(s)
  <2>1. i.category = "CSR" /\ i.csr = 833 /\ h \in Hits("mepc_alignment", mepc_alignment_cg, s)
    BY <1>11
  <2>2. h \in Hits("mepc_alignment", mepc_alignment_cg, u)
    BY <1>2, <1>6, <2>1, SameHits, WordGroups DEF s, u
  <2>3. QED
    BY <1>4, <2>1, <2>2
<1>12. QED
  BY <1>3, <1>5, <1>7, <1>8, <1>9, <1>10, <1>11 DEF Sound

-----------------------------------------------------------------------------
(* The groups of the integer instructions.                                 *)

FdInstances ==
  {"FLW", "FLD", "FSW", "FADD_S", "FADD_D", "FSUB_S", "FSUB_D", "FMUL_S",
   "FMUL_D", "FDIV_S", "FDIV_D", "FSQRT_S", "FSQRT_D", "FMIN_S", "FMIN_D",
   "FMAX_S", "FMAX_D", "FMADD_S", "FMADD_D", "FNMADD_S", "FNMADD_D",
   "FMSUB_S", "FMSUB_D", "FNMSUB_S", "FNMSUB_D", "FCVT_S_D", "FCVT_D_S",
   "FCVT_W_S", "FCVT_WU_S", "FCVT_L_S", "FCVT_LU_S", "FCVT_L_D", "FCVT_LU_D",
   "FCVT_W_D", "FCVT_WU_D", "FCVT_S_W", "FCVT_S_WU", "FCVT_S_L", "FCVT_D_L",
   "FCVT_S_LU", "FCVT_D_W", "FCVT_D_LU", "FCVT_D_WU", "FSGNJ_S", "FSGNJ_D",
   "FSGNJN_S", "FSGNJN_D", "FSGNJX_S", "FSGNJX_D", "FMV_X_W", "FMV_X_D",
   "FMV_W_X", "FMV_D_X", "FEQ_S", "FEQ_D", "FLT_S", "FLT_D", "FLE_S",
   "FLE_D", "FCLASS_S", "FCLASS_D"}

(* The other groups are those of F and D instructions.                     *)
LEMMA FdInstanceNames ==
  ASSUME NEW n \in Listed, n \in FdInstances
  PROVE  IsFd(get_attr_list[n])
<1> SUFFICES ASSUME ~IsFd(get_attr_list[n]) PROVE FALSE
  OBVIOUS
<1>1. PICK r \in Attributes :
        /\ n \in r[1]
        /\ get_attr_list[n] = [format |-> r[2], category |-> r[3], group |-> r[4]]
  BY EntryOfName
<1>2. n \in r[1] /\ r[4] \notin {"RV32F", "RV32D"}
  BY <1>1 DEF IsFd
<1> USE <1>2 DEF FdInstances
<1>3. CASE r \in LoadStoreShiftAttributes
  BY <1>3 DEF LoadStoreShiftAttributes
<1>4. CASE r \in ArithmeticLogicalCompareAttributes
  BY <1>4 DEF ArithmeticLogicalCompareAttributes
<1>5. CASE r \in BranchJumpSystemCsrAttributes
  BY <1>5 DEF BranchJumpSystemCsrAttributes
<1>6. CASE r \in MulDivAttributes
  BY <1>6 DEF MulDivAttributes
<1>7. CASE r \in CompressedAttributes
  BY <1>7 DEF CompressedAttributes
<1>8. CASE r \in SinglePrecisionAttributes
  BY <1>8 DEF SinglePrecisionAttributes
<1>9. CASE r \in DoublePrecisionAttributes
  BY <1>9 DEF DoublePrecisionAttributes
<1>10. CASE r \in Rv64Attributes
  BY <1>10 DEF Rv64Attributes
<1>11. QED
  BY <1>3, <1>4, <1>5, <1>6, <1>7, <1>8, <1>9, <1>10 DEF Attributes

(* The group of any other name.                                            *)
LEMMA InstanceTable ==
  ASSUME NEW n \in DOMAIN instances, n \notin FdInstances
  PROVE  instances[n] \in
          {csrrw_cg, beq_cg, jal_cg, lui_cg, addi_cg, auipc_cg, ori_cg,
           add_cg, sub_cg, sra_cg, andi_cg, srli_cg, and_cg, srl_cg, sll_cg,
           xor_cg, or_cg, sltu_cg, sltiu_cg, xori_cg, slti_cg, srai_cg,
           slt_cg, slli_cg, mul_cg, mulh_cg, mulhsu_cg, mulhu_cg, div_cg,
           divu_cg, rem_cg, remu_cg, c_lw_cg, c_lwsp_cg, c_sw_cg, c_swsp_cg,
           c_addi4spn_cg, c_addi_cg, c_addi16sp_cg, c_li_cg, c_lui_cg,
           c_sub_cg, c_add_cg, c_mv_cg, c_andi_cg, c_xor_cg, c_or_cg,
           c_and_cg, c_beqz_cg, c_bnez_cg, c_srli_cg, c_srai_cg, c_slli_cg,
           c_j_cg, c_jal_cg, c_jr_cg, c_jalr_cg, mulw_cg, divw_cg, divuw_cg,
           remw_cg, remuw_cg, c_addiw_cg, c_subw_cg, c_addw_cg, c_ld_cg,
           c_sd_cg, c_ldsp_cg, c_sdsp_cg, lwu_cg, ld_cg, sd_cg, addiw_cg,
           slliw_cg, srliw_cg, sraiw_cg, addw_cg, subw_cg, sllw_cg, srlw_cg,
           sraw_cg}
  BY SMTT(60) DEF instances, FdInstances

(* The fields these groups read.                                           *)
IntFields ==
  {"rs1", "rs2", "rd", "rs1_sign", "rs2_sign", "rd_sign", "imm_sign", "branch_hit",
   "div_result", "logical_similarity", "unaligned_mem_access", "rd_value_0",
   "rd_value_1", "imm_1", "rs1_value_1_0"}

PointsRead(P) ==
  \A p \in P : /\ p.field \in IntFields \cup HazardFields
               /\ p.name \in IntFields => p.field = p.name

(* A group without crosses reads the fields of its points, and so does one *)
(* whose crosses are on the signs of operands it has points for.           *)
LEMMA GroupRead ==
  ASSUME NEW P, PointsRead(P)
  PROVE  /\ FieldsRead(Group(P, {}), IntFields)
         /\ Signs({"rs1_sign", "rs2_sign"}) \subseteq P
              => FieldsRead(Group(P, SourceSigns), IntFields)
         /\ Signs({"rs1_sign", "rs2_sign", "rd_sign"}) \subseteq P
              => FieldsRead(Group(P, OperandSigns), IntFields)
         /\ Signs({"rs1_sign", "imm_sign"}) \subseteq P
              => FieldsRead(Group(P, ImmSigns), IntFields)
         /\ Signs({"rs1_sign", "rd_sign", "imm_sign"}) \subseteq P
              => FieldsRead(Group(P, {<<"rs1_sign", "imm_sign", "rd_sign">>}), IntFields)
<1> DEFINE Named(N) == \A n \in N : \E p \in P : p.name = n
<1>1. ASSUME NEW N, Signs(N) \subseteq P
      PROVE  Named(N)
  <2>1. \A n \in N : Point(n, operand_sign_e) \in P
    BY <1>1 DEF Signs, Points
  <2>2. \A n : Point(n, operand_sign_e).name = n
    BY DEF Point
  <2>3. QED
    BY <2>1, <2>2
<1>2. ASSUME NEW X, NEW N \in SUBSET IntFields, Named(N),
             \A c \in X : \A k \in DOMAIN c : c[k] \in N
      PROVE  FieldsRead(Group(P, X), IntFields)
  <2>1. \A c \in X : \A k \in DOMAIN c : c[k] \in IntFields /\ \E p \in P : p.name = c[k]
    BY <1>2
  <2> HIDE DEF IntFields, Named
  <2>2. QED
    BY <2>1 DEF FieldsRead, PointsRead, Group
<1> HIDE DEF Named
<1>3. FieldsRead(Group(P, {}), IntFields)
  BY DEF FieldsRead, PointsRead, Group
<1>4. ASSUME Signs({"rs1_sign", "rs2_sign"}) \subseteq P
      PROVE  FieldsRead(Group(P, SourceSigns), IntFields)
  <2> DEFINE N == {"rs1_sign", "rs2_sign"}
             X == SourceSigns
  <2>1. N \in SUBSET IntFields
    BY DEF IntFields
  <2>2. \A c \in X : \A k \in DOMAIN c : c[k] \in N
    BY DEF SourceSigns
  <2>3. Named(N)
    BY <1>1, <1>4
  <2> HIDE DEF N, X
  <2>4. FieldsRead(Group(P, X), IntFields)
    BY <1>2, <2>1, <2>2, <2>3
  <2>5. QED
    BY <2>4 DEF X
<1>5. ASSUME Signs({"rs1_sign", "rs2_sign", "rd_sign"}) \subseteq P
      PROVE  FieldsRead(Group(P, OperandSigns), IntFields)
  <2> DEFINE N == {"rs1_sign", "rs2_sign", "rd_sign"}
             X == OperandSigns
  <2>1. N \in SUBSET IntFields
    BY DEF IntFields
  <2>2. \A c \in X : \A k \in DOMAIN c : c[k] \in N
    BY DEF OperandSigns
  <2>3. Named(N)
    BY <1>1, <1>5
  <2> HIDE DEF N, X
  <2>4. FieldsRead(Group(P, X), IntFields)
    BY <1>2, <2>1, <2>2, <2>3
  <2>5. QED
    BY <2>4 DEF X
<1>6. ASSUME Signs({"rs1_sign", "imm_sign"}) \subseteq P
      PROVE  FieldsRead(Group(P, ImmSigns), IntFields)
  <2> DEFINE N == {"rs1_sign", "imm_sign"}
             X == ImmSigns
  <2>1. N \in SUBSET IntFields
    BY DEF IntFields
  <2>2. \A c \in X : \A k \in DOMAIN c : c[k] \in N
    BY DEF ImmSigns
  <2>3. Named(N)
    BY <1>1, <1>6
  <2> HIDE DEF N, X
  <2>4. FieldsRead(Group(P, X), IntFields)
    BY <1>2, <2>1, <2>2, <2>3
  <2>5. QED
    BY <2>4 DEF X
<1>7. ASSUME Signs({"rs1_sign", "rd_sign", "imm_sign"}) \subseteq P
      PROVE  FieldsRead(Group(P, {<<"rs1_sign", "imm_sign", "rd_sign">>}), IntFields)
  <2> DEFINE N == {"rs1_sign", "rd_sign", "imm_sign"}
             X == {<<"rs1_sign", "imm_sign", "rd_sign">>}
  <2>1. N \in SUBSET IntFields
    BY DEF IntFields
  <2>2. \A c \in X : \A k \in DOMAIN c : c[k] \in N
    OBVIOUS
  <2>3. Named(N)
    BY <1>1, <1>7
  <2> HIDE DEF N, X
  <2>4. FieldsRead(Group(P, X), IntFields)
    BY <1>2, <2>1, <2>2, <2>3
  <2>5. QED
    BY <2>4 DEF X
<1>8. QED
  BY <1>3, <1>4, <1>5, <1>6, <1>7

(* The points of the groups read fields they have the names of, or hazards *)
LEMMA OperandsRead ==
  /\ PointsRead(ROperands)
  /\ PointsRead(DivOperands)
  /\ PointsRead(CLOperands)
  /\ PointsRead(CompressedGprs({"rd"}))
  /\ PointsRead(CSOperands)
  /\ PointsRead(CompressedGprs({"rs2"}))
  /\ PointsRead(CIOperands)
  /\ PointsRead(CAOperands)
  /\ PointsRead(LoadOperands)
  /\ PointsRead(StoreOperands)
  /\ PointsRead(ShiftImmOperands)
  /\ PointsRead(LogicalImmOperands)
  /\ PointsRead(Regs({"rs1"}) \cup NonzeroRegs({"rd"}) \cup GprHazard
                  \cup Signs({"rs1_sign", "rd_sign", "imm_sign"}))
  /\ PointsRead(UOperands)
  /\ PointsRead(LogicalOperands)
  /\ PointsRead(CompareOperands)
  /\ PointsRead(CompareImmOperands)
  /\ PointsRead(BranchOperands)
  /\ PointsRead(Regs({"rd"}) \cup Signs({"imm_sign"}) \cup Flag("rd_value_1") \cup Flag("imm_1"))
  /\ PointsRead(UnsignedDivOperands)
  /\ PointsRead(Regs({"rs1", "rd"}) \cup GprHazard)
  /\ PointsRead(CompressedGprs({"rd"}) \cup {Point("gpr_hazard", store_lsu_hazard_e)})
  /\ PointsRead(ImmOperands)
  /\ PointsRead({Point("rd", riscv_reg_ex_zero_sp_t)})
  /\ PointsRead(CROperands)
  /\ PointsRead(CBOperands)
  /\ PointsRead(CShiftOperands)
  /\ PointsRead(NonzeroRegs({"rd"}) \cup {Point("gpr_hazard", branch_hazard_e)})
  /\ PointsRead(Signs({"imm_sign"}))
  /\ PointsRead(NonzeroRegs({"rs1"}) \cup {Point("rs1_value_1_0", 0 .. 3)})
  /\ PointsRead(NonzeroRegs({"rs1"}) \cup {Point("rs1_value_1_0", 0 .. 3)} \cup Flag("rd_value_1"))
<1> USE DEF PointsRead, IntFields, HazardFields, Point, Points, Regs, NonzeroRegs,
            CompressedGprs, Signs, Flag, GprHazard, LsuHazardOfGpr
<1>1. PointsRead(ROperands)
  BY DEF ROperands
<1>2. PointsRead(DivOperands)
  BY DEF DivOperands, ROperands
<1>3. PointsRead(CLOperands)
  BY DEF CLOperands
<1>4. PointsRead(CompressedGprs({"rd"}))
  OBVIOUS
<1>5. PointsRead(CSOperands)
  BY DEF CSOperands
<1>6. PointsRead(CompressedGprs({"rs2"}))
  OBVIOUS
<1>7. PointsRead(CIOperands)
  BY DEF CIOperands, ImmOperands
<1>8. PointsRead(CAOperands)
  BY DEF CAOperands
<1>9. PointsRead(LoadOperands)
  BY DEF LoadOperands
<1>10. PointsRead(StoreOperands)
  BY DEF StoreOperands
<1>11. PointsRead(ShiftImmOperands)
  BY DEF ShiftImmOperands
<1>12. PointsRead(LogicalImmOperands)
  BY DEF LogicalImmOperands, ShiftImmOperands
<1>13. PointsRead(Regs({"rs1"}) \cup NonzeroRegs({"rd"}) \cup GprHazard
                  \cup Signs({"rs1_sign", "rd_sign", "imm_sign"}))
  OBVIOUS
<1>14. PointsRead(UOperands)
  BY DEF UOperands
<1>15. PointsRead(LogicalOperands)
  BY DEF LogicalOperands, ROperands
<1>16. PointsRead(CompareOperands)
  BY DEF CompareOperands
<1>17. PointsRead(CompareImmOperands)
  BY DEF CompareImmOperands
<1>18. PointsRead(BranchOperands)
  BY DEF BranchOperands
<1>19. PointsRead(Regs({"rd"}) \cup Signs({"imm_sign"})
            \cup Flag("rd_value_1") \cup Flag("imm_1"))
  OBVIOUS
<1>20. PointsRead(UnsignedDivOperands)
  BY DEF UnsignedDivOperands, ROperands
<1>21. PointsRead(Regs({"rs1", "rd"}) \cup GprHazard)
  OBVIOUS
<1>22. PointsRead(CompressedGprs({"rd"}) \cup {Point("gpr_hazard", store_lsu_hazard_e)})
  OBVIOUS
<1>23. PointsRead(ImmOperands)
  BY DEF ImmOperands
<1>24. PointsRead({Point("rd", riscv_reg_ex_zero_sp_t)})
  OBVIOUS
<1>25. PointsRead(CROperands)
  BY DEF CROperands
<1>26. PointsRead(CBOperands)
  BY DEF CBOperands, CShiftOperands
<1>27. PointsRead(CShiftOperands)
  BY DEF CShiftOperands
<1>28. PointsRead(NonzeroRegs({"rd"}) \cup {Point("gpr_hazard", branch_hazard_e)})
  OBVIOUS
<1>29. PointsRead(Signs({"imm_sign"}))
  OBVIOUS
<1>30. PointsRead(NonzeroRegs({"rs1"}) \cup {Point("rs1_value_1_0", 0 .. 3)})
  OBVIOUS
<1>31. PointsRead(NonzeroRegs({"rs1"}) \cup {Point("rs1_value_1_0", 0 .. 3)}
            \cup Flag("rd_value_1"))
  OBVIOUS
<1> HIDE DEF PointsRead
<1>32. QED
  BY <1>1, <1>2, <1>3, <1>4, <1>5, <1>6, <1>7, <1>8, <1>9, <1>10, <1>11,
     <1>12, <1>13, <1>14, <1>15, <1>16, <1>17, <1>18, <1>19, <1>20, <1>21,
     <1>22, <1>23, <1>24, <1>25, <1>26, <1>27, <1>28, <1>29, <1>30, <1>31, Zenon

(* What an integer instruction's group reads.                              *)
LEMMA IntGroupRead ==
  ASSUME NEW n \in DOMAIN instances, n \notin FdInstances
  PROVE  FieldsRead(instances[n], IntFields)
<1>1. \A g \in {mulw_cg, srlw_cg, sll_cg, srl_cg, sra_cg} :
        FieldsRead(g, IntFields)
  <2>1. FieldsRead(Group(ROperands, SourceSigns), IntFields)
    <3>1. Signs({"rs1_sign", "rs2_sign"}) \subseteq ROperands
      BY DEF Signs, Points, ROperands
    <3>2. QED
      BY <3>1, OperandsRead, GroupRead, Zenon
  <2>2. QED
    BY <2>1, Zenon DEF mulw_cg, srlw_cg, sll_cg, srl_cg, sra_cg
<1>2. \A g \in {divw_cg, divuw_cg, div_cg, rem_cg} : FieldsRead(g, IntFields)
  <2>1. FieldsRead(Group(DivOperands, OperandSigns), IntFields)
    <3>1. Signs({"rs1_sign", "rs2_sign", "rd_sign"}) \subseteq DivOperands
      BY DEF Signs, Points, DivOperands, ROperands
    <3>2. QED
      BY <3>1, OperandsRead, GroupRead, Zenon
  <2>2. QED
    BY <2>1, Zenon DEF divw_cg, divuw_cg, div_cg, rem_cg
<1>3. \A g \in {remw_cg, remuw_cg} : FieldsRead(g, IntFields)
  <2>1. FieldsRead(Group(DivOperands, SourceSigns), IntFields)
    <3>1. Signs({"rs1_sign", "rs2_sign"}) \subseteq DivOperands
      BY DEF Signs, Points, DivOperands, ROperands
    <3>2. QED
      BY <3>1, OperandsRead, GroupRead, Zenon
  <2>2. QED
    BY <2>1, Zenon DEF remw_cg, remuw_cg
<1>4. \A g \in {c_ld_cg, c_lw_cg} : FieldsRead(g, IntFields)
  <2>1. FieldsRead(Group(CLOperands, {}), IntFields)
    BY OperandsRead, GroupRead, Zenon
  <2>2. QED
    BY <2>1, Zenon DEF c_ld_cg, c_lw_cg
<1>5. \A g \in {c_ldsp_cg, c_lwsp_cg} : FieldsRead(g, IntFields)
  <2>1. FieldsRead(Group(CompressedGprs({"rd"}), {}), IntFields)
    BY OperandsRead, GroupRead, Zenon
  <2>2. QED
    BY <2>1, Zenon DEF c_ldsp_cg, c_lwsp_cg
<1>6. \A g \in {c_sd_cg, c_sw_cg} : FieldsRead(g, IntFields)
  <2>1. FieldsRead(Group(CSOperands, {}), IntFields)
    BY OperandsRead, GroupRead, Zenon
  <2>2. QED
    BY <2>1, Zenon DEF c_sd_cg, c_sw_cg
<1>7. \A g \in {c_sdsp_cg, c_swsp_cg} : FieldsRead(g, IntFields)
  <2>1. FieldsRead(Group(CompressedGprs({"rs2"}), {}), IntFields)
    BY OperandsRead, GroupRead, Zenon
  <2>2. QED
    BY <2>1, Zenon DEF c_sdsp_cg, c_swsp_cg
<1>8. \A g \in {c_addiw_cg, c_addi_cg, c_li_cg} : FieldsRead(g, IntFields)
  <2>1. FieldsRead(Group(CIOperands, {}), IntFields)
    BY OperandsRead, GroupRead, Zenon
  <2>2. QED
    BY <2>1, Zenon DEF c_addiw_cg, c_addi_cg, c_li_cg
<1>9. \A g \in {c_subw_cg, c_addw_cg, c_sub_cg, c_xor_cg, c_or_cg, c_and_cg} :
        FieldsRead(g, IntFields)
  <2>1. FieldsRead(Group(CAOperands, {}), IntFields)
    BY OperandsRead, GroupRead, Zenon
  <2>2. QED
    BY <2>1, Zenon DEF c_subw_cg, c_addw_cg, c_sub_cg, c_xor_cg, c_or_cg, c_and_cg
<1>10. \A g \in {lwu_cg, ld_cg} : FieldsRead(g, IntFields)
  <2>1. FieldsRead(Group(LoadOperands, {}), IntFields)
    BY OperandsRead, GroupRead, Zenon
  <2>2. QED
    BY <2>1, Zenon DEF lwu_cg, ld_cg
<1>11. \A g \in {sd_cg} : FieldsRead(g, IntFields)
  <2>1. FieldsRead(Group(StoreOperands, {}), IntFields)
    BY OperandsRead, GroupRead, Zenon
  <2>2. QED
    BY <2>1, Zenon DEF sd_cg
<1>12. \A g \in {sraw_cg, sllw_cg, addw_cg, subw_cg, add_cg, sub_cg, mul_cg,
            mulh_cg, mulhsu_cg, mulhu_cg} :
        FieldsRead(g, IntFields)
  <2>1. FieldsRead(Group(ROperands, OperandSigns), IntFields)
    <3>1. Signs({"rs1_sign", "rs2_sign", "rd_sign"}) \subseteq ROperands
      BY DEF Signs, Points, ROperands
    <3>2. QED
      BY <3>1, OperandsRead, GroupRead, Zenon
  <2>2. QED
    BY <2>1, Zenon DEF sraw_cg, sllw_cg, addw_cg, subw_cg, add_cg, sub_cg, mul_cg,
       mulh_cg, mulhsu_cg, mulhu_cg
<1>13. \A g \in {sraiw_cg, slliw_cg, srliw_cg, slli_cg, srli_cg, srai_cg} :
        FieldsRead(g, IntFields)
  <2>1. FieldsRead(Group(ShiftImmOperands, {}), IntFields)
    BY OperandsRead, GroupRead, Zenon
  <2>2. QED
    BY <2>1, Zenon DEF sraiw_cg, slliw_cg, srliw_cg, slli_cg, srli_cg, srai_cg
<1>14. \A g \in {addiw_cg, xori_cg, ori_cg, andi_cg} : FieldsRead(g, IntFields)
  <2>1. FieldsRead(Group(LogicalImmOperands, ImmSigns), IntFields)
    <3>1. Signs({"rs1_sign", "imm_sign"}) \subseteq LogicalImmOperands
      BY DEF Signs, Points, LogicalImmOperands, ShiftImmOperands
    <3>2. QED
      BY <3>1, OperandsRead, GroupRead, Zenon
  <2>2. QED
    BY <2>1, Zenon DEF addiw_cg, xori_cg, ori_cg, andi_cg
<1>15. \A g \in {addi_cg} : FieldsRead(g, IntFields)
  <2>1. FieldsRead(Group(Regs({"rs1"}) \cup NonzeroRegs({"rd"})
                         \cup GprHazard \cup Signs({"rs1_sign", "rd_sign", "imm_sign"}),
                         {<<"rs1_sign", "imm_sign", "rd_sign">>}),
                   IntFields)
    <3>1. Signs({"rs1_sign", "rd_sign", "imm_sign"})
           \subseteq Regs({"rs1"}) \cup NonzeroRegs({"rd"}) \cup GprHazard
               \cup Signs({"rs1_sign", "rd_sign", "imm_sign"})
      BY DEF Signs, Points
    <3>2. QED
      BY <3>1, OperandsRead, GroupRead, Zenon
  <2>2. QED
    BY <2>1, Zenon DEF addi_cg
<1>16. \A g \in {lui_cg, auipc_cg} : FieldsRead(g, IntFields)
  <2>1. FieldsRead(Group(UOperands, {}), IntFields)
    BY OperandsRead, GroupRead, Zenon
  <2>2. QED
    BY <2>1, Zenon DEF lui_cg, auipc_cg
<1>17. \A g \in {xor_cg, or_cg, and_cg} : FieldsRead(g, IntFields)
  <2>1. FieldsRead(Group(LogicalOperands, SourceSigns), IntFields)
    <3>1. Signs({"rs1_sign", "rs2_sign"}) \subseteq LogicalOperands
      BY DEF Signs, Points, LogicalOperands, ROperands
    <3>2. QED
      BY <3>1, OperandsRead, GroupRead, Zenon
  <2>2. QED
    BY <2>1, Zenon DEF xor_cg, or_cg, and_cg
<1>18. \A g \in {slt_cg, sltu_cg} : FieldsRead(g, IntFields)
  <2>1. FieldsRead(Group(CompareOperands, SourceSigns), IntFields)
    <3>1. Signs({"rs1_sign", "rs2_sign"}) \subseteq CompareOperands
      BY DEF Signs, Points, CompareOperands
    <3>2. QED
      BY <3>1, OperandsRead, GroupRead, Zenon
  <2>2. QED
    BY <2>1, Zenon DEF slt_cg, sltu_cg
<1>19. \A g \in {slti_cg, sltiu_cg} : FieldsRead(g, IntFields)
  <2>1. FieldsRead(Group(CompareImmOperands, ImmSigns), IntFields)
    <3>1. Signs({"rs1_sign", "imm_sign"}) \subseteq CompareImmOperands
      BY DEF Signs, Points, CompareImmOperands
    <3>2. QED
      BY <3>1, OperandsRead, GroupRead, Zenon
  <2>2. QED
    BY <2>1, Zenon DEF slti_cg, sltiu_cg
<1>20. \A g \in {beq_cg} : FieldsRead(g, IntFields)
  <2>1. FieldsRead(Group(BranchOperands, SourceSigns), IntFields)
    <3>1. Signs({"rs1_sign", "rs2_sign"}) \subseteq BranchOperands
      BY DEF Signs, Points, BranchOperands
    <3>2. QED
      BY <3>1, OperandsRead, GroupRead, Zenon
  <2>2. QED
    BY <2>1, Zenon DEF beq_cg
<1>21. \A g \in {jal_cg} : FieldsRead(g, IntFields)
  <2>1. FieldsRead(Group(Regs({"rd"}) \cup Signs({"imm_sign"})
                   \cup Flag("rd_value_1") \cup Flag("imm_1"), {}),
                   IntFields)
    BY OperandsRead, GroupRead, Zenon
  <2>2. QED
    BY <2>1, Zenon DEF jal_cg
<1>22. \A g \in {divu_cg, remu_cg} : FieldsRead(g, IntFields)
  <2>1. FieldsRead(Group(UnsignedDivOperands, OperandSigns), IntFields)
    <3>1. Signs({"rs1_sign", "rs2_sign", "rd_sign"}) \subseteq UnsignedDivOperands
      BY DEF Signs, Points, UnsignedDivOperands, ROperands
    <3>2. QED
      BY <3>1, OperandsRead, GroupRead, Zenon
  <2>2. QED
    BY <2>1, Zenon DEF divu_cg, remu_cg
<1>23. \A g \in {csrrw_cg} : FieldsRead(g, IntFields)
  <2>1. FieldsRead(Group(Regs({"rs1", "rd"}) \cup GprHazard, {}), IntFields)
    BY OperandsRead, GroupRead, Zenon
  <2>2. QED
    BY <2>1, Zenon DEF csrrw_cg
<1>24. \A g \in {c_addi4spn_cg} : FieldsRead(g, IntFields)
  <2>1. FieldsRead(Group(CompressedGprs({"rd"})
                   \cup {Point("gpr_hazard", store_lsu_hazard_e)}, {}),
                   IntFields)
    BY OperandsRead, GroupRead, Zenon
  <2>2. QED
    BY <2>1, Zenon DEF c_addi4spn_cg
<1>25. \A g \in {c_addi16sp_cg} : FieldsRead(g, IntFields)
  <2>1. FieldsRead(Group(ImmOperands, {}), IntFields)
    BY OperandsRead, GroupRead, Zenon
  <2>2. QED
    BY <2>1, Zenon DEF c_addi16sp_cg
<1>26. \A g \in {c_lui_cg} : FieldsRead(g, IntFields)
  <2>1. FieldsRead(Group({Point("rd", riscv_reg_ex_zero_sp_t)}, {}), IntFields)
    BY OperandsRead, GroupRead, Zenon
  <2>2. QED
    BY <2>1, Zenon DEF c_lui_cg
<1>27. \A g \in {c_add_cg, c_mv_cg} : FieldsRead(g, IntFields)
  <2>1. FieldsRead(Group(CROperands, {}), IntFields)
    BY OperandsRead, GroupRead, Zenon
  <2>2. QED
    BY <2>1, Zenon DEF c_add_cg, c_mv_cg
<1>28. \A g \in {c_andi_cg, c_beqz_cg, c_bnez_cg} : FieldsRead(g, IntFields)
  <2>1. FieldsRead(Group(CBOperands, {}), IntFields)
    BY OperandsRead, GroupRead, Zenon
  <2>2. QED
    BY <2>1, Zenon DEF c_andi_cg, c_beqz_cg, c_bnez_cg
<1>29. \A g \in {c_srli_cg, c_srai_cg} : FieldsRead(g, IntFields)
  <2>1. FieldsRead(Group(CShiftOperands, {}), IntFields)
    BY OperandsRead, GroupRead, Zenon
  <2>2. QED
    BY <2>1, Zenon DEF c_srli_cg, c_srai_cg
<1>30. \A g \in {c_slli_cg} : FieldsRead(g, IntFields)
  <2>1. FieldsRead(Group(NonzeroRegs({"rd"})
                   \cup {Point("gpr_hazard", branch_hazard_e)}, {}),
                   IntFields)
    BY OperandsRead, GroupRead, Zenon
  <2>2. QED
    BY <2>1, Zenon DEF c_slli_cg
<1>31. \A g \in {c_j_cg, c_jal_cg} : FieldsRead(g, IntFields)
  <2>1. FieldsRead(Group(Signs({"imm_sign"}), {}), IntFields)
    BY OperandsRead, GroupRead, Zenon
  <2>2. QED
    BY <2>1, Zenon DEF c_j_cg, c_jal_cg
<1>32. \A g \in {c_jr_cg} : FieldsRead(g, IntFields)
  <2>1. FieldsRead(Group(NonzeroRegs({"rs1"}) \cup {Point("rs1_value_1_0", 0 .. 3)}, {}),
                   IntFields)
    BY OperandsRead, GroupRead, Zenon
  <2>2. QED
    BY <2>1, Zenon DEF c_jr_cg
<1>33. \A g \in {c_jalr_cg} : FieldsRead(g, IntFields)
  <2>1. FieldsRead(Group(NonzeroRegs({"rs1"}) \cup {Point("rs1_value_1_0", 0 .. 3)}
                   \cup Flag("rd_value_1"), {}),
                   IntFields)
    BY OperandsRead, GroupRead, Zenon
  <2>2. QED
    BY <2>1, Zenon DEF c_jalr_cg
<1>34. QED
  BY InstanceTable, <1>1, <1>2, <1>3, <1>4, <1>5, <1>6, <1>7, <1>8, <1>9, <1>10, <1>11,
     <1>12, <1>13, <1>14, <1>15, <1>16, <1>17, <1>18, <1>19, <1>20, <1>21,
     <1>22, <1>23, <1>24, <1>25, <1>26, <1>27, <1>28, <1>29, <1>30, <1>31,
     <1>32, <1>33

(* Instructions of one name that agree, also on the immediate, have the    *)
(* same values in these fields.                                            *)
LEMMA FieldsAgree ==
  ASSUME NEW i, NEW e, Agree(i, e), i.imm = e.imm,
         i.category = "BRANCH" =>
           i.name \in {"BEQ", "BNE", "BLT", "BGE", "BLTU", "BGEU", "C_BEQZ", "C_BNEZ"},
         NEW w, NEW f \in IntFields
  PROVE  Fields(i, w)[f] = Fields(e, w)[f]
<1> DEFINE s == Fields(i, w)
           u == Fields(e, w)
<1>1. /\ i.group = e.group /\ i.rs1 = e.rs1 /\ i.rs2 = e.rs2 /\ i.rd = e.rd
      /\ i.rs1_value = e.rs1_value /\ i.rs2_value = e.rs2_value /\ i.rd_value = e.rd_value
      /\ i.name = e.name /\ i.format = e.format /\ i.category = e.category
      /\ i.mem_addr = e.mem_addr
  BY Zenon DEF Agree
<1>2. /\ s["rs1"] = u["rs1"] /\ s["rs2"] = u["rs2"] /\ s["rd"] = u["rd"]
  BY <1>1 DEF Fields
<1>3. /\ s["rs1_sign"] = u["rs1_sign"] /\ s["rs2_sign"] = u["rs2_sign"]
      /\ s["rd_sign"] = u["rd_sign"] /\ s["imm_sign"] = u["imm_sign"]
  BY <1>1 DEF Fields
<1>4. /\ s["rd_value_0"] = u["rd_value_0"] /\ s["rd_value_1"] = u["rd_value_1"]
      /\ s["imm_1"] = u["imm_1"] /\ s["rs1_value_1_0"] = u["rs1_value_1_0"]
  BY <1>1 DEF Fields
<1>5. s["branch_hit"] = u["branch_hit"]
  <2>1. i.category = "BRANCH" => (is_branch_hit(i) <=> is_branch_hit(e))
    BY <1>1 DEF is_branch_hit
  <2>2. QED
    BY <1>1, <2>1 DEF Fields
<1>6. s["div_result"] = u["div_result"]
  <2>1. get_div_result(i) = get_div_result(e)
    BY <1>1 DEF get_div_result
  <2>2. QED
    BY <1>1, <2>1 DEF Fields
<1>7. s["logical_similarity"] = u["logical_similarity"]
  <2>1. get_logical_similarity(i) = get_logical_similarity(e)
    BY <1>1 DEF get_logical_similarity
  <2>2. QED
    BY <1>1, <2>1 DEF Fields
<1>8. s["unaligned_mem_access"] = u["unaligned_mem_access"]
  <2>1. is_unaligned_mem_access(i) <=> is_unaligned_mem_access(e)
    BY <1>1 DEF is_unaligned_mem_access
  <2>2. QED
    BY <1>1, <2>1 DEF Fields
<1> HIDE DEF s, u
<1>9. s[f] = u[f]
  BY <1>2, <1>3, <1>4, <1>5, <1>6, <1>7, <1>8 DEF IntFields
<1>10. QED
  BY <1>9 DEF s, u

(* The group of C_ADDI4SPN reads the destination only: that the collector  *)
(* leaves its immediate out does not show.                                 *)
LEMMA Addi4spnRead ==
  FieldsRead(instances["C_ADDI4SPN"], {"rd"})
<1>1. instances["C_ADDI4SPN"] = c_addi4spn_cg
  BY DEF instances
<1>2. FieldsRead(c_addi4spn_cg, {"rd"})
  BY DEF FieldsRead, HazardFields, c_addi4spn_cg, Group, CompressedGprs, Points, Point
<1>3. QED
  BY <1>1, <1>2

-----------------------------------------------------------------------------
(* Every sampled row shows its instruction: both hit the same bins.        *)

(* Two instructions of an integer name that agree hit the same bins, but   *)
(* for those Sound leaves out.                                             *)
LEMMA AgreeingSamples ==
  ASSUME NEW i, NEW e, NEW w, Agree(i, e), i.name \in Listed,
         ~IsFd(get_attr_list[i.name]), i.category = get_attr_list[i.name].category
  PROVE  Sound(sample(i, w)) \subseteq Sound(sample(e, w))
<1>1. /\ i.name = e.name /\ i.group = e.group /\ i.category = e.category
      /\ i.csr = e.csr /\ i.rd = e.rd /\ i.rd_value = e.rd_value
      /\ i.name # "C_ADDI4SPN" => i.imm = e.imm
  BY Zenon DEF Agree
<1>2. IntFacts(i.name, get_attr_list[i.name].format, get_attr_list[i.name].category)
  BY NameFacts
<1>3. i.category = "BRANCH" =>
        i.name \in {"BEQ", "BNE", "BLT", "BGE", "BLTU", "BGEU", "C_BEQZ", "C_BNEZ"}
  BY <1>2 DEF IntFacts
<1>4. ASSUME i.name \in DOMAIN instances
      PROVE  \E F : /\ FieldsRead(instances[i.name], F)
                    /\ \A f \in F : Fields(i, w)[f] = Fields(e, w)[f]
  <2>1. CASE i.name = "C_ADDI4SPN"
    <3>1. Fields(i, w)["rd"] = Fields(e, w)["rd"]
      BY <1>1 DEF Fields
    <3>2. FieldsRead(instances[i.name], {"rd"})
      BY <2>1, Addi4spnRead
    <3>3. QED
      BY <3>1, <3>2
  <2>2. CASE i.name # "C_ADDI4SPN"
    <3>1. i.name \notin FdInstances
      BY FdInstanceNames
    <3>2. FieldsRead(instances[i.name], IntFields)
      BY <1>4, <3>1, IntGroupRead
    <3>3. \A f \in IntFields : Fields(i, w)[f] = Fields(e, w)[f]
      BY <1>1, <1>3, <2>2, FieldsAgree
    <3>4. QED
      BY <3>2, <3>3, Zenon
  <2>3. QED
    BY <2>1, <2>2
<1>5. QED
  BY <1>1, <1>4, SameSample, Zenon

(* Of F and D instructions Sound leaves only bins on the word of the row.  *)
LEMMA FdSamples ==
  ASSUME NEW i, NEW e, NEW w, i.name = e.name, i.group = e.group,
         i.category = e.category, i.name \in Listed, IsFd(get_attr_list[i.name]),
         i.category = get_attr_list[i.name].category
  PROVE  Sound(sample(i, w)) \subseteq Sound(sample(e, w))
<1>1. i.category # "CSR"
  BY NameFacts DEF FdFacts
<1>2. get_attr_list[i.name].group \in FdGroups
  BY DEF IsFd, FdGroups
<1>3. QED
  BY <1>1, <1>2, SameSample, Zenon

(* What a row is sampled as has the attributes of its name.                *)
LEMMA CollectedAttributes ==
  ASSUME NEW p, NEW t
  PROVE  LET i == Collects(p, t)
             a == get_attr_list[NameOf(t)]
         IN  i.name = NameOf(t) /\ i.category = a.category /\ i.group = a.group
  BY DEF Collects, Decode

(* Agreement has no direction.                                             *)
LEMMA AgreeSymmetric ==
  ASSUME NEW i, NEW e, Agree(i, e)
  PROVE  Agree(e, i)
  BY Zenon DEF Agree

(* A row that shows its instruction hits the bins of the instruction, if   *)
(* the collector knows the registers it reads.                             *)
LEMMA SampleShows ==
  ASSUME RegistersKnown, NEW p, WellFormed(p), Accepted(Text(p, layout)),
         Text(p, layout).instr = p.name, Reads(p) \cap unseen = {}
  PROVE  Sound(sample(WithHazards(Collects(p, Text(p, layout))), p.word))
           = Sound(sample(Executed(p), p.word))
<1> DEFINE t == Text(p, layout)
           n == NameOf(t)
           i == Collects(p, t)
           j == WithHazards(i)
           e == Executed(p)
<1>1. n = process_instr_name(p.name) /\ n \in Listed
  BY DEF NameOf, Accepted
<1>2. Agree(j, i)
  BY HazardsAdded
<1>3. i.name = n /\ i.category = get_attr_list[n].category /\ i.group = get_attr_list[n].group
  BY CollectedAttributes
<1>4. e.name = n /\ e.category = get_attr_list[n].category /\ e.group = get_attr_list[n].group
  BY <1>1, ExecutedFields, Zenon
<1> HIDE DEF i, j, e, t, n
<1>5. /\ j.name = n /\ j.category = get_attr_list[n].category
      /\ j.group = get_attr_list[n].group
  BY <1>2, <1>3 DEF Agree
<1>6. ASSUME IsFd(get_attr_list[n])
      PROVE  Sound(sample(j, p.word)) = Sound(sample(e, p.word))
  <2>1. Sound(sample(j, p.word)) \subseteq Sound(sample(e, p.word))
    BY <1>1, <1>4, <1>5, <1>6, FdSamples
  <2>2. Sound(sample(e, p.word)) \subseteq Sound(sample(j, p.word))
    BY <1>1, <1>4, <1>5, <1>6, FdSamples
  <2>3. QED
    BY <2>1, <2>2
<1>7. ASSUME ~IsFd(get_attr_list[n])
      PROVE  Sound(sample(j, p.word)) = Sound(sample(e, p.word))
  <2>1. Agree(i, e)
    BY <1>1, <1>7, CollectedAgrees DEF i, e, t, n
  <2>2. Agree(j, e)
    BY <1>2, <2>1 DEF Agree
  <2>3. Agree(e, j)
    BY <2>2, AgreeSymmetric
  <2>4. Sound(sample(j, p.word)) \subseteq Sound(sample(e, p.word))
    BY <1>1, <1>5, <1>7, <2>2, AgreeingSamples
  <2>5. Sound(sample(e, p.word)) \subseteq Sound(sample(j, p.word))
    BY <1>1, <1>4, <1>7, <2>3, AgreeingSamples
  <2>6. QED
    BY <2>4, <2>5
<1>8. QED
  BY <1>6, <1>7 DEF i, j, e, t

(* A sampled row keeps the report exact.                                   *)
LEMMA ExactAfterSample ==
  ASSUME TypeOK, RegistersKnown, CoverageExact, NEW p, WellFormed(p),
         Sample(p, Text(p, layout))
  PROVE  CoverageExact'
<1> DEFINE t == Text(p, layout)
           j == WithHazards(Collects(p, t))
<1>1. /\ covered' = covered \cup sample(j, p.word)
      /\ earned' = earned \cup Sound(sample(Executed(p), p.word))
      /\ doubt' = (doubt \/ Reads(p) \cap unseen # {} \/ t.instr # p.name)
      /\ Accepted(t)
  BY SampledInstr, Zenon DEF Sample
<1>2. SUFFICES ASSUME ~doubt' PROVE (Sound(covered) = earned)'
  BY DEF CoverageExact
<1>3. ~doubt /\ Reads(p) \cap unseen = {} /\ t.instr = p.name
  BY <1>1, <1>2
<1>4. Sound(covered) = earned
  BY <1>3 DEF CoverageExact
<1>5. Sound(sample(j, p.word)) = Sound(sample(Executed(p), p.word))
  BY <1>1, <1>3, SampleShows
<1>6. \A A, B : Sound(A \cup B) = Sound(A) \cup Sound(B)
  BY DEF Sound
<1> HIDE DEF j, t
<1>7. Sound(covered') = earned'
  BY <1>1, <1>4, <1>5, <1>6
<1>8. (Sound(covered) = earned)' <=> Sound(covered') = earned'
  BY DEF Sound
<1>9. QED
  BY <1>7, <1>8

(* Every step keeps the report exact.                                      *)
LEMMA StepExact ==
  TypeOK /\ RegistersKnown /\ CoverageExact /\ [Next]_vars => CoverageExact'
<1> SUFFICES ASSUME TypeOK, RegistersKnown, CoverageExact, [Next]_vars
             PROVE  CoverageExact'
  OBVIOUS
<1>1. CASE UNCHANGED <<covered, earned, doubt>>
  BY <1>1 DEF CoverageExact, Sound
<1>2. CASE ReadRow
  <2>1. PICK p \in Steps[row + 1] :
          /\ WellFormed(p)
          /\ \/ SkipMalformed(p)
             \/ PassByName(p, Text(p, layout))
             \/ RejectUnknown(p, Text(p, layout))
             \/ PassUnsupported(p, Text(p, layout))
             \/ Sample(p, Text(p, layout))
             \/ Die(p, Text(p, layout))
    BY <1>2, RowOfProgram
  <2>2. Sample(p, Text(p, layout)) \/ UNCHANGED <<covered, earned, doubt>>
    BY <2>1, Zenon DEF SkipMalformed, PassByName, RejectUnknown, PassUnsupported, Die
  <2>3. QED
    BY <1>1, <2>1, <2>2, ExactAfterSample
<1>3. CASE ~ReadRow
  BY <1>1, <1>3, Zenon DEF Next, NextFile, NextBatch, Finish, vars, ghosts
<1>4. QED
  BY <1>2, <1>3

(* The report is about the program: as long as every sampled row shows its *)
(* instruction and the collector has seen the last change of the registers *)
(* it reads, the bins hit, but for those Sound leaves out, are exactly     *)
(* those of the executed instructions (update_src_regs, update_dst_regs,   *)
(* pre_sample, sample).                                                    *)
THEOREM ReportIsExact == Spec => []CoverageExact
<1>1. Init => CoverageExact
  BY DEF Init, CoverageExact, Sound
<1>2. QED
  BY <1>1, TypeCorrect, KnownRegistersAgree, StepExact, PTL DEF Spec
=============================================================================
