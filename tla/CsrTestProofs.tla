--------------------------- MODULE CsrTestProofs ---------------------------
(***************************************************************************)
(* Proof that a conforming hart passes the test of any described CSRs, and *)
(* that one wrong bit is found, for every width, description and operand.  *)
(***************************************************************************)
EXTENDS CsrTest, TLAPS

-----------------------------------------------------------------------------
(* Fields and masks *)

\* The bits of a field are bits of a register.
LEMMA FieldsInBits ==
    ASSUME NEW c \in Csr, NEW f \in Csrs[c].fields
    PROVE  /\ f.msb \in Bits /\ f.lsb \in Bits
           /\ FieldBits(f) \subseteq Bits
           /\ f.legalized \in BOOLEAN
  <1> DEFINE field == [msb : Bits, lsb : Bits, legalized : BOOLEAN,
                       type : {"WPRI", "WLRL", "WARL", "R"}]
             description == [fields : SUBSET field, reset : Values]
  <1>1. Csrs[c] \in description
    <2>1. Csrs \in Seq(description) /\ c \in 1..Len(Csrs)
      BY CsrAssumption DEF Csr
    <2> HIDE DEF description
    <2> QED BY <2>1
  <1>2. f \in field
    <2> HIDE DEF field
    <2> QED BY <1>1
  <1> QED BY <1>2, CsrAssumption DEF FieldBits, Bits

\* The bits that can be read are bits of a register.
LEMMA MaskInBits == \A c \in Csr : ReadMask(c) \subseteq Bits
  BY FieldsInBits DEF ReadMask, Described

\* A reset value has readable bits only.
LEMMA ResetInMask ==
    \A c \in Csr : ResetValue(c) \subseteq ReadMask(c) /\ ResetValue(c) \in Values
  BY MaskInBits DEF ResetValue, Values

\* A legalized value stays inside its field, and is legal.
LEMMA StoredInField ==
    ASSUME NEW c \in Csr, NEW f \in Writable(c), NEW new, NEW old
    PROVE  /\ Stored(f, new, old) \subseteq FieldBits(f)
           /\ f.legalized => Stored(f, new, old) \in Fixed(f)
  <1>1. f \in Csrs[c].fields
    BY DEF Writable, Described
  <1>2. CASE f.legalized
    <2>1. Legalize(f, new \cap FieldBits(f), old \cap FieldBits(f)) \in Fixed(f)
      BY <1>1, <1>2, LegalAssumption DEF Csr
    <2> QED BY <1>2, <2>1 DEF Stored, Fixed
  <1>3. CASE ~f.legalized
    BY <1>3 DEF Stored
  <1> QED BY <1>2, <1>3

\* What a write leaves, bit by bit.
LEMMA WriteBits ==
    ASSUME NEW c \in Csr, NEW new, NEW old, NEW b
    PROVE  b \in csr_write(c, new, old) <=>
              \/ b \in old /\ \A f \in Writable(c) : b \notin FieldBits(f)
              \/ \E f \in Writable(c) : b \in Stored(f, new, old)
  BY DEF csr_write

\* A predicted write sets readable bits only.
LEMMA WriteInMask ==
    ASSUME NEW c \in Csr, NEW new, NEW old, old \subseteq ReadMask(c)
    PROVE  csr_write(c, new, old) \subseteq ReadMask(c)
  <1> SUFFICES ASSUME NEW b, b \in csr_write(c, new, old) PROVE b \in ReadMask(c)
    OBVIOUS
  <1>1. CASE b \in old
    BY <1>1
  <1>2. CASE \E f \in Writable(c) : b \in Stored(f, new, old)
    <2>1. PICK f \in Writable(c) : b \in Stored(f, new, old)
      BY <1>2
    <2>2. b \in FieldBits(f) /\ f \in Described(c)
      BY <2>1, StoredInField DEF Writable
    <2> QED BY <2>2 DEF ReadMask
  <1> QED BY <1>1, <1>2, WriteBits

\* A field of the written value is what the write stored there.
LEMMA WrittenField ==
    ASSUME NEW c \in Csr, NEW new, NEW old, NEW f \in Writable(c)
    PROVE  csr_write(c, new, old) \cap FieldBits(f) = Stored(f, new, old)
  <1> SUFFICES ASSUME NEW b
               PROVE  (b \in csr_write(c, new, old) /\ b \in FieldBits(f))
                         <=> b \in Stored(f, new, old)
    OBVIOUS
  <1>1. ASSUME b \in Stored(f, new, old)
        PROVE  b \in csr_write(c, new, old) /\ b \in FieldBits(f)
    BY <1>1, StoredInField, WriteBits
  <1>2. ASSUME b \in csr_write(c, new, old), b \in FieldBits(f)
        PROVE  b \in Stored(f, new, old)
    <2>1. PICK g \in Writable(c) : b \in Stored(g, new, old)
      BY <1>2, WriteBits
    <2>2. b \in FieldBits(g)
      BY <2>1, StoredInField
    <2>3. f \in Csrs[c].fields /\ g \in Csrs[c].fields
      BY DEF Writable, Described
    <2>4. f = g
      BY <1>2, <2>2, <2>3, FieldAssumption DEF Csr
    <2> QED BY <2>1, <2>4
  <1> QED BY <1>1, <1>2

\* A predicted write leaves a legal value in every legalized field (csr_write).
LEMMA WriteLegal ==
    ASSUME NEW c \in Csr, NEW new, NEW old, old \subseteq ReadMask(c)
    PROVE  Legal(c, csr_write(c, new, old))
  <1>1. csr_write(c, new, old) \subseteq ReadMask(c)
    BY WriteInMask
  <1>2. ASSUME NEW f \in Writable(c), f.legalized
        PROVE  csr_write(c, new, old) \cap FieldBits(f) \in Fixed(f)
    <2>1. csr_write(c, new, old) \cap FieldBits(f) = Stored(f, new, old)
      BY <1>2, WrittenField
    <2>2. Stored(f, new, old) \in Fixed(f)
      BY <1>2, StoredInField
    <2> QED BY <2>1, <2>2
  <1> QED BY <1>1, <1>2 DEF Legal

\* Overwriting the slices of the fields one by one gives every bit what the
\* description says of it.
LEMMA WritesAsDescribed ==
    ASSUME NEW c \in Csr, NEW new, NEW old, old \subseteq ReadMask(c)
    PROVE  csr_write(c, new, old) = WriteAsDescribed(c, new, old)
  <1> SUFFICES ASSUME NEW b
               PROVE  b \in csr_write(c, new, old) <=> b \in WriteAsDescribed(c, new, old)
    OBVIOUS
  <1> DEFINE Gets(f) ==
        /\ f.type # "WPRI"
        /\ \/ f.type = "R" /\ b \in old
           \/ /\ f.type # "R" /\ f.legalized
              /\ b \in Legalize(f, new \cap FieldBits(f), old \cap FieldBits(f))
           \/ f.type # "R" /\ ~f.legalized /\ b \in new
  <1>1. b \in WriteAsDescribed(c, new, old) <=>
          b \in Bits /\ \E f \in Csrs[c].fields : b \in FieldBits(f) /\ Gets(f)
    BY DEF WriteAsDescribed
  <1>2. ASSUME NEW f \in Writable(c), b \in FieldBits(f)
        PROVE  Gets(f) <=> b \in Stored(f, new, old)
    BY <1>2 DEF Writable, Described, Stored
  <1>3. ASSUME b \in csr_write(c, new, old)
        PROVE  b \in WriteAsDescribed(c, new, old)
    <2>1. b \in ReadMask(c) /\ b \in Bits
      BY <1>3, WriteInMask, MaskInBits
    <2>2. PICK f \in Described(c) : b \in FieldBits(f)
      BY <2>1 DEF ReadMask
    <2>3. f \in Csrs[c].fields /\ f.type # "WPRI"
      BY DEF Described
    <2>4. CASE f \in Writable(c)
      <3>1. b \in Stored(f, new, old)
        BY <1>3, <2>2, <2>4, WrittenField
      <3> QED BY <1>1, <1>2, <2>1, <2>2, <2>3, <2>4, <3>1
    <2>5. CASE f \notin Writable(c)
      <3>1. f.type = "R"
        BY <2>5 DEF Writable
      <3>2. ASSUME NEW g \in Writable(c) PROVE b \notin FieldBits(g)
        BY <2>2, <2>3, <2>5, <3>2, FieldAssumption DEF Writable, Described, Csr
      <3>3. \A g \in Writable(c) : b \notin Stored(g, new, old)
        BY <3>2, StoredInField
      <3>4. b \in old
        BY <1>3, <3>3, WriteBits
      <3> QED BY <1>1, <2>1, <2>2, <2>3, <3>1, <3>4
    <2> QED BY <2>4, <2>5
  <1>4. ASSUME b \in WriteAsDescribed(c, new, old)
        PROVE  b \in csr_write(c, new, old)
    <2>1. PICK f \in Csrs[c].fields : b \in FieldBits(f) /\ Gets(f)
      BY <1>1, <1>4
    <2>2. f \in Described(c)
      BY <2>1 DEF Described
    <2>3. CASE f.type = "R"
      <3>1. b \in old
        BY <2>1, <2>3
      <3>2. ASSUME NEW g \in Writable(c) PROVE b \notin FieldBits(g)
        BY <2>1, <2>3, <3>2, FieldAssumption DEF Writable, Described, Csr
      <3> QED BY <3>1, <3>2, WriteBits
    <2>4. CASE f.type # "R"
      <3>1. f \in Writable(c)
        BY <2>2, <2>4 DEF Writable
      <3>2. b \in Stored(f, new, old)
        BY <1>2, <2>1, <3>1
      <3> QED BY <3>1, <3>2, WriteBits
    <2> QED BY <2>3, <2>4
  <1> QED BY <1>3, <1>4

\* Writing back what a CSR holds changes nothing.
LEMMA WriteBack ==
    ASSUME NEW c \in Csr, NEW val, Legal(c, val)
    PROVE  csr_write(c, val, val) = val
  <1>1. ASSUME NEW f \in Writable(c)
        PROVE  Stored(f, val, val) = val \cap FieldBits(f)
    <2>1. CASE f.legalized
      <3>1. val \cap FieldBits(f) \in Fixed(f)
        BY <2>1 DEF Legal
      <3> QED BY <2>1, <3>1 DEF Stored, Fixed
    <2>2. CASE ~f.legalized
      BY <2>2 DEF Stored
    <2> QED BY <2>1, <2>2
  <1> SUFFICES ASSUME NEW b PROVE b \in csr_write(c, val, val) <=> b \in val
    OBVIOUS
  <1> QED BY <1>1, WriteBits

\* A value of readable bits reads as itself.
LEMMA ReadAll ==
    ASSUME NEW c, NEW val, val \subseteq ReadMask(c)
    PROVE  csr_read(c, val) = val
  BY DEF csr_read

\* An instruction that sets or clears no bit is predicted as a write of what
\* is there already.
LEMMA SetNothing ==
    ASSUME NEW c \in Csr, NEW o, NEW val, NEW old, Legal(c, old),
           Operand(o, val) = {},
           o \in {"csrrs", "csrrsi", "csrrc", "csrrci"}
    PROVE  Updated(c, o, val, old) = old
  <1>1. csr_read(c, old) = old
    BY ReadAll DEF Legal
  <1>2. Result(o, {}, old) = old
    BY DEF Result
  <1> QED BY <1>1, <1>2, WriteBack DEF Updated
-----------------------------------------------------------------------------
(* The types of what a step computes *)

\* The instructions of a test, one after another.
LEMMA Ops ==
    /\ Len(csr_ops) = 6
    /\ \A o \in 1..6 : csr_ops[o] \in
          {"csrrw", "csrrs", "csrrc", "csrrwi", "csrrsi", "csrrci"}
  BY DEF csr_ops

\* Every operand is a register value.
LEMMA OperandsAreValues == \A n \in 0..2 : get_rs1_val(n) \subseteq Values
  <1>1. \A b \in XLEN - Word .. XLEN - 1 : b \in Bits
    BY CsrAssumption DEF Bits
  <1> QED BY <1>1 DEF get_rs1_val, Values

\* The description has a CSR.
LEMMA CsrCount == Len(Csrs) \in Nat \ {0}
  BY CsrAssumption

\* What the generator keeps after an instruction is again a value the CSR
\* can hold.
LEMMA UpdatedLegal ==
    ASSUME NEW c \in Csr, NEW o, NEW val, NEW old, old \subseteq ReadMask(c)
    PROVE  /\ Legal(c, Updated(c, o, val, old))
           /\ Updated(c, o, val, old) \subseteq ReadMask(c)
           /\ Updated(c, o, val, old) \in Values
  BY WriteLegal, MaskInBits DEF Updated, Legal, Values

\* A conforming hart does to its CSR what the generator did to its copy.
LEMMA HartAgrees ==
    ASSUME TestInv, step = "csr", fault = NoFault
    PROVE  HartResult = Updated(csr, Op, operand, hart_csr[csr])
  <1> DEFINE h == hart_csr[csr]
  <1>1. csr \in Csr /\ Legal(csr, h) /\ csr_read(csr, h) = h
    BY ReadAll DEF TestInv, TypeOK, InStep, Legal
  <1>2. CASE ~Writes
    <2>1. Op \in {"csrrsi", "csrrci"} /\ Operand(Op, operand) = {}
      BY <1>2 DEF Writes
    <2>2. Updated(csr, Op, operand, h) = h
      BY <1>1, <2>1, SetNothing
    <2> QED BY <1>2, <2>2 DEF HartResult
  <1>3. CASE Writes
    <2>1. Operand(Op, IF Immediate(Op) THEN operand ELSE source) = Operand(Op, operand)
      BY DEF TestInv, InStep
    <2>2. h \subseteq ReadMask(csr)
      BY <1>1 DEF Legal
    <2> QED BY <1>1, <1>3, <2>1, <2>2, WritesAsDescribed DEF HartResult, Updated
  <1> QED BY <1>2, <1>3

\* What the hart returns has readable bits only.
LEMMA HartInMask ==
    ASSUME TestInv PROVE HartResult \subseteq ReadMask(csr)
  <1>1. csr \in Csr /\ hart_csr[csr] \subseteq ReadMask(csr)
    BY DEF TestInv, TypeOK, InMask
  <1> QED BY <1>1, WriteInMask, WritesAsDescribed DEF HartResult

-----------------------------------------------------------------------------
(* TestInv is inductive *)

\* The invariant holds at the start.
LEMMA TestInit == Init => TestInv
  <1> SUFFICES ASSUME Init PROVE TestInv
    OBVIOUS
  <1>1. TypeOK
    BY Ops, CsrCount, ResetInMask DEF Init, TypeOK, Csr, Values
  <1>2. ASSUME NEW c \in Csr PROVE Legal(c, ResetValue(c))
    <2>1. ASSUME NEW f \in Writable(c), f.legalized
          PROVE  ResetValue(c) \cap FieldBits(f) \in Fixed(f)
      <3>1. f \in Csrs[c].fields /\ FieldBits(f) \subseteq ReadMask(c)
        BY DEF Writable, Described, ReadMask
      <3>2. ResetValue(c) \cap FieldBits(f) = Csrs[c].reset \cap FieldBits(f)
        BY <3>1 DEF ResetValue
      <3> QED BY <2>1, <3>1, <3>2, LegalAssumption DEF Csr
    <2> QED BY <2>1, ResetInMask DEF Legal
  <1>3. InStep
    BY <1>2 DEF Init, InStep
  <1>4. InMask /\ Found /\ FinalLast /\ Running
    BY ResetInMask DEF Init, InMask, Found, FinalLast, Running
  <1> QED BY <1>1, <1>3, <1>4 DEF TestInv

\* Emitting an operation keeps the invariant.
LEMMA TestEmit == TestInv /\ Emit => TestInv'
  <1> SUFFICES ASSUME TestInv, Emit PROVE TestInv'
    OBVIOUS
  <1> DEFINE old == csr_map[csr]
  <1>1. PICK val \in get_rs1_val(i) :
           /\ operand' = val
           /\ csr_map' = [csr_map EXCEPT ![csr] = Updated(csr, Op, val, old)]
    BY DEF Emit
  <1>2. /\ step = "emit" /\ prediction' = csr_read(csr, old)
        /\ step' = (IF Immediate(Op) THEN "csr" ELSE "li")
        /\ UNCHANGED <<csr, op, i, hart_csr, source, dest, fault, verdict>>
    BY DEF Emit, hartVars, Predicted
  <1>3. csr \in Csr /\ old \subseteq ReadMask(csr) /\ val \in Values
    BY OperandsAreValues DEF TestInv, TypeOK, InMask
  <1>4. Updated(csr, Op, val, old) \subseteq ReadMask(csr)
        /\ Updated(csr, Op, val, old) \in Values
    BY <1>3, UpdatedLegal
  <1>5. prediction' = old /\ old \in Values
    BY <1>2, <1>3, ReadAll DEF TestInv, TypeOK
  <1>6. TypeOK'
    BY <1>1, <1>2, <1>3, <1>4, <1>5 DEF TestInv, TypeOK
  <1>7. InStep'
    <2> SUFFICES ASSUME fault = NoFault PROVE InStep'
      BY <1>2 DEF InStep
    <2>1. csr_map = hart_csr /\ verdict # "fail" /\ \A c \in Csr : Legal(c, hart_csr[c])
      BY <1>2 DEF TestInv, InStep
    <2>2. csr_map' = [hart_csr EXCEPT ![csr] = Updated(csr, Op, val, hart_csr[csr])]
      BY <1>1, <2>1
    <2>3. Op' = Op
      BY <1>2 DEF Op
    <2> QED BY <1>1, <1>2, <1>5, <2>1, <2>2, <2>3 DEF InStep
  <1>8. InMask'
    BY <1>1, <1>2, <1>3, <1>4 DEF TestInv, TypeOK, InMask
  <1>9. Found' /\ FinalLast' /\ Running'
    BY <1>2, <1>5 DEF TestInv, Found, FinalLast, Running
  <1> QED BY <1>6, <1>7, <1>8, <1>9 DEF TestInv

\* Running an instruction that loads a constant, or the last read, keeps the invariant.
LEMMA TestLoads ==
    TestInv /\ (LoadOperand \/ LoadPrediction \/ FinalRead) => TestInv'
  <1> SUFFICES ASSUME TestInv, LoadOperand \/ LoadPrediction \/ FinalRead PROVE TestInv'
    OBVIOUS
  <1>1. UNCHANGED <<csr, op, i, csr_map, hart_csr, operand, prediction, fault, verdict>>
    BY DEF LoadOperand, LoadPrediction, FinalRead, genVars
  <1>2. TypeOK'
    BY <1>1 DEF TestInv, TypeOK, LoadOperand, LoadPrediction, FinalRead
  <1>3. InStep'
    BY <1>1 DEF TestInv, TypeOK, InStep, LoadOperand, LoadPrediction, FinalRead, Op
  <1>4. InMask'
    BY <1>1 DEF TestInv, InMask
  <1>5. Found' /\ FinalLast' /\ Running'
    BY <1>1 DEF TestInv, Found, WroteNow, FinalLast, AtEnd, Running,
            LoadOperand, LoadPrediction, FinalRead
  <1> QED BY <1>2, <1>3, <1>4, <1>5 DEF TestInv

\* Running the CSR instruction keeps the invariant.
LEMMA TestExecute == TestInv /\ ExecuteCsr => TestInv'
  <1> SUFFICES ASSUME TestInv, ExecuteCsr PROVE TestInv'
    OBVIOUS
  <1>1. /\ step = "csr" /\ step' = "predict" /\ dest' = hart_csr[csr]
        /\ UNCHANGED <<csr, op, i, csr_map, operand, prediction, source, verdict>>
    BY DEF ExecuteCsr, genVars
  <1>2. /\ csr \in Csr /\ hart_csr[csr] \in Values /\ HartResult \subseteq ReadMask(csr)
        /\ ReadMask(csr) \subseteq Bits /\ HartResult \in Values
        /\ op \in 1..6 /\ i \in 0..2
    BY HartInMask, MaskInBits, Ops DEF TestInv, TypeOK, Values
  <1>3. CASE /\ hart_csr' = [hart_csr EXCEPT ![csr] = HartResult]
             /\ UNCHANGED fault
    <2>1. TypeOK'
      BY <1>1, <1>2, <1>3 DEF TestInv, TypeOK
    <2>2. InMask'
      BY <1>1, <1>2, <1>3 DEF TestInv, TypeOK, InMask
    <2>3. InStep'
      <3> SUFFICES ASSUME fault = NoFault PROVE InStep'
        BY <1>3 DEF InStep
      <3>1. HartResult = Updated(csr, Op, operand, hart_csr[csr])
        BY <1>1, HartAgrees
      <3>2. hart_csr' = csr_map'
        BY <1>1, <1>3, <3>1 DEF TestInv, InStep
      <3>3. \A c \in Csr : Legal(c, hart_csr'[c])
        BY <1>2, <1>3, <3>1, UpdatedLegal DEF TestInv, TypeOK, InStep, InMask
      <3> QED BY <1>1, <1>3, <3>2, <3>3 DEF TestInv, InStep
    <2>4. Found' /\ FinalLast' /\ Running'
      BY <1>1, <1>3 DEF TestInv, Found, FinalLast, Running
    <2> QED BY <2>1, <2>2, <2>3, <2>4 DEF TestInv
  <1>4. CASE /\ fault = NoFault
             /\ \E b \in ReadMask(csr) :
                   hart_csr' = [hart_csr EXCEPT ![csr] =
                                   (HartResult \ {b}) \cup ({b} \ HartResult)]
             /\ fault' = <<csr, op, i>>
    <2>1. PICK b \in ReadMask(csr) :
             hart_csr' = [hart_csr EXCEPT ![csr] =
                             (HartResult \ {b}) \cup ({b} \ HartResult)]
      BY <1>4
    <2> DEFINE wrong == (HartResult \ {b}) \cup ({b} \ HartResult)
    <2>2. wrong \subseteq ReadMask(csr) /\ wrong \in Values /\ wrong # HartResult
      BY <1>2, <2>1 DEF Values
    <2>3. TypeOK'
      BY <1>1, <1>2, <1>4, <2>1, <2>2, Ops DEF TestInv, TypeOK
    <2>4. InMask'
      BY <1>1, <1>2, <2>1, <2>2 DEF TestInv, TypeOK, InMask
    <2>5. InStep'
      <3>1. fault' # NoFault
        BY <1>2, <1>4 DEF NoFault
      <3> QED BY <3>1 DEF InStep
    <2>6. hart_csr'[csr] # csr_map'[csr]
      <3>1. csr_map[csr] = HartResult
        BY <1>1, <1>2, <1>4, HartAgrees DEF TestInv, TypeOK, InStep
      <3>2. hart_csr'[csr] = wrong
        BY <1>2, <2>1 DEF TestInv, TypeOK
      <3> QED BY <1>1, <2>2, <3>1, <3>2
    <2>7. verdict # "pass"
      BY <1>1 DEF TestInv, Running
    <2>8. Found' /\ FinalLast' /\ Running'
      BY <1>1, <1>4, <2>6, <2>7 DEF TestInv, Found, WroteNow, FinalLast, Running
    <2> QED BY <2>3, <2>4, <2>5, <2>8 DEF TestInv
  <1> QED BY <1>3, <1>4 DEF ExecuteCsr

\* Running a branch to csr_fail, or reaching the end, keeps the invariant.
LEMMA TestBranches == TestInv /\ (BranchFails \/ Pass) => TestInv'
  <1> SUFFICES ASSUME TestInv, BranchFails \/ Pass PROVE TestInv'
    OBVIOUS
  <1>1. step' = "end" /\ UNCHANGED <<csr, op, i, csr_map, hart_csr, operand,
                                     prediction, source, dest, fault>>
    BY DEF BranchFails, Pass, genVars, hartVars
  <1>2. TypeOK' /\ InMask'
    BY <1>1 DEF TestInv, TypeOK, InMask, BranchFails, Pass
  <1>3. InStep'
    BY <1>1 DEF TestInv, InStep, BranchFails, Pass
  <1>4. Found' /\ FinalLast' /\ Running'
    BY <1>1 DEF TestInv, Found, FinalLast, Running, BranchFails, Pass
  <1> QED BY <1>2, <1>3, <1>4 DEF TestInv

\* Going on to the next operation keeps the invariant.
LEMMA TestNextInstr == TestInv /\ NextInstr => TestInv'
  <1> SUFFICES ASSUME TestInv, NextInstr PROVE TestInv'
    OBVIOUS
  <1>1. /\ step = "branch" /\ source = dest /\ step' = "emit"
        /\ UNCHANGED <<csr_map, hart_csr, operand, prediction, source, dest,
                       fault, verdict>>
    BY DEF NextInstr, hartVars
  <1>2. csr \in 1..Len(Csrs) /\ op \in 1..6 /\ i \in 0..2 /\ Len(Csrs) \in Nat
    BY Ops, CsrCount DEF TestInv, TypeOK, Csr
  <1>3. /\ csr' \in Csr /\ op' \in 1..6 /\ i' \in 0..2
        /\ csr' = csr \/ (csr < Len(Csrs) /\ op = 6 /\ i = 2)
    BY <1>2, Ops DEF NextInstr, Advance, AtEnd, Csr
  <1>4. TypeOK' /\ InMask'
    BY <1>1, <1>3, Ops DEF TestInv, TypeOK, InMask
  <1>5. InStep'
    BY <1>1 DEF TestInv, InStep
  <1>6. Found'
    <2> SUFFICES ASSUME fault # NoFault, ~LastWrite(fault) PROVE Found'
      BY <1>1 DEF Found, LastWrite
    <2>1. verdict # "pass" /\ fault = <<csr, op, i>> /\ hart_csr[csr] # csr_map[csr]
      BY <1>1 DEF TestInv, Found, WroteNow
    <2>2. csr' = csr
      BY <1>3, <2>1, Ops DEF LastWrite
    <2> QED BY <1>1, <2>1, <2>2 DEF Found
  <1> QED BY <1>1, <1>4, <1>5, <1>6 DEF TestInv, FinalLast, Running

\* Emitting the last read of a CSR keeps the invariant.
LEMMA TestEmitFinal == TestInv /\ EmitFinal => TestInv'
  <1> SUFFICES ASSUME TestInv, EmitFinal PROVE TestInv'
    OBVIOUS
  <1> DEFINE old == csr_map[csr]
  <1>1. /\ step = "branch" /\ source = dest /\ AtEnd /\ step' = "final_read"
        /\ prediction' = csr_read(csr, old)
        /\ csr_map' = [csr_map EXCEPT ![csr] = Updated(csr, "csrrs", {}, old)]
        /\ UNCHANGED <<csr, op, i, operand, hart_csr, source, dest, fault, verdict>>
    BY DEF EmitFinal, hartVars, Predicted
  <1>2. csr \in Csr /\ old \subseteq ReadMask(csr) /\ old \in Values
    BY DEF TestInv, TypeOK, InMask
  <1>3. Updated(csr, "csrrs", {}, old) \subseteq ReadMask(csr)
        /\ Updated(csr, "csrrs", {}, old) \in Values
    BY <1>2, UpdatedLegal
  <1>4. prediction' = old
    BY <1>1, <1>2, ReadAll
  <1>5. TypeOK' /\ InMask' /\ FinalLast'
    BY <1>1, <1>2, <1>3, <1>4 DEF TestInv, TypeOK, InMask, FinalLast, AtEnd
  <1>6. InStep'
    <2> SUFFICES ASSUME fault = NoFault PROVE InStep'
      BY <1>1 DEF InStep
    <2>1. csr_map = hart_csr /\ Legal(csr, hart_csr[csr])
      BY <1>1, <1>2 DEF TestInv, InStep
    <2>2. Updated(csr, "csrrs", {}, old) = old
      BY <1>2, <2>1, SetNothing DEF Operand, Immediate
    <2>3. csr_map' = hart_csr
      BY <1>1, <1>2, <2>1, <2>2 DEF TestInv, TypeOK
    <2> QED BY <1>1, <1>4, <2>1, <2>3 DEF TestInv, InStep
  <1>7. Found'
    <2> SUFFICES ASSUME fault # NoFault, ~LastWrite(fault) PROVE Found'
      BY <1>1 DEF Found, LastWrite
    <2>1. verdict # "pass" /\ hart_csr[csr] # old
      BY <1>1 DEF TestInv, Found, WroteNow
    <2> QED BY <1>1, <1>4, <2>1 DEF Found
  <1> QED BY <1>1, <1>5, <1>6, <1>7 DEF TestInv, Running

\* TestInv holds from the start and every step keeps it.
THEOREM TestInductive == Spec => []TestInv
  <1>1. Init => TestInv
    BY TestInit
  <1>2. TestInv /\ [Next]_vars => TestInv'
    <2> SUFFICES ASSUME TestInv, [Next]_vars PROVE TestInv'
      OBVIOUS
    <2>1. CASE UNCHANGED vars
      BY <2>1 DEF vars, genVars, hartVars, TestInv, TypeOK, InStep, InMask, Found,
              WroteNow, FinalLast, AtEnd, Op, Running
    <2>2. CASE Next
      BY <2>2, TestEmit, TestLoads, TestExecute, TestBranches, TestNextInstr,
         TestEmitFinal DEF Next
    <2> QED BY <2>1, <2>2
  <1> QED BY <1>1, <1>2, PTL DEF Spec

\* A hart that does what the description says never fails the test.
THEOREM ConformingHartPasses == Spec => []ConformingPasses
  <1>1. TestInv => ConformingPasses
    BY DEF TestInv, InStep, ConformingPasses
  <1> QED BY <1>1, TestInductive, PTL

\* A hart with one wrong bit in one write fails it, but for the last write
\* to a CSR that is not the last one.
THEOREM WrongBitsAreFound == Spec => []FaultsFound
  <1>1. TestInv => FaultsFound
    BY DEF TestInv, Found, FaultsFound
  <1> QED BY <1>1, TestInductive, PTL
=============================================================================
