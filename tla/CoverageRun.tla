----------------------------- MODULE CoverageRun -----------------------------
(***************************************************************************)
(* Functional coverage collection: riscv_instr_cov_test.run_phase reads    *)
(* the rows of the trace CSVs it is given and samples a cover group for    *)
(* each, and cov.py starts it on batches of CSVs.                          *)
(*                                                                         *)
(* A program runs beside it: each step executes one instruction p of       *)
(* Steps[k], whose row the collector reads.  "registers" are the program's *)
(* registers, gpr_state is the collector's idea of them.                   *)
(***************************************************************************)
EXTENDS TraceText, FiniteSets

CONSTANTS Steps,          \* Steps[k]: the instructions that may be row k
          Layouts,        \* orders of operands in the rows
          MaxFiles,       \* CSVs (bound)
          BatchSize,      \* CSVs per run of the collector
          supported_isa   \* extensions of the target

VARIABLES layout,     \* whose rows these are
          file,       \* the CSV being read
          row,        \* rows read so far, in all CSVs
          status,     \* "reading", "done", or how the collector died
          instr_cnt,  \* instructions sampled of this CSV
          gpr_state,  \* register values, kept for all CSVs of a process
          pre_instr,  \* the last instruction sampled, with its hazards
          expect_illegal_instr,
          skipped_cnt,
          unexpected_illegal_instr_cnt,
          covered,    \* bins hit: <<group, points, values>>
          registers,  \* the program's registers
          unseen,     \* registers whose last change the collector missed
          access,     \* the memory access of the row before, if it was sampled
          earned,     \* bins the sampled instructions of the program hit
          doubt,      \* a row was sampled that does not show its instruction
          culprit     \* the row the collector died of

ghosts == <<registers, unseen, access, earned, doubt, culprit>>
vars == <<layout, file, row, status, instr_cnt, gpr_state, pre_instr,
          expect_illegal_instr, skipped_cnt, unexpected_illegal_instr_cnt,
          covered, ghosts>>

Registers == {"x", "f"} \X riscv_reg_t
Blank == [r \in Registers |-> 0]

update_instr_name ==
  [FMV_S_X |-> "FMV_W_X", FMV_X_S |-> "FMV_X_W", FMV_S |-> "FSGNJ_S",
   FABS_S |-> "FSGNJX_S", FNEG_S |-> "FSGNJN_S", FMV_D |-> "FSGNJ_D",
   FABS_D |-> "FSGNJX_D", FNEG_D |-> "FSGNJN_D"]

process_instr_name(name) ==
  IF name \in DOMAIN update_instr_name THEN update_instr_name[name] ELSE name

(* The instructions of a program have the operands of their form; the old  *)
(* name of a move gives its source once.                                   *)
WellFormed(p) ==
  /\ p.name \in Listed => DOMAIN p.arg = Roles(p.name)
  /\ p.name \in DOMAIN update_instr_name
       => DOMAIN p.arg = Roles(update_instr_name[p.name]) \ {"fs2"}
  /\ \A r \in DOMAIN p.arg : Kind(r) \in {"x", "f"} => p.arg[r] \in riscv_reg_t
  /\ p.name \in Listed /\ ReadsSp(p.name, get_attr_list[p.name])
       => p.arg["rs1"] = SP

ASSUME StepsAssumption ==
  Len(Steps) \in Nat /\ \A k \in 1 .. Len(Steps) : \A p \in Steps[k] : WellFormed(p)
ASSUME FilesAssumption == MaxFiles \in Nat \ {0}

(* Rows that are passed over by their name.  Looking for "lr" and "sc"     *)
(* anywhere in it also finds the jumps through a register.                 *)
PassedByName ==
  {"LI", "RET", "LA", "JALR", "C_JALR", "CLMULR", "CLMULRW"}
    \cup RV32ANames \cup RV64ANames

IntGroups ==
  {"RV32I", "RV32M", "RV32C", "RV64I", "RV64M", "RV64C", "RV64F", "RV64D",
   "RV32B", "RV64B"}
FdGroups == {"RV32F", "RV32D"}

-----------------------------------------------------------------------------
(* Sampling.                                                               *)
(* The point of the miscellaneous group compares the number of the name in *)
(* riscv_instr_name_t with the numbers of rv32i_misc_instrs.               *)
Ordinal(name) ==
  LET first == <<"LUI", "AUIPC", "JAL", "JALR", "BEQ">>
  IN  IF name \in Range(first)
      THEN (CHOOSE n \in DOMAIN first : first[n] = name) - 1 ELSE 5

(* The fields the cover groups read.  The F and D extensions' pre_sample   *)
(* computes the signs of floating-point operands only.                     *)
Fields(i, word) ==
  LET fd == i.group \in FdGroups
      FpFlag(v) == IF FpClass(v) \in {FpZero, FpSubnormal} THEN 1 ELSE 0
      Flagged(b) == IF b THEN 1 ELSE 0
  IN  [rs1 |-> i.rs1, rs2 |-> i.rs2, rd |-> i.rd,
       fs1 |-> i.fs1, fs2 |-> i.fs2, fs3 |-> i.fs3, fd |-> i.fd,
       rs1_sign |-> IF fd THEN 0 ELSE get_operand_sign(i.rs1_value),
       rs2_sign |-> IF fd THEN 0 ELSE get_operand_sign(i.rs2_value),
       rd_sign |-> IF fd THEN 0 ELSE get_operand_sign(i.rd_value),
       imm_sign |-> IF fd THEN 0 ELSE get_imm_sign(i.imm),
       fs1_sign |-> FpSign(i.fs1_value), fs2_sign |-> FpSign(i.fs2_value),
       fs3_sign |-> FpSign(i.fs3_value), fd_sign |-> FpSign(i.fd_value),
       fs1_value |-> FpClass(i.fs1_value), fs2_value |-> FpClass(i.fs2_value),
       fs3_value |-> FpClass(i.fs3_value), fd_value |-> FpClass(i.fd_value),
       fs1_exponent_0 |-> FpFlag(i.fs1_value),
       fs2_exponent_0 |-> FpFlag(i.fs2_value),
       fs3_exponent_0 |-> FpFlag(i.fs3_value),
       fd_exponent_0 |-> FpFlag(i.fd_value),
       gpr_hazard |-> i.gpr_hazard, lsu_hazard |-> i.lsu_hazard,
       branch_hit |-> Flagged(/\ i.category = "BRANCH"
                              /\ is_branch_hit(i)),
       div_result |-> IF i.name \in {"DIV", "DIVU", "REM", "REMU", "DIVW",
                                     "DIVUW", "REMW", "REMUW"}
                      THEN get_div_result(i) ELSE DIV_NORMAL,
       logical_similarity |-> IF i.category = "LOGICAL"
                              THEN get_logical_similarity(i) ELSE IDENTICAL,
       unaligned_mem_access |-> Flagged(/\ ~fd
                                        /\ i.category \in {"LOAD", "STORE"}
                                        /\ is_unaligned_mem_access(i)),
       rd_value |-> i.rd_value, rd_value_0 |-> i.rd_value % 2,
       rd_value_1 |-> (i.rd_value \div 2) % 2, rd_value_2_0 |-> i.rd_value % 8,
       imm_1 |-> (i.imm \div 2) % 2, imm_2_0 |-> i.imm % 8,
       rs1_value_1_0 |-> i.rs1_value % 4, rs1_value_2_0 |-> i.rs1_value % 8,
       binary_6_2 |-> word.binary_6_2, hint |-> word.hint,
       reserved |-> word.reserved, instr |-> Ordinal(i.name)]

PointHits(name, group, s) ==
  {<<name, <<p.name, p.field>>, <<s[p.field]>>>> :
     p \in {q \in group.points : s[q.field] \in q.bins}}

(* A cross counts a combination whose values are all in bins. *)
CrossHits(name, group, s) ==
  LET At(n) == CHOOSE p \in group.points : p.name = n
      Hit(c) == \A k \in DOMAIN c : s[At(c[k]).field] \in At(c[k]).bins
  IN  {<<name, c, [k \in DOMAIN c |-> s[At(c[k]).field]]>> :
         c \in {d \in group.crosses : Hit(d)}}

Hits(name, group, s) == PointHits(name, group, s) \cup CrossHits(name, group, s)

(* riscv_instr_cover_group.sample.  A name without an instance raises an   *)
(* exception, which is caught.                                             *)
sample(i, word) ==
  LET s == Fields(i, word)
  IN  UNION
        {IF word.compressed /\ "RV32C" \in supported_isa
         THEN Hits("hint", hint_cg, s)
                \cup Hits("illegal_compressed", illegal_compressed_instr_cg, s)
         ELSE {},
         IF ~word.compressed THEN Hits("opcode", opcode_cg, s) ELSE {},
         IF i.name \in DOMAIN instances
         THEN Hits(i.name, instances[i.name], s) ELSE {},
         IF i.group = "RV32I" THEN Hits("rv32i_misc", rv32i_misc_cg, s) ELSE {},
         IF i.category = "CSR" /\ i.csr = 833
         THEN Hits("mepc_alignment", mepc_alignment_cg, s) ELSE {}}

WithHazards(i) ==
  IF instr_cnt > 0
  THEN [i EXCEPT !.gpr_hazard = gpr_hazard(i, pre_instr),
                 !.lsu_hazard = lsu_hazard(i, pre_instr)]
  ELSE i

-----------------------------------------------------------------------------
Changed(f, changed, value) ==
  [r \in Registers |-> IF r \in changed THEN value ELSE f[r]]

(* What the program does, whether its row is read or not. *)
Executes(p, seen) ==
  /\ row' = row + 1
  /\ registers' = Changed(registers, Dest(p), p.value)
  /\ unseen' = IF seen THEN unseen \ Dest(p) ELSE unseen \cup Dest(p)

Reads(p) == {<<"x", p.arg[r]>> : r \in DOMAIN p.arg \cap {"rs1", "rs2"}}

(* The instruction as the program executes it, in the form Decode gives.   *)
Executed(p) ==
  LET name == process_instr_name(p.name)
      a == get_attr_list[name]
      Number(r) == IF r \in DOMAIN p.arg THEN p.arg[r] ELSE 0
      Value(r) == IF r \in DOMAIN p.arg
                  THEN registers[<<Kind(r), p.arg[r]>>] ELSE 0
      Result(r) == IF <<Kind(r), Number(r)>> \in Dest(p) THEN p.value ELSE 0
  IN  [name |-> name, format |-> a.format, category |-> a.category,
       group |-> a.group,
       rs1 |-> Number("rs1"), rs2 |-> Number("rs2"), rd |-> Number("rd"),
       fs1 |-> 0, fs2 |-> 0, fs3 |-> 0, fd |-> 0,
       rs1_value |-> Value("rs1"), rs2_value |-> Value("rs2"),
       rd_value |-> Result("rd"),
       fs1_value |-> 0, fs2_value |-> 0, fs3_value |-> 0, fd_value |-> 0,
       imm |-> Number("imm"), csr |-> Number("csr"),
       mem_addr |-> IF a.category \in {"LOAD", "STORE"}
                    THEN Value("rs1") + Number("imm") ELSE 0,
       gpr_hazard |-> NO_HAZARD, lsu_hazard |-> NO_HAZARD]

(* The bins whose meaning the collector gets right: not those on floating- *)
(* point operands, on hazards, on division overflow, on the similarity of  *)
(* values, and on the miscellaneous instructions.                          *)
Sound(hits) ==
  {h \in hits :
     /\ h[1] # "rv32i_misc"
     /\ h[1] \in Listed => get_attr_list[h[1]].group \notin FdGroups
     /\ Range(h[2]) \cap {"gpr_hazard", "lsu_hazard", "div_result",
                          "logical_similarity"} = {}}

NoAccess == [kind |-> "NONE", address |-> 0]
UnknownAccess == [kind |-> "UNKNOWN", address |-> 0]

AccessOf(p) ==
  LET e == Executed(p)
  IN  IF e.group \in FdGroups \/ Reads(p) \cap unseen # {} THEN UnknownAccess
      ELSE IF e.category \in {"LOAD", "STORE"}
           THEN [kind |-> e.category, address |-> e.mem_addr]
           ELSE NoAccess

-----------------------------------------------------------------------------
(* Mutant: the counter starts at the first instruction. *)
CountFromOne == instr_cnt = 1 /\ pre_instr = [name |-> "NONE"]

NothingSampled == instr_cnt = 0 /\ pre_instr = [name |-> "NONE"]

Init ==
  /\ layout \in Layouts
  /\ file = 1 /\ row = 0 /\ status = "reading"
  /\ NothingSampled /\ gpr_state = Blank
  /\ expect_illegal_instr = FALSE
  /\ skipped_cnt = 0 /\ unexpected_illegal_instr_cnt = 0
  /\ covered = {}
  /\ registers = Blank /\ unseen = {} /\ earned = {} /\ doubt = FALSE
  /\ access = <<NoAccess, NoAccess>>
  /\ culprit = [instr |-> "NONE", operand |-> <<>>, gpr |-> <<>>]

Reading == status = "reading" /\ row < Len(Steps)

(* A row with more or fewer cells than the header. *)
SkipMalformed(p) ==
  /\ Reading /\ p.mark = "short"
  /\ skipped_cnt' = skipped_cnt + 1
  /\ Executes(p, FALSE)
  /\ access' = <<access[2], UnknownAccess>>
  /\ UNCHANGED <<layout, file, status, instr_cnt, gpr_state, pre_instr,
                 expect_illegal_instr, unexpected_illegal_instr_cnt, covered,
                 earned, doubt, culprit>>

(* The word "illegal" anywhere in a row changes how all later ones are     *)
(* judged: the flag is never reset.                                        *)
Takes(p) ==
  /\ Reading /\ p.mark # "short"
  /\ expect_illegal_instr' = (expect_illegal_instr \/ p.mark = "illegal")

PassByName(p, text) ==
  /\ Takes(p) /\ text.instr \in PassedByName
  /\ Executes(p, FALSE)
  /\ access' = <<access[2], UnknownAccess>>
  /\ UNCHANGED <<layout, file, status, instr_cnt, gpr_state, pre_instr,
                 skipped_cnt, unexpected_illegal_instr_cnt, covered,
                 earned, doubt, culprit>>

NameOf(text) == process_instr_name(text.instr)
Judged(p, text) == Takes(p) /\ text.instr \notin PassedByName

RejectUnknown(p, text) ==
  /\ Judged(p, text) /\ NameOf(text) \notin Names
  /\ unexpected_illegal_instr_cnt' =
       unexpected_illegal_instr_cnt + (IF expect_illegal_instr' THEN 0 ELSE 1)
  /\ Executes(p, FALSE)
  /\ access' = <<access[2], UnknownAccess>>
  /\ UNCHANGED <<layout, file, status, instr_cnt, gpr_state, pre_instr,
                 skipped_cnt, covered, earned, doubt, culprit>>

Collected(name) ==
  /\ get_attr_list[name].group \in IntGroups \cup FdGroups
  /\ get_attr_list[name].group \in supported_isa

(* An extension the target lacks: the row counts as handled. *)
PassUnsupported(p, text) ==
  /\ Judged(p, text) /\ NameOf(text) \in Listed /\ ~Collected(NameOf(text))
  /\ Executes(p, FALSE)
  /\ access' = <<access[2], UnknownAccess>>
  /\ UNCHANGED <<layout, file, status, instr_cnt, gpr_state, pre_instr,
                 skipped_cnt, unexpected_illegal_instr_cnt, covered,
                 earned, doubt, culprit>>

Accepted(text) ==
  /\ NameOf(text) \in Listed
  /\ Readable(NameOf(text), get_attr_list[NameOf(text)], text.operand, text.gpr)

(* assign_trace_info_to_instr, pre_sample and sample. *)
Sample(p, text) ==
  LET name == NameOf(text)
      changed == IF name \in WithoutOperands THEN {}
                 ELSE {text.gpr[k][1] : k \in DOMAIN text.gpr}
      after == Changed(gpr_state, changed, p.value)
      i == WithHazards(Decode(name, get_attr_list[name], text.operand, text.gpr,
                              gpr_state, after))
  IN  /\ Judged(p, text) /\ Accepted(text) /\ Collected(name)
      /\ gpr_state' = after
      /\ instr_cnt' = instr_cnt + 1
      /\ pre_instr' = i
      /\ covered' = covered \cup sample(i, p.word)
      /\ Executes(p, TRUE)
      /\ access' = <<access[2], AccessOf(p)>>
      /\ earned' = earned \cup Sound(sample(Executed(p), p.word))
      /\ doubt' = (doubt \/ Reads(p) \cap unseen # {} \/ text.instr # p.name)
      /\ UNCHANGED <<layout, file, status, skipped_cnt,
                     unexpected_illegal_instr_cnt, culprit>>

(* An exception nobody catches: a name get_attr_list lacks, or a text that *)
(* is not the operand expected at its place, as a CSR's unknown name.      *)
Die(p, text) ==
  /\ Judged(p, text) /\ NameOf(text) \in Names /\ ~Accepted(text)
  /\ NameOf(text) \in Listed => Collected(NameOf(text))
  /\ status' = "crashed" /\ culprit' = text
  /\ UNCHANGED <<layout, file, row, instr_cnt, gpr_state, pre_instr,
                 skipped_cnt, unexpected_illegal_instr_cnt, covered,
                 registers, unseen, access, earned, doubt>>

(* cov.py's sim_cov writes "--trace_csv=" for the first CSV of all only;   *)
(* the others are joined with a comma.                                     *)
SameProcess(f) == (f - 1) \div BatchSize = f \div BatchSize

NextFile ==
  /\ status = "reading" /\ file < MaxFiles /\ SameProcess(file)
  /\ file' = file + 1
  /\ instr_cnt' = 0
  /\ registers' = Blank
  /\ unseen' = {r \in Registers : gpr_state[r] # 0}
  /\ access' = <<NoAccess, NoAccess>>
  /\ UNCHANGED <<layout, row, status, gpr_state, pre_instr,
                 expect_illegal_instr, skipped_cnt,
                 unexpected_illegal_instr_cnt, covered, earned, doubt, culprit>>

(* The options of a later batch begin with the comma: they name no CSV,    *)
(* and the collector's parser refuses them.                                *)
NextBatch ==
  /\ status = "reading" /\ file < MaxFiles /\ ~SameProcess(file)
  /\ status' = "refused"
  /\ UNCHANGED <<layout, file, row, instr_cnt, gpr_state, pre_instr,
                 expect_illegal_instr, skipped_cnt,
                 unexpected_illegal_instr_cnt, covered, ghosts>>

Finish ==
  /\ status = "reading"
  /\ status' = "done"
  /\ UNCHANGED <<layout, file, row, instr_cnt, gpr_state, pre_instr,
                 expect_illegal_instr, skipped_cnt,
                 unexpected_illegal_instr_cnt, covered, ghosts>>

ReadRow ==
  Reading /\ \E p \in Steps[row + 1] :
    LET text == Text(p, layout)
    IN  \/ SkipMalformed(p)
        \/ PassByName(p, text)
        \/ RejectUnknown(p, text)
        \/ PassUnsupported(p, text)
        \/ Sample(p, text)
        \/ Die(p, text)

Next == ReadRow \/ NextFile \/ NextBatch \/ Finish

Spec == Init /\ [][Next]_vars

-----------------------------------------------------------------------------
(* Every variable keeps the values the source gives it. *)
TypeOK ==
  /\ layout \in Layouts /\ file \in 1 .. MaxFiles /\ row \in 0 .. Len(Steps)
  /\ status \in {"reading", "done", "crashed", "refused"}
  /\ instr_cnt \in 0 .. row /\ skipped_cnt \in 0 .. row
  /\ unexpected_illegal_instr_cnt \in 0 .. row
  /\ expect_illegal_instr \in BOOLEAN
  /\ DOMAIN gpr_state = Registers
  /\ instr_cnt > 0 => pre_instr.name \in Listed

(* The report is about the program: as long as every sampled row shows its *)
(* instruction and the collector has seen the last change of the registers *)
(* it reads, the bins hit (but for those Sound leaves out) are exactly     *)
(* those of the executed instructions, with the values their operands had  *)
(* before the instruction and their results after it                       *)
(* (update_src_regs, update_dst_regs, pre_sample, sample).                 *)
CoverageExact == ~doubt => Sound(covered) = earned

(* The hazard sampled for an integer load or store is the one between it   *)
(* and the instruction before it, when that one was sampled too: same      *)
(* address, and the right pair of accesses, also at the start of a CSV     *)
(* (check_hazard_condition, the counter that reset clears, and pre_instr). *)
MemHazardsReal ==
  LET before == access[1]
      last == access[2]
      Pair(a, b) == before.kind = a /\ last.kind = b
                      /\ before.address = last.address
  IN  "UNKNOWN" \notin {before.kind, last.kind} /\ last.kind # "NONE"
        => /\ pre_instr.lsu_hazard = RAW_HAZARD <=> Pair("STORE", "LOAD")
           /\ pre_instr.lsu_hazard = WAW_HAZARD <=> Pair("STORE", "STORE")
           /\ pre_instr.lsu_hazard = WAR_HAZARD <=> Pair("LOAD", "STORE")

BaseForms ==
  {n \in Listed : \/ get_attr_list[n].category \in {"LOAD", "STORE"}
                  \/ get_attr_list[n].format \in {"CL_FORMAT", "CS_FORMAT"}}

NamesUnknownCsr(text) == \E k \in DOMAIN text.operand : ~NameKnown(text.operand[k])

(* The collector dies on a row only for a name that get_attr_list lacks, a *)
(* form whose operands come in another order than it reads them, a DRET,   *)
(* which has none, or a CSR whose name privileged_reg_t lacks              *)
(* (assign_attributes, update_src_regs, update_dst_regs).                  *)
DiesOnlyOnKnownForms ==
  status = "crashed" => \/ NameOf(culprit) \in Unlisted \cup BaseForms \cup {"DRET"}
                        \/ NamesUnknownCsr(culprit)

(* The converters write the operands of <instr> <reg1> <imm>(<reg2>) as    *)
(* "<reg1>,<reg2>,<imm>", and the collector reads what they write: no row  *)
(* of a known instruction ends it (update_src_regs).                       *)
RowsAccepted == status # "crashed"
=============================================================================
