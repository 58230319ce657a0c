------------------------------ MODULE StreamMix ------------------------------
(***************************************************************************)
(* mix_instr_stream: the instructions of one stream spread over a list of  *)
(* random ones.  The code draws all positions, sorts them and, when        *)
(* "contained" is set, overwrites the first and the last; then it inserts. *)
(* A sorted draw is the same as drawing each position from the one before  *)
(* on, which is what Positions does, just before the insertion.            *)
(***************************************************************************)
EXTENDS Integers, Sequences, SequencesExt, FiniteSets

CONSTANT Mixes   \* what may be mixed: a number of random instructions, the stream
                 \* mixed into them, and the argument "contained"

\* random instructions, and those of loops and of push and pop streams
Role == {"random", "init", "limit", "target", "update", "branch", "addi", "sw", "lw"}

\* "role" tells apart the instructions of a stream, "group" the parts of it
Instr == [role : Role, group : Nat, has_label : BOOLEAN, atomic : BOOLEAN]

IsRandom(instr) == instr.role = "random"
IsNew(instr) == ~IsRandom(instr)

ASSUME MixAssumption ==
    \A mix \in Mixes : /\ mix.old \in Nat
                       /\ mix.new \in Seq(Instr) \ {<<>>}
                       /\ \A k \in DOMAIN mix.new : IsNew(mix.new[k])
                       /\ mix.contained \in BOOLEAN

VARIABLES instr_list,  \* the list inserted into
          new_instr,   \* the list mixed in
          contained,
          i,           \* how many instructions are in
          at           \* insert_instr_position of the last one that is in

mixVars == <<instr_list, new_instr, contained, i, at>>

Random(k) == [role |-> "random", group |-> k, has_label |-> TRUE, atomic |-> FALSE]

MixInit ==
    /\ \E mix \in Mixes :
          /\ instr_list = [k \in 1 .. mix.old |-> Random(k)]
          /\ new_instr = mix.new
          /\ contained = mix.contained
    /\ i = 0
    /\ at = 0

OldCnt == Len(instr_list) - i   \* current_instr_cnt, taken before the first insertion

\* Mutant: the positions are not sorted
UnsortedPositions == 0 .. OldCnt

Positions ==
    CASE contained /\ i = 0 -> {0}
      [] contained /\ i > 0 /\ i = Len(new_instr) - 1 -> {OldCnt - 1}
      [] OTHER -> at .. OldCnt

\* insert_instr's argument, an index from 0
Index(position) == position + i

InsertInstr ==
    /\ i < Len(new_instr)
    /\ \E position \in Positions :
          /\ instr_list' = InsertAt(instr_list, Index(position) + 1, new_instr[i + 1])
          /\ at' = position
    /\ i' = i + 1
    /\ UNCHANGED <<new_instr, contained>>

Mixed == i = Len(new_instr)

-----------------------------------------------------------------------------
\* what no step on an instruction changes
Name(instr) == <<instr.role, instr.group>>

\* how many of the new instructions are in up to position k
NewUpTo(k) == Cardinality({j \in 1..k : IsNew(instr_list[j])})

\* The instructions of the new list that are in stand in its order, and so do the random
\* ones: "the instruction order is preserved" (riscv_instr_stream.py:115).
OrderPreserved ==
    /\ NewUpTo(Len(instr_list)) = i
    /\ \A k \in DOMAIN instr_list :
          IF IsNew(instr_list[k])
          THEN Name(instr_list[k]) = Name(new_instr[NewUpTo(k)])
          ELSE instr_list[k].group = k - NewUpTo(k)

\* Only a contained mix may move the instructions of the new list against each other.
UncontainedOrder == ~contained => OrderPreserved
=============================================================================
