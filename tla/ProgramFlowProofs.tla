------------------------- MODULE ProgramFlowProofs -------------------------
(***************************************************************************)
(* Proofs about a generated sequence and the run of the program it is.     *)
(* First InstrSequence: its properties hold for every number of            *)
(* instructions, every branch distance and every list of directed streams. *)
(* Then ProgramFlow, for every list of directed streams: every operand     *)
(* finds its label, a stream without labels is entered at its head, a jump *)
(* chain runs all of its instructions.                                     *)
(***************************************************************************)
EXTENDS ProgramFlow, RecursionLemmas

-----------------------------------------------------------------------------
\* The sequence: generated, its directed streams inserted, its branches
\* resolved.

\* Inserting a directed stream d in front of position "at" of a list: what
\* the new list is, position by position.
LEMMA InsertBeforeShape ==
    ASSUME NEW list \in Seq(Instr), NEW d \in Seq(Instr),
           NEW at \in 1..Len(list), Len(d) > 0
    PROVE  LET new == InsertBefore(list, at, d) IN
           /\ new \in Seq(Instr)
           /\ Len(new) = Len(list) + Len(d)
           /\ \A k \in 1 .. at - 1 : new[k] = list[k]
           /\ \A k \in 1 .. Len(d) : new[at + k - 1] = d[k]
           /\ \A k \in at .. Len(list) : new[k + Len(d)] = list[k]
  <1> DEFINE n == Len(list) + Len(d)
             e(k) == IF k < at THEN list[k]
                     ELSE IF k < at + Len(d) THEN d[k - at + 1]
                     ELSE list[k - Len(d)]
             new == [k \in 1..n |-> e(k)]
  <1>1. n \in Nat /\ Len(list) \in Nat /\ Len(d) \in Nat
    OBVIOUS
  <1>2. InsertBefore(list, at, d) = new
    BY DEF InsertBefore
  <1>3. \A k \in 1..n : e(k) \in Instr
    <2> SUFFICES ASSUME NEW k \in 1..n PROVE e(k) \in Instr
      OBVIOUS
    <2>1. CASE k < at
      BY <2>1, <1>1
    <2>2. CASE k >= at /\ k < at + Len(d)
      <3>1. k - at + 1 \in 1..Len(d)
        BY <2>2, <1>1
      <3> QED BY <3>1, <2>2
    <2>3. CASE k >= at + Len(d)
      <3>1. k - Len(d) \in 1..Len(list) /\ ~(k < at) /\ ~(k < at + Len(d))
        BY <2>3, <1>1
      <3> QED BY <3>1
    <2> QED BY <2>1, <2>2, <2>3, <1>1
  <1>4. new \in Seq(Instr)
    <2> HIDE DEF e, n
    <2> QED BY <1>1, <1>3
  <1>5. Len(new) = n
    <2> HIDE DEF e, n
    <2> QED BY <1>1, <1>4
  <1>6. \A k \in 1 .. at - 1 : new[k] = list[k]
    BY <1>1
  <1>7. \A k \in 1 .. Len(d) : new[at + k - 1] = d[k]
    <2> SUFFICES ASSUME NEW k \in 1..Len(d) PROVE new[at + k - 1] = d[k]
      OBVIOUS
    <2>1. /\ at + k - 1 \in 1..n /\ ~(at + k - 1 < at)
          /\ at + k - 1 < at + Len(d) /\ (at + k - 1) - at + 1 = k
      BY <1>1
    <2> QED BY <2>1
  <1>8. \A k \in at .. Len(list) : new[k + Len(d)] = list[k]
    <2> SUFFICES ASSUME NEW k \in at .. Len(list)
                 PROVE  new[k + Len(d)] = list[k]
      OBVIOUS
    <2>1. /\ k + Len(d) \in 1..n /\ ~(k + Len(d) < at)
          /\ ~(k + Len(d) < at + Len(d)) /\ (k + Len(d)) - Len(d) = k
      BY <1>1
    <2> QED BY <2>1
  <1> HIDE DEF new
  <1> QED BY <1>2, <1>4, <1>5, <1>6, <1>7, <1>8

\* The directed streams of a state: what DirectedAssumption says of each.
LEMMA StreamShape ==
    ASSUME directed \in DirectedChoices, NEW s \in 1..Len(directed)
    PROVE  /\ Len(directed) \in Nat
           /\ directed[s] \in Seq(Instr)
           /\ Len(directed[s]) \in Nat
           /\ Len(directed[s]) > 0
           /\ \A k \in 1..Len(directed[s]) :
                 /\ directed[s][k].stream = s
                 /\ directed[s][k].pos = k
                 /\ directed[s][k].atomic
                 /\ ~directed[s][k].numeric
  BY DirectedAssumption DEF DirectedStream

\* The fields of a new instruction: a main one, without a target.
LEMMA NewInstrFields ==
    ASSUME NEW s \in Nat, NEW k \in Nat, NEW b \in BOOLEAN
    PROVE  LET x == NewInstr(s, k, b) IN
           /\ x \in Instr /\ x.branch = b
           /\ x.stream = s /\ x.pos = k /\ ~x.atomic /\ ~x.numeric
           /\ ~x.assigned /\ x.has_label
  BY DEF NewInstr, Instr, None

\* An instruction that gets a number: what changes and what does not.
LEMMA NumberedFields ==
    ASSUME NEW x \in Instr, NEW n \in Nat
    PROVE  LET y == Numbered(x, n) IN
           /\ y \in Instr
           /\ y.idx = n /\ y.label = n /\ y.numeric
           /\ y.stream = x.stream /\ y.pos = x.pos /\ y.atomic = x.atomic
           /\ y.branch = x.branch /\ y.assigned = x.assigned
           /\ y.has_label = x.has_label /\ y.imm = x.imm
  BY DEF Numbered, Instr

\* An instruction that gets its idx only.
LEMMA IndexedFields ==
    ASSUME NEW x \in Instr, NEW n \in Nat
    PROVE  LET y == [x EXCEPT !.idx = n] IN
           /\ y \in Instr
           /\ y.idx = n /\ y.label = x.label /\ y.numeric = x.numeric
           /\ y.stream = x.stream /\ y.pos = x.pos /\ y.atomic = x.atomic
           /\ y.branch = x.branch /\ y.assigned = x.assigned
           /\ y.has_label = x.has_label /\ y.imm = x.imm
  BY DEF Instr

\* A branch that gets its target.
LEMMA TargetedFields ==
    ASSUME NEW x \in Instr, NEW t \in Nat \cup {NoLabel}
    PROVE  LET y == [x EXCEPT !.imm = t, !.back = FALSE, !.assigned = TRUE] IN
           /\ y \in Instr
           /\ y.imm = t /\ ~y.back /\ y.assigned /\ y.jump = x.jump
           /\ y.idx = x.idx /\ y.label = x.label /\ y.numeric = x.numeric
           /\ y.stream = x.stream /\ y.pos = x.pos /\ y.atomic = x.atomic
           /\ y.branch = x.branch /\ y.has_label = x.has_label
  BY DEF Instr

\* The removal of an unused label changes has_label and nothing else, and
\* spares the labels that are targets.
LEMMA KeptFields ==
    ASSUME NEW x \in Instr, NEW targets
    PROVE  LET y == KeepIfTarget(x, targets) IN
           /\ y \in Instr
           /\ y.has_label <=> /\ x.has_label
                              /\ x.numeric => x.label \in targets
           /\ y.idx = x.idx /\ y.label = x.label /\ y.numeric = x.numeric
           /\ y.stream = x.stream /\ y.pos = x.pos /\ y.atomic = x.atomic
           /\ y.branch = x.branch /\ y.assigned = x.assigned
           /\ y.imm = x.imm /\ y.back = x.back /\ y.jump = x.jump
  BY DEF KeepIfTarget, Instr

\* Replacing the instruction at position p.
LEMMA ReplaceOne ==
    ASSUME NEW list \in Seq(Instr), NEW p \in 1..Len(list), NEW y \in Instr
    PROVE  LET new == [list EXCEPT ![p] = y] IN
           /\ new \in Seq(Instr)
           /\ Len(new) = Len(list)
           /\ new[p] = y
           /\ \A q \in 1..Len(list) : q # p => new[q] = list[q]
  OBVIOUS

\* What the loops leave alone decides which branches the post-process resolves.
LEMMA ResolvesKept ==
    ASSUME UNCHANGED directed, Len(instr_list') = Len(instr_list),
           \A q \in 1..Len(instr_list) :
              /\ instr_list'[q].stream = instr_list[q].stream
              /\ instr_list'[q].pos = instr_list[q].pos
              /\ instr_list'[q].atomic = instr_list[q].atomic
              /\ instr_list'[q].branch = instr_list[q].branch
    PROVE  /\ NoMain' <=> NoMain
           /\ \A q \in 1..Len(instr_list) : /\ Main(q)' <=> Main(q)
                                            /\ Original(q)' = Original(q)
                                            /\ Resolves(q)' <=> Resolves(q)
  BY DEF NoMain, Main, Original, Resolves

\* The invariant holds before anything is generated.
LEMMA InvInit == Init => IInv
  <1> SUFFICES ASSUME Init PROVE IInv
    OBVIOUS
  <1> USE DEF Init
  <1>1. TypeOK
    BY ConstantAssumption, DirectedAssumption DEF TypeOK, Phases
  <1>2. instr_list = <<>> /\ Len(instr_list) = 0
    OBVIOUS
  <1>3. Progress /\ Shape /\ EndsInMain
    BY <1>2 DEF Progress, Shape, EndsInMain, Main
  <1>4. StreamsIntact /\ LabelsCount /\ TargetsKept /\ FatalOnlyWithoutMain
    BY <1>2 DEF StreamsIntact, LabelsCount, TargetsKept, FatalOnlyWithoutMain
  <1> QED BY <1>1, <1>3, <1>4 DEF IInv

\* The random main stream is all main instructions, the last no branch.
LEMMA InvGenMainStream == IInv /\ GenMainStream => IInv'
  <1> SUFFICES ASSUME IInv, GenMainStream PROVE IInv'
    OBVIOUS
  <1> USE DEF IInv
  <1>1. PICK isBranch \in [1..InstrCnt -> BOOLEAN], n \in 0..InstrCnt :
          /\ n > 0 => ~isBranch[n]
          /\ instr_list' = [k \in 1..n |-> NewInstr(0, k, isBranch[k])]
    BY DEF GenMainStream
  <1>2. n \in Nat /\ InstrCnt \in Nat
    BY ConstantAssumption
  <1>3. \A k \in 1..n :
          LET x == NewInstr(0, k, isBranch[k]) IN
          /\ x \in Instr
          /\ x.stream = 0 /\ ~x.atomic /\ ~x.numeric /\ ~x.assigned
          /\ x.has_label /\ x.branch = isBranch[k]
    BY <1>2, NewInstrFields
  <1>4. instr_list' \in Seq(Instr) /\ Len(instr_list') = n
    <2> DEFINE e(k) == NewInstr(0, k, isBranch[k])
    <2>1. instr_list' = [k \in 1..n |-> e(k)] /\ \A k \in 1..n : e(k) \in Instr
      BY <1>1, <1>3
    <2> HIDE DEF e
    <2> QED BY <2>1, <1>2
  <1>5. \A p \in 1..n :
          /\ ~instr_list'[p].atomic /\ instr_list'[p].stream = 0
          /\ ~instr_list'[p].numeric /\ ~instr_list'[p].assigned
          /\ instr_list'[p].has_label
          /\ instr_list'[p].branch = isBranch[p]
    BY <1>1, <1>3
  <1>6. /\ phase = "gen" /\ phase' = "insert" /\ inserted = 0 /\ i = 1 /\ j = 1
        /\ label_idx = 0 /\ branch_target = {}
        /\ UNCHANGED <<directed, inserted, label_idx, i, j,
                       branch_idx, branch_cnt, branch_target>>
    BY DEF GenMainStream, Progress
  <1>7. TypeOK'
    BY <1>2, <1>4, <1>6 DEF TypeOK, Phases
  <1>8a. Shape'
    BY <1>2, <1>4, <1>5, <1>6 DEF Shape, Main
  <1>8b. EndsInMain'
    <2>1. CASE n = 0
      BY <2>1, <1>4 DEF EndsInMain
    <2>2. CASE n > 0
      <3>1. n \in 1..n /\ ~isBranch[n]
        BY <2>2, <1>1, <1>2
      <3> QED BY <3>1, <1>4, <1>5 DEF EndsInMain, Main
    <2> QED BY <2>1, <2>2, <1>2
  <1>9. Progress'
    BY <1>6 DEF Progress
  <1>10. StreamsIntact' /\ LabelsCount' /\ TargetsKept' /\ FatalOnlyWithoutMain'
    BY <1>6 DEF StreamsIntact, LabelsCount, TargetsKept, FatalOnlyWithoutMain
  <1> QED BY <1>7, <1>8a, <1>8b, <1>9, <1>10

\* The step puts "d" in front of position "at" of the list of length m.
Placed(m, d, at) ==
    /\ at > 0
    /\ instr_list' \in Seq(Instr)
    /\ Len(instr_list') = m + Len(d)
    /\ \A k \in 1 .. at - 1 : instr_list'[k] = instr_list[k]
    /\ \A k \in 1 .. Len(d) : instr_list'[at + k - 1] = d[k]
    /\ \A k \in at .. m : instr_list'[k + Len(d)] = instr_list[k]
    /\ \/ at = 1 /\ m = 0
       \/ at <= m /\ Main(at)

\* An insertion is in front of a main instruction, or it makes the list.
LEMMA InsertPlace ==
    IInv /\ InsertDirected =>
        \E at \in Nat : Placed(Len(instr_list), directed[inserted + 1], at)
  <1> SUFFICES ASSUME IInv, InsertDirected
               PROVE  \E at \in Nat :
                         Placed(Len(instr_list), directed[inserted + 1], at)
    OBVIOUS
  <1> USE DEF IInv
  <1> DEFINE s == inserted + 1
             d == directed[s]
             m == Len(instr_list)
             PlacedAt(at) == Placed(m, d, at)
  <1>2. /\ inserted \in Nat /\ s \in 1..Len(directed) /\ s \in Nat /\ s > 0
        /\ directed \in DirectedChoices /\ Len(directed) \in Nat
        /\ instr_list \in Seq(Instr) /\ m \in Nat
    BY DirectedAssumption DEF InsertDirected, TypeOK
  <1>3. /\ d \in Seq(Instr) /\ Len(d) \in Nat /\ Len(d) > 0
    BY <1>2, StreamShape
  <1>4. \E at \in Nat : PlacedAt(at)
    <2>1. CASE instr_list = <<>> /\ instr_list' = d
      <3>1. m = 0
        BY <2>1
      <3>2. PlacedAt(1)
        <4>1. instr_list' = d /\ Len(instr_list') = m + Len(d)
          BY <2>1, <3>1, <1>3
        <4>2. \A k \in 1 .. Len(d) : instr_list'[1 + k - 1] = d[k]
          <5> SUFFICES ASSUME NEW k \in 1..Len(d)
                       PROVE  instr_list'[1 + k - 1] = d[k]
            OBVIOUS
          <5>1. 1 + k - 1 = k
            BY <1>3
          <5> QED BY <5>1, <4>1
        <4> HIDE DEF s, d, m
        <4>3. \A k \in 1 .. 1 - 1 : instr_list'[k] = instr_list[k]
          OBVIOUS
        <4>4. \A k \in 1 .. m : instr_list'[k + Len(d)] = instr_list[k]
          BY <3>1
        <4> QED BY <3>1, <4>1, <4>2, <4>3, <4>4, <1>3 DEF Placed
      <3> QED BY <3>2
    <2>2. ASSUME NEW at \in 1..m, ~instr_list[at].atomic,
                 instr_list' = InsertBefore(instr_list, at, d)
          PROVE  \E a \in Nat : PlacedAt(a)
      <3>1. at \in Nat /\ at > 0 /\ at <= m /\ Main(at)
        BY <2>2, <1>2 DEF Main
      <3>2. PlacedAt(at)
        <4> DEFINE new == InsertBefore(instr_list, at, d)
        <4> HIDE DEF s, d
        <4>1. /\ new \in Seq(Instr)
              /\ Len(new) = Len(instr_list) + Len(d)
              /\ \A k \in 1 .. at - 1 : new[k] = instr_list[k]
              /\ \A k \in 1 .. Len(d) : new[at + k - 1] = d[k]
              /\ \A k \in at .. Len(instr_list) :
                    new[k + Len(d)] = instr_list[k]
          BY <1>2, <1>3, InsertBeforeShape
        <4>2. instr_list' = new
          BY <2>2
        <4> HIDE DEF new
        <4> QED BY <3>1, <4>1, <4>2 DEF Placed
      <3> QED BY <3>1, <3>2
    <2>3. \/ instr_list = <<>> /\ instr_list' = d
          \/ \E at \in 1..m : /\ ~instr_list[at].atomic
                              /\ instr_list' = InsertBefore(instr_list, at, d)
      BY DEF InsertDirected
    <2> HIDE DEF PlacedAt, s, d, m
    <2> QED BY <2>1, <2>2, <2>3
  <1> QED BY <1>4

\* Where a position of the longer list comes from.
LEMMA SplitAt ==
    ASSUME NEW m \in Nat, NEW len \in Nat, NEW at \in Nat,
           at > 0, at <= m + 1, NEW p \in 1 .. m + len
    PROVE  \/ p \in 1 .. at - 1
           \/ \E k \in 1..len : p = at + k - 1
           \/ \E k \in at..m : p = k + len
  <1>1. CASE p < at
    BY <1>1
  <1>2. CASE p >= at /\ p < at + len
    <2>1. p - at + 1 \in 1..len /\ p = at + (p - at + 1) - 1
      BY <1>2
    <2> QED BY <2>1
  <1>3. CASE p >= at + len
    <2>1. p - len \in at..m /\ p = (p - len) + len
      BY <1>3
    <2> QED BY <2>1
  <1> QED BY <1>1, <1>2, <1>3

\* An instruction of one of the first n directed streams, without a target but
\* the one of its stream.
OfStream(x, n) ==
    /\ x.stream \in 1..n
    /\ x.pos \in 1..Len(directed[x.stream])
    /\ x.assigned = directed[x.stream][x.pos].assigned

\* An insertion keeps every stream in one piece: the instruction it is put
\* in front of is a main one, so no stream stands across that place.
LEMMA InvInsertDirected == IInv /\ InsertDirected => IInv'
  <1> SUFFICES ASSUME IInv, InsertDirected PROVE IInv'
    OBVIOUS
  <1> USE DEF IInv
  <1> DEFINE s == inserted + 1
             d == directed[s]
             m == Len(instr_list)
  <1>1. /\ phase = "insert" /\ phase' = "insert" /\ inserted < Len(directed)
        /\ inserted' = s /\ i = 1 /\ j = 1 /\ label_idx = 0
        /\ branch_target = {}
        /\ UNCHANGED <<directed, label_idx, i, j,
                       branch_idx, branch_cnt, branch_target>>
    BY DEF InsertDirected, Progress
  <1>2. /\ inserted \in Nat /\ s \in 1..Len(directed) /\ s \in Nat /\ s > 0
        /\ directed \in DirectedChoices /\ Len(directed) \in Nat
        /\ instr_list \in Seq(Instr) /\ m \in Nat
    BY <1>1, DirectedAssumption DEF TypeOK
  <1>3. /\ d \in Seq(Instr) /\ Len(d) \in Nat /\ Len(d) > 0
        /\ \A k \in 1..Len(d) :
              /\ d[k].stream = s /\ d[k].pos = k /\ d[k].atomic
              /\ ~d[k].numeric
    BY <1>2, StreamShape
  <1>5. PICK at \in Nat : Placed(m, d, at)
    BY InsertPlace
  <1> USE DEF Placed
  <1> HIDE DEF s, d, m
  <1>6. at > 0 /\ at <= m + 1
    BY <1>2, <1>5
  \* every position of the new list is an old one or one of the stream's
  <1>7. \A p \in 1 .. m + Len(d) :
          \/ p \in 1 .. at - 1
          \/ \E k \in 1..Len(d) : p = at + k - 1
          \/ \E k \in at..m : p = k + Len(d)
    BY <1>2, <1>3, <1>6, SplitAt
  <1>8. \A p \in 1..m :
          /\ Main(p) <=> instr_list[p].stream = 0
          /\ ~instr_list[p].numeric
          /\ Main(p) => instr_list[p].has_label /\ ~instr_list[p].assigned
          /\ ~Main(p) => OfStream(instr_list[p], inserted)
    BY <1>1, <1>2 DEF Shape, Original, OfStream, m
  <1>9. TypeOK'
    <2>1. m + Len(d) \in Nat
      BY <1>2, <1>3
    <2> QED BY <1>1, <1>2, <1>5, <2>1 DEF TypeOK
  <1>10. Progress'
    BY <1>1 DEF Progress
  <1>11. Shape'
    <2> SUFFICES ASSUME NEW p \in 1 .. m + Len(d)
                 PROVE  /\ ~instr_list'[p].atomic <=> instr_list'[p].stream = 0
                        /\ ~instr_list'[p].numeric
                        /\ ~instr_list'[p].atomic =>
                              instr_list'[p].has_label /\ ~instr_list'[p].assigned
                        /\ instr_list'[p].atomic => OfStream(instr_list'[p], s)
      BY <1>1, <1>5 DEF Shape, Main, Original, OfStream
    <2>0. \A x : OfStream(x, inserted) => OfStream(x, s)
      BY <1>2 DEF OfStream, s
    <2>1. CASE p \in 1 .. at - 1
      <3>1. p \in 1..m /\ instr_list'[p] = instr_list[p]
        BY <2>1, <1>2, <1>5, <1>6
      <3> QED BY <3>1, <2>0, <1>8 DEF Main
    <2>2. ASSUME NEW k \in 1..Len(d), p = at + k - 1
          PROVE  instr_list'[p] = d[k]
      BY <2>2, <1>5
    <2>3. ASSUME NEW k \in at..m, p = k + Len(d)
          PROVE  k \in 1..m /\ instr_list'[p] = instr_list[k]
      BY <2>3, <1>2, <1>5
    <2>4. CASE \E k \in 1..Len(d) : p = at + k - 1
      BY <2>2, <2>4, <1>2, <1>3 DEF OfStream, d
    <2>5. CASE \E k \in at..m : p = k + Len(d)
      BY <2>0, <2>3, <2>5, <1>8 DEF Main
    <2> QED BY <2>1, <2>4, <2>5, <1>7
  <1>12. EndsInMain'
    <2>1. CASE at = 1 /\ m = 0
      <3>1. \A p \in 1 .. m + Len(d) : instr_list'[p].atomic
        <4> SUFFICES ASSUME NEW p \in 1..Len(d) PROVE instr_list'[p].atomic
          BY <2>1, <1>3
        <4>1. instr_list'[at + p - 1] = d[p]
          BY <1>5
        <4>2. at + p - 1 = p
          BY <2>1, <1>3
        <4> QED BY <4>1, <4>2, <1>3
      <3> QED BY <3>1, <1>5 DEF EndsInMain, Main
    <2>2. CASE at <= m /\ Main(at)
      <3>1. m \in at..m /\ at \in 1..m
        BY <2>2, <1>2, <1>6
      <3>2. instr_list'[m + Len(d)] = instr_list[m]
        BY <3>1, <1>5
      <3>3. ~instr_list[m].atomic /\ ~instr_list[m].branch
        BY <2>2, <3>1 DEF EndsInMain, Main, m
      <3> QED BY <3>2, <3>3, <1>5 DEF EndsInMain, Main
    <2> QED BY <2>1, <2>2, <1>5
  <1>13. StreamsIntact'
    <2> SUFFICES ASSUME NEW t \in 1..s
                 PROVE  \E a \in 0 .. m + Len(d) :
                           /\ a + Len(directed[t]) <= m + Len(d)
                           /\ \A k \in 1..Len(directed[t]) :
                                 /\ instr_list'[a + k].stream = t
                                 /\ instr_list'[a + k].pos = k
      BY <1>1, <1>5 DEF StreamsIntact, Holds
    <2>1. CASE t = s
      <3>1. at - 1 \in 0 .. m + Len(d) /\ at - 1 + Len(d) <= m + Len(d)
        BY <1>2, <1>3, <1>6
      <3>2. ASSUME NEW k \in 1..Len(d)
            PROVE  /\ instr_list'[(at - 1) + k].stream = s
                   /\ instr_list'[(at - 1) + k].pos = k
        <4>1. (at - 1) + k = at + k - 1
          BY <1>3
        <4> QED BY <4>1, <1>3, <1>5
      <3> QED BY <2>1, <3>1, <3>2 DEF d
    <2>2. CASE t # s
      <3> DEFINE L == Len(directed[t])
      <3>1. t \in 1..inserted /\ t \in 1..Len(directed) /\ L \in Nat /\ t > 0
        BY <2>2, <1>1, <1>2, StreamShape DEF s
      <3>2. PICK a \in 0..m : /\ a + L <= m
                              /\ \A k \in 1..L : Holds(a + k, t, k)
        BY <3>1 DEF StreamsIntact, m
      <3> HIDE DEF L
      <3>3. ASSUME NEW k \in 1..L PROVE a + k # at
        <4>0. instr_list[a + k].stream = t
          BY <3>2 DEF Holds
        <4>1. a + k \in 1..m
          <5>1. a \in Nat /\ k \in Nat /\ 1 <= k /\ k <= L /\ a + L <= m
            BY <3>1, <3>2, <3>3, <1>2
          <5> QED BY <5>1, <3>1, <1>2
        <4>2. ~Main(a + k)
          BY <4>0, <4>1, <3>1, <1>8
        <4>3. (at = 1 /\ m = 0) \/ Main(at)
          BY <1>5
        <4> QED BY <4>1, <4>2, <4>3
      <3>4. CASE at <= a
        <4>1. a + Len(d) \in 0 .. m + Len(d) /\ a + Len(d) + L <= m + Len(d)
          BY <1>2, <1>3, <3>1, <3>2
        <4>2. ASSUME NEW k \in 1..L
              PROVE  /\ instr_list'[a + Len(d) + k].stream = t
                     /\ instr_list'[a + Len(d) + k].pos = k
          <5>1. a + k \in at..m /\ a + Len(d) + k = (a + k) + Len(d)
            BY <3>4, <1>2, <1>3, <3>1, <3>2
          <5> QED BY <5>1, <1>5, <3>2 DEF Holds
        <4> QED BY <4>1, <4>2 DEF L
      <3>5. CASE at > a + L
        <4>1. a \in 0 .. m + Len(d) /\ a + L <= m + Len(d)
          BY <1>2, <1>3, <3>1, <3>2
        <4>2. ASSUME NEW k \in 1..L
              PROVE  instr_list'[a + k].stream = t /\ instr_list'[a + k].pos = k
          <5>1. a + k \in 1 .. at - 1
            BY <3>5, <1>2, <3>1, <3>2
          <5> QED BY <5>1, <1>5, <3>2 DEF Holds
        <4> QED BY <4>1, <4>2 DEF L
      <3>6. at <= a \/ at > a + L
        <4> SUFFICES ASSUME at > a, at <= a + L PROVE FALSE
          BY <1>2, <3>1
        <4>1. at - a \in 1..L /\ a + (at - a) = at
          BY <1>2, <3>1, <3>2
        <4> QED BY <4>1, <3>3
      <3> QED BY <3>4, <3>5, <3>6
    <2> QED BY <2>1, <2>2
  <1>14. LabelsCount' /\ TargetsKept' /\ FatalOnlyWithoutMain'
    BY <1>1 DEF LabelsCount, TargetsKept, FatalOnlyWithoutMain
  <1> QED BY <1>9, <1>10, <1>11, <1>12, <1>13, <1>14

\* The steps that change the phase and leave the list alone.
LEMMA InvPhaseSteps ==
    IInv /\ (InsertFails \/ InsertDone \/ NumberDone \/ PickBranchIdx \/ EmptyProgram)
        => IInv'
  <1> SUFFICES ASSUME IInv,
                      InsertFails \/ InsertDone \/ NumberDone \/ PickBranchIdx
                         \/ EmptyProgram
               PROVE  IInv'
    OBVIOUS
  <1> USE DEF IInv
  <1>1. UNCHANGED <<directed, inserted, instr_list, label_idx, i, j,
                    branch_cnt, branch_target>>
    BY DEF InsertFails, InsertDone, NumberDone, PickBranchIdx, EmptyProgram
  <1>2. /\ branch_idx' \in [0 .. BranchIdxLen - 1 -> 1..MaxBranchStep]
        /\ phase # "done" /\ phase' \in {"fatal", "number", "pick", "walk"}
    BY DEF InsertFails, InsertDone, NumberDone, PickBranchIdx, EmptyProgram, TypeOK
  <1>3. TypeOK'
    BY <1>1, <1>2 DEF TypeOK, Phases
  <1>4. Progress'
    BY <1>1 DEF InsertFails, InsertDone, NumberDone, PickBranchIdx, EmptyProgram,
                Progress, TypeOK
  <1>5. Shape' /\ EndsInMain'
    <2>1. Shape /\ EndsInMain
      OBVIOUS
    <2> HIDE DEF IInv
    <2> QED BY <2>1, <1>1 DEF Shape, EndsInMain, Main, Original
  <1>6. StreamsIntact'
    <2>1. StreamsIntact
      OBVIOUS
    <2> HIDE DEF IInv
    <2> QED BY <2>1, <1>1 DEF StreamsIntact, Holds
  <1>7. LabelsCount' /\ TargetsKept'
    BY <1>1, <1>2 DEF LabelsCount, TargetsKept, TargetAhead, Resolves, Original,
                      NoMain, Main
  <1>8. FatalOnlyWithoutMain'
    BY <1>1 DEF InsertFails, InsertDone, NumberDone, PickBranchIdx, EmptyProgram,
                FatalOnlyWithoutMain, Shape, Main
  <1> QED BY <1>3, <1>4, <1>5, <1>6, <1>7, <1>8

\* The labelling loop: one more main instruction, one more label.
LEMMA InvNumberInstr == IInv /\ NumberInstr => IInv'
  <1> SUFFICES ASSUME IInv, NumberInstr PROVE IInv'
    OBVIOUS
  <1> USE DEF IInv
  <1> DEFINE m == Len(instr_list)
             x == instr_list[i]
             y == instr_list'[i]
  <1>1. /\ phase = "number" /\ phase' = "number" /\ j = 1
        /\ i \in 1..m /\ i' = i + 1
        /\ branch_target = {}
        /\ UNCHANGED <<phase, directed, inserted, j,
                       branch_idx, branch_cnt, branch_target>>
    BY DEF NumberInstr, TypeOK, Progress
  <1>2. /\ instr_list \in Seq(Instr) /\ m \in Nat /\ label_idx \in Nat
        /\ x \in Instr /\ i \in Nat
    BY <1>1 DEF TypeOK
  <1>3. Main(i) <=> GetsNumber(x)
    BY <1>1, <1>2 DEF Shape, Main, GetsNumber
  <1>4. /\ instr_list' \in Seq(Instr)
        /\ Len(instr_list') = m
        /\ \A q \in 1..m : q # i => instr_list'[q] = instr_list[q]
        /\ y.idx = label_idx
        /\ y.stream = x.stream /\ y.pos = x.pos /\ y.atomic = x.atomic
        /\ y.branch = x.branch /\ y.assigned = x.assigned
        /\ y.has_label = x.has_label
        /\ Main(i) => /\ label_idx' = label_idx + 1
                      /\ y.numeric /\ y.label = label_idx
        /\ ~Main(i) => label_idx' = label_idx /\ y.numeric = x.numeric
    <2>1. CASE Main(i)
      <3> DEFINE z == Numbered(x, label_idx)
      <3>1. /\ instr_list' = [instr_list EXCEPT ![i] = z]
            /\ label_idx' = label_idx + 1
        BY <2>1, <1>3 DEF NumberInstr
      <3>2. /\ z \in Instr
            /\ z.idx = label_idx /\ z.label = label_idx /\ z.numeric
            /\ z.stream = x.stream /\ z.pos = x.pos /\ z.atomic = x.atomic
            /\ z.branch = x.branch /\ z.assigned = x.assigned
            /\ z.has_label = x.has_label /\ z.imm = x.imm
        BY <1>2, NumberedFields
      <3> HIDE DEF z
      <3> QED BY <2>1, <3>1, <3>2, <1>1, <1>2, ReplaceOne
    <2>2. CASE ~Main(i)
      <3> DEFINE z == [x EXCEPT !.idx = label_idx]
      <3>1. /\ instr_list' = [instr_list EXCEPT ![i] = z]
            /\ label_idx' = label_idx
        BY <2>2, <1>3 DEF NumberInstr
      <3>2. /\ z \in Instr
            /\ z.idx = label_idx /\ z.label = x.label /\ z.numeric = x.numeric
            /\ z.stream = x.stream /\ z.pos = x.pos /\ z.atomic = x.atomic
            /\ z.branch = x.branch /\ z.assigned = x.assigned
            /\ z.has_label = x.has_label /\ z.imm = x.imm
        BY <1>2, IndexedFields
      <3> HIDE DEF z
      <3> QED BY <2>2, <3>1, <3>2, <1>1, <1>2, ReplaceOne
    <2> QED BY <2>1, <2>2
  <1>5. \A q \in 1..m :
          /\ Main(q)' <=> Main(q)
          /\ instr_list'[q].stream = instr_list[q].stream
          /\ instr_list'[q].pos = instr_list[q].pos
          /\ instr_list'[q].branch = instr_list[q].branch
          /\ instr_list'[q].assigned = instr_list[q].assigned
          /\ instr_list'[q].has_label = instr_list[q].has_label
    BY <1>4 DEF Main
  <1> HIDE DEF m, x, y
  <1>6. TypeOK'
    BY <1>1, <1>2, <1>4 DEF TypeOK, m
  <1>7. Progress'
    BY <1>1, <1>2, <1>4 DEF Progress, m
  <1>8. Shape'
    <2>0. \A q \in 1..m : instr_list[q].numeric => Main(q) /\ q < i
      BY DEF Shape, m
    <2>1. \A q \in 1..m : instr_list'[q].numeric => Main(q) /\ q < i + 1
      <3> SUFFICES ASSUME NEW q \in 1..m, instr_list'[q].numeric
                   PROVE  Main(q) /\ q < i + 1
        OBVIOUS
      <3>1. CASE q = i
        BY <3>1, <2>0, <1>1, <1>2, <1>4 DEF x, y
      <3>2. CASE q # i
        BY <3>2, <2>0, <1>1, <1>2, <1>4
      <3> QED BY <3>1, <3>2
    <2> QED BY <2>1, <1>1, <1>4, <1>5 DEF Shape, Original, m
  <1>9. EndsInMain'
    <2>1. m \in 1..m \/ m = 0
      BY <1>2
    <2> QED BY <2>1, <1>4, <1>5 DEF EndsInMain, m
  <1>10. StreamsIntact'
    <2> SUFFICES ASSUME NEW t \in 1..inserted
                 PROVE  \E at \in 0..m :
                           /\ at + Len(directed[t]) <= m
                           /\ \A k \in 1..Len(directed[t]) :
                                 Holds(at + k, t, k)'
      BY <1>1, <1>4 DEF StreamsIntact
    <2>1. PICK at \in 0..m :
             /\ at + Len(directed[t]) <= m
             /\ \A k \in 1..Len(directed[t]) : Holds(at + k, t, k)
      BY DEF StreamsIntact, m
    <2>2. Len(directed[t]) \in Nat
      BY StreamShape DEF TypeOK
    <2>3. \A k \in 1..Len(directed[t]) : at + k \in 1..m
      BY <2>1, <2>2, <1>2
    <2>4. \A k \in 1..Len(directed[t]) : Holds(at + k, t, k)'
      <3> SUFFICES ASSUME NEW k \in 1..Len(directed[t]) PROVE Holds(at + k, t, k)'
        OBVIOUS
      <3>1. Holds(at + k, t, k) /\ at + k \in 1..m
        BY <2>1, <2>3
      <3> QED BY <3>1, <1>5 DEF Holds
    <2> QED BY <2>1, <2>4
  <1>11. LabelsCount'
    <2>1. i' - 1 = i /\ label_idx' \in {label_idx, label_idx + 1}
      BY <1>1, <1>2, <1>4
    <2>2. \A p \in 1..i :
          /\ p <= m
          /\ instr_list'[p].idx <= label_idx'
          /\ Main(p)' => /\ instr_list'[p].idx < label_idx'
                         /\ instr_list'[p].numeric
                         /\ instr_list'[p].label = instr_list'[p].idx
      <3> SUFFICES ASSUME NEW p \in 1..i PROVE <2>2!(p)
        OBVIOUS
      <3>1. CASE p = i
        BY <3>1, <1>1, <1>2, <1>4, <1>5 DEF y
      <3>2. CASE p # i
        <4>1. p \in 1 .. i - 1 /\ p \in 1..m /\ instr_list'[p] = instr_list[p]
          BY <3>2, <1>1, <1>2, <1>4
        <4>2. instr_list[p].idx \in Nat
          <5>1. instr_list[p] \in Instr
            BY <4>1, <1>2 DEF m
          <5> QED BY <5>1 DEF Instr
        <4> QED BY <4>1, <4>2, <2>1, <1>1, <1>2, <1>5 DEF LabelsCount, m
      <3> QED BY <3>1, <3>2
    <2>3. ASSUME NEW p \in 1..i, NEW q \in 1..i, p < q
          PROVE  /\ instr_list'[p].idx <= instr_list'[q].idx
                 /\ Main(p)' => instr_list'[p].idx < instr_list'[q].idx
      <3>1. p \in 1 .. i - 1 /\ p \in 1..m /\ instr_list'[p] = instr_list[p]
        BY <2>3, <1>1, <1>2, <1>4
      <3>2. CASE q = i
        BY <3>1, <3>2, <1>4, <1>5 DEF LabelsCount, y
      <3>3. CASE q # i
        <4>1. q \in 1 .. i - 1 /\ q \in 1..m /\ instr_list'[q] = instr_list[q]
          BY <3>3, <1>1, <1>2, <1>4
        <4> QED BY <3>1, <4>1, <2>3, <1>5 DEF LabelsCount
      <3> QED BY <3>2, <3>3
    <2>4. ASSUME NEW n \in 0 .. label_idx' - 1
          PROVE  \E p \in 1..i : Main(p)' /\ instr_list'[p].idx = n
      <3>1. CASE n \in 0 .. label_idx - 1
        <4>1. PICK p \in 1 .. i - 1 : Main(p) /\ instr_list[p].idx = n
          BY <3>1 DEF LabelsCount
        <4>2. p \in 1..m /\ p \in 1..i /\ instr_list'[p] = instr_list[p]
          BY <4>1, <1>1, <1>2, <1>4
        <4> QED BY <4>1, <4>2, <1>5
      <3>2. CASE n \notin 0 .. label_idx - 1
        <4>1. Main(i) /\ n = label_idx /\ i \in 1..i
          BY <3>2, <1>1, <1>2, <1>4
        <4> QED BY <4>1, <1>1, <1>4, <1>5 DEF y
      <3> QED BY <3>1, <3>2
    <2> QED BY <2>1, <2>2, <2>3, <2>4, <1>4 DEF LabelsCount
  <1>12. TargetsKept' /\ FatalOnlyWithoutMain'
    BY <1>1 DEF TargetsKept, FatalOnlyWithoutMain
  <1> QED BY <1>6, <1>7, <1>8, <1>9, <1>10, <1>11, <1>12

\* The fields of the instruction the branch loop leaves behind, and what
\* stays as it was: the part AssignBranch and PassInstr have in common.
LEMMA InvWalkFrame ==
    ASSUME IInv, phase = "walk", phase' = "walk", j <= Len(instr_list),
           j' = j + 1,
           UNCHANGED <<directed, inserted, label_idx, i>>,
           NEW y \in Instr,
           instr_list' = [instr_list EXCEPT ![j] = y],
           y.idx = instr_list[j].idx, y.label = instr_list[j].label,
           y.numeric = instr_list[j].numeric,
           y.stream = instr_list[j].stream, y.pos = instr_list[j].pos,
           y.atomic = instr_list[j].atomic, y.branch = instr_list[j].branch,
           branch_idx' \in [0 .. BranchIdxLen - 1 -> 1..MaxBranchStep],
           branch_cnt' \in 0 .. BranchIdxLen - 1,
           branch_target' \subseteq Nat \cup {NoLabel}
    PROVE  /\ TypeOK' /\ Progress' /\ Shape' /\ EndsInMain'
           /\ StreamsIntact' /\ LabelsCount' /\ FatalOnlyWithoutMain'
  <1> USE DEF IInv
  <1> DEFINE m == Len(instr_list)
  <1>1. /\ instr_list \in Seq(Instr) /\ m \in Nat /\ j \in 1..m /\ j \in Nat
        /\ i = m + 1 /\ i' - 1 = m /\ i - 1 = m
    BY DEF TypeOK, Progress
  <1>2. /\ instr_list' \in Seq(Instr)
        /\ Len(instr_list') = m
        /\ instr_list'[j] = y
        /\ \A q \in 1..m : q # j => instr_list'[q] = instr_list[q]
    BY <1>1, ReplaceOne
  <1>3. \A q \in 1..m :
          /\ Main(q)' <=> Main(q)
          /\ instr_list'[q].stream = instr_list[q].stream
          /\ instr_list'[q].pos = instr_list[q].pos
          /\ instr_list'[q].branch = instr_list[q].branch
          /\ instr_list'[q].idx = instr_list[q].idx
          /\ instr_list'[q].label = instr_list[q].label
          /\ instr_list'[q].numeric = instr_list[q].numeric
    BY <1>2 DEF Main
  <1> HIDE DEF m
  <1>4. TypeOK'
    BY <1>1, <1>2 DEF TypeOK, m
  <1>5. Progress'
    BY <1>1, <1>2 DEF Progress, m
  <1>6. Shape'
    <2>1. \A q \in 1..m : q >= j + 1 => q # j /\ q >= j
      BY <1>1
    <2> QED BY <2>1, <1>1, <1>2, <1>3 DEF Shape, Main, Original, m
  <1>7. EndsInMain'
    <2>1. m \in 1..m \/ m = 0
      BY <1>1
    <2> QED BY <2>1, <1>2, <1>3 DEF EndsInMain, m
  <1>8. StreamsIntact'
    <2> SUFFICES ASSUME NEW t \in 1..inserted
                 PROVE  \E at \in 0..m :
                           /\ at + Len(directed[t]) <= m
                           /\ \A k \in 1..Len(directed[t]) :
                                 Holds(at + k, t, k)'
      BY <1>2 DEF StreamsIntact
    <2>1. PICK at \in 0..m :
             /\ at + Len(directed[t]) <= m
             /\ \A k \in 1..Len(directed[t]) : Holds(at + k, t, k)
      BY DEF StreamsIntact, m
    <2>2. Len(directed[t]) \in Nat
      BY StreamShape DEF TypeOK
    <2>3. \A k \in 1..Len(directed[t]) : at + k \in 1..m
      BY <2>1, <2>2, <1>1
    <2>4. \A k \in 1..Len(directed[t]) : Holds(at + k, t, k)'
      <3> SUFFICES ASSUME NEW k \in 1..Len(directed[t]) PROVE Holds(at + k, t, k)'
        OBVIOUS
      <3>1. Holds(at + k, t, k) /\ at + k \in 1..m
        BY <2>1, <2>3
      <3> QED BY <3>1, <1>3 DEF Holds
    <2> QED BY <2>1, <2>4
  <1>9. LabelsCount'
    BY <1>1, <1>2, <1>3 DEF LabelsCount, m
  <1>10. FatalOnlyWithoutMain'
    BY DEF FatalOnlyWithoutMain
  <1> QED BY <1>4, <1>5, <1>6, <1>7, <1>8, <1>9, <1>10

\* Labels grow along the list: a main instruction's number is the number of
\* no instruction before it.
LEMMA NumbersGrow ==
    ASSUME IInv, phase \in {"walk", "done"},
           NEW p \in 1..Len(instr_list), NEW q \in 1..Len(instr_list), p < q
    PROVE  /\ instr_list[p].idx \in Nat /\ instr_list[q].idx \in Nat
           /\ instr_list[p].idx <= instr_list[q].idx
           /\ Main(p) => instr_list[p].idx < instr_list[q].idx
  <1>1. /\ instr_list \in Seq(Instr) /\ Len(instr_list) \in Nat
        /\ i - 1 = Len(instr_list)
    BY DEF IInv, TypeOK, Progress
  <1>2. instr_list[p] \in Instr /\ instr_list[q] \in Instr
    BY <1>1
  <1> QED BY <1>1, <1>2 DEF IInv, LabelsCount, Instr

\* The instruction the branch loop is at.
LEMMA AtWalk ==
    ASSUME IInv, phase = "walk", j <= Len(instr_list)
    PROVE  /\ instr_list \in Seq(Instr)
           /\ j \in 1..Len(instr_list) /\ j \in Nat /\ j + 1 - 1 = j
           /\ instr_list[j] \in Instr
           /\ instr_list[j].idx \in Nat
           /\ Main(j) => /\ instr_list[j].has_label
                         /\ ~instr_list[j].assigned
                         /\ instr_list[j].numeric
                         /\ instr_list[j].label = instr_list[j].idx
                         /\ instr_list[j].idx < label_idx
           /\ ~Main(j) => instr_list[j].assigned = Original(j).assigned
           /\ \A b \in 1 .. j - 1 : b \in 1..Len(instr_list) /\ b < j
  <1>1. /\ instr_list \in Seq(Instr) /\ Len(instr_list) \in Nat
        /\ j \in 1..Len(instr_list) /\ j \in Nat /\ i - 1 = Len(instr_list)
    BY DEF IInv, TypeOK, Progress
  <1>2. instr_list[j] \in Instr
    BY <1>1
  <1>3. instr_list[j].idx \in Nat
    BY <1>2 DEF Instr
  <1> QED BY <1>1, <1>2, <1>3 DEF IInv, Shape, LabelsCount

\* The branch loop at an instruction that needs no target.
LEMMA InvPassInstr == IInv /\ PassInstr => IInv'
  <1> SUFFICES ASSUME IInv, PassInstr PROVE IInv'
    OBVIOUS
  <1> DEFINE x == instr_list[j]
             y == KeepIfTarget(x, branch_target)
  <1>1. /\ phase = "walk" /\ phase' = "walk" /\ j <= Len(instr_list)
        /\ ~NeedsTarget(x)
        /\ instr_list' = [instr_list EXCEPT ![j] = y]
        /\ j' = j + 1
        /\ UNCHANGED <<directed, inserted, label_idx, i>>
        /\ UNCHANGED <<branch_idx, branch_cnt, branch_target>>
    BY DEF PassInstr
  <1>2. /\ x \in Instr /\ j \in 1..Len(instr_list) /\ j \in Nat
        /\ instr_list \in Seq(Instr)
    BY <1>1, AtWalk
  <1>3. /\ y \in Instr
        /\ y.has_label <=> /\ x.has_label
                           /\ x.numeric => x.label \in branch_target
        /\ y.idx = x.idx /\ y.label = x.label /\ y.numeric = x.numeric
        /\ y.stream = x.stream /\ y.pos = x.pos /\ y.atomic = x.atomic
        /\ y.branch = x.branch /\ y.assigned = x.assigned
        /\ y.imm = x.imm
    BY <1>2, KeptFields
  <1>4. ~Resolves(j)
    BY <1>1, AtWalk DEF NeedsTarget, Resolves
  <1>5. /\ branch_idx' \in [0 .. BranchIdxLen - 1 -> 1..MaxBranchStep]
        /\ branch_cnt' \in 0 .. BranchIdxLen - 1
        /\ branch_target' \subseteq Nat \cup {NoLabel}
    BY <1>1 DEF IInv, TypeOK
  <1> HIDE DEF y
  <1>6. /\ TypeOK' /\ Progress' /\ Shape' /\ EndsInMain'
        /\ StreamsIntact' /\ LabelsCount' /\ FatalOnlyWithoutMain'
    BY <1>1, <1>3, <1>5, InvWalkFrame
  <1>7. TargetsKept'
    <2>1. /\ Len(instr_list') = Len(instr_list) /\ instr_list'[j] = y
          /\ \A b \in 1 .. j - 1 : instr_list'[b] = instr_list[b]
      BY <1>1, <1>2, <1>3, ReplaceOne, AtWalk
    <2>2. Main(j) => (y.has_label <=> y.idx \in branch_target)
      BY <1>1, <1>3, AtWalk
    <2>0. /\ NoMain' <=> NoMain
          /\ \A q \in 1..Len(instr_list) : /\ Main(q)' <=> Main(q)
                                           /\ Resolves(q)' <=> Resolves(q)
      BY <1>1, <1>2, <1>3, ReplaceOne, ResolvesKept
    <2>3. \A b \in 1 .. j - 1 :
            /\ b <= Len(instr_list)
            /\ Resolves(b) => TargetAhead(b)
            /\ Main(b) /\ instr_list[b].idx \in branch_target =>
                  instr_list[b].has_label
            /\ Main(b) /\ instr_list[b].has_label =>
                  instr_list[b].idx \in branch_target
      BY <1>1 DEF IInv, TargetsKept
    <2>4. \A t \in branch_target :
            /\ t < label_idx
            /\ \E b \in 1 .. j - 1 : Resolves(b) /\ instr_list[b].imm = t
      BY DEF IInv, TargetsKept
    <2>5. j' - 1 = j /\ \A b \in 1..j : b = j \/ b \in 1 .. j - 1
      BY <1>1, <1>2
    <2>6. \A b \in 1 .. j - 1 : b \in 1..j
      BY <1>2
    <2>7. Main(j) <=> ~y.atomic
      BY <1>3 DEF Main
    <2>8. \A b \in 1..j : <2>3!(b)'
      <3> SUFFICES ASSUME NEW b \in 1..j PROVE <2>3!(b)'
        OBVIOUS
      <3>1. CASE b = j
        BY <3>1, <1>1, <1>2, <1>4, <2>0, <2>1, <2>2, <2>7 DEF Main
      <3>2. CASE b \in 1 .. j - 1
        <4>1. /\ b \in 1..Len(instr_list) /\ instr_list'[b] = instr_list[b]
              /\ <2>3!(b)
          BY <3>2, <1>1, <2>1, <2>3, AtWalk
        <4>2. TargetAhead(b)' <=> TargetAhead(b)
          BY <4>1, <2>0, <1>1 DEF TargetAhead
        <4> QED BY <4>1, <4>2, <2>0, <1>1
      <3> QED BY <3>1, <3>2, <2>5
    <2>9. \A t \in branch_target' :
            /\ t < label_idx'
            /\ \E b \in 1..j : (Resolves(b) /\ instr_list[b].imm = t)'
      BY <1>1, <2>0, <2>1, <2>4, <2>6, AtWalk
    <2> QED BY <1>1, <2>5, <2>8, <2>9 DEF TargetsKept
  <1> QED BY <1>6, <1>7 DEF IInv

\* The branch loop at a branch: its target is a label still ahead of it.
LEMMA InvAssignBranch == IInv /\ AssignBranch => IInv'
  <1> SUFFICES ASSUME IInv, AssignBranch PROVE IInv'
    OBVIOUS
  <1> DEFINE x == instr_list[j]
             m == Len(instr_list)
             step == branch_idx[branch_cnt]
             target == BranchTarget(x, step)
             targets == branch_target \cup {target}
             z == [x EXCEPT !.imm = target, !.back = FALSE, !.assigned = TRUE]
             y == KeepIfTarget(z, targets)
  <1>1. /\ phase = "walk" /\ phase' = "walk" /\ j <= m
        /\ NeedsTarget(x)
        /\ instr_list' = [instr_list EXCEPT ![j] = y]
        /\ j' = j + 1
        /\ UNCHANGED <<directed, inserted, label_idx, i>>
        /\ branch_target' = targets
    BY DEF AssignBranch
  <1>2. /\ x \in Instr /\ x.idx \in Nat /\ j \in 1..m /\ j \in Nat
        /\ instr_list \in Seq(Instr) /\ m \in Nat
    BY <1>1, AtWalk
  <1>3. /\ Resolves(j) /\ x.branch
        /\ Main(j) => x.has_label /\ x.numeric /\ x.label = x.idx
    BY <1>1, AtWalk DEF NeedsTarget, Resolves
  \* a main branch is not the last instruction, an atomic one not behind it
  <1>4. ~NoMain => m \in 1..m /\ Main(m) /\ j < m
    <2> SUFFICES ASSUME ~NoMain PROVE m \in 1..m /\ Main(m) /\ j < m
      OBVIOUS
    <2>1. m \in 1..m /\ Main(m) /\ ~instr_list[m].branch
      BY <1>2 DEF IInv, EndsInMain, NoMain
    <2> QED BY <2>1, <1>2, <1>3
  <1>5. step \in Nat /\ step >= 1 /\ label_idx \in Nat
    BY ConstantAssumption DEF IInv, TypeOK
  <1>6a. ASSUME NoMain
         PROVE  target = NoLabel /\ target < label_idx /\ ~Main(j)
    <2>1. i - 1 = m
      BY <1>1, <1>2 DEF IInv, Progress
    <2>2. \A n \in 0 .. label_idx - 1 : \E p \in 1..m : Main(p)
      BY <2>1 DEF IInv, LabelsCount
    <2>3. \A p \in 1..m : ~Main(p)
      BY <1>6a DEF NoMain
    <2>4. 0 \notin 0 .. label_idx - 1
      BY <2>2, <2>3
    <2>5. label_idx = 0
      BY <2>4, <1>5
    <2>6. target = NoLabel
      BY <2>5, <1>2, <1>5 DEF BranchTarget, NoLabel
    <2> HIDE DEF target
    <2> QED BY <2>3, <2>5, <2>6, <1>2 DEF NoLabel
  <1>6b. ASSUME ~NoMain
         PROVE  /\ target \in Nat /\ x.idx <= target /\ target < label_idx
                /\ Main(j) => x.idx < target
    <2>1. /\ x.idx <= instr_list[m].idx /\ instr_list[m].idx \in Nat
          /\ Main(j) => x.idx < instr_list[m].idx
      BY <1>1, <1>2, <1>4, <1>6b, NumbersGrow
    <2>2. instr_list[m].idx < label_idx
      <3>1. m \in 1 .. i - 1
        BY <1>1, <1>2, <1>4, <1>6b DEF IInv, Progress
      <3> QED BY <3>1, <1>4, <1>6b DEF IInv, LabelsCount
    <2> QED BY <2>1, <2>2, <1>2, <1>5 DEF BranchTarget
  <1>6. /\ target \in Nat \cup {NoLabel} /\ target < label_idx
        /\ IF NoMain THEN target = NoLabel ELSE x.idx <= target
        /\ Main(j) => x.idx < target
    <2> HIDE DEF target
    <2>1. CASE NoMain
      BY <2>1, <1>6a
    <2>2. CASE ~NoMain
      BY <2>2, <1>6b
    <2> QED BY <2>1, <2>2
  <1>7. /\ z \in Instr
        /\ z.imm = target /\ z.assigned
        /\ z.idx = x.idx /\ z.label = x.label /\ z.numeric = x.numeric
        /\ z.stream = x.stream /\ z.pos = x.pos /\ z.atomic = x.atomic
        /\ z.branch = x.branch /\ z.has_label = x.has_label
    <2> HIDE DEF target
    <2> QED BY <1>2, <1>6, TargetedFields
  <1>8. /\ y \in Instr
        /\ y.has_label <=> /\ z.has_label
                           /\ z.numeric => z.label \in targets
        /\ y.idx = z.idx /\ y.label = z.label /\ y.numeric = z.numeric
        /\ y.stream = z.stream /\ y.pos = z.pos /\ y.atomic = z.atomic
        /\ y.branch = z.branch /\ y.assigned = z.assigned
        /\ y.imm = z.imm
    <2> HIDE DEF z, targets
    <2> QED BY <1>7, KeptFields
  <1>9. /\ branch_idx' \in [0 .. BranchIdxLen - 1 -> 1..MaxBranchStep]
        /\ branch_cnt' \in 0 .. BranchIdxLen - 1
    <2>1. branch_idx \in [0 .. BranchIdxLen - 1 -> 1..MaxBranchStep]
      BY DEF IInv, TypeOK
    <2>2. Shuffled(branch_idx) \subseteq [0 .. BranchIdxLen - 1 -> 1..MaxBranchStep]
      BY <2>1 DEF Shuffled
    <2>3. branch_idx' \in [0 .. BranchIdxLen - 1 -> 1..MaxBranchStep]
      BY <2>1, <2>2 DEF AssignBranch
    <2>4. branch_cnt \in 0 .. BranchIdxLen - 1 /\ BranchIdxLen \in Nat \ {0}
      BY ConstantAssumption DEF IInv, TypeOK
    <2>5. branch_cnt' = IF branch_cnt + 1 = BranchIdxLen THEN 0 ELSE branch_cnt + 1
      BY DEF AssignBranch
    <2>6. branch_cnt' \in 0 .. BranchIdxLen - 1
      BY <2>4, <2>5
    <2> QED BY <2>3, <2>6
  <1>10. branch_target' \subseteq Nat \cup {NoLabel}
    BY <1>1, <1>6 DEF IInv, TypeOK
  <1>11. /\ y.idx = x.idx /\ y.label = x.label /\ y.numeric = x.numeric
         /\ y.stream = x.stream /\ y.pos = x.pos /\ y.atomic = x.atomic
         /\ y.branch = x.branch /\ y.assigned /\ y.imm = target
         /\ Main(j) => (y.has_label <=> x.idx \in targets)
    BY <1>3, <1>7, <1>8
  <1> HIDE DEF y, z, target
  <1>12. /\ TypeOK' /\ Progress' /\ Shape' /\ EndsInMain'
         /\ StreamsIntact' /\ LabelsCount' /\ FatalOnlyWithoutMain'
    BY <1>1, <1>8, <1>9, <1>10, <1>11, InvWalkFrame
  <1>13. TargetsKept'
    <2>1. /\ Len(instr_list') = m /\ instr_list'[j] = y
          /\ \A b \in 1 .. j - 1 : instr_list'[b] = instr_list[b]
      BY <1>1, <1>2, <1>8, ReplaceOne, AtWalk
    <2>0. /\ NoMain' <=> NoMain
          /\ \A q \in 1..Len(instr_list) : /\ Main(q)' <=> Main(q)
                                           /\ Resolves(q)' <=> Resolves(q)
      BY <1>1, <1>2, <1>8, <1>11, ReplaceOne, ResolvesKept
    <2>01. NoMain' <=> NoMain
      BY <2>0
    <2>02. ASSUME NEW q \in 1..m
           PROVE  (Main(q)' <=> Main(q)) /\ (Resolves(q)' <=> Resolves(q))
      BY <2>0
    \* the new target is no label the loop has already passed
    <2>2. \A b \in 1 .. j - 1 : Main(b) => instr_list[b].idx # target
      <3> SUFFICES ASSUME NEW b \in 1 .. j - 1, Main(b)
                   PROVE  instr_list[b].idx # target
        OBVIOUS
      <3>1. b \in 1..m /\ b < j
        BY <1>1, AtWalk
      <3>2. instr_list[b].idx < x.idx /\ instr_list[b].idx \in Nat
        BY <3>1, <1>1, <1>2, NumbersGrow
      <3>3. ~NoMain
        BY <3>1 DEF NoMain
      <3> QED BY <3>2, <3>3, <1>2, <1>6
    <2>3. \A b \in 1 .. j - 1 :
            /\ b <= m
            /\ Resolves(b) => TargetAhead(b)
            /\ Main(b) /\ instr_list[b].idx \in branch_target =>
                  instr_list[b].has_label
            /\ Main(b) /\ instr_list[b].has_label =>
                  instr_list[b].idx \in branch_target
      BY <1>1 DEF IInv, TargetsKept
    <2>4. \A t \in branch_target :
            /\ t < label_idx
            /\ \E b \in 1 .. j - 1 : Resolves(b) /\ instr_list[b].imm = t
      BY DEF IInv, TargetsKept
    <2>5. j' - 1 = j /\ \A b \in 1..j : b = j \/ b \in 1 .. j - 1
      BY <1>1, <1>2
    <2>6. j \in 1..j /\ \A b \in 1 .. j - 1 : b \in 1..j
      BY <1>2
    <2>7. \A b \in 1..j :
            /\ b <= m
            /\ Resolves(b)' => TargetAhead(b)'
            /\ Main(b)' /\ instr_list'[b].idx \in targets =>
                  instr_list'[b].has_label
            /\ (Main(b) /\ instr_list[b].has_label)' =>
                  instr_list'[b].idx \in targets
      <3> SUFFICES ASSUME NEW b \in 1..j PROVE <2>7!(b)
        OBVIOUS
      <3>1. CASE b = j
        <4>1. b \in 1..m /\ instr_list'[b] = y /\ instr_list[b] = x
          BY <3>1, <1>2, <2>1
        <4>2. (NoMain' <=> NoMain) /\ (Main(b)' <=> Main(b))
          BY <4>1, <2>01, <2>02
        <4>3. Main(b) <=> Main(j)
          BY <3>1
        <4>4. TargetAhead(b)'
          <5>1. instr_list'[b].imm = target /\ target \in branch_target'
            BY <1>1, <1>11, <4>1
          <5>2. instr_list'[b].assigned /\ instr_list'[b].idx = x.idx
            BY <1>11, <4>1
          <5> HIDE DEF x
          <5>3. IF NoMain' THEN target = NoLabel ELSE x.idx <= target
            BY <1>6, <4>2
          <5>4. Main(b)' => x.idx < target
            BY <1>6, <4>2, <4>3
          <5> QED BY <5>1, <5>2, <5>3, <5>4 DEF TargetAhead
        <4>5. Main(b)' => (instr_list'[b].has_label <=> instr_list'[b].idx \in targets)
          BY <4>1, <4>2, <4>3, <1>11
        <4> HIDE DEF x
        <4> QED BY <4>1, <4>4, <4>5, <1>2
      <3>2. CASE b \in 1 .. j - 1
        <4>1. /\ b \in 1..m /\ instr_list'[b] = instr_list[b]
              /\ <2>3!(b)
          BY <3>2, <1>1, <2>1, <2>3, AtWalk
        <4>2. branch_target \subseteq branch_target'
          BY <1>1
        <4>3. /\ NoMain' <=> NoMain
              /\ Main(b)' <=> Main(b)
              /\ Resolves(b)' <=> Resolves(b)
          BY <4>1, <2>01, <2>02
        <4>4. TargetAhead(b) => TargetAhead(b)'
          BY <4>1, <4>2, <4>3 DEF TargetAhead
        <4>5. Main(b) => instr_list[b].idx # target
          BY <3>2, <2>2
        <4> HIDE DEF x
        <4> QED BY <4>1, <4>3, <4>4, <4>5
      <3> QED BY <3>1, <3>2, <2>5
    <2>8. ASSUME NEW t \in targets
          PROVE  /\ t < label_idx
                 /\ \E b \in 1..j : (Resolves(b) /\ instr_list[b].imm = t)'
      <3>1. CASE t = target
        BY <3>1, <1>2, <1>3, <1>6, <1>11, <2>0, <2>1, <2>6
      <3>2. CASE t \in branch_target
        BY <3>2, <1>1, <2>0, <2>1, <2>4, <2>6, AtWalk
      <3> QED BY <3>1, <3>2
    <2> QED BY <1>1, <2>1, <2>5, <2>7, <2>8 DEF TargetsKept
  <1> QED BY <1>12, <1>13 DEF IInv

\* The first instruction gives up its label for the name of the program.
LEMMA InvWalkDone == IInv /\ WalkDone => IInv'
  <1> SUFFICES ASSUME IInv, WalkDone PROVE IInv'
    OBVIOUS
  <1> USE DEF IInv
  <1> DEFINE m == Len(instr_list)
             head == [instr_list[1] EXCEPT !.has_label = TRUE, !.label = None]
             e(k) == IF k = 1 THEN head ELSE instr_list[k]
  <1>1. /\ phase = "walk" /\ phase' = "done" /\ j > m
        /\ instr_list' = [k \in 1..m |-> e(k)]
        /\ UNCHANGED <<directed, inserted, label_idx, i, j,
                       branch_idx, branch_cnt, branch_target>>
    BY DEF WalkDone
  <1>2. /\ instr_list \in Seq(Instr) /\ m \in Nat
        /\ i = m + 1 /\ j = m + 1 /\ i - 1 = m /\ j - 1 = m
    BY <1>1 DEF TypeOK, Progress
  <1>3. 1 \in 1..m =>
          /\ head \in Instr
          /\ head.has_label /\ head.label = None
          /\ head.idx = instr_list[1].idx
          /\ head.numeric = instr_list[1].numeric
          /\ head.stream = instr_list[1].stream
          /\ head.pos = instr_list[1].pos
          /\ head.atomic = instr_list[1].atomic
          /\ head.branch = instr_list[1].branch
          /\ head.assigned = instr_list[1].assigned
          /\ head.imm = instr_list[1].imm
    <2> SUFFICES ASSUME instr_list[1] \in Instr PROVE <1>3!2
      BY <1>2
    <2> QED BY DEF Instr
  <1> HIDE DEF head
  <1>4. \A k \in 1..m : e(k) \in Instr
    BY <1>2, <1>3
  <1>5. instr_list' \in Seq(Instr) /\ Len(instr_list') = m
    <2> HIDE DEF e, m
    <2> QED BY <1>1, <1>2, <1>4
  <1>6. \A q \in 1..m :
          /\ q # 1 => instr_list'[q] = instr_list[q]
          /\ q = 1 => instr_list'[q].has_label /\ instr_list'[q].label = None
          /\ Main(q)' <=> Main(q)
          /\ instr_list'[q].stream = instr_list[q].stream
          /\ instr_list'[q].pos = instr_list[q].pos
          /\ instr_list'[q].atomic = instr_list[q].atomic
          /\ instr_list'[q].branch = instr_list[q].branch
          /\ instr_list'[q].assigned = instr_list[q].assigned
          /\ instr_list'[q].idx = instr_list[q].idx
          /\ instr_list'[q].numeric = instr_list[q].numeric
          /\ instr_list'[q].imm = instr_list[q].imm
    BY <1>1, <1>3 DEF Main
  <1> HIDE DEF m, e
  <1>7. TypeOK'
    BY <1>1, <1>2, <1>5 DEF TypeOK, Phases, m
  <1>8. Progress'
    BY <1>1, <1>2, <1>5 DEF Progress
  <1>9. Shape'
    <2>1. \A q \in 1..m : ~(q >= m + 1)
      BY <1>2
    <2> QED BY <2>1, <1>1, <1>2, <1>5, <1>6 DEF Shape, Main, Original, m
  <1>10. EndsInMain'
    <2>1. m \in 1..m \/ m = 0
      BY <1>2
    <2> QED BY <2>1, <1>5, <1>6 DEF EndsInMain, m
  <1>11. StreamsIntact'
    <2> SUFFICES ASSUME NEW t \in 1..inserted
                 PROVE  \E at \in 0..m :
                           /\ at + Len(directed[t]) <= m
                           /\ \A k \in 1..Len(directed[t]) :
                                 Holds(at + k, t, k)'
      BY <1>1, <1>5 DEF StreamsIntact
    <2>1. PICK at \in 0..m :
             /\ at + Len(directed[t]) <= m
             /\ \A k \in 1..Len(directed[t]) : Holds(at + k, t, k)
      BY DEF StreamsIntact, m
    <2>2. Len(directed[t]) \in Nat
      BY StreamShape DEF TypeOK
    <2>3. \A k \in 1..Len(directed[t]) : at + k \in 1..m
      BY <2>1, <2>2, <1>2
    <2> QED BY <2>1, <2>3, <1>6 DEF Holds
  <1>12. LabelsCount'
    BY <1>1, <1>2, <1>5, <1>6 DEF LabelsCount, m
  <1>13. TargetsKept'
    <2>1. /\ NoMain' <=> NoMain
          /\ \A q \in 1..m : Resolves(q)' <=> Resolves(q)
      BY <1>1, <1>5, <1>6, ResolvesKept DEF Main, m
    <2>2. \A q \in 1..m : TargetAhead(q)' <=> TargetAhead(q)
      BY <2>1, <1>1, <1>6 DEF TargetAhead
    <2> QED BY <2>1, <2>2, <1>1, <1>2, <1>5, <1>6 DEF TargetsKept, m
  <1>14. FatalOnlyWithoutMain'
    BY <1>1 DEF FatalOnlyWithoutMain
  <1> QED BY <1>7, <1>8, <1>9, <1>10, <1>11, <1>12, <1>13, <1>14

\* Every step of the generation keeps IInv.
LEMMA InvNext == IInv /\ [Next]_vars => IInv'
  <1> SUFFICES ASSUME IInv, [Next]_vars PROVE IInv'
    OBVIOUS
  <1>1. CASE Next
    BY <1>1, InvGenMainStream, InvInsertDirected, InvPhaseSteps,
       InvNumberInstr, InvAssignBranch, InvPassInstr, InvWalkDone DEF Next
  <1>2. CASE UNCHANGED vars
    <2> USE <1>2 DEF vars
    <2>1. TypeOK' /\ Progress' /\ FatalOnlyWithoutMain'
      BY DEF IInv, TypeOK, Progress, FatalOnlyWithoutMain
    <2>2. Shape' /\ EndsInMain'
      BY DEF IInv, Shape, EndsInMain, Original, Main
    <2>3. StreamsIntact' /\ LabelsCount'
      BY DEF IInv, StreamsIntact, LabelsCount, Main, Holds
    <2>4. TargetsKept'
      BY DEF IInv, TargetsKept, TargetAhead, Resolves, Original, NoMain, Main
    <2> QED BY <2>1, <2>2, <2>3, <2>4 DEF IInv
  <1> QED BY <1>1, <1>2

\* IInv is an inductive invariant of the generation of a sequence.
THEOREM Inductive == Spec => []IInv
  BY InvInit, InvNext, PTL DEF Spec

\* The variables keep their types, so the labels, branch distances and loop
\* variables of post_process_instr stay in range.
THEOREM TypeCorrect == Spec => []TypeOK
  <1>1. IInv => TypeOK
    BY DEF IInv
  <1> QED BY <1>1, Inductive, PTL

\* insert_instr_stream never puts an instruction inside an atomic stream,
\* however many streams and in whatever order.
THEOREM StreamsStayIntact == Spec => []StreamsIntact
  <1>1. IInv => StreamsIntact
    BY DEF IInv
  <1> QED BY <1>1, Inductive, PTL

\* The numbering and the branch targets of IInv make every operand meet its label.
LEMMA InvResolves == IInv => BranchesResolved
  <1> SUFFICES ASSUME IInv, NEW b \in 1..Len(instr_list), b < j, Resolves(b)
               PROVE  /\ instr_list[b].assigned
                      /\ IF NoMain THEN instr_list[b].imm = NoLabel
                         ELSE \E p \in (b + 1)..Len(instr_list) :
                                 PrintsLabel(p, instr_list[b].imm)
    BY DEF BranchesResolved
  <1>1. /\ Len(instr_list) \in Nat /\ j \in Nat /\ instr_list \in Seq(Instr)
        /\ b \in 1 .. j - 1 /\ phase \in {"walk", "done"}
        /\ i - 1 = Len(instr_list)
    BY DEF IInv, TypeOK, Progress, Phases
  <1>2a. TargetAhead(b) /\ instr_list[b].imm < label_idx
    BY <1>1 DEF IInv, TargetsKept, TargetAhead
  <1> SUFFICES ASSUME ~NoMain
               PROVE  \E p \in (b + 1)..Len(instr_list) :
                         PrintsLabel(p, instr_list[b].imm)
    BY <1>2a DEF TargetAhead
  <1>2b. instr_list[b].idx \in Nat
    <2>1. instr_list[b] \in Instr
      BY <1>1
    <2> QED BY <2>1 DEF Instr
  <1>2. /\ instr_list[b].assigned
        /\ instr_list[b].imm \in branch_target
        /\ instr_list[b].idx <= instr_list[b].imm
        /\ Main(b) => instr_list[b].idx < instr_list[b].imm
        /\ instr_list[b].imm < label_idx
        /\ instr_list[b].imm \in Nat
    <2>1. /\ instr_list[b].assigned /\ instr_list[b].imm \in branch_target
          /\ instr_list[b].idx <= instr_list[b].imm
          /\ Main(b) => instr_list[b].idx < instr_list[b].imm
      BY <1>2a DEF TargetAhead
    <2>2. instr_list[b].imm \in Nat \cup {NoLabel}
      BY <2>1 DEF IInv, TypeOK
    <2> QED BY <1>2a, <1>2b, <2>1, <2>2 DEF NoLabel
  <1>3. PICK p \in 1..Len(instr_list) :
           Main(p) /\ instr_list[p].idx = instr_list[b].imm
    <2>1. instr_list[b].imm \in 0 .. label_idx - 1
      BY <1>2 DEF IInv, TypeOK
    <2> QED BY <2>1, <1>1 DEF IInv, LabelsCount
  <1>4. b < p
    <2> SUFFICES ASSUME p <= b PROVE FALSE
      BY <1>1
    <2>1. instr_list[b] \in Instr
      BY <1>1
    <2>2. instr_list[b].idx \in Nat
      BY <2>1 DEF Instr
    <2>3. CASE p = b
      BY <2>3, <2>2, <1>2, <1>3
    <2>4. CASE p < b
      <3>1. instr_list[p].idx < instr_list[b].idx
        BY <2>4, <1>1, <1>3, NumbersGrow
      <3> QED BY <3>1, <2>2, <1>2, <1>3
    <2> QED BY <2>3, <2>4, <1>1
  <1>5. instr_list[p].numeric /\ instr_list[p].label = instr_list[p].idx
    <2>1. p \in 1 .. i - 1 /\ p # 1
      BY <1>1, <1>4
    <2> QED BY <2>1, <1>3 DEF IInv, LabelsCount
  <1>6. instr_list[p].has_label
    <2>1. CASE p < j
      <3>1. p \in 1 .. j - 1
        BY <2>1, <1>1
      <3> QED BY <3>1, <1>2, <1>3 DEF IInv, TargetsKept
    <2>2. CASE p >= j
      BY <2>2, <1>3 DEF IInv, Shape
    <2> QED BY <2>1, <2>2, <1>1
  <1>7. p \in (b + 1)..Len(instr_list)
    BY <1>1, <1>4
  <1> QED BY <1>2, <1>3, <1>5, <1>6, <1>7 DEF PrintsLabel

\* Every branch that post_process_instr has passed has a label ahead of it,
\* and the removal of unused labels has left that label in place.
THEOREM BranchTargetsExist == Spec => []BranchesResolved
  BY InvResolves, Inductive, PTL

\* post_process_instr gives no numeric label twice.
THEOREM NoLabelTwice == Spec => []LabelsUnique
  <1>1. IInv => LabelsUnique
    <2> SUFFICES ASSUME IInv,
                        NEW p \in 1..Len(instr_list),
                        NEW q \in 1..Len(instr_list), p < q,
                        instr_list[p].numeric, instr_list[q].numeric,
                        instr_list[p].label = instr_list[q].label,
                        instr_list[p].label # None
                 PROVE  FALSE
      BY DEF LabelsUnique, IInv, TypeOK
    <2>1. /\ p \in 1 .. i - 1 /\ q \in 1 .. i - 1 /\ Main(p) /\ Main(q)
      BY DEF IInv, Shape, TypeOK
    <2>2. /\ instr_list[p].label = instr_list[p].idx
          /\ instr_list[q].label = instr_list[q].idx
          /\ instr_list[p].idx < instr_list[q].idx
      BY <2>1 DEF IInv, LabelsCount
    <2>3. instr_list[p] \in Instr /\ instr_list[q] \in Instr
      BY DEF IInv, TypeOK
    <2>4. instr_list[p].idx \in Nat /\ instr_list[q].idx \in Nat
      BY <2>3 DEF Instr
    <2>5. instr_list[p].idx = instr_list[q].idx
      BY <2>2, Zenon
    <2> QED BY <2>2, <2>4, <2>5
  <1> QED BY <1>1, Inductive, PTL

\* A finished program carries a numeric label only where an earlier branch
\* goes to it.
THEOREM NoUnusedLabel == Spec => []OnlyTargetsLabelled
  <1>1. IInv => OnlyTargetsLabelled
    <2> SUFFICES ASSUME IInv, phase = "done",
                        NEW p \in 2..Len(instr_list),
                        instr_list[p].has_label, instr_list[p].numeric
                 PROVE  \E b \in 1 .. p - 1 :
                           /\ Resolves(b)
                           /\ instr_list[b].imm = instr_list[p].label
      BY DEF OnlyTargetsLabelled
    <2>1. /\ Len(instr_list) \in Nat /\ j - 1 = Len(instr_list)
          /\ i - 1 = Len(instr_list)
          /\ p \in 1..Len(instr_list) /\ p # 1
      BY DEF IInv, TypeOK, Progress
    <2>2. Main(p)
      BY <2>1 DEF IInv, Shape
    <2>3. instr_list[p].label = instr_list[p].idx
      BY <2>1, <2>2 DEF IInv, LabelsCount
    <2>4. instr_list[p].idx \in branch_target
      BY <2>1, <2>2 DEF IInv, TargetsKept
    <2>5. PICK b \in 1..Len(instr_list) :
             Resolves(b) /\ instr_list[b].imm = instr_list[p].idx
      BY <2>1, <2>4 DEF IInv, TargetsKept
    <2>6. /\ instr_list[b].idx <= instr_list[p].idx
          /\ Main(b) => instr_list[b].idx < instr_list[p].idx
      <3>1. TargetAhead(b)
        BY <2>1, <2>5 DEF IInv, TargetsKept
      <3>2. ~NoMain
        BY <2>1, <2>2 DEF NoMain
      <3> QED BY <2>5, <3>1, <3>2 DEF TargetAhead
    <2>7. b < p
      <3> SUFFICES ASSUME p <= b PROVE FALSE
        BY <2>1
      <3>1. instr_list[b] \in Instr /\ instr_list[p] \in Instr
        BY <2>1 DEF IInv, TypeOK
      <3>2. instr_list[b].idx \in Nat /\ instr_list[p].idx \in Nat
        BY <3>1 DEF Instr
      <3>3. CASE p = b
        BY <3>3, <3>2, <2>2, <2>6
      <3>4. CASE p < b
        <4>1. instr_list[p].idx < instr_list[b].idx
          BY <3>4, <2>1, <2>2, NumbersGrow
        <4> QED BY <4>1, <3>2, <2>6
      <3> QED BY <3>3, <3>4, <2>1
    <2>8. b \in 1 .. p - 1
      BY <2>1, <2>7
    <2> QED BY <2>3, <2>5, <2>8
  <1> QED BY <1>1, Inductive, PTL

\* The generator gives up only on a sequence without random instructions.
THEOREM FatalNeedsEmptyMain == Spec => []FatalOnlyWithoutMain
  <1>1. IInv => FatalOnlyWithoutMain
    BY DEF IInv
  <1> QED BY <1>1, Inductive, PTL

-----------------------------------------------------------------------------
\* The run of the program.

SameKind(x, y) == x.branch = y.branch /\ x.jump = y.jump
SameOperand(x, y) == x.imm = y.imm /\ x.back = y.back
SameLabel(x, y) == x.has_label = y.has_label /\ x.label = y.label

\* Position p holds instruction n of stream s, and the rest of s stands around it.
WholeAt(p, s, n) ==
    /\ s \in 1..inserted
    /\ n \in 1..Len(directed[s])
    /\ p - n >= 0 /\ p - n + Len(directed[s]) <= Len(instr_list)
    /\ \A k \in 1..Len(directed[s]) : Holds(p - n + k, s, k)

\* A directed stream stands in the list as a whole, around every one of its
\* instructions.
Whole ==
    \A p \in 1..Len(instr_list) :
        ~Main(p) => WholeAt(p, instr_list[p].stream, instr_list[p].pos)

\* No instruction of a directed stream stands in the list twice.
Once ==
    \A p, q \in 1..Len(instr_list) :
        /\ ~Main(p) /\ ~Main(q)
        /\ instr_list[p].stream = instr_list[q].stream
        /\ instr_list[p].pos = instr_list[q].pos
        => p = q

\* The instruction at p has what its directed stream gave it: kind and operand,
\* if that is the stream's to give, and the label.
SameUse(p) ==
    /\ SameKind(instr_list[p], Original(p))
    /\ ~Resolves(p) => SameOperand(instr_list[p], Original(p))

AsMade(p) == SameUse(p) /\ SameLabel(instr_list[p], Original(p))

\* Nothing but the first instruction of the program and the branches left to
\* the post-process lose what their directed stream gave them.
Faithful ==
    \A p \in 1..Len(instr_list) : ~Main(p) =>
        AsMade(p) \/ (p = 1 /\ phase = "done" /\ SameUse(p))

\* A random instruction never jumps, and neither a random branch nor one that
\* the post-process has resolved goes backward.
Forward ==
    \A p \in 1..Len(instr_list) :
        /\ Main(p) => ~instr_list[p].jump /\ ~instr_list[p].back
        /\ Resolves(p) /\ p < j => ~instr_list[p].back

ListInv == Whole /\ Once /\ Faithful /\ Forward

\* What both loops leave alone of every instruction.
KeepsPlace(x, y) ==
    /\ y.stream = x.stream /\ y.pos = x.pos /\ y.atomic = x.atomic
    /\ y.jump = x.jump /\ y.branch = x.branch

\* The list keeps its streams while both loops go through it.
LEMMA ListKept ==
    ASSUME IInv, ListInv, phase # "done",
           UNCHANGED <<directed, inserted>>,
           Len(instr_list') = Len(instr_list),
           \A p \in 1..Len(instr_list) : KeepsPlace(instr_list[p], instr_list'[p]),
           \A p \in 1..Len(instr_list) : ~Main(p) =>
              /\ ~Resolves(p) => SameOperand(instr_list'[p], instr_list[p])
              /\ \/ SameLabel(instr_list'[p], instr_list[p])
                 \/ p = 1 /\ phase' = "done",
           Forward'
    PROVE  ListInv'
  <1>1. /\ Len(instr_list) \in Nat
        /\ \A p \in 1..Len(instr_list) : instr_list[p].pos \in Nat
    <2>1. instr_list \in Seq(Instr)
      BY DEF IInv, TypeOK
    <2>2. \A p \in 1..Len(instr_list) : instr_list[p] \in Instr
      BY <2>1
    <2> QED BY <2>1, <2>2 DEF Instr
  <1>2. \A p \in 1..Len(instr_list) : /\ Main(p)' <=> Main(p)
                                      /\ Original(p)' = Original(p)
                                      /\ Resolves(p)' <=> Resolves(p)
    BY DEF Main, Original, Resolves, KeepsPlace
  <1>4. Whole'
    <2> DEFINE W(p, s, n) ==
                  /\ s \in 1..inserted
                  /\ n \in 1..Len(directed[s])
                  /\ p - n >= 0 /\ p - n + Len(directed[s]) <= Len(instr_list)
                  /\ \A k \in 1..Len(directed[s]) :
                        /\ instr_list'[p - n + k].stream = s
                        /\ instr_list'[p - n + k].pos = k
    <2>1. Whole' <=> \A p \in 1..Len(instr_list) : ~Main(p)' =>
                        W(p, instr_list'[p].stream, instr_list'[p].pos)
      BY DEF Whole, WholeAt, Holds
    <2>2. ASSUME NEW p \in 1..Len(instr_list), ~Main(p)'
          PROVE  W(p, instr_list'[p].stream, instr_list'[p].pos)
      <3> DEFINE s == instr_list[p].stream
                 n == instr_list[p].pos
      <3>1. ~Main(p) /\ instr_list'[p].stream = s /\ instr_list'[p].pos = n
        BY <1>2, <2>2 DEF KeepsPlace
      <3>2. WholeAt(p, s, n)
        BY <3>1 DEF ListInv, Whole
      <3>3. n \in Nat /\ Len(directed[s]) \in Nat
        <4>1. /\ directed \in DirectedChoices /\ inserted \in 0..Len(directed)
              /\ Len(directed) \in Nat
          BY DirectedAssumption DEF IInv, TypeOK
        <4>2. s \in 1..Len(directed)
          BY <4>1, <3>2 DEF WholeAt
        <4> QED BY <1>1, <4>1, <4>2, StreamShape
      <3>4. \A k \in 1..Len(directed[s]) : p - n + k \in 1..Len(instr_list)
        BY <1>1, <3>2, <3>3 DEF WholeAt
      <3>5. \A k \in 1..Len(directed[s]) : /\ instr_list'[p - n + k].stream = s
                                           /\ instr_list'[p - n + k].pos = k
        BY <3>2, <3>4 DEF WholeAt, Holds, KeepsPlace
      <3> HIDE DEF s, n
      <3>6. W(p, s, n)
        BY <3>2, <3>5 DEF WholeAt
      <3> HIDE DEF W
      <3> QED BY <3>1, <3>6
    <2> HIDE DEF W
    <2> QED BY <2>1, <2>2
  <1>5. Faithful'
    <2>1. ASSUME NEW p \in 1..Len(instr_list)
          PROVE  /\ Main(p)' <=> Main(p)
                 /\ Original(p)' = Original(p)
                 /\ Resolves(p)' <=> Resolves(p)
      BY <1>2
    <2>2. ASSUME NEW p \in 1..Len(instr_list), ~Main(p)
          PROVE  AsMade(p)' \/ (p = 1 /\ phase' = "done" /\ SameUse(p)')
      <3>1. AsMade(p)
        BY <2>2 DEF ListInv, Faithful
      <3>2. SameUse(p)'
        BY <2>1, <2>2, <3>1 DEF AsMade, SameUse, SameKind, SameOperand, KeepsPlace
      <3>3. \/ SameLabel(instr_list'[p], Original(p)')
            \/ p = 1 /\ phase' = "done"
        BY <2>1, <2>2, <3>1 DEF AsMade, SameLabel
      <3> QED BY <3>2, <3>3 DEF AsMade
    <2> QED BY <2>1, <2>2 DEF Faithful
  <1>7. Once'
    BY <1>2 DEF ListInv, Once, KeepsPlace
  <1> QED BY <1>4, <1>5, <1>7 DEF ListInv

\* The random main stream has neither jumps nor directed instructions.
LEMMA ListGenerated == IInv /\ ListInv /\ GenMainStream => ListInv'
  <1> SUFFICES ASSUME IInv, GenMainStream PROVE ListInv'
    OBVIOUS
  <1>1. PICK isBranch \in [1..InstrCnt -> BOOLEAN], n \in 0..InstrCnt :
           instr_list' = [k \in 1..n |-> NewInstr(0, k, isBranch[k])]
    BY DEF GenMainStream
  <1>2. \A k \in 1..n : /\ instr_list'[k].atomic = FALSE /\ ~instr_list'[k].jump
                        /\ ~instr_list'[k].back
    BY <1>1 DEF NewInstr
  <1>3. Len(instr_list') = n
    <2>1. n \in Nat /\ DOMAIN instr_list' = 1..n
      BY <1>1, ConstantAssumption
    <2>2. instr_list' \in Seq({instr_list'[k] : k \in 1..n})
      BY <1>1, <2>1
    <2> QED BY <2>1, <2>2
  <1> QED BY <1>2, <1>3 DEF ListInv, Whole, Once, Faithful, Forward, Main

\* An insertion gives the list what the directed stream is made of, and takes
\* nothing from what is there.
LEMMA FaithfulInserted == IInv /\ ListInv /\ InsertDirected => (Faithful /\ Forward)'
  <1> SUFFICES ASSUME IInv, ListInv, InsertDirected
               PROVE  Faithful' /\ Forward'
    OBVIOUS
  <1> DEFINE s == inserted + 1
             d == directed[s]
             m == Len(instr_list)
  <1>1. /\ phase = "insert" /\ phase' = "insert"
        /\ directed' = directed /\ s \in 1..Len(directed) /\ m \in Nat
        /\ directed \in DirectedChoices
    BY DirectedAssumption DEF InsertDirected, IInv, TypeOK
  <1>2. /\ Len(d) \in Nat
        /\ \A k \in 1..Len(d) : d[k].stream = s /\ d[k].pos = k /\ d[k].atomic
    BY <1>1, StreamShape
  <1>3. PICK at \in Nat : Placed(m, d, at)
    BY InsertPlace
  <1>4. at > 0 /\ at <= m + 1 /\ Len(instr_list') = m + Len(d)
    BY <1>1, <1>3 DEF Placed
  <1>5. ASSUME NEW p \in 1 .. m + Len(d)
        PROVE  \/ \E q \in 1..m : instr_list'[p] = instr_list[q]
               \/ \E k \in 1..Len(d) : instr_list'[p] = d[k]
    <2> HIDE DEF s, d, m
    <2>1. \/ p \in 1 .. at - 1
          \/ \E k \in 1..Len(d) : p = at + k - 1
          \/ \E k \in at..m : p = k + Len(d)
      BY <1>1, <1>2, <1>4, SplitAt
    <2>2. CASE p \in 1 .. at - 1
      <3>1. p \in 1..m
        BY <2>2, <1>1, <1>4
      <3> QED BY <2>2, <3>1, <1>3 DEF Placed
    <2>3. CASE \E k \in 1..Len(d) : p = at + k - 1
      BY <2>3, <1>3 DEF Placed
    <2>4. CASE \E k \in at..m : p = k + Len(d)
      <3>1. PICK k \in at..m : p = k + Len(d)
        BY <2>4
      <3>2. k \in 1..m
        BY <3>1, <1>1, <1>4
      <3> QED BY <3>1, <3>2, <1>3 DEF Placed
    <2> QED BY <2>1, <2>2, <2>3, <2>4
  <1>6. \A q \in 1..m : /\ ~Main(q) => AsMade(q)
                        /\ Main(q) => ~instr_list[q].jump /\ ~instr_list[q].back
    BY <1>1 DEF ListInv, Faithful, Forward
  <1>7. ASSUME NEW p \in 1 .. m + Len(d)
        PROVE  /\ ~Main(p)' => AsMade(p)'
               /\ Main(p)' => ~instr_list'[p].jump /\ ~instr_list'[p].back
    <2>1. ASSUME NEW k \in 1..Len(d), instr_list'[p] = d[k]
          PROVE  ~Main(p)' /\ AsMade(p)'
      <3>1. Original(p)' = d[k]
        BY <2>1, <1>1, <1>2 DEF Original
      <3>2. ~Main(p)'
        BY <2>1, <1>2 DEF Main
      <3> HIDE DEF s, d, m
      <3> QED BY <2>1, <3>1, <3>2 DEF AsMade, SameUse, SameKind, SameOperand, SameLabel
    <2> HIDE DEF s, d
    <2>2. ASSUME NEW q \in 1..m, instr_list'[p] = instr_list[q]
          PROVE  /\ ~Main(p)' => AsMade(p)'
                 /\ Main(p)' => ~instr_list'[p].jump /\ ~instr_list'[p].back
      <3>1. Original(p)' = Original(q) /\ (Main(p)' <=> Main(q))
        BY <2>2, <1>1 DEF Original, Main
      <3>2. Resolves(p)' <=> Resolves(q)
        BY <2>2, <3>1 DEF Resolves
      <3> HIDE DEF m
      <3> QED BY <2>2, <3>1, <3>2, <1>6 DEF AsMade, SameUse
    <2> HIDE DEF m
    <2> QED BY <2>1, <2>2, <1>5
  <1>8. j' = 1
    BY DEF InsertDirected, IInv, Progress
  <1> HIDE DEF s, d, m
  <1>9. Forward'
    <2>1. \A p \in 1 .. m + Len(d) : ~(p < j')
      BY <1>8
    <2> QED BY <1>4, <1>7, <2>1 DEF Forward
  <1>10. Faithful'
    BY <1>1, <1>4, <1>7 DEF Faithful
  <1> QED BY <1>9, <1>10

\* An insertion is never inside a stream that is in the list.
LEMMA WholeInserted == IInv /\ ListInv /\ InsertDirected => Whole'
  <1> SUFFICES ASSUME IInv, ListInv, InsertDirected PROVE Whole'
    OBVIOUS
  <1> DEFINE s == inserted + 1
             d == directed[s]
             m == Len(instr_list)
             L(t) == Len(directed[t])
  <1>1. /\ UNCHANGED directed /\ inserted' = s /\ inserted \in Nat
        /\ s \in 1..Len(directed) /\ m \in Nat /\ directed \in DirectedChoices
        /\ \A t \in 1..inserted : t \in 1..Len(directed)
    BY DirectedAssumption DEF InsertDirected, IInv, TypeOK
  <1>2. /\ Len(d) \in Nat
        /\ \A k \in 1..Len(d) : d[k].stream = s /\ d[k].pos = k /\ d[k].atomic
    BY <1>1, StreamShape
  <1>3. PICK at \in Nat : Placed(m, d, at)
    BY InsertPlace
  <1>4. at > 0 /\ at <= m + 1 /\ Len(instr_list') = m + Len(d)
    BY <1>1, <1>3 DEF Placed
  \* a stream in the list does not stand across the place of the insertion
  <1>5. ASSUME NEW q \in 1..m, ~Main(q)
        PROVE  LET t == instr_list[q].stream
                   n == instr_list[q].pos
               IN  /\ t \in 1..inserted /\ L(t) \in Nat /\ n \in 1..L(t)
                   /\ q - n >= 0 /\ q - n + L(t) <= m
                   /\ \A k \in 1..L(t) : /\ q - n + k \in 1..m
                                         /\ q - n + k # at
                                         /\ instr_list[q - n + k].stream = t
                                         /\ instr_list[q - n + k].pos = k
    <2> DEFINE t == instr_list[q].stream
               n == instr_list[q].pos
    <2>1. /\ t \in 1..inserted /\ n \in 1..L(t)
          /\ q - n >= 0 /\ q - n + L(t) <= m
          /\ \A k \in 1..L(t) : /\ instr_list[q - n + k].stream = t
                                /\ instr_list[q - n + k].pos = k
      BY <1>5 DEF ListInv, Whole, WholeAt, Holds
    <2>2. L(t) \in Nat
      BY <1>1, <2>1, StreamShape
    <2> HIDE DEF m, L, s, d, t, n
    <2>3. \A k \in 1..L(t) : q - n + k \in 1..m
      BY <1>1, <2>1, <2>2
    <2>4. \A k \in 1..L(t) : ~Main(q - n + k)
      <3>1. t # 0
        BY <2>1, <1>1
      <3>2. \A r \in 1..m : Main(r) => instr_list[r].stream = 0
        BY DEF IInv, Shape, m
      <3> QED BY <2>1, <2>3, <3>1, <3>2
    <2>5. (at = 1 /\ m = 0) \/ Main(at)
      BY <1>3 DEF Placed
    <2>6. \A k \in 1..L(t) : q - n + k # at
      BY <2>3, <2>4, <2>5
    <2> QED BY <2>1, <2>2, <2>3, <2>6 DEF t, n
  <1> DEFINE W(p, t, n) ==
               /\ t \in 1..s /\ n \in 1..L(t)
               /\ p - n >= 0 /\ p - n + L(t) <= m + Len(d)
               /\ \A k \in 1..L(t) : /\ instr_list'[p - n + k].stream = t
                                     /\ instr_list'[p - n + k].pos = k
  <1>6. Whole' <=> \A p \in 1 .. m + Len(d) : ~Main(p)' =>
                      W(p, instr_list'[p].stream, instr_list'[p].pos)
    BY <1>1, <1>4 DEF Whole, WholeAt, Holds
  <1>7. \A p \in 1 .. m + Len(d) :
          \/ p \in 1 .. at - 1
          \/ \E k \in 1..Len(d) : p = at + k - 1
          \/ \E k \in at..m : p = k + Len(d)
    <2> HIDE DEF m, L, s, d, W
    <2> QED BY <1>1, <1>2, <1>4, SplitAt
  <1>8. ASSUME NEW p \in 1 .. m + Len(d), ~Main(p)'
        PROVE  W(p, instr_list'[p].stream, instr_list'[p].pos)
    <2> HIDE DEF m, L, s, d
    <2>0. s = inserted + 1
      BY DEF s
    <2>1. CASE p \in 1 .. at - 1
      <3>1. p \in 1..m /\ instr_list'[p] = instr_list[p] /\ ~Main(p)
        BY <2>1, <1>1, <1>3, <1>4, <1>8 DEF Placed, Main
      <3> DEFINE t == instr_list[p].stream
                 n == instr_list[p].pos
      <3>2. /\ t \in 1..inserted /\ L(t) \in Nat /\ n \in 1..L(t)
            /\ p - n >= 0 /\ p - n + L(t) <= m
            /\ \A k \in 1..L(t) : /\ p - n + k \in 1..m
                                  /\ p - n + k # at
                                  /\ instr_list[p - n + k].stream = t
                                  /\ instr_list[p - n + k].pos = k
        BY <1>5, <3>1
      <3> HIDE DEF t, n
      <3>3. at > p - n + L(t)
        <4> SUFFICES ASSUME at <= p - n + L(t) PROVE FALSE
          BY <1>1, <3>2
        <4>1. at - p + n \in 1..L(t) /\ p - n + (at - p + n) = at
          BY <2>1, <3>2, <1>1, <1>4
        <4> QED BY <4>1, <3>2
      <3>4. \A k \in 1..L(t) : p - n + k \in 1 .. at - 1
        BY <3>2, <3>3, <1>1
      <3>5. W(p, t, n)
        <4>1. \A k \in 1..L(t) : instr_list'[p - n + k] = instr_list[p - n + k]
          BY <3>4, <1>3 DEF Placed
        <4>2. p - n + L(t) <= m + Len(d) /\ t \in 1..s
          BY <3>2, <1>1, <1>2, <2>0
        <4> QED BY <3>2, <4>1, <4>2
      <3> HIDE DEF W
      <3> QED BY <3>1, <3>5 DEF t, n
    <2>2. CASE \E k \in 1..Len(d) : p = at + k - 1
      <3>1. PICK n \in 1..Len(d) : p = at + n - 1
        BY <2>2
      <3>2. instr_list'[p] = d[n]
        BY <3>1, <1>3 DEF Placed
      <3>3. instr_list'[p].stream = s /\ instr_list'[p].pos = n
        BY <3>2, <1>2
      <3>4. L(s) = Len(d)
        BY DEF L, d
      <3>5. W(p, s, n)
        <4>1. \A k \in 1..Len(d) : /\ p - n + k = at + k - 1
                                   /\ instr_list'[at + k - 1] = d[k]
          BY <3>1, <1>1, <1>2, <1>3 DEF Placed
        <4>2. \A k \in 1..Len(d) : /\ instr_list'[p - n + k].stream = s
                                   /\ instr_list'[p - n + k].pos = k
          <5> SUFFICES ASSUME NEW k \in 1..Len(d)
                       PROVE  /\ instr_list'[p - n + k].stream = s
                              /\ instr_list'[p - n + k].pos = k
            OBVIOUS
          <5>1. instr_list'[p - n + k] = d[k]
            BY <4>1
          <5> QED BY <5>1, <1>2
        <4>3. /\ s \in 1..s /\ p - n >= 0 /\ p - n + Len(d) <= m + Len(d)
          BY <3>1, <1>1, <1>2, <1>4, <2>0
        <4> QED BY <3>4, <4>2, <4>3
      <3> HIDE DEF W
      <3> QED BY <3>3, <3>5
    <2>3. CASE \E k \in at..m : p = k + Len(d)
      <3>1. PICK q \in at..m : p = q + Len(d)
        BY <2>3
      <3>2. q \in 1..m /\ instr_list'[p] = instr_list[q] /\ ~Main(q)
        BY <3>1, <1>1, <1>3, <1>4, <1>8 DEF Placed, Main
      <3> DEFINE t == instr_list[q].stream
                 n == instr_list[q].pos
      <3>3. /\ t \in 1..inserted /\ L(t) \in Nat /\ n \in 1..L(t)
            /\ q - n >= 0 /\ q - n + L(t) <= m
            /\ \A k \in 1..L(t) : /\ q - n + k \in 1..m
                                  /\ q - n + k # at
                                  /\ instr_list[q - n + k].stream = t
                                  /\ instr_list[q - n + k].pos = k
        BY <1>5, <3>2
      <3> HIDE DEF t, n
      <3>4. at <= q - n
        <4> SUFFICES ASSUME at > q - n PROVE FALSE
          BY <1>1, <3>3, <3>2
        <4>1. at - q + n \in 1..L(t) /\ q - n + (at - q + n) = at
          BY <3>1, <3>3, <1>1, <1>4
        <4> QED BY <4>1, <3>3
      <3>5. \A k \in 1..L(t) : q - n + k \in at..m
        BY <3>3, <3>4, <1>1
      <3>6. W(p, t, n)
        <4>1. \A k \in 1..L(t) : instr_list'[q - n + k + Len(d)] = instr_list[q - n + k]
          BY <3>5, <1>3 DEF Placed
        <4>2. \A k \in 1..L(t) : q - n + k + Len(d) = p - n + k
          BY <3>1, <3>3, <1>1, <1>2
        <4>3. /\ p - n >= 0 /\ p - n + L(t) <= m + Len(d) /\ t \in 1..s
          BY <3>1, <3>3, <1>1, <1>2, <2>0
        <4>4. \A k \in 1..L(t) : /\ instr_list'[p - n + k].stream = t
                                 /\ instr_list'[p - n + k].pos = k
          BY <4>1, <4>2, <3>3
        <4> QED BY <3>3, <4>3, <4>4
      <3> HIDE DEF W
      <3> QED BY <3>2, <3>6 DEF t, n
    <2> HIDE DEF W
    <2> QED BY <2>1, <2>2, <2>3, <1>7
  <1> HIDE DEF W
  <1> QED BY <1>6, <1>8

\* An insertion brings instructions of a stream that is not in the list yet.
LEMMA OnceInserted == IInv /\ ListInv /\ InsertDirected => Once'
  <1> SUFFICES ASSUME IInv, ListInv, InsertDirected PROVE Once'
    OBVIOUS
  <1> DEFINE s == inserted + 1
             d == directed[s]
             m == Len(instr_list)
  <1>1. /\ inserted \in Nat /\ s \in 1..Len(directed) /\ m \in Nat
        /\ directed \in DirectedChoices
    BY DirectedAssumption DEF InsertDirected, IInv, TypeOK
  <1>2. /\ Len(d) \in Nat
        /\ \A k \in 1..Len(d) : d[k].stream = s /\ d[k].pos = k /\ d[k].atomic
    BY <1>1, StreamShape
  <1>3. PICK at \in Nat : Placed(m, d, at)
    BY InsertPlace
  <1>4. at > 0 /\ at <= m + 1 /\ Len(instr_list') = m + Len(d)
    BY <1>1, <1>3 DEF Placed
  <1>5. \A r \in 1..m : ~Main(r) => instr_list[r].stream # s
    BY <1>1 DEF ListInv, Whole, WholeAt
  <1> HIDE DEF s, d, m
  <1>6. \A p \in 1 .. m + Len(d) :
          \/ p \in 1 .. at - 1
          \/ \E k \in 1..Len(d) : p = at + k - 1
          \/ \E k \in at..m : p = k + Len(d)
    BY <1>1, <1>2, <1>4, SplitAt
  <1> DEFINE FromOld(p, r) == /\ instr_list'[p] = instr_list[r]
                              /\ p = IF r < at THEN r ELSE r + Len(d)
             FromNew(p, k) == /\ instr_list'[p] = d[k] /\ p = at + k - 1
  <1>7. ASSUME NEW p \in 1 .. m + Len(d)
        PROVE  \/ \E r \in 1..m : FromOld(p, r)
               \/ \E k \in 1..Len(d) : FromNew(p, k)
    <2>1. CASE p \in 1 .. at - 1
      <3>1. p \in 1..m /\ p < at
        BY <2>1, <1>1, <1>4
      <3> QED BY <2>1, <3>1, <1>3 DEF Placed
    <2>2. ASSUME NEW k \in 1..Len(d), p = at + k - 1 PROVE FromNew(p, k)
      BY <2>2, <1>3 DEF Placed
    <2>3. ASSUME NEW r \in at..m, p = r + Len(d) PROVE r \in 1..m /\ FromOld(p, r)
      BY <2>3, <1>1, <1>3, <1>4 DEF Placed
    <2> HIDE DEF FromOld, FromNew
    <2> QED BY <2>1, <2>2, <2>3, <1>6 DEF FromOld
  <1> DEFINE Twice(p, q) == /\ ~Main(p)' /\ ~Main(q)'
                            /\ instr_list'[p].stream = instr_list'[q].stream
                            /\ instr_list'[p].pos = instr_list'[q].pos
  <1>8. ASSUME NEW p \in 1 .. m + Len(d), NEW q \in 1 .. m + Len(d), Twice(p, q)
        PROVE  p = q
    <2>1. ASSUME NEW r \in 1..m, NEW t \in 1..m, FromOld(p, r), FromOld(q, t)
          PROVE  p = q
      <3>1. r = t
        BY <2>1, <1>8 DEF ListInv, Once, Main, m
      <3> QED BY <2>1, <3>1
    <2>2. ASSUME NEW r \in 1..m, NEW k \in 1..Len(d),
                 \/ FromOld(p, r) /\ FromNew(q, k)
                 \/ FromOld(q, r) /\ FromNew(p, k)
          PROVE  FALSE
      <3>1. instr_list[r].stream = s /\ ~Main(r)
        BY <2>2, <1>2, <1>8 DEF Main
      <3> QED BY <3>1, <1>5
    <2>3. ASSUME NEW k \in 1..Len(d), NEW l \in 1..Len(d), FromNew(p, k), FromNew(q, l)
          PROVE  p = q
      <3>1. k = l
        BY <2>3, <1>2, <1>8
      <3> QED BY <2>3, <3>1
    <2> HIDE DEF FromOld, FromNew
    <2> QED BY <2>1, <2>2, <2>3, <1>7
  <1> HIDE DEF Twice
  <1>9. \A p, q \in 1 .. m + Len(d) : Twice(p, q) => p = q
    BY <1>8
  <1> QED BY <1>4, <1>9 DEF Once, Twice

\* The list of a step that replaces the instruction at p.
LEMMA ListReplaced ==
    ASSUME IInv, ListInv, phase # "done", UNCHANGED <<directed, inserted>>,
           NEW p \in 1..Len(instr_list), NEW y \in Instr,
           instr_list' = [instr_list EXCEPT ![p] = y],
           KeepsPlace(instr_list[p], y), y.back => instr_list[p].back,
           ~Main(p) => SameLabel(y, instr_list[p]),
           ~Main(p) /\ ~Resolves(p) => SameOperand(y, instr_list[p]),
           \A q \in 1..Len(instr_list) :
              Resolves(q) /\ q < j' => q < j \/ (q = p /\ ~y.back)
    PROVE  ListInv'
  <1>1. instr_list \in Seq(Instr)
    BY DEF IInv, TypeOK
  <1>2. /\ Len(instr_list') = Len(instr_list)
        /\ instr_list'[p] = y
        /\ \A q \in 1..Len(instr_list) : q # p => instr_list'[q] = instr_list[q]
    BY <1>1, ReplaceOne
  <1>3. \A q \in 1..Len(instr_list) : KeepsPlace(instr_list[q], instr_list'[q])
    BY <1>2 DEF KeepsPlace
  <1>4. \A q \in 1..Len(instr_list) : ~Main(q) =>
           /\ ~Resolves(q) => SameOperand(instr_list'[q], instr_list[q])
           /\ SameLabel(instr_list'[q], instr_list[q])
    BY <1>2 DEF SameLabel, SameOperand
  <1>5. Forward'
    <2>1. ASSUME NEW q \in 1..Len(instr_list)
          PROVE  /\ Main(q)' <=> Main(q)
                 /\ Resolves(q)' <=> Resolves(q)
      BY <1>3 DEF Main, Original, Resolves, KeepsPlace
    <2>2. ASSUME NEW q \in 1..Len(instr_list)
          PROVE  /\ Main(q) => ~instr_list'[q].jump /\ ~instr_list'[q].back
                 /\ Resolves(q) /\ q < j' => ~instr_list'[q].back
      <3>1. /\ Main(q) => ~instr_list[q].jump /\ ~instr_list[q].back
            /\ Resolves(q) /\ q < j => ~instr_list[q].back
        BY DEF ListInv, Forward
      <3>2. instr_list'[q].back => instr_list[q].back
        BY <1>2
      <3>3. instr_list'[q].jump = instr_list[q].jump
        BY <1>3 DEF KeepsPlace
      <3>4. q = p => instr_list'[q] = y
        BY <1>2
      <3> QED BY <3>1, <3>2, <3>3, <3>4
    <2> QED BY <1>2, <2>1, <2>2 DEF Forward
  <1> QED BY <1>2, <1>3, <1>4, <1>5, ListKept

\* The labelling loop gives a number to main instructions only.
LEMMA ListNumbered == IInv /\ ListInv /\ NumberInstr => ListInv'
  <1> SUFFICES ASSUME IInv, ListInv, NumberInstr PROVE ListInv'
    OBVIOUS
  <1> DEFINE x == instr_list[i]
             y == IF GetsNumber(x) THEN Numbered(x, label_idx)
                  ELSE [x EXCEPT !.idx = label_idx]
  <1>1. /\ i \in 1..Len(instr_list) /\ x \in Instr /\ label_idx \in Nat
        /\ instr_list \in Seq(Instr)
    BY DEF IInv, TypeOK, NumberInstr
  <1>2. instr_list' = [instr_list EXCEPT ![i] = y]
    BY DEF NumberInstr
  <1>3. y \in Instr /\ KeepsPlace(x, y)
    BY <1>1 DEF Numbered, Instr, KeepsPlace
  <1>4. SameOperand(y, x) /\ (~Main(i) => SameLabel(y, x))
    BY <1>1 DEF Main, GetsNumber, SameLabel, SameOperand, Numbered, Instr
  <1>5. phase # "done" /\ UNCHANGED <<directed, inserted>> /\ UNCHANGED j
    BY DEF NumberInstr
  <1>6. y.back = x.back
    BY <1>4 DEF SameOperand
  <1> HIDE DEF y
  <1> QED BY <1>1, <1>2, <1>3, <1>4, <1>5, <1>6, ListReplaced

\* The branch loop: only a branch the post-process resolves gets a target, and
\* only a main instruction loses its label.
LEMMA ListWalked == IInv /\ ListInv /\ (AssignBranch \/ PassInstr) => ListInv'
  <1> SUFFICES ASSUME IInv, ListInv, AssignBranch \/ PassInstr PROVE ListInv'
    OBVIOUS
  <1> DEFINE x == instr_list[j]
  <1>1. /\ j \in 1..Len(instr_list) /\ x \in Instr /\ label_idx \in Nat
        /\ instr_list \in Seq(Instr)
    BY DEF IInv, TypeOK, AssignBranch, PassInstr
  <1>2. /\ phase # "done" /\ UNCHANGED <<directed, inserted>>
        /\ \A q \in 1..Len(instr_list) : q < j' => q < j \/ q = j
    <2>1. phase # "done" /\ UNCHANGED <<directed, inserted>> /\ j' = j + 1
      BY DEF AssignBranch, PassInstr
    <2> QED BY <2>1, <1>1
  <1>3. ~Main(j) => ~x.numeric
    BY <1>1 DEF IInv, Shape
  <1>4. Resolves(j) <=> NeedsTarget(x)
    <2>1. /\ Main(j) => ~x.assigned
          /\ ~Main(j) => x.assigned = Original(j).assigned
      BY AtWalk DEF AssignBranch, PassInstr
    <2> QED BY <2>1 DEF Resolves, NeedsTarget
  <1>5. CASE PassInstr
    <2> DEFINE y == KeepIfTarget(x, branch_target)
    <2>1. instr_list' = [instr_list EXCEPT ![j] = y] /\ ~Resolves(j)
      BY <1>4, <1>5 DEF PassInstr
    <2>2. /\ y \in Instr /\ KeepsPlace(x, y) /\ y.back = x.back /\ SameOperand(y, x)
      BY <1>1, KeptFields DEF KeepsPlace, SameOperand
    <2>3. ~Main(j) => SameLabel(y, x)
      BY <1>3 DEF SameLabel, KeepIfTarget
    <2> HIDE DEF y
    <2> QED BY <1>1, <1>2, <2>1, <2>2, <2>3, ListReplaced
  <1>6. CASE AssignBranch
    <2> DEFINE t == BranchTarget(x, branch_idx[branch_cnt])
               z == [x EXCEPT !.imm = t, !.back = FALSE, !.assigned = TRUE]
               y == KeepIfTarget(z, branch_target \cup {t})
    <2>1. instr_list' = [instr_list EXCEPT ![j] = y] /\ Resolves(j)
      BY <1>4, <1>6 DEF AssignBranch
    <2>2. t \in Nat \cup {NoLabel}
      <3>1. branch_target' = branch_target \cup {t}
        BY <1>6 DEF AssignBranch
      <3>2. branch_target' \subseteq Nat \cup {NoLabel}
        BY <1>6, InvAssignBranch DEF IInv, TypeOK
      <3> QED BY <3>1, <3>2
    <2> HIDE DEF t
    <2>3. /\ z \in Instr /\ KeepsPlace(x, z) /\ ~z.back
          /\ SameLabel(z, x) /\ z.numeric = x.numeric
      BY <1>1, <2>2, TargetedFields DEF KeepsPlace, SameLabel
    <2> HIDE DEF z
    <2>4. y \in Instr /\ KeepsPlace(x, y) /\ ~y.back
      BY <2>3, KeptFields DEF KeepsPlace
    <2>5. ~Main(j) => SameLabel(y, x)
      BY <1>3, <2>3 DEF SameLabel, KeepIfTarget
    <2> HIDE DEF y
    <2> QED BY <1>1, <1>2, <2>1, <2>4, <2>5, ListReplaced
  <1> QED BY <1>5, <1>6

\* The name of the program is given to its first instruction only.
LEMMA ListDone == IInv /\ ListInv /\ WalkDone => ListInv'
  <1> SUFFICES ASSUME IInv, ListInv, WalkDone PROVE ListInv'
    OBVIOUS
  <1> DEFINE m == Len(instr_list)
             head == [instr_list[1] EXCEPT !.has_label = TRUE, !.label = None]
             e(k) == IF k = 1 THEN head ELSE instr_list[k]
  <1>1. /\ instr_list' = [k \in 1..m |-> e(k)] /\ m \in Nat
        /\ instr_list \in Seq(Instr)
        /\ phase' = "done" /\ phase # "done"
        /\ UNCHANGED <<directed, inserted>> /\ UNCHANGED j
    <2>1. instr_list' = [k \in 1..m |-> e(k)]
      BY DEF WalkDone
    <2>2. m \in Nat /\ instr_list \in Seq(Instr)
      BY DEF IInv, TypeOK
    <2>3. /\ phase' = "done" /\ phase # "done"
          /\ UNCHANGED <<directed, inserted>> /\ UNCHANGED j
      BY DEF WalkDone
    <2> QED BY <2>1, <2>2, <2>3
  <1>2. 1 \in 1..m => /\ head \in Instr /\ KeepsPlace(instr_list[1], head)
                      /\ SameOperand(head, instr_list[1])
    <2> SUFFICES ASSUME instr_list[1] \in Instr
                 PROVE  /\ head \in Instr /\ KeepsPlace(instr_list[1], head)
                        /\ SameOperand(head, instr_list[1])
      BY <1>1
    <2> QED BY DEF Instr, KeepsPlace, SameOperand, None
  <1> HIDE DEF head
  <1>3. Len(instr_list') = m
    <2>1. \A k \in 1..m : e(k) \in Instr
      BY <1>1, <1>2
    <2> HIDE DEF e, m
    <2>2. instr_list' \in Seq(Instr) /\ DOMAIN instr_list' = 1..m
      BY <1>1, <2>1
    <2> QED BY <1>1, <2>2
  <1>4. \A k \in 1..m : KeepsPlace(instr_list[k], instr_list'[k])
    BY <1>1, <1>2 DEF KeepsPlace
  <1>5. \A k \in 1..m : /\ SameOperand(instr_list'[k], instr_list[k])
                        /\ SameLabel(instr_list'[k], instr_list[k]) \/ k = 1
    BY <1>1, <1>2 DEF SameLabel, SameOperand
  <1>6. Forward'
    <2>1. ASSUME NEW k \in 1..m
          PROVE  /\ Main(k)' <=> Main(k)
                 /\ Resolves(k)' <=> Resolves(k)
      BY <1>1, <1>4 DEF Main, Original, Resolves, KeepsPlace
    <2>2. ASSUME NEW k \in 1..m
          PROVE  /\ instr_list'[k].jump = instr_list[k].jump
                 /\ instr_list'[k].back = instr_list[k].back
      BY <1>4, <1>5 DEF KeepsPlace, SameOperand
    <2> QED BY <1>1, <1>3, <2>1, <2>2 DEF ListInv, Forward
  <1> QED BY <1>1, <1>3, <1>4, <1>5, <1>6, ListKept

\* The list a program is generated with, along the whole run of it.
LEMMA ListNext == IInv /\ ListInv /\ [Next]_vars => ListInv'
  <1> SUFFICES ASSUME IInv, ListInv, [Next]_vars PROVE ListInv'
    OBVIOUS
  <1>1. CASE \/ InsertFails \/ InsertDone \/ NumberDone
             \/ PickBranchIdx \/ EmptyProgram
    <2>1. /\ phase # "done" /\ UNCHANGED <<directed, inserted, instr_list>>
          /\ UNCHANGED j
      BY <1>1 DEF InsertFails, InsertDone, NumberDone, PickBranchIdx, EmptyProgram
    <2>2. Forward'
      BY <2>1 DEF ListInv, Forward, Main, Original, Resolves
    <2> QED BY <2>1, <2>2, ListKept DEF KeepsPlace, SameLabel, SameOperand
  <1>2. CASE UNCHANGED vars
    <2>1. ListInv
      OBVIOUS
    <2> QED BY <1>2, <2>1 DEF vars, ListInv, Whole, WholeAt, Holds, Once,
                      Faithful, AsMade, SameUse, Forward, Main, Original, Resolves
  <1>3. CASE InsertDirected
    BY <1>3, WholeInserted, OnceInserted, FaithfulInserted DEF ListInv
  <1> QED BY <1>1, <1>2, <1>3, ListGenerated, ListNumbered, ListWalked, ListDone
          DEF Next

\* What a directed stream brings stays in the list, in one piece, for the whole run.
THEOREM ListInductive == FlowSpec => [](IInv /\ ListInv)
  <1>1. FlowInit => IInv /\ ListInv
    <2>1. FlowInit => IInv
      BY InvInit DEF FlowInit
    <2>2. FlowInit => ListInv
      BY DEF FlowInit, Init, ListInv, Whole, Once, Faithful, Forward
    <2> QED BY <2>1, <2>2
  <1>2. IInv /\ ListInv /\ [FlowNext]_flowVars => (IInv /\ ListInv)'
    <2> SUFFICES ASSUME IInv, ListInv, [FlowNext]_flowVars
                 PROVE  IInv' /\ ListInv'
      OBVIOUS
    <2>1. [Next]_vars
      BY DEF FlowNext, flowVars, Generate, Start, Continue, Jump, MoveTo
    <2> QED BY <2>1, ListNext, InvNext
  <1> QED BY <1>1, <1>2, PTL DEF FlowSpec

\* A shuffle of 0..n-1, and the label that follows the t-th one: the last jump
\* goes to the instruction behind the chain.
IsShuffle(n, order) ==
    /\ order \in [0 .. n - 1 -> 0 .. n - 1]
    /\ \A a, b \in 0 .. n - 1 : order[a] = order[b] => a = b
    /\ \A k \in 0 .. n - 1 : \E t \in 0 .. n - 1 : order[t] = k

NextLabel(n, order, t) == IF t = n - 1 THEN n ELSE order[t + 1]

\* A chain of n jumps, position by position: the jump with label k stands at k + 2.
ChainOf(n, order, d) ==
    /\ d[1].jump /\ ~d[1].branch /\ d[1].imm = order[0] /\ ~d[1].back
    /\ \A t \in 0 .. n - 1 :
          LET x == d[order[t] + 2]
          IN  /\ x.jump /\ ~x.branch /\ x.has_label /\ x.label = order[t]
              /\ x.imm = NextLabel(n, order, t)
              /\ x.back <=> NextLabel(n, order, t) < order[t]
    /\ d[n + 2].has_label /\ d[n + 2].label = n
    /\ ~d[n + 2].jump /\ ~d[n + 2].assigned

\* What riscv_jal_instr hands over is such a chain.
LEMMA ChainFields ==
    ASSUME NEW s, NEW n \in Nat \ {0}, NEW order, NEW e \in BOOLEAN,
           IsShuffle(n, order)
    PROVE  ChainOf(n, order, JalStream(s, n, order, e))
  <1> DEFINE d == JalStream(s, n, order, e)
             Atomic(k) == [NewInstr(s, k, FALSE) EXCEPT !.atomic = TRUE]
  <1>1. d[1].jump /\ ~d[1].branch /\ d[1].imm = order[0] /\ ~d[1].back
    <2>1. 1 \in 1 .. n + 2
      OBVIOUS
    <2>2. d[1] = [Atomic(1) EXCEPT !.jump = TRUE, !.imm = order[0]]
      BY <2>1 DEF JalStream
    <2> QED BY <2>2 DEF NewInstr
  <1>2. /\ d[n + 2].has_label /\ d[n + 2].label = n
        /\ ~d[n + 2].jump /\ ~d[n + 2].assigned
    <2>1. n + 2 \in 1 .. n + 2 /\ n + 2 # 1
      OBVIOUS
    <2>2. d[n + 2] = [Atomic(n + 2) EXCEPT !.label = n, !.branch = e]
      BY <2>1 DEF JalStream
    <2> QED BY <2>2 DEF NewInstr
  <1>3. ASSUME NEW t \in 0 .. n - 1
        PROVE  LET x == d[order[t] + 2]
               IN  /\ x.jump /\ ~x.branch /\ x.has_label /\ x.label = order[t]
                   /\ x.imm = NextLabel(n, order, t)
                   /\ x.back <=> NextLabel(n, order, t) < order[t]
    <2> DEFINE k == order[t]
               g == NextLabel(n, order, t)
    <2>1. k \in 0 .. n - 1
      BY DEF IsShuffle
    <2>2. At(n, order, k) = t
      BY DEF At, IsShuffle
    <2>3. JumpTarget(n, order, k) = g
      BY <2>2 DEF JumpTarget, NextLabel
    <2> HIDE DEF k, g
    <2>4. k + 2 \in 1 .. n + 2 /\ k + 2 # 1 /\ k + 2 # n + 2 /\ (k + 2) - 2 = k
      BY <2>1
    <2>5. d[k + 2] = [Atomic(k + 2) EXCEPT !.jump = TRUE, !.label = k, !.imm = g,
                                           !.back = GoesBack(k, g)]
      BY <2>3, <2>4 DEF JalStream
    <2>6. LET x == d[k + 2]
          IN  /\ x.jump /\ ~x.branch /\ x.has_label /\ x.label = k /\ x.imm = g
              /\ x.back <=> g < k
      BY <2>5 DEF NewInstr, GoesBack
    <2> QED BY <2>6 DEF k, g
  <1> HIDE DEF d
  <1>4. ChainOf(n, order, d)
    BY <1>1, <1>2, <1>3 DEF ChainOf
  <1> QED BY <1>4 DEF d

\* The labels of a shuffle.
LEMMA NextInside ==
    ASSUME NEW n \in Nat \ {0}, NEW order, IsShuffle(n, order), NEW t \in 0 .. n - 1
    PROVE  /\ NextLabel(n, order, t) \in 0..n
           /\ NextLabel(n, order, t) # order[t]
           /\ order[t] \in 0 .. n - 1
  <1>1. CASE t = n - 1
    BY <1>1 DEF IsShuffle, NextLabel
  <1>2. CASE t # n - 1
    <2>1. t + 1 \in 0 .. n - 1 /\ t + 1 # t
      BY <1>2
    <2>2. order[t + 1] \in 0 .. n - 1 /\ order[t + 1] # order[t] /\ order[t] \in 0 .. n - 1
      BY <2>1 DEF IsShuffle
    <2> QED BY <1>2, <2>2 DEF NextLabel
  <1> QED BY <1>1, <1>2

\* A chain carries every label of 0..n, each behind its first instruction.
LEMMA ChainLabels ==
    ASSUME NEW n \in Nat \ {0}, NEW order, NEW d,
           IsShuffle(n, order), ChainOf(n, order, d), NEW v \in 0..n
    PROVE  d[v + 2].has_label /\ d[v + 2].label = v
  <1>1. CASE v = n
    BY <1>1 DEF ChainOf
  <1>2. CASE v # n
    <2>1. PICK t \in 0 .. n - 1 : order[t] = v
      BY <1>2 DEF IsShuffle
    <2> QED BY <2>1 DEF ChainOf
  <1> QED BY <1>1, <1>2

\* The shuffle of a stream that is a jump chain.
LEMMA ChainShuffle ==
    ASSUME NEW s, NEW d, JumpChain(s, d), Len(d) \in Nat
    PROVE  \E n \in Nat \ {0} : \E order :
              n + 2 = Len(d) /\ IsShuffle(n, order) /\ ChainOf(n, order, d)
  <1> DEFINE n == Len(d) - 2
  <1>1. PICK order \in [0 .. n - 1 -> 0 .. n - 1], e \in BOOLEAN :
           /\ \A a, b \in 0 .. n - 1 : order[a] = order[b] => a = b
           /\ \A k \in 0 .. n - 1 : \E t \in 0 .. n - 1 : order[t] = k
           /\ d = JalStream(s, n, order, e)
    BY DEF JumpChain
  <1>2. n > 0
    BY DEF JumpChain
  <1>3. n \in Nat \ {0} /\ n + 2 = Len(d)
    BY <1>2
  <1> HIDE DEF n
  <1>4. IsShuffle(n, order)
    BY <1>1 DEF IsShuffle
  <1>5. ChainOf(n, order, d)
    BY <1>1, <1>3, <1>4, ChainFields
  <1> QED BY <1>3, <1>4, <1>5

\* The jumps of a chain stay inside it.
LEMMA ChainContained ==
    ASSUME NEW s, NEW d, JumpChain(s, d), Len(d) \in Nat PROVE Contained(d)
  <1>1. PICK n \in Nat \ {0} : \E order :
           n + 2 = Len(d) /\ IsShuffle(n, order) /\ ChainOf(n, order, d)
    BY ChainShuffle
  <1>2. PICK order : n + 2 = Len(d) /\ IsShuffle(n, order) /\ ChainOf(n, order, d)
    BY <1>1
  <1>3. ASSUME NEW v \in 0..n
        PROVE  v + 2 \in 2..Len(d) /\ d[v + 2].has_label /\ d[v + 2].label = v
    BY <1>2, ChainLabels
  <1>4. ASSUME NEW k \in 1..Len(d), d[k].jump \/ (d[k].branch /\ d[k].assigned)
        PROVE  \E m \in 2..Len(d) : /\ d[m].has_label /\ d[m].label = d[k].imm
                                    /\ d[k].imm # None
                                    /\ IF d[k].back THEN m <= k ELSE m > k
    <2>1. CASE k = 1
      <3>1. order[0] \in 0 .. n - 1
        BY <1>2 DEF IsShuffle
      <3>2. order[0] \in 0..n /\ order[0] + 2 > 1 /\ order[0] # None
        BY <3>1 DEF None
      <3>3. d[1].imm = order[0] /\ ~d[1].back
        BY <1>2 DEF ChainOf
      <3> QED BY <2>1, <3>2, <3>3, <1>3
    <2>2. CASE k = n + 2
      BY <2>2, <1>2, <1>4 DEF ChainOf
    <2>3. CASE k # 1 /\ k # n + 2
      <3>1. k - 2 \in 0 .. n - 1
        BY <2>3, <1>2
      <3>2. PICK t \in 0 .. n - 1 : order[t] = k - 2
        BY <3>1, <1>2 DEF IsShuffle
      <3>3. order[t] + 2 = k
        BY <3>1, <3>2
      <3> DEFINE g == NextLabel(n, order, t)
      <3>4. g \in 0..n /\ g # order[t] /\ order[t] \in 0 .. n - 1
        BY <1>2, NextInside
      <3>5. d[k].imm = g /\ (d[k].back <=> g < order[t])
        BY <3>3, <1>2 DEF ChainOf
      <3>6. g + 2 \in 2..Len(d) /\ d[g + 2].has_label /\ d[g + 2].label = g
        BY <3>4, <1>3
      <3> HIDE DEF g
      <3>7. /\ g < order[t] => g + 2 <= k
            /\ ~(g < order[t]) => g + 2 > k
            /\ g # None
        BY <3>3, <3>4 DEF None
      <3> QED BY <3>5, <3>6, <3>7
    <2> QED BY <2>1, <2>2, <2>3
  <1> QED BY <1>4 DEF Contained

\* The directed streams of a state, as OperandAssumption has them.
LEMMA StreamOperands ==
    ASSUME IInv, NEW s \in 1..inserted
    PROVE  /\ s \in 1..Len(directed)
           /\ directed[s] \in Seq(Instr) /\ Len(directed[s]) \in Nat
           /\ Contained(directed[s])
           /\ \/ JumpChain(s, directed[s])
              \/ \A k \in 1..Len(directed[s]) : ~directed[s][k].jump
  <1>1. /\ directed \in DirectedChoices /\ inserted \in 0..Len(directed)
        /\ Len(directed) \in Nat
    BY DirectedAssumption DEF IInv, TypeOK
  <1>2. s \in 1..Len(directed)
    BY <1>1
  <1>3. directed[s] \in Seq(Instr) /\ Len(directed[s]) \in Nat
    BY <1>1, <1>2, StreamShape
  <1> QED BY <1>1, <1>2, <1>3, OperandAssumption, ChainContained

\* "j" has passed every instruction of a finished program.
LEMMA DoneInv == IInv /\ phase = "done" => j = Len(instr_list) + 1
  BY DEF IInv, Progress

\* A label is a number or a name, and never the target of a branch in a program
\* without numeric labels.
LEMMA NobodysLabel ==
    ASSUME IInv, NEW q \in 1..Len(instr_list) PROVE ~Carries(q, NoLabel)
  <1>1. instr_list[q] \in Instr
    BY DEF IInv, TypeOK
  <1>2. instr_list[q].label \in Nat \cup {None}
    BY <1>1 DEF Instr
  <1> QED BY <1>2 DEF Carries, NoLabel, None

\* What an operand of a finished program needs to find its label.
Finds(p) == (IF instr_list[p].back THEN Behind(p) ELSE Ahead(p)) # {}

\* A branch that the post-process resolved has its label from there.
LEMMA ResolvedFinds ==
    ASSUME IInv, ListInv, phase = "done", NEW p \in 1..Len(instr_list), Resolves(p)
    PROVE  Finds(p) <=> ~NoMain
  <1>1. p < j /\ Len(instr_list) \in Nat
    BY DoneInv DEF IInv, TypeOK
  <1>2. ~instr_list[p].back
    BY <1>1 DEF ListInv, Forward
  <1>3. IF NoMain THEN instr_list[p].imm = NoLabel
        ELSE \E q \in (p + 1)..Len(instr_list) : PrintsLabel(q, instr_list[p].imm)
    BY <1>1, InvResolves DEF BranchesResolved
  <1>4. ASSUME NoMain PROVE ~Finds(p)
    <2>1. ASSUME NEW q \in (p + 1)..Len(instr_list) PROVE ~Carries(q, instr_list[p].imm)
      <3>1. q \in 1..Len(instr_list)
        BY <1>1
      <3> QED BY <3>1, <1>3, <1>4, NobodysLabel
    <2> QED BY <2>1, <1>2 DEF Finds, Ahead
  <1>5. ASSUME ~NoMain PROVE Finds(p)
    <2>1. PICK q \in (p + 1)..Len(instr_list) : PrintsLabel(q, instr_list[p].imm)
      BY <1>3, <1>5
    <2> QED BY <2>1, <1>2 DEF Finds, Ahead, PrintsLabel, Carries
  <1> QED BY <1>4, <1>5

\* An operand that a directed stream gave has its label from its own stream,
\* which stands around it unbroken.
LEMMA StreamFinds ==
    ASSUME IInv, ListInv, phase = "done", NEW p \in 1..Len(instr_list),
           HasOperand(p), ~Resolves(p)
    PROVE  Finds(p)
  <1>1. Len(instr_list) \in Nat
    BY DEF IInv, TypeOK
  <1> DEFINE s == instr_list[p].stream
             k == instr_list[p].pos
             d == directed[s]
  <1>2. ~Main(p)
    BY DEF ListInv, Forward, HasOperand, Resolves
  <1>3. WholeAt(p, s, k) /\ SameUse(p)
    BY <1>2 DEF ListInv, Whole, Faithful, AsMade
  <1>4. SameKind(instr_list[p], d[k]) /\ SameOperand(instr_list[p], d[k])
    BY <1>3 DEF SameUse, Original
  <1>5. s \in 1..inserted /\ k \in 1..Len(d)
    BY <1>3 DEF WholeAt
  <1>6. Len(d) \in Nat /\ Contained(d)
    BY <1>5, StreamOperands
  <1>7. d[k].jump \/ (d[k].branch /\ d[k].assigned)
    BY <1>2, <1>4 DEF HasOperand, SameKind, Resolves, Original
  <1>8. PICK m \in 2..Len(d) : /\ d[m].has_label /\ d[m].label = d[k].imm
                               /\ IF d[k].back THEN m <= k ELSE m > k
    <2> HIDE DEF d, k
    <2> QED BY <1>5, <1>6, <1>7 DEF Contained
  <1> DEFINE q == p - k + m
  <1>9. /\ p - k >= 0 /\ p - k + Len(d) <= Len(instr_list)
        /\ \A n \in 1..Len(d) : Holds(p - k + n, s, n)
    BY <1>3 DEF WholeAt
  <1>10. /\ q \in 1..Len(instr_list) /\ q # 1
         /\ IF d[k].back THEN q <= p ELSE q > p
    <2> HIDE DEF d, k, s
    <2> QED BY <1>1, <1>5, <1>6, <1>8, <1>9
  <1>11. instr_list[q].stream = s /\ instr_list[q].pos = m
    <2> HIDE DEF d, k, s
    <2>1. m \in 1..Len(d)
      BY <1>6, <1>8
    <2> QED BY <1>9, <2>1 DEF Holds
  <1>12. SameLabel(instr_list[q], d[m])
    <2>1. s # 0
      BY <1>5 DEF IInv, TypeOK
    <2> HIDE DEF q, k
    <2>2. ~Main(q)
      <3> HIDE DEF s
      <3> QED BY <1>10, <1>11, <2>1 DEF IInv, Shape
    <2>3. AsMade(q)
      BY <1>10, <2>2 DEF ListInv, Faithful
    <2> QED BY <1>11, <2>3 DEF AsMade, Original
  <1>13. Carries(q, instr_list[p].imm)
    BY <1>4, <1>8, <1>12 DEF Carries, SameLabel, SameOperand
  <1>14. instr_list[p].back = d[k].back
    BY <1>4 DEF SameOperand
  <1> HIDE DEF q, d, k, s
  <1>15. CASE instr_list[p].back
    <2>1. q \in Behind(p)
      BY <1>1, <1>10, <1>13, <1>14, <1>15 DEF Behind
    <2> QED BY <2>1, <1>15 DEF Finds
  <1>16. CASE ~instr_list[p].back
    <2>1. q \in Ahead(p)
      BY <1>1, <1>10, <1>13, <1>14, <1>16 DEF Ahead
    <2> QED BY <2>1, <1>16 DEF Finds
  <1> QED BY <1>15, <1>16

\* Both kinds of operands together.
LEMMA InvOperands == IInv /\ ListInv => OperandsDefined
  <1> SUFFICES ASSUME IInv, ListInv, phase = "done"
               PROVE  Assembles <=> ~(NoMain /\ \E p \in 1..Len(instr_list) : Resolves(p))
    BY DEF OperandsDefined
  <1>1. Assembles <=> \A p \in 1..Len(instr_list) : HasOperand(p) => Finds(p)
    BY DEF Assembles, Finds
  <1>2. \A p \in 1..Len(instr_list) : Resolves(p) => HasOperand(p)
    BY DEF Resolves, HasOperand
  <1>3. \A p \in 1..Len(instr_list) : Resolves(p) => (Finds(p) <=> ~NoMain)
    BY ResolvedFinds
  <1>4. \A p \in 1..Len(instr_list) : HasOperand(p) /\ ~Resolves(p) => Finds(p)
    BY StreamFinds
  <1> QED BY <1>1, <1>2, <1>3, <1>4

\* A generated program assembles, every branch and jump operand of it finds a
\* label in the direction it names (post_process_instr, riscv_jal_instr), unless
\* it has no random instruction and a branch that its streams left open.
THEOREM OperandsFindLabels == FlowSpec => []OperandsDefined
  BY InvOperands, ListInductive, PTL

\* Where the hart stands: nowhere before the program is finished, and then on
\* an instruction or behind the last one.
AtRun ==
    /\ pc \in 0..End
    /\ pc # 0 => phase = "done"
    /\ pc = 0 => trail = <<>>

\* The t-th instruction of a chain of n jumps that is entered at its head.
PathPos(n, order, t) ==
    IF t = 1 THEN 1 ELSE IF t <= n + 1 THEN order[t - 2] + 2 ELSE n + 2

\* Stream s is a chain of n jumps.
ChainAt(s, n, order) ==
    /\ n \in Nat \ {0} /\ n + 2 = Len(directed[s])
    /\ IsShuffle(n, order) /\ ChainOf(n, order, directed[s])

\* "r" runs along the chain that stream s is.
AlongPath(s, r) ==
    \A n, order : ChainAt(s, n, order) =>
        /\ Len(r) <= n + 2
        /\ \A t \in 1..Len(r) : instr_list[r[t]].pos = PathPos(n, order, t)

\* The positions run since the stream at p was entered are all in it, and they
\* follow the chain that was entered at its head.
PathAt(tr, p) ==
    LET s == instr_list[p].stream
        r == Append(tr, p)
    IN  /\ Len(tr) <= End
        /\ \A t \in 1..Len(r) : /\ r[t] \in 1..Len(instr_list)
                                /\ instr_list[r[t]].stream = s
        /\ s # 0 /\ instr_list[r[1]].pos = 1 => AlongPath(s, r)

OnPath == pc \in 1..Len(instr_list) => PathAt(trail, pc)

FlowInv == /\ IInv /\ ListInv /\ AtRun
           /\ trail \in Seq(Nat) /\ OnPath

\* A finished program stays as it is.
LEMMA DoneStays == IInv /\ phase = "done" => ~Next
  BY DEF Next, GenMainStream, InsertDirected, InsertFails, InsertDone, NumberInstr,
         NumberDone, PickBranchIdx, AssignBranch, PassInstr, EmptyProgram, WalkDone

\* The instruction at position p of a directed stream, its place in the stream.
LEMMA StreamAt ==
    ASSUME IInv, ListInv, NEW p \in 1..Len(instr_list), instr_list[p].stream # 0
    PROVE  LET s == instr_list[p].stream
               n == instr_list[p].pos
           IN  /\ ~Main(p) /\ s \in 1..inserted
               /\ Len(directed[s]) \in Nat /\ n \in 1..Len(directed[s])
               /\ p - n >= 0 /\ p - n + Len(directed[s]) <= Len(instr_list)
               /\ \A k \in 1..Len(directed[s]) :
                     /\ p - n + k \in 1..Len(instr_list)
                     /\ instr_list[p - n + k].stream = s
                     /\ instr_list[p - n + k].pos = k
  <1> DEFINE s == instr_list[p].stream
             n == instr_list[p].pos
             l == Len(directed[s])
  <1>1. ~Main(p)
    BY DEF IInv, Shape
  <1>2. WholeAt(p, s, n)
    BY <1>1 DEF ListInv, Whole
  <1>3. s \in 1..inserted /\ n \in 1..l /\ p - n >= 0 /\ p - n + l <= Len(instr_list)
        /\ \A k \in 1..l : instr_list[p - n + k].stream = s /\ instr_list[p - n + k].pos = k
    BY <1>2 DEF WholeAt, Holds
  <1>4. l \in Nat /\ Len(instr_list) \in Nat
    BY <1>3, StreamOperands DEF IInv, TypeOK
  <1> HIDE DEF n, l
  <1>5. \A k \in 1..l : p - n + k \in 1..Len(instr_list)
    BY <1>3, <1>4
  <1> QED BY <1>1, <1>3, <1>4, <1>5 DEF n, l

\* What an instruction of a directed stream still has from it.
LEMMA StreamFields ==
    ASSUME IInv, ListInv, NEW p \in 1..Len(instr_list), instr_list[p].stream # 0
    PROVE  LET d == directed[instr_list[p].stream][instr_list[p].pos]
           IN  /\ SameKind(instr_list[p], d)
               /\ Resolves(p) <=> d.branch /\ ~d.assigned
               /\ ~Resolves(p) => SameOperand(instr_list[p], d)
               /\ instr_list[p].pos # 1 => SameLabel(instr_list[p], d)
  <1>1. ~Main(p) /\ instr_list[p].pos \in Nat /\ p - instr_list[p].pos >= 0
    BY StreamAt
  <1>2. instr_list[p].pos # 1 /\ instr_list[p].pos # 0 => p # 1
    BY <1>1
  <1>3. instr_list[p].pos # 0
    BY StreamAt
  <1>4. SameUse(p) /\ (instr_list[p].pos # 1 => SameLabel(instr_list[p], Original(p)))
    BY <1>1, <1>2, <1>3 DEF ListInv, Faithful, AsMade
  <1>5. Resolves(p) <=> Original(p).branch /\ ~Original(p).assigned
    BY <1>1, <1>4 DEF SameUse, SameKind, Resolves
  <1> QED BY <1>4, <1>5 DEF SameUse, Original

\* Control reaches a directed stream from outside by its head or by a label of its own.
LEMMA EntryNext ==
    ASSUME FlowInv, FlowNext, pc' # pc
    PROVE  EnteredAtHead(pc, pc') \/ HasLabels(instr_list[pc'].stream)
  <1>1. Len(instr_list) \in Nat
    BY DEF FlowInv, IInv, TypeOK
  <1> DEFINE q == pc'
  <1> SUFFICES ASSUME q \in 1..Len(instr_list), instr_list[q].stream # 0,
                      instr_list[q].pos # 1
               PROVE  \/ pc > 0 /\ instr_list[q].stream = instr_list[pc].stream
                      \/ HasLabels(instr_list[q].stream)
    <2>1. q \in 1..End
      BY <1>1 DEF FlowNext, Generate, Start, Continue, Jump, MoveTo, Running, End
    <2> QED BY <1>1, <2>1 DEF EnteredAtHead, End
  <1> DEFINE s == instr_list[q].stream
             n == instr_list[q].pos
  <1>2. /\ Len(directed[s]) \in Nat /\ n \in 1..Len(directed[s]) /\ q - n >= 0
        /\ \A k \in 1..Len(directed[s]) : instr_list[q - n + k].stream = s
    BY StreamAt DEF FlowInv
  <1>3. CASE Start
    <2>1. q = 1
      BY <1>3 DEF Start
    <2> QED BY <2>1, <1>2
  <1>4. CASE Continue
    <2>1. q = pc + 1 /\ pc \in 1..Len(instr_list)
      BY <1>4 DEF Continue, MoveTo, Running
    <2> HIDE DEF q, n, s
    <2>2. n - 1 \in 1..Len(directed[s]) /\ q - n + (n - 1) = pc
      BY <1>1, <1>2, <2>1 DEF n
    <2>3. instr_list[pc].stream = s
      BY <1>2, <2>2
    <2> QED BY <2>1, <2>3 DEF s
  <1>5. CASE Jump
    <2>1. IsTarget(pc, q)
      BY <1>5 DEF Jump, MoveTo
    <2>2. instr_list[q].has_label
      BY <2>1 DEF IsTarget, Ahead, Behind, Carries
    <2>3. directed[s][n].has_label
      BY <2>2, StreamFields DEF SameLabel, FlowInv
    <2>4. directed[s] \in Seq(Instr)
      BY StreamAt, StreamOperands DEF FlowInv
    <2>5. n \in DOMAIN directed[s]
      BY <1>2, <2>4
    <2> QED BY <2>3, <2>5 DEF HasLabels
  <1> QED BY <1>3, <1>4, <1>5 DEF FlowNext, Generate

\* A jump of a chain finds the label it names in its own chain: between a jump
\* and the label of that name there are only instructions of the same chain.
LEMMA ChainTarget ==
    ASSUME IInv, ListInv,
           NEW p \in 1..Len(instr_list), instr_list[p].stream # 0,
           NEW n, NEW order, ChainAt(instr_list[p].stream, n, order),
           NEW g \in 0..n, instr_list[p].imm = g,
           IF instr_list[p].back THEN g + 2 <= instr_list[p].pos
                                 ELSE g + 2 > instr_list[p].pos,
           NEW q \in 1..Len(instr_list), IsTarget(p, q)
    PROVE  instr_list[q].stream = instr_list[p].stream /\ instr_list[q].pos = g + 2
  <1> DEFINE s == instr_list[p].stream
             k == instr_list[p].pos
             d == directed[s]
             Pos(m) == p - k + m
  <1>1. /\ Len(d) = n + 2 /\ n \in Nat \ {0} /\ k \in 1 .. n + 2
        /\ p - k >= 0 /\ p - k + (n + 2) <= Len(instr_list)
        /\ \A m \in 1 .. n + 2 : /\ Pos(m) \in 1..Len(instr_list)
                                 /\ instr_list[Pos(m)].stream = s
                                 /\ instr_list[Pos(m)].pos = m
    BY StreamAt DEF ChainAt
  <1>2. \A v \in 0..n : d[v + 2].has_label /\ d[v + 2].label = v
    BY ChainLabels DEF ChainAt
  <1>3. s # 0 /\ Len(instr_list) \in Nat
    BY DEF IInv, TypeOK
  <1>4. ASSUME NEW m \in 2 .. n + 2
        PROVE  instr_list[Pos(m)].has_label /\ instr_list[Pos(m)].label = m - 2
    <2> HIDE DEF s, k, Pos, d
    <2>1. m \in 1 .. n + 2 /\ m # 1 /\ m - 2 \in 0..n /\ (m - 2) + 2 = m
      BY <1>1
    <2>2. SameLabel(instr_list[Pos(m)], d[m])
      BY <1>1, <1>3, <2>1, StreamFields DEF d
    <2>3. d[m].has_label /\ d[m].label = m - 2
      BY <1>2, <2>1
    <2> QED BY <2>2, <2>3 DEF SameLabel
  <1> DEFINE goal == Pos(g + 2)
  <1>5. goal \in 1..Len(instr_list) /\ Carries(goal, instr_list[p].imm)
    <2>1. g + 2 \in 2 .. n + 2 /\ g + 2 \in 1 .. n + 2 /\ (g + 2) - 2 = g
      BY <1>1
    <2> HIDE DEF Pos, s, k, d
    <2> QED BY <2>1, <1>1, <1>4 DEF Carries
  <1>6. PICK m \in 2 .. n + 2 : q = Pos(m)
    <2>1. p = Pos(k) /\ p \in Nat /\ q \in Nat /\ k \in Nat /\ Len(instr_list) \in Nat
      BY <1>1, <1>3
    <2>2. CASE instr_list[p].back
      <3>1. goal <= p
        BY <2>2, <2>1, <1>1
      <3>2. goal \in Behind(p)
        BY <3>1, <2>1, <1>5 DEF Behind
      <3>3. goal <= q /\ q <= p
        BY <2>2, <3>2 DEF IsTarget, Behind
      <3> HIDE DEF k
      <3>4. q - p + k \in 2 .. n + 2 /\ q = Pos(q - p + k)
        BY <3>3, <2>1, <1>1
      <3> QED BY <3>4
    <2>3. CASE ~instr_list[p].back
      <3>1. goal > p
        BY <2>3, <2>1, <1>1
      <3>2. goal \in Ahead(p)
        BY <3>1, <2>1, <1>3, <1>5 DEF Ahead
      <3>3. q <= goal /\ q > p
        BY <2>3, <3>2, <2>1 DEF IsTarget, Ahead
      <3>4. /\ k \in 1 .. n + 2 /\ n \in Nat /\ g \in 0..n
            /\ goal = p - k + (g + 2) /\ p \in Nat /\ q \in Nat
        BY <2>1, <1>1
      <3> HIDE DEF k, goal
      <3>5. q - p + k \in 2 .. n + 2 /\ q = p - k + (q - p + k)
        BY <3>3, <3>4
      <3> QED BY <3>5
    <2> QED BY <2>2, <2>3
  <1>7. instr_list[q].label = g
    BY DEF IsTarget, Ahead, Behind, Carries
  <1> HIDE DEF Pos, s, k, d
  <1>8. m = g + 2
    <2>1. m - 2 = g
      BY <1>4, <1>6, <1>7
    <2>2. m \in Int /\ g \in Int
      BY <1>1
    <2> QED BY <2>1, <2>2
  <1>9. instr_list[q].stream = s /\ instr_list[q].pos = m
    <2>1. m \in 1 .. n + 2
      BY <1>1
    <2> QED BY <1>1, <1>6, <2>1
  <1> QED BY <1>8, <1>9 DEF s

\* At p stands the t-th instruction of the path of a chain, but not the last.
InPath(p, n, order, t) ==
    /\ p \in 1..Len(instr_list) /\ instr_list[p].stream # 0
    /\ ChainAt(instr_list[p].stream, n, order)
    /\ t \in 1 .. n + 1 /\ instr_list[p].pos = PathPos(n, order, t)

\* Such an instruction is a jump, and it goes to the next one of the path.
LEMMA PathStep ==
    ASSUME IInv, ListInv, phase = "done",
           NEW p, NEW n, NEW order, NEW t, InPath(p, n, order, t)
    PROVE  /\ instr_list[p].jump
           /\ \A q \in 1..Len(instr_list) : IsTarget(p, q) =>
                 /\ instr_list[q].stream = instr_list[p].stream
                 /\ instr_list[q].pos = PathPos(n, order, t + 1)
  <1> USE DEF InPath
  <1> DEFINE s == instr_list[p].stream
             k == instr_list[p].pos
             d == directed[s]
  <1>1. /\ n \in Nat \ {0} /\ n + 2 = Len(d) /\ IsShuffle(n, order)
        /\ ChainOf(n, order, d) /\ SameKind(instr_list[p], d[k])
        /\ ~d[k].branch => SameOperand(instr_list[p], d[k])
    BY StreamFields DEF ChainAt
  <1> DEFINE g == IF t = 1 THEN order[0] ELSE NextLabel(n, order, t - 2)
  <1>2. /\ d[k].jump /\ ~d[k].branch /\ d[k].imm = g /\ g \in 0..n
        /\ PathPos(n, order, t + 1) = g + 2
        /\ IF d[k].back THEN g + 2 <= k ELSE g + 2 > k
    <2> HIDE DEF d, k
    <2>1. CASE t = 1
      <3>1. k = 1 /\ order[0] \in 0 .. n - 1
        BY <2>1, <1>1 DEF PathPos, IsShuffle, k
      <3>2. /\ d[k].jump /\ ~d[k].branch /\ d[k].imm = g
            /\ ~d[k].back /\ g \in 0..n /\ g + 2 > k
        BY <2>1, <3>1, <1>1 DEF ChainOf
      <3>3. PathPos(n, order, t + 1) = g + 2
        BY <2>1, <1>1 DEF PathPos
      <3> QED BY <3>2, <3>3
    <2>2. CASE t # 1
      <3>1. t - 2 \in 0 .. n - 1 /\ t <= n + 1 /\ n \in Nat \ {0}
        BY <2>2, <1>1
      <3>2. k = order[t - 2] + 2
        BY <2>2, <3>1 DEF PathPos, k
      <3>3. /\ g \in 0..n /\ g # order[t - 2] /\ order[t - 2] \in 0 .. n - 1
        BY <2>2, <3>1, <1>1, NextInside
      <3>4. /\ d[k].jump /\ ~d[k].branch /\ d[k].imm = NextLabel(n, order, t - 2)
            /\ d[k].back <=> NextLabel(n, order, t - 2) < order[t - 2]
        BY <3>1, <3>2, <1>1 DEF ChainOf
      <3>5. g = NextLabel(n, order, t - 2)
        BY <2>2
      <3>6. PathPos(n, order, t + 1) = g + 2
        <4>1. (t + 1) - 2 = t - 1 /\ (t - 2) + 1 = t - 1 /\ t + 1 # 1
          BY <3>1
        <4>2. CASE t = n + 1
          <5>1. ~(t + 1 <= n + 1) /\ t - 2 = n - 1
            BY <4>2, <3>1
          <5> QED BY <5>1, <4>1, <3>5 DEF PathPos, NextLabel
        <4>3. CASE t # n + 1
          <5>1. t + 1 <= n + 1 /\ t - 2 # n - 1
            BY <4>3, <3>1
          <5> QED BY <5>1, <4>1, <3>5 DEF PathPos, NextLabel
        <4> QED BY <4>2, <4>3
      <3> HIDE DEF g
      <3>7. (g < order[t - 2] => g + 2 <= k) /\ (~(g < order[t - 2]) => g + 2 > k)
        BY <3>1, <3>2, <3>3
      <3> QED BY <3>3, <3>4, <3>5, <3>6, <3>7
    <2> QED BY <2>1, <2>2
  <1>3. /\ instr_list[p].jump /\ instr_list[p].imm = g
        /\ IF instr_list[p].back THEN g + 2 <= k ELSE g + 2 > k
    BY <1>1, <1>2 DEF SameOperand, SameKind
  <1> HIDE DEF g, d
  <1>4. ASSUME NEW q \in 1..Len(instr_list), IsTarget(p, q)
        PROVE  instr_list[q].stream = s /\ instr_list[q].pos = g + 2
    BY <1>2, <1>3, <1>4, ChainTarget
  <1> QED BY <1>2, <1>3, <1>4

\* What a step inside a stream may do.
StepTo(p, q) ==
    /\ instr_list[q].stream = instr_list[p].stream
    /\ \/ ~instr_list[p].jump /\ q = p + 1
       \/ HasOperand(p) /\ IsTarget(p, q)

\* From its last instruction a chain is left, by the branch too that it may be.
LEMMA PathEnd ==
    ASSUME IInv, ListInv, phase = "done",
           NEW p \in 1..Len(instr_list), instr_list[p].stream # 0,
           NEW n, NEW order, ChainAt(instr_list[p].stream, n, order),
           instr_list[p].pos = n + 2,
           NEW q \in 1..Len(instr_list), StepTo(p, q)
    PROVE  FALSE
  <1> DEFINE s == instr_list[p].stream
             d == directed[s]
  <1>1. /\ n \in Nat \ {0} /\ n + 2 = Len(d) /\ ChainOf(n, order, d)
        /\ SameKind(instr_list[p], d[n + 2])
        /\ Resolves(p) <=> d[n + 2].branch /\ ~d[n + 2].assigned
    BY StreamFields DEF ChainAt
  <1>2. HasOperand(p) => ~instr_list[p].back
    <2>1. p < j
      BY DoneInv DEF IInv, TypeOK
    <2>2. HasOperand(p) => Resolves(p)
      BY <1>1 DEF HasOperand, SameKind, ChainOf
    <2> QED BY <2>1, <2>2 DEF ListInv, Forward
  <1>3. q > p /\ instr_list[q].stream = s /\ p \in Nat /\ q \in Nat
    <2>1. Len(instr_list) \in Nat
      BY DEF IInv, TypeOK
    <2> QED BY <1>2, <2>1 DEF StepTo, IsTarget, Ahead
  <1> DEFINE k == instr_list[q].pos
  <1>4. /\ ~Main(q) /\ k \in 1..Len(d) /\ q - k >= 0
        /\ \A m \in 1..Len(d) : /\ q - k + m \in 1..Len(instr_list)
                                /\ instr_list[q - k + m].stream = s
                                /\ instr_list[q - k + m].pos = m
    BY <1>3, StreamAt
  <1> HIDE DEF k, d, s
  <1>5. n + 2 \in 1..Len(d) /\ n + 2 \in Nat
    BY <1>1
  <1> DEFINE last == q - k + (n + 2)
  <1>6. /\ last \in 1..Len(instr_list) /\ instr_list[last].stream = s
        /\ instr_list[last].pos = n + 2
    BY <1>4, <1>5
  \* the chain of q would have a last instruction other than p
  <1>7. last # p
    BY <1>1, <1>3, <1>4
  <1>8. ~Main(p) /\ ~Main(last)
    <2> HIDE DEF last
    <2> QED BY <1>6, StreamAt DEF s
  <1> HIDE DEF last
  <1> QED BY <1>6, <1>7, <1>8 DEF ListInv, Once, s

\* The path of a chain passes every instruction once.
LEMMA PathOnce ==
    ASSUME NEW n \in Nat \ {0}, NEW order, IsShuffle(n, order),
           NEW a \in 1 .. n + 2, NEW b \in 1 .. n + 2,
           PathPos(n, order, a) = PathPos(n, order, b)
    PROVE  a = b
  <1>1. ASSUME NEW t \in 2 .. n + 1
        PROVE  /\ PathPos(n, order, t) = order[t - 2] + 2
               /\ t - 2 \in 0 .. n - 1 /\ order[t - 2] \in 0 .. n - 1
    <2>1. t # 1 /\ t <= n + 1 /\ t - 2 \in 0 .. n - 1
      OBVIOUS
    <2> QED BY <2>1 DEF PathPos, IsShuffle
  <1>2. PathPos(n, order, 1) = 1 /\ PathPos(n, order, n + 2) = n + 2
    BY DEF PathPos
  <1>3. CASE a \in 2 .. n + 1 /\ b \in 2 .. n + 1
    <2>1. order[a - 2] = order[b - 2]
      BY <1>1, <1>3
    <2>2. a - 2 = b - 2
      BY <1>1, <1>3, <2>1 DEF IsShuffle
    <2> QED BY <2>2
  <1>4. (a = 1 \/ a = n + 2 \/ a \in 2 .. n + 1) /\ (b = 1 \/ b = n + 2 \/ b \in 2 .. n + 1)
    OBVIOUS
  <1> QED BY <1>1, <1>2, <1>3, <1>4

\* A stream that has just been entered.
LEMMA PathFresh ==
    ASSUME IInv, NEW q \in 1..Len(instr_list) PROVE PathAt(<<>>, q)
  <1>1. Len(instr_list) \in Nat /\ q \in Nat
    BY DEF IInv, TypeOK
  <1> DEFINE r == Append(<<>>, q)
  <1>2. Len(r) = 1 /\ r[1] = q /\ \A t \in 1..Len(r) : t = 1
    OBVIOUS
  <1> HIDE DEF r
  <1>3. ASSUME instr_list[r[1]].pos = 1 PROVE AlongPath(instr_list[q].stream, r)
    <2>1. \A n \in Nat : \A order : PathPos(n, order, 1) = 1
      BY DEF PathPos
    <2> QED BY <1>2, <1>3, <2>1 DEF AlongPath, ChainAt
  <1>4. Len(<<>>) <= End
    BY <1>1 DEF End
  <1> QED BY <1>2, <1>3, <1>4 DEF PathAt, r

\* Along a chain the path grows by its next instruction, up to the last one.
LEMMA PathGrows ==
    ASSUME IInv, ListInv, phase = "done",
           NEW tr \in Seq(Nat), NEW p \in 1..Len(instr_list), PathAt(tr, p),
           NEW q \in 1..Len(instr_list), StepTo(p, q),
           instr_list[p].stream # 0, instr_list[Append(tr, p)[1]].pos = 1,
           NEW n, NEW order, ChainAt(instr_list[p].stream, n, order)
    PROVE  /\ Len(tr) + 1 < n + 2 /\ Len(tr) + 1 < End
           /\ instr_list[q].pos = PathPos(n, order, Len(tr) + 1 + 1)
  <1> DEFINE r == Append(tr, p)
             len == Len(tr) + 1
             s == instr_list[p].stream
  <1>1. /\ len \in Nat /\ len \in 1..Len(r) /\ Len(r) = len /\ r[len] = p
        /\ p \in Nat /\ Len(instr_list) \in Nat
    BY DEF IInv, TypeOK
  <1>2. AlongPath(s, r)
    BY DEF PathAt
  <1>3. n \in Nat \ {0} /\ n + 2 = Len(directed[s])
    BY DEF ChainAt
  <1>4. len <= n + 2 /\ instr_list[p].pos = PathPos(n, order, len)
    <2> HIDE DEF r, len, s
    <2> QED BY <1>1, <1>2 DEF AlongPath, s
  <1>5. n + 2 <= Len(instr_list)
    <2>1. /\ p - instr_list[p].pos >= 0
          /\ p - instr_list[p].pos + Len(directed[s]) <= Len(instr_list)
          /\ instr_list[p].pos \in Nat
      BY StreamAt
    <2> QED BY <1>1, <1>3, <2>1
  <1> HIDE DEF len, r
  <1>6. len # n + 2
    <2> SUFFICES ASSUME len = n + 2 PROVE FALSE
      OBVIOUS
    <2>1. instr_list[p].pos = n + 2
      BY <1>3, <1>4 DEF PathPos
    <2> QED BY <2>1, PathEnd
  <1>7. len \in 1 .. n + 1 /\ len < n + 2
    BY <1>1, <1>3, <1>4, <1>6
  <1>8. /\ instr_list[p].jump
        /\ IsTarget(p, q) => instr_list[q].pos = PathPos(n, order, len + 1)
    <2>1. InPath(p, n, order, len)
      BY <1>4, <1>7 DEF InPath
    <2> QED BY <2>1, PathStep
  <1>9. instr_list[q].pos = PathPos(n, order, len + 1)
    BY <1>8 DEF StepTo
  <1>10. len < End
    BY <1>1, <1>3, <1>5, <1>7 DEF End
  <1> QED BY <1>7, <1>9, <1>10 DEF len

\* A step inside a stream keeps the path.
LEMMA PathKept ==
    ASSUME IInv, ListInv, phase = "done",
           NEW tr \in Seq(Nat), NEW p \in 1..Len(instr_list), PathAt(tr, p),
           NEW q \in 1..Len(instr_list), StepTo(p, q)
    PROVE  PathAt(IF Len(tr) < End THEN Append(tr, p) ELSE tr, q)
  <1> DEFINE s == instr_list[p].stream
             r == Append(tr, p)
  <1>1. /\ Len(instr_list) \in Nat /\ p \in Nat /\ q \in Nat
        /\ Len(tr) \in Nat /\ r \in Seq(Nat) /\ Len(r) = Len(tr) + 1
        /\ \A t \in 1..Len(tr) : r[t] = tr[t]
        /\ r[Len(r)] = p /\ End \in Nat
    BY DEF IInv, TypeOK, End
  <1>2. /\ Len(tr) <= End
        /\ \A t \in 1..Len(r) : /\ r[t] \in 1..Len(instr_list)
                                /\ instr_list[r[t]].stream = s
        /\ s # 0 /\ instr_list[r[1]].pos = 1 => AlongPath(s, r)
    BY DEF PathAt
  <1> HIDE DEF r, s
  <1>3. CASE Len(tr) < End
    <2> DEFINE u == Append(r, q)
    <2>1. /\ u \in Seq(Nat) /\ Len(u) = Len(r) + 1 /\ u[Len(u)] = q
          /\ \A t \in 1..Len(r) : u[t] = r[t]
          /\ u[1] = r[1]
      BY <1>1
    <2>2. \A t \in 1..Len(u) : t \in 1..Len(r) \/ t = Len(u)
      BY <1>1, <2>1
    <2> HIDE DEF u
    <2>3. \A t \in 1..Len(u) : /\ u[t] \in 1..Len(instr_list)
                               /\ instr_list[u[t]].stream = s
      BY <1>2, <2>1, <2>2 DEF s, StepTo
    <2>4. ASSUME s # 0, instr_list[u[1]].pos = 1, NEW n, NEW order, ChainAt(s, n, order)
          PROVE  /\ Len(u) <= n + 2
                 /\ \A t \in 1..Len(u) : instr_list[u[t]].pos = PathPos(n, order, t)
      <3>1. /\ Len(r) < n + 2
            /\ instr_list[q].pos = PathPos(n, order, Len(r) + 1)
        <4>1. instr_list[Append(tr, p)[1]].pos = 1
          BY <2>1, <2>4 DEF r
        <4>2. /\ Len(tr) + 1 < n + 2
              /\ instr_list[q].pos = PathPos(n, order, Len(tr) + 1 + 1)
          BY <2>4, <4>1, PathGrows DEF s
        <4> QED BY <1>1, <4>2
      <3>2. \A t \in 1..Len(r) : instr_list[r[t]].pos = PathPos(n, order, t)
        BY <1>2, <2>1, <2>4 DEF AlongPath
      <3>3. n \in Nat
        BY <2>4 DEF ChainAt
      <3>4. Len(u) <= n + 2
        BY <1>1, <2>1, <3>1, <3>3
      <3> QED BY <2>1, <2>2, <3>1, <3>2, <3>4
    <2>5. PathAt(r, q)
      <3>1. Len(r) <= End
        BY <1>1, <1>3
      <3>2. s # 0 /\ instr_list[u[1]].pos = 1 => AlongPath(s, u)
        BY <2>4 DEF AlongPath
      <3>3. instr_list[q].stream = s
        BY DEF s, StepTo
      <3> QED BY <2>3, <3>1, <3>2, <3>3 DEF PathAt, u
    <2> QED BY <1>3, <2>5 DEF r
  <1>4. CASE ~(Len(tr) < End)
    <2> DEFINE u == Append(tr, q)
    <2>1. /\ Len(u) = Len(r) /\ u[Len(u)] = q
          /\ \A t \in 1..Len(tr) : u[t] = r[t]
          /\ Len(tr) > 0 /\ u[1] = r[1]
      <3>1. Len(tr) > 0
        BY <1>1, <1>4 DEF End
      <3> QED BY <1>1, <3>1
    <2>2. \A t \in 1..Len(u) : (t \in 1..Len(tr) /\ t \in 1..Len(r)) \/ t = Len(u)
      BY <1>1, <2>1
    <2> HIDE DEF u
    <2>3. \A t \in 1..Len(u) : /\ u[t] \in 1..Len(instr_list)
                               /\ instr_list[u[t]].stream = s
      BY <1>2, <2>1, <2>2 DEF s, StepTo
    <2>4. ASSUME s # 0, instr_list[u[1]].pos = 1, NEW n, NEW order, ChainAt(s, n, order)
          PROVE  FALSE
      <3>1. instr_list[Append(tr, p)[1]].pos = 1
        BY <2>1, <2>4 DEF r
      <3>2. Len(tr) + 1 < End
        BY <2>4, <3>1, PathGrows DEF s
      <3> QED BY <1>1, <1>4, <3>2
    <2>5. PathAt(tr, q)
      <3>1. s # 0 /\ instr_list[u[1]].pos = 1 => AlongPath(s, u)
        BY <2>4 DEF AlongPath
      <3>2. instr_list[q].stream = s
        BY DEF s, StepTo
      <3> QED BY <1>2, <2>3, <3>1, <3>2 DEF PathAt, u
    <2> QED BY <1>4, <2>5
  <1> QED BY <1>3, <1>4

\* A path stays a path while the list stays the same.
LEMMA PathFrame ==
    ASSUME NEW tr, NEW p, UNCHANGED <<instr_list, directed>>
    PROVE  PathAt(tr, p)' <=> PathAt(tr, p)
  BY DEF PathAt, AlongPath, ChainAt, End

\* A step of the running program: to the next instruction, or to a target.
LEMMA MoveKeeps ==
    ASSUME FlowInv, Running, NEW q \in 1..End, MoveTo(q),
           \/ ~instr_list[pc].jump /\ q = pc + 1
           \/ HasOperand(pc) /\ IsTarget(pc, q)
    PROVE  AtRun' /\ trail' \in Seq(Nat) /\ OnPath'
  <1>1. /\ Len(instr_list) \in Nat /\ q \in Nat /\ q # 0 /\ phase = "done"
        /\ pc \in 1..Len(instr_list) /\ pc \in Nat /\ PathAt(trail, pc)
        /\ pc' = q /\ UNCHANGED vars
    BY DEF FlowInv, IInv, TypeOK, Running, MoveTo, OnPath
  <1>2. AtRun' /\ End' = End
    BY <1>1 DEF AtRun, End, vars
  <1> DEFINE inside == q < End /\ instr_list[q].stream = instr_list[pc].stream
  <1>3. trail' = IF inside THEN IF Len(trail) < End THEN Append(trail, pc) ELSE trail
                 ELSE <<>>
    BY DEF MoveTo
  <1>4. trail' \in Seq(Nat)
    BY <1>1, <1>3 DEF FlowInv
  <1>5. q \in 1..Len(instr_list) => PathAt(trail', q)
    <2>1. CASE inside
      <3>1. q \in 1..Len(instr_list) /\ StepTo(pc, q)
        BY <1>1, <2>1 DEF StepTo, End
      <3>2. PathAt(IF Len(trail) < End THEN Append(trail, pc) ELSE trail, q)
        BY <1>1, <3>1, PathKept DEF FlowInv
      <3> QED BY <1>3, <2>1, <3>2
    <2>2. CASE ~inside
      <3>1. trail' = <<>>
        BY <1>3, <2>2
      <3> QED BY <3>1, PathFresh DEF FlowInv
    <2> QED BY <2>1, <2>2
  <1>6. OnPath'
    <2>1. instr_list' = instr_list /\ directed' = directed
      BY <1>1 DEF vars
    <2> QED BY <1>1, <1>5, <2>1, PathFrame DEF OnPath
  <1> QED BY <1>2, <1>4, <1>6

\* Every step of the generation and of the run keeps the invariant.
LEMMA FlowNextInv == FlowInv /\ [FlowNext]_flowVars => FlowInv'
  <1> SUFFICES ASSUME FlowInv, [FlowNext]_flowVars PROVE FlowInv'
    OBVIOUS
  <1>1. IInv' /\ ListInv'
    <2>1. [Next]_vars
      BY DEF FlowNext, flowVars, Generate, Start, Continue, Jump, MoveTo
    <2> QED BY <2>1, ListNext, InvNext DEF FlowInv
  <1>2. Len(instr_list) \in Nat /\ Len(instr_list') \in Nat
    <2>1. Len(instr_list) \in Nat
      BY DEF FlowInv, IInv, TypeOK
    <2>2. Len(instr_list') \in Nat
      <3>1. instr_list' \in Seq(Instr)
        BY <1>1 DEF IInv, TypeOK
      <3> QED BY <3>1
    <2> QED BY <2>1, <2>2
  <1>3. AtRun' /\ trail' \in Seq(Nat) /\ OnPath'
    <2>1. CASE Generate
      <3>1. pc = 0 /\ trail = <<>> /\ pc' = 0 /\ trail' = <<>>
        BY <2>1, DoneStays DEF Generate, FlowInv, AtRun
      <3> QED BY <3>1, <1>2 DEF AtRun, OnPath, End
    <2>2. CASE Start
      <3>1. phase = "done" /\ pc' = 1 /\ trail' = <<>> /\ UNCHANGED vars
        BY <2>2 DEF Start, FlowInv, AtRun
      <3>2. AtRun' /\ trail' \in Seq(Nat)
        BY <3>1, <1>2 DEF AtRun, End, vars
      <3>3. 1 \in 1..Len(instr_list) => PathAt(<<>>, 1)
        BY PathFresh DEF FlowInv
      <3>4. instr_list' = instr_list /\ directed' = directed
        BY <3>1 DEF vars
      <3>5. OnPath'
        BY <3>1, <3>3, <3>4, PathFrame DEF OnPath
      <3> QED BY <3>2, <3>5
    <2>3. CASE Continue
      <3>1. Running /\ ~instr_list[pc].jump /\ MoveTo(pc + 1) /\ pc + 1 \in 1..End
        BY <2>3, <1>2 DEF Continue, Running, End
      <3> QED BY <3>1, MoveKeeps
    <2>4. CASE Jump
      <3>1. PICK q \in 1..Len(instr_list) : IsTarget(pc, q) /\ MoveTo(q)
        BY <2>4 DEF Jump
      <3>2. q \in 1..End /\ HasOperand(pc) /\ Running
        BY <2>4, <1>2 DEF Jump, End
      <3> QED BY <3>1, <3>2, MoveKeeps
    <2>5. CASE UNCHANGED flowVars
      <3>1. UNCHANGED vars /\ pc' = pc /\ trail' = trail
        BY <2>5 DEF flowVars
      <3>2. AtRun /\ trail \in Seq(Nat) /\ OnPath
        BY DEF FlowInv
      <3>3. AtRun' /\ trail' \in Seq(Nat)
        BY <3>1, <3>2 DEF AtRun, End, vars
      <3>4. instr_list' = instr_list /\ directed' = directed
        BY <3>1 DEF vars
      <3>5. OnPath'
        BY <3>1, <3>2, <3>4, PathFrame DEF OnPath
      <3> QED BY <3>3, <3>5
    <2>6. Generate \/ Start \/ Continue \/ Jump \/ UNCHANGED flowVars
      BY DEF FlowNext
    <2> QED BY <2>1, <2>2, <2>3, <2>4, <2>5, <2>6
  <1> QED BY <1>1, <1>3 DEF FlowInv

\* The run of a generated program keeps its invariant.
THEOREM FlowInductive == FlowSpec => []FlowInv
  <1>1. FlowInit => FlowInv
    <2> SUFFICES ASSUME FlowInit PROVE FlowInv
      OBVIOUS
    <2>1. IInv
      BY InvInit DEF FlowInit
    <2>2. /\ ListInv /\ pc = 0 /\ trail = <<>> /\ Len(instr_list) = 0
      BY DEF FlowInit, Init, ListInv, Whole, Once, Faithful, Forward
    <2> QED BY <2>1, <2>2 DEF FlowInv, AtRun, OnPath, End
  <1> QED BY <1>1, FlowNextInv, PTL DEF FlowSpec

\* A directed stream without labels of its own is never entered in its middle,
\* whatever insert_instr_stream and post_process_instr put around it.
THEOREM PlainStreamsEnteredAtHead == FlowSpec => PlainEntry
  <1>1. FlowInv /\ [FlowNext]_flowVars =>
          [pc' # pc => \/ EnteredAtHead(pc, pc')
                       \/ HasLabels(instr_list[pc'].stream)]_<<pc, trail>>
    BY EntryNext DEF flowVars
  <1> QED BY <1>1, FlowInductive, PTL DEF FlowSpec, PlainEntry

\* A step that leaves a chain entered at its head ends a run along all of it.
LEMMA ChainLeft ==
    ASSUME FlowInv, FlowNext, LeavesChain
    PROVE  LET run == Append(trail, pc)
           IN  /\ Len(run) = Len(directed[instr_list[pc].stream])
               /\ \A a, b \in 1..Len(run) : run[a] = run[b] => a = b
  <1> DEFINE s == instr_list[pc].stream
             run == Append(trail, pc)
  <1>1. /\ IInv /\ ListInv /\ phase = "done" /\ pc \in 1..Len(instr_list)
        /\ s # 0 /\ instr_list[run[1]].pos = 1 /\ IsChain(s)
        /\ PathAt(trail, pc) /\ Len(instr_list) \in Nat /\ pc \in Nat
    BY DEF FlowInv, LeavesChain, AtRun, OnPath, IInv, TypeOK
  <1>2. /\ s \in 1..inserted
    BY <1>1, StreamAt
  <1>3. JumpChain(s, directed[s]) /\ Len(directed[s]) \in Nat
    BY <1>1, <1>2, StreamOperands DEF IsChain
  <1>4. \E n, order : ChainAt(s, n, order)
    <2> HIDE DEF s
    <2> QED BY <1>3, ChainShuffle DEF ChainAt
  <1>5. PICK n, order : ChainAt(s, n, order)
    BY <1>4
  <1>6. n \in Nat \ {0} /\ n + 2 = Len(directed[s]) /\ IsShuffle(n, order)
    BY <1>5 DEF ChainAt
  <1>7. /\ Len(run) \in Nat /\ Len(run) \in 1..Len(run) /\ run[Len(run)] = pc
    BY <1>1 DEF FlowInv
  <1>8. /\ Len(run) <= n + 2
        /\ \A t \in 1..Len(run) : instr_list[run[t]].pos = PathPos(n, order, t)
    <2>1. AlongPath(s, run)
      BY <1>1 DEF PathAt
    <2> HIDE DEF run, s
    <2> QED BY <1>5, <2>1 DEF AlongPath
  <1> HIDE DEF run
  <1>9. Len(run) = n + 2
    <2> SUFFICES ASSUME Len(run) # n + 2 PROVE FALSE
      OBVIOUS
    <2>1. Len(run) \in 1 .. n + 1 /\ n \in Nat
      BY <1>6, <1>7, <1>8
    <2>2. InPath(pc, n, order, Len(run))
      BY <1>1, <1>5, <1>7, <1>8, <2>1 DEF InPath
    <2>3. /\ instr_list[pc].jump
          /\ \A q \in 1..Len(instr_list) : IsTarget(pc, q) =>
                instr_list[q].stream = instr_list[pc].stream
      BY <1>1, <2>2, PathStep
    <2>4. pc' # pc /\ (pc' = End \/ instr_list[pc'].stream # s)
      BY <1>1 DEF LeavesChain, End
    <2>5. pc' \in 1..Len(instr_list) /\ IsTarget(pc, pc')
      BY <1>1, <2>3, <2>4 DEF FlowNext, Generate, Start, Continue, Jump, MoveTo
    <2> QED BY <2>3, <2>4, <2>5, <1>1 DEF End
  <1>10. ASSUME NEW a \in 1..Len(run), NEW b \in 1..Len(run), run[a] = run[b]
         PROVE  a = b
    <2>1. PathPos(n, order, a) = PathPos(n, order, b)
      BY <1>8, <1>10
    <2>2. a \in 1 .. n + 2 /\ b \in 1 .. n + 2
      BY <1>6, <1>9
    <2> QED BY <2>1, <2>2, <1>6, PathOnce
  <1> QED BY <1>6, <1>9, <1>10 DEF run

\* A jump chain of riscv_jal_instr that is entered at its head runs each of its
\* instructions exactly once, for every length and every shuffle.
THEOREM ChainsRunWhole == FlowSpec => ChainRunsWhole
  <1>1. FlowInv /\ [FlowNext]_flowVars =>
          [LeavesChain =>
             LET run == Append(trail, pc)
             IN  /\ Len(run) = Len(directed[instr_list[pc].stream])
                 /\ \A a, b \in 1..Len(run) : run[a] = run[b] => a = b]_<<pc, trail>>
    BY ChainLeft DEF flowVars
  <1> QED BY <1>1, FlowInductive, PTL DEF FlowSpec, ChainRunsWhole
=============================================================================
