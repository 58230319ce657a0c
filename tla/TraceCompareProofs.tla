------------------------- MODULE TraceCompareProofs -------------------------
(***************************************************************************)
(* Proofs about the conversion and the comparison of two traces, for all   *)
(* programs, simulators, registers, values, entries and trace lengths: its *)
(* types, that a passed comparison has matched every register change of    *)
(* trace 2, that its verdict is exactly that of the two whole traces, that *)
(* each converter writes the register changes of the program and the same  *)
(* run therefore passes, and that the two loops pair the changes off as    *)
(* AbstractCompare says.                                                   *)
(***************************************************************************)
EXTENDS TraceLogs, RecursionLemmas, SequenceTheorems, FiniteSetTheorems

-----------------------------------------------------------------------------
(* The inductive invariant.  CInv (TraceCompare) pairs the changes found so *)
(* far; the parts below say that what has been found is what the traces    *)
(* hold, so that nothing left unread can change the verdict.               *)

\* The changes found in each beginning of a trace.
ChangesUpTo(trace) ==
    LET regs == Registers(trace)
        c[k \in 0..Len(trace)] ==
          IF k = 0 THEN <<>>
          ELSE IF Changes(regs[k - 1], trace[k]) THEN Append(c[k - 1], trace[k])
          ELSE c[k - 1]
    IN  c

\* The registers and the changes found are those of the entries read; of
\* trace 2, until a change is left over behind the end of trace 1.
Following ==
    /\ gpr1 \in [Gpr -> Val] /\ gpr2 \in [Gpr -> Val]
    /\ gpr1 = Registers(trace1)[index1]
    /\ changes1 = ChangesUpTo(trace1)[index1]
    /\ phase # "end" \/ mismatch = 0 =>
         /\ gpr2 = Registers(trace2)[index2]
         /\ changes2 = ChangesUpTo(trace2)[index2]

\* What the loops hold between two steps: the change of trace 1 that is
\* looked for, the change of trace 2 that was found, and why a loop ended.
InHand ==
    /\ phase = "next1" => index2 = 0 \/ index2 < Len(trace2)
    /\ phase = "seek2" =>
         /\ index1 > 0 /\ Len(changes1) > 0
         /\ changes1[Len(changes1)] = trace1[index1]
    /\ phase = "seek2" /\ change2 =>
         /\ index2 > 0 /\ Len(changes2) > 0
         /\ changes2[Len(changes2)] = trace2[index2]
         /\ index2 = Len(trace2) => EndsWithChange(trace2)
    /\ phase = "seek2" /\ ~change2 /\ index2 = Len(trace2) => ~EndsWithChange(trace2)
    /\ phase = "tail2" => index1 = Len(trace1) \/ index2 = Len(trace2)

\* A mismatch is one of the whole traces, and no mismatch at the end of a
\* loop says which of the two traces has been used up.
Judgement ==
    /\ mismatch > 0 =>
         /\ ChangesOf(trace1) # ChangesOf(trace2)
         /\ ~(IsPrefixOf(ChangesOf(trace2), ChangesOf(trace1)) /\ EndsWithChange(trace2))
    /\ phase \in {"tail2", "end"} /\ mismatch = 0 =>
         \/ index1 = Len(trace1) /\ Len(changes1) = matched
         \/ index2 = Len(trace2) /\ EndsWithChange(trace2)
    /\ phase = "end" /\ mismatch = 0 => index2 = Len(trace2)

\* Every verdict stands for a change of trace 1; what is left of trace 2 is
\* counted once.
Counted ==
    /\ phase # "end" =>
         matched + mismatch + (IF phase = "seek2" THEN 1 ELSE 0) <= index1
    /\ phase = "end" => matched <= index1 /\ mismatch <= index1 + Len(trace2)

VInv == CInv /\ Following /\ InHand /\ Judgement

\* A comparison that has not begun.
Fresh ==
    /\ index1 = 0 /\ index2 = 0
    /\ gpr1 = [r \in Gpr |-> 0] /\ gpr2 = [r \in Gpr |-> 0]
    /\ change2 = FALSE /\ matched = 0 /\ mismatch = 0
    /\ phase = "next1" /\ changes1 = <<>> /\ changes2 = <<>>

\* The traces compared are sequences of entries.
Convertible == trace1 \in Seq(Entries) /\ trace2 \in Seq(Entries)

\* The comparison as one part of compare_iss_log: it has its traces when it begins.
LInv ==
    /\ stage \in {"log1", "log2", "compare", "fatal"}
    /\ opened => stage \in {"log1", "log2"}
    /\ VInv /\ Counted
    /\ stage # "compare" => Fresh

-----------------------------------------------------------------------------
(* The operators on entries and traces.  Each is a function that is defined  *)
(* by recursion, unfolded here by induction over the length.                *)

\* A trace is a sequence of entries.
LEMMA TracesAreSequences == Traces \subseteq Seq(Entries)
  BY EntriesAssumption DEF Traces

GprValues == [Gpr -> Val]

\* Appending the same entry to a sequence and to a longer one it is part of.
LEMMA AppendFacts ==
    ASSUME NEW s \in Seq(Entries), NEW e \in Entries
    PROVE  /\ Append(s, e) \in Seq(Entries)
           /\ Len(Append(s, e)) = Len(s) + 1
           /\ Append(s, e)[Len(s) + 1] = e
           /\ \A k \in 1..Len(s) : Append(s, e)[k] = s[k]
  OBVIOUS

\* An entry takes registers to registers.
LEMMA AfterType ==
    ASSUME NEW gpr \in GprValues, NEW e \in Entries
    PROVE  After(gpr, e) \in GprValues
  <1> DEFINE n == Len(e)
             U == [rd : Gpr, val : Val]
             Eq(g) == g = [k \in 0..n |-> IF k = 0 THEN gpr
                                          ELSE [g[k - 1] EXCEPT ![e[k].rd] = e[k].val]]
             F == [k \in 1..n |-> [g \in GprValues |-> [g EXCEPT ![e[k].rd] = e[k].val]]]
  <1>1. n \in Nat /\ \A k \in 1..n : e[k] \in U
    <2>1. e \in Seq(U)
      BY EntriesAssumption
    <2> HIDE DEF U
    <2> QED BY <2>1
  <1>2. \A k \in 1..n : e[k].rd \in Gpr /\ e[k].val \in Val
    BY <1>1
  <1>3. \A k \in 1..n : \A g \in GprValues : [g EXCEPT ![e[k].rd] = e[k].val] \in GprValues
    BY <1>2 DEF GprValues
  <1>4. PICK f : IsRunOf(f, gpr, n, F, GprValues)
    <2>1. F \in StepFunctions(n, GprValues)
      BY <1>3 DEF StepFunctions
    <2>2. n \in Nat
      BY <1>1
    <2>3. gpr \in GprValues
      OBVIOUS
    <2> HIDE DEF F, n
    <2> QED BY <2>1, <2>2, <2>3, Recursion
  <1>5. Eq(f)
    <2>1. \A k \in 1..n : k - 1 \in 0..n
      BY <1>1
    <2>2. \A k \in 1..n : f[k] = [f[k - 1] EXCEPT ![e[k].rd] = e[k].val]
      BY <1>4, <2>1 DEF IsRunOf
    <2>3. \A k \in 0..n : k = 0 \/ k \in 1..n
      BY <1>1
    <2> QED BY <1>4, <2>2, <2>3 DEF IsRunOf
  <1>6. Steps(gpr, e) = CHOOSE g : Eq(g)
    BY DEF Steps
  <1>7. PICK h : h = Steps(gpr, e) /\ Eq(h)
    <2> HIDE DEF Eq
    <2> QED BY <1>5, <1>6
  <1>8. h[0] = gpr /\ \A k \in 1..n : h[k] = [h[k - 1] EXCEPT ![e[k].rd] = e[k].val]
    <2>1. 0 \in 0..n /\ \A k \in 1..n : k \in 0..n /\ k # 0
      BY <1>1
    <2> QED BY <1>7, <2>1
  <1> DEFINE S == {k \in 0..n : h[k] \in GprValues}
  <1>9. 0..n \subseteq S
    <2>1. 0 \in S
      BY <1>1, <1>8
    <2>2. ASSUME NEW k \in 1..n, k - 1 \in S PROVE k \in S
      <3>1. h[k - 1] \in GprValues /\ h[k] = [h[k - 1] EXCEPT ![e[k].rd] = e[k].val]
        BY <1>8, <2>2
      <3>2. h[k] \in GprValues
        BY <1>3, <3>1
      <3> QED BY <3>2
    <2> HIDE DEF S, n
    <2> QED BY <1>1, <2>1, <2>2, IntervalInduction
  <1>10. n \in S
    BY <1>1, <1>9
  <1> QED BY <1>7, <1>10 DEF After

\* Before the first entry every register counts as zero; after each, the
\* registers are those the entry makes of the ones before it.
LEMMA RegistersFacts ==
    ASSUME NEW t \in Seq(Entries)
    PROVE  /\ Registers(t) \in [0..Len(t) -> GprValues]
           /\ Registers(t)[0] = [r \in Gpr |-> 0]
           /\ \A k \in 1..Len(t) : Registers(t)[k] = After(Registers(t)[k - 1], t[k])
  <1> DEFINE n == Len(t)
             x0 == [r \in Gpr |-> 0]
             Eq(g) == g = [k \in 0..n |-> IF k = 0 THEN x0 ELSE After(g[k - 1], t[k])]
             F == [k \in 1..n |-> [g \in GprValues |-> After(g, t[k])]]
  <1>1. n \in Nat /\ \A k \in 1..n : t[k] \in Entries
    OBVIOUS
  <1>2. x0 \in GprValues
    BY EntriesAssumption DEF GprValues
  <1>3. PICK f : IsRunOf(f, x0, n, F, GprValues)
    <2>1. F \in StepFunctions(n, GprValues)
      BY <1>1, AfterType DEF StepFunctions
    <2>2. n \in Nat
      BY <1>1
    <2> HIDE DEF F, n, x0
    <2> QED BY <1>2, <2>1, <2>2, Recursion
  <1>4. Eq(f)
    <2>1. \A k \in 1..n : k - 1 \in 0..n
      BY <1>1
    <2>2. \A k \in 1..n : f[k] = After(f[k - 1], t[k])
      BY <1>3, <2>1 DEF IsRunOf
    <2>3. \A k \in 0..n : k = 0 \/ k \in 1..n
      BY <1>1
    <2> HIDE DEF x0
    <2> QED BY <1>3, <2>2, <2>3 DEF IsRunOf
  <1>5. Registers(t) = CHOOSE g : Eq(g)
    BY DEF Registers
  <1>6. PICK h : h = Registers(t) /\ Eq(h)
    <2> HIDE DEF Eq
    <2> QED BY <1>4, <1>5
  <1>7. h[0] = x0 /\ \A k \in 1..n : h[k] = After(h[k - 1], t[k])
    <2>1. 0 \in 0..n /\ \A k \in 1..n : k \in 0..n /\ k # 0
      BY <1>1
    <2> HIDE DEF x0
    <2> QED BY <1>6, <2>1
  <1> DEFINE S == {k \in 0..n : h[k] \in GprValues}
  <1>8. 0..n \subseteq S
    <2>1. 0 \in S
      BY <1>1, <1>2, <1>7
    <2>2. ASSUME NEW k \in 1..n, k - 1 \in S PROVE k \in S
      <3>1. h[k] \in GprValues
        BY <1>1, <1>7, <2>2, AfterType
      <3> QED BY <3>1
    <2> HIDE DEF S, n
    <2> QED BY <1>1, <2>1, <2>2, IntervalInduction
  <1>9. h \in [0..n -> GprValues]
    <2>1. DOMAIN h = 0..n /\ h = [k \in 0..n |-> h[k]]
      <3>1. h = [k \in 0..n |-> IF k = 0 THEN x0 ELSE After(h[k - 1], t[k])]
        BY <1>6
      <3> HIDE DEF x0
      <3> QED BY <3>1
    <2> QED BY <1>8, <2>1
  <1> QED BY <1>6, <1>7, <1>9

\* The changes found grow by the entries that change a register.
LEMMA ChangesUpToFacts ==
    ASSUME NEW t \in Seq(Entries)
    PROVE  /\ ChangesUpTo(t) \in [0..Len(t) -> Seq(Entries)]
           /\ ChangesUpTo(t)[0] = <<>>
           /\ \A k \in 1..Len(t) :
                ChangesUpTo(t)[k] = IF Changes(Registers(t)[k - 1], t[k])
                                    THEN Append(ChangesUpTo(t)[k - 1], t[k])
                                    ELSE ChangesUpTo(t)[k - 1]
           /\ ChangesOf(t) = ChangesUpTo(t)[Len(t)]
  <1> DEFINE n == Len(t)
             R == Registers(t)
             none == <<>>
             Step(k, c) == IF Changes(R[k - 1], t[k]) THEN Append(c, t[k]) ELSE c
             Eq(g) == g = [k \in 0..n |->
                             IF k = 0 THEN <<>>
                             ELSE IF Changes(R[k - 1], t[k]) THEN Append(g[k - 1], t[k])
                             ELSE g[k - 1]]
             F == [k \in 1..n |-> [c \in Seq(Entries) |-> Step(k, c)]]
  <1>1. n \in Nat /\ <<>> \in Seq(Entries) /\ \A k \in 1..n : t[k] \in Entries
    OBVIOUS
  <1>2. \A k \in 1..n : \A c \in Seq(Entries) : Step(k, c) \in Seq(Entries)
    <2> SUFFICES ASSUME NEW k \in 1..n, NEW c \in Seq(Entries)
                 PROVE  Step(k, c) \in Seq(Entries)
      OBVIOUS
    <2>1. Append(c, t[k]) \in Seq(Entries)
      BY <1>1
    <2> QED BY <2>1
  <1>3. PICK f : IsRunOf(f, none, n, F, Seq(Entries))
    <2>1. F \in StepFunctions(n, Seq(Entries))
      <3> HIDE DEF Step, n
      <3> QED BY <1>2 DEF StepFunctions
    <2>2. n \in Nat
      BY <1>1
    <2>3. none \in Seq(Entries)
      BY <1>1
    <2> HIDE DEF F, n, none
    <2> QED BY <2>1, <2>2, <2>3, Recursion
  <1>4. Eq(f)
    <2>1. \A k \in 1..n : k - 1 \in 0..n
      BY <1>1
    <2>2. \A k \in 1..n : f[k] = Step(k, f[k - 1])
      <3> HIDE DEF Step
      <3> QED BY <1>3, <2>1 DEF IsRunOf
    <2>3. \A k \in 0..n : k = 0 \/ k \in 1..n
      BY <1>1
    <2>4. f = [k \in 0..n |-> IF k = 0 THEN <<>> ELSE Step(k, f[k - 1])]
      <3> HIDE DEF Step
      <3> QED BY <1>3, <2>2, <2>3 DEF IsRunOf
    <2> QED BY <2>4
  <1>5. ChangesUpTo(t) = CHOOSE g : Eq(g)
    BY DEF ChangesUpTo
  <1>6. PICK h : h = ChangesUpTo(t) /\ Eq(h)
    <2> HIDE DEF Eq
    <2> QED BY <1>4, <1>5
  <1>7. h = [k \in 0..n |-> IF k = 0 THEN <<>> ELSE Step(k, h[k - 1])]
    BY <1>6
  <1>8. h[0] = none /\ \A k \in 1..n : h[k] = Step(k, h[k - 1])
    <2>1. 0 \in 0..n /\ \A k \in 1..n : k \in 0..n /\ k # 0
      BY <1>1
    <2> HIDE DEF Step
    <2> QED BY <1>7, <2>1
  <1> DEFINE S == {k \in 0..n : h[k] \in Seq(Entries)}
  <1>9. 0..n \subseteq S
    <2>1. 0 \in S
      <3>1. 0 \in 0..n /\ h[0] \in Seq(Entries)
        <4> HIDE DEF Step
        <4> QED BY <1>1, <1>8
      <3> QED BY <3>1
    <2>2. ASSUME NEW k \in 1..n, k - 1 \in S PROVE k \in S
      <3>1. h[k] \in Seq(Entries)
        <4> HIDE DEF Step
        <4> QED BY <1>2, <1>8, <2>2
      <3> QED BY <3>1
    <2> HIDE DEF S, n
    <2> QED BY <1>1, <2>1, <2>2, IntervalInduction
  <1>10. h \in [0..n -> Seq(Entries)]
    <2>1. DOMAIN h = 0..n /\ h = [k \in 0..n |-> h[k]]
      <3> HIDE DEF Step
      <3> QED BY <1>7
    <2> QED BY <1>9, <2>1
  <1>11. ChangesOf(t) = ChangesUpTo(t)[n]
    BY DEF ChangesOf, ChangesUpTo
  <1>12. \A k \in 1..n : h[k] = IF Changes(R[k - 1], t[k]) THEN Append(h[k - 1], t[k])
                                ELSE h[k - 1]
    BY <1>8
  <1> HIDE DEF Step, Eq
  <1> QED BY <1>6, <1>8, <1>10, <1>11, <1>12
\* Of the changes of a trace the first ones are those found in a beginning of
\* it, and every entry that is left adds at most one.
LEMMA ChangesGrow ==
    ASSUME NEW t \in Seq(Entries), NEW j \in 0..Len(t)
    PROVE  /\ ChangesOf(t) \in Seq(Entries)
           /\ Len(ChangesUpTo(t)[j]) <= Len(ChangesOf(t))
           /\ Len(ChangesOf(t)) <= Len(ChangesUpTo(t)[j]) + (Len(t) - j)
           /\ \A i \in 1..Len(ChangesUpTo(t)[j]) : ChangesOf(t)[i] = ChangesUpTo(t)[j][i]
  <1> DEFINE n == Len(t)
             C == ChangesUpTo(t)
             Grown(k) == /\ Len(C[j]) <= Len(C[k])
                         /\ Len(C[k]) <= Len(C[j]) + (k - j)
                         /\ \A i \in 1..Len(C[j]) : C[k][i] = C[j][i]
             S == {k \in 0..n : k >= j => Grown(k)}
  <1>1. n \in Nat /\ j \in 0..n
    OBVIOUS
  <1>2. \A k \in 0..n : C[k] \in Seq(Entries) /\ Len(C[k]) \in Nat
    <2>1. C \in [0..n -> Seq(Entries)]
      BY ChangesUpToFacts
    <2> HIDE DEF C, n
    <2> QED BY <1>1, <2>1
  <1>3. \A k \in 1..n : \/ C[k] = C[k - 1]
                        \/ C[k] = Append(C[k - 1], t[k]) /\ t[k] \in Entries
    <2>1. \A k \in 1..n : C[k] = IF Changes(Registers(t)[k - 1], t[k])
                                  THEN Append(C[k - 1], t[k]) ELSE C[k - 1]
      BY ChangesUpToFacts
    <2>2. \A k \in 1..n : t[k] \in Entries
      OBVIOUS
    <2> HIDE DEF C, n
    <2> QED BY <2>1, <2>2
  <1> HIDE DEF C, n
  <1>4. 0 \in S
    <2>1. j = 0 => Grown(0)
      BY <1>1, <1>2
    <2> QED BY <1>1, <2>1
  <1>5. ASSUME NEW k \in 1..n, k - 1 \in S PROVE k \in S
    <2> SUFFICES ASSUME k >= j PROVE Grown(k)
      BY <1>1
    <2>1. CASE k = j
      BY <1>1, <1>2, <2>1
    <2>2. CASE k - 1 >= j
      <3>1. Grown(k - 1) /\ k - 1 \in 0..n
        BY <1>1, <1>5, <2>2
      <3>2. CASE C[k] = C[k - 1]
        BY <1>1, <1>2, <3>1, <3>2
      <3>3. CASE C[k] = Append(C[k - 1], t[k]) /\ t[k] \in Entries
        <4>1. C[k - 1] \in Seq(Entries) /\ Len(C[k - 1]) \in Nat /\ Len(C[j]) \in Nat
          BY <1>1, <1>2, <3>1
        <4>2. /\ Len(C[k]) = Len(C[k - 1]) + 1
              /\ \A i \in 1..Len(C[k - 1]) : C[k][i] = C[k - 1][i]
          BY <3>3, <4>1
        <4> QED BY <1>1, <3>1, <4>1, <4>2
      <3> QED BY <1>3, <3>2, <3>3
    <2> QED BY <1>1, <2>1, <2>2
  <1>6. n \in S
    <2> HIDE DEF S
    <2>1. 0..n \subseteq S
      BY <1>1, <1>4, <1>5, IntervalInduction
    <2> QED BY <1>1, <2>1
  <1>7. ChangesOf(t) = C[n]
    BY ChangesUpToFacts DEF C, n
  <1>8. Grown(n)
    BY <1>1, <1>6
  <1> QED BY <1>1, <1>2, <1>7, <1>8 DEF C, n

\* An entry that changes a register is the next of the changes of its trace;
\* one that does not adds none.
LEMMA NextChange ==
    ASSUME NEW t \in Seq(Entries), NEW j \in Nat, j < Len(t)
    PROVE  LET c == ChangesUpTo(t)[j]
               e == t[j + 1]
           IN  /\ e \in Entries /\ c \in Seq(Entries)
               /\ Registers(t)[j + 1] = After(Registers(t)[j], e)
               /\ ChangesUpTo(t)[j + 1] =
                    IF Changes(Registers(t)[j], e) THEN Append(c, e) ELSE c
               /\ Changes(Registers(t)[j], e) =>
                    Len(ChangesOf(t)) >= Len(c) + 1 /\ ChangesOf(t)[Len(c) + 1] = e
  <1> DEFINE c == ChangesUpTo(t)[j]
             e == t[j + 1]
             d == ChangesUpTo(t)[j + 1]
  <1>1. j + 1 \in 1..Len(t) /\ (j + 1) - 1 = j /\ j \in 0..Len(t) /\ j + 1 \in 0..Len(t)
    OBVIOUS
  <1>2. e \in Entries /\ c \in Seq(Entries)
    BY <1>1, ChangesUpToFacts
  <1>3. Registers(t)[j + 1] = After(Registers(t)[j], e)
    BY <1>1, RegistersFacts
  <1>4. d = IF Changes(Registers(t)[j], e) THEN Append(c, e) ELSE c
    BY <1>1, ChangesUpToFacts
  <1>5. ASSUME Changes(Registers(t)[j], e)
        PROVE  Len(ChangesOf(t)) >= Len(c) + 1 /\ ChangesOf(t)[Len(c) + 1] = e
    <2>1. /\ Len(d) <= Len(ChangesOf(t)) /\ ChangesOf(t) \in Seq(Entries)
          /\ \A i \in 1..Len(d) : ChangesOf(t)[i] = d[i]
      BY <1>1, ChangesGrow
    <2>2. d = Append(c, e)
      BY <1>4, <1>5
    <2> HIDE DEF c, d, e
    <2>3. Len(d) = Len(c) + 1 /\ d[Len(c) + 1] = e /\ Len(c) \in Nat
      BY <1>2, <2>2
    <2> QED BY <2>1, <2>3
  <1> QED BY <1>2, <1>3, <1>4, <1>5

-----------------------------------------------------------------------------
(* The steps of the comparison, one lemma for each part of the invariant. *)

\* The steps over trace 1: skip, take, end.
LEMMA CInvNext1 ==
    CInv /\ (SkipEntry1 \/ TakeEntry1 \/ EndOfTrace1) => CInv'
  <1> SUFFICES ASSUME CInv, SkipEntry1 \/ TakeEntry1 \/ EndOfTrace1
               PROVE  CInv'
    OBVIOUS
  <1>1. CASE SkipEntry1
    BY <1>1 DEF SkipEntry1, CInv, Counters, Paired, IsPrefixOf
  <1>2. CASE TakeEntry1
    <2> DEFINE e == trace1[index1 + 1]
    <2>1. /\ phase = "next1" /\ phase' = "seek2" /\ ~change2'
          /\ index1' = index1 + 1 /\ changes1' = Append(changes1, e)
          /\ index1 + 1 \in 1..Len(trace1)
          /\ UNCHANGED <<trace1, trace2, index2, matched, mismatch, changes2>>
          /\ change2' = FALSE
      BY <1>2 DEF TakeEntry1, CInv, Counters
    <2>2. e \in Entries /\ changes1 \in Seq(Entries)
      BY <2>1 DEF CInv, Counters
    <2>3. /\ changes1' \in Seq(Entries)
          /\ Len(changes1') = Len(changes1) + 1
          /\ changes1'[Len(changes1) + 1] = e
          /\ \A k \in 1..Len(changes1) : changes1'[k] = changes1[k]
      <3> HIDE DEF e
      <3> QED BY <2>1, <2>2, AppendFacts
    <2>4. Counters'
      <3>1. /\ trace1 \in Seq(Entries) /\ trace2 \in Seq(Entries)
            /\ index2 \in 0..Len(trace2) /\ index1 + 1 \in 0..Len(trace1)
            /\ matched \in Nat /\ mismatch \in Nat
            /\ changes2 \in Seq(Entries)
        BY <2>1 DEF CInv, Counters
      <3> HIDE DEF e
      <3> QED BY <2>1, <2>3, <3>1 DEF Counters
    <2>5. Paired'
      <3> HIDE DEF e
      <3> SUFFICES ASSUME mismatch = 0
                   PROVE  /\ index1 + 1 > 0
                          /\ Len(changes1') = matched + 1
                          /\ changes1'[matched + 1] = e
                          /\ \A k \in 1..matched : changes1'[k] = changes2[k]
                          /\ Len(changes2) = matched
        BY <2>1 DEF Paired, e
      <3>1. /\ Len(changes2) = matched /\ Len(changes1) = matched
            /\ \A k \in 1..matched : changes2[k] = changes1[k]
        BY <2>1 DEF CInv, Paired, IsPrefixOf
      <3> QED BY <2>1, <2>3, <3>1 DEF CInv, Counters
    <2> QED BY <2>4, <2>5 DEF CInv
  <1>3. CASE EndOfTrace1
    BY <1>3 DEF EndOfTrace1, CInv, Counters, Paired, IsPrefixOf
  <1> QED BY <1>1, <1>2, <1>3

\* One entry of trace 2 while a change is searched.
LEMMA CInvSeek2 == CInv /\ SeekEntry2 => CInv'
  <1> SUFFICES ASSUME CInv, SeekEntry2 PROVE CInv'
    OBVIOUS
  <1> DEFINE e == trace2[index2 + 1]
  <1>1. /\ phase = "seek2" /\ phase' = "seek2" /\ ~change2
        /\ change2' \in BOOLEAN
        /\ index2' = index2 + 1 /\ index2 + 1 \in 1..Len(trace2)
        /\ UNCHANGED <<trace1, trace2, index1, matched, mismatch, changes1>>
    BY DEF SeekEntry2, ReadEntry2, Changes, CInv, Counters
  <1>2. e \in Entries /\ changes2 \in Seq(Entries)
    BY <1>1 DEF CInv, Counters
  <1>3. CASE change2'
    <2>1. /\ changes2' \in Seq(Entries)
          /\ Len(changes2') = Len(changes2) + 1
          /\ changes2'[Len(changes2) + 1] = e
          /\ \A k \in 1..Len(changes2) : changes2'[k] = changes2[k]
      <3>1. changes2' = Append(changes2, e)
        BY <1>3 DEF SeekEntry2, ReadEntry2
      <3> HIDE DEF e
      <3> QED BY <3>1, <1>2, AppendFacts
    <2>2. Counters'
      BY <1>1, <1>3, <2>1 DEF CInv, Counters
    <2>3. Paired'
      <3> HIDE DEF e
      <3> SUFFICES ASSUME mismatch = 0
                   PROVE  /\ index1 > 0
                          /\ Len(changes1) = matched + 1
                          /\ changes1[matched + 1] = trace1[index1]
                          /\ \A k \in 1..matched : changes1[k] = changes2'[k]
                          /\ index2 + 1 > 0
                          /\ Len(changes2') = matched + 1
                          /\ changes2'[matched + 1] = e
        BY <1>1, <1>3 DEF Paired, e
      <3>1. /\ index1 > 0 /\ Len(changes1) = matched + 1
            /\ changes1[matched + 1] = trace1[index1]
            /\ \A k \in 1..matched : changes1[k] = changes2[k]
            /\ Len(changes2) = matched
        BY <1>1 DEF CInv, Paired
      <3> QED BY <2>1, <3>1, <1>1 DEF CInv, Counters
    <2> QED BY <2>2, <2>3 DEF CInv
  <1>4. CASE ~change2'
    <2>1. changes2' = changes2
      BY <1>4 DEF SeekEntry2, ReadEntry2
    <2>2. Counters'
      BY <1>1, <2>1 DEF CInv, Counters
    <2>3. Paired'
      BY <1>1, <1>4, <2>1 DEF CInv, Counters, Paired
    <2> QED BY <2>2, <2>3 DEF CInv
  <1> QED BY <1>3, <1>4

\* The verdict about a pair of changes.
LEMMA CInvJudge == CInv /\ (Matches \/ Mismatches) => CInv'
  <1> SUFFICES ASSUME CInv, Matches \/ Mismatches PROVE CInv'
    OBVIOUS
  <1>1. /\ UNCHANGED <<trace1, trace2, index1, index2, change2,
                       changes1, changes2>>
        /\ phase = "seek2" /\ phase' \in {"next1", "tail2"}
    BY DEF Matches, Mismatches, AfterJudging
  <1>2. CASE Matches
    <2>1. /\ change2 /\ trace1[index1] = trace2[index2]
          /\ matched' = matched + 1 /\ mismatch' = mismatch
      BY <1>2 DEF Matches, Same
    <2>2. Counters'
      BY <1>1, <2>1 DEF CInv, Counters
    <2>3. Paired'
      <3> SUFFICES ASSUME mismatch = 0
                   PROVE  /\ IsPrefixOf(changes2, changes1)
                          /\ Len(changes2) = matched + 1
                          /\ Len(changes1) = matched + 1
        BY <1>1, <2>1 DEF Paired, IsPrefixOf
      <3>1. /\ Len(changes1) = matched + 1 /\ Len(changes2) = matched + 1
            /\ \A k \in 1..matched : changes1[k] = changes2[k]
            /\ changes1[matched + 1] = changes2[matched + 1]
        BY <1>1, <2>1 DEF CInv, Paired
      <3>2. matched \in Nat
        BY DEF CInv, Counters
      <3> QED BY <3>1, <3>2 DEF IsPrefixOf
    <2> QED BY <2>2, <2>3 DEF CInv
  <1>3. CASE Mismatches
    <2>1. mismatch' = mismatch + 1 /\ matched' = matched
      BY <1>3 DEF Mismatches
    <2>2. Counters' /\ mismatch' # 0
      BY <1>1, <2>1 DEF CInv, Counters
    <2> QED BY <2>2 DEF CInv, Paired
  <1> QED BY <1>2, <1>3

\* What is left of trace 2 behind the end of trace 1.
LEMMA CInvTail == CInv /\ (TailUnchanged \/ TailChanged \/ EndOfTrace2) => CInv'
  <1> SUFFICES ASSUME CInv, TailUnchanged \/ TailChanged \/ EndOfTrace2
               PROVE  CInv'
    OBVIOUS
  <1>1. CASE TailUnchanged
    <2>1. /\ UNCHANGED <<trace1, trace2, index1, matched, mismatch, phase,
                         changes1, changes2>>
          /\ index2' = index2 + 1 /\ index2 < Len(trace2)
          /\ phase = "tail2" /\ change2' \in BOOLEAN
      BY <1>1 DEF TailUnchanged, ReadEntry2, Changes
    <2> QED BY <2>1 DEF CInv, Counters, Paired, IsPrefixOf
  <1>2. CASE TailChanged
    <2> DEFINE e == trace2[index2 + 1]
    <2>1. /\ UNCHANGED <<trace1, trace2, index1, index2, matched, changes1>>
          /\ index2 < Len(trace2) /\ phase' = "end" /\ change2' \in BOOLEAN
          /\ mismatch' = mismatch + Len(trace2) - index2
          /\ changes2' = Append(changes2, e)
      BY <1>2 DEF TailChanged, ReadEntry2, Changes
    <2>2. e \in Entries /\ changes2 \in Seq(Entries)
      BY <2>1 DEF CInv, Counters
    <2>3. changes2' \in Seq(Entries)
      <3> HIDE DEF e
      <3> QED BY <2>1, <2>2, AppendFacts
    <2>4. mismatch' \in Nat /\ mismatch' # 0
      BY <2>1 DEF CInv, Counters
    <2> QED BY <2>1, <2>3, <2>4 DEF CInv, Counters, Paired
  <1>3. CASE EndOfTrace2
    BY <1>3 DEF EndOfTrace2, CInv, Counters, Paired, IsPrefixOf
  <1> QED BY <1>1, <1>2, <1>3

\* CInv is kept by every step of the comparison.
LEMMA CInvStep == CInv /\ Next => CInv'
  BY CInvNext1, CInvSeek2, CInvJudge, CInvTail DEF Next

\* One entry of trace 1, whose registers and changes have been followed.
LEMMA ReadOfTrace1 ==
    ASSUME Counters, Following, index1 < Len(trace1)
    PROVE  LET e == trace1[index1 + 1]
           IN  /\ e \in Entries
               /\ After(gpr1, e) \in [Gpr -> Val]
               /\ After(gpr1, e) = Registers(trace1)[index1 + 1]
               /\ ChangesUpTo(trace1)[index1 + 1] =
                    IF Changes(gpr1, e) THEN Append(changes1, e) ELSE changes1
  <1>1. /\ trace1 \in Seq(Entries) /\ index1 \in Nat
        /\ gpr1 = Registers(trace1)[index1]
        /\ changes1 = ChangesUpTo(trace1)[index1]
        /\ gpr1 \in GprValues
    BY DEF Counters, Following, GprValues
  <1>2. trace1[index1 + 1] \in Entries
    BY <1>1, NextChange
  <1>3. After(gpr1, trace1[index1 + 1]) \in [Gpr -> Val]
    BY <1>1, <1>2, AfterType DEF GprValues
  <1> QED BY <1>1, <1>3, NextChange

\* One entry of trace 2, read by either of the loops over it.
LEMMA ReadOfTrace2 ==
    ASSUME Counters, Following, phase # "end", ReadEntry2
    PROVE  LET e == trace2[index2 + 1]
           IN  /\ e \in Entries /\ index2 + 1 \in 1..Len(trace2)
               /\ gpr2' \in [Gpr -> Val]
               /\ gpr2' = Registers(trace2)[index2 + 1]
               /\ change2' = Changes(Registers(trace2)[index2], e)
               /\ changes2' = ChangesUpTo(trace2)[index2 + 1]
               /\ changes2' = IF change2' THEN Append(changes2, e) ELSE changes2
               /\ change2' => /\ Len(ChangesOf(trace2)) >= Len(changes2) + 1
                              /\ ChangesOf(trace2)[Len(changes2) + 1] = e
  <1> DEFINE e == trace2[index2 + 1]
  <1>1. /\ trace2 \in Seq(Entries) /\ index2 \in Nat /\ index2 \in 0..Len(trace2)
        /\ gpr2 = Registers(trace2)[index2]
        /\ changes2 = ChangesUpTo(trace2)[index2]
        /\ gpr2 \in GprValues
    BY DEF Counters, Following, GprValues
  <1>2. /\ index2 < Len(trace2)
        /\ gpr2' = After(gpr2, e)
        /\ change2' = Changes(gpr2, e)
        /\ changes2' = IF change2' THEN Append(changes2, e) ELSE changes2
    BY DEF ReadEntry2
  <1>3. /\ e \in Entries
        /\ Registers(trace2)[index2 + 1] = After(gpr2, e)
        /\ ChangesUpTo(trace2)[index2 + 1] =
             IF Changes(gpr2, e) THEN Append(changes2, e) ELSE changes2
        /\ Changes(gpr2, e) => /\ Len(ChangesOf(trace2)) >= Len(changes2) + 1
                               /\ ChangesOf(trace2)[Len(changes2) + 1] = e
    BY <1>1, <1>2, NextChange
  <1>4. After(gpr2, e) \in [Gpr -> Val]
    BY <1>1, <1>3, AfterType DEF GprValues
  <1>5. index2 + 1 \in 1..Len(trace2)
    BY <1>1, <1>2
  <1> HIDE DEF e
  <1>6. change2' = Changes(Registers(trace2)[index2], e)
    BY <1>1, <1>2
  <1>7. changes2' = ChangesUpTo(trace2)[index2 + 1]
    BY <1>2, <1>3
  <1> QED BY <1>2, <1>3, <1>4, <1>5, <1>6, <1>7 DEF e

\* The registers and changes followed stay those of the entries read.
LEMMA FollowingStep == Counters /\ Following /\ Next => Following'
  <1> SUFFICES ASSUME Counters, Following, Next PROVE Following'
    OBVIOUS
  <1>1. /\ gpr1 \in [Gpr -> Val] /\ gpr2 \in [Gpr -> Val]
        /\ gpr1 = Registers(trace1)[index1]
        /\ changes1 = ChangesUpTo(trace1)[index1]
    BY DEF Following
  <1>2. phase # "end" => /\ gpr2 = Registers(trace2)[index2]
                         /\ changes2 = ChangesUpTo(trace2)[index2]
    BY DEF Following
  <1>3. CASE SkipEntry1 \/ TakeEntry1
    <2>1. /\ phase = "next1" /\ index1 < Len(trace1)
          /\ gpr1' = After(gpr1, trace1[index1 + 1]) /\ index1' = index1 + 1
          /\ changes1' = IF Changes(gpr1, trace1[index1 + 1])
                         THEN Append(changes1, trace1[index1 + 1]) ELSE changes1
          /\ UNCHANGED <<trace1, trace2, index2, gpr2, mismatch, changes2>>
      BY <1>3 DEF SkipEntry1, TakeEntry1
    <2>2. /\ gpr1' \in [Gpr -> Val] /\ gpr1' = Registers(trace1)[index1 + 1]
          /\ changes1' = ChangesUpTo(trace1)[index1 + 1]
      BY <2>1, ReadOfTrace1
    <2> QED BY <1>1, <1>2, <2>1, <2>2 DEF Following
  <1>4. CASE SeekEntry2 \/ TailUnchanged
    <2>1. /\ phase \in {"seek2", "tail2"} /\ ReadEntry2 /\ index2' = index2 + 1
          /\ UNCHANGED <<trace1, trace2, index1, gpr1, mismatch, phase, changes1>>
      BY <1>4 DEF SeekEntry2, TailUnchanged
    <2>2. /\ gpr2' \in [Gpr -> Val] /\ gpr2' = Registers(trace2)[index2 + 1]
          /\ changes2' = ChangesUpTo(trace2)[index2 + 1]
      BY <2>1, ReadOfTrace2
    <2> QED BY <1>1, <2>1, <2>2 DEF Following
  <1>5. CASE TailChanged
    <2>1. /\ phase = "tail2" /\ ReadEntry2 /\ phase' = "end"
          /\ mismatch' = mismatch + Len(trace2) - index2 /\ index2 < Len(trace2)
          /\ UNCHANGED <<trace1, trace2, index1, gpr1, changes1>>
      BY <1>5 DEF TailChanged, ReadEntry2
    <2>2. gpr2' \in [Gpr -> Val]
      BY <2>1, ReadOfTrace2
    <2>3. mismatch' # 0
      BY <2>1 DEF Counters
    <2> QED BY <1>1, <2>1, <2>2, <2>3 DEF Following
  <1>6. CASE EndOfTrace1 \/ Matches \/ Mismatches \/ EndOfTrace2
    <2>1. /\ phase # "end"
          /\ UNCHANGED <<trace1, trace2, index1, index2, gpr1, gpr2, changes1, changes2>>
      BY <1>6 DEF EndOfTrace1, Matches, Mismatches, EndOfTrace2
    <2> QED BY <1>1, <1>2, <2>1 DEF Following
  <1> QED BY <1>3, <1>4, <1>5, <1>6 DEF Next

\* What the loops hold is what they have just read.
LEMMA InHandStep == Counters /\ Following /\ InHand /\ Next => InHand'
  <1> SUFFICES ASSUME Counters, Following, InHand, Next PROVE InHand'
    OBVIOUS
  <1>0. /\ index1 \in 0..Len(trace1) /\ index2 \in 0..Len(trace2)
        /\ Len(trace1) \in Nat /\ Len(trace2) \in Nat
        /\ trace2 \in Seq(Entries)
        /\ changes1 \in Seq(Entries) /\ changes2 \in Seq(Entries)
    BY DEF Counters
  <1>1. CASE SkipEntry1
    BY <1>1 DEF SkipEntry1, InHand
  <1>2. CASE TakeEntry1
    <2> DEFINE e == trace1[index1 + 1]
    <2>1. /\ phase = "next1" /\ phase' = "seek2" /\ change2' = FALSE
          /\ index1' = index1 + 1 /\ changes1' = Append(changes1, e)
          /\ index1 < Len(trace1)
          /\ UNCHANGED <<trace1, trace2, index2, changes2>>
      BY <1>2 DEF TakeEntry1
    <2>2. e \in Entries
      BY <2>1, ReadOfTrace1
    <2>3. index2 = Len(trace2) => ~EndsWithChange(trace2)
      BY <1>0, <2>1 DEF InHand, EndsWithChange
    <2>4. Len(changes1') > 0 /\ changes1'[Len(changes1')] = e
      <3> HIDE DEF e
      <3> QED BY <1>0, <2>1, <2>2, AppendFacts
    <2>5. index1' > 0 /\ changes1'[Len(changes1')] = trace1'[index1']
      BY <1>0, <2>1, <2>4
    <2> QED BY <2>1, <2>3, <2>4, <2>5 DEF InHand
  <1>3. CASE EndOfTrace1
    BY <1>3 DEF EndOfTrace1, InHand
  <1>4. CASE SeekEntry2
    <2> DEFINE e == trace2[index2 + 1]
    <2>1. /\ phase = "seek2" /\ phase' = "seek2" /\ ReadEntry2 /\ index2' = index2 + 1
          /\ UNCHANGED <<trace1, trace2, index1, changes1>>
      BY <1>4 DEF SeekEntry2
    <2>2. /\ e \in Entries /\ index2 + 1 \in 1..Len(trace2)
          /\ change2' = Changes(Registers(trace2)[index2], e)
          /\ changes2' = IF change2' THEN Append(changes2, e) ELSE changes2
      BY <2>1, ReadOfTrace2
    <2>3. index2 + 1 = Len(trace2) => (change2' <=> EndsWithChange(trace2))
      <3> SUFFICES ASSUME index2 + 1 = Len(trace2)
                   PROVE  change2' <=> EndsWithChange(trace2)
        OBVIOUS
      <3>1. Len(trace2) > 0 /\ Len(trace2) - 1 = index2 /\ trace2[Len(trace2)] = e
        BY <1>0, <2>2
      <3>2. EndsWithChange(trace2) <=> Changes(Registers(trace2)[index2], e)
        BY <3>1 DEF EndsWithChange
      <3> HIDE DEF e
      <3> QED BY <2>2, <3>2
    <2>4. change2' => Len(changes2') > 0 /\ changes2'[Len(changes2')] = e
      <3> HIDE DEF e
      <3> QED BY <1>0, <2>2, AppendFacts
    <2>5. change2' \in BOOLEAN
      BY <2>1 DEF ReadEntry2, Changes
    <2>6. e = trace2'[index2'] /\ index2' > 0
      BY <1>0, <2>1
    <2>7. /\ index1 > 0 /\ Len(changes1) > 0
          /\ changes1[Len(changes1)] = trace1[index1]
      BY <2>1 DEF InHand
    <2> HIDE DEF e
    <2> QED BY <2>1, <2>3, <2>4, <2>5, <2>6, <2>7 DEF InHand
  <1>5. CASE Matches \/ Mismatches
    <2>1. /\ phase' = AfterJudging
          /\ UNCHANGED <<trace1, trace2, index1, index2, change2, changes1, changes2>>
      BY <1>5 DEF Matches, Mismatches
    <2>2. \/ phase' = "next1" /\ index2 # Len(trace2)
          \/ phase' = "tail2" /\ index2 = Len(trace2)
      BY <2>1 DEF AfterJudging
    <2> QED BY <1>0, <2>1, <2>2 DEF InHand
  <1>6. CASE TailUnchanged
    <2>1. /\ phase = "tail2" /\ phase' = "tail2" /\ index2 < Len(trace2)
          /\ UNCHANGED <<trace1, trace2, index1>>
      BY <1>6 DEF TailUnchanged, ReadEntry2
    <2>2. index1 = Len(trace1)
      BY <1>0, <2>1 DEF InHand
    <2> QED BY <2>1, <2>2 DEF InHand
  <1>7. CASE TailChanged \/ EndOfTrace2
    BY <1>7 DEF TailChanged, EndOfTrace2, InHand
  <1> QED BY <1>1, <1>2, <1>3, <1>4, <1>5, <1>6, <1>7 DEF Next

\* Two sequences of changes that differ at a place of the second are neither
\* equal nor is the second a beginning of the first.
LEMMA Differ ==
    ASSUME NEW s \in Seq(Entries), NEW t \in Seq(Entries), NEW k \in 1..Len(t),
           k > Len(s) \/ s[k] # t[k]
    PROVE  s # t /\ ~IsPrefixOf(t, s)
  BY DEF IsPrefixOf

\* A mismatch is counted only when the traces as a whole are refuted.
LEMMA JudgementStep ==
    Counters /\ Paired /\ Following /\ InHand /\ Judgement /\ Next => Judgement'
  <1> DEFINE c1 == ChangesOf(trace1)
             c2 == ChangesOf(trace2)
             Refuted == c1 # c2 /\ ~(IsPrefixOf(c2, c1) /\ EndsWithChange(trace2))
  <1> SUFFICES ASSUME Counters, Paired, Following, InHand, Judgement, Next
               PROVE  Judgement'
    OBVIOUS
  <1>0. /\ index1 \in 0..Len(trace1) /\ index2 \in 0..Len(trace2)
        /\ trace1 \in Seq(Entries) /\ trace2 \in Seq(Entries)
        /\ matched \in Nat /\ mismatch \in Nat
        /\ changes1 \in Seq(Entries) /\ changes2 \in Seq(Entries)
    BY DEF Counters
  <1>1. /\ c1 \in Seq(Entries) /\ Len(changes1) <= Len(c1)
        /\ Len(c1) <= Len(changes1) + (Len(trace1) - index1)
        /\ \A i \in 1..Len(changes1) : c1[i] = changes1[i]
    BY <1>0, ChangesGrow DEF Following
  <1>2. phase # "end" =>
          /\ c2 \in Seq(Entries) /\ Len(changes2) <= Len(c2)
          /\ Len(c2) <= Len(changes2) + (Len(trace2) - index2)
          /\ \A i \in 1..Len(changes2) : c2[i] = changes2[i]
    <2> SUFFICES ASSUME phase # "end"
                 PROVE  /\ c2 \in Seq(Entries) /\ Len(changes2) <= Len(c2)
                        /\ Len(c2) <= Len(changes2) + (Len(trace2) - index2)
                        /\ \A i \in 1..Len(changes2) : c2[i] = changes2[i]
      OBVIOUS
    <2>1. changes2 = ChangesUpTo(trace2)[index2]
      BY DEF Following
    <2> QED BY <1>0, <2>1, ChangesGrow
  <1>3. mismatch > 0 => Refuted
    BY DEF Judgement
  <1>4. CASE SkipEntry1 \/ TakeEntry1 \/ SeekEntry2
    <2>1. /\ UNCHANGED <<trace1, trace2, mismatch>>
          /\ phase' \in {"next1", "seek2"}
      BY <1>4 DEF SkipEntry1, TakeEntry1, SeekEntry2
    <2> QED BY <2>1 DEF Judgement
  <1>5. CASE EndOfTrace1
    BY <1>5 DEF EndOfTrace1, Judgement, Paired
  <1>6. CASE Matches
    <2>1. /\ phase = "seek2" /\ change2 /\ phase' = AfterJudging
          /\ UNCHANGED <<trace1, trace2, index1, index2, mismatch>>
      BY <1>6 DEF Matches
    <2>2. phase' \in {"tail2", "end"} => index2 = Len(trace2) /\ EndsWithChange(trace2)
      BY <2>1 DEF AfterJudging, InHand
    <2>3. phase' # "end"
      BY <2>1 DEF AfterJudging
    <2> QED BY <2>1, <2>2, <2>3 DEF Judgement
  <1>7. CASE Mismatches
    <2>1. /\ phase = "seek2"
          /\ change2 \/ index2 = Len(trace2)
          /\ ~Same /\ mismatch' = mismatch + 1 /\ UNCHANGED <<trace1, trace2>>
      BY <1>7 DEF Mismatches
    <2>2. ASSUME mismatch = 0 PROVE Refuted
      <3>1. /\ Len(changes1) = matched + 1
            /\ changes1[matched + 1] = trace1[index1]
        BY <2>1, <2>2 DEF Paired
      <3>2. CASE change2
        <4>1. /\ Len(changes2) = matched + 1
              /\ changes2[matched + 1] = trace2[index2]
              /\ trace1[index1] # trace2[index2]
          BY <2>1, <2>2, <3>2 DEF Paired, Same
        <4>2. c1[matched + 1] # c2[matched + 1] /\ matched + 1 \in 1..Len(c2)
              /\ c2 \in Seq(Entries)
          BY <1>0, <1>1, <1>2, <2>1, <3>1, <4>1
        <4> HIDE DEF c1, c2
        <4> QED BY <1>1, <4>2, Differ
      <3>3. CASE ~change2
        <4>1. index2 = Len(trace2) /\ ~EndsWithChange(trace2) /\ Len(changes2) = matched
          BY <2>1, <2>2, <3>3 DEF InHand, Paired
        <4>2. Len(c1) # Len(c2)
          BY <1>0, <1>1, <1>2, <2>1, <3>1, <4>1
        <4> HIDE DEF c1, c2
        <4> QED BY <4>1, <4>2
      <3> QED BY <3>2, <3>3
    <2>3. Refuted /\ mismatch' # 0
      BY <1>0, <1>3, <2>1, <2>2
    <2> QED BY <2>1, <2>3 DEF Judgement
  <1>8. CASE TailUnchanged
    <2>1. /\ phase = "tail2" /\ phase' = "tail2" /\ index2 < Len(trace2)
          /\ UNCHANGED <<trace1, trace2, index1, changes1, matched, mismatch>>
      BY <1>8 DEF TailUnchanged, ReadEntry2
    <2>2. mismatch = 0 => index1 = Len(trace1) /\ Len(changes1) = matched
      BY <1>0, <2>1 DEF Judgement
    <2> QED BY <2>1, <2>2 DEF Judgement
  <1>9. CASE TailChanged
    <2>1. /\ phase = "tail2" /\ ReadEntry2 /\ change2'
          /\ mismatch' = mismatch + Len(trace2) - index2 /\ index2 < Len(trace2)
          /\ phase' = "end" /\ UNCHANGED <<trace1, trace2>>
      BY <1>9 DEF TailChanged, ReadEntry2
    <2>2. ASSUME mismatch = 0 PROVE Refuted
      <3>1. index1 = Len(trace1) /\ Len(changes1) = matched /\ Len(changes2) = matched
        BY <1>0, <2>1, <2>2 DEF Judgement, Paired
      <3>2. Len(c2) >= matched + 1 /\ c2 \in Seq(Entries)
        BY <1>2, <2>1, <3>1, ReadOfTrace2
      <3>3. matched + 1 \in 1..Len(c2) /\ matched + 1 > Len(c1)
        BY <1>0, <1>1, <3>1, <3>2
      <3> HIDE DEF c1, c2
      <3> QED BY <1>1, <3>2, <3>3, Differ
    <2>3. Refuted /\ mismatch' # 0
      BY <1>0, <1>3, <2>1, <2>2
    <2> QED BY <2>1, <2>3 DEF Judgement
  <1>10. CASE EndOfTrace2
    BY <1>10 DEF EndOfTrace2, Judgement
  <1> QED BY <1>4, <1>5, <1>6, <1>7, <1>8, <1>9, <1>10 DEF Next

\* The verdicts are counted once for each change of trace 1.
LEMMA CountedStep == Counters /\ Counted /\ Next => Counted'
  <1> SUFFICES ASSUME Counters, Counted, Next PROVE Counted'
    OBVIOUS
  <1>0. /\ index1 \in 0..Len(trace1) /\ index2 \in 0..Len(trace2)
        /\ Len(trace1) \in Nat /\ Len(trace2) \in Nat
        /\ matched \in Nat /\ mismatch \in Nat
    BY DEF Counters
  <1>1. CASE SkipEntry1 \/ TakeEntry1 \/ EndOfTrace1
    BY <1>0, <1>1 DEF SkipEntry1, TakeEntry1, EndOfTrace1, Counted
  <1>2. CASE Matches \/ Mismatches
    BY <1>0, <1>2 DEF Matches, Mismatches, AfterJudging, Counted
  <1>3. CASE SeekEntry2 \/ TailUnchanged
    BY <1>0, <1>3 DEF SeekEntry2, TailUnchanged, Counted
  <1>4. CASE TailChanged
    <2>1. /\ phase = "tail2" /\ phase' = "end"
          /\ mismatch' = mismatch + Len(trace2) - index2
          /\ UNCHANGED <<trace2, index1, matched>>
      BY <1>4 DEF TailChanged
    <2> QED BY <1>0, <2>1 DEF Counted
  <1>5. CASE EndOfTrace2
    BY <1>0, <1>5 DEF EndOfTrace2, Counted
  <1> QED BY <1>1, <1>2, <1>3, <1>4, <1>5 DEF Next

-----------------------------------------------------------------------------
(* The comparison. *)

\* The first steps: nothing read, nothing counted.
LEMMA FreshInv == Fresh /\ Convertible => VInv /\ Counted
  <1> SUFFICES ASSUME Fresh, Convertible PROVE VInv /\ Counted
    OBVIOUS
  <1>1. /\ index1 = 0 /\ index2 = 0 /\ change2 = FALSE
        /\ matched = 0 /\ mismatch = 0 /\ phase = "next1"
        /\ changes1 = <<>> /\ changes2 = <<>>
    BY DEF Fresh
  <1>2. /\ trace1 \in Seq(Entries) /\ trace2 \in Seq(Entries)
        /\ Len(trace1) \in Nat /\ Len(trace2) \in Nat /\ <<>> \in Seq(Entries)
    BY DEF Convertible
  <1>3. Counters
    <2>1. index1 \in 0..Len(trace1) /\ index2 \in 0..Len(trace2)
      BY <1>1, <1>2
    <2>2. matched \in Nat /\ mismatch \in Nat /\ change2 \in BOOLEAN
      BY <1>1
    <2> QED BY <1>1, <1>2, <2>1, <2>2 DEF Counters
  <1>4. Paired
    BY <1>1 DEF Paired, IsPrefixOf
  <1>5. Following
    <2>1. /\ gpr1 = Registers(trace1)[0] /\ gpr2 = Registers(trace2)[0]
          /\ changes1 = ChangesUpTo(trace1)[0] /\ changes2 = ChangesUpTo(trace2)[0]
      BY <1>1, <1>2, RegistersFacts, ChangesUpToFacts DEF Fresh
    <2>2. gpr1 \in [Gpr -> Val] /\ gpr2 \in [Gpr -> Val]
      BY EntriesAssumption DEF Fresh
    <2> QED BY <1>1, <2>1, <2>2 DEF Following
  <1>6. InHand /\ Judgement /\ Counted
    BY <1>1 DEF InHand, Judgement, Counted
  <1> QED BY <1>3, <1>4, <1>5, <1>6 DEF VInv, CInv

\* The inductive invariant is kept by every step of the comparison.
LEMMA VInvStep == VInv /\ Next => VInv'
  BY CInvStep, FollowingStep, InHandStep, JudgementStep DEF VInv, CInv

\* What changes nothing of the comparison keeps its invariant.
LEMMA VInvStutter == (VInv /\ UNCHANGED vars => VInv') /\ (Counted /\ UNCHANGED vars => Counted')
  <1> SUFFICES ASSUME UNCHANGED vars PROVE (VInv => VInv') /\ (Counted => Counted')
    OBVIOUS
  <1>1. CInv => CInv'
    BY DEF vars, CInv, Counters, Paired, IsPrefixOf
  <1>2. Following => Following'
    BY DEF vars, Following
  <1>3. (InHand => InHand') /\ (Judgement => Judgement') /\ (Counted => Counted')
    BY DEF vars, InHand, Judgement, Counted
  <1> QED BY <1>1, <1>2, <1>3 DEF VInv

\* Without a mismatch the changes have been paired to the end.
LEMMA PassedFromInv == CInv => PassedMatches
  BY DEF CInv, Paired, PassedMatches, Passed

\* At the end the verdict is that of the whole traces.
LEMMA VerdictFromInv == VInv => VerdictExact
  <1> SUFFICES ASSUME VInv, phase = "end"
               PROVE  mismatch = 0 <=>
                        \/ ChangesOf(trace1) = ChangesOf(trace2)
                        \/ /\ IsPrefixOf(ChangesOf(trace2), ChangesOf(trace1))
                           /\ EndsWithChange(trace2)
    BY DEF VerdictExact
  <1> DEFINE c1 == ChangesOf(trace1)
             c2 == ChangesOf(trace2)
  <1>0. /\ index1 \in 0..Len(trace1) /\ index2 \in 0..Len(trace2)
        /\ trace1 \in Seq(Entries) /\ trace2 \in Seq(Entries)
        /\ matched \in Nat /\ mismatch \in Nat
        /\ changes1 \in Seq(Entries) /\ changes2 \in Seq(Entries)
    BY DEF VInv, CInv, Counters
  <1>1. CASE mismatch > 0
    <2>1. mismatch # 0
      BY <1>0, <1>1
    <2> QED BY <1>1, <2>1 DEF VInv, Judgement
  <1>2. CASE mismatch = 0
    <2>1. /\ changes1 = ChangesUpTo(trace1)[index1]
          /\ changes2 = ChangesUpTo(trace2)[Len(trace2)]
      BY <1>2 DEF VInv, Following, Judgement
    <2>2. /\ c1 \in Seq(Entries) /\ Len(changes1) <= Len(c1)
          /\ Len(c1) <= Len(changes1) + (Len(trace1) - index1)
          /\ \A i \in 1..Len(changes1) : c1[i] = changes1[i]
      BY <1>0, <2>1, ChangesGrow
    <2>3. c2 = changes2
      BY <1>0, <2>1, ChangesUpToFacts
    <2>4. IsPrefixOf(changes2, changes1) /\ Len(changes2) = matched
      BY <1>2 DEF VInv, CInv, Paired
    <2>5. IsPrefixOf(c2, c1)
      <3>1. Len(changes2) <= Len(changes1) /\ Len(changes2) <= Len(c1)
        BY <1>0, <2>2, <2>4 DEF IsPrefixOf
      <3>2. \A k \in 1..Len(changes2) : k \in 1..Len(changes1) /\ changes2[k] = changes1[k]
        BY <1>0, <2>4, <3>1 DEF IsPrefixOf
      <3> HIDE DEF c1, c2
      <3> QED BY <2>2, <2>3, <3>1, <3>2 DEF IsPrefixOf
    <2>6. \/ index1 = Len(trace1) /\ Len(changes1) = matched
          \/ EndsWithChange(trace2)
      BY <1>2 DEF VInv, Judgement
    <2>7. CASE index1 = Len(trace1) /\ Len(changes1) = matched
      <3>1. Len(c1) = matched /\ Len(c2) = matched /\ \A i \in 1..matched : c1[i] = c2[i]
        <4> HIDE DEF c1, c2
        <4> QED BY <1>0, <2>2, <2>3, <2>4, <2>5, <2>7 DEF IsPrefixOf
      <3>2. c1 = c2
        <4> HIDE DEF c1, c2
        <4> QED BY <1>0, <2>2, <2>3, <3>1
      <3> QED BY <1>2, <3>2
    <2>8. CASE EndsWithChange(trace2)
      BY <1>2, <2>5, <2>8
    <2> QED BY <2>6, <2>7, <2>8
  <1> QED BY <1>0, <1>1, <1>2

\* The types of the comparison, with the bounds of its counters.
LEMMA TypeFromInv ==
    VInv /\ Counted /\ trace1 \in Traces /\ trace2 \in Traces => TypeOK
  <1> SUFFICES ASSUME VInv, Counted, trace1 \in Traces, trace2 \in Traces PROVE TypeOK
    OBVIOUS
  <1>1. Len(trace1) \in 0..MaxLen /\ Len(trace2) \in 0..MaxLen /\ MaxLen \in Nat
    BY EntriesAssumption DEF Traces
  <1>2. Counters /\ gpr1 \in [Gpr -> Val] /\ gpr2 \in [Gpr -> Val]
    BY DEF VInv, CInv, Following
  <1>3. /\ index1 \in 0..Len(trace1) /\ matched \in Nat /\ mismatch \in Nat
        /\ index1 \in Nat
    BY <1>1, <1>2 DEF Counters
  <1>4. matched <= index1 /\ mismatch <= index1 + Len(trace2)
    BY <1>1, <1>3 DEF Counted
  <1>5. matched \in 0..MaxLen /\ mismatch \in 0 .. 2 * MaxLen
    BY <1>1, <1>3, <1>4
  <1> QED BY <1>2, <1>5 DEF TypeOK, Counters

\* The invariant of the comparison of any two traces.
THEOREM VerdictInductive == Spec => [](VInv /\ Counted /\ trace1 \in Traces /\ trace2 \in Traces)
  <1> DEFINE I == VInv /\ Counted /\ trace1 \in Traces /\ trace2 \in Traces
  <1>1. Init => I
    <2> SUFFICES ASSUME Init PROVE I
      OBVIOUS
    <2>1. Fresh /\ trace1 \in Traces /\ trace2 \in Traces
      BY DEF Init, Fresh
    <2>2. Convertible
      BY <2>1, TracesAreSequences DEF Convertible
    <2> QED BY <2>1, <2>2, FreshInv
  <1>2. I /\ [Next]_vars => I'
    <2> SUFFICES ASSUME I, [Next]_vars PROVE I'
      OBVIOUS
    <2>1. CASE Next
      <3>1. UNCHANGED <<trace1, trace2>>
        BY <2>1 DEF Next, SkipEntry1, TakeEntry1, EndOfTrace1, SeekEntry2, Matches,
                    Mismatches, TailUnchanged, TailChanged, EndOfTrace2
      <3>2. VInv' /\ Counted'
        BY <2>1, VInvStep, CountedStep DEF VInv, CInv
      <3> QED BY <3>1, <3>2
    <2>2. CASE UNCHANGED vars
      <3>1. UNCHANGED <<trace1, trace2>>
        BY <2>2 DEF vars
      <3> QED BY <2>2, <3>1, VInvStutter
    <2> QED BY <2>1, <2>2
  <1> QED BY <1>1, <1>2, PTL DEF Spec

\* CInv is an invariant of the comparison.
THEOREM CompareInductive == Spec => []CInv
  BY VerdictInductive, PTL DEF VInv

\* A passed comparison has matched every register change of trace 2, in
\* order, with an equal one of trace 1.
THEOREM PassedIsSound == Spec => []PassedMatches
  BY PassedFromInv, VerdictInductive, PTL DEF VInv

\* The variables keep their types; there are at most as many verdicts as
\* changes of trace 1, and entries of trace 2 left over.
THEOREM CompareTypes == Spec => []TypeOK
  BY TypeFromInv, VerdictInductive, PTL

\* The verdict is that of the two whole traces: no mismatch exactly when they
\* change the same registers in the same order, or when trace 2 ends early
\* with a matched change as its very last entry.
THEOREM VerdictIsExact == Spec => []VerdictExact
  BY VerdictFromInv, VerdictInductive, PTL

-----------------------------------------------------------------------------
(* The conversion of the logs.  Of each converter the invariant says how     *)
(* far it has read: what is left of the log is what is printed of the rest   *)
(* of the program, and what has been written is, but for entries that change *)
(* nothing, the trace of the instructions before.                            *)

\* The registers after a trace
Regs(t) == Registers(t)[Len(t)]

\* Two traces that a comparison cannot tell apart, however they go on.
Alike(t, u) == Regs(t) = Regs(u) /\ ChangesOf(t) = ChangesOf(u)

\* One more entry changes the registers as read_trace's entries do, one by one.
LEMMA RegsAppend ==
    ASSUME NEW t \in Seq(Entries), NEW e \in Entries
    PROVE  /\ Regs(Append(t, e)) = After(Regs(t), e)
           /\ ChangesOf(Append(t, e)) =
                IF Changes(Regs(t), e) THEN Append(ChangesOf(t), e) ELSE ChangesOf(t)
  <1> DEFINE n == Len(t)
             u == Append(t, e)
             S == {k \in 0..n : /\ Registers(u)[k] = Registers(t)[k]
                                /\ ChangesUpTo(u)[k] = ChangesUpTo(t)[k]}
  <1>1. /\ u \in Seq(Entries) /\ n \in Nat /\ Len(u) = n + 1 /\ u[n + 1] = e
        /\ \A k \in 1..n : u[k] = t[k]
    OBVIOUS
  <1> HIDE DEF u
  <1>2. /\ Registers(u)[0] = Registers(t)[0]
        /\ ChangesUpTo(u)[0] = ChangesUpTo(t)[0]
    BY <1>1, RegistersFacts, ChangesUpToFacts
  <1>3. ASSUME NEW k \in 1..n, k - 1 \in S PROVE k \in S
    <2>1. k \in 1..Len(u) /\ k \in 1..Len(t) /\ u[k] = t[k] /\ k \in 0..n
      BY <1>1
    <2>2. /\ Registers(u)[k] = After(Registers(u)[k - 1], t[k])
          /\ Registers(t)[k] = After(Registers(t)[k - 1], t[k])
      BY <1>1, <2>1, RegistersFacts
    <2>3. /\ ChangesUpTo(u)[k] = IF Changes(Registers(u)[k - 1], t[k])
                                 THEN Append(ChangesUpTo(u)[k - 1], t[k]) ELSE ChangesUpTo(u)[k - 1]
          /\ ChangesUpTo(t)[k] = IF Changes(Registers(t)[k - 1], t[k])
                                 THEN Append(ChangesUpTo(t)[k - 1], t[k]) ELSE ChangesUpTo(t)[k - 1]
      BY <1>1, <2>1, ChangesUpToFacts
    <2>4. /\ Registers(u)[k - 1] = Registers(t)[k - 1]
          /\ ChangesUpTo(u)[k - 1] = ChangesUpTo(t)[k - 1]
      BY <1>3
    <2> QED BY <2>1, <2>2, <2>3, <2>4
  <1>4. n \in S
    <2>1. 0 \in S
      BY <1>1, <1>2
    <2> HIDE DEF S
    <2>2. 0..n \subseteq S
      BY <1>1, <1>3, <2>1, IntervalInduction
    <2> QED BY <1>1, <2>2
  <1>5. /\ Registers(u)[n + 1] = After(Registers(u)[n], e)
        /\ ChangesUpTo(u)[n + 1] = IF Changes(Registers(u)[n], e)
                                   THEN Append(ChangesUpTo(u)[n], e) ELSE ChangesUpTo(u)[n]
    <2>1. n + 1 \in 1..Len(u) /\ (n + 1) - 1 = n
      BY <1>1
    <2> QED BY <1>1, <2>1, RegistersFacts, ChangesUpToFacts
  <1>6. ChangesOf(t) = ChangesUpTo(t)[n] /\ ChangesOf(u) = ChangesUpTo(u)[n + 1]
    BY <1>1 DEF ChangesOf, ChangesUpTo
  <1>7. Regs(u) = Registers(u)[n + 1] /\ Regs(t) = Registers(t)[n]
    BY <1>1 DEF Regs
  <1>8. Registers(u)[n] = Registers(t)[n] /\ ChangesUpTo(u)[n] = ChangesUpTo(t)[n]
    BY <1>4
  <1>9. /\ Regs(u) = After(Regs(t), e)
        /\ ChangesOf(u) = IF Changes(Regs(t), e) THEN Append(ChangesOf(t), e) ELSE ChangesOf(t)
    BY <1>5, <1>6, <1>7, <1>8
  <1> QED BY <1>9 DEF u

\* Registers after a trace keep their types.
LEMMA RegsType == ASSUME NEW t \in Seq(Entries) PROVE Regs(t) \in GprValues
  BY RegistersFacts DEF Regs

\* A single update, and none.
LEMMA SingleUpdate ==
    ASSUME NEW g \in GprValues, NEW r \in Gpr, NEW v \in Val
    PROVE  LET e == <<[rd |-> r, val |-> v]>>
           IN  /\ After(g, e) = [g EXCEPT ![r] = v]
               /\ Changes(g, e) <=> g[r] # v
               /\ After(g, <<>>) = g /\ ~Changes(g, <<>>)
  <1> DEFINE e == <<[rd |-> r, val |-> v]>>
  <1>1. Len(e) = 1 /\ e[1].rd = r /\ e[1].val = v /\ 1..1 = {1} /\ 0..1 = {0, 1}
    OBVIOUS
  <1>2. Steps(g, e)[0] = g /\ Steps(g, e)[1] = [g EXCEPT ![r] = v]
    <2> DEFINE f == [k \in 0..1 |-> IF k = 0 THEN g ELSE [g EXCEPT ![r] = v]]
               Eq(h) == h = [k \in 0..Len(e) |-> IF k = 0 THEN g
                                                 ELSE [h[k - 1] EXCEPT ![e[k].rd] = e[k].val]]
    <2>1. Eq(f)
      <3>1. ASSUME NEW k \in 0..1
            PROVE  f[k] = IF k = 0 THEN g ELSE [f[k - 1] EXCEPT ![e[k].rd] = e[k].val]
        <4>1. CASE k = 0
          BY <4>1
        <4>2. CASE k = 1
          <5>1. f[1] = [g EXCEPT ![r] = v] /\ f[1 - 1] = g
            OBVIOUS
          <5> QED BY <1>1, <4>2, <5>1
        <4> QED BY <1>1, <4>1, <4>2
      <3> QED BY <1>1, <3>1
    <2>2. Steps(g, e) = CHOOSE h : Eq(h)
      BY DEF Steps
    <2>3. Eq(Steps(g, e))
      <3> HIDE DEF Eq
      <3> QED BY <2>1, <2>2
    <2> QED BY <1>1, <2>3
  <1>3. Steps(g, <<>>)[0] = g
    <2> DEFINE Eq(h) == h = [k \in 0..0 |-> IF k = 0 THEN g
                                           ELSE [h[k - 1] EXCEPT ![<<>>[k].rd] = <<>>[k].val]]
    <2>1. Eq([k \in 0..0 |-> g])
      OBVIOUS
    <2>2. Steps(g, <<>>) = CHOOSE h : Eq(h)
      BY DEF Steps
    <2>3. Eq(Steps(g, <<>>))
      <3> HIDE DEF Eq
      <3> QED BY <2>1, <2>2
    <2> QED BY <2>3
  <1>4. After(g, e) = [g EXCEPT ![r] = v] /\ After(g, <<>>) = g
    <2> HIDE DEF e
    <2> QED BY <1>1, <1>2, <1>3 DEF After
  <1>5. Changes(g, e) <=> g[r] # v
    <2> HIDE DEF e
    <2>1. Changes(g, e) <=> Steps(g, e)[1 - 1][e[1].rd] # e[1].val
      BY <1>1 DEF Changes
    <2> QED BY <1>1, <1>2, <2>1
  <1>6. ~Changes(g, <<>>)
    BY DEF Changes
  <1> QED BY <1>4, <1>5, <1>6

\* Traces that cannot be told apart still cannot after the same entry.
LEMMA AlikeAppend ==
    ASSUME NEW t \in Seq(Entries), NEW u \in Seq(Entries), NEW e \in Entries, Alike(t, u)
    PROVE  Alike(Append(t, e), Append(u, e))
  BY RegsAppend DEF Alike

\* An entry that changes nothing leaves no trace.
LEMMA AlikeQuiet ==
    ASSUME NEW t \in Seq(Entries), NEW e \in Entries,
           After(Regs(t), e) = Regs(t), ~Changes(Regs(t), e)
    PROVE  Alike(Append(t, e), t)
  BY RegsAppend DEF Alike

\* An entry without a register, as Spike's for a wfi, leaves no trace.
LEMMA AlikeEmpty ==
    ASSUME NEW t \in Seq(Entries), <<>> \in Entries
    PROVE  Alike(Append(t, <<>>), t)
  <1>1. PICK r \in Gpr, v \in Val : TRUE
    BY LogsAssumption, EntriesAssumption
  <1> QED BY <1>1, AlikeQuiet, SingleUpdate, RegsType

-----------------------------------------------------------------------------
(* The program and its trace. *)

\* A program of instructions that leave x0 alone
Legal(prog) == prog \in Seq(Instruction) /\ \A k \in 1..Len(prog) : Writable(prog[k])

\* What a simulator executes are instructions, and x0 is never written.
LEMMA ProgramsLegal == ASSUME NEW prog \in Programs PROVE Legal(prog)
  <1>0. PICK body \in Bodies, ending \in Endings : prog = body \o ending
    BY DEF Programs
  <1>1. PICK n \in 0..MaxSteps : body \in [1..n -> Executed]
    BY DEF Bodies
  <1>2. n \in Nat /\ body \in Seq(Instruction) /\ Len(body) = n
    BY <1>1, LogsAssumption
  <1>3. ending \in Seq(Instruction)
    BY <1>1, LogsAssumption
  <1>4. /\ \A k \in 1..n : Writable(body[k])
        /\ \A k \in 1..Len(ending) : Writable(ending[k])
    BY <1>1, <1>2, LogsAssumption
  <1>5. prog \in Seq(Instruction) /\ Len(prog) = n + Len(ending)
    BY <1>0, <1>2, <1>3, ConcatProperties
  <1>6. ASSUME NEW k \in 1..Len(prog) PROVE Writable(prog[k])
    <2>1. prog[k] = IF k <= n THEN body[k] ELSE ending[k - n]
      BY <1>0, <1>2, <1>3, <1>5, ConcatProperties
    <2>2. CASE k <= n
      BY <1>4, <2>1, <2>2, <1>2
    <2>3. CASE k > n
      <3>1. k - n \in 1..Len(ending)
        BY <1>2, <1>3, <1>5, <2>3
      <3> QED BY <1>4, <2>1, <2>3, <3>1, <1>2
    <2> QED BY <1>2, <2>2, <2>3
  <1> QED BY <1>5, <1>6 DEF Legal

\* The trace of the first k instructions
Part(sim, prog, k) == SubSeq(Writes(sim, prog), 1, k)

\* A program writes an entry for each of its instructions.
LEMMA WritesFacts ==
    ASSUME NEW sim, NEW prog, Legal(prog)
    PROVE  /\ Writes(sim, prog) \in Seq(Entries)
           /\ Len(Writes(sim, prog)) = Len(prog)
           /\ \A k \in 1..Len(prog) : /\ Writes(sim, prog)[k] = Written(sim, prog[k])
                                      /\ Written(sim, prog[k]) \in Entries
  <1>1. prog \in Seq(Instruction) /\ Len(prog) \in Nat
    BY DEF Legal
  <1>2. \A k \in 1..Len(prog) : Written(sim, prog[k]) \in Entries
    BY LogsAssumption DEF Legal, Writable, Written
  <1>3. /\ Writes(sim, prog) \in [1..Len(prog) -> Entries]
        /\ \A k \in 1..Len(prog) : Writes(sim, prog)[k] = Written(sim, prog[k])
    BY <1>2 DEF Writes
  <1>4. Writes(sim, prog) \in Seq(Entries) /\ Len(Writes(sim, prog)) = Len(prog)
    BY <1>1, <1>3
  <1> QED BY <1>2, <1>3, <1>4

\* Instruction by instruction, the trace grows by what was written.
LEMMA PartFacts ==
    ASSUME NEW sim, NEW prog, Legal(prog)
    PROVE  /\ Part(sim, prog, 0) = <<>>
           /\ \A k \in 0..Len(prog) : Part(sim, prog, k) \in Seq(Entries)
           /\ \A k \in 1..Len(prog) :
                Part(sim, prog, k) = Append(Part(sim, prog, k - 1), Written(sim, prog[k]))
  <1> DEFINE w == Writes(sim, prog)
  <1>1. /\ w \in Seq(Entries) /\ Len(w) = Len(prog) /\ Len(prog) \in Nat
        /\ \A k \in 1..Len(prog) : w[k] = Written(sim, prog[k])
    BY WritesFacts DEF Legal
  <1> HIDE DEF w
  <1>2. \A k \in 0..Len(prog) : SubSeq(w, 1, k) \in Seq(Entries) /\ Len(SubSeq(w, 1, k)) = k
    BY <1>1
  <1>3. ASSUME NEW k \in 1..Len(prog)
        PROVE  SubSeq(w, 1, k) = Append(SubSeq(w, 1, k - 1), Written(sim, prog[k]))
    <2>1. k - 1 \in 0..Len(prog) /\ k \in 0..Len(prog)
      OBVIOUS
    <2>2. SubSeq(w, 1, k) = Append(SubSeq(w, 1, k - 1), w[k])
      BY <1>1, <1>2, <2>1
    <2> QED BY <1>1, <2>2
  <1>4. SubSeq(w, 1, 0) = <<>>
    BY <1>1, <1>2
  <1> QED BY <1>2, <1>3, <1>4 DEF Part, w

\* The empty trace changes nothing.
LEMMA EmptyRegs == <<>> \in Seq(Entries) /\ Regs(<<>>) = [r \in Gpr |-> 0] /\ ChangesOf(<<>>) = <<>>
  <1>1. <<>> \in Seq(Entries) /\ Len(<<>>) = 0
    OBVIOUS
  <1>2. ChangesOf(<<>>) = ChangesUpTo(<<>>)[0]
    BY DEF ChangesOf, ChangesUpTo
  <1> QED BY <1>1, <1>2, RegistersFacts, ChangesUpToFacts DEF Regs

\* x0 stays zero.
LEMMA ZeroStays ==
    ASSUME NEW sim, NEW prog, Legal(prog), NEW k \in 0..Len(prog)
    PROVE  "zero" \in Gpr /\ Regs(Part(sim, prog, k))["zero"] = 0
  <1> DEFINE S == {m \in 0..Len(prog) : Regs(Part(sim, prog, m))["zero"] = 0}
  <1>1. "zero" \in Gpr
    <2>1. <<[rd |-> "zero", val |-> 0]>> \in Seq([rd : Gpr, val : Val])
      BY LogsAssumption, EntriesAssumption
    <2> QED BY <2>1
  <1>2. Len(prog) \in Nat /\ 0 \in S
    BY <1>1, PartFacts, EmptyRegs DEF Legal
  <1>3. ASSUME NEW m \in 1..Len(prog), m - 1 \in S PROVE m \in S
    <2>0. m \in 0..Len(prog) /\ m - 1 \in 0..Len(prog)
      BY <1>2, <1>3
    <2> SUFFICES Regs(Part(sim, prog, m))["zero"] = 0
      BY <2>0
    <2> DEFINE t == Part(sim, prog, m - 1)
               s == prog[m]
    <2>1. /\ t \in Seq(Entries) /\ Regs(t)["zero"] = 0 /\ Regs(t) \in GprValues
          /\ Part(sim, prog, m) = Append(t, Written(sim, s)) /\ Written(sim, s) \in Entries
      BY <1>3, PartFacts, WritesFacts, RegsType
    <2>2. s \in Instruction /\ Writable(s)
      BY DEF Legal
    <2> HIDE DEF t, s
    <2>3. Regs(Part(sim, prog, m)) = After(Regs(t), Written(sim, s))
      BY <2>1, RegsAppend
    <2>4. s.rd \in Gpr /\ s.val \in Val
      BY <2>2 DEF Instruction
    <2>5. CASE Written(sim, s) = <<>>
      <3>1. After(Regs(t), <<>>) = Regs(t)
        BY <2>1, <2>4, SingleUpdate
      <3> QED BY <1>2, <2>1, <2>3, <2>5, <3>1
    <2>6. CASE s.op = "set" /\ Written(sim, s) = <<Update(s)>>
      <3>1. After(Regs(t), <<Update(s)>>) = [Regs(t) EXCEPT ![s.rd] = s.val]
        BY <2>1, <2>4, SingleUpdate DEF Update
      <3>2. Regs(t) \in [Gpr -> Val]
        BY <2>1 DEF GprValues
      <3>3. s.rd = "zero" => s.val = 0
        BY <2>2, <2>6 DEF Writable
      <3>4. [Regs(t) EXCEPT ![s.rd] = s.val]["zero"] = 0
        BY <1>1, <2>1, <2>4, <3>2, <3>3
      <3> QED BY <1>2, <2>3, <2>6, <3>1, <3>4
    <2> QED BY <2>5, <2>6 DEF Written
  <1>4. 0..Len(prog) \subseteq S
    <2> HIDE DEF S
    <2> QED BY <1>2, <1>3, IntervalInduction
  <1> QED BY <1>1, <1>4

-----------------------------------------------------------------------------
(* The lines of a log. *)

\* R[k] is what the sequences behind the k-th one make when flattened.
IsRest(R, ss, X) ==
    /\ R \in [0..Len(ss) -> Seq(X)]
    /\ R[Len(ss)] = <<>>
    /\ \A k \in 1..Len(ss) : R[k - 1] = ss[k] \o R[k]

\* There is always what is left of a log behind the first instructions.
LEMMA RestExists ==
    ASSUME NEW X, NEW ss \in Seq(Seq(X))
    PROVE  \E R : IsRest(R, ss, X)
  <1> DEFINE n == Len(ss)
             F == [j \in 1..n |-> [x \in Seq(X) |-> ss[n - j + 1] \o x]]
  <1>1. n \in Nat /\ <<>> \in Seq(X) /\ \A k \in 1..n : ss[k] \in Seq(X)
    OBVIOUS
  <1>2. F \in StepFunctions(n, Seq(X))
    <2>1. \A j \in 1..n : n - j + 1 \in 1..n
      BY <1>1
    <2>2. \A j \in 1..n : [x \in Seq(X) |-> ss[n - j + 1] \o x] \in [Seq(X) -> Seq(X)]
      BY <1>1, <2>1
    <2> QED BY <2>2 DEF StepFunctions
  <1>3. PICK h : IsRunOf(h, <<>>, n, F, Seq(X))
    <2> HIDE DEF F
    <2> QED BY <1>1, <1>2, Recursion
  <1>4. /\ h \in [0..n -> Seq(X)] /\ h[0] = <<>>
        /\ \A j \in 1..n : h[j] = F[j][h[j - 1]]
    BY <1>3 DEF IsRunOf
  <1> DEFINE R == [k \in 0..n |-> h[n - k]]
  <1>5. R \in [0..n -> Seq(X)] /\ R[n] = <<>>
    <2>1. \A k \in 0..n : n - k \in 0..n /\ n - n = 0
      BY <1>1
    <2> QED BY <1>1, <1>4, <2>1
  <1>6. ASSUME NEW k \in 1..n PROVE R[k - 1] = ss[k] \o R[k]
    <2>0. n - k + 1 \in 1..n
      <3> HIDE DEF n, F
      <3> QED BY <1>1
    <2>1. PICK j \in 1..n : j = n - k + 1
      BY <2>0
    <2>2. n - (k - 1) = j /\ n - k = j - 1 /\ n - j + 1 = k /\ j - 1 \in 0..n
          /\ k - 1 \in 0..n /\ k \in 0..n
      BY <1>1, <2>1
    <2>3. h[j] = F[j][h[j - 1]] /\ h[j - 1] \in Seq(X)
      BY <1>4, <2>2
    <2>4. F[j][h[j - 1]] = ss[k] \o h[j - 1]
      BY <2>2, <2>3
    <2> QED BY <2>2, <2>3, <2>4
  <1>7. IsRest(R, ss, X)
    <2> HIDE DEF R
    <2> QED BY <1>5, <1>6 DEF IsRest
  <1> QED BY <1>7

\* A chunk moves from what is left to what has been read.
LEMMA MoveOver ==
    ASSUME NEW X, NEW a \in Seq(X), NEW b \in Seq(X), NEW c \in Seq(X),
           NEW ab, NEW bc, ab = a \o b, bc = b \o c
    PROVE  a \o bc = ab \o c
  BY ConcatAssociative

\* What is left behind no instruction at all is the whole log.
LEMMA RestIsFlat ==
    ASSUME NEW X, NEW ss \in Seq(Seq(X)), NEW R, IsRest(R, ss, X)
    PROVE  R[0] = FlattenSeq(ss)
  <1> DEFINE n == Len(ss)
             F == [j \in 1..n |-> [x \in Seq(X) |-> x \o ss[j]]]
  <1> DEFINE Eq(f) == f = [i \in 1..n |-> IF i = 1 THEN ss[i] ELSE f[i - 1] \o ss[i]]
  <1>1. n \in Nat /\ <<>> \in Seq(X) /\ \A k \in 1..n : ss[k] \in Seq(X)
    OBVIOUS
  <1>2. F \in StepFunctions(n, Seq(X))
    BY <1>1 DEF StepFunctions
  <1>3. PICK h : IsRunOf(h, <<>>, n, F, Seq(X))
    <2> HIDE DEF F
    <2> QED BY <1>1, <1>2, Recursion
  <1>4. /\ h \in [0..n -> Seq(X)] /\ h[0] = <<>>
        /\ \A j \in 1..n : h[j] = h[j - 1] \o ss[j] /\ h[j - 1] \in Seq(X)
    <2>1. /\ h \in [0..n -> Seq(X)] /\ h[0] = <<>>
          /\ \A j \in 1..n : h[j] = F[j][h[j - 1]]
      BY <1>3 DEF IsRunOf
    <2>2. \A j \in 1..n : j - 1 \in 0..n
      BY <1>1
    <2> QED BY <2>1, <2>2
  <1>5. /\ R \in [0..n -> Seq(X)] /\ R[n] = <<>>
        /\ \A k \in 1..n : R[k - 1] = ss[k] \o R[k]
    BY DEF IsRest
  <1>6. CASE n = 0
    <2>1. FlattenSeq(ss) = ss /\ ss = <<>> /\ R[0] = <<>>
      BY <1>5, <1>6 DEF FlattenSeq
    <2> QED BY <2>1
  <1>7. CASE n > 0
    <2> DEFINE f == [i \in 1..n |-> h[i]]
    <2>1. Eq(f)
      <3>1. ASSUME NEW i \in 1..n
            PROVE  h[i] = IF i = 1 THEN ss[i] ELSE f[i - 1] \o ss[i]
        <4>0. h[i] = h[i - 1] \o ss[i] /\ h[0] = <<>> /\ ss[i] \in Seq(X)
          BY <1>1, <1>4
        <4>1. CASE i = 1
          <5>1. <<>> \o ss[i] = ss[i] /\ i - 1 = 0
            BY <4>0, <4>1, ConcatEmptySeq
          <5>2. h[i] = ss[i]
            BY <4>0, <5>1
          <5> QED BY <4>1, <5>2
        <4>2. CASE i # 1
          <5>1. i - 1 \in 1..n
            <6> HIDE DEF n
            <6> QED BY <4>2, <1>1
          <5>2. f[i - 1] = h[i - 1]
            BY <5>1
          <5> QED BY <4>0, <4>2, <5>2
        <4> QED BY <4>1, <4>2
      <3> QED BY <3>1
    <2>2. \A g : Eq(g) => \A i \in 1..n : g[i] = h[i]
      <3> SUFFICES ASSUME NEW g, Eq(g) PROVE \A i \in 1..n : g[i] = h[i]
        OBVIOUS
      <3> DEFINE S == {i \in 0..n : i = 0 \/ g[i] = h[i]}
      <3>1. 0 \in S
        BY <1>1
      <3>2. ASSUME NEW i \in 1..n, i - 1 \in S PROVE i \in S
        <4>1. g[i] = IF i = 1 THEN ss[i] ELSE g[i - 1] \o ss[i]
          OBVIOUS
        <4>2. h[i] = h[i - 1] \o ss[i] /\ h[0] = <<>>
          BY <1>4
        <4>5. i \in 0..n
          <5> HIDE DEF n
          <5> QED BY <1>1
        <4>3. CASE i = 1
          <5>1. <<>> \o ss[i] = ss[i] /\ i - 1 = 0
            BY <1>1, <4>3, ConcatEmptySeq
          <5>2. h[i] = ss[i] /\ g[i] = ss[i]
            BY <4>1, <4>2, <4>3, <5>1
          <5> QED BY <4>5, <5>2
        <4>4. CASE i # 1
          <5>1. i - 1 # 0 /\ i \in 0..n
            <6> HIDE DEF n
            <6> QED BY <1>1, <4>4
          <5>2. g[i - 1] = h[i - 1]
            BY <3>2, <5>1
          <5> QED BY <4>1, <4>2, <4>4, <5>1, <5>2
        <4> QED BY <4>3, <4>4, <4>5
      <3> HIDE DEF S
      <3>3. 0..n \subseteq S
        BY <1>1, <3>1, <3>2, IntervalInduction
      <3>4. ASSUME NEW i \in 1..n PROVE g[i] = h[i]
        <4>1. i \in 0..n /\ i # 0
          <5> HIDE DEF n
          <5> QED BY <1>1
        <4>2. i \in S
          BY <3>3, <4>1
        <4> QED BY <4>1, <4>2 DEF S
      <3> HIDE DEF n
      <3> QED BY <3>4
    <2>3. FlattenSeq(ss) = (CHOOSE g : Eq(g))[n]
      BY <1>7 DEF FlattenSeq
    <2>4. Eq(CHOOSE g : Eq(g))
      <3> HIDE DEF Eq, f
      <3> QED BY <2>1
    <2>5. FlattenSeq(ss) = h[n]
      <3> HIDE DEF Eq
      <3> QED BY <1>7, <1>1, <2>2, <2>3, <2>4
    <2> DEFINE T == {k \in 0..n : h[k] \o R[k] = R[0]}
    <2>6. 0 \in T
      <3>1. R[0] \in Seq(X) /\ 0 \in 0..n
        <4> HIDE DEF n
        <4> QED BY <1>1, <1>5
      <3>2. <<>> \o R[0] = R[0]
        BY <3>1, ConcatEmptySeq
      <3> QED BY <1>4, <3>1, <3>2
    <2>7. ASSUME NEW k \in 1..n, k - 1 \in T PROVE k \in T
      <3>1. h[k - 1] \in Seq(X) /\ ss[k] \in Seq(X) /\ R[k] \in Seq(X)
        <4> HIDE DEF n
        <4>1. k \in 0..n
          BY <1>1
        <4> QED BY <1>1, <1>4, <1>5, <4>1
      <3>3. h[k] = h[k - 1] \o ss[k] /\ R[k - 1] = ss[k] \o R[k]
        BY <1>4, <1>5
      <3>4. h[k - 1] \o R[k - 1] = R[0]
        BY <2>7
      <3>5. k \in 0..n
        <4> HIDE DEF n
        <4> QED BY <1>1
      <3>6. h[k - 1] \o R[k - 1] = h[k] \o R[k]
        <4> HIDE DEF n, F, Eq, f, T
        <4>1. \A a, b, c \in Seq(X) : \A ab, bc :
                ab = a \o b /\ bc = b \o c => a \o bc = ab \o c
          BY MoveOver
        <4>2. \A ab, bc : ab = h[k - 1] \o ss[k] /\ bc = ss[k] \o R[k]
                             => h[k - 1] \o bc = ab \o R[k]
          BY ONLY <3>1, <4>1, Zenon
        <4> QED BY ONLY <3>3, <4>2, Zenon
      <3> QED BY <3>4, <3>5, <3>6
    <2>8. 0..n \subseteq T
      <3> HIDE DEF T
      <3> QED BY <1>1, <2>6, <2>7, IntervalInduction
    <2>9. h[n] \in Seq(X) /\ n \in 0..n
      <3> HIDE DEF n
      <3> QED BY <1>1, <1>4
    <2>10. h[n] \o <<>> = h[n]
      BY <2>9, ConcatEmptySeq
    <2>11. h[n] \o R[n] = R[0]
      BY <2>8, <2>9
    <2> QED BY <1>5, <2>5, <2>10, <2>11
  <1> QED BY <1>1, <1>6, <1>7

\* The kinds of instruction and of line
Op == {"set", "none", "trap", "wfi", "ecall"}
Lines == [kind : {"instr", "reg", "start", "r", "f", "trap", "ecall"}, op : Op,
          rd : Gpr \cup {"a0"}, val : Val \cup {2}]

\* What a simulator other than Renode prints, instruction by instruction
Chunks(sim, prog) == [k \in 1..Len(prog) |-> Printed(sim, prog[k])]

\* A line is of its kind and shows its instruction.
LEMMA LineFacts ==
    ASSUME NEW s \in Instruction, NEW kind \in {"instr", "reg", "start", "r", "f", "trap", "ecall"}
    PROVE  /\ Line(kind, s) \in Lines
           /\ Line(kind, s).kind = kind /\ Line(kind, s).op = s.op
           /\ Line(kind, s).rd = s.rd /\ Line(kind, s).val = s.val
  BY DEF Line, Lines, Instruction, Op

\* What is printed of an instruction
LEMMA PrintedFacts ==
    ASSUME NEW sim \in {"spike", "ovpsim", "sail", "whisper"}, NEW s \in Instruction
    PROVE  /\ Printed(sim, s) \in Seq(Lines)
           /\ sim # "whisper" =>
                Printed(sim, s) =
                  IF s.op = "set" THEN <<Line("instr", s), Line("reg", s)>>
                  ELSE IF sim = "spike" /\ s.op \in {"trap", "ecall"}
                  THEN <<Line("instr", s), Line(s.op, s)>>
                  ELSE <<Line("instr", s)>>
           /\ sim = "whisper" =>
                Printed(sim, s) =
                  <<IF s.op = "set" THEN Line(IF s.rd \in Xreg THEN "r" ELSE "f", s)
                    ELSE Line("r", [s EXCEPT !.rd = "zero", !.val = 0])>>
  <1>1. CASE sim = "whisper"
    <2>1. [s EXCEPT !.rd = "zero", !.val = 0] \in Instruction
      <3>1. "zero" \in Gpr /\ 0 \in Val
        <4>1. <<[rd |-> "zero", val |-> 0]>> \in Seq([rd : Gpr, val : Val])
          BY LogsAssumption, EntriesAssumption
        <4> QED BY <4>1, EntriesAssumption
      <3> QED BY <3>1 DEF Instruction
    <2>2. Printed(sim, s) =
            <<IF s.op = "set" THEN Line(IF s.rd \in Xreg THEN "r" ELSE "f", s)
              ELSE Line("r", [s EXCEPT !.rd = "zero", !.val = 0])>>
      BY <1>1 DEF Printed
    <2>3. (IF s.op = "set" THEN Line(IF s.rd \in Xreg THEN "r" ELSE "f", s)
           ELSE Line("r", [s EXCEPT !.rd = "zero", !.val = 0])) \in Lines
      BY <2>1, LineFacts
    <2>4. \A x \in Lines : <<x>> \in Seq(Lines)
      OBVIOUS
    <2>5. Printed(sim, s) \in Seq(Lines)
      BY <2>2, <2>3, <2>4
    <2> QED BY <1>1, <2>2, <2>5
  <1>2. CASE sim # "whisper"
    <2>1. Printed(sim, s) =
            IF s.op = "set" THEN <<Line("instr", s), Line("reg", s)>>
            ELSE IF sim = "spike" /\ s.op \in {"trap", "ecall"}
            THEN <<Line("instr", s), Line(s.op, s)>>
            ELSE <<Line("instr", s)>>
      BY <1>2 DEF Printed
    <2>2. Line("instr", s) \in Lines /\ Line("reg", s) \in Lines
      BY LineFacts
    <2>3. s.op \in {"trap", "ecall"} => Line(s.op, s) \in Lines
      BY LineFacts
    <2> QED BY <1>2, <2>1, <2>2, <2>3
  <1> QED BY <1>1, <1>2

\* For each instruction the lines a simulator prints of it.
LEMMA ChunksFacts ==
    ASSUME NEW sim \in {"spike", "ovpsim", "sail", "whisper"}, NEW prog, Legal(prog)
    PROVE  /\ Chunks(sim, prog) \in Seq(Seq(Lines))
           /\ Len(Chunks(sim, prog)) = Len(prog)
           /\ \A k \in 1..Len(prog) : Chunks(sim, prog)[k] = Printed(sim, prog[k])
  <1>1. Len(prog) \in Nat /\ \A k \in 1..Len(prog) : prog[k] \in Instruction
    BY DEF Legal
  <1>2. \A k \in 1..Len(prog) : Printed(sim, prog[k]) \in Seq(Lines)
    BY <1>1, PrintedFacts
  <1> QED BY <1>1, <1>2 DEF Chunks

\* Nothing begins with a sequence but itself.
LEMMA HeadOf ==
    ASSUME NEW X, NEW a \in X, NEW b \in X, NEW x \in Seq(X)
    PROVE  /\ Head(<<a>> \o x) = a /\ Tail(<<a>> \o x) = x /\ <<a>> \o x # <<>>
           /\ Head(<<a, b>> \o x) = a /\ Tail(<<a, b>> \o x) = <<b>> \o x /\ <<a, b>> \o x # <<>>
           /\ <<a>> \o x \in Seq(X) /\ <<a, b>> \o x \in Seq(X)
  <1>1. <<a>> \in Seq(X) /\ <<a, b>> \in Seq(X) /\ <<b>> \in Seq(X)
    OBVIOUS
  <1>2. <<a, b>> \o x = <<a>> \o (<<b>> \o x)
    <2> DEFINE l == <<a, b>> \o x
               r == <<a>> \o (<<b>> \o x)
    <2>1. l \in Seq(X) /\ Len(l) = 2 + Len(x) /\ r \in Seq(X) /\ Len(r) = 2 + Len(x)
      BY <1>1, ConcatProperties
    <2>2. ASSUME NEW k \in 1..Len(l) PROVE l[k] = r[k]
      BY <1>1, <2>1
    <2> HIDE DEF l, r
    <2>3. l = r
      BY <2>1, <2>2, SeqEqual
    <2> QED BY <2>3 DEF l, r
  <1>3. \A y \in Seq(X), e \in X : /\ Head(<<e>> \o y) = e /\ Tail(<<e>> \o y) = y
                                   /\ <<e>> \o y # <<>> /\ <<e>> \o y \in Seq(X)
    <2> SUFFICES ASSUME NEW y \in Seq(X), NEW e \in X
                 PROVE  /\ Head(<<e>> \o y) = e /\ Tail(<<e>> \o y) = y
                        /\ <<e>> \o y # <<>> /\ <<e>> \o y \in Seq(X)
      OBVIOUS
    <2> DEFINE l == <<e>> \o y
    <2>1. l \in Seq(X) /\ Len(l) = 1 + Len(y) /\ l[1] = e /\ l # <<>>
      BY <1>1
    <2>2. Tail(l) \in Seq(X) /\ Len(Tail(l)) = Len(y)
      BY <2>1, HeadTailProperties
    <2>3. ASSUME NEW k \in 1..Len(y) PROVE Tail(l)[k] = y[k]
      BY <2>1, <2>2
    <2> HIDE DEF l
    <2>4. Tail(l) = y
      BY <2>2, <2>3, SeqEqual
    <2> QED BY <2>1, <2>4 DEF l
  <1> QED BY <1>1, <1>2, <1>3

-----------------------------------------------------------------------------
(* The converters. *)

\* What the converters hold: rows, and at most one instruction in hand
Row == [op : Op, gpr : Entries]
Hands == {<<>>} \cup {<<r>> : r \in Row}
Converter == [on : BOOLEAN, over : BOOLEAN, hand : Hands, rows : Seq(Row)]

\* The CSV file grows with the rows, by their gpr column.
LEMMA CsvAppend ==
    ASSUME NEW rows \in Seq(Row), NEW r \in Row
    PROVE  /\ Csv(rows) \in Seq(Entries) /\ Csv(rows \o <<>>) = Csv(rows)
           /\ Csv(rows \o <<r>>) = Append(Csv(rows), r.gpr)
           /\ rows \o <<r>> \in Seq(Row) /\ rows \o <<>> = rows
           /\ Csv(<<>>) = <<>>
  <1> DEFINE both == rows \o <<r>>
  <1>1. both \in Seq(Row) /\ Len(both) = Len(rows) + 1 /\ Len(rows) \in Nat /\ rows \o <<>> = rows
    BY ConcatEmptySeq
  <1>2. \A q \in Row : q.gpr \in Entries
    BY DEF Row
  <1>3. Csv(rows) \in Seq(Entries) /\ Len(Csv(rows)) = Len(rows)
        /\ \A k \in 1..Len(rows) : Csv(rows)[k] = rows[k].gpr
    BY <1>1, <1>2 DEF Csv
  <1>4. Csv(both) \in Seq(Entries) /\ Len(Csv(both)) = Len(rows) + 1
        /\ \A k \in 1 .. Len(rows) + 1 : Csv(both)[k] = both[k].gpr
    <2> HIDE DEF both
    <2> QED BY <1>1, <1>2 DEF Csv
  <1> DEFINE g == r.gpr
             app == Append(Csv(rows), g)
  <1>5. app \in Seq(Entries) /\ Len(app) = Len(rows) + 1
    BY <1>2, <1>3
  <1>6. /\ both[Len(rows) + 1].gpr = g /\ app[Len(rows) + 1] = g
        /\ \A k \in 1..Len(rows) : both[k].gpr = rows[k].gpr /\ app[k] = Csv(rows)[k]
    <2>1. both[Len(rows) + 1] = r /\ \A k \in 1..Len(rows) : both[k] = rows[k]
      BY <1>1
    <2>2. app[Len(rows) + 1] = g /\ \A k \in 1..Len(rows) : app[k] = Csv(rows)[k]
      <3> HIDE DEF g
      <3> QED BY <1>3
    <2> HIDE DEF both, app
    <2> QED BY <2>1, <2>2
  <1> HIDE DEF both, app, g
  <1>7. Csv(both) = app
    <2>1. ASSUME NEW k \in 1 .. Len(rows) + 1 PROVE Csv(both)[k] = app[k]
      <3>1. Csv(both)[k] = both[k].gpr
        BY <1>4
      <3>2. k = Len(rows) + 1 \/ k \in 1..Len(rows)
        BY <1>1
      <3> QED BY <1>3, <1>6, <3>1, <3>2
    <2> QED BY <1>4, <1>5, <2>1, SeqEqual
  <1>8. Csv(<<>>) = <<>>
    BY DEF Csv
  <1> QED BY <1>1, <1>3, <1>7, <1>8 DEF both, app, g

\* The program up to its ecall
Until(prog) == Len(Body(prog))

\* The body of a program reaches to the instruction before its first ecall.
LEMMA UntilFacts ==
    ASSUME NEW prog, Legal(prog)
    PROVE  /\ Until(prog) \in 0..Len(prog) /\ Len(prog) \in Nat
           /\ Body(prog) = SubSeq(prog, 1, Until(prog))
           /\ \A k \in 1..Until(prog) : prog[k].op # "ecall"
           /\ Ends(prog) => Until(prog) < Len(prog) /\ prog[Until(prog) + 1].op = "ecall"
           /\ ~Ends(prog) => Until(prog) = Len(prog)
  <1>0. prog \in Seq(Instruction) /\ Len(prog) \in Nat
    BY DEF Legal
  <1>1. CASE Ends(prog)
    <2>1. PICK m \in Calls(prog) : \A k \in Calls(prog) : m <= k
      <3>1. Calls(prog) \in SUBSET Nat /\ Calls(prog) # {}
        BY <1>0, <1>1 DEF Calls, Ends
      <3> QED BY <3>1, LeastNat
    <2> DEFINE c == CHOOSE k \in Calls(prog) : \A j \in Calls(prog) : k <= j
    <2>2. c \in Calls(prog) /\ \A k \in Calls(prog) : c <= k
      BY <2>1
    <2>3. Body(prog) = SubSeq(prog, 1, c - 1)
      BY <1>1 DEF Body
    <2> HIDE DEF c
    <2>4. c \in 1..Len(prog) /\ prog[c].op = "ecall"
      BY <2>2 DEF Calls
    <2>5. Until(prog) = c - 1
      <3>1. Len(SubSeq(prog, 1, c - 1)) = c - 1
        <4>1. \A i \in 1 .. c - 1 : prog[i] \in Instruction
          BY <1>0, <2>4
        <4>2. Len(SubSeq(prog, 1, c - 1)) = IF 1 <= c - 1 THEN (c - 1) - 1 + 1 ELSE 0
          BY <1>0, <2>4, <4>1, SubSeqProperties
        <4> QED BY <1>0, <2>4, <4>2
      <3> QED BY <2>3, <3>1 DEF Until
    <2>6. \A k \in 1 .. c - 1 : prog[k].op # "ecall"
      <3> SUFFICES ASSUME NEW k \in 1 .. c - 1, prog[k].op = "ecall" PROVE FALSE
        OBVIOUS
      <3>1. k \in 1..Len(prog) /\ ~(c <= k)
        BY <1>0, <2>4
      <3> QED BY <2>2, <3>1 DEF Calls
    <2>7. c - 1 \in 0..Len(prog) /\ c - 1 < Len(prog) /\ (c - 1) + 1 = c
      BY <1>0, <2>4
    <2> QED BY <1>0, <1>1, <2>3, <2>4, <2>5, <2>6, <2>7
  <1>2. CASE ~Ends(prog)
    <2>1. Body(prog) = prog /\ Until(prog) = Len(prog)
      BY <1>2 DEF Body, Until
    <2>2. \A k \in 1..Len(prog) : prog[k].op # "ecall"
      BY <1>2 DEF Ends, Calls
    <2>3. SubSeq(prog, 1, Len(prog)) = prog
      BY <1>0
    <2> QED BY <1>0, <1>2, <2>1, <2>2, <2>3
  <1> QED BY <1>1, <1>2

\* Writes goes through the program instruction by instruction.
LEMMA PartIsWrites ==
    ASSUME NEW sim, NEW prog, Legal(prog), NEW u \in 0..Len(prog)
    PROVE  Part(sim, prog, u) = Writes(sim, SubSeq(prog, 1, u))
  <1>0. prog \in Seq(Instruction) /\ Len(prog) \in Nat /\ u \in Nat
    BY DEF Legal
  <1> DEFINE b == SubSeq(prog, 1, u)
             w == Writes(sim, prog)
             l == SubSeq(w, 1, u)
  <1>1. b \in Seq(Instruction) /\ Len(b) = u /\ \A k \in 1..u : b[k] = prog[k]
    BY <1>0
  <1>2. w \in Seq(Entries) /\ Len(w) = Len(prog) /\ \A k \in 1..Len(prog) : w[k] = Written(sim, prog[k])
    BY WritesFacts
  <1> HIDE DEF b, w
  <1>3. l \in Seq(Entries) /\ Len(l) = u /\ \A k \in 1..u : l[k] = w[k]
    BY <1>0, <1>2
  <1>4. \A k \in 1..u : k \in 1..Len(prog)
    BY <1>0
  <1>5. \A k \in 1..u : l[k] = Written(sim, b[k]) /\ l[k] \in Entries
    <2>1. \A k \in 1..u : l[k] \in Entries
      BY <1>3
    <2> HIDE DEF l
    <2> QED BY <1>1, <1>2, <1>3, <1>4, <2>1
  <1>6. /\ Writes(sim, b) \in Seq(Entries) /\ Len(Writes(sim, b)) = u
        /\ \A k \in 1..u : Writes(sim, b)[k] = Written(sim, b[k])
    <2>1. \A k \in 1..u : Written(sim, b[k]) \in Entries
      BY <1>5
    <2> HIDE DEF l
    <2> QED BY <1>0, <1>1, <2>1 DEF Writes
  <1>7. l = Writes(sim, b)
    <2> HIDE DEF l
    <2> QED BY <1>3, <1>5, <1>6, SeqEqual
  <1> QED BY <1>7 DEF Part, b, w

\* The lines behind the k-th instruction
Rest(sim, prog) == CHOOSE R : IsRest(R, Chunks(sim, prog), Lines)

\* What is left of a log, from its beginning to its end.
LEMMA RestFacts ==
    ASSUME NEW sim \in {"spike", "ovpsim", "sail", "whisper"}, NEW prog, Legal(prog)
    PROVE  /\ Rest(sim, prog) \in [0..Len(prog) -> Seq(Lines)]
           /\ Rest(sim, prog)[Len(prog)] = <<>>
           /\ Rest(sim, prog)[0] = FlattenSeq(Chunks(sim, prog))
           /\ IsRest(Rest(sim, prog), Chunks(sim, prog), Lines)
  <1> DEFINE R == Rest(sim, prog)
             ss == Chunks(sim, prog)
  <1>1. ss \in Seq(Seq(Lines)) /\ Len(ss) = Len(prog)
    BY ChunksFacts
  <1>2. IsRest(R, ss, Lines)
    <2> HIDE DEF ss
    <2>1. \E S : IsRest(S, ss, Lines)
      BY <1>1, RestExists
    <2> QED BY <2>1 DEF Rest, ss
  <1> HIDE DEF R, ss
  <1>3. R \in [0..Len(prog) -> Seq(Lines)] /\ R[Len(prog)] = <<>>
    BY <1>1, <1>2 DEF IsRest
  <1>4. R[0] = FlattenSeq(ss)
    BY <1>1, <1>2, RestIsFlat
  <1> QED BY <1>2, <1>3, <1>4 DEF R, ss

\* What is left of a log, one instruction further
Unrolled(sim, prog, k) ==
    Rest(sim, prog)[k] = Printed(sim, prog[k + 1]) \o Rest(sim, prog)[k + 1]

\* What is left begins with what is printed of the next instruction.
LEMMA RestNext ==
    ASSUME NEW sim \in {"spike", "ovpsim", "sail", "whisper"}, NEW prog, Legal(prog),
           NEW k \in 0..Len(prog), k # Len(prog)
    PROVE  /\ k + 1 \in 1..Len(prog) /\ k + 1 \in 0..Len(prog) /\ (k + 1) - 1 = k
           /\ prog[k + 1] \in Instruction /\ Writable(prog[k + 1])
           /\ Unrolled(sim, prog, k)
           /\ Rest(sim, prog)[k] \in Seq(Lines) /\ Rest(sim, prog)[k + 1] \in Seq(Lines)
  <1> DEFINE R == Rest(sim, prog)
             ss == Chunks(sim, prog)
  <1>1. prog \in Seq(Instruction) /\ Len(prog) \in Nat /\ \A m \in 1..Len(prog) : Writable(prog[m])
    BY DEF Legal
  <1>2. /\ Len(ss) = Len(prog)
        /\ \A m \in 1..Len(prog) : ss[m] = Printed(sim, prog[m])
    BY ChunksFacts
  <1>3. IsRest(R, ss, Lines) /\ R \in [0..Len(prog) -> Seq(Lines)]
    BY RestFacts
  <1> HIDE DEF R, ss
  <1>4. k + 1 \in 1..Len(prog) /\ k + 1 \in 0..Len(prog) /\ (k + 1) - 1 = k
    BY <1>1
  <1>5. \A m \in 1..Len(prog) : R[m - 1] = ss[m] \o R[m]
    BY <1>2, <1>3 DEF IsRest
  <1>6. R[k] = Printed(sim, prog[k + 1]) \o R[k + 1]
    <2>1. R[(k + 1) - 1] = ss[k + 1] \o R[k + 1] /\ ss[k + 1] = Printed(sim, prog[k + 1])
      BY <1>2, <1>4, <1>5
    <2> QED BY <1>4, <2>1
  <1>7. prog[k + 1] \in Instruction /\ Writable(prog[k + 1])
    BY <1>1, <1>4
  <1>8. Unrolled(sim, prog, k)
    BY <1>6 DEF R, Unrolled
  <1> QED BY <1>3, <1>4, <1>7, <1>8 DEF R

\* The lines of the start-up code
BootLine(kind) == Line(kind, [op |-> "set", rd |-> "a0", val |-> 2])

\* Of the start-up code, there is still all to read, or all but the first lines.
Booting(l, R) ==
    l \in {<<BootLine("instr"), BootLine("reg")>> \o (<<BootLine("start")>> \o R[0]),
           <<BootLine("reg")>> \o (<<BootLine("start")>> \o R[0]),
           <<BootLine("start")>> \o R[0]}

\* The lines of the start-up code.
LEMMA BootFacts ==
    ASSUME NEW x \in Seq(Lines)
    PROVE  /\ \A kind \in {"instr", "reg", "start"} :
                 /\ BootLine(kind) \in Lines
                 /\ BootLine(kind).kind = kind /\ BootLine(kind).op = "set"
           /\ <<BootLine("start")>> \o x \in Seq(Lines)
           /\ \A sim \in {"spike", "sail"} :
                 Boot(sim) \o x = <<BootLine("instr"), BootLine("reg")>> \o (<<BootLine("start")>> \o x)
           /\ Boot("ovpsim") \o x = x /\ Boot("whisper") \o x = x
  <1>1. \A kind \in {"instr", "reg", "start"} :
                 /\ BootLine(kind) \in Lines
                 /\ BootLine(kind).kind = kind /\ BootLine(kind).op = "set"
    BY DEF BootLine, Line, Lines, Op
  <1> DEFINE a == <<BootLine("instr"), BootLine("reg")>>
             b == <<BootLine("start")>>
  <1>2. a \in Seq(Lines) /\ b \in Seq(Lines)
    BY <1>1
  <1>3. \A sim \in {"spike", "sail"} : Boot(sim) = <<BootLine("instr"), BootLine("reg"), BootLine("start")>>
    BY DEF Boot, BootLine
  <1>4. a \o b = <<BootLine("instr"), BootLine("reg"), BootLine("start")>>
    <2> DEFINE c == <<BootLine("instr"), BootLine("reg"), BootLine("start")>>
    <2>1. c \in Seq(Lines) /\ Len(c) = 3
      BY <1>1
    <2>2. a \o b \in Seq(Lines) /\ Len(a \o b) = 3
      BY <1>2
    <2>3. ASSUME NEW k \in 1..3 PROVE (a \o b)[k] = c[k]
      <3>1. CASE k = 3
        <4>1. (a \o b)[3] = b[1]
          BY <1>2
        <4> QED BY <3>1, <4>1
      <3>2. CASE k \in {1, 2}
        <4>1. (a \o b)[k] = a[k]
          BY <1>2, <3>2
        <4> QED BY <3>2, <4>1
      <3> QED BY <3>1, <3>2
    <2> HIDE DEF a, b, c
    <2>4. a \o b = c
      BY <2>1, <2>2, <2>3, SeqEqual
    <2> QED BY <2>4 DEF c
  <1>5. (a \o b) \o x = a \o (b \o x)
    <2> HIDE DEF a, b
    <2> QED BY <1>2, ConcatAssociative
  <1>6. b \o x \in Seq(Lines)
    <2> HIDE DEF b
    <2> QED BY <1>2, ConcatProperties
  <1>7. Boot("ovpsim") \o x = x /\ Boot("whisper") \o x = x
    BY ConcatEmptySeq DEF Boot
  <1> QED BY <1>1, <1>3, <1>4, <1>5, <1>6, <1>7

\* Reading the start-up code
LEMMA BootStep ==
    ASSUME NEW R, R[0] \in Seq(Lines), NEW l, Booting(l, R)
    PROVE  /\ l # <<>>
           /\ Head(l) \in Lines
           /\ \/ Head(l) = BootLine("start") /\ Tail(l) = R[0]
              \/ Head(l) \in {BootLine("instr"), BootLine("reg")} /\ Booting(Tail(l), R)
  <1> DEFINE s == <<BootLine("start")>> \o R[0]
  <1>1. s \in Seq(Lines) /\ \A kind \in {"instr", "reg", "start"} : BootLine(kind) \in Lines
    BY BootFacts
  <1>2. Head(s) = BootLine("start") /\ Tail(s) = R[0] /\ s # <<>>
    BY <1>1, HeadOf
  <1> DEFINE t == <<BootLine("reg")>> \o s
             u == <<BootLine("instr"), BootLine("reg")>> \o s
  <1> HIDE DEF s
  <1>3. Head(t) = BootLine("reg") /\ Tail(t) = s /\ t # <<>>
    BY <1>1, HeadOf
  <1>4. Head(u) = BootLine("instr") /\ Tail(u) = t /\ u # <<>>
    BY <1>1, HeadOf
  <1> HIDE DEF t, u
  <1>5. l \in {u, t, s} /\ \A m \in {u, t, s} : Booting(m, R)
    BY DEF Booting, s, t, u
  <1> QED BY <1>1, <1>2, <1>3, <1>4, <1>5

\* The line an instruction is announced with, and what follows it.
LEMMA NextLines ==
    ASSUME NEW sim \in {"spike", "ovpsim", "sail"}, NEW prog, Legal(prog),
           NEW k \in 0..Len(prog), Rest(sim, prog)[k] # <<>>
    PROVE  LET s == prog[k + 1]
               R == Rest(sim, prog)
           IN  /\ k < Len(prog) /\ k + 1 \in 1..Len(prog) /\ (k + 1) - 1 = k
               /\ s \in Instruction /\ Writable(s) /\ s.op \in Op
               /\ R[k] \in Seq(Lines) /\ R[k + 1] \in Seq(Lines)
               /\ Head(R[k]) = Line("instr", s)
               /\ Tail(R[k]) =
                    IF s.op = "set" THEN <<Line("reg", s)>> \o R[k + 1]
                    ELSE IF sim = "spike" /\ s.op \in {"trap", "ecall"}
                    THEN <<Line(s.op, s)>> \o R[k + 1]
                    ELSE R[k + 1]
  <1> DEFINE s == prog[k + 1]
             R == Rest(sim, prog)
  <1>0. sim \in {"spike", "ovpsim", "sail", "whisper"}
    OBVIOUS
  <1>1. k # Len(prog) /\ k < Len(prog)
    <2>1. R[Len(prog)] = <<>>
      BY <1>0, RestFacts
    <2>2. Len(prog) \in Nat
      BY DEF Legal
    <2> QED BY <2>1, <2>2
  <1>2. /\ k + 1 \in 1..Len(prog) /\ k + 1 \in 0..Len(prog) /\ (k + 1) - 1 = k
        /\ s \in Instruction /\ Writable(s)
        /\ R[k] = Printed(sim, s) \o R[k + 1]
        /\ R[k] \in Seq(Lines) /\ R[k + 1] \in Seq(Lines)
    <2>1. /\ k + 1 \in 1..Len(prog) /\ k + 1 \in 0..Len(prog) /\ (k + 1) - 1 = k
          /\ s \in Instruction /\ Writable(s) /\ Unrolled(sim, prog, k)
          /\ R[k] \in Seq(Lines) /\ R[k + 1] \in Seq(Lines)
      BY <1>0, <1>1, RestNext
    <2> QED BY <2>1 DEF Unrolled
  <1> HIDE DEF R, s
  <1> DEFINE x == R[k + 1]
             a == Line("instr", s)
             b == Line("reg", s)
             t == Line(s.op, s)
  <1>3. x \in Seq(Lines) /\ R[k] \in Seq(Lines)
    BY <1>2
  <1>4. s.op \in Op
    BY <1>2 DEF Instruction, Op
  <1>5. Printed(sim, s) = IF s.op = "set" THEN <<a, b>>
                          ELSE IF sim = "spike" /\ s.op \in {"trap", "ecall"} THEN <<a, t>>
                          ELSE <<a>>
    BY <1>2, PrintedFacts
  <1>6. a \in Lines /\ b \in Lines /\ (s.op \in {"trap", "ecall"} => t \in Lines)
    BY <1>2, LineFacts
  <1> HIDE DEF a, b, t
  <1>7. R[k] = Printed(sim, s) \o x
    BY <1>2
  <1> HIDE DEF x
  <1>8. Head(R[k]) = a /\ Tail(R[k]) = IF s.op = "set" THEN <<b>> \o x
                    ELSE IF sim = "spike" /\ s.op \in {"trap", "ecall"}
                    THEN <<t>> \o x
                    ELSE x
    <2>1. CASE s.op = "set"
      <3>1. R[k] = <<a, b>> \o x
        BY <1>5, <1>7, <2>1
      <3> QED BY <1>3, <1>6, <2>1, <3>1, HeadOf
    <2>2. CASE s.op # "set" /\ sim = "spike" /\ s.op \in {"trap", "ecall"}
      <3>1. R[k] = <<a, t>> \o x /\ t \in Lines
        BY <1>5, <1>6, <1>7, <2>2
      <3>2. Head(R[k]) = a /\ Tail(R[k]) = <<t>> \o x
        BY <1>3, <1>6, <3>1, HeadOf
      <3> QED BY <2>2, <3>2
    <2>3. CASE s.op # "set" /\ ~(sim = "spike" /\ s.op \in {"trap", "ecall"})
      <3>1. R[k] = <<a>> \o x
        BY <1>5, <1>7, <2>3
      <3>2. Head(R[k]) = a /\ Tail(R[k]) = x
        BY <1>3, <1>6, <3>1, HeadOf
      <3> QED BY <2>3, <3>2
    <2> QED BY <2>1, <2>2, <2>3
  <1> QED BY <1>1, <1>2, <1>3, <1>4, <1>8 DEF a, b, t, x, s, R

\* As long as no ecall has come, the next instruction is part of the program.
LEMMA NextInBody ==
    ASSUME NEW prog, Legal(prog), NEW k \in 0..Until(prog), k < Len(prog)
    PROVE  /\ prog[k + 1].op # "ecall" => k + 1 \in 1..Until(prog) /\ k + 1 \in 0..Until(prog)
           /\ prog[k + 1].op = "ecall" => k = Until(prog) /\ Ends(prog)
  <1>1. /\ Until(prog) \in 0..Len(prog) /\ Len(prog) \in Nat
        /\ \A j \in 1..Until(prog) : prog[j].op # "ecall"
        /\ Ends(prog) => Until(prog) < Len(prog) /\ prog[Until(prog) + 1].op = "ecall"
        /\ ~Ends(prog) => Until(prog) = Len(prog)
    BY UntilFacts
  <1>2. CASE k = Until(prog)
    <2>1. Ends(prog) /\ prog[k + 1].op = "ecall"
      BY <1>1, <1>2
    <2> QED BY <1>2, <2>1
  <1>3. CASE k < Until(prog)
    <2>1. k + 1 \in 1..Until(prog) /\ k + 1 \in 0..Until(prog)
      BY <1>1, <1>3
    <2>2. prog[k + 1].op # "ecall"
      BY <1>1, <2>1
    <2> QED BY <2>1, <2>2
  <1>4. k = Until(prog) \/ k < Until(prog)
    BY <1>1
  <1> QED BY <1>2, <1>3, <1>4

\* The trace of a part, when the next instruction writes or not
LEMMA NextPart ==
    ASSUME NEW sim, NEW prog, Legal(prog), NEW k \in 1..Len(prog)
    PROVE  LET t == Part(sim, prog, k - 1)
               w == Written(sim, prog[k])
           IN  /\ t \in Seq(Entries) /\ Part(sim, prog, k) \in Seq(Entries)
               /\ w \in Entries
               /\ Part(sim, prog, k) = Append(t, w)
               /\ w = <<>> => Alike(Part(sim, prog, k), t)
  <1>1. k - 1 \in 0..Len(prog) /\ k \in 0..Len(prog)
    <2>1. Len(prog) \in Nat
      BY DEF Legal
    <2> QED BY <2>1
  <1> DEFINE t == Part(sim, prog, k - 1)
             w == Written(sim, prog[k])
             p == Part(sim, prog, k)
  <1>2. t \in Seq(Entries) /\ p \in Seq(Entries) /\ w \in Entries /\ p = Append(t, w)
    BY <1>1, PartFacts, WritesFacts
  <1> HIDE DEF t, w, p
  <1>3. w = <<>> => Alike(p, t)
    BY <1>2, AlikeEmpty
  <1> QED BY <1>2, <1>3 DEF t, w, p

-----------------------------------------------------------------------------
(* Spike *)

\* The second line of an instruction is still to be read.
Second(sim, prog, k, kind, l, c) ==
    /\ l = <<Line(kind, prog[k])>> \o Rest(sim, prog)[k]
    /\ c.hand = <<[op |-> prog[k].op, gpr |-> <<>>]>>

\* The state of Spike's converter in the start-up code, after the k-th
\* instruction, between its two lines, and behind the ecall
SpikeBoot(prog, l, c) ==
    ~c.on /\ ~c.over /\ c.hand = <<>> /\ c.rows = <<>> /\ Booting(l, Rest("spike", prog))
SpikeAt(prog, l, c, k) ==
    /\ c.on /\ ~c.over /\ l = Rest("spike", prog)[k]
    /\ Alike(Csv(c.rows \o Kept(c.hand)), Part("spike", prog, k))
SpikeMid(prog, l, c, k) ==
    /\ c.on /\ ~c.over
    /\ \/ prog[k].op = "set" /\ Second("spike", prog, k, "reg", l, c)
       \/ prog[k].op = "trap" /\ Second("spike", prog, k, "trap", l, c)
    /\ Alike(Csv(c.rows), Part("spike", prog, k - 1))
SpikeOver(prog, c) ==
    /\ c.over /\ Ends(prog)
    /\ Alike(Csv(c.rows \o Kept(c.hand)), Part("spike", prog, Until(prog)))

SpikeReading(prog, l, c) ==
    /\ c \in Converter
    /\ \/ SpikeBoot(prog, l, c)
       \/ \E k \in 0..Until(prog) : SpikeAt(prog, l, c, k)
       \/ \E k \in 1..Until(prog) : SpikeMid(prog, l, c, k)
       \/ SpikeOver(prog, c)

\* What process_spike_sim_log makes of the instruction in hand: no row at all,
\* an empty one for a wfi or an ecall, or one with its register.
LEMMA KeptFacts ==
    ASSUME NEW c \in Converter
    PROVE  /\ c.rows \o Kept(c.hand) \in Seq(Row)
           /\ Csv(c.rows \o Kept(c.hand)) \in Seq(Entries)
           /\ c.hand = <<>> => c.rows \o Kept(c.hand) = c.rows
           /\ \A op \in Op : c.hand = <<[op |-> op, gpr |-> <<>>]>> =>
                /\ Kept(c.hand) = IF op \in {"wfi", "ecall"} THEN c.hand ELSE <<>>
                /\ op \notin {"wfi", "ecall"} => c.rows \o Kept(c.hand) = c.rows
                /\ op \in {"wfi", "ecall"} =>
                     Csv(c.rows \o Kept(c.hand)) = Append(Csv(c.rows), <<>>)
           /\ \A r \in Row : c.hand = <<r>> /\ r.gpr # <<>> =>
                Csv(c.rows \o Kept(c.hand)) = Append(Csv(c.rows), r.gpr)
  <1>1. c.rows \in Seq(Row) /\ c.hand \in Hands
    BY DEF Converter
  <1>2. Kept(c.hand) \in Hands
    BY <1>1 DEF Kept, Hands
  <1>3. c.rows \o <<>> = c.rows /\ \A r \in Row : Csv(c.rows \o <<r>>) = Append(Csv(c.rows), r.gpr)
        /\ c.rows \o <<r>> \in Seq(Row)
    BY <1>1, CsvAppend, ConcatEmptySeq
  <1>4. c.rows \o Kept(c.hand) \in Seq(Row)
    BY <1>1, <1>2, <1>3 DEF Hands
  <1>5. Csv(c.rows \o Kept(c.hand)) \in Seq(Entries)
    <2> DEFINE x == c.rows \o Kept(c.hand)
    <2>1. \E r \in Row : TRUE
      <3>1. [op |-> "set", gpr |-> <<>>] \in Row
        BY LogsAssumption DEF Row, Op
      <3> QED BY <3>1
    <2>2. x \in Seq(Row)
      BY <1>4
    <2> HIDE DEF x
    <2>3. Csv(x) \in Seq(Entries)
      BY <2>1, <2>2, CsvAppend
    <2> QED BY <2>3 DEF x
  <1>6. c.hand = <<>> => c.rows \o Kept(c.hand) = c.rows
    BY <1>3 DEF Kept
  <1>7. ASSUME NEW op \in Op, c.hand = <<[op |-> op, gpr |-> <<>>]>>
        PROVE  /\ Kept(c.hand) = IF op \in {"wfi", "ecall"} THEN c.hand ELSE <<>>
               /\ op \notin {"wfi", "ecall"} => c.rows \o Kept(c.hand) = c.rows
               /\ op \in {"wfi", "ecall"} =>
                     Csv(c.rows \o Kept(c.hand)) = Append(Csv(c.rows), <<>>)
    <2>1. c.hand # <<>> /\ c.hand[1].gpr = <<>> /\ c.hand[1].op = op
      BY <1>7
    <2>2. Kept(c.hand) = IF op \in {"wfi", "ecall"} THEN c.hand ELSE <<>>
      BY <2>1 DEF Kept
    <2>3. [op |-> op, gpr |-> <<>>] \in Row
      BY LogsAssumption DEF Row
    <2> QED BY <1>3, <1>7, <2>2, <2>3
  <1>8. ASSUME NEW r \in Row, c.hand = <<r>>, r.gpr # <<>>
        PROVE  Csv(c.rows \o Kept(c.hand)) = Append(Csv(c.rows), r.gpr)
    <2>1. Kept(c.hand) = <<r>>
      BY <1>8 DEF Kept
    <2> QED BY <1>3, <2>1
  <1> QED BY <1>4, <1>5, <1>6, <1>7, <1>8

\* Reading a line of Spike's log
LEMMA SpikeStep ==
    ASSUME NEW prog, Legal(prog), NEW l, l # <<>>, NEW c, SpikeReading(prog, l, c)
    PROVE  SpikeReading(prog, Tail(l), SpikeLine(c, Head(l)))
  <1> DEFINE line == Head(l)
             d == SpikeLine(c, line)
             R == Rest("spike", prog)
             P(k) == Part("spike", prog, k)
             u == Until(prog)
  <1>0. c \in Converter /\ c.rows \in Seq(Row) /\ c.hand \in Hands
        /\ c.on \in BOOLEAN /\ c.over \in BOOLEAN
    BY DEF SpikeReading, Converter
  <1>1. /\ u \in 0..Len(prog) /\ Len(prog) \in Nat
        /\ \A k \in 0..Len(prog) : R[k] \in Seq(Lines)
        /\ R[0] \in Seq(Lines) /\ 0 \in 0..u
    <2>1. \A k \in 0..Len(prog) : R[k] \in Seq(Lines)
      BY RestFacts
    <2>2. u \in 0..Len(prog) /\ Len(prog) \in Nat
      BY UntilFacts
    <2> HIDE DEF R, u
    <2> QED BY <2>1, <2>2
  <1>2. CASE SpikeBoot(prog, l, c)
    <2>1. ~c.on /\ ~c.over /\ c.hand = <<>> /\ c.rows = <<>> /\ Booting(l, R)
      BY <1>2 DEF SpikeBoot
    <2>2. d = [c EXCEPT !.on = line.kind = "start"]
      BY <2>1 DEF SpikeLine
    <2>3. d \in Converter /\ d.on = (line.kind = "start") /\ d.over = FALSE
          /\ d.hand = <<>> /\ d.rows = <<>>
      BY <1>0, <2>1, <2>2 DEF Converter
    <2>4. \A kind \in {"instr", "reg", "start"} : BootLine(kind).kind = kind
      BY <1>1, BootFacts
    <2>5. CASE line = BootLine("start") /\ Tail(l) = R[0]
      <3>1. d.on
        BY <2>3, <2>4, <2>5
      <3>2. Csv(d.rows \o Kept(d.hand)) = <<>>
        <4> HIDE DEF d
        <4>1. d.rows \o Kept(d.hand) = <<>>
          BY <2>3, KeptFacts
        <4> QED BY <4>1 DEF Csv
      <3>3. P(0) = <<>>
        BY PartFacts
      <3>4. SpikeAt(prog, Tail(l), d, 0)
        BY <2>3, <2>5, <3>1, <3>2, <3>3 DEF SpikeAt, Alike
      <3>5. SpikeReading(prog, Tail(l), d)
        <4> HIDE DEF d
        <4> QED BY <1>1, <2>3, <3>4 DEF SpikeReading
      <3> QED BY <3>5
    <2>6. CASE line \in {BootLine("instr"), BootLine("reg")} /\ Booting(Tail(l), R)
      <3>1. d.on = FALSE
        BY <2>3, <2>4, <2>6
      <3>2. SpikeReading(prog, Tail(l), d)
        <4> HIDE DEF d
        <4>1. SpikeBoot(prog, Tail(l), d)
          BY <2>3, <2>6, <3>1 DEF SpikeBoot
        <4> QED BY <2>3, <4>1 DEF SpikeReading
      <3> QED BY <3>2
    <2> QED BY <1>1, <2>1, <2>5, <2>6, BootStep
  <1>3. ASSUME NEW k \in 0..u, SpikeAt(prog, l, c, k)
        PROVE  SpikeReading(prog, Tail(l), d)
    <2> DEFINE s == prog[k + 1]
               base == c.rows \o Kept(c.hand)
    <2>1. c.on /\ ~c.over /\ l = R[k] /\ Alike(Csv(base), P(k)) /\ k \in 0..Len(prog)
      BY <1>1, <1>3 DEF SpikeAt
    <2>2. /\ k < Len(prog) /\ k + 1 \in 1..Len(prog) /\ (k + 1) - 1 = k
          /\ s \in Instruction /\ s.op \in Op
          /\ line = Line("instr", s)
          /\ Tail(l) = IF s.op = "set" THEN <<Line("reg", s)>> \o R[k + 1]
                       ELSE IF s.op \in {"trap", "ecall"} THEN <<Line(s.op, s)>> \o R[k + 1]
                       ELSE R[k + 1]
      <3>1. R[k] # <<>> /\ "spike" \in {"spike", "ovpsim", "sail"}
        BY <2>1
      <3>2. s.op \in Op /\ s \in Instruction
        BY <2>1, <3>1, NextLines
      <3> QED BY <2>1, <3>1, <3>2, NextLines
    <2>3. line.kind = "instr" /\ line.op = s.op
      BY <2>2, LineFacts
    <2>4. base \in Seq(Row) /\ Csv(base) \in Seq(Entries)
      BY <1>0, KeptFacts
    <2> DEFINE hand == <<[op |-> s.op, gpr |-> <<>>]>>
    <2>5. d = [c EXCEPT !.rows = base, !.hand = hand, !.over = s.op = "ecall"]
      BY <2>1, <2>3 DEF SpikeLine, Taken
    <2>6. hand \in Hands
      BY <2>2, LogsAssumption DEF Hands, Row
    <2>7. /\ d \in Converter /\ d.on /\ d.over = (s.op = "ecall")
          /\ d.hand = hand /\ d.rows = base
      <3> HIDE DEF hand, base
      <3> QED BY <1>0, <2>1, <2>4, <2>5, <2>6 DEF Converter
    <2>8. /\ s.op # "ecall" => k + 1 \in 1..u /\ k + 1 \in 0..u
          /\ s.op = "ecall" => k = u /\ Ends(prog)
      BY <2>2, NextInBody
    <2>9. /\ P(k) \in Seq(Entries) /\ P(k + 1) = Append(P(k), Written("spike", s))
          /\ s.op # "set" => Written("spike", s) = <<>>
          /\ s.op # "set" => Alike(P(k + 1), P(k))
      BY <2>2, NextPart DEF Written
    <2>10. /\ s.op \notin {"wfi", "ecall"} => d.rows \o Kept(d.hand) = base
           /\ s.op \in {"wfi", "ecall"} =>
                Csv(d.rows \o Kept(d.hand)) = Append(Csv(base), <<>>)
      BY <2>2, <2>7, KeptFacts
    <2> HIDE DEF d, base, P, u, R, line
    <2>11. CASE s.op \in {"set", "trap"}
      <3>1. SpikeMid(prog, Tail(l), d, k + 1)
        BY <2>1, <2>2, <2>7, <2>11 DEF SpikeMid, Second, P, R, base
      <3> QED BY <2>7, <2>8, <2>11, <3>1 DEF SpikeReading, u
    <2>12. CASE s.op = "none"
      <3>1. Alike(Csv(d.rows \o Kept(d.hand)), P(k + 1))
        BY <2>1, <2>9, <2>10, <2>12 DEF Alike
      <3>2. SpikeAt(prog, Tail(l), d, k + 1)
        BY <2>2, <2>7, <2>12, <3>1 DEF SpikeAt, P, R
      <3> QED BY <2>7, <2>8, <2>12, <3>2 DEF SpikeReading, u
    <2>13. CASE s.op = "wfi"
      <3>1. Alike(Csv(d.rows \o Kept(d.hand)), P(k + 1))
        <4>1. Alike(Append(Csv(base), <<>>), Append(P(k), <<>>))
          BY <2>1, <2>4, <2>9, LogsAssumption, AlikeAppend
        <4> QED BY <2>9, <2>10, <2>13, <4>1
      <3>2. SpikeAt(prog, Tail(l), d, k + 1)
        BY <2>2, <2>7, <2>13, <3>1 DEF SpikeAt, P, R
      <3> QED BY <2>7, <2>8, <2>13, <3>2 DEF SpikeReading, u
    <2>14. CASE s.op = "ecall"
      <3>1. Alike(Append(Csv(base), <<>>), Csv(base))
        BY <2>4, LogsAssumption, AlikeEmpty
      <3>2. Alike(Csv(d.rows \o Kept(d.hand)), P(u))
        BY <2>1, <2>8, <2>10, <2>14, <3>1 DEF Alike
      <3>3. SpikeOver(prog, d)
        BY <2>7, <2>8, <2>14, <3>2 DEF SpikeOver, P, u
      <3> QED BY <2>7, <3>3 DEF SpikeReading
    <2> QED BY <2>2, <2>11, <2>12, <2>13, <2>14 DEF Op
  <1>4. ASSUME NEW k \in 1..u, SpikeMid(prog, l, c, k)
        PROVE  SpikeReading(prog, Tail(l), d)
    <2> DEFINE s == prog[k]
    <2>1. k \in 1..Len(prog) /\ k \in 0..Len(prog) /\ k \in 0..u /\ R[k] \in Seq(Lines)
      BY <1>1
    <2>2. /\ c.on /\ ~c.over /\ c.hand = <<[op |-> s.op, gpr |-> <<>>]>>
          /\ Alike(Csv(c.rows), P(k - 1))
          /\ \/ s.op = "set" /\ l = <<Line("reg", s)>> \o R[k]
             \/ s.op = "trap" /\ l = <<Line("trap", s)>> \o R[k]
      BY <1>4 DEF SpikeMid, Second
    <2>3. s \in Instruction /\ Writable(s)
      BY <2>1 DEF Legal
    <2>4. /\ P(k - 1) \in Seq(Entries) /\ P(k) = Append(P(k - 1), Written("spike", s))
          /\ Written("spike", s) \in Entries
          /\ Written("spike", s) = <<>> => Alike(P(k), P(k - 1))
      BY <2>1, NextPart
    <2>5. Csv(c.rows) \in Seq(Entries)
      <3>1. [op |-> "set", gpr |-> <<>>] \in Row
        BY LogsAssumption DEF Row, Op
      <3> QED BY <1>0, <3>1, CsvAppend
    <2> HIDE DEF P, R, u
    <2>6. CASE s.op = "set"
      <3>1. line = Line("reg", s) /\ Tail(l) = R[k]
        BY <2>1, <2>2, <2>3, <2>6, LineFacts, HeadOf
      <3>2. line.kind = "reg" /\ Update(line) = Update(s)
        BY <2>3, <3>1, LineFacts DEF Update
      <3> DEFINE r == [op |-> s.op, gpr |-> <<Update(s)>>]
      <3>3. Written("spike", s) = <<Update(s)>>
        BY <2>3, <2>6 DEF Written, Sees, Instruction
      <3>4. r \in Row /\ r.gpr = <<Update(s)>> /\ r.gpr # <<>>
        BY <2>3, <2>4, <3>3 DEF Row, Instruction, Op
      <3>5. d = [c EXCEPT !.hand = <<r>>]
        <4>1. WithReg(c.hand, line) = <<r>>
          <5>1. c.hand[1] = [op |-> s.op, gpr |-> <<>>]
            BY <2>2
          <5>2. WithReg(c.hand, line) = <<[c.hand[1] EXCEPT !.gpr = Append(@, Update(line))]>>
            BY DEF WithReg
          <5>3. Append(<<>>, Update(s)) = <<Update(s)>>
            OBVIOUS
          <5> QED BY <3>2, <5>1, <5>2, <5>3
        <4>2. c.hand # <<>> /\ line.kind = "reg" /\ c.on /\ ~c.over
          BY <2>2, <3>2
        <4> HIDE DEF line
        <4> QED BY <4>1, <4>2 DEF SpikeLine
      <3> HIDE DEF line
      <3>6. d \in Converter /\ d.on /\ ~d.over /\ d.hand = <<r>> /\ d.rows = c.rows
        <4>1. <<r>> \in Hands
          BY <3>4 DEF Hands
        <4> HIDE DEF r
        <4> QED BY <1>0, <2>2, <3>5, <4>1 DEF Converter
      <3> HIDE DEF d
      <3>7. Csv(d.rows \o Kept(d.hand)) = Append(Csv(c.rows), <<Update(s)>>)
        <4> HIDE DEF r
        <4> QED BY <3>4, <3>6, KeptFacts
      <3>8. Alike(Csv(d.rows \o Kept(d.hand)), P(k))
        BY <2>2, <2>4, <2>5, <3>3, <3>7, AlikeAppend
      <3>9. SpikeAt(prog, Tail(l), d, k)
        BY <3>1, <3>6, <3>8 DEF SpikeAt, P, R
      <3> QED BY <2>1, <3>6, <3>9 DEF SpikeReading, u
    <2>7. CASE s.op = "trap"
      <3>1. line = Line("trap", s) /\ Tail(l) = R[k]
        BY <2>1, <2>2, <2>3, <2>7, LineFacts, HeadOf
      <3>2. line.kind = "trap"
        BY <2>3, <3>1, LineFacts
      <3>3. c.rows \o Kept(c.hand) = c.rows /\ c.hand # <<>>
        <4>1. "trap" \in Op /\ c.hand = <<[op |-> "trap", gpr |-> <<>>]>>
          BY <2>2, <2>7 DEF Op
        <4>2. c.rows \o Kept(c.hand) = c.rows
          BY <1>0, <4>1, KeptFacts
        <4>3. c.hand # <<>>
          BY <4>1
        <4> QED BY <4>2, <4>3
      <3> HIDE DEF line
      <3>4. d = [c EXCEPT !.rows = c.rows, !.hand = <<>>]
        BY <2>2, <3>2, <3>3 DEF SpikeLine
      <3>5. d \in Converter /\ d.on /\ ~d.over /\ d.hand = <<>> /\ d.rows = c.rows
        BY <1>0, <2>2, <3>4 DEF Converter, Hands
      <3> HIDE DEF d
      <3>6. d.rows \o Kept(d.hand) = c.rows
        BY <3>5, KeptFacts
      <3>7. Alike(Csv(d.rows \o Kept(d.hand)), P(k))
        BY <2>2, <2>4, <2>7, <3>6 DEF Alike, Written
      <3>8. SpikeAt(prog, Tail(l), d, k)
        BY <3>1, <3>5, <3>7 DEF SpikeAt, P, R
      <3> QED BY <2>1, <3>5, <3>8 DEF SpikeReading, u
    <2> QED BY <2>2, <2>6, <2>7
  <1>5. CASE SpikeOver(prog, c)
    <2>1. d = c
      BY <1>5 DEF SpikeOver, SpikeLine
    <2> QED BY <1>0, <1>5, <2>1 DEF SpikeReading
  <1> QED BY <1>2, <1>3, <1>4, <1>5 DEF SpikeReading

\* Nothing is left to read only at the end of the program.
LEMMA RestEnds ==
    ASSUME NEW sim \in {"spike", "ovpsim", "sail", "whisper"}, NEW prog, Legal(prog),
           NEW k \in 0..Until(prog), Rest(sim, prog)[k] = <<>>
    PROVE  k = Len(prog) /\ k = Until(prog) /\ ~Ends(prog)
  <1>1. /\ Until(prog) \in 0..Len(prog) /\ Len(prog) \in Nat
        /\ Ends(prog) => Until(prog) < Len(prog)
    BY UntilFacts
  <1>2. k \in 0..Len(prog)
    BY <1>1
  <1>3. CASE k # Len(prog)
    <2> DEFINE s == prog[k + 1]
               p == Printed(sim, s)
               x == Rest(sim, prog)[k + 1]
    <2>1. s \in Instruction /\ Unrolled(sim, prog, k) /\ x \in Seq(Lines)
      BY <1>2, <1>3, RestNext
    <2>2. p \in Seq(Lines) /\ p # <<>>
      <3>1. p \in Seq(Lines)
        BY <2>1, PrintedFacts
      <3>2. ASSUME sim = "whisper" PROVE p # <<>>
        <4>1. \E a : p = <<a>>
          BY <2>1, <3>2, PrintedFacts
        <4> HIDE DEF p
        <4> QED BY <3>1, <4>1
      <3>3. ASSUME sim # "whisper" PROVE p # <<>>
        <4>1. Len(p) \in {1, 2}
          <5>1. p = IF s.op = "set" THEN <<Line("instr", s), Line("reg", s)>>
                    ELSE IF sim = "spike" /\ s.op \in {"trap", "ecall"}
                    THEN <<Line("instr", s), Line(s.op, s)>>
                    ELSE <<Line("instr", s)>>
            BY <2>1, <3>3, PrintedFacts
          <5> HIDE DEF p
          <5> QED BY <5>1
        <4> HIDE DEF p
        <4> QED BY <3>1, <4>1
      <3> HIDE DEF p
      <3> QED BY <3>1, <3>2, <3>3
    <2>3. p \o x = <<>>
      BY <2>1 DEF Unrolled
    <2> HIDE DEF p, x
    <2>4. Len(p \o x) >= 1
      BY <2>1, <2>2
    <2> QED BY <2>3, <2>4
  <1> QED BY <1>1, <1>3

\* The trace of the whole body
LEMMA PartBody ==
    ASSUME NEW sim, NEW prog, Legal(prog)
    PROVE  /\ Part(sim, prog, Until(prog)) = Writes(sim, Body(prog))
           /\ Writes(sim, Body(prog)) \in Seq(Entries)
  <1>1. /\ Until(prog) \in 0..Len(prog) /\ Body(prog) = SubSeq(prog, 1, Until(prog))
    BY UntilFacts
  <1>2. Part(sim, prog, Until(prog)) = Writes(sim, SubSeq(prog, 1, Until(prog)))
    BY <1>1, PartIsWrites
  <1>3. Part(sim, prog, Until(prog)) \in Seq(Entries)
    BY <1>1, PartFacts
  <1> QED BY <1>1, <1>2, <1>3

\* The log of a simulator other than Renode
LEMMA LogIs ==
    ASSUME NEW sim \in {"spike", "ovpsim", "sail", "whisper"}, NEW prog, Legal(prog)
    PROVE  LogOf(sim, prog) = Boot(sim) \o Rest(sim, prog)[0]
  <1>1. Rest(sim, prog)[0] = FlattenSeq([k \in 1..Len(prog) |-> Printed(sim, prog[k])])
    BY RestFacts DEF Chunks
  <1>2. sim # "renode"
    OBVIOUS
  <1> QED BY <1>1, <1>2 DEF LogOf

\* The CSV file of rows is a trace.
LEMMA CsvType == ASSUME NEW rows \in Seq(Row) PROVE Csv(rows) \in Seq(Entries)
  <1>1. [op |-> "set", gpr |-> <<>>] \in Row
    BY LogsAssumption DEF Row, Op
  <1> QED BY <1>1, CsvAppend

\* Spike's log is opened, and used up.
LEMMA SpikeBegins ==
    ASSUME NEW prog, Legal(prog)
    PROVE  SpikeReading(prog, LogOf("spike", prog), Start)
  <1> DEFINE R == Rest("spike", prog)
             l == LogOf("spike", prog)
  <1>1. l = Boot("spike") \o R[0]
    BY LogIs
  <1>2. Len(prog) \in Nat /\ R \in [0..Len(prog) -> Seq(Lines)]
    BY RestFacts, UntilFacts
  <1> HIDE DEF R, l
  <1>3. Booting(l, R)
    <2>1. R[0] \in Seq(Lines)
      BY <1>2
    <2>2. Boot("spike") \o R[0] = <<BootLine("instr"), BootLine("reg")>> \o (<<BootLine("start")>> \o R[0])
      BY <2>1, BootFacts
    <2> QED BY <1>1, <2>2, Zenon DEF Booting
  <1>4. /\ Start \in Converter /\ Start.on = FALSE /\ Start.over = FALSE
        /\ Start.hand = <<>> /\ Start.rows = <<>>
    BY DEF Start, Converter, Hands
  <1> QED BY <1>3, <1>4 DEF SpikeReading, SpikeBoot, R, l

\* When Spike's log is used up, the trace of the whole body has been written.
LEMMA SpikeEnds ==
    ASSUME NEW prog, Legal(prog), NEW c, SpikeReading(prog, <<>>, c)
    PROVE  LET t == Csv(c.rows \o Kept(c.hand))
           IN  t \in Seq(Entries) /\ Alike(t, Writes("spike", Body(prog)))
  <1> DEFINE t == Csv(c.rows \o Kept(c.hand))
             R == Rest("spike", prog)
  <1>1. c \in Converter
    BY DEF SpikeReading
  <1>2. t \in Seq(Entries)
    BY <1>1, KeptFacts
  <1>3. Alike(t, Part("spike", prog, Until(prog)))
    <2>1. CASE SpikeBoot(prog, <<>>, c)
      <3>1. R[0] \in Seq(Lines)
        <4>1. Len(prog) \in Nat /\ R \in [0..Len(prog) -> Seq(Lines)]
          BY RestFacts, UntilFacts
        <4> HIDE DEF R
        <4> QED BY <4>1
      <3>2. Booting(<<>>, R)
        BY <2>1 DEF SpikeBoot
      <3> HIDE DEF R
      <3> QED BY <3>1, <3>2, BootStep
    <2>2. ASSUME NEW k \in 0..Until(prog), SpikeAt(prog, <<>>, c, k)
          PROVE  Alike(t, Part("spike", prog, Until(prog)))
      <3>1. R[k] = <<>>
        BY <2>2 DEF SpikeAt
      <3>2. k = Until(prog)
        BY <3>1, RestEnds
      <3> QED BY <2>2, <3>2 DEF SpikeAt
    <2>3. ASSUME NEW k \in 1..Until(prog), SpikeMid(prog, <<>>, c, k)
          PROVE  FALSE
      <3>1. k \in 1..Len(prog) /\ k \in 0..Len(prog)
        BY UntilFacts
      <3>2. prog[k] \in Instruction /\ R[k] \in Seq(Lines)
        BY <3>1, RestFacts DEF Legal
      <3>3. PICK kind \in {"reg", "trap"} : <<>> = <<Line(kind, prog[k])>> \o R[k]
        BY <2>3 DEF SpikeMid, Second
      <3> DEFINE a == Line(kind, prog[k])
      <3>4. a \in Lines /\ <<>> = <<a>> \o R[k]
        BY <3>2, <3>3, LineFacts
      <3> DEFINE x == R[k]
      <3>5. x \in Seq(Lines) /\ a \in Lines /\ <<>> = <<a>> \o x
        BY <3>2, <3>4
      <3> HIDE DEF R, a, x
      <3>6. Len(<<a>> \o x) = 1 + Len(x) /\ Len(x) \in Nat
        BY <3>5
      <3> QED BY <3>5, <3>6
    <2>4. CASE SpikeOver(prog, c)
      BY <2>4 DEF SpikeOver
    <2> QED BY <2>1, <2>2, <2>3, <2>4 DEF SpikeReading
  <1> QED BY <1>2, <1>3, PartBody

-----------------------------------------------------------------------------
(* OVPsim *)

\* sed cuts a log behind its first ecall.
LEMMA CutIs ==
    ASSUME NEW l \in Seq(Lines), NEW m \in 1..Len(l), l[m].op = "ecall",
           \A k \in 1 .. m - 1 : l[k].op # "ecall"
    PROVE  UpToEcall(l) = SubSeq(l, 1, m)
  <1> DEFINE calls == {k \in 1..Len(l) : l[k].op = "ecall"}
             c == CHOOSE k \in calls : \A j \in calls : k <= j
  <1>1. m \in calls /\ Len(l) \in Nat
    OBVIOUS
  <1>2. \A j \in calls : m <= j
    <2> SUFFICES ASSUME NEW j \in calls, ~(m <= j) PROVE FALSE
      OBVIOUS
    <2>1. j \in 1 .. m - 1
      BY <1>1
    <2> QED BY <2>1
  <1>3. c \in calls /\ \A j \in calls : c <= j
    <2> HIDE DEF calls
    <2> QED BY <1>1, <1>2
  <1>4. c = m
    <2>1. c <= m /\ m <= c /\ c \in Nat /\ m \in Nat
      <3>1. c \in Nat
        BY <1>3
      <3> HIDE DEF c, calls
      <3> QED BY <1>1, <1>2, <1>3, <3>1
    <2> HIDE DEF c
    <2> QED BY <2>1
  <1>5. UpToEcall(l) = SubSeq(l, 1, c)
    BY <1>1 DEF UpToEcall
  <1> QED BY <1>4, <1>5

\* Reading on, the cut stays behind the same ecall.
LEMMA CutFacts ==
    ASSUME NEW l \in Seq(Lines), l # <<>>
    PROVE  /\ UpToEcall(l) # <<>> /\ Head(UpToEcall(l)) = Head(l)
           /\ Tail(UpToEcall(l)) = IF Head(l).op = "ecall" THEN <<>> ELSE UpToEcall(Tail(l))
  <1> DEFINE t == Tail(l)
             n == Len(l)
  <1>1. n \in Nat \ {0} /\ t \in Seq(Lines) /\ Len(t) = n - 1 /\ Head(l) = l[1]
        /\ \A k \in 1 .. n - 1 : t[k] = l[k + 1]
    BY HeadTailProperties
  <1>2. CASE \A k \in 1..n : l[k].op # "ecall"
    <2>1. UpToEcall(l) = l
      BY <1>2 DEF UpToEcall
    <2>2. \A k \in 1..Len(t) : t[k].op # "ecall"
      <3> SUFFICES ASSUME NEW k \in 1..Len(t) PROVE t[k].op # "ecall"
        OBVIOUS
      <3> HIDE DEF t, n
      <3>1. k + 1 \in 1..n /\ k \in 1 .. n - 1
        BY <1>1
      <3>2. t[k] = l[k + 1] /\ l[k + 1].op # "ecall"
        BY <1>1, <1>2, <3>1
      <3> QED BY <3>2
    <2>3. UpToEcall(t) = t
      <3> HIDE DEF t
      <3> QED BY <2>2 DEF UpToEcall
    <2>4. Head(l).op # "ecall"
      <3> HIDE DEF n
      <3> QED BY <1>1, <1>2
    <2> QED BY <2>1, <2>3, <2>4
  <1>3. CASE \E k \in 1..n : l[k].op = "ecall"
    <2> DEFINE calls == {k \in 1..n : l[k].op = "ecall"}
    <2>1. PICK m \in calls : \A k \in calls : m <= k
      <3>1. calls \in SUBSET Nat /\ calls # {}
        BY <1>1, <1>3
      <3> HIDE DEF calls
      <3> QED BY <3>1, LeastNat
    <2>2. m \in 1..n /\ l[m].op = "ecall"
      OBVIOUS
    <2>3. \A k \in 1 .. m - 1 : l[k].op # "ecall"
      <3> SUFFICES ASSUME NEW k \in 1 .. m - 1, l[k].op = "ecall" PROVE FALSE
        OBVIOUS
      <3>1. k \in 1..n /\ ~(m <= k)
        BY <1>1, <2>2
      <3> QED BY <2>1, <3>1
    <2>4. UpToEcall(l) = SubSeq(l, 1, m)
      BY <2>2, <2>3, CutIs
    <2> DEFINE u == SubSeq(l, 1, m)
    <2>5. /\ u \in Seq(Lines) /\ Len(u) = m /\ u # <<>> /\ \A k \in 1..m : u[k] = l[k]
      BY <1>1, <2>2
    <2> HIDE DEF u, calls
    <2>6. Head(u) = Head(l) /\ Tail(u) \in Seq(Lines) /\ Len(Tail(u)) = m - 1
          /\ \A k \in 1 .. m - 1 : Tail(u)[k] = l[k + 1]
      <3>1. Head(u) = u[1] /\ Tail(u) \in Seq(Lines) /\ Len(Tail(u)) = m - 1
            /\ \A k \in 1 .. m - 1 : Tail(u)[k] = u[k + 1]
        BY <1>1, <2>2, <2>5, HeadTailProperties
      <3>2. 1 \in 1..m /\ \A k \in 1 .. m - 1 : k + 1 \in 1..m
        BY <1>1, <2>2
      <3> QED BY <1>1, <2>5, <3>1, <3>2
    <2>7. CASE m = 1
      <3> DEFINE w == Tail(u)
      <3>2. Head(l).op = "ecall" /\ w \in Seq(Lines) /\ Len(w) = 0
        BY <1>1, <2>2, <2>6, <2>7
      <3>3. w = <<>>
        <4> HIDE DEF w
        <4> QED BY <3>2
      <3>1. Head(l).op = "ecall" /\ Tail(u) = <<>>
        BY <3>2, <3>3
      <3> QED BY <2>4, <2>5, <2>6, <3>1 DEF u
    <2>8. CASE m # 1
      <3>1. m - 1 \in 1..Len(t) /\ (m - 1) + 1 = m /\ m - 1 \in 1 .. n - 1 /\ 1 \in 1 .. m - 1
        BY <1>1, <2>2, <2>8
      <3>2. Head(l).op # "ecall"
        BY <1>1, <2>3, <3>1
      <3>3. t[m - 1].op = "ecall"
        <4> HIDE DEF t
        <4>1. t[m - 1] = l[(m - 1) + 1]
          BY <1>1, <3>1
        <4> QED BY <2>2, <3>1, <4>1
      <3>4. \A k \in 1 .. (m - 1) - 1 : t[k].op # "ecall"
        <4> SUFFICES ASSUME NEW k \in 1 .. (m - 1) - 1 PROVE t[k].op # "ecall"
          OBVIOUS
        <4> HIDE DEF t
        <4>1. k + 1 \in 1 .. m - 1 /\ k \in 1 .. n - 1
          BY <1>1, <2>2
        <4>2. t[k] = l[k + 1] /\ l[k + 1].op # "ecall"
          BY <1>1, <2>3, <4>1
        <4> QED BY <4>2
      <3> DEFINE v == SubSeq(t, 1, m - 1)
      <3>5. UpToEcall(t) = v
        <4> HIDE DEF t
        <4> QED BY <1>1, <3>1, <3>3, <3>4, CutIs
      <3>6. v \in Seq(Lines) /\ Len(v) = m - 1 /\ \A k \in 1 .. m - 1 : v[k] = t[k]
        <4> HIDE DEF t
        <4> QED BY <1>1, <2>2, <3>1
      <3> HIDE DEF v, t, n
      <3>7. \A k \in 1 .. m - 1 : v[k] = Tail(u)[k]
        <4> SUFFICES ASSUME NEW k \in 1 .. m - 1 PROVE v[k] = Tail(u)[k]
          OBVIOUS
        <4>1. k \in 1 .. n - 1
          BY <1>1, <2>2
        <4> QED BY <1>1, <2>6, <3>6, <4>1
      <3>8. v = Tail(u)
        BY <2>6, <3>6, <3>7, SeqEqual
      <3> QED BY <2>4, <2>5, <2>6, <3>2, <3>5, <3>8 DEF u, t
    <2> QED BY <2>7, <2>8
  <1> QED BY <1>2, <1>3

\* There is nothing to cut of an empty log.
LEMMA CutEmpty == UpToEcall(<<>>) = <<>>
  BY DEF UpToEcall

\* The state of OVPsim's converter after the k-th instruction, between its two
\* lines, and behind the ecall
OvpsimAt(prog, l, c, k) ==
    /\ l = UpToEcall(Rest("ovpsim", prog)[k])
    /\ IF k = 0 THEN c.rows = <<>> /\ c.hand = <<>>
       ELSE /\ Csv(c.rows) = Part("ovpsim", prog, k - 1)
            /\ c.hand = <<[op |-> prog[k].op, gpr |-> Written("ovpsim", prog[k])]>>
OvpsimMid(prog, l, c, k) ==
    /\ prog[k].op = "set"
    /\ l = UpToEcall(<<Line("reg", prog[k])>> \o Rest("ovpsim", prog)[k])
    /\ c.hand = <<[op |-> prog[k].op, gpr |-> <<>>]>>
    /\ Csv(c.rows) = Part("ovpsim", prog, k - 1)
OvpsimOver(prog, l, c) ==
    l = <<>> /\ Ends(prog) /\ Csv(c.rows) = Part("ovpsim", prog, Until(prog))

OvpsimReading(prog, l, c) ==
    /\ c \in Converter
    /\ \/ \E k \in 0..Until(prog) : OvpsimAt(prog, l, c, k)
       \/ \E k \in 1..Until(prog) : OvpsimMid(prog, l, c, k)
       \/ OvpsimOver(prog, l, c)

\* Reading a line of OVPsim's log
LEMMA OvpsimStep ==
    ASSUME NEW prog, Legal(prog), NEW l, l # <<>>, NEW c, OvpsimReading(prog, l, c)
    PROVE  OvpsimReading(prog, Tail(l), OvpsimLine(c, Head(l)))
  <1> DEFINE line == Head(l)
             d == OvpsimLine(c, line)
             R == Rest("ovpsim", prog)
             P(k) == Part("ovpsim", prog, k)
             u == Until(prog)
  <1>0. c \in Converter /\ c.rows \in Seq(Row) /\ c.hand \in Hands
        /\ c.on \in BOOLEAN /\ c.over \in BOOLEAN
    BY DEF OvpsimReading, Converter
  <1>1. /\ u \in 0..Len(prog) /\ Len(prog) \in Nat
        /\ \A k \in 0..Len(prog) : R[k] \in Seq(Lines)
    <2>1. R \in [0..Len(prog) -> Seq(Lines)]
      BY RestFacts
    <2>2. u \in 0..Len(prog) /\ Len(prog) \in Nat
      BY UntilFacts
    <2> HIDE DEF R, u
    <2> QED BY <2>1, <2>2
  <1>2. ASSUME NEW k \in 0..u, OvpsimAt(prog, l, c, k)
        PROVE  OvpsimReading(prog, Tail(l), d)
    <2> DEFINE s == prog[k + 1]
               base == c.rows \o c.hand
               hand == <<[op |-> s.op, gpr |-> <<>>]>>
    <2>1. k \in 0..Len(prog) /\ R[k] \in Seq(Lines) /\ l = UpToEcall(R[k]) /\ R[k] # <<>>
      BY <1>1, <1>2, CutEmpty DEF OvpsimAt
    <2>2. /\ k < Len(prog) /\ k + 1 \in 1..Len(prog) /\ (k + 1) - 1 = k
          /\ s \in Instruction /\ s.op \in Op /\ R[k + 1] \in Seq(Lines)
          /\ Head(R[k]) = Line("instr", s)
          /\ Tail(R[k]) = IF s.op = "set" THEN <<Line("reg", s)>> \o R[k + 1] ELSE R[k + 1]
      <3>1. R[k] # <<>> /\ "ovpsim" \in {"spike", "ovpsim", "sail"}
        BY <2>1
      <3>2. s.op \in Op /\ s \in Instruction
        BY <2>1, <3>1, NextLines
      <3>3. "ovpsim" # "spike"
        OBVIOUS
      <3>4. Tail(R[k]) = IF s.op = "set" THEN <<Line("reg", s)>> \o R[k + 1]
                         ELSE IF "ovpsim" = "spike" /\ s.op \in {"trap", "ecall"}
                         THEN <<Line(s.op, s)>> \o R[k + 1]
                         ELSE R[k + 1]
        BY <2>1, <3>1, NextLines
      <3>5. Tail(R[k]) = IF s.op = "set" THEN <<Line("reg", s)>> \o R[k + 1] ELSE R[k + 1]
        BY <3>3, <3>4, Zenon
      <3>6. /\ k < Len(prog) /\ k + 1 \in 1..Len(prog) /\ (k + 1) - 1 = k
            /\ R[k + 1] \in Seq(Lines) /\ Head(R[k]) = Line("instr", s)
        BY <2>1, <3>1, NextLines
      <3> QED BY <3>2, <3>5, <3>6
    <2>3. line = Line("instr", s) /\ line.kind = "instr" /\ line.op = s.op
      BY <2>1, <2>2, CutFacts, LineFacts
    <2>4. Tail(l) = IF s.op = "ecall" THEN <<>> ELSE UpToEcall(Tail(R[k]))
      BY <2>1, <2>2, <2>3, CutFacts
    <2>5. base \in Seq(Row) /\ Csv(base) = P(k)
      <3>1. CASE k = 0
        <4>1. base = <<>>
          BY <1>2, <3>1 DEF OvpsimAt
        <4>2. <<>> \in Seq(Row) /\ Csv(<<>>) = <<>>
          BY DEF Csv
        <4> QED BY <3>1, <4>1, <4>2, PartFacts
      <3>2. CASE k # 0
        <4> DEFINE r == [op |-> prog[k].op, gpr |-> Written("ovpsim", prog[k])]
        <4>1. k \in 1..Len(prog)
          BY <1>1, <2>1, <3>2
        <4>2. prog[k].op \in Op
          <5>1. prog[k] \in Instruction
            BY <4>1 DEF Legal
          <5> QED BY <5>1 DEF Instruction, Op
        <4>3. P(k) = Append(P(k - 1), Written("ovpsim", prog[k])) /\ Written("ovpsim", prog[k]) \in Entries
          BY <4>1, NextPart
        <4>4. Csv(c.rows) = P(k - 1) /\ c.hand = <<r>>
          BY <1>2, <3>2 DEF OvpsimAt
        <4>5. r \in Row /\ r.gpr = Written("ovpsim", prog[k])
          BY <4>2, <4>3 DEF Row
        <4> HIDE DEF r
        <4>6. Csv(c.rows \o <<r>>) = Append(Csv(c.rows), r.gpr) /\ c.rows \o <<r>> \in Seq(Row)
          BY <1>0, <4>5, CsvAppend
        <4> QED BY <4>3, <4>4, <4>5, <4>6
      <3> QED BY <3>1, <3>2
    <2>6. d = [c EXCEPT !.rows = base, !.hand = hand]
      BY <2>3 DEF OvpsimLine, Taken
    <2>7. hand \in Hands
      BY <2>2, LogsAssumption DEF Hands, Row
    <2>8. d \in Converter /\ d.hand = hand /\ d.rows = base
      <3> HIDE DEF hand, base
      <3> QED BY <1>0, <2>5, <2>6, <2>7 DEF Converter
    <2>9. /\ s.op # "ecall" => k + 1 \in 1..u /\ k + 1 \in 0..u
          /\ s.op = "ecall" => k = u /\ Ends(prog)
      BY <2>2, NextInBody
    <2> HIDE DEF d, base, u, line
    <2>10. CASE s.op = "set"
      <3>1. OvpsimMid(prog, Tail(l), d, k + 1)
        BY <2>2, <2>4, <2>5, <2>8, <2>10 DEF OvpsimMid
      <3> QED BY <2>8, <2>9, <2>10, <3>1 DEF OvpsimReading, u
    <2>11. CASE s.op = "ecall"
      <3>1. OvpsimOver(prog, Tail(l), d)
        BY <2>4, <2>5, <2>8, <2>9, <2>11 DEF OvpsimOver, u
      <3> QED BY <2>8, <3>1 DEF OvpsimReading
    <2>12. CASE s.op \notin {"set", "ecall"}
      <3>1. Written("ovpsim", s) = <<>>
        BY <2>12 DEF Written
      <3>2. k + 1 # 0
        BY <2>2
      <3>3. OvpsimAt(prog, Tail(l), d, k + 1)
        BY <2>2, <2>4, <2>5, <2>8, <2>12, <3>1, <3>2 DEF OvpsimAt
      <3> QED BY <2>8, <2>9, <2>12, <3>3 DEF OvpsimReading, u
    <2> QED BY <2>10, <2>11, <2>12
  <1>3. ASSUME NEW k \in 1..u, OvpsimMid(prog, l, c, k)
        PROVE  OvpsimReading(prog, Tail(l), d)
    <2> DEFINE s == prog[k]
               a == Line("reg", s)
               m == <<a>> \o R[k]
               r == [op |-> s.op, gpr |-> <<Update(s)>>]
    <2>1. k \in 1..Len(prog) /\ k \in 0..u /\ k # 0 /\ R[k] \in Seq(Lines)
      BY <1>1
    <2>2. /\ s.op = "set" /\ l = UpToEcall(m) /\ c.hand = <<[op |-> s.op, gpr |-> <<>>]>>
          /\ Csv(c.rows) = P(k - 1)
      BY <1>3 DEF OvpsimMid
    <2>3. s \in Instruction /\ Writable(s)
      BY <2>1 DEF Legal
    <2>4. a \in Lines /\ a.kind = "reg" /\ a.op = "set" /\ Update(a) = Update(s)
      BY <2>2, <2>3, LineFacts DEF Update
    <2> HIDE DEF a
    <2>5. m \in Seq(Lines) /\ m # <<>> /\ Head(m) = a /\ Tail(m) = R[k]
      BY <2>1, <2>4, HeadOf
    <2> HIDE DEF m
    <2>6. line = a /\ Tail(l) = UpToEcall(R[k])
      BY <2>2, <2>4, <2>5, CutFacts
    <2>7. Written("ovpsim", s) = <<Update(s)>> /\ Written("ovpsim", s) \in Entries
      <3>1. Written("ovpsim", s) = <<Update(s)>>
        BY <2>2, <2>3 DEF Written, Sees, Instruction
      <3>2. Written("ovpsim", s) \in Entries
        BY <2>1, NextPart
      <3> QED BY <3>1, <3>2
    <2>8. r \in Row
      BY <2>2, <2>7 DEF Row, Op
    <2>9. d = [c EXCEPT !.hand = <<r>>]
      <3>1. WithReg(c.hand, line) = <<r>>
        <4>1. c.hand[1] = [op |-> s.op, gpr |-> <<>>]
          BY <2>2
        <4>2. WithReg(c.hand, line) = <<[c.hand[1] EXCEPT !.gpr = Append(@, Update(line))]>>
          BY DEF WithReg
        <4>3. Append(<<>>, Update(s)) = <<Update(s)>>
          OBVIOUS
        <4> QED BY <2>4, <2>6, <4>1, <4>2, <4>3
      <3> HIDE DEF line
      <3> QED BY <2>4, <2>6, <3>1 DEF OvpsimLine
    <2>10. d \in Converter /\ d.hand = <<r>> /\ d.rows = c.rows
      <3>1. <<r>> \in Hands
        BY <2>8 DEF Hands
      <3> HIDE DEF r
      <3> QED BY <1>0, <2>9, <3>1 DEF Converter
    <2> HIDE DEF d, line, u
    <2>11. OvpsimAt(prog, Tail(l), d, k)
      BY <2>1, <2>2, <2>6, <2>7, <2>10 DEF OvpsimAt
    <2> QED BY <2>1, <2>10, <2>11 DEF OvpsimReading, u
  <1>4. CASE OvpsimOver(prog, l, c)
    BY <1>4 DEF OvpsimOver
  <1> QED BY <1>2, <1>3, <1>4 DEF OvpsimReading

\* OVPsim's log is opened, and used up.
LEMMA OvpsimBegins ==
    ASSUME NEW prog, Legal(prog)
    PROVE  OvpsimReading(prog, UpToEcall(LogOf("ovpsim", prog)), Start)
  <1> DEFINE R == Rest("ovpsim", prog)
  <1>1. R[0] \in Seq(Lines) /\ 0 \in 0..Until(prog)
    <2>1. R \in [0..Len(prog) -> Seq(Lines)] /\ Until(prog) \in 0..Len(prog) /\ Len(prog) \in Nat
      BY RestFacts, UntilFacts
    <2> HIDE DEF R
    <2> QED BY <2>1
  <1>2. LogOf("ovpsim", prog) = R[0]
    BY <1>1, LogIs, BootFacts
  <1>3. Start \in Converter /\ Start.hand = <<>> /\ Start.rows = <<>>
    BY DEF Start, Converter, Hands
  <1>4. OvpsimAt(prog, UpToEcall(LogOf("ovpsim", prog)), Start, 0)
    BY <1>2, <1>3 DEF OvpsimAt
  <1> QED BY <1>1, <1>3, <1>4 DEF OvpsimReading

\* When OVPsim's log is used up, the instruction in hand is lost: it is the
\* ecall, or the last one of a program that has none.
LEMMA OvpsimEnds ==
    ASSUME NEW prog, Legal(prog), NEW c, OvpsimReading(prog, <<>>, c)
    PROVE  /\ Csv(c.rows) \in Seq(Entries)
           /\ Csv(c.rows) = Writes("ovpsim", Read("ovpsim", prog))
           /\ c.rows = <<>> => Len(Body(prog)) <= (IF Ends(prog) THEN 0 ELSE 1)
  <1> DEFINE R == Rest("ovpsim", prog)
  <1>0. c \in Converter /\ c.rows \in Seq(Row) /\ Csv(c.rows) \in Seq(Entries)
        /\ Len(Csv(c.rows)) = Len(c.rows)
    <2>1. c \in Converter /\ c.rows \in Seq(Row)
      BY DEF OvpsimReading, Converter
    <2>2. Csv(c.rows) \in Seq(Entries)
      BY <2>1, CsvType
    <2>3. Len(Csv(c.rows)) = Len(c.rows)
      BY <2>1 DEF Csv
    <2> QED BY <2>1, <2>2, <2>3
  <1>1. /\ prog \in Seq(Instruction) /\ Len(prog) \in Nat /\ Until(prog) \in 0..Len(prog)
        /\ R \in [0..Len(prog) -> Seq(Lines)]
        /\ ~Ends(prog) => Until(prog) = Len(prog) /\ Body(prog) = prog
    BY UntilFacts, RestFacts DEF Legal, Body
  <1>2. ASSUME NEW k \in 0..Until(prog), OvpsimAt(prog, <<>>, c, k)
        PROVE  /\ Csv(c.rows) = Writes("ovpsim", Read("ovpsim", prog))
               /\ c.rows = <<>> => Len(Body(prog)) <= (IF Ends(prog) THEN 0 ELSE 1)
    <2>1. R[k] = <<>>
      <3>1. UpToEcall(R[k]) = <<>> /\ R[k] \in Seq(Lines)
        <4>1. UpToEcall(R[k]) = <<>>
          BY <1>2 DEF OvpsimAt
        <4> HIDE DEF R
        <4> QED BY <1>1, <4>1
      <3> HIDE DEF R
      <3> QED BY <3>1, CutFacts
    <2>2. k = Len(prog) /\ k = Until(prog) /\ ~Ends(prog)
      BY <2>1, RestEnds
    <2>3. Read("ovpsim", prog) = SubSeq(prog, 1, Len(prog) - 1)
      BY <1>1, <2>2 DEF Read, Front
    <2>4. CASE k = 0
      <3>1. c.rows = <<>> /\ Csv(c.rows) = <<>>
        BY <1>2, <2>4 DEF OvpsimAt, Csv
      <3>2. Len(SubSeq(prog, 1, Len(prog) - 1)) = 0
        <4>1. Len(prog) - 1 = -1 /\ \A i \in 1 .. -1 : prog[i] \in Instruction
          BY <2>2, <2>4
        <4>2. Len(SubSeq(prog, 1, -1)) = IF 1 <= -1 THEN -1 - 1 + 1 ELSE 0
          BY <4>1, SubSeqProperties
        <4> QED BY <4>1, <4>2
      <3>3. Writes("ovpsim", SubSeq(prog, 1, Len(prog) - 1)) = <<>>
        <4> DEFINE b == SubSeq(prog, 1, Len(prog) - 1)
        <4>1. Len(b) = 0
          BY <3>2
        <4> HIDE DEF b
        <4>2. Writes("ovpsim", b) = <<>>
          BY <4>1 DEF Writes
        <4> QED BY <4>2 DEF b
      <3>4. Len(Body(prog)) = 0
        BY <1>1, <2>2, <2>4
      <3>5. Csv(c.rows) = Writes("ovpsim", Read("ovpsim", prog))
        BY <2>3, <3>1, <3>3, Zenon
      <3> QED BY <2>2, <3>4, <3>5
    <2>5. CASE k # 0
      <3>1. k - 1 \in 0..Len(prog) /\ k - 1 = Len(prog) - 1
        BY <1>1, <2>2, <2>5
      <3>2. Csv(c.rows) = Part("ovpsim", prog, k - 1)
        BY <1>2, <2>5 DEF OvpsimAt
      <3>3. Part("ovpsim", prog, k - 1) = Writes("ovpsim", SubSeq(prog, 1, k - 1))
        BY <3>1, PartIsWrites
      <3>4. Len(Part("ovpsim", prog, k - 1)) = k - 1
        <4> DEFINE w == Writes("ovpsim", prog)
        <4>1. w \in Seq(Entries) /\ Len(w) = Len(prog)
          BY WritesFacts
        <4> HIDE DEF w
        <4>2. Len(SubSeq(w, 1, k - 1)) = k - 1
          BY <1>1, <3>1, <4>1
        <4> QED BY <4>2 DEF Part, w
      <3>5. c.rows = <<>> => Len(prog) = 1
        <4>1. Len(c.rows) = Len(prog) - 1
          BY <1>0, <3>1, <3>2, <3>4
        <4> QED BY <1>1, <4>1
      <3>6. Csv(c.rows) = Writes("ovpsim", Read("ovpsim", prog))
        BY <2>3, <3>1, <3>2, <3>3, Zenon
      <3>7. c.rows = <<>> => Len(Body(prog)) <= 1
        <4>1. Body(prog) = prog
          BY <1>1, <2>2
        <4>2. c.rows = <<>> => Len(Body(prog)) = 1
          BY <3>5, <4>1, Zenon
        <4>3. 1 <= 1
          OBVIOUS
        <4> QED BY <4>2, <4>3
      <3> QED BY <2>2, <3>6, <3>7
    <2> QED BY <2>4, <2>5
  <1>3. ASSUME NEW k \in 1..Until(prog), OvpsimMid(prog, <<>>, c, k)
        PROVE  FALSE
    <2> DEFINE a == Line("reg", prog[k])
               x == R[k]
    <2>1. k \in 1..Len(prog) /\ k \in 0..Len(prog)
      BY <1>1
    <2>2. a \in Lines
      BY <1>1, <2>1, LineFacts
    <2>3. x \in Seq(Lines)
      <3> HIDE DEF R
      <3> QED BY <1>1, <2>1
    <2>4. UpToEcall(<<a>> \o x) = <<>>
      BY <1>3 DEF OvpsimMid
    <2> HIDE DEF a, x
    <2>5. <<a>> \o x \in Seq(Lines) /\ <<a>> \o x # <<>>
      BY <2>2, <2>3, HeadOf
    <2> QED BY <2>4, <2>5, CutFacts
  <1>4. CASE OvpsimOver(prog, <<>>, c)
    <2>1. Ends(prog) /\ Csv(c.rows) = Part("ovpsim", prog, Until(prog))
      BY <1>4 DEF OvpsimOver
    <2>2. Read("ovpsim", prog) = Body(prog)
      BY <2>1 DEF Read
    <2>3. c.rows = <<>> => Len(Body(prog)) <= 0
      <3> SUFFICES ASSUME c.rows = <<>> PROVE Len(Body(prog)) <= 0
        OBVIOUS
      <3>1. Writes("ovpsim", Body(prog)) = <<>>
        BY <2>1, PartBody DEF Csv
      <3>2. Len(Body(prog)) = 0
        <4>1. Until(prog) \in Nat /\ Until(prog) = Len(Body(prog))
          BY <1>1 DEF Until
        <4> DEFINE w == Writes("ovpsim", Body(prog))
        <4>2. Len(w) = Len(Body(prog))
          BY <4>1 DEF Writes
        <4> HIDE DEF w
        <4> QED BY <3>1, <4>2 DEF w
      <3> QED BY <3>2
    <2> QED BY <2>1, <2>2, <2>3, PartBody
  <1> QED BY <1>0, <1>2, <1>3, <1>4 DEF OvpsimReading

\* What is left of a log are lines.
LEMMA RestTypes ==
    ASSUME NEW sim \in {"spike", "ovpsim", "sail", "whisper"}, NEW prog, Legal(prog)
    PROVE  /\ Until(prog) \in 0..Len(prog) /\ Len(prog) \in Nat /\ 0 \in 0..Until(prog)
           /\ \A k \in 0..Len(prog) : Rest(sim, prog)[k] \in Seq(Lines)
           /\ Rest(sim, prog)[0] \in Seq(Lines)
  <1> DEFINE R == Rest(sim, prog)
  <1>1. R \in [0..Len(prog) -> Seq(Lines)]
    BY RestFacts
  <1>2. Until(prog) \in 0..Len(prog) /\ Len(prog) \in Nat
    BY UntilFacts
  <1> HIDE DEF R
  <1>3. (\A k \in 0..Len(prog) : R[k] \in Seq(Lines)) /\ R[0] \in Seq(Lines)
    BY <1>1, <1>2
  <1> QED BY <1>2, <1>3 DEF R

\* An effect line gives the instruction in hand its register.
LEMMA TakenWithReg ==
    ASSUME NEW op, NEW line
    PROVE  WithReg(<<[op |-> op, gpr |-> <<>>]>>, line) = <<[op |-> op, gpr |-> <<Update(line)>>]>>
  <1> DEFINE h == <<[op |-> op, gpr |-> <<>>]>>
             q == Update(line)
  <1>1. h[1] = [op |-> op, gpr |-> <<>>]
    OBVIOUS
  <1>2. WithReg(h, line) = <<[h[1] EXCEPT !.gpr = Append(@, q)]>>
    BY DEF WithReg
  <1>3. Append(<<>>, q) = <<q>>
    OBVIOUS
  <1> HIDE DEF h, q
  <1>4. WithReg(h, line) = <<[op |-> op, gpr |-> <<q>>]>>
    BY <1>1, <1>2, <1>3
  <1> QED BY <1>4 DEF h, q

\* A line that shows a register write adds it to the trace.
LEMMA RowAdded ==
    ASSUME NEW rows \in Seq(Row), NEW r \in Row, NEW p \in Seq(Entries), Alike(Csv(rows), p)
    PROVE  /\ rows \o <<r>> \in Seq(Row)
           /\ Alike(Csv(rows \o <<r>>), Append(p, r.gpr))
           /\ After(Regs(p), r.gpr) = Regs(p) /\ ~Changes(Regs(p), r.gpr) =>
                Alike(Csv(rows \o <<r>>), p)
  <1> DEFINE g == r.gpr
             t == Csv(rows)
  <1>1. /\ rows \o <<r>> \in Seq(Row) /\ Csv(rows \o <<r>>) = Append(t, g)
        /\ t \in Seq(Entries) /\ g \in Entries
    BY CsvAppend DEF Row
  <1> HIDE DEF g, t
  <1>2. Alike(t, p)
    BY DEF t
  <1>3. Alike(Append(t, g), Append(p, g))
    BY <1>1, <1>2, AlikeAppend
  <1>4. After(Regs(p), g) = Regs(p) /\ ~Changes(Regs(p), g) => Alike(Append(p, g), p)
    BY <1>1, AlikeQuiet
  <1>5. After(Regs(p), g) = Regs(p) /\ ~Changes(Regs(p), g) => Alike(Append(t, g), p)
    BY <1>3, <1>4 DEF Alike
  <1> QED BY <1>1, <1>3, <1>5 DEF g, t

-----------------------------------------------------------------------------
(* Sail *)

\* The state of Sail's converter, in the same way, and that of any converter
\* behind the ecall
SailBoot(prog, l, c) ==
    ~c.on /\ ~c.over /\ c.rows = <<>> /\ Booting(l, Rest("sail", prog))
SailAt(prog, l, c, k) ==
    /\ c.on /\ ~c.over /\ l = Rest("sail", prog)[k]
    /\ Alike(Csv(c.rows), Part("sail", prog, k))
SailMid(prog, l, c, k) ==
    /\ c.on /\ ~c.over /\ prog[k].op = "set"
    /\ Second("sail", prog, k, "reg", l, c)
    /\ Alike(Csv(c.rows), Part("sail", prog, k - 1))
Done(sim, prog, c) ==
    c.over /\ Ends(prog) /\ Alike(Csv(c.rows), Part(sim, prog, Until(prog)))

SailReading(prog, l, c) ==
    /\ c \in Converter
    /\ \/ SailBoot(prog, l, c)
       \/ \E k \in 0..Until(prog) : SailAt(prog, l, c, k)
       \/ \E k \in 1..Until(prog) : SailMid(prog, l, c, k)
       \/ Done("sail", prog, c)

\* Reading a line of Sail's log
LEMMA SailStep ==
    ASSUME NEW prog, Legal(prog), NEW l, l # <<>>, NEW c, SailReading(prog, l, c)
    PROVE  SailReading(prog, Tail(l), SailLine(c, Head(l)))
  <1> DEFINE line == Head(l)
             d == SailLine(c, line)
             R == Rest("sail", prog)
             P(k) == Part("sail", prog, k)
             u == Until(prog)
  <1>0. c \in Converter /\ c.rows \in Seq(Row) /\ c.hand \in Hands
        /\ c.on \in BOOLEAN /\ c.over \in BOOLEAN
    BY DEF SailReading, Converter
  <1>1. /\ u \in 0..Len(prog) /\ Len(prog) \in Nat
        /\ \A k \in 0..Len(prog) : R[k] \in Seq(Lines)
        /\ R[0] \in Seq(Lines) /\ 0 \in 0..u
    BY RestTypes
  <1>2. CASE SailBoot(prog, l, c)
    <2>1. ~c.on /\ ~c.over /\ c.rows = <<>> /\ Booting(l, R)
      BY <1>2 DEF SailBoot
    <2>2. \A kind \in {"instr", "reg", "start"} :
             BootLine(kind).kind = kind /\ BootLine(kind).op = "set"
      BY <1>1, BootFacts
    <2>3. CASE line = BootLine("start") /\ Tail(l) = R[0]
      <3>1. d = [c EXCEPT !.on = TRUE]
        BY <2>1, <2>2, <2>3 DEF SailLine
      <3>2. d \in Converter /\ d.on /\ ~d.over /\ d.rows = <<>>
        BY <1>0, <2>1, <3>1 DEF Converter
      <3>3. Csv(<<>>) = <<>> /\ P(0) = <<>>
        BY PartFacts DEF Csv
      <3>4. SailAt(prog, Tail(l), d, 0)
        BY <2>3, <3>2, <3>3 DEF SailAt, Alike
      <3>5. SailReading(prog, Tail(l), d)
        <4> HIDE DEF d
        <4> QED BY <1>1, <3>2, <3>4 DEF SailReading
      <3> QED BY <3>5
    <2>4. CASE line \in {BootLine("instr"), BootLine("reg")} /\ Booting(Tail(l), R)
      <3>1. line.kind \in {"instr", "reg"} /\ line.op = "set"
        BY <2>2, <2>4
      <3>2. d = c
        <4> HIDE DEF line
        <4> QED BY <2>1, <3>1 DEF SailLine
      <3>3. SailBoot(prog, Tail(l), d)
        BY <2>1, <2>4, <3>2 DEF SailBoot
      <3> QED BY <1>0, <3>2, <3>3 DEF SailReading
    <2> QED BY <1>1, <2>1, <2>3, <2>4, BootStep
  <1>3. ASSUME NEW k \in 0..u, SailAt(prog, l, c, k)
        PROVE  SailReading(prog, Tail(l), d)
    <2> DEFINE s == prog[k + 1]
               hand == <<[op |-> s.op, gpr |-> <<>>]>>
    <2>1. /\ c.on /\ ~c.over /\ l = R[k] /\ R[k] # <<>>
          /\ Alike(Csv(c.rows), P(k)) /\ k \in 0..Len(prog)
      BY <1>1, <1>3 DEF SailAt
    <2>2. /\ k < Len(prog) /\ k + 1 \in 1..Len(prog) /\ (k + 1) - 1 = k
          /\ s \in Instruction /\ s.op \in Op
          /\ line = Line("instr", s)
          /\ Tail(l) = IF s.op = "set" THEN <<Line("reg", s)>> \o R[k + 1] ELSE R[k + 1]
      <3>1. "sail" \in {"spike", "ovpsim", "sail"} /\ "sail" # "spike"
        OBVIOUS
      <3>2. s.op \in Op /\ s \in Instruction
        BY <2>1, <3>1, NextLines
      <3>4. Tail(R[k]) = IF s.op = "set" THEN <<Line("reg", s)>> \o R[k + 1]
                         ELSE IF "sail" = "spike" /\ s.op \in {"trap", "ecall"}
                         THEN <<Line(s.op, s)>> \o R[k + 1]
                         ELSE R[k + 1]
        BY <2>1, <3>1, NextLines
      <3>5. Tail(R[k]) = IF s.op = "set" THEN <<Line("reg", s)>> \o R[k + 1] ELSE R[k + 1]
        BY <3>1, <3>4, Zenon
      <3>6. /\ k < Len(prog) /\ k + 1 \in 1..Len(prog) /\ (k + 1) - 1 = k
            /\ Head(R[k]) = Line("instr", s)
        BY <2>1, <3>1, NextLines
      <3> QED BY <2>1, <3>2, <3>5, <3>6
    <2>3. line.kind = "instr" /\ line.op = s.op
      BY <2>2, LineFacts
    <2>4. hand \in Hands
      BY <2>2, LogsAssumption DEF Hands, Row
    <2>5. d = IF s.op = "ecall" THEN [c EXCEPT !.over = TRUE] ELSE [c EXCEPT !.hand = hand]
      <3> HIDE DEF line
      <3> QED BY <2>1, <2>3 DEF SailLine, Taken
    <2>6. /\ d \in Converter /\ d.on /\ d.over = (s.op = "ecall") /\ d.rows = c.rows
          /\ s.op # "ecall" => d.hand = hand
      <3> HIDE DEF hand, s
      <3> QED BY <1>0, <2>1, <2>4, <2>5 DEF Converter
    <2>7. /\ s.op # "ecall" => k + 1 \in 1..u /\ k + 1 \in 0..u
          /\ s.op = "ecall" => k = u /\ Ends(prog)
      BY <2>2, NextInBody
    <2> HIDE DEF d, u, line
    <2>8. CASE s.op = "set"
      <3>1. SailMid(prog, Tail(l), d, k + 1)
        BY <2>1, <2>2, <2>6, <2>8 DEF SailMid, Second
      <3> QED BY <2>6, <2>7, <2>8, <3>1 DEF SailReading, u
    <2>9. CASE s.op = "ecall"
      <3>1. Done("sail", prog, d)
        BY <2>1, <2>6, <2>7, <2>9 DEF Done, u
      <3> QED BY <2>6, <3>1 DEF SailReading
    <2>10. CASE s.op \notin {"set", "ecall"}
      <3>1. Written("sail", s) = <<>>
        BY <2>10 DEF Written
      <3>2. Alike(P(k + 1), P(k))
        BY <2>2, <3>1, NextPart
      <3>3. SailAt(prog, Tail(l), d, k + 1)
        BY <2>1, <2>2, <2>6, <2>10, <3>2 DEF SailAt, Alike
      <3> QED BY <2>6, <2>7, <2>10, <3>3 DEF SailReading, u
    <2> QED BY <2>8, <2>9, <2>10
  <1>4. ASSUME NEW k \in 1..u, SailMid(prog, l, c, k)
        PROVE  SailReading(prog, Tail(l), d)
    <2> DEFINE s == prog[k]
               a == Line("reg", s)
               r == [op |-> s.op, gpr |-> <<Update(s)>>]
               p == P(k - 1)
    <2>1. k \in 1..Len(prog) /\ k \in 0..u /\ R[k] \in Seq(Lines)
      BY <1>1
    <2>2. /\ c.on /\ ~c.over /\ s.op = "set" /\ l = <<a>> \o R[k]
          /\ c.hand = <<[op |-> s.op, gpr |-> <<>>]>> /\ Alike(Csv(c.rows), p)
      BY <1>4 DEF SailMid, Second
    <2>3. s \in Instruction
      BY <2>1 DEF Legal
    <2>4. a \in Lines /\ a.kind = "reg" /\ a.rd = s.rd /\ Update(a) = Update(s)
      BY <2>3, LineFacts DEF Update
    <2> HIDE DEF a
    <2>5. line = a /\ Tail(l) = R[k]
      BY <2>1, <2>2, <2>4, HeadOf
    <2>6. /\ p \in Seq(Entries) /\ P(k) = Append(p, Written("sail", s))
          /\ Written("sail", s) \in Entries
          /\ Written("sail", s) = <<>> => Alike(P(k), p)
      BY <2>1, NextPart
    <2>7. CASE s.rd \in Xreg
      <3>1. Written("sail", s) = <<Update(s)>>
        BY <2>2, <2>7 DEF Written, Sees
      <3>2. r \in Row /\ r.gpr = Written("sail", s)
        BY <2>2, <2>6, <3>1 DEF Row, Op
      <3>3. WithReg(c.hand, line) = <<r>> /\ c.hand # <<>>
        BY <2>2, <2>4, <2>5, TakenWithReg
      <3>4. d = [c EXCEPT !.rows = c.rows \o <<r>>, !.hand = <<>>]
        <4> HIDE DEF line, r
        <4> QED BY <2>2, <2>4, <2>5, <2>7, <3>3 DEF SailLine
      <3> HIDE DEF r, p
      <3>5. c.rows \o <<r>> \in Seq(Row) /\ Alike(Csv(c.rows \o <<r>>), P(k))
        BY <1>0, <2>2, <2>6, <3>2, RowAdded
      <3>6. d \in Converter /\ d.on /\ ~d.over /\ d.rows = c.rows \o <<r>>
        BY <1>0, <2>2, <3>4, <3>5 DEF Converter, Hands
      <3> HIDE DEF d, u
      <3>7. SailAt(prog, Tail(l), d, k)
        BY <2>5, <3>5, <3>6 DEF SailAt
      <3> QED BY <2>1, <3>6, <3>7 DEF SailReading, u
    <2>8. CASE s.rd \notin Xreg
      <3>1. Written("sail", s) = <<>>
        BY <2>8 DEF Written, Sees
      <3>2. d = c
        <4> HIDE DEF line
        <4> QED BY <2>2, <2>4, <2>5, <2>8 DEF SailLine
      <3>3. Alike(Csv(c.rows), P(k))
        BY <2>2, <2>6, <3>1 DEF Alike
      <3> HIDE DEF d, u
      <3>4. SailAt(prog, Tail(l), d, k)
        BY <2>2, <2>5, <3>2, <3>3 DEF SailAt
      <3> QED BY <1>0, <2>1, <3>2, <3>4 DEF SailReading, u
    <2> QED BY <2>7, <2>8
  <1>5. CASE Done("sail", prog, c)
    <2>1. d = c
      BY <1>5 DEF Done, SailLine
    <2> QED BY <1>0, <1>5, <2>1 DEF SailReading
  <1> QED BY <1>2, <1>3, <1>4, <1>5 DEF SailReading

\* Sail's log is opened, and used up.
LEMMA SailBegins ==
    ASSUME NEW prog, Legal(prog)
    PROVE  SailReading(prog, LogOf("sail", prog), Start)
  <1> DEFINE R == Rest("sail", prog)
             l == LogOf("sail", prog)
  <1>1. l = Boot("sail") \o R[0] /\ R[0] \in Seq(Lines)
    BY LogIs, RestTypes
  <1> HIDE DEF R, l
  <1>2. Boot("sail") \o R[0] = <<BootLine("instr"), BootLine("reg")>> \o (<<BootLine("start")>> \o R[0])
    BY <1>1, BootFacts
  <1>3. Booting(l, R)
    BY <1>1, <1>2, Zenon DEF Booting
  <1>4. Start \in Converter /\ Start.on = FALSE /\ Start.over = FALSE /\ Start.rows = <<>>
    BY DEF Start, Converter, Hands
  <1> QED BY <1>3, <1>4 DEF SailReading, SailBoot, R, l

\* When Sail's log is used up, the trace of the whole body has been written.
LEMMA SailEnds ==
    ASSUME NEW prog, Legal(prog), NEW c, SailReading(prog, <<>>, c)
    PROVE  Csv(c.rows) \in Seq(Entries) /\ Alike(Csv(c.rows), Writes("sail", Body(prog)))
  <1> DEFINE R == Rest("sail", prog)
             t == Csv(c.rows)
  <1>1. t \in Seq(Entries)
    BY CsvType DEF SailReading, Converter
  <1>2. Alike(t, Part("sail", prog, Until(prog)))
    <2>1. CASE SailBoot(prog, <<>>, c)
      <3>1. R[0] \in Seq(Lines) /\ Booting(<<>>, R)
        BY <2>1, RestTypes DEF SailBoot
      <3> HIDE DEF R
      <3> QED BY <3>1, BootStep
    <2>2. ASSUME NEW k \in 0..Until(prog), SailAt(prog, <<>>, c, k)
          PROVE  Alike(t, Part("sail", prog, Until(prog)))
      <3>1. R[k] = <<>>
        BY <2>2 DEF SailAt
      <3>2. k = Until(prog)
        BY <3>1, RestEnds
      <3> QED BY <2>2, <3>2 DEF SailAt
    <2>3. ASSUME NEW k \in 1..Until(prog), SailMid(prog, <<>>, c, k)
          PROVE  FALSE
      <3> DEFINE a == Line("reg", prog[k])
                 x == R[k]
      <3>1. k \in 1..Len(prog) /\ k \in 0..Len(prog)
        BY UntilFacts
      <3>2. prog[k] \in Instruction /\ x \in Seq(Lines)
        BY <3>1, RestTypes DEF Legal
      <3>3. a \in Lines /\ <<>> = <<a>> \o x
        BY <2>3, <3>2, LineFacts DEF SailMid, Second
      <3> HIDE DEF R, a, x
      <3> DEFINE y == <<a>> \o x
      <3>4. Len(y) = 1 + Len(x) /\ Len(x) \in Nat /\ <<>> = y
        BY <3>2, <3>3
      <3> HIDE DEF y
      <3>5. Len(y) = 0
        BY <3>4
      <3> QED BY <3>4, <3>5
    <2>4. CASE Done("sail", prog, c)
      BY <2>4 DEF Done
    <2> QED BY <2>1, <2>2, <2>3, <2>4 DEF SailReading
  <1> QED BY <1>1, <1>2, PartBody

-----------------------------------------------------------------------------
(* Whisper *)

\* The state of Whisper's converter after the k-th instruction
WhisperAt(prog, l, c, k) ==
    /\ ~c.over /\ l = Rest("whisper", prog)[k]
    /\ Alike(Csv(c.rows), Part("whisper", prog, k))

WhisperReading(prog, l, c) ==
    /\ c \in Converter
    /\ \/ \E k \in 0..Until(prog) : WhisperAt(prog, l, c, k)
       \/ Done("whisper", prog, c)

\* The line Whisper prints of an instruction
LEMMA WhisperPrints ==
    ASSUME NEW prog, Legal(prog), NEW k \in 0..Len(prog), Rest("whisper", prog)[k] # <<>>
    PROVE  LET s == prog[k + 1]
               R == Rest("whisper", prog)
           IN  /\ k < Len(prog) /\ k + 1 \in 1..Len(prog) /\ (k + 1) - 1 = k
               /\ s \in Instruction
               /\ Head(R[k]) = (IF s.op = "set" THEN Line(IF s.rd \in Xreg THEN "r" ELSE "f", s)
                                ELSE Line("r", [s EXCEPT !.rd = "zero", !.val = 0]))
               /\ Tail(R[k]) = R[k + 1]
  <1> DEFINE s == prog[k + 1]
             R == Rest("whisper", prog)
             x == R[k + 1]
             a == IF s.op = "set" THEN Line(IF s.rd \in Xreg THEN "r" ELSE "f", s)
                  ELSE Line("r", [s EXCEPT !.rd = "zero", !.val = 0])
  <1>0. "whisper" \in {"spike", "ovpsim", "sail", "whisper"}
    OBVIOUS
  <1>1. k # Len(prog) /\ k < Len(prog)
    <2>1. R[Len(prog)] = <<>>
      BY <1>0, RestFacts
    <2>2. Len(prog) \in Nat
      BY DEF Legal
    <2> QED BY <2>1, <2>2
  <1>2. /\ k + 1 \in 1..Len(prog) /\ (k + 1) - 1 = k
        /\ s \in Instruction /\ Unrolled("whisper", prog, k) /\ x \in Seq(Lines)
    BY <1>0, <1>1, RestNext
  <1>3. Printed("whisper", s) = <<a>> /\ Printed("whisper", s) \in Seq(Lines)
    BY <1>0, <1>2, PrintedFacts
  <1>4. R[k] = Printed("whisper", s) \o x
    BY <1>2 DEF Unrolled
  <1> HIDE DEF a, x, R, s
  <1>5. a \in Lines
    <2>1. <<a>> \in Seq(Lines) /\ <<a>>[1] = a /\ Len(<<a>>) = 1
      BY <1>3
    <2> QED BY <2>1
  <1>6. Head(R[k]) = a /\ Tail(R[k]) = x
    <2>1. R[k] = <<a>> \o x
      BY <1>3, <1>4
    <2> QED BY <1>2, <1>5, <2>1, HeadOf
  <1> QED BY <1>1, <1>2, <1>6 DEF a, x, R, s

\* Reading a line of Whisper's log
LEMMA WhisperStep ==
    ASSUME NEW prog, Legal(prog), NEW l, l # <<>>, NEW c, WhisperReading(prog, l, c)
    PROVE  WhisperReading(prog, Tail(l), WhisperLine(c, Head(l)))
  <1> DEFINE line == Head(l)
             d == WhisperLine(c, line)
             R == Rest("whisper", prog)
             P(k) == Part("whisper", prog, k)
             u == Until(prog)
  <1>0. c \in Converter /\ c.rows \in Seq(Row)
    BY DEF WhisperReading, Converter
  <1>1. u \in 0..Len(prog) /\ Len(prog) \in Nat
    BY UntilFacts
  <1>2. ASSUME NEW k \in 0..u, WhisperAt(prog, l, c, k)
        PROVE  WhisperReading(prog, Tail(l), d)
    <2> DEFINE s == prog[k + 1]
               z == [s EXCEPT !.rd = "zero", !.val = 0]
    <2>1. /\ ~c.over /\ l = R[k] /\ R[k] # <<>>
          /\ Alike(Csv(c.rows), P(k)) /\ k \in 0..Len(prog)
      BY <1>1, <1>2 DEF WhisperAt
    <2>2. /\ k < Len(prog) /\ k + 1 \in 1..Len(prog) /\ (k + 1) - 1 = k
          /\ s \in Instruction
          /\ line = (IF s.op = "set" THEN Line(IF s.rd \in Xreg THEN "r" ELSE "f", s)
                     ELSE Line("r", z))
          /\ Tail(l) = R[k + 1]
      BY <2>1, WhisperPrints
    <2>3. /\ s.op # "ecall" => k + 1 \in 1..u /\ k + 1 \in 0..u
          /\ s.op = "ecall" => k = u /\ Ends(prog)
      BY <2>2, NextInBody
    <2>4. /\ P(k) \in Seq(Entries) /\ P(k + 1) = Append(P(k), Written("whisper", s))
          /\ Written("whisper", s) \in Entries
          /\ Written("whisper", s) = <<>> => Alike(P(k + 1), P(k))
      BY <2>2, NextPart
    <2>5. /\ "zero" \in Gpr /\ 0 \in Val /\ <<[rd |-> "zero", val |-> 0]>> \in Entries
          /\ Regs(P(k))["zero"] = 0
      BY <2>1, ZeroStays, LogsAssumption, EntriesAssumption
    <2>6. z \in Instruction /\ z.op = s.op /\ z.rd = "zero" /\ z.val = 0
      BY <2>2, <2>5 DEF Instruction
    <2>7. s.op \in Op
      BY <2>2 DEF Instruction, Op
    <2> HIDE DEF u, z
    <2>8. CASE s.op = "ecall"
      <3>1. line.op = "ecall"
        BY <2>2, <2>6, <2>8, LineFacts
      <3>2. d = [c EXCEPT !.over = TRUE]
        <4> HIDE DEF line
        <4> QED BY <2>1, <3>1 DEF WhisperLine
      <3>3. d \in Converter /\ d.over /\ d.rows = c.rows
        BY <1>0, <3>2 DEF Converter
      <3> HIDE DEF d
      <3>4. Done("whisper", prog, d)
        BY <2>1, <2>3, <2>8, <3>3 DEF Done, u
      <3> QED BY <3>3, <3>4 DEF WhisperReading
    <2>9. CASE s.op = "set" /\ s.rd \notin Xreg
      <3>1. line.op = "set" /\ line.kind = "f"
        BY <2>2, <2>9, LineFacts
      <3>2. d = c
        <4> HIDE DEF line
        <4> QED BY <2>1, <3>1 DEF WhisperLine
      <3>3. Written("whisper", s) = <<>>
        BY <2>9 DEF Written, Sees
      <3> HIDE DEF d
      <3>4. WhisperAt(prog, Tail(l), d, k + 1)
        BY <2>1, <2>2, <2>4, <3>2, <3>3 DEF WhisperAt, Alike
      <3> QED BY <1>0, <2>3, <2>9, <3>2, <3>4 DEF WhisperReading, u
    <2>10. CASE s.op # "ecall" /\ ~(s.op = "set" /\ s.rd \notin Xreg)
      <3> DEFINE g == <<Update(line)>>
                 r == [op |-> line.op, gpr |-> g]
      <3>1. line.kind = "r" /\ line.op = s.op /\ g \in Entries
        <4>1. CASE s.op = "set"
          <5>1. line = Line("r", s)
            BY <2>2, <2>10, <4>1
          <5>2. g = Written("whisper", s)
            BY <2>2, <2>10, <4>1, <5>1, LineFacts DEF Update, Written, Sees
          <5> QED BY <2>2, <2>4, <5>1, <5>2, LineFacts
        <4>2. CASE s.op # "set"
          <5>1. line = Line("r", z)
            BY <2>2, <4>2
          <5>2. g = <<[rd |-> "zero", val |-> 0]>>
            BY <2>6, <5>1, LineFacts DEF Update
          <5> QED BY <2>5, <2>6, <5>1, <5>2, LineFacts
        <4> QED BY <4>1, <4>2
      <3>2. /\ s.op = "set" => g = Written("whisper", s)
            /\ s.op # "set" => g = <<[rd |-> "zero", val |-> 0]>> /\ Written("whisper", s) = <<>>
        <4>1. CASE s.op = "set"
          <5>1. line = Line("r", s)
            BY <2>2, <2>10, <4>1
          <5>2. g = Written("whisper", s)
            BY <2>2, <2>10, <4>1, <5>1, LineFacts DEF Update, Written, Sees
          <5> QED BY <4>1, <5>2
        <4>2. CASE s.op # "set"
          <5>1. line = Line("r", z)
            BY <2>2, <4>2
          <5>2. g = <<[rd |-> "zero", val |-> 0]>>
            BY <2>6, <5>1, LineFacts DEF Update
          <5>3. Written("whisper", s) = <<>>
            BY <4>2 DEF Written
          <5> QED BY <4>2, <5>2, <5>3
        <4> QED BY <4>1, <4>2
      <3>3. r \in Row /\ r.gpr = g
        BY <2>7, <3>1 DEF Row
      <3>4. WithReg(Taken(line), line) = <<r>>
        BY TakenWithReg DEF Taken
      <3> HIDE DEF r, g
      <3>5. d = [c EXCEPT !.rows = c.rows \o <<r>>]
        <4> HIDE DEF line
        <4> QED BY <2>1, <2>10, <3>1, <3>4 DEF WhisperLine
      <3>6. /\ c.rows \o <<r>> \in Seq(Row)
            /\ Alike(Csv(c.rows \o <<r>>), Append(P(k), g))
            /\ After(Regs(P(k)), g) = Regs(P(k)) /\ ~Changes(Regs(P(k)), g) =>
                 Alike(Csv(c.rows \o <<r>>), P(k))
        <4> DEFINE p == P(k)
        <4>1. p \in Seq(Entries) /\ Alike(Csv(c.rows), p)
          BY <2>1, <2>4
        <4> HIDE DEF p
        <4>2. /\ c.rows \o <<r>> \in Seq(Row)
              /\ Alike(Csv(c.rows \o <<r>>), Append(p, g))
              /\ After(Regs(p), g) = Regs(p) /\ ~Changes(Regs(p), g) =>
                   Alike(Csv(c.rows \o <<r>>), p)
          BY <1>0, <3>3, <4>1, RowAdded
        <4> QED BY <4>2 DEF p
      <3>7. Alike(Csv(c.rows \o <<r>>), P(k + 1))
        <4>1. CASE s.op = "set"
          BY <2>4, <3>2, <3>6, <4>1
        <4>2. CASE s.op # "set"
          <5> DEFINE h == Regs(P(k))
          <5>1. h \in GprValues /\ h["zero"] = 0
            BY <2>4, <2>5, RegsType
          <5> HIDE DEF h
          <5>2. After(h, g) = [h EXCEPT !["zero"] = 0] /\ ~Changes(h, g)
            <6> DEFINE e == <<[rd |-> "zero", val |-> 0]>>
            <6>1. After(h, e) = [h EXCEPT !["zero"] = 0] /\ (Changes(h, e) <=> h["zero"] # 0)
              BY <2>5, <5>1, SingleUpdate
            <6>2. g = e
              BY <3>2, <4>2
            <6> HIDE DEF e
            <6> QED BY <5>1, <6>1, <6>2
          <5>3. After(h, g) = h
            BY <2>5, <5>1, <5>2 DEF GprValues
          <5>4. Alike(Csv(c.rows \o <<r>>), P(k))
            BY <3>6, <5>2, <5>3 DEF h
          <5> QED BY <2>4, <3>2, <4>2, <5>4 DEF Alike
        <4> QED BY <4>1, <4>2
      <3>8. d \in Converter /\ ~d.over /\ d.rows = c.rows \o <<r>>
        BY <1>0, <2>1, <3>5, <3>6 DEF Converter
      <3> HIDE DEF d
      <3>9. WhisperAt(prog, Tail(l), d, k + 1)
        BY <2>2, <3>7, <3>8 DEF WhisperAt
      <3> QED BY <2>3, <2>10, <3>8, <3>9 DEF WhisperReading, u
    <2> QED BY <2>8, <2>9, <2>10
  <1>3. CASE Done("whisper", prog, c)
    <2>1. d = c
      BY <1>3 DEF Done, WhisperLine
    <2> QED BY <1>0, <1>3, <2>1 DEF WhisperReading
  <1> QED BY <1>2, <1>3 DEF WhisperReading

\* Whisper's log is opened, and used up.
LEMMA WhisperBegins ==
    ASSUME NEW prog, Legal(prog)
    PROVE  WhisperReading(prog, LogOf("whisper", prog), Start)
  <1> DEFINE R == Rest("whisper", prog)
             l == LogOf("whisper", prog)
  <1>0. "whisper" \in {"spike", "ovpsim", "sail", "whisper"}
    OBVIOUS
  <1>1. l = Boot("whisper") \o R[0] /\ R[0] \in Seq(Lines) /\ 0 \in 0..Until(prog)
    BY <1>0, LogIs, RestTypes
  <1>2. Part("whisper", prog, 0) = <<>> /\ Csv(<<>>) = <<>>
    BY PartFacts DEF Csv
  <1>3. Start \in Converter /\ Start.over = FALSE /\ Start.rows = <<>>
    BY DEF Start, Converter, Hands
  <1> HIDE DEF R, l
  <1>4. l = R[0]
    BY <1>1, BootFacts
  <1>5. WhisperAt(prog, l, Start, 0)
    BY <1>2, <1>3, <1>4 DEF WhisperAt, Alike, R
  <1> QED BY <1>1, <1>3, <1>5 DEF WhisperReading, l

\* When Whisper's log is used up, the trace of the whole body has been written.
LEMMA WhisperEnds ==
    ASSUME NEW prog, Legal(prog), NEW c, WhisperReading(prog, <<>>, c)
    PROVE  Csv(c.rows) \in Seq(Entries) /\ Alike(Csv(c.rows), Writes("whisper", Body(prog)))
  <1> DEFINE t == Csv(c.rows)
  <1>1. t \in Seq(Entries)
    BY CsvType DEF WhisperReading, Converter
  <1>2. Alike(t, Part("whisper", prog, Until(prog)))
    <2>1. ASSUME NEW k \in 0..Until(prog), WhisperAt(prog, <<>>, c, k)
          PROVE  Alike(t, Part("whisper", prog, Until(prog)))
      <3>1. Rest("whisper", prog)[k] = <<>>
        BY <2>1 DEF WhisperAt
      <3>2. k = Until(prog)
        BY <3>1, RestEnds
      <3> QED BY <2>1, <3>2 DEF WhisperAt
    <2>2. CASE Done("whisper", prog, c)
      BY <2>2 DEF Done
    <2> QED BY <2>1, <2>2 DEF WhisperReading
  <1> QED BY <1>1, <1>2, PartBody

-----------------------------------------------------------------------------
(* Renode *)

\* What is left of a sequence behind its first j elements, a step further
LEMMA SuffixFacts ==
    ASSUME NEW X, NEW s \in Seq(X), NEW j \in Nat, j <= Len(s)
    PROVE  LET rest == SubSeq(s, j + 1, Len(s))
           IN  /\ rest \in Seq(X)
               /\ Len(rest) = Len(s) - j
               /\ j = Len(s) => rest = <<>>
               /\ j < Len(s) => /\ rest # <<>>
                                /\ Head(rest) = s[j + 1]
                                /\ Tail(rest) = SubSeq(s, (j + 1) + 1, Len(s))
  <1> DEFINE rest == SubSeq(s, j + 1, Len(s))
  <1>1. rest \in Seq(X) /\ Len(rest) = Len(s) - j
    OBVIOUS
  <1>2. j = Len(s) => rest = <<>>
    BY SubSeqEmpty
  <1>3. ASSUME j < Len(s)
        PROVE  /\ rest # <<>> /\ Head(rest) = s[j + 1]
               /\ Tail(rest) = SubSeq(s, (j + 1) + 1, Len(s))
    <2>1. j + 1 \in 1..Len(s) /\ Len(s) \in (j + 1)..Len(s)
      BY <1>3
    <2>2. Head(rest) = s[j + 1] /\ Tail(rest) = SubSeq(s, (j + 1) + 1, Len(s))
      BY <2>1, HeadTailOfSubSeq
    <2>3. rest # <<>>
      <3> HIDE DEF rest
      <3> QED BY <1>1, <1>3
    <2> QED BY <2>2, <2>3
  <1> QED BY <1>1, <1>2, <1>3

\* The one way to put a single element in a row
LEMMA OneInARow == ASSUME NEW x PROVE SetToSeq({x}) = <<x>>
  <1> DEFINE n == Cardinality({x})
             Good(f) == f \in [1..n -> {x}] /\ IsInjective(f)
  <1>1. n = 1
    BY FS_Singleton
  <1> HIDE DEF n
  <1>2. <<x>> \in [1..1 -> {x}] /\ IsInjective(<<x>>)
    BY DEF IsInjective
  <1>3. SetToSeq({x}) = CHOOSE f : Good(f)
    <2>1. SetToSeq({x}) = CHOOSE f \in [1..n -> {x}] : IsInjective(f)
      BY DEF SetToSeq, n
    <2> QED BY <2>1, Zenon
  <1>4. Good(SetToSeq({x}))
    <2>1. Good(<<x>>)
      BY <1>1, <1>2
    <2> HIDE DEF Good
    <2> QED BY <1>3, <2>1
  <1>5. SetToSeq({x}) \in [1..1 -> {x}]
    BY <1>1, <1>4
  <1>6. \A f \in [1..1 -> {x}] : f = <<x>>
    <2> SUFFICES ASSUME NEW f \in [1..1 -> {x}] PROVE f = <<x>>
      OBVIOUS
    <2>1. f \in Seq({x}) /\ Len(f) = 1 /\ f[1] = x
      OBVIOUS
    <2>2. <<x>> \in Seq({x}) /\ Len(<<x>>) = 1 /\ <<x>>[1] = x
      OBVIOUS
    <2>3. \A k \in 1..1 : f[k] = <<x>>[k]
      BY <2>1, <2>2
    <2> QED BY <2>1, <2>2, <2>3, SeqEqual
  <1> QED BY <1>5, <1>6

\* The registers Renode dumps are those of the trace.
Dumped(prog, k) == [r \in Xreg |-> Regs(Part("renode", prog, k))[r]]

\* A dump differs from the one before it by what the instruction wrote.
LEMMA DumpedStep ==
    ASSUME NEW prog, Legal(prog), NEW k \in 1..Len(prog)
    PROVE  /\ Dumped(prog, k) = Effect(Dumped(prog, k - 1), prog[k])
           /\ Dumped(prog, k - 1) \in [Xreg -> Val]
           /\ \A r \in Xreg : Dumped(prog, k - 1)[r] = Regs(Part("renode", prog, k - 1))[r]
  <1> DEFINE p == Part("renode", prog, k - 1)
             s == prog[k]
             q == Part("renode", prog, k)
             g == Regs(p)
             w == Written("renode", s)
  <1>1. p \in Seq(Entries) /\ q = Append(p, w) /\ w \in Entries /\ g \in GprValues
    BY NextPart, RegsType
  <1>2. s \in Instruction
    BY DEF Legal
  <1> HIDE DEF p, q, s
  <1>3. Regs(q) = After(g, w)
    BY <1>1, RegsAppend
  <1>4. g \in [Gpr -> Val] /\ Xreg \subseteq Gpr
    BY <1>1, LogsAssumption DEF GprValues
  <1>5. CASE s.op = "set" /\ s.rd \in Xreg
    <2>1. w = <<[rd |-> s.rd, val |-> s.val]>> /\ s.rd \in Gpr /\ s.val \in Val
      BY <1>2, <1>5 DEF Written, Sees, Update, Instruction
    <2>2. Regs(q) = [g EXCEPT ![s.rd] = s.val]
      <3> HIDE DEF w, g
      <3>1. After(g, <<[rd |-> s.rd, val |-> s.val]>>) = [g EXCEPT ![s.rd] = s.val]
        BY <1>1, <2>1, SingleUpdate
      <3> QED BY <1>3, <2>1, <3>1
    <2> HIDE DEF g
    <2>3. [r \in Xreg |-> Regs(q)[r]] = [[r \in Xreg |-> g[r]] EXCEPT ![s.rd] = s.val]
      BY <1>4, <1>5, <2>2
    <2> QED BY <1>4, <1>5, <2>3 DEF Dumped, Effect, g, p, q, s
  <1>6. CASE ~(s.op = "set" /\ s.rd \in Xreg)
    <2>1. w = <<>>
      BY <1>6 DEF Written, Sees
    <2>2. Regs(q) = g
      <3>1. PICK r \in Gpr, v \in Val : TRUE
        BY <1>2 DEF Instruction
      <3> HIDE DEF w, g
      <3>2. After(g, <<>>) = g
        BY <1>1, <3>1, SingleUpdate
      <3> QED BY <1>3, <2>1, <3>2
    <2> QED BY <1>4, <1>6, <2>2 DEF Dumped, Effect, p, q, s
  <1> QED BY <1>5, <1>6

\* A dump of the registers, and Renode's converter
Dump == [kind : {"ecall", "dump"}, regs : [Xreg -> Val]]

\* Renode's log is a dump for each instruction.
LEMMA DumpsFacts ==
    ASSUME NEW prog, Legal(prog)
    PROVE  /\ Dumps(prog) \in Seq(Dump) /\ Len(Dumps(prog)) = Len(prog)
           /\ \A k \in 1..Len(prog) :
                Dumps(prog)[k] = [kind |-> IF prog[k].op = "ecall" THEN "ecall" ELSE "dump",
                                  regs |-> Dumped(prog, k)]
           /\ Dumped(prog, 0) = [r \in Xreg |-> 0]
           /\ \A k \in 0..Len(prog) : Dumped(prog, k) \in [Xreg -> Val]
  <1> DEFINE n == Len(prog)
             zero == [r \in Xreg |-> 0]
             Eq(g) == g = [k \in 0..n |-> IF k = 0 THEN [r \in Xreg |-> 0] ELSE Effect(g[k - 1], prog[k])]
             f == [k \in 0..n |-> Dumped(prog, k)]
  <1>1. n \in Nat /\ \A k \in 1..n : k - 1 \in 0..n /\ k \in 0..n /\ k # 0
    <2>1. n \in Nat
      BY DEF Legal
    <2> HIDE DEF n
    <2> QED BY <2>1
  <1>2. Dumped(prog, 0) = zero
    <2>1. Part("renode", prog, 0) = <<>> /\ Regs(<<>>) = [r \in Gpr |-> 0]
      BY PartFacts, EmptyRegs
    <2> QED BY <2>1, LogsAssumption DEF Dumped
  <1>3. \A k \in 1..n : Dumped(prog, k) = Effect(Dumped(prog, k - 1), prog[k])
    BY DumpedStep
  <1>4. \A k \in 0..n : Dumped(prog, k) \in [Xreg -> Val]
    <2> SUFFICES ASSUME NEW k \in 0..n PROVE Dumped(prog, k) \in [Xreg -> Val]
      OBVIOUS
    <2>1. Regs(Part("renode", prog, k)) \in [Gpr -> Val]
      BY PartFacts, RegsType DEF GprValues
    <2> QED BY <2>1, LogsAssumption DEF Dumped
  <1>5. Eq(f)
    <2> HIDE DEF n
    <2>1. \A k \in 0..n : f[k] = IF k = 0 THEN zero ELSE Effect(f[k - 1], prog[k])
      <3> SUFFICES ASSUME NEW k \in 0..n
                   PROVE  f[k] = IF k = 0 THEN zero ELSE Effect(f[k - 1], prog[k])
        OBVIOUS
      <3>1. CASE k = 0
        BY <1>2, <3>1
      <3>2. CASE k # 0
        <4>1. k \in 1..n
          BY <1>1, <3>2
        <4>2. f[k - 1] = Dumped(prog, k - 1) /\ f[k] = Dumped(prog, k)
          BY <1>1, <4>1
        <4> QED BY <1>3, <3>2, <4>1, <4>2
      <3> QED BY <3>1, <3>2
    <2>2. f = [k \in 0..n |-> f[k]]
      OBVIOUS
    <2> HIDE DEF f
    <2> QED BY <2>1, <2>2
  <1> DEFINE h == CHOOSE g : Eq(g)
  <1>6. Eq(h)
    <2> HIDE DEF Eq, f
    <2> QED BY <1>5
  <1>7. \A k \in 0..n : h[k] = f[k]
    <2> DEFINE S == {k \in 0..n : h[k] = f[k]}
    <2> HIDE DEF n, h
    <2>0. f[0] = zero /\ \A k \in 1..n : f[k] = Effect(f[k - 1], prog[k])
      <3> HIDE DEF f
      <3> QED BY <1>1, <1>5
    <2>1. h[0] = zero /\ \A k \in 1..n : h[k] = Effect(h[k - 1], prog[k])
      BY <1>1, <1>6
    <2> HIDE DEF f, zero
    <2>2. 0 \in S
      BY <1>1, <2>0, <2>1
    <2>3. ASSUME NEW k \in 1..n, k - 1 \in S PROVE k \in S
      BY <1>1, <2>0, <2>1, <2>3
    <2> HIDE DEF S
    <2>4. 0..n \subseteq S
      BY <1>1, <2>2, <2>3, IntervalInduction
    <2> QED BY <2>4 DEF S
  <1>8. Dumps(prog) = [k \in 1..n |-> [kind |-> IF prog[k].op = "ecall" THEN "ecall" ELSE "dump",
                                       regs |-> h[k]]]
    BY DEF Dumps
  <1>9. \A k \in 1..n : h[k] = Dumped(prog, k)
    <2> HIDE DEF n, h
    <2> QED BY <1>1, <1>7
  <1> HIDE DEF h, n
  <1>10. /\ \A k \in 1..n : Dumps(prog)[k] = [kind |-> IF prog[k].op = "ecall" THEN "ecall" ELSE "dump",
                                              regs |-> Dumped(prog, k)]
         /\ Dumps(prog) \in [1..n -> Dump]
    BY <1>1, <1>4, <1>8, <1>9 DEF Dump
  <1>11. Dumps(prog) \in Seq(Dump) /\ Len(Dumps(prog)) = n
    BY <1>1, <1>10
  <1> QED BY <1>2, <1>4, <1>10, <1>11 DEF n

RConverter == [over : BOOLEAN, regs : [Xreg -> Val], rows : Seq(Row)]

\* The state of Renode's converter after the k-th instruction: it has the
\* registers of the last dump
RenodeAt(prog, l, c, k) ==
    /\ ~c.over /\ l = SubSeq(Dumps(prog), k + 1, Len(prog))
    /\ c.regs = Dumped(prog, k)
    /\ Alike(Csv(c.rows), Part("renode", prog, k))

RenodeReading(prog, l, c) ==
    /\ c \in RConverter
    /\ \/ \E k \in 0..Until(prog) : RenodeAt(prog, l, c, k)
       \/ Done("renode", prog, c)

\* Reading a line of Renode's log
LEMMA RenodeStep ==
    ASSUME NEW prog, Legal(prog), NEW l, l # <<>>, NEW c, RenodeReading(prog, l, c)
    PROVE  RenodeReading(prog, Tail(l), RenodeLine(c, Head(l)))
  <1> DEFINE line == Head(l)
             d == RenodeLine(c, line)
             P(k) == Part("renode", prog, k)
             u == Until(prog)
             D == Dumps(prog)
  <1>0. c \in RConverter /\ c.rows \in Seq(Row)
    BY DEF RenodeReading, RConverter
  <1>1. u \in 0..Len(prog) /\ Len(prog) \in Nat
    BY UntilFacts
  <1>2. ASSUME NEW k \in 0..u, RenodeAt(prog, l, c, k)
        PROVE  RenodeReading(prog, Tail(l), d)
    <2> DEFINE s == prog[k + 1]
               x == c.regs
               y == Dumped(prog, k + 1)
               g == <<Update(s)>>
               diff == {r \in Xreg : line.regs[r] # c.regs[r]}
               gpr == SetToSeq({[rd |-> r, val |-> line.regs[r]] : r \in diff})
               row == [op |-> "none", gpr |-> gpr]
    <2>1. /\ ~c.over /\ l = SubSeq(D, k + 1, Len(prog)) /\ x = Dumped(prog, k)
          /\ Alike(Csv(c.rows), P(k)) /\ k \in 0..Len(prog) /\ k \in Nat
      BY <1>1, <1>2 DEF RenodeAt
    <2>2. /\ D \in Seq(Dump) /\ Len(D) = Len(prog)
          /\ \A m \in 1..Len(prog) :
                D[m] = [kind |-> IF prog[m].op = "ecall" THEN "ecall" ELSE "dump",
                        regs |-> Dumped(prog, m)]
          /\ \A m \in 0..Len(prog) : Dumped(prog, m) \in [Xreg -> Val]
      BY DumpsFacts
    <2> HIDE DEF D
    <2>3. /\ k < Len(prog) /\ k + 1 \in 1..Len(prog) /\ k + 1 \in 0..Len(prog)
          /\ (k + 1) - 1 = k
          /\ line = D[k + 1] /\ Tail(l) = SubSeq(D, (k + 1) + 1, Len(prog))
      <3> DEFINE left == SubSeq(D, k + 1, Len(D))
      <3>1. k \in Nat /\ k <= Len(D) /\ Len(D) = Len(prog) /\ l = left
        BY <1>1, <2>1, <2>2
      <3>2. /\ k = Len(D) => left = <<>>
            /\ k < Len(D) => Head(left) = D[k + 1] /\ Tail(left) = SubSeq(D, (k + 1) + 1, Len(D))
        BY <2>2, <3>1, SuffixFacts
      <3> HIDE DEF left
      <3>3. k < Len(prog)
        BY <1>1, <3>1, <3>2
      <3>4. k + 1 \in 1..Len(prog) /\ k + 1 \in 0..Len(prog) /\ (k + 1) - 1 = k
        BY <1>1, <3>1, <3>3
      <3> QED BY <3>1, <3>2, <3>3, <3>4
    <2>4. /\ line.kind = (IF s.op = "ecall" THEN "ecall" ELSE "dump")
          /\ line.regs = y /\ y \in [Xreg -> Val] /\ x \in [Xreg -> Val]
      <3>1. line = [kind |-> IF s.op = "ecall" THEN "ecall" ELSE "dump", regs |-> y]
        BY <2>2, <2>3
      <3>2. y \in [Xreg -> Val] /\ x \in [Xreg -> Val]
        BY <2>1, <2>2, <2>3
      <3> QED BY <3>1, <3>2
    <2>5. s \in Instruction /\ s.op \in Op /\ s.rd \in Gpr /\ s.val \in Val
      <3>1. s \in Instruction
        BY <2>3 DEF Legal
      <3> QED BY <3>1 DEF Instruction, Op
    <2>6. /\ y = Effect(x, s) /\ \A r \in Xreg : x[r] = Regs(P(k))[r]
      <3>1. /\ Dumped(prog, k + 1) = Effect(Dumped(prog, (k + 1) - 1), prog[k + 1])
            /\ \A r \in Xreg : Dumped(prog, (k + 1) - 1)[r] = Regs(Part("renode", prog, (k + 1) - 1))[r]
        BY <2>3, DumpedStep
      <3> QED BY <2>1, <2>3, <3>1
    <2>7. /\ s.op # "ecall" => k + 1 \in 1..u /\ k + 1 \in 0..u
          /\ s.op = "ecall" => k = u /\ Ends(prog)
      BY <2>3, NextInBody
    <2>8. /\ P(k) \in Seq(Entries) /\ P(k + 1) = Append(P(k), Written("renode", s))
          /\ Written("renode", s) \in Entries
          /\ Written("renode", s) = <<>> => Alike(P(k + 1), P(k))
      BY <2>3, NextPart
    <2>9. Regs(P(k)) \in GprValues
      BY <2>8, RegsType
    <2> HIDE DEF u, y, s, line
    <2>10. CASE s.op = "ecall"
      <3>1. d = [c EXCEPT !.over = TRUE]
        BY <2>1, <2>4, <2>10 DEF RenodeLine
      <3>2. d \in RConverter /\ d.over /\ d.rows = c.rows
        BY <1>0, <3>1 DEF RConverter
      <3> HIDE DEF d
      <3>3. Done("renode", prog, d)
        BY <2>1, <2>7, <2>10, <3>2 DEF Done, u
      <3> QED BY <3>2, <3>3 DEF RenodeReading
    <2>11. CASE s.op # "ecall" /\ diff = {}
      <3>1. d = c
        BY <2>1, <2>4, <2>11 DEF RenodeLine
      <3>2. x = y
        <4>1. \A r \in Xreg : y[r] = x[r]
          BY <2>4, <2>11
        <4> HIDE DEF x
        <4> QED BY <2>4, <4>1
      <3>3. Alike(P(k + 1), P(k))
        <4>1. CASE s.op = "set" /\ s.rd \in Xreg
          <5> DEFINE h == Regs(P(k))
          <5>1. Written("renode", s) = g /\ g = <<[rd |-> s.rd, val |-> s.val]>>
            BY <4>1 DEF Written, Sees, Update
          <5>2. h[s.rd] = s.val
            <6>1. x[s.rd] = s.val
              <7> HIDE DEF x
              <7> QED BY <2>4, <2>6, <3>2, <4>1 DEF Effect
            <6> QED BY <2>6, <4>1, <6>1
          <5>3. h \in GprValues
            BY <2>9
          <5> HIDE DEF h, g
          <5>4. After(h, g) = h /\ ~Changes(h, g)
            <6> DEFINE e == <<[rd |-> s.rd, val |-> s.val]>>
            <6>1. After(h, e) = [h EXCEPT ![s.rd] = s.val] /\ (Changes(h, e) <=> h[s.rd] # s.val)
              BY <2>5, <5>3, SingleUpdate
            <6>2. [h EXCEPT ![s.rd] = s.val] = h
              BY <2>5, <5>2, <5>3 DEF GprValues
            <6>3. e = g
              BY <5>1
            <6> HIDE DEF e
            <6> QED BY <5>2, <6>1, <6>2, <6>3
          <5> DEFINE p == P(k)
          <5>5. p \in Seq(Entries) /\ g \in Entries /\ After(Regs(p), g) = Regs(p) /\ ~Changes(Regs(p), g)
            BY <2>8, <5>1, <5>4 DEF h
          <5> HIDE DEF p
          <5>6. Alike(Append(p, g), p)
            BY <5>5, AlikeQuiet
          <5> QED BY <2>8, <5>1, <5>6 DEF p
        <4>2. CASE ~(s.op = "set" /\ s.rd \in Xreg)
          BY <2>8, <4>2 DEF Written, Sees
        <4> QED BY <4>1, <4>2
      <3> HIDE DEF d
      <3>4. RenodeAt(prog, Tail(l), d, k + 1)
        BY <2>1, <2>3, <3>1, <3>2, <3>3 DEF RenodeAt, Alike, D, y
      <3> QED BY <1>0, <2>7, <2>11, <3>1, <3>4 DEF RenodeReading, u
    <2>12. CASE s.op # "ecall" /\ diff # {}
      <3>1. s.op = "set" /\ s.rd \in Xreg /\ x[s.rd] # s.val /\ y = [x EXCEPT ![s.rd] = s.val]
        <4>1. s.op = "set" /\ s.rd \in Xreg
          BY <2>4, <2>6, <2>12 DEF Effect
        <4>2. y = [x EXCEPT ![s.rd] = s.val]
          BY <2>6, <4>1 DEF Effect
        <4>3. x[s.rd] # s.val
          <5> SUFFICES ASSUME x[s.rd] = s.val PROVE FALSE
            OBVIOUS
          <5>1. y = x
            <6> HIDE DEF x
            <6> QED BY <2>4, <4>1, <4>2
          <5> QED BY <2>4, <2>12, <5>1
        <4> QED BY <4>1, <4>2, <4>3
      <3>2. diff = {s.rd}
        BY <2>4, <3>1
      <3>3. gpr = g
        <4>1. {[rd |-> r, val |-> line.regs[r]] : r \in diff} = {Update(s)}
          <5>1. line.regs[s.rd] = s.val
            BY <2>4, <3>1
          <5> HIDE DEF diff
          <5> QED BY <3>2, <5>1 DEF Update
        <4> QED BY <4>1, OneInARow
      <3>4. Written("renode", s) = g
        BY <3>1 DEF Written, Sees
      <3>5. d = [c EXCEPT !.regs = y, !.rows = Append(c.rows, row)]
        BY <2>1, <2>4, <2>12 DEF RenodeLine
      <3> HIDE DEF gpr
      <3>6. row \in Row /\ row.gpr = g
        <4>1. g \in Entries
          BY <2>8, <3>4
        <4> HIDE DEF g
        <4> QED BY <3>3, <4>1 DEF Row, Op
      <3> HIDE DEF row, g
      <3>7. Append(c.rows, row) = c.rows \o <<row>>
        BY <1>0, <3>6, AppendIsConcat
      <3>8. c.rows \o <<row>> \in Seq(Row) /\ Alike(Csv(c.rows \o <<row>>), P(k + 1))
        <4> DEFINE p == P(k)
        <4>1. p \in Seq(Entries) /\ Alike(Csv(c.rows), p)
          BY <2>1, <2>8
        <4> HIDE DEF p
        <4>2. c.rows \o <<row>> \in Seq(Row) /\ Alike(Csv(c.rows \o <<row>>), Append(p, row.gpr))
          BY <1>0, <3>6, <4>1, RowAdded
        <4> QED BY <2>8, <3>4, <3>6, <4>2 DEF p
      <3>9. d \in RConverter /\ ~d.over /\ d.regs = y /\ d.rows = c.rows \o <<row>>
        BY <1>0, <2>1, <2>4, <3>5, <3>7, <3>8 DEF RConverter
      <3> HIDE DEF d
      <3>10. RenodeAt(prog, Tail(l), d, k + 1)
        BY <2>3, <3>8, <3>9 DEF RenodeAt, D, y
      <3> QED BY <2>7, <2>12, <3>9, <3>10 DEF RenodeReading, u
    <2> QED BY <2>10, <2>11, <2>12
  <1>3. CASE Done("renode", prog, c)
    <2>1. d = c
      BY <1>3 DEF Done, RenodeLine
    <2> QED BY <1>0, <1>3, <2>1 DEF RenodeReading
  <1> QED BY <1>2, <1>3 DEF RenodeReading

\* Renode's log is opened, and used up.
LEMMA RenodeBegins ==
    ASSUME NEW prog, Legal(prog)
    PROVE  RenodeReading(prog, LogOf("renode", prog),
                         [over |-> FALSE, regs |-> [r \in Xreg |-> 0], rows |-> <<>>])
  <1> DEFINE c == [over |-> FALSE, regs |-> [r \in Xreg |-> 0], rows |-> <<>>]
             D == Dumps(prog)
  <1>1. /\ D \in Seq(Dump) /\ Len(D) = Len(prog)
        /\ Dumped(prog, 0) = [r \in Xreg |-> 0]
        /\ Until(prog) \in 0..Len(prog) /\ Len(prog) \in Nat
    BY DumpsFacts, UntilFacts
  <1>2. LogOf("renode", prog) = D
    BY DEF LogOf
  <1>3. Part("renode", prog, 0) = <<>> /\ Csv(<<>>) = <<>>
    BY PartFacts DEF Csv
  <1>4. c \in RConverter /\ c.over = FALSE /\ c.rows = <<>> /\ c.regs = Dumped(prog, 0)
    BY <1>1, EntriesAssumption DEF RConverter
  <1> HIDE DEF D, c
  <1>5. SubSeq(D, 0 + 1, Len(D)) = D
    BY <1>1
  <1>6. RenodeAt(prog, D, c, 0)
    BY <1>1, <1>3, <1>4, <1>5 DEF RenodeAt, Alike, D
  <1>7. 0 \in 0..Until(prog)
    BY <1>1
  <1>8. RenodeReading(prog, D, c)
    BY <1>4, <1>6, <1>7 DEF RenodeReading
  <1> QED BY <1>2, <1>8 DEF c

\* When Renode's log is used up, the trace of the whole body has been written.
LEMMA RenodeEnds ==
    ASSUME NEW prog, Legal(prog), NEW c, RenodeReading(prog, <<>>, c)
    PROVE  Csv(c.rows) \in Seq(Entries) /\ Alike(Csv(c.rows), Writes("renode", Body(prog)))
  <1> DEFINE t == Csv(c.rows)
  <1>1. t \in Seq(Entries)
    BY CsvType DEF RenodeReading, RConverter
  <1>2. Alike(t, Part("renode", prog, Until(prog)))
    <2>1. ASSUME NEW k \in 0..Until(prog), RenodeAt(prog, <<>>, c, k)
          PROVE  Alike(t, Part("renode", prog, Until(prog)))
      <3> DEFINE D == Dumps(prog)
      <3>1. /\ D \in Seq(Dump) /\ Len(D) = Len(prog)
            /\ Until(prog) \in 0..Len(prog) /\ Len(prog) \in Nat
        BY DumpsFacts, UntilFacts
      <3>2. SubSeq(D, k + 1, Len(prog)) = <<>>
        BY <2>1 DEF RenodeAt
      <3> HIDE DEF D
      <3>3. k \in Nat /\ k <= Len(D)
        BY <3>1
      <3>4. k = Len(prog)
        BY <3>1, <3>2, <3>3, SuffixFacts
      <3>5. k = Until(prog)
        BY <3>1, <3>4
      <3> QED BY <2>1, <3>5 DEF RenodeAt
    <2>2. CASE Done("renode", prog, c)
      BY <2>2 DEF Done
    <2> QED BY <2>1, <2>2 DEF RenodeReading
  <1> QED BY <1>1, <1>2, PartBody

-----------------------------------------------------------------------------
(* The conversion of two logs. *)

Simulators == {"spike", "ovpsim", "sail", "whisper", "renode"}

\* What has been read of a log, by the converter of its simulator
Reading(sim, prog, l, c) ==
    /\ sim = "spike" => SpikeReading(prog, l, c)
    /\ sim = "ovpsim" => OvpsimReading(prog, l, c)
    /\ sim = "sail" => SailReading(prog, l, c)
    /\ sim = "whisper" => WhisperReading(prog, l, c)
    /\ sim = "renode" => RenodeReading(prog, l, c)

\* An opened log is read from its beginning, whichever simulator printed it.
LEMMA ReadingBegins ==
    ASSUME NEW sim \in Simulators, NEW prog, Legal(prog)
    PROVE  Reading(sim, prog,
                   IF sim = "ovpsim" THEN UpToEcall(LogOf(sim, prog)) ELSE LogOf(sim, prog),
                   Beginning(sim))
  <1> DEFINE l == IF sim = "ovpsim" THEN UpToEcall(LogOf(sim, prog)) ELSE LogOf(sim, prog)
  <1>1. CASE sim = "spike"
    <2>1. l = LogOf("spike", prog) /\ Beginning(sim) = Start
      BY <1>1 DEF Beginning
    <2> QED BY <1>1, <2>1, SpikeBegins DEF Reading
  <1>2. CASE sim = "ovpsim"
    <2>1. l = UpToEcall(LogOf("ovpsim", prog)) /\ Beginning(sim) = Start
      BY <1>2 DEF Beginning
    <2> QED BY <1>2, <2>1, OvpsimBegins DEF Reading
  <1>3. CASE sim = "sail"
    <2>1. l = LogOf("sail", prog) /\ Beginning(sim) = Start
      BY <1>3 DEF Beginning
    <2> QED BY <1>3, <2>1, SailBegins DEF Reading
  <1>4. CASE sim = "whisper"
    <2>1. l = LogOf("whisper", prog) /\ Beginning(sim) = Start
      BY <1>4 DEF Beginning
    <2> QED BY <1>4, <2>1, WhisperBegins DEF Reading
  <1>5. CASE sim = "renode"
    <2>1. /\ l = LogOf("renode", prog)
          /\ Beginning(sim) = [over |-> FALSE, regs |-> [r \in Xreg |-> 0], rows |-> <<>>]
      BY <1>5 DEF Beginning
    <2> QED BY <1>5, <2>1, RenodeBegins DEF Reading
  <1> QED BY <1>1, <1>2, <1>3, <1>4, <1>5 DEF Simulators

\* A line read brings each converter one line further.
LEMMA ReadingStep ==
    ASSUME NEW sim \in Simulators, NEW prog, Legal(prog),
           log # <<>>, Reading(sim, prog, log, conv)
    PROVE  Reading(sim, prog, Tail(log), ReadWith(sim, Head(log)))
  <1> DEFINE line == Head(log)
  <1>1. CASE sim = "spike"
    <2>1. ReadWith(sim, line) = SpikeLine(conv, line)
      BY <1>1 DEF ReadWith
    <2> QED BY <1>1, <2>1, SpikeStep DEF Reading
  <1>2. CASE sim = "ovpsim"
    <2>1. ReadWith(sim, line) = OvpsimLine(conv, line)
      BY <1>2 DEF ReadWith
    <2> QED BY <1>2, <2>1, OvpsimStep DEF Reading
  <1>3. CASE sim = "sail"
    <2>1. ReadWith(sim, line) = SailLine(conv, line)
      BY <1>3 DEF ReadWith
    <2> QED BY <1>3, <2>1, SailStep DEF Reading
  <1>4. CASE sim = "whisper"
    <2>1. ReadWith(sim, line) = WhisperLine(conv, line)
      BY <1>4 DEF ReadWith
    <2> QED BY <1>4, <2>1, WhisperStep DEF Reading
  <1>5. CASE sim = "renode"
    <2>1. ReadWith(sim, line) = RenodeLine(conv, line)
      BY <1>5 DEF ReadWith
    <2> QED BY <1>5, <2>1, RenodeStep DEF Reading
  <1> QED BY <1>1, <1>2, <1>3, <1>4, <1>5 DEF Simulators

\* A log that is used up has become the trace of what was read of the program,
\* and a conversion is abandoned only when there was nothing to convert.
LEMMA ReadingEnds ==
    ASSUME NEW sim \in Simulators, NEW prog, Legal(prog), Reading(sim, prog, <<>>, conv)
    PROVE  /\ Csv(RowsOf(sim)) \in Seq(Entries)
           /\ Alike(Csv(RowsOf(sim)), Writes(sim, Read(sim, prog)))
           /\ NoInstructions(sim) => Len(Body(prog)) <= (IF Ends(prog) THEN 0 ELSE 1)
  <1>1. CASE sim = "spike"
    <2>1. RowsOf(sim) = conv.rows \o Kept(conv.hand) /\ ~NoInstructions(sim)
          /\ Read(sim, prog) = Body(prog)
      BY <1>1 DEF RowsOf, NoInstructions, Read
    <2>2. SpikeReading(prog, <<>>, conv)
      BY <1>1 DEF Reading
    <2> QED BY <1>1, <2>1, <2>2, SpikeEnds
  <1>2. CASE sim = "ovpsim"
    <2>1. RowsOf(sim) = conv.rows /\ (NoInstructions(sim) => conv.rows = <<>>)
      BY <1>2 DEF RowsOf, NoInstructions
    <2>2. OvpsimReading(prog, <<>>, conv)
      BY <1>2 DEF Reading
    <2>3. /\ Csv(conv.rows) \in Seq(Entries)
          /\ Csv(conv.rows) = Writes("ovpsim", Read("ovpsim", prog))
          /\ conv.rows = <<>> => Len(Body(prog)) <= (IF Ends(prog) THEN 0 ELSE 1)
      BY <2>2, OvpsimEnds
    <2>4. Alike(Csv(conv.rows), Writes("ovpsim", Read("ovpsim", prog)))
      BY <2>3 DEF Alike
    <2> QED BY <1>2, <2>1, <2>3, <2>4
  <1>3. CASE sim \in {"sail", "whisper", "renode"}
    <2>1. RowsOf(sim) = conv.rows /\ ~NoInstructions(sim) /\ Read(sim, prog) = Body(prog)
      BY <1>3 DEF RowsOf, NoInstructions, Read
    <2>2. /\ sim = "sail" => SailReading(prog, <<>>, conv)
          /\ sim = "whisper" => WhisperReading(prog, <<>>, conv)
          /\ sim = "renode" => RenodeReading(prog, <<>>, conv)
      BY <1>3 DEF Reading
    <2> QED BY <1>3, <2>1, <2>2, SailEnds, WhisperEnds, RenodeEnds
  <1> QED BY <1>1, <1>2, <1>3 DEF Simulators

\* What the conversions keep true: a log is read as far as its converter has
\* got, and what they have written is the trace of the program.
ConvInv ==
    /\ Convertible
    /\ stage \in {"log1", "log2", "compare", "fatal"}
    /\ sim1 = "none" => stage = "compare" /\ sim2 = "none"
    /\ sim1 # "none" => sim1 \in Simulators /\ sim2 \in Simulators /\ Legal(program)
    /\ opened => Converting /\ Reading(Sim, program, log, conv)
    /\ stage \in {"log2", "compare"} /\ sim1 # "none" =>
         Alike(trace1, Writes(sim1, Read(sim1, program)))
    /\ stage = "compare" /\ sim2 # "none" =>
         Alike(trace2, Writes(sim2, Read(sim2, program)))
    /\ stage = "fatal" => Len(Body(program)) <= (IF Ends(program) THEN 0 ELSE 1)

\* At first nothing has been converted.
LEMMA ConvInvInit == LogInit => ConvInv
  <1> SUFFICES ASSUME LogInit PROVE ConvInv
    OBVIOUS
  <1>1. Convertible /\ ~opened
    BY TracesAreSequences DEF LogInit, Init, Convertible
  <1>2. CASE stage = "compare" /\ sim1 = "none" /\ sim2 = "none"
    BY <1>1, <1>2 DEF ConvInv
  <1>3. CASE stage = "log1" /\ program \in Programs /\ sim1 \in Sims /\ sim2 \in Sims
    <2>1. Legal(program)
      BY <1>3, ProgramsLegal
    <2>2. sim1 \in Simulators /\ sim2 \in Simulators /\ sim1 # "none"
      BY <1>3, LogsAssumption DEF Simulators
    <2> QED BY <1>1, <1>3, <2>1, <2>2 DEF ConvInv
  <1> QED BY <1>2, <1>3 DEF LogInit

\* Opening a log, reading a line, writing a trace and giving up keep to it; the
\* comparison does not touch it.
LEMMA ConvInvStep == ConvInv /\ [LogNext]_<<vars, logVars>> => ConvInv'
  <1> SUFFICES ASSUME ConvInv, [LogNext]_<<vars, logVars>> PROVE ConvInv'
    OBVIOUS
  <1>0. Converting => sim1 # "none" /\ Sim \in Simulators /\ Legal(program)
                      /\ Sim = (IF stage = "log1" THEN sim1 ELSE sim2)
    BY DEF ConvInv, Converting, Sim
  <1>1. CASE OpenLog
    <2>1. /\ Converting /\ opened' = TRUE /\ log' = Open(Sim) /\ conv' = Beginning(Sim)
          /\ UNCHANGED <<trace1, trace2, program, sim1, sim2, stage>>
      BY <1>1 DEF OpenLog, vars
    <2>2. Reading(Sim, program, log', conv')
      <3>1. log' = IF Sim = "ovpsim" THEN UpToEcall(LogOf(Sim, program)) ELSE LogOf(Sim, program)
        BY <2>1 DEF Open
      <3> DEFINE sm == Sim
      <3>2. sm \in Simulators /\ Legal(program)
        BY <1>0, <2>1
      <3> HIDE DEF sm
      <3>3. Reading(sm, program,
                    IF sm = "ovpsim" THEN UpToEcall(LogOf(sm, program)) ELSE LogOf(sm, program),
                    Beginning(sm))
        BY <3>2, ReadingBegins
      <3> QED BY <2>1, <3>1, <3>3 DEF sm
    <2>3. Sim' = Sim /\ Converting'
      BY <2>1 DEF Sim, Converting
    <2>4. Reading(Sim', program', log', conv')
      BY <2>1, <2>2, <2>3
    <2> QED BY <2>1, <2>3, <2>4 DEF ConvInv, Convertible
  <1>2. CASE ReadLine
    <2>1. /\ opened /\ log # <<>> /\ conv' = ReadWith(Sim, Head(log)) /\ log' = Tail(log)
          /\ UNCHANGED <<trace1, trace2, program, sim1, sim2, stage, opened>>
      BY <1>2 DEF ReadLine, vars
    <2>2. Converting /\ Reading(Sim, program, log, conv)
      BY <2>1 DEF ConvInv
    <2>3. Reading(Sim, program, log', conv')
      BY <1>0, <2>1, <2>2, ReadingStep
    <2>4. Sim' = Sim /\ Converting'
      BY <2>1, <2>2 DEF Sim, Converting
    <2>5. Reading(Sim', program', log', conv')
      BY <2>1, <2>3, <2>4
    <2> QED BY <2>1, <2>4, <2>5 DEF ConvInv, Convertible
  <1>3. CASE WriteCsv
    <2>1. /\ opened /\ log = <<>> /\ opened' = FALSE
          /\ UNCHANGED <<program, sim1, sim2>>
          /\ \/ stage = "log1" /\ stage' = "log2" /\ trace1' = Csv(RowsOf(sim1)) /\ trace2' = trace2
             \/ stage = "log2" /\ stage' = "compare" /\ trace2' = Csv(RowsOf(sim2)) /\ trace1' = trace1
      BY <1>3 DEF WriteCsv
    <2>2. Converting /\ Reading(Sim, program, <<>>, conv)
      BY <2>1 DEF ConvInv
    <2>3. /\ Csv(RowsOf(Sim)) \in Seq(Entries)
          /\ Alike(Csv(RowsOf(Sim)), Writes(Sim, Read(Sim, program)))
      BY <1>0, <2>2, ReadingEnds
    <2>4. CASE stage = "log1"
      <3>1. Sim = sim1 /\ stage' = "log2" /\ trace1' = Csv(RowsOf(sim1)) /\ trace2' = trace2
        BY <2>1, <2>4 DEF Sim
      <3>2. Alike(trace1', Writes(sim1', Read(sim1', program')))
        BY <2>1, <2>3, <3>1
      <3> QED BY <1>0, <2>1, <2>2, <2>3, <3>1, <3>2 DEF ConvInv, Convertible
    <2>5. CASE stage = "log2"
      <3>1. Sim = sim2 /\ stage' = "compare" /\ trace2' = Csv(RowsOf(sim2)) /\ trace1' = trace1
        BY <2>1, <2>5 DEF Sim
      <3>2. Alike(trace2', Writes(sim2', Read(sim2', program')))
        BY <2>1, <2>3, <3>1
      <3>3. sim1 # "none" => Alike(trace1', Writes(sim1', Read(sim1', program')))
        BY <2>1, <2>5, <3>1 DEF ConvInv
      <3> QED BY <1>0, <2>1, <2>2, <2>3, <3>1, <3>2, <3>3 DEF ConvInv, Convertible
    <2> QED BY <2>1, <2>4, <2>5
  <1>4. CASE Abandon
    <2>1. /\ opened /\ log = <<>> /\ NoInstructions(Sim) /\ opened' = FALSE /\ stage' = "fatal"
          /\ UNCHANGED <<trace1, trace2, program, sim1, sim2>>
      BY <1>4 DEF Abandon, vars
    <2>2. Converting /\ Reading(Sim, program, <<>>, conv)
      BY <2>1 DEF ConvInv
    <2>3. Len(Body(program)) <= (IF Ends(program) THEN 0 ELSE 1)
      BY <1>0, <2>1, <2>2, ReadingEnds
    <2>4. Len(Body(program')) <= (IF Ends(program') THEN 0 ELSE 1)
      BY <2>1, <2>3
    <2> QED BY <1>0, <2>1, <2>2, <2>4 DEF ConvInv, Convertible
  <1>5. CASE CompareStep \/ UNCHANGED <<vars, logVars>>
    <2>1. UNCHANGED <<trace1, trace2, program, sim1, sim2, stage, opened, log, conv>>
      <3>1. CASE CompareStep
        <4>1. Next /\ UNCHANGED logVars
          BY <3>1 DEF CompareStep
        <4>2. UNCHANGED <<trace1, trace2>>
          BY <4>1 DEF Next, SkipEntry1, TakeEntry1, EndOfTrace1, SeekEntry2, Matches,
                      Mismatches, TailUnchanged, TailChanged, EndOfTrace2
        <4> QED BY <4>1, <4>2 DEF logVars
      <3> QED BY <1>5, <3>1 DEF vars, logVars
    <2>2. Sim' = Sim /\ Converting' = Converting
      BY <2>1 DEF Sim, Converting
    <2>3. opened' => Reading(Sim', program', log', conv')
      BY <2>1, <2>2 DEF ConvInv
    <2> QED BY <2>1, <2>2, <2>3 DEF ConvInv, Convertible
  <1> QED BY <1>1, <1>2, <1>3, <1>4, <1>5 DEF LogNext

\* Whatever the program and the two simulators, the converters keep to it: in
\* particular they write sequences of entries, which is what the comparison
\* takes.
THEOREM LogConvInductive == LogSpec => []ConvInv
  BY ConvInvInit, ConvInvStep, PTL DEF LogSpec

\* A converted trace has the register changes of the program up to its ecall,
\* all of them and in order; only OVPsim's loses the last instruction of a log
\* that was cut off.
THEOREM ConversionIsExact == LogSpec => []ConversionExact
  <1>1. ConvInv => ConversionExact
    BY DEF ConvInv, ConversionExact, Alike
  <1> QED BY <1>1, LogConvInductive, PTL

\* Two converters that see the same registers write the same of a program that
\* ends with an ecall.
LEMMA SameWrites ==
    ASSUME NEW prog, Legal(prog), Ends(prog), NEW s1 \in Simulators, NEW s2 \in Simulators,
           Sees(s1) = Sees(s2) \/ \A k \in 1..Len(prog) : prog[k].rd \in Xreg
    PROVE  Writes(s1, Read(s1, prog)) = Writes(s2, Read(s2, prog))
  <1>1. Read(s1, prog) = Body(prog) /\ Read(s2, prog) = Body(prog)
    BY DEF Read
  <1>2. ASSUME NEW k \in 1..Len(Body(prog))
        PROVE  Written(s1, Body(prog)[k]) = Written(s2, Body(prog)[k])
    <2>1. CASE Sees(s1) = Sees(s2)
      BY <2>1 DEF Written
    <2>2. CASE \A j \in 1..Len(prog) : prog[j].rd \in Xreg
      <3>1. Until(prog) \in 0..Len(prog) /\ Len(prog) \in Nat /\ Body(prog) = SubSeq(prog, 1, Until(prog))
            /\ prog \in Seq(Instruction)
        BY UntilFacts DEF Legal
      <3>2. k \in 1..Until(prog)
        BY DEF Until
      <3>3. Body(prog)[k] = prog[k] /\ k \in 1..Len(prog)
        BY <3>1, <3>2
      <3>4. Body(prog)[k].rd \in Xreg
        BY <2>2, <3>3
      <3>5. Xreg \subseteq Gpr
        BY LogsAssumption
      <3>6. Body(prog)[k].rd \in Sees(s1) /\ Body(prog)[k].rd \in Sees(s2)
        BY <3>4, <3>5 DEF Sees
      <3> QED BY <3>6 DEF Written
    <2> QED BY <2>1, <2>2
  <1> QED BY <1>1, <1>2 DEF Writes

-----------------------------------------------------------------------------
(* The logs: the comparison waits until both are converted. *)

\* At first nothing is compared.
LEMMA LInvInit == LogInit => LInv
  <1> SUFFICES ASSUME LogInit PROVE LInv
    OBVIOUS
  <1>1. Fresh /\ Convertible
    BY TracesAreSequences DEF LogInit, Init, Fresh, Convertible
  <1>2. stage \in {"log1", "log2", "compare", "fatal"} /\ ~opened
    BY DEF LogInit
  <1> QED BY <1>1, <1>2, FreshInv DEF LInv

\* What is not a step of the comparison leaves its state as it was, and gives
\* it its traces at most before it begins.
LEMMA LogStepCases ==
    ASSUME LInv, LogNext
    PROVE  \/ CompareStep
           \/ /\ UNCHANGED vars
              /\ stage' = stage \/ (stage \in {"log1", "log2"} /\ stage' = "fatal")
              /\ opened' => stage' \in {"log1", "log2"}
           \/ /\ stage \in {"log1", "log2"} /\ stage' \in {"log2", "compare"}
              /\ ~opened'
              /\ UNCHANGED <<index1, index2, gpr1, gpr2, change2, matched, mismatch,
                             phase, changes1, changes2>>
  BY DEF LogNext, OpenLog, ReadLine, WriteCsv, Abandon, Converting, LInv

\* Converting a log leaves a comparison that has not begun as it is.
LEMMA LInvStep ==
    LInv /\ Convertible' /\ [LogNext]_<<vars, logVars>> => LInv'
  <1> SUFFICES ASSUME LInv, Convertible', [LogNext]_<<vars, logVars>> PROVE LInv'
    OBVIOUS
  <1>1. Fresh' => VInv' /\ Counted'
    BY FreshInv, PTL
  <1>2. CASE LogNext
    <2>1. CASE CompareStep
      <3>1. stage = "compare" /\ Next /\ stage' = "compare" /\ opened' = opened
        BY <2>1 DEF CompareStep, logVars
      <3>2. VInv' /\ Counted'
        BY <3>1, VInvStep, CountedStep DEF LInv, VInv, CInv
      <3> QED BY <3>1, <3>2 DEF LInv
    <2>2. CASE /\ UNCHANGED vars
               /\ stage' = stage \/ (stage \in {"log1", "log2"} /\ stage' = "fatal")
               /\ opened' => stage' \in {"log1", "log2"}
      <3>1. VInv' /\ Counted'
        BY <2>2, VInvStutter DEF LInv
      <3>2. Fresh => Fresh'
        BY <2>2 DEF vars, Fresh
      <3> QED BY <2>2, <3>1, <3>2 DEF LInv
    <2>3. CASE /\ stage \in {"log1", "log2"} /\ stage' \in {"log2", "compare"}
               /\ ~opened'
               /\ UNCHANGED <<index1, index2, gpr1, gpr2, change2, matched, mismatch,
                              phase, changes1, changes2>>
      <3>1. Fresh'
        BY <2>3 DEF LInv, Fresh
      <3> QED BY <1>1, <2>3, <3>1 DEF LInv
    <2> QED BY <1>2, <2>1, <2>2, <2>3, LogStepCases
  <1>3. CASE UNCHANGED <<vars, logVars>>
    <2>1. UNCHANGED vars /\ stage' = stage /\ opened' = opened
      BY <1>3 DEF logVars
    <2>2. VInv' /\ Counted'
      BY <2>1, VInvStutter DEF LInv
    <2>3. Fresh => Fresh'
      BY <2>1 DEF vars, Fresh
    <2> QED BY <2>1, <2>2, <2>3 DEF LInv
  <1> QED BY <1>2, <1>3

\* The invariant of the comparison behind the conversion of two logs.
THEOREM LogInductive == LogSpec => []LInv
  <1>1. ConvInv => Convertible
    BY DEF ConvInv
  <1> QED BY <1>1, LogConvInductive, LInvInit, LInvStep, PTL DEF LogSpec

\* The same verdict, and the same pairing of the changes, for the traces that
\* the converters of run.py write.
THEOREM LogVerdict == LogSpec => [](PassedMatches /\ VerdictExact)
  <1>1. LInv => PassedMatches /\ VerdictExact
    BY PassedFromInv, VerdictFromInv DEF LInv, VInv
  <1> QED BY <1>1, LogInductive, PTL

\* No false alarm: two simulators that executed the same program, ending with
\* an ecall, and that print the same kinds of register pass the comparison,
\* whatever the logs look like.
THEOREM SameRunIsPassed == LogSpec => []SameRunPasses
  <1>1. ConvInv /\ LInv => SameRunPasses
    <2> SUFFICES ASSUME ConvInv, LInv, phase = "end", sim1 # "none", Ends(program),
                        Sees(sim1) = Sees(sim2)
                          \/ \A k \in 1..Len(program) : program[k].rd \in Xreg
                 PROVE  mismatch = 0
      BY DEF SameRunPasses
    <2>1. stage = "compare"
      BY DEF LInv, Fresh
    <2>2. /\ sim1 \in Simulators /\ sim2 \in Simulators /\ sim2 # "none"
          /\ Legal(program)
      BY DEF ConvInv, Simulators
    <2>3. Writes(sim1, Read(sim1, program)) = Writes(sim2, Read(sim2, program))
      BY <2>2, SameWrites
    <2>4. ChangesOf(trace1) = ChangesOf(trace2)
      BY <2>1, <2>2, <2>3 DEF ConvInv, Alike
    <2>5. VerdictExact
      BY VerdictFromInv DEF LInv
    <2> QED BY <2>4, <2>5 DEF VerdictExact
  <1> QED BY <1>1, LogConvInductive, LogInductive, PTL

-----------------------------------------------------------------------------
(* The pairing of AbstractCompare. *)

AbsState == CASE stage # "compare" -> "waiting"
              [] stage = "compare" /\ phase = "end" -> "over"
              [] OTHER -> "pairing"
Left1 == Left(trace1, Judged1)
Left2 == Left(trace2, Judged2)

PairingStep == Abstract!Next \/ UNCHANGED <<Left1, Left2, matched, mismatch, AbsState>>

\* Before the comparison there is nothing to pair off.
LEMMA LeftWaiting ==
    stage \in {"log1", "log2", "fatal"} /\ phase # "end" =>
        Left1 = <<>> /\ Left2 = <<>> /\ AbsState = "waiting"
  <1> SUFFICES ASSUME stage \in {"log1", "log2", "fatal"}, phase # "end"
               PROVE  Left1 = <<>> /\ Left2 = <<>> /\ AbsState = "waiting"
    OBVIOUS
  <1>1. Left1 = <<>> /\ Left2 = <<>>
    BY Zenon DEF Left, Left1, Left2
  <1>2. AbsState = "waiting"
    BY DEF AbsState
  <1> QED BY <1>1, <1>2

\* At first nothing is paired off.
LEMMA PairingInit == LogInit => Abstract!Init
  <1> SUFFICES ASSUME LogInit PROVE Abstract!Init
    OBVIOUS
  <1>1. LInv
    BY LInvInit
  <1>2. /\ trace1 \in Seq(Entries) /\ trace2 \in Seq(Entries)
        /\ matched = 0 /\ mismatch = 0 /\ phase = "next1"
        /\ changes1 = <<>> /\ changes2 = <<>>
    BY TracesAreSequences DEF LogInit, Init
  <1>3. Judged1 = 0 /\ Judged2 = 0
    BY <1>2 DEF Judged1, Judged2
  <1>4. ChangesOf(trace1) \in Seq(Entries) /\ ChangesOf(trace2) \in Seq(Entries)
    <2>1. 0 \in 0..Len(trace1) /\ 0 \in 0..Len(trace2)
      BY <1>2
    <2> QED BY <1>2, <2>1, ChangesGrow
  <1>5. CASE stage = "compare"
    <2>1. Left1 \in Seq(Entries) /\ Left2 \in Seq(Entries)
      <3> DEFINE c1 == ChangesOf(trace1)
                 c2 == ChangesOf(trace2)
      <3>1. Left1 = SubSeq(c1, 1, Len(c1)) /\ Left2 = SubSeq(c2, 1, Len(c2))
        BY <1>3, <1>5 DEF Left, Left1, Left2
      <3> HIDE DEF c1, c2
      <3> QED BY <1>4, <3>1 DEF c1, c2
    <2>2. AbsState = "pairing"
      BY <1>2, <1>5 DEF AbsState
    <2> QED BY <1>2, <2>1, <2>2 DEF Abstract!Init, Left1, Left2, AbsState
  <1>6. CASE stage = "log1"
    <2>1. Left1 = <<>> /\ Left2 = <<>> /\ AbsState = "waiting"
      BY <1>2, <1>6, LeftWaiting
    <2> QED BY <1>2, <2>1 DEF Abstract!Init, Left1, Left2, AbsState
  <1> QED BY <1>5, <1>6 DEF LogInit

\* What is left of a sequence behind its first j elements.
LEMMA RestOf ==
    ASSUME NEW s \in Seq(Entries), NEW j \in Nat, j <= Len(s)
    PROVE  LET rest == SubSeq(s, j + 1, Len(s))
           IN  /\ rest \in Seq(Entries)
               /\ Len(rest) = Len(s) - j
               /\ j = Len(s) => rest = <<>>
               /\ j < Len(s) => /\ rest # <<>>
                                /\ Head(rest) = s[j + 1]
                                /\ Tail(rest) = SubSeq(s, (j + 1) + 1, Len(s))
  BY SuffixFacts

\* What is left of both traces while they are compared.
LEMMA LeftFacts ==
    ASSUME LInv, stage = "compare", phase # "end"
    PROVE  LET c1 == ChangesOf(trace1)
               c2 == ChangesOf(trace2)
           IN  /\ c1 \in Seq(Entries) /\ c2 \in Seq(Entries)
               /\ Judged1 \in Nat /\ Judged2 \in Nat
               /\ Judged1 <= Len(changes1) /\ Judged2 <= Len(changes2)
               /\ Len(changes1) <= Len(c1) /\ Len(changes2) <= Len(c2)
               /\ index1 = Len(trace1) => c1 = changes1
               /\ index2 = Len(trace2) => c2 = changes2
               /\ Len(c2) <= Len(changes2) + (Len(trace2) - index2)
               /\ \A i \in 1..Len(changes1) : c1[i] = changes1[i]
               /\ \A i \in 1..Len(changes2) : c2[i] = changes2[i]
               /\ Left1 = SubSeq(c1, Judged1 + 1, Len(c1))
               /\ Left2 = SubSeq(c2, Judged2 + 1, Len(c2))
               /\ AbsState = "pairing"
  <1> DEFINE c1 == ChangesOf(trace1)
             c2 == ChangesOf(trace2)
  <1>1. /\ trace1 \in Seq(Entries) /\ trace2 \in Seq(Entries)
        /\ index1 \in 0..Len(trace1) /\ index2 \in 0..Len(trace2)
        /\ changes1 \in Seq(Entries) /\ changes2 \in Seq(Entries)
        /\ change2 \in BOOLEAN
    BY DEF LInv, VInv, CInv, Counters
  <1>2. changes1 = ChangesUpTo(trace1)[index1] /\ changes2 = ChangesUpTo(trace2)[index2]
    BY DEF LInv, VInv, Following
  <1>3. /\ c1 \in Seq(Entries) /\ Len(changes1) <= Len(c1)
        /\ \A i \in 1..Len(changes1) : c1[i] = changes1[i]
    BY <1>1, <1>2, ChangesGrow
  <1>4. /\ c2 \in Seq(Entries) /\ Len(changes2) <= Len(c2)
        /\ Len(c2) <= Len(changes2) + (Len(trace2) - index2)
        /\ \A i \in 1..Len(changes2) : c2[i] = changes2[i]
    BY <1>1, <1>2, ChangesGrow
  <1>5. (index1 = Len(trace1) => c1 = changes1) /\ (index2 = Len(trace2) => c2 = changes2)
    BY <1>1, <1>2, ChangesUpToFacts
  <1>6. phase = "seek2" => Len(changes1) > 0 /\ (change2 => Len(changes2) > 0)
    BY DEF LInv, VInv, InHand
  <1>7. /\ Judged1 \in Nat /\ Judged1 <= Len(changes1)
        /\ Judged2 \in Nat /\ Judged2 <= Len(changes2)
    BY <1>1, <1>6 DEF Judged1, Judged2
  <1>8. Left1 = SubSeq(c1, Judged1 + 1, Len(c1)) /\ Left2 = SubSeq(c2, Judged2 + 1, Len(c2))
    <2>1. ~(stage \in {"log1", "log2", "fatal"})
      OBVIOUS
    <2> QED BY <2>1, Zenon DEF Left, Left1, Left2
  <1>9. AbsState = "pairing"
    BY DEF AbsState
  <1> HIDE DEF c1, c2
  <1> QED BY <1>3, <1>4, <1>5, <1>7, <1>8, <1>9 DEF c1, c2

\* The reading of an entry, as long as it is judged later, changes nothing of
\* what is left.
LEMMA ReadsStutter ==
    ASSUME LInv, stage = "compare", stage' = stage,
           SkipEntry1 \/ TakeEntry1 \/ EndOfTrace1 \/ SeekEntry2 \/ TailUnchanged
    PROVE  UNCHANGED <<Left1, Left2, matched, mismatch, AbsState>>
  <1>1. /\ UNCHANGED <<trace1, trace2, matched, mismatch>>
        /\ phase # "end" /\ phase' # "end"
    BY DEF SkipEntry1, TakeEntry1, EndOfTrace1, SeekEntry2, TailUnchanged
  <1>2. changes1 \in Seq(Entries) /\ changes2 \in Seq(Entries)
    BY DEF LInv, VInv, CInv, Counters
  <1>3. Judged1' = Judged1 /\ Judged2' = Judged2
    <2>1. CASE SkipEntry1 \/ EndOfTrace1
      BY <2>1 DEF SkipEntry1, EndOfTrace1, Judged1, Judged2
    <2>2. CASE TakeEntry1
      <3> DEFINE e == trace1[index1 + 1]
      <3>1. /\ phase = "next1" /\ phase' = "seek2" /\ change2' = FALSE
            /\ changes1' = Append(changes1, e) /\ index1 < Len(trace1)
            /\ changes2' = changes2
        BY <2>2 DEF TakeEntry1
      <3>2. e \in Entries
        BY <3>1, ReadOfTrace1 DEF LInv, VInv, CInv
      <3> HIDE DEF e
      <3>3. Len(changes1') = Len(changes1) + 1
        BY <1>2, <3>1, <3>2, AppendFacts
      <3> QED BY <1>2, <3>1, <3>3 DEF Judged1, Judged2
    <2>3. CASE SeekEntry2
      <3> DEFINE e == trace2[index2 + 1]
      <3>1. /\ phase = "seek2" /\ phase' = "seek2" /\ ~change2 /\ ReadEntry2
            /\ changes1' = changes1
        BY <2>3 DEF SeekEntry2
      <3>2. e \in Entries /\ changes2' = IF change2' THEN Append(changes2, e) ELSE changes2
        BY <3>1, ReadOfTrace2 DEF LInv, VInv, CInv
      <3> HIDE DEF e
      <3>3. Len(changes2') = IF change2' THEN Len(changes2) + 1 ELSE Len(changes2)
        BY <1>2, <3>2, AppendFacts
      <3> QED BY <1>2, <3>1, <3>3 DEF Judged1, Judged2
    <2>4. CASE TailUnchanged
      BY <2>4 DEF TailUnchanged, ReadEntry2, Judged1, Judged2
    <2> QED BY <2>1, <2>2, <2>3, <2>4
  <1>4. Left1' = Left1 /\ Left2' = Left2
    BY <1>1, <1>3, Zenon DEF Left, Left1, Left2
  <1>5. AbsState' = AbsState
    BY <1>1 DEF AbsState
  <1> QED BY <1>1, <1>4, <1>5

\* A verdict about a change of trace 1 takes it, and the change it was
\* compared with, from what is left.
LEMMA JudgesPair ==
    ASSUME LInv, stage = "compare", stage' = stage, Matches \/ Mismatches
    PROVE  Abstract!Pair \/ Abstract!Missing
  <1> DEFINE c1 == ChangesOf(trace1)
             c2 == ChangesOf(trace2)
  <1>1. /\ phase = "seek2" /\ phase' \in {"next1", "tail2"}
        /\ UNCHANGED <<trace1, trace2, index1, index2, change2, changes1, changes2>>
    BY DEF Matches, Mismatches, AfterJudging
  <1>2. /\ trace1 \in Seq(Entries) /\ trace2 \in Seq(Entries)
        /\ changes1 \in Seq(Entries) /\ changes2 \in Seq(Entries)
        /\ change2 \in BOOLEAN
    BY DEF LInv, VInv, CInv, Counters
  <1>3. /\ Len(changes1) > 0 /\ changes1[Len(changes1)] = trace1[index1]
        /\ change2 => Len(changes2) > 0 /\ changes2[Len(changes2)] = trace2[index2]
    BY <1>1 DEF LInv, VInv, InHand
  <1>4. /\ c1 \in Seq(Entries) /\ c2 \in Seq(Entries)
        /\ Len(changes1) <= Len(c1) /\ Len(changes2) <= Len(c2)
        /\ index2 = Len(trace2) => c2 = changes2
        /\ \A i \in 1..Len(changes1) : c1[i] = changes1[i]
        /\ \A i \in 1..Len(changes2) : c2[i] = changes2[i]
        /\ Left1 = SubSeq(c1, Judged1 + 1, Len(c1))
        /\ Left2 = SubSeq(c2, Judged2 + 1, Len(c2))
        /\ AbsState = "pairing"
    BY <1>1, LeftFacts
  <1>5. /\ Left1' = SubSeq(c1, Judged1' + 1, Len(c1))
        /\ Left2' = SubSeq(c2, Judged2' + 1, Len(c2))
    <2>1. ~(stage' \in {"log1", "log2", "fatal"})
      OBVIOUS
    <2> QED BY <1>1, <2>1, Zenon DEF Left, Left1, Left2
  <1>6. AbsState' = AbsState
    BY <1>1, <1>4 DEF AbsState
  <1>7. Judged1 = Len(changes1) - 1 /\ Judged1' = Judged1 + 1
    BY <1>1, <1>2 DEF Judged1
  <1> HIDE DEF c1, c2
  <1>8. /\ Left1 # <<>> /\ Left1' = Tail(Left1)
        /\ Head(Left1) = trace1[index1]
    <2>1. Judged1 \in Nat /\ Judged1 < Len(c1) /\ c1[Judged1 + 1] = trace1[index1]
      BY <1>2, <1>3, <1>4, <1>7
    <2> DEFINE rest == SubSeq(c1, Judged1 + 1, Len(c1))
    <2>2. /\ rest # <<>> /\ Head(rest) = c1[Judged1 + 1]
          /\ Tail(rest) = SubSeq(c1, (Judged1 + 1) + 1, Len(c1))
      BY <1>4, <2>1, RestOf
    <2>3. Left1 = rest /\ Left1' = SubSeq(c1, (Judged1 + 1) + 1, Len(c1))
      BY <1>4, <1>5, <1>7
    <2> HIDE DEF rest
    <2> QED BY <2>1, <2>2, <2>3
  <1>9. CASE change2
    <2>1. Judged2 = Len(changes2) - 1 /\ Judged2' = Judged2 + 1
      BY <1>1, <1>2, <1>9 DEF Judged2
    <2>2. Judged2 \in Nat /\ Judged2 < Len(c2) /\ c2[Judged2 + 1] = trace2[index2]
      BY <1>2, <1>3, <1>4, <1>9, <2>1
    <2>3. /\ Left2 # <<>> /\ Left2' = Tail(Left2)
          /\ Head(Left2) = trace2[index2]
      <3> DEFINE rest == SubSeq(c2, Judged2 + 1, Len(c2))
      <3>1. /\ rest # <<>> /\ Head(rest) = c2[Judged2 + 1]
            /\ Tail(rest) = SubSeq(c2, (Judged2 + 1) + 1, Len(c2))
        BY <1>4, <2>2, RestOf
      <3>2. Left2 = rest /\ Left2' = SubSeq(c2, (Judged2 + 1) + 1, Len(c2))
        BY <1>4, <1>5, <2>1
      <3> HIDE DEF rest
      <3> QED BY <2>2, <3>1, <3>2
    <2>4. \/ Head(Left1) = Head(Left2) /\ matched' = matched + 1 /\ UNCHANGED mismatch
          \/ Head(Left1) # Head(Left2) /\ mismatch' = mismatch + 1 /\ UNCHANGED matched
      BY <1>8, <1>9, <2>3 DEF Matches, Mismatches, Same
    <2> QED BY <1>4, <1>6, <1>8, <2>3, <2>4 DEF Abstract!Pair, Left1, Left2, AbsState
  <1>10. CASE ~change2
    <2>1. Judged2 = Len(changes2) /\ Judged2' = Judged2
      BY <1>1, <1>2, <1>10 DEF Judged2
    <2>2. /\ index2 = Len(trace2)
          /\ mismatch' = mismatch + 1 /\ UNCHANGED matched
      BY <1>10 DEF Matches, Mismatches
    <2>3. Left2 = <<>> /\ Left2' = Left2
      <3>1. Judged2 \in Nat /\ Judged2 = Len(c2)
        BY <1>2, <1>4, <2>1, <2>2
      <3> QED BY <1>4, <1>5, <2>1, <3>1, RestOf
    <2> QED BY <1>4, <1>6, <1>8, <2>2, <2>3 DEF Abstract!Missing, Left1, Left2, AbsState
  <1> QED BY <1>9, <1>10

\* A change of trace 2 behind the end of trace 1: all that is left of trace 2
\* is counted, at least once for each change in it.
LEMMA TailIsExtra ==
    ASSUME LInv, stage = "compare", stage' = stage, TailChanged
    PROVE  Abstract!Extra
  <1> DEFINE c1 == ChangesOf(trace1)
             c2 == ChangesOf(trace2)
  <1>1. /\ phase = "tail2" /\ phase' = "end" /\ ReadEntry2 /\ change2'
        /\ index2 < Len(trace2)
        /\ mismatch' = mismatch + Len(trace2) - index2
        /\ UNCHANGED <<trace1, trace2, index1, matched, changes1>>
    BY DEF TailChanged, ReadEntry2
  <1>2. /\ index2 \in 0..Len(trace2) /\ Len(trace2) \in Nat
        /\ changes1 \in Seq(Entries) /\ changes2 \in Seq(Entries) /\ mismatch \in Nat
    BY DEF LInv, VInv, CInv, Counters
  <1>3. index1 = Len(trace1)
    BY <1>1, <1>2 DEF LInv, VInv, InHand
  <1>4. /\ c1 \in Seq(Entries) /\ c2 \in Seq(Entries) /\ c1 = changes1
        /\ Len(c2) <= Len(changes2) + (Len(trace2) - index2)
        /\ Left1 = SubSeq(c1, Judged1 + 1, Len(c1))
        /\ Left2 = SubSeq(c2, Judged2 + 1, Len(c2))
        /\ AbsState = "pairing"
    BY <1>1, <1>3, LeftFacts
  <1>5. /\ Judged1 = Len(changes1) /\ Judged1' = Len(changes1)
        /\ Judged2 = Len(changes2)
    BY <1>1, <1>2 DEF Judged1, Judged2
  <1>6. Len(c2) >= Len(changes2) + 1
    BY <1>1, ReadOfTrace2 DEF LInv, VInv, CInv
  <1>7. Left1' = Left1
    BY <1>1, <1>5, Zenon DEF Left, Left1
  <1>8. AbsState' = "over"
    BY <1>1 DEF AbsState
  <1> HIDE DEF c1, c2
  <1>9. Left1 = <<>>
    BY <1>2, <1>4, <1>5, RestOf
  <1>10. Left2 # <<>> /\ Len(Left2) = Len(c2) - Len(changes2)
    <2> DEFINE rest == SubSeq(c2, Judged2 + 1, Len(c2))
    <2>1. Judged2 \in Nat /\ Judged2 < Len(c2)
      BY <1>2, <1>4, <1>5, <1>6
    <2>2. rest # <<>> /\ Len(rest) = Len(c2) - Judged2
      BY <1>4, <2>1, RestOf
    <2>3. Left2 = rest
      BY <1>4
    <2> HIDE DEF rest
    <2> QED BY <1>5, <2>2, <2>3
  <1>11. mismatch' >= mismatch + Len(Left2)
    <2>1. Len(c2) \in Nat /\ Len(changes2) \in Nat
      BY <1>2, <1>4
    <2>2. /\ index2 \in Nat /\ Len(trace2) \in Nat /\ mismatch \in Nat
          /\ Len(c2) <= Len(changes2) + (Len(trace2) - index2)
          /\ mismatch' = mismatch + Len(trace2) - index2
          /\ Len(Left2) = Len(c2) - Len(changes2)
      <3>1. index2 \in Nat /\ Len(trace2) \in Nat /\ mismatch \in Nat
        BY <1>2
      <3>2. Len(c2) <= Len(changes2) + (Len(trace2) - index2)
        BY <1>4
      <3>3. mismatch' = mismatch + Len(trace2) - index2
        BY <1>1
      <3>4. Len(Left2) = Len(c2) - Len(changes2)
        BY <1>10
      <3> QED BY <3>1, <3>2, <3>3, <3>4
    <2>3. ASSUME NEW n \in Nat, NEW c \in Nat, NEW d \in Nat, NEW i \in Nat,
                 NEW m \in Nat, c <= d + (n - i)
          PROVE  m + n - i >= m + (c - d)
      BY <2>3
    <2> QED BY <2>1, <2>2, <2>3
  <1> QED BY <1>1, <1>4, <1>7, <1>8, <1>9, <1>10, <1>11
          DEF Abstract!Extra, Left1, Left2, AbsState

\* Trace 2 is used up.
LEMMA EndIsFinish ==
    ASSUME LInv, stage = "compare", stage' = stage, EndOfTrace2
    PROVE  Abstract!Finish
  <1> DEFINE c2 == ChangesOf(trace2)
  <1>1. /\ phase = "tail2" /\ phase' = "end" /\ index2 = Len(trace2)
        /\ UNCHANGED <<trace1, trace2, matched, mismatch, changes1, changes2>>
    BY DEF EndOfTrace2
  <1>2. changes2 \in Seq(Entries)
    BY DEF LInv, VInv, CInv, Counters
  <1>3. /\ c2 = changes2 /\ Left2 = SubSeq(c2, Judged2 + 1, Len(c2))
        /\ AbsState = "pairing"
    BY <1>1, LeftFacts
  <1>4. Judged1' = Judged1 /\ Judged2' = Judged2 /\ Judged2 = Len(changes2)
    BY <1>1, <1>2 DEF Judged1, Judged2
  <1>5. Left1' = Left1 /\ Left2' = Left2
    BY <1>1, <1>4, Zenon DEF Left, Left1, Left2
  <1>6. AbsState' = "over"
    BY <1>1 DEF AbsState
  <1> HIDE DEF c2
  <1>7. Left2 = <<>>
    BY <1>2, <1>3, <1>4, RestOf
  <1> QED BY <1>1, <1>3, <1>5, <1>6, <1>7 DEF Abstract!Finish, Left1, Left2, AbsState

\* The second trace is there: both sides get their changes.
LEMMA WriteGives ==
    ASSUME LInv, Convertible', stage \in {"log1", "log2"}, stage' = "compare",
           UNCHANGED <<matched, mismatch, phase, change2, changes1, changes2>>
    PROVE  Abstract!Give
  <1> DEFINE c1 == ChangesOf(trace1')
             c2 == ChangesOf(trace2')
  <1>1. /\ phase = "next1" /\ changes1 = <<>> /\ changes2 = <<>>
    BY DEF LInv, Fresh
  <1>2. AbsState = "waiting" /\ AbsState' = "pairing"
    <2>1. AbsState = "waiting"
      BY <1>1, LeftWaiting
    <2>2. AbsState' = "pairing"
      BY <1>1 DEF AbsState
    <2> QED BY <2>1, <2>2
  <1>3. Judged1' = 0 /\ Judged2' = 0
    BY <1>1 DEF Judged1, Judged2
  <1>4. Left1' = SubSeq(c1, 0 + 1, Len(c1)) /\ Left2' = SubSeq(c2, 0 + 1, Len(c2))
    <2>1. ~(stage' \in {"log1", "log2", "fatal"})
      OBVIOUS
    <2> QED BY <1>3, <2>1, Zenon DEF Left, Left1, Left2
  <1>5. c1 \in Seq(Entries) /\ c2 \in Seq(Entries)
    <2>1. /\ trace1' \in Seq(Entries) /\ trace2' \in Seq(Entries)
          /\ 0 \in 0..Len(trace1') /\ 0 \in 0..Len(trace2')
      BY DEF Convertible
    <2> QED BY <2>1, ChangesGrow
  <1> HIDE DEF c1, c2
  <1>6. Left1' \in Seq(Entries) /\ Left2' \in Seq(Entries)
    BY <1>4, <1>5, RestOf
  <1> QED BY <1>2, <1>6 DEF Abstract!Give, Left1, Left2, AbsState

\* Every step of the conversion and of the comparison is a step of the
\* pairing or changes nothing it sees.
LEMMA PairingSteps ==
    LInv /\ Convertible' /\ [LogNext]_<<vars, logVars>> => PairingStep
  <1> SUFFICES ASSUME LInv, Convertible', [LogNext]_<<vars, logVars>> PROVE PairingStep
    OBVIOUS
  <1>0. stage # "compare" => phase = "next1"
    BY DEF LInv, Fresh
  <1>1. CASE CompareStep
    <2>1. stage = "compare" /\ stage' = stage /\ Next
      BY <1>1 DEF CompareStep, logVars
    <2>2. CASE SkipEntry1 \/ TakeEntry1 \/ EndOfTrace1 \/ SeekEntry2 \/ TailUnchanged
      BY <2>1, <2>2, ReadsStutter DEF PairingStep
    <2>3. CASE Matches \/ Mismatches
      BY <2>1, <2>3, JudgesPair DEF PairingStep, Abstract!Next
    <2>4. CASE TailChanged
      BY <2>1, <2>4, TailIsExtra DEF PairingStep, Abstract!Next
    <2>5. CASE EndOfTrace2
      BY <2>1, <2>5, EndIsFinish DEF PairingStep, Abstract!Next
    <2> QED BY <2>1, <2>2, <2>3, <2>4, <2>5 DEF Next
  <1>2. ASSUME UNCHANGED vars,
               stage' = stage \/ (stage \in {"log1", "log2"} /\ stage' = "fatal")
        PROVE  PairingStep
    <2>1. /\ UNCHANGED <<trace1, trace2, phase, change2, changes1, changes2,
                         matched, mismatch>>
      BY <1>2 DEF vars
    <2>2. CASE stage' = stage
      <3>1. Judged1' = Judged1 /\ Judged2' = Judged2
        BY <2>1 DEF Judged1, Judged2
      <3>2. Left1' = Left1 /\ Left2' = Left2
        BY <2>1, <2>2, <3>1, Zenon DEF Left, Left1, Left2
      <3>3. AbsState' = AbsState
        BY <2>1, <2>2 DEF AbsState
      <3> QED BY <2>1, <3>2, <3>3 DEF PairingStep
    <2>3. CASE stage \in {"log1", "log2"} /\ stage' = "fatal"
      <3>1. phase = "next1" /\ phase' = "next1"
        BY <1>0, <2>1, <2>3
      <3>2. Left1 = <<>> /\ Left2 = <<>> /\ AbsState = "waiting"
        BY <2>3, <3>1, LeftWaiting
      <3>3. Left1' = <<>> /\ Left2' = <<>>
        BY <2>3, Zenon DEF Left, Left1, Left2
      <3>4. AbsState' = "waiting"
        BY <2>3, <3>1 DEF AbsState
      <3> QED BY <2>1, <3>2, <3>3, <3>4 DEF PairingStep
    <2> QED BY <1>2, <2>2, <2>3
  <1>3. CASE /\ stage \in {"log1", "log2"} /\ stage' \in {"log2", "compare"}
             /\ UNCHANGED <<index1, index2, gpr1, gpr2, change2, matched, mismatch,
                            phase, changes1, changes2>>
    <2>1. CASE stage' = "compare"
      BY <1>3, <2>1, WriteGives DEF PairingStep, Abstract!Next
    <2>2. CASE stage' = "log2"
      <3>1. phase = "next1" /\ phase' = "next1"
        BY <1>0, <1>3
      <3>2. Left1 = <<>> /\ Left2 = <<>> /\ AbsState = "waiting"
        BY <1>3, <3>1, LeftWaiting
      <3>3. Left1' = <<>> /\ Left2' = <<>>
        BY <2>2, Zenon DEF Left, Left1, Left2
      <3>4. AbsState' = "waiting"
        BY <2>2, <3>1 DEF AbsState
      <3> QED BY <1>3, <3>2, <3>3, <3>4 DEF PairingStep
    <2> QED BY <1>3, <2>1, <2>2
  <1>4. CASE LogNext
    BY <1>1, <1>2, <1>3, <1>4, LogStepCases
  <1>5. CASE UNCHANGED <<vars, logVars>>
    <2>1. UNCHANGED vars /\ stage' = stage
      BY <1>5 DEF logVars
    <2> QED BY <1>2, <2>1
  <1> QED BY <1>4, <1>5

\* compare_trace_csv behind the converters implements AbstractCompare: each
\* change of either trace is judged once, in order, against the change of the
\* other trace at the same place.
THEOREM ComparePairs == LogSpec => Pairing
  <1>1. PairingStep => [Abstract!Next]_(Abstract!vars)
    BY DEF PairingStep, Left1, Left2, AbsState, Abstract!vars
  <1>2. ConvInv => Convertible
    BY DEF ConvInv
  <1> QED BY <1>1, <1>2, PairingInit, LogConvInductive, LogInductive, PairingSteps, PTL
          DEF LogSpec, Pairing, Abstract!Spec
=============================================================================
