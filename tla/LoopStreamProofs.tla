-------------------------- MODULE LoopStreamProofs --------------------------
(***************************************************************************)
(* The order of what is mixed: mix_instr_stream keeps the order of an      *)
(* uncontained list of any length in any number of random instructions,    *)
(* and every loop is whole wherever the positions fall.                    *)
(***************************************************************************)
EXTENDS LoopStream, RecursionLemmas, FiniteSetTheorems, SequenceTheorems

(* The inductive invariant.                                                *)

N == Len(new_instr)

\* The lists and counters
Shape ==
    /\ instr_list \in Seq(Instr) /\ new_instr \in Seq(Instr)
    /\ \A k \in DOMAIN new_instr : IsNew(new_instr[k])
    /\ contained \in BOOLEAN /\ sealed \in BOOLEAN
    /\ i \in 0..N /\ N > 0
    /\ OldCnt \in Nat /\ at \in -1 .. OldCnt /\ (at = -1 => i = N) /\ (i = 0 => at = 0)
    /\ sealed => Mixed

\* Behind the last position drawn there are random instructions only.
RandomBehind ==
    ~contained => \A k \in DOMAIN instr_list : IsNew(instr_list[k]) => k <= at + i

\* Only the last two new instructions of a contained mix may have changed places.
MaySwap(a, b) == contained /\ b = N /\ a = N - 1

\* place[a]: where the a-th new instruction stands
IsPlacing(place) ==
    /\ place \in [1..i -> DOMAIN instr_list]
    /\ \A a \in 1..i : Name(instr_list[place[a]]) = Name(new_instr[a])
    /\ \A k \in DOMAIN instr_list : IsNew(instr_list[k]) => \E a \in 1..i : place[a] = k
    /\ \A a, b \in 1..i : a < b => place[a] < place[b] \/ MaySwap(a, b)
    /\ i < N => \A a \in 1..i : place[a] <= at + i

\* A stream of loops is one of those build_loop_instr_stream makes.
FromLoops ==
    (\E k \in DOMAIN new_instr : new_instr[k].role = "target")
        => \E n \in 1..MaxNested : new_instr = LoopInstr[n]

MixInv ==
    /\ Shape /\ RandomBehind /\ UncontainedOrder
    /\ (\E place : IsPlacing(place)) /\ FromLoops

-----------------------------------------------------------------------------
(* Insertion *)

\* x stands at position p of the list that was.
Put(p, x) ==
    /\ p \in 1 .. Len(instr_list) + 1
    /\ instr_list' \in Seq(Instr)
    /\ Len(instr_list') = Len(instr_list) + 1
    /\ \A k \in 1 .. p - 1 : instr_list'[k] = instr_list[k]
    /\ instr_list'[p] = x
    /\ \A k \in p .. Len(instr_list) : instr_list'[k + 1] = instr_list[k]

\* InsertAt puts an instruction at a position of the list.
LEMMA InsertPuts ==
    ASSUME NEW s \in Seq(Instr), NEW x \in Instr, NEW p \in 1 .. Len(s) + 1
    PROVE  LET t == InsertAt(s, p, x)
           IN  /\ t \in Seq(Instr) /\ Len(t) = Len(s) + 1 /\ t[p] = x
               /\ \A k \in 1 .. p - 1 : t[k] = s[k]
               /\ \A k \in p .. Len(s) : t[k + 1] = s[k]
  <1> DEFINE u == SubSeq(s, 1, p - 1)
             w == SubSeq(s, p, Len(s))
             v == u \o <<x>>
  <1>1. Len(s) \in Nat /\ p \in Nat /\ p > 0 /\ p <= Len(s) + 1
    OBVIOUS
  <1>2. u \in Seq(Instr) /\ Len(u) = p - 1 /\ \A k \in 1 .. p - 1 : u[k] = s[k]
    BY <1>1
  <1>3. /\ w \in Seq(Instr) /\ Len(w) = Len(s) - p + 1
        /\ \A k \in 1 .. Len(s) - p + 1 : w[k] = s[p + k - 1]
    BY <1>1
  <1>4. /\ v \in Seq(Instr) /\ Len(v) = p /\ v[p] = x /\ \A k \in 1 .. p - 1 : v[k] = s[k]
    BY <1>1, <1>2
  <1>5. InsertAt(s, p, x) = v \o w
    BY DEF InsertAt
  <1> HIDE DEF u, w, v
  <1> DEFINE t == v \o w
  <1>6. t \in Seq(Instr) /\ Len(t) = Len(s) + 1
    <2>1. t \in Seq(Instr) /\ Len(t) = Len(v) + Len(w)
      BY <1>3, <1>4, ConcatProperties
    <2> QED BY <1>1, <1>3, <1>4, <2>1
  <1>7. \A k \in 1..p : t[k] = v[k]
    BY <1>1, <1>3, <1>4
  <1>8. \A k \in p .. Len(s) : t[k + 1] = s[k]
    <2> TAKE k \in p .. Len(s)
    <2>1. k + 1 - p \in 1 .. Len(s) - p + 1 /\ k + 1 \in 1 .. Len(s) + 1 /\ k + 1 > p
      BY <1>1
    <2>2. t[k + 1] = w[k + 1 - p]
      BY <1>1, <1>3, <1>4, <2>1
    <2>3. w[k + 1 - p] = s[p + (k + 1 - p) - 1] /\ p + (k + 1 - p) - 1 = k
      BY <1>1, <1>3, <2>1
    <2> QED BY <2>2, <2>3
  <1> HIDE DEF t
  <1>9. t[p] = x /\ \A k \in 1 .. p - 1 : t[k] = s[k]
    BY <1>1, <1>4, <1>7
  <1>10. InsertAt(s, p, x) = t
    BY <1>5 DEF t
  <1> QED BY <1>6, <1>8, <1>9, <1>10

\* Positions and indices
LEMMA IndexInRange ==
    ASSUME NEW m \in Nat, NEW k \in Nat, NEW p \in Nat, p <= m
    PROVE  p + k + 1 \in 1 .. m + k + 1 /\ p + k + 1 \in Nat
  OBVIOUS

\* A later position has a greater index.
LEMMA IndexGrows ==
    ASSUME NEW m \in Nat, NEW k \in Nat, NEW p \in Nat, m <= p
    PROVE  m + k < p + k + 1 /\ m + k \in Nat
  OBVIOUS

\* What a step of the mixing does: the position drawn is behind the one before, but for
\* the last of a contained mix, which goes in front of the last instruction of the list.
LEMMA InsertStep ==
    ASSUME Shape, InsertInstr
    PROVE  /\ i < N /\ i' = i + 1 /\ new_instr' = new_instr /\ contained' = contained
           /\ i \in Nat /\ N \in Nat /\ i + 1 \in 1..N
           /\ at' \in -1 .. OldCnt /\ (at' = -1 => i' = N) /\ at \in Nat
           /\ Put(at' + i + 1, new_instr[i + 1])
           /\ \/ at <= at'
              \/ contained /\ i > 0 /\ i = N - 1 /\ at' + i + 1 = Len(instr_list)
  <1>1. /\ new_instr' = new_instr /\ contained' = contained
        /\ instr_list' = InsertAt(instr_list, at' + i + 1, new_instr[i + 1])
    BY DEF InsertInstr, Index
  <1>2. i < N /\ i' = i + 1 /\ at' \in Positions
    BY DEF InsertInstr, N
  <1>3. Len(instr_list) \in Nat /\ i \in Nat /\ N \in Nat
    BY DEF Shape, N
  <1>4. /\ at \in Nat /\ at <= OldCnt /\ OldCnt \in Nat
        /\ Len(instr_list) = OldCnt + i /\ (i = 0 => at = 0)
    BY <1>2, <1>3 DEF Shape, OldCnt
  <1>5. i + 1 \in 1..N
    BY <1>2, <1>3
  <1> DEFINE OfLast == contained /\ i > 0 /\ i = N - 1
  <1>6. /\ at' \in -1 .. OldCnt
        /\ (at <= at' /\ at' \in Nat) \/ (OfLast /\ at' + i + 1 = Len(instr_list))
    <2>1. CASE contained /\ i = 0
      <3>1. Positions = {0}
        BY <2>1 DEF Positions
      <3>2. at' = 0 /\ at = 0
        BY <1>2, <1>4, <2>1, <3>1
      <3> QED BY <1>4, <3>2
    <2>2. CASE OfLast
      <3>1. Positions = {OldCnt - 1}
        BY <1>2, <1>3, <2>2 DEF Positions, N
      <3>2. at' = OldCnt - 1
        BY <1>2, <3>1
      <3> HIDE DEF OfLast
      <3> QED BY <1>3, <1>4, <2>2, <3>2
    <2>3. CASE ~(contained /\ i = 0) /\ ~OfLast
      <3>1. Positions = at .. OldCnt
        BY <1>2, <1>3, <2>3 DEF Positions, N
      <3>2. at' \in at .. OldCnt
        BY <1>2, <3>1
      <3> QED BY <1>4, <3>2
    <2> QED BY <2>1, <2>2, <2>3
  <1>7. at' + i + 1 \in 1 .. Len(instr_list) + 1
    <2>1. CASE at' \in Nat
      <3>1. Len(instr_list) + 1 = OldCnt + i + 1 /\ OldCnt \in Nat /\ i \in Nat
        BY <1>3, <1>4
      <3>2. at' + i + 1 \in 1 .. OldCnt + i + 1
        <4>1. at' <= OldCnt
          BY <1>6, <3>1
        <4> QED BY <2>1, <3>1, <4>1, IndexInRange
      <3> QED BY <3>1, <3>2
    <2>2. CASE i > 0 /\ at' + i + 1 = Len(instr_list)
      BY <1>3, <1>4, <2>2
    <2> QED BY <1>6, <2>1, <2>2
  <1>8. new_instr[i + 1] \in Instr /\ instr_list \in Seq(Instr)
    BY <1>5 DEF Shape, N
  <1>9. Put(at' + i + 1, new_instr[i + 1])
    BY <1>1, <1>7, <1>8, InsertPuts DEF Put
  <1>10. at' = -1 => i' = N
    <2>1. ASSUME at' = -1 PROVE i = N - 1
      BY <1>6, <2>1
    <2> QED BY <1>2, <1>3, <2>1
  <1> QED BY <1>1, <1>2, <1>3, <1>4, <1>5, <1>6, <1>9, <1>10

\* In an uncontained mix the positions are those of instructions, and they do not decrease.
LEMMA Ascending ==
    ASSUME Shape, Insert, ~contained
    PROVE  at \in Nat /\ at' \in Nat /\ at <= at'
  <1>1. at \in Nat /\ at' \in -1 .. OldCnt /\ at <= at'
    BY InsertStep DEF Insert
  <1>2. OldCnt \in Nat
    BY DEF Shape
  <1> QED BY <1>1, <1>2

\* A step leaves the random instructions as many as they were.
LEMMA ShapeInsert ==
    ASSUME Shape, Insert
    PROVE  Shape' /\ OldCnt' = OldCnt /\ N' = N
  <1> DEFINE p == at' + i + 1
  <1>1. /\ i < N /\ i' = i + 1 /\ i \in Nat /\ N \in Nat /\ at' \in -1 .. OldCnt
        /\ (at' = -1 => i' = N) /\ new_instr' = new_instr /\ contained' = contained
        /\ Put(p, new_instr[i + 1]) /\ sealed' = sealed
    BY InsertStep DEF Insert
  <1>2. Len(instr_list') = Len(instr_list) + 1 /\ instr_list' \in Seq(Instr)
    BY <1>1 DEF Put
  <1>3. N' = N
    BY <1>1 DEF N
  <1>4. OldCnt' = OldCnt /\ OldCnt \in Nat
    <2>1. Len(instr_list) \in Nat /\ OldCnt \in Nat
      BY DEF Shape
    <2> QED BY <1>1, <1>2, <2>1 DEF OldCnt
  <1>5. /\ new_instr \in Seq(Instr) /\ \A k \in DOMAIN new_instr : IsNew(new_instr[k])
        /\ contained \in BOOLEAN /\ sealed \in BOOLEAN /\ N > 0
        /\ sealed => i = N
    BY DEF Shape, Mixed, N
  <1>6. i' \in 0..N /\ at' \in -1 .. OldCnt /\ i' # 0 /\ ~sealed
    BY <1>1, <1>4, <1>5
  <1> QED BY <1>1, <1>2, <1>3, <1>4, <1>5, <1>6 DEF Shape

\* The new instructions up to position k
NewIn(k) == {j \in 1..k : IsNew(instr_list[j])}

\* There are finitely many of them.
LEMMA NewInFinite ==
    ASSUME NEW k \in Nat
    PROVE  IsFiniteSet(NewIn(k)) /\ NewUpTo(k) = Cardinality(NewIn(k)) /\ NewUpTo(k) \in Nat
  <1>1. IsFiniteSet(1..k) /\ NewIn(k) \subseteq 1..k
    BY FS_Interval DEF NewIn
  <1>2. IsFiniteSet(NewIn(k))
    BY <1>1, FS_Subset
  <1>3. NewUpTo(k) = Cardinality(NewIn(k))
    BY DEF NewUpTo, NewIn
  <1> QED BY <1>2, <1>3, FS_CardinalityType

\* How an insertion behind all new instructions changes the counts
LEMMA CountsAfter ==
    ASSUME Shape, RandomBehind, UncontainedOrder, Insert, ~contained
    PROVE  LET p == at' + i + 1
           IN  /\ \A k \in 1 .. p - 1 : NewUpTo(k)' = NewUpTo(k)
               /\ \A k \in p .. Len(instr_list') : NewUpTo(k)' = i + 1
               /\ \A k \in p .. Len(instr_list) : NewUpTo(k) = i
  <1> DEFINE p == at' + i + 1
             m == Len(instr_list)
  <1>1. /\ i \in Nat /\ N \in Nat /\ at \in Nat /\ at' \in Nat /\ at <= at' /\ i + 1 \in 1..N
        /\ Put(p, new_instr[i + 1])
    BY Ascending, InsertStep DEF Insert
  <1>2. /\ m \in Nat /\ p \in Nat /\ p > 0 /\ p <= m + 1 /\ at \in Nat
        /\ Len(instr_list') = m + 1
    <2>1. m \in Nat /\ at \in Nat
      BY <1>1 DEF Shape
    <2>2. p \in 1 .. m + 1 /\ Len(instr_list') = m + 1
      BY <1>1 DEF Put
    <2> HIDE DEF p, m
    <2> QED BY <2>1, <2>2
  <1>3. /\ \A k \in 1 .. p - 1 : instr_list'[k] = instr_list[k]
        /\ instr_list'[p] = new_instr[i + 1]
        /\ \A k \in p .. m : instr_list'[k + 1] = instr_list[k]
    BY <1>1 DEF Put
  <1>4. \A k \in p .. m : ~IsNew(instr_list[k])
    <2> SUFFICES ASSUME NEW k \in p .. m, IsNew(instr_list[k]) PROVE FALSE
      OBVIOUS
    <2>1. k \in 1..m /\ k > at + i
      <3>1. p = at' + i + 1 /\ at + i < p /\ at + i \in Nat
        BY <1>1, <1>2, IndexGrows
      <3> HIDE DEF p, m
      <3>2. k \in Nat /\ p <= k /\ k <= m
        BY <1>2
      <3> QED BY <1>2, <3>1, <3>2
    <2>2. k \in DOMAIN instr_list
      BY <2>1 DEF Shape
    <2>3. k <= at + i
      BY <2>2 DEF RandomBehind
    <2>4. k \in Nat /\ at + i \in Nat
      BY <1>1, <1>2, <2>1
    <2> QED BY <2>1, <2>3, <2>4
  <1>5. IsNew(new_instr[i + 1])
    BY <1>1 DEF Shape, N
  <1> HIDE DEF p, m
  <1>6. \A k \in 1 .. p - 1 : NewUpTo(k)' = NewUpTo(k)
    <2> TAKE k \in 1 .. p - 1
    <2>1. \A j \in 1..k : instr_list'[j] = instr_list[j]
      BY <1>2, <1>3
    <2>2. \A j \in 1..k : IsNew(instr_list[j])' <=> IsNew(instr_list[j])
      BY <2>1 DEF IsNew, IsRandom
    <2>3. NewIn(k)' = NewIn(k)
      BY <2>2 DEF NewIn
    <2> QED BY <2>3 DEF NewUpTo, NewIn
  <1>7. \A k \in p - 1 .. m : NewIn(k) = NewIn(m)
    <2> TAKE k \in p - 1 .. m
    <2>1. \A j \in 1..m : j \in 1..k \/ j \in p .. m
      BY <1>2
    <2>2. 1..k \subseteq 1..m
      BY <1>2
    <2> QED BY <1>4, <2>1, <2>2 DEF NewIn
  <1>8. NewUpTo(m) = i
    BY DEF UncontainedOrder, OrderPreserved, m
  <1>9. \A k \in p .. m : NewUpTo(k) = i
    <2> TAKE k \in p .. m
    <2>1. k \in p - 1 .. m
      BY <1>2
    <2>2. NewIn(k) = NewIn(m)
      BY <1>7, <2>1
    <2> QED BY <1>8, <2>2 DEF NewUpTo, NewIn
  <1>10. \A k \in p .. m + 1 : NewIn(k)' = NewIn(p - 1) \cup {p}
    <2> TAKE k \in p .. m + 1
    <2>1. ASSUME NEW j \in 1..k, j # p, IsNew(instr_list'[j]) PROVE j \in NewIn(p - 1)
      <3>1. CASE j < p
        <4>1. j \in 1 .. p - 1
          BY <1>2, <3>1
        <4>2. instr_list'[j] = instr_list[j]
          BY <1>3, <4>1
        <4> QED BY <2>1, <4>1, <4>2 DEF NewIn
      <3>2. CASE j > p
        <4>1. j - 1 \in p .. m /\ (j - 1) + 1 = j
          BY <1>2, <3>2
        <4>2. instr_list'[j] = instr_list[j - 1]
          BY <1>3, <4>1
        <4> QED BY <1>4, <2>1, <4>1, <4>2
      <3> QED BY <1>2, <2>1, <3>1, <3>2
    <2>2. ASSUME NEW j \in NewIn(p - 1) PROVE j \in 1..k /\ IsNew(instr_list'[j])
      <3>1. j \in 1 .. p - 1 /\ IsNew(instr_list[j])
        BY DEF NewIn
      <3>2. j \in 1..k
        BY <1>2, <3>1
      <3>3. instr_list'[j] = instr_list[j]
        BY <1>3, <3>1
      <3> QED BY <3>1, <3>2, <3>3
    <2>3. p \in 1..k /\ IsNew(instr_list'[p])
      BY <1>2, <1>3, <1>5
    <2>4. NewIn(k)' = {j \in 1..k : IsNew(instr_list'[j])}
      BY DEF NewIn, IsNew, IsRandom
    <2> QED BY <2>1, <2>2, <2>3, <2>4
  <1>11. ASSUME NEW k \in p .. m + 1 PROVE NewUpTo(k)' = i + 1
    <2>1. p - 1 \in p - 1 .. m /\ p - 1 \in Nat
      BY <1>2
    <2>2. NewIn(p - 1) = NewIn(m) /\ p \notin NewIn(p - 1)
      BY <1>2, <1>7, <2>1 DEF NewIn
    <2>3. IsFiniteSet(NewIn(m)) /\ Cardinality(NewIn(m)) = i
      BY <1>2, <1>8, NewInFinite
    <2>4. Cardinality(NewIn(p - 1) \cup {p}) = i + 1
      BY <2>2, <2>3, FS_AddElement
    <2>5. NewUpTo(k)' = Cardinality(NewIn(k)')
      BY DEF NewUpTo, NewIn
    <2> QED BY <1>10, <2>4, <2>5
  <1> QED BY <1>2, <1>6, <1>9, <1>11 DEF p, m

\* An uncontained insertion keeps the order of both lists.
LEMMA OrderInsert ==
    ASSUME Shape, RandomBehind, UncontainedOrder, Insert
    PROVE  RandomBehind' /\ UncontainedOrder'
  <1> DEFINE p == at' + i + 1
             m == Len(instr_list)
  <1>1. /\ i \in Nat /\ N \in Nat /\ i + 1 \in 1..N /\ i' = i + 1
        /\ new_instr' = new_instr /\ contained' = contained
        /\ Put(p, new_instr[i + 1])
    BY InsertStep DEF Insert
  <1> SUFFICES ASSUME ~contained PROVE RandomBehind' /\ UncontainedOrder'
    BY <1>1 DEF RandomBehind, UncontainedOrder
  <1>2. at <= at' /\ at \in Nat /\ at + i < p /\ at + i \in Nat
    <2>1. at <= at' /\ at \in Nat /\ at' \in Nat
      BY Ascending
    <2> QED BY <1>1, <2>1, IndexGrows
  <1>3. /\ m \in Nat /\ p \in Nat /\ p > 0 /\ p <= m + 1 /\ Len(instr_list') = m + 1
    <2>1. m \in Nat
      BY DEF Shape
    <2>2. p \in 1 .. m + 1 /\ Len(instr_list') = m + 1
      BY <1>1 DEF Put
    <2> HIDE DEF p, m
    <2> QED BY <2>1, <2>2
  <1>4. /\ \A k \in 1 .. p - 1 : instr_list'[k] = instr_list[k]
        /\ instr_list'[p] = new_instr[i + 1]
        /\ \A k \in p .. m : instr_list'[k + 1] = instr_list[k]
        /\ DOMAIN instr_list' = 1 .. m + 1 /\ DOMAIN instr_list = 1..m
    <2>1. /\ \A k \in 1 .. p - 1 : instr_list'[k] = instr_list[k]
          /\ instr_list'[p] = new_instr[i + 1]
          /\ \A k \in p .. m : instr_list'[k + 1] = instr_list[k]
          /\ instr_list' \in Seq(Instr)
      BY <1>1 DEF Put
    <2>2. instr_list \in Seq(Instr)
      BY DEF Shape
    <2> QED BY <1>3, <2>1, <2>2
  <1>5. /\ \A k \in 1 .. p - 1 : NewUpTo(k)' = NewUpTo(k)
        /\ \A k \in p .. m + 1 : NewUpTo(k)' = i + 1
        /\ \A k \in p .. m : NewUpTo(k) = i
    BY <1>3, CountsAfter
  <1>6. \A k \in 1..m : IsNew(instr_list[k]) => k <= at + i
    BY <1>4 DEF RandomBehind
  <1>7. at' + i' = p
    <2>1. at' \in Nat
      BY Ascending
    <2> QED BY <1>1, <2>1
  <1> HIDE DEF p, m
  \* every position is in front of the new instruction, its own, or behind it
  <1>8. ASSUME NEW k \in 1 .. m + 1
        PROVE  \/ k \in 1 .. p - 1 /\ k \in 1..m
               \/ k = p
               \/ k - 1 \in p .. m /\ k \in p .. m + 1 /\ k - 1 \in 1..m /\ (k - 1) + 1 = k
    BY <1>3
  <1>9. RandomBehind'
    <2> SUFFICES ASSUME NEW k \in 1 .. m + 1, IsNew(instr_list'[k]) PROVE k <= p
      BY <1>4, <1>7 DEF RandomBehind, IsNew, IsRandom
    <2>1. CASE k - 1 \in p .. m
      <3>1. instr_list'[k] = instr_list[k - 1] /\ k - 1 \in 1..m
        BY <1>3, <1>4, <2>1
      <3>2. k - 1 <= at + i
        BY <1>6, <3>1
      <3> QED BY <1>2, <1>3, <2>1, <3>2
    <2> QED BY <1>3, <1>8, <2>1
  <1>10. NewUpTo(Len(instr_list))' = i'
    <2>1. m + 1 \in p .. m + 1
      BY <1>3
    <2>2. PICK k \in p .. m + 1 : k = m + 1
      BY <2>1
    <2>3. NewUpTo(k)' = i + 1
      BY <1>5
    <2>4. NewUpTo(k)' = Cardinality({j \in 1..k : IsNew(instr_list[j])'})
      BY DEF NewUpTo
    <2>5. NewUpTo(Len(instr_list))' =
            Cardinality({j \in 1 .. Len(instr_list') : IsNew(instr_list[j])'})
      BY DEF NewUpTo
    <2> QED BY <1>1, <1>3, <2>2, <2>3, <2>4, <2>5
  <1>11. ASSUME NEW k \in 1 .. m + 1
         PROVE  IF IsNew(instr_list'[k])
                THEN Name(instr_list'[k]) = Name(new_instr[NewUpTo(k)'])
                ELSE instr_list'[k].group = k - NewUpTo(k)'
    <2>0. \A j \in 1..m : IF IsNew(instr_list[j])
                           THEN Name(instr_list[j]) = Name(new_instr[NewUpTo(j)])
                           ELSE instr_list[j].group = j - NewUpTo(j)
      BY <1>4 DEF UncontainedOrder, OrderPreserved
    <2>1. CASE k \in 1 .. p - 1 /\ k \in 1..m
      <3>1. instr_list'[k] = instr_list[k] /\ NewUpTo(k)' = NewUpTo(k)
        BY <1>4, <1>5, <2>1
      <3> QED BY <2>0, <2>1, <3>1
    <2>2. CASE k = p
      <3>1. instr_list'[k] = new_instr[i + 1] /\ NewUpTo(k)' = i + 1
        <4>1. p \in p .. m + 1
          BY <1>3
        <4> QED BY <1>4, <1>5, <2>2, <4>1
      <3>2. IsNew(new_instr[i + 1])
        BY <1>1 DEF Shape, N
      <3> QED BY <3>1, <3>2
    <2>3. CASE k - 1 \in p .. m /\ k \in p .. m + 1 /\ k - 1 \in 1..m /\ (k - 1) + 1 = k
      <3>1. instr_list'[k] = instr_list[k - 1] /\ NewUpTo(k)' = i + 1 /\ NewUpTo(k - 1) = i
        BY <1>4, <1>5, <2>3
      <3>2. ~IsNew(instr_list[k - 1])
        <4>1. ~(k - 1 <= at + i)
          BY <1>2, <1>3, <2>3
        <4> QED BY <1>6, <2>3, <4>1
      <3>3. instr_list[k - 1].group = k - 1 - i
        BY <2>0, <2>3, <3>1, <3>2
      <3>4. k - 1 - i = k - (i + 1)
        BY <1>1, <1>3
      <3> QED BY <3>1, <3>2, <3>3, <3>4
    <2> QED BY <1>8, <2>1, <2>2, <2>3
  <1>12. OrderPreserved'
    BY <1>1, <1>4, <1>10, <1>11 DEF OrderPreserved, NewUpTo, IsNew, IsRandom, Name
  <1> QED BY <1>9, <1>12 DEF UncontainedOrder

\* An insertion finds a place for one more instruction, before which all others stand,
\* except perhaps the second last when it is the last of a contained mix.
LEMMA PlacesInsert ==
    ASSUME Shape, Insert, NEW place, IsPlacing(place)
    PROVE  \E q : IsPlacing(q)'
  <1> DEFINE p == at' + i + 1
             m == Len(instr_list)
             q == [a \in 1 .. i + 1 |->
                     IF a = i + 1 THEN p
                     ELSE IF place[a] < p THEN place[a] ELSE place[a] + 1]
  <1>1. /\ i \in Nat /\ N \in Nat /\ i + 1 \in 1..N /\ i' = i + 1
        /\ new_instr' = new_instr /\ contained' = contained /\ i < N
        /\ Put(p, new_instr[i + 1])
    BY InsertStep DEF Insert
  <1>2. \/ at <= at' /\ at \in Nat /\ at + i < p /\ at + i \in Nat
        \/ contained /\ i > 0 /\ i = N - 1 /\ p = m
    <2>1. /\ at \in Nat
          /\ (at <= at' /\ at' \in Nat) \/ (contained /\ i > 0 /\ i = N - 1 /\ p = m)
      <3>1. at \in Nat /\ at' \in -1 .. OldCnt /\ OldCnt \in Nat
        BY InsertStep DEF Insert, Shape
      <3>2. at <= at' \/ (contained /\ i > 0 /\ i = N - 1 /\ p = m)
        BY InsertStep DEF Insert
      <3> HIDE DEF p, m
      <3> QED BY <3>1, <3>2
    <2> QED BY <1>1, <2>1, IndexGrows
  <1>3. /\ m \in Nat /\ p \in Nat /\ p > 0 /\ p <= m + 1 /\ Len(instr_list') = m + 1
    <2>1. m \in Nat
      BY DEF Shape
    <2>2. p \in 1 .. m + 1 /\ Len(instr_list') = m + 1
      BY <1>1 DEF Put
    <2> HIDE DEF p, m
    <2> QED BY <2>1, <2>2
  <1>4. /\ \A k \in 1 .. p - 1 : instr_list'[k] = instr_list[k]
        /\ instr_list'[p] = new_instr[i + 1]
        /\ \A k \in p .. m : instr_list'[k + 1] = instr_list[k]
        /\ DOMAIN instr_list' = 1 .. m + 1 /\ DOMAIN instr_list = 1..m
    <2>1. /\ \A k \in 1 .. p - 1 : instr_list'[k] = instr_list[k]
          /\ instr_list'[p] = new_instr[i + 1]
          /\ \A k \in p .. m : instr_list'[k + 1] = instr_list[k]
          /\ instr_list' \in Seq(Instr)
      BY <1>1 DEF Put
    <2>2. instr_list \in Seq(Instr)
      BY DEF Shape
    <2> HIDE DEF p, m, q
    <2>3. DOMAIN instr_list' = 1 .. m + 1 /\ DOMAIN instr_list = 1..m
      BY <1>3, <2>1, <2>2 DEF m
    <2> QED BY <2>1, <2>3
  <1>5. at' + i' = p /\ N' = N
    <2>1. at' \in Int
      <3>1. OldCnt \in Nat /\ at' \in -1 .. OldCnt
        BY InsertStep DEF Insert, Shape
      <3> QED BY <3>1
    <2>2. N' = N
      BY <1>1 DEF N
    <2> QED BY <1>1, <2>1, <2>2
  <1>6. /\ \A a \in 1..i : place[a] \in 1..m
        /\ \A a \in 1..i : Name(instr_list[place[a]]) = Name(new_instr[a])
        /\ \A k \in 1..m : IsNew(instr_list[k]) => \E a \in 1..i : place[a] = k
        /\ \A a \in 1..i : place[a] <= at + i
    BY <1>1, <1>4 DEF IsPlacing
  <1>7. \A a, b \in 1..i : a < b => place[a] < place[b]
    <2> TAKE a, b \in 1..i
    <2>1. b # N
      BY <1>1
    <2> QED BY <2>1 DEF IsPlacing, MaySwap
  <1>8. /\ q[i + 1] = p
        /\ \A a \in 1..i : place[a] < p => q[a] = place[a]
        /\ \A a \in 1..i : p <= place[a] => q[a] = place[a] + 1
    <2>1. i + 1 \in 1 .. i + 1 /\ \A a \in 1..i : a \in 1 .. i + 1 /\ a # i + 1
      BY <1>1
    <2> HIDE DEF p, m
    <2>2. \A a \in 1..i : ~(place[a] < p /\ p <= place[a])
      BY <1>3, <1>6
    <2> QED BY <2>1, <2>2
  <1>9. \A a \in 1 .. i + 1 : a = i + 1 \/ a \in 1..i
    BY <1>1
  <1> HIDE DEF p, m
  <1>10. DOMAIN q = 1 .. i + 1 /\ q = [a \in 1 .. i + 1 |-> q[a]]
    OBVIOUS
  <1> HIDE DEF q
  <1>11. q \in [1..i' -> DOMAIN instr_list']
    <2>1. ASSUME NEW a \in 1 .. i + 1 PROVE q[a] \in 1 .. m + 1
      <3>1. CASE a = i + 1
        BY <1>3, <1>8, <3>1
      <3>2. CASE a \in 1..i
        <4>1. place[a] \in 1..m
          BY <1>6, <3>2
        <4>2. CASE place[a] < p
          BY <1>3, <1>8, <3>2, <4>1, <4>2
        <4>3. CASE p <= place[a]
          <5>1. q[a] = place[a] + 1
            BY <1>8, <3>2, <4>3
          <5> QED BY <1>3, <4>1, <5>1
        <4> QED BY <1>3, <4>1, <4>2, <4>3
      <3> QED BY <1>9, <3>1, <3>2
    <2> QED BY <1>1, <1>4, <1>10, <2>1
  <1>12. ASSUME NEW a \in 1 .. i + 1 PROVE Name(instr_list'[q[a]]) = Name(new_instr[a])
    <2>1. CASE a = i + 1
      BY <1>4, <1>8, <2>1
    <2>2. CASE a \in 1..i /\ place[a] < p
      <3>1. place[a] \in 1 .. p - 1
        BY <1>3, <1>6, <2>2
      <3>2. instr_list'[place[a]] = instr_list[place[a]]
        BY <1>4, <3>1
      <3>3. q[a] = place[a]
        BY <1>8, <2>2
      <3> QED BY <1>6, <2>2, <3>2, <3>3
    <2>3. CASE a \in 1..i /\ p <= place[a]
      <3>1. place[a] \in p .. m
        BY <1>3, <1>6, <2>3
      <3>2. instr_list'[place[a] + 1] = instr_list[place[a]]
        BY <1>4, <3>1
      <3>3. q[a] = place[a] + 1
        BY <1>8, <2>3
      <3> QED BY <1>6, <2>3, <3>2, <3>3
    <2>4. \A b \in 1..i : place[b] < p \/ p <= place[b]
      BY <1>3, <1>6
    <2> QED BY <1>9, <2>1, <2>2, <2>3, <2>4
  <1>13. ASSUME NEW k \in 1 .. m + 1, IsNew(instr_list'[k])
         PROVE  \E a \in 1 .. i + 1 : q[a] = k
    <2>0. i + 1 \in 1 .. i + 1 /\ \A a \in 1..i : a \in 1 .. i + 1
      BY <1>1
    <2>1. CASE k < p
      <3>1. k \in 1 .. p - 1 /\ k \in 1..m
        BY <1>3, <2>1
      <3>2. PICK a \in 1..i : place[a] = k
        BY <1>4, <1>6, <1>13, <3>1
      <3> QED BY <1>8, <2>0, <2>1, <3>2
    <2>2. CASE k = p
      BY <1>8, <2>0, <2>2
    <2>3. CASE k > p
      <3>1. k - 1 \in p .. m /\ k - 1 \in 1..m /\ (k - 1) + 1 = k /\ p <= k - 1
        BY <1>3, <2>3
      <3>2. instr_list'[k] = instr_list[k - 1]
        BY <1>4, <3>1
      <3>3. PICK a \in 1..i : place[a] = k - 1
        BY <1>6, <1>13, <3>1, <3>2
      <3>4. q[a] = place[a] + 1
        BY <1>8, <3>1, <3>3
      <3> QED BY <2>0, <3>1, <3>3, <3>4
    <2> QED BY <1>3, <2>1, <2>2, <2>3
  <1>14. ASSUME NEW a \in 1 .. i + 1, NEW b \in 1 .. i + 1, a < b
         PROVE  q[a] < q[b] \/ MaySwap(a, b)
    <2>1. a \in 1..i
      BY <1>1, <1>14
    <2>2. CASE b \in 1..i
      <3>1. place[a] < place[b] /\ place[a] \in Nat /\ place[b] \in Nat
        BY <1>3, <1>6, <1>7, <1>14, <2>1, <2>2
      <3>2. (q[a] = place[a] /\ place[a] < p) \/ (q[a] = place[a] + 1 /\ p <= place[a])
        BY <1>3, <1>8, <2>1, <3>1
      <3>3. (q[b] = place[b] /\ place[b] < p) \/ (q[b] = place[b] + 1 /\ p <= place[b])
        BY <1>3, <1>8, <2>2, <3>1
      <3> QED BY <1>3, <3>1, <3>2, <3>3
    <2>3. CASE b = i + 1
      <3>1. CASE at + i < p /\ at + i \in Nat
        <4>1. place[a] < p
          BY <1>3, <1>6, <2>1, <3>1
        <4> QED BY <1>8, <2>1, <2>3, <4>1
      <3>2. CASE contained /\ i > 0 /\ i = N - 1 /\ p = m
        <4>1. CASE a = i
          BY <1>1, <2>3, <3>2, <4>1 DEF MaySwap
        <4>2. CASE a # i
          <5>1. i \in 1..i /\ a < i
            BY <1>1, <2>1, <3>2, <4>2
          <5>2. place[a] < place[i] /\ place[a] \in 1..m /\ place[i] \in 1..m
            BY <1>6, <1>7, <2>1, <5>1
          <5>3. place[a] < p
            BY <1>3, <3>2, <5>2
          <5> QED BY <1>8, <2>1, <2>3, <5>3
        <4> QED BY <4>1, <4>2
      <3> QED BY <1>2, <3>1, <3>2
    <2> QED BY <1>9, <2>2, <2>3
  <1>15. ASSUME i + 1 < N, NEW a \in 1 .. i + 1 PROVE q[a] <= p
    <2>1. at + i < p /\ at + i \in Nat
      BY <1>1, <1>2, <1>15
    <2>2. CASE a = i + 1
      BY <1>3, <1>8, <2>2
    <2>3. CASE a \in 1..i
      <3>1. place[a] < p
        BY <1>3, <1>6, <2>1, <2>3
      <3> QED BY <1>3, <1>6, <1>8, <2>3, <3>1
    <2> QED BY <1>9, <2>2, <2>3
  <1>16. PICK r : r = q
    OBVIOUS
  <1>17. IsPlacing(r)'
    <2>1. \A a, b : MaySwap(a, b)' <=> MaySwap(a, b)
      BY <1>1, <1>5 DEF MaySwap
    <2>2. \A k : IsNew(instr_list[k])' <=> IsNew(instr_list'[k])
      BY DEF IsNew, IsRandom
    <2>3. \A a : /\ Name(instr_list[r[a]])' = Name(instr_list'[r[a]])
                 /\ Name(new_instr[a])' = Name(new_instr[a])
      BY <1>1 DEF Name
    <2>4. \A a \in 1..i' : Name(instr_list[r[a]])' = Name(new_instr[a])'
      BY <1>1, <1>12, <1>16, <2>3
    <2>5. \A k \in DOMAIN instr_list' : IsNew(instr_list[k])' => \E a \in 1..i' : r[a] = k
      BY <1>1, <1>4, <1>13, <1>16, <2>2
    <2>6. \A a, b \in 1..i' : a < b => r[a] < r[b] \/ MaySwap(a, b)'
      BY <1>1, <1>14, <1>16, <2>1
    <2>7. i' < N' => \A a \in 1..i' : r[a] <= at' + i'
      BY <1>1, <1>5, <1>15, <1>16
    <2>8. r \in [1..i' -> DOMAIN instr_list']
      BY <1>11, <1>16
    <2> QED BY <2>4, <2>5, <2>6, <2>7, <2>8 DEF IsPlacing
  <1> QED BY <1>17

-----------------------------------------------------------------------------
(* The invariant *)

\* Without new instructions the numbers of the random ones are their positions.
LEMMA MixInitially == Init => MixInv
  <1> SUFFICES ASSUME Init PROVE MixInv
    OBVIOUS
  <1>1. PICK mix \in Mixes : /\ instr_list = [k \in 1 .. mix.old |-> Random(k)]
                            /\ new_instr = mix.new /\ contained = mix.contained
    BY DEF Init, MixInit
  <1>2. i = 0 /\ at = 0 /\ sealed = FALSE
    BY DEF Init, MixInit
  <1>3. /\ mix.old \in Nat /\ new_instr \in Seq(Instr) /\ new_instr # <<>>
        /\ \A k \in DOMAIN new_instr : IsNew(new_instr[k])
        /\ contained \in BOOLEAN
    BY <1>1, MixAssumption
  <1>4. \A k \in 1 .. mix.old : Random(k) \in Instr /\ ~IsNew(Random(k)) /\ Random(k).group = k
    <2>1. \A k \in 1 .. mix.old : k \in Nat
      BY <1>3
    <2>2. \A k \in Nat : Random(k) \in Instr
      BY DEF Random, Instr, Role
    <2>3. \A k : Random(k).role = "random" /\ Random(k).group = k
      BY DEF Random
    <2> QED BY <2>1, <2>2, <2>3 DEF IsNew, IsRandom
  <1>5. instr_list \in Seq(Instr) /\ Len(instr_list) = mix.old /\ DOMAIN instr_list = 1 .. mix.old
    <2>1. instr_list \in [1 .. mix.old -> Instr]
      BY <1>1, <1>4
    <2>2. mix.old \in Nat
      BY <1>3
    <2>3. instr_list \in Seq(Instr)
      BY <2>1, <2>2, SeqDef
    <2> QED BY <1>1, <2>2, <2>3
  <1>6. \A k \in 1 .. mix.old : ~IsNew(instr_list[k]) /\ instr_list[k].group = k
    BY <1>1, <1>4
  <1>7. Shape
    <2>1. OldCnt = mix.old
      BY <1>2, <1>3, <1>5 DEF OldCnt
    <2>2. N \in Nat /\ N > 0
      BY <1>3, EmptySeq DEF N
    <2>3. OldCnt \in Nat /\ at \in -1 .. OldCnt /\ at # -1 /\ i \in 0..N /\ (i = 0 => at = 0)
      <3>1. i = 0 /\ at = 0
        BY <1>2
      <3>2. mix.old \in Nat
        BY <1>3
      <3> QED BY <2>1, <2>2, <3>1, <3>2
    <2>4. sealed \in BOOLEAN /\ ~sealed
      BY <1>2
    <2> QED BY <1>3, <1>5, <2>2, <2>3, <2>4 DEF Shape
  <1>8. \A k \in 0 .. mix.old : NewUpTo(k) = 0
    <2> TAKE k \in 0 .. mix.old
    <2>1. 1..k \subseteq 1 .. mix.old
      BY <1>3
    <2>2. {j \in 1..k : IsNew(instr_list[j])} = {}
      BY <1>6, <2>1
    <2> QED BY <2>2, FS_EmptySet DEF NewUpTo
  <1>9. UncontainedOrder
    <2>1. NewUpTo(Len(instr_list)) = 0
      BY <1>3, <1>5, <1>8
    <2>2. \A k \in 1 .. mix.old : k - NewUpTo(k) = k
      BY <1>8
    <2> QED BY <1>2, <1>5, <1>6, <2>1, <2>2 DEF UncontainedOrder, OrderPreserved
  <1>10. RandomBehind
    BY <1>5, <1>6 DEF RandomBehind
  <1>11. IsPlacing([a \in 1..0 |-> 1])
    BY <1>2, <1>5, <1>6 DEF IsPlacing
  <1>12. FromLoops
    BY <1>1, LoopAssumption DEF FromLoops
  <1> QED BY <1>7, <1>9, <1>10, <1>11, <1>12 DEF MixInv

\* Sealing a stream leaves its names where they are.
LEMMA MixSeal == MixInv /\ Seal => MixInv'
  <1> SUFFICES ASSUME MixInv, Seal PROVE MixInv'
    OBVIOUS
  <1>0. Shape /\ RandomBehind /\ UncontainedOrder /\ FromLoops
    BY DEF MixInv
  <1>1. /\ new_instr' = new_instr /\ contained' = contained /\ i' = i /\ at' = at
        /\ sealed' = TRUE /\ i = N
    BY DEF Seal, Mixed, N
  <1>2. /\ DOMAIN instr_list' = DOMAIN instr_list
        /\ \A k \in DOMAIN instr_list :
              instr_list'[k] = [instr_list[k] EXCEPT !.atomic = TRUE,
                                                     !.has_label = HasText(instr_list[k])]
    BY DEF Seal
  <1>3. \A k \in DOMAIN instr_list : instr_list[k] \in Instr
    BY <1>0 DEF Shape
  <1>4. \A k \in DOMAIN instr_list :
          /\ instr_list'[k] \in Instr
          /\ instr_list'[k].role = instr_list[k].role
          /\ instr_list'[k].group = instr_list[k].group
    BY <1>2, <1>3 DEF Instr, HasText
  <1>5. instr_list' \in Seq(Instr) /\ Len(instr_list') = Len(instr_list)
    <2>1. Len(instr_list) \in Nat /\ DOMAIN instr_list = 1 .. Len(instr_list)
      BY <1>0 DEF Shape
    <2>2. instr_list' = [k \in 1 .. Len(instr_list) |-> instr_list'[k]]
      BY <2>1 DEF Seal
    <2>3. instr_list' \in [1 .. Len(instr_list) -> Instr]
      BY <1>4, <2>1, <2>2
    <2>4. instr_list' \in Seq(Instr)
      BY <2>1, <2>3, SeqDef
    <2>5. Len(instr_list') \in Nat /\ 1 .. Len(instr_list') = 1 .. Len(instr_list)
      <3>1. DOMAIN instr_list' = 1 .. Len(instr_list)
        BY <1>2, <2>1
      <3> QED BY <2>4, <3>1
    <2>6. Len(instr_list') = Len(instr_list)
      BY <2>1, <2>5
    <2> QED BY <2>4, <2>6
  <1>6. \A k \in DOMAIN instr_list : /\ IsNew(instr_list[k])' <=> IsNew(instr_list[k])
                                   /\ Name(instr_list[k])' = Name(instr_list[k])
    BY <1>4 DEF IsNew, IsRandom, Name
  <1>7. N' = N /\ OldCnt' = OldCnt
    BY <1>1, <1>5 DEF N, OldCnt
  <1>8. Shape'
    BY <1>0, <1>1, <1>5, <1>7 DEF Shape, Mixed, N
  <1>9. \A k \in DOMAIN instr_list : NewUpTo(k)' = NewUpTo(k)
    <2> TAKE k \in DOMAIN instr_list
    <2>1. 1..k \subseteq DOMAIN instr_list
      BY <1>0 DEF Shape
    <2>2. {j \in 1..k : IsNew(instr_list[j])'} = {j \in 1..k : IsNew(instr_list[j])}
      BY <1>6, <2>1
    <2> QED BY <2>2 DEF NewUpTo
  <1>10. UncontainedOrder'
    <2> SUFFICES ASSUME ~contained PROVE OrderPreserved'
      BY <1>1 DEF UncontainedOrder
    <2>1. OrderPreserved
      BY <1>0 DEF UncontainedOrder
    <2>2. NewUpTo(Len(instr_list))' = i'
      <3>1. 1 .. Len(instr_list) = DOMAIN instr_list
        BY <1>0 DEF Shape
      <3>2. {j \in 1 .. Len(instr_list) : IsNew(instr_list[j])'}
              = {j \in 1 .. Len(instr_list) : IsNew(instr_list[j])}
        BY <1>6, <3>1
      <3> QED BY <1>1, <1>5, <2>1, <3>2 DEF OrderPreserved, NewUpTo
    <2>3. ASSUME NEW k \in DOMAIN instr_list
          PROVE  IF IsNew(instr_list[k])'
                 THEN Name(instr_list[k])' = Name(new_instr[NewUpTo(k)'])
                 ELSE instr_list'[k].group = k - NewUpTo(k)'
      BY <1>4, <1>6, <1>9, <2>1 DEF OrderPreserved
    <2> QED BY <1>1, <1>2, <2>2, <2>3 DEF OrderPreserved, Name
  <1>11. RandomBehind'
    BY <1>0, <1>1, <1>2, <1>6 DEF RandomBehind
  <1>12. \E place : IsPlacing(place)'
    <2>1. PICK place : IsPlacing(place)
      BY DEF MixInv
    <2>2. \A a, b : MaySwap(a, b)' <=> MaySwap(a, b)
      BY <1>1, <1>7 DEF MaySwap
    <2>3. \A a : Name(new_instr[a])' = Name(new_instr[a])
      BY <1>1 DEF Name
    <2>4. \A a \in 1..i : Name(instr_list[place[a]])' = Name(instr_list[place[a]])
      BY <1>6, <2>1 DEF IsPlacing
    <2> QED BY <1>1, <1>2, <1>6, <1>7, <2>1, <2>2, <2>3, <2>4 DEF IsPlacing
  <1>13. FromLoops'
    BY <1>0, <1>1 DEF FromLoops
  <1> QED BY <1>8, <1>10, <1>11, <1>12, <1>13 DEF MixInv

\* Every step keeps the invariant.
LEMMA MixStep == MixInv /\ [Next]_vars => MixInv'
  <1> SUFFICES ASSUME MixInv, [Next]_vars PROVE MixInv'
    OBVIOUS
  <1>1. CASE Insert
    <2>1. Shape /\ RandomBehind /\ UncontainedOrder /\ FromLoops
      BY DEF MixInv
    <2>2. Shape' /\ RandomBehind' /\ UncontainedOrder'
      BY <1>1, <2>1, ShapeInsert, OrderInsert
    <2>3. PICK place : IsPlacing(place)
      BY DEF MixInv
    <2>4. \E q : IsPlacing(q)'
      BY <1>1, <2>1, <2>3, PlacesInsert
    <2>5. FromLoops'
      BY <1>1, <2>1 DEF FromLoops, Insert, InsertInstr
    <2> QED BY <2>2, <2>4, <2>5 DEF MixInv
  <1>2. CASE Seal
    BY <1>2, MixSeal
  <1>3. CASE UNCHANGED vars
    <2>1. UNCHANGED <<instr_list, new_instr, contained, i, at, sealed>>
      BY <1>3 DEF vars, mixVars
    <2>2. Shape' /\ RandomBehind' /\ FromLoops'
      BY <2>1 DEF MixInv, Shape, RandomBehind, FromLoops, OldCnt, N, Mixed
    <2>3. UncontainedOrder'
      BY <2>1 DEF MixInv, UncontainedOrder, OrderPreserved, NewUpTo, Name, IsNew, IsRandom
    <2>4. \A place : IsPlacing(place) => IsPlacing(place)'
      BY <2>1 DEF IsPlacing, N, MaySwap, Name, IsNew, IsRandom
    <2> QED BY <2>2, <2>3, <2>4 DEF MixInv
  <1> QED BY <1>1, <1>2, <1>3 DEF Next

\* The invariant holds in every state.
THEOREM MixInductive == Spec => []MixInv
  BY MixInitially, MixStep, PTL DEF Spec

\* mix_instr_stream keeps the order of the stream it mixes in and of the random
\* instructions, for streams of any length in lists of any length, unless "contained" is
\* set.
THEOREM OrderIsKept == Spec => []UncontainedOrder
  <1>1. MixInv => UncontainedOrder
    BY DEF MixInv
  <1> QED BY <1>1, MixInductive, PTL

-----------------------------------------------------------------------------
(* Loops *)

\* Every instruction with the second name is behind one with the first, and not one of
\* the two that may change places.
Precedes(first, second) ==
    /\ \E c \in 1..N : Name(new_instr[c]) = second
    /\ \A c \in 1..N : Name(new_instr[c]) = second =>
          \E a \in 1..N : a < c /\ Name(new_instr[a]) = first /\ ~(c = N /\ a = N - 1)

Places(name) == {k \in DOMAIN instr_list : Name(instr_list[k]) = name}

\* What precedes in the stream precedes in the list it is mixed into.
LEMMA PlaceBefore ==
    ASSUME MixInv, Mixed, NEW role, NEW second, NEW l,
           role # "random", second # "random", Precedes(<<role, l>>, <<second, l>>)
    PROVE  Place(role, l) < Place(second, l)
  <1> DEFINE P == Places(<<role, l>>)
             Q == Places(<<second, l>>)
  <1>1. PICK place : IsPlacing(place)
    BY DEF MixInv
  <1>2. i = N /\ N \in Nat /\ DOMAIN instr_list \subseteq Nat
    BY DEF MixInv, Shape, Mixed, N
  <1>3. /\ \A a \in 1..N : place[a] \in DOMAIN instr_list
        /\ \A a \in 1..N : Name(instr_list[place[a]]) = Name(new_instr[a])
        /\ \A k \in DOMAIN instr_list : IsNew(instr_list[k]) => \E a \in 1..N : place[a] = k
        /\ \A a, b \in 1..N : a < b => place[a] < place[b] \/ MaySwap(a, b)
    BY <1>1, <1>2 DEF IsPlacing
  <1>4. ASSUME NEW k \in Q PROVE \E m \in P : m < k
    <2>1. k \in DOMAIN instr_list /\ Name(instr_list[k]) = <<second, l>>
      BY DEF Places
    <2>2. IsNew(instr_list[k])
      BY <2>1 DEF Name, IsNew, IsRandom
    <2>3. PICK c \in 1..N : place[c] = k
      BY <1>3, <2>1, <2>2
    <2>4. Name(new_instr[c]) = <<second, l>>
      BY <1>3, <2>1, <2>3
    <2>5. PICK a \in 1..N : a < c /\ Name(new_instr[a]) = <<role, l>> /\ ~(c = N /\ a = N - 1)
      BY <2>4 DEF Precedes
    <2>6. place[a] < place[c]
      BY <1>3, <2>5 DEF MaySwap
    <2>7. place[a] \in P
      BY <1>3, <2>5 DEF Places
    <2> QED BY <2>3, <2>6, <2>7
  <1>5. Q # {}
    <2>1. PICK c \in 1..N : Name(new_instr[c]) = <<second, l>>
      BY DEF Precedes
    <2>2. place[c] \in Q
      BY <1>3, <2>1 DEF Places
    <2> QED BY <2>2
  <1>6. P # {} /\ P \subseteq Nat /\ Q \subseteq Nat
    BY <1>2, <1>4, <1>5 DEF Places
  <1>7. /\ Place(role, l) = CHOOSE k \in P : \A m \in P : k <= m
        /\ Place(second, l) = CHOOSE k \in Q : \A m \in Q : k <= m
    <2>1. \A r : Places(<<r, l>>) =
                   {k \in DOMAIN instr_list : instr_list[k].role = r /\ instr_list[k].group = l}
      BY DEF Places, Name
    <2> QED BY <2>1 DEF Place
  <1> HIDE DEF P, Q
  <1>8. PICK p : p = Place(role, l) /\ p \in P /\ \A m \in P : p <= m
    BY <1>6, <1>7, LeastNat
  <1>9. PICK q : q = Place(second, l) /\ q \in Q
    <2>1. \E k \in Q : \A m \in Q : k <= m
      BY <1>5, <1>6, LeastNat
    <2> QED BY <1>7, <2>1
  <1>10. PICK m \in P : m < q
    BY <1>4, <1>9
  <1>11. p \in Nat /\ q \in Nat /\ m \in Nat /\ p <= m
    BY <1>6, <1>8, <1>9
  <1> QED BY <1>8, <1>9, <1>10, <1>11

\* Where the second of two joined lists stands
LEMMA SecondPart ==
    ASSUME NEW s \in Seq(Instr), NEW t \in Seq(Instr), NEW k \in 1 .. Len(t)
    PROVE  (s \o t)[Len(s) + k] = t[k]
  <1> DEFINE m == Len(s)
             n == Len(t)
             u == s \o t
  <1>1. \A j \in 1 .. m + n : u[j] = IF j <= m THEN s[j] ELSE t[j - m]
    BY ConcatProperties
  <1>2. m \in Nat /\ n \in Nat /\ k \in 1..n
    OBVIOUS
  <1> HIDE DEF m, n, u
  <1>3. m + k \in 1 .. m + n /\ ~(m + k <= m) /\ (m + k) - m = k
    BY <1>2
  <1>4. u[m + k] = t[(m + k) - m]
    BY <1>1, <1>3
  <1>5. u[m + k] = t[k]
    BY <1>3, <1>4
  <1> QED BY <1>5 DEF u, m

\* What one turn of build_loop_instr_stream appends
TurnOf(s, inner, n, l) ==
    LET m == Len(inner)
    IN  /\ s \in Seq(Instr) /\ Len(s) = m + 6
        /\ \A k \in 1..m : s[k] = inner[k]
        /\ s[m + 1] = Key("init", l) /\ s[m + 2] = Key("limit", l)
        /\ s[m + 3] = Key("target", l) /\ s[m + 4] = Key("update", l)
        /\ s[m + 5] = s[n] /\ s[m + 6] = Key("branch", l)

\* A turn is the list so far, a loop's opening, a repeated instruction and the branch.
LEMMA TurnAppends ==
    ASSUME NEW inner \in Seq(Instr), NEW l \in Nat, NEW n \in 1 .. Len(inner) + 4
    PROVE  TurnOf(Turn(n, inner, l), inner, n, l)
  <1> DEFINE m == Len(inner)
             opened == inner \o Opening(l)
             last == <<opened[n], Key("branch", l)>>
  <1>1. \A r \in Role : Key(r, l) \in Instr
    BY DEF Key, Instr
  <1>2. /\ Opening(l) \in Seq(Instr) /\ Len(Opening(l)) = 4
        /\ Opening(l)[1] = Key("init", l) /\ Opening(l)[2] = Key("limit", l)
        /\ Opening(l)[3] = Key("target", l) /\ Opening(l)[4] = Key("update", l)
    <2>1. "init" \in Role /\ "limit" \in Role /\ "target" \in Role /\ "update" \in Role
      BY DEF Role
    <2>2. /\ Key("init", l) \in Instr /\ Key("limit", l) \in Instr
          /\ Key("target", l) \in Instr /\ Key("update", l) \in Instr
      BY <1>1, <2>1
    <2> QED BY <2>2 DEF Opening
  <1>3. m \in Nat
    OBVIOUS
  <1>4. opened \in Seq(Instr) /\ Len(opened) = m + 4
    <2>1. opened \in Seq(Instr) /\ Len(opened) = Len(inner) + Len(Opening(l))
      BY <1>2, ConcatProperties
    <2> QED BY <1>2, <2>1
  <1>5. \A k \in 1..m : opened[k] = inner[k]
    BY <1>2, ConcatProperties
  <1>6. /\ opened[m + 1] = Key("init", l) /\ opened[m + 2] = Key("limit", l)
        /\ opened[m + 3] = Key("target", l) /\ opened[m + 4] = Key("update", l)
    <2>3. \A k \in 1..4 : opened[m + k] = Opening(l)[k]
      BY <1>2, SecondPart
    <2> HIDE DEF opened, m
    <2>4. 1 \in 1..4 /\ 2 \in 1..4 /\ 3 \in 1..4 /\ 4 \in 1..4
      OBVIOUS
    <2> QED BY <1>2, <2>3, <2>4
  <1> HIDE DEF opened, m
  <1>7. last \in Seq(Instr) /\ Len(last) = 2 /\ last[1] = opened[n] /\ last[2] = Key("branch", l)
    <2>1. opened[n] \in Instr
      BY <1>4 DEF m
    <2>2. Key("branch", l) \in Instr
      BY <1>1 DEF Role
    <2> QED BY <2>1, <2>2
  <1> HIDE DEF last
  <1> DEFINE s == opened \o last
  <1>8. s \in Seq(Instr) /\ Len(s) = m + 6
    <2>1. s \in Seq(Instr) /\ Len(s) = Len(opened) + Len(last)
      BY <1>4, <1>7, ConcatProperties
    <2> QED BY <1>3, <1>4, <1>7, <2>1
  <1>9. \A k \in 1 .. m + 4 : s[k] = opened[k]
    BY <1>3, <1>4, <1>7
  <1>10. s[m + 5] = last[1] /\ s[m + 6] = last[2]
    <2>1. \A k \in 1..2 : s[Len(opened) + k] = last[k]
      BY <1>4, <1>7, SecondPart
    <2> HIDE DEF s
    <2>2. s[m + 4 + 1] = last[1] /\ s[m + 4 + 2] = last[2]
      <3>1. 1 \in 1..2 /\ 2 \in 1..2
        OBVIOUS
      <3> QED BY <1>4, <2>1, <3>1
    <2>3. m + 4 + 1 = m + 5 /\ m + 4 + 2 = m + 6
      BY <1>3
    <2> QED BY <2>2, <2>3
  <1>11. Turn(n, inner, l) = s
    BY DEF Turn, opened, last
  <1> HIDE DEF s
  <1>12. n \in 1 .. m + 4 /\ \A k \in 1..m : k \in 1 .. m + 4
    BY <1>3 DEF m
  <1>13. /\ m + 1 \in 1 .. m + 4 /\ m + 2 \in 1 .. m + 4
         /\ m + 3 \in 1 .. m + 4 /\ m + 4 \in 1 .. m + 4
    BY <1>3
  <1>14. /\ s[m + 1] = Key("init", l) /\ s[m + 2] = Key("limit", l)
         /\ s[m + 3] = Key("target", l) /\ s[m + 4] = Key("update", l)
    BY <1>6, <1>9, <1>13
  <1>15. s[m + 5] = s[n] /\ s[m + 6] = Key("branch", l) /\ \A k \in 1..m : s[k] = inner[k]
    BY <1>5, <1>7, <1>9, <1>10, <1>12
  <1> QED BY <1>8, <1>11, <1>14, <1>15 DEF m, TurnOf

\* The two lists build_loop_instr_stream makes
LEMMA LoopLists ==
    LoopInstr[1] = Turn(1, <<>>, 0) /\ LoopInstr[2] = Turn(2, LoopInstr[1], 1)
  <1> DEFINE Eq(g) == g = [n \in 0..MaxNested |-> IF n = 0 THEN <<>>
                                                 ELSE Turn(n, g[n - 1], n - 1)]
             one == Turn(1, <<>>, 0)
             two == Turn(2, one, 1)
             f == [n \in 0..MaxNested |-> IF n = 0 THEN <<>> ELSE IF n = 1 THEN one ELSE two]
  <1>1. MaxNested = 2 /\ \A n \in 0..2 : n = 0 \/ n = 1 \/ n = 2
    BY DEF MaxNested
  <1>2. f[0] = <<>> /\ f[1] = one /\ f[2] = two
    <2> HIDE DEF one, two
    <2> QED BY <1>1
  <1>3. Eq(f)
    <2>1. \A n \in 0..MaxNested : f[n] = IF n = 0 THEN <<>> ELSE Turn(n, f[n - 1], n - 1)
      <3> TAKE n \in 0..MaxNested
      <3>1. CASE n = 0
        BY <1>2, <3>1
      <3>2. CASE n = 1
        <4>1. n - 1 = 0
          BY <3>2
        <4> HIDE DEF f
        <4> QED BY <1>2, <3>2, <4>1
      <3>3. CASE n = 2
        <4>1. n - 1 = 1
          BY <3>3
        <4> HIDE DEF f, one
        <4> QED BY <1>2, <3>3, <4>1
      <3> QED BY <1>1, <3>1, <3>2, <3>3
    <2>2. f = [n \in 0..MaxNested |-> f[n]]
      OBVIOUS
    <2> HIDE DEF f
    <2> QED BY <2>1, <2>2
  <1>4. LoopInstr = CHOOSE g : Eq(g)
    BY DEF LoopInstr
  <1>5. PICK h : h = LoopInstr /\ Eq(h)
    <2> HIDE DEF Eq, f
    <2> QED BY <1>3, <1>4
  <1>6. \A n \in 0..2 : h[n] = IF n = 0 THEN <<>> ELSE Turn(n, h[n - 1], n - 1)
    BY <1>1, <1>5
  <1>7. h[0] = <<>> /\ h[1] = Turn(1, h[0], 0) /\ h[2] = Turn(2, h[1], 1)
    <2>1. 0 \in 0..2 /\ 1 \in 0..2 /\ 2 \in 0..2 /\ 1 - 1 = 0 /\ 2 - 1 = 1
      OBVIOUS
    <2>2. h[1] = Turn(1, h[1 - 1], 1 - 1) /\ h[2] = Turn(2, h[2 - 1], 2 - 1)
      BY <1>6, <2>1
    <2> QED BY <1>6, <2>1, <2>2
  <1> QED BY <1>5, <1>7

\* A turn of the list: a loop's instructions from position m on
LoopAt(s, m, l) ==
    /\ Name(s[m + 1]) = <<"init", l>> /\ Name(s[m + 2]) = <<"limit", l>>
    /\ Name(s[m + 3]) = <<"target", l>> /\ Name(s[m + 4]) = <<"update", l>>
    /\ Name(s[m + 6]) = <<"branch", l>>

\* What the lists consist of: the fifth instruction repeats the first and the eleventh
\* the second.
LEMMA LoopNames ==
    /\ Len(LoopInstr[1]) = 6 /\ LoopAt(LoopInstr[1], 0, 0)
    /\ Name(LoopInstr[1][5]) = <<"init", 0>>
    /\ Len(LoopInstr[2]) = 12 /\ LoopAt(LoopInstr[2], 0, 0) /\ LoopAt(LoopInstr[2], 6, 1)
    /\ Name(LoopInstr[2][5]) = <<"init", 0>> /\ Name(LoopInstr[2][11]) = <<"limit", 0>>
  <1> DEFINE s == LoopInstr[1]
             t == LoopInstr[2]
             e == <<>>
  <1>1. \A r, l : Name(Key(r, l)) = <<r, l>>
    BY DEF Name, Key
  <1>2. e \in Seq(Instr) /\ Len(e) = 0
    BY EmptySeq
  <1>3. s = Turn(1, e, 0) /\ t = Turn(2, s, 1)
    BY LoopLists
  <1> HIDE DEF s, t, e
  <1>4. /\ s \in Seq(Instr) /\ Len(s) = 6
        /\ s[1] = Key("init", 0) /\ s[2] = Key("limit", 0)
        /\ s[3] = Key("target", 0) /\ s[4] = Key("update", 0)
        /\ s[5] = s[1] /\ s[6] = Key("branch", 0)
    <2>1. 1 \in 1 .. Len(e) + 4
      BY <1>2
    <2>2. /\ s \in Seq(Instr) /\ Len(s) = Len(e) + 6
          /\ s[Len(e) + 1] = Key("init", 0) /\ s[Len(e) + 2] = Key("limit", 0)
          /\ s[Len(e) + 3] = Key("target", 0) /\ s[Len(e) + 4] = Key("update", 0)
          /\ s[Len(e) + 5] = s[1] /\ s[Len(e) + 6] = Key("branch", 0)
      <3>1. TurnOf(Turn(1, e, 0), e, 1, 0)
        <4>1. e \in Seq(Instr) /\ 0 \in Nat
          BY <1>2
        <4> QED BY <2>1, <4>1, TurnAppends
      <3>2. TurnOf(s, e, 1, 0)
        BY <1>3, <3>1
      <3> QED BY <3>2 DEF TurnOf
    <2>3. /\ Len(e) + 1 = 1 /\ Len(e) + 2 = 2 /\ Len(e) + 3 = 3 /\ Len(e) + 4 = 4
          /\ Len(e) + 5 = 5 /\ Len(e) + 6 = 6
      BY <1>2
    <2> QED BY <2>2, <2>3
  <1>5. /\ Len(t) = 12 /\ \A k \in 1..6 : t[k] = s[k]
        /\ t[7] = Key("init", 1) /\ t[8] = Key("limit", 1)
        /\ t[9] = Key("target", 1) /\ t[10] = Key("update", 1)
        /\ t[11] = t[2] /\ t[12] = Key("branch", 1)
    <2>1. 2 \in 1 .. Len(s) + 4
      BY <1>4
    <2>2. /\ Len(t) = Len(s) + 6 /\ \A k \in 1 .. Len(s) : t[k] = s[k]
          /\ t[Len(s) + 1] = Key("init", 1) /\ t[Len(s) + 2] = Key("limit", 1)
          /\ t[Len(s) + 3] = Key("target", 1) /\ t[Len(s) + 4] = Key("update", 1)
          /\ t[Len(s) + 5] = t[2] /\ t[Len(s) + 6] = Key("branch", 1)
      <3>1. TurnOf(Turn(2, s, 1), s, 2, 1)
        BY <1>4, <2>1, TurnAppends
      <3>2. TurnOf(t, s, 2, 1)
        BY <1>3, <3>1
      <3> QED BY <3>2 DEF TurnOf
    <2>3. /\ Len(s) + 1 = 7 /\ Len(s) + 2 = 8 /\ Len(s) + 3 = 9 /\ Len(s) + 4 = 10
          /\ Len(s) + 5 = 11 /\ Len(s) + 6 = 12
      BY <1>4
    <2> QED BY <1>4, <2>2, <2>3
  <1>6. /\ t[1] = s[1] /\ t[2] = s[2] /\ t[3] = s[3] /\ t[4] = s[4]
        /\ t[5] = s[5] /\ t[6] = s[6]
    BY <1>5
  <1>7. /\ LoopAt(s, 0, 0) /\ Name(s[5]) = <<"init", 0>>
        /\ LoopAt(t, 0, 0) /\ Name(t[5]) = <<"init", 0>> /\ Name(t[11]) = <<"limit", 0>>
    BY <1>1, <1>4, <1>5, <1>6 DEF LoopAt
  <1>8. LoopAt(t, 6, 1)
    BY <1>1, <1>5 DEF LoopAt
  <1> QED BY <1>4, <1>5, <1>7, <1>8 DEF s, t

\* A loop's key instructions in their order
InLoopOrder(l) ==
    /\ Precedes(<<"init", l>>, <<"limit", l>>)
    /\ Precedes(<<"limit", l>>, <<"target", l>>)
    /\ Precedes(<<"target", l>>, <<"update", l>>)
    /\ Precedes(<<"update", l>>, <<"branch", l>>)

\* Each loop of a stream has its key instructions in order.
LEMMA LoopsInOrder ==
    ASSUME MixInv, NEW l \in Loops
    PROVE  InLoopOrder(l)
  <1>1. /\ new_instr \in Seq(Instr) /\ N \in Nat /\ DOMAIN new_instr = 1..N
    BY DEF MixInv, Shape, N
  <1>2. PICK c \in 1..N : new_instr[c] = Key("target", l)
    BY <1>1 DEF Loops
  <1>3. l \in {0, 1}
    BY DEF Loops, MaxNested
  <1>4. new_instr[c].role = "target" /\ Name(new_instr[c]) = <<"target", l>>
    BY <1>2 DEF Key, Name
  <1>5. PICK n \in 1..MaxNested : new_instr = LoopInstr[n]
    BY <1>1, <1>4 DEF MixInv, FromLoops
  <1>6. n = 1 \/ n = 2
    BY <1>5 DEF MaxNested
  <1>7. CASE n = 1
    <2> DEFINE At(k) == Name(new_instr[k])
    <2>1. /\ N = 6 /\ At(1) = <<"init", 0>> /\ At(2) = <<"limit", 0>>
          /\ At(3) = <<"target", 0>> /\ At(4) = <<"update", 0>>
          /\ At(5) = <<"init", 0>> /\ At(6) = <<"branch", 0>>
      BY <1>5, <1>7, LoopNames DEF LoopAt, N
    <2> HIDE DEF At
    <2>2. \A k \in 1..6 : k = 1 \/ k = 2 \/ k = 3 \/ k = 4 \/ k = 5 \/ k = 6
      OBVIOUS
    <2>3. l = 0
      BY <1>4, <2>1, <2>2 DEF At
    <2> QED BY <2>1, <2>2, <2>3 DEF InLoopOrder, Precedes, At
  <1>8. CASE n = 2
    <2> DEFINE At(k) == Name(new_instr[k])
    <2>1. /\ N = 12 /\ At(1) = <<"init", 0>> /\ At(2) = <<"limit", 0>>
          /\ At(3) = <<"target", 0>> /\ At(4) = <<"update", 0>>
          /\ At(5) = <<"init", 0>> /\ At(6) = <<"branch", 0>>
          /\ At(7) = <<"init", 1>> /\ At(8) = <<"limit", 1>>
          /\ At(9) = <<"target", 1>> /\ At(10) = <<"update", 1>>
          /\ At(11) = <<"limit", 0>> /\ At(12) = <<"branch", 1>>
      BY <1>5, <1>8, LoopNames DEF LoopAt, N
    <2> HIDE DEF At
    <2>2. \A k \in 1..12 : \/ k = 1 \/ k = 2 \/ k = 3 \/ k = 4 \/ k = 5 \/ k = 6
                          \/ k = 7 \/ k = 8 \/ k = 9 \/ k = 10 \/ k = 11 \/ k = 12
      OBVIOUS
    <2>3. CASE l = 0
      BY <2>1, <2>2, <2>3 DEF InLoopOrder, Precedes, At
    <2>4. CASE l = 1
      BY <2>1, <2>2, <2>4 DEF InLoopOrder, Precedes, At
    <2> QED BY <1>3, <2>3, <2>4
  <1> QED BY <1>6, <1>7, <1>8

\* However the positions fall, in a contained mix or not, each loop of a finished stream
\* sets its registers before its branch target and updates its counter between target and
\* branch (riscv_loop_instr.post_randomize).
THEOREM LoopsAreWhole == Spec => []LoopWhole
  <1>1. MixInv => LoopWhole
    <2> SUFFICES ASSUME MixInv, sealed, NEW l \in Loops
                 PROVE  /\ Place("init", l) < Place("limit", l)
                        /\ Place("limit", l) < Place("target", l)
                        /\ Place("target", l) < Place("update", l)
                        /\ Place("update", l) < Place("branch", l)
      BY DEF LoopWhole
    <2>1. Mixed /\ InLoopOrder(l)
      BY LoopsInOrder DEF MixInv, Shape
    <2> QED BY <2>1, PlaceBefore DEF InLoopOrder
  <1> QED BY <1>1, MixInductive, PTL
=============================================================================
