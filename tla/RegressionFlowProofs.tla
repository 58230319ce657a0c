------------------------ MODULE RegressionFlowProofs ------------------------
(***************************************************************************)
(* The safety properties of RegressionFlow for every test list, batch      *)
(* size, number of simulators and number of runs over one directory.       *)
(***************************************************************************)
EXTENDS RegressionFlow, RecursionLemmas

(* The inductive invariant: what each step of a run leaves for the next.   *)

\* A step of this run that is over
Over(s) ==
    /\ run > 0 /\ s \in steps
    /\ step \in Step => Position(s) < Position(step)
    /\ step = "idle" => status = "success"

\* What step s of this run has gone through
Handled(s) == IF step = s THEN Work(s) \ todo ELSE IF Over(s) THEN Work(s) ELSE {}

\* The steps of a run
InStep ==
    /\ step \in Step => run > 0 /\ step \in steps /\ status = "running"
    /\ step \in Step => todo \subseteq Work(step)
    /\ step = "idle" => status # "running" /\ todo = {}
    /\ run = 0 => status = "none"

\* Generator processes
JobsOK ==
    \A j \in jobs :
        /\ j.left \subseteq Programs(j.job)
        /\ j.state = "ok" => j.left = {}

Fresh(p) == asm[p] = run \/ p \in lost

WrittenByJobs == \A j \in jobs : j.run = run => \A p \in Programs(j.job) \ j.left : Fresh(p)

GeneratedSoFar ==  \A x \in Handled("gen") : \A p \in Programs(ProgOf(x)) : Fresh(p)

CompiledSoFar ==
    \A x \in Handled("gcc_compile") :
        /\ elf[ProgOf(x)] # 0
        /\ "gen" \in steps => elf[ProgOf(x)] = run \/ ProgOf(x) \in lost

SimulatedSoFar ==
    \A x \in Handled("iss_sim") : log[SimLog(x)] \in {elf[ProgOf(x)], Partial}

\* Without LSF
Stopped == status \in {"exit_fail", "exit130"}

OneJobAtATime ==
    ~Lsf => \A j \in jobs : j.run = run =>
        \/ Stopped /\ step = "idle"
        \/ /\ step = "gen" /\ todo # {} /\ j.job = ProgOf(First)
           /\ \A i \in jobs : i.run = run => i = j

SeedsBehindLast == ~Lsf /\ Seeded /\ step = "gen" /\ todo = {} => seeds = run

FlowInv ==
    /\ TypeOK /\ InStep /\ JobsOK /\ WrittenByJobs /\ GeneratedSoFar
    /\ CompiledSoFar /\ SimulatedSoFar /\ OneJobAtATime /\ SeedsBehindLast /\ SeedsMatch

-----------------------------------------------------------------------------
(* Where a step begins: the first item *)

\* The order in which a step goes through its items
Before(x, y) == \E n \in 1..3 : x[n] < y[n] /\ \A m \in 1 .. n - 1 : x[m] = y[m]

\* Of a non-empty set of items, one has the least number.
LEMMA LeastOf ==
    ASSUME NEW T, T # {}, NEW f \in [T -> Nat]
    PROVE  \E x \in T : \A y \in T : f[x] <= f[y]
  <1> DEFINE N == {f[x] : x \in T}
  <1>1. N \in SUBSET Nat /\ N # {}
    OBVIOUS
  <1>2. PICK m \in N : \A k \in N : m <= k
    <2> HIDE DEF N
    <2> QED BY <1>1, LeastNat
  <1> QED BY <1>2

\* A non-empty set of items has one that comes before all others, the first item of a step.
LEMMA LeastItem ==
    ASSUME NEW T \in SUBSET (Nat \X Nat \X Nat), T # {}
    PROVE  \E x \in T : \A y \in T : y = x \/ Before(x, y)
  <1> DEFINE Component(S, n) == [x \in S |-> x[n]]
  <1>0. \A S \in SUBSET T :
            /\ Component(S, 1) \in [S -> Nat] /\ Component(S, 2) \in [S -> Nat]
            /\ Component(S, 3) \in [S -> Nat]
    OBVIOUS
  <1>1. PICK u \in T : \A y \in T : u[1] <= y[1]
    <2>1. PICK u \in T : \A y \in T : Component(T, 1)[u] <= Component(T, 1)[y]
      <3> HIDE DEF Component
      <3> QED BY <1>0, LeastOf
    <2> QED BY <2>1
  <1> DEFINE U == {y \in T : y[1] = u[1]}
  <1>2. PICK v \in U : \A y \in U : v[2] <= y[2]
    <2>1. U # {} /\ U \in SUBSET T
      OBVIOUS
    <2>2. PICK v \in U : \A y \in U : Component(U, 2)[v] <= Component(U, 2)[y]
      <3> HIDE DEF Component, U
      <3> QED BY <1>0, <2>1, LeastOf
    <2> QED BY <2>2
  <1> DEFINE V == {y \in U : y[2] = v[2]}
  <1>3. PICK x \in V : \A y \in V : x[3] <= y[3]
    <2>1. V # {} /\ V \in SUBSET T
      OBVIOUS
    <2>2. PICK x \in V : \A y \in V : Component(V, 3)[x] <= Component(V, 3)[y]
      <3> HIDE DEF Component, V
      <3> QED BY <1>0, <2>1, LeastOf
    <2> QED BY <2>2
  <1> DEFINE a == u[1]
             b == v[2]
             c == x[3]
  <1>4. x \in T /\ x[1] = a /\ x[2] = b /\ x[3] = c
    OBVIOUS
  <1>5. ASSUME NEW y \in T PROVE y = x \/ Before(x, y)
    <2>0. /\ y = <<y[1], y[2], y[3]>> /\ y[1] \in Nat /\ y[2] \in Nat /\ y[3] \in Nat
          /\ x = <<x[1], x[2], x[3]>> /\ x[1] \in Nat /\ x[2] \in Nat /\ x[3] \in Nat
      OBVIOUS
    <2>1. a <= y[1]
      BY <1>1
    <2>2. y[1] = a => b <= y[2]
      BY <1>2
    <2>3. y[1] = a /\ y[2] = b => c <= y[3]
      BY <1>3
    <2>4. CASE a < y[1]
      <3>1. \A m \in 1 .. 1 - 1 : x[m] = y[m]
        OBVIOUS
      <3> QED BY <1>4, <2>4, <3>1 DEF Before
    <2>5. CASE y[1] = a /\ b < y[2]
      <3>1. \A m \in 1 .. 2 - 1 : m = 1
        OBVIOUS
      <3> QED BY <1>4, <2>5, <3>1 DEF Before
    <2>6. CASE y[1] = a /\ y[2] = b /\ c < y[3]
      <3>1. \A m \in 1 .. 3 - 1 : m = 1 \/ m = 2
        OBVIOUS
      <3> QED BY <1>4, <2>6, <3>1 DEF Before
    <2> QED BY <1>4, <2>0, <2>1, <2>2, <2>3, <2>4, <2>5, <2>6
  <1> QED BY <1>5

\* A step takes one of the items it still has to go through.
LEMMA FirstInTodo ==
    ASSUME todo \subseteq Nat \X Nat \X Nat, todo # {}
    PROVE  First \in todo
  <1>1. First = CHOOSE x \in todo : \A y \in todo : y = x \/ Before(x, y)
    BY DEF First, Before
  <1> QED BY <1>1, LeastItem

-----------------------------------------------------------------------------
(* The test list, its programs and batches *)

TestEntry == [iterations : Nat \ {0}, csr : BOOLEAN, no_gcc : BOOLEAN, no_iss : BOOLEAN]

\* What the options of the command line are made of: the tests that are selected, their
\* entries in the test list, and the batch size.
LEMMA ArgsType ==
    ASSUME args \in Options
    PROVE  /\ TestList \in Seq(TestEntry) /\ Test # {} /\ Test \subseteq Nat
           /\ \A k \in Test : TestList[k] \in TestEntry
           /\ BatchSize \in Nat /\ IssCnt \in Nat \ {0} /\ Lsf \in BOOLEAN
  <1>1. /\ TestList \in Seq(TestEntry) /\ Len(TestList) > 0
        /\ BatchSize \in Nat /\ IssCnt \in Nat \ {0} /\ Lsf \in BOOLEAN
    BY FlowAssumption DEF TestList, TestEntry, BatchSize, IssCnt, Lsf
  <1>2. Len(TestList) \in Nat /\ \A k \in 1 .. Len(TestList) : TestList[k] \in TestEntry
    <2> HIDE DEF TestEntry
    <2> QED BY <1>1
  <1> QED BY <1>1, <1>2 DEF Test

\* A test of positive length has a batch, and the last one is not empty.
LEMMA BatchCntType ==
    ASSUME args \in Options, NEW k \in Test
    PROVE  /\ BatchCnt(k) \in Nat \ {0}
           /\ BatchSize # 0 /\ ~TestList[k].csr =>
                 /\ (BatchCnt(k) - 1) * BatchSize < TestList[k].iterations
                 /\ TestList[k].iterations <= BatchCnt(k) * BatchSize
           /\ BatchSize = 0 \/ TestList[k].csr => BatchCnt(k) = 1
  <1> DEFINE i == TestList[k].iterations
             b == BatchSize
  <1>1. i \in Nat \ {0} /\ b \in Nat /\ TestList[k].csr \in BOOLEAN
    BY ArgsType DEF TestEntry
  <1>2. CASE b = 0 \/ TestList[k].csr
    BY <1>1, <1>2 DEF BatchCnt
  <1>3. CASE b # 0 /\ ~TestList[k].csr
    <2> DEFINE q == (i + b - 1) \div b
    <2>1. BatchCnt(k) = q
      BY <1>3 DEF BatchCnt
    <2> HIDE DEF i, b
    <2>2. /\ q \in Int /\ b * q <= i + b - 1 /\ i + b - 1 < b * q + b
      BY <1>1, <1>3
    <2>3. q > 0
      <3> SUFFICES ASSUME q <= 0 PROVE FALSE
        BY <2>2
      <3> HIDE DEF q
      <3>1. b * q <= 0
        BY <1>1, <2>2
      <3> QED BY <1>1, <2>2, <3>1
    <2> HIDE DEF q
    <2>4. (q - 1) * b = b * q - b /\ q * b = b * q
      BY <1>1, <2>2
    <2> QED BY <1>1, <1>3, <2>1, <2>2, <2>3, <2>4 DEF i, b
  <1> QED BY <1>2, <1>3

\* A program is a test and the number of one of its iterations.
LEMMA ProgOfTest == \A p : p \in Prog <=>
                        \E k \in Test : \E i \in 0 .. TestList[k].iterations - 1 : p = <<k, i>>
  BY DEF Prog

\* A generator process is a test and the number of one of its batches.
LEMMA JobOfTest == \A j : j \in Job <=>
                       \E k \in Test : \E b \in 0 .. BatchCnt(k) - 1 : j = <<k, b>>
  BY DEF Job

\* No batch goes beyond its test.
LEMMA BatchInTest == ASSUME args \in Options, NEW j \in Job PROVE Programs(j) \subseteq Prog
  <1>0. PICK k \in Test : \E b \in 0 .. BatchCnt(k) - 1 : j = <<k, b>>
    BY JobOfTest
  <1>1. PICK b \in 0 .. BatchCnt(k) - 1 : j = <<k, b>>
    BY <1>0
  <1>2. /\ BatchCnt(k) \in Nat \ {0} /\ BatchSize \in Nat
        /\ TestList[k].iterations \in Nat \ {0} /\ b \in Nat
    BY BatchCntType, ArgsType DEF TestEntry
  <1>3. CASE TestList[k].csr
    BY <1>1, <1>3, ProgOfTest DEF Programs
  <1>4. CASE ~TestList[k].csr
    <2> DEFINE i == TestList[k].iterations
               s == BatchSize
               c == BatchCnt(k)
    <2>1. Programs(j) = {<<k, n + b * s>> : n \in 0 .. TestCnt(j) - 1}
      BY <1>1, <1>4 DEF Programs
    <2>2. TestCnt(j) = IF b < c - 1 THEN s ELSE i - b * s
      BY <1>1 DEF TestCnt
    <2>3. ASSUME NEW n \in 0 .. TestCnt(j) - 1 PROVE n + b * s \in 0 .. i - 1
      <3>0. b * s \in Nat
        BY <1>2
      <3>1. CASE b < c - 1
        <4>1. s # 0
          BY <1>2, <2>2, <2>3, <3>1
        <4>2. (c - 1) * s < i
          BY <1>4, <4>1, BatchCntType
        <4>3. b * s + s <= (c - 1) * s
          <5>1. (b + 1) * s <= (c - 1) * s
            <6> HIDE DEF i, s, c
            <6> DEFINE d == c - 1 - (b + 1)
            <6>1. d \in Nat /\ c - 1 = (b + 1) + d
              BY <1>2, <3>1 DEF c
            <6>2. (c - 1) * s = (b + 1) * s + d * s /\ d * s \in Nat /\ (b + 1) * s \in Nat
              <7> HIDE DEF d
              <7>1. s \in Nat
                BY <1>2 DEF s
              <7> QED BY <6>1, <7>1
            <6> QED BY <6>2
          <5> QED BY <1>2, <5>1
        <4>4. n < s /\ n \in Nat
          BY <1>2, <2>2, <2>3, <3>1
        <4> QED
          <5>1. (c - 1) * s \in Int
            BY <1>2
          <5> HIDE DEF i, s, c
          <5>2. s \in Nat /\ i \in Nat
            BY <1>2 DEF s, i
          <5> QED BY <3>0, <4>2, <4>3, <4>4, <5>1, <5>2
      <3>2. CASE ~(b < c - 1)
        <4>1. n \in 0 .. i - b * s - 1
          BY <2>2, <2>3, <3>2
        <4> HIDE DEF i, s, c
        <4> QED BY <1>2, <3>0, <4>1 DEF i
      <3> QED BY <3>1, <3>2
    <2> QED BY <2>1, <2>3, ProgOfTest
  <1> QED BY <1>2, <1>3, <1>4, ArgsType DEF TestEntry

\* The batches of a test make up the whole of it.
LEMMA BatchesCover ==
    ASSUME args \in Options, NEW p \in Prog
    PROVE  \E j \in Job : p \in Programs(j)
  <1>0. PICK k \in Test : \E n \in 0 .. TestList[k].iterations - 1 : p = <<k, n>>
    BY ProgOfTest
  <1>1. PICK n \in 0 .. TestList[k].iterations - 1 : p = <<k, n>>
    BY <1>0
  <1> DEFINE i == TestList[k].iterations
             s == BatchSize
             c == BatchCnt(k)
  <1>2. c \in Nat \ {0} /\ s \in Nat /\ i \in Nat \ {0} /\ n \in Nat /\ n < i
    BY BatchCntType, ArgsType DEF TestEntry
  <1>3. CASE TestList[k].csr
    <2>1. <<k, 0>> \in Job
      BY <1>2, JobOfTest
    <2> QED BY <1>1, <1>3, <2>1 DEF Programs
  <1>4. CASE ~TestList[k].csr /\ s = 0
    <2>1. c = 1 /\ <<k, 0>> \in Job
      BY <1>2, <1>4, BatchCntType, JobOfTest
    <2>2. TestCnt(<<k, 0>>) = i
      BY <1>2, <1>4, <2>1 DEF TestCnt
    <2>3. Programs(<<k, 0>>) = {<<k, m + 0 * s>> : m \in 0 .. i - 1}
      BY <1>4, <2>2 DEF Programs
    <2>4. n = n + 0 * s
      BY <1>2
    <2> QED BY <1>1, <2>1, <2>3, <2>4
  <1>5. CASE ~TestList[k].csr /\ s # 0
    <2> DEFINE b == n \div s
               r == n % s
               j == <<k, b>>
    <2>0. s > 0
      BY <1>2, <1>5
    <2>1. b \in Nat /\ r \in 0 .. s - 1 /\ n = s * b + r
      <3> HIDE DEF s, i, c
      <3> QED BY <1>2, <2>0
    <2>2. (c - 1) * s < i /\ i <= c * s
      BY <1>5, BatchCntType
    <2> HIDE DEF b, r
    <2>3. b < c
      <3> SUFFICES ASSUME c <= b PROVE FALSE
        BY <1>2, <2>1
      <3> DEFINE d == b - c
      <3> HIDE DEF s, i, c
      <3>1. d \in Nat /\ b = c + d
        BY <1>2, <2>1
      <3> HIDE DEF d
      <3>2. s * b = s * c + s * d /\ s * c = c * s /\ s * d \in Nat /\ s * c \in Nat
        BY <1>2, <2>1, <3>1
      <3> QED BY <1>2, <2>1, <2>2, <3>2
    <2>4. j \in Job
      BY <1>2, <2>1, <2>3, JobOfTest
    <2>5. TestCnt(j) = IF b < c - 1 THEN s ELSE i - b * s
      BY DEF TestCnt
    <2>6. r \in 0 .. TestCnt(j) - 1
      <3>1. b * s = s * b /\ b * s \in Nat
        <4> HIDE DEF s, i, c
        <4> QED BY <1>2, <2>1
      <3> HIDE DEF s, i, c
      <3> QED BY <1>2, <2>1, <2>5, <3>1
    <2>7. n = r + b * s
      <3> HIDE DEF s, i, c
      <3> QED BY <1>2, <2>1
    <2>8. Programs(j) = {<<k, m + b * s>> : m \in 0 .. TestCnt(j) - 1}
      BY <1>5 DEF Programs
    <2> QED BY <1>1, <2>4, <2>6, <2>7, <2>8
  <1> QED BY <1>2, <1>3, <1>4, <1>5, ArgsType DEF TestEntry

-----------------------------------------------------------------------------
(* What stays the same while the test list does *)

\* With the same options, a run has the same programs, processes and items of work.
LEMMA SameArgs ==
    ASSUME args' = args
    PROVE  /\ Test' = Test /\ Iss' = Iss /\ Prog' = Prog /\ Job' = Job
           /\ Lsf' = Lsf /\ Seeded' = Seeded /\ IssCnt' = IssCnt
           /\ Compiled' = Compiled /\ Simulated' = Simulated
           /\ \A j : Programs(j)' = Programs(j)
           /\ \A s : Work(s)' = Work(s)
  <1>1. /\ TestList' = TestList /\ BatchSize' = BatchSize
        /\ IssCnt' = IssCnt /\ Lsf' = Lsf
    BY DEF TestList, BatchSize, IssCnt, Lsf
  <1>2. Test' = Test /\ Iss' = Iss
    BY <1>1 DEF Test, Iss
  <1>3. Prog' = Prog
    BY <1>1, <1>2 DEF Prog
  <1>4. \A k : BatchCnt(k)' = BatchCnt(k)
    BY <1>1 DEF BatchCnt
  <1>5. Job' = Job
    BY <1>2, <1>4 DEF Job
  <1>6. \A j : TestCnt(j)' = TestCnt(j)
    BY <1>1, <1>4 DEF TestCnt
  <1>7. \A j : Programs(j)' = Programs(j)
    BY <1>1, <1>6 DEF Programs
  <1>8. Seeded' = Seeded
    BY <1>1, <1>2 DEF Seeded
  <1>9. Compiled' = Compiled /\ Simulated' = Simulated
    BY <1>1, <1>3 DEF Compiled, Simulated
  <1>10. \A s : Work(s)' = Work(s)
    BY <1>1, <1>2, <1>3, <1>5 DEF Work
  <1> QED BY <1>1, <1>2, <1>3, <1>5, <1>7, <1>8, <1>9, <1>10

\* The first item depends on what is left to do only.
LEMMA SameFirst == ASSUME todo' = todo PROVE First' = First
  BY DEF First

-----------------------------------------------------------------------------
(* The order of the steps *)

\* The four steps in the order main gives them.
LEMMA StepNumbers ==
    /\ Step = {"gen", "gcc_compile", "iss_sim", "iss_cmp"}
    /\ Position("gen") = 1 /\ Position("gcc_compile") = 2
    /\ Position("iss_sim") = 3 /\ Position("iss_cmp") = 4
  <1>1. /\ StepOrder[1] = "gen" /\ StepOrder[2] = "gcc_compile"
        /\ StepOrder[3] = "iss_sim" /\ StepOrder[4] = "iss_cmp"
    BY DEF StepOrder
  <1>2. \A n \in 1..4 : n = 1 \/ n = 2 \/ n = 3 \/ n = 4
    OBVIOUS
  <1>3. ASSUME NEW s, NEW n \in 1..4, StepOrder[n] = s,
               \A m \in 1..4 : StepOrder[m] = s => m = n
        PROVE  Position(s) = n
    BY <1>3 DEF Position
  <1>4. Position("gen") = 1
    BY <1>1, <1>2, <1>3
  <1>5. Position("gcc_compile") = 2
    BY <1>1, <1>2, <1>3
  <1>6. Position("iss_sim") = 3
    BY <1>1, <1>2, <1>3
  <1>7. Position("iss_cmp") = 4
    BY <1>1, <1>2, <1>3
  <1>8. Step = {"gen", "gcc_compile", "iss_sim", "iss_cmp"}
    BY <1>1, <1>2 DEF Step
  <1> QED BY <1>4, <1>5, <1>6, <1>7, <1>8

\* Behind position n comes the next chosen step, or none is left.
LEMMA NextChosen ==
    ASSUME NEW n \in 0..4, NEW chosen \in SUBSET Step, NEW s, s = StepBehind(n, chosen)
    PROVE  \/ /\ s \in chosen /\ n < Position(s)
              /\ \A t \in chosen : Position(t) <= n \/ Position(s) <= Position(t)
           \/ s = "idle" /\ \A t \in chosen : Position(t) <= n
  <1> DEFINE later == {m \in n + 1 .. 4 : StepOrder[m] \in chosen}
  <1>1. \A t \in Step : Position(t) \in 1..4 /\ StepOrder[Position(t)] = t
    BY StepNumbers DEF StepOrder
  <1>2. \A m \in 1..4 : StepOrder[m] \in Step /\ Position(StepOrder[m]) = m
    <2>1. \A m \in 1..4 : m = 1 \/ m = 2 \/ m = 3 \/ m = 4
      OBVIOUS
    <2> QED BY <2>1, StepNumbers DEF StepOrder
  <1>3. \A t \in chosen : n < Position(t) => Position(t) \in later
    BY <1>1
  <1>4. CASE later = {}
    <2>1. s = "idle"
      BY <1>4 DEF StepBehind
    <2>2. \A t \in chosen : Position(t) <= n
      BY <1>1, <1>3, <1>4
    <2> QED BY <2>1, <2>2
  <1>5. CASE later # {}
    <2> DEFINE m == CHOOSE m \in later : \A l \in later : m <= l
    <2>1. later \in SUBSET Nat
      OBVIOUS
    <2>2. \E l \in later : \A k \in later : l <= k
      <3> HIDE DEF later
      <3> QED BY <1>5, <2>1, LeastNat
    <2>3. m \in later /\ \A l \in later : m <= l
      <3> HIDE DEF later
      <3> QED BY <2>2
    <2>4. s = StepOrder[m]
      BY <1>5 DEF StepBehind
    <2> HIDE DEF m
    <2>5. s \in chosen /\ Position(s) = m /\ n < m
      BY <1>2, <2>3, <2>4
    <2>6. ASSUME NEW t \in chosen PROVE Position(t) <= n \/ m <= Position(t)
      BY <1>1, <1>3, <2>3
    <2> QED BY <2>5, <2>6
  <1> QED BY <1>4, <1>5

-----------------------------------------------------------------------------
(* The items of a step *)

\* An item of a step names a generator process or a program that exists.
LEMMA WorkType ==
    ASSUME args \in Options
    PROVE  /\ \A x \in Work("gen") : x = Item(1, ProgOf(x)) /\ ProgOf(x) \in Job
           /\ \A x \in Work("gcc_compile") : ProgOf(x) \in Prog
           /\ \A x \in Work("iss_sim") : x[1] \in Iss /\ ProgOf(x) \in Prog
           /\ \A x \in Work("iss_cmp") : ProgOf(x) \in Prog
           /\ \A s \in Step : Work(s) \subseteq (1 .. IssCnt + 1) \X Test \X Nat
  <1>0. \A n, j : ProgOf(Item(n, j)) = <<j[1], j[2]>> /\ Item(n, j)[1] = n
    BY DEF ProgOf, Item
  <1>1. \A j \in Job : j = <<j[1], j[2]>> /\ j[1] \in Test /\ j[2] \in Nat
    BY JobOfTest, BatchCntType
  <1>2. \A p \in Prog : p = <<p[1], p[2]>> /\ p[1] \in Test /\ p[2] \in Nat
    BY ProgOfTest, ArgsType DEF TestEntry
  <1>3. \A x \in Work("gen") : \E j \in Job : x = Item(1, j)
    BY DEF Work
  <1>4. \A x \in Work("gcc_compile") : \E p \in Prog : x = Item(1, p)
    BY DEF Work
  <1>5. \A x \in Work("iss_sim") : \E p \in Prog : \E n \in Iss : x = Item(n, p)
    BY DEF Work
  <1>6. \A x \in Work("iss_cmp") : \E p \in Prog : x = Item(1, p)
    BY DEF Work
  <1>7. \A n \in 1 .. IssCnt + 1 : \A j : j[1] \in Test /\ j[2] \in Nat =>
            Item(n, j) \in (1 .. IssCnt + 1) \X Test \X Nat
    BY DEF Item
  <1>8. 1 \in 1 .. IssCnt + 1 /\ \A n \in Iss : n \in 1 .. IssCnt + 1
    BY ArgsType DEF Iss
  <1>9. /\ \A x \in Work("gen") : x = Item(1, ProgOf(x)) /\ ProgOf(x) \in Job
        /\ \A x \in Work("gcc_compile") : ProgOf(x) \in Prog
        /\ \A x \in Work("iss_sim") : x[1] \in Iss /\ ProgOf(x) \in Prog
        /\ \A x \in Work("iss_cmp") : ProgOf(x) \in Prog
    BY <1>0, <1>1, <1>2, <1>3, <1>4, <1>5, <1>6
  <1>10. ASSUME NEW s \in Step, NEW x \in Work(s)
         PROVE  x \in (1 .. IssCnt + 1) \X Test \X Nat
    BY <1>1, <1>2, <1>3, <1>4, <1>5, <1>6, <1>7, <1>8, <1>10, StepNumbers
  <1> QED BY <1>9, <1>10

\* The first item is one of those left.
LEMMA FirstOK ==
    ASSUME TypeOK, todo # {}
    PROVE  First \in todo
  <1>0. IssCnt \in Nat /\ Test \subseteq Nat
    BY ArgsType DEF TypeOK
  <1>1. (1 .. IssCnt + 1) \X Test \X Nat \subseteq Nat \X Nat \X Nat
    <2>1. 1 .. IssCnt + 1 \subseteq Nat
      BY <1>0
    <2> QED BY <1>0, <2>1
  <1>2. todo \subseteq Nat \X Nat \X Nat
    BY <1>1 DEF TypeOK
  <1> QED BY <1>2, FirstInTodo

\* The two ways to leave an item behind
LEMMA NextItem ==
    ASSUME TypeOK, InStep, step \in Step, todo # {}
    PROVE  First \in todo /\ First \in Work(step)
  BY FirstOK DEF InStep

\* A run that waits for a generator process waits for one that is there.
LEMMA CurrentOK ==
    ASSUME TypeOK, WaitsForJob
    PROVE  /\ Current \in jobs /\ Current.run = run /\ Current.job = ProgOf(First)
           /\ Current.left \subseteq Prog
  <1>1. \E j \in jobs : j.run = run /\ j.job = ProgOf(First)
    BY DEF WaitsForJob, Started
  <1>2. Current \in jobs /\ Current.run = run /\ Current.job = ProgOf(First)
    BY <1>1 DEF Current
  <1> QED BY <1>2 DEF TypeOK

-----------------------------------------------------------------------------
(* Types *)

\* All the ways the position in a run changes
GoOn == todo' \subseteq todo /\ UNCHANGED <<args, run, steps, step, status>>

GiveUp ==
    /\ step \in Step /\ UNCHANGED <<args, run, steps>>
    /\ \E how \in {"exit_fail", "exit130", "crash"} : End(how)

\* Whatever happens, a step ends, a run starts or gives up, or a step goes on.
LEMMA Moves == ASSUME [Next]_vars PROVE StepDone \/ StartRun \/ GiveUp \/ GoOn
  <1>1. CASE StepDone \/ StartRun
    BY <1>1
  <1>2. CASE Interrupt
    BY <1>2 DEF Interrupt, GiveUp, End
  <1>3. CASE StartJobs
    BY <1>3 DEF StartJobs, GoOn
  <1>4. CASE CollectJob
    BY <1>4, StepNumbers DEF CollectJob, WaitsForJob, GiveUp, GoOn, End
  <1>5. CASE JobTimeout
    BY <1>5, StepNumbers DEF JobTimeout, WaitsForJob, GiveUp, GoOn, End
  <1>6. CASE CompileProgram
    BY <1>6 DEF CompileProgram, GoOn
  <1>7. CASE CompileFails
    BY <1>7, StepNumbers DEF CompileFails, GiveUp, End
  <1>8. CASE Simulate
    BY <1>8 DEF Simulate, GoOn
  <1>9. CASE SimulationFails
    BY <1>9, StepNumbers DEF SimulationFails, GiveUp, GoOn, End
  <1>10. CASE CompareLogs
    BY <1>10, StepNumbers DEF CompareLogs, GiveUp, GoOn, End
  <1>11. ASSUME NEW j \in jobs, JobEnds(j) PROVE GoOn
    BY <1>11 DEF JobEnds, GoOn
  <1>12. ASSUME NEW j \in jobs, NEW p \in j.left, WriteProgram(j, p) PROVE GoOn
    BY <1>12 DEF WriteProgram, GoOn
  <1>13. CASE UNCHANGED vars
    BY <1>13 DEF vars, GoOn
  <1> QED
    BY <1>1, <1>2, <1>3, <1>4, <1>5, <1>6, <1>7, <1>8, <1>9, <1>10, <1>11, <1>12, <1>13
       DEF Next, RunStep

\* All runs over the directory have the same options.
LEMMA ArgsStay == ASSUME [Next]_vars PROVE args' = args
  BY Moves DEF StepDone, StartRun, GiveUp, GoOn

\* Entering a step, or the end of the run
LEMMA EnterOK ==
    ASSUME TypeOK, args' = args, NEW n \in 0..4, NEW chosen \in SUBSET Step,
           Enter(StepBehind(n, chosen)), steps' = chosen, run' > 0
    PROVE  /\ InStep' /\ step' \in Step \cup {"idle"}
           /\ status' \in {"running", "success"}
           /\ todo' \subseteq ((1 .. IssCnt + 1) \X Test \X Nat)'
  <1> DEFINE s == StepBehind(n, chosen)
  <1>1. s \in Step \cup {"idle"} /\ (s \in Step => s \in chosen)
    BY NextChosen, StepNumbers
  <1>2. /\ step' = s /\ todo' = (IF s = "idle" THEN {} ELSE Work(s))
        /\ status' = (IF s = "idle" THEN "success" ELSE "running")
    BY DEF Enter
  <1>3. Test' = Test /\ IssCnt' = IssCnt /\ Work(s)' = Work(s)
    BY SameArgs
  <1> HIDE DEF s
  <1>4. Work(step') = Work(s) /\ Work(step)' = Work(s)
    BY <1>2, SameArgs
  <1>5. "idle" \notin Step
    BY StepNumbers
  <1>6. s \in Step => Work(s) \subseteq (1 .. IssCnt + 1) \X Test \X Nat
    BY WorkType DEF TypeOK
  <1>7. todo' \subseteq ((1 .. IssCnt + 1) \X Test \X Nat)'
    BY <1>1, <1>2, <1>3, <1>6
  <1> QED BY <1>1, <1>2, <1>4, <1>5, <1>7 DEF InStep

\* The bookkeeping of a run: the step it is in, and what that step has left.
LEMMA ControlOK ==
    ASSUME TypeOK, InStep, [Next]_vars
    PROVE  /\ InStep' /\ run' \in run..MaxRuns /\ run' \in 0..MaxRuns
           /\ steps' \subseteq Step /\ step' \in Step \cup {"idle"}
           /\ status' \in {"none", "running", "success", "exit_fail", "exit130", "crash"}
           /\ todo' \subseteq ((1 .. IssCnt + 1) \X Test \X Nat)'
  <1>0. /\ args' = args /\ run \in 0..MaxRuns /\ MaxRuns \in Nat
        /\ Step' = Step /\ "idle" \notin Step
    BY ArgsStay, FlowAssumption, StepNumbers DEF TypeOK, Step, StepOrder
  <1>5. /\ steps \in SUBSET Step /\ step \in Step \cup {"idle"}
        /\ status \in {"none", "running", "success", "exit_fail", "exit130", "crash"}
        /\ todo \subseteq (1 .. IssCnt + 1) \X Test \X Nat
    BY DEF TypeOK
  <1>1. CASE StepDone
    <2>0. Position(step) \in 0..4
      BY <1>1, StepNumbers DEF StepDone
    <2>1. /\ steps' = steps /\ run' = run /\ run > 0
          /\ Enter(StepBehind(Position(step), steps))
      BY <1>1 DEF StepDone, InStep
    <2>2. /\ InStep' /\ step' \in Step \cup {"idle"}
          /\ status' \in {"running", "success"}
          /\ todo' \subseteq ((1 .. IssCnt + 1) \X Test \X Nat)'
      BY <1>0, <1>5, <2>0, <2>1, EnterOK
    <2> QED BY <1>0, <1>5, <2>1, <2>2
  <1>2. CASE StartRun
    <2>1. PICK chosen \in SUBSET Step : /\ steps' = chosen
                                        /\ Enter(StepBehind(0, chosen))
      BY <1>2 DEF StartRun
    <2>2. run' = run + 1 /\ run < MaxRuns
      BY <1>2 DEF StartRun
    <2>3. run' > 0 /\ 0 \in 0..4
      BY <1>0, <2>2
    <2>4. /\ InStep' /\ step' \in Step \cup {"idle"}
          /\ status' \in {"running", "success"}
          /\ todo' \subseteq ((1 .. IssCnt + 1) \X Test \X Nat)'
      BY <1>0, <2>1, <2>3, EnterOK
    <2> QED BY <1>0, <2>1, <2>2, <2>4
  <1>3. CASE GiveUp
    <2>1. /\ step' = "idle" /\ todo' = {} /\ run' = run /\ steps' = steps
          /\ status' \in {"exit_fail", "exit130", "crash"}
      BY <1>3 DEF GiveUp, End
    <2>2. step \in Step
      BY <1>3 DEF GiveUp
    <2>3. InStep'
      BY <1>0, <2>1, <2>2 DEF InStep
    <2> QED BY <1>0, <1>5, <2>1, <2>3
  <1>4. CASE GoOn
    <2>1. /\ todo' \subseteq todo /\ run' = run /\ steps' = steps /\ step' = step
          /\ status' = status
      BY <1>4 DEF GoOn
    <2>2. Test' = Test /\ IssCnt' = IssCnt
      BY <1>0, SameArgs
    <2>3. Work(step)' = Work(step)
      BY <1>0, <2>1, SameArgs
    <2>4. todo' \subseteq ((1 .. IssCnt + 1) \X Test \X Nat)'
      BY <1>5, <2>1, <2>2
    <2>5. InStep'
      BY <2>1, <2>3 DEF InStep
    <2> QED BY <1>0, <1>5, <2>1, <2>4, <2>5
  <1> QED BY <1>1, <1>2, <1>3, <1>4, Moves

(* Each part of the state is changed by a few of the actions only. *)

\* What may happen to the generator processes.
LEMMA JobsChange ==
    ASSUME [Next]_vars
    PROVE  \/ jobs' \subseteq jobs
           \/ StartJobs
           \/ \E j \in jobs : JobEnds(j) \/ \E p \in j.left : WriteProgram(j, p)
  BY DEF Next, RunStep, vars, StepDone, StartRun, Interrupt, CollectJob, JobTimeout,
         CompileProgram, CompileFails, Simulate, SimulationFails, CompareLogs

\* Only a generator process writes an assembly file.
LEMMA AsmChanges ==
    ASSUME [Next]_vars
    PROVE  UNCHANGED asm \/ \E j \in jobs : \E p \in j.left : WriteProgram(j, p)
  BY DEF Next, RunStep, vars, files, StepDone, StartRun, Interrupt, StartJobs, JobEnds,
         CollectJob, JobTimeout, CompileProgram, CompileFails, Simulate,
         SimulationFails, CompareLogs

\* Only gen writes seed.yaml, when it starts its processes or collects one.
LEMMA SeedsChange ==
    ASSUME [Next]_vars
    PROVE  UNCHANGED seeds \/ StartJobs \/ CollectJob
  BY DEF Next, RunStep, vars, files, StepDone, StartRun, Interrupt, JobEnds,
         WriteProgram, JobTimeout, CompileProgram, CompileFails, Simulate,
         SimulationFails, CompareLogs

\* Only gcc_compile writes a binary.
LEMMA ElfChanges ==
    ASSUME [Next]_vars
    PROVE  UNCHANGED elf \/ CompileProgram
  BY DEF Next, RunStep, vars, files, StepDone, StartRun, Interrupt, StartJobs, JobEnds,
         WriteProgram, CollectJob, JobTimeout, CompileFails, Simulate,
         SimulationFails, CompareLogs

\* Only iss_sim writes a log.
LEMMA LogChanges ==
    ASSUME [Next]_vars
    PROVE  UNCHANGED log \/ Simulate \/ SimulationFails
  BY DEF Next, RunStep, vars, files, StepDone, StartRun, Interrupt, StartJobs, JobEnds,
         WriteProgram, CollectJob, JobTimeout, CompileProgram, CompileFails, CompareLogs

\* A program is lost to a process that ended early or that an earlier run left behind,
\* until the next run starts.
LEMMA LostChanges ==
    ASSUME [Next]_vars
    PROVE  \/ UNCHANGED lost \/ StartRun \/ CollectJob \/ JobTimeout
           \/ \E j \in jobs : \E p \in j.left : WriteProgram(j, p)
  BY DEF Next, RunStep, vars, files, StepDone, Interrupt, StartJobs, JobEnds,
         CompileProgram, CompileFails, Simulate, SimulationFails, CompareLogs

\* Only iss_cmp writes to the report.
LEMMA ReportChanges ==
    ASSUME [Next]_vars
    PROVE  report' \subseteq report \/ CompareLogs
  BY DEF Next, RunStep, vars, files, StepDone, StartRun, Interrupt, StartJobs, JobEnds,
         WriteProgram, CollectJob, JobTimeout, CompileProgram, CompileFails, Simulate,
         SimulationFails

\* Runs are counted one by one.
LEMMA RunGrows ==
    ASSUME TypeOK, InStep, [Next]_vars
    PROVE  /\ run \in Nat /\ run' \in Nat /\ run <= run'
           /\ run' = run \/ StartRun
           /\ StartRun => run' = run + 1
  <1>1. run \in 0..MaxRuns /\ MaxRuns \in Nat
    BY FlowAssumption DEF TypeOK
  <1>2. run' \in run..MaxRuns
    BY ControlOK
  <1>3. run' = run \/ StartRun
    BY Moves DEF StepDone, GiveUp, GoOn
  <1>4. StartRun => run' = run + 1
    BY DEF StartRun
  <1> QED BY <1>1, <1>2, <1>3, <1>4

\* No step changes which programs there are and what there is to do for them.
LEMMA SameProgs ==
    ASSUME [Next]_vars
    PROVE  /\ args' = args /\ Job' = Job /\ Prog' = Prog /\ Iss' = Iss /\ Lsf' = Lsf
           /\ Seeded' = Seeded /\ \A j : Programs(j)' = Programs(j)
           /\ \A s : Work(s)' = Work(s)
  BY ArgsStay, SameArgs

JobType == [run : 1..run, job : Job, left : SUBSET Prog,
            state : {"running", "ok", "fail", "signal"}]

\* Processes keep their types and write programs of their own batch only.
LEMMA JobsTypeOK ==
    ASSUME TypeOK, InStep, JobsOK, [Next]_vars
    PROVE  jobs' \subseteq JobType' /\ JobsOK'
  <1>0. /\ run' \in Nat /\ run \in Nat /\ run <= run'
        /\ Job' = Job /\ Prog' = Prog
        /\ \A j : Programs(j)' = Programs(j)
    BY RunGrows, SameProgs
  <1>1. jobs \subseteq JobType
    BY DEF TypeOK, JobType
  <1>2. JobType \subseteq JobType'
    BY <1>0 DEF JobType
  <1>3. CASE jobs' \subseteq jobs
    BY <1>0, <1>1, <1>2, <1>3 DEF JobsOK
  <1>4. CASE StartJobs
    <2>1. /\ step = "gen" /\ todo # {} /\ step \in Step /\ run' = run
          /\ jobs' \subseteq jobs \cup {NewJob(x) : x \in todo \cup {First}}
      BY <1>4, StepNumbers DEF StartJobs
    <2>2. First \in todo /\ todo \subseteq Work("gen") /\ run \in 1..run
      BY <1>0, <2>1, NextItem DEF InStep
    <2>3. ASSUME NEW x \in todo
          PROVE  /\ NewJob(x) \in JobType
                 /\ NewJob(x).left \subseteq Programs(NewJob(x).job)
                 /\ NewJob(x).state = "running"
      <3>1. ProgOf(x) \in Job
        BY <2>2, <2>3, WorkType DEF TypeOK
      <3>2. Programs(ProgOf(x)) \subseteq Prog
        BY <3>1, BatchInTest DEF TypeOK
      <3> QED BY <2>2, <3>1, <3>2 DEF NewJob, JobType
    <2> QED BY <1>0, <1>1, <1>2, <2>1, <2>2, <2>3 DEF JobsOK
  <1>5. ASSUME NEW j \in jobs, JobEnds(j) PROVE jobs' \subseteq JobType' /\ JobsOK'
    <2>1. PICK how \in {"ok", "fail", "signal"} :
              /\ how = "ok" => j.left = {}
              /\ jobs' \subseteq jobs \cup {[j EXCEPT !.state = how]}
      BY <1>5 DEF JobEnds
    <2> DEFINE i == [j EXCEPT !.state = how]
    <2>2. /\ i \in JobType /\ i.left = j.left /\ i.job = j.job
          /\ i.state = how
      BY <1>1 DEF JobType
    <2> QED BY <1>0, <1>1, <1>2, <2>1, <2>2 DEF JobsOK
  <1>6. ASSUME NEW j \in jobs, NEW p \in j.left, WriteProgram(j, p)
        PROVE  jobs' \subseteq JobType' /\ JobsOK'
    <2> DEFINE i == [j EXCEPT !.left = @ \ {p}]
    <2>1. jobs' \subseteq jobs \cup {i} /\ j.state = "running"
      BY <1>6 DEF WriteProgram
    <2>2. /\ i \in JobType /\ i.left = j.left \ {p} /\ i.job = j.job
          /\ i.state = "running"
      BY <1>1, <2>1 DEF JobType
    <2> QED BY <1>0, <1>1, <1>2, <2>1, <2>2 DEF JobsOK
  <1> QED BY <1>3, <1>4, <1>5, <1>6, JobsChange

\* The files keep their types: every one is of this run or of an earlier one.
LEMMA FilesTypeOK ==
    ASSUME TypeOK, InStep, [Next]_vars
    PROVE  /\ asm' \in [Prog -> 0..run'] /\ seeds' \in 0..run' /\ elf' \in [Prog -> 0..run']
           /\ log' \in [Iss \X Prog \X {"_", "."} -> Partial..run']
           /\ report' \subseteq Prog /\ lost' \subseteq Prog
  <1>0. run \in Nat /\ run' \in Nat /\ run <= run' /\ Partial = -1
    BY RunGrows DEF Partial
  <1>1. /\ asm \in [Prog -> 0..run] /\ seeds \in 0..run /\ elf \in [Prog -> 0..run]
        /\ log \in [Iss \X Prog \X {"_", "."} -> Partial..run]
        /\ report \subseteq Prog /\ lost \subseteq Prog
    BY DEF TypeOK
  <1>2. 0..run \subseteq 0..run' /\ Partial..run \subseteq Partial..run'
    BY <1>0
  <1>3. /\ asm \in [Prog -> 0..run'] /\ seeds \in 0..run' /\ elf \in [Prog -> 0..run']
        /\ log \in [Iss \X Prog \X {"_", "."} -> Partial..run']
    <2> DEFINE A == 0..run
               B == 0..run'
               C == Partial..run
               D == Partial..run'
    <2> HIDE DEF A, B, C, D
    <2>1. asm \in [Prog -> A] => asm \in [Prog -> B]
      BY <1>2 DEF A, B
    <2>2. elf \in [Prog -> A] => elf \in [Prog -> B]
      BY <1>2 DEF A, B
    <2>3. \A S : log \in [S -> C] => log \in [S -> D]
      BY <1>2 DEF C, D
    <2> QED BY <1>1, <1>2, <2>1, <2>2, <2>3 DEF A, B, C, D
  <1>4. asm' \in [Prog -> 0..run']
    <2>1. ASSUME NEW j \in jobs, NEW p \in j.left, WriteProgram(j, p)
          PROVE  asm' \in [Prog -> 0..run']
      <3>0. j \in JobType
        BY DEF TypeOK, JobType
      <3>1. j.run \in 0..run
        BY <1>0, <3>0 DEF JobType
      <3>2. asm' = [asm EXCEPT ![p] = j.run]
        BY <2>1 DEF WriteProgram
      <3> QED BY <1>2, <1>3, <3>1, <3>2
    <2> QED BY <1>3, <2>1, AsmChanges
  <1>5. seeds' \in 0..run'
    <2>1. run \in 0..run'
      BY <1>0
    <2> QED BY <1>3, <2>1, SeedsChange DEF StartJobs, CollectJob, WriteSeeds
  <1>6. elf' \in [Prog -> 0..run']
    <2>1. CASE CompileProgram
      <3>1. step = "gcc_compile" /\ step \in Step /\ todo # {}
        BY <2>1, StepNumbers DEF CompileProgram
      <3>2. ProgOf(First) \in Prog
        BY <3>1, NextItem, WorkType DEF TypeOK
      <3>3. elf' = [elf EXCEPT ![ProgOf(First)] = asm[ProgOf(First)]]
        BY <2>1 DEF CompileProgram
      <3>4. asm[ProgOf(First)] \in 0..run'
        BY <1>3, <3>2
      <3> QED BY <1>3, <3>3, <3>4
    <2> QED BY <1>3, <2>1, ElfChanges
  <1>7. log' \in [Iss \X Prog \X {"_", "."} -> Partial..run']
    <2>1. CASE SimulationFails
      <3>1. Partial \in Partial..run'
        BY <1>0
      <3> QED BY <1>3, <2>1, <3>1 DEF SimulationFails
    <2>2. CASE Simulate
      <3>1. step = "iss_sim" /\ step \in Step /\ todo # {}
        BY <2>2, StepNumbers DEF Simulate
      <3>2. ProgOf(First) \in Prog
        BY <3>1, NextItem, WorkType DEF TypeOK
      <3>3. elf[ProgOf(First)] \in Partial..run'
        <4>1. elf[ProgOf(First)] \in 0..run
          BY <1>1, <3>2
        <4> QED BY <1>0, <4>1
      <3>4. log' = [log EXCEPT ![SimLog(First)] = elf[ProgOf(First)]]
        BY <2>2 DEF Simulate
      <3> QED BY <1>3, <3>3, <3>4
    <2> QED BY <1>3, <2>1, <2>2, LogChanges
  <1>8. report' \subseteq Prog
    <2>1. CASE CompareLogs
      <3>1. step = "iss_cmp" /\ step \in Step /\ todo # {}
        BY <2>1, StepNumbers DEF CompareLogs
      <3>2. ProgOf(First) \in Prog
        BY <3>1, NextItem, WorkType DEF TypeOK
      <3> QED BY <1>1, <2>1, <3>2 DEF CompareLogs
    <2> QED BY <1>1, <2>1, ReportChanges
  <1>9. lost' \subseteq Prog
    <2>1. CASE StartRun
      BY <2>1 DEF StartRun
    <2>2. CASE CollectJob \/ JobTimeout
      <3>1. Current.left \subseteq Prog
        BY <2>2, CurrentOK DEF CollectJob, JobTimeout
      <3>2. lost' \subseteq lost \cup Current.left
        BY <2>2 DEF CollectJob, JobTimeout
      <3> QED BY <1>1, <3>1, <3>2
    <2>3. ASSUME NEW j \in jobs, NEW p \in j.left, WriteProgram(j, p)
          PROVE  lost' \subseteq Prog
      <3>1. p \in Prog
        BY DEF TypeOK
      <3> QED BY <1>1, <2>3, <3>1 DEF WriteProgram
    <2> QED BY <1>1, <2>1, <2>2, <2>3, LostChanges
  <1> QED BY <1>4, <1>5, <1>6, <1>7, <1>8, <1>9

\* TypeOK is kept by every step.
LEMMA TypeStep ==
    ASSUME TypeOK, InStep, JobsOK, [Next]_vars
    PROVE  TypeOK'
  <1>1. args' \in Options /\ Step' = Step
    BY ArgsStay DEF TypeOK, Step, StepOrder
  <1>2. jobs' \subseteq JobType'
    BY JobsTypeOK
  <1> QED BY <1>1, <1>2, ControlOK, FilesTypeOK, SameProgs DEF TypeOK, JobType

-----------------------------------------------------------------------------
(* What a run has gone through *)

\* A step is done with items in two ways only: it takes the first one of the
\* list, or the run ends.
LEMMA HandledGrows ==
    ASSUME TypeOK, InStep, [Next]_vars, NEW s \in Step
    PROVE  /\ StartRun => Handled(s)' = {}
           /\ \A x \in Handled(s)' :
                 x \in Handled(s) \/ (step = s /\ GoOn /\ x \in todo \ todo')
  <1>0. /\ Work(s)' = Work(s) /\ Work(step') = Work(step)' /\ "idle" \notin Step
        /\ \A t : Position(t)' = Position(t)
        /\ Step' = Step
    BY SameProgs, StepNumbers DEF Position, Step, StepOrder
  <1>1. \A t \in Step : Position(t) \in 1..4 /\ (Position(t) = Position(s) => t = s)
    BY StepNumbers
  <1>2. CASE StartRun
    <2>1. PICK chosen \in (SUBSET Step) \ {{}} :
              steps' = chosen /\ Enter(StepBehind(0, chosen))
      BY <1>2 DEF StartRun
    <2>2. step' = StepBehind(0, chosen)
      BY <2>1 DEF Enter
    <2>3. step' \in chosen /\ \A t \in chosen : Position(step') <= Position(t)
      BY <1>1, <2>1, <2>2, NextChosen
    <2>4. todo' = Work(step)'
      BY <1>0, <2>1, <2>2, <2>3 DEF Enter
    <2>5. step' # s => ~Over(s)'
      BY <1>0, <1>1, <2>1, <2>3 DEF Over
    <2>6. step' = s => todo' = Work(s)'
      BY <1>0, <2>4
    <2>7. Handled(s)' = {}
      BY <2>5, <2>6 DEF Handled
    <2> QED BY <2>7
  <1>3. CASE StepDone
    <2>1. /\ steps' = steps /\ run' = run /\ step \in Step /\ todo = {}
          /\ Enter(StepBehind(Position(step), steps))
      BY <1>3 DEF StepDone
    <2>2. step' = StepBehind(Position(step), steps) /\ steps \in SUBSET Step
      BY <2>1 DEF Enter, TypeOK
    <2>3. \/ /\ step' \in steps /\ Position(step) < Position(step')
             /\ \A t \in steps : Position(t) <= Position(step) \/ Position(step') <= Position(t)
          \/ step' = "idle" /\ \A t \in steps : Position(t) <= Position(step)
      BY <1>1, <2>1, <2>2, NextChosen
    <2>4. step' = s => todo' = Work(s)'
      BY <1>0, <2>1, <2>2 DEF Enter
    <2>5. Over(s)' => step = s \/ Over(s)
      BY <1>0, <1>1, <2>1, <2>2, <2>3 DEF Over
    <2>6. \A x \in Handled(s)' : x \in Handled(s)
      BY <1>0, <2>1, <2>4, <2>5 DEF Handled
    <2>7. ~StartRun
      BY <2>1, RunGrows
    <2> QED BY <2>6, <2>7
  <1>4. CASE GiveUp
    <2>1. step' = "idle" /\ status' # "success" /\ step \in Step
      BY <1>4 DEF GiveUp, End
    <2>2. Handled(s)' = {}
      BY <1>0, <2>1 DEF Handled, Over
    <2> QED BY <2>2
  <1>5. CASE GoOn
    <2>1. /\ todo' \subseteq todo /\ run' = run /\ steps' = steps /\ step' = step
          /\ status' = status
      BY <1>5 DEF GoOn
    <2>2. Over(s)' = Over(s)
      BY <1>0, <2>1 DEF Over
    <2>3. run' # run + 1
      BY <2>1, RunGrows
    <2>4. \A x \in Handled(s)' : x \in Handled(s) \/ (step = s /\ x \in todo \ todo')
      BY <1>0, <2>1, <2>2 DEF Handled
    <2> QED BY <1>5, <2>3, <2>4 DEF StartRun
  <1> QED BY <1>2, <1>3, <1>4, <1>5, Moves

\* An item leaves the list only as the first one, by the operation of its step.
LEMMA ItemDone ==
    ASSUME [Next]_vars, GoOn, step \in Step, NEW x \in todo \ todo'
    PROVE  /\ x = First /\ todo # {} /\ todo' = todo \ {First}
           /\ CollectJob \/ JobTimeout \/ CompileProgram \/ Simulate \/ SimulationFails
              \/ CompareLogs
  <1>0. "idle" \notin Step /\ step' = step
    BY StepNumbers DEF GoOn
  <1>1. todo' # todo /\ todo # {}
    OBVIOUS
  <1>2. CASE CollectJob
    BY <1>0, <1>1, <1>2 DEF CollectJob, End
  <1>3. CASE JobTimeout
    BY <1>0, <1>1, <1>3 DEF JobTimeout, End
  <1>4. CASE CompileProgram
    BY <1>1, <1>4 DEF CompileProgram
  <1>5. CASE Simulate
    BY <1>1, <1>5 DEF Simulate
  <1>6. CASE SimulationFails
    BY <1>0, <1>1, <1>6 DEF SimulationFails, End
  <1>7. CASE CompareLogs
    BY <1>0, <1>1, <1>7 DEF CompareLogs, End
  <1>8. ~StepDone /\ ~Interrupt /\ ~CompileFails /\ ~StartRun
    BY <1>0, <1>1 DEF StepDone, Interrupt, CompileFails, End, StartRun
  <1>9. ~StartJobs /\ \A j \in jobs : ~JobEnds(j) /\ \A p \in j.left : ~WriteProgram(j, p)
    BY <1>1 DEF StartJobs, JobEnds, WriteProgram
  <1>10. ~UNCHANGED vars
    BY <1>1 DEF vars
  <1> QED BY <1>2, <1>3, <1>4, <1>5, <1>6, <1>7, <1>8, <1>9, <1>10 DEF Next, RunStep

-----------------------------------------------------------------------------
(* gen *)

\* Until the next run starts, a lost program stays lost.
LEMMA LostGrows ==
    ASSUME TypeOK, InStep, [Next]_vars, ~StartRun
    PROVE  run' = run /\ steps' = steps /\ lost \subseteq lost'
  <1>1. run' = run /\ steps' = steps
    BY Moves DEF StepDone, GiveUp, GoOn
  <1>2. lost \subseteq lost'
    BY LostChanges DEF CollectJob, JobTimeout, WriteProgram
  <1> QED BY <1>1, <1>2

\* A program of this run stays one, or is lost to a process of another run.
LEMMA StaysFresh ==
    ASSUME TypeOK, InStep, [Next]_vars, ~StartRun, NEW p \in Prog, Fresh(p)
    PROVE  Fresh(p)'
  <1>1. run' = run /\ lost \subseteq lost'
    BY LostGrows
  <1>2. ASSUME NEW j \in jobs, NEW q \in j.left, WriteProgram(j, q)
        PROVE  Fresh(p)'
    <2>1. /\ asm' = [asm EXCEPT ![q] = j.run] /\ asm \in [Prog -> 0..run]
          /\ lost' = IF j.run # run THEN lost \cup {q} ELSE lost
      BY <1>2 DEF WriteProgram, TypeOK
    <2> QED BY <1>1, <2>1 DEF Fresh
  <1> QED BY <1>1, <1>2, AsmChanges DEF Fresh

\* What a process of this run has behind it is fresh or lost.
LEMMA JobsFresh ==
    ASSUME TypeOK, InStep, JobsOK, WrittenByJobs, [Next]_vars
    PROVE  WrittenByJobs'
  <1>0. jobs \subseteq JobType /\ run \in Nat /\ \A j : Programs(j)' = Programs(j)
    BY RunGrows, SameProgs DEF TypeOK, JobType
  <1>1. CASE StartRun
    <2>1. jobs' = jobs /\ run' = run + 1
      BY <1>1 DEF StartRun
    <2>2. \A j \in jobs : j.run # run'
      BY <1>0, <2>1 DEF JobType
    <2> QED BY <2>1, <2>2 DEF WrittenByJobs
  <1>2. CASE ~StartRun
    <2>1. run' = run /\ \A p \in Prog : Fresh(p) => Fresh(p)'
      BY <1>2, LostGrows, StaysFresh
    <2>2. \A j \in jobs : Programs(j.job) \subseteq Prog
      BY <1>0, BatchInTest DEF JobType, TypeOK
    <2>3. \A j \in jobs : j.run = run => \A p \in Programs(j.job) \ j.left : Fresh(p)'
      BY <2>1, <2>2 DEF WrittenByJobs
    <2>4. CASE jobs' \subseteq jobs
      BY <1>0, <2>1, <2>3, <2>4 DEF WrittenByJobs
    <2>5. CASE StartJobs
      <3>1. jobs' \subseteq jobs \cup {NewJob(x) : x \in todo \cup {First}}
        BY <2>5 DEF StartJobs
      <3>2. \A x : NewJob(x).left = Programs(NewJob(x).job)
        BY DEF NewJob
      <3> QED BY <1>0, <2>1, <2>3, <3>1, <3>2 DEF WrittenByJobs
    <2>6. ASSUME NEW j \in jobs, JobEnds(j) PROVE WrittenByJobs'
      <3>1. PICK how : jobs' \subseteq jobs \cup {[j EXCEPT !.state = how]}
        BY <2>6 DEF JobEnds
      <3> DEFINE i == [j EXCEPT !.state = how]
      <3>2. i.left = j.left /\ i.job = j.job /\ i.run = j.run
        BY <1>0 DEF JobType
      <3> QED BY <1>0, <2>1, <2>3, <3>1, <3>2 DEF WrittenByJobs
    <2>7. ASSUME NEW j \in jobs, NEW q \in j.left, WriteProgram(j, q)
          PROVE  WrittenByJobs'
      <3> DEFINE i == [j EXCEPT !.left = @ \ {q}]
      <3>1. jobs' \subseteq jobs \cup {i} /\ asm' = [asm EXCEPT ![q] = j.run]
        BY <2>7 DEF WriteProgram
      <3>2. i.left = j.left \ {q} /\ i.job = j.job /\ i.run = j.run /\ q \in Prog
        BY <1>0 DEF JobType
      <3>3. j.run = run => Fresh(q)'
        BY <2>1, <3>1, <3>2 DEF Fresh, TypeOK
      <3> QED BY <1>0, <2>1, <2>3, <3>1, <3>2, <3>3 DEF WrittenByJobs
    <2> QED BY <2>4, <2>5, <2>6, <2>7, JobsChange
  <1> QED BY <1>1, <1>2

\* A batch is done with when its process has written it all, or its programs
\* count as lost.
LEMMA BatchDone ==
    ASSUME TypeOK, InStep, JobsOK, WrittenByJobs, [Next]_vars,
           step = "gen", GoOn, NEW x \in todo \ todo'
    PROVE  \A p \in Programs(ProgOf(x)) : Fresh(p)'
  <1>0. step \in Step /\ run' = run /\ step' = "gen"
    BY StepNumbers DEF GoOn
  <1>1. x = First /\ (CollectJob \/ JobTimeout)
    BY <1>0, ItemDone DEF CompileProgram, Simulate, SimulationFails, CompareLogs
  <1>2. /\ WaitsForJob /\ Current \in jobs /\ Current.run = run
        /\ Current.job = ProgOf(x) /\ lost \subseteq lost' /\ ~StartRun
    BY <1>0, <1>1, CurrentOK, StepNumbers DEF CollectJob, JobTimeout, WaitsForJob, StartRun
  <1>3. Programs(ProgOf(x)) \subseteq Prog
    <2>1. Current \in JobType
      BY <1>2 DEF TypeOK, JobType
    <2> QED BY <1>2, <2>1, BatchInTest DEF TypeOK, JobType
  <1>4. \A p \in Programs(ProgOf(x)) \ Current.left : Fresh(p)'
    BY <1>2, <1>3, StaysFresh DEF WrittenByJobs
  <1>5. Current.left \subseteq lost'
    <2>1. CASE JobTimeout
      BY <2>1 DEF JobTimeout
    <2>2. CASE CollectJob
      <3>1. Current.state \in {"running", "ok", "fail", "signal"}
        BY <1>2 DEF TypeOK
      <3>2. Current.state = "ok" => Current.left = {}
        BY <1>2 DEF JobsOK
      <3>3. ~(Current.state = "fail" /\ ~Lsf)
        BY <1>0, <2>2 DEF CollectJob, End
      <3> QED BY <2>2, <3>1, <3>2, <3>3 DEF CollectJob
    <2> QED BY <1>1, <2>1, <2>2
  <1> QED BY <1>4, <1>5 DEF Fresh

\* What gen has gone through is fresh or lost, after every step.
LEMMA GeneratedStep ==
    ASSUME TypeOK, InStep, JobsOK, WrittenByJobs, GeneratedSoFar, [Next]_vars
    PROVE  GeneratedSoFar'
  <1>0. "gen" \in Step /\ \A j : Programs(j)' = Programs(j)
    BY StepNumbers, SameProgs
  <1>1. CASE StartRun
    BY <1>0, <1>1, HandledGrows DEF GeneratedSoFar
  <1>2. CASE ~StartRun
    <2> SUFFICES ASSUME NEW x \in Handled("gen")'
                 PROVE  \A p \in Programs(ProgOf(x)) : Fresh(p)'
      BY <1>0 DEF GeneratedSoFar, ProgOf
    <2>1. CASE x \in Handled("gen")
      <3>1. ProgOf(x) \in Job
        BY <2>1, WorkType DEF Handled, TypeOK
      <3>2. Programs(ProgOf(x)) \subseteq Prog
        BY <3>1, BatchInTest DEF TypeOK
      <3> QED BY <1>2, <2>1, <3>2, StaysFresh DEF GeneratedSoFar
    <2>2. CASE step = "gen" /\ GoOn /\ x \in todo \ todo'
      BY <2>2, BatchDone
    <2> QED BY <1>0, <2>1, <2>2, HandledGrows
  <1> QED BY <1>1, <1>2

\* Behind gen every program of the test list is one of this run.
LEMMA EachProgGenerated ==
    ASSUME args \in Options, NEW p \in Prog
    PROVE  \E x \in Work("gen") : p \in Programs(ProgOf(x))
  <1>1. PICK j \in Job : p \in Programs(j)
    BY BatchesCover
  <1>2. Item(1, j) \in Work("gen")
    BY DEF Work
  <1>3. ProgOf(Item(1, j)) = j
    BY JobOfTest DEF ProgOf, Item
  <1> QED BY <1>1, <1>2, <1>3

\* When gen has gone through all batches, every program is fresh or lost.
LEMMA AllGenerated ==
    ASSUME TypeOK, GeneratedSoFar, Handled("gen") = Work("gen"), NEW p \in Prog
    PROVE  Fresh(p)
  BY EachProgGenerated DEF GeneratedSoFar, TypeOK

-----------------------------------------------------------------------------
(* gcc_compile and iss_sim *)

\* What gcc_compile has gone through has a binary, of this run's program if gen ran.
LEMMA CompiledStep ==
    ASSUME TypeOK, InStep, GeneratedSoFar, CompiledSoFar, [Next]_vars
    PROVE  CompiledSoFar'
  <1>0. "gcc_compile" \in Step /\ "gen" \in Step
    BY StepNumbers
  <1>1. CASE StartRun
    BY <1>0, <1>1, HandledGrows DEF CompiledSoFar
  <1>2. CASE ~StartRun
    <2>0. run' = run /\ steps' = steps /\ lost \subseteq lost'
      BY <1>2, LostGrows
    <2>1. ASSUME CompileProgram, "gen" \in steps
          PROVE  Fresh(ProgOf(First))
      <3>1. step = "gcc_compile" /\ run > 0 /\ todo # {}
        BY <1>0, <2>1 DEF CompileProgram, InStep
      <3>2. Handled("gen") = Work("gen")
        BY <1>0, <2>1, <3>1, StepNumbers DEF Handled, Over
      <3>3. ProgOf(First) \in Prog
        BY <1>0, <3>1, NextItem, WorkType DEF TypeOK
      <3> QED BY <3>2, <3>3, AllGenerated
    <2>2. ASSUME CompileProgram
          PROVE  /\ elf' = [elf EXCEPT ![ProgOf(First)] = asm[ProgOf(First)]]
                 /\ asm[ProgOf(First)] # 0 /\ ProgOf(First) \in Prog
      <3>1. step = "gcc_compile" /\ todo # {}
        BY <2>2 DEF CompileProgram
      <3>2. ProgOf(First) \in Prog
        BY <1>0, <3>1, NextItem, WorkType DEF TypeOK
      <3> QED BY <2>2, <3>2 DEF CompileProgram
    <2> SUFFICES ASSUME NEW x \in Handled("gcc_compile")'
                 PROVE  /\ elf'[ProgOf(x)] # 0
                        /\ "gen" \in steps =>
                              elf'[ProgOf(x)] = run \/ ProgOf(x) \in lost'
      BY <2>0 DEF CompiledSoFar, ProgOf
    <2>3. elf \in [Prog -> 0..run]
      BY DEF TypeOK
    <2>4. CASE x \in Handled("gcc_compile")
      <3>1. /\ elf[ProgOf(x)] # 0
            /\ "gen" \in steps => elf[ProgOf(x)] = run \/ ProgOf(x) \in lost
        BY <2>4 DEF CompiledSoFar
      <3>2. CASE UNCHANGED elf
        BY <2>0, <3>1, <3>2
      <3>3. CASE CompileProgram
        <4>1. CASE ProgOf(x) = ProgOf(First)
          <5>1. elf'[ProgOf(x)] = asm[ProgOf(x)] /\ asm[ProgOf(x)] # 0
            BY <2>2, <2>3, <3>3, <4>1
          <5>2. "gen" \in steps => Fresh(ProgOf(x))
            BY <2>1, <3>3, <4>1
          <5> QED BY <2>0, <5>1, <5>2 DEF Fresh
        <4>2. CASE ProgOf(x) # ProgOf(First)
          <5>0. ProgOf(x) \in Prog
            BY <2>4, WorkType DEF Handled, TypeOK
          <5>1. elf'[ProgOf(x)] = elf[ProgOf(x)]
            BY <2>2, <2>3, <3>3, <4>2, <5>0
          <5> QED BY <2>0, <3>1, <5>1
        <4> QED BY <4>1, <4>2
      <3> QED BY <3>2, <3>3, ElfChanges
    <2>5. CASE step = "gcc_compile" /\ GoOn /\ x \in todo \ todo'
      <3>1. x = First /\ CompileProgram
        BY <1>0, <2>5, ItemDone
           DEF CollectJob, JobTimeout, WaitsForJob, Simulate, SimulationFails, CompareLogs
      <3> QED BY <2>0, <2>1, <2>2, <2>3, <3>1 DEF Fresh
    <2> QED BY <1>0, <2>4, <2>5, HandledGrows
  <1> QED BY <1>1, <1>2

\* What iss_sim has gone through has the log of its binary, or a partial one.
LEMMA SimulatedStep ==
    ASSUME TypeOK, InStep, SimulatedSoFar, [Next]_vars
    PROVE  SimulatedSoFar'
  <1>0. "iss_sim" \in Step /\ "gcc_compile" \in Step
    BY StepNumbers
  <1>1. CASE StartRun
    BY <1>0, <1>1, HandledGrows DEF SimulatedSoFar
  <1>2. CASE ~StartRun
    <2> SUFFICES ASSUME NEW x \in Handled("iss_sim")'
                 PROVE  log'[SimLog(x)] \in {elf'[ProgOf(x)], Partial}
      BY DEF SimulatedSoFar, SimLog, ProgOf
    <2>1. x \in Handled("iss_sim") \/ (step = "iss_sim" /\ GoOn /\ x \in todo \ todo')
      BY <1>0, HandledGrows
    <2>2. x[1] \in Iss /\ ProgOf(x) \in Prog
      <3>1. x \in Work("iss_sim")
        BY <1>0, <2>1 DEF Handled, InStep
      <3> QED BY <3>1, WorkType DEF TypeOK
    <2>3. SimLog(x) \in Iss \X Prog \X {"_", "."}
      BY <2>2 DEF SimLog
    <2>4. log \in [Iss \X Prog \X {"_", "."} -> Partial..run]
      BY DEF TypeOK
    <2>5. elf' = elf
      <3>1. ~CompileProgram
        BY <1>0, <2>1, StepNumbers DEF CompileProgram, Handled, Over
      <3> QED BY <3>1, ElfChanges
    <2>6. CASE Simulate
      <3>1. log' = [log EXCEPT ![SimLog(First)] = elf[ProgOf(First)]]
        BY <2>6 DEF Simulate
      <3>2. CASE SimLog(x) = SimLog(First)
        <4>1. ProgOf(x) = ProgOf(First)
          BY <3>2 DEF SimLog
        <4> QED BY <2>3, <2>4, <2>5, <3>1, <3>2, <4>1
      <3>3. CASE SimLog(x) # SimLog(First)
        <4>1. x # First
          BY <3>3
        <4>2. x \in Handled("iss_sim")
          BY <1>0, <2>1, <4>1, ItemDone
        <4> QED BY <2>3, <2>4, <2>5, <3>1, <3>3, <4>2 DEF SimulatedSoFar
      <3> QED BY <3>2, <3>3
    <2>7. CASE SimulationFails
      <3>1. log' = [log EXCEPT ![SimLog(First)] = Partial]
        BY <2>7 DEF SimulationFails
      <3>2. CASE SimLog(x) = SimLog(First)
        BY <2>3, <2>4, <3>1, <3>2
      <3>3. CASE SimLog(x) # SimLog(First)
        <4>1. x # First
          BY <3>3
        <4>2. x \in Handled("iss_sim")
          BY <1>0, <2>1, <4>1, ItemDone
        <4> QED BY <2>3, <2>4, <2>5, <3>1, <3>3, <4>2 DEF SimulatedSoFar
      <3> QED BY <3>2, <3>3
    <2>8. CASE UNCHANGED log /\ ~Simulate /\ ~SimulationFails
      <3>1. x \in Handled("iss_sim")
        BY <1>0, <2>1, <2>8, ItemDone
           DEF CollectJob, JobTimeout, WaitsForJob, CompileProgram, CompareLogs
      <3> QED BY <2>5, <2>8, <3>1 DEF SimulatedSoFar
    <2> QED BY <2>6, <2>7, <2>8, LogChanges
  <1> QED BY <1>1, <1>2

-----------------------------------------------------------------------------
(* seed.yaml, without LSF *)

\* Without LSF, at most one process of a running gen is there, that of the first item.
LEMMA OneJobStep ==
    ASSUME TypeOK, InStep, OneJobAtATime, [Next]_vars
    PROVE  OneJobAtATime'
  <1> SUFFICES ASSUME ~Lsf PROVE OneJobAtATime'
    BY SameProgs DEF OneJobAtATime
  <1> DEFINE Mine(j) == j.run = run
  <1>0. "gen" \in Step /\ "idle" \notin Step
    BY StepNumbers
  <1>1. CASE StartRun
    <2>1. jobs' = jobs /\ run' = run + 1 /\ run \in Nat
      BY <1>1, RunGrows DEF StartRun
    <2>2. \A j \in jobs : j.run # run'
      <3>1. \A j \in jobs : j \in JobType
        BY DEF TypeOK, JobType
      <3> QED BY <2>1, <3>1 DEF JobType
    <2> QED BY <2>1, <2>2 DEF OneJobAtATime
  <1>2. CASE StepDone
    <2>1. jobs' = jobs /\ run' = run /\ todo = {} /\ step # "idle"
      BY <1>0, <1>2 DEF StepDone
    <2>2. \A j \in jobs : ~Mine(j)
      BY <2>1 DEF OneJobAtATime
    <2> QED BY <2>1, <2>2 DEF OneJobAtATime
  <1>3. CASE GiveUp
    <2>1. step' = "idle" /\ run' = run /\ status' \in {"exit_fail", "exit130", "crash"}
      BY <1>3 DEF GiveUp, End
    <2>2. CASE Stopped'
      BY <2>1, <2>2 DEF OneJobAtATime
    <2>3. CASE status' = "crash"
      <3>1. CompileFails \/ CompareLogs
        <4>1. step # "idle"
          BY <1>0, <1>3 DEF GiveUp
        <4>2. status # "crash"
          BY <1>0, <1>3 DEF GiveUp, InStep
        <4> QED
          BY <2>1, <2>3, <4>1, <4>2
             DEF Next, RunStep, vars, StepDone, StartRun, Interrupt, StartJobs, JobEnds,
                 WriteProgram, CollectJob, JobTimeout, CompileProgram, Simulate,
                 SimulationFails, End, Enter
      <3>2. jobs' = jobs /\ step # "gen" /\ step # "idle"
        BY <3>1 DEF CompileFails, CompareLogs
      <3>3. \A j \in jobs : ~Mine(j)
        BY <3>2 DEF OneJobAtATime
      <3> QED BY <2>1, <3>2, <3>3 DEF OneJobAtATime
    <2> QED BY <2>1, <2>2, <2>3 DEF Stopped
  <1>4. CASE GoOn
    <2>0. run' = run /\ step' = step /\ status' = status /\ todo' \subseteq todo
      BY <1>4 DEF GoOn
    <2>1. CASE \A j \in jobs : ~Mine(j)
      <3>1. CASE StartJobs
        <4>1. /\ step = "gen" /\ todo # {} /\ todo' = todo
              /\ jobs' = jobs \cup {NewJob(First)}
          BY <3>1 DEF StartJobs
        <4>2. NewJob(First).run = run /\ NewJob(First).job = ProgOf(First)
          BY DEF NewJob
        <4>3. ProgOf(First)' = ProgOf(First)
          BY <4>1, SameFirst DEF ProgOf
        <4> QED BY <2>0, <2>1, <4>1, <4>2, <4>3 DEF OneJobAtATime
      <3>2. ASSUME NEW j \in jobs, JobEnds(j) \/ \E p \in j.left : WriteProgram(j, p)
            PROVE  \A i \in jobs' : i.run # run
        <4>1. \A i \in jobs' : i \in jobs \/ i.run = j.run
          <5>1. j \in JobType
            BY DEF TypeOK, JobType
          <5> QED BY <3>2, <5>1 DEF JobEnds, WriteProgram, JobType
        <4> QED BY <2>1, <4>1
      <3>3. CASE jobs' \subseteq jobs
        BY <2>0, <2>1, <3>3 DEF OneJobAtATime
      <3> QED BY <2>0, <3>1, <3>2, <3>3, JobsChange DEF OneJobAtATime
    <2>2. CASE Stopped /\ step = "idle"
      BY <2>0, <2>2 DEF OneJobAtATime, Stopped
    <2>3. ASSUME ~(Stopped /\ step = "idle"), NEW c \in jobs, Mine(c)
          PROVE  OneJobAtATime'
      <3>1. /\ step = "gen" /\ todo # {} /\ c.job = ProgOf(First)
            /\ \A i \in jobs : Mine(i) => i = c
        BY <2>3 DEF OneJobAtATime
      <3>2. Started(First)
        BY <2>3, <3>1 DEF Started
      <3>3. CASE CollectJob
        <4>1. Current = c
          BY <3>1, <3>3, CurrentOK DEF CollectJob
        <4>2. \A i \in jobs' : ~Mine(i)
          BY <3>1, <3>3, <4>1 DEF CollectJob
        <4> QED BY <2>0, <4>2 DEF OneJobAtATime
      <3>4. ~StartJobs
        BY <3>2 DEF StartJobs
      <3>5. CASE ~CollectJob
        <4>1. todo' = todo
          <5> SUFFICES ASSUME NEW x \in todo \ todo' PROVE FALSE
            BY <2>0
          <5>1. JobTimeout
            BY <1>0, <1>4, <3>1, <3>5, ItemDone
               DEF CompileProgram, Simulate, SimulationFails, CompareLogs
          <5> QED BY <1>0, <2>0, <3>1, <5>1 DEF JobTimeout, End
        <4>2. ProgOf(First)' = ProgOf(First)
          BY <4>1, SameFirst DEF ProgOf
        <4>3. ASSUME NEW j \in jobs, JobEnds(j) \/ \E p \in j.left : WriteProgram(j, p)
              PROVE  \E k : /\ k.run = j.run /\ k.job = j.job
                            /\ jobs' \subseteq (jobs \ {j}) \cup {k}
          <5>0. j \in JobType
            BY DEF TypeOK, JobType
          <5>1. CASE JobEnds(j)
            <6>1. PICK how : jobs' \subseteq (jobs \ {j}) \cup {[j EXCEPT !.state = how]}
              BY <5>1 DEF JobEnds
            <6>2. [j EXCEPT !.state = how].run = j.run /\ [j EXCEPT !.state = how].job = j.job
              BY <5>0 DEF JobType
            <6> QED BY <6>1, <6>2
          <5>2. ASSUME NEW p \in j.left, WriteProgram(j, p)
                PROVE  \E k : /\ k.run = j.run /\ k.job = j.job
                              /\ jobs' \subseteq (jobs \ {j}) \cup {k}
            <6> DEFINE k == [j EXCEPT !.left = @ \ {p}]
            <6>1. jobs' = (jobs \ {j}) \cup {k}
              BY <5>2 DEF WriteProgram
            <6>2. k.run = j.run /\ k.job = j.job
              BY <5>0 DEF JobType
            <6> QED BY <6>1, <6>2
          <5> QED BY <4>3, <5>1, <5>2
        <4>4. ASSUME NEW j \in jobs, NEW k, k.run = j.run, k.job = j.job,
                     jobs' \subseteq (jobs \ {j}) \cup {k}
              PROVE  OneJobAtATime'
          BY <2>0, <3>1, <4>1, <4>2, <4>4 DEF OneJobAtATime
        <4>5. CASE jobs' \subseteq jobs
          BY <2>0, <3>1, <4>1, <4>2, <4>5 DEF OneJobAtATime
        <4> QED BY <3>4, <4>3, <4>4, <4>5, JobsChange
      <3> QED BY <3>3, <3>5
    <2> QED BY <2>1, <2>2, <2>3
  <1> QED BY <1>1, <1>2, <1>3, <1>4, Moves

\* There is always a batch to generate.
LEMMA SomeJob == ASSUME args \in Options PROVE Work("gen") # {}
  <1>1. PICK k \in Test : TRUE
    BY ArgsType
  <1>2. 0 \in 0 .. BatchCnt(k) - 1
    BY BatchCntType
  <1>3. <<k, 0>> \in Job
    BY <1>2, JobOfTest
  <1> QED BY <1>3 DEF Work

\* Without LSF, seed.yaml is of this run when gen has gone through its batches.
LEMMA SeedsBehindLastStep ==
    ASSUME TypeOK, InStep, SeedsBehindLast, [Next]_vars
    PROVE  SeedsBehindLast'
  <1> SUFFICES ASSUME ~Lsf, Seeded, step' = "gen", todo' = {} PROVE seeds' = run'
    BY SameProgs DEF SeedsBehindLast
  <1>0. /\ "gen" \in Step /\ "idle" \notin Step /\ Position("gen") = 1
        /\ \A t \in Step : Position(t) \in 1..4
    BY StepNumbers
  <1>1. CASE StartRun
    <2>1. PICK chosen \in (SUBSET Step) \ {{}} : Enter(StepBehind(0, chosen))
      BY <1>1 DEF StartRun
    <2>2. todo' = Work("gen")
      BY <1>0, <2>1 DEF Enter
    <2> QED BY <2>2, SomeJob DEF TypeOK
  <1>2. CASE StepDone
    <2>1. /\ step \in Step /\ step' = StepBehind(Position(step), steps)
          /\ steps \in SUBSET Step
      BY <1>2 DEF StepDone, Enter, TypeOK
    <2>2. Position(step) < Position(step')
      BY <1>0, <2>1, NextChosen
    <2> QED BY <1>0, <2>1, <2>2
  <1>3. CASE GiveUp
    BY <1>0, <1>3 DEF GiveUp, End
  <1>4. CASE GoOn
    <2>1. step = "gen" /\ run' = run
      BY <1>4 DEF GoOn
    <2>2. CASE todo = {}
      BY <2>1, <2>2, SeedsChange DEF SeedsBehindLast, StartJobs, CollectJob, WaitsForJob
    <2>3. CASE todo # {}
      <3>1. PICK x \in todo \ todo' : TRUE
        BY <2>3
      <3>2. CollectJob \/ JobTimeout
        BY <1>0, <1>4, <2>1, <3>1, ItemDone
           DEF CompileProgram, Simulate, SimulationFails, CompareLogs
      <3>3. ~JobTimeout
        BY <1>0, <2>1 DEF JobTimeout, End
      <3> QED BY <2>1, <3>2, <3>3 DEF CollectJob, WriteSeeds
    <2> QED BY <2>2, <2>3
  <1> QED BY <1>1, <1>2, <1>3, <1>4, Moves

\* SeedsMatch is kept by every step.
LEMMA SeedsMatchStep ==
    ASSUME TypeOK, InStep, GeneratedSoFar', OneJobAtATime, SeedsBehindLast,
           SeedsMatch, [Next]_vars
    PROVE  SeedsMatch'
  <1> SUFFICES ASSUME ~Lsf, run' > 0
               PROVE  /\ seeds' = run' => \A p \in Prog : Fresh(p)'
                      /\ seeds' # run' /\ (\E p \in Prog : asm'[p] = run') /\ Seeded =>
                            step' = "gen" \/ status' \in {"exit_fail", "exit130"}
    BY SameProgs DEF SeedsMatch, Fresh
  <1>0. "gen" \in Step /\ "idle" \notin Step /\ run \in Nat
    BY StepNumbers, RunGrows
  <1>1. CASE StartRun
    <2>1. run' = run + 1 /\ seeds' = seeds /\ asm' = asm
      BY <1>1, RunGrows DEF StartRun
    <2>2. seeds \in 0..run /\ \A p \in Prog : asm[p] \in 0..run
      BY DEF TypeOK
    <2> QED BY <1>0, <2>1, <2>2
  <1>2. CASE ~StartRun
    <2>0. run' = run /\ \A p \in Prog : Fresh(p) => Fresh(p)'
      BY <1>2, LostGrows, StaysFresh
    <2>1. ASSUME seeds' = run', NEW p \in Prog PROVE Fresh(p)'
      <3>1. CASE seeds = run
        BY <2>0, <3>1 DEF SeedsMatch, Fresh
      <3>2. CASE seeds # run
        <4>1. CollectJob /\ step' = "gen" /\ todo' = {}
          BY <2>0, <2>1, <3>2, SeedsChange DEF StartJobs, CollectJob, WriteSeeds
        <4>2. Handled("gen")' = Work("gen")'
          BY <4>1 DEF Handled
        <4>3. PICK x \in Work("gen") : p \in Programs(ProgOf(x))
          BY EachProgGenerated DEF TypeOK
        <4>4. x \in Handled("gen")' /\ p \in Programs(ProgOf(x))'
          BY <4>2, <4>3, SameProgs DEF ProgOf
        <4> QED BY <4>4 DEF GeneratedSoFar
      <3> QED BY <3>1, <3>2
    <2>2. ASSUME seeds' # run', NEW p \in Prog, asm'[p] = run', Seeded
          PROVE  step' = "gen" \/ status' \in {"exit_fail", "exit130"}
      <3>1. seeds # run
        BY <2>0, <2>2, SeedsChange DEF StartJobs, CollectJob, WriteSeeds
      <3>2. CASE asm[p] = run
        <4>1. step = "gen" \/ status \in {"exit_fail", "exit130"}
          BY <2>0, <2>2, <3>1, <3>2 DEF SeedsMatch
        <4>2. CASE StepDone
          <5>1. step # "gen"
            BY <2>2, <3>1, <4>2 DEF StepDone, SeedsBehindLast
          <5> QED BY <1>0, <4>1, <4>2, <5>1 DEF StepDone, InStep
        <4>3. CASE GoOn
          BY <4>1, <4>3 DEF GoOn
        <4>4. CASE GiveUp
          <5>1. step = "gen" /\ step # "idle" /\ status = "running"
            BY <1>0, <4>1, <4>4 DEF GiveUp, InStep
          <5>2. step' = "idle" /\ status' \in {"exit_fail", "exit130", "crash"}
            BY <4>4 DEF GiveUp, End
          <5>3. status' # "crash"
            BY <5>1, <5>2
               DEF Next, RunStep, vars, StepDone, StartRun, Interrupt, StartJobs, JobEnds,
                   WriteProgram, CollectJob, JobTimeout, CompileProgram, CompileFails,
                   Simulate, SimulationFails, CompareLogs, End, Enter
          <5> QED BY <5>2, <5>3
        <4> QED BY <1>2, <4>2, <4>3, <4>4, Moves
      <3>3. CASE asm[p] # run
        <4>1. PICK j \in jobs : \E q \in j.left : WriteProgram(j, q)
          BY <2>0, <2>2, <3>3, AsmChanges
        <4>2. PICK q \in j.left : WriteProgram(j, q)
          BY <4>1
        <4>3. asm' = [asm EXCEPT ![q] = j.run] /\ asm \in [Prog -> 0..run]
          BY <4>2 DEF WriteProgram, TypeOK
        <4>4. j.run = run
          BY <2>0, <2>2, <3>3, <4>3
        <4>5. step' = step /\ status' = status
          BY <4>2 DEF WriteProgram
        <4> QED BY <4>4, <4>5 DEF OneJobAtATime, Stopped
      <3> QED BY <3>2, <3>3
    <2> QED BY <2>1, <2>2
  <1> QED BY <1>1, <1>2

-----------------------------------------------------------------------------
(* The theorems *)

\* The directory is empty and no run has been started.
LEMMA FlowInit == Init => FlowInv
  <1> SUFFICES ASSUME Init PROVE FlowInv
    OBVIOUS
  <1>1. /\ args \in Options /\ run = 0 /\ steps = {} /\ step = "idle"
        /\ status = "none" /\ todo = {} /\ jobs = {} /\ seeds = 0
        /\ asm = [p \in Prog |-> 0] /\ elf = [p \in Prog |-> 0]
        /\ log = [x \in Iss \X Prog \X {"_", "."} |-> 0]
        /\ report = {} /\ lost = {}
    BY DEF Init
  <1>2. "idle" \notin Step /\ "gen" # "idle"
    BY StepNumbers
  <1>3. /\ 0 \in 0..MaxRuns /\ 0 \in 0..0 /\ 0 \in Partial..0
    BY FlowAssumption DEF Partial
  <1>4. TypeOK
    BY <1>1, <1>3 DEF TypeOK
  <1>5. InStep /\ JobsOK /\ WrittenByJobs /\ OneJobAtATime /\ SeedsBehindLast /\ SeedsMatch
    BY <1>1, <1>2 DEF InStep, JobsOK, WrittenByJobs, OneJobAtATime, SeedsBehindLast, SeedsMatch
  <1>6. \A s \in Step : Handled(s) = {}
    BY <1>1, <1>2 DEF Handled, Over
  <1>7. GeneratedSoFar /\ CompiledSoFar /\ SimulatedSoFar
    BY <1>6, StepNumbers DEF GeneratedSoFar, CompiledSoFar, SimulatedSoFar
  <1> QED BY <1>4, <1>5, <1>7 DEF FlowInv

\* The invariant is inductive.
LEMMA FlowStep == FlowInv /\ [Next]_vars => FlowInv'
  <1> SUFFICES ASSUME FlowInv, [Next]_vars PROVE FlowInv'
    OBVIOUS
  <1>0. /\ TypeOK /\ InStep /\ JobsOK /\ WrittenByJobs /\ GeneratedSoFar
        /\ CompiledSoFar /\ SimulatedSoFar /\ OneJobAtATime /\ SeedsBehindLast /\ SeedsMatch
    BY DEF FlowInv
  <1>1. TypeOK' /\ InStep' /\ JobsOK'
    BY <1>0, TypeStep, ControlOK, JobsTypeOK
  <1>2. WrittenByJobs' /\ GeneratedSoFar'
    BY <1>0, JobsFresh, GeneratedStep
  <1>3. CompiledSoFar' /\ SimulatedSoFar'
    BY <1>0, CompiledStep, SimulatedStep
  <1>4. OneJobAtATime' /\ SeedsBehindLast'
    BY <1>0, OneJobStep, SeedsBehindLastStep
  <1>5. SeedsMatch'
    BY <1>0, <1>1, <1>2, SeedsMatchStep
  <1> QED BY <1>1, <1>2, <1>3, <1>4, <1>5 DEF FlowInv

\* The invariant holds in every state of every sequence of runs.
LEMMA FlowInvariant == Spec => []FlowInv
  BY FlowInit, FlowStep, PTL DEF Spec

\* run.py: whatever runs, interrupts and dying processes there are, the
\* bookkeeping of the steps and what the files hold stay well formed.
THEOREM FlowTypes == Spec => []TypeOK
  <1>1. FlowInv => TypeOK
    BY DEF FlowInv
  <1> QED BY <1>1, FlowInvariant, PTL

\* A run that ended well has been through all it was asked for.
LEMMA SuccessMeansHandled ==
    ASSUME FlowInv, status = "success", NEW s \in steps
    PROVE  Handled(s) = Work(s)
  <1>0. TypeOK /\ InStep
    BY DEF FlowInv
  <1>1. /\ run \in 0..MaxRuns /\ MaxRuns \in Nat
        /\ s \in Step /\ step \in Step \cup {"idle"}
    BY <1>0, FlowAssumption DEF TypeOK
  <1>2. step = "idle" /\ run # 0
    BY <1>0, <1>1 DEF InStep
  <1> QED BY <1>1, <1>2, StepNumbers DEF Handled, Over

\* run.py, gen and gcc_compile: what a successful run leaves as .o file of a
\* program is of this run, or its generator process was given up or dying.
THEOREM StaleObjectsAreLost == Spec => []StaleNeedsLoss
  <1>1. ASSUME FlowInv PROVE StaleNeedsLoss
    <2> SUFFICES ASSUME Succeeded({"gen", "gcc_compile"}), NEW p \in Compiled
                 PROVE  elf[p] = run \/ (p \in lost /\ elf[p] # 0)
      BY DEF StaleNeedsLoss
    <2>1. status = "success" /\ "gen" \in steps /\ "gcc_compile" \in steps
      BY DEF Succeeded
    <2>2. Handled("gcc_compile") = Work("gcc_compile")
      BY <1>1, <2>1, SuccessMeansHandled
    <2>3. Item(1, p) \in Work("gcc_compile")
      BY DEF Work, Compiled
    <2>4. ProgOf(Item(1, p)) = p
      BY ProgOfTest DEF ProgOf, Item, Compiled
    <2> QED BY <1>1, <2>1, <2>2, <2>3, <2>4 DEF FlowInv, CompiledSoFar
  <1> QED BY <1>1, FlowInvariant, PTL

\* run.py, iss_sim: the logs of all simulators are of the .o file that is in
\* the directory when the run ends, or cut short.
THEOREM LogsAgree == Spec => []LogsOfOneProgram
  <1>1. ASSUME FlowInv PROVE LogsOfOneProgram
    <2> SUFFICES ASSUME Succeeded({"gcc_compile", "iss_sim"}), NEW p \in Simulated, NEW n \in Iss
                 PROVE  log[<<n, p, "_">>] \in {elf[p], Partial}
      BY DEF LogsOfOneProgram
    <2>1. status = "success" /\ "iss_sim" \in steps
      BY DEF Succeeded
    <2>2. Handled("iss_sim") = Work("iss_sim")
      BY <1>1, <2>1, SuccessMeansHandled
    <2>3. Item(n, p) \in Work("iss_sim")
      BY DEF Work, Simulated
    <2>4. ProgOf(Item(n, p)) = p /\ SimLog(Item(n, p)) = <<n, p, "_">>
      BY ProgOfTest DEF ProgOf, Item, SimLog, Simulated
    <2> QED BY <1>1, <2>2, <2>3, <2>4 DEF FlowInv, SimulatedSoFar
  <1> QED BY <1>1, FlowInvariant, PTL

\* run.py, do_simulate without LSF: seed.yaml lists the seeds of this run only
\* when every program in the directory is of this run or lost, and is behind
\* only while a generator is at work or after a failure or an interrupt.
THEOREM SeedsOfThePrograms == Spec => []SeedsMatch
  <1>1. FlowInv => SeedsMatch
    BY DEF FlowInv
  <1> QED BY <1>1, FlowInvariant, PTL
=============================================================================
