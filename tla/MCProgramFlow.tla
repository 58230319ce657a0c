--------------------------- MODULE MCProgramFlow ---------------------------
(* Instances of ProgramFlow small enough for TLC. *)
EXTENDS ProgramFlow

Orders(n) ==
    {f \in [0 .. n - 1 -> 0 .. n - 1] :
        \A a, b \in 0 .. n - 1 : f[a] = f[b] => a = b}

\* jump chains of two jumps, before either end, and of three, in every shuffle
Chains == {<<JalStream(1, 2, f, b)>> : f \in Orders(2), b \in BOOLEAN}
             \cup {<<JalStream(1, 3, f, FALSE)>> : f \in Orders(3)}

\* streams without labels of their own, with and without branches
Plain == {<<AtomicStream(1, 2, {})>>, <<AtomicStream(1, 2, {1})>>,
          <<AtomicStream(1, 2, {1, 2})>>,
          <<AtomicStream(1, 2, {}), AtomicStream(2, 1, {1})>>}

WithChains == Plain \cup Chains
             \cup {<<AtomicStream(1, 2, {2}), JalStream(2, 2, f, TRUE)>> :
                       f \in Orders(2)}

\* and no stream, or streams that can only go in front of or behind another
AllStreams == WithChains \cup
    {<<>>, <<AtomicStream(1, 1, {}), AtomicStream(2, 2, {2})>>,
     <<AtomicStream(1, 2, {1}), AtomicStream(2, 2, {})>>}
=============================================================================
