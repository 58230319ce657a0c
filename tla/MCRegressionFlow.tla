-------------------------- MODULE MCRegressionFlow --------------------------
(* Test lists of the runs.                                                   *)
EXTENDS RegressionFlow

Generated(n) == [iterations |-> n, csr |-> FALSE, no_gcc |-> FALSE, no_iss |-> FALSE]

\* A test of two batches of different size, and a csr test nobody simulates
MixedTests == <<Generated(3), [Generated(1) EXCEPT !.csr = TRUE, !.no_iss = TRUE]>>

OneTest == <<Generated(2)>>

\* Batches of different size one after the other, two simulators for the same
\* programs, and batches at a time
Regressions ==
    {[tests |-> MixedTests, batch_size |-> 2, iss_cnt |-> 1, lsf |-> FALSE],
     [tests |-> OneTest, batch_size |-> 0, iss_cnt |-> 2, lsf |-> FALSE],
     [tests |-> OneTest, batch_size |-> 1, iss_cnt |-> 1, lsf |-> TRUE]}

Compared == {[tests |-> OneTest, batch_size |-> 0, iss_cnt |-> 2, lsf |-> FALSE]}
=============================================================================
