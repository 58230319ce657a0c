--------------------------- MODULE MCTraceCompare ---------------------------
(* Instances of TraceCompare and TraceLogs small enough for TLC. *)
EXTENDS TraceLogs

U(r, v) == [rd |-> r, val |-> v]

\* no update, single updates of an integer and a floating point register,
\* and one double update.  Three values: with two, a register that changes at
\* all changes to the other one.
SmallEntries ==
    {<<>>, <<U("a0", 0)>>, <<U("a0", 1)>>, <<U("a0", 2)>>, <<U("ft0", 1)>>,
     <<U("a0", 1), U("ft0", 0)>>}

\* what the converters write, too
AllEntries == SmallEntries \cup {<<U("zero", 0)>>}

I(op, r, v) == [op |-> op, rd |-> r, val |-> v]
Plain(op) == I(op, "zero", 0)

SmallExecuted ==
    {I("set", "a0", 0), I("set", "a0", 1), I("set", "ft0", 1),
     Plain("none"), Plain("trap"), Plain("wfi")}

\* a log that was cut off, and one with what follows the ecall
SmallEndings == {<<>>, <<Plain("ecall"), I("set", "a0", 2)>>}
=============================================================================
