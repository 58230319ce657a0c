-------------------------- MODULE AbstractCompare --------------------------
(***************************************************************************)
(* What a comparison of two traces promises, without its two loops: the    *)
(* register changes of the two sides are paired off from the front, each   *)
(* pair is judged once, and changes one side has more of are mismatches.   *)
(* How entries without a change are skipped, and which index moves when,   *)
(* is the business of TraceCompare.                                        *)
(***************************************************************************)
EXTENDS Integers, Sequences

CONSTANT Change    \* the register changes that occur

VARIABLES
    left1, left2,       \* changes not judged yet
    matched, mismatch,
    state               \* "waiting" for the traces, "pairing", "over"

vars == <<left1, left2, matched, mismatch, state>>

Init ==
    /\ matched = 0 /\ mismatch = 0
    /\ left1 \in Seq(Change) /\ left2 \in Seq(Change)
    /\ \/ state = "waiting" /\ left1 = <<>> /\ left2 = <<>>
       \/ state = "pairing"

Give ==
    /\ state = "waiting" /\ state' = "pairing"
    /\ left1' \in Seq(Change) /\ left2' \in Seq(Change)
    /\ UNCHANGED <<matched, mismatch>>

Pair ==
    /\ state = "pairing"
    /\ left1 # <<>> /\ left2 # <<>>
    /\ left1' = Tail(left1) /\ left2' = Tail(left2)
    /\ \/ Head(left1) = Head(left2) /\ matched' = matched + 1 /\ UNCHANGED mismatch
       \/ Head(left1) # Head(left2) /\ mismatch' = mismatch + 1 /\ UNCHANGED matched
    /\ UNCHANGED state

\* the second side has no change left for this one
Missing ==
    /\ state = "pairing"
    /\ left1 # <<>> /\ left2 = <<>>
    /\ left1' = Tail(left1)
    /\ mismatch' = mismatch + 1
    /\ UNCHANGED <<left2, matched, state>>

\* the first side has none left: every change of the second counts
Extra ==
    /\ state = "pairing"
    /\ left1 = <<>> /\ left2 # <<>>
    /\ mismatch' >= mismatch + Len(left2)
    /\ state' = "over"
    /\ UNCHANGED <<left1, matched>>

\* The second side is used up.  The first side need not be.
Finish ==
    /\ state = "pairing"
    /\ left2 = <<>>
    /\ state' = "over"
    /\ UNCHANGED <<left1, left2, matched, mismatch>>

Next == Give \/ Pair \/ Missing \/ Extra \/ Finish

Spec == Init /\ [][Next]_vars
=============================================================================
