---------------------------- MODULE TraceCompare ----------------------------
(***************************************************************************)
(* compare_trace_csv (scripts/instr_trace_compare.py), in order: two       *)
(* instruction traces are compared by the register changes they make.      *)
(*                                                                         *)
(* A trace is a sequence of entries, an entry the sequence of its register *)
(* updates.  A register that was never written counts as zero, as          *)
(* check_update_gpr does for a register that is not in its dictionary.     *)
(***************************************************************************)
EXTENDS Integers, Sequences

CONSTANTS
    Gpr,       \* register names
    Val,       \* register values, 0 among them
    Entries,   \* the trace entries that occur
    MaxLen     \* bound on the length of a trace

ASSUME EntriesAssumption ==
    /\ 0 \in Val
    /\ Entries \subseteq Seq([rd : Gpr, val : Val])
    /\ MaxLen \in Nat

Traces == UNION {[1..n -> Entries] : n \in 0..MaxLen}

VARIABLES
    trace1, trace2,     \* instr_trace_1, instr_trace_2
    index1, index2,     \* entries consumed (trace_1_index, trace_2_index)
    gpr1, gpr2,         \* gpr_val_1, gpr_val_2
    change2,            \* gpr_state_change_2
    matched, mismatch,  \* matched_cnt, mismatch_cnt
    phase,
    changes1, changes2  \* history: the entries found to change a register

vars == <<trace1, trace2, index1, index2, gpr1, gpr2, change2,
          matched, mismatch, phase, changes1, changes2>>

-----------------------------------------------------------------------------
(* check_update_gpr: the registers after an entry, and whether one of its  *)
(* updates changed the value it found.                                     *)

Steps(gpr, entry) ==
    LET g[k \in 0..Len(entry)] ==
          IF k = 0 THEN gpr
          ELSE [g[k - 1] EXCEPT ![entry[k].rd] = entry[k].val]
    IN  g

After(gpr, entry) == Steps(gpr, entry)[Len(entry)]

Changes(gpr, entry) ==
    \E k \in 1..Len(entry) : Steps(gpr, entry)[k - 1][entry[k].rd] # entry[k].val

Init ==
    /\ trace1 \in Traces
    /\ trace2 \in Traces
    /\ index1 = 0 /\ index2 = 0
    /\ gpr1 = [r \in Gpr |-> 0]
    /\ gpr2 = [r \in Gpr |-> 0]
    /\ change2 = FALSE
    /\ matched = 0 /\ mismatch = 0
    /\ phase = "next1"
    /\ changes1 = <<>> /\ changes2 = <<>>

\* Mutant: the entry is counted twice
SkipEntryTwice ==
    /\ phase = "next1"
    /\ index1 < Len(trace1)
    /\ ~Changes(gpr1, trace1[index1 + 1])
    /\ gpr1' = After(gpr1, trace1[index1 + 1])
    /\ index1' = index1 + 2
    /\ UNCHANGED <<trace1, trace2, index2, gpr2, change2, matched, mismatch,
                   phase, changes1, changes2>>

\* for trace in instr_trace_1: no change, continue
SkipEntry1 ==
    /\ phase = "next1"
    /\ index1 < Len(trace1)
    /\ ~Changes(gpr1, trace1[index1 + 1])
    /\ gpr1' = After(gpr1, trace1[index1 + 1])
    /\ index1' = index1 + 1
    /\ UNCHANGED <<trace1, trace2, index2, gpr2, change2, matched, mismatch,
                   phase, changes1, changes2>>

\* Mutant: gpr_state_change_2 is not reset
TakeWithoutReset ==
    /\ phase = "next1"
    /\ index1 < Len(trace1)
    /\ Changes(gpr1, trace1[index1 + 1])
    /\ gpr1' = After(gpr1, trace1[index1 + 1])
    /\ index1' = index1 + 1
    /\ changes1' = Append(changes1, trace1[index1 + 1])
    /\ phase' = "seek2"
    /\ UNCHANGED <<trace1, trace2, index2, gpr2, change2, matched, mismatch,
                   changes2>>

\* ... a change: look for the next one of trace 2
TakeEntry1 ==
    /\ phase = "next1"
    /\ index1 < Len(trace1)
    /\ Changes(gpr1, trace1[index1 + 1])
    /\ gpr1' = After(gpr1, trace1[index1 + 1])
    /\ index1' = index1 + 1
    /\ changes1' = Append(changes1, trace1[index1 + 1])
    /\ change2' = FALSE
    /\ phase' = "seek2"
    /\ UNCHANGED <<trace1, trace2, index2, gpr2, matched, mismatch, changes2>>

\* Mutant: no look at what is left of trace 2
EndWithoutTail ==
    /\ phase = "next1"
    /\ index1 = Len(trace1)
    /\ phase' = "end"
    /\ UNCHANGED <<trace1, trace2, index1, index2, gpr1, gpr2, change2,
                   matched, mismatch, changes1, changes2>>

EndOfTrace1 ==
    /\ phase = "next1"
    /\ index1 = Len(trace1)
    /\ phase' = "tail2"
    /\ UNCHANGED <<trace1, trace2, index1, index2, gpr1, gpr2, change2,
                   matched, mismatch, changes1, changes2>>

\* one entry of trace 2, by either of the loops that run over it
ReadEntry2 ==
    /\ index2 < Len(trace2)
    /\ gpr2' = After(gpr2, trace2[index2 + 1])
    /\ change2' = Changes(gpr2, trace2[index2 + 1])
    /\ changes2' = IF change2' THEN Append(changes2, trace2[index2 + 1])
                   ELSE changes2

SeekEntry2 ==
    /\ phase = "seek2"
    /\ ~change2
    /\ ReadEntry2
    /\ index2' = index2 + 1
    /\ UNCHANGED <<trace1, trace2, index1, gpr1, matched, mismatch, phase,
                   changes1>>

\* "Break the loop if it reaches the end of trace 2"
AfterJudging == IF index2 = Len(trace2) THEN "tail2" ELSE "next1"

\* Mutant: only the registers are compared, not their values
SameRegisters ==
    /\ change2
    /\ Len(trace1[index1]) = Len(trace2[index2])
    /\ \A k \in 1..Len(trace1[index1]) : trace1[index1][k].rd = trace2[index2][k].rd

Same == change2 /\ trace1[index1] = trace2[index2]

Matches ==
    /\ phase = "seek2"
    /\ change2
    /\ Same
    /\ matched' = matched + 1
    /\ phase' = AfterJudging
    /\ UNCHANGED <<trace1, trace2, index1, index2, gpr1, gpr2, change2,
                   mismatch, changes1, changes2>>

\* Mutant: the end of trace 2 is no mismatch
MismatchNeedsChange ==
    /\ phase = "seek2"
    /\ change2
    /\ ~Same
    /\ mismatch' = mismatch + 1
    /\ phase' = AfterJudging
    /\ UNCHANGED <<trace1, trace2, index1, index2, gpr1, gpr2, change2,
                   matched, changes1, changes2>>

Mismatches ==
    /\ phase = "seek2"
    /\ change2 \/ index2 = Len(trace2)
    /\ ~Same
    /\ mismatch' = mismatch + 1
    /\ phase' = AfterJudging
    /\ UNCHANGED <<trace1, trace2, index1, index2, gpr1, gpr2, change2,
                   matched, changes1, changes2>>

\* "Check if there's remaining instruction that change architectural state"
TailUnchanged ==
    /\ phase = "tail2"
    /\ ReadEntry2
    /\ ~change2'
    /\ index2' = index2 + 1
    /\ UNCHANGED <<trace1, trace2, index1, gpr1, matched, mismatch, phase,
                   changes1>>

\* Mutant: what is left of trace 2 counts once
TailCountsOne ==
    /\ phase = "tail2"
    /\ ReadEntry2
    /\ change2'
    /\ mismatch' = mismatch + 1
    /\ phase' = "end"
    /\ UNCHANGED <<trace1, trace2, index1, index2, gpr1, matched, changes1>>

TailChanged ==
    /\ phase = "tail2"
    /\ ReadEntry2
    /\ change2'
    /\ mismatch' = mismatch + Len(trace2) - index2
    /\ phase' = "end"
    /\ UNCHANGED <<trace1, trace2, index1, index2, gpr1, matched, changes1>>

EndOfTrace2 ==
    /\ phase = "tail2"
    /\ index2 = Len(trace2)
    /\ phase' = "end"
    /\ UNCHANGED <<trace1, trace2, index1, index2, gpr1, gpr2, change2,
                   matched, mismatch, changes1, changes2>>

Next ==
    \/ SkipEntry1 \/ TakeEntry1 \/ EndOfTrace1
    \/ SeekEntry2 \/ Matches \/ Mismatches
    \/ TailUnchanged \/ TailChanged \/ EndOfTrace2

Spec == Init /\ [][Next]_vars /\ WF_vars(Next)

Passed == phase = "end" /\ mismatch = 0

-----------------------------------------------------------------------------
(* Properties *)

TypeOK ==
    /\ trace1 \in Traces /\ trace2 \in Traces
    /\ index1 \in 0..Len(trace1) /\ index2 \in 0..Len(trace2)
    /\ gpr1 \in [Gpr -> Val] /\ gpr2 \in [Gpr -> Val]
    /\ change2 \in BOOLEAN
    /\ matched \in 0..MaxLen /\ mismatch \in 0 .. 2 * MaxLen
    /\ phase \in {"next1", "seek2", "tail2", "end"}
    /\ changes1 \in Seq(Entries) /\ changes2 \in Seq(Entries)

\* What a trace changes, defined on the whole trace: its entries that change
\* a register, in order.
Registers(trace) ==
    LET g[k \in 0..Len(trace)] ==
          IF k = 0 THEN [r \in Gpr |-> 0] ELSE After(g[k - 1], trace[k])
    IN  g

ChangesOf(trace) ==
    LET regs == Registers(trace)
        c[k \in 0..Len(trace)] ==
          IF k = 0 THEN <<>>
          ELSE IF Changes(regs[k - 1], trace[k]) THEN Append(c[k - 1], trace[k])
          ELSE c[k - 1]
    IN  c[Len(trace)]

IsPrefixOf(s, t) == Len(s) <= Len(t) /\ \A k \in 1..Len(s) : s[k] = t[k]

\* A passed comparison has matched every register change of trace 2, in
\* order, with an equal one of trace 1: no change of trace 2 is skipped,
\* reordered or compared with the wrong one.
PassedMatches ==
    Passed => /\ IsPrefixOf(changes2, changes1)
              /\ Len(changes2) = matched

\* The verdict as a function of the two traces.  It passes when the traces
\* change the same registers in the same order, and also when trace 2 stops
\* early with a matched change as its very last entry.
EndsWithChange(trace) ==
    LET n == Len(trace) IN n > 0 /\ Changes(Registers(trace)[n - 1], trace[n])

VerdictExact ==
    phase = "end" =>
        (mismatch = 0 <=>
            \/ ChangesOf(trace1) = ChangesOf(trace2)
            \/ /\ IsPrefixOf(ChangesOf(trace2), ChangesOf(trace1))
               /\ EndsWithChange(trace2))

\* "The instruction trace from these runs will be cross compared"
\* (getting_started.rst): a passed comparison means that the two runs made
\* the same register changes.
PassedMeansSame ==
    Passed => ChangesOf(trace1) = ChangesOf(trace2)

-----------------------------------------------------------------------------
(* The inductive invariant behind PassedMatches.                           *)

Counters ==
    /\ trace1 \in Seq(Entries) /\ trace2 \in Seq(Entries)
    /\ index1 \in 0..Len(trace1) /\ index2 \in 0..Len(trace2)
    /\ change2 \in BOOLEAN
    /\ matched \in Nat /\ mismatch \in Nat
    /\ phase \in {"next1", "seek2", "tail2", "end"}
    /\ changes1 \in Seq(Entries) /\ changes2 \in Seq(Entries)

\* While nothing has mismatched, the changes found so far pair up: all of
\* them between two changes of trace 1, all but the open one while trace 2
\* is searched, all of trace 2's at the end.
Paired ==
    mismatch = 0 =>
        /\ IsPrefixOf(changes2, changes1) \/ phase = "seek2"
        /\ phase # "seek2" => Len(changes2) = matched
        /\ phase = "next1" => Len(changes1) = matched
        /\ phase = "seek2" =>
              /\ index1 > 0
              /\ Len(changes1) = matched + 1
              /\ changes1[matched + 1] = trace1[index1]
              /\ \A k \in 1..matched : changes1[k] = changes2[k]
              /\ change2 => /\ index2 > 0
                            /\ Len(changes2) = matched + 1
                            /\ changes2[matched + 1] = trace2[index2]
              /\ ~change2 => Len(changes2) = matched

CInv == Counters /\ Paired
=============================================================================
