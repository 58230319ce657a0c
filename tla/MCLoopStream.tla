---------------------------- MODULE MCLoopStream ----------------------------
(* Instances of LoopStream small enough for TLC. *)
EXTENDS LoopStream

OneLoop == [old : 0..3, new : {LoopInstr[1]}, contained : {TRUE}]
TwoLoops == [old : 0..3, new : {LoopInstr[2]}, contained : {TRUE}]

\* three to nine random instructions, less the branches that gen_instr drops at the end,
\* and one saved register, the return address, as in the code
Stack == [old : 0..9, new : {Push(1), Pop(1)}, contained : {FALSE}]

AllMixes == OneLoop \cup TwoLoops \cup Stack
=============================================================================
