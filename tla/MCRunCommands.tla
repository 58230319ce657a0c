--------------------------- MODULE MCRunCommands ---------------------------
(* Instances of RunCommands small enough for TLC. *)
EXTENDS RunCommands

\* run_parallel_cmd as do_simulate calls it, run_cmd as the steps call it, and
\* run_cmd of one command after the other for --simulator=... without LSF
AllCalls == [parallel : {TRUE}, exit_on_error : {FALSE}]
                \cup [parallel : {FALSE}, exit_on_error : {TRUE}]
=============================================================================
