------------------------------ MODULE MCCsrTest ------------------------------
(* Two CSRs of eight bits. *)
EXTENDS CsrTest

F(msb, lsb, type, legalized) ==
    [msb |-> msb, lsb |-> lsb, type |-> type, legalized |-> legalized]

Extensions == F(4, 0, "WARL", TRUE)
Mode == F(2, 1, "WARL", TRUE)

\* one like misa of csr_template.yaml, with a gap, and one with a field that
\* cannot be written and one that keeps its old value when the new is illegal
SmallCsrs ==
    <<[fields |-> {F(7, 6, "WARL", FALSE), F(5, 5, "WPRI", FALSE), Extensions},
       reset |-> {6, 3}],
      [fields |-> {F(7, 4, "R", FALSE), F(3, 3, "WLRL", FALSE), Mode, F(0, 0, "WPRI", FALSE)},
       reset |-> {7, 5}]>>

\* "I bit remains 1, C bit can be toggled, all other bits are 0"
SmallLegalize(f, new, old) ==
    CASE f = Extensions -> {3} \cup (new \cap {1})
      [] f = Mode -> IF new = {2, 1} THEN old ELSE new
      [] OTHER -> new
=============================================================================
