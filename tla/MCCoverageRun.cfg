CONSTANTS
  XLEN = 4
  privileged_reg_t = {833}
  Steps <- Rows
  Layouts = {"iss", "core"}
  MaxFiles = 3
  BatchSize = 2
  supported_isa = {"RV32I", "RV32M", "RV32C", "RV64I", "RV64C", "RV32F", "RV32D"}
SPECIFICATION Spec
INVARIANTS TypeOK CoverageExact MemHazardsReal DiesOnlyOnKnownForms
CHECK_DEADLOCK FALSE
