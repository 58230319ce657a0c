SPECIFICATION LogSpec
CONSTANTS
    Gpr = {"a0", "ft0", "zero"}
    Xreg = {"a0", "zero"}
    Val = {0, 1, 2}
    MaxLen = 3
    MaxSteps = 2
    Entries <- AllEntries
    CsvEntries = {}
    Sims = {"spike", "ovpsim", "sail", "whisper", "renode"}
    Executed <- SmallExecuted
    Endings <- SmallEndings
INVARIANT
    PassedMeansSame
CHECK_DEADLOCK FALSE
