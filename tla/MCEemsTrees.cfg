CONSTANTS
    MaxId = 40
    MaxFaults = 0
    Directory <- Directories
    Word <- Words
    Year <- Years
    Inputs <- VariedInputs
SPECIFICATION Spec
INVARIANTS ScanComplete ItemPlaysItsVideo CoverShown
