CONSTANTS
    MaxId = 16
    MaxFaults = 1
    Directory <- Directories
    Word <- Words
    Year <- Years
    Inputs <- TwoLibraries
SPECIFICATION Spec
INVARIANTS FreshDbIsScanned
