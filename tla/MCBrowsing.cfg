CONSTANTS
    MaxId = 16
    MaxFaults = 2
    CountModulus = 8
    Directory <- Directories
    Word <- Words
    Year <- Years
    Inputs <- WideOrNested
    PageSizes <- SomePageSizes
    StrangeRequests <- WrongRequests
SPECIFICATION FairBrowsing
INVARIANTS WalkComplete SeenOnce FailsOnlyIfGone LinksServed ErrorsAnswered WalkAdvances
PROPERTIES WalkEnds
