CONSTANTS
    MaxId = 40
    MaxFaults = 2
    Directory <- Directories
    Word <- Words
    Year <- Years
    Inputs <- LinkedOrNested
SPECIFICATION FairSpec
INVARIANTS TypeOK RefsResolve TreeShaped ResourcesOwned ThrowNeedsFault CountersFresh
           OneMoviesFolder NotPublishedTwice
PROPERTIES AppendOnly ScanAdvances LibrarySpec Restarted
