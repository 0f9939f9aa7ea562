SPECIFICATION FairSpec
CONSTANTS
  Main <- MCMain
  First <- MCFirst
  Second <- MCSecond
  Thread <- MCThread
  Graphs <- MCGraphs
  Pages = 28
  FirstBase = 5
  SectionProt <- MCSectionProt
  StackPages = 2
  StackMax = 5
  MaxOps = 2
  Sizes <- MCSizes
  Asked <- MCAsked
INVARIANTS
  RegionsKept
  LoadedOnce
  ProgramRunsInitialised
  StackIsGuarded
  EndHasReason
PROPERTIES
  ProgramStarts
CHECK_DEADLOCK FALSE
