SPECIFICATION FairSpec
CONSTANTS
  Focus <- MCFocus
  Levels = {5, 6, 255}
  Remainings = {255, 999, 1000}
  OutCap = 1
  InCap = 1
  MaxBad = 1
  MaxChanges = 1
INVARIANTS
  TypeOK
  ShownCurrent
  CodecsKeep
  OkMeansApplied
PROPERTIES
  CommandEnds
