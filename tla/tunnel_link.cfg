SPECIFICATION LinkSpec
CONSTANTS
  s1 = s1
  s2 = s2
  Stoppers <- MCStoppers
  Repeaters <- MCRepeaters
  Tries = 1
  ProbeTries = 2
  Capacity = 1
  Steps = 1
INVARIANTS
  StartsClean
PROPERTIES
  RunsEndRightly
  CalmLinksWork
