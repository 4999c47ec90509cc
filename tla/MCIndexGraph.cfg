CONSTANTS
  caller = caller
  lib1 = lib1
  lib2 = lib2
  s = s
  emit = emit
  File <- MCFile
  Symbol = {s, emit}
  Noisy = {emit}
  Contents <- MCContents
  Nearness <- MCNearness
  Reaches <- MCReaches
  MaxAttempts = 2
  Workers = 2
  MaxEdits = 2
  MaxCrashes = 1
  Gone = Gone
  NoRow = NoRow
  Dead = Dead
SPECIFICATION Spec
INVARIANTS
  SitesAccounted
  EdgesMatchRows
PROPERTIES
  ResolvedAtRest
