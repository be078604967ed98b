SPECIFICATION Spec
CONSTANTS
  p1 = p1
  p2 = p2
  t1 = t1
  t2 = t2
  Procs <- MCProcs
  Threads <- MCThreads
  Words = {"w"}
  Attempts = 2
  MaxRuns = 3
  Questions = {"q", "q again"}
  Key <- MCKey
  Users = {"u"}
  MaxCheckpoints = 4
  MaxLength = 2
  Depth = 3
  Levels = {1, 2, 3}
  Headings = {"A"}
  BatchSize = 2
  MaxElements = 4
SYMMETRY MCSymmetry
INVARIANTS MnemonicNamesThread TimelineFaithful RefsResolve ChunksFaithful HitsResolve
CHECK_DEADLOCK FALSE
