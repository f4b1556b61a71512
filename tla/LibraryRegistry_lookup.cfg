SPECIFICATION Spec
CONSTANTS
  Libraries = {L1, L2}
  Names = {N1, N2}
  a = a
  b = b
  Cells <- MCCells
  Technologies = {T}
  Contents <- MCContents
  CellIndexes = {C1, C2}
  MaxMisnamed = 1
  MisnamedWithHistory = FALSE
  MaxRetired = 0
  None = None
SYMMETRY Symmetry
INVARIANT RegisteredIsFound
CHECK_DEADLOCK FALSE
