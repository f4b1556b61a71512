SPECIFICATION Spec
CONSTANTS
  Libraries = {L1, L2}
  Names = {N1, N2}
  a = a
  b = b
  Cells <- MCCells
  Technologies = {T}
  Contents <- MCContents
  CellIndexes = {C1, C2}
  MaxMisnamed = 1
  MisnamedWithHistory = FALSE
  MaxRetired = 0
  None = None
SYMMETRY Symmetry
INVARIANTS TypeOK NamesMatchRegistry ReferencesKeepTheirCell CountsExact ColdOnlyIfUnserved
CHECK_DEADLOCK FALSE
