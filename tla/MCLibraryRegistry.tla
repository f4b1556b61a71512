-------------------------- MODULE MCLibraryRegistry --------------------------
(***************************************************************************)
(* Instances of LibraryRegistry for TLC.                                   *)
(***************************************************************************)
EXTENDS LibraryRegistry

CONSTANTS a, b      \* library cells

\* A cell that moves to another index, and one that comes and goes.
MCContents == {<<a>>, <<b, a>>}
MCCells == {a, b}

\* Nothing tells these apart.
Symmetry == Permutations(Libraries) \cup Permutations(Names) \cup Permutations(CellIndexes)
=============================================================================
