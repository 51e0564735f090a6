--------------------------- MODULE MCIndexWriters ---------------------------
(***************************************************************************)
(* The instance of IndexWriters that is checked.                           *)
(***************************************************************************)
EXTENDS IndexWriters, TLC

Symmetry == Permutations(Handles) \cup Permutations(Paths)
                \cup Permutations(Contents)
=============================================================================
