------------------------------- MODULE MCFat -------------------------------
(* FatFiles on a volume of four clusters and three names. *)
EXTENDS FatFiles

CONSTANTS fileA, fileB, dirA

\* The two files are treated alike.
Symmetry == Permutations({fileA, fileB})
=============================================================================
