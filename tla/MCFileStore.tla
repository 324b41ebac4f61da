----------------------------- MODULE MCFileStore -----------------------------
(* Instances of FileStore for TLC.                                           *)
EXTENDS FileStore, TLC

CONSTANTS i1, i2, i3, v1, v2

Symmetry == Permutations(IDs) \cup Permutations(Responses)
===============================================================================
