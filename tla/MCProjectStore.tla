--------------------------- MODULE MCProjectStore ---------------------------
(* Small instances of ProjectStore for TLC.                                 *)
EXTENDS ProjectStore, TLC

Symmetry == Permutations(Client) \cup Permutations(VersionId) \cup Permutations(Name)
=============================================================================
