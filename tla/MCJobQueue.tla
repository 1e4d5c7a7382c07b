----------------------------- MODULE MCJobQueue -----------------------------
(* Small instances of JobQueue for TLC.                                    *)
EXTENDS JobQueue, TLC

CONSTANTS j1, j2, p1, p2

OneProject  == [j \in Job |-> p1]
TwoProjects == (j1 :> p1) @@ (j2 :> p2)

Symmetry == Permutations(Client) \cup Permutations(Job)
=============================================================================
