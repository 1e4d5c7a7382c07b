---------------------------- MODULE MCBlobStore -----------------------------
(* Small instances of BlobStore for TLC.                                    *)
EXTENDS BlobStore, TLC

Symmetry == Permutations(Blob) \cup Permutations(Project)
              \cup Permutations(Publisher) \cup Permutations(Collector)
=============================================================================
