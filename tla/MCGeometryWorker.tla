------------------------- MODULE MCGeometryWorker -------------------------
(* Every kind of job, one at a time.                                       *)
EXTENDS GeometryWorker
MCAllKinds == Kinds
=============================================================================
