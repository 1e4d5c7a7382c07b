---------------------------- MODULE MCConversion ----------------------------
(* A small instance of Conversion for TLC.                                  *)
EXTENDS Conversion

(* Behaviours are followed up to the first crossing; from the fourth        *)
(* revision on there is one request at a time, beside the job.              *)
Bounded == ~crossed /\ (revision > 3 => Cardinality(writes) + Cardinality(requests) <= 1)
=============================================================================
