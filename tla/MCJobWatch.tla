----------------------------- MODULE MCJobWatch -----------------------------
(* A log of three events read two at a time, two attempts, and a           *)
(* connection that breaks once.                                            *)
EXTENDS JobWatch
=============================================================================
