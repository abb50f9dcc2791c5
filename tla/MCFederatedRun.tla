--------------------------- MODULE MCFederatedRun ---------------------------
(***************************************************************************)
(* Instances of FederatedRun for TLC: the clients are model values. They   *)
(* are interchangeable, but no run declares it: the symmetry of a set is   *)
(* not sound for the liveness properties the runs check.                   *)
(***************************************************************************)
EXTENDS FederatedRun
=============================================================================
