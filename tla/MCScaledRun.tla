---------------------------- MODULE MCScaledRun -----------------------------
(***************************************************************************)
(* Instances of ScaledRun for TLC.                                         *)
(***************************************************************************)
EXTENDS ScaledRun

\* Every rule, with and without encryption, and a warm-up of every length from
\* none to the whole of a run of three rounds.
AllConfigs ==
  [algorithm : KnownAlgorithms, encrypted : BOOLEAN, warmup : 0..3]
=============================================================================
