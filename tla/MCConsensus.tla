----------------------------- MODULE MCConsensus -----------------------------
(* Three models with two different answers: all agree, two do, or each fails. *)
EXTENDS Consensus

MCSessions == 1..3
=============================================================================
