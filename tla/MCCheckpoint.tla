---------------------------- MODULE MCCheckpoint ----------------------------
(* Values for the constants of Checkpoint that a cfg cannot write. *)
EXTENDS Checkpoint

SignedBalances == {-1, 0}
=============================================================================
