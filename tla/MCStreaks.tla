------------------------------ MODULE MCStreaks ------------------------------
(* Streaks for TLC.                                                         *)
EXTENDS Streaks, TLC

=============================================================================
