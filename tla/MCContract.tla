----------------------------- MODULE MCContract ----------------------------
(* An instance of Contract for TLC.                                         *)
EXTENDS Contract

=============================================================================
