---------------------------- MODULE MCTokenManager ----------------------------
(* Constants for the runs of TokenManager. *)
EXTENDS TokenManager
=============================================================================
