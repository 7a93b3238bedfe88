-------------------------- MODULE MCLambdaWarmPool --------------------------
(* Small instances of LambdaWarmPool for TLC. *)
EXTENDS LambdaWarmPool

CONSTANTS i1, i2, i3, old, new
=============================================================================
