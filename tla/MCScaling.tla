------------------------------- MODULE MCScaling ------------------------------
(* Instances of Scaler and Balancer for TLC.                                  *)
EXTENDS Scaler
==============================================================================
