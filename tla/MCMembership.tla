----------------------------- MODULE MCMembership -----------------------------
(* Instances of Membership for TLC.                                          *)
EXTENDS Membership
==============================================================================
