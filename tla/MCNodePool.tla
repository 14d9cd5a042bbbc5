------------------------------ MODULE MCNodePool ------------------------------
(* Instances of NodePool for TLC.                                            *)
EXTENDS NodePool, TLC

\* Nodes and goroutines are interchangeable in safety runs.
Symmetry == Permutations(Node) \cup Permutations(Goroutine)
==============================================================================
