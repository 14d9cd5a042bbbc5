------------------------------- MODULE MCMaster -------------------------------
(* Instances of Master for TLC.                                              *)
EXTENDS MasterRefinement, TLC

\* Jobs, nodes, goroutines and Cancel calls are interchangeable in safety runs.
Symmetry ==
    Permutations(Job) \cup Permutations(Node)
        \cup Permutations(Goroutine) \cup Permutations(Canceller)
==============================================================================
