---------------------------- MODULE MCTayoConnect ----------------------------
(* Two threads, any of the three cases each, over and over. *)
EXTENDS TayoConnect, TLC

ThreadSymmetry == Permutations(Threads)
==============================================================================
