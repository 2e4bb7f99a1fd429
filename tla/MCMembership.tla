------------------------------ MODULE MCMembership ------------------------------
(* A small instance of Membership: ids 1 and 3 share a key, as 2 and 19 do.   *)
EXTENDS Membership, TLC

KeyOfId == 1 :> "0" @@ 2 :> "h2" @@ 3 :> "0"
ThreadSymmetry == Permutations(Threads)
==============================================================================
