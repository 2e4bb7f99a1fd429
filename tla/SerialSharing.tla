---------------------------- MODULE SerialSharing ----------------------------
(***************************************************************************)
(* What the sharing channel promises its clients: the world state only     *)
(* changes by whole contract calls, one at a time, each as if it had run   *)
(* alone on the state it changes.  SharingLedger implements it.            *)
(*                                                                         *)
(* One call is weaker than that.  UpdateSharingStatus finds its records by *)
(* a rich query, and a record that appears after the simulation is not     *)
(* noticed, so its effect covers some of the car's sharings.               *)
(***************************************************************************)
EXTENDS TayoSharing

VARIABLE world

Init == world = InitLedger

\* A call that touches keys by name takes effect as a whole.
Whole(c) ==
  /\ c.fn # "UpdateSharingStatus"
  /\ Simulate(world, c).ok
  /\ world' = Write(world, Simulate(world, c).writes)

\* A status update reaches a non-empty part of the car's sharings.
Partial(c) ==
  /\ c.fn = "UpdateSharingStatus"
  /\ Simulate(world, c).ok
  /\ \E rows \in SUBSET Simulate(world, c).reads :
       /\ rows # {}
       /\ world' = Write(world, [k \in rows |-> Simulate(world, c).writes[k]])

Next == \E c \in Calls : Whole(c) \/ Partial(c)

Spec == Init /\ [][Next]_world
==============================================================================
