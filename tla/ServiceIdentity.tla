---------------------------- MODULE ServiceIdentity ----------------------------
(***************************************************************************)
(* What the start of the backend promises of each of its two wallets: the    *)
(* DID in it is an identity.  It is adopted once, the running process uses   *)
(* it and no other, and only people can take it away, never while the        *)
(* process runs.                                                            *)
(***************************************************************************)
CONSTANTS Dids, None
VARIABLES identity, using

vars == <<identity, using>>

Init == identity = None /\ using = None

\* A process that starts gives the wallet its first DID, or people put one back.
Adopt(did) == identity = None /\ using = None /\ identity' = did /\ UNCHANGED using
Start == identity # None /\ using = None /\ using' = identity /\ UNCHANGED identity
Stop == using' = None /\ UNCHANGED identity
Lose == using = None /\ identity' = None /\ UNCHANGED using

Next == \/ \E did \in Dids : Adopt(did)
        \/ Start \/ Stop \/ Lose

Spec == Init /\ [][Next]_vars
==============================================================================
