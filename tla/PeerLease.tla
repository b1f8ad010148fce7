------------------------------ MODULE PeerLease ------------------------------
(***************************************************************************)
(* What the transport loop promises about PeerConnection objects, whoever   *)
(* decides to re-dial and however long the decision takes:                  *)
(*                                                                          *)
(*   - an object is lent to the audio publisher only while it is allocated; *)
(*   - an object is freed only while nobody has it on loan;                 *)
(*   - at most one object is allocated at a time (a re-dial must not leak). *)
(*                                                                          *)
(* Redial.tla implements this module: see Redial!Lease.                     *)
(***************************************************************************)

CONSTANT Peer   \* heap blocks that can hold a PeerConnection

VARIABLES
  live,         \* the allocated PeerConnections
  lent          \* the ones the publisher's current frame holds a pointer to

leaseVars == <<live, lent>>

LeaseInit == live = {} /\ lent = {}

Create(p) == /\ live = {}
             /\ p \notin lent
             /\ live' = {p}
             /\ UNCHANGED lent

Lend(p) == /\ lent = {}
           /\ p \in live
           /\ lent' = {p}
           /\ UNCHANGED live

Return == /\ lent' = {}
          /\ UNCHANGED live

Destroy(p) == /\ p \in live \ lent
              /\ live' = live \ {p}
              /\ UNCHANGED lent

\* A restart clears the RAM of both tasks at once.
Reset == live' = {} /\ lent' = {}

LeaseNext == \/ \E p \in Peer : Create(p) \/ Lend(p) \/ Destroy(p)
             \/ Return
             \/ Reset

LeaseSpec == LeaseInit /\ [][LeaseNext]_leaseVars
=============================================================================
