------------------------------ MODULE Replica ------------------------------
(***************************************************************************)
(* What the replication of an item promises: the replica shows states that *)
(* the source had, in the order of their IEIDs.  It may skip some, be      *)
(* behind, or be gone.                                                     *)
(***************************************************************************)
EXTENDS Naturals

VARIABLES source,   \* the newest IEID of the item at its node
          replica   \* the IEID of the replica, 0 if there is none

Init == source = 1 /\ replica = 0

SourceChanges == source' > source /\ UNCHANGED replica
ReplicaFollows == replica' \in (replica + 1)..source /\ UNCHANGED source
ReplicaRemoved == replica' = 0 /\ UNCHANGED source

Next == SourceChanges \/ ReplicaFollows \/ ReplicaRemoved

Spec == Init /\ [][Next]_<<source, replica>>
============================================================================
