---------------------------- MODULE Replication ----------------------------
(***************************************************************************)
(* The state of one item that is replicated from another node              *)
(* (process_remote_inventory, update_state_from_repl, eva/src/core.rs).    *)
(*                                                                         *)
(* The source numbers its states with IEIDs and sends state events and     *)
(* inventories; messages are lost or come late.  The receiver looks the    *)
(* item up first and changes it later, so its tasks interleave.  Module    *)
(* Sources has the items of several nodes; here one item has a state.      *)
(***************************************************************************)
EXTENDS Naturals, FiniteSets

CONSTANTS Ref, NoRef,    \* objects of the replica
          Meta, NoItem,  \* meta data of the item; there is no item
          Full, Quick,   \* tasks for full and for incremental inventories
          Events,        \* replication_state_handler
          ForceAccept,   \* are state events sent with the force_accept flag?
          MaxIeid,       \* bound of the IEIDs
          MaxNet         \* bound of the messages under way

Task == Full \union Quick \union Events

ASSUME TasksDiffer == Full \intersect Quick = {} /\ (Full \union Quick) \intersect Events = {}
ASSUME Names == NoRef \notin Ref /\ NoItem \notin Meta
ASSUME Bounds == MaxIeid \in Nat \ {0} /\ MaxNet \in Nat /\ Meta # {}

VARIABLES top, itemMeta,        \* the source: last IEID of the item and its meta
          net,                  \* messages under way
          inv,                  \* the object in the inventory
          ieid, meta,           \* the state and the meta of an object
          locked,               \* who has locked the source for a full inventory
          pc, msg, ref          \* a task: its place, message and object

source == <<top, itemMeta>>
vars == <<source, net, inv, ieid, meta, locked, pc, msg, ref>>

Message == [kind : {"state", "full", "quick"}, ieid : 1..MaxIeid,
            meta : Meta \union {NoItem}]
\* The meta data of an item that has none
SomeMeta == CHOOSE m \in Meta : TRUE
NoMsg == [kind |-> "state", ieid |-> 1, meta |-> NoItem]

Init ==
  /\ top = 1 /\ itemMeta = SomeMeta
  /\ net = {}
  /\ inv = NoRef
  /\ ieid = [r \in Ref |-> 0] /\ meta = [r \in Ref |-> SomeMeta]
  /\ locked = {}
  /\ pc = [t \in Task |-> "idle"]
  /\ msg = [t \in Task |-> NoMsg]
  /\ ref = [t \in Task |-> NoRef]

receiver == <<inv, ieid, meta, locked, pc, msg, ref>>

----------------------------------------------------------------------------
(* The source: another core and its replication service *)

\* A message that finds no room is lost.
Send(m) == net' = IF Cardinality(net) < MaxNet THEN net \union {m} ELSE net

\* The state changes and is sent, alone or as an incremental inventory.
SourceChanges(k) ==
  /\ itemMeta # NoItem /\ top < MaxIeid
  /\ k = "quick" => Quick # {}
  /\ top' = top + 1
  /\ Send([kind |-> k, ieid |-> top + 1, meta |-> itemMeta])
  /\ UNCHANGED <<itemMeta, receiver>>

\* The item is deployed again with other meta data; the IEID stays.
SourceMeta(m) ==
  /\ itemMeta # NoItem /\ top < MaxIeid
  /\ itemMeta' = m
  /\ UNCHANGED <<top, net, receiver>>

\* The item is removed, or created anew.
SourceToggles ==
  /\ top < MaxIeid
  /\ top' = top + 1
  /\ itemMeta' = IF itemMeta = NoItem THEN SomeMeta ELSE NoItem
  /\ UNCHANGED <<net, receiver>>

\* The inventory is sent regularly.
SendInventory ==
  /\ Send([kind |-> "full", ieid |-> top, meta |-> itemMeta])
  /\ UNCHANGED <<source, receiver>>

Lose(m) == m \in net /\ net' = net \ {m} /\ UNCHANGED <<source, receiver>>

----------------------------------------------------------------------------
(* Inventories *)

Goto(t, l) == pc' = [pc EXCEPT ![t] = l]

Take(t, m, l, r) ==
  /\ pc[t] = "idle" /\ m \in net
  /\ net' = net \ {m}
  /\ msg' = [msg EXCEPT ![t] = m]
  /\ ref' = [ref EXCEPT ![t] = r]
  /\ Goto(t, l)

Return(t) ==
  /\ Goto(t, "idle")
  /\ msg' = [msg EXCEPT ![t] = NoMsg]
  /\ ref' = [ref EXCEPT ![t] = NoRef]

\* The list of the source's items is copied; a full payload that meets another one
\* is dropped.
InvBegin(t, m) ==
  /\ m.kind = IF t \in Full THEN "full" ELSE "quick"
  /\ t \in Full => locked = {}
  /\ Take(t, m, "inv", inv)
  /\ locked' = locked \union ({t} \intersect Full)
  /\ UNCHANGED <<source, inv, ieid, meta>>

\* Faulty variant of InvEnd: the source stays locked.
InvEndLocked(t) == Return(t) /\ UNCHANGED locked

InvEnd(t) == Return(t) /\ locked' = locked \ {t}

\* The item is not in the payload.
InvRemove(t) ==
  /\ pc[t] = "inv" /\ msg[t].meta = NoItem
  /\ inv' = IF t \in Full /\ ref[t] # NoRef THEN NoRef ELSE inv
  /\ InvEnd(t)
  /\ UNCHANGED <<source, net, ieid, meta>>

Same(t) == ref[t] # NoRef /\ meta[ref[t]] = msg[t].meta

\* Faulty variant of Newer: whatever comes is taken.
NewerAny(t) == TRUE

Newer(t) == msg[t].ieid > ieid[ref[t]]

\* The item is known with the same meta: its state is set if it is newer.
InvUpdate(t) ==
  /\ pc[t] = "inv" /\ msg[t].meta # NoItem /\ Same(t)
  /\ ieid' = IF Newer(t) THEN [ieid EXCEPT ![ref[t]] = msg[t].ieid] ELSE ieid
  /\ InvEnd(t)
  /\ UNCHANGED <<source, net, inv, meta>>

Free(r) == r # inv /\ \A t \in Task : ref[t] # r

\* append_remote_item: a new object, with whatever state came with it
InvAppend(t, r) ==
  /\ pc[t] = "inv" /\ msg[t].meta # NoItem /\ ~Same(t)
  /\ Free(r)
  /\ inv' = r
  /\ ieid' = [ieid EXCEPT ![r] = msg[t].ieid]
  /\ meta' = [meta EXCEPT ![r] = msg[t].meta]
  /\ InvEnd(t)
  /\ UNCHANGED <<source, net>>

----------------------------------------------------------------------------
(* State events *)

\* The item is looked up; an event of an item that is missing is dropped, or makes
\* the handler create it.
EventBegin(t, m) ==
  /\ m.kind = "state"
  /\ IF inv # NoRef THEN Take(t, m, "apply", inv)
     ELSE IF ForceAccept THEN Take(t, m, "create", NoRef)
     ELSE /\ pc[t] = "idle" /\ m \in net /\ net' = net \ {m}
          /\ UNCHANGED <<pc, msg, ref>>
  /\ UNCHANGED <<source, inv, ieid, meta, locked>>

\* Under the write lock, with IEID 0 and no meta
EventCreate(t, r) ==
  /\ pc[t] = "create" /\ Free(r)
  /\ inv' = r
  /\ ieid' = [ieid EXCEPT ![r] = 0]
  /\ meta' = [meta EXCEPT ![r] = SomeMeta]
  /\ ref' = [ref EXCEPT ![t] = r]
  /\ Goto(t, "apply")
  /\ UNCHANGED <<source, net, locked, msg>>

EventApply(t) ==
  /\ pc[t] = "apply"
  /\ ieid' = IF Newer(t) THEN [ieid EXCEPT ![ref[t]] = msg[t].ieid] ELSE ieid
  /\ Return(t)
  /\ UNCHANGED <<source, net, inv, meta, locked>>

----------------------------------------------------------------------------
Work(t) ==
  \/ InvRemove(t) \/ InvUpdate(t) \/ EventApply(t)
  \/ \E r \in Ref : InvAppend(t, r) \/ EventCreate(t, r)

Next ==
  \/ \E k \in {"state", "quick"} : SourceChanges(k)
  \/ SourceToggles \/ SendInventory
  \/ \E m \in Meta : SourceMeta(m)
  \/ \E m \in net :
       \/ Lose(m)
       \/ \E t \in Full \union Quick : InvBegin(t, m)
       \/ \E t \in Events : EventBegin(t, m)
  \/ \E t \in Task : Work(t)

Spec == Init /\ [][Next]_vars

Latest == [kind |-> "full", ieid |-> top, meta |-> itemMeta]

\* Tasks at work go on.  The source sends its inventory again and again, and again
\* and again one arrives while no other is being processed.
FairSpec ==
  /\ Spec
  /\ \A t \in Task : WF_vars(Work(t))
  /\ WF_vars(SendInventory)
  /\ SF_vars(\E t \in Full : InvBegin(t, Latest))
  /\ \A t \in Task :
       WF_vars(\E m \in net : IF t \in Events THEN EventBegin(t, m) ELSE InvBegin(t, m))

----------------------------------------------------------------------------
(* Properties *)

\* Type invariant
TypeOK ==
  /\ top \in 1..MaxIeid /\ itemMeta \in Meta \union {NoItem}
  /\ net \subseteq Message
  /\ inv \in Ref \union {NoRef}
  /\ ieid \in [Ref -> 0..MaxIeid] /\ meta \in [Ref -> Meta]
  /\ locked \subseteq Full
  /\ pc \in [Task -> {"idle", "inv", "create", "apply"}]
  /\ msg \in [Task -> Message] /\ ref \in [Task -> Ref \union {NoRef}]

shown == IF inv = NoRef THEN 0 ELSE ieid[inv]

Abstract == INSTANCE Replica WITH source <- top, replica <- shown

\* Full inventories and state events implement the promise of the replication: the
\* replica never goes back to an older state, whatever comes late.
Follows == Abstract!Spec

\* When the source is quiet (its IEIDs are bounded here), the replica gets to its last
\* state, or is removed, and stays so, whatever was lost or came late.
CaughtUp == shown = IF itemMeta = NoItem THEN 0 ELSE top
============================================================================
