------------------------------ MODULE Sources ------------------------------
(***************************************************************************)
(* The inventory of the core (Inventory, eva/src/items.rs) and the tasks   *)
(* that keep the items of remote nodes in it (eva/src/core.rs).            *)
(*                                                                         *)
(* The inventory maps an item to its owner: the local node or the remote   *)
(* node ("source") that replicates it.  A second map lists the items of    *)
(* each source, and a third one holds the shared object of each source,    *)
(* whose "destroyed" flag tells the tasks at work on a source to stop.     *)
(* Every access takes the inventory's lock for one operation only, so the  *)
(* tasks interleave between the operations.  Objects are identified by a   *)
(* reference; one nobody refers to is free to be allocated again.          *)
(***************************************************************************)
EXTENDS FiniteSets

CONSTANTS Oid,        \* items
          Node,       \* remote nodes
          Ref,        \* source objects
          Local,      \* the key of local items in items_by_source
          Nobody,     \* the owner of an item that does not exist
          NoRef,      \* no source object
          LocalOid,   \* items that are created, deployed or removed by operators
          Announced,  \* the items a node's inventories may contain
          Full, Quick,   \* tasks for full and for incremental inventories
          Destroyer,     \* tasks that destroy a source
          Accepter,      \* handlers of state events with the force_accept flag
          Remover        \* callers of destroy_local_items

Proc == Full \union Quick
Task == Proc \union Destroyer \union Accepter \union Remover

ASSUME NamesDiffer == Local \notin Node /\ Nobody \notin Node \union {Local}
                      /\ NoRef \notin Ref
ASSUME AnnouncedItems == Announced \in [Node -> SUBSET Oid] /\ LocalOid \subseteq Oid
ASSUME SomethingToDo == Oid # {} /\ Node # {}
ASSUME TasksDiffer ==
  /\ Full \intersect Quick = {}
  /\ Proc \intersect (Destroyer \union Accepter \union Remover) = {}
  /\ Destroyer \intersect (Accepter \union Remover) = {}
  /\ Accepter \intersect Remover = {}

VARIABLES owner,     \* Inventory.items: who owns an item, or Nobody
          srcOf,     \* the source object an item refers to
          bySource,  \* Inventory.items_by_source: the items listed under a key
          sources,   \* Inventory.sources: the registered object of a node
          destroyed, \* source objects with the destroyed flag
          locked,    \* Core.inv_process: nodes whose inventory is being processed
          pc, node, ref, cur,   \* a task: its place, node, source object, item
          known,     \* a processor's copy of the items listed under its node
          todo       \* items of the payload, or of the list, still to be handled

inventory == <<owner, srcOf, bySource, sources>>
vars == <<owner, srcOf, bySource, sources, destroyed, locked, pc, node, ref, cur,
          known, todo>>

----------------------------------------------------------------------------
(* The inventory *)

SomeOid == CHOOSE o \in Oid : TRUE
SomeNode == CHOOSE n \in Node : TRUE

Init ==
  /\ owner = [o \in Oid |-> Nobody]
  /\ srcOf = [o \in Oid |-> NoRef]
  /\ bySource = [k \in Node \union {Local} |-> {}]
  /\ sources = [n \in Node |-> NoRef]
  /\ destroyed = {}
  /\ locked = {}
  /\ pc = [t \in Task |-> "idle"]
  /\ node = [t \in Task |-> SomeNode]
  /\ ref = [t \in Task |-> NoRef]
  /\ cur = [t \in Task |-> SomeOid]
  /\ known = [t \in Task |-> {}]
  /\ todo = [t \in Task |-> {}]

\* Faulty variant of AppendItem: an item that replaces another one is not listed.
AppendItemUnlisted(o, k, r) ==
  /\ owner' = [owner EXCEPT ![o] = k]
  /\ srcOf' = [srcOf EXCEPT ![o] = r]
  /\ bySource' = IF owner[o] = Nobody THEN [bySource EXCEPT ![k] = @ \union {o}] ELSE bySource
  /\ sources' = IF k \in Node /\ bySource[k] = {} THEN [sources EXCEPT ![k] = r]
                ELSE sources

\* Inventory::append_item, replacing: an entry of another key is left alone.
AppendItem(o, k, r) ==
  /\ owner' = [owner EXCEPT ![o] = k]
  /\ srcOf' = [srcOf EXCEPT ![o] = r]
  /\ bySource' = [bySource EXCEPT ![k] = @ \union {o}]
  /\ sources' = IF k \in Node /\ bySource[k] = {} THEN [sources EXCEPT ![k] = r]
                ELSE sources

\* Faulty variant of RemoveItem: the list of the source keeps the item.
RemoveItemKeepList(o) ==
  IF owner[o] = Nobody THEN UNCHANGED inventory
  ELSE /\ owner' = [owner EXCEPT ![o] = Nobody]
       /\ srcOf' = [srcOf EXCEPT ![o] = NoRef]
       /\ UNCHANGED <<bySource, sources>>

\* Faulty variant of RemoveItem: the object of an empty source stays registered.
RemoveItemKeepSource(o) ==
  IF owner[o] = Nobody THEN UNCHANGED inventory
  ELSE LET k == owner[o] IN
       /\ owner' = [owner EXCEPT ![o] = Nobody]
       /\ srcOf' = [srcOf EXCEPT ![o] = NoRef]
       /\ bySource' = [bySource EXCEPT ![k] = @ \ {o}]
       /\ UNCHANGED sources

\* Inventory::remove_item
RemoveItem(o) ==
  IF owner[o] = Nobody THEN UNCHANGED inventory
  ELSE LET k == owner[o] IN
       /\ owner' = [owner EXCEPT ![o] = Nobody]
       /\ srcOf' = [srcOf EXCEPT ![o] = NoRef]
       /\ bySource' = [bySource EXCEPT ![k] = @ \ {o}]
       /\ sources' = IF k \in Node /\ bySource[k] \ {o} = {}
                     THEN [sources EXCEPT ![k] = NoRef] ELSE sources

InUse == {sources[n] : n \in Node} \union {srcOf[o] : o \in Oid}
         \union {ref[t] : t \in Task}

\* Inventory::get_or_create_source: the registered object, or a new one that is
\* known to its creator only.
GetOrCreateSource(n, r) ==
  IF sources[n] # NoRef THEN r = sources[n] /\ UNCHANGED destroyed
  ELSE r \in Ref \ InUse /\ destroyed' = destroyed \ {r}

Goto(t, l) == pc' = [pc EXCEPT ![t] = l]

\* A task ends and forgets what it held.
Return(t) ==
  /\ Goto(t, "idle")
  /\ node' = [node EXCEPT ![t] = SomeNode]
  /\ ref' = [ref EXCEPT ![t] = NoRef]
  /\ cur' = [cur EXCEPT ![t] = SomeOid]
  /\ known' = [known EXCEPT ![t] = {}]
  /\ todo' = [todo EXCEPT ![t] = {}]

----------------------------------------------------------------------------
(* Core::process_remote_inventory *)

\* A payload with the given items arrives.  A full one is ignored while the
\* source is locked.
Begin(p, n, items) ==
  /\ pc[p] = "idle"
  /\ items \subseteq Announced[n]
  /\ p \in Full => n \notin locked
  /\ locked' = IF p \in Full THEN locked \union {n} ELSE locked
  /\ Goto(p, "source")
  /\ node' = [node EXCEPT ![p] = n]
  /\ todo' = [todo EXCEPT ![p] = items]
  /\ UNCHANGED <<inventory, destroyed, ref, cur, known>>

\* The list of the source's items and its object are taken.
GetSource(p, r) ==
  /\ pc[p] = "source"
  /\ GetOrCreateSource(node[p], r)
  /\ ref' = [ref EXCEPT ![p] = r]
  /\ known' = [known EXCEPT ![p] = bySource[node[p]]]
  /\ Goto(p, IF p \in Full THEN "missing" ELSE "apply")
  /\ UNCHANGED <<inventory, locked, node, cur, todo>>

\* One of the known items is not in the payload and is to be removed.  (todo
\* still holds the payload.)
PickMissing(p, o) ==
  /\ pc[p] = "missing" /\ ref[p] \notin destroyed
  /\ o \in known[p] \ todo[p]
  /\ cur' = [cur EXCEPT ![p] = o]
  /\ Goto(p, "remove")
  /\ UNCHANGED <<inventory, destroyed, locked, node, ref, known, todo>>

RemoveMissing(p) ==
  /\ pc[p] = "remove"
  /\ RemoveItem(cur[p])
  /\ known' = [known EXCEPT ![p] = @ \ {cur[p]}]
  /\ cur' = [cur EXCEPT ![p] = SomeOid]
  /\ Goto(p, "missing")
  /\ UNCHANGED <<destroyed, locked, node, ref, todo>>

NoMissing(p) ==
  /\ pc[p] = "missing"
  /\ ref[p] \in destroyed \/ known[p] \subseteq todo[p]
  /\ Goto(p, "apply")
  /\ UNCHANGED <<inventory, destroyed, locked, node, ref, cur, known, todo>>

\* An item of the payload that is listed with the same meta keeps its object in
\* the inventory, only its state is set.  An item that is not listed, or listed
\* with another meta, is to be appended.
PickItem(p, o, same) ==
  /\ pc[p] = "apply" /\ ref[p] \notin destroyed
  /\ o \in todo[p]
  /\ same => o \in known[p]
  /\ todo' = [todo EXCEPT ![p] = @ \ {o}]
  /\ IF same THEN UNCHANGED <<pc, cur>>
     ELSE cur' = [cur EXCEPT ![p] = o] /\ Goto(p, "append")
  /\ UNCHANGED <<inventory, destroyed, locked, node, ref, known>>

\* append_remote_item
AppendRemote(p) ==
  /\ pc[p] = "append"
  /\ AppendItem(cur[p], node[p], ref[p])
  /\ cur' = [cur EXCEPT ![p] = SomeOid]
  /\ Goto(p, "apply")
  /\ UNCHANGED <<destroyed, locked, node, ref, known, todo>>

\* Faulty variant of End: an aborted processor leaves the source locked.
EndAbortLocked(p) ==
  /\ pc[p] = "apply"
  /\ ref[p] \in destroyed \/ todo[p] = {}
  /\ locked' = IF p \in Full /\ ref[p] \notin destroyed THEN locked \ {node[p]}
               ELSE locked
  /\ Return(p)
  /\ UNCHANGED <<inventory, destroyed>>

\* All items are handled, or the source was destroyed meanwhile.
End(p) ==
  /\ pc[p] = "apply"
  /\ ref[p] \in destroyed \/ todo[p] = {}
  /\ locked' = IF p \in Full THEN locked \ {node[p]} ELSE locked
  /\ Return(p)
  /\ UNCHANGED <<inventory, destroyed>>

----------------------------------------------------------------------------
(* Core::destroy_source *)

\* The object of the source is looked up; one created here is nobody else's.
DestroyBegin(d, n) ==
  /\ pc[d] = "idle"
  /\ node' = [node EXCEPT ![d] = n]
  /\ ref' = [ref EXCEPT ![d] = sources[n]]
  /\ Goto(d, "mark")
  /\ UNCHANGED <<inventory, destroyed, locked, cur, known, todo>>

\* mark_destroyed
DestroyMark(d) ==
  /\ pc[d] = "mark"
  /\ destroyed' = destroyed \union ({ref[d]} \intersect Ref)
  /\ ref' = [ref EXCEPT ![d] = NoRef]
  /\ Goto(d, "lock")
  /\ UNCHANGED <<inventory, locked, node, cur, known, todo>>

\* Faulty variant of DestroyLock: no wait for the processor at work.
DestroyLockNoWait(d) ==
  /\ pc[d] = "lock"
  /\ locked' = locked \union {node[d]}
  /\ Goto(d, "list")
  /\ UNCHANGED <<inventory, destroyed, node, ref, cur, known, todo>>

\* "wait until inventory processor abort"
DestroyLock(d) ==
  /\ pc[d] = "lock" /\ node[d] \notin locked
  /\ locked' = locked \union {node[d]}
  /\ Goto(d, "list")
  /\ UNCHANGED <<inventory, destroyed, node, ref, cur, known, todo>>

\* Faulty variant of DestroyList: the whole inventory is listed.
DestroyListAll(d) ==
  /\ pc[d] = "list"
  /\ todo' = [todo EXCEPT ![d] = {o \in Oid : owner[o] # Nobody}]
  /\ Goto(d, "drop")
  /\ UNCHANGED <<inventory, destroyed, locked, node, ref, cur, known>>

DestroyList(d) ==
  /\ pc[d] = "list"
  /\ todo' = [todo EXCEPT ![d] = bySource[node[d]]]
  /\ Goto(d, "drop")
  /\ UNCHANGED <<inventory, destroyed, locked, node, ref, cur, known>>

DestroyItem(d, o) ==
  /\ pc[d] = "drop" /\ o \in todo[d]
  /\ RemoveItem(o)
  /\ todo' = [todo EXCEPT ![d] = @ \ {o}]
  /\ UNCHANGED <<destroyed, locked, pc, node, ref, cur, known>>

\* "source destroyed"
DestroyEnd(d) ==
  /\ pc[d] = "drop" /\ todo[d] = {}
  /\ locked' = locked \ {node[d]}
  /\ Return(d)
  /\ UNCHANGED <<inventory, destroyed>>

----------------------------------------------------------------------------
(* update_state_from_repl, for an event with the force_accept flag *)

\* The item does not exist.
AcceptMissing(a, n, o) ==
  /\ pc[a] = "idle"
  /\ o \in Announced[n] /\ owner[o] = Nobody
  /\ node' = [node EXCEPT ![a] = n]
  /\ cur' = [cur EXCEPT ![a] = o]
  /\ Goto(a, "accept")
  /\ UNCHANGED <<inventory, destroyed, locked, ref, known, todo>>

\* Under the write lock the item is created, whatever happened meanwhile.
Accept(a, r) ==
  /\ pc[a] = "accept"
  /\ GetOrCreateSource(node[a], r)
  /\ AppendItem(cur[a], node[a], r)
  /\ Return(a)
  /\ UNCHANGED locked

----------------------------------------------------------------------------
(* Local items *)

\* append_item_from_config_data: an item that exists is replaced.
Deploy(o) ==
  /\ o \in LocalOid
  /\ AppendItem(o, Local, NoRef)
  /\ UNCHANGED <<destroyed, locked, pc, node, ref, cur, known, todo>>

\* create_item: an item that exists is kept.
Create(o) == owner[o] = Nobody /\ Deploy(o)

\* undeploy_local_items: remove_item is called for every oid of the request.
Undeploy(o) ==
  /\ o \in LocalOid
  /\ RemoveItem(o)
  /\ UNCHANGED <<destroyed, locked, pc, node, ref, cur, known, todo>>

\* destroy_local_items: the local items are listed, then removed one by one.
DestroyLocalList(t, items) ==
  /\ pc[t] = "idle"
  /\ items # {} /\ \A o \in items : o \in LocalOid /\ owner[o] = Local
  /\ todo' = [todo EXCEPT ![t] = items]
  /\ Goto(t, "destroy")
  /\ UNCHANGED <<inventory, destroyed, locked, node, ref, cur, known>>

DestroyLocalItem(t, o) ==
  /\ pc[t] = "destroy" /\ o \in todo[t]
  /\ RemoveItem(o)
  /\ IF todo[t] = {o} THEN Return(t)
     ELSE /\ todo' = [todo EXCEPT ![t] = @ \ {o}]
          /\ UNCHANGED <<pc, node, ref, cur, known>>
  /\ UNCHANGED <<destroyed, locked>>

----------------------------------------------------------------------------
ProcStep(p) ==
  \/ \E r \in Ref : GetSource(p, r)
  \/ \E o \in Oid : PickMissing(p, o)
  \/ RemoveMissing(p) \/ NoMissing(p)
  \/ \E o \in Oid, same \in BOOLEAN : PickItem(p, o, same)
  \/ AppendRemote(p) \/ End(p)

DestroyStep(d) ==
  \/ DestroyMark(d) \/ DestroyLock(d) \/ DestroyList(d)
  \/ \E o \in Oid : DestroyItem(d, o)
  \/ DestroyEnd(d)

LocalRemoval(o) == Undeploy(o) \/ \E t \in Remover : DestroyLocalItem(t, o)

Next ==
  \/ \E p \in Proc, n \in Node, items \in SUBSET Oid : Begin(p, n, items)
  \/ \E p \in Proc : ProcStep(p)
  \/ \E d \in Destroyer, n \in Node : DestroyBegin(d, n)
  \/ \E d \in Destroyer : DestroyStep(d)
  \/ \E a \in Accepter, n \in Node, o \in Oid : AcceptMissing(a, n, o)
  \/ \E a \in Accepter, r \in Ref : Accept(a, r)
  \/ \E o \in Oid : Deploy(o) \/ Create(o) \/ LocalRemoval(o)
  \/ \E t \in Remover, items \in SUBSET Oid : DestroyLocalList(t, items)

Spec == Init /\ [][Next]_vars

\* Tasks of the async runtime are scheduled again and again while they can run.
FairSpec ==
  /\ Spec
  /\ \A p \in Proc : WF_vars(ProcStep(p))
  /\ \A d \in Destroyer : WF_vars(DestroyStep(d))

----------------------------------------------------------------------------
(* Properties *)

\* Type invariant of the inventory and of the tasks.
TypeOK ==
  /\ owner \in [Oid -> Node \union {Local, Nobody}]
  /\ srcOf \in [Oid -> Ref \union {NoRef}]
  /\ bySource \in [Node \union {Local} -> SUBSET Oid]
  /\ sources \in [Node -> Ref \union {NoRef}]
  /\ destroyed \subseteq Ref /\ locked \subseteq Node
  /\ pc \in [Task -> {"idle", "source", "missing", "remove", "apply", "append",
                      "mark", "lock", "list", "drop", "accept", "destroy"}]
  /\ node \in [Task -> Node] /\ ref \in [Task -> Ref \union {NoRef}]
  /\ cur \in [Task -> Oid]
  /\ known \in [Task -> SUBSET Oid] /\ todo \in [Task -> SUBSET Oid]

\* Every item of the inventory is listed under its owner, whatever was replaced
\* by what: remove_item, the statistics and the removal of a source find it.
EveryItemListed == \A o \in Oid : owner[o] # Nobody => o \in bySource[owner[o]]

\* A source object is registered exactly as long as items are listed under its
\* node, so that a task that comes later shares it with the tasks at work.
RegisteredWhileListed == \A n \in Node : sources[n] # NoRef <=> bySource[n] # {}

\* All items of a node refer to the registered object of the node: marking it
\* offline or destroyed reaches all of them and the processor at work.  And an item
\* is listed under its owner only: items of one node are removed by name, so an item
\* listed under two keys would be removed for the wrong one.
ItemsOfOneSource ==
  /\ \A o \in Oid : owner[o] \in Node => srcOf[o] = sources[owner[o]]
  /\ \A k \in Node \union {Local} : \A o \in bySource[k] : owner[o] = k

\* "wait until inventory processor abort": when destroy_source reports that the
\* source is destroyed, none of its items are left.  And a registered source carries
\* the destroyed flag only while a destroyer is at work on the node: otherwise every
\* later inventory of the node would be broken off at its first item.
DestroyedIsGone ==
  /\ \A d \in Destroyer : pc[d] = "drop" /\ todo[d] = {} => bySource[node[d]] = {}
  /\ \A n \in Node :
       sources[n] \in destroyed =>
         \E d \in Destroyer : node[d] = n /\ pc[d] \in {"lock", "list", "drop"}

\* Two tasks never work under the lock of one source at a time.
SourceLockExclusive ==
  \A t, u \in Full \union Destroyer :
    /\ node[t] = node[u] /\ t # u
    => pc[t] \in {"idle", "mark", "lock"} \/ pc[u] \in {"idle", "mark", "lock"}

\* "attempt to modify local item from rpl, ignored": only the operations on
\* local items remove or replace a local item.
LocalItemsKept ==
  [][\A o \in Oid : owner[o] = Local /\ owner'[o] # Local => LocalRemoval(o)]_vars

\* The removal of a source ends, unless inventories of it keep coming forever.
DestroyEnds ==
  \A d \in Destroyer :
    \/ []<>(pc[d] = "idle")
    \/ []<>(\E p \in Full : pc[p] = "source" /\ node[p] = node[d])
============================================================================
