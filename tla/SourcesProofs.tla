--------------------------- MODULE SourcesProofs ---------------------------
(***************************************************************************)
(* Proofs for the inventory: the lists of the sources are complete, source *)
(* objects are registered exactly while they are needed, and the lock of a *)
(* source is exclusive, for any number of items, nodes and tasks.  With    *)
(* full inventories of nodes that announce items of their own, an item is  *)
(* listed once, a destroyed source is gone, and local items are kept.      *)
(***************************************************************************)
EXTENDS Sources, TLAPS

\* Once a processor has looked up its source it holds an object.
HoldsSource ==
  \A p \in Proc : pc[p] \in {"missing", "remove", "apply", "append"} => ref[p] \in Ref

\* What is maintained by the operations of the inventory.
Listing == EveryItemListed /\ RegisteredWhileListed

\* A task between the acquisition and the release of a source lock.
Critical(t) == pc[t] \notin {"idle", "mark", "lock"}

\* A task in its critical part has its node locked, and is alone there.
LockInv ==
  \A t \in Full \union Destroyer :
    Critical(t) =>
      /\ node[t] \in locked
      /\ \A u \in Full \union Destroyer :
           Critical(u) /\ node[t] = node[u] => t = u

\* The inductive invariant.
IInv == TypeOK /\ HoldsSource /\ Listing /\ LockInv

----------------------------------------------------------------------------
LEMMA SomeTypes == SomeOid \in Oid /\ SomeNode \in Node
BY SomethingToDo DEF SomeOid, SomeNode

LEMMA InitIInv == Init => IInv
<1> SUFFICES ASSUME Init PROVE IInv
  OBVIOUS
<1>1. TypeOK
  BY SomeTypes DEF Init, TypeOK
<1>2. HoldsSource /\ LockInv
  BY DEF Init, HoldsSource, LockInv, Critical, Task, Proc
<1>3. Listing
  BY NamesDiffer DEF Init, Listing, EveryItemListed, RegisteredWhileListed
<1>4. QED
  BY <1>1, <1>2, <1>3 DEF IInv

\* append_item keeps the lists complete, whatever entry is replaced.
LEMMA AppendKeepsListing ==
  ASSUME TypeOK, Listing, NEW o \in Oid, NEW k \in Node \union {Local},
         NEW r \in Ref \union {NoRef}, k \in Node => r \in Ref, AppendItem(o, k, r)
  PROVE  Listing'
<1>1. EveryItemListed'
  BY NamesDiffer DEF TypeOK, Listing, EveryItemListed, AppendItem
<1>2. RegisteredWhileListed'
  BY Zenon, NamesDiffer DEF TypeOK, Listing, RegisteredWhileListed, AppendItem
<1>3. QED
  BY <1>1, <1>2 DEF Listing

\* append_item keeps the types.
LEMMA AppendKeepsTypes ==
  ASSUME TypeOK, NEW o \in Oid, NEW k \in Node \union {Local},
         NEW r \in Ref \union {NoRef}, AppendItem(o, k, r)
  PROVE  /\ owner' \in [Oid -> Node \union {Local, Nobody}]
         /\ srcOf' \in [Oid -> Ref \union {NoRef}]
         /\ bySource' \in [Node \union {Local} -> SUBSET Oid]
         /\ sources' \in [Node -> Ref \union {NoRef}]
BY DEF TypeOK, AppendItem

\* remove_item keeps the lists complete and forgets a source with its last item.
LEMMA RemoveKeepsListing ==
  ASSUME TypeOK, Listing, NEW o \in Oid, RemoveItem(o)
  PROVE  Listing'
<1>1. CASE owner[o] = Nobody
  BY <1>1 DEF RemoveItem, inventory, Listing, EveryItemListed, RegisteredWhileListed
<1>2. CASE owner[o] # Nobody
  <2>1. owner[o] \in Node \union {Local}
    BY <1>2 DEF TypeOK
  <2>2. EveryItemListed'
    BY <1>2, <2>1, NamesDiffer DEF TypeOK, Listing, EveryItemListed, RemoveItem
  <2>3. RegisteredWhileListed'
    BY <1>2, <2>1, NamesDiffer DEF TypeOK, Listing, EveryItemListed,
       RegisteredWhileListed, RemoveItem
  <2>4. QED
    BY <2>2, <2>3 DEF Listing
<1>3. QED
  BY <1>1, <1>2

\* remove_item keeps the types.
LEMMA RemoveKeepsTypes ==
  ASSUME TypeOK, NEW o \in Oid, RemoveItem(o)
  PROVE  /\ owner' \in [Oid -> Node \union {Local, Nobody}]
         /\ srcOf' \in [Oid -> Ref \union {NoRef}]
         /\ bySource' \in [Node \union {Local} -> SUBSET Oid]
         /\ sources' \in [Node -> Ref \union {NoRef}]
BY DEF TypeOK, RemoveItem, inventory

\* A source object that is looked up is an object, and flags stay flags.
LEMMA GetOrCreateTypes ==
  ASSUME TypeOK, NEW n \in Node, NEW r \in Ref, GetOrCreateSource(n, r)
  PROVE  destroyed' \subseteq Ref
BY DEF TypeOK, GetOrCreateSource

----------------------------------------------------------------------------
\* Every step keeps the types.
LEMMA StepTypeOK == TypeOK /\ HoldsSource /\ [Next]_vars => TypeOK'
<1> SUFFICES ASSUME TypeOK, HoldsSource, [Next]_vars PROVE TypeOK'
  OBVIOUS
<1> USE SomeTypes DEF Task, Proc
<1>1. ASSUME NEW p \in Proc, NEW n \in Node, NEW items \in SUBSET Oid,
             Begin(p, n, items)
      PROVE TypeOK'
  BY <1>1 DEF Begin, TypeOK, inventory, Goto
<1>2. ASSUME NEW p \in Proc, ProcStep(p) PROVE TypeOK'
  <2>1. ASSUME NEW r \in Ref, GetSource(p, r) PROVE TypeOK'
    BY <2>1, GetOrCreateTypes DEF GetSource, TypeOK, inventory, Goto
  <2>2. ASSUME NEW o \in Oid, PickMissing(p, o) PROVE TypeOK'
    BY <2>2 DEF PickMissing, TypeOK, inventory, Goto
  <2>3. CASE RemoveMissing(p)
    <3>1. cur[p] \in Oid
      BY DEF TypeOK
    <3>2. QED
      BY <2>3, <3>1, RemoveKeepsTypes DEF RemoveMissing, TypeOK, Goto
  <2>4. CASE NoMissing(p)
    BY <2>4 DEF NoMissing, TypeOK, inventory, Goto
  <2>5. ASSUME NEW o \in Oid, NEW same \in BOOLEAN, PickItem(p, o, same) PROVE TypeOK'
    BY <2>5 DEF PickItem, TypeOK, inventory, Goto
  <2>6. CASE AppendRemote(p)
    <3>1. cur[p] \in Oid /\ node[p] \in Node /\ ref[p] \in Ref \union {NoRef}
      BY DEF TypeOK
    <3>2. QED
      BY <2>6, <3>1, AppendKeepsTypes DEF AppendRemote, TypeOK, Goto
  <2>7. CASE End(p)
    BY <2>7 DEF End, TypeOK, inventory, Goto, Return
  <2>8. QED
    BY <1>2, <2>1, <2>2, <2>3, <2>4, <2>5, <2>6, <2>7 DEF ProcStep
<1>3. ASSUME NEW d \in Destroyer, NEW n \in Node, DestroyBegin(d, n) PROVE TypeOK'
  BY <1>3 DEF DestroyBegin, TypeOK, inventory, Goto
<1>4. ASSUME NEW d \in Destroyer, DestroyStep(d) PROVE TypeOK'
  <2>1. CASE DestroyMark(d)
    BY <2>1 DEF DestroyMark, TypeOK, inventory, Goto
  <2>2. CASE DestroyLock(d) \/ DestroyList(d)
    BY <2>2 DEF DestroyLock, DestroyList, TypeOK, inventory, Goto
  <2>3. ASSUME NEW o \in Oid, DestroyItem(d, o) PROVE TypeOK'
    BY <2>3, RemoveKeepsTypes DEF DestroyItem, TypeOK
  <2>4. CASE DestroyEnd(d)
    BY <2>4 DEF DestroyEnd, TypeOK, inventory, Goto, Return
  <2>5. QED
    BY <1>4, <2>1, <2>2, <2>3, <2>4 DEF DestroyStep
<1>5. ASSUME NEW a \in Accepter, NEW n \in Node, NEW o \in Oid, AcceptMissing(a, n, o)
      PROVE TypeOK'
  BY <1>5 DEF AcceptMissing, TypeOK, inventory, Goto
<1>6. ASSUME NEW a \in Accepter, NEW r \in Ref, Accept(a, r) PROVE TypeOK'
  <2>1. cur[a] \in Oid /\ node[a] \in Node
    BY DEF TypeOK
  <2>2. QED
    BY <1>6, <2>1, AppendKeepsTypes, GetOrCreateTypes DEF Accept, TypeOK, Return, Goto
<1>7. ASSUME NEW o \in Oid, Deploy(o) \/ Create(o) PROVE TypeOK'
  BY Zenon, <1>7, AppendKeepsTypes DEF Deploy, Create, TypeOK
<1>8. ASSUME NEW o \in Oid, LocalRemoval(o) PROVE TypeOK'
  <2>1. CASE Undeploy(o)
    BY <2>1, RemoveKeepsTypes DEF Undeploy, TypeOK
  <2>2. ASSUME NEW t \in Remover, DestroyLocalItem(t, o) PROVE TypeOK'
    BY <2>2, RemoveKeepsTypes DEF DestroyLocalItem, TypeOK, Return, Goto
  <2>3. QED
    BY <1>8, <2>1, <2>2 DEF LocalRemoval
<1>9. ASSUME NEW t \in Remover, NEW items \in SUBSET Oid, DestroyLocalList(t, items)
      PROVE TypeOK'
  BY <1>9 DEF DestroyLocalList, TypeOK, inventory, Goto
<1>10. CASE UNCHANGED vars
  BY <1>10 DEF vars, TypeOK
<1>11. QED
  BY <1>1, <1>2, <1>3, <1>4, <1>5, <1>6, <1>7, <1>8, <1>9, <1>10 DEF Next

\* A processor keeps its object until it ends.
LEMMA StepHolds == TypeOK /\ HoldsSource /\ [Next]_vars => HoldsSource'
<1> SUFFICES ASSUME TypeOK, HoldsSource, [Next]_vars, NEW q \in Proc,
                    pc'[q] \in {"missing", "remove", "apply", "append"}
             PROVE  ref'[q] \in Ref
  BY DEF HoldsSource
<1>1. q \in Task /\ q \notin Destroyer \union Accepter \union Remover
  BY TasksDiffer DEF Task
<1>2. \A p \in Proc : p \in Task
  BY DEF Task
<1> USE <1>1, <1>2 DEF TypeOK, HoldsSource, Goto
<1>3. ASSUME NEW p \in Proc, NEW n \in Node, NEW items \in SUBSET Oid,
             Begin(p, n, items)
      PROVE ref'[q] \in Ref
  BY <1>3 DEF Begin
<1>4. ASSUME NEW p \in Proc, ProcStep(p) PROVE ref'[q] \in Ref
  <2>1. ASSUME NEW r \in Ref, GetSource(p, r) PROVE ref'[q] \in Ref
    BY <2>1 DEF GetSource
  <2>2. ASSUME NEW o \in Oid, PickMissing(p, o) PROVE ref'[q] \in Ref
    BY <2>2 DEF PickMissing
  <2>3. ASSUME NEW o \in Oid, NEW same \in BOOLEAN, PickItem(p, o, same)
        PROVE ref'[q] \in Ref
    BY <2>3 DEF PickItem
  <2>4. CASE RemoveMissing(p) \/ NoMissing(p) \/ AppendRemote(p)
    BY <2>4 DEF RemoveMissing, NoMissing, AppendRemote
  <2>5. CASE End(p)
    BY <2>5 DEF End, Return
  <2> HIDE DEF TypeOK, HoldsSource, Goto
  <2>6. QED
    BY <1>4, <2>1, <2>2, <2>3, <2>4, <2>5 DEF ProcStep
<1>6. ASSUME UNCHANGED <<pc, ref>> PROVE ref'[q] \in Ref
  BY <1>6
<1>7. ASSUME NEW d \in Destroyer, NEW n \in Node, DestroyBegin(d, n)
      PROVE ref'[q] \in Ref
  BY <1>7 DEF DestroyBegin
<1>8. ASSUME NEW d \in Destroyer, DestroyStep(d) PROVE ref'[q] \in Ref
  BY <1>8 DEF DestroyStep, DestroyMark, DestroyLock, DestroyList, DestroyItem,
     DestroyEnd, Return
<1>9. ASSUME NEW a \in Accepter, NEW n \in Node, NEW o \in Oid, AcceptMissing(a, n, o)
      PROVE ref'[q] \in Ref
  BY <1>9 DEF AcceptMissing
<1>10. ASSUME NEW a \in Accepter, NEW r \in Ref, Accept(a, r) PROVE ref'[q] \in Ref
  BY <1>10 DEF Accept, Return
<1>11. ASSUME NEW o \in Oid, Deploy(o) \/ Create(o) \/ Undeploy(o)
       PROVE ref'[q] \in Ref
  BY <1>6, <1>11 DEF Deploy, Create, Undeploy
<1>12. ASSUME NEW t \in Remover, NEW o \in Oid, DestroyLocalItem(t, o)
       PROVE ref'[q] \in Ref
  BY <1>12 DEF DestroyLocalItem, Return
<1>13. ASSUME NEW t \in Remover, NEW items \in SUBSET Oid, DestroyLocalList(t, items)
       PROVE ref'[q] \in Ref
  BY <1>13 DEF DestroyLocalList
<1>14. CASE UNCHANGED vars
  BY <1>6, <1>14 DEF vars
<1> HIDE DEF TypeOK, HoldsSource, Goto
<1>15. QED
  BY <1>3, <1>4, <1>7, <1>8, <1>9, <1>10, <1>11, <1>12, <1>13, <1>14
  DEF Next, LocalRemoval

\* Every step keeps the lists complete and the registration of sources exact.
LEMMA StepListing == TypeOK /\ HoldsSource /\ Listing /\ [Next]_vars => Listing'
<1> SUFFICES ASSUME TypeOK, HoldsSource, Listing, [Next]_vars PROVE Listing'
  OBVIOUS
<1>1. ASSUME UNCHANGED inventory PROVE Listing'
  BY <1>1 DEF inventory, Listing, EveryItemListed, RegisteredWhileListed
<1>2. \A t \in Task : cur[t] \in Oid /\ node[t] \in Node
  BY DEF TypeOK
<1>3. ASSUME NEW p \in Proc, ProcStep(p) PROVE Listing'
  <2>1. CASE RemoveMissing(p)
    BY <1>2, <2>1, RemoveKeepsListing DEF RemoveMissing, Task
  <2>2. CASE AppendRemote(p)
    BY <1>2, <2>2, AppendKeepsListing DEF AppendRemote, Task, HoldsSource
  <2>3. CASE ~RemoveMissing(p) /\ ~AppendRemote(p)
    BY <1>1, <1>3, <2>3 DEF ProcStep, GetSource, PickMissing, NoMissing, PickItem, End
  <2>4. QED
    BY <2>1, <2>2, <2>3
<1>4. ASSUME NEW d \in Destroyer, DestroyStep(d) PROVE Listing'
  BY <1>1, <1>4, RemoveKeepsListing
  DEF DestroyStep, DestroyMark, DestroyLock, DestroyList, DestroyItem, DestroyEnd
<1>5. ASSUME NEW a \in Accepter, NEW r \in Ref, Accept(a, r) PROVE Listing'
  BY <1>2, <1>5, AppendKeepsListing DEF Accept, Task
<1>6. ASSUME NEW o \in Oid, Deploy(o) \/ Create(o) PROVE Listing'
  BY <1>6, AppendKeepsListing, NamesDiffer DEF Deploy, Create
<1>7. ASSUME NEW o \in Oid, LocalRemoval(o) PROVE Listing'
  BY <1>7, RemoveKeepsListing DEF LocalRemoval, Undeploy, DestroyLocalItem
<1>8. CASE \/ \E p \in Proc, n \in Node, items \in SUBSET Oid : Begin(p, n, items)
           \/ \E d \in Destroyer, n \in Node : DestroyBegin(d, n)
           \/ \E a \in Accepter, n \in Node, o \in Oid : AcceptMissing(a, n, o)
           \/ \E t \in Remover, items \in SUBSET Oid : DestroyLocalList(t, items)
           \/ UNCHANGED vars
  BY <1>1, <1>8 DEF Begin, DestroyBegin, AcceptMissing, DestroyLocalList, vars,
     inventory
<1>9. QED
  BY <1>3, <1>4, <1>5, <1>6, <1>7, <1>8 DEF Next

----------------------------------------------------------------------------
(* The lock of a source *)

\* A step of a task that takes no source lock keeps the invariant.
LEMMA OthersKeepLock ==
  ASSUME LockInv, UNCHANGED locked,
         \A t \in Full \union Destroyer : pc'[t] = pc[t] /\ node'[t] = node[t]
  PROVE  LockInv'
BY DEF LockInv, Critical

\* A task that is in its critical part, or outside of it, and stays there with
\* its node, keeps the invariant.
LEMMA StayKeepsLock ==
  ASSUME TypeOK, LockInv, NEW t \in Full \union Destroyer, UNCHANGED locked,
         NEW l, pc' = [pc EXCEPT ![t] = l],
         l \notin {"idle", "mark", "lock"} => Critical(t) /\ node' = node,
         \A u \in Full \union Destroyer : u # t => node'[u] = node[u]
  PROVE  LockInv'
BY DEF LockInv, Critical, TypeOK, Task, Proc

\* Taking a free lock keeps the invariant.
LEMMA TakeKeepsLock ==
  ASSUME TypeOK, LockInv, NEW t \in Full \union Destroyer, NEW n \in Node,
         n \notin locked, locked' = locked \union {n}, ~Critical(t),
         node' = [node EXCEPT ![t] = n], NEW l, pc' = [pc EXCEPT ![t] = l]
  PROVE  LockInv'
BY DEF LockInv, Critical, TypeOK, Task, Proc

\* Releasing the lock one holds keeps the invariant.
LEMMA ReleaseKeepsLock ==
  ASSUME TypeOK, LockInv, NEW t \in Full \union Destroyer, Critical(t),
         locked' = locked \ {node[t]}, pc' = [pc EXCEPT ![t] = "idle"],
         \A u \in Full \union Destroyer : u # t => node'[u] = node[u]
  PROVE  LockInv'
BY DEF LockInv, Critical, TypeOK, Task, Proc

\* Every step keeps the invariant of the source locks.
LEMMA StepLock == TypeOK /\ LockInv /\ [Next]_vars => LockInv'
<1> SUFFICES ASSUME TypeOK, LockInv, [Next]_vars PROVE LockInv'
  OBVIOUS
<1>1. ASSUME NEW t \in Task, t \notin Full \union Destroyer, UNCHANGED locked,
             NEW l, pc' = [pc EXCEPT ![t] = l],
             NEW n, node' = [node EXCEPT ![t] = n] \/ UNCHANGED node
      PROVE LockInv'
  <2>1. \A u \in Full \union Destroyer : pc'[u] = pc[u] /\ node'[u] = node[u]
    BY <1>1 DEF TypeOK, Task, Proc
  <2>2. QED
    BY <1>1, <2>1, OthersKeepLock
<1>2. ASSUME UNCHANGED <<locked, pc, node>> PROVE LockInv'
  BY <1>2, OthersKeepLock
<1>3. ASSUME NEW p \in Proc, NEW n \in Node, NEW items \in SUBSET Oid,
             Begin(p, n, items)
      PROVE LockInv'
  <2>1. CASE p \in Full
    BY Zenon, <1>3, <2>1, TakeKeepsLock DEF Begin, Goto, Critical
  <2>2. CASE p \notin Full
    BY Zenon, <1>1, <1>3, <2>2, TasksDiffer DEF Begin, Goto, Task, Proc
  <2>3. QED
    BY <2>1, <2>2
<1>4. ASSUME NEW p \in Proc, ProcStep(p) PROVE LockInv'
  <2>1. CASE p \in Full
    <3>1. CASE End(p)
      <4>1. \A u \in Full \union Destroyer : u # p => node'[u] = node[u]
        BY <3>1 DEF End, Return, TypeOK, Task, Proc
      <4>2. QED
        BY Zenon, <2>1, <3>1, <4>1, ReleaseKeepsLock DEF End, Return, Goto, Critical
    <3>2. ASSUME NEW o \in Oid, NEW same \in BOOLEAN, PickItem(p, o, same)
          PROVE LockInv'
      BY <1>2, <2>1, <3>2, StayKeepsLock DEF PickItem, Goto, Critical
    <3>3. ASSUME NEW r \in Ref, GetSource(p, r) PROVE LockInv'
      <4>1. PICK l \in {"missing", "apply"} : pc' = [pc EXCEPT ![p] = l]
        BY Zenon, <3>3 DEF GetSource, Goto
      <4>2. QED
        BY Zenon, <2>1, <3>3, <4>1, StayKeepsLock DEF GetSource, Critical
    <3>4. ASSUME NEW o \in Oid, PickMissing(p, o) PROVE LockInv'
      BY Zenon, <2>1, <3>4, StayKeepsLock DEF PickMissing, Goto, Critical
    <3>5. CASE RemoveMissing(p) \/ NoMissing(p) \/ AppendRemote(p)
      <4>1. PICK l \in {"missing", "apply"} : pc' = [pc EXCEPT ![p] = l]
        BY <3>5 DEF RemoveMissing, NoMissing, AppendRemote, Goto
      <4>2. Critical(p) /\ UNCHANGED <<locked, node>>
        BY <3>5 DEF RemoveMissing, NoMissing, AppendRemote, Critical
      <4>3. QED
        BY Zenon, <2>1, <4>1, <4>2, StayKeepsLock
    <3>6. QED
      BY <1>4, <3>1, <3>2, <3>3, <3>4, <3>5 DEF ProcStep
  <2>2. CASE p \notin Full
    <3>1. p \in Task /\ p \notin Full \union Destroyer
      BY <2>2, TasksDiffer DEF Task, Proc
    <3>2. UNCHANGED locked
      BY <1>4, <2>2 DEF ProcStep, GetSource, PickMissing, RemoveMissing, NoMissing,
         PickItem, AppendRemote, End
    <3>3. \A u \in Full \union Destroyer : pc'[u] = pc[u] /\ node'[u] = node[u]
      BY <1>4, <3>1 DEF ProcStep, GetSource, PickMissing, RemoveMissing, NoMissing,
         PickItem, AppendRemote, End, Return, Goto, TypeOK, Task, Proc
    <3>4. QED
      BY <3>2, <3>3, OthersKeepLock
  <2>3. QED
    BY <2>1, <2>2
<1>5. ASSUME NEW d \in Destroyer, NEW n \in Node, DestroyBegin(d, n) PROVE LockInv'
  <2>1. \A u \in Full \union Destroyer : u # d => node'[u] = node[u]
    BY <1>5 DEF DestroyBegin, TypeOK, Task, Proc
  <2>2. QED
    BY Zenon, <1>5, <2>1, StayKeepsLock DEF DestroyBegin, Goto
<1>6. ASSUME NEW d \in Destroyer, DestroyStep(d) PROVE LockInv'
  <2>1. CASE DestroyMark(d)
    BY Zenon, <2>1, StayKeepsLock DEF DestroyMark, Goto
  <2>2. CASE DestroyLock(d)
    <3>1. node[d] \in Node /\ node' = [node EXCEPT ![d] = node[d]]
      BY <2>2 DEF DestroyLock, TypeOK, Task
    <3>2. QED
      BY Zenon, <2>2, <3>1, TakeKeepsLock DEF DestroyLock, Goto, Critical
  <2>3. CASE DestroyList(d)
    BY Zenon, <2>3, StayKeepsLock DEF DestroyList, Goto, Critical
  <2>4. ASSUME NEW o \in Oid, DestroyItem(d, o) PROVE LockInv'
    BY <1>2, <2>4 DEF DestroyItem
  <2>5. CASE DestroyEnd(d)
    <3>1. \A u \in Full \union Destroyer : u # d => node'[u] = node[u]
      BY <2>5 DEF DestroyEnd, Return, TypeOK, Task, Proc
    <3>2. QED
      BY Zenon, <2>5, <3>1, ReleaseKeepsLock DEF DestroyEnd, Return, Goto, Critical
  <2>6. QED
    BY <1>6, <2>1, <2>2, <2>3, <2>4, <2>5 DEF DestroyStep
<1>7. ASSUME NEW a \in Accepter, NEW n \in Node, NEW o \in Oid, AcceptMissing(a, n, o)
      PROVE LockInv'
  BY Zenon, <1>1, <1>7, TasksDiffer DEF AcceptMissing, Goto, Task, Proc
<1>8. ASSUME NEW a \in Accepter, NEW r \in Ref, Accept(a, r) PROVE LockInv'
  BY Zenon, <1>1, <1>8, TasksDiffer DEF Accept, Return, Goto, Task, Proc
<1>9. ASSUME NEW o \in Oid, Deploy(o) \/ Create(o) \/ Undeploy(o) PROVE LockInv'
  BY <1>2, <1>9 DEF Deploy, Create, Undeploy
<1>10. ASSUME NEW t \in Remover, NEW o \in Oid, DestroyLocalItem(t, o) PROVE LockInv'
  BY <1>1, <1>2, <1>10, TasksDiffer DEF DestroyLocalItem, Return, Goto, Task, Proc
<1>11. ASSUME NEW t \in Remover, NEW items \in SUBSET Oid, DestroyLocalList(t, items)
       PROVE LockInv'
  BY Zenon, <1>1, <1>11, TasksDiffer DEF DestroyLocalList, Goto, Task, Proc
<1>12. CASE UNCHANGED vars
  BY <1>2, <1>12 DEF vars
<1>13. QED
  BY <1>3, <1>4, <1>5, <1>6, <1>7, <1>8, <1>9, <1>10, <1>11, <1>12
  DEF Next, LocalRemoval

----------------------------------------------------------------------------
\* The inductive invariant holds in every reachable state.
THEOREM Invariance == Spec => []IInv
<1>1. IInv /\ [Next]_vars => IInv'
  BY StepTypeOK, StepHolds, StepListing, StepLock DEF IInv
<1>2. QED
  BY InitIInv, <1>1, PTL DEF Spec

\* Every value of the inventory and of its tasks has its type.
THEOREM TypeCorrect == Spec => []TypeOK
BY Invariance, PTL DEF IInv

\* append_item and remove_item keep the list of every source complete, under any
\* mixture of inventories, forced events, destroyed sources and local operations.
THEOREM ListsComplete == Spec => []EveryItemListed
BY Invariance, PTL DEF IInv, Listing

\* get_or_create_source finds the object of a source as long as items refer to
\* the source's list, and never one that was left behind.
THEOREM RegistrationExact == Spec => []RegisteredWhileListed
BY Invariance, PTL DEF IInv, Listing

\* lock_source and unlock_source exclude full inventories and destroyers of a
\* source from each other.
THEOREM LockExclusive == Spec => []SourceLockExclusive
<1>1. LockInv => SourceLockExclusive
  BY DEF LockInv, Critical, SourceLockExclusive
<1>2. QED
  BY Invariance, <1>1, PTL DEF IInv

----------------------------------------------------------------------------
(* Full inventories of nodes that announce items of their own              *)

\* Nodes that announce different items, none of them local, by full inventories.
OwnItems ==
  /\ Quick = {} /\ Accepter = {}
  /\ \A m, n \in Node : m # n => Announced[m] \intersect Announced[n] = {}
  /\ \A n \in Node : Announced[n] \intersect LocalOid = {}

\* The items that may be listed under a key of items_by_source.
ItemsOf(k) == IF k = Local THEN LocalOid ELSE Announced[k]

\* A processor that has looked up its source.
Holding(p) == pc[p] \in {"missing", "remove", "apply", "append"}

\* Lists and tasks have items of their own node only.
PlaceInv ==
  /\ \A k \in Node \union {Local} : bySource[k] \subseteq ItemsOf(k)
  /\ \A p \in Full : pc[p] # "idle" => todo[p] \subseteq Announced[node[p]]
  /\ \A p \in Full : Holding(p) => known[p] \subseteq Announced[node[p]]
  /\ \A p \in Full : pc[p] \in {"remove", "append"} => cur[p] \in Announced[node[p]]
  /\ \A d \in Destroyer : pc[d] = "drop" => todo[d] \subseteq Announced[node[d]]

\* An object is that of one node, whoever refers to it; the object a processor holds is
\* the registered one, or the next one to be registered.
RefInv ==
  /\ \A t \in Task : pc[t] \in {"idle", "source"} => ref[t] = NoRef
  /\ \A m, n \in Node : sources[m] = sources[n] /\ sources[m] # NoRef => m = n
  /\ \A t \in Task, n \in Node : ref[t] = sources[n] /\ ref[t] # NoRef => node[t] = n
  /\ \A t, u \in Task : ref[t] = ref[u] /\ ref[t] # NoRef => node[t] = node[u]
  /\ \A p \in Full : Holding(p) /\ sources[node[p]] # NoRef => sources[node[p]] = ref[p]

\* A destroyer of the node is at work, after it has set the flag.
Destroying(n) == \E d \in Destroyer : node[d] = n /\ pc[d] \in {"lock", "list", "drop"}

\* The flag is on an object in use only while a destroyer is at work, and a destroyer
\* that removes items has all those of its node on its list.
FlagInv ==
  /\ \A n \in Node : sources[n] \in destroyed => Destroying(n)
  /\ \A p \in Full : Holding(p) /\ ref[p] \in destroyed => Destroying(node[p])
  /\ \A d \in Destroyer : pc[d] = "drop" => bySource[node[d]] \subseteq todo[d]

OwnInv == PlaceInv /\ ItemsOfOneSource /\ RefInv /\ FlagInv

LEMMA ItemsDiffer ==
  ASSUME OwnItems, NEW j \in Node \union {Local}, NEW k \in Node \union {Local}, j # k,
         NEW o \in ItemsOf(j)
  PROVE  o \notin ItemsOf(k)
BY NamesDiffer DEF OwnItems, ItemsOf

\* append_item puts an item into one list, and gives it the object of its source.
LEMMA AppendKeepsOne ==
  ASSUME OwnItems, TypeOK, Listing, ItemsOfOneSource,
         \A k \in Node \union {Local} : bySource[k] \subseteq ItemsOf(k),
         NEW k \in Node \union {Local}, NEW o \in Oid, o \in ItemsOf(k), NEW r,
         k \in Node /\ sources[k] # NoRef => r = sources[k], AppendItem(o, k, r)
  PROVE  /\ ItemsOfOneSource'
         /\ \A j \in Node \union {Local} : bySource'[j] \subseteq ItemsOf(j)
<1>1. \A j \in Node \union {Local} : bySource'[j] \subseteq ItemsOf(j)
  BY DEF AppendItem, TypeOK
<1>2. ASSUME NEW x \in Oid, owner'[x] \in Node PROVE srcOf'[x] = sources'[owner'[x]]
  <2>1. CASE x = o
    <3>1. owner'[o] = k /\ srcOf'[o] = r /\ k \in Node
      BY <1>2, <2>1, NamesDiffer DEF AppendItem, TypeOK
    <3>2. sources'[k] = IF bySource[k] = {} THEN r ELSE sources[k]
      BY <3>1 DEF AppendItem, TypeOK
    <3>3. QED
      BY <2>1, <3>1, <3>2 DEF Listing, RegisteredWhileListed
  <2>2. CASE x # o
    <3>1. owner'[x] = owner[x] /\ srcOf'[x] = srcOf[x] /\ x \in bySource[owner[x]]
      BY <1>2, <2>2, NamesDiffer DEF AppendItem, TypeOK, Listing, EveryItemListed
    <3>2. sources'[owner[x]] = sources[owner[x]]
      BY <1>2, <3>1 DEF AppendItem, TypeOK
    <3>3. QED
      BY <1>2, <3>1, <3>2 DEF ItemsOfOneSource
  <2>3. QED
    BY <2>1, <2>2
<1>3. ASSUME NEW j \in Node \union {Local}, NEW x \in bySource'[j] PROVE owner'[x] = j
  <2>1. CASE x = o
    <3>1. j = k
      BY <1>1, <1>3, <2>1, ItemsDiffer
    <3>2. QED
      BY <2>1, <3>1 DEF AppendItem, TypeOK
  <2>2. CASE x # o
    BY <1>3, <2>2 DEF AppendItem, TypeOK, ItemsOfOneSource
  <2>3. QED
    BY <2>1, <2>2
<1>4. QED
  BY <1>1, <1>2, <1>3 DEF ItemsOfOneSource

\* remove_item takes an item from its list, and the object from a list without items.
LEMMA RemoveKeepsOne ==
  ASSUME OwnItems, TypeOK, Listing, ItemsOfOneSource,
         \A k \in Node \union {Local} : bySource[k] \subseteq ItemsOf(k),
         NEW o \in Oid, RemoveItem(o)
  PROVE  /\ ItemsOfOneSource'
         /\ \A j \in Node \union {Local} : bySource'[j] \subseteq ItemsOf(j)
         /\ \A j \in Node \union {Local} : bySource'[j] = bySource[j] \ {o}
<1>1. CASE owner[o] = Nobody
  <2>1. \A j \in Node \union {Local} : o \notin bySource[j]
    BY <1>1, NamesDiffer DEF ItemsOfOneSource
  <2>2. QED
    BY <1>1, <2>1 DEF RemoveItem, inventory, ItemsOfOneSource
<1>2. CASE owner[o] # Nobody
  <2>0. PICK k \in Node \union {Local} : owner[o] = k
    BY <1>2 DEF TypeOK
  <2>1. /\ owner' = [owner EXCEPT ![o] = Nobody] /\ srcOf' = [srcOf EXCEPT ![o] = NoRef]
        /\ bySource' = [bySource EXCEPT ![k] = @ \ {o}]
        /\ sources' = IF k \in Node /\ bySource[k] \ {o} = {}
                      THEN [sources EXCEPT ![k] = NoRef] ELSE sources
    BY <1>2, <2>0 DEF RemoveItem
  <2>2. \A j \in Node \union {Local} : bySource'[j] = bySource[j] \ {o}
    BY <2>0, <2>1 DEF TypeOK, ItemsOfOneSource
  <2>3. ASSUME NEW x \in Oid, owner'[x] \in Node PROVE srcOf'[x] = sources'[owner'[x]]
    <3>1. x # o /\ owner'[x] = owner[x] /\ srcOf'[x] = srcOf[x]
      BY <2>1, <2>3, NamesDiffer DEF TypeOK
    <3>2. x \in bySource[owner[x]]
      BY <2>3, <3>1, NamesDiffer DEF Listing, EveryItemListed
    <3>3. sources'[owner[x]] = sources[owner[x]]
      BY <2>1, <2>3, <3>1, <3>2 DEF TypeOK
    <3>4. QED
      BY <2>3, <3>1, <3>3 DEF ItemsOfOneSource
  <2>4. ASSUME NEW j \in Node \union {Local}, NEW x \in bySource'[j] PROVE owner'[x] = j
    BY <2>1, <2>2, <2>4 DEF TypeOK, ItemsOfOneSource
  <2>5. QED
    BY <2>2, <2>3, <2>4 DEF ItemsOfOneSource
<1>3. QED
  BY <1>1, <1>2

\* The places of the tasks, by a step that changes no list but by adding or removing
\* items of the node itself.
LEMMA TasksKeepPlace ==
  ASSUME OwnItems, IInv, PlaceInv, Next
  PROVE  /\ \A p \in Full : pc'[p] # "idle" => todo'[p] \subseteq Announced[node'[p]]
         /\ \A p \in Full : Holding(p)' => known'[p] \subseteq Announced[node'[p]]
         /\ \A p \in Full : pc'[p] \in {"remove", "append"} => cur'[p] \in Announced[node'[p]]
         /\ \A d \in Destroyer : pc'[d] = "drop" => todo'[d] \subseteq Announced[node'[d]]
<1> DEFINE P(p) == /\ pc[p] # "idle" => todo[p] \subseteq Announced[node[p]]
                   /\ Holding(p) => known[p] \subseteq Announced[node[p]]
                   /\ pc[p] \in {"remove", "append"} => cur[p] \in Announced[node[p]]
           D(d) == pc[d] = "drop" => todo[d] \subseteq Announced[node[d]]
<1> SUFFICES (\A p \in Full : P(p)') /\ (\A d \in Destroyer : D(d)')
  OBVIOUS
<1>1. (\A p \in Full : P(p)) /\ (\A d \in Destroyer : D(d))
  BY Zenon DEF PlaceInv
<1>2. /\ Proc = Full /\ Task = Full \union Destroyer \union Remover
      /\ Full \intersect (Destroyer \union Remover) = {} /\ Destroyer \intersect Remover = {}
  BY TasksDiffer DEF OwnItems, Task, Proc
<1>3. \A t \in Task : node[t] \in Node
  BY DEF IInv, TypeOK
<1>4. ASSUME NEW t \in Task,
             \A u \in Task : u # t => /\ pc'[u] = pc[u] /\ node'[u] = node[u] /\ cur'[u] = cur[u]
                                      /\ known'[u] = known[u] /\ todo'[u] = todo[u],
             t \in Full => P(t)', t \in Destroyer => D(t)'
      PROVE  (\A p \in Full : P(p)') /\ (\A d \in Destroyer : D(d)')
  BY <1>1, <1>2, <1>4 DEF Holding
<1>5. ASSUME UNCHANGED <<pc, node, cur, known, todo>>
      PROVE  (\A p \in Full : P(p)') /\ (\A d \in Destroyer : D(d)')
  BY <1>1, <1>5 DEF Holding
<1>6. /\ pc \in [Task -> {"idle", "source", "missing", "remove", "apply", "append",
                          "mark", "lock", "list", "drop", "accept", "destroy"}]
      /\ node \in [Task -> Node] /\ cur \in [Task -> Oid]
      /\ known \in [Task -> SUBSET Oid] /\ todo \in [Task -> SUBSET Oid]
  BY DEF IInv, TypeOK
<1> HIDE DEF P, D
<1>7. ASSUME NEW p \in Full, NEW n \in Node, NEW items \in SUBSET Oid, Begin(p, n, items)
      PROVE  (\A q \in Full : P(q)') /\ (\A d \in Destroyer : D(d)')
  <2>1. P(p)'
    BY <1>2, <1>6, <1>7 DEF Begin, Goto, P, Holding
  <2>2. QED
    BY <1>2, <1>4, <1>6, <1>7, <2>1 DEF Begin, Goto
<1>8. ASSUME NEW p \in Full, ProcStep(p)
      PROVE  (\A q \in Full : P(q)') /\ (\A d \in Destroyer : D(d)')
  <2>1. P(p) /\ p \in Task /\ p \notin Destroyer
    BY <1>1, <1>2
  <2>2. ASSUME NEW r \in Ref, GetSource(p, r) PROVE P(p)'
    <3>1. bySource[node[p]] \subseteq Announced[node[p]]
      BY <1>3, <2>1, NamesDiffer DEF PlaceInv, ItemsOf
    <3>2. QED
      BY <1>6, <2>1, <2>2, <3>1 DEF GetSource, Goto, P, Holding
  <2>3. ASSUME NEW o \in Oid, PickMissing(p, o) PROVE P(p)'
    BY Zenon, <1>6, <2>1, <2>3 DEF PickMissing, Goto, P, Holding
  <2>4. CASE RemoveMissing(p) \/ NoMissing(p) \/ AppendRemote(p)
    <3>1. P(p)'
      BY <1>6, <2>1, <2>4 DEF RemoveMissing, NoMissing, AppendRemote, Goto, P, Holding
    <3>2. QED
      BY <1>4, <1>6, <2>1, <2>4, <3>1 DEF RemoveMissing, NoMissing, AppendRemote, Goto
  <2>5. ASSUME NEW o \in Oid, NEW same \in BOOLEAN, PickItem(p, o, same) PROVE P(p)'
    BY <1>6, <2>1, <2>5 DEF PickItem, Goto, P, Holding
  <2>6. CASE End(p)
    <3>1. P(p)'
      BY <1>6, <2>1, <2>6 DEF End, Return, Goto, P, Holding
    <3>2. QED
      BY <1>4, <1>6, <2>1, <2>6, <3>1 DEF End, Return, Goto
  <2>7. QED
    <3>1. CASE \E r \in Ref : GetSource(p, r)
      BY Zenon, <3>1, <2>2, <1>4, <1>6, <2>1 DEF GetSource, Goto
    <3>2. CASE \E o \in Oid : PickMissing(p, o)
      BY Zenon, <3>2, <2>3, <1>4, <1>6, <2>1 DEF PickMissing, Goto
    <3>3. CASE \E o \in Oid, same \in BOOLEAN : PickItem(p, o, same)
      BY Zenon, <3>3, <2>5, <1>4, <1>6, <2>1 DEF PickItem, Goto
    <3>4. QED
      BY <1>8, <2>4, <2>6, <3>1, <3>2, <3>3 DEF ProcStep
<1>9. ASSUME NEW d \in Destroyer, NEW n \in Node, DestroyBegin(d, n)
      PROVE  (\A q \in Full : P(q)') /\ (\A e \in Destroyer : D(e)')
  BY <1>2, <1>4, <1>6, <1>9 DEF DestroyBegin, Goto, D
<1>10. ASSUME NEW d \in Destroyer, DestroyStep(d)
       PROVE  (\A q \in Full : P(q)') /\ (\A e \in Destroyer : D(e)')
  <2>1. D(d) /\ d \in Task /\ d \notin Full
    BY <1>1, <1>2
  <2>2. CASE DestroyMark(d) \/ DestroyLock(d) \/ DestroyEnd(d)
    <3>1. D(d)'
      BY <1>6, <2>1, <2>2 DEF DestroyMark, DestroyLock, DestroyEnd, Return, Goto, D
    <3>2. QED
      BY <1>4, <1>6, <2>1, <2>2, <3>1 DEF DestroyMark, DestroyLock, DestroyEnd, Return, Goto
  <2>3. CASE DestroyList(d)
    <3>1. bySource[node[d]] \subseteq Announced[node[d]]
      BY Zenon, <1>3, <2>1, NamesDiffer DEF PlaceInv, ItemsOf
    <3>2. D(d)'
      BY <1>6, <2>1, <2>3, <3>1 DEF DestroyList, Goto, D
    <3>3. QED
      BY Zenon, <1>4, <1>6, <2>1, <2>3, <3>2 DEF DestroyList, Goto
  <2>4. ASSUME NEW o \in Oid, DestroyItem(d, o)
        PROVE  (\A q \in Full : P(q)') /\ (\A e \in Destroyer : D(e)')
    <3>1. D(d)'
      BY <1>6, <2>1, <2>4 DEF DestroyItem, D
    <3>2. QED
      BY <1>4, <1>6, <2>1, <2>4, <3>1 DEF DestroyItem
  <2>5. QED
    BY <1>10, <2>2, <2>3, <2>4 DEF DestroyStep
<1>11. ASSUME NEW o \in Oid, Deploy(o) \/ Create(o) \/ Undeploy(o)
       PROVE  (\A q \in Full : P(q)') /\ (\A e \in Destroyer : D(e)')
  BY <1>5, <1>11 DEF Deploy, Create, Undeploy
<1>12. ASSUME NEW t \in Remover, NEW o \in Oid, DestroyLocalItem(t, o)
       PROVE  (\A q \in Full : P(q)') /\ (\A e \in Destroyer : D(e)')
  BY <1>2, <1>4, <1>6, <1>12 DEF DestroyLocalItem, Return, Goto
<1>13. ASSUME NEW t \in Remover, NEW items \in SUBSET Oid, DestroyLocalList(t, items)
       PROVE  (\A q \in Full : P(q)') /\ (\A e \in Destroyer : D(e)')
  BY <1>2, <1>4, <1>6, <1>13 DEF DestroyLocalList, Goto
<1>14. QED
  BY Zenon, <1>2, <1>7, <1>8, <1>9, <1>10, <1>11, <1>12, <1>13 DEF Next, LocalRemoval, OwnItems

\* The lists and objects of the inventory, by every step.
LEMMA StepOne ==
  ASSUME OwnItems, IInv, OwnInv, [Next]_vars
  PROVE  PlaceInv' /\ ItemsOfOneSource'
<1> DEFINE Lists == \A k \in Node \union {Local} : bySource[k] \subseteq ItemsOf(k)
<1>1. Proc = Full /\ Proc \subseteq Task /\ TypeOK /\ Listing /\ ItemsOfOneSource /\ PlaceInv
  BY DEF OwnItems, Task, Proc, IInv, OwnInv
<1>2. Lists /\ \A t \in Task : node[t] \in Node /\ cur[t] \in Oid
  BY <1>1 DEF PlaceInv, TypeOK
<1>3. CASE UNCHANGED vars
  <2>1. ItemsOfOneSource'
    BY <1>1, <1>3 DEF vars, ItemsOfOneSource
  <2>2. PlaceInv'
    BY <1>1, <1>3 DEF vars, PlaceInv, Holding
  <2>3. QED
    BY <2>1, <2>2
<1>4. CASE Next
  <2>1. ASSUME UNCHANGED inventory PROVE Lists' /\ ItemsOfOneSource'
    BY <1>1, <1>2, <2>1 DEF inventory, ItemsOfOneSource
  <2>2. ASSUME NEW o \in Oid, RemoveItem(o) PROVE Lists' /\ ItemsOfOneSource'
    BY <1>1, <1>2, <2>2, RemoveKeepsOne
  <2>3. ASSUME NEW p \in Full, ProcStep(p) PROVE Lists' /\ ItemsOfOneSource'
    <3>1. CASE RemoveMissing(p)
      BY <1>1, <1>2, <2>2, <3>1 DEF RemoveMissing
    <3>2. CASE AppendRemote(p)
      <4>1. /\ AppendItem(cur[p], node[p], ref[p]) /\ pc[p] = "append"
            /\ node[p] \in Node /\ cur[p] \in Oid
        BY Zenon, <1>1, <1>2, <3>2 DEF AppendRemote
      <4>2. cur[p] \in ItemsOf(node[p])
        BY <1>1, <4>1, NamesDiffer DEF PlaceInv, ItemsOf
      <4>3. sources[node[p]] # NoRef => ref[p] = sources[node[p]]
        BY Zenon, <4>1 DEF OwnInv, RefInv, Holding
      <4>4. QED
        BY <1>1, <1>2, <4>1, <4>2, <4>3, AppendKeepsOne
    <3>3. CASE ~RemoveMissing(p) /\ ~AppendRemote(p)
      BY <2>1, <2>3, <3>3 DEF ProcStep, GetSource, PickMissing, NoMissing, PickItem, End
    <3>4. QED
      BY <3>1, <3>2, <3>3
  <2>4. ASSUME NEW d \in Destroyer, DestroyStep(d) PROVE Lists' /\ ItemsOfOneSource'
    BY <2>1, <2>2, <2>4
    DEF DestroyStep, DestroyMark, DestroyLock, DestroyList, DestroyItem, DestroyEnd
  <2>5. ASSUME NEW o \in Oid, Deploy(o) \/ Create(o) PROVE Lists' /\ ItemsOfOneSource'
    <3>1. o \in LocalOid /\ AppendItem(o, Local, NoRef)
      BY <2>5 DEF Deploy, Create
    <3>2. o \in ItemsOf(Local) /\ Local \notin Node
      BY <3>1, NamesDiffer DEF ItemsOf
    <3>3. QED
      BY <1>1, <1>2, <3>1, <3>2, AppendKeepsOne
  <2>6. ASSUME NEW o \in Oid, LocalRemoval(o) PROVE Lists' /\ ItemsOfOneSource'
    BY <2>2, <2>6 DEF LocalRemoval, Undeploy, DestroyLocalItem
  <2>7. ASSUME \/ \E p \in Proc, n \in Node, items \in SUBSET Oid : Begin(p, n, items)
               \/ \E d \in Destroyer, n \in Node : DestroyBegin(d, n)
               \/ \E t \in Remover, items \in SUBSET Oid : DestroyLocalList(t, items)
        PROVE  Lists' /\ ItemsOfOneSource'
    BY ZenonT(30), <2>1, <2>7 DEF Begin, DestroyBegin, DestroyLocalList
  <2>8. Lists' /\ ItemsOfOneSource'
    <3> HIDE DEF Lists
    <3>1. QED
      BY ZenonT(30), <1>1, <1>4, <2>3, <2>4, <2>5, <2>6, <2>7 DEF Next, OwnItems
  <2>9. PlaceInv'
    BY Zenon, <1>1, <1>4, <2>8, TasksKeepPlace DEF PlaceInv
  <2>10. QED
    BY <2>8, <2>9
<1>5. QED
  BY <1>3, <1>4

----------------------------------------------------------------------------
\* What an operation on the inventory does to the registered objects.
LEMMA RemoveSources ==
  ASSUME TypeOK, NEW o \in Oid, RemoveItem(o)
  PROVE  \A n \in Node : sources'[n] \in {sources[n], NoRef}
BY DEF TypeOK, RemoveItem, inventory

\* A step that registers no object and gives none to a task keeps RefInv.
LEMMA QuietRef ==
  ASSUME RefInv, Full \subseteq Task, \A t \in Task : node[t] \in Node,
         \A n \in Node : sources'[n] \in {sources[n], NoRef},
         \A t \in Task : /\ node'[t] \in Node
                         /\ \/ ref'[t] = NoRef /\ ~Holding(t)'
                            \/ /\ ref'[t] = ref[t] /\ node'[t] = node[t]
                               /\ Holding(t)' => Holding(t)
                               /\ pc'[t] \in {"idle", "source"} => pc[t] \in {"idle", "source"}
  PROVE  RefInv'
BY DEF RefInv, Holding

\* Every step keeps the objects apart.
LEMMA StepRef ==
  ASSUME OwnItems, IInv, OwnInv, [Next]_vars
  PROVE  RefInv'
<1>1. /\ Proc = Full /\ Task = Full \union Destroyer \union Remover
      /\ Full \intersect (Destroyer \union Remover) = {}
  BY TasksDiffer DEF OwnItems, Task, Proc
<1>2. TypeOK /\ RefInv /\ Full \subseteq Task /\ HoldsSource
  BY <1>1 DEF IInv, OwnInv
<1>3. /\ pc \in [Task -> {"idle", "source", "missing", "remove", "apply", "append",
                          "mark", "lock", "list", "drop", "accept", "destroy"}]
      /\ node \in [Task -> Node] /\ ref \in [Task -> Ref \union {NoRef}] /\ cur \in [Task -> Oid]
  BY <1>2 DEF TypeOK
<1>4. ASSUME NEW t \in Task, \A n \in Node : sources'[n] \in {sources[n], NoRef}, NEW l,
             pc' = [pc EXCEPT ![t] = l], UNCHANGED <<node, ref>>, l \notin {"idle", "source"},
             Holding(t) \/ l \in {"lock", "list", "drop", "destroy"}
      PROVE  RefInv'
  BY <1>2, <1>3, <1>4, QuietRef DEF Holding
<1>5. ASSUME NEW t \in Task, UNCHANGED sources, Return(t) PROVE RefInv'
  BY <1>2, <1>3, <1>5, SomeTypes, QuietRef DEF Holding, Return, Goto
<1>6. ASSUME \A n \in Node : sources'[n] \in {sources[n], NoRef}, UNCHANGED <<pc, node, ref>>
      PROVE  RefInv'
  BY <1>2, <1>3, <1>6, QuietRef DEF Holding
<1>7. ASSUME NEW p \in Full, NEW n \in Node, NEW items \in SUBSET Oid, Begin(p, n, items)
      PROVE  RefInv'
  <2>1. ref'[p] = NoRef /\ UNCHANGED sources
    BY <1>1, <1>2, <1>7 DEF Begin, RefInv, inventory
  <2>2. QED
    BY <1>2, <1>3, <1>7, <2>1, QuietRef DEF Begin, Goto, Holding
<1>8. ASSUME NEW p \in Full, ProcStep(p) PROVE RefInv'
  <2>0. p \in Task /\ node[p] \in Node /\ cur[p] \in Oid
    BY <1>2, <1>3
  <2>1. ASSUME NEW r \in Ref, GetSource(p, r) PROVE RefInv'
    <3>1. /\ pc' = [pc EXCEPT ![p] = "missing"] /\ ref' = [ref EXCEPT ![p] = r]
          /\ UNCHANGED <<sources, node>> /\ pc[p] = "source" /\ r # NoRef
      BY <2>1, NamesDiffer DEF GetSource, inventory, Goto
    <3>2. CASE sources[node[p]] # NoRef
      <4>1. r = sources[node[p]]
        BY <2>1, <3>2 DEF GetSource, GetOrCreateSource
      <4>2. QED
        BY <1>2, <1>3, <2>0, <3>1, <4>1 DEF RefInv, Holding
    <3>3. CASE sources[node[p]] = NoRef
      <4>1. (\A n \in Node : sources[n] # r) /\ \A t \in Task : ref[t] # r
        BY <2>1, <3>3 DEF GetSource, GetOrCreateSource, InUse
      <4>2. QED
        BY Zenon, <1>2, <1>3, <2>0, <3>1, <3>3, <4>1 DEF RefInv, Holding
    <3>4. QED
      BY <3>2, <3>3
  <2>2. ASSUME NEW o \in Oid, PickMissing(p, o) PROVE RefInv'
    BY Zenon, <1>4, <2>0, <2>2 DEF PickMissing, Goto, inventory, Holding
  <2>3. CASE RemoveMissing(p)
    <3>1. \A n \in Node : sources'[n] \in {sources[n], NoRef}
      BY <1>2, <2>0, <2>3, RemoveSources DEF RemoveMissing
    <3>2. QED
      BY Zenon, <1>4, <2>0, <2>3, <3>1 DEF RemoveMissing, Goto, Holding
  <2>4. CASE NoMissing(p)
    BY Zenon, <1>4, <2>0, <2>4 DEF NoMissing, Goto, inventory, Holding
  <2>5. ASSUME NEW o \in Oid, NEW same \in BOOLEAN, PickItem(p, o, same) PROVE RefInv'
    BY <1>4, <1>6, <2>0, <2>5 DEF PickItem, Goto, inventory, Holding
  <2>6. CASE AppendRemote(p)
    <3>1. /\ pc' = [pc EXCEPT ![p] = "apply"] /\ UNCHANGED <<node, ref>> /\ Holding(p)
          /\ ref[p] \in Ref /\ ref[p] # NoRef
      BY Zenon, <1>1, <1>2, <2>6, NamesDiffer DEF AppendRemote, Goto, Holding, HoldsSource
    <3>2. sources' = [sources EXCEPT ![node[p]] = ref[p]] \/ sources' = sources
      BY <2>6 DEF AppendRemote, AppendItem
    <3>3. CASE sources' = sources
      BY Zenon, <1>4, <2>0, <3>1, <3>3
    <3>4. CASE sources' = [sources EXCEPT ![node[p]] = ref[p]]
      <4>0. LockInv /\ sources \in [Node -> Ref \union {NoRef}]
        BY DEF IInv, TypeOK
      <4>1. \A q \in Full : Holding(q) /\ node[q] = node[p] => q = p
        BY <3>1, <4>0 DEF LockInv, Critical, Holding
      <4>2. \A q \in Task : q # p => pc'[q] = pc[q]
        BY <3>1, <1>3
      <4>3. \A q \in Full : Holding(q)' => Holding(q)
        BY <3>1, <4>2, <1>2 DEF Holding
      <4>4. \A q \in Full : Holding(q)' /\ sources'[node'[q]] # NoRef
              => sources'[node'[q]] = ref'[q]
        BY <1>2, <1>3, <2>0, <3>1, <3>4, <4>0, <4>1, <4>3 DEF RefInv
      <4>5. \A t \in Task : pc'[t] \in {"idle", "source"} => ref'[t] = NoRef
        BY <1>2, <1>3, <2>0, <3>1 DEF RefInv
      <4>6. \A n \in Node : sources'[n] = IF n = node[p] THEN ref[p] ELSE sources[n]
        BY <2>0, <3>4, <4>0
      <4>7. \A m, n \in Node : sources'[m] = sources'[n] /\ sources'[m] # NoRef => m = n
        BY <1>2, <2>0, <3>1, <4>6 DEF RefInv
      <4>8. \A t \in Task, n \in Node : ref'[t] = sources'[n] /\ ref'[t] # NoRef => node'[t] = n
        BY <1>2, <2>0, <3>1, <4>6 DEF RefInv
      <4>9. QED
        BY <1>2, <3>1, <4>4, <4>5, <4>7, <4>8 DEF RefInv
    <3>5. QED
      BY Zenon, <3>2, <3>3, <3>4
  <2>7. CASE End(p)
    BY <1>5, <2>0, <2>7 DEF End, inventory
  <2>8. QED
    BY <1>8, <2>1, <2>2, <2>3, <2>4, <2>5, <2>6, <2>7 DEF ProcStep
<1>9. ASSUME NEW d \in Destroyer, NEW n \in Node, DestroyBegin(d, n) PROVE RefInv'
  <2>1. /\ pc' = [pc EXCEPT ![d] = "mark"] /\ node' = [node EXCEPT ![d] = n]
        /\ ref' = [ref EXCEPT ![d] = sources[n]] /\ UNCHANGED sources /\ pc[d] = "idle" /\ d \in Task
        /\ d \notin Full
    BY <1>1, <1>9 DEF DestroyBegin, Goto, inventory
  <2>2. QED
    BY <1>2, <1>3, <2>1 DEF RefInv, Holding
<1>10. ASSUME NEW d \in Destroyer, DestroyStep(d) PROVE RefInv'
  <2>0. d \in Task
    BY <1>1
  <2>1. CASE DestroyMark(d)
    BY Zenon, <1>2, <1>3, <2>0, <2>1, QuietRef DEF DestroyMark, Goto, inventory, Holding
  <2>2. CASE DestroyLock(d) \/ DestroyList(d)
    <3>1. CASE DestroyLock(d)
      BY <1>4, <2>0, <3>1 DEF DestroyLock, Goto, inventory
    <3>2. CASE DestroyList(d)
      BY <1>4, <2>0, <3>2 DEF DestroyList, Goto, inventory
    <3>3. QED
      BY <2>2, <3>1, <3>2
  <2>3. ASSUME NEW o \in Oid, DestroyItem(d, o) PROVE RefInv'
    BY <1>2, <1>6, <2>3, RemoveSources DEF DestroyItem
  <2>4. CASE DestroyEnd(d)
    BY Zenon, <1>5, <2>0, <2>4 DEF DestroyEnd, inventory
  <2>5. QED
    BY <1>10, <2>1, <2>2, <2>3, <2>4 DEF DestroyStep
<1>11. ASSUME NEW o \in Oid, Deploy(o) \/ Create(o) PROVE RefInv'
  BY <1>6, <1>11, NamesDiffer DEF Deploy, Create, AppendItem
<1>12. ASSUME NEW o \in Oid, Undeploy(o) PROVE RefInv'
  BY Zenon, <1>2, <1>6, <1>12, RemoveSources DEF Undeploy
<1>13. ASSUME NEW t \in Remover, NEW o \in Oid, DestroyLocalItem(t, o) PROVE RefInv'
  <2>1. t \in Task /\ \A n \in Node : sources'[n] \in {sources[n], NoRef}
    BY Zenon, <1>1, <1>2, <1>13, RemoveSources DEF DestroyLocalItem
  <2>2. CASE Return(t)
    BY <1>2, <1>3, <2>1, <2>2, SomeTypes, QuietRef DEF Return, Goto, Holding
  <2>3. QED
    BY <1>6, <1>13, <2>1, <2>2 DEF DestroyLocalItem
<1>14. ASSUME NEW t \in Remover, NEW items \in SUBSET Oid, DestroyLocalList(t, items) PROVE RefInv'
  <2>1. t \in Task /\ pc' = [pc EXCEPT ![t] = "destroy"] /\ UNCHANGED <<sources, node, ref>>
    BY <1>1, <1>14 DEF DestroyLocalList, Goto, inventory
  <2>2. QED
    BY Zenon, <1>4, <2>1
<1>15. CASE UNCHANGED vars
  <2>1. UNCHANGED <<sources, pc, node, ref>>
    BY Zenon, <1>15 DEF vars
  <2>2. QED
    BY <1>6, <2>1
<1>16. QED
  BY Zenon, <1>1, <1>7, <1>8, <1>9, <1>10, <1>11, <1>12, <1>13, <1>14, <1>15
  DEF Next, LocalRemoval, OwnItems

\* A step that marks no object, adds nothing to a list and takes no destroyer off its work
\* keeps FlagInv.
LEMMA QuietFlag ==
  ASSUME FlagInv, NoRef \notin destroyed,
         destroyed' \subseteq destroyed, \A n \in Node : sources'[n] \in {sources[n], NoRef},
         \A n \in Node : bySource'[n] \subseteq bySource[n],
         \A p \in Full : Holding(p)' => Holding(p) /\ ref'[p] = ref[p] /\ node'[p] = node[p],
         \A d \in Destroyer : /\ pc[d] \in {"lock", "list", "drop"} =>
                                   pc'[d] \in {"lock", "list", "drop"} /\ node'[d] = node[d]
                              /\ pc'[d] = "drop" => /\ pc[d] = "drop" /\ node[d] \in Node
                                                    /\ todo'[d] = todo[d]
  PROVE  FlagInv'
<1>1. \A n : Destroying(n) => Destroying(n)'
  BY Zenon DEF Destroying
<1>2. \A n \in Node : sources'[n] \in destroyed' => Destroying(n)'
  BY Zenon, <1>1 DEF FlagInv
<1>3. ASSUME NEW p \in Full, Holding(p)', ref'[p] \in destroyed' PROVE Destroying(node[p])'
  <2>1. Destroying(node[p]) /\ node'[p] = node[p]
    BY Zenon, <1>3 DEF FlagInv
  <2>2. QED
    BY Zenon, <2>1 DEF Destroying
<1>4. \A d \in Destroyer : pc'[d] = "drop" => bySource'[node'[d]] \subseteq todo'[d]
  BY DEF FlagInv
<1>5. QED
  BY <1>2, <1>3, <1>4 DEF FlagInv, Destroying

\* Every step keeps the flags of the sources in step with their destroyers.
LEMMA StepFlag ==
  ASSUME OwnItems, IInv, OwnInv, [Next]_vars
  PROVE  FlagInv'
<1>1. /\ Proc = Full /\ Task = Full \union Destroyer \union Remover
      /\ Full \intersect (Destroyer \union Remover) = {} /\ Destroyer \intersect Remover = {}
  BY TasksDiffer DEF OwnItems, Task, Proc
<1>2. /\ TypeOK /\ RefInv /\ FlagInv /\ HoldsSource /\ Listing /\ LockInv
      /\ ItemsOfOneSource /\ PlaceInv /\ NoRef \notin destroyed
  BY NamesDiffer DEF IInv, OwnInv, TypeOK
<1>3. /\ pc \in [Task -> {"idle", "source", "missing", "remove", "apply", "append",
                          "mark", "lock", "list", "drop", "accept", "destroy"}]
      /\ node \in [Task -> Node] /\ ref \in [Task -> Ref \union {NoRef}] /\ cur \in [Task -> Oid]
      /\ todo \in [Task -> SUBSET Oid] /\ sources \in [Node -> Ref \union {NoRef}]
      /\ bySource \in [Node \union {Local} -> SUBSET Oid]
  BY <1>2 DEF TypeOK
<1>4. ASSUME NEW o \in Oid, RemoveItem(o)
      PROVE  /\ \A n \in Node : sources'[n] \in {sources[n], NoRef}
             /\ \A n \in Node : bySource'[n] = bySource[n] \ {o}
  BY Zenon, <1>2, <1>4, RemoveSources, RemoveKeepsOne DEF PlaceInv
<1>5. ASSUME \A n \in Node : sources'[n] \in {sources[n], NoRef},
             \A n \in Node : bySource'[n] \subseteq bySource[n],
             UNCHANGED <<destroyed, pc, node, ref, todo>>
      PROVE  FlagInv'
  BY Zenon, <1>1, <1>2, <1>3, <1>5, QuietFlag DEF Holding
<1>6. ASSUME NEW p \in Full, NEW l, pc' = [pc EXCEPT ![p] = l], UNCHANGED <<node, ref>>,
             l \in {"missing", "remove", "apply", "append"} => Holding(p),
             \A u \in Task : u # p => todo'[u] = todo[u],
             \A n \in Node : sources'[n] \in {sources[n], NoRef},
             \A n \in Node : bySource'[n] \subseteq bySource[n], UNCHANGED destroyed
      PROVE  FlagInv'
  BY Zenon, <1>1, <1>2, <1>3, <1>6, QuietFlag DEF Holding
<1>7. ASSUME NEW p \in Full, NEW n \in Node, NEW items \in SUBSET Oid, Begin(p, n, items)
      PROVE  FlagInv'
  BY <1>1, <1>2, <1>3, <1>7, QuietFlag DEF Begin, Goto, inventory, Holding
<1>8. ASSUME NEW p \in Full, ProcStep(p) PROVE FlagInv'
  <2>0. p \in Task /\ node[p] \in Node /\ cur[p] \in Oid /\ p \notin Destroyer
    BY Zenon, <1>1, <1>3
  <2>1. ASSUME NEW r \in Ref, GetSource(p, r) PROVE FlagInv'
    <3>1. /\ pc' = [pc EXCEPT ![p] = "missing"] /\ ref' = [ref EXCEPT ![p] = r]
          /\ UNCHANGED <<sources, bySource, node, todo>> /\ destroyed' \subseteq destroyed
      BY <2>1 DEF GetSource, GetOrCreateSource, inventory, Goto
    <3>2. \A n : Destroying(n) <=> Destroying(n)'
      BY Zenon, <1>1, <1>3, <3>1 DEF Destroying
    <3>3. r \in destroyed' => r = sources[node[p]]
      BY <2>1 DEF GetSource, GetOrCreateSource
    <3>4. \A q \in Full : Holding(q)' => (q = p \/ (Holding(q) /\ ref'[q] = ref[q]))
      BY <1>1, <1>3, <3>1 DEF Holding
    <3>5. \A q \in Full : Holding(q)' /\ ref'[q] \in destroyed' => Destroying(node[q])'
      BY <1>1, <1>2, <1>3, <2>0, <3>1, <3>2, <3>3, <3>4 DEF FlagInv
    <3>6. \A d \in Destroyer : pc'[d] = "drop" => bySource'[node'[d]] \subseteq todo'[d]
      BY <1>1, <1>2, <1>3, <3>1 DEF FlagInv
    <3>7. QED
      BY Zenon, <1>2, <3>1, <3>2, <3>5, <3>6 DEF FlagInv
  <2>2. ASSUME NEW o \in Oid, PickMissing(p, o) PROVE FlagInv'
    BY Zenon, <1>6, <2>2 DEF PickMissing, Goto, inventory, Holding
  <2>3. CASE RemoveMissing(p)
    <3>1. /\ \A n \in Node : sources'[n] \in {sources[n], NoRef}
          /\ \A n \in Node : bySource'[n] \subseteq bySource[n]
      BY Zenon, <1>4, <2>0, <2>3 DEF RemoveMissing
    <3>2. QED
      BY Zenon, <1>6, <2>3, <3>1 DEF RemoveMissing, Goto, Holding
  <2>4. CASE NoMissing(p)
    BY Zenon, <1>6, <2>4 DEF NoMissing, Goto, inventory, Holding
  <2>5. ASSUME NEW o \in Oid, NEW same \in BOOLEAN, PickItem(p, o, same) PROVE FlagInv'
    <3>1. CASE same
      <4>1. pc' = [pc EXCEPT ![p] = "apply"] /\ Holding(p)
        BY Zenon, <1>3, <2>0, <2>5, <3>1 DEF PickItem, Holding
      <4>2. QED
        BY ZenonT(30), <1>3, <1>6, <2>0, <2>5, <4>1 DEF PickItem, inventory
    <3>2. CASE ~same
      BY Zenon, <1>3, <1>6, <2>0, <2>5, <3>2 DEF PickItem, inventory, Goto, Holding
    <3>3. QED
      BY <3>1, <3>2
  <2>6. CASE AppendRemote(p)
    <3>1. /\ pc' = [pc EXCEPT ![p] = "apply"] /\ UNCHANGED <<node, ref, todo, destroyed>>
          /\ Holding(p) /\ Critical(p)
      BY Zenon, <2>6 DEF AppendRemote, Goto, Holding, Critical
    <3>2. \A n \in Node : sources'[n] = sources[n] \/ (n = node[p] /\ sources'[n] = ref[p])
      BY <1>3, <2>0, <2>6 DEF AppendRemote, AppendItem
    <3>3. \A n \in Node : n # node[p] => bySource'[n] = bySource[n]
      BY <1>3, <2>0, <2>6 DEF AppendRemote, AppendItem
    <3>4. \A n : Destroying(n) <=> Destroying(n)'
      BY Zenon, <1>1, <1>3, <3>1 DEF Destroying
    <3>5. \A d \in Destroyer : pc[d] = "drop" => node[d] # node[p]
      BY Zenon, <1>2, <2>0, <3>1 DEF LockInv, Critical
    <3>6. \A n \in Node : sources'[n] \in destroyed' => Destroying(n)'
      BY <1>2, <3>1, <3>2, <3>4 DEF FlagInv
    <3>7. \A q \in Full : Holding(q)' /\ ref'[q] \in destroyed' => Destroying(node[q])'
      <4>1. \A q \in Full : Holding(q)' => Holding(q)
        BY Zenon, <1>1, <1>3, <3>1 DEF Holding
      <4>2. QED
        BY <1>2, <3>1, <3>4, <4>1 DEF FlagInv
    <3>8. \A d \in Destroyer : pc'[d] = "drop" => bySource'[node'[d]] \subseteq todo'[d]
      BY Zenon, <1>1, <1>2, <1>3, <2>0, <3>1, <3>3, <3>5 DEF FlagInv
    <3>9. QED
      BY Zenon, <3>6, <3>7, <3>8 DEF FlagInv
  <2>7. CASE End(p)
    BY <1>1, <1>2, <1>3, <2>0, <2>7, QuietFlag DEF End, Return, Goto, inventory, Holding
  <2>8. QED
    BY <1>8, <2>1, <2>2, <2>3, <2>4, <2>5, <2>6, <2>7 DEF ProcStep
<1>9. ASSUME NEW d \in Destroyer, NEW n \in Node, DestroyBegin(d, n) PROVE FlagInv'
  BY <1>1, <1>2, <1>3, <1>9, QuietFlag DEF DestroyBegin, Goto, inventory, Holding
<1>10. ASSUME NEW d \in Destroyer, DestroyStep(d) PROVE FlagInv'
  <2>0. d \in Task /\ d \notin Full /\ node[d] \in Node
    BY <1>1, <1>3
  <2>1. CASE DestroyMark(d)
    <3>1. /\ pc' = [pc EXCEPT ![d] = "lock"] /\ ref' = [ref EXCEPT ![d] = NoRef]
          /\ UNCHANGED <<sources, bySource, node, todo>>
          /\ \A r \in destroyed' : r \in destroyed \/ (r = ref[d] /\ r # NoRef)
      BY <2>1, NamesDiffer DEF DestroyMark, Goto, inventory
    <3>2. Destroying(node[d])' /\ \A n : Destroying(n) => Destroying(n)'
      BY <1>1, <1>3, <2>0, <3>1 DEF Destroying
    <3>3. \A n \in Node : sources'[n] \in destroyed' => Destroying(n)'
      BY Zenon, <1>2, <2>0, <3>1, <3>2 DEF FlagInv, RefInv
    <3>4. \A p \in Full : Holding(p)' => Holding(p) /\ ref'[p] = ref[p] /\ p \in Task
      BY <1>1, <1>3, <2>0, <3>1 DEF Holding
    <3>5. \A p \in Full : Holding(p)' /\ ref'[p] \in destroyed' => Destroying(node[p])'
      BY Zenon, <1>2, <2>0, <3>1, <3>2, <3>4 DEF FlagInv, RefInv
    <3>6. \A e \in Destroyer : pc'[e] = "drop" => bySource'[node'[e]] \subseteq todo'[e]
      BY <1>1, <1>2, <1>3, <3>1 DEF FlagInv
    <3>7. QED
      BY <3>3, <3>5, <3>6 DEF FlagInv
  <2>2. CASE DestroyLock(d)
    BY <1>1, <1>2, <1>3, <2>0, <2>2, QuietFlag DEF DestroyLock, Goto, inventory, Holding
  <2>3. CASE DestroyList(d)
    <3>1. /\ pc' = [pc EXCEPT ![d] = "drop"] /\ todo' = [todo EXCEPT ![d] = bySource[node[d]]]
          /\ UNCHANGED <<sources, bySource, node, ref, destroyed>> /\ pc[d] = "list"
      BY <2>3 DEF DestroyList, Goto, inventory
    <3>2. \A n : Destroying(n) => Destroying(n)'
      BY <1>1, <1>3, <2>0, <3>1 DEF Destroying
    <3>3. \A p \in Full : Holding(p)' => Holding(p)
      BY <1>1, <1>3, <2>0, <3>1 DEF Holding
    <3>4. \A e \in Destroyer : pc'[e] = "drop" => bySource'[node'[e]] \subseteq todo'[e]
      BY <1>1, <1>2, <1>3, <3>1 DEF FlagInv
    <3>5. QED
      BY Zenon, <1>2, <3>1, <3>2, <3>3, <3>4 DEF FlagInv
  <2>4. ASSUME NEW o \in Oid, DestroyItem(d, o) PROVE FlagInv'
    <3>1. /\ todo' = [todo EXCEPT ![d] = @ \ {o}] /\ UNCHANGED <<destroyed, pc, node, ref>>
          /\ \A n \in Node : sources'[n] \in {sources[n], NoRef}
          /\ \A n \in Node : bySource'[n] = bySource[n] \ {o}
      BY <1>4, <2>4 DEF DestroyItem
    <3>2. \A n : Destroying(n) => Destroying(n)'
      BY <3>1 DEF Destroying
    <3>3. \A p \in Full : Holding(p)' => Holding(p)
      BY <3>1 DEF Holding
    <3>4. ASSUME NEW e \in Destroyer, pc'[e] = "drop" PROVE bySource'[node'[e]] \subseteq todo'[e]
      <4>1. /\ e \in Task /\ node[e] \in Node /\ node'[e] = node[e]
            /\ bySource[node[e]] \subseteq todo[e] /\ todo[e] \ {o} \subseteq todo'[e]
        BY <1>1, <1>2, <1>3, <3>1, <3>4 DEF FlagInv
      <4>2. QED
        BY Zenon, <3>1, <4>1
    <3>5. QED
      BY <1>2, <3>1, <3>2, <3>3, <3>4 DEF FlagInv
  <2>5. CASE DestroyEnd(d)
    <3>1. /\ pc' = [pc EXCEPT ![d] = "idle"] /\ node' = [node EXCEPT ![d] = SomeNode]
          /\ ref' = [ref EXCEPT ![d] = NoRef] /\ todo' = [todo EXCEPT ![d] = {}]
          /\ UNCHANGED <<sources, bySource, destroyed>>
          /\ pc[d] = "drop" /\ todo[d] = {} /\ Critical(d)
      BY Zenon, <2>5 DEF DestroyEnd, Return, Goto, inventory, Critical
    <3>2. bySource[node[d]] = {} /\ sources[node[d]] = NoRef
      BY <1>2, <2>0, <3>1 DEF FlagInv, Listing, RegisteredWhileListed
    <3>3. \A n : n # node[d] /\ Destroying(n) => Destroying(n)'
      BY Zenon, <1>1, <1>3, <2>0, <3>1 DEF Destroying
    <3>4. \A n \in Node : sources'[n] \in destroyed' => Destroying(n)'
      BY <1>2, <3>1, <3>2, <3>3 DEF FlagInv
    <3>5. \A p \in Full : Holding(p)' => Holding(p) /\ ref'[p] = ref[p] /\ node'[p] = node[p]
      BY <1>1, <1>3, <2>0, <3>1 DEF Holding
    <3>6. \A p \in Full : Holding(p) => node[p] # node[d]
      BY <1>2, <2>0, <3>1 DEF LockInv, Critical, Holding
    <3>7. \A p \in Full : Holding(p)' /\ ref'[p] \in destroyed' => Destroying(node[p])'
      <4> SUFFICES ASSUME NEW p \in Full, Holding(p)', ref'[p] \in destroyed'
                   PROVE  Destroying(node[p])'
        BY Zenon
      <4>1. Destroying(node[p]) /\ node[p] # node[d] /\ node'[p] = node[p]
        BY <1>2, <3>1, <3>5, <3>6 DEF FlagInv
      <4>2. Destroying(node[p])'
        BY <1>1, <1>3, <2>0, <3>1, <4>1 DEF Destroying
      <4>3. QED
        BY <4>1, <4>2 DEF Destroying
    <3>8. \A e \in Destroyer : pc'[e] = "drop" => bySource'[node'[e]] \subseteq todo'[e]
      BY <1>1, <1>2, <1>3, <3>1 DEF FlagInv
    <3>9. QED
      BY <3>4, <3>7, <3>8 DEF FlagInv
  <2>6. QED
    BY <1>10, <2>1, <2>2, <2>3, <2>4, <2>5 DEF DestroyStep
<1>11. ASSUME NEW o \in Oid, Deploy(o) \/ Create(o) PROVE FlagInv'
  BY <1>3, <1>5, <1>11, NamesDiffer DEF Deploy, Create, AppendItem
<1>12. ASSUME NEW o \in Oid, Undeploy(o) PROVE FlagInv'
  BY Zenon, <1>4, <1>5, <1>12 DEF Undeploy
<1>13. ASSUME NEW t \in Remover, NEW o \in Oid, DestroyLocalItem(t, o) PROVE FlagInv'
  <2>1. /\ t \in Task /\ t \notin Full /\ t \notin Destroyer /\ UNCHANGED destroyed
        /\ \A n \in Node : sources'[n] \in {sources[n], NoRef}
        /\ \A n \in Node : bySource'[n] \subseteq bySource[n]
    BY Zenon, <1>1, <1>4, <1>13 DEF DestroyLocalItem
  <2>2. \A u \in Task : u # t => /\ pc'[u] = pc[u] /\ node'[u] = node[u] /\ ref'[u] = ref[u]
                                 /\ todo'[u] = todo[u]
    BY Zenon, <1>3, <1>13, <2>1 DEF DestroyLocalItem, Return, Goto
  <2>3. QED
    BY Zenon, <1>1, <1>2, <1>3, <2>1, <2>2, QuietFlag DEF Holding
<1>14. ASSUME NEW t \in Remover, NEW items \in SUBSET Oid, DestroyLocalList(t, items) PROVE FlagInv'
  BY <1>1, <1>2, <1>3, <1>14, QuietFlag DEF DestroyLocalList, Goto, inventory, Holding
<1>15. CASE UNCHANGED vars
  <2>1. UNCHANGED <<sources, bySource, destroyed, pc, node, ref, todo>>
    BY <1>15 DEF vars
  <2>2. QED
    BY <1>5, <2>1
<1>16. QED
  BY Zenon, <1>1, <1>7, <1>8, <1>9, <1>10, <1>11, <1>12, <1>13, <1>14, <1>15
  DEF Next, LocalRemoval, OwnItems

----------------------------------------------------------------------------
\* The invariant of nodes with items of their own holds in every reachable state.
LEMMA OwnInvariance == OwnItems => (Spec => []OwnInv)
<1> SUFFICES ASSUME OwnItems PROVE Spec => []OwnInv
  OBVIOUS
<1>1. Init => OwnInv
  <2> SUFFICES ASSUME Init PROVE OwnInv
    OBVIOUS
  <2>1. PlaceInv /\ ItemsOfOneSource
    BY Zenon, NamesDiffer DEF Init, PlaceInv, ItemsOfOneSource, Holding, Task, Proc
  <2>2. RefInv
    BY DEF Init, RefInv, Holding, Task, Proc
  <2>3. FlagInv
    BY DEF Init, FlagInv, Holding, Task, Proc
  <2>4. QED
    BY <2>1, <2>2, <2>3 DEF OwnInv
<1>2. IInv /\ OwnInv /\ [Next]_vars => OwnInv'
  BY StepOne, StepRef, StepFlag DEF OwnInv
<1>3. QED
  BY <1>1, <1>2, Invariance, PTL DEF Spec

\* mark_destroyed and the offline flag reach all items of a node, and an item is listed
\* under one key, however full inventories, removals of sources and local operations meet.
THEOREM OneSource == OwnItems => (Spec => []ItemsOfOneSource)
BY OwnInvariance, PTL DEF OwnInv

\* destroy_source leaves no item of the node behind, and leaves the flag on no object
\* that a later inventory uses.
THEOREM DestroyComplete == OwnItems => (Spec => []DestroyedIsGone)
<1>1. OwnInv => DestroyedIsGone
  BY DEF OwnInv, FlagInv, Destroying, DestroyedIsGone
<1>2. QED
  BY <1>1, OwnInvariance, PTL

\* No inventory and no removal of a source takes or replaces a local item.
THEOREM LocalKept == OwnItems => (Spec => LocalItemsKept)
<1> SUFFICES ASSUME OwnItems PROVE Spec => LocalItemsKept
  OBVIOUS
<1> DEFINE Kept == \A o \in Oid : owner[o] = Local /\ owner'[o] # Local => LocalRemoval(o)
<1>1. ASSUME IInv, OwnInv, [Next]_vars PROVE Kept \/ UNCHANGED vars
  <2>1. /\ Proc = Full /\ Task = Full \union Destroyer \union Remover /\ TypeOK
        /\ owner \in [Oid -> Node \union {Local, Nobody}] /\ node \in [Task -> Node]
        /\ cur \in [Task -> Oid]
    BY ZenonT(30), <1>1 DEF OwnItems, Task, Proc, IInv, TypeOK
  <2>2. ASSUME NEW n \in Node, NEW o \in Announced[n] PROVE o \in Oid /\ owner[o] # Local
    <3>1. o \in Oid
      BY AnnouncedItems
    <3>2. o \notin bySource[Local]
      BY <1>1 DEF OwnInv, PlaceInv, ItemsOf, OwnItems
    <3>3. QED
      BY Zenon, <1>1, <3>1, <3>2, NamesDiffer DEF IInv, Listing, EveryItemListed
  <2>3. ASSUME NEW o \in Oid, RemoveItem(o)
        PROVE  \A x \in Oid : x # o => owner'[x] = owner[x]
    BY <2>1, <2>3 DEF RemoveItem, inventory
  <2>4. ASSUME NEW p \in Full, ProcStep(p) PROVE Kept
    <3>1. CASE RemoveMissing(p)
      <4>1. cur[p] \in Announced[node[p]] /\ node[p] \in Node
        BY Zenon, <1>1, <2>1, <3>1 DEF RemoveMissing, OwnInv, PlaceInv
      <4>2. cur[p] \in Oid /\ owner[cur[p]] # Local
        BY Zenon, <2>2, <4>1
      <4>3. QED
        BY <2>3, <3>1, <4>2 DEF RemoveMissing
    <3>2. CASE AppendRemote(p)
      <4>1. cur[p] \in Announced[node[p]] /\ node[p] \in Node
        BY ZenonT(30), <1>1, <2>1, <3>2 DEF AppendRemote, OwnInv, PlaceInv
      <4>2. cur[p] \in Oid /\ owner[cur[p]] # Local
        BY <2>2, <4>1
      <4>3. QED
        BY <2>1, <3>2, <4>2 DEF AppendRemote, AppendItem
    <3>3. CASE ~RemoveMissing(p) /\ ~AppendRemote(p)
      BY ZenonT(30), <2>4, <3>3 DEF ProcStep, GetSource, PickMissing, NoMissing, PickItem, End, inventory
    <3>4. QED
      BY <3>1, <3>2, <3>3
  <2>5. ASSUME NEW d \in Destroyer, DestroyStep(d) PROVE Kept
    <3>1. ASSUME NEW o \in Oid, DestroyItem(d, o) PROVE Kept
      <4>1. o \in Announced[node[d]] /\ node[d] \in Node
        BY Zenon, <1>1, <2>1, <3>1 DEF DestroyItem, OwnInv, PlaceInv
      <4>2. owner[o] # Local
        BY <2>2, <4>1
      <4>3. QED
        BY <2>3, <3>1, <4>2 DEF DestroyItem
    <3>2. CASE DestroyMark(d) \/ DestroyLock(d) \/ DestroyList(d) \/ DestroyEnd(d)
      BY Zenon, <3>2 DEF DestroyMark, DestroyLock, DestroyList, DestroyEnd, inventory
    <3>3. QED
      BY ZenonT(30), <2>5, <3>1, <3>2 DEF DestroyStep
  <2>6. ASSUME NEW o \in Oid, Deploy(o) \/ Create(o) PROVE Kept
    BY <2>1, <2>6 DEF Deploy, Create, AppendItem
  <2>7. ASSUME NEW o \in Oid, LocalRemoval(o) PROVE Kept
    BY <2>1, <2>3, <2>7 DEF LocalRemoval, Undeploy, DestroyLocalItem
  <2>8. ASSUME \/ \E p \in Proc, n \in Node, items \in SUBSET Oid : Begin(p, n, items)
               \/ \E d \in Destroyer, n \in Node : DestroyBegin(d, n)
               \/ \E t \in Remover, items \in SUBSET Oid : DestroyLocalList(t, items)
        PROVE  Kept
    BY Zenon, <2>8 DEF Begin, DestroyBegin, DestroyLocalList, inventory
  <2> HIDE DEF Kept
  <2>9. QED
    BY ZenonT(30), <1>1, <2>1, <2>4, <2>5, <2>6, <2>7, <2>8 DEF Next, OwnItems
<1>2. QED
  BY <1>1, Invariance, OwnInvariance, PTL DEF LocalItemsKept, Spec
============================================================================
