-------------------------- MODULE PersistenceProofs --------------------------
(***************************************************************************)
(* Proofs about module Persistence, for any number of items, tasks, states *)
(* and starts, with any size of the channel: a database keeps nothing of a *)
(* destroyed item, and a node that shuts down keeps its items and their    *)
(* states if no two of its tasks save states or configurations at once.    *)
(***************************************************************************)
EXTENDS Persistence, TLAPS

\* The functions of the model have their domains, and the tasks their items.
Shape ==
  /\ set \in Setting /\ top \in Nat
  /\ DOMAIN mem = Oid /\ DOMAIN st = Oid /\ DOMAIN pc = Task
  /\ DOMAIN item = Task /\ \A t \in Task : item[t] \in Oid
  /\ cfg \subseteq Oid

\* Where a task that destroys an item has still to delete its row, and where a task is
\* about to write or to delete one
Deleting == {"unschedule", "destroy"}
AtRow == Deleting \union {"config"}

\* DestroyedLeavesNothing made inductive, for a database: only an item with a row has a
\* stored state; at most one caller changes configurations; while the core is not down,
\* an item with a row is in memory or about to lose its row, and a caller about to write
\* a row has its item in memory.
RowInv ==
  Db =>
    /\ \A o \in Oid : st[o] # 0 => o \in cfg
    /\ \A a, b \in Admin : pc[a] # "idle" /\ pc[b] # "idle" => a = b
    /\ \A t \in Task : (pc[t] \in AtRow => t \in Admin) /\ pc[t] # "key"
    /\ phase # "down" =>
         /\ \A o \in Oid : o \in cfg /\ mem[o] = 0 =>
              \E t \in Task : pc[t] \in Deleting /\ item[t] = o
         /\ \A t \in Task : pc[t] = "config" => mem[item[t]] # 0

\* Every step keeps the shape.
LEMMA StepShape == Shape /\ [Next]_vars => Shape'
<1> SUFFICES ASSUME Shape, [Next]_vars PROVE Shape'
  OBVIOUS
<1> SomeOid \in Oid
  BY Parameters DEF SomeOid
<1> USE DEF Shape
<1>1. ASSUME NEW o \in Oid, NEW t \in Raw \union Lvar, Change(t, o) PROVE Shape'
  BY <1>1 DEF Change, Call, NewState, Goto, life, store, Task
<1>2. ASSUME NEW o \in Oid, NEW t \in Admin, AppendItem(t, o) PROVE Shape'
  BY <1>2 DEF AppendItem, Call, NewState, Goto, life, store, Task
<1>3. ASSUME NEW o \in Oid, NEW t \in Admin, SetEnabled(t, o) \/ Remove(t, o) PROVE Shape'
  BY <1>3 DEF SetEnabled, Remove, Call, Goto, life, store, memory, Task
<1>4. ASSUME NEW t \in Saver, SaveCall(t) PROVE Shape'
  BY <1>4 DEF SaveCall, Call, Goto, life, store, memory, Task
<1>5. ASSUME NEW t \in Task, Work(t) PROVE Shape'
  <2>1. CASE ProcessNewState(t) \/ SaveTake(t) \/ SaveEnd(t) \/ NewItemState(t) \/ Unschedule(t)
    BY <2>1 DEF ProcessNewState, SaveTake, SaveEnd, NewItemState, Unschedule, Return, Goto, life, store,
       memory
  <2>2. CASE SaveWrite(t)
    BY <2>2 DEF SaveWrite, SaveItemState, Goto, life
  <2>3. ASSUME NEW o \in Oid, SaveLookup(t, o) PROVE Shape'
    BY <2>3 DEF SaveLookup, Goto, life, store, memory
  <2>4. CASE SaveConfig(t)
    BY <2>4 DEF SaveConfig, SaveItems, Return, Goto, life, memory
  <2>5. CASE Destroy(t) \/ DestroyKey(t)
    BY <2>5 DEF Destroy, DestroyKey, Return, Goto, life, memory
  <2>6. QED
    BY <1>5, <2>1, <2>2, <2>3, <2>4, <2>5 DEF Work
<1>6. CASE HandleRecv \/ HandleWrite \/ WorkerTake \/ WorkerWrite
  BY <1>6 DEF HandleRecv, HandleWrite, WorkerTake, WorkerWrite, SaveItemState, local, life, store
<1>7. CASE Shutdown \/ Drained \/ Down \/ Crash
  BY <1>7 DEF Shutdown, Drained, Down, Crash, Goto, memory, store, local
<1>8. CASE Start
  BY <1>8 DEF Start, store
<1>9. CASE UNCHANGED vars
  BY <1>9 DEF vars, memory, store, local, life
<1>10. QED
  BY <1>1, <1>2, <1>3, <1>4, <1>5, <1>6, <1>7, <1>8, <1>9 DEF Next

\* A step that changes no row keeps RowInv, if states do not vanish from memory and no task
\* comes to or leaves the places of RowInv.
LEMMA OtherKeeps ==
  ASSUME Shape, RowInv, UNCHANGED <<set, cfg>>, phase = "down" => phase' = "down",
         Db => /\ \A u \in Task : pc[u] \in AtRow \/ pc'[u] \in AtRow \/ pc'[u] = "key"
                    => pc'[u] = pc[u] /\ item'[u] = item[u]
               /\ \A a \in Admin : pc'[a] # "idle" => pc[a] # "idle"
               /\ \A o \in Oid : mem[o] # 0 => mem'[o] # 0
               /\ \A o \in Oid : st'[o] # 0 => o \in cfg
  PROVE  RowInv'
<1>1. SUFFICES ASSUME Db PROVE RowInv'
  BY DEF Db, RowInv
<1>2. \A a, b \in Admin : pc'[a] # "idle" /\ pc'[b] # "idle" => a = b
  BY <1>1 DEF RowInv
<1>3. \A u \in Task : (pc'[u] \in AtRow => u \in Admin) /\ pc'[u] # "key"
  BY <1>1 DEF RowInv
<1>4. ASSUME phase' # "down", NEW o \in Oid, o \in cfg', mem'[o] = 0
      PROVE  \E u \in Task : pc'[u] \in Deleting /\ item'[u] = o
  <2>1. PICK u \in Task : pc[u] \in Deleting /\ item[u] = o
    BY <1>1, <1>4 DEF RowInv
  <2>2. QED
    BY <1>1, <2>1 DEF AtRow
<1>5. ASSUME phase' # "down", NEW u \in Task, pc'[u] = "config"
      PROVE  mem'[item'[u]] # 0
  BY <1>1, <1>5 DEF RowInv, Shape, AtRow
<1>6. QED
  BY <1>1, <1>2, <1>3, <1>4, <1>5 DEF RowInv

\* A task that works on states, not on rows
LEMMA StateSteps ==
  ASSUME Shape, RowInv, NEW t \in Task, phase # "down",
         \/ \E o \in Oid : (t \in Raw \union Lvar /\ Change(t, o)) \/ SaveLookup(t, o)
         \/ t \in Saver /\ SaveCall(t)
         \/ ProcessNewState(t) \/ SaveTake(t) \/ SaveWrite(t) \/ SaveEnd(t) \/ NewItemState(t)
  PROVE  RowInv'
<1>1. UNCHANGED <<set, cfg, phase>>
  BY DEF Change, SaveLookup, SaveCall, ProcessNewState, SaveTake, SaveWrite, SaveEnd, NewItemState,
     life, store
<1>2. /\ pc[t] \in {"idle", "new", "save", "items", "write", "state"}
      /\ pc'[t] \in {"idle", "new", "save", "items", "write"}
      /\ pc[t] = "idle" => t \in Raw \union Lvar \union Saver
      /\ \A u \in Task \ {t} : pc'[u] = pc[u] /\ item'[u] = item[u]
  BY DEF Change, Call, SaveLookup, SaveCall, ProcessNewState, SaveTake, SaveWrite, SaveEnd,
     NewItemState, Return, Goto, Shape
<1>3. \A o \in Oid : mem[o] # 0 => mem'[o] # 0
  BY DEF Change, NewState, SaveLookup, SaveCall, ProcessNewState, SaveTake, SaveWrite, SaveEnd,
     NewItemState, memory, Shape
<1>4. Db => UNCHANGED st
  BY DEF Change, SaveLookup, SaveCall, ProcessNewState, SaveTake, SaveWrite, SaveItemState, SaveEnd,
     NewItemState, store
<1>5. \A a \in Admin : pc'[a] # "idle" => pc[a] # "idle"
  BY <1>2, Parameters DEF Task
<1>6. \A u \in Task : pc[u] \in AtRow \/ pc'[u] \in AtRow \/ pc'[u] = "key" =>
        pc'[u] = pc[u] /\ item'[u] = item[u]
  BY <1>2 DEF AtRow, Deleting
<1>7. Db => \A o \in Oid : st'[o] # 0 => o \in cfg
  BY <1>4 DEF RowInv
<1>8. QED
  BY <1>1, <1>3, <1>5, <1>6, <1>7, OtherKeeps

\* A caller that begins to change a configuration is the only one.
LEMMA BeginRow ==
  ASSUME OneAdmin, Shape, RowInv, NEW t \in Admin, NEW o \in Oid,
         AppendItem(t, o) \/ SetEnabled(t, o) \/ Remove(t, o)
  PROVE  RowInv'
<1>1. SUFFICES ASSUME Db PROVE RowInv'
  BY DEF RowInv, Db, AppendItem, SetEnabled, Remove, life
<1>2. t \in Task /\ Admin \subseteq Task
  BY DEF Task
<1>3. /\ \A a \in Admin : pc[a] = "idle"
      /\ phase = "up" /\ UNCHANGED <<set, cfg, st, phase>>
      /\ item'[t] = o /\ pc'[t] \in {"config", "unschedule"}
      /\ \A u \in Task \ {t} : pc'[u] = pc[u] /\ item'[u] = item[u]
  BY <1>2 DEF AppendItem, SetEnabled, Remove, Call, Goto, Shape, life, store
<1>4. \A u \in Task \ {t} : pc'[u] \notin AtRow /\ pc'[u] # "key"
  BY <1>1, <1>3 DEF RowInv, AtRow, Deleting
<1>5. \A p \in Oid : p \in cfg => mem[p] # 0
  BY <1>1, <1>3 DEF RowInv, AtRow, Deleting
<1>6. \A p \in Oid \ {o} : mem'[p] = mem[p]
  BY DEF AppendItem, SetEnabled, Remove, NewState, Shape, memory
<1>7. pc'[t] = "config" => mem'[o] # 0
  <2>1. CASE Remove(t, o)
    BY <1>2, <2>1 DEF Remove, Goto, Shape
  <2>2. CASE SetEnabled(t, o)
    BY <2>2 DEF SetEnabled, memory
  <2>3. CASE AppendItem(t, o)
    BY <2>3 DEF AppendItem, NewState, Shape
  <2>4. QED
    BY <2>1, <2>2, <2>3
<1>8. \A p \in Oid : p \in cfg' /\ mem'[p] = 0 => \E u \in Task : pc'[u] \in Deleting /\ item'[u] = p
  BY <1>2, <1>3, <1>5, <1>6, <1>7 DEF Deleting
<1>9. \A u \in Task : pc'[u] = "config" => mem'[item'[u]] # 0
  BY <1>3, <1>4, <1>7 DEF AtRow
<1>10. \A a, b \in Admin : pc'[a] # "idle" /\ pc'[b] # "idle" => a = b
  BY <1>2, <1>3
<1>11. \A u \in Task : (pc'[u] \in AtRow => u \in Admin) /\ pc'[u] # "key"
  BY <1>3, <1>4
<1>12. \A p \in Oid : st'[p] # 0 => p \in cfg'
  BY <1>1, <1>3 DEF RowInv
<1>13. QED
  BY <1>8, <1>9, <1>10, <1>11, <1>12 DEF RowInv

\* A row is written while its item is in memory, and deleted with its state.
LEMMA ChangeRow ==
  ASSUME Shape, RowInv, NEW t \in Task, phase # "down",
         SaveConfig(t) \/ Unschedule(t) \/ Destroy(t) \/ DestroyKey(t)
  PROVE  RowInv'
<1>1. SUFFICES ASSUME Db PROVE RowInv'
  BY DEF RowInv, Db, SaveConfig, Unschedule, Destroy, DestroyKey, life
<1>2. t \in Admin /\ Admin \subseteq Task /\ ~DestroyKey(t) /\ pc[t] \in AtRow
  BY <1>1 DEF RowInv, SaveConfig, Unschedule, Destroy, DestroyKey, AtRow, Deleting, Task
<1>3. /\ UNCHANGED <<set, mem, phase>>
      /\ pc'[t] \in {"idle", "state", "destroy"}
      /\ \A u \in Task \ {t} : pc'[u] = pc[u] /\ item'[u] = item[u]
  BY <1>1, <1>2 DEF SaveConfig, Unschedule, Destroy, Return, Goto, Shape, life, memory
<1>4. \A u \in Task \ {t} : pc'[u] \notin AtRow /\ pc'[u] # "key"
  BY <1>1, <1>2, <1>3 DEF RowInv, AtRow, Deleting
<1>5. \A a, b \in Admin : pc'[a] # "idle" /\ pc'[b] # "idle" => a = b
  BY <1>1, <1>2, <1>3 DEF RowInv, AtRow, Deleting
<1>6. \A u \in Task : (pc'[u] \in AtRow => u \in Admin) /\ pc'[u] # "key" /\ pc'[u] # "config"
  BY <1>2, <1>3, <1>4 DEF AtRow
<1>7. CASE SaveConfig(t)
  <2>1. pc[t] = "config" /\ cfg' = cfg \union {item[t]} /\ mem[item[t]] # 0
    BY <1>1, <1>7 DEF SaveConfig, SaveItems, RowInv
  <2>2. \A p \in Oid : p \in cfg' => mem'[p] # 0
    BY <1>1, <1>2, <1>3, <1>4, <2>1 DEF RowInv, AtRow, Deleting
  <2>3. \A p \in Oid : st'[p] # 0 => p \in cfg'
    BY <1>1, <1>7, <2>1 DEF SaveConfig, SaveItems, RowInv, Shape
  <2>4. QED
    BY <1>5, <1>6, <2>2, <2>3 DEF RowInv
<1>8. CASE Unschedule(t)
  <2>1. pc'[t] = "destroy" /\ item'[t] = item[t] /\ UNCHANGED <<cfg, st>>
    BY <1>8 DEF Unschedule, Goto, Shape, store
  <2>2. \A p \in Oid : p \in cfg' /\ mem'[p] = 0 => item[t] = p
    BY <1>1, <1>3, <1>4, <2>1 DEF RowInv, AtRow, Deleting
  <2>3. \A p \in Oid : st'[p] # 0 => p \in cfg'
    BY <1>1, <2>1 DEF RowInv
  <2>4. QED
    BY <1>5, <1>6, <2>1, <2>2, <2>3 DEF RowInv, Deleting
<1>9. CASE Destroy(t)
  <2>1. cfg' = cfg \ {item[t]} /\ st' = [st EXCEPT ![item[t]] = 0]
    BY <1>1, <1>9 DEF Destroy
  <2>2. \A p \in Oid : p \in cfg' => mem'[p] # 0
    BY <1>1, <1>3, <1>4, <2>1 DEF RowInv, AtRow, Deleting
  <2>3. \A p \in Oid : st'[p] # 0 => p \in cfg'
    BY <1>1, <2>1 DEF RowInv, Shape
  <2>4. QED
    BY <1>5, <1>6, <2>2, <2>3 DEF RowInv
<1>10. QED
  BY <1>2, <1>7, <1>8, <1>9

\* handle_save, the worker, and the life of the core
LEMMA CoreSteps ==
  ASSUME Shape, RowInv,
         \/ phase # "down" /\ (HandleRecv \/ HandleWrite \/ WorkerTake \/ WorkerWrite)
         \/ Shutdown \/ Drained \/ Down \/ Crash \/ UNCHANGED vars
  PROVE  RowInv'
<1>1. Main \in Task /\ Main \notin Admin /\ Admin \subseteq Task
  BY Parameters DEF Task
<1>2. UNCHANGED <<set, cfg, mem, item>> /\ (phase = "down" => phase' = "down")
  BY DEF HandleRecv, HandleWrite, WorkerTake, WorkerWrite, Shutdown, Drained, Down, Crash, vars,
     memory, store, local, life
<1>3. \A u \in Task : pc'[u] = pc[u] \/ (u = Main /\ pc'[u] = "save")
  BY Zenon DEF HandleRecv, HandleWrite, WorkerTake, WorkerWrite, Shutdown, Drained, Down, Crash, vars,
     local, Goto, Shape
<1>4. Db => \A o \in Oid : st'[o] # 0 => o \in cfg
  BY DEF HandleRecv, HandleWrite, SaveItemState, WorkerTake, WorkerWrite, Shutdown, Drained, Down,
     Crash, vars, store, RowInv
<1>5. Db => \A u \in Task : pc[u] \in AtRow \/ pc'[u] \in AtRow \/ pc'[u] = "key" =>
        pc'[u] = pc[u] /\ item'[u] = item[u]
  BY <1>1, <1>2, <1>3 DEF RowInv, AtRow, Deleting
<1>6. \A a \in Admin : pc'[a] # "idle" => pc[a] # "idle"
  BY <1>1, <1>3
<1>7. QED
  BY <1>2, <1>4, <1>5, <1>6, OtherKeeps

\* The core starts with the rows it finds.
LEMMA StartRow == ASSUME Shape, RowInv, Start PROVE RowInv'
<1>1. SUFFICES ASSUME Db PROVE RowInv'
  BY DEF RowInv, Db, Start
<1>2. \A u \in Task : pc'[u] = "idle"
  BY DEF Start
<1>3. \A o \in Oid : o \in cfg' => mem'[o] # 0
  BY DEF Start, store, Fresh
<1>4. \A o \in Oid : st'[o] # 0 => o \in cfg'
  BY <1>1 DEF Start, store, RowInv
<1>5. Admin \subseteq Task
  BY DEF Task
<1>6. QED
  BY <1>2, <1>3, <1>4, <1>5 DEF RowInv, AtRow, Deleting

\* If clients change configurations one after the other: once the tasks at work have
\* ended, a database holds neither the configuration nor the state of an item that is not
\* in the inventory, whatever saves, buffered writes, crashes and starts came between.
THEOREM DestroyedCorrect == ASSUME OneAdmin PROVE Spec => []DestroyedLeavesNothing
<1>1. Init => Shape /\ RowInv
  <2> SUFFICES ASSUME Init PROVE Shape /\ RowInv
    OBVIOUS
  <2>1. SomeOid \in Oid /\ Admin \subseteq Task
    BY Parameters DEF SomeOid, Task
  <2>2. QED
    BY <2>1 DEF Init, Shape, RowInv, None, Fresh, AtRow, Deleting
<1>2. Shape /\ RowInv /\ [Next]_vars => (Shape /\ RowInv)'
  <2> SUFFICES ASSUME Shape, RowInv, [Next]_vars PROVE RowInv'
    BY StepShape
  <2>1. CASE Start
    BY <2>1, StartRow
  <2>2. CASE UNCHANGED vars
    BY <2>2, CoreSteps
  <2>3. CASE phase # "down" /\ ~Start /\ Next
    <3>1. Raw \union Lvar \union Saver \subseteq Task
      BY DEF Task
    <3>2. ASSUME NEW t \in Task, Work(t) PROVE RowInv'
      BY <2>3, <3>2, StateSteps, ChangeRow DEF Work
    <3>3. ASSUME NEW o \in Oid, NEW t \in Raw \union Lvar, Change(t, o) PROVE RowInv'
      BY <2>3, <3>1, <3>3, StateSteps
    <3>4. ASSUME NEW t \in Saver, SaveCall(t) PROVE RowInv'
      BY <2>3, <3>1, <3>4, StateSteps
    <3>5. QED
      BY <2>3, <3>2, <3>3, <3>4, BeginRow, CoreSteps DEF Next
  <2>4. QED
    BY <2>1, <2>2, <2>3 DEF Next
<1>3. Shape /\ RowInv => DestroyedLeavesNothing
  BY DEF Shape, RowInv, DestroyedLeavesNothing, Idle, Deleting
<1>4. QED
  BY <1>1, <1>2, <1>3, PTL DEF Spec
----------------------------------------------------------------------------
(* A shutdown keeps the states                                             *)

\* Between a start and a crash, or a shutdown that met an operation under way
Live == phase = "up" \/ calm

Removing == {"unschedule", "destroy", "key"}
Saving == {"save", "items", "write"}

\* A task has put the item into the inventory and will see to its state.
Deploying(o) ==
  \E t \in Task : item[t] = o /\ (pc[t] = "state" \/ (pc[t] = "config" /\ t \notin Enabler))

\* The places of the tasks
PlacesInv ==
  /\ \A t \in Task : /\ pc[t] # "idle" => t \in set.tasks \union {Main}
                     /\ pc[t] \in Removing \union {"config", "state"} => t \in Admin
                     /\ pc[t] = "new" => t \in Raw \union Lvar \union Deployer \union Creator
                     /\ pc[t] \in {"config", "state"} => t \in Deployer \union Creator \union Enabler
                     /\ pc[t] = "state" => t \notin Enabler
                     /\ pc[t] \in Saving => t \in Saver \union {Main}
                     /\ todo[t] # {} => pc[t] \in {"items", "write"}
  /\ \A a, b \in Admin : pc[a] # "idle" /\ pc[b] # "idle" => a = b
  /\ \A t, u \in Task : pc[t] \in Saving /\ pc[u] \in Saving => t = u

\* The inventory and the stored configurations
ConfigInv ==
  /\ \A t \in Task : /\ pc[t] \in {"config", "state"} => mem[item[t]] # 0
                     /\ pc[t] \in Removing => mem[item[t]] = 0
  /\ \A o \in cfg : mem[o] = 0 => \E t \in Task : pc[t] \in Removing /\ item[t] = o
  /\ \A o \in Oid \ cfg : mem[o] # 0 => \E t \in Task \ Enabler : pc[t] = "config" /\ item[t] = o

\* The shutdown
CalmInv ==
  /\ phase = "up" => pc[Main] = "idle" /\ ~calm
  /\ calm => /\ \A t \in Task \ {Main} : pc[t] = "idle"
             /\ pc[Main] \in Saving
             /\ pc[Main] # "save" => sched = {}
             /\ phase \in {"saving", "drained", "down"}
             /\ phase # "saving" =>
                  pc[Main] = "items" /\ todo[Main] = {} /\ chan = <<>> /\ hand = <<>>
             /\ phase = "down" => flush = <<>> /\ buf = None

\* v is what the store will hold for o when the buffer has been written.
Stored(o, v) ==
  IF ~Db THEN st[o] = v
  ELSE IF buf[o] # 0 THEN buf[o] = v
  ELSE IF flush # <<>> /\ flush[1][o] # 0 THEN flush[1][o] = v
  ELSE st[o] = v

\* A save of the item is scheduled, or a task will schedule it.
Due(o) == o \in sched \/ Deploying(o) \/ \E t \in Task : pc[t] = "new" /\ item[t] = o

\* Without instant_save
ScheduleInv ==
  /\ chan = <<>> /\ hand = <<>> /\ (~Db => flush = <<>>)
  /\ \A t \in Task : pc[t] = "write" =>
       Due(item[t]) \/ mem[item[t]] \in {0, val[t]}
  /\ \A o \in Oid : \/ mem[o] \in {0, Fresh} \/ Due(o) \/ Stored(o, mem[o])
                    \/ \E t \in Task : o \in todo[t] \/ (pc[t] = "write" /\ item[t] = o)

\* v is what the registry will hold for o when handle_save has written what was sent.
Sent(o, v) ==
  \/ \E i \in 1..Len(chan) : /\ chan[i] = [oid |-> o, s |-> v]
                             /\ \A j \in 1..Len(chan) : j > i => chan[j].oid # o
  \/ /\ \A i \in 1..Len(chan) : chan[i].oid # o
     /\ IF hand # <<>> /\ hand[1].oid = o THEN hand[1].s = v ELSE st[o] = v

\* With instant_save, in the registry
ChannelInv ==
  /\ sched = {} /\ flush = <<>> /\ \A t \in Task : todo[t] = {} /\ pc[t] # "write"
  /\ \A t \in Task : pc[t] = "new" => stp = {t}
  /\ \A t \in Task : pc[t] = "new" => \/ mem[item[t]] \in {0, val[t]} \/ Deploying(item[t])
  /\ \A o \in Oid : \/ mem[o] \in {0, Fresh} \/ Deploying(o) \/ Sent(o, mem[o])
                    \/ \E t \in Task : pc[t] = "new" /\ item[t] = o

\* With instant_save and a database: no task sends the state of a new item in order, so
\* that there are no items.
EmptyInv == mem = None /\ cfg = {} /\ \A t \in Task : pc[t] # "config"

\* ShutdownKeepsStates made inductive.
KeepInv ==
  /\ Live => /\ PlacesInv /\ ConfigInv /\ CalmInv
             /\ ~set.instant => ScheduleInv
             /\ set.instant /\ InstantInOrder /\ ~Db => ChannelInv
  /\ set.instant /\ InstantInOrder /\ Db => EmptyInv

\* The types of what the operations move.
Msg == [oid : Oid, s : Nat]
QueueTypes ==
  /\ chan \in Seq(Msg) /\ (hand # <<>> => hand[1] \in Msg)
  /\ flush # <<>> => flush[1] \in [Oid -> Nat]
Types ==
  /\ set \in Setting /\ top \in Nat /\ mem \in [Oid -> Nat] /\ stp \subseteq Task
  /\ sched \subseteq Oid /\ buf \in [Oid -> Nat] /\ cfg \subseteq Oid /\ st \in [Oid -> Nat]
  /\ DOMAIN pc = Task /\ item \in [Task -> Oid] /\ val \in [Task -> Nat]
  /\ todo \in [Task -> SUBSET Oid] /\ calm \in BOOLEAN

LEMMA MsgType == ASSUME NEW o \in Oid, NEW v \in Nat PROVE [oid |-> o, s |-> v] \in Msg
BY DEF Msg

LEMMA AppendType ==
  ASSUME NEW S, NEW q \in Seq(S), NEW x \in S PROVE Append(q, x) \in Seq(S)
OBVIOUS

LEMMA StepTypes == Types /\ QueueTypes /\ [Next]_vars => (Types /\ QueueTypes)'
<1> SUFFICES ASSUME Types, QueueTypes, [Next]_vars PROVE Types' /\ QueueTypes'
  OBVIOUS
<1> USE DEF Types
<1>0. SomeOid \in Oid /\ Main \in Task /\ None \in [Oid -> Nat] /\ Fresh \in Nat
  BY Parameters DEF SomeOid, Task, None, Fresh
<1>1. ASSUME UNCHANGED <<chan, hand, flush>> PROVE QueueTypes'
  BY <1>1 DEF QueueTypes
<1>2. ASSUME NEW o \in Oid, NEW t \in Raw \union Lvar, Change(t, o) PROVE Types' /\ QueueTypes'
  <2>1. t \in Task
    BY DEF Task
  <2>2. Types'
    BY <1>2, <2>1 DEF Change, Call, NewState, Goto, life, store
  <2>3. QED
    BY <1>1, <1>2, <2>2 DEF Change
<1>3. ASSUME NEW o \in Oid, NEW t \in Admin, AppendItem(t, o) \/ SetEnabled(t, o) \/ Remove(t, o)
      PROVE  Types' /\ QueueTypes'
  <2>1. t \in Task
    BY DEF Task
  <2>2. CASE AppendItem(t, o)
    BY <1>1, <2>1, <2>2 DEF AppendItem, Call, NewState, Goto, life, store
  <2>3. CASE SetEnabled(t, o)
    BY <1>1, <2>1, <2>3 DEF SetEnabled, Call, Goto, life, store, memory
  <2>4. CASE Remove(t, o)
    BY <1>1, <2>1, <2>4 DEF Remove, Call, Goto, life, store, memory
  <2>5. QED
    BY <1>3, <2>2, <2>3, <2>4
<1>4. ASSUME NEW t \in Saver, SaveCall(t) PROVE Types' /\ QueueTypes'
  BY <1>0, <1>1, <1>4 DEF SaveCall, Call, Goto, life, store, memory, Task
<1>5. ASSUME NEW t \in Task, Work(t) PROVE Types' /\ QueueTypes'
  <2>0. item[t] \in Oid /\ val[t] \in Nat
    OBVIOUS
  <2>1. CASE ProcessNewState(t)
    <3>1. [oid |-> item[t], s |-> val[t]] \in Msg
      BY <2>0, MsgType
    <3>2. chan' \in Seq(Msg)
      <4>1. PICK m \in Msg : chan' \in {chan, Append(chan, m)}
        BY <2>1, <3>1 DEF ProcessNewState
      <4>2. chan \in Seq(Msg)
        BY DEF QueueTypes
      <4>3. QED
        BY ONLY <4>1, <4>2, AppendType
    <3>3. sched' \subseteq Oid /\ buf' \in [Oid -> Nat] /\ stp' \subseteq Task
      BY <2>0, <2>1 DEF ProcessNewState
    <3>4. QueueTypes'
      BY <2>1, <3>2 DEF ProcessNewState, QueueTypes
    <3>5. Types'
      BY <1>0, <2>1, <3>3 DEF ProcessNewState, Return, Goto, life, store
    <3>6. QED
      BY <3>4, <3>5
  <2>2. CASE SaveTake(t)
    BY <1>1, <2>2 DEF SaveTake, Goto, life, store
  <2>3. CASE SaveEnd(t)
    BY <1>0, <1>1, <2>3 DEF SaveEnd, Return, Goto, life, store, memory
  <2>4. CASE NewItemState(t)
    BY <1>0, <1>1, <2>4 DEF NewItemState, Return, Goto, life, store
  <2>5. CASE Unschedule(t)
    BY <1>1, <2>5 DEF Unschedule, Goto, life, store
  <2>6. CASE SaveWrite(t)
    BY <1>0, <1>1, <2>0, <2>6 DEF SaveWrite, SaveItemState, Goto, life
  <2>7. ASSUME NEW o \in Oid, SaveLookup(t, o) PROVE Types' /\ QueueTypes'
    BY <1>1, <2>7 DEF SaveLookup, Goto, life, store, memory
  <2>8. CASE SaveConfig(t)
    BY <1>0, <1>1, <2>0, <2>8 DEF SaveConfig, SaveItems, Return, Goto, life, memory
  <2>9. CASE Destroy(t)
    BY <1>0, <1>1, <2>0, <2>9 DEF Destroy, Return, Goto, life, memory
  <2>10. CASE DestroyKey(t)
    BY <1>0, <1>1, <2>0, <2>10 DEF DestroyKey, Return, Goto, life, memory
  <2>11. QED
    BY Zenon, <1>5, <2>1, <2>2, <2>3, <2>4, <2>5, <2>6, <2>7, <2>8, <2>9, <2>10 DEF Work
<1>6. CASE HandleRecv
  <2>1. Head(chan) \in Msg /\ Tail(chan) \in Seq(Msg)
    BY <1>6 DEF HandleRecv, QueueTypes
  <2>2. QED
    BY <1>6, <2>1 DEF HandleRecv, local, life, store, QueueTypes
<1>7. CASE HandleWrite
  <2>1. hand[1].oid \in Oid /\ hand[1].s \in Nat
    BY <1>7 DEF HandleWrite, QueueTypes, Msg
  <2>2. QueueTypes'
    BY <1>7 DEF HandleWrite, QueueTypes
  <2>3. QED
    BY Zenon, <1>7, <2>1, <2>2 DEF HandleWrite, SaveItemState, local, life
<1>8. CASE WorkerTake
  BY Zenon, <1>0, <1>8 DEF WorkerTake, local, life, store, QueueTypes
<1>9. CASE WorkerWrite
  <2>1. st' \in [Oid -> Nat]
    BY <1>9 DEF WorkerWrite, QueueTypes
  <2>2. QED
    BY <1>9, <2>1 DEF WorkerWrite, local, life, QueueTypes
<1>10. CASE Shutdown \/ Drained \/ Down \/ Crash
  BY Zenon, <1>0, <1>1, <1>10 DEF Shutdown, Drained, Down, Crash, Goto, memory, store, local, Idle
<1>11. CASE Start
  <2>1. mem' \in [Oid -> Nat] /\ UNCHANGED <<set, top, cfg, st>> /\ calm' = FALSE
    BY <1>0, <1>11 DEF Start, store
  <2>2. /\ stp' = {} /\ sched' = {} /\ buf' = None
        /\ pc' = [t \in Task |-> "idle"] /\ item' = [t \in Task |-> SomeOid]
        /\ val' = [t \in Task |-> 0] /\ todo' = [t \in Task |-> {}]
    BY <1>11 DEF Start
  <2>3. Types'
    BY Zenon, <1>0, <2>1, <2>2
  <2>4. QueueTypes'
    BY <1>11 DEF Start, QueueTypes
  <2>5. QED
    BY <2>3, <2>4
<1>12. CASE UNCHANGED vars
  BY <1>1, <1>12 DEF vars, memory, store, local, life
<1>13. QED
  BY Zenon, <1>2, <1>3, <1>4, <1>5, <1>6, <1>7, <1>8, <1>9, <1>10, <1>11, <1>12 DEF Next

\* The calls of the clients and the saves, one at a time.
NoOverlap == OneAdmin /\ \A s, t \in Saver : s = t

\* A task may go where its role has business.
LEMMA MoveKeepsPlaces ==
  ASSUME Types, PlacesInv, NEW t \in Task, NEW l, pc' = [pc EXCEPT ![t] = l], UNCHANGED set,
         l # "idle" => t \in set.tasks \union {Main},
         l \in Removing \union {"config", "state"} => t \in Admin,
         l = "new" => t \in Raw \union Lvar \union Deployer \union Creator,
         l \in {"config", "state"} => t \in Deployer \union Creator \union Enabler,
         l = "state" => t \notin Enabler,
         l \in Saving => t \in Saver \union {Main} /\ \A u \in Task \ {t} : pc[u] \notin Saving,
         t \in Admin => pc[t] # "idle" \/ \A a \in Admin : pc[a] = "idle",
         todo'[t] # {} => l \in {"items", "write"}, \A u \in Task \ {t} : todo'[u] = todo[u]
  PROVE  PlacesInv'
<1>1. pc'[t] = l /\ \A u \in Task \ {t} : pc'[u] = pc[u]
  BY DEF Types
<1>2. \A u \in Task : /\ pc'[u] # "idle" => u \in set.tasks \union {Main}
                      /\ pc'[u] \in Removing \union {"config", "state"} => u \in Admin
                      /\ pc'[u] = "new" => u \in Raw \union Lvar \union Deployer \union Creator
                      /\ pc'[u] \in {"config", "state"} => u \in Deployer \union Creator \union Enabler
                      /\ pc'[u] = "state" => u \notin Enabler
                      /\ pc'[u] \in Saving => u \in Saver \union {Main}
                      /\ todo'[u] # {} => pc'[u] \in {"items", "write"}
  BY <1>1 DEF PlacesInv
<1>3. \A a, b \in Admin : pc'[a] # "idle" /\ pc'[b] # "idle" => a = b
  BY <1>1 DEF PlacesInv, Task
<1>4. \A u, v \in Task : pc'[u] \in Saving /\ pc'[v] \in Saving => u = v
  BY <1>1 DEF PlacesInv
<1>5. QED
  BY <1>2, <1>3, <1>4 DEF PlacesInv

LEMMA StepPlaces ==
  ASSUME NoOverlap, Types, Live, PlacesInv, CalmInv, [Next]_vars, Live'
  PROVE  PlacesInv'
<1>1. /\ Main \in Task /\ Main \notin Admin \union Raw \union Lvar \union Saver
      /\ Raw \union Lvar \union Saver \union Admin \subseteq Task
      /\ Admin \intersect (Raw \union Lvar \union Saver) = {}
      /\ Admin = Deployer \union Creator \union Destroyer \union Enabler
      /\ Enabler \intersect (Deployer \union Creator) = {}
  BY Parameters DEF Task, Admin
<1>2. ASSUME UNCHANGED <<pc, todo, set>> PROVE PlacesInv'
  BY <1>2 DEF PlacesInv
<1>3. ASSUME NEW o \in Oid, NEW t \in Raw \union Lvar, Change(t, o) PROVE PlacesInv'
  BY Zenon, <1>1, <1>3, MoveKeepsPlaces DEF Change, Call, Goto, life, Removing, Saving, PlacesInv
<1>4. ASSUME NEW o \in Oid, NEW t \in Admin, AppendItem(t, o) \/ SetEnabled(t, o) \/ Remove(t, o)
      PROVE  PlacesInv'
  <2>1. /\ pc[t] = "idle" /\ t \in set.tasks /\ \A a \in Admin : pc[a] = "idle"
        /\ UNCHANGED <<set, todo>>
    BY <1>4 DEF AppendItem, SetEnabled, Remove, Call, life, NoOverlap
  <2>2. PICK l \in {"config", "unschedule"} :
          pc' = [pc EXCEPT ![t] = l] /\ (l = "config" => t \in Deployer \union Creator \union Enabler)
    BY <1>4 DEF AppendItem, SetEnabled, Remove, Goto
  <2>3. QED
    BY <1>1, <2>1, <2>2, MoveKeepsPlaces DEF Removing, Saving, PlacesInv
<1>5. ASSUME NEW t \in Saver, SaveCall(t) PROVE PlacesInv'
  <2>1. /\ pc[t] = "idle" /\ t \in set.tasks /\ phase = "up" /\ pc' = [pc EXCEPT ![t] = "save"]
        /\ UNCHANGED <<set, todo>> /\ t \in Task /\ t \notin Admin
    BY <1>1, <1>5 DEF SaveCall, Call, life, Goto
  <2>2. \A u \in Task \ {t} : pc[u] \notin Saving
    BY <1>1, <2>1 DEF PlacesInv, CalmInv, NoOverlap, Saving
  <2>3. QED
    BY <2>1, <2>2, MoveKeepsPlaces DEF Removing, PlacesInv, Saving
<1>6. ASSUME NEW t \in Task, Work(t) PROVE PlacesInv'
  <2>1. ASSUME pc' = [pc EXCEPT ![t] = "idle"], UNCHANGED <<set, todo>>, todo[t] = {}, pc[t] # "idle"
        PROVE  PlacesInv'
    BY Zenon, <2>1, MoveKeepsPlaces DEF Removing, Saving
  <2>2. pc[t] \notin {"items", "write"} => todo[t] = {}
    BY DEF PlacesInv
  <2>3. CASE ProcessNewState(t)
    BY <2>1, <2>2, <2>3 DEF ProcessNewState, Return, Goto, life
  <2>4. CASE SaveEnd(t)
    BY <2>1, <2>2, <2>4 DEF SaveEnd, Return, Goto, life
  <2>5. CASE DestroyKey(t)
    BY <2>1, <2>2, <2>5 DEF DestroyKey, Return, Goto, life
  <2>6. ASSUME NEW l \in Saving, pc[t] \in Saving, pc' = [pc EXCEPT ![t] = l], UNCHANGED set,
               todo'[t] # {} => l \in {"items", "write"}, \A u \in Task \ {t} : todo'[u] = todo[u]
        PROVE  PlacesInv'
    <3>1. t \in Saver \union {Main} /\ t \notin Admin /\ \A u \in Task \ {t} : pc[u] \notin Saving
      BY <1>1, <2>6 DEF PlacesInv
    <3>2. t \in set.tasks \union {Main}
      BY <2>6 DEF PlacesInv, Saving
    <3>3. QED
      BY Zenon, <2>6, <3>1, <3>2, MoveKeepsPlaces DEF Removing, Saving
  <2>7. CASE SaveTake(t)
    BY <2>6, <2>7 DEF SaveTake, Goto, life, Types, Saving
  <2>8. CASE SaveWrite(t)
    BY <2>6, <2>8 DEF SaveWrite, Goto, life, Types, Saving
  <2>9. ASSUME NEW o \in Oid, SaveLookup(t, o) PROVE PlacesInv'
    <3>1. CASE mem[o] = 0
      <4>1. UNCHANGED <<pc, set>> /\ \A u \in Task : todo'[u] \subseteq todo[u]
        BY <2>9, <3>1 DEF SaveLookup, Types, life
      <4>2. QED
        BY <4>1 DEF PlacesInv
    <3>2. CASE mem[o] # 0
      BY <2>6, <2>9, <3>2 DEF SaveLookup, Goto, life, Types, Saving
    <3>3. QED
      BY <3>1, <3>2
  <2>10. ASSUME NEW l \in Removing \union {"state", "new"}, t \in Admin, pc[t] # "idle",
                pc' = [pc EXCEPT ![t] = l], UNCHANGED <<set, todo>>, todo[t] = {},
                l \in {"state", "new"} => t \in Deployer \union Creator
         PROVE  PlacesInv'
    BY <1>1, <2>10, MoveKeepsPlaces DEF Removing, Saving, PlacesInv
  <2>11. CASE SaveConfig(t)
    <3>1. CASE t \in Enabler
      BY ZenonT(30), <2>1, <2>2, <2>11, <3>1 DEF SaveConfig, Return, Goto, life
    <3>2. CASE t \notin Enabler
      <4>1. pc' = [pc EXCEPT ![t] = "state"] /\ UNCHANGED <<set, todo>> /\ pc[t] = "config"
        BY <2>11, <3>2 DEF SaveConfig, Goto, life
      <4>2. t \in Deployer \union Creator
        BY Zenon, <1>1, <3>2, <4>1 DEF PlacesInv
      <4>3. QED
        <5>1. t \in Admin /\ pc[t] # "idle" /\ todo[t] = {}
          BY <1>1, <2>2, <4>1, <4>2
        <5>2. QED
          BY Zenon, <2>10, <4>1, <4>2, <5>1
    <3>3. QED
      BY <3>1, <3>2
  <2>12. CASE NewItemState(t)
    <3>1. t \in Deployer \union Creator /\ pc[t] = "state" /\ UNCHANGED <<set, todo>>
      BY <2>12 DEF NewItemState, PlacesInv, life
    <3>2. pc' = [pc EXCEPT ![t] = "idle"] \/ pc' = [pc EXCEPT ![t] = "new"]
      BY <2>12 DEF NewItemState, Return, Goto
    <3>3. QED
      BY Zenon, <1>1, <2>1, <2>2, <2>10, <3>1, <3>2
  <2>13. CASE Unschedule(t)
    BY <2>2, <2>10, <2>13 DEF Unschedule, Goto, life, Removing, PlacesInv
  <2>14. CASE Destroy(t)
    <3>1. pc' = [pc EXCEPT ![t] = "idle"] \/ pc' = [pc EXCEPT ![t] = "key"]
      BY <2>14 DEF Destroy, Return, Goto
    <3>2. UNCHANGED <<set, todo>> /\ pc[t] = "destroy" /\ t \in Admin
      BY <2>14 DEF Destroy, life, PlacesInv, Removing
    <3>3. QED
      BY <2>1, <2>2, <2>10, <3>1, <3>2 DEF Removing
  <2>15. QED
    BY <1>6, <2>3, <2>4, <2>5, <2>7, <2>8, <2>9, <2>11, <2>12, <2>13, <2>14 DEF Work
<1>7. CASE HandleRecv \/ HandleWrite \/ WorkerTake \/ WorkerWrite
  BY ZenonT(30), <1>2, <1>7 DEF HandleRecv, HandleWrite, WorkerTake, WorkerWrite, local, life
<1>8. CASE Shutdown
  <2>1. pc = [t \in Task |-> "idle"] /\ pc' = [pc EXCEPT ![Main] = "save"] /\ UNCHANGED <<set, todo>>
    BY Zenon, <1>8 DEF Shutdown, Live, Idle, Goto
  <2>2. QED
    BY ZenonT(30), <1>1, <2>1, MoveKeepsPlaces DEF Removing, Saving, PlacesInv
<1>9. CASE Drained \/ Down \/ UNCHANGED vars
  BY Zenon, <1>2, <1>9 DEF Drained, Down, local, vars, life
<1>10. CASE Crash
  BY <1>10 DEF Crash, Live
<1>11. CASE Start
  BY Zenon, <1>1, <1>11 DEF Start, PlacesInv, Removing, Saving
<1>12. QED
  BY <1>3, <1>4, <1>5, <1>6, <1>7, <1>8, <1>9, <1>10, <1>11 DEF Next

\* A step that changes no configuration, and leaves an item that is in memory there.
LEMMA QuietConfig ==
  ASSUME Types, ConfigInv, UNCHANGED cfg, \A o \in Oid : mem'[o] = 0 <=> mem[o] = 0,
         \A t \in Task : pc'[t] \in Removing \union {"config", "state"} \/ pc[t] \in Removing \union {"config"}
                           => pc'[t] = pc[t] /\ item'[t] = item[t]
  PROVE  ConfigInv'
<1>1. \A t \in Task : item[t] \in Oid
  BY DEF Types
<1>2. \A t \in Task : /\ pc'[t] \in {"config", "state"} => mem'[item'[t]] # 0
                      /\ pc'[t] \in Removing => mem'[item'[t]] = 0
  BY <1>1 DEF ConfigInv
<1>3. ASSUME NEW o \in cfg', mem'[o] = 0 PROVE \E t \in Task : pc'[t] \in Removing /\ item'[t] = o
  <2>1. PICK t \in Task : pc[t] \in Removing /\ item[t] = o
    BY <1>3 DEF ConfigInv, Types
  <2>2. QED
    BY <2>1
<1>4. ASSUME NEW o \in Oid \ cfg', mem'[o] # 0
      PROVE  \E t \in Task \ Enabler : pc'[t] = "config" /\ item'[t] = o
  <2>1. PICK t \in Task \ Enabler : pc[t] = "config" /\ item[t] = o
    BY <1>4 DEF ConfigInv
  <2>2. QED
    BY <2>1
<1>5. QED
  BY <1>2, <1>3, <1>4 DEF ConfigInv

LEMMA StepConfig ==
  ASSUME NoOverlap, Types, Live, PlacesInv, ConfigInv, CalmInv, [Next]_vars, Live'
  PROVE  ConfigInv'
<1>1. /\ Main \in Task /\ Main \notin Admin \union Raw \union Lvar \union Saver
      /\ Raw \union Lvar \union Saver \union Admin \subseteq Task
      /\ Admin \intersect (Raw \union Lvar \union Saver) = {}
      /\ Enabler \intersect (Deployer \union Creator) = {}
  BY Parameters DEF Task
<1>2. ASSUME NEW t \in Task, UNCHANGED <<cfg, mem>>,
             pc[t] \in {"idle", "new", "state", "save", "items", "write"},
             pc'[t] \in {"idle", "new", "save", "items", "write"},
             \A u \in Task \ {t} : pc'[u] = pc[u] /\ item'[u] = item[u]
      PROVE  ConfigInv'
  BY <1>2, QuietConfig DEF Removing
<1>3. ASSUME NEW o \in Oid, NEW t \in Raw \union Lvar, Change(t, o) PROVE ConfigInv'
  <2>1. /\ t \in Task /\ UNCHANGED cfg /\ pc[t] = "idle" /\ pc'[t] = "new"
        /\ \A u \in Task \ {t} : pc'[u] = pc[u] /\ item'[u] = item[u]
    BY <1>1, <1>3 DEF Change, Call, Goto, store, Types
  <2>2. \A x \in Oid : mem'[x] = 0 <=> mem[x] = 0
    BY <1>3 DEF Change, NewState, Types
  <2>3. QED
    BY <2>1, <2>2, QuietConfig DEF Removing
<1>4. ASSUME NEW o \in Oid, NEW t \in Admin, AppendItem(t, o) \/ SetEnabled(t, o) \/ Remove(t, o)
      PROVE  ConfigInv'
  <2>1. /\ pc[t] = "idle" /\ t \in Task /\ item'[t] = o /\ UNCHANGED cfg
        /\ \A u \in Task \ {t} : pc'[u] = pc[u] /\ item'[u] = item[u]
        /\ \A a \in Admin : pc[a] = "idle"
    BY <1>1, <1>4 DEF AppendItem, SetEnabled, Remove, Call, Goto, store, NoOverlap, Types
  <2>2. \A u \in Task : pc[u] \notin Removing \union {"config", "state"}
    BY <2>1 DEF PlacesInv, Removing
  <2>3. \A x \in Oid : x \in cfg <=> mem[x] # 0
    BY <2>2 DEF ConfigInv
  <2>4. \A u \in Task \ {t} : pc'[u] \notin Removing \union {"config", "state"}
    BY <2>1, <2>2
  <2>5. CASE AppendItem(t, o)
    <3>1. pc'[t] = "config" /\ t \notin Enabler /\ mem'[o] # 0 /\ \A x \in Oid \ {o} : mem'[x] = mem[x]
      BY <1>1, <2>1, <2>5 DEF AppendItem, Goto, NewState, Types
    <3>2. /\ \A u \in Task : /\ pc'[u] \in {"config", "state"} => mem'[item'[u]] # 0
                             /\ pc'[u] \in Removing => mem'[item'[u]] = 0
      BY <2>1, <2>4, <3>1 DEF Removing
    <3>3. \A x \in cfg' : mem'[x] = 0 => \E u \in Task : pc'[u] \in Removing /\ item'[u] = x
      BY <2>1, <2>3, <3>1 DEF Removing, Types
    <3>4. \A x \in Oid \ cfg' : mem'[x] # 0 =>
            \E u \in Task \ Enabler : pc'[u] = "config" /\ item'[u] = x
      BY <2>1, <2>3, <3>1
    <3>5. QED
      BY <3>2, <3>3, <3>4 DEF ConfigInv
  <2>6. CASE SetEnabled(t, o)
    <3>1. pc'[t] = "config" /\ mem[o] # 0 /\ UNCHANGED mem
      BY <2>1, <2>6 DEF SetEnabled, Goto, memory, Types
    <3>2. QED
      BY <2>1, <2>3, <2>4, <3>1 DEF ConfigInv, Removing
  <2>7. CASE Remove(t, o)
    <3>1. pc'[t] = "unschedule" /\ mem'[o] = 0 /\ \A x \in Oid \ {o} : mem'[x] = mem[x]
      BY <2>1, <2>7 DEF Remove, Goto, Types
    <3>2. /\ \A u \in Task : /\ pc'[u] \in {"config", "state"} => mem'[item'[u]] # 0
                             /\ pc'[u] \in Removing => mem'[item'[u]] = 0
      BY <2>1, <2>4, <3>1 DEF Removing
    <3>3. \A x \in cfg' : mem'[x] = 0 => \E u \in Task : pc'[u] \in Removing /\ item'[u] = x
      BY <2>1, <2>3, <3>1 DEF Removing, Types
    <3>4. \A x \in Oid \ cfg' : mem'[x] # 0 =>
            \E u \in Task \ Enabler : pc'[u] = "config" /\ item'[u] = x
      BY <2>1, <2>3, <3>1
    <3>5. QED
      BY <3>2, <3>3, <3>4 DEF ConfigInv
  <2>8. QED
    BY <1>4, <2>5, <2>6, <2>7
<1>5. ASSUME NEW t \in Saver, SaveCall(t) PROVE ConfigInv'
  BY <1>1, <1>2, <1>5 DEF SaveCall, Call, Goto, store, memory, Types
<1>6. ASSUME NEW t \in Task, Work(t) PROVE ConfigInv'
  <2>1. CASE ProcessNewState(t)
    BY <1>2, <2>1 DEF ProcessNewState, Return, Goto, store, Types
  <2>2. CASE SaveTake(t)
    BY <1>2, <2>2 DEF SaveTake, Goto, store, Types
  <2>3. CASE SaveWrite(t)
    BY <1>2, <2>3 DEF SaveWrite, Goto, Types
  <2>4. CASE SaveEnd(t)
    BY <1>2, <2>4 DEF SaveEnd, Return, Goto, store, memory, Types
  <2>5. ASSUME NEW o \in Oid, SaveLookup(t, o) PROVE ConfigInv'
    BY <1>2, <2>5 DEF SaveLookup, Goto, store, memory, Types
  <2>6. CASE NewItemState(t)
    BY <1>2, <2>6 DEF NewItemState, Return, Goto, store, Types
  <2>7. ASSUME pc[t] \in Removing \union {"config"}
        PROVE  \A u \in Task \ {t} : pc[u] \notin Removing \union {"config", "state"}
    BY <1>1, <2>7 DEF PlacesInv, Removing
  <2>8. CASE SaveConfig(t)
    <3>1. /\ pc[t] = "config" /\ cfg' = cfg \union {item[t]} /\ UNCHANGED mem
          /\ \A u \in Task \ {t} : pc'[u] = pc[u] /\ item'[u] = item[u]
          /\ pc'[t] = "idle" \/ (pc'[t] = "state" /\ item'[t] = item[t])
      BY <2>8 DEF SaveConfig, SaveItems, Return, Goto, memory, Types
    <3>2. /\ \A x \in Oid : x \in cfg' <=> mem[x] # 0
          /\ mem[item[t]] # 0
      BY <2>7, <3>1 DEF ConfigInv, Types, Removing
    <3>3. \A u \in Task : pc'[u] \notin Removing \union {"config"}
      BY <2>7, <3>1 DEF Removing
    <3>4. QED
      BY <2>7, <3>1, <3>2, <3>3 DEF ConfigInv, Types
  <2>9. CASE Unschedule(t)
    <3>1. /\ pc[t] = "unschedule" /\ pc'[t] = "destroy" /\ UNCHANGED <<cfg, mem, item>>
          /\ \A u \in Task \ {t} : pc'[u] = pc[u]
      BY <2>9 DEF Unschedule, Goto, store, Types
    <3>2. \A u \in Task : pc'[u] \in Removing <=> pc[u] \in Removing
      BY <3>1 DEF Removing
    <3>3. QED
      BY <3>1, <3>2 DEF ConfigInv
  <2>10. ASSUME pc[t] \in Removing, pc'[t] = "idle", cfg' = cfg \ {item[t]}, UNCHANGED mem,
                \A u \in Task \ {t} : pc'[u] = pc[u] /\ item'[u] = item[u]
         PROVE  ConfigInv'
    <3>1. \A u \in Task : pc'[u] \notin Removing \union {"config", "state"}
      BY Zenon, <2>7, <2>10 DEF Removing
    <3>2. \A x \in Oid : x \in cfg' <=> mem[x] # 0
      BY <2>7, <2>10 DEF ConfigInv, Types
    <3>3. QED
      BY <2>10, <3>1, <3>2 DEF ConfigInv, Types
  <2>11. CASE Destroy(t)
    <3>1. CASE Db
      BY <2>10, <2>11, <3>1 DEF Destroy, Return, Goto, memory, Types, Removing
    <3>2. CASE ~Db
      <4>1. /\ pc[t] = "destroy" /\ pc'[t] = "key" /\ UNCHANGED <<cfg, mem, item>>
            /\ \A u \in Task \ {t} : pc'[u] = pc[u]
        BY <2>11, <3>2 DEF Destroy, Goto, memory, Types
      <4>2. \A u \in Task : pc'[u] \in Removing <=> pc[u] \in Removing
        BY <4>1 DEF Removing
      <4>3. QED
        BY <4>1, <4>2 DEF ConfigInv
    <3>3. QED
      BY <3>1, <3>2
  <2>12. CASE DestroyKey(t)
    BY <2>10, <2>12 DEF DestroyKey, Return, Goto, memory, Types, Removing
  <2>13. QED
    BY <1>6, <2>1, <2>2, <2>3, <2>4, <2>5, <2>6, <2>8, <2>9, <2>11, <2>12 DEF Work
<1>7. ASSUME UNCHANGED <<cfg, mem, pc, item>> PROVE ConfigInv'
  BY <1>7 DEF ConfigInv
<1>8. CASE HandleRecv \/ HandleWrite \/ WorkerTake \/ WorkerWrite \/ Drained \/ Down \/ UNCHANGED vars
  BY Zenon, <1>7, <1>8 DEF HandleRecv, HandleWrite, WorkerTake, WorkerWrite, Drained, Down, local, store,
     memory, vars
<1>9. CASE Shutdown
  <2>1. pc[Main] = "idle" /\ pc'[Main] = "save"
    BY <1>1, <1>9 DEF Shutdown, Goto, Types, CalmInv
  <2>2. QED
    BY <1>1, <1>2, <1>9, <2>1 DEF Shutdown, Goto, memory, store, Types
<1>10. CASE Crash
  BY <1>10 DEF Crash, Live
<1>11. CASE Start
  <2>1. \A x \in Oid : x \in cfg' <=> mem'[x] # 0
    BY <1>11 DEF Start, store, Fresh
  <2>2. \A u \in Task : pc'[u] = "idle"
    BY <1>11 DEF Start
  <2>3. cfg' \subseteq Oid
    BY <1>11 DEF Start, store, Types
  <2>4. QED
    BY <2>1, <2>2, <2>3 DEF ConfigInv, Removing
<1>12. QED
  BY <1>3, <1>4, <1>5, <1>6, <1>8, <1>9, <1>10, <1>11 DEF Next

\* A step of a handler belongs to a task that is not idle, and moves no other one.
LEMMA WorkFrame ==
  ASSUME Types, NEW t \in Task, Work(t)
  PROVE  /\ pc[t] # "idle" /\ UNCHANGED <<set, phase, calm>>
         /\ \A u \in Task \ {t} : pc'[u] = pc[u]
<1>1. CASE ProcessNewState(t)
  BY Zenon, <1>1 DEF ProcessNewState, Return, Goto, life, Types
<1>2. CASE SaveTake(t) \/ \E o \in Oid : SaveLookup(t, o)
  BY <1>2 DEF SaveTake, SaveLookup, Goto, life, Types
<1>7. CASE SaveWrite(t)
  BY Zenon, <1>7 DEF SaveWrite, Goto, life, Types
<1>3. CASE SaveEnd(t)
  BY Zenon, <1>3 DEF SaveEnd, Return, Goto, life, Types
<1>4. CASE SaveConfig(t) \/ NewItemState(t)
  BY <1>4 DEF SaveConfig, NewItemState, Return, Goto, life, Types
<1>5. CASE Unschedule(t) \/ Destroy(t) \/ DestroyKey(t)
  BY <1>5 DEF Unschedule, Destroy, DestroyKey, Return, Goto, life, Types
<1>6. QED
  BY Zenon, <1>1, <1>2, <1>3, <1>4, <1>5, <1>7 DEF Work

LEMMA StepCalm ==
  ASSUME Types, Live, PlacesInv, CalmInv, [Next]_vars, Live'
  PROVE  CalmInv'
<1>1. /\ Main \in Task /\ Main \notin Admin \union Raw \union Lvar \union Saver
      /\ Raw \union Lvar \union Saver \union Admin \subseteq Task
  BY Parameters DEF Task
<1>2. CASE phase = "up" /\ phase' = "up"
  <2>1. ~calm' /\ (pc[Main] = "idle" => pc'[Main] = "idle")
    <3>1. ~calm /\ pc[Main] = "idle"
      BY <1>2 DEF CalmInv
    <3>2. ASSUME NEW t \in Task \ {Main}, \A u \in Task \ {t} : pc'[u] = pc[u], UNCHANGED calm
          PROVE  ~calm' /\ pc'[Main] = "idle"
      BY <1>1, <3>1, <3>2
    <3>3. ASSUME NEW o \in Oid, NEW t \in Raw \union Lvar \union Admin,
                 Change(t, o) \/ AppendItem(t, o) \/ SetEnabled(t, o) \/ Remove(t, o)
          PROVE  ~calm' /\ pc'[Main] = "idle"
      <4>1. t \in Task \ {Main} /\ UNCHANGED calm /\ \A u \in Task \ {t} : pc'[u] = pc[u]
        BY <1>1, <3>3 DEF Change, AppendItem, SetEnabled, Remove, Goto, life, Types
      <4>2. QED
        BY <3>2, <4>1
    <3>4. ASSUME NEW t \in Saver, SaveCall(t) PROVE ~calm' /\ pc'[Main] = "idle"
      BY <1>1, <3>2, <3>4 DEF SaveCall, Goto, life, Types
    <3>5. ASSUME NEW t \in Task, Work(t) PROVE ~calm' /\ pc'[Main] = "idle"
      <4>1. t # Main /\ UNCHANGED calm /\ \A u \in Task \ {t} : pc'[u] = pc[u]
        BY <3>1, <3>5, WorkFrame
      <4>2. QED
        BY <3>2, <4>1
    <3>6. CASE HandleRecv \/ HandleWrite \/ WorkerTake \/ WorkerWrite \/ UNCHANGED vars
      <4>1. UNCHANGED <<pc, calm>>
        BY Zenon, <3>6 DEF HandleRecv, HandleWrite, WorkerTake, WorkerWrite, local, life, vars
      <4>2. QED
        BY ONLY <3>1, <4>1
    <3>7. ~Shutdown /\ ~Drained /\ ~Down /\ ~Crash /\ ~Start
      BY <1>2 DEF Shutdown, Drained, Down, Crash, Start
    <3>8. QED
      <4>1. Raw \union Lvar \subseteq Raw \union Lvar \union Admin /\ Admin \subseteq Raw \union Lvar \union Admin
        OBVIOUS
      <4>2. QED
        BY ONLY [Next]_vars, <3>3, <3>4, <3>5, <3>6, <3>7, <4>1 DEF Next
  <2>2. QED
    BY <1>2, <2>1 DEF CalmInv
<1>3. CASE phase = "up" /\ phase' # "up"
  <2>1. CASE Shutdown
    <3>1. /\ phase' = "saving" /\ pc = [t \in Task |-> "idle"] /\ pc'[Main] = "save"
          /\ \A u \in Task \ {Main} : pc'[u] = "idle"
      BY Zenon, <1>1, <2>1 DEF Shutdown, Idle, Live, Goto
    <3>2. QED
      BY Zenon, <3>1 DEF CalmInv, Saving
  <2>2. CASE Crash
    BY <2>2 DEF Crash, Live
  <2>3. CASE ~Shutdown /\ ~Crash
    <3>1. ~Drained /\ ~Down /\ ~Start
      BY Zenon, <1>3 DEF Drained, Down, Start
    <3>2. UNCHANGED phase
      BY Zenon, <2>3, <3>1 DEF Next, Change, AppendItem, SetEnabled, Remove, SaveCall, Work, ProcessNewState,
         SaveTake, SaveWrite, SaveEnd, SaveLookup, SaveConfig, NewItemState, Unschedule, Destroy,
         DestroyKey, HandleRecv, HandleWrite, WorkerTake, WorkerWrite, life, vars
    <3>3. QED
      BY <1>3, <3>2
  <2>4. QED
    BY <2>1, <2>2, <2>3
<1>4. CASE phase # "up"
  <2>1. /\ calm /\ (\A t \in Task \ {Main} : pc[t] = "idle") /\ pc[Main] \in Saving
        /\ pc[Main] # "save" => sched = {}
        /\ phase \in {"saving", "drained", "down"}
        /\ phase # "saving" => pc[Main] = "items" /\ todo[Main] = {} /\ chan = <<>> /\ hand = <<>>
        /\ phase = "down" => flush = <<>> /\ buf = None
    BY Zenon, <1>4 DEF CalmInv, Live
  <2>2. ASSUME NEW t \in Task, Work(t), phase # "down"
        PROVE  /\ t = Main /\ phase = "saving"
               /\ SaveTake(t) \/ SaveWrite(t) \/ \E o \in Oid : SaveLookup(t, o)
    <3>1. t = Main
      BY ZenonT(30), <2>1, <2>2, WorkFrame
    <3>2. SaveTake(t) \/ SaveWrite(t) \/ (\E o \in Oid : SaveLookup(t, o))
      BY <2>1, <2>2, <3>1 DEF Work, ProcessNewState, SaveEnd, SaveConfig, NewItemState, Unschedule,
         Destroy, DestroyKey, Saving
    <3>3. QED
      BY <2>1, <3>1, <3>2 DEF SaveTake, SaveWrite, SaveLookup
  <2>3. ASSUME NEW t \in Task, Work(t), phase # "down" PROVE CalmInv'
    <3>1. phase = "saving" /\ UNCHANGED <<phase, calm>> /\ t = Main
      BY <2>2, <2>3 DEF SaveTake, SaveWrite, SaveLookup, life
    <3>2. /\ \A u \in Task \ {Main} : pc'[u] = pc[u]
          /\ pc'[Main] \in {"items", "write"}
      BY <1>1, <2>1, <2>2, <2>3, <3>1 DEF SaveTake, SaveWrite, SaveLookup, Goto, Types
    <3>3. sched' = {}
      BY <2>1, <2>2, <2>3, <3>1 DEF SaveTake, SaveWrite, SaveLookup, memory
    <3>4. QED
      BY Zenon, <2>1, <3>1, <3>2, <3>3 DEF CalmInv, Saving
  <2>4. CASE phase # "down" /\ (HandleRecv \/ HandleWrite \/ WorkerTake \/ WorkerWrite)
    <3>1. /\ UNCHANGED <<pc, todo, sched, phase, calm>>
          /\ chan = <<>> /\ hand = <<>> => chan' = <<>> /\ hand' = <<>>
      BY Zenon, <2>4 DEF HandleRecv, HandleWrite, WorkerTake, WorkerWrite, local, life
    <3>2. QED
      BY Zenon, <2>1, <2>4, <3>1 DEF CalmInv
  <2>5. CASE Drained
    BY Zenon, <2>1, <2>5 DEF Drained, memory, local, CalmInv
  <2>6. CASE Down
    BY Zenon, <2>1, <2>6 DEF Down, memory, local, CalmInv
  <2>7. CASE Crash
    BY <2>7 DEF Crash, Live
  <2>8. CASE Start
    BY <1>1, <2>8 DEF Start, CalmInv
  <2>9. CASE UNCHANGED vars
    BY <2>1, <2>9 DEF vars, memory, local, life, CalmInv
  <2>10. ~Shutdown /\ \A t \in Task, o \in Oid : /\ ~Change(t, o) /\ ~AppendItem(t, o)
                                                 /\ ~SetEnabled(t, o) /\ ~Remove(t, o) /\ ~SaveCall(t)
    BY ZenonT(30), <1>4 DEF Shutdown, Change, AppendItem, SetEnabled, Remove, SaveCall, Call
  <2>11. Oid # {}
    BY Parameters
  <2>12. QED
    BY <1>1, <2>3, <2>4, <2>5, <2>6, <2>7, <2>8, <2>9, <2>10, <2>11 DEF Next
<1>5. QED
  BY <1>2, <1>3, <1>4

\* What is due stays due, what is stored stays stored, until the state is another one.
LEMMA KeepsSchedule ==
  ASSUME ScheduleInv, chan' = <<>>, hand' = <<>>, ~Db' => flush' = <<>>,
         \A o \in Oid : Due(o) => Due(o)' \/ mem'[o] = 0,
         \A o \in Oid : mem'[o] = mem[o] \/ mem'[o] = 0 \/ Due(o)',
         \A o \in Oid : Stored(o, mem[o]) /\ mem'[o] = mem[o] /\ mem[o] # 0 =>
                          Stored(o, mem[o])' \/ Due(o)',
         \A t \in Task : pc'[t] = "write" =>
           /\ item'[t] \in Oid
           /\ \/ pc[t] = "write" /\ item'[t] = item[t] /\ val'[t] = val[t]
              \/ val'[t] = mem'[item'[t]],
         \A t \in Task, o \in Oid : o \in todo[t] \/ (pc[t] = "write" /\ item[t] = o) =>
           \/ o \in todo'[t] \/ (pc'[t] = "write" /\ item'[t] = o)
           \/ mem'[o] = 0 \/ Due(o)' \/ Stored(o, mem[o])'
  PROVE  ScheduleInv'
<1>1. ASSUME NEW t \in Task, pc'[t] = "write" PROVE Due(item[t])' \/ mem'[item'[t]] \in {0, val'[t]}
  <2>1. CASE val'[t] = mem'[item'[t]]
    BY ZenonT(30), <2>1
  <2>2. CASE pc[t] = "write" /\ item'[t] = item[t] /\ val'[t] = val[t] /\ item[t] \in Oid
    <3>1. Due(item[t]) \/ mem[item[t]] \in {0, val[t]}
      BY ZenonT(30), <2>2 DEF ScheduleInv
    <3>2. Due(item[t])' <=> \E o \in Oid : o = item[t] /\ Due(o)'
      BY ZenonT(30), <2>2 DEF Due, Deploying
    <3>3. QED
      BY Zenon, <2>2, <3>1, <3>2
  <2>3. QED
    BY ZenonT(30), <1>1, <2>1, <2>2
<1>2. ASSUME NEW o \in Oid
      PROVE  \/ mem'[o] \in {0, Fresh} \/ Due(o)' \/ Stored(o, mem[o])'
             \/ \E t \in Task : o \in todo'[t] \/ (pc'[t] = "write" /\ item'[t] = o)
  <2>1. SUFFICES ASSUME mem'[o] # 0, mem'[o] # Fresh, ~Due(o)'
                 PROVE  \/ Stored(o, mem[o])'
                        \/ \E t \in Task : o \in todo'[t] \/ (pc'[t] = "write" /\ item'[t] = o)
    BY ZenonT(30)
  <2>2. mem'[o] = mem[o] /\ ~Due(o)
    BY Zenon, <2>1
  <2>3. \/ Stored(o, mem[o])
        \/ \E t \in Task : o \in todo[t] \/ (pc[t] = "write" /\ item[t] = o)
    BY ZenonT(30), <2>1, <2>2 DEF ScheduleInv
  <2>4. QED
    BY ZenonT(30), <2>1, <2>2, <2>3
<1>3. QED
  BY ZenonT(30), <1>1, <1>2 DEF ScheduleInv

\* A step that leaves the store, the states and the tasks that save alone.
LEMMA QuietSchedule ==
  ASSUME Types, ScheduleInv, UNCHANGED <<set, chan, hand, buf, flush, todo>>,
         \A o \in Oid : Due(o) => Due(o)' \/ mem'[o] = 0,
         \A o \in Oid : mem'[o] = mem[o] \/ mem'[o] = 0 \/ Due(o)',
         \A o \in Oid : st'[o] = st[o] \/ mem'[o] = 0,
         \A t \in Task : pc[t] = "write" \/ pc'[t] = "write" =>
                           pc'[t] = pc[t] /\ item'[t] = item[t] /\ val'[t] = val[t]
  PROVE  ScheduleInv'
<1>1. chan' = <<>> /\ hand' = <<>> /\ (~Db' => flush' = <<>>)
  BY Zenon DEF ScheduleInv, Db
<1>2. \A o \in Oid : Stored(o, mem[o]) /\ mem'[o] = mem[o] /\ mem[o] # 0 => Stored(o, mem[o])'
  BY Zenon DEF Stored, Db
<1>3. \A t \in Task : item[t] \in Oid
  BY Zenon DEF Types
<1>4. QED
  BY ZenonT(30), <1>1, <1>2, <1>3, KeepsSchedule

LEMMA StepSchedule ==
  ASSUME \A s \in Setting : s.storage # "sqlite", ~set.instant, Types, QueueTypes, Live, Live',
         PlacesInv, ConfigInv, CalmInv, ScheduleInv, [Next]_vars
  PROVE  ScheduleInv'
<1>1. /\ Main \in Task /\ Main \notin Admin \union Raw \union Lvar \union Saver
      /\ Raw \union Lvar \union Saver \union Admin \subseteq Task
      /\ Enabler \intersect (Deployer \union Creator) = {}
      /\ \A t \in Task : item[t] \in Oid
  BY Parameters DEF Task, Types
<1>2. ASSUME NEW t \in Task, UNCHANGED sched, pc[t] \notin {"config", "state", "new"},
             \A u \in Task \ {t} : pc'[u] = pc[u] /\ item'[u] = item[u]
      PROVE  \A o : Due(o) => Due(o)'
  BY <1>2 DEF Due, Deploying
<1>3. ASSUME NEW o \in Oid, NEW t \in Raw \union Lvar, Change(t, o) PROVE ScheduleInv'
  <2>1. /\ t \in Task /\ pc[t] = "idle" /\ pc'[t] = "new" /\ item'[t] = o
        /\ \A u \in Task \ {t} : pc'[u] = pc[u] /\ item'[u] = item[u] /\ val'[u] = val[u]
        /\ UNCHANGED <<set, sched, chan, hand, buf, flush, todo, st>>
        /\ \A x \in Oid \ {o} : mem'[x] = mem[x]
    BY Zenon, <1>1, <1>3 DEF Change, Call, NewState, Goto, life, store, Types
  <2>2. Due(o)'
    BY Zenon, <2>1 DEF Due
  <2>3. \A x : Due(x) => Due(x)'
    BY Zenon, <1>2, <2>1
  <2>4. QED
    BY ZenonT(30), <2>1, <2>2, <2>3, QuietSchedule
<1>4. ASSUME NEW o \in Oid, NEW t \in Admin, AppendItem(t, o) PROVE ScheduleInv'
  <2>1. /\ t \in Task \ Enabler /\ pc[t] = "idle" /\ pc'[t] = "config" /\ item'[t] = o
        /\ \A u \in Task \ {t} : pc'[u] = pc[u] /\ item'[u] = item[u] /\ val'[u] = val[u]
        /\ UNCHANGED <<set, sched, chan, hand, buf, flush, todo, st>>
        /\ \A x \in Oid \ {o} : mem'[x] = mem[x]
    BY <1>1, <1>4 DEF AppendItem, Call, NewState, Goto, life, store, Types
  <2>2. Due(o)'
    BY <2>1 DEF Due, Deploying
  <2>3. \A x : Due(x) => Due(x)'
    BY <1>2, <2>1
  <2>4. QED
    BY Zenon, <2>1, <2>2, <2>3, QuietSchedule
<1>5. ASSUME NEW o \in Oid, NEW t \in Admin, SetEnabled(t, o) \/ Remove(t, o) PROVE ScheduleInv'
  <2>1. /\ t \in Task /\ pc[t] = "idle" /\ pc'[t] \in {"config", "unschedule"}
        /\ \A u \in Task \ {t} : pc'[u] = pc[u] /\ item'[u] = item[u] /\ val'[u] = val[u]
        /\ UNCHANGED <<set, sched, chan, hand, buf, flush, todo, st>>
        /\ \A x \in Oid : mem'[x] = mem[x] \/ mem'[x] = 0
    BY ZenonT(30), <1>1, <1>5 DEF SetEnabled, Remove, Call, Goto, life, store, memory, Types
  <2>2. \A x : Due(x) => Due(x)'
    BY Zenon, <1>2, <2>1
  <2>3. QED
    BY ZenonT(30), <2>1, <2>2, QuietSchedule
<1>6. ASSUME NEW t \in Saver, SaveCall(t) PROVE ScheduleInv'
  <2>1. /\ t \in Task /\ pc[t] = "idle" /\ pc'[t] = "save"
        /\ \A u \in Task \ {t} : pc'[u] = pc[u] /\ item'[u] = item[u] /\ val'[u] = val[u]
        /\ UNCHANGED <<set, sched, chan, hand, buf, flush, todo, st, mem>>
    BY Zenon, <1>1, <1>6 DEF SaveCall, Call, Goto, life, store, memory, Types
  <2>2. \A x : Due(x) => Due(x)'
    BY Zenon, <1>2, <2>1
  <2>3. QED
    BY Zenon, <2>1, <2>2, QuietSchedule
<1>7. ASSUME NEW t \in Task, Work(t) PROVE ScheduleInv'
  <2>1. CASE ProcessNewState(t)
    <3>1. /\ pc[t] = "new" /\ pc'[t] = "idle" /\ sched' = sched \union {item[t]}
          /\ \A u \in Task \ {t} : pc'[u] = pc[u] /\ item'[u] = item[u] /\ val'[u] = val[u]
          /\ UNCHANGED <<set, chan, hand, buf, flush, todo, st, mem>>
      BY <2>1 DEF ProcessNewState, Return, Goto, life, store, Types
    <3>2. \A x : Due(x) => Due(x)'
      BY ZenonT(30), <3>1 DEF Due, Deploying
    <3>3. QED
      BY Zenon, <3>1, <3>2, QuietSchedule
  <2>2. CASE SaveTake(t)
    <3>1. /\ pc[t] = "save" /\ pc'[t] = "items" /\ sched' = {} /\ todo'[t] = sched
          /\ \A u \in Task \ {t} : pc'[u] = pc[u] /\ todo'[u] = todo[u]
          /\ UNCHANGED <<set, chan, hand, buf, flush, st, mem, item, val>>
      BY <2>2 DEF SaveTake, Goto, life, store, Types
    <3>2. /\ \A u \in Task : pc[u] # "write" /\ pc'[u] # "write"
          /\ \A u \in Task : todo[u] = {}
      BY <3>1 DEF PlacesInv, Saving
    <3>3. \A o : Due(o) => Due(o)' \/ o \in todo'[t]
      BY <3>1 DEF Due, Deploying
    <3>4. \A o \in Oid : Stored(o, mem[o]) => Stored(o, mem[o])'
      BY <3>1 DEF Stored, Db
    <3>5. \A o \in Oid : mem'[o] \in {0, Fresh} \/ Due(o)' \/ Stored(o, mem[o])' \/ o \in todo'[t]
      BY ZenonT(30), <3>1, <3>2, <3>3, <3>4 DEF ScheduleInv
    <3>6. chan' = <<>> /\ hand' = <<>> /\ (~Db' => flush' = <<>>)
      BY ZenonT(30), <3>1 DEF ScheduleInv, Db
    <3>7. QED
      BY Zenon, <3>2, <3>5, <3>6 DEF ScheduleInv
  <2>3. ASSUME NEW o \in Oid, SaveLookup(t, o) PROVE ScheduleInv'
    <3>1. /\ pc[t] = "items" /\ todo'[t] = todo[t] \ {o}
          /\ \A u \in Task \ {t} : /\ pc'[u] = pc[u] /\ item'[u] = item[u] /\ val'[u] = val[u]
                                   /\ todo'[u] = todo[u]
          /\ UNCHANGED <<set, sched, chan, hand, buf, flush, st, mem>>
      BY <2>3 DEF SaveLookup, Goto, life, store, memory, Types
    <3>2. \/ mem[o] = 0 /\ pc'[t] = "items"
          \/ pc'[t] = "write" /\ item'[t] = o /\ val'[t] = mem'[o]
      BY <2>3, <3>1 DEF SaveLookup, Goto, Types
    <3>3. \A x : Due(x) => Due(x)'
      BY Zenon, <1>2, <3>1
    <3>4. \A x \in Oid : Stored(x, mem[x]) => Stored(x, mem[x])'
      BY <3>1 DEF Stored, Db
    <3>5. chan' = <<>> /\ hand' = <<>> /\ (~Db' => flush' = <<>>)
      BY <3>1 DEF ScheduleInv, Db
    <3>6. \A u \in Task : pc'[u] = "write" =>
            /\ item'[u] \in Oid
            /\ (pc[u] = "write" /\ item'[u] = item[u] /\ val'[u] = val[u]) \/ val'[u] = mem'[item'[u]]
      BY Zenon, <1>1, <3>1, <3>2
    <3>7. \A u \in Task, x \in Oid : x \in todo[u] \/ (pc[u] = "write" /\ item[u] = x) =>
            x \in todo'[u] \/ (pc'[u] = "write" /\ item'[u] = x) \/ mem'[x] = 0
      BY ZenonT(30), <3>1, <3>2
    <3>8. QED
      BY Zenon, <3>1, <3>3, <3>4, <3>5, <3>6, <3>7, KeepsSchedule
  <2>4. CASE SaveWrite(t)
    <3>1. /\ pc[t] = "write" /\ pc'[t] = "items" /\ SaveItemState(item[t], val[t])
          /\ \A u \in Task \ {t} : pc'[u] = pc[u] /\ item'[u] = item[u] /\ val'[u] = val[u]
          /\ UNCHANGED <<set, sched, chan, hand, flush, mem, todo>>
      BY <2>4 DEF SaveWrite, Goto, life, Types
    <3>2. \A x : Due(x) => Due(x)'
      BY Zenon, <1>2, <3>1
    <3>3. \A x \in Oid \ {item[t]} : Stored(x, mem[x]) => Stored(x, mem[x])'
      BY Zenon, <1>1, <3>1 DEF SaveItemState, Stored, Db, Types
    <3>4. ASSUME NEW x \in Oid, x = item[t], mem[x] = val[t], mem[x] # 0
          PROVE  Stored(x, mem[x])'
      BY <3>1, <3>4 DEF SaveItemState, Stored, Db, Types
    <3>5. ASSUME NEW x \in Oid, x = item[t] PROVE Due(x)' \/ mem'[x] = 0 \/ Stored(x, mem[x])'
      <4>1. Due(x) \/ mem[x] \in {0, val[t]}
        BY Zenon, <3>1, <3>5 DEF ScheduleInv
      <4>2. QED
        BY ZenonT(30), <3>1, <3>2, <3>4, <3>5, <4>1
    <3>6. chan' = <<>> /\ hand' = <<>> /\ (~Db' => flush' = <<>>)
      BY Zenon, <3>1 DEF ScheduleInv, Db
    <3>7. \A x \in Oid : Stored(x, mem[x]) /\ mem'[x] = mem[x] /\ mem[x] # 0 =>
            Stored(x, mem[x])' \/ Due(x)'
      BY ZenonT(30), <1>1, <3>1, <3>3, <3>5
    <3>8. \A u \in Task, x \in Oid : x \in todo[u] \/ (pc[u] = "write" /\ item[u] = x) =>
            \/ x \in todo'[u] \/ (pc'[u] = "write" /\ item'[u] = x)
            \/ mem'[x] = 0 \/ Due(x)' \/ Stored(x, mem[x])'
      BY ZenonT(30), <3>1, <3>5
    <3>9. \A u \in Task : pc'[u] = "write" =>
            item'[u] \in Oid /\ pc[u] = "write" /\ item'[u] = item[u] /\ val'[u] = val[u]
      BY ZenonT(30), <1>1, <3>1
    <3>10. QED
      BY Zenon, <3>1, <3>2, <3>6, <3>7, <3>8, <3>9, KeepsSchedule
  <2>5. CASE SaveEnd(t)
    <3>1. /\ pc[t] = "items" /\ pc'[t] = "idle"
          /\ \A u \in Task \ {t} : pc'[u] = pc[u] /\ item'[u] = item[u] /\ val'[u] = val[u]
          /\ UNCHANGED <<set, sched, chan, hand, buf, flush, st, mem, todo>>
      BY <2>5 DEF SaveEnd, Return, Goto, life, store, memory, Types
    <3>2. \A x : Due(x) => Due(x)'
      BY <1>2, <3>1
    <3>3. QED
      BY Zenon, <3>1, <3>2, QuietSchedule
  <2>6. CASE SaveConfig(t)
    <3>1. /\ pc[t] = "config" /\ pc'[t] = (IF t \in Enabler THEN "idle" ELSE "state")
          /\ t \notin Enabler => item'[t] = item[t]
          /\ \A u \in Task \ {t} : pc'[u] = pc[u] /\ item'[u] = item[u] /\ val'[u] = val[u]
          /\ UNCHANGED <<set, sched, chan, hand, buf, flush, st, mem, todo>>
      BY <2>6 DEF SaveConfig, SaveItems, Return, Goto, life, memory, Types
    <3>2. \A x : Due(x) => Due(x)'
      BY Zenon, <3>1 DEF Due, Deploying
    <3>3. QED
      BY <3>1, <3>2, QuietSchedule
  <2>7. CASE NewItemState(t)
    <3>1. pc[t] = "state" /\ mem[item[t]] # 0
      BY <2>7 DEF NewItemState, ConfigInv
    <3>2. /\ pc'[t] = "new" /\ UNCHANGED item
          /\ \A u \in Task \ {t} : pc'[u] = pc[u] /\ val'[u] = val[u]
          /\ UNCHANGED <<set, sched, chan, hand, buf, flush, st, mem, todo>>
      BY <2>7, <3>1 DEF NewItemState, Goto, life, store, Types
    <3>3. \A x : Due(x) => Due(x)'
      BY Zenon, <3>1, <3>2 DEF Due, Deploying
    <3>4. QED
      BY <3>1, <3>2, <3>3, QuietSchedule
  <2>8. CASE Unschedule(t)
    <3>1. /\ pc[t] = "unschedule" /\ pc'[t] = "destroy" /\ sched' = sched \ {item[t]}
          /\ \A u \in Task \ {t} : pc'[u] = pc[u]
          /\ UNCHANGED <<set, chan, hand, buf, flush, st, mem, todo, item, val>>
      BY <2>8 DEF Unschedule, Goto, life, store, Types
    <3>2. mem'[item[t]] = 0
      BY Zenon, <3>1 DEF ConfigInv, Removing
    <3>3. \A x \in Oid : Due(x) => Due(x)' \/ mem'[x] = 0
      BY <3>1, <3>2 DEF Due, Deploying
    <3>4. QED
      BY Zenon, <3>1, <3>3, QuietSchedule
  <2>9. CASE Destroy(t) \/ DestroyKey(t)
    <3>1. /\ pc[t] \in Removing /\ pc'[t] \in {"idle", "key"}
          /\ \A u \in Task \ {t} : pc'[u] = pc[u] /\ item'[u] = item[u] /\ val'[u] = val[u]
          /\ UNCHANGED <<set, sched, chan, hand, buf, flush, mem, todo>>
          /\ \A x \in Oid \ {item[t]} : st'[x] = st[x]
      BY <2>9 DEF Destroy, DestroyKey, Return, Goto, life, memory, Types, Removing
    <3>2. mem'[item[t]] = 0
      BY ZenonT(30), <3>1 DEF ConfigInv
    <3>3. \A x : Due(x) => Due(x)'
      BY Zenon, <1>2, <3>1 DEF Removing
    <3>4. QED
      BY <3>1, <3>2, <3>3, QuietSchedule DEF Removing
  <2>10. QED
    BY <1>7, <2>1, <2>2, <2>3, <2>4, <2>5, <2>6, <2>7, <2>8, <2>9 DEF Work
<1>8. ~HandleRecv /\ ~HandleWrite
  BY Zenon DEF ScheduleInv, HandleRecv, HandleWrite
<1>9. CASE WorkerTake
  <2>1. /\ Db /\ flush = <<>> /\ flush' = <<buf>> /\ buf' = None
        /\ UNCHANGED <<set, mem, sched, chan, hand, st, pc, item, val, todo>>
    BY <1>9 DEF WorkerTake, store, local, life
  <2>2. \A x : Due(x) => Due(x)'
    BY <2>1 DEF Due, Deploying
  <2>3. \A x \in Oid : Stored(x, mem[x]) => Stored(x, mem[x])'
    BY <2>1 DEF Stored, Db, None, Types
  <2>4. chan' = <<>> /\ hand' = <<>> /\ Db'
    BY <2>1 DEF ScheduleInv, Db
  <2>5. QED
    BY Zenon, <1>1, <2>1, <2>2, <2>3, <2>4, KeepsSchedule
<1>10. CASE WorkerWrite
  <2>1. /\ flush # <<>> /\ flush' = <<>> /\ UNCHANGED <<set, mem, sched, chan, hand, buf, pc, item, val, todo>>
        /\ \A x \in Oid : st'[x] = IF x \in cfg /\ flush[1][x] # 0 THEN flush[1][x] ELSE st[x]
    BY <1>10 DEF WorkerWrite, local, life
  <2>2. \A x : Due(x) => Due(x)'
    BY <2>1 DEF Due, Deploying
  <2>3. Db /\ Db' /\ chan' = <<>> /\ hand' = <<>>
    BY <2>1 DEF ScheduleInv, Db
  <2>4. \A x \in Oid : mem[x] # 0 => x \in cfg \/ Due(x)
    BY DEF ConfigInv, Due, Deploying
  <2>5. \A x \in Oid : Stored(x, mem[x]) /\ mem[x] # 0 => Stored(x, mem[x])' \/ Due(x)'
    BY ZenonT(30), <2>1, <2>2, <2>3, <2>4 DEF Stored
  <2>6. QED
    BY ZenonT(30), <1>1, <2>1, <2>2, <2>3, <2>5, KeepsSchedule
<1>11. CASE Shutdown
  <2>1. /\ pc[Main] = "idle" /\ pc'[Main] = "save" /\ \A u \in Task \ {Main} : pc'[u] = pc[u]
        /\ UNCHANGED <<set, sched, chan, hand, buf, flush, st, mem, todo, item, val>>
    BY <1>1, <1>11 DEF Shutdown, Goto, memory, store, Types, CalmInv
  <2>2. \A x : Due(x) => Due(x)'
    BY <1>1, <1>2, <2>1
  <2>3. QED
    BY Zenon, <1>1, <2>1, <2>2, QuietSchedule
<1>12. CASE Drained \/ Down \/ UNCHANGED vars
  <2>1. UNCHANGED <<set, sched, chan, hand, buf, flush, st, mem, todo, item, val, pc>>
    BY Zenon, <1>12 DEF Drained, Down, vars, memory, store, local, life
  <2>2. \A x : Due(x) => Due(x)'
    BY <2>1 DEF Due, Deploying
  <2>3. QED
    BY ZenonT(30), <1>1, <2>1, <2>2, QuietSchedule
<1>13. CASE Crash
  BY <1>13 DEF Crash, Live
<1>14. CASE Start
  <2>1. /\ chan' = <<>> /\ hand' = <<>> /\ flush' = <<>> /\ buf' = None
        /\ \A u \in Task : pc'[u] = "idle"
        /\ \A x \in Oid : mem'[x] \in {0, Fresh, st[x]}
        /\ UNCHANGED st
    BY <1>14 DEF Start, store
  <2>2. \A x \in Oid : mem'[x] \in {0, Fresh} \/ Stored(x, mem[x])'
    BY Zenon, <2>1 DEF Stored, None
  <2>3. QED
    BY Zenon, <2>1, <2>2 DEF ScheduleInv
<1>15. QED
  BY <1>3, <1>4, <1>5, <1>6, <1>7, <1>8, <1>9, <1>10, <1>11, <1>12, <1>13, <1>14 DEF Next

\* What a message adds to the channel is what will be stored last.
LEMMA SentAppend ==
  ASSUME QueueTypes, NEW m \in Msg, chan' = Append(chan, m), UNCHANGED <<hand, st>>
  PROVE  /\ Sent(m.oid, m.s)'
         /\ \A o \in Oid, v \in Nat : o # m.oid /\ Sent(o, v) => Sent(o, v)'
<1>1. chan \in Seq(Msg) /\ m = [oid |-> m.oid, s |-> m.s]
  BY DEF QueueTypes, Msg
<1>2. /\ Len(chan') = Len(chan) + 1 /\ chan'[Len(chan) + 1] = m /\ Len(chan) \in Nat
      /\ \A i \in 1..Len(chan) : chan'[i] = chan[i]
  BY ONLY <1>1, chan' = Append(chan, m), m \in Msg
<1>3. Sent(m.oid, m.s)'
  <2>1. Len(chan) + 1 \in 1..Len(chan') /\ \A j \in 1..Len(chan') : ~(j > Len(chan) + 1)
    BY <1>2
  <2>2. QED
    BY <1>1, <1>2, <2>1 DEF Sent
<1>4. ASSUME NEW o \in Oid, NEW v \in Nat, o # m.oid, Sent(o, v) PROVE Sent(o, v)'
  <2>1. \A j \in 1..Len(chan') : chan'[j].oid # o \/ (j \in 1..Len(chan) /\ chan'[j] = chan[j])
    BY <1>2, <1>4
  <2>2. CASE \E i \in 1..Len(chan) : /\ chan[i] = [oid |-> o, s |-> v]
                                     /\ \A j \in 1..Len(chan) : j > i => chan[j].oid # o
    <3>1. PICK i \in 1..Len(chan) : /\ chan[i] = [oid |-> o, s |-> v]
                                    /\ \A j \in 1..Len(chan) : j > i => chan[j].oid # o
      BY <2>2
    <3>2. i \in 1..Len(chan') /\ chan'[i] = [oid |-> o, s |-> v]
      BY <1>2, <3>1
    <3>3. \A j \in 1..Len(chan') : j > i => chan'[j].oid # o
      BY <2>1, <3>1
    <3>4. QED
      BY <3>2, <3>3 DEF Sent
  <2>3. CASE /\ \A i \in 1..Len(chan) : chan[i].oid # o
             /\ IF hand # <<>> /\ hand[1].oid = o THEN hand[1].s = v ELSE st[o] = v
    <3>1. \A i \in 1..Len(chan') : chan'[i].oid # o
      BY <2>1, <2>3
    <3>2. QED
      BY <2>3, <3>1 DEF Sent
  <2>4. QED
    BY Zenon, <1>4, <2>2, <2>3 DEF Sent
<1>5. QED
  BY <1>3, <1>4

LEMMA SentRecv ==
  ASSUME QueueTypes, hand = <<>>, chan # <<>>, hand' = <<Head(chan)>>, chan' = Tail(chan), UNCHANGED st
  PROVE  \A o \in Oid, v \in Nat : Sent(o, v) => Sent(o, v)'
<1>1. chan \in Seq(Msg)
  BY DEF QueueTypes
<1>2. /\ Len(chan) \in Nat /\ Len(chan) > 0 /\ Len(chan') = Len(chan) - 1
      /\ \A i \in 1..Len(chan') : chan'[i] = chan[i + 1]
      /\ hand'[1] = chan[1] /\ hand' # <<>>
  BY ONLY <1>1, chan # <<>>, hand' = <<Head(chan)>>, chan' = Tail(chan)
<1>3. SUFFICES ASSUME NEW o \in Oid, NEW v \in Nat, Sent(o, v) PROVE Sent(o, v)'
  OBVIOUS
<1>4. CASE \E i \in 1..Len(chan) : /\ chan[i] = [oid |-> o, s |-> v]
                                   /\ \A j \in 1..Len(chan) : j > i => chan[j].oid # o
  <2>1. PICK i \in 1..Len(chan) : /\ chan[i] = [oid |-> o, s |-> v]
                                  /\ \A j \in 1..Len(chan) : j > i => chan[j].oid # o
    BY <1>4
  <2>2. \A j \in 1..Len(chan') : j + 1 > i => chan'[j].oid # o
    BY <1>2, <2>1
  <2>3. CASE i = 1
    <3>1. \A j \in 1..Len(chan') : chan'[j].oid # o
      BY <1>2, <2>2, <2>3
    <3>2. hand'[1].oid = o /\ hand'[1].s = v
      BY <1>2, <2>1, <2>3
    <3>3. QED
      BY <1>2, <3>1, <3>2 DEF Sent
  <2>4. CASE i # 1
    <3>1. i - 1 \in 1..Len(chan') /\ chan'[i - 1] = [oid |-> o, s |-> v]
      BY <1>2, <2>1, <2>4
    <3>2. \A j \in 1..Len(chan') : j > i - 1 => chan'[j].oid # o
      BY <1>2, <2>2
    <3>3. QED
      BY ZenonT(30), <3>1, <3>2 DEF Sent
  <2>5. QED
    BY <2>3, <2>4
<1>5. CASE (\A i \in 1..Len(chan) : chan[i].oid # o) /\ st[o] = v
  <2>1. \A i \in 1..Len(chan') : chan'[i].oid # o
    BY <1>2, <1>5
  <2>2. hand'[1].oid # o
    BY <1>2, <1>5
  <2>3. QED
    BY <1>5, <2>1, <2>2 DEF Sent
<1>6. QED
  BY Zenon, <1>3, <1>4, <1>5 DEF Sent

\* What is sent stays sent, until the state is another one; a task about to send a state
\* has the last one, or another task will send it.
LEMMA KeepsChannel ==
  ASSUME Types, ChannelInv, sched' = {}, flush' = <<>>,
         \A t \in Task : todo'[t] = {} /\ pc'[t] # "write" /\ (pc'[t] = "new" => stp' = {t}),
         \A o \in Oid : Deploying(o) => Deploying(o)' \/ mem'[o] = 0,
         \A o \in Oid : \/ mem'[o] = mem[o] \/ mem'[o] = 0 \/ Deploying(o)'
                        \/ \E t \in Task : pc'[t] = "new" /\ item'[t] = o /\ pc[t] # "new",
         \A o \in Oid : Sent(o, mem[o]) /\ mem'[o] = mem[o] /\ mem[o] # 0 =>
                          \/ Sent(o, mem[o])' \/ Deploying(o)'
                          \/ \E t \in Task : pc'[t] = "new" /\ item'[t] = o,
         \A t \in Task : pc'[t] = "new" =>
           \/ pc[t] = "new" /\ item'[t] = item[t] /\ val'[t] = val[t]
           \/ val'[t] = mem'[item'[t]],
         \A t \in Task : pc[t] = "new" =>
           \/ pc'[t] = "new" /\ item'[t] = item[t]
           \/ \A o \in Oid : o = item[t] => mem'[o] = 0 \/ Deploying(o)' \/ Sent(o, mem[o])'
  PROVE  ChannelInv'
<1>1. ASSUME NEW t \in Task, pc'[t] = "new"
      PROVE  mem'[item'[t]] \in {0, val'[t]} \/ Deploying(item[t])'
  <2>1. CASE val'[t] = mem'[item'[t]]
    BY ZenonT(30), <2>1
  <2>2. CASE pc[t] = "new" /\ item'[t] = item[t] /\ val'[t] = val[t]
    <3>1. PICK o \in Oid : o = item[t]
      BY ZenonT(30) DEF Types
    <3>2. mem[o] \in {0, val[t]} \/ Deploying(o)
      BY ZenonT(30), <2>2, <3>1 DEF ChannelInv
    <3>3. mem'[o] \in {0, mem[o]} \/ Deploying(o)'
      <4>1. \A u \in Task : pc'[u] = "new" => u = t
        <5>1. stp' = {t} /\ \A u \in Task : pc'[u] = "new" => stp' = {u}
          BY Zenon, <1>1
        <5>2. QED
          BY ONLY <5>1
      <4>2. QED
        BY ZenonT(30), <2>2, <4>1
    <3>4. mem'[o] \in {0, val'[t]} \/ Deploying(o)'
      BY Zenon, <2>2, <3>2, <3>3
    <3>5. Deploying(item[t])' <=> Deploying(o)'
      BY ZenonT(30), <2>2, <3>1 DEF Deploying
    <3>6. QED
      BY ZenonT(30), <2>2, <3>1, <3>4, <3>5
  <2>3. QED
    BY ZenonT(30), <1>1, <2>1, <2>2
<1>2. ASSUME NEW o \in Oid
      PROVE  \/ mem'[o] \in {0, Fresh} \/ Deploying(o)' \/ Sent(o, mem[o])'
             \/ \E t \in Task : pc'[t] = "new" /\ item'[t] = o
  <2>1. SUFFICES ASSUME mem'[o] # 0, mem'[o] # Fresh, ~Deploying(o)',
                        ~ \E t \in Task : pc'[t] = "new" /\ item'[t] = o
                 PROVE  Sent(o, mem[o])'
    BY ZenonT(30)
  <2>2. mem'[o] = mem[o] /\ ~Deploying(o)
    BY ZenonT(30), <2>1
  <2>3. Sent(o, mem[o]) \/ \E t \in Task : pc[t] = "new" /\ item[t] = o
    BY ZenonT(30), <2>1, <2>2 DEF ChannelInv
  <2>4. QED
    BY ZenonT(30), <2>1, <2>2, <2>3
<1>3. QED
  BY ZenonT(30), <1>1, <1>2 DEF ChannelInv

\* A step that leaves the channel and the registry alone.
LEMMA QuietChannel ==
  ASSUME Types, ChannelInv, sched' = {}, UNCHANGED <<flush, chan, hand>>,
         \A t \in Task : todo'[t] = {} /\ pc'[t] # "write" /\ (pc'[t] = "new" => stp' = {t}),
         \A o \in Oid : Deploying(o) => Deploying(o)' \/ mem'[o] = 0,
         \A o \in Oid : \/ mem'[o] = mem[o] \/ mem'[o] = 0 \/ Deploying(o)'
                        \/ \E t \in Task : pc'[t] = "new" /\ item'[t] = o /\ pc[t] # "new",
         \A o \in Oid : st'[o] = st[o] \/ mem'[o] = 0,
         \A t \in Task : pc'[t] = "new" =>
           \/ pc[t] = "new" /\ item'[t] = item[t] /\ val'[t] = val[t]
           \/ val'[t] = mem'[item'[t]],
         \A t \in Task : pc[t] = "new" => pc'[t] = "new" /\ item'[t] = item[t]
  PROVE  ChannelInv'
<1>1. \A o \in Oid : Sent(o, mem[o]) /\ mem'[o] = mem[o] /\ mem[o] # 0 => Sent(o, mem[o])'
  BY ZenonT(30) DEF Sent
<1>2. flush' = <<>>
  BY Zenon DEF ChannelInv
<1>3. QED
  BY ZenonT(30), <1>1, <1>2, KeepsChannel

LEMMA StepChannel ==
  ASSUME set.instant, InstantInOrder, ~Db, \A s \in Setting : s.storage # "sqlite", Types, QueueTypes,
         Live, Live', PlacesInv, ConfigInv, CalmInv, ChannelInv, [Next]_vars
  PROVE  ChannelInv'
<1>1. /\ Main \in Task /\ Main \notin Admin \union Raw \union Lvar \union Saver
      /\ Raw \union Lvar \union Saver \union Admin \subseteq Task
      /\ Enabler \intersect (Deployer \union Creator) = {}
      /\ \A t \in Task : item[t] \in Oid /\ val[t] \in Nat
      /\ Admin = Deployer \union Creator \union Destroyer \union Enabler
      /\ Admin \intersect (Raw \union Lvar \union Saver) = {}
  BY Parameters DEF Task, Types, Admin
<1>2. /\ sched = {} /\ flush = <<>> /\ (\A t \in Task : todo[t] = {} /\ pc[t] # "write")
      /\ (\A t \in Task : pc[t] = "new" => stp = {t})
  BY ZenonT(30) DEF ChannelInv
<1>3. \A t \in set.tasks : t \notin Lvar \union Creator
  BY ZenonT(30) DEF InstantInOrder
<1>4. ASSUME NEW t \in Task, pc[t] \notin {"config", "state"},
             \A u \in Task \ {t} : pc'[u] = pc[u] /\ item'[u] = item[u]
      PROVE  \A o : Deploying(o) => Deploying(o)'
  BY ZenonT(30), <1>4 DEF Deploying
<1>5. ASSUME NEW o \in Oid, NEW t \in Raw \union Lvar, Change(t, o) PROVE ChannelInv'
  <2>1. /\ t \in Raw /\ t \in Task /\ pc[t] = "idle" /\ pc'[t] = "new" /\ item'[t] = o
        /\ stp = {} /\ stp' = {t} /\ val'[t] = mem'[o]
        /\ \A u \in Task \ {t} : pc'[u] = pc[u] /\ item'[u] = item[u] /\ val'[u] = val[u]
        /\ UNCHANGED <<sched, chan, hand, flush, todo, st>>
        /\ \A x \in Oid \ {o} : mem'[x] = mem[x]
    BY Zenon, <1>1, <1>3, <1>5 DEF Change, Call, NewState, Goto, store, Types
  <2>2. \A x : Deploying(x) => Deploying(x)'
    BY Zenon, <1>4, <2>1
  <2>3. \A u \in Task : pc[u] # "new"
    BY Zenon, <1>2, <2>1
  <2>4. /\ \A u \in Task : pc'[u] = "new" => u = t
        /\ \A x \in Oid : mem'[x] = mem[x] \/ x = o
    BY ONLY <2>1, <2>3
  <2>5. QED
    BY ZenonT(30), <1>2, <2>1, <2>2, <2>3, <2>4, QuietChannel
<1>6. ASSUME NEW o \in Oid, NEW t \in Admin, AppendItem(t, o) PROVE ChannelInv'
  <2>1. /\ t \in Task \ Enabler /\ pc[t] = "idle" /\ pc'[t] = "config" /\ item'[t] = o
        /\ \A u \in Task \ {t} : pc'[u] = pc[u] /\ item'[u] = item[u] /\ val'[u] = val[u]
        /\ UNCHANGED <<sched, chan, hand, flush, todo, st, stp>>
        /\ \A x \in Oid \ {o} : mem'[x] = mem[x]
    BY ZenonT(30), <1>1, <1>6 DEF AppendItem, Call, NewState, Goto, store, Types
  <2>2. Deploying(o)'
    BY ZenonT(30), <2>1 DEF Deploying
  <2>3. \A x : Deploying(x) => Deploying(x)'
    BY ZenonT(30), <1>4, <2>1
  <2>4. QED
    BY ZenonT(30), <1>2, <2>1, <2>2, <2>3, QuietChannel
<1>7. ASSUME NEW o \in Oid, NEW t \in Admin, SetEnabled(t, o) \/ Remove(t, o) PROVE ChannelInv'
  <2>1. /\ t \in Task /\ pc[t] = "idle" /\ pc'[t] \in {"config", "unschedule"}
        /\ \A u \in Task \ {t} : pc'[u] = pc[u] /\ item'[u] = item[u] /\ val'[u] = val[u]
        /\ UNCHANGED <<sched, chan, hand, flush, todo, st, stp>>
        /\ \A x \in Oid : mem'[x] = mem[x] \/ mem'[x] = 0
    <3>1. CASE SetEnabled(t, o)
      BY Zenon, <1>1, <3>1 DEF SetEnabled, Call, Goto, store, memory, Types
    <3>2. CASE Remove(t, o)
      BY Zenon, <1>1, <3>2 DEF Remove, Call, Goto, store, Types
    <3>3. QED
      BY ONLY <1>7, <3>1, <3>2
  <2>2. \A x : Deploying(x) => Deploying(x)'
    BY Zenon, <1>4, <2>1
  <2>3. QED
    BY ZenonT(30), <1>2, <2>1, <2>2, QuietChannel
<1>8. ASSUME NEW t \in Saver, SaveCall(t) PROVE ChannelInv'
  <2>1. /\ t \in Task /\ pc[t] = "idle" /\ pc'[t] = "save"
        /\ \A u \in Task \ {t} : pc'[u] = pc[u] /\ item'[u] = item[u] /\ val'[u] = val[u]
        /\ UNCHANGED <<sched, chan, hand, flush, todo, st, stp, mem>>
    BY ZenonT(30), <1>1, <1>8 DEF SaveCall, Call, Goto, store, memory, Types
  <2>2. \A x : Deploying(x) => Deploying(x)'
    BY Zenon, <1>4, <2>1
  <2>3. QED
    BY ZenonT(30), <1>2, <2>1, <2>2, QuietChannel
<1>9. ASSUME NEW t \in Task, Work(t) PROVE ChannelInv'
  <2>1. CASE ProcessNewState(t)
    <3>1. /\ pc[t] = "new" /\ pc'[t] = "idle" /\ stp = {t}
          /\ chan' = Append(chan, [oid |-> item[t], s |-> val[t]])
          /\ \A u \in Task \ {t} : pc'[u] = pc[u] /\ item'[u] = item[u] /\ val'[u] = val[u]
          /\ UNCHANGED <<sched, hand, flush, todo, st, mem>>
      BY Zenon, <1>2, <2>1 DEF ProcessNewState, Return, Goto, store, Types
    <3>2. \A x : Deploying(x) => Deploying(x)'
      BY <1>4, <3>1
    <3>3. \A u \in Task : pc'[u] # "new"
      BY Zenon, <1>2, <3>1
    <3>4. PICK x \in Oid, v \in Nat : x = item[t] /\ v = val[t]
      BY <1>1
    <3>5. PICK m \in Msg : m = [oid |-> x, s |-> v]
      BY ZenonT(30), MsgType
    <3>6. m.oid = x /\ m.s = v /\ chan' = Append(chan, m)
      BY <3>1, <3>4, <3>5
    <3>7. Sent(x, v)' /\ \A o \in Oid, w \in Nat : o # x /\ Sent(o, w) => Sent(o, w)'
      <4>1. Sent(m.oid, m.s)' /\ \A o \in Oid, w \in Nat : o # m.oid /\ Sent(o, w) => Sent(o, w)'
        BY ZenonT(30), <3>1, <3>6, SentAppend
      <4>2. QED
        BY <3>6, <4>1
    <3>8. mem'[x] = 0 \/ Deploying(x)' \/ Sent(x, mem[x])'
      <4>1. mem[x] \in {0, v} \/ Deploying(x)
        BY ZenonT(30), <3>1, <3>4 DEF ChannelInv
      <4>2. mem[x] = v => Sent(x, mem[x])'
        BY Zenon, <3>1, <3>7
      <4>3. QED
        BY Zenon, <3>1, <3>2, <4>1, <4>2
    <3>9. \A o \in Oid : o # x /\ Sent(o, mem[o]) => Sent(o, mem[o])'
      <4> SUFFICES ASSUME NEW o \in Oid, o # x, Sent(o, mem[o]) PROVE Sent(o, mem[o])'
        OBVIOUS
      <4>1. PICK w \in Nat : w = mem[o] /\ w = mem'[o]
        BY ZenonT(30), <3>1 DEF Types
      <4>2. Sent(o, w)'
        BY <3>7, <4>1
      <4>3. QED
        BY <4>1, <4>2
    <3>10. \A o \in Oid : Sent(o, mem[o]) /\ mem'[o] = mem[o] /\ mem[o] # 0 => Sent(o, mem[o])' \/ Deploying(o)'
      BY ONLY <3>1, <3>8, <3>9
    <3>11. \A u \in Task : pc[u] = "new" => u = t
      BY Zenon, <1>2, <3>1
    <3>12. \A u \in Task : pc[u] = "new" =>
             \A o \in Oid : o = item[u] => mem'[o] = 0 \/ Deploying(o)' \/ Sent(o, mem[o])'
      BY ONLY <3>4, <3>8, <3>11
    <3>13. QED
      BY Zenon, <1>2, <3>1, <3>2, <3>3, <3>10, <3>12, KeepsChannel
  <2>2. ASSUME pc[t] \notin {"config", "state", "new"}, pc'[t] \notin {"new", "write"},
               \A u \in Task \ {t} : pc'[u] = pc[u] /\ item'[u] = item[u] /\ val'[u] = val[u],
               UNCHANGED <<sched, chan, hand, flush, stp, mem>>,
               \A u \in Task : todo'[u] = {}, \A o \in Oid : st'[o] = st[o] \/ mem'[o] = 0
        PROVE  ChannelInv'
    <3>1. \A x : Deploying(x) => Deploying(x)'
      BY Zenon, <1>4, <2>2
    <3>2. QED
      BY ZenonT(30), <1>2, <2>2, <3>1, QuietChannel
  <2>3. CASE SaveTake(t)
    <3>1. /\ pc[t] = "save" /\ pc'[t] = "items"
          /\ \A u \in Task \ {t} : pc'[u] = pc[u] /\ item'[u] = item[u] /\ val'[u] = val[u]
          /\ UNCHANGED <<sched, chan, hand, flush, stp, mem, st>>
          /\ \A u \in Task : todo'[u] = {}
      BY <1>2, <2>3 DEF SaveTake, Goto, store, Types
    <3>2. QED
      BY ZenonT(30), <2>2, <3>1
  <2>4. CASE SaveEnd(t)
    <3>1. /\ pc[t] = "items" /\ pc'[t] = "idle"
          /\ \A u \in Task \ {t} : pc'[u] = pc[u] /\ item'[u] = item[u] /\ val'[u] = val[u]
          /\ UNCHANGED <<sched, chan, hand, flush, stp, mem, st, todo>>
      BY <2>4 DEF SaveEnd, Return, Goto, memory, store, Types
    <3>2. QED
      BY ZenonT(30), <1>2, <2>2, <3>1
  <2>5. ~SaveWrite(t) /\ \A o \in Oid : ~SaveLookup(t, o)
    BY Zenon, <1>2 DEF SaveWrite, SaveLookup
  <2>6. CASE SaveConfig(t)
    <3>1. /\ pc[t] = "config" /\ pc'[t] = (IF t \in Enabler THEN "idle" ELSE "state")
          /\ t \notin Enabler => item'[t] = item[t]
          /\ \A u \in Task \ {t} : pc'[u] = pc[u] /\ item'[u] = item[u] /\ val'[u] = val[u]
          /\ UNCHANGED <<sched, chan, hand, flush, stp, mem, st, todo>>
      BY <2>6 DEF SaveConfig, SaveItems, Return, Goto, memory, Types
    <3>2. \A x : Deploying(x) => Deploying(x)'
      BY ZenonT(30), <3>1 DEF Deploying
    <3>3. QED
      BY Zenon, <1>2, <3>1, <3>2, QuietChannel
  <2>7. CASE NewItemState(t)
    <3>1. pc[t] = "state" /\ mem[item[t]] # 0 /\ t \in Deployer
      BY <1>1, <1>3, <2>7 DEF NewItemState, ConfigInv, PlacesInv
    <3>2. /\ stp = {} /\ stp' = {t} /\ pc'[t] = "new" /\ item'[t] = item[t] /\ val'[t] = mem'[item'[t]]
          /\ \A u \in Task \ {t} : pc'[u] = pc[u] /\ item'[u] = item[u] /\ val'[u] = val[u]
          /\ UNCHANGED <<sched, chan, hand, flush, mem, st, todo>>
      BY <2>7, <3>1 DEF NewItemState, Goto, store, Types
    <3>3. \A u \in Task : (pc[u] # "new") /\ (pc'[u] = "new" => u = t)
      BY ZenonT(30), <1>2, <3>2
    <3>4. \A o : Deploying(o) => Deploying(o)' \/ o = item'[t]
      BY Zenon, <3>1, <3>2 DEF Deploying
    <3>5. \A o \in Oid : Sent(o, mem[o]) => Sent(o, mem[o])'
      BY ZenonT(30), <3>2 DEF Sent
    <3>6. /\ sched' = {} /\ flush' = <<>>
          /\ \A u \in Task : todo'[u] = {} /\ pc'[u] # "write" /\ (pc'[u] = "new" => stp' = {u})
          /\ \A u \in Task : pc'[u] = "new" => mem'[item'[u]] \in {0, val'[u]}
      BY ZenonT(30), <1>2, <3>2, <3>3
    <3>7. \A o \in Oid : \/ mem'[o] \in {0, Fresh} \/ Deploying(o)' \/ Sent(o, mem[o])'
                         \/ \E u \in Task : pc'[u] = "new" /\ item'[u] = o
      BY ZenonT(30), <3>2, <3>3, <3>4, <3>5 DEF ChannelInv
    <3>8. QED
      BY ZenonT(30), <3>6, <3>7 DEF ChannelInv
  <2>8. CASE Unschedule(t)
    <3>1. /\ pc[t] = "unschedule" /\ pc'[t] = "destroy" /\ sched' = {}
          /\ \A u \in Task \ {t} : pc'[u] = pc[u] /\ item'[u] = item[u] /\ val'[u] = val[u]
          /\ UNCHANGED <<chan, hand, flush, stp, mem, st, todo>>
      BY <1>2, <2>8 DEF Unschedule, Goto, store, Types
    <3>2. QED
      BY ZenonT(30), <1>2, <2>2, <3>1
  <2>9. CASE Destroy(t) \/ DestroyKey(t)
    <3>1. /\ pc[t] \in {"destroy", "key"} /\ pc'[t] \in {"idle", "key"}
          /\ \A u \in Task \ {t} : pc'[u] = pc[u] /\ item'[u] = item[u] /\ val'[u] = val[u]
          /\ UNCHANGED <<sched, chan, hand, flush, stp, mem, todo>>
          /\ \A x \in Oid \ {item[t]} : st'[x] = st[x]
      BY <2>9 DEF Destroy, DestroyKey, Return, Goto, memory, Types
    <3>2. mem'[item[t]] = 0
      BY Zenon, <3>1 DEF ConfigInv, Removing
    <3>3. QED
      BY ZenonT(30), <1>2, <2>2, <3>1, <3>2
  <2>10. QED
    BY <1>9, <2>1, <2>3, <2>4, <2>5, <2>6, <2>7, <2>8, <2>9 DEF Work
<1>10. ASSUME UNCHANGED <<sched, flush, stp, mem, pc, item, val, todo>>,
              \A o \in Oid, v \in Nat : Sent(o, v) => Sent(o, v)'
       PROVE  ChannelInv'
  <2>1. \A o \in Oid : Sent(o, mem[o]) => Sent(o, mem[o])'
    <3> SUFFICES ASSUME NEW o \in Oid, Sent(o, mem[o]) PROVE Sent(o, mem[o])'
      OBVIOUS
    <3>1. PICK w \in Nat : w = mem[o] /\ w = mem'[o]
      BY <1>10 DEF Types
    <3>2. Sent(o, w)'
      BY <1>10, <3>1
    <3>3. QED
      BY <3>1, <3>2
  <2>2. \A o : Deploying(o) => Deploying(o)'
    BY <1>10 DEF Deploying
  <2>3. QED
    BY Zenon, <1>2, <1>10, <2>1, <2>2, KeepsChannel
<1>11. CASE HandleRecv
  BY <1>10, <1>11, SentRecv DEF HandleRecv, store, local
<1>12. CASE HandleWrite
  <2>1. /\ hand # <<>> /\ hand' = <<>> /\ UNCHANGED <<sched, flush, stp, mem, chan, pc, item, val, todo>>
        /\ hand[1] \in Msg /\ st' = [st EXCEPT ![hand[1].oid] = hand[1].s]
    BY <1>12 DEF HandleWrite, SaveItemState, local, QueueTypes
  <2>2. \A o \in Oid, v \in Nat : Sent(o, v) => Sent(o, v)'
    BY ZenonT(30), <2>1 DEF Sent, Types, Msg
  <2>3. QED
    BY <1>10, <2>1, <2>2
<1>13. ~WorkerTake /\ ~WorkerWrite
  BY ZenonT(30), <1>2 DEF WorkerTake, WorkerWrite
<1>14. CASE Shutdown
  <2>1. /\ pc[Main] = "idle" /\ pc'[Main] = "save" /\ (\A u \in Task \ {Main} : pc'[u] = pc[u])
        /\ UNCHANGED <<sched, chan, hand, flush, stp, st, mem, todo, item, val>>
    BY ZenonT(30), <1>1, <1>14 DEF Shutdown, Goto, memory, store, Types, CalmInv
  <2>2. \A x : Deploying(x) => Deploying(x)'
    BY ZenonT(30), <1>1, <1>4, <2>1
  <2>3. QED
    BY ZenonT(30), <1>2, <2>1, <2>2, QuietChannel
<1>15. CASE Drained \/ Down \/ UNCHANGED vars
  <2>1. UNCHANGED <<sched, chan, hand, flush, stp, st, mem, todo, item, val, pc>>
    BY Zenon, <1>15 DEF Drained, Down, vars, memory, store, local
  <2>2. QED
    BY <1>10, <2>1 DEF Sent
<1>16. CASE Crash
  BY <1>16 DEF Crash, Live
<1>17. CASE Start
  <2>1. /\ sched' = {} /\ chan' = <<>> /\ hand' = <<>> /\ flush' = <<>>
        /\ \A u \in Task : pc'[u] = "idle" /\ todo'[u] = {}
        /\ \A x \in Oid : mem'[x] \in {0, Fresh, st[x]}
        /\ UNCHANGED st
    BY <1>17 DEF Start, store
  <2>2. \A x \in Oid : mem'[x] \in {0, Fresh} \/ Sent(x, mem[x])'
    BY <2>1 DEF Sent
  <2>3. QED
    BY Zenon, <2>1, <2>2 DEF ChannelInv
<1>18. QED
  BY <1>5, <1>6, <1>7, <1>8, <1>9, <1>11, <1>12, <1>13, <1>14, <1>15, <1>16, <1>17 DEF Next

\* With instant_save and a database no task that takes part makes an item.
LEMMA StepEmpty ==
  ASSUME set.instant, InstantInOrder, Db, Types, EmptyInv, [Next]_vars
  PROVE  EmptyInv'
<1>1. /\ mem = None /\ cfg = {} /\ (\A o \in Oid : mem[o] = 0) /\ (\A t \in Task : pc[t] # "config")
      /\ Raw \union Lvar \union Saver \union Admin \union {Main} \subseteq Task
      /\ \A t \in set.tasks : t \notin Creator \union Deployer
  BY DEF EmptyInv, None, Task, InstantInOrder
<1>2. ASSUME NEW o \in Oid, NEW t \in Task
      PROVE  ~Change(t, o) /\ ~AppendItem(t, o) /\ ~SetEnabled(t, o) /\ ~Remove(t, o)
  BY ZenonT(30), <1>1 DEF Change, AppendItem, SetEnabled, Remove, Call
<1>3. ASSUME NEW t \in Saver, SaveCall(t) PROVE EmptyInv'
  BY ZenonT(30), <1>1, <1>3 DEF SaveCall, Goto, memory, store, Types, EmptyInv
<1>4. ASSUME NEW t \in Task, Work(t) PROVE EmptyInv'
  <2>1. ~SaveConfig(t)
    BY ZenonT(30), <1>1 DEF SaveConfig
  <2>2. UNCHANGED mem
    BY ZenonT(30), <1>4, <2>1 DEF Work, ProcessNewState, SaveTake, SaveWrite, SaveEnd, SaveLookup, NewItemState,
       Unschedule, Destroy, DestroyKey, memory
  <2>3. cfg' = {}
    BY ZenonT(30), <1>1, <1>4, <2>1 DEF Work, ProcessNewState, SaveTake, SaveWrite, SaveEnd, SaveLookup,
       NewItemState, Unschedule, Destroy, DestroyKey, store
  <2>4. \A u \in Task : pc'[u] # "config"
    BY Zenon, <1>1, <1>4, <2>1 DEF Work, ProcessNewState, SaveTake, SaveWrite, SaveEnd, SaveLookup,
       NewItemState, Unschedule, Destroy, DestroyKey, Return, Goto, Types
  <2>5. QED
    BY ZenonT(30), <1>1, <2>2, <2>3, <2>4 DEF EmptyInv, None
<1>5. CASE HandleRecv \/ HandleWrite \/ WorkerTake \/ WorkerWrite \/ Drained \/ Down \/ Crash \/ UNCHANGED vars
  <2>1. UNCHANGED <<mem, cfg, pc>>
    BY ZenonT(30), <1>5 DEF HandleRecv, HandleWrite, WorkerTake, WorkerWrite, Drained, Down, Crash, local, store,
       memory, vars
  <2>2. QED
    BY <2>1 DEF EmptyInv, None
<1>6. CASE Shutdown
  BY ZenonT(30), <1>1, <1>6 DEF Shutdown, Goto, memory, store, Types, EmptyInv, None
<1>7. CASE Start
  BY Zenon, <1>1, <1>7 DEF Start, store, EmptyInv, None
<1>8. QED
  BY Zenon, <1>1, <1>2, <1>3, <1>4, <1>5, <1>6, <1>7 DEF Next

\* If clients change configurations one after the other, the save method is called by one
\* client, and the database is not SQLite: a shutdown that met no operation under way
\* keeps exactly the items of the inventory, each with its last state.
THEOREM ShutdownCorrect ==
  ASSUME NoOverlap, \A s \in Setting : s.storage # "sqlite"
  PROVE  Spec => []ShutdownKeepsStates
<1>1. Init => Types /\ QueueTypes /\ KeepInv
  <2> SUFFICES ASSUME Init PROVE Types /\ QueueTypes /\ KeepInv
    OBVIOUS
  <2>1. SomeOid \in Oid /\ Main \in Task /\ None \in [Oid -> Nat] /\ Fresh \in Nat
    BY Parameters DEF SomeOid, Task, None, Fresh
  <2>2. Types /\ QueueTypes
    <3>1. QueueTypes
      BY DEF Init, QueueTypes
    <3>2. Types
      BY Zenon, <2>1 DEF Init, Types
    <3>3. QED
      BY <3>1, <3>2
  <2>3. PlacesInv /\ ConfigInv /\ CalmInv
    BY Zenon, <2>1, Parameters DEF Init, PlacesInv, ConfigInv, CalmInv, Removing, Saving, None, Task
  <2>4. ScheduleInv
    BY DEF Init, ScheduleInv, None
  <2>5. ChannelInv
    BY DEF Init, ChannelInv, None
  <2>6. EmptyInv
    BY DEF Init, EmptyInv
  <2>7. QED
    BY <2>2, <2>3, <2>4, <2>5, <2>6 DEF KeepInv
<1>2. Types /\ QueueTypes /\ KeepInv /\ [Next]_vars => (Types /\ QueueTypes /\ KeepInv)'
  <2> SUFFICES ASSUME Types, QueueTypes, KeepInv, [Next]_vars PROVE KeepInv'
    BY StepTypes
  <2>1. UNCHANGED set
    BY Zenon DEF Next, Change, AppendItem, SetEnabled, Remove, SaveCall, Work, ProcessNewState, SaveTake,
       SaveWrite, SaveEnd, SaveLookup, SaveConfig, NewItemState, Unschedule, Destroy, DestroyKey,
       HandleRecv, HandleWrite, WorkerTake, WorkerWrite, Shutdown, Drained, Down, Crash, Start, life, vars
  <2>2. /\ set'.instant = set.instant /\ (InstantInOrder' <=> InstantInOrder) /\ (Db' <=> Db)
    BY <2>1 DEF InstantInOrder, Db
  <2>3. set.instant /\ InstantInOrder /\ Db => EmptyInv'
    BY StepEmpty DEF KeepInv
  <2>4. ASSUME Live, Live' PROVE /\ PlacesInv' /\ ConfigInv' /\ CalmInv'
                                 /\ ~set.instant => ScheduleInv'
                                 /\ set.instant /\ InstantInOrder /\ ~Db => ChannelInv'
    BY <2>4, StepPlaces, StepConfig, StepCalm, StepSchedule, StepChannel DEF KeepInv
  <2>5. ASSUME ~Live, Live' PROVE Start
    <3>1. phase # "up" /\ ~calm
      BY <2>5 DEF Live
    <3>2. Oid # {}
      BY Parameters
    <3>3. ~Shutdown /\ \A t \in Task, o \in Oid : /\ ~Change(t, o) /\ ~AppendItem(t, o)
                                                  /\ ~SetEnabled(t, o) /\ ~Remove(t, o) /\ ~SaveCall(t)
      BY ZenonT(30), <3>1 DEF Shutdown, Change, AppendItem, SetEnabled, Remove, SaveCall, Call
    <3>4. ASSUME NEW t \in Task, Work(t) PROVE UNCHANGED <<phase, calm>>
      BY <3>4, WorkFrame
    <3>5. HandleRecv \/ HandleWrite \/ WorkerTake \/ WorkerWrite \/ UNCHANGED vars => UNCHANGED <<phase, calm>>
      BY ZenonT(30) DEF HandleRecv, HandleWrite, WorkerTake, WorkerWrite, life, vars
    <3>6. Drained \/ Down \/ Crash => phase' # "up" /\ calm' \in {calm, FALSE}
      BY Zenon DEF Drained, Down, Crash
    <3>7. Raw \union Lvar \union Saver \union Admin \subseteq Task
      BY DEF Task
    <3>8. ~ (UNCHANGED <<phase, calm>>) /\ ~Drained /\ ~Down /\ ~Crash
      BY Zenon, <2>5, <3>1, <3>6 DEF Live
    <3>9. QED
      BY <3>2, <3>3, <3>4, <3>5, <3>7, <3>8 DEF Next
  <2>6. ASSUME Start PROVE PlacesInv' /\ ConfigInv' /\ CalmInv' /\ ScheduleInv' /\ ChannelInv'
    <3>1. Main \in Task
      BY DEF Task
    <3>2. /\ sched' = {} /\ chan' = <<>> /\ hand' = <<>> /\ flush' = <<>> /\ buf' = None
          /\ \A u \in Task : pc'[u] = "idle" /\ todo'[u] = {}
          /\ \A x \in Oid : mem'[x] \in {0, Fresh, st[x]} /\ (x \in cfg' <=> mem'[x] # 0)
          /\ UNCHANGED st /\ cfg' \subseteq Oid /\ phase' = "up" /\ calm' = FALSE
      BY <2>6 DEF Start, store, Fresh, Types
    <3>3. PlacesInv' /\ ConfigInv' /\ CalmInv'
      BY ZenonT(30), <3>1, <3>2, Parameters DEF PlacesInv, ConfigInv, CalmInv, Removing, Saving, Task
    <3>4. \A x \in Oid : mem'[x] \in {0, Fresh} \/ Stored(x, mem[x])'
      BY ZenonT(30), <3>2 DEF Stored, None
    <3>5. \A x \in Oid : mem'[x] \in {0, Fresh} \/ Sent(x, mem[x])'
      <4>1. /\ chan' = <<>> /\ hand' = <<>> /\ st' = st
            /\ \A x \in Oid : mem'[x] \in {0, Fresh, st[x]}
        BY Zenon, <3>2
      <4>2. 1..Len(chan') = {}
        BY ONLY <4>1
      <4>3. ASSUME NEW x \in Oid, mem'[x] \notin {0, Fresh} PROVE Sent(x, mem[x])'
        <5>1. st'[x] = mem'[x] /\ hand' = <<>>
          BY ONLY <4>1, <4>3
        <5>2. QED
          BY ONLY <4>2, <5>1 DEF Sent
      <4>4. QED
        BY ONLY <4>3
    <3>6. QED
      BY Zenon, <3>2, <3>3, <3>4, <3>5 DEF ScheduleInv, ChannelInv
  <2>7. QED
    BY <2>2, <2>3, <2>4, <2>5, <2>6 DEF KeepInv
<1>3. Types /\ KeepInv => ShutdownKeepsStates
  <2> SUFFICES ASSUME Types, KeepInv, phase = "down", calm, InstantInOrder, NEW o \in Oid
               PROVE  (mem[o] # 0 <=> o \in cfg) /\ (mem[o] \notin {0, Fresh} => st[o] = mem[o])
    BY DEF ShutdownKeepsStates
  <2>1. PlacesInv /\ ConfigInv /\ CalmInv
    BY DEF KeepInv, Live
  <2>2. /\ \A t \in Task : pc[t] \in {"idle", "items"} /\ todo[t] = {}
        /\ sched = {} /\ chan = <<>> /\ hand = <<>> /\ flush = <<>> /\ buf = None
    BY Zenon, <2>1 DEF CalmInv, PlacesInv
  <2>3. ~Deploying(o)
    BY <2>2 DEF Deploying
  <2>4. CASE ~set.instant
    <3>1. mem[o] \in {0, Fresh} \/ Stored(o, mem[o])
      BY ZenonT(30), <2>2, <2>3, <2>4 DEF KeepInv, Live, ScheduleInv, Due
    <3>2. QED
      BY ZenonT(30), <2>1, <2>2, <3>1 DEF Stored, None, ConfigInv, Removing
  <2>5. CASE set.instant /\ ~Db
    <3>1. mem[o] \in {0, Fresh} \/ Sent(o, mem[o])
      BY <2>2, <2>3, <2>5 DEF KeepInv, Live, ChannelInv
    <3>2. Sent(o, mem[o]) => st[o] = mem[o]
      BY <2>2 DEF Sent
    <3>3. QED
      BY ZenonT(30), <2>1, <2>2, <3>1, <3>2 DEF ConfigInv, Removing
  <2>6. CASE set.instant /\ Db
    BY <2>6 DEF KeepInv, EmptyInv, None
  <2>7. QED
    BY Zenon, <2>4, <2>5, <2>6
<1>4. QED
  BY <1>1, <1>2, <1>3, PTL DEF Spec
=============================================================================
