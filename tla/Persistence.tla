---------------------------- MODULE Persistence ----------------------------
(***************************************************************************)
(* Saved configurations and states of local items (eva/src/core.rs,        *)
(* eva/src/inventory_db.rs).                                               *)
(*                                                                         *)
(* They are kept in the registry, or in an SQL database with a buffer of   *)
(* states.  A new state is sent to handle_save at once (instant_save) or   *)
(* scheduled for the next save; the shutdown saves and waits.  States are  *)
(* numbered in the order in which the items get them.                      *)
(***************************************************************************)
EXTENDS Naturals, Sequences, FiniteSets

CONSTANTS Oid,
          Setting,      \* how the core is set up: records [storage ("registry",
                        \* "postgres" or "sqlite"), instant (is instant_save set
                        \* for the items?), tasks (that take part)]
          Raw, Lvar,    \* tasks that change states, with and without the stp lock
          Deployer, Creator, Destroyer, Enabler,  \* tasks that change configurations
          Saver,        \* tasks that serve the save call
          Main,         \* the task that shuts the core down
          OneAdmin,     \* do clients change configurations one after the other?
          MaxState,     \* bound of the numbers of states
          QueueSize,    \* size of the channel of handle_save
          MaxBoots      \* bound of the starts

Admin == Deployer \union Creator \union Destroyer \union Enabler
Task == Raw \union Lvar \union Admin \union Saver \union {Main}

ASSUME Parameters ==
  /\ Setting \subseteq [storage : {"registry", "postgres", "sqlite"}, instant : BOOLEAN,
                       tasks : SUBSET Task]
  /\ Oid # {} /\ OneAdmin \in BOOLEAN
  /\ Main \notin Raw \union Lvar \union Admin \union Saver
  /\ Admin \intersect (Raw \union Lvar \union Saver) = {}
  /\ Enabler \intersect (Deployer \union Creator) = {}
  /\ {MaxState, QueueSize, MaxBoots} \subseteq Nat

VARIABLES set,                  \* the setting, which does not change
          mem,                  \* the state of an item in memory, 0 if there is no item
          top,                  \* the last number given
          stp,                  \* who holds state_processor_lock
          sched, chan, hand,    \* scheduled_saves; the channel; what handle_save has taken
          buf, flush,           \* state_buf; what the worker has taken
          cfg, st,              \* stored configurations and states (0: none)
          pc, item, val, todo,  \* a task: its place, item, state at hand, items to save
          phase, boots, calm    \* of the core; was the shutdown called in silence?

memory == <<mem, top, stp, sched, chan, hand, buf, flush>>
store == <<cfg, st>>
local == <<pc, item, val, todo>>
life == <<set, phase, boots, calm>>
vars == <<memory, store, local, life>>

Db == set.storage # "registry"

None == [o \in Oid |-> 0]
SomeOid == CHOOSE o \in Oid : TRUE
\* The number of a state that was generated because none was stored
Fresh == 1
Idle == pc = [t \in Task |-> "idle"]

Init ==
  /\ set \in Setting
  /\ mem = None /\ top = Fresh /\ stp = {}
  /\ sched = {} /\ chan = <<>> /\ hand = <<>> /\ buf = None /\ flush = <<>>
  /\ cfg = {} /\ st = None
  /\ pc = [t \in Task |-> "idle"] /\ item = [t \in Task |-> SomeOid]
  /\ val = [t \in Task |-> 0] /\ todo = [t \in Task |-> {}]
  /\ phase = "up" /\ boots = 1 /\ calm = FALSE

Goto(t, l) == pc' = [pc EXCEPT ![t] = l]

Return(t) ==
  /\ Goto(t, "idle")
  /\ item' = [item EXCEPT ![t] = SomeOid] /\ val' = [val EXCEPT ![t] = 0]

\* A handler is called; all of them ask whether the core is active.
Call(t, o) ==
  /\ phase = "up" /\ pc[t] = "idle" /\ t \in set.tasks
  /\ OneAdmin /\ t \in Admin => \A a \in Admin : pc[a] = "idle"
  /\ item' = [item EXCEPT ![t] = o]

NewState(o) == top < MaxState /\ top' = top + 1 /\ mem' = [mem EXCEPT ![o] = top + 1]

----------------------------------------------------------------------------
(* States *)

\* A raw state (under the stp lock) or an lvar operation
Change(t, o) ==
  /\ Call(t, o) /\ mem[o] # 0 /\ NewState(o)
  /\ t \in Raw => stp = {}
  /\ stp' = IF t \in Raw THEN {t} ELSE stp
  /\ val' = [val EXCEPT ![t] = top + 1]
  /\ Goto(t, "new")
  /\ UNCHANGED <<sched, chan, hand, buf, flush, store, todo, life>>

\* process_new_state.  A deployment to a database schedules the save and, with
\* instant_save, puts the state into the buffer itself.
ProcessNewState(t) ==
  /\ pc[t] = "new"
  /\ LET direct == t \in Deployer /\ Db IN
     /\ IF set.instant /\ ~direct
        THEN /\ Len(chan) < QueueSize
             /\ chan' = Append(chan, [oid |-> item[t], s |-> val[t]])
             /\ UNCHANGED sched
        ELSE sched' = sched \union {item[t]} /\ UNCHANGED chan
     /\ buf' = IF set.instant /\ direct THEN [buf EXCEPT ![item[t]] = val[t]] ELSE buf
  /\ stp' = stp \ {t}
  /\ Return(t)
  /\ UNCHANGED <<mem, top, hand, flush, store, todo, life>>

\* save_item_state
SaveItemState(o, s) ==
  IF Db THEN buf' = [buf EXCEPT ![o] = s] /\ UNCHANGED st
  ELSE st' = [st EXCEPT ![o] = s] /\ UNCHANGED buf

\* handle_save
HandleRecv ==
  /\ hand = <<>> /\ chan # <<>>
  /\ hand' = <<Head(chan)>> /\ chan' = Tail(chan)
  /\ UNCHANGED <<mem, top, stp, sched, buf, flush, store, local, life>>

HandleWrite ==
  /\ hand # <<>>
  /\ SaveItemState(hand[1].oid, hand[1].s)
  /\ hand' = <<>>
  /\ UNCHANGED <<mem, top, stp, sched, chan, flush, cfg, local, life>>

\* Core::save: the set is taken, then item after item is looked up and written.
SaveTake(t) ==
  /\ pc[t] = "save"
  /\ todo' = [todo EXCEPT ![t] = sched] /\ sched' = {}
  /\ Goto(t, "items")
  /\ UNCHANGED <<mem, top, stp, chan, hand, buf, flush, store, item, val, life>>

SaveLookup(t, o) ==
  /\ pc[t] = "items" /\ o \in todo[t]
  /\ todo' = [todo EXCEPT ![t] = @ \ {o}]
  /\ IF mem[o] = 0 THEN UNCHANGED <<pc, item, val>>
     ELSE /\ item' = [item EXCEPT ![t] = o] /\ val' = [val EXCEPT ![t] = mem[o]]
          /\ Goto(t, "write")
  /\ UNCHANGED <<memory, store, life>>

SaveWrite(t) ==
  /\ pc[t] = "write"
  /\ SaveItemState(item[t], val[t])
  /\ Goto(t, "items")
  /\ item' = [item EXCEPT ![t] = SomeOid] /\ val' = [val EXCEPT ![t] = 0]
  /\ UNCHANGED <<mem, top, stp, sched, chan, hand, flush, cfg, todo, life>>

SaveCall(t) == Call(t, SomeOid) /\ Goto(t, "save") /\ UNCHANGED <<memory, store, val, todo, life>>

SaveEnd(t) ==
  /\ pc[t] = "items" /\ todo[t] = {} /\ t # Main
  /\ Return(t)
  /\ UNCHANGED <<memory, store, todo, life>>

----------------------------------------------------------------------------
(* The worker of the database *)

WorkerTake ==
  /\ Db /\ flush = <<>> /\ buf # None
  /\ flush' = <<buf>> /\ buf' = None
  /\ UNCHANGED <<mem, top, stp, sched, chan, hand, store, local, life>>

\* UPDATE: a state is written if its item has a row.
WorkerWrite ==
  /\ flush # <<>>
  /\ st' = [o \in Oid |-> IF o \in cfg /\ flush[1][o] # 0 THEN flush[1][o] ELSE st[o]]
  /\ flush' = <<>>
  /\ UNCHANGED <<mem, top, stp, sched, chan, hand, buf, cfg, local, life>>

----------------------------------------------------------------------------
(* Configurations *)

\* deploy_local_items, create_local_item: the item is put into the inventory.
AppendItem(t, o) ==
  /\ t \in Deployer \union Creator
  /\ Call(t, o) /\ NewState(o)
  /\ t \in Creator => mem[o] = 0
  /\ val' = [val EXCEPT ![t] = top + 1]
  /\ Goto(t, "config")
  /\ UNCHANGED <<stp, sched, chan, hand, buf, flush, store, todo, life>>

\* set_local_items_enabled: the configuration is taken from the item.
SetEnabled(t, o) ==
  /\ t \in Enabler
  /\ Call(t, o) /\ mem[o] # 0
  /\ Goto(t, "config")
  /\ UNCHANGED <<memory, store, val, todo, life>>

\* save_items: REPLACE of SQLite clears the other columns of the row.
SaveItems(o) ==
  /\ cfg' = cfg \union {o}
  /\ st' = IF set.storage = "sqlite" THEN [st EXCEPT ![o] = 0] ELSE st

SaveConfig(t) ==
  /\ pc[t] = "config"
  /\ SaveItems(item[t])
  /\ IF t \in Enabler THEN Return(t) ELSE Goto(t, "state") /\ UNCHANGED <<item, val>>
  /\ UNCHANGED <<memory, todo, life>>

\* The state of the new item is taken, by a deployment under the stp lock.  With a
\* database the item is looked up once more.
NewItemState(t) ==
  /\ pc[t] = "state"
  /\ t \in Deployer => stp = {}
  /\ IF mem[item[t]] = 0 /\ t \in Deployer /\ Db
     THEN Return(t) /\ UNCHANGED stp
     ELSE /\ val' = [val EXCEPT ![t] = IF mem[item[t]] = 0 THEN @ ELSE mem[item[t]]]
          /\ stp' = IF t \in Deployer THEN {t} ELSE stp
          /\ Goto(t, "new") /\ UNCHANGED item
  /\ UNCHANGED <<mem, top, sched, chan, hand, buf, flush, store, todo, life>>

\* destroy_local_items, undeploy_local_items
Remove(t, o) ==
  /\ t \in Destroyer
  /\ Call(t, o) /\ mem[o] # 0
  /\ mem' = [mem EXCEPT ![o] = 0]
  /\ Goto(t, "unschedule")
  /\ UNCHANGED <<top, stp, sched, chan, hand, buf, flush, store, val, todo, life>>

Unschedule(t) ==
  /\ pc[t] = "unschedule"
  /\ sched' = sched \ {item[t]}
  /\ Goto(t, "destroy")
  /\ UNCHANGED <<mem, top, stp, chan, hand, buf, flush, store, item, val, todo, life>>

\* Faulty variant of Destroy: the row stays, only its state is cleared.
DestroyStateOnly(t) ==
  /\ pc[t] = "destroy"
  /\ st' = [st EXCEPT ![item[t]] = 0]
  /\ Return(t)
  /\ UNCHANGED <<memory, cfg, todo, life>>

\* destroy_inventory_item: a row, or the two keys of the registry one after the other
Destroy(t) ==
  /\ pc[t] = "destroy"
  /\ st' = [st EXCEPT ![item[t]] = 0]
  /\ IF Db THEN cfg' = cfg \ {item[t]} /\ Return(t)
     ELSE Goto(t, "key") /\ UNCHANGED <<cfg, item, val>>
  /\ UNCHANGED <<memory, todo, life>>

DestroyKey(t) ==
  /\ pc[t] = "key"
  /\ cfg' = cfg \ {item[t]}
  /\ Return(t)
  /\ UNCHANGED <<memory, st, todo, life>>

----------------------------------------------------------------------------
(* Shutdown (Core::block), loss of power, start *)

Shutdown ==
  /\ phase = "up"
  /\ phase' = "saving" /\ calm' = Idle
  /\ Goto(Main, "save")
  /\ UNCHANGED <<set, memory, store, item, val, todo, boots>>

\* The scheduled saves are done; the channel is empty and handle_save had time to
\* write what it had taken.
Drained ==
  /\ phase = "saving" /\ pc[Main] = "items" /\ todo[Main] = {}
  /\ chan = <<>> /\ hand = <<>>
  /\ phase' = "drained"
  /\ UNCHANGED <<set, memory, store, local, boots, calm>>

\* Faulty variant of Down: the worker is not waited for.
DownAtOnce == phase = "drained" /\ phase' = "down" /\ UNCHANGED <<set, memory, store, local, boots, calm>>

\* inventory_db::shutdown
Down ==
  /\ phase = "drained"
  /\ flush = <<>> /\ buf = None
  /\ phase' = "down"
  /\ UNCHANGED <<set, memory, store, local, boots, calm>>

Crash ==
  /\ phase \in {"up", "saving", "drained"} /\ boots < MaxBoots
  /\ phase' = "down" /\ calm' = FALSE
  /\ UNCHANGED <<set, memory, store, local, boots>>

\* A stored item without a stored state gets a new one.
Start ==
  /\ phase = "down" /\ boots < MaxBoots
  /\ mem' = [o \in Oid |-> IF o \notin cfg THEN 0 ELSE IF st[o] # 0 THEN st[o] ELSE Fresh]
  /\ stp' = {} /\ sched' = {} /\ chan' = <<>> /\ hand' = <<>> /\ buf' = None /\ flush' = <<>>
  /\ pc' = [t \in Task |-> "idle"] /\ item' = [t \in Task |-> SomeOid]
  /\ val' = [t \in Task |-> 0] /\ todo' = [t \in Task |-> {}]
  /\ phase' = "up" /\ boots' = boots + 1 /\ calm' = FALSE
  /\ UNCHANGED <<set, top, store>>

----------------------------------------------------------------------------
Work(t) ==
  \/ ProcessNewState(t)
  \/ SaveTake(t) \/ SaveWrite(t) \/ SaveEnd(t)
  \/ \E o \in Oid : SaveLookup(t, o)
  \/ SaveConfig(t) \/ NewItemState(t)
  \/ Unschedule(t) \/ Destroy(t) \/ DestroyKey(t)

Next ==
  \/ /\ phase # "down"
     /\ \/ \E o \in Oid :
             \/ \E t \in Raw \union Lvar : Change(t, o)
             \/ \E t \in Admin : AppendItem(t, o) \/ SetEnabled(t, o) \/ Remove(t, o)
        \/ \E t \in Saver : SaveCall(t)
        \/ \E t \in Task : Work(t)
        \/ HandleRecv \/ HandleWrite \/ WorkerTake \/ WorkerWrite
        \/ Shutdown \/ Drained \/ Down \/ Crash
  \/ Start

Spec == Init /\ [][Next]_vars

\* The runtime schedules every task, handle_save and the worker.
FairSpec ==
  /\ Spec
  /\ \A t \in Task : WF_vars(phase # "down" /\ Work(t))
  /\ WF_vars(phase # "down" /\ (HandleRecv \/ HandleWrite))
  /\ WF_vars(phase # "down" /\ (WorkerTake \/ WorkerWrite))
  /\ WF_vars(Drained) /\ WF_vars(Down)

----------------------------------------------------------------------------
(* Properties *)

\* States are sent to handle_save in the order in which they were made, which the
\* stp lock ensures; lvar_op and create_local_item do not take it, and a deployment to a
\* database does not use the channel.
InstantInOrder ==
  set.instant =>
    set.tasks \intersect (Lvar \union Creator \union (IF Db THEN Deployer ELSE {})) = {}

\* When a shutdown that met no operation under way has ended, exactly the items of the
\* inventory are stored, each with its last state: save, the channel of handle_save and
\* the buffer of the database lose nothing between them ("make sure states are saved").
\* This is about instances with at most one call of the save method at a time: two calls
\* that overlap may write the older of two states last, since nothing orders their writes.
ShutdownKeepsStates ==
  phase = "down" /\ calm /\ InstantInOrder =>
    \A o \in Oid : /\ mem[o] # 0 <=> o \in cfg
                   /\ mem[o] \notin {0, Fresh} => st[o] = mem[o]

\* Nothing is left of a destroyed item in a database, neither its configuration nor its
\* state, once the tasks that were at work have ended (destroy_inventory_item), nor
\* after a crash.  In the registry a save under way may write the state once more.
DestroyedLeavesNothing ==
  Db /\ phase = "up" /\ Idle => \A o \in Oid : mem[o] = 0 => o \notin cfg /\ st[o] = 0

============================================================================
