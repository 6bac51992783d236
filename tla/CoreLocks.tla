----------------------------- MODULE CoreLocks -----------------------------
(***************************************************************************)
(* How the operations of the core take its two async locks                 *)
(* (eva/src/core.rs): "inventory", a fair read-write lock, and             *)
(* "state_processor_lock", a mutex that nobody may take twice.             *)
(*                                                                         *)
(* An operation is the sequence of its lock steps, in the order of the     *)
(* code.  A guard lives as long as the Rust value: to the end of its block *)
(* or, for a temporary in the head of a "for" or an "if let", to the end   *)
(* of the body.  Both locks hand themselves over in the order of arrival,  *)
(* so a reader queues behind a writer that waits.                          *)
(***************************************************************************)
EXTENDS Naturals, Sequences, FiniteSets

CONSTANTS Handler,      \* raw_state_and_action_handler: handles one event at a time
          Caller,       \* RPC calls and spawned tasks, which run concurrently
          HandlerOps,   \* sets of operations, one of which the handlers start
          CallerOp,     \* operations the callers start
          Databases     \* may the inventory be kept in a database? (a set of answers)

LockTask == Handler \union Caller

VARIABLES useDb,   \* is it? (fixed when the core starts)
          ops,     \* the operations the handlers start (fixed likewise)
          script,  \* the lock steps a task still has to take
          readers, writer,   \* tasks that hold the inventory
          stpLock,     \* tasks that hold the state processor lock (at most one)
          invQ,    \* waiters of the inventory: <<task, "read" or "write">>
          stpQ     \* waiters of the state processor lock

locksVars == <<useDb, ops, script, readers, writer, stpLock, invQ, stpQ>>

----------------------------------------------------------------------------
(* The operations: those of events, and those of calls and spawned tasks   *)

EventOp == {"raw", "raw_other", "raw_new", "bulk", "bulk_other", "bulk_delta", "bulk_new"}
CallOp == {"deploy", "action", "lvar_new", "write", "read"}

ASSUME LocksParameters == HandlerOps \subseteq SUBSET EventOp /\ CallerOp \subseteq CallOp

Read == <<"read", "inv-">>
Write == <<"write", "inv-">>
Stp == <<"stp", "stp-">>

\* deploy_local_items for one item.  With a database the state is announced
\* under the read guard of the "if let" that looks the item up again.
Deploy(lock) ==
  LET announce == IF lock THEN Stp ELSE <<>>
  IN  Write \o (IF useDb THEN <<"read">> \o announce \o <<"inv-">> ELSE announce)

\* process_modified: the other items are set under the read guard of the head
\* of the loop; a missing target of a delta is created.
Modified(om) ==
  CASE om = "none"  -> <<>>
    [] om = "other" -> Read
    [] om = "new"   -> Read \o Deploy(TRUE)

\* update_state_from_raw and process_raw_state with its own lock
RawState(om) == Read \o Stp \o Modified(om)

\* update_state_from_raw_bulk: one lock for all events of the frame
RawBulk(om) == Read \o <<"stp">> \o Modified(om) \o <<"stp-">>

\* the same, for items that are to be created
RawBulkNew == Read \o <<"stp">> \o Deploy(FALSE) \o <<"stp-">>

\* Faulty variant of ActionState: the locks in the other order.
ActionStateStpFirst == <<"stp", "read", "inv-", "stp-">>

\* Core::action, and the end of the task it spawns: act is changed and announced
\* under both locks.
ActionState == <<"read", "stp", "stp-", "inv-">>

\* create_local_item, undeploy_local_items, set_source_sensor, append of a remote
\* item; lvar_op of a new lvar reads first.
CreateItem == Write
LvarNew == Read \o CreateItem

Operation(op) ==
  CASE op = "raw"        -> RawState("none")
    [] op = "raw_other"  -> RawState("other")
    [] op = "raw_new"    -> RawState("new")
    [] op = "bulk"       -> RawBulk("none")
    [] op = "bulk_other" -> RawBulk("other")
    [] op = "bulk_delta" -> RawBulk("new")
    [] op = "bulk_new"   -> RawBulkNew
    [] op = "deploy"     -> Deploy(TRUE)
    [] op = "action"     -> ActionState
    [] op = "lvar_new"   -> LvarNew
    [] op = "write"      -> CreateItem
    [] op = "read"       -> Read

----------------------------------------------------------------------------
(* The locks *)

LocksInit ==
  /\ useDb \in Databases /\ ops \in HandlerOps
  /\ script = [t \in LockTask |-> <<>>]
  /\ readers = {} /\ writer = {} /\ stpLock = {}
  /\ invQ = <<>> /\ stpQ = <<>>

Queued(q) == {q[i][1] : i \in DOMAIN q}
Waiting == Queued(invQ) \union Queued(stpQ)

\* A message or a call arrives.
StartOp(t, op) ==
  /\ script[t] = <<>>
  /\ op \in IF t \in Handler THEN ops ELSE CallerOp
  /\ script' = [script EXCEPT ![t] = Operation(op)]
  /\ UNCHANGED <<useDb, ops, readers, writer, stpLock, invQ, stpQ>>

AtStep(t, step) == script[t] # <<>> /\ t \notin Waiting /\ Head(script[t]) = step
Done(t) == script' = [script EXCEPT ![t] = Tail(@)]

\* read().await, write().await, lock().await: a place at the end of the queue
Enqueue(t) ==
  /\ \/ \E mode \in {"read", "write"} :
          /\ AtStep(t, mode)
          /\ invQ' = Append(invQ, <<t, mode>>)
          /\ UNCHANGED stpQ
     \/ /\ AtStep(t, "stp")
        /\ stpQ' = Append(stpQ, <<t, "stp">>)
        /\ UNCHANGED invQ
  /\ UNCHANGED <<useDb, ops, script, readers, writer, stpLock>>

\* Faulty variant of GrantInv: a reader does not wait for the writers before it.
GrantInvReaders(t) ==
  /\ writer = {}
  /\ \E i \in DOMAIN invQ :
       /\ invQ[i][1] = t
       /\ \/ /\ invQ[i][2] = "read"
             /\ readers' = readers \union {t}
             /\ UNCHANGED writer
          \/ /\ invQ[i][2] = "write" /\ i = 1 /\ readers = {}
             /\ writer' = {t}
             /\ UNCHANGED readers
       /\ invQ' = SubSeq(invQ, 1, i - 1) \o SubSeq(invQ, i + 1, Len(invQ))
  /\ Done(t)
  /\ UNCHANGED <<useDb, ops, stpLock, stpQ>>

\* The first of the queue gets the lock as soon as nobody is in its way.
GrantInv(t) ==
  /\ invQ # <<>> /\ invQ[1][1] = t
  /\ writer = {}
  /\ \/ /\ invQ[1][2] = "read"
        /\ readers' = readers \union {t}
        /\ UNCHANGED writer
     \/ /\ invQ[1][2] = "write" /\ readers = {}
        /\ writer' = {t}
        /\ UNCHANGED readers
  /\ invQ' = Tail(invQ)
  /\ Done(t)
  /\ UNCHANGED <<useDb, ops, stpLock, stpQ>>

GrantStp(t) ==
  /\ stpQ # <<>> /\ stpQ[1][1] = t
  /\ stpLock = {}
  /\ stpLock' = {t}
  /\ stpQ' = Tail(stpQ)
  /\ Done(t)
  /\ UNCHANGED <<useDb, ops, readers, writer, invQ>>

\* A guard is dropped.
Release(t) ==
  /\ \/ /\ AtStep(t, "inv-")
        /\ readers' = readers \ {t} /\ writer' = writer \ {t}
        /\ UNCHANGED stpLock
     \/ /\ AtStep(t, "stp-")
        /\ stpLock' = stpLock \ {t}
        /\ UNCHANGED <<readers, writer>>
  /\ Done(t)
  /\ UNCHANGED <<useDb, ops, invQ, stpQ>>

LockingStep(t) == Enqueue(t) \/ GrantInv(t) \/ GrantStp(t) \/ Release(t)

LocksNext ==
  \/ \E t \in LockTask, op \in ops \union CallerOp : StartOp(t, op)
  \/ \E t \in LockTask : LockingStep(t)

LocksSpec == LocksInit /\ [][LocksNext]_locksVars

\* A task that can run is scheduled again and again; the locks are fair.
LocksFairSpec == LocksSpec /\ \A t \in LockTask : WF_locksVars(LockingStep(t))

----------------------------------------------------------------------------
(* Properties *)

\* The tasks that must do something before a waiting task can go on: those that
\* hold the lock or queue before it, readers among themselves excepted.
WaitsFor(t) ==
  LET ahead(i) == {invQ[j][1] : j \in {k \in 1..(i - 1) :
                      invQ[k][2] = "write" \/ invQ[i][2] = "write"}}
      inv == UNION {writer \union ahead(i)
                      \union (IF invQ[i][2] = "write" THEN readers ELSE {})
                    : i \in {k \in DOMAIN invQ : invQ[k][1] = t}}
      mtx == UNION {stpLock \union {stpQ[j][1] : j \in 1..(i - 1)}
                    : i \in {k \in DOMAIN stpQ : stpQ[k][1] = t}}
  IN  inv \union mtx

\* If operations wait for each other, or one for itself, the event handler is one
\* of them, in a bulk frame and with the state processor lock in its hand.  An
\* action that changes act, a deployment and a single raw event take the inventory
\* first and the state processor lock last, and a single event drops the latter
\* before it looks for the items that depend on the item: they never do.
CircularWaitOnlyInBulk ==
  \A S \in (SUBSET LockTask) \ {{}} :
    (\A t \in S : WaitsFor(t) \intersect S # {}) => S \intersect Handler \intersect stpLock # {}

\* Every event that is handled and every call that is made ends, unless bulk frames
\* create items or set items that depend on others.
Ended(t) ==
  ops \intersect {"bulk_other", "bulk_delta", "bulk_new"} = {} => script[t] = <<>>
============================================================================
