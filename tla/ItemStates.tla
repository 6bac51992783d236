----------------------------- MODULE ItemStates -----------------------------
(***************************************************************************)
(* The state of one local item (ItemState, eva/src/items.rs) under the     *)
(* operations that change it and announce it on the bus (eva/src/core.rs): *)
(* raw state events, operations on lvars, actions, deployments.            *)
(*                                                                         *)
(* Every operation changes the state under the mutex of the item, copies   *)
(* it and publishes the copy later.  state_processor_lock is to keep the   *)
(* order of the publications; deploying an item puts a new object with a   *)
(* copy of the state into the inventory.  Objects are identified by a      *)
(* reference, and one nobody refers to is free to be allocated again.      *)
(***************************************************************************)
EXTENDS Integers

CONSTANTS Ref, NoRef, \* objects of the item
          Value,      \* numbers an item may have as its value
          MaxInRange, \* the end of the range that the item's logic may have
          No,         \* an optional field that is not given
          Blank,      \* Value::Unit
          Handler,    \* raw_state_and_action_handler
          Actor,      \* calls and tasks of actions
          LvarCaller, \* callers of lvar_op
          Deployer,   \* callers of deploy_local_items
          Announcer,  \* callers of announce_local_initial, force_announce_state
          Setting     \* what the item is and who deals with it: records [kind, tasks,
                      \* events, others (may events of other items set it?),
                      \* configs (that may be deployed), time (bound of the clock)]

Task == Handler \union Actor \union LvarCaller \union Deployer \union Announcer

\* There is an object, no reference and no value say "none", and a task has one kind of
\* work.
ASSUME Objects == Ref # {} /\ NoRef \notin Ref /\ No \notin Value
ASSUME Tasks ==
  /\ \A s \in Setting : s.tasks \subseteq Task
  /\ (Handler \union Actor) \intersect (LvarCaller \union Deployer \union Announcer) = {}
  /\ Handler \intersect Actor = {}
Status == {-1, 0, 1}
Error == -1

VARIABLES set,                         \* the setting, which does not change
          now,                         \* monotonic_ns, which numbers the changes of a state
          inv,                         \* the object in the inventory
          status, value, act, ieid,    \* the state of an object
          ranged,                      \* has the object's logic a range?
          enabled,                     \* is the object enabled?
          stp,                         \* holders of state_processor_lock
          reading,                     \* holders of the inventory's read lock
          announced,                   \* the last state published on the bus
          pc, ref, event, copy         \* a task: its place, object, event and copy

state == <<status, value, act, ieid>>
object == <<state, ranged, enabled>>
vars == <<set, now, inv, object, stp, reading, announced, pc, ref, event, copy>>

Snapshot(r) == [status |-> status[r], value |-> value[r], act |-> act[r], ieid |-> ieid[r]]
NoCopy == [status |-> 0, value |-> Blank, act |-> 0, ieid |-> 0]

----------------------------------------------------------------------------
\* A configured item, whose state has been announced
Init ==
  /\ set \in Setting
  /\ now = 1
  /\ inv = CHOOSE r \in Ref : TRUE
  /\ status = [r \in Ref |-> 1] /\ value = [r \in Ref |-> Blank]
  /\ act = [r \in Ref |-> 0] /\ ieid = [r \in Ref |-> 1]
  /\ \E cfg \in set.configs : ranged = [r \in Ref |-> cfg.ranged]
  /\ enabled = [r \in Ref |-> TRUE]
  /\ stp = {} /\ reading = {}
  /\ announced = Snapshot(inv)
  /\ pc = [t \in Task |-> "idle"]
  /\ ref = [t \in Task |-> NoRef]
  /\ event = [t \in Task |-> No]
  /\ copy = [t \in Task |-> NoCopy]

\* IEID::generate
Tick == now < set.time /\ now' = now + 1

InRange(v) == v \in Value /\ v <= MaxInRange

\* validate_logic: a range wants a number
ValidateLogic(r, v) == ranged[r] => InRange(v)

\* The state of r becomes (s, v, a) with a new IEID, and task t has a copy of it.
Change(t, r, s, v, a) ==
  /\ Tick
  /\ status' = [status EXCEPT ![r] = s]
  /\ value' = [value EXCEPT ![r] = v]
  /\ act' = [act EXCEPT ![r] = a]
  /\ ieid' = [ieid EXCEPT ![r] = now']
  /\ copy' = [copy EXCEPT ![t] = [status |-> s, value |-> v, act |-> a, ieid |-> now']]

Or(opt, default) == IF opt = No THEN default ELSE opt

Matches(r, e) == e.cmpStatus \in {No, status[r]} /\ e.cmpValue \in {No, value[r]}

\* The status and the value of an event, after its comparisons
EventStatus(r, e) == IF Matches(r, e) THEN e.status ELSE Or(e.elseStatus, Error)
EventValue(r, e) == IF Matches(r, e) THEN e.value ELSE e.elseValue

\* Faulty variant of OutOfRange: a value that is not given is in the range.
OutOfRangeGiven(r, e) ==
  /\ EventStatus(r, e) # Error
  /\ EventValue(r, e) # No /\ ~ValidateLogic(r, EventValue(r, e))

\* set_from_raw: a value outside the range is not taken and the status is set to
\* an error.  An event with a good status must bring a value if there is a range.
OutOfRange(r, e) ==
  EventStatus(r, e) # Error /\ ~ValidateLogic(r, EventValue(r, e))
NewStatus(r, e) == IF OutOfRange(r, e) THEN Error ELSE EventStatus(r, e)
NewValue(r, e) == IF OutOfRange(r, e) THEN value[r] ELSE Or(EventValue(r, e), value[r])
Modified(r, e) ==
  \/ NewStatus(r, e) # status[r] \/ NewValue(r, e) # value[r]
  \/ OutOfRange(r, e) \/ e.newTime

Goto(t, l) == pc' = [pc EXCEPT ![t] = l]

\* A task ends and drops its guards.
Return(t) ==
  /\ Goto(t, "idle")
  /\ ref' = [ref EXCEPT ![t] = NoRef]
  /\ event' = [event EXCEPT ![t] = No]
  /\ copy' = [copy EXCEPT ![t] = NoCopy]
  /\ stp' = stp \ {t}
  /\ reading' = reading \ {t}

\* process_new_state: the copy is published.
Publish(t, l) ==
  /\ pc[t] = l
  /\ announced' = copy[t]
  /\ Return(t)
  /\ UNCHANGED <<now, inv, object>>

----------------------------------------------------------------------------
(* Raw events *)

\* A disabled item takes only events with Force::Full.
Accepts(r, e) == enabled[r] \/ e.force = "full"

\* update_state_from_raw: the item is looked up, the inventory is let go.
RawLookup(t, e) ==
  /\ pc[t] = "idle" /\ inv # NoRef /\ Accepts(inv, e)
  /\ ref' = [ref EXCEPT ![t] = inv]
  /\ event' = [event EXCEPT ![t] = e]
  /\ Goto(t, "raw_lock")
  /\ UNCHANGED <<now, inv, object, stp, reading, announced, copy>>

\* Faulty variant of RawLock: the lock is not taken
RawLockNone(t) ==
  /\ pc[t] = "raw_lock"
  /\ Goto(t, "raw_set")
  /\ UNCHANGED <<now, inv, object, stp, reading, announced, ref, event, copy>>

RawLock(t) ==
  /\ pc[t] = "raw_lock" /\ stp = {}
  /\ stp' = {t}
  /\ Goto(t, "raw_set")
  /\ UNCHANGED <<now, inv, object, reading, announced, ref, event, copy>>

\* process_modified, SetOther or SetOtherValueDelta: another event sets this item.
\* The inventory stays read-locked.  The state processor lock is not taken; only
\* a bulk frame has it already.
OtherLookup(t, e, bulk) ==
  /\ set.others
  /\ pc[t] = "idle" /\ inv # NoRef /\ Accepts(inv, e)
  /\ bulk => stp = {}
  /\ stp' = IF bulk THEN {t} ELSE stp
  /\ reading' = reading \union {t}
  /\ ref' = [ref EXCEPT ![t] = inv]
  /\ event' = [event EXCEPT ![t] = e]
  /\ Goto(t, "raw_set")
  /\ UNCHANGED <<now, inv, object, announced, copy>>

\* process_raw_state up to the copy of the state.  An lvar with status 0 is left
\* alone, and an event that modifies nothing ends here, unless it is forced.
RawSet(t) ==
  /\ pc[t] = "raw_set"
  /\ LET r == ref[t]
         e == event[t] IN
     IF /\ e.force = "none"
        /\ (set.kind = "lvar" /\ status[r] = 0) \/ ~Modified(r, e)
     THEN Return(t) /\ UNCHANGED <<now, state>>
     ELSE /\ Change(t, r, NewStatus(r, e), NewValue(r, e), act[r])
          /\ Goto(t, "raw_announce")
          /\ UNCHANGED <<stp, reading, ref, event>>
  /\ UNCHANGED <<inv, ranged, enabled, announced>>

RawAnnounce(t) == Publish(t, "raw_announce")

RawStep(t) ==
  \/ \E e \in set.events : RawLookup(t, e)
  \/ \E e \in set.events, bulk \in BOOLEAN : OtherLookup(t, e, bulk)
  \/ RawLock(t) \/ RawSet(t) \/ RawAnnounce(t)

----------------------------------------------------------------------------
(* Actions *)

\* Core::action, and the end of its task: both locks are taken.
ActLock(t) ==
  /\ set.kind = "unit" /\ inv # NoRef
  /\ pc[t] = "acting" \/ (pc[t] = "idle" /\ enabled[inv])
  /\ stp = {}
  /\ stp' = {t}
  /\ reading' = reading \union {t}
  /\ ref' = [ref EXCEPT ![t] = inv]
  /\ Goto(t, IF pc[t] = "idle" THEN "act_incr" ELSE "act_decr")
  /\ UNCHANGED <<now, inv, object, announced, event, copy>>

\* act_incr, act_decr
ActSet(t) ==
  /\ pc[t] \in {"act_incr", "act_decr"}
  /\ LET r == ref[t]
         a == IF pc[t] = "act_incr" THEN act[r] + 1
              ELSE IF act[r] = 0 THEN 0 ELSE act[r] - 1
     IN  Change(t, r, status[r], value[r], a)
  /\ Goto(t, IF pc[t] = "act_incr" THEN "act_started" ELSE "act_ended")
  /\ UNCHANGED <<inv, ranged, enabled, stp, reading, announced, ref, event>>

\* The start is announced, the locks are dropped and the action runs.
ActStarted(t) ==
  /\ pc[t] = "act_started"
  /\ announced' = copy[t]
  /\ Goto(t, "acting")
  /\ ref' = [ref EXCEPT ![t] = NoRef]
  /\ copy' = [copy EXCEPT ![t] = NoCopy]
  /\ stp' = stp \ {t} /\ reading' = reading \ {t}
  /\ UNCHANGED <<now, inv, object, event>>

ActEnded(t) == Publish(t, "act_ended")

\* The unit is gone when the action ends.
ActOrphaned(t) ==
  /\ pc[t] = "acting" /\ inv = NoRef
  /\ Return(t)
  /\ UNCHANGED <<now, inv, object, announced>>

ActStep(t) == ActLock(t) \/ ActSet(t) \/ ActStarted(t) \/ ActEnded(t) \/ ActOrphaned(t)

----------------------------------------------------------------------------
(* Lvars *)

LvarLookup(t) ==
  /\ set.kind = "lvar" /\ pc[t] = "idle" /\ inv # NoRef /\ enabled[inv]
  /\ ref' = [ref EXCEPT ![t] = inv]
  /\ Goto(t, "lvar_set")
  /\ UNCHANGED <<now, inv, object, stp, reading, announced, event, copy>>

Highest == CHOOSE v \in Value : \A w \in Value : w <= v
Lowest == CHOOSE v \in Value : \A w \in Value : w >= v

\* Set, Reset, Clear, Toggle, Increment, Decrement; i64 bounds stop the last two.
\* A value that is not a number counts as 0.
LvarResult(r, op) ==
  LET n == IF value[r] \in Value THEN value[r] ELSE 0 IN
  CASE op = "set"    -> {<<s, v>> : s \in Status, v \in Value}
    [] op = "reset"  -> {<<1, value[r]>>}
    [] op = "clear"  -> {<<0, value[r]>>}
    [] op = "toggle" -> {<<IF status[r] = 0 THEN 1 ELSE 0, value[r]>>}
    [] op = "incr"   -> IF n = Highest THEN {} ELSE {<<status[r], n + 1>>}
    [] op = "decr"   -> IF n = Lowest THEN {} ELSE {<<status[r], n - 1>>}

LvarSet(t, op) ==
  /\ pc[t] = "lvar_set"
  /\ LET r == ref[t] IN
     \/ /\ LvarResult(r, op) = {}
        /\ Return(t) /\ UNCHANGED <<now, state>>
     \/ \E sv \in LvarResult(r, op) :
          /\ Change(t, r, sv[1], sv[2], act[r])
          /\ Goto(t, "lvar_announce")
          /\ UNCHANGED <<stp, reading, ref, event>>
  /\ UNCHANGED <<inv, ranged, enabled, announced>>

LvarAnnounce(t) == Publish(t, "lvar_announce")

LvarStep(t) ==
  \/ LvarLookup(t) \/ LvarAnnounce(t)
  \/ \E op \in {"set", "reset", "clear", "toggle", "incr", "decr"} : LvarSet(t, op)

----------------------------------------------------------------------------
(* Deployments *)

Free(r) == r # inv /\ \A t \in Task : ref[t] # r

\* Faulty variant of Deploy: the state starts anew
DeployAnew(t, cfg, r) ==
  /\ pc[t] = "idle" /\ reading = {} /\ Free(r)
  /\ status' = [status EXCEPT ![r] = Or(cfg.status, 1)]
  /\ value' = [value EXCEPT ![r] = Or(cfg.value, Blank)]
  /\ act' = [act EXCEPT ![r] = 0]
  /\ ieid' = [ieid EXCEPT ![r] = 0]
  /\ ranged' = [ranged EXCEPT ![r] = cfg.ranged]
  /\ enabled' = [enabled EXCEPT ![r] = TRUE]
  /\ inv' = r
  /\ ref' = [ref EXCEPT ![t] = r]
  /\ Goto(t, "deploy_lock")
  /\ UNCHANGED <<now, stp, reading, announced, event, copy>>

\* append_item_from_config_data under the write lock: a new object with the state
\* of the old one, act excepted, and with the fields of the configuration.
Deploy(t, cfg, r) ==
  /\ pc[t] = "idle" /\ reading = {} /\ Free(r)
  /\ IF inv = NoRef
     THEN /\ Tick
          /\ status' = [status EXCEPT ![r] = Or(cfg.status, 1)]
          /\ value' = [value EXCEPT ![r] = Or(cfg.value, Blank)]
          /\ ieid' = [ieid EXCEPT ![r] = now']
     ELSE /\ status' = [status EXCEPT ![r] = Or(cfg.status, status[inv])]
          /\ value' = [value EXCEPT ![r] = Or(cfg.value, value[inv])]
          /\ ieid' = [ieid EXCEPT ![r] = ieid[inv]]
          /\ UNCHANGED now
  /\ act' = [act EXCEPT ![r] = 0]
  /\ ranged' = [ranged EXCEPT ![r] = cfg.ranged]
  /\ enabled' = [enabled EXCEPT ![r] = TRUE]
  /\ inv' = r
  /\ ref' = [ref EXCEPT ![t] = r]
  /\ Goto(t, "deploy_lock")
  /\ UNCHANGED <<stp, reading, announced, event, copy>>

\* After the configuration is saved the state is copied under the lock.
DeployLock(t) ==
  /\ pc[t] = "deploy_lock" /\ stp = {}
  /\ stp' = {t}
  /\ copy' = [copy EXCEPT ![t] = Snapshot(ref[t])]
  /\ Goto(t, "deploy_announce")
  /\ UNCHANGED <<now, inv, object, reading, announced, ref, event>>

DeployAnnounce(t) == Publish(t, "deploy_announce")

\* remove_item under the write lock
Undeploy(t) ==
  /\ pc[t] = "idle" /\ reading = {} /\ inv # NoRef
  /\ inv' = NoRef
  /\ UNCHANGED <<now, object, stp, reading, announced, pc, ref, event, copy>>

\* set_local_items_enabled
SetEnabled(t, b) ==
  /\ pc[t] = "idle" /\ inv # NoRef
  /\ enabled' = [enabled EXCEPT ![inv] = b]
  /\ UNCHANGED <<now, inv, state, ranged, stp, reading, announced, pc, ref, event, copy>>

DeployStep(t) ==
  \/ \E b \in BOOLEAN : SetEnabled(t, b)
  \/ \E cfg \in set.configs, r \in Ref : Deploy(t, cfg, r)
  \/ DeployLock(t) \/ DeployAnnounce(t) \/ Undeploy(t)

----------------------------------------------------------------------------
(* announce_local_initial, force_announce_state: no state processor lock *)

AnnounceCopy(t) ==
  /\ pc[t] = "idle" /\ inv # NoRef
  /\ reading' = reading \union {t}
  /\ copy' = [copy EXCEPT ![t] = Snapshot(inv)]
  /\ Goto(t, "announce")
  /\ UNCHANGED <<now, inv, object, stp, announced, ref, event>>

AnnounceItem(t) == Publish(t, "announce")

----------------------------------------------------------------------------
Next ==
  /\ \E t \in set.tasks :
       \/ t \in Handler /\ RawStep(t)
       \/ t \in Actor /\ ActStep(t)
       \/ t \in LvarCaller /\ LvarStep(t)
       \/ t \in Deployer /\ DeployStep(t)
       \/ t \in Announcer /\ (AnnounceCopy(t) \/ AnnounceItem(t))
  /\ UNCHANGED set

Spec == Init /\ [][Next]_vars

----------------------------------------------------------------------------
(* Properties *)

\* Only raw events of the item itself and actions change and announce it.
EventsAndActions == set.tasks \subseteq Handler \union Actor /\ ~set.others

\* "state processor lock to prevent data racing from actions and deploys": once
\* nobody is about to change or to publish the state, the last publication is the
\* state of the item; services and replicas have nothing older.  It holds among
\* raw events and actions: lvar_op, events of other items, deployments (an event
\* may still have the old object) and forced announcements break it.
AnnouncedIsCurrent ==
  EventsAndActions /\ (\A t \in Task : pc[t] \in {"idle", "raw_lock", "acting"}) =>
    announced = Snapshot(inv)

\* "Each of the methods (except create) MUST apply the item logic": an item with a
\* range has a value in the range, an error status, or has never been set.  Raw
\* events apply it; lvar_op and a deployment with another range do not.
LogicApplied ==
  set.tasks \subseteq Handler \union Actor /\ ranged[inv] =>
    status[inv] = Error \/ InRange(value[inv]) \/ value[inv] = Blank

\* Replicas take a state only if its IEID is newer: a change of the item's state in
\* place gets a newer IEID, and an object that replaces another one is not older,
\* whichever events, calls and deployments meet.  Among raw events and actions the
\* publications never go back to an older state either.
StatesGoForward ==
  [][/\ EventsAndActions => announced'.ieid >= announced.ieid
     /\ \A r \in Ref : Snapshot(r)' # Snapshot(r) /\ inv = r /\ inv' = r => ieid'[r] > ieid[r]
     /\ inv # NoRef /\ inv' # NoRef => ieid'[inv'] >= ieid[inv]]_vars
============================================================================
