-------------------------- MODULE ItemStatesProofs --------------------------
(***************************************************************************)
(* Proofs about module ItemStates, for every set of events, tasks, objects *)
(* and values: a state never goes back, the range of an item is kept by    *)
(* raw events, and among raw events and actions state_processor_lock keeps *)
(* what is published equal to what the item has.                           *)
(***************************************************************************)
EXTENDS ItemStates, TLAPS

\* The states are functions on the objects, and no IEID is ahead of the clock.
ClockInv ==
  /\ set \in Setting /\ now \in Nat /\ inv \in Ref \union {NoRef}
  /\ DOMAIN status = Ref /\ DOMAIN value = Ref /\ DOMAIN act = Ref /\ DOMAIN ranged = Ref
  /\ DOMAIN ieid = Ref /\ \A r \in Ref : ieid[r] \in Nat /\ ieid[r] <= now

\* What a step does to the versions, whatever the task
Forward ==
  /\ \A r \in Ref : Snapshot(r)' # Snapshot(r) /\ inv = r /\ inv' = r => ieid'[r] > ieid[r]
  /\ inv # NoRef /\ inv' # NoRef => ieid'[inv'] >= ieid[inv]

\* A change of an object has the new time of the clock.
LEMMA ChangeForward ==
  ASSUME ClockInv, NEW t, NEW r, NEW s, NEW v, NEW a, Change(t, r, s, v, a),
         inv' = inv, ranged' = ranged, set' = set
  PROVE  ClockInv' /\ Forward
<1>1. now \in Nat /\ now' = now + 1 /\ inv \in Ref \union {NoRef}
  BY DEF ClockInv, Change, Tick
<1>2. /\ DOMAIN ieid' = Ref
      /\ \A x \in Ref : ieid'[x] \in Nat /\ ieid'[x] <= now' /\ ieid'[x] >= ieid[x]
  BY <1>1 DEF ClockInv, Change
<1>3. \A x \in Ref : x # r => Snapshot(x)' = Snapshot(x)
  BY DEF Change, ClockInv, Snapshot
<1>4. r \in Ref => ieid'[r] > ieid[r]
  BY <1>1 DEF Change, ClockInv
<1>5. DOMAIN status' = Ref /\ DOMAIN value' = Ref /\ DOMAIN act' = Ref
  BY DEF Change, ClockInv
<1>6. ClockInv'
  BY <1>1, <1>2, <1>5 DEF ClockInv
<1>7. QED
  BY <1>2, <1>3, <1>4, <1>6, Objects DEF Forward, ClockInv

\* A step that leaves the objects alone leaves the versions alone.
LEMMA SameForward ==
  ASSUME ClockInv, UNCHANGED <<set, now, inv, state, ranged>>
  PROVE  ClockInv' /\ Forward
BY Objects DEF ClockInv, Forward, Snapshot, state

\* A new object has the version of the old one, or of the clock.
LEMMA DeployForward ==
  ASSUME ClockInv, NEW t, NEW cfg, NEW r \in Ref, Deploy(t, cfg, r), set' = set
  PROVE  ClockInv' /\ Forward
<1>1. inv' = r /\ r # inv /\ NoRef \notin Ref
  BY Objects DEF Deploy, Free
<1>2. CASE inv = NoRef
  BY <1>1, <1>2 DEF Deploy, ClockInv, Forward, Tick
<1>3. CASE inv # NoRef
  BY <1>1, <1>3 DEF Deploy, ClockInv, Forward
<1>4. QED
  BY <1>2, <1>3

\* Every step keeps ClockInv and goes forward.
LEMMA StepForward == ASSUME ClockInv, Next PROVE ClockInv' /\ Forward
<1>0. set' = set
  BY DEF Next
<1>1. ASSUME NEW t, RawStep(t) PROVE ClockInv' /\ Forward
  <2>1. CASE RawSet(t)
    <3>1. CASE UNCHANGED <<now, state>>
      BY <2>1, <3>1, <1>0, SameForward DEF RawSet
    <3>2. CASE Change(t, ref[t], NewStatus(ref[t], event[t]), NewValue(ref[t], event[t]),
                      act[ref[t]])
      <4> HIDE <3>2
      <4>1. UNCHANGED <<inv, ranged>>
        BY <2>1 DEF RawSet
      <4>2. QED
        BY <3>2, <4>1, <1>0, ChangeForward
    <3>3. QED
      BY <2>1, <3>1, <3>2 DEF RawSet
  <2>2. CASE ~RawSet(t)
    <3>1. UNCHANGED <<now, inv, object>>
      BY <1>1, <2>2 DEF RawStep, RawLookup, OtherLookup, RawLock, RawAnnounce, Publish
    <3>2. QED
      BY <3>1, <1>0, SameForward DEF object
  <2>3. QED
    BY <2>1, <2>2
<1>2. ASSUME NEW t, ActStep(t) PROVE ClockInv' /\ Forward
  <2>1. CASE ActSet(t)
    <3>1. PICK a : Change(t, ref[t], status[ref[t]], value[ref[t]], a)
      BY <2>1 DEF ActSet
    <3>2. UNCHANGED <<inv, ranged>>
      BY <2>1 DEF ActSet
    <3>3. QED
      BY <3>1, <3>2, <1>0, ChangeForward
  <2>2. CASE ~ActSet(t)
    <3>1. UNCHANGED <<now, inv, object>>
      BY <1>2, <2>2 DEF ActStep, ActLock, ActStarted, ActEnded, ActOrphaned, Publish
    <3>2. QED
      BY <3>1, <1>0, SameForward DEF object
  <2>3. QED
    BY <2>1, <2>2
<1>3. ASSUME NEW t, LvarStep(t) PROVE ClockInv' /\ Forward
  <2>1. ASSUME NEW op, LvarSet(t, op) PROVE ClockInv' /\ Forward
    <3>1. UNCHANGED <<inv, ranged>>
      BY <2>1 DEF LvarSet
    <3>2. CASE UNCHANGED <<now, state>>
      BY <3>1, <3>2, <1>0, SameForward
    <3>3. ASSUME NEW sv, Change(t, ref[t], sv[1], sv[2], act[ref[t]])
          PROVE ClockInv' /\ Forward
      BY <3>1, <3>3, <1>0, ChangeForward
    <3>4. QED
      BY <2>1, <3>2, <3>3 DEF LvarSet
  <2>2. CASE LvarLookup(t) \/ LvarAnnounce(t)
    <3>1. UNCHANGED <<now, inv, object>>
      BY <2>2 DEF LvarLookup, LvarAnnounce, Publish
    <3>2. QED
      BY <3>1, <1>0, SameForward DEF object
  <2>3. QED
    BY <1>3, <2>1, <2>2 DEF LvarStep
<1>4. ASSUME NEW t, DeployStep(t) PROVE ClockInv' /\ Forward
  <2>1. ASSUME NEW cfg, NEW r \in Ref, Deploy(t, cfg, r) PROVE ClockInv' /\ Forward
    BY <2>1, <1>0, DeployForward
  <2>2. CASE Undeploy(t)
    BY <2>2, <1>0, Objects DEF Undeploy, ClockInv, Forward, object, state
  <2>3. CASE DeployLock(t) \/ DeployAnnounce(t) \/ \E b \in BOOLEAN : SetEnabled(t, b)
    <3>1. UNCHANGED <<now, inv, state, ranged>>
      BY <2>3 DEF DeployLock, DeployAnnounce, SetEnabled, Publish, object
    <3>2. QED
      BY <3>1, <1>0, SameForward
  <2>4. QED
    BY <1>4, <2>1, <2>2, <2>3 DEF DeployStep
<1>5. ASSUME NEW t, AnnounceCopy(t) \/ AnnounceItem(t) PROVE ClockInv' /\ Forward
  <2>1. UNCHANGED <<now, inv, object>>
    BY <1>5 DEF AnnounceCopy, AnnounceItem, Publish
  <2>2. QED
    BY <2>1, <1>0, SameForward DEF object
<1>6. QED
  BY <1>1, <1>2, <1>3, <1>4, <1>5 DEF Next

----------------------------------------------------------------------------
(* The item's logic *)

\* LogicApplied made inductive: without deployments the object stays, and every object
\* with a range has a value in it, an error, or no value.
LogicInv ==
  set.tasks \subseteq Handler \union Actor =>
    /\ inv \in Ref
    /\ \A r \in Ref : ranged[r] => status[r] = Error \/ InRange(value[r]) \/ value[r] = Blank

\* A raw event puts a value outside the range nowhere.
LEMMA RawInRange ==
  ASSUME NEW r, NEW e, ranged[r], status[r] = Error \/ InRange(value[r]) \/ value[r] = Blank
  PROVE  \/ NewStatus(r, e) = Error \/ InRange(NewValue(r, e))
         \/ NewValue(r, e) = Blank
<1>1. CASE OutOfRange(r, e)
  BY <1>1 DEF NewStatus
<1>2. CASE EventStatus(r, e) = Error
  BY <1>2 DEF NewStatus
<1>3. CASE ValidateLogic(r, EventValue(r, e)) /\ ~OutOfRange(r, e)
  BY <1>3, Objects DEF ValidateLogic, InRange, NewValue, Or
<1>4. QED
  BY <1>1, <1>2, <1>3 DEF OutOfRange

\* Every step keeps LogicInv.
LEMMA StepLogic == ASSUME ClockInv, LogicInv, Next PROVE LogicInv'
<1>1. SUFFICES ASSUME set.tasks \subseteq Handler \union Actor PROVE LogicInv'
  BY DEF LogicInv, Next
<1>2. PICK t \in set.tasks : RawStep(t) \/ ActStep(t)
  BY <1>1, Tasks DEF Next
<1>3. set' = set
  BY DEF Next
<1>4. CASE UNCHANGED <<inv, ranged, status, value>>
  BY <1>3, <1>4 DEF LogicInv
<1>5. CASE RawSet(t)
  <2>1. UNCHANGED <<inv, ranged>>
    BY <1>5 DEF RawSet
  <2>2. ASSUME Change(t, ref[t], NewStatus(ref[t], event[t]), NewValue(ref[t], event[t]),
                      act[ref[t]])
        PROVE  LogicInv'
    <3>1. \A r \in Ref : r # ref[t] => status'[r] = status[r] /\ value'[r] = value[r]
      BY <2>2 DEF Change, ClockInv
    <3>2. ref[t] \in Ref => /\ status'[ref[t]] = NewStatus(ref[t], event[t])
                            /\ value'[ref[t]] = NewValue(ref[t], event[t])
      BY <2>2 DEF Change, ClockInv
    <3>3. ASSUME NEW r \in Ref, ranged[r]
          PROVE  status'[r] = Error \/ InRange(value'[r]) \/ value'[r] = Blank
      BY <3>1, <3>2, <3>3, <1>1, RawInRange DEF LogicInv
    <3>4. QED
      BY <1>1, <1>3, <2>1, <3>3 DEF LogicInv, InRange
  <2>3. QED
    BY <1>4, <1>5, <2>1, <2>2 DEF RawSet, state
<1>6. CASE ActSet(t)
  <2>1. PICK a : Change(t, ref[t], status[ref[t]], value[ref[t]], a)
    BY <1>6 DEF ActSet
  <2>2. UNCHANGED <<inv, ranged>>
    BY <1>6 DEF ActSet
  <2>3. \A r \in Ref : status'[r] = status[r] /\ value'[r] = value[r]
    BY <2>1 DEF Change, ClockInv
  <2>4. QED
    BY <1>1, <1>3, <2>2, <2>3 DEF LogicInv, InRange
<1>7. QED
  BY <1>2, <1>4, <1>5, <1>6 DEF RawStep, ActStep, RawLookup, OtherLookup, RawLock, RawAnnounce,
     ActLock, ActStarted, ActEnded, ActOrphaned, Publish, object, state

----------------------------------------------------------------------------
(* The order of publications *)

\* Where a task has state_processor_lock, and where it has a copy to publish
Locked == {"raw_set", "raw_announce", "act_incr", "act_decr", "act_started", "act_ended"}
Announcing == {"raw_announce", "act_started", "act_ended"}

\* AnnouncedIsCurrent made inductive: the lock has one holder, it works on the object of
\* the inventory, its copy is the state of the object, and while nobody has a copy the
\* state was published.
LockInv ==
  EventsAndActions =>
    /\ inv \in Ref
    /\ DOMAIN pc = Task /\ DOMAIN ref = Task /\ DOMAIN copy = Task
    /\ \A t \in Task : /\ pc[t] \in Locked => stp = {t}
                       /\ pc[t] \in Locked \union {"raw_lock"} => ref[t] = inv
                       /\ pc[t] \in Announcing => copy[t] = Snapshot(inv)
    /\ (\A t \in Task : pc[t] \notin Announcing) => announced = Snapshot(inv)
    /\ announced.ieid \in Nat /\ announced.ieid <= ieid[inv]

\* What a step of a raw event or an action does to the publications
InOrder == EventsAndActions => announced'.ieid >= announced.ieid

\* A change of the object by the holder of the lock, which then has a copy of it
LEMMA ChangeLocked ==
  ASSUME ClockInv, LockInv, EventsAndActions, NEW t \in Task, pc[t] \in Locked, pc[t] \notin Announcing,
         NEW s, NEW v, NEW a, Change(t, ref[t], s, v, a),
         NEW l \in Announcing, Goto(t, l), UNCHANGED <<set, inv, stp, ref, announced>>
  PROVE  LockInv' /\ InOrder
<1>1. ref[t] = inv /\ inv \in Ref /\ stp = {t} /\ Announcing \subseteq Locked
  BY DEF LockInv, Locked, Announcing
<1>2. copy'[t] = Snapshot(inv)'
  BY <1>1 DEF Change, Snapshot, LockInv, ClockInv
<1>3. now' \in Nat /\ ieid'[inv] > ieid[inv] /\ ieid'[inv] \in Nat
  BY <1>1 DEF Change, ClockInv, Tick
<1>4. \A u \in Task \ {t} : pc'[u] = pc[u] /\ pc[u] \notin Locked
  BY <1>1 DEF Goto, LockInv
<1>5. pc'[t] = l /\ DOMAIN pc' = Task /\ DOMAIN copy' = Task /\ DOMAIN ref' = Task
  BY DEF Goto, Change, LockInv
<1>6. announced.ieid \in Nat /\ announced.ieid <= ieid'[inv] /\ announced' = announced
  BY <1>1, <1>3 DEF LockInv, ClockInv
<1>7. \A u \in Task : pc'[u] \in Locked \union {"raw_lock"} => ref'[u] = inv'
  BY <1>1, <1>4, <1>5 DEF LockInv
<1>8. QED
  BY <1>1, <1>2, <1>4, <1>5, <1>6, <1>7 DEF LockInv, InOrder, EventsAndActions

\* The holder of the lock publishes what it has, and lets the lock go.
LEMMA PublishLocked ==
  ASSUME ClockInv, LockInv, EventsAndActions, NEW t \in Task, pc[t] \in Announcing,
         announced' = copy[t], NEW l \in {"idle", "acting"}, Goto(t, l),
         ref' = [ref EXCEPT ![t] = NoRef], copy' = [copy EXCEPT ![t] = NoCopy],
         UNCHANGED <<set, inv, status, value, act, ieid>>
  PROVE  LockInv' /\ InOrder
<1>1. Announcing \subseteq Locked /\ l \notin Locked /\ l \notin Announcing /\ l # "raw_lock"
  BY DEF Announcing, Locked
<1>2. stp = {t} /\ copy[t] = Snapshot(inv) /\ inv \in Ref
  BY <1>1 DEF LockInv
<1>3. \A u \in Task \ {t} : pc'[u] = pc[u] /\ ref'[u] = ref[u] /\ pc[u] \notin Locked
  BY <1>2 DEF Goto, LockInv
<1>4. pc'[t] = l /\ DOMAIN pc' = Task /\ DOMAIN copy' = Task /\ DOMAIN ref' = Task
  BY DEF Goto, LockInv
<1>5. announced' = Snapshot(inv)' /\ announced'.ieid = ieid[inv] /\ ieid[inv] \in Nat
  BY <1>2 DEF Snapshot, ClockInv
<1>6. QED
  BY <1>1, <1>2, <1>3, <1>4, <1>5 DEF LockInv, InOrder, EventsAndActions

\* Every step keeps LockInv, and publishes no state older than the last one.
LEMMA StepLocked == ASSUME ClockInv, LockInv, Next PROVE LockInv' /\ InOrder
<1>1. SUFFICES ASSUME EventsAndActions PROVE LockInv' /\ InOrder
  BY DEF LockInv, Next, EventsAndActions, InOrder
<1>2. set' = set /\ set.tasks \subseteq Task
  BY Tasks DEF Next, ClockInv
<1>3. PICK t \in set.tasks : RawStep(t) \/ ActStep(t)
  BY <1>1, Tasks DEF Next, EventsAndActions
<1> t \in Task
  BY <1>2
<1> USE <1>1, <1>2
<1>4. ASSUME NEW e, RawLookup(t, e) PROVE LockInv' /\ InOrder
  BY <1>4 DEF RawLookup, Goto, LockInv, InOrder, EventsAndActions, Locked, Announcing, object, state,
     Snapshot
<1>5. ~\E e \in set.events, bulk \in BOOLEAN : OtherLookup(t, e, bulk)
  BY DEF OtherLookup, EventsAndActions
<1>6. CASE RawLock(t)
  BY <1>6 DEF RawLock, Goto, LockInv, InOrder, EventsAndActions, Locked, Announcing, object, state,
     Snapshot
<1>7. CASE RawSet(t)
  <2>1. pc[t] = "raw_set" /\ UNCHANGED <<inv, announced>>
    BY <1>7 DEF RawSet
  <2>2. pc[t] \in Locked /\ pc[t] \notin Announcing /\ "raw_announce" \in Announcing
    BY <2>1 DEF Locked, Announcing
  <2>3. CASE Return(t) /\ UNCHANGED <<now, state>>
    <3>1. stp = {t} /\ \A u \in Task \ {t} : pc[u] \notin Locked
      BY <2>2 DEF LockInv
    <3>2. QED
      BY <2>1, <2>2, <2>3, <3>1 DEF Return, Goto, state, LockInv, InOrder, EventsAndActions, Locked,
         Announcing, Snapshot
  <2>4. ASSUME Change(t, ref[t], NewStatus(ref[t], event[t]), NewValue(ref[t], event[t]),
                      act[ref[t]]),
               Goto(t, "raw_announce"), UNCHANGED <<stp, reading, ref, event>>
        PROVE  LockInv' /\ InOrder
    BY <2>1, <2>2, <2>4, ChangeLocked
  <2>5. QED
    BY <1>7, <2>3, <2>4 DEF RawSet
<1>8. CASE ActSet(t)
  <2>1. /\ pc[t] \in Locked /\ pc[t] \notin Announcing
        /\ UNCHANGED <<inv, stp, ref, announced>>
    BY <1>8 DEF ActSet, Locked, Announcing
  <2>2. PICK a : Change(t, ref[t], status[ref[t]], value[ref[t]], a)
    BY <1>8 DEF ActSet
  <2>3. PICK l \in Announcing : Goto(t, l)
    BY <1>8 DEF ActSet, Announcing
  <2>4. QED
    BY <2>1, <2>2, <2>3, ChangeLocked
<1>9. CASE RawAnnounce(t) \/ ActEnded(t)
  <2>1. pc[t] \in Announcing
    BY <1>9 DEF RawAnnounce, ActEnded, Publish, Announcing
  <2>2. /\ announced' = copy[t] /\ Goto(t, "idle") /\ ref' = [ref EXCEPT ![t] = NoRef]
        /\ copy' = [copy EXCEPT ![t] = NoCopy] /\ UNCHANGED <<set, inv, status, value, act, ieid>>
    BY <1>9 DEF RawAnnounce, ActEnded, Publish, Return, object, state
  <2>3. QED
    BY <2>1, <2>2, PublishLocked
<1>10. CASE ActStarted(t)
  <2>1. /\ pc[t] \in Announcing /\ Goto(t, "acting") /\ announced' = copy[t]
        /\ ref' = [ref EXCEPT ![t] = NoRef] /\ copy' = [copy EXCEPT ![t] = NoCopy]
        /\ UNCHANGED <<set, inv, status, value, act, ieid>>
    BY <1>10 DEF ActStarted, Announcing, object, state
  <2>2. QED
    BY <2>1, PublishLocked
<1>11. CASE ActLock(t)
  BY <1>11 DEF ActLock, Goto, LockInv, InOrder, EventsAndActions, Locked, Announcing, object, state,
     Snapshot
<1>12. ~ActOrphaned(t)
  BY Objects DEF ActOrphaned, LockInv
<1>13. QED
  BY <1>3, <1>4, <1>5, <1>6, <1>7, <1>8, <1>9, <1>10, <1>11, <1>12 DEF RawStep, ActStep

----------------------------------------------------------------------------
(* The theorems *)

\* The three invariants hold initially, and in every state.
LEMMA InitInv == Init => ClockInv /\ LogicInv /\ LockInv
<1> SUFFICES ASSUME Init PROVE ClockInv /\ LogicInv /\ LockInv
  OBVIOUS
<1>1. inv \in Ref
  BY Objects DEF Init
<1>2. ClockInv
  BY <1>1 DEF Init, ClockInv
<1>3. LogicInv
  BY <1>1 DEF Init, LogicInv
<1>4. LockInv
  BY <1>1 DEF Init, LockInv, Locked, Announcing, Snapshot
<1>5. QED
  BY <1>2, <1>3, <1>4

\* Stuttering changes nothing.
LEMMA StutterInv ==
  ASSUME ClockInv, LogicInv, LockInv, UNCHANGED vars
  PROVE  (ClockInv /\ LogicInv /\ LockInv)'
BY DEF vars, object, state, ClockInv, LogicInv, LockInv, EventsAndActions, Snapshot, InRange

LEMMA ItemInvariance == Spec => [](ClockInv /\ LogicInv /\ LockInv)
<1>1. ClockInv /\ LogicInv /\ LockInv /\ [Next]_vars => (ClockInv /\ LogicInv /\ LockInv)'
  BY StepForward, StepLogic, StepLocked, StutterInv
<1>2. QED
  BY <1>1, InitInv, PTL DEF Spec

\* Among any number of raw events and actions of an item, whichever way they interleave,
\* the state that was published last is the state of the item as soon as nobody is about
\* to change or to publish it: state_processor_lock does what it is for.
THEOREM AnnouncedCorrect == Spec => []AnnouncedIsCurrent
<1>1. LockInv => AnnouncedIsCurrent
  BY DEF LockInv, AnnouncedIsCurrent, Announcing
<1>2. QED
  BY <1>1, ItemInvariance, PTL

\* set_from_raw keeps the range of an item for all events, comparisons and alternatives,
\* including those events of other items that set this one.
THEOREM LogicCorrect == Spec => []LogicApplied
<1>1. LogicInv => LogicApplied
  BY DEF LogicInv, LogicApplied
<1>2. QED
  BY <1>1, ItemInvariance, PTL

\* For all tasks, deployments and forced announcements together: IEIDs of an item only
\* grow, and what is published does not go back while only events and actions are at work.
THEOREM ForwardCorrect == Spec => StatesGoForward
<1> DEFINE Step == InOrder /\ Forward
<1>1. ClockInv /\ LockInv /\ [Next]_vars => [Step]_vars
  BY StepForward, StepLocked
<1>2. [Step]_vars =>
        [/\ EventsAndActions => announced'.ieid >= announced.ieid
         /\ \A r \in Ref : Snapshot(r)' # Snapshot(r) /\ inv = r /\ inv' = r => ieid'[r] > ieid[r]
         /\ inv # NoRef /\ inv' # NoRef => ieid'[inv'] >= ieid[inv]]_vars
  BY DEF InOrder, Forward
<1> HIDE DEF Step
<1>3. QED
  BY <1>1, <1>2, ItemInvariance, PTL DEF Spec, StatesGoForward
=============================================================================
