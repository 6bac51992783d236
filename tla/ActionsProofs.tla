--------------------------- MODULE ActionsProofs ---------------------------
(* Proofs about Actions, for any sets of actions and items and any bounds. *)
EXTENDS Actions, FiniteSetTheorems, TLAPS

\* What relates the task of one action to its entry in the map and its triggers.
\* The first two conjuncts say that nothing precedes the call and the storing of
\* the action; the others are the properties, for one action.
ActionInv(a) ==
  /\ pc[a] = "idle" => task[a] = "none"
  /\ task[a] \in {"none", "launch"} => status[a] = Absent /\ fires[a] = 0
  /\ task[a] \notin {"none", "launch"} /\ status[a] = Absent => fires[a] = 1
  /\ task[a] \in {"decr", "done"} => fires[a] = 1
  /\ fires[a] \in {0, 1}
  /\ status[a] # Absent => (fires[a] = 1 <=> Finished(status[a]))

\* The inductive invariant of the manager.
IInv == TypeOK /\ \A a \in Uuid : ActionInv(a)

USE DEF Created, Accepted, Pending, Running, Completed, Failed, Canceled,
        Terminated, Absent

\* Initially no action exists.
LEMMA InitIInv == Init => IInv
<1> SUFFICES ASSUME Init PROVE IInv
  OBVIOUS
<1>1. NoOid \in Oid
  BY OidNonEmpty DEF NoOid
<1>2. TypeOK
  BY <1>1 DEF Init, TypeOK, CallState, TaskState, Statuses
<1>3. QED
  BY <1>2 DEF Init, IInv, ActionInv

\* Every step keeps the types.
LEMMA StepTypeOK == TypeOK /\ [Next]_vars => TypeOK'
<1> SUFFICES ASSUME TypeOK, [Next]_vars PROVE TypeOK'
  OBVIOUS
<1> USE DEF TypeOK, CallState, TaskState, Statuses, item, call
<1>1. ASSUME NEW a \in Uuid, NEW o \in Oid, NEW so \in BOOLEAN, CallLocal(a, o, so)
      PROVE TypeOK'
  BY <1>1 DEF CallLocal, Enter, ActIncr
<1>2. ASSUME NEW a \in Uuid, NEW o \in Oid, NEW so \in BOOLEAN, CallAborted(a, o, so)
      PROVE TypeOK'
  BY <1>2 DEF CallAborted, Enter, ActIncr
<1>3. ASSUME NEW a \in Uuid, NEW o \in Oid, NEW so \in BOOLEAN, CallRemote(a, o, so)
      PROVE TypeOK'
  BY <1>3 DEF CallRemote, Enter
<1>4. ASSUME NEW a \in Uuid, TaskStep(a) PROVE TypeOK'
  <2>1. CASE TaskStore(a)
    BY <2>1 DEF TaskStore
  <2>2. ASSUME NEW ok \in BOOLEAN, PerformReturns(a, ok) PROVE TypeOK'
    BY <2>2 DEF PerformReturns, MarkAccepted, MarkFailed
  <2>3. CASE AwaitFinished(a)
    BY <2>3 DEF AwaitFinished
  <2>4. CASE AwaitElapsed(a)
    BY <2>4 DEF AwaitElapsed
  <2>5. CASE MarkTimedOut(a)
    BY <2>5 DEF MarkTimedOut, MarkFailed
  <2>6. CASE TaskDecr(a)
    <3>1. act' \in [Oid -> Nat]
      BY <2>6 DEF TaskDecr, ActDecr
    <3>2. QED
      BY <2>6, <3>1 DEF TaskDecr
  <2>7. QED
    BY <1>4, <2>1, <2>2, <2>3, <2>4, <2>5, <2>6 DEF TaskStep
<1>5. ASSUME NEW a \in Uuid, CallStep(a) PROVE TypeOK'
  <2>1. CASE CallAccepted(a)
    BY <2>1 DEF CallAccepted, Goto
  <2>2. CASE CallResult(a)
    BY <2>2 DEF CallResult, Reply
  <2>3. CASE MustBeCompleted(a)
    BY <2>3 DEF MustBeCompleted, Reply, Goto
  <2>4. CASE CallTerminates(a)
    BY <2>4 DEF CallTerminates, Reply, TerminateSent
  <2>5. CASE RemoteFails(a)
    BY <2>5 DEF RemoteFails, Reply
  <2>6. ASSUME NEW s \in Statuses, RemoteAnswers(a, s) PROVE TypeOK'
    BY <2>6 DEF RemoteAnswers, Reply, TerminateSent
  <2>7. QED
    BY <1>5, <2>1, <2>2, <2>3, <2>4, <2>5, <2>6 DEF CallStep
<1>6. ASSUME NEW a \in Uuid, ApiTerminate(a) PROVE TypeOK'
  BY <1>6 DEF ApiTerminate, TerminateSent
<1>7. ASSUME NEW a \in Uuid, NEW s \in Reports, ProcessEvent(a, s) PROVE TypeOK'
  BY <1>7, ReportsAreStatuses DEF ProcessEvent
<1>8. ASSUME NEW L \in SUBSET Uuid, NEW R \in SUBSET Uuid, Cleanup(L, R) PROVE TypeOK'
  BY <1>8 DEF Cleanup
<1>9. ASSUME NEW o \in Oid, NEW en \in BOOLEAN, Deploy(o, en) PROVE TypeOK'
  BY <1>9, BoundsAreNat DEF Deploy, PutItem
<1>10. ASSUME NEW o \in Oid, Undeploy(o) \/ ReplaceByRemote(o) PROVE TypeOK'
  <2>1. CASE Undeploy(o)
    BY <2>1, BoundsAreNat DEF Undeploy, PutItem
  <2>2. CASE ReplaceByRemote(o)
    BY <2>2, BoundsAreNat DEF ReplaceByRemote, PutItem
  <2>3. QED
    BY <1>10, <2>1, <2>2
<1>11. CASE UNCHANGED vars
  BY <1>11 DEF vars
<1> HIDE DEF TypeOK, CallState, TaskState, Statuses, item, call
<1>12. QED
  BY <1>1, <1>2, <1>3, <1>4, <1>5, <1>6, <1>7, <1>8, <1>9, <1>10, <1>11 DEF Next
\* Every step of the task, of the target service and of the cleaner keeps the
\* relation of status, triggers and task; the other steps leave these alone.
LEMMA StepIInv == IInv /\ [Next]_vars => IInv'
<1> SUFFICES ASSUME IInv, [Next]_vars, NEW b \in Uuid PROVE ActionInv(b)'
  BY StepTypeOK DEF IInv
<1> USE DEF IInv
<1>1. ASSUME NEW a \in Uuid, NEW o \in Oid, NEW so \in BOOLEAN, CallLocal(a, o, so)
      PROVE ActionInv(b)'
  BY <1>1 DEF CallLocal, Enter, TypeOK, ActionInv, Finished
<1>2. ASSUME NEW a \in Uuid, NEW o \in Oid, NEW so \in BOOLEAN,
             CallAborted(a, o, so) \/ CallRemote(a, o, so)
      PROVE ActionInv(b)'
  BY <1>2 DEF CallAborted, CallRemote, Enter, TypeOK, ActionInv, Finished
<1>3. ASSUME NEW a \in Uuid, TaskStep(a) PROVE ActionInv(b)'
  <2> USE DEF TypeOK, ActionInv, call, Finished
  <2>1. CASE TaskStore(a)
    BY <2>1 DEF TaskStore
  <2>2. ASSUME NEW ok \in BOOLEAN, PerformReturns(a, ok) PROVE ActionInv(b)'
    BY <2>2 DEF PerformReturns, MarkAccepted, MarkFailed, Stored, Statuses
  <2>3. CASE AwaitFinished(a)
    BY <2>3 DEF AwaitFinished
  <2>4. CASE AwaitElapsed(a)
    BY <2>4 DEF AwaitElapsed
  <2>5. CASE MarkTimedOut(a)
    BY <2>5 DEF MarkTimedOut, MarkFailed, Stored, Statuses
  <2>6. CASE TaskDecr(a)
    BY <2>6 DEF TaskDecr
  <2> HIDE DEF TypeOK, ActionInv, call, Finished
  <2>7. QED
    BY <1>3, <2>1, <2>2, <2>3, <2>4, <2>5, <2>6 DEF TaskStep
<1>4. ASSUME NEW a \in Uuid, CallStep(a) PROVE ActionInv(b)'
  <2>1. UNCHANGED <<task, status, fires>>
    BY <1>4 DEF CallStep, CallAccepted, CallResult, MustBeCompleted, CallTerminates,
       RemoteFails, RemoteAnswers
  <2>2. pc'[b] = "idle" => pc[b] = "idle"
    BY <1>4 DEF CallStep, CallAccepted, CallResult, MustBeCompleted,
       CallTerminates, RemoteFails, RemoteAnswers, Reply, Goto, TypeOK
  <2>3. QED
    BY <2>1, <2>2 DEF ActionInv, Finished
<1>5. ASSUME NEW a \in Uuid, NEW s \in Reports, ProcessEvent(a, s) PROVE ActionInv(b)'
  BY <1>5, ReportsAreStatuses DEF ProcessEvent, TypeOK, ActionInv, Finished, Stored,
     call, Statuses
<1>6. ASSUME NEW L \in SUBSET Uuid, NEW R \in SUBSET Uuid, Cleanup(L, R)
      PROVE ActionInv(b)'
  BY <1>6 DEF Cleanup, TypeOK, ActionInv, Finished, Stored, call, Statuses
<1>7. CASE UNCHANGED <<call, task, status, fires>>
  BY <1>7 DEF call, ActionInv, Finished
<1>8. ASSUME NEW a \in Uuid, ApiTerminate(a) PROVE ActionInv(b)'
  BY <1>7, <1>8 DEF ApiTerminate
<1>9. ASSUME NEW o \in Oid, NEW en \in BOOLEAN,
             Deploy(o, en) \/ Undeploy(o) \/ ReplaceByRemote(o)
      PROVE ActionInv(b)'
  BY <1>7, <1>9 DEF Deploy, Undeploy, ReplaceByRemote, PutItem
<1>10. CASE UNCHANGED vars
  BY <1>7, <1>10 DEF vars, call
<1>11. QED
  BY <1>1, <1>2, <1>3, <1>4, <1>5, <1>6, <1>8, <1>9, <1>10 DEF Next

\* The inductive invariant contains the properties the runs check.
LEMMA IInvImplies ==
  IInv => TypeOK /\ TriggersFireOnce /\ OnlyFinishedForgotten /\ TaskEndsFinished
BY DEF IInv, ActionInv, TypeOK, TriggersFireOnce, OnlyFinishedForgotten,
   TaskEndsFinished, Stored

\* The inductive invariant holds in every reachable state.
THEOREM Invariance == Spec => []IInv
  BY InitIInv, StepIInv, PTL DEF Spec

\* Types are kept by every step of the action manager and the calls of
\* Core::action.
THEOREM TypeCorrect == Spec => []TypeOK
  BY Invariance, IInvImplies, PTL

\* For any number of actions: the completion triggers of an action are fired
\* exactly once, when it first gets a finished status.
THEOREM TriggersCorrect == Spec => []TriggersFireOnce
  BY Invariance, IInvImplies, PTL

\* For any number of actions: the history cleaner never takes an unfinished
\* action away from a task that waits for it.
THEOREM ForgottenCorrect == Spec => []OnlyFinishedForgotten
  BY Invariance, IInvImplies, PTL

\* For any number of actions: the counter of the unit is lowered only for an
\* action that has finished.
THEOREM TaskEndCorrect == Spec => []TaskEndsFinished
  BY Invariance, IInvImplies, PTL
----------------------------------------------------------------------------
(* The order of statuses *)

\* Every step leaves the status of a stored action or raises it.
LEMMA StepStatus ==
  ASSUME IInv, [Next]_vars, NEW b \in Uuid, Stored(b), status'[b] # Absent
  PROVE  status[b] <= status'[b]
<1> USE DEF IInv, TypeOK, Statuses, Stored
<1>1. CASE UNCHANGED status
  BY <1>1
<1>2. ASSUME NEW a \in Uuid, TaskStep(a) PROVE status[b] <= status'[b]
  <2>1. CASE TaskStore(a)
    BY <2>1 DEF TaskStore, ActionInv
  <2>2. ASSUME NEW ok \in BOOLEAN, PerformReturns(a, ok) PROVE status[b] <= status'[b]
    BY <2>2 DEF PerformReturns, MarkAccepted, MarkFailed, Finished
  <2>3. CASE MarkTimedOut(a)
    BY <2>3 DEF MarkTimedOut, MarkFailed, Finished
  <2>4. CASE AwaitFinished(a) \/ AwaitElapsed(a) \/ TaskDecr(a)
    BY <1>1, <2>4 DEF AwaitFinished, AwaitElapsed, TaskDecr
  <2>5. QED
    BY <1>2, <2>1, <2>2, <2>3, <2>4 DEF TaskStep
<1>3. ASSUME NEW a \in Uuid, NEW s \in Reports, ProcessEvent(a, s)
      PROVE status[b] <= status'[b]
  BY <1>3, ReportsAreStatuses DEF ProcessEvent
<1>4. ASSUME NEW L \in SUBSET Uuid, NEW R \in SUBSET Uuid, Cleanup(L, R)
      PROVE status[b] <= status'[b]
  BY <1>4 DEF Cleanup
<1>5. ASSUME NEW a \in Uuid, CallStep(a) \/ ApiTerminate(a) PROVE UNCHANGED status
  BY <1>5 DEF CallStep, CallAccepted, CallResult, MustBeCompleted, CallTerminates,
     RemoteFails, RemoteAnswers, ApiTerminate
<1>6. ASSUME NEW a \in Uuid, NEW o \in Oid, NEW so \in BOOLEAN,
             CallLocal(a, o, so) \/ CallAborted(a, o, so) \/ CallRemote(a, o, so)
      PROVE UNCHANGED status
  BY <1>6 DEF CallLocal, CallAborted, CallRemote
<1>7. ASSUME NEW o \in Oid, NEW en \in BOOLEAN,
             Deploy(o, en) \/ Undeploy(o) \/ ReplaceByRemote(o)
      PROVE UNCHANGED status
  BY <1>7 DEF Deploy, Undeploy, ReplaceByRemote, PutItem
<1>8. CASE UNCHANGED vars
  BY <1>1, <1>8 DEF vars
<1>9. QED
  BY <1>1, <1>2, <1>3, <1>4, <1>5, <1>6, <1>7, <1>8 DEF Next

\* For any number of actions: whatever the order of events, replies and timeouts, the
\* status of an action in the manager's map never goes back.
THEOREM StatusOrdered == Spec => StatusNeverGoesBack
<1>1. IInv /\ [Next]_vars =>
        [\A a \in Uuid : Stored(a) /\ status'[a] # Absent => status[a] <= status'[a]]_vars
  BY StepStatus
<1>2. QED
  BY <1>1, Invariance, PTL DEF Spec, StatusNeverGoesBack

----------------------------------------------------------------------------
(* The act counter *)

\* ActCounts made inductive: only units are counted, and an item that was never deployed
\* anew is local.
CountInv ==
  /\ ActCounts
  /\ \A o \in Oid \ Unit : act[o] = 0
  /\ deploys = 0 => \A o \in Oid : src[o] = "local"

\* Sets of actions are finite.
LEMMA ActionsFinite ==
  ASSUME NEW S \in SUBSET Uuid
  PROVE  /\ IsFiniteSet(S) /\ Cardinality(S) \in Nat
         /\ \A a \in Uuid \ S : Cardinality(S \union {a}) = Cardinality(S) + 1
         /\ \A a \in S : Cardinality(S \ {a}) = Cardinality(S) - 1
<1>1. IsFiniteSet(S) /\ Cardinality(S) \in Nat
  BY UuidFinite, FS_Subset, FS_CardinalityType
<1>2. QED
  BY <1>1, FS_AddElement, FS_RemoveElement

\* A step that leaves the items, the deployments and the actions in flight alone keeps
\* the counters right.
LEMMA CountsKept ==
  ASSUME CountInv, UNCHANGED <<item, deploys, aborts>>,
         \A o \in Oid : InFlight(o)' = InFlight(o)
  PROVE  CountInv'
BY UnitIsOid DEF CountInv, ActCounts, item

\* A call of Core::action counts its unit and puts the action in flight.
LEMMA CallCounts ==
  ASSUME IInv, CountInv, NEW a \in Uuid, NEW o \in Oid, NEW so \in BOOLEAN,
         CallLocal(a, o, so)
  PROVE  CountInv'
<1>1. a \notin InFlight(o) /\ InFlight(o)' = InFlight(o) \union {a}
  BY DEF CallLocal, Enter, InFlight, IInv, ActionInv, TypeOK
<1>2. \A p \in Oid \ {o} : InFlight(p)' = InFlight(p)
  BY DEF CallLocal, Enter, InFlight, IInv, ActionInv, TypeOK
<1>3. \A p \in Oid : InFlight(p) \in SUBSET Uuid
  BY DEF InFlight
<1>4. /\ Cardinality(InFlight(o)) \in Nat
      /\ Cardinality(InFlight(o)') = Cardinality(InFlight(o)) + 1
  BY <1>1, <1>3, ActionsFinite
<1>5. /\ act' = IF o \in Unit THEN [act EXCEPT ![o] = @ + 1] ELSE act
      /\ UNCHANGED <<src, deploys, aborts>>
  BY DEF CallLocal, ActIncr
<1>6. act \in [Oid -> Nat] /\ aborts \in Nat
  BY DEF IInv, TypeOK
<1>7. \A p \in Oid : src'[p] = "local" => act'[p] <= Cardinality(InFlight(p)') + aborts'
  BY <1>2, <1>4, <1>5, <1>6 DEF CountInv, ActCounts
<1>8. deploys' = 0 => \A p \in Unit : Cardinality(InFlight(p)') <= act'[p]
  BY <1>2, <1>4, <1>5, <1>6, UnitIsOid DEF CountInv, ActCounts
<1>9. \A p \in Oid \ Unit : act'[p] = 0
  BY <1>5, <1>6 DEF CountInv
<1>10. deploys' = 0 => \A p \in Oid : src'[p] = "local"
  BY <1>5 DEF CountInv
<1>11. QED
  BY <1>7, <1>8, <1>9, <1>10 DEF CountInv, ActCounts

\* The end of a task takes the action out of flight and lowers the counter.
LEMMA DecrCounts ==
  ASSUME IInv, CountInv, NEW a \in Uuid, TaskDecr(a)
  PROVE  CountInv'
<1>0. PICK o \in Oid : o = target[a]
  BY DEF IInv, TypeOK
<1>1. a \in InFlight(o) /\ InFlight(o)' = InFlight(o) \ {a}
  BY <1>0 DEF TaskDecr, call, InFlight, IInv, TypeOK
<1>2. \A p \in Oid \ {o} : InFlight(p)' = InFlight(p)
  BY <1>0 DEF TaskDecr, call, InFlight, IInv, TypeOK
<1>3. \A p \in Oid : InFlight(p) \in SUBSET Uuid
  BY DEF InFlight
<1>4. /\ Cardinality(InFlight(o)) \in Nat /\ Cardinality(InFlight(o)') \in Nat
      /\ Cardinality(InFlight(o)') = Cardinality(InFlight(o)) - 1
  <2>1. /\ Cardinality(InFlight(o)) \in Nat
        /\ Cardinality(InFlight(o) \ {a}) = Cardinality(InFlight(o)) - 1
    BY <1>0, <1>1, <1>3, ActionsFinite
  <2>2. Cardinality(InFlight(o) \ {a}) \in Nat
    BY <1>0, <1>3, ActionsFinite
  <2>3. QED
    BY <1>1, <2>1, <2>2
<1>5. /\ act' = IF o \in Unit /\ src[o] = "local"
                THEN [act EXCEPT ![o] = IF @ = 0 THEN 0 ELSE @ - 1] ELSE act
      /\ UNCHANGED <<src, deploys, aborts>>
  BY <1>0 DEF TaskDecr, ActDecr
<1>6. act \in [Oid -> Nat] /\ aborts \in Nat
  BY DEF IInv, TypeOK
<1>7. \A p \in Oid : src'[p] = "local" => act'[p] <= Cardinality(InFlight(p)') + aborts'
  BY <1>0, <1>2, <1>4, <1>5, <1>6 DEF CountInv, ActCounts
<1>8. deploys' = 0 => \A p \in Unit : Cardinality(InFlight(p)') <= act'[p]
  BY <1>0, <1>2, <1>4, <1>5, <1>6, UnitIsOid DEF CountInv, ActCounts
<1>9. \A p \in Oid \ Unit : act'[p] = 0
  BY <1>0, <1>5, <1>6 DEF CountInv
<1>10. deploys' = 0 => \A p \in Oid : src'[p] = "local"
  BY <1>5 DEF CountInv
<1>11. QED
  BY <1>7, <1>8, <1>9, <1>10 DEF CountInv, ActCounts

\* A deployment puts the counter of its item to zero, which is never too high.
LEMMA PutCounts ==
  ASSUME IInv, CountInv, NEW o \in Oid, NEW from, NEW en, PutItem(o, from, en)
  PROVE  CountInv'
<1>1. \A p \in Oid : InFlight(p)' = InFlight(p)
  BY DEF PutItem, call, InFlight
<1>2. \A p \in Oid : Cardinality(InFlight(p)) \in Nat
  <2>1. \A p \in Oid : InFlight(p) \in SUBSET Uuid
    BY DEF InFlight
  <2>2. QED
    BY <2>1, ActionsFinite
<1>3. /\ act' = [act EXCEPT ![o] = 0] /\ src' = [src EXCEPT ![o] = from]
      /\ deploys' = deploys + 1 /\ deploys \in Nat /\ aborts' = aborts /\ aborts \in Nat
  BY DEF PutItem, IInv, TypeOK
<1>4. act \in [Oid -> Nat] /\ DOMAIN src = Oid
  BY DEF IInv, TypeOK
<1>5. \A p \in Oid : src'[p] = "local" => act'[p] <= Cardinality(InFlight(p)') + aborts'
  BY <1>1, <1>2, <1>3, <1>4 DEF CountInv, ActCounts
<1>6. \A p \in Oid \ Unit : act'[p] = 0
  BY <1>3, <1>4 DEF CountInv
<1>7. deploys' # 0
  BY <1>3
<1>8. QED
  BY <1>5, <1>6, <1>7 DEF CountInv, ActCounts

\* A call that is cut off counts its unit for good, and is counted itself.
LEMMA AbortCounts ==
  ASSUME IInv, CountInv, NEW a \in Uuid, NEW o \in Oid, NEW so \in BOOLEAN,
         CallAborted(a, o, so)
  PROVE  CountInv'
<1>1. \A p \in Oid : InFlight(p)' = InFlight(p)
  BY DEF CallAborted, Enter, InFlight, IInv, ActionInv, TypeOK
<1>2. \A p \in Oid : Cardinality(InFlight(p)) \in Nat
  <2>1. \A p \in Oid : InFlight(p) \in SUBSET Uuid
    BY DEF InFlight
  <2>2. QED
    BY <2>1, ActionsFinite
<1>3. /\ o \in Unit /\ act' = [act EXCEPT ![o] = @ + 1] /\ aborts' = aborts + 1
      /\ UNCHANGED <<src, deploys>>
  BY DEF CallAborted, ActIncr
<1>4. act \in [Oid -> Nat] /\ aborts \in Nat
  BY DEF IInv, TypeOK
<1>5. \A p \in Oid : src'[p] = "local" => act'[p] <= Cardinality(InFlight(p)') + aborts'
  BY <1>1, <1>2, <1>3, <1>4 DEF CountInv, ActCounts
<1>6. deploys' = 0 => \A p \in Unit : Cardinality(InFlight(p)') <= act'[p]
  BY <1>1, <1>2, <1>3, <1>4, UnitIsOid DEF CountInv, ActCounts
<1>7. \A p \in Oid \ Unit : act'[p] = 0
  BY <1>3, <1>4 DEF CountInv
<1>8. QED
  BY <1>3, <1>5, <1>6, <1>7 DEF CountInv, ActCounts

\* Every step keeps the counters right.
LEMMA StepCounts == IInv /\ CountInv /\ [Next]_vars => CountInv'
<1> SUFFICES ASSUME IInv, CountInv, [Next]_vars PROVE CountInv'
  OBVIOUS
<1>1. ASSUME NEW a \in Uuid, NEW o \in Oid, NEW so \in BOOLEAN,
             CallLocal(a, o, so) \/ CallAborted(a, o, so) \/ CallRemote(a, o, so)
      PROVE CountInv'
  <2>1. CASE CallLocal(a, o, so)
    BY <2>1, CallCounts
  <2>2. CASE CallAborted(a, o, so)
    BY <2>2, AbortCounts
  <2>3. CASE CallRemote(a, o, so)
    <3>1. \A p \in Oid : InFlight(p)' = InFlight(p)
      BY <2>3 DEF CallRemote, Enter, InFlight, IInv, ActionInv, TypeOK
    <3>2. QED
      BY <2>3, <3>1, CountsKept DEF CallRemote
  <2>4. QED
    BY <1>1, <2>1, <2>2, <2>3
<1>2. ASSUME NEW a \in Uuid, TaskStep(a) PROVE CountInv'
  <2>1. CASE TaskDecr(a)
    BY <2>1, DecrCounts
  <2>2. CASE ~TaskDecr(a)
    <3>1. UNCHANGED <<item, call, deploys, aborts>>
      BY <1>2, <2>2 DEF TaskStep, TaskStore, PerformReturns, AwaitFinished, AwaitElapsed,
         MarkTimedOut
    <3>2. \A b \in Uuid : task'[b] \in {"none", "done"} <=> task[b] \in {"none", "done"}
      BY <1>2, <2>2 DEF TaskStep, TaskStore, PerformReturns, AwaitFinished, AwaitElapsed,
         MarkTimedOut, IInv, TypeOK
    <3>3. \A p \in Oid : InFlight(p)' = InFlight(p)
      BY <3>1, <3>2 DEF InFlight, call
    <3>4. QED
      BY <3>1, <3>3, CountsKept
  <2>3. QED
    BY <2>1, <2>2
<1>3. ASSUME NEW a \in Uuid, CallStep(a) PROVE CountInv'
  <2>1. UNCHANGED <<item, deploys, aborts, task, target>>
    BY <1>3 DEF CallStep, CallAccepted, CallResult, MustBeCompleted, CallTerminates,
       RemoteFails, RemoteAnswers, Reply, Goto
  <2>2. \A p \in Oid : InFlight(p)' = InFlight(p)
    BY <2>1 DEF InFlight
  <2>3. QED
    BY <2>1, <2>2, CountsKept
<1>4. CASE UNCHANGED <<item, deploys, aborts, task, target>>
  <2>1. \A p \in Oid : InFlight(p)' = InFlight(p)
    BY <1>4 DEF InFlight
  <2>2. QED
    BY <1>4, <2>1, CountsKept
<1>5. ASSUME NEW a \in Uuid, ApiTerminate(a) PROVE CountInv'
  BY <1>4, <1>5 DEF ApiTerminate, call
<1>6. ASSUME NEW a \in Uuid, NEW s \in Reports, ProcessEvent(a, s) PROVE CountInv'
  BY <1>4, <1>6 DEF ProcessEvent, call
<1>7. ASSUME NEW L \in SUBSET Uuid, NEW R \in SUBSET Uuid, Cleanup(L, R) PROVE CountInv'
  BY <1>4, <1>7 DEF Cleanup, call
<1>8. ASSUME NEW o \in Oid, NEW en \in BOOLEAN,
             Deploy(o, en) \/ Undeploy(o) \/ ReplaceByRemote(o)
      PROVE CountInv'
  BY <1>8, PutCounts DEF Deploy, Undeploy, ReplaceByRemote
<1>9. CASE UNCHANGED vars
  BY <1>4, <1>9 DEF vars, item
<1>10. QED
  BY <1>1, <1>2, <1>3, <1>5, <1>6, <1>7, <1>8, <1>9 DEF Next

\* For any number of actions, items and deployments: nothing but a call that is cut off
\* while its counter is raised leaves a unit busy, and a unit that is not deployed anew
\* counts all its actions in flight.
THEOREM CountsCorrect == Spec => []ActCounts
<1>1. Init => CountInv
  <2> SUFFICES ASSUME Init PROVE CountInv
    OBVIOUS
  <2>1. \A o \in Oid : InFlight(o) = {}
    BY DEF Init, InFlight
  <2>2. \A o \in Oid : Cardinality(InFlight(o)) = 0
    BY <2>1, FS_EmptySet
  <2>3. aborts = 0 /\ \A o \in Oid : act[o] = 0 /\ src[o] = "local"
    BY DEF Init
  <2>4. QED
    BY <2>2, <2>3, UnitIsOid DEF CountInv, ActCounts
<1>2. IInv /\ CountInv /\ [Next]_vars => CountInv'
  BY StepCounts
<1>3. CountInv => ActCounts
  BY DEF CountInv
<1>4. QED
  BY <1>1, <1>2, <1>3, Invariance, PTL DEF Spec

----------------------------------------------------------------------------
(* State-only calls *)

\* LocalStateOnlyTerminates made inductive: a caller that judges an action has seen it
\* stored, and a call that waits for a remote node has no task here.
StateOnlyInv ==
  /\ LocalStateOnlyTerminates
  /\ \A a \in Uuid : /\ pc[a] = "remote" => task[a] = "none"
                     /\ pc[a] = "accepting" => task[a] # "none"
                     /\ pc[a] \in {"judge", "terminate"} => task[a] \notin {"none", "launch"}

\* Every step keeps StateOnlyInv.
LEMMA StepStateOnly == IInv /\ StateOnlyInv /\ [Next]_vars => StateOnlyInv'
<1> SUFFICES ASSUME IInv, StateOnlyInv, [Next]_vars PROVE StateOnlyInv'
  OBVIOUS
<1> USE DEF StateOnlyInv, LocalStateOnlyTerminates, IInv
<1>1. ASSUME NEW a \in Uuid, NEW o \in Oid, NEW so \in BOOLEAN,
             CallLocal(a, o, so) \/ CallAborted(a, o, so) \/ CallRemote(a, o, so)
      PROVE StateOnlyInv'
  BY <1>1 DEF CallLocal, CallAborted, CallRemote, Enter, TypeOK, ActionInv
<1>2. ASSUME NEW a \in Uuid, TaskStep(a) PROVE StateOnlyInv'
  <2> USE DEF item, call, TypeOK, ActionInv
  <2>1. CASE TaskStore(a)
    BY <2>1 DEF TaskStore
  <2>2. ASSUME NEW ok \in BOOLEAN, PerformReturns(a, ok) PROVE StateOnlyInv'
    BY <2>2 DEF PerformReturns, MarkAccepted, MarkFailed, Stored, Finished, Statuses
  <2>3. CASE AwaitFinished(a) \/ AwaitElapsed(a) \/ TaskDecr(a)
    BY <2>3 DEF AwaitFinished, AwaitElapsed, TaskDecr
  <2>4. CASE MarkTimedOut(a)
    BY <2>4 DEF MarkTimedOut, MarkFailed, Stored, Finished, Statuses
  <2>5. QED
    BY <1>2, <2>1, <2>2, <2>3, <2>4 DEF TaskStep
<1>3. ASSUME NEW a \in Uuid, CallStep(a) PROVE StateOnlyInv'
  <2> USE DEF item, TypeOK, ActionInv
  <2>1. CASE CallAccepted(a)
    BY <2>1 DEF CallAccepted, Goto
  <2>2. CASE CallResult(a)
    BY <2>2 DEF CallResult, Reply
  <2>3. CASE MustBeCompleted(a)
    BY <2>3 DEF MustBeCompleted, Goto, Reply, Stored
  <2>4. CASE CallTerminates(a)
    BY <2>4 DEF CallTerminates, TerminateSent, Reply, Stored
  <2>5. CASE RemoteFails(a)
    BY <2>5 DEF RemoteFails, Reply
  <2>6. ASSUME NEW s \in Statuses, RemoteAnswers(a, s) PROVE StateOnlyInv'
    BY <2>6 DEF RemoteAnswers, TerminateSent, Reply
  <2>7. QED
    BY <1>3, <2>1, <2>2, <2>3, <2>4, <2>5, <2>6 DEF CallStep
<1>4. ASSUME NEW a \in Uuid, ApiTerminate(a) PROVE StateOnlyInv'
  BY <1>4 DEF ApiTerminate, TerminateSent, item, call
<1>5. ASSUME NEW a \in Uuid, NEW s \in Reports, ProcessEvent(a, s) PROVE StateOnlyInv'
  BY <1>5 DEF ProcessEvent, item, call, TypeOK, ActionInv, Stored
<1>6. ASSUME NEW L \in SUBSET Uuid, NEW R \in SUBSET Uuid, Cleanup(L, R)
      PROVE StateOnlyInv'
  BY <1>6 DEF Cleanup, item, call, TypeOK, Absent, Finished
<1>7. ASSUME NEW o \in Oid, NEW en \in BOOLEAN,
             Deploy(o, en) \/ Undeploy(o) \/ ReplaceByRemote(o)
      PROVE StateOnlyInv'
  BY <1>7 DEF Deploy, Undeploy, ReplaceByRemote, PutItem, call, TypeOK
<1>8. CASE UNCHANGED vars
  BY <1>8 DEF vars
<1>9. QED
  BY <1>1, <1>2, <1>3, <1>4, <1>5, <1>6, <1>7, <1>8 DEF Next

\* For any number of actions on local items: a state-only caller that is told "not completed"
\* leaves no action running without a terminate request.
THEOREM StateOnlyCorrect == Spec => []LocalStateOnlyTerminates
<1>1. Init => StateOnlyInv
  BY DEF Init, StateOnlyInv, LocalStateOnlyTerminates
<1>2. IInv /\ StateOnlyInv /\ [Next]_vars => StateOnlyInv'
  BY StepStateOnly
<1>3. StateOnlyInv => LocalStateOnlyTerminates
  BY DEF StateOnlyInv
<1>4. QED
  BY <1>1, <1>2, <1>3, Invariance, PTL DEF Spec
============================================================================
