----------------------------- MODULE CoreProofs -----------------------------
(***************************************************************************)
(* Proofs about modules Nodes, Locker, ActionSequences and CoreLocks, for  *)
(* any constants: the tasks of a node live as long as its entry of the     *)
(* table, a shared lock excludes as long as no client keeps it longer than *)
(* it announced, the actions for a failed sequence follow its failure, and *)
(* only bulk frames make operations wait for each other in a circle.       *)
(***************************************************************************)
EXTENDS Nodes, Locker, CoreLocks, ActionSequences, Integers, WellFoundedInduction, TLAPS

----------------------------------------------------------------------------
(* The tasks of a node                                                     *)

Labels == {"off", "idle", "mark_on", "mark_off", "publish_on", "publish_off", "save", "unsave"}

\* TasksOfTable made inductive: with it go the places of the tasks, the entries, and that
\* only the node's own tasks are ever off.
TableInv ==
  /\ entry \in {"none", "static", "found"} /\ svc \in {"down", "loading", "up", "ending"}
  /\ pc \in [Task -> Labels]
  /\ late \subseteq Own \X {"Online", "Offline"}
  /\ TasksOfTable
  /\ \A t \in Task \ Own : pc[t] # "off"
  /\ svc \in {"down", "loading"} => entry # "static"

\* Stopping the tasks keeps their places in order, and what they may still publish.
LEMMA StopKeeps ==
  ASSUME TableInv, NEW t \in Task, NEW l \in Labels \ {"off"}, NEW own \in {"off", "idle"},
         StopTasks(t, l, own)
  PROVE  /\ pc' \in [Task -> Labels] /\ \A x \in Own : pc'[x] = own
         /\ \A x \in Task \ Own : pc'[x] # "off"
         /\ late' \subseteq Own \X {"Online", "Offline"}
<1>1. Own \subseteq Task
  BY DEF Own, Task
<1>2. \A x \in Own : <<x, Event(pc[x])>> \in Own \X {"Online", "Offline"}
  BY DEF Event
<1>3. late' \subseteq Own \X {"Online", "Offline"}
  BY <1>2 DEF StopTasks, TableInv
<1>4. pc' \in [Task -> Labels]
  BY DEF StopTasks, TableInv, Labels
<1>5. QED
  BY <1>1, <1>3, <1>4 DEF StopTasks, TableInv

\* Marking a node, as one of its tasks or another one
LEMMA MarkKeeps ==
  ASSUME TableInv, NEW t \in Task, pc[t] # "off", NEW on \in BOOLEAN, MarkNode(t, on), svc' = svc
  PROVE  TableInv'
<1>1. Own \subseteq Task
  BY DEF Own, Task
<1>2. CASE RemoveNode(t)
  <2>1. entry' = "none" /\ StopTasks(t, "idle", "off")
    BY <1>2 DEF RemoveNode
  <2>2. QED
    BY <2>1, StopKeeps DEF TableInv, TasksOfTable, Labels
<1>3. CASE UNCHANGED <<entry, late>> /\ \E l \in Labels \ {"off"} : Goto(t, l)
  BY <1>1, <1>3 DEF Goto, TableInv, TasksOfTable
<1>4. QED
  BY <1>2, <1>3 DEF MarkNode, Labels

\* Every step keeps the tasks and the table together.
LEMMA StepTable == TableInv /\ [Next]_vars => TableInv'
<1> SUFFICES ASSUME TableInv, [Next]_vars PROVE TableInv'
  OBVIOUS
<1>1. Own \subseteq Task /\ "api" \in Task \ Own /\ "discovery" \in Task \ Own
  BY DEF Own, Task
<1>2. CASE UNCHANGED <<svc, entry, pc, late>>
  BY <1>2 DEF TableInv, TasksOfTable
<1>3. ASSUME NEW t \in Task, TaskStep(t) PROVE TableInv'
  <2>1. CASE Mark(t)
    BY <2>1, MarkKeeps DEF Mark
  <2>2. CASE PublishMark(t) \/ CallNode(t)
    <3>1. pc[t] # "off" /\ UNCHANGED <<svc, entry, late>> /\ \E l \in Labels \ {"off"} : Goto(t, l)
      BY <2>2 DEF PublishMark, CallNode, Due, Labels
    <3>2. QED
      BY <1>1, <3>1 DEF Goto, TableInv, TasksOfTable
  <2>3. QED
    BY <1>3, <2>1, <2>2 DEF TaskStep
<1>4. ASSUME NEW p \in late, PublishLate(p) PROVE TableInv'
  BY <1>4 DEF PublishLate, TableInv, TasksOfTable
<1>5. CASE Running
  BY <1>1, <1>5 DEF Running, TableInv, TasksOfTable, Own, Labels
<1>6. CASE Terminating
  BY <1>1, <1>6 DEF Terminating, Goto, TableInv, TasksOfTable, Labels
<1>7. CASE NodeAppend
  <2>1. entry' = "static" /\ svc' = svc /\ StopTasks("api", "save", "idle") /\ Ready
    BY <1>7 DEF NodeAppend, AppendStatic
  <2>2. QED
    BY <1>1, <2>1, StopKeeps DEF TableInv, TasksOfTable, Labels, Ready
<1>8. CASE NodeRemove
  <2>1. entry' = "none" /\ svc' = svc /\ StopTasks("api", "unsave", "off")
    BY <1>8 DEF NodeRemove
  <2>2. QED
    BY <1>1, <2>1, StopKeeps DEF TableInv, TasksOfTable, Labels
<1>9. CASE Registry
  BY <1>1, <1>9 DEF Registry, Goto, TableInv, TasksOfTable, Labels
<1>10. CASE Start \/ MarkAllOffline
  BY <1>10 DEF Start, MarkAllOffline, TableInv, TasksOfTable
<1>11. CASE Load
  <2>1. CASE conf
    <3>1. entry' = "static" /\ svc' = "up" /\ StopTasks("api", "idle", "idle")
      BY <1>11, <2>1 DEF Load, AppendStatic
    <3>2. QED
      BY <1>1, <3>1, StopKeeps DEF TableInv, TasksOfTable, Labels
  <2>2. CASE ~conf
    BY <1>11, <2>2 DEF Load, TableInv, TasksOfTable
  <2>3. QED
    BY <2>1, <2>2
<1>12. CASE Stop
  BY <1>1, <1>12 DEF Stop, TableInv, TasksOfTable, Labels
<1>13. CASE ProcessInventory \/ HandlerStep \/ CheckerStep \/ Flip
  BY <1>2, <1>13 DEF ProcessInventory, HandlerStep, Handle, HandleSource, CheckerStep, CheckService,
     CheckMark, CheckSource, Flip, service
<1>14. CASE UNCHANGED vars
  BY <1>2, <1>14 DEF vars, service
<1>15. QED
  BY <1>3, <1>4, <1>5, <1>6, <1>7, <1>8, <1>9, <1>10, <1>11, <1>12, <1>13, <1>14 DEF Next

\* However often the node is appended, discovered, lost and removed by four tasks, and the
\* service restarted, the reloader and the pinger run exactly while it is in the table.
THEOREM TasksCorrect == Spec => []TasksOfTable
<1>1. Init => TableInv
  BY DEF Init, TableInv, TasksOfTable, Own, Task, Labels
<1>2. TableInv => TasksOfTable
  BY DEF TableInv
<1>3. QED
  BY <1>1, <1>2, StepTable, PTL DEF Spec

----------------------------------------------------------------------------
(* Shared locks                                                            *)

\* A client that was told it has the lock, and has not released it
Has(c) == client[c] \in {"answered", "works", "unlocks"}

\* LockExclusive made inductive: without an overrun whoever was told so has the lock.
HolderInv == DOMAIN client = Client /\ (~overrun => \A c \in Client : Has(c) => holder = c)

\* Every step keeps HolderInv.
LEMMA StepHolder ==
  ASSUME None \notin Client, HolderInv, [LockerNext]_lockerVars
  PROVE  HolderInv'
<1>1. ASSUME NEW c \in Client, lock(c) \/ LockTimeout(c) \/ CallerGivesUp(c) \/ Dies(c)
      PROVE  HolderInv'
  BY <1>1 DEF lock, LockTimeout, CallerGivesUp, Dies, HolderInv, Has
<1>2. ASSUME NEW c \in Client, Acquire(c) PROVE HolderInv'
  <2>1. ~overrun => \A d \in Client : ~Has(d)
    BY <1>2 DEF Acquire, HolderInv
  <2>2. QED
    BY <1>2, <2>1 DEF Acquire, HolderInv, Has
<1>3. ASSUME NEW c \in Client, GotLock(c) \/ Finish(c) PROVE HolderInv'
  BY <1>3 DEF GotLock, Finish, HolderInv, Has
<1>4. ASSUME NEW c \in Client, unlock(c) PROVE HolderInv'
  <2>1. ~overrun => \A d \in Client : Has(d) => d = c
    BY <1>4 DEF unlock, HolderInv, Has
  <2>2. QED
    BY <1>4, <2>1 DEF unlock, HolderInv, Has
<1>5. CASE Expire
  <2>1. ~overrun' => \A d \in Client : ~Has(d)
    BY <1>5 DEF Expire, HolderInv, Has
  <2>2. QED
    BY <1>5, <2>1 DEF Expire, HolderInv, Has
<1>6. CASE UNCHANGED lockerVars
  BY <1>6 DEF lockerVars, HolderInv, Has
<1>7. QED
  BY <1>1, <1>2, <1>3, <1>4, <1>5, <1>6 DEF LockerNext, ClientStep

\* Two clients work under the lock together only after a lock has expired in the hands of
\* a client, however many clients ask, give up, come late and die.
THEOREM LockCorrect ==
  ASSUME None \notin Client
  PROVE  LockerSpec => []LockExclusive
<1>1. LockerInit => HolderInv
  BY DEF LockerInit, HolderInv, Has
<1>2. HolderInv /\ [LockerNext]_lockerVars => HolderInv'
  BY StepHolder
<1>3. HolderInv => LockExclusive
  BY DEF HolderInv, Has, LockExclusive
<1>4. QED
  BY <1>1, <1>2, <1>3, PTL DEF LockerSpec

----------------------------------------------------------------------------
(* Sequences of actions *)

\* AbortFollowsFailure made inductive: while a call has not run the actions for a failure
\* it has run none; it does so for a task that has ended; and a task that was told to stop
\* has begun nothing since, or is suspended.
SeqFields == DOMAIN IdleCall
TaskFields == DOMAIN NoTask
OfCall(s, t) ==
  /\ DOMAIN s = SeqFields /\ DOMAIN t = TaskFields
  /\ s.pc \in {"idle", "insert", "wait", "abort", "aborting", "done"} /\ s.aborts \in {0, 1}
  /\ s.pc \in {"idle", "insert", "wait", "abort"} => s.aborts = 0
  /\ s.pc = "abort" \/ s.aborts = 1 => t.pc \in {"failed", "dropped"}
  /\ t.late \in {0, 1}
  /\ ~t.aborted => t.late = 0
  /\ t.aborted /\ t.pc = "run" => t.late = 0
SequenceInv ==
  /\ DOMAIN seqn = SeqCaller /\ DOMAIN task = SeqCaller
  /\ \A c \in SeqCaller : OfCall(seqn[c], task[c])

LEMMA OneCall ==
  ASSUME SequenceInv, NEW c \in SeqCaller, NEW s, NEW t, OfCall(s, t),
         seqn' = [seqn EXCEPT ![c] = s], task' = [task EXCEPT ![c] = t]
  PROVE  SequenceInv'
<1>1. DOMAIN seqn' = SeqCaller /\ DOMAIN task' = SeqCaller
  BY DEF SequenceInv
<1>2. seqn'[c] = s /\ task'[c] = t /\ \A d \in SeqCaller \ {c} : seqn'[d] = seqn[d] /\ task'[d] = task[d]
  BY DEF SequenceInv
<1>3. QED
  BY <1>1, <1>2 DEF SequenceInv

\* A step of the call alone, or of its task alone
LEMMA OneSide ==
  ASSUME SequenceInv, NEW c \in SeqCaller, NEW s, NEW t, OfCall(s, t),
         \/ seqn' = [seqn EXCEPT ![c] = s] /\ UNCHANGED task /\ t = task[c]
         \/ task' = [task EXCEPT ![c] = t] /\ UNCHANGED seqn /\ s = seqn[c]
  PROVE  SequenceInv'
<1>1. DOMAIN seqn' = SeqCaller /\ DOMAIN task' = SeqCaller
  BY DEF SequenceInv
<1>2. seqn'[c] = s /\ task'[c] = t /\ \A d \in SeqCaller \ {c} : seqn'[d] = seqn[d] /\ task'[d] = task[d]
  BY DEF SequenceInv
<1>3. QED
  BY <1>1, <1>2 DEF SequenceInv

LEMMA CallStep ==
  ASSUME SequenceInv, NEW c \in SeqCaller, seq(c) \/ CallerStep(c)
  PROVE  SequenceInv'
<1> DEFINE s == seqn[c]
           t == task[c]
<1>1. OfCall(s, t) /\ DOMAIN seqn = SeqCaller /\ DOMAIN task = SeqCaller
  BY DEF SequenceInv
<1>2. ASSUME NEW u \in SeqUuid, NEW plan \in Plans, Execute(c, u, plan) PROVE SequenceInv'
  <2> DEFINE s1 == [IdleCall EXCEPT !.pc = "insert", !.u = u]
             t1 == [NoTask EXCEPT !.pc = "run", !.todo = plan]
  <2>1. OfCall(s1, t1)
    BY DEF OfCall, IdleCall, NoTask, SeqFields, TaskFields
  <2>2. seqn' = [seqn EXCEPT ![c] = s1] /\ task' = [task EXCEPT ![c] = t1]
    BY <1>2 DEF Execute
  <2>3. QED
    BY Zenon, <2>1, <2>2, OneCall
<1>3. ASSUME NEW l, seqn' = [seqn EXCEPT ![c] = [s EXCEPT !.pc = l]], UNCHANGED task,
             l \in {"wait", "abort", "done"}, l # "done" => s.aborts = 0, l = "abort" => t.pc \in {"failed", "dropped"}
      PROVE  SequenceInv'
  <2>1. OfCall([s EXCEPT !.pc = l], t)
    BY <1>1, <1>3 DEF OfCall, SeqFields, IdleCall
  <2>2. QED
    BY Zenon, <1>3, <2>1, OneSide
<1>4. CASE Insert(c)
  BY Zenon, <1>1, <1>3, <1>4 DEF Insert, OfCall
<1>5. CASE Receive(c)
  <2>1. s.pc = "wait" /\ t.pc \in {"ok", "failed", "dropped"} /\ UNCHANGED task
    BY <1>5 DEF Receive
  <2>2. PICK l \in {"abort", "done"} : seqn' = [seqn EXCEPT ![c] = [s EXCEPT !.pc = l]] /\ (l = "abort" => t.pc # "ok")
    BY Zenon, <1>1, <1>5 DEF Receive
  <2>3. QED
    BY Zenon, <1>1, <1>3, <2>1, <2>2 DEF OfCall
<1>6. CASE LaunchOnAbort(c)
  <2>1. s.pc = "abort" /\ UNCHANGED task /\ s.aborts = 0 /\ t.pc \in {"failed", "dropped"}
    BY <1>1, <1>6 DEF LaunchOnAbort, OfCall
  <2>2. seqn' = [seqn EXCEPT ![c] = [s EXCEPT !.pc = "aborting", !.aborts = 1]]
    <3>1. seqn' = [seqn EXCEPT ![c] = [s EXCEPT !.pc = "aborting", !.aborts = @ + 1]]
      BY Zenon, <1>1, <1>6 DEF LaunchOnAbort
    <3>2. [s EXCEPT !.pc = "aborting", !.aborts = @ + 1] = [s EXCEPT !.pc = "aborting", !.aborts = 1]
      BY <1>1, <2>1 DEF OfCall
    <3>3. QED
      BY Zenon, <3>1, <3>2
  <2>3. OfCall([s EXCEPT !.pc = "aborting", !.aborts = 1], t)
    BY <1>1, <2>1 DEF OfCall, SeqFields, IdleCall
  <2>4. QED
    BY Zenon, <2>1, <2>2, <2>3, OneSide
<1>7. CASE AbortEnds(c)
  BY Zenon, <1>1, <1>3, <1>7 DEF AbortEnds
<1>8. ASSUME NEW t1, task' = [task EXCEPT ![c] = t1], UNCHANGED seqn, DOMAIN t1 = TaskFields,
             t.pc \in {"run", "wait"}, t1.aborted = t.aborted,
             \/ t1.late = t.late /\ (t1.pc = "run" => ~t.aborted)
             \/ t1.late = t.late + 1 /\ t1.pc = "wait" /\ t.pc = "run" /\ t.aborted
      PROVE  SequenceInv'
  <2>1. OfCall(s, t1)
    BY <1>1, <1>8 DEF OfCall
  <2>2. QED
    BY Zenon, <1>8, <2>1, OneSide
<1>9. CASE NextEntry(c)
  <2>1. t.pc = "run" /\ UNCHANGED seqn /\ DOMAIN t = TaskFields
    BY <1>1, <1>9 DEF NextEntry, OfCall
  <2>2. CASE task' = [task EXCEPT ![c].pc = "ok"]
    <3>1. task' = [task EXCEPT ![c] = [t EXCEPT !.pc = "ok"]]
      BY <2>2
    <3>2. QED
      BY Zenon, <1>8, <2>1, <3>1 DEF TaskFields, NoTask
  <2>3. CASE task' = [task EXCEPT ![c].pc = "wait", ![c].todo = Tail(@), ![c].at = @ + 1,
                                  ![c].late = IF task[c].aborted THEN @ + 1 ELSE @]
    <3> DEFINE t1 == [t EXCEPT !.pc = "wait", !.todo = Tail(@), !.at = @ + 1,
                               !.late = IF t.aborted THEN @ + 1 ELSE @]
    <3>1. task' = [task EXCEPT ![c] = t1]
      BY Zenon, <1>1, <2>3
    <3>2. /\ DOMAIN t1 = TaskFields /\ t1.pc = "wait" /\ t1.aborted = t.aborted
          /\ t1.late = IF t.aborted THEN t.late + 1 ELSE t.late
      BY <2>1 DEF TaskFields, NoTask
    <3>3. QED
      BY Zenon, <1>8, <2>1, <3>1, <3>2
  <2>4. QED
    BY <1>9, <2>2, <2>3 DEF NextEntry
<1>10. ASSUME NEW l, task' = [task EXCEPT ![c] = [t EXCEPT !.pc = l]], UNCHANGED seqn,
              t.pc \in {"run", "wait"}, l = "run" => ~t.aborted
       PROVE  SequenceInv'
  <2>1. DOMAIN t = TaskFields
    BY <1>1 DEF OfCall
  <2>2. QED
    BY Zenon, <1>8, <1>10, <2>1 DEF TaskFields, NoTask
<1>11. CASE NoTimeLeft(c) \/ DropTask(c)
  BY <1>10, <1>11 DEF NoTimeLeft, DropTask
<1>12. CASE EntryEnds(c)
  <2>1. PICK l : l = IF task[c].failed THEN "failed" ELSE "run"
    OBVIOUS
  <2>2. task' = [task EXCEPT ![c] = [t EXCEPT !.pc = l]]
    BY <1>12, <2>1 DEF EntryEnds
  <2>3. QED
    BY Zenon, <1>10, <1>12, <2>2 DEF EntryEnds
<1>13. QED
  BY <1>2, <1>4, <1>5, <1>6, <1>7, <1>9, <1>11, <1>12 DEF seq, CallerStep

LEMMA ActionEndStep ==
  ASSUME SequenceInv, NEW f \in flight, NEW ok \in BOOLEAN, ActionEnds(f, ok)
  PROVE  SequenceInv'
<1>1. UNCHANGED seqn
  BY DEF ActionEnds
<1>2. CASE UNCHANGED task
  BY <1>1, <1>2 DEF SequenceInv
<1>3. CASE f[1] \notin SeqCaller
  BY <1>1, <1>2, <1>3 DEF ActionEnds, SequenceInv
<1>4. CASE f[1] \in SeqCaller /\ ~ UNCHANGED task
  <2> DEFINE t == task[f[1]]
             t1 == [t EXCEPT !.failed = @ \/ ~ok]
  <2>1. task' = [task EXCEPT ![f[1]] = t1]
    BY <1>4 DEF ActionEnds, SequenceInv
  <2>2. OfCall(seqn[f[1]], t)
    BY <1>4 DEF SequenceInv
  <2>3. OfCall(seqn[f[1]], t1)
    BY <2>2 DEF OfCall, TaskFields, NoTask
  <2>4. QED
    BY Zenon, <1>1, <1>4, <2>1, <2>3, OneSide
<1>5. QED
  BY <1>2, <1>3, <1>4

\* A task that is told to stop is one that runs or is suspended.
LEMMA AbortStep ==
  ASSUME SequenceInv, UNCHANGED seqn, NEW C, task' = Aborted(C)
  PROVE  SequenceInv'
<1>1. DOMAIN seqn' = SeqCaller /\ DOMAIN task' = SeqCaller
  BY DEF SequenceInv, Aborted
<1>2. ASSUME NEW c \in SeqCaller PROVE OfCall(seqn'[c], task'[c])
  <2>1. OfCall(seqn[c], task[c]) /\ seqn'[c] = seqn[c]
    BY DEF SequenceInv
  <2>2. CASE task'[c] = task[c]
    BY <2>1, <2>2
  <2>3. CASE task[c].pc \in {"run", "wait"} /\ task'[c] = [task[c] EXCEPT !.aborted = TRUE]
    BY <2>1, <2>3 DEF OfCall, TaskFields, NoTask
  <2>4. QED
    BY <2>2, <2>3 DEF Aborted
<1>3. QED
  BY <1>1, <1>2 DEF SequenceInv

LEMMA StepSequence ==
  ASSUME SequenceInv, SeqNext \/ UNCHANGED seqVars
  PROVE  SequenceInv'
<1>1. CASE UNCHANGED seqVars
  BY <1>1 DEF seqVars, SequenceInv
<1>2. CASE seq_terminate \/ SeqShutdown
  BY Zenon, <1>2, AbortStep DEF seq_terminate, Terminate, SeqShutdown
<1>3. QED
  BY <1>1, <1>2, CallStep, ActionEndStep DEF SeqNext

\* However many calls, sequences, terminations and failing actions there are, and also when
\* two sequences have one UUID or the service shuts down: the actions for a failed sequence
\* run once, after it has stopped, and a sequence that is terminated begins at most one
\* more entry.
THEOREM AbortCorrect == SeqSpec => []AbortFollowsFailure
<1>1. SeqInit => SequenceInv
  <2>1. OfCall(IdleCall, NoTask)
    BY DEF OfCall, IdleCall, NoTask, SeqFields, TaskFields
  <2>2. QED
    BY <2>1 DEF SequenceInv, SeqInit
<1>2. SequenceInv /\ [SeqNext]_seqVars => SequenceInv'
  BY StepSequence
<1>3. SequenceInv => AbortFollowsFailure
  BY DEF AbortFollowsFailure, SequenceInv, OfCall
<1>4. QED
  BY <1>1, <1>2, <1>3, PTL DEF SeqSpec

----------------------------------------------------------------------------
(* The locks: what a script of lock steps has still to do                  *)

LockStep == {"read", "write", "inv-", "stp", "stp-"}
Inv == {"read", "write"}
Any == {"read", "write", "stp"}

\* After place i of s comes a step that releases, and before that none of the steps in No.
Closed(s, i, No, release) ==
  \E j \in 1..Len(s) : i < j /\ s[j] = release /\ \A k \in 1..Len(s) : i < k /\ k < j => s[k] \notin No
Bracketed(s, Open, No, release) ==
  \A i \in 1..Len(s) : s[i] \in Open => Closed(s, i, No, release)

\* An operation releases the inventory before it takes it again; one that is not an event
\* releases the state processor lock before it takes any of the two again.
Orderly(s) == s \in Seq(LockStep) /\ Bracketed(s, Inv, Inv, "inv-")
StpLast(s) == Bracketed(s, {"stp"}, Any, "stp-")

LEMMA TailFacts ==
  ASSUME NEW S, NEW q \in Seq(S), q # <<>>
  PROVE  /\ Tail(q) \in Seq(S) /\ Len(Tail(q)) = Len(q) - 1 /\ Len(q) \in Nat /\ Len(q) >= 1
         /\ \A i \in 1..(Len(q) - 1) : Tail(q)[i] = q[i + 1]
         /\ Tail(q) = <<>> <=> Len(q) = 1
         /\ Head(q) = q[1] /\ q[1] \in S
<1>1. /\ Tail(q) \in Seq(S) /\ Len(Tail(q)) = Len(q) - 1 /\ Len(q) \in Nat /\ Len(q) >= 1
      /\ \A i \in 1..(Len(q) - 1) : Tail(q)[i] = q[i + 1]
      /\ Head(q) = q[1] /\ q[1] \in S
  OBVIOUS
<1>2. \A t \in Seq(S) : t = <<>> <=> Len(t) = 0
  OBVIOUS
<1>3. Tail(q) = <<>> <=> Len(Tail(q)) = 0
  BY <1>1, <1>2, Zenon
<1>4. Len(Tail(q)) = 0 <=> Len(q) = 1
  BY <1>1
<1>5. QED
  BY <1>1, <1>3, <1>4, Zenon

LEMMA AppendFacts ==
  ASSUME NEW S, NEW q \in Seq(S), NEW r \in S
  PROVE  /\ Append(q, r) \in Seq(S) /\ Len(Append(q, r)) = Len(q) + 1 /\ Len(q) \in Nat
         /\ \A i \in 1..Len(q) : Append(q, r)[i] = q[i]
         /\ Append(q, r)[Len(q) + 1] = r /\ Append(q, r) # <<>>
<1>1. /\ Append(q, r) \in Seq(S) /\ Len(Append(q, r)) = Len(q) + 1 /\ Len(q) \in Nat
      /\ \A i \in 1..Len(q) : Append(q, r)[i] = q[i]
      /\ Append(q, r)[Len(q) + 1] = r
  OBVIOUS
<1>2. Append(q, r) # <<>>
  BY <1>1
<1>3. QED
  BY <1>1, <1>2

LEMMA ScriptTail ==
  ASSUME NEW s \in Seq(LockStep), s # <<>>, NEW Open, NEW No, NEW release
  PROVE  /\ Bracketed(s, Open, No, release) => Bracketed(Tail(s), Open, No, release)
         /\ Bracketed(s, Open, No, release) /\ Head(s) \in Open => Closed(Tail(s), 0, No, release)
         /\ Closed(s, 0, No, release) /\ Head(s) # release => Closed(Tail(s), 0, No, release)
<1>1. /\ Tail(s) \in Seq(LockStep) /\ Len(Tail(s)) = Len(s) - 1 /\ Len(s) \in Nat /\ Len(s) >= 1
      /\ \A i \in 1..(Len(s) - 1) : Tail(s)[i] = s[i + 1]
      /\ Head(s) = s[1]
  BY TailFacts
<1>2. ASSUME NEW i \in 0..Len(s), NEW j \in 1..Len(s), i < j, j > 1, s[j] = release,
             \A k \in 1..Len(s) : i < k /\ k < j => s[k] \notin No,
             NEW h \in Nat, h = i - 1 \/ (h = i /\ i = 0)
      PROVE  Closed(Tail(s), h, No, release)
  <2>1. j - 1 \in 1..Len(Tail(s)) /\ h < j - 1 /\ Tail(s)[j - 1] = release
    BY <1>1, <1>2
  <2>2. ASSUME NEW k \in 1..Len(Tail(s)), h < k, k < j - 1 PROVE Tail(s)[k] \notin No
    <3>1. k + 1 \in 1..Len(s) /\ i < k + 1 /\ k + 1 < j /\ Tail(s)[k] = s[k + 1]
      BY <1>1, <1>2, <2>2
    <3>2. QED
      BY <1>2, <3>1
  <2>3. QED
    BY Zenon, <2>1, <2>2 DEF Closed
<1>3. ASSUME NEW i \in 1..Len(s), Closed(s, i, No, release) PROVE Closed(Tail(s), i - 1, No, release)
  <2>1. PICK j \in 1..Len(s) : i < j /\ s[j] = release /\ \A k \in 1..Len(s) : i < k /\ k < j => s[k] \notin No
    BY <1>3 DEF Closed
  <2>2. i \in 0..Len(s) /\ j > 1
    BY <1>1, <2>1
  <2>3. PICK h \in Nat : h = i - 1
    OBVIOUS
  <2>4. Closed(Tail(s), h, No, release)
    BY <1>2, <2>1, <2>2, <2>3
  <2>5. QED
    BY <2>3, <2>4
<1>4. ASSUME Closed(s, 0, No, release), Head(s) # release PROVE Closed(Tail(s), 0, No, release)
  <2>1. PICK j \in 1..Len(s) : 0 < j /\ s[j] = release /\ \A k \in 1..Len(s) : 0 < k /\ k < j => s[k] \notin No
    BY <1>4 DEF Closed
  <2>2. j > 1 /\ 0 \in 0..Len(s)
    BY <1>1, <1>4, <2>1
  <2>3. QED
    BY <1>2, <2>1, <2>2
<1>5. ASSUME Bracketed(s, Open, No, release), NEW i \in 1..Len(Tail(s)), Tail(s)[i] \in Open
      PROVE  Closed(Tail(s), i, No, release)
  <2>1. i + 1 \in 1..Len(s) /\ s[i + 1] \in Open /\ (i + 1) - 1 = i
    BY <1>1, <1>5
  <2>2. Closed(s, i + 1, No, release)
    BY <1>5, <2>1 DEF Bracketed
  <2>3. QED
    BY <1>3, <2>1, <2>2
<1>6. ASSUME Bracketed(s, Open, No, release), Head(s) \in Open PROVE Closed(Tail(s), 0, No, release)
  <2>1. 1 \in 1..Len(s) /\ 1 - 1 = 0 /\ Closed(s, 1, No, release)
    BY <1>1, <1>6 DEF Bracketed
  <2>2. QED
    BY <1>3, <2>1
<1>7. QED
  BY <1>4, <1>5, <1>6 DEF Bracketed

LEMMA ScriptJoin ==
  ASSUME NEW s \in Seq(LockStep), NEW t \in Seq(LockStep), NEW Open, NEW No, NEW release,
         Bracketed(s, Open, No, release), Bracketed(t, Open, No, release)
  PROVE  s \o t \in Seq(LockStep) /\ Bracketed(s \o t, Open, No, release)
<1> DEFINE st == s \o t
<1>1. /\ st \in Seq(LockStep) /\ Len(s) \in Nat /\ Len(t) \in Nat /\ Len(st) = Len(s) + Len(t)
      /\ \A i \in 1..Len(s) : st[i] = s[i]
      /\ \A i \in 1..Len(t) : st[Len(s) + i] = t[i]
  OBVIOUS
<1> HIDE DEF st
<1>2. ASSUME NEW i \in 1..Len(s), Closed(s, i, No, release) PROVE Closed(st, i, No, release)
  <2>1. PICK j \in 1..Len(s) : i < j /\ s[j] = release /\ \A k \in 1..Len(s) : i < k /\ k < j => s[k] \notin No
    BY <1>2 DEF Closed
  <2>2. j \in 1..Len(st) /\ st[j] = s[j] /\ s[j] = release
    BY ONLY <1>1, <2>1, i \in 1..Len(s)
  <2>3. ASSUME NEW k \in 1..Len(st), i < k, k < j PROVE st[k] \notin No
    <3>1. k \in 1..Len(s) /\ st[k] = s[k]
      BY <1>1, <2>3
    <3>2. QED
      BY <2>1, <2>3, <3>1
  <2>4. QED
    BY <2>1, <2>2, <2>3 DEF Closed
<1>3. ASSUME NEW i \in 1..Len(t), Closed(t, i, No, release) PROVE Closed(st, Len(s) + i, No, release)
  <2>1. PICK j \in 1..Len(t) : i < j /\ t[j] = release /\ \A k \in 1..Len(t) : i < k /\ k < j => t[k] \notin No
    BY <1>3 DEF Closed
  <2>2. Len(s) + j \in 1..Len(st) /\ st[Len(s) + j] = release /\ Len(s) + i < Len(s) + j
    BY <1>1, <2>1
  <2>3. ASSUME NEW k \in 1..Len(st), Len(s) + i < k, k < Len(s) + j PROVE st[k] \notin No
    <3>1. PICK m : m = k - Len(s)
      OBVIOUS
    <3>2. m \in 1..Len(t) /\ i < m /\ m < j /\ k = Len(s) + m
      BY <1>1, <2>3, <3>1
    <3>3. QED
      BY Zenon, <1>1, <2>1, <3>2
  <2>4. QED
    BY <2>2, <2>3 DEF Closed
<1>4. ASSUME NEW i \in 1..Len(st), st[i] \in Open PROVE Closed(st, i, No, release)
  <2>1. CASE i <= Len(s)
    <3>1. i \in 1..Len(s) /\ s[i] \in Open
      BY <1>1, <1>4, <2>1
    <3>2. QED
      BY <1>2, <3>1 DEF Bracketed
  <2>2. CASE i > Len(s)
    <3>1. /\ i - Len(s) \in 1..Len(t) /\ Len(s) + (i - Len(s)) = i
          /\ st[Len(s) + (i - Len(s))] = t[i - Len(s)]
      BY <1>1, <2>2
    <3>2. Closed(t, i - Len(s), No, release)
      BY <1>4, <3>1 DEF Bracketed
    <3>3. QED
      BY <1>3, <3>1, <3>2
  <2>3. QED
    BY <1>1, <2>1, <2>2
<1>5. QED
  BY <1>1, <1>4 DEF Bracketed, st

\* Bracketed sequences without an acquisition, and with one that is released at once
LEMMA ShortScripts ==
  ASSUME NEW Open, NEW No, NEW release \in LockStep, NEW a \in LockStep
  PROVE  /\ <<>> \in Seq(LockStep) /\ Bracketed(<<>>, Open, No, release)
         /\ <<a>> \in Seq(LockStep) /\ (a \notin Open => Bracketed(<<a>>, Open, No, release))
         /\ <<a, release>> \in Seq(LockStep)
         /\ release \notin Open => Bracketed(<<a, release>>, Open, No, release)
<1>0. <<>> \in Seq(LockStep) /\ Len(<<>>) = 0
  OBVIOUS
<1>1. <<a>> \in Seq(LockStep)
  <2>1. PICK s : s = <<a>>
    BY Zenon
  <2>2. s \in Seq(LockStep)
    BY <2>1
  <2>3. QED
    BY <2>1, <2>2
<1>2. PICK s : s = <<a, release>>
  BY Zenon
<1>3. Len(s) = 2 /\ s[1] = a /\ s[2] = release /\ s \in Seq(LockStep)
  BY <1>2
<1>4. release \notin Open => Bracketed(s, Open, No, release)
  <2>1. 1..2 = {1, 2}
    OBVIOUS
  <2>2. Closed(s, 1, No, release)
    BY <1>3 DEF Closed
  <2>3. QED
    BY <1>3, <2>1, <2>2 DEF Bracketed
<1>5. a \notin Open => Bracketed(<<a>>, Open, No, release)
  BY DEF Bracketed
<1>6. Bracketed(<<>>, Open, No, release)
  BY <1>0 DEF Bracketed
<1>7. QED
  BY <1>0, <1>1, <1>2, <1>3, <1>4, <1>5, <1>6

\* The inventory taken, and released at once
LEMMA InventoryOnly ==
  ASSUME NEW s \in Seq(LockStep), Len(s) = 2, s[1] \in Inv, s[2] = "inv-"
  PROVE  Orderly(s) /\ StpLast(s)
<1>1. 1..2 = {1, 2} /\ s[1] # "stp" /\ s[2] \notin Inv
  BY DEF Inv
<1>2. Closed(s, 1, Inv, "inv-")
  <2>1. \A k \in 1..2 : ~(1 < k /\ k < 2)
    OBVIOUS
  <2>2. QED
    BY <2>1 DEF Closed
<1>3. QED
  BY <1>1, <1>2 DEF Orderly, StpLast, Bracketed

\* The inventory taken around a use of the state processor lock
LEMMA BothLocks ==
  ASSUME NEW s \in Seq(LockStep), Len(s) = 4,
         s[1] = "read", s[2] = "stp", s[3] = "stp-", s[4] = "inv-"
  PROVE  Orderly(s) /\ StpLast(s)
<1>1. Len(s) = 4 /\ s[1] = "read" /\ s[2] = "stp" /\ s[3] = "stp-" /\ s[4] = "inv-" /\ 1..4 = {1, 2, 3, 4}
  OBVIOUS
<1>2. Closed(s, 1, Inv, "inv-")
  <2>1. \A k \in 1..4 : 1 < k /\ k < 4 => k = 2 \/ k = 3
    OBVIOUS
  <2>2. QED
    BY <1>1, <2>1 DEF Closed, Inv
<1>3. Closed(s, 2, Any, "stp-")
  <2>1. \A k \in 1..4 : ~(2 < k /\ k < 3)
    OBVIOUS
  <2>2. QED
    BY <1>1, <2>1 DEF Closed, Any
<1>4. QED
  BY <1>1, <1>2, <1>3 DEF Orderly, StpLast, Bracketed, Inv

LEMMA ScriptsJoin ==
  ASSUME NEW s, NEW t, Orderly(s), Orderly(t)
  PROVE  Orderly(s \o t) /\ (StpLast(s) /\ StpLast(t) => StpLast(s \o t))
BY ScriptJoin DEF Orderly, StpLast

LEMMA SimpleScripts ==
  /\ Orderly(<<>>) /\ StpLast(<<>>) /\ Orderly(<<"stp">>) /\ Orderly(<<"stp-">>)
  /\ Orderly(Read) /\ StpLast(Read) /\ Orderly(Write) /\ StpLast(Write)
  /\ Orderly(Stp) /\ StpLast(Stp)
<1>1. /\ "read" \in LockStep /\ "write" \in LockStep /\ "inv-" \in LockStep /\ "stp" \in LockStep
      /\ "stp-" \in LockStep
  BY DEF LockStep
<1>2. /\ "inv-" \notin Inv /\ "stp" \notin Inv /\ "stp-" \notin Inv /\ "stp-" \notin {"stp"}
      /\ "read" \notin {"stp"} /\ "write" \notin {"stp"} /\ "inv-" \notin {"stp"}
  BY DEF Inv
<1>3. Orderly(<<>>) /\ StpLast(<<>>)
  BY Zenon, <1>1, ShortScripts DEF Orderly, StpLast
<1>4. Orderly(<<"stp">>) /\ Orderly(<<"stp-">>)
  BY Zenon, <1>1, <1>2, ShortScripts DEF Orderly
<1>5. Orderly(<<"read", "inv-">>) /\ Orderly(<<"write", "inv-">>)
  BY Zenon, <1>1, <1>2, ShortScripts DEF Orderly
<1>6. StpLast(<<"stp", "stp-">>)
  BY Zenon, <1>1, <1>2, ShortScripts DEF StpLast
<1>7. /\ \A a \in LockStep \ {"stp"} : StpLast(<<a, "inv-">>)
  <2> SUFFICES ASSUME NEW a \in LockStep \ {"stp"} PROVE StpLast(<<a, "inv-">>)
    OBVIOUS
  <2>1. PICK s : s = <<a, "inv-">>
    BY Zenon
  <2>2. Len(s) = 2 /\ s[1] = a /\ s[2] = "inv-" /\ 1..2 = {1, 2}
    BY <2>1
  <2>3. StpLast(s)
    BY <2>2 DEF StpLast, Bracketed
  <2>4. QED
    BY <2>1, <2>3
<1>8. Orderly(<<"stp", "stp-">>)
  <2>1. PICK s \in Seq(LockStep) : s = <<"stp", "stp-">>
    BY Zenon, <1>1, ShortScripts
  <2>2. Len(s) = 2 /\ s[1] = "stp" /\ s[2] = "stp-" /\ 1..2 = {1, 2}
    BY <2>1
  <2>3. Orderly(s)
    BY <2>2 DEF Orderly, Bracketed, Inv
  <2>4. QED
    BY <2>1, <2>3
<1>9. QED
  BY <1>1, <1>3, <1>4, <1>5, <1>6, <1>7, <1>8 DEF Read, Write, Stp

LEMMA DeployScript ==
  ASSUME NEW l \in BOOLEAN
  PROVE  Orderly(Deploy(l)) /\ StpLast(Deploy(l))
<1> DEFINE announce == IF l THEN Stp ELSE <<>>
           under == <<"read">> \o announce \o <<"inv-">>
<1>1. Orderly(announce) /\ StpLast(announce)
  BY SimpleScripts
<1>2. Orderly(under) /\ StpLast(under)
  <2>1. CASE l
    <3>1. PICK s : s = under
      BY Zenon
    <3>2. s = <<"read">> \o (<<"stp", "stp-">> \o <<"inv-">>)
      BY <2>1, <3>1 DEF Stp
    <3>3. /\ Len(s) = 4 /\ s[1] = "read" /\ s[2] = "stp" /\ s[3] = "stp-" /\ s[4] = "inv-"
      BY ONLY <3>2
    <3>4. s \in Seq(LockStep)
      BY ONLY <3>2 DEF LockStep
    <3>5. QED
      BY Zenon, <3>1, <3>3, <3>4, BothLocks
  <2>2. CASE ~l
    <3>1. PICK s : s = under
      BY Zenon
    <3>2. s = <<"read">> \o (<<>> \o <<"inv-">>)
      BY <2>2, <3>1
    <3>3. Len(s) = 2 /\ s[1] = "read" /\ s[2] = "inv-"
      BY ONLY <3>2
    <3>4. s \in Seq(LockStep)
      BY ONLY <3>2 DEF LockStep
    <3>5. QED
      BY Zenon, <3>1, <3>3, <3>4, InventoryOnly DEF Inv
  <2>3. QED
    BY <2>1, <2>2
<1>3. Deploy(l) = Write \o (IF useDb THEN under ELSE announce)
  BY DEF Deploy
<1> HIDE DEF announce, under
<1>4. Orderly(IF useDb THEN under ELSE announce) /\ StpLast(IF useDb THEN under ELSE announce)
  BY <1>1, <1>2
<1>5. QED
  BY <1>3, <1>4, SimpleScripts, ScriptsJoin

LEMMA OperationScripts ==
  /\ \A op \in EventOp \union CallOp : Orderly(Operation(op))
  /\ \A op \in CallOp : StpLast(Operation(op))
<1>1. ASSUME NEW om \in {"none", "other", "new"} PROVE Orderly(Modified(om))
  BY Zenon, SimpleScripts, DeployScript, ScriptsJoin DEF Modified
<1>2. ASSUME NEW om \in {"none", "other", "new"} PROVE Orderly(RawState(om)) /\ Orderly(RawBulk(om))
  BY <1>1, SimpleScripts, ScriptsJoin DEF RawState, RawBulk
<1>3. Orderly(RawBulkNew)
  BY Zenon, SimpleScripts, DeployScript, ScriptsJoin DEF RawBulkNew
<1>4. Orderly(ActionState) /\ StpLast(ActionState)
  <2>1. PICK s : s = ActionState
    OBVIOUS
  <2>2. s = <<"read", "stp", "stp-", "inv-">>
    BY <2>1 DEF ActionState
  <2>3. Len(s) = 4 /\ s[1] = "read" /\ s[2] = "stp" /\ s[3] = "stp-" /\ s[4] = "inv-"
    BY ONLY <2>2
  <2>4. s \in Seq(LockStep)
    BY ONLY <2>2 DEF LockStep
  <2>5. QED
    BY <2>1, <2>3, <2>4, BothLocks
<1>5. /\ Orderly(LvarNew) /\ StpLast(LvarNew)
      /\ Orderly(CreateItem) /\ StpLast(CreateItem)
  BY SimpleScripts, ScriptsJoin DEF LvarNew, CreateItem
<1>6. ASSUME NEW op \in EventOp PROVE Orderly(Operation(op))
  BY Zenon, <1>2, <1>3 DEF EventOp, Operation
<1>7. ASSUME NEW op \in CallOp PROVE Orderly(Operation(op)) /\ StpLast(Operation(op))
  BY Zenon, <1>4, <1>5, SimpleScripts, DeployScript DEF CallOp, Operation
<1>8. QED
  BY <1>6, <1>7

----------------------------------------------------------------------------
(* The locks: no circle but around a bulk frame                            *)

InvHolder == readers \union writer

\* Who waits is at the step it waits for, once; who holds a lock has the release of it
\* before any further step that might wait.
LockInv ==
  /\ ops \subseteq EventOp
  /\ DOMAIN script = LockTask
  /\ \A t \in LockTask : Orderly(script[t]) /\ (t \notin Handler => StpLast(script[t]))
  /\ InvHolder \subseteq LockTask /\ stpLock \subseteq LockTask
  /\ \A t \in InvHolder : Closed(script[t], 0, Inv, "inv-")
  /\ \A t \in stpLock \ Handler : Closed(script[t], 0, Any, "stp-")
WaitInv ==
  /\ invQ \in Seq(LockTask \X Inv) /\ stpQ \in Seq(LockTask \X {"stp"})
  /\ \A i \in 1..Len(invQ) : script[invQ[i][1]] # <<>> /\ Head(script[invQ[i][1]]) = invQ[i][2]
  /\ \A i \in 1..Len(stpQ) : script[stpQ[i][1]] # <<>> /\ Head(script[stpQ[i][1]]) = "stp"
  /\ \A i, j \in 1..Len(invQ) : invQ[i][1] = invQ[j][1] => i = j
  /\ \A i, j \in 1..Len(stpQ) : stpQ[i][1] = stpQ[j][1] => i = j

\* A task takes a step of its script.
LEMMA ScriptStep ==
  ASSUME LockInv, NEW t \in LockTask, script[t] # <<>>, Done(t), UNCHANGED ops,
         InvHolder' = InvHolder \/ (InvHolder' = InvHolder \union {t} /\ Head(script[t]) \in Inv)
           \/ InvHolder' = InvHolder \ {t},
         stpLock' = stpLock \/ (stpLock' = stpLock \union {t} /\ Head(script[t]) = "stp") \/ stpLock' = stpLock \ {t},
         Head(script[t]) = "inv-" => t \notin InvHolder',
         Head(script[t]) = "stp-" => t \notin stpLock'
  PROVE  LockInv'
<1>1. DOMAIN script' = LockTask /\ script'[t] = Tail(script[t]) /\ \A u \in LockTask \ {t} : script'[u] = script[u]
  BY DEF LockInv, Done
<1>2. script[t] \in Seq(LockStep) /\ Bracketed(script[t], Inv, Inv, "inv-")
  BY DEF LockInv, Orderly
<1>3. Orderly(script'[t])
  BY <1>1, <1>2, ScriptTail, TailFacts DEF Orderly
<1>4. t \notin Handler => StpLast(script[t]) /\ StpLast(script'[t])
  BY <1>1, <1>2, ScriptTail DEF LockInv, StpLast
<1>5. t \in InvHolder' => Closed(script'[t], 0, Inv, "inv-")
  <2>1. t \in InvHolder' => (t \in InvHolder /\ Head(script[t]) # "inv-") \/ Head(script[t]) \in Inv
    OBVIOUS
  <2>2. t \in InvHolder => Closed(script[t], 0, Inv, "inv-")
    BY DEF LockInv
  <2>3. Closed(script[t], 0, Inv, "inv-") /\ Head(script[t]) # "inv-" => Closed(script'[t], 0, Inv, "inv-")
    BY <1>1, <1>2, ScriptTail
  <2>4. Head(script[t]) \in Inv => Closed(script'[t], 0, Inv, "inv-")
    BY <1>1, <1>2, ScriptTail
  <2>5. QED
    BY Zenon, <2>1, <2>2, <2>3, <2>4
<1>6. t \in stpLock' \ Handler => Closed(script'[t], 0, Any, "stp-")
  <2>1. t \in stpLock' => (t \in stpLock /\ Head(script[t]) # "stp-") \/ Head(script[t]) = "stp"
    OBVIOUS
  <2>2. t \in stpLock \ Handler => Closed(script[t], 0, Any, "stp-")
    BY DEF LockInv
  <2>3. t \notin Handler /\ Head(script[t]) = "stp" => Closed(script'[t], 0, Any, "stp-")
    BY <1>1, <1>2, <1>4, ScriptTail DEF StpLast
  <2>4. Closed(script[t], 0, Any, "stp-") /\ Head(script[t]) # "stp-" => Closed(script'[t], 0, Any, "stp-")
    <3>1. Bracketed(script[t], {}, Any, "stp-")
      BY DEF Bracketed
    <3>2. QED
      BY <1>1, <1>2, <3>1, ScriptTail
  <2>5. QED
    BY <2>1, <2>2, <2>3, <2>4, Zenon
<1>7. \A u \in InvHolder' : Closed(script'[u], 0, Inv, "inv-")
  BY Zenon, <1>1, <1>5 DEF LockInv
<1>8. \A u \in stpLock' \ Handler : Closed(script'[u], 0, Any, "stp-")
  BY Zenon, <1>1, <1>6 DEF LockInv
<1>9. InvHolder' \subseteq LockTask /\ stpLock' \subseteq LockTask
  BY DEF LockInv
<1>10. \A u \in LockTask : Orderly(script'[u]) /\ (u \notin Handler => StpLast(script'[u]))
  BY Zenon, <1>1, <1>3, <1>4 DEF LockInv
<1>11. QED
  BY <1>1, <1>7, <1>8, <1>9, <1>10 DEF LockInv

\* The task that takes a step of its script waits for nothing, or no longer.
LEMMA QueuesKeep ==
  ASSUME WaitInv, NEW t, UNCHANGED <<invQ, stpQ>>,
         \A i \in 1..Len(invQ) : invQ[i][1] # t, \A i \in 1..Len(stpQ) : stpQ[i][1] # t,
         \A u \in LockTask \ {t} : script'[u] = script[u]
  PROVE  WaitInv'
<1>1. \A i \in 1..Len(invQ) : invQ[i][1] \in LockTask \ {t}
  BY DEF WaitInv
<1>2. \A i \in 1..Len(stpQ) : stpQ[i][1] \in LockTask \ {t}
  BY DEF WaitInv
<1>3. \A i \in 1..Len(invQ) : script'[invQ[i][1]] = script[invQ[i][1]]
  BY <1>1
<1>4. \A i \in 1..Len(stpQ) : script'[stpQ[i][1]] = script[stpQ[i][1]]
  BY <1>2
<1>5. QED
  BY <1>3, <1>4 DEF WaitInv

LEMMA NotWaiting ==
  ASSUME NEW t, t \notin Waiting, WaitInv
  PROVE  /\ \A i \in 1..Len(invQ) : invQ[i][1] # t
         /\ \A i \in 1..Len(stpQ) : stpQ[i][1] # t
<1>1. DOMAIN invQ = 1..Len(invQ) /\ DOMAIN stpQ = 1..Len(stpQ)
  BY DEF WaitInv
<1>2. QED
  BY <1>1 DEF Waiting, Queued

LEMMA EnqueueKeeps ==
  ASSUME LockInv, WaitInv, NEW t \in LockTask, Enqueue(t)
  PROVE  LockInv' /\ WaitInv'
<1>1. UNCHANGED <<ops, script, readers, writer, stpLock>>
  BY DEF Enqueue
<1>2. LockInv'
  BY <1>1 DEF LockInv, InvHolder
<1>3. t \notin Waiting /\ script[t] # <<>>
  BY DEF Enqueue, AtStep
<1>4. /\ \A i \in 1..Len(invQ) : invQ[i][1] # t
      /\ \A i \in 1..Len(stpQ) : stpQ[i][1] # t
  BY <1>3, NotWaiting
<1>5. ASSUME NEW mode \in Inv, AtStep(t, mode), invQ' = Append(invQ, <<t, mode>>), UNCHANGED stpQ
      PROVE  WaitInv'
  <2>0. PICK e : e = <<t, mode>>
    BY Zenon
  <2>1. e \in LockTask \X Inv /\ e[1] = t /\ e[2] = mode
    BY <2>0
  <2>2. invQ \in Seq(LockTask \X Inv)
    BY DEF WaitInv
  <2>3. /\ invQ' \in Seq(LockTask \X Inv) /\ Len(invQ') = Len(invQ) + 1 /\ Len(invQ) \in Nat
        /\ \A i \in 1..Len(invQ) : invQ'[i] = invQ[i]
        /\ invQ'[Len(invQ) + 1] = e
    BY <1>5, <2>0, <2>1, <2>2, AppendFacts
  <2>4. \A i \in 1..Len(invQ') : i \in 1..Len(invQ) \/ i = Len(invQ) + 1
    BY <2>3
  <2>5. Head(script[t]) = mode
    BY <1>5 DEF AtStep
  <2>6. \A i \in 1..Len(invQ') : script[invQ'[i][1]] # <<>> /\ Head(script[invQ'[i][1]]) = invQ'[i][2]
    BY <1>3, <2>1, <2>3, <2>4, <2>5 DEF WaitInv
  <2>7. \A i, j \in 1..Len(invQ') : invQ'[i][1] = invQ'[j][1] => i = j
    BY Zenon, <1>4, <2>1, <2>3, <2>4 DEF WaitInv
  <2>8. QED
    <3>1. /\ stpQ' \in Seq(LockTask \X {"stp"})
          /\ \A i \in 1..Len(stpQ') : script'[stpQ'[i][1]] # <<>> /\ Head(script'[stpQ'[i][1]]) = "stp"
          /\ \A i, j \in 1..Len(stpQ') : stpQ'[i][1] = stpQ'[j][1] => i = j
      BY <1>1, <1>5 DEF WaitInv
    <3>2. \A i \in 1..Len(invQ') : script'[invQ'[i][1]] # <<>> /\ Head(script'[invQ'[i][1]]) = invQ'[i][2]
      BY <1>1, <2>6
    <3>3. QED
      BY <2>3, <2>7, <3>1, <3>2, Zenon DEF WaitInv
<1>6. ASSUME AtStep(t, "stp"), stpQ' = Append(stpQ, <<t, "stp">>), UNCHANGED invQ
      PROVE  WaitInv'
  <2>0. PICK e : e = <<t, "stp">>
    BY ZenonT(30)
  <2>1. e \in LockTask \X {"stp"} /\ e[1] = t
    BY <2>0
  <2>2. stpQ \in Seq(LockTask \X {"stp"})
    BY DEF WaitInv
  <2>3. /\ stpQ' \in Seq(LockTask \X {"stp"}) /\ Len(stpQ') = Len(stpQ) + 1 /\ Len(stpQ) \in Nat
        /\ \A i \in 1..Len(stpQ) : stpQ'[i] = stpQ[i]
        /\ stpQ'[Len(stpQ) + 1] = e
    BY <1>6, <2>0, <2>1, <2>2, AppendFacts
  <2>4. \A i \in 1..Len(stpQ') : i \in 1..Len(stpQ) \/ i = Len(stpQ) + 1
    BY <2>3
  <2>5. Head(script[t]) = "stp"
    BY <1>6 DEF AtStep
  <2>6. \A i \in 1..Len(stpQ') : script[stpQ'[i][1]] # <<>> /\ Head(script[stpQ'[i][1]]) = "stp"
    BY ZenonT(30), <1>3, <2>1, <2>3, <2>4, <2>5 DEF WaitInv
  <2>7. \A i, j \in 1..Len(stpQ') : stpQ'[i][1] = stpQ'[j][1] => i = j
    BY Zenon, <1>4, <2>1, <2>3, <2>4 DEF WaitInv
  <2>8. QED
    <3>1. /\ invQ' \in Seq(LockTask \X Inv)
          /\ \A i \in 1..Len(invQ') : script'[invQ'[i][1]] # <<>> /\ Head(script'[invQ'[i][1]]) = invQ'[i][2]
          /\ \A i, j \in 1..Len(invQ') : invQ'[i][1] = invQ'[j][1] => i = j
      BY <1>1, <1>6 DEF WaitInv
    <3>2. \A i \in 1..Len(stpQ') : script'[stpQ'[i][1]] # <<>> /\ Head(script'[stpQ'[i][1]]) = "stp"
      BY <1>1, <2>6
    <3>3. QED
      BY <2>3, <2>7, <3>1, <3>2, Zenon DEF WaitInv
<1>7. QED
  BY <1>2, <1>5, <1>6 DEF Enqueue, Inv

LEMMA GrantInvKeeps ==
  ASSUME LockInv, WaitInv, NEW t \in LockTask, GrantInv(t)
  PROVE  LockInv' /\ WaitInv'
<1>1. /\ invQ # <<>> /\ invQ[1][1] = t /\ invQ' = Tail(invQ) /\ Done(t)
      /\ UNCHANGED <<ops, stpLock, stpQ>>
      /\ InvHolder' = InvHolder \union {t}
  BY DEF GrantInv, InvHolder
<1>2. invQ \in Seq(LockTask \X Inv) /\ DOMAIN script = LockTask
  BY DEF WaitInv, LockInv
<1>3. /\ invQ' \in Seq(LockTask \X Inv) /\ Len(invQ') = Len(invQ) - 1 /\ Len(invQ) \in Nat
      /\ Len(invQ) >= 1 /\ invQ[1] \in LockTask \X Inv
      /\ \A i \in 1..(Len(invQ) - 1) : invQ'[i] = invQ[i + 1]
  BY <1>1, <1>2, TailFacts
<1>4. script[t] # <<>> /\ Head(script[t]) \in Inv
  BY <1>1, <1>3 DEF WaitInv
<1>5. LockInv'
  BY <1>1, <1>4, ScriptStep DEF Inv
<1>6. \A u \in LockTask \ {t} : script'[u] = script[u]
  BY <1>1, <1>2 DEF Done
<1>7. \A i \in 1..Len(invQ') : /\ i + 1 \in 1..Len(invQ) /\ invQ'[i] = invQ[i + 1] /\ invQ[i + 1][1] # t
                               /\ invQ'[i][1] \in LockTask
  BY <1>1, <1>2, <1>3 DEF WaitInv
<1>8. \A i \in 1..Len(invQ') : script'[invQ'[i][1]] = script[invQ[i + 1][1]]
  BY <1>6, <1>7
<1>9. \A i \in 1..Len(stpQ) : stpQ[i][1] # t /\ stpQ[i][1] \in LockTask
  BY <1>4 DEF WaitInv, Inv
<1>10. \A i \in 1..Len(invQ') : script'[invQ'[i][1]] # <<>> /\ Head(script'[invQ'[i][1]]) = invQ'[i][2]
  BY <1>7, <1>8 DEF WaitInv
<1>11. \A i \in 1..Len(stpQ) : script'[stpQ[i][1]] # <<>> /\ Head(script'[stpQ[i][1]]) = "stp"
  BY <1>6, <1>9 DEF WaitInv
<1>12. ASSUME NEW i \in 1..Len(invQ'), NEW j \in 1..Len(invQ'), invQ'[i][1] = invQ'[j][1] PROVE i = j
  <2>1. i + 1 = j + 1
    BY <1>7, <1>12 DEF WaitInv
  <2>2. QED
    BY <1>3, <2>1
<1>13. QED
  BY <1>1, <1>3, <1>5, <1>10, <1>11, <1>12 DEF WaitInv

LEMMA GrantStpKeeps ==
  ASSUME LockInv, WaitInv, NEW t \in LockTask, GrantStp(t)
  PROVE  LockInv' /\ WaitInv'
<1>1. /\ stpQ # <<>> /\ stpQ[1][1] = t /\ stpQ' = Tail(stpQ) /\ Done(t)
      /\ UNCHANGED <<ops, invQ>> /\ InvHolder' = InvHolder
      /\ stpLock' = stpLock \union {t}
  BY DEF GrantStp, InvHolder
<1>2. stpQ \in Seq(LockTask \X {"stp"}) /\ DOMAIN script = LockTask
  BY DEF WaitInv, LockInv
<1>3. /\ stpQ' \in Seq(LockTask \X {"stp"}) /\ Len(stpQ') = Len(stpQ) - 1 /\ Len(stpQ) \in Nat
      /\ Len(stpQ) >= 1 /\ stpQ[1] \in LockTask \X {"stp"}
      /\ \A i \in 1..(Len(stpQ) - 1) : stpQ'[i] = stpQ[i + 1]
  BY <1>1, <1>2, TailFacts
<1>4. script[t] # <<>> /\ Head(script[t]) = "stp"
  BY <1>1, <1>3 DEF WaitInv
<1>5. LockInv'
  BY <1>1, <1>4, ScriptStep
<1>6. \A u \in LockTask \ {t} : script'[u] = script[u]
  BY <1>1, <1>2 DEF Done
<1>7. \A i \in 1..Len(stpQ') : /\ i + 1 \in 1..Len(stpQ) /\ stpQ'[i] = stpQ[i + 1] /\ stpQ[i + 1][1] # t
                               /\ stpQ'[i][1] \in LockTask
  BY <1>1, <1>2, <1>3 DEF WaitInv
<1>8. \A i \in 1..Len(stpQ') : script'[stpQ'[i][1]] = script[stpQ[i + 1][1]]
  BY <1>6, <1>7
<1>9. \A i \in 1..Len(invQ) : invQ[i][1] # t /\ invQ[i][1] \in LockTask
  BY <1>4 DEF WaitInv, Inv
<1>10. \A i \in 1..Len(stpQ') : script'[stpQ'[i][1]] # <<>> /\ Head(script'[stpQ'[i][1]]) = "stp"
  BY <1>7, <1>8 DEF WaitInv
<1>11. \A i \in 1..Len(invQ) : script'[invQ[i][1]] # <<>> /\ Head(script'[invQ[i][1]]) = invQ[i][2]
  BY <1>6, <1>9 DEF WaitInv
<1>12. ASSUME NEW i \in 1..Len(stpQ'), NEW j \in 1..Len(stpQ'), stpQ'[i][1] = stpQ'[j][1] PROVE i = j
  <2>1. i + 1 = j + 1
    BY <1>7, <1>12 DEF WaitInv
  <2>2. QED
    BY <1>3, <2>1
<1>13. QED
  BY <1>1, <1>3, <1>5, <1>10, <1>11, <1>12 DEF WaitInv

LEMMA ReleaseKeeps ==
  ASSUME LockInv, WaitInv, NEW t \in LockTask, Release(t)
  PROVE  LockInv' /\ WaitInv'
<1>1. /\ script[t] # <<>> /\ t \notin Waiting /\ Done(t) /\ UNCHANGED <<ops, invQ, stpQ>>
  BY DEF Release, AtStep
<1>2. \/ InvHolder' = InvHolder \ {t} /\ stpLock' = stpLock /\ Head(script[t]) = "inv-"
      \/ InvHolder' = InvHolder /\ stpLock' = stpLock \ {t} /\ Head(script[t]) = "stp-"
  BY DEF Release, AtStep, InvHolder
<1>3. LockInv'
  BY <1>1, <1>2, ScriptStep
<1>4. \A u \in LockTask \ {t} : script'[u] = script[u]
  BY <1>1 DEF Done, LockInv
<1>5. QED
  BY <1>1, <1>3, <1>4, NotWaiting, QueuesKeep

\* A task without locks and waiting for none begins an operation.
LEMMA StartKeeps ==
  ASSUME LockInv, WaitInv, NEW t \in LockTask, NEW op, StartOp(t, op)
  PROVE  LockInv' /\ WaitInv'
<1>1. /\ script[t] = <<>> /\ script' = [script EXCEPT ![t] = Operation(op)]
      /\ UNCHANGED <<ops, readers, writer, stpLock, invQ, stpQ>>
      /\ op \in IF t \in Handler THEN ops ELSE CallerOp
  BY DEF StartOp
<1>2. /\ DOMAIN script' = LockTask /\ script'[t] = Operation(op)
      /\ \A u \in LockTask \ {t} : script'[u] = script[u]
  BY <1>1 DEF LockInv
<1>3. Orderly(script'[t]) /\ (t \notin Handler => StpLast(script'[t]))
  BY <1>1, <1>2, OperationScripts, LocksParameters DEF LockInv
<1>4. t \notin InvHolder /\ t \notin stpLock \ Handler
  <2>1. Len(script[t]) = 0 /\ 1..0 = {}
    BY <1>1
  <2>2. QED
    BY <2>1 DEF LockInv, Closed
<1>5. LockInv'
  BY <1>1, <1>2, <1>3, <1>4 DEF LockInv, InvHolder
<1>6. WaitInv'
  <2>1. /\ \A i \in 1..Len(invQ) : invQ[i][1] # t
        /\ \A i \in 1..Len(stpQ) : stpQ[i][1] # t
    BY Zenon, <1>1 DEF WaitInv
  <2>2. QED
    BY <1>1, <1>2, <2>1, QueuesKeep
<1>7. QED
  BY <1>5, <1>6

LEMMA LeastNat ==
  ASSUME NEW T \in SUBSET Nat, T # {}
  PROVE  \E x \in T : \A y \in T : x <= y
<1>1. PICK x \in T : \A y \in T : ~(<<y, x>> \in OpToRel(<, Nat))
  BY Zenon, NatLessThanWellFounded, WFMin
<1>2. \A y \in T : ~(y < x)
  BY Zenon, <1>1 DEF OpToRel
<1>3. QED
  BY <1>2

\* What a waiting task waits for, in each of the queues
LEMMA WaitsForWhat ==
  ASSUME WaitInv, NEW t, NEW u \in WaitsFor(t)
  PROVE  \/ \E i \in 1..Len(invQ) : /\ invQ[i][1] = t
                                    /\ (u \in InvHolder \/ \E j \in 1..Len(invQ) : j < i /\ u = invQ[j][1])
         \/ \E i \in 1..Len(stpQ) : /\ stpQ[i][1] = t
                                    /\ (u \in stpLock \/ \E j \in 1..Len(stpQ) : j < i /\ u = stpQ[j][1])
<1>1. DOMAIN invQ = 1..Len(invQ) /\ DOMAIN stpQ = 1..Len(stpQ) /\ Len(invQ) \in Nat /\ Len(stpQ) \in Nat
  <2>1. invQ \in Seq(LockTask \X Inv) /\ stpQ \in Seq(LockTask \X {"stp"})
    BY Zenon DEF WaitInv
  <2>2. QED
    BY <2>1
<1>2. CASE \E i \in {k \in DOMAIN invQ : invQ[k][1] = t} :
             u \in writer \union {invQ[j][1] : j \in {k \in 1..(i - 1) : invQ[k][2] = "write" \/ invQ[i][2] = "write"}}
                     \union (IF invQ[i][2] = "write" THEN readers ELSE {})
  <2>1. PICK i \in 1..Len(invQ) :
          /\ invQ[i][1] = t
          /\ u \in writer \union {invQ[j][1] : j \in {k \in 1..(i - 1) : invQ[k][2] = "write" \/ invQ[i][2] = "write"}}
                     \union (IF invQ[i][2] = "write" THEN readers ELSE {})
    BY <1>1, <1>2
  <2>2. u \in InvHolder \/ \E j \in 1..(i - 1) : u = invQ[j][1]
    BY <2>1 DEF InvHolder
  <2>3. \A j \in 1..(i - 1) : j \in 1..Len(invQ) /\ j < i
    BY <1>1
  <2>4. QED
    BY <2>1, <2>2, <2>3
<1>3. CASE \E i \in {k \in DOMAIN stpQ : stpQ[k][1] = t} : u \in stpLock \union {stpQ[j][1] : j \in 1..(i - 1)}
  <2>1. PICK i \in 1..Len(stpQ) : stpQ[i][1] = t /\ u \in stpLock \union {stpQ[j][1] : j \in 1..(i - 1)}
    BY <1>1, <1>3
  <2>2. \A j \in 1..(i - 1) : j \in 1..Len(stpQ) /\ j < i
    BY <1>1
  <2>3. QED
    BY <2>1, <2>2
<1>4. QED
  BY <1>2, <1>3 DEF WaitsFor

\* Who holds a lock, and is no event handler with the state processor lock, does not wait.
LEMMA HoldersRun ==
  ASSUME LockInv, WaitInv, NEW t
  PROVE  /\ t \in InvHolder => \A i \in 1..Len(invQ) : invQ[i][1] # t
         /\ t \in stpLock \ Handler => /\ \A i \in 1..Len(invQ) : invQ[i][1] # t
                                    /\ \A i \in 1..Len(stpQ) : stpQ[i][1] # t
<1>1. ASSUME NEW s \in Seq(LockStep), s # <<>>, NEW No, NEW release, release \notin No, Closed(s, 0, No, release)
      PROVE  Head(s) \notin No
  <2>1. PICK j \in 1..Len(s) : s[j] = release /\ \A k \in 1..Len(s) : 0 < k /\ k < j => s[k] \notin No
    BY <1>1 DEF Closed
  <2>2. Head(s) = s[1] /\ 1 \in 1..Len(s) /\ (1 < j \/ j = 1)
    BY <1>1, TailFacts
  <2>3. QED
    BY <1>1, <2>1, <2>2
<1>2. \A u \in LockTask : script[u] \in Seq(LockStep)
  BY DEF LockInv, Orderly
<1>3. \A i \in 1..Len(invQ) : /\ invQ[i][1] \in LockTask /\ script[invQ[i][1]] # <<>>
                              /\ Head(script[invQ[i][1]]) \in Inv
  BY DEF WaitInv
<1>4. \A i \in 1..Len(stpQ) : /\ stpQ[i][1] \in LockTask /\ script[stpQ[i][1]] # <<>>
                              /\ Head(script[stpQ[i][1]]) = "stp"
  BY DEF WaitInv
<1>5. ASSUME t \in InvHolder, script[t] # <<>> PROVE Head(script[t]) \notin Inv
  BY <1>1, <1>2, <1>5 DEF LockInv, Inv
<1>6. ASSUME t \in stpLock \ Handler, script[t] # <<>> PROVE Head(script[t]) \notin Any
  BY <1>1, <1>2, <1>6 DEF LockInv, Any
<1>7. QED
  BY <1>3, <1>4, <1>5, <1>6 DEF Inv, Any

LEMMA OnlyBulk ==
  ASSUME LockInv, WaitInv, NEW S \in SUBSET LockTask, S # {},
         \A t \in S : WaitsFor(t) \intersect S # {}
  PROVE  S \intersect Handler \intersect stpLock # {}
<1> SUFFICES ASSUME S \intersect Handler \intersect stpLock = {} PROVE FALSE
  OBVIOUS
<1> DEFINE I == {i \in 1..Len(invQ) : invQ[i][1] \in S}
           M == {i \in 1..Len(stpQ) : stpQ[i][1] \in S}
<1>0. Len(invQ) \in Nat /\ Len(stpQ) \in Nat
  BY DEF WaitInv
<1>1. \A t \in S : (\E i \in I : invQ[i][1] = t) \/ (\E i \in M : stpQ[i][1] = t)
  <2>1. ASSUME NEW t \in S PROVE (\E i \in I : invQ[i][1] = t) \/ (\E i \in M : stpQ[i][1] = t)
    <3>1. PICK u : u \in WaitsFor(t)
      OBVIOUS
    <3>2. QED
      BY ZenonT(30), <3>1, WaitsForWhat
  <2>2. QED
    BY <2>1
\* Nobody in S waits for the inventory and for the state processor lock.
<1>2. \A i \in 1..Len(invQ), j \in 1..Len(stpQ) : invQ[i][1] # stpQ[j][1]
  <2>1. \A i \in 1..Len(invQ) : Head(script[invQ[i][1]]) \in Inv
    BY DEF WaitInv
  <2>2. \A j \in 1..Len(stpQ) : Head(script[stpQ[j][1]]) = "stp"
    BY DEF WaitInv
  <2>3. QED
    BY <2>1, <2>2 DEF Inv
<1>3. M = {}
  <2> SUFFICES ASSUME M # {} PROVE FALSE
    OBVIOUS
  <2>0. M \in SUBSET Nat
    BY <1>0
  <2>1. PICK m \in M : \A n \in M : m <= n
    BY Zenon, <2>0, LeastNat
  <2>2. PICK t \in S : t = stpQ[m][1]
    BY <2>1
  <2>3. PICK u \in S : u \in WaitsFor(t)
    OBVIOUS
  <2>4. u \in stpLock \/ \E j \in 1..Len(stpQ) : j < m /\ u = stpQ[j][1]
    <3>1. \A i \in 1..Len(stpQ) : stpQ[i][1] = t => i = m
      BY <2>1, <2>2 DEF WaitInv
    <3>2. \A i \in 1..Len(invQ) : invQ[i][1] # t
      BY <1>2, <2>1, <2>2
    <3>3. \E i \in 1..Len(stpQ) : stpQ[i][1] = t /\ (u \in stpLock \/ \E j \in 1..Len(stpQ) : j < i /\ u = stpQ[j][1])
      <4>1. \/ \E i \in 1..Len(invQ) : invQ[i][1] = t
            \/ \E i \in 1..Len(stpQ) : stpQ[i][1] = t /\ (u \in stpLock \/ \E j \in 1..Len(stpQ) : j < i /\ u = stpQ[j][1])
        BY <2>3, WaitsForWhat
      <4>2. QED
        BY <3>2, <4>1
    <3>4. QED
      BY <3>1, <3>3
  <2>5. ~ \E j \in 1..Len(stpQ) : j < m /\ u = stpQ[j][1]
    BY <1>0, <2>1
  <2>6. u \in stpLock \ Handler
    BY <2>4, <2>5
  <2>7. QED
    BY Zenon, <1>1, <2>6, HoldersRun
<1>4. I # {}
  BY Zenon, <1>1, <1>3
<1>5. PICK m \in I : \A n \in I : m <= n
  <2>1. I \in SUBSET Nat
    BY <1>0
  <2>2. QED
    BY Zenon, <1>4, <2>1, LeastNat
<1>6. PICK t \in S : t = invQ[m][1]
  BY <1>5
<1>7. PICK u \in S : u \in WaitsFor(t)
  OBVIOUS
<1>8. u \in InvHolder \/ \E j \in 1..Len(invQ) : j < m /\ u = invQ[j][1]
  <2>1. \A i \in 1..Len(invQ) : invQ[i][1] = t => i = m
    BY <1>5, <1>6 DEF WaitInv
  <2>2. \A i \in 1..Len(stpQ) : stpQ[i][1] # t
    BY <1>2, <1>5, <1>6
  <2>3. \E i \in 1..Len(invQ) : invQ[i][1] = t /\ (u \in InvHolder \/ \E j \in 1..Len(invQ) : j < i /\ u = invQ[j][1])
    BY <1>7, <2>2, WaitsForWhat, Zenon
  <2>4. QED
    BY <2>1, <2>3
<1>9. ~ \E j \in 1..Len(invQ) : j < m /\ u = invQ[j][1]
  BY <1>0, <1>5
<1>10. QED
  BY Zenon, <1>1, <1>3, <1>8, <1>9, HoldersRun

\* Whatever the handlers and the callers run, and however many they are: operations that
\* wait for each other include a bulk frame that holds the state processor lock.
THEOREM LocksCorrect == LocksSpec => []CircularWaitOnlyInBulk
<1>1. LocksInit => LockInv /\ WaitInv
  <2> SUFFICES ASSUME LocksInit PROVE LockInv /\ WaitInv
    OBVIOUS
  <2>1. LockInv
    BY SimpleScripts, LocksParameters DEF LocksInit, LockInv, InvHolder
  <2>2. invQ = <<>> /\ stpQ = <<>>
    BY DEF LocksInit
  <2>3. WaitInv
    BY <2>2 DEF WaitInv
  <2>4. QED
    BY <2>1, <2>3
<1>2. LockInv /\ WaitInv /\ [LocksNext]_locksVars => (LockInv /\ WaitInv)'
  <2> SUFFICES ASSUME LockInv, WaitInv, LocksNext \/ UNCHANGED locksVars
               PROVE  LockInv' /\ WaitInv'
    OBVIOUS
  <2>1. CASE UNCHANGED locksVars
    BY Zenon, <2>1 DEF locksVars, LockInv, InvHolder, WaitInv
  <2>2. CASE \E t \in LockTask, op \in ops \union CallerOp : StartOp(t, op)
    BY <2>2, StartKeeps
  <2>3. ASSUME NEW t \in LockTask, LockingStep(t) PROVE LockInv' /\ WaitInv'
    BY <2>3, EnqueueKeeps, GrantInvKeeps, GrantStpKeeps, ReleaseKeeps DEF LockingStep
  <2>4. QED
    BY <2>1, <2>2, <2>3 DEF LocksNext
<1>3. LockInv /\ WaitInv => CircularWaitOnlyInBulk
  <2> SUFFICES ASSUME LockInv, WaitInv, NEW S \in (SUBSET LockTask) \ {{}},
                      \A t \in S : WaitsFor(t) \intersect S # {}
               PROVE  S \intersect Handler \intersect stpLock # {}
    BY DEF CircularWaitOnlyInBulk
  <2>1. QED
    BY OnlyBulk
<1>4. QED
  BY <1>1, <1>2, <1>3, PTL DEF LocksSpec
=============================================================================
