-------------------------- MODULE ExchangeProofs ---------------------------
(***************************************************************************)
(* Proofs about what exchanges states with other nodes and with devices    *)
(* (modules Replication, LogicRules and ModbusSlave), for any constants.   *)
(***************************************************************************)
EXTENDS Replication, ModbusSlave, LogicRules, TLAPS

----------------------------------------------------------------------------
(* Replication: full inventories and state events of a node implement      *)
(* module Replica, as long as the meta data of the item stay and nothing   *)
(* comes as an incremental inventory or with the force_accept flag.        *)
Restricted == Quick = {} /\ ForceAccept = FALSE /\ \A m, n \in Meta : m = n

\* Nothing is newer than the source.
Old == /\ \A m \in net : m.ieid <= top
       /\ \A t \in Task : msg[t].ieid <= top
       /\ \A r \in Ref : ieid[r] <= top

\* Which task is at which place, with which object
Places ==
  \A t \in Task :
    /\ pc[t] # "create"
    /\ pc[t] = "inv" => t \in Full
    /\ pc[t] = "apply" => ref[t] \in Ref /\ t \in Events

\* The lock of the source: its holder is the only one who puts an object into the
\* inventory, so the object it looked up is still there.
Holder ==
  /\ \A t \in Full : pc[t] = "inv" => t \in locked /\ ref[t] = inv
  /\ \A t, u \in locked : t = u

IInv == TypeOK /\ Old /\ Places /\ Holder

LEMMA SomeMetaType == SomeMeta \in Meta
  BY Bounds DEF SomeMeta

LEMMA NoMsgType == NoMsg \in Message
  BY Bounds DEF NoMsg, Message

\* What the theorem starts from
LEMMA InitIInv == Init => IInv
  <1> SUFFICES ASSUME Init PROVE IInv
    OBVIOUS
  <1>1. TypeOK
    BY SomeMetaType, NoMsgType, Bounds DEF Init, TypeOK
  <1>2. Old
    BY Bounds DEF Init, Old, NoMsg
  <1>3. Places /\ Holder
    BY DEF Init, Places, Holder, Task
  <1> QED BY <1>1, <1>2, <1>3 DEF IInv

\* Every step keeps the types.
LEMMA StepTypeOK == IInv /\ Restricted /\ [Next]_vars => TypeOK'
  <1> SUFFICES ASSUME IInv, Restricted, [Next]_vars PROVE TypeOK'
    OBVIOUS
  <1> USE NoMsgType, SomeMetaType, Bounds, Names DEF IInv, Restricted, Task
  <1>1. ASSUME NEW k \in {"state", "quick"}, SourceChanges(k) PROVE TypeOK'
    BY <1>1 DEF SourceChanges, Send, receiver, Message, TypeOK
  <1>2. CASE SourceToggles
    BY <1>2 DEF SourceToggles, receiver, TypeOK
  <1>3. ASSUME NEW m \in Meta, SourceMeta(m) PROVE TypeOK'
    BY <1>3 DEF SourceMeta, receiver, TypeOK
  <1>4. CASE SendInventory
    BY <1>4 DEF SendInventory, Send, receiver, source, Message, TypeOK
  <1>5. ASSUME NEW m \in net, Lose(m) PROVE TypeOK'
    BY <1>5 DEF Lose, source, receiver, TypeOK
  <1>6. ASSUME NEW m \in net, NEW t \in Full \union Quick, InvBegin(t, m) PROVE TypeOK'
    BY <1>6 DEF InvBegin, Take, Goto, source, TypeOK
  <1>7. ASSUME NEW m \in net, NEW t \in Events, EventBegin(t, m) PROVE TypeOK'
    BY <1>7 DEF EventBegin, Take, Goto, source, TypeOK
  <1>8. ASSUME NEW t \in Task, InvRemove(t) PROVE TypeOK'
    BY <1>8 DEF InvRemove, InvEnd, Return, Goto, source, TypeOK
  <1>9. ASSUME NEW t \in Task, InvUpdate(t) PROVE TypeOK'
    BY <1>9 DEF InvUpdate, InvEnd, Return, Goto, source, Same, Newer, Message, TypeOK
  <1>10. ASSUME NEW t \in Task, EventApply(t) PROVE TypeOK'
    BY <1>10 DEF EventApply, Return, Goto, source, Newer, Message, Places, TypeOK
  <1>11. ASSUME NEW t \in Task, NEW r \in Ref, InvAppend(t, r) PROVE TypeOK'
    BY <1>11 DEF InvAppend, InvEnd, Return, Goto, source, Same, Free, Message, TypeOK
  <1>12. ASSUME NEW t \in Task, NEW r \in Ref, EventCreate(t, r) PROVE TypeOK'
    BY <1>12 DEF EventCreate, Goto, source, TypeOK
  <1>13. CASE UNCHANGED vars
    BY <1>13 DEF vars, source, TypeOK
  <1> QED BY <1>1, <1>2, <1>3, <1>4, <1>5, <1>6, <1>7, <1>8, <1>9, <1>10, <1>11, <1>12, <1>13 DEF Next, Work

\* Every step keeps the replica and the messages no newer than the source.
LEMMA StepOld == IInv /\ Restricted /\ [Next]_vars => Old'
  <1> SUFFICES ASSUME IInv, Restricted, [Next]_vars PROVE Old'
    OBVIOUS
  <1> USE NoMsgType, Bounds DEF IInv, Restricted, Task
  <1>1. ASSUME NEW k \in {"state", "quick"}, SourceChanges(k) PROVE Old'
    BY <1>1 DEF SourceChanges, Send, receiver, TypeOK, Old, NoMsg, Message
  <1>2. CASE SourceToggles
    BY <1>2 DEF SourceToggles, receiver, TypeOK, Old, NoMsg, Message
  <1>3. ASSUME NEW m \in Meta, SourceMeta(m) PROVE Old'
    BY <1>3 DEF SourceMeta, receiver, TypeOK, Old, NoMsg, Message
  <1>4. CASE SendInventory
    BY <1>4 DEF SendInventory, Send, receiver, source, TypeOK, Old, NoMsg, Message
  <1>5. ASSUME NEW m \in net, Lose(m) PROVE Old'
    BY <1>5 DEF Lose, source, receiver, TypeOK, Old, NoMsg, Message
  <1>6. ASSUME NEW m \in net, NEW t \in Full \union Quick, InvBegin(t, m) PROVE Old'
    BY <1>6 DEF InvBegin, Take, Goto, source, TypeOK, Old, NoMsg, Message
  <1>7. ASSUME NEW m \in net, NEW t \in Events, EventBegin(t, m) PROVE Old'
    BY <1>7 DEF EventBegin, Take, Goto, source, TypeOK, Old, NoMsg, Message
  <1>8. ASSUME NEW t \in Task, InvRemove(t) PROVE Old'
    BY <1>8 DEF InvRemove, InvEnd, Return, Goto, source, TypeOK, Old, NoMsg, Message
  <1>9. ASSUME NEW t \in Task, InvUpdate(t) PROVE Old'
    BY <1>9 DEF InvUpdate, InvEnd, Return, Goto, source, Same, Newer, TypeOK, Old, NoMsg, Message
  <1>10. ASSUME NEW t \in Task, EventApply(t) PROVE Old'
    BY <1>10 DEF EventApply, Return, Goto, source, Newer, TypeOK, Old, NoMsg, Message
  <1>11. ASSUME NEW t \in Task, NEW r \in Ref, InvAppend(t, r) PROVE Old'
    BY <1>11 DEF InvAppend, InvEnd, Return, Goto, source, Same, Free, TypeOK, Old, NoMsg, Message
  <1>12. ASSUME NEW t \in Task, NEW r \in Ref, EventCreate(t, r) PROVE Old'
    BY <1>12 DEF EventCreate, Goto, source, TypeOK, Old, NoMsg, Message
  <1>13. CASE UNCHANGED vars
    BY <1>13 DEF vars, source, TypeOK, Old, NoMsg, Message
  <1> QED BY <1>1, <1>2, <1>3, <1>4, <1>5, <1>6, <1>7, <1>8, <1>9, <1>10, <1>11, <1>12, <1>13 DEF Next, Work

\* Every step keeps the places of the tasks.
LEMMA StepPlaces == IInv /\ Restricted /\ [Next]_vars => Places'
  <1> SUFFICES ASSUME IInv, Restricted, [Next]_vars PROVE Places'
    OBVIOUS
  <1> USE TasksDiffer DEF IInv, Restricted, Task
  <1>1. ASSUME NEW k \in {"state", "quick"}, SourceChanges(k) PROVE Places'
    BY <1>1 DEF SourceChanges, Send, receiver, Message, TypeOK, Places
  <1>2. CASE SourceToggles
    BY <1>2 DEF SourceToggles, receiver, TypeOK, Places
  <1>3. ASSUME NEW m \in Meta, SourceMeta(m) PROVE Places'
    BY <1>3 DEF SourceMeta, receiver, TypeOK, Places
  <1>4. CASE SendInventory
    BY <1>4 DEF SendInventory, Send, receiver, source, Message, TypeOK, Places
  <1>5. ASSUME NEW m \in net, Lose(m) PROVE Places'
    BY <1>5 DEF Lose, source, receiver, TypeOK, Places
  <1>6. ASSUME NEW m \in net, NEW t \in Full \union Quick, InvBegin(t, m) PROVE Places'
    BY <1>6 DEF InvBegin, Take, Goto, source, TypeOK, Places
  <1>7. ASSUME NEW m \in net, NEW t \in Events, EventBegin(t, m) PROVE Places'
    BY <1>7 DEF EventBegin, Take, Goto, source, TypeOK, Places
  <1>8. ASSUME NEW t \in Task, InvRemove(t) PROVE Places'
    BY <1>8 DEF InvRemove, InvEnd, Return, Goto, source, TypeOK, Places
  <1>9. ASSUME NEW t \in Task, InvUpdate(t) PROVE Places'
    BY <1>9 DEF InvUpdate, InvEnd, Return, Goto, source, Same, Newer, TypeOK, Places
  <1>10. ASSUME NEW t \in Task, EventApply(t) PROVE Places'
    BY <1>10 DEF EventApply, Return, Goto, source, Newer, TypeOK, Places
  <1>11. ASSUME NEW t \in Task, NEW r \in Ref, InvAppend(t, r) PROVE Places'
    BY <1>11 DEF InvAppend, InvEnd, Return, Goto, source, Same, Free, TypeOK, Places
  <1>12. ASSUME NEW t \in Task, NEW r \in Ref, EventCreate(t, r) PROVE Places'
    BY <1>12 DEF EventCreate, Goto, source, TypeOK, Places
  <1>13. CASE UNCHANGED vars
    BY <1>13 DEF vars, source, TypeOK, Places
  <1> QED BY <1>1, <1>2, <1>3, <1>4, <1>5, <1>6, <1>7, <1>8, <1>9, <1>10, <1>11, <1>12, <1>13 DEF Next, Work

\* Every step keeps the lock of the source.
LEMMA StepHolder == IInv /\ Restricted /\ [Next]_vars => Holder'
  <1> SUFFICES ASSUME IInv, Restricted, [Next]_vars PROVE Holder'
    OBVIOUS
  <1> USE TasksDiffer, Names DEF IInv, Restricted, Task
  <1>1. ASSUME NEW k \in {"state", "quick"}, SourceChanges(k) PROVE Holder'
    BY <1>1 DEF SourceChanges, Send, receiver, Message, TypeOK, Places, Holder
  <1>2. CASE SourceToggles
    BY <1>2 DEF SourceToggles, receiver, TypeOK, Places, Holder
  <1>3. ASSUME NEW m \in Meta, SourceMeta(m) PROVE Holder'
    BY <1>3 DEF SourceMeta, receiver, TypeOK, Places, Holder
  <1>4. CASE SendInventory
    BY <1>4 DEF SendInventory, Send, receiver, source, Message, TypeOK, Places, Holder
  <1>5. ASSUME NEW m \in net, Lose(m) PROVE Holder'
    BY <1>5 DEF Lose, source, receiver, TypeOK, Places, Holder
  <1>6. ASSUME NEW m \in net, NEW t \in Full \union Quick, InvBegin(t, m) PROVE Holder'
    BY <1>6 DEF InvBegin, Take, Goto, source, TypeOK, Places, Holder
  <1>7. ASSUME NEW m \in net, NEW t \in Events, EventBegin(t, m) PROVE Holder'
    BY <1>7 DEF EventBegin, Take, Goto, source, TypeOK, Places, Holder
  <1>8. ASSUME NEW t \in Task, InvRemove(t) PROVE Holder'
    BY <1>8 DEF InvRemove, InvEnd, Return, Goto, source, TypeOK, Places, Holder
  <1>9. ASSUME NEW t \in Task, InvUpdate(t) PROVE Holder'
    BY <1>9 DEF InvUpdate, InvEnd, Return, Goto, source, Same, Newer, TypeOK, Places, Holder
  <1>10. ASSUME NEW t \in Task, EventApply(t) PROVE Holder'
    BY <1>10 DEF EventApply, Return, Goto, source, Newer, TypeOK, Places, Holder
  <1>11. ASSUME NEW t \in Task, NEW r \in Ref, InvAppend(t, r) PROVE Holder'
    BY <1>11 DEF InvAppend, InvEnd, Return, Goto, source, Same, Free, TypeOK, Places, Holder
  <1>12. ASSUME NEW t \in Task, NEW r \in Ref, EventCreate(t, r) PROVE Holder'
    BY <1>12 DEF EventCreate, Goto, source, TypeOK, Places, Holder
  <1>13. CASE UNCHANGED vars
    BY <1>13 DEF vars, source, TypeOK, Places, Holder
  <1> QED BY <1>1, <1>2, <1>3, <1>4, <1>5, <1>6, <1>7, <1>8, <1>9, <1>10, <1>11, <1>12, <1>13 DEF Next, Work

\* Every step is a step of module Replica, or leaves what it sees alone.  Only three
\* actions are of interest: an update and an event raise the IEID of the object or leave
\* it, and with one kind of meta data an object is only added where there is none.
LEMMA StepFollows == IInv /\ Restricted /\ [Next]_vars => [Abstract!Next]_<<top, shown>>
  <1> DEFINE Goal == [Abstract!Next]_<<top, shown>>
  <1> SUFFICES ASSUME IInv, Restricted, [Next]_vars PROVE Goal
    OBVIOUS
  <1> USE Names, TasksDiffer DEF IInv, Task
  <1>1. ASSUME NEW k \in {"state", "quick"}, SourceChanges(k) PROVE Goal
    BY <1>1 DEF SourceChanges, receiver, shown, TypeOK, Abstract!Next, Abstract!SourceChanges
  <1>2. CASE SourceToggles
    BY <1>2 DEF SourceToggles, receiver, shown, TypeOK, Abstract!Next, Abstract!SourceChanges
  <1>3. ASSUME NEW m \in Meta, SourceMeta(m) PROVE Goal
    BY <1>3 DEF SourceMeta, receiver, shown
  <1>4. CASE SendInventory
    BY <1>4 DEF SendInventory, receiver, source, shown
  <1>5. ASSUME NEW m \in net, Lose(m) PROVE Goal
    BY <1>5 DEF Lose, source, receiver, shown
  <1>6. ASSUME NEW m \in net, NEW t \in Full \union Quick, InvBegin(t, m) PROVE Goal
    BY <1>6 DEF InvBegin, source, shown
  <1>7. ASSUME NEW m \in net, NEW t \in Events, EventBegin(t, m) PROVE Goal
    BY <1>7 DEF EventBegin, source, shown
  <1>8. ASSUME NEW t \in Task, InvRemove(t) PROVE Goal
    BY <1>8 DEF InvRemove, source, shown, TypeOK, Abstract!Next, Abstract!ReplicaRemoved
  <1>9. ASSUME NEW t \in Task, InvUpdate(t) PROVE Goal
    <2>1. ref[t] \in Ref /\ msg[t].ieid \in 1..top
      BY <1>9 DEF InvUpdate, Same, TypeOK, Old, Message
    <2> QED BY <1>9, <2>1 DEF InvUpdate, Newer, source, shown, TypeOK, Abstract!Next, Abstract!ReplicaFollows
  <1>10. ASSUME NEW t \in Task, EventApply(t) PROVE Goal
    <2>1. ref[t] \in Ref /\ msg[t].ieid \in 1..top
      BY <1>10 DEF EventApply, Places, TypeOK, Old, Message
    <2> QED BY <1>10, <2>1 DEF EventApply, Newer, source, shown, TypeOK, Abstract!Next, Abstract!ReplicaFollows
  <1>11. ASSUME NEW t \in Task, NEW r \in Ref, InvAppend(t, r) PROVE Goal
    <2>1. msg[t].meta \in Meta /\ msg[t].ieid \in 1..top
      BY <1>11 DEF InvAppend, TypeOK, Old, Message
    <2>2. ref[t] = NoRef
      BY <1>11, <2>1 DEF InvAppend, Same, TypeOK, Restricted
    <2>3. inv = NoRef
      BY <1>11, <2>2 DEF InvAppend, Places, Holder
    <2> QED BY <1>11, <2>1, <2>3 DEF InvAppend, source, shown, TypeOK, Abstract!Next, Abstract!ReplicaFollows
  <1>12. ASSUME NEW t \in Task, NEW r \in Ref, EventCreate(t, r) PROVE Goal
    BY <1>12 DEF EventCreate, Places
  <1>13. CASE UNCHANGED vars
    BY <1>13 DEF vars, source, shown
  <1> QED BY <1>1, <1>2, <1>3, <1>4, <1>5, <1>6, <1>7, <1>8, <1>9, <1>10, <1>11, <1>12, <1>13 DEF Next, Work

\* With one kind of meta data, no incremental inventories and no force_accept flag, the
\* handlers of full inventories and of state events (process_remote_inventory and
\* update_state_from_repl) never take a replica back to an older state of its source,
\* whatever is lost, comes late or is processed at the same time.
THEOREM FullInventoriesFollow == Restricted => (Spec => Follows)
  <1> SUFFICES ASSUME Restricted PROVE Spec => Follows
    OBVIOUS
  <1>1. IInv /\ [Next]_vars => IInv'
    BY StepTypeOK, StepOld, StepPlaces, StepHolder DEF IInv
  <1>2. Init => Abstract!Init
    BY DEF Init, Abstract!Init, shown
  <1>3. IInv /\ [Next]_vars => [Abstract!Next]_<<top, shown>>
    BY StepFollows
  <1> QED BY InitIInv, <1>1, <1>2, <1>3, PTL DEF Spec, Follows, Abstract!Spec

----------------------------------------------------------------------------
(* Cycles: one loop *)

\* OneLoop made inductive: so long as nobody was hasty there is one caller about to spawn
\* the cycle, one run() that has not stored its status, or one loop, and the status tells
\* which of them.
OneOfThem ==
  /\ callers <= 1
  /\ cycle.status = "stopped" => cycle.fresh = 0 /\ cycle.loops = 0
  /\ cycle.status = "starting" => callers = 0 /\ cycle.fresh = 1 /\ cycle.loops = 0
  /\ cycle.status \in {"running", "stopping"} => callers = 0 /\ cycle.fresh = 0 /\ cycle.loops = 1
CycleType ==
  /\ callers \in Nat
  /\ cycle \in [status : {"stopped", "starting", "running", "stopping"}, fresh : Nat, loops : Nat]
CycleInv == CycleType /\ (~hasty => OneOfThem)

\* Every step keeps CycleInv.
LEMMA StepCycle ==
  ASSUME CycleInv, RulesNext \/ UNCHANGED rulesVars
  PROVE  CycleInv'
<1> USE DEF CycleInv
<1>1. CASE UNCHANGED <<cycle, callers, hasty>>
  BY <1>1 DEF CycleType, OneOfThem
<1>2. CASE StateEvent \/ TakeState \/ ProcessRule \/ MacroEnds \/ ChilloutEnds
           \/ FinishState \/ PullState \/ PublishPulled \/ Iterate \/ JobStep
           \/ UNCHANGED rulesVars
  BY <1>1, <1>2 DEF StateEvent, TakeState, ProcessRule, MacroEnds, ChilloutEnds,
     FinishState, PullState, PublishPulled, Iterate, JobStep, CycleVars, rulesVars
<1>3. CASE StartCycle
  <2>1. ~hasty' => ~hasty /\ ~(cycle.status = "stopped" /\ callers > 0)
    BY <1>3 DEF StartCycle
  <2>2. cycle' = cycle /\ callers' = IF cycle.status = "stopped" THEN callers + 1 ELSE callers
    BY <1>3 DEF StartCycle
  <2>3. CycleType' /\ (OneOfThem /\ ~(cycle.status = "stopped" /\ callers > 0) => OneOfThem')
    BY <2>2 DEF CycleType, OneOfThem
  <2>4. QED
    BY <2>1, <2>3
<1>4. CASE SpawnCycle
  <2>1. cycle' = [cycle EXCEPT !.status = "starting", !.fresh = cycle.fresh + 1] /\ callers' = callers - 1
        /\ callers > 0 /\ hasty' = hasty
    BY <1>4 DEF SpawnCycle
  <2>2. cycle' = [status |-> "starting", fresh |-> cycle.fresh + 1, loops |-> cycle.loops]
    BY <2>1 DEF CycleType
  <2>3. CycleType' /\ (OneOfThem => OneOfThem')
    BY <2>1, <2>2 DEF CycleType, OneOfThem
  <2>4. QED
    BY <2>1, <2>3
<1>5. CASE RunCycle
  <2>1. CycleType' /\ (OneOfThem => OneOfThem') /\ hasty' = hasty
    BY <1>5 DEF RunCycle, CycleType, OneOfThem
  <2>2. QED
    BY <2>1
<1>6. CASE LeaveCycle
  <2>1. cycle' = [cycle EXCEPT !.status = "stopped", !.loops = cycle.loops - 1] /\ callers' = callers
        /\ cycle.loops > 0 /\ cycle.status # "running" /\ hasty' = hasty
    BY <1>6 DEF LeaveCycle
  <2>2. cycle' = [status |-> "stopped", fresh |-> cycle.fresh, loops |-> cycle.loops - 1]
    BY <2>1 DEF CycleType
  <2>3. CycleType' /\ (OneOfThem => OneOfThem')
    BY <2>1, <2>2 DEF CycleType, OneOfThem
  <2>4. QED
    BY <2>1, <2>3
<1>7. CASE StopCycle
  <2>1. cycle' = [cycle EXCEPT !.status = "stopping"] /\ callers' = callers /\ cycle.status # "stopped"
    BY <1>7 DEF StopCycle
  <2>2. CycleType' /\ (OneOfThem /\ cycle.status # "starting" => OneOfThem')
    BY <2>1 DEF CycleType, OneOfThem
  <2>3. ~hasty' => ~hasty /\ cycle.status # "starting"
    BY <1>7 DEF StopCycle
  <2>4. QED
    BY <2>2, <2>3
<1>8. QED
  BY <1>2, <1>3, <1>4, <1>5, <1>6, <1>7 DEF RulesNext

\* A cycle never has two loops and a stopped one has none, however often it is started and
\* stopped, as long as starts do not overlap and none is stopped before it runs.
THEOREM OneLoopCorrect == RulesSpec => []OneLoop
<1>1. RulesInit => CycleInv
  <2> SUFFICES ASSUME RulesInit PROVE CycleInv
    OBVIOUS
  <2>1. cycle = [status |-> "stopped", fresh |-> 0, loops |-> 0] /\ callers = 0
    BY DEF RulesInit
  <2>2. QED
    BY <2>1 DEF CycleInv, CycleType, OneOfThem
<1>2. CycleInv /\ [RulesNext]_rulesVars => CycleInv'
  BY StepCycle
<1>3. CycleInv => OneLoop
  BY DEF OneLoop, CycleInv, CycleType, OneOfThem
<1>4. QED
  BY <1>1, <1>2, <1>3, PTL DEF RulesSpec

----------------------------------------------------------------------------
(* The Modbus slave *)

Context == [1..Holding + 1 -> Int]

\* ContextKept made inductive: a save in progress leaves the file in pieces, and a file
\* that was never written stands for the registers the program begins with.
SlaveInv ==
  /\ ctx \in Context /\ starts \in Nat /\ file \in Seq(Int) \union {NoData}
  /\ kept \in [saved : Context, whole : BOOLEAN, late : BOOLEAN]
  /\ lock # NoData => ~kept.whole
  /\ kept.whole /\ file # NoData => file = kept.saved
  /\ kept.whole /\ file = NoData => kept.saved = Zero
  /\ proc = "up" => ctx[Holding + 1] = starts
  /\ proc = "up" /\ kept.whole /\ ~kept.late => \A i \in 1..Holding : ctx[i] = kept.saved[i]

\* What a start finds
LEMMA LoadsWhatWasSaved ==
  ASSUME SlaveInv
  PROVE  /\ LoadContextData \in Context
         /\ kept.whole => LoadContextData = kept.saved
<1> USE SlaveParameters
<1>1. CASE file = NoData
  BY <1>1 DEF SlaveInv, LoadContextData, Zero, Version, Context
<1>2. CASE file # NoData
  <2>1. file \in Seq(Int)
    BY <1>2 DEF SlaveInv
  <2>2. PICK d : d = [i \in 1..Holding + 1 |-> IF i <= Len(file) THEN file[i] ELSE 0]
    OBVIOUS
  <2>3. d \in Context
    BY <2>1, <2>2 DEF Context
  <2>4. ASSUME kept.whole PROVE d = kept.saved
    <3>1. file = kept.saved /\ file \in Context
      BY <1>2, <2>4 DEF SlaveInv
    <3>2. Len(file) = Holding + 1
      BY <2>1, <3>1 DEF Context
    <3>3. QED
      BY <2>2, <2>3, <3>1, <3>2 DEF Context
  <2>5. LoadContextData = d
    BY <1>2, <2>2 DEF LoadContextData, Version
  <2>6. QED
    BY <2>3, <2>4, <2>5
<1>3. QED
  BY <1>1, <1>2

\* Every step keeps SlaveInv.
LEMMA StepSlave ==
  ASSUME SlaveInv, SlaveNext \/ UNCHANGED slaveVars
  PROVE  SlaveInv'
<1> USE SlaveParameters
<1>1. CASE UNCHANGED slaveVars
  BY <1>1 DEF slaveVars, SlaveInv
<1>2. CASE Start
  <2>1. PICK d : d = LoadContextData
    OBVIOUS
  <2>2. d \in Context /\ (kept.whole => d = kept.saved)
    BY <2>1, LoadsWhatWasSaved DEF Context, SlaveInv
  <2>3. /\ ctx' = [d EXCEPT ![Holding + 1] = starts + 1] /\ starts' = starts + 1
        /\ kept' = [kept EXCEPT !.late = FALSE] /\ file' = file /\ lock' = lock
    BY <1>2, <2>1 DEF Start, Version
  <2>4. ctx' \in Context /\ ctx'[Holding + 1] = starts + 1 /\ \A i \in 1..Holding : ctx'[i] = d[i]
    BY <2>2, <2>3 DEF SlaveInv, Context
  <2>5. /\ kept' \in [saved : Context, whole : BOOLEAN, late : BOOLEAN]
        /\ kept'.saved = kept.saved /\ kept'.whole = kept.whole
    BY <2>3 DEF SlaveInv
  <2>6. kept.whole => \A i \in 1..Holding : ctx'[i] = kept.saved[i]
    BY <2>2, <2>4
  <2>7. QED
    BY <2>3, <2>4, <2>5, <2>6 DEF SlaveInv
<1>3. ASSUME NEW c \in Client, NEW op, Request(c, op) \/ accept(c) PROVE SlaveInv'
  <2>1. UNCHANGED <<ctx, file, proc, lock, starts, kept>>
    BY <1>3 DEF Request, handle_tcp, udp_handle, handle_rtu_frame, handle_ascii_frame,
       handle_bus_call, accept, Rest
  <2>2. QED
    BY <2>1 DEF SlaveInv
<1>4. ASSUME NEW c \in Client, HandleFrame(c) PROVE SlaveInv'
  <2>1. CASE UNCHANGED <<ctx, kept>>
    BY <1>4, <2>1 DEF HandleFrame, SlaveInv
  <2>2. CASE /\ \E i \in 1..Holding : ctx' = [ctx EXCEPT ![i] = 1 - ctx[i]]
             /\ kept' = [kept EXCEPT !.late = TRUE]
    <3>1. ctx' \in Context /\ ctx'[Holding + 1] = ctx[Holding + 1]
      BY <2>2 DEF SlaveInv, Context
    <3>2. QED
      BY <1>4, <2>2, <3>1 DEF HandleFrame, SlaveInv
  <2>3. QED
    BY <1>4, <2>1, <2>2 DEF HandleFrame
<1>5. ASSUME NEW who \in {"call", "main", "poc"}, SaveContext(who) PROVE SlaveInv'
  <2>1. /\ UNCHANGED <<ctx, proc, starts>> /\ file' = <<>>
        /\ kept' = [kept EXCEPT !.whole = FALSE]
    BY <1>5 DEF SaveContext
  <2>2. file' \in Seq(Int)
    BY <2>1
  <2>3. kept' \in [saved : Context, whole : BOOLEAN, late : BOOLEAN] /\ ~kept'.whole
    BY <2>1 DEF SlaveInv
  <2>4. QED
    BY <2>1, <2>2, <2>3 DEF SlaveInv
<1>6. CASE SaveEnds
  <2>1. ctx' = ctx /\ file' = ctx /\ kept' = [saved |-> ctx, whole |-> TRUE, late |-> FALSE] /\ lock' = NoData
    BY <1>6 DEF SaveEnds, Unlock
  <2>2. starts' = starts /\ (proc' = "up" => proc = "up")
    BY <1>6 DEF SaveEnds, Unlock
  <2>3. file' # NoData /\ file' \in Seq(Int)
    BY <2>1 DEF SlaveInv, Context
  <2>4. QED
    BY <2>1, <2>2, <2>3 DEF SlaveInv
<1>7. CASE SaveFails
  BY <1>7 DEF SaveFails, Unlock, SlaveInv
<1>8. CASE Exits \/ ServerFails \/ Stop
  BY <1>8 DEF Exits, Exit, ServerFails, Stop, SlaveInv
<1>9. CASE Killed
  <2>1. UNCHANGED <<ctx, starts, kept>> /\ proc' = "down" /\ lock' = NoData
    BY <1>9 DEF Killed, Exit
  <2>2. CASE lock = NoData
    BY <1>9, <2>1, <2>2 DEF Killed, SlaveInv
  <2>3. CASE lock # NoData
    <3>1. PICK n \in 0..Holding : file' = SubSeq(ctx, 1, n)
      BY <1>9, <2>3 DEF Killed, Version
    <3>2. ctx \in Seq(Int)
      BY DEF SlaveInv, Context
    <3>3. Len(ctx) = Holding + 1
      BY <3>2 DEF SlaveInv, Context
    <3>4. file' \in Seq(Int)
      BY <3>1, <3>2, <3>3
    <3>5. QED
      BY <2>1, <2>3, <3>4 DEF SlaveInv
  <2>4. QED
    BY <2>2, <2>3
<1>10. QED
  BY <1>1, <1>2, <1>3, <1>4, <1>5, <1>6, <1>7, <1>8, <1>9 DEF SlaveNext

\* What was saved last is what the next start finds, for any number of registers, clients,
\* starts and faults.
THEOREM ContextCorrect == SlaveSpec => []ContextKept
<1>1. SlaveInit => SlaveInv
  BY SlaveParameters DEF SlaveInit, Zero, Version, SlaveInv, Context
<1>2. SlaveInv /\ [SlaveNext]_slaveVars => SlaveInv'
  BY StepSlave
<1>3. SlaveInv => ContextKept
  BY DEF ContextKept, Version, SlaveInv
<1>4. QED
  BY <1>1, <1>2, <1>3, PTL DEF SlaveSpec
============================================================================
