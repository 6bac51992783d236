--------------------------- MODULE ServicesProofs ---------------------------
(***************************************************************************)
(* Proofs about module Services, for any number of callers, calls, starts  *)
(* and failures: at most one process of a service is attended to, and what *)
(* is deployed is what runs.                                               *)
(***************************************************************************)
EXTENDS Services, TLAPS

----------------------------------------------------------------------------
(* Services: one process                                                   *)

\* A runner that is at work
Live(g) == run[g].pc \notin {"none", "gone"} /\ ~run[g].aborted

Fields == {"pc", "active", "aborted", "p", "proc", "data", "status"}

\* OneProcess made inductive: a runner at work is that of the object in the map of the
\* launcher, or of the one that is being stopped, and there is no object in the map
\* meanwhile; objects not made yet have neither runner nor process.
RunnerInv ==
  /\ starts \in Nat
  /\ DOMAIN run = Object
  /\ \A g \in Object : DOMAIN run[g] = Fields
  /\ object # Nil => object \in Object /\ object <= starts
  /\ lpc \in {"stop", "kill"} => old \in Object /\ object = Nil
  /\ lpc = "done" => object = Nil
  /\ \A g \in Object : run[g].pc = "none" => run[g].proc = "none"
  /\ \A g \in Object : Live(g) => object = g \/ (lpc \in {"stop", "kill"} /\ old = g)

\* Steps of the manager touch neither the launcher's objects nor the runners.
LEMMA ManagerKeeps ==
  ASSUME NEW a \in Manager, ManagerStep(a)
  PROVE  UNCHANGED <<lpc, old, object, starts, run>>
BY Zenon DEF ManagerStep, svc_disable, svc_enable, svc_deploy, svc_undeploy, svc_restart, svc_flash,
   svc_purge, svc_start_by_launcher, SetServiceEnabled, DeployService, RestartService,
   UndeployService, PurgeService, Begin, DeployKey, DeployInsert, DeleteKey, RemoveService,
   CallTimeout, launcher

\* A step of one runner or process, which starts nothing new
LEMMA OneRunnerKeeps ==
  ASSUME RunnerInv, NEW g \in Object, UNCHANGED <<lpc, old, object, starts>>,
         DOMAIN run' = Object, \A h \in Object : h # g => run'[h] = run[h],
         DOMAIN run'[g] = Fields,
         run'[g].pc = "none" => run'[g].proc = "none", Live(g)' => Live(g)
  PROVE  RunnerInv'
<1>1. \A h \in Object : Live(h)' => Live(h)
  BY DEF Live
<1>2. QED
  BY <1>1 DEF RunnerInv

\* The steps of a runner and of the tasks that watch its process
LEMMA RunnerKeeps ==
  ASSUME RunnerInv, NEW g \in Object, RunnerStep(g)
  PROVE  RunnerInv'
<1>1. UNCHANGED <<lpc, old, object, starts>>
  BY DEF RunnerStep, Loop, Spawn, StoreData, ChildExits, AbortRunner, Ping, CheckReady, Rest, launcher
<1>2. DOMAIN run = Object /\ DOMAIN run[g] = Fields
  BY DEF RunnerInv
<1>3. ASSUME NEW r, run' = [run EXCEPT ![g] = r], DOMAIN r = Fields, run[g].pc \notin {"none", "gone"},
             r.pc # "none", r.pc = "gone" \/ r.aborted = run[g].aborted
      PROVE  RunnerInv'
  BY <1>1, <1>2, <1>3, OneRunnerKeeps DEF Live
<1>4. CASE Loop(g)
  <2>1. PICK l \in {"spawn", "gone"} : run' = [run EXCEPT ![g] = [run[g] EXCEPT !.pc = l]]
    BY Zenon, <1>4 DEF Loop, RunnerGoto
  <2>2. QED
    BY Zenon, <1>2, <1>3, <1>4, <2>1 DEF Loop, Fields
<1>5. CASE Spawn(g)
  <2>1. run' = [run EXCEPT ![g] = [run[g] EXCEPT !.pc = "spawned", !.proc = "starting"]]
    BY Zenon, <1>5 DEF Spawn
  <2>2. QED
    BY Zenon, <1>2, <1>3, <1>5, <2>1 DEF Spawn, Fields
<1>6. CASE StoreData(g)
  <2>1. CASE run' = [run EXCEPT ![g] = [run[g] EXCEPT !.pc = "sleep", !.proc = "none"]]
    BY ZenonT(30), <1>2, <1>3, <1>6, <2>1 DEF StoreData, Fields
  <2>2. CASE run' = [run EXCEPT ![g] =
                       [run[g] EXCEPT !.pc = "wait", !.data = TRUE, !.status = "starting"]]
    BY Zenon, <1>2, <1>3, <1>6, <2>2 DEF StoreData, Fields
  <2>3. QED
    BY Zenon, <1>6, <2>1, <2>2 DEF StoreData
<1>7. CASE ChildExits(g)
  <2>1. run' = [run EXCEPT ![g] = [run[g] EXCEPT !.pc = "sleep", !.data = FALSE, !.proc = "none"]]
    BY Zenon, <1>7 DEF ChildExits
  <2>2. QED
    BY <1>2, <1>3, <1>7, <2>1 DEF ChildExits, Fields
<1>8. CASE AbortRunner(g)
  <2>1. PICK r : r = [NoRun EXCEPT !.pc = "gone", !.proc = run[g].proc]
    OBVIOUS
  <2>2. DOMAIN r = Fields /\ r.pc = "gone"
    BY <2>1 DEF Fields, NoRun
  <2>3. run' = [run EXCEPT ![g] = r] /\ run[g].pc \notin {"none", "gone"}
    BY <1>8, <2>1 DEF AbortRunner
  <2>4. QED
    BY Zenon, <1>3, <2>2, <2>3
<1>9. CASE Ping(g) \/ CheckReady(g)
  <2>1. PICK r : r = [run[g] EXCEPT !.proc = "dead"]
    BY Zenon
  <2>2. DOMAIN r = Fields /\ r.pc = run[g].pc /\ r.aborted = run[g].aborted
    BY <1>2, <2>1 DEF Fields
  <2>3. run' = [run EXCEPT ![g] = r] /\ run[g].pc = "wait"
    BY <1>9, <2>1 DEF Ping, CheckReady
  <2>4. QED
    BY Zenon, <1>3, <2>2, <2>3
<1>10. QED
  BY <1>4, <1>5, <1>6, <1>7, <1>8, <1>9 DEF RunnerStep

\* What the process itself does
LEMMA ProcessKeeps ==
  ASSUME RunnerInv, NEW g \in Object,
         BecomesReady(g) \/ ReadyEarly(g) \/ \E how \in {"dead", "hung"} : ProcessFails(g, how)
  PROVE  RunnerInv'
<1>1. UNCHANGED <<lpc, old, object, starts>>
  BY DEF BecomesReady, ReadyEarly, ProcessFails, launcher
<1>2. run[g].proc # "none" /\ \E x : run' = [run EXCEPT ![g].proc = x]
  BY DEF BecomesReady, ReadyEarly, ProcessFails
<1>3. PICK x : run' = [run EXCEPT ![g] = [run[g] EXCEPT !.proc = x]]
  BY <1>2
<1>4. run[g].pc # "none" /\ DOMAIN run = Object /\ DOMAIN run[g] = Fields
  BY <1>2 DEF RunnerInv
<1>5. DOMAIN run'[g] = Fields /\ run'[g].pc = run[g].pc /\ run'[g].aborted = run[g].aborted
  BY <1>3, <1>4 DEF Fields
<1>6. QED
  BY <1>1, <1>3, <1>4, <1>5, OneRunnerKeeps DEF Live

\* The launcher stops the object of its map before it makes another one.
LEMMA LauncherKeeps ==
  ASSUME Nil \notin Object, MaxStarts \in Nat, RunnerInv, LauncherStep \/ HandleStatus
  PROVE  RunnerInv'
<1>0. DOMAIN run = Object /\ \A g \in Object : DOMAIN run[g] = Fields
  BY DEF RunnerInv
<1>1. CASE StopSvc
  <2>1. /\ DOMAIN run' = Object
        /\ \A g \in Object : /\ DOMAIN run'[g] = Fields /\ run'[g].pc = run[g].pc
                             /\ run'[g].proc = run[g].proc /\ run'[g].aborted = run[g].aborted
    BY <1>0, <1>1 DEF StopSvc, Fields
  <2>2. /\ lpc' = IF object = Nil THEN "done" ELSE "stop"
        /\ old' = object /\ object' = Nil /\ starts' = starts /\ lpc = "idle"
    BY <1>1 DEF StopSvc
  <2>3. QED
    BY <2>1, <2>2 DEF RunnerInv, Live
<1>2. CASE TakeData
  <2>1. old \in Object /\ object = Nil /\ UNCHANGED <<old, object, starts>> /\ lpc = "stop"
    BY <1>2 DEF TakeData, RunnerInv
  <2>2. CASE run[old].data
    <3>1. lpc' = "kill" /\ run' = [run EXCEPT ![old] = [run[old] EXCEPT !.data = FALSE]]
      BY <1>2, <2>2 DEF TakeData
    <3>2. /\ DOMAIN run' = Object
          /\ \A g \in Object : /\ DOMAIN run'[g] = Fields /\ run'[g].pc = run[g].pc
                               /\ run'[g].proc = run[g].proc /\ run'[g].aborted = run[g].aborted
      BY <1>0, <2>1, <3>1 DEF Fields
    <3>3. QED
      BY <2>1, <3>1, <3>2 DEF RunnerInv, Live
  <2>3. CASE ~run[old].data
    <3>1. lpc' = "done" /\ run' = [run EXCEPT ![old] = [run[old] EXCEPT !.aborted = TRUE]]
      BY <1>2, <2>3 DEF TakeData
    <3>2. /\ DOMAIN run' = Object /\ run'[old].aborted
          /\ \A g \in Object : /\ DOMAIN run'[g] = Fields /\ run'[g].pc = run[g].pc
                               /\ run'[g].proc = run[g].proc
                               /\ g # old => run'[g].aborted = run[g].aborted
      BY <1>0, <2>1, <3>1 DEF Fields
    <3>3. QED
      BY <2>1, <3>1, <3>2 DEF RunnerInv, Live
  <2>4. QED
    BY <2>2, <2>3
<1>3. CASE KillProcess
  <2>1. /\ old \in Object /\ object = Nil /\ UNCHANGED <<old, object, starts>> /\ lpc' = "done"
        /\ run' = [run EXCEPT ![old] = [NoRun EXCEPT !.pc = "gone"]]
    BY <1>3 DEF KillProcess, RunnerInv
  <2>2. /\ DOMAIN run' = Object /\ run'[old].pc = "gone" /\ DOMAIN run'[old] = Fields
        /\ \A g \in Object : g # old => run'[g] = run[g]
    BY <1>0, <2>1 DEF NoRun, Fields
  <2>3. QED
    BY <2>1, <2>2 DEF RunnerInv, Live
<1>4. CASE FinishCall
  <2>1. lpc = "done" /\ lpc' = "idle" /\ object = Nil
    BY <1>4 DEF FinishCall, RunnerInv
  <2>2. CASE UNCHANGED <<object, starts, run>>
    BY <2>1, <2>2 DEF RunnerInv, Live
  <2>3. CASE /\ starts < MaxStarts /\ starts' = starts + 1 /\ object' = starts + 1
             /\ run' = [run EXCEPT ![starts + 1] =
                          [NoRun EXCEPT !.pc = "sleep", !.active = TRUE, !.p = Head(queue).p]]
    <3>1. starts + 1 \in Object /\ starts \in Nat
      BY <2>3 DEF RunnerInv, Object
    <3>2. /\ DOMAIN run' = Object /\ DOMAIN run'[starts + 1] = Fields
          /\ run'[starts + 1].pc = "sleep"
          /\ \A g \in Object : g # starts + 1 => run'[g] = run[g]
      BY <1>0, <2>3, <3>1 DEF NoRun, Fields
    <3>3. object' <= starts' /\ object' \in Object /\ starts' \in Nat
      BY <2>3, <3>1 DEF Object
    <3>4. \A g \in Object : Live(g)' => g = starts + 1
      BY <2>1, <3>2 DEF RunnerInv, Live
    <3>5. \A g \in Object : DOMAIN run'[g] = Fields
      BY <1>0, <3>2
    <3>6. \A g \in Object : run'[g].pc = "none" => run'[g].proc = "none"
      BY <3>2 DEF RunnerInv
    <3>7. QED
      BY <2>1, <2>3, <3>2, <3>3, <3>4, <3>5, <3>6 DEF RunnerInv
  <2>4. QED
    BY Zenon, <1>4, <2>2, <2>3 DEF FinishCall
<1>5. CASE HandleStatus
  <2>1. /\ DOMAIN run' = Object
        /\ \A g \in Object : /\ DOMAIN run'[g] = Fields /\ run'[g].pc = run[g].pc
                             /\ run'[g].proc = run[g].proc /\ run'[g].aborted = run[g].aborted
    BY <1>0, <1>5 DEF HandleStatus, Fields
  <2>2. UNCHANGED <<lpc, old, object, starts>>
    BY <1>5 DEF HandleStatus, launcher
  <2>3. QED
    BY <2>1, <2>2 DEF RunnerInv, Live
<1>6. QED
  BY <1>1, <1>2, <1>3, <1>4, <1>5 DEF LauncherStep

LEMMA InitRunner == ServicesInit => RunnerInv
BY DEF ServicesInit, RunnerInv, Live, NoRun, Fields

LEMMA StepRunner ==
  ASSUME RunnerInv, ServicesNext \/ UNCHANGED servicesVars
  PROVE  RunnerInv'
<1>1. CASE UNCHANGED <<lpc, old, object, starts, run>>
  BY <1>1 DEF RunnerInv, Live
<1>2. CASE UNCHANGED servicesVars
  BY <1>1, <1>2 DEF servicesVars, launcher
<1>3. ASSUME NEW a \in Manager, ManagerStep(a) PROVE RunnerInv'
  BY <1>1, <1>3, ManagerKeeps
<1>4. QED
  BY <1>2, <1>3, LauncherKeeps, RunnerKeeps, ProcessKeeps, ServicesParameters DEF ServicesNext

\* However many calls, restarts, timeouts and failures of processes meet: at most one
\* process of a service is attended to, and none that the launcher has stopped.
THEOREM OneProcessCorrect == ServicesSpec => []OneProcess
<1>1. ServicesInit => RunnerInv
  BY InitRunner
<1>2. RunnerInv /\ [ServicesNext]_servicesVars => RunnerInv'
  BY StepRunner
<1>3. RunnerInv => OneProcess
  BY ServicesParameters DEF RunnerInv, OneProcess, Attended, Live
<1>4. QED
  BY <1>1, <1>2, <1>3, PTL DEF ServicesSpec

----------------------------------------------------------------------------
(* Services: what is deployed is what runs                                 *)

Busy(a) == admin[a].pc # "idle"
Waiting(a) == admin[a].pc \in {"stopping", "starting"}
Places(op, l) ==
  /\ l = "stopping" => op \in {"deploy", "undeploy", "purge"}
  /\ l = "starting" => op \in {"deploy", "restart"}
  /\ l \in {"key", "insert"} => op = "deploy"
  /\ l \in {"delete", "remove"} => op \in {"undeploy", "purge"}

\* The types of what the calls hand to each other
Place == {"idle", "stopping", "starting", "key", "insert", "delete", "remove"}
SvcCall == [op : {"none", "deploy", "undeploy", "purge", "restart"}, pc : Place,
            p : Params \union {Nil}, overlap : BOOLEAN]
LauncherCall == [kind : {"start", "stop", "purge"}, p : Params, from : Manager \union {Nil}]
CallTypes ==
  /\ services \in Params \union {Nil} /\ registry \in Params \union {Nil}
  /\ admin \in [Manager -> SvcCall] /\ queue \in Seq(LauncherCall) /\ alone \in BOOLEAN

\* The calls of the manager: those in progress together know that they overlap.
CallInv ==
  /\ \A a \in Manager : /\ Busy(a) \/ admin[a] = NoCall
                        /\ Places(admin[a].op, admin[a].pc)
                        /\ admin[a].op = "deploy" => admin[a].p \in Params
  /\ \A a, b \in Manager : Busy(a) /\ Busy(b) /\ a # b => admin[a].overlap

\* A call of the launcher that will be answered belongs to a caller that waits for it.
QueueInv ==
  /\ \A i \in 1..Len(queue) : queue[i].from # Nil => Waiting(queue[i].from)
  /\ \A i, j \in 1..Len(queue) : queue[i].from = queue[j].from /\ queue[i].from # Nil => i = j

\* The launcher ends what it has begun, and the object in its map is not aborted.
LauncherInv ==
  /\ queue = <<>> => lpc = "idle"
  /\ lpc = "done" => object = Nil
  /\ object # Nil => object \in Object /\ ~run[object].aborted

\* Once the launcher has no calls left it runs the service with p, or does not run it.
Final == queue[Len(queue)]
Starts(p) ==
  IF queue = <<>> THEN object # Nil /\ run[object].p = p ELSE Final.kind = "start" /\ Final.p = p
Stops == IF queue = <<>> THEN object = Nil ELSE Final.kind # "start"
Enabled == services # Nil /\ services.enabled
Agree == registry = services /\ IF Enabled THEN Starts(services) ELSE Stops

\* What a call that nobody overlaps has done so far
SerialOf(a) ==
  /\ Waiting(a) => queue # <<>> /\ Final.from = a
  /\ admin[a].pc = "stopping" => Final.kind # "start"
  /\ admin[a].pc = "starting" => Final.kind = "start" /\ Final.p = services /\ Enabled
  /\ admin[a].op = "deploy" /\ admin[a].pc \in {"insert", "starting"} => registry = admin[a].p
  /\ admin[a].op = "deploy" /\ admin[a].pc = "starting" => services = admin[a].p
  /\ alone => /\ admin[a].pc = "starting" => registry = services
              /\ admin[a].pc \in {"key", "insert", "delete", "remove"} => Stops
              /\ admin[a].op = "undeploy" /\ admin[a].pc = "remove" => registry = Nil
              /\ admin[a].op = "purge" /\ admin[a].pc = "delete" => services = Nil

\* DeployedRuns made inductive
SerialInv ==
  /\ \A a \in Manager : Busy(a) /\ ~admin[a].overlap => SerialOf(a)
  /\ alone /\ (\A a \in Manager : ~Busy(a)) => Agree

LEMMA TailFacts ==
  ASSUME NEW S, NEW q \in Seq(S), q # <<>>
  PROVE  /\ Tail(q) \in Seq(S) /\ Len(Tail(q)) = Len(q) - 1 /\ Len(q) \in Nat /\ Len(q) >= 1
         /\ \A i \in 1..(Len(q) - 1) : Tail(q)[i] = q[i + 1]
         /\ Tail(q) = <<>> <=> Len(q) = 1
         /\ Head(q) = q[1] /\ q[1] \in S
<1>1. /\ Tail(q) \in Seq(S) /\ Len(Tail(q)) = Len(q) - 1 /\ Len(q) \in Nat /\ Len(q) >= 1
      /\ \A i \in 1..(Len(q) - 1) : Tail(q)[i] = q[i + 1]
      /\ Head(q) = q[1] /\ q[1] \in S
  OBVIOUS
<1>2. \A t \in Seq(S) : t = <<>> <=> Len(t) = 0
  OBVIOUS
<1>3. Tail(q) = <<>> <=> Len(Tail(q)) = 0
  BY <1>1, <1>2, Zenon
<1>4. Len(Tail(q)) = 0 <=> Len(q) = 1
  BY <1>1
<1>5. QED
  BY <1>1, <1>3, <1>4, Zenon

LEMMA AppendFacts ==
  ASSUME NEW S, NEW q \in Seq(S), NEW r \in S
  PROVE  /\ Append(q, r) \in Seq(S) /\ Len(Append(q, r)) = Len(q) + 1 /\ Len(q) \in Nat
         /\ \A i \in 1..Len(q) : Append(q, r)[i] = q[i]
         /\ Append(q, r)[Len(q) + 1] = r /\ Append(q, r) # <<>>
<1>1. /\ Append(q, r) \in Seq(S) /\ Len(Append(q, r)) = Len(q) + 1 /\ Len(q) \in Nat
      /\ \A i \in 1..Len(q) : Append(q, r)[i] = q[i]
      /\ Append(q, r)[Len(q) + 1] = r
  OBVIOUS
<1>2. Append(q, r) # <<>>
  BY <1>1
<1>3. QED
  BY <1>1, <1>2

\* A call moves on to another place.
LEMMA GotoKeeps ==
  ASSUME CallTypes, CallInv, SerialInv, NEW a \in Manager, NEW l \in Place \ {"idle"}, Busy(a),
         CallGoto(a, l), Places(admin[a].op, l), ~admin[a].overlap => SerialOf(a)'
  PROVE  admin' \in [Manager -> SvcCall] /\ CallInv' /\ SerialInv'
<1>1. /\ admin'[a] = [admin[a] EXCEPT !.pc = l] /\ \A b \in Manager \ {a} : admin'[b] = admin[b]
      /\ admin' \in [Manager -> SvcCall] /\ admin[a] \in SvcCall
  BY DEF CallGoto, CallTypes, SvcCall
<1>2. /\ admin'[a].pc = l /\ admin'[a].op = admin[a].op /\ admin'[a].p = admin[a].p
      /\ admin'[a].overlap = admin[a].overlap
  BY <1>1 DEF SvcCall
<1>3. CallInv'
  <2>1. /\ Busy(a)' /\ Places(admin'[a].op, admin'[a].pc)
        /\ admin'[a].op = "deploy" => admin'[a].p \in Params
    BY <1>2 DEF CallInv, Busy
  <2>2. \A b \in Manager \ {a} : /\ Busy(b)' <=> Busy(b)
                                 /\ Places(admin'[b].op, admin'[b].pc)
                                 /\ admin'[b].op = "deploy" => admin'[b].p \in Params
                                 /\ Busy(b)' \/ admin'[b] = NoCall
    BY <1>1 DEF CallInv, Busy
  <2>3. \A b, c \in Manager : Busy(b)' /\ Busy(c)' /\ b # c => admin'[b].overlap
    BY Zenon, <1>1, <1>2, <2>2 DEF CallInv
  <2>4. QED
    BY Zenon, <1>1, <2>1, <2>2, <2>3 DEF CallInv
<1>4. \A b \in Manager \ {a} : Busy(b)' => admin'[b].overlap
  BY <1>1 DEF CallInv, Busy
<1>5. Busy(a)'
  BY <1>2 DEF Busy
<1>6. \A b \in Manager : Busy(b)' /\ ~admin'[b].overlap => b = a /\ ~admin[a].overlap
  BY <1>2, <1>4
<1>7. QED
  BY <1>1, <1>3, <1>5, <1>6 DEF SerialInv

\* A call ends.
LEMMA ReturnKeeps ==
  ASSUME CallTypes, CallInv, NEW a \in Manager, Busy(a), NEW ok \in BOOLEAN,
         CallReturn(a, ok), ~admin[a].overlap /\ ok /\ alone' => Agree'
  PROVE  admin' \in [Manager -> SvcCall] /\ alone' \in BOOLEAN /\ CallInv' /\ SerialInv'
<1>1. /\ admin'[a] = NoCall /\ \A b \in Manager \ {a} : admin'[b] = admin[b]
      /\ admin' \in [Manager -> SvcCall]
  BY DEF CallReturn, CallTypes, SvcCall, NoCall, Place
<1>2. NoCall.pc = "idle" /\ NoCall.op = "none"
  BY DEF NoCall
<1>3. CallInv'
  BY <1>1, <1>2 DEF CallInv, Busy, Places
<1>4. \A b \in Manager : Busy(b)' => admin'[b].overlap
  BY <1>1, <1>2 DEF CallInv, Busy
<1>5. alone' \in BOOLEAN
  BY Zenon DEF CallReturn, CallTypes, SvcCall
<1>6. alone' => ok /\ ~admin[a].overlap
  BY Zenon DEF CallReturn
<1>7. QED
  BY <1>1, <1>3, <1>4, <1>5, <1>6 DEF SerialInv

\* The queue of the launcher while a caller that does not wait for it moves
LEMMA QueueSame ==
  ASSUME CallTypes, QueueInv, NEW a \in Manager, ~Waiting(a), UNCHANGED queue,
         \A b \in Manager \ {a} : Waiting(b)' <=> Waiting(b)
  PROVE  QueueInv'
<1>1. \A i \in 1..Len(queue) : queue[i] \in LauncherCall /\ queue[i].from # a
  BY ServicesParameters DEF QueueInv, CallTypes
<1>2. \A i \in 1..Len(queue) : queue[i].from # Nil => queue[i].from \in Manager \ {a}
  BY <1>1 DEF LauncherCall
<1>3. QED
  BY <1>2 DEF QueueInv

LEMMA QueueAppends ==
  ASSUME CallTypes, QueueInv, NEW a \in Manager, ~Waiting(a), Waiting(a)',
         NEW r \in LauncherCall, r.from = a, queue' = Append(queue, r),
         \A b \in Manager \ {a} : Waiting(b)' <=> Waiting(b)
  PROVE  queue' \in Seq(LauncherCall) /\ QueueInv' /\ queue' # <<>> /\ Final' = r
<1>1. \A i \in 1..Len(queue) : queue[i] \in LauncherCall /\ queue[i].from # a
  BY ServicesParameters DEF QueueInv, CallTypes
<1>2. /\ queue' \in Seq(LauncherCall) /\ Len(queue') = Len(queue) + 1 /\ Len(queue) \in Nat
      /\ \A i \in 1..Len(queue) : queue'[i] = queue[i]
      /\ queue'[Len(queue) + 1] = r /\ queue' # <<>>
  BY AppendFacts DEF CallTypes
<1>3. \A i \in 1..Len(queue') : i \in 1..Len(queue) \/ i = Len(queue) + 1
  BY <1>2
<1>4. \A i \in 1..Len(queue) : queue[i].from # Nil => queue[i].from \in Manager \ {a}
  BY <1>1 DEF LauncherCall
<1>5. ASSUME NEW i \in 1..Len(queue'), queue'[i].from # Nil
      PROVE  admin'[queue'[i].from].pc \in {"stopping", "starting"}
  <2>1. CASE i \in 1..Len(queue)
    BY <1>2, <1>4, <1>5, <2>1 DEF QueueInv, Waiting
  <2>2. CASE i = Len(queue) + 1
    BY <1>2, <2>2 DEF Waiting
  <2>3. QED
    BY <1>3, <2>1, <2>2
<1>6. \A i, j \in 1..Len(queue') : queue'[i].from = queue'[j].from /\ queue'[i].from # Nil => i = j
  BY <1>1, <1>2, <1>3 DEF QueueInv
<1>7. QED
  BY <1>2, <1>5, <1>6 DEF QueueInv, Final, Waiting

\* A call begins.
LEMMA BeginKeeps ==
  ASSUME CallTypes, CallInv, QueueInv, SerialInv, NEW a \in Manager,
         NEW op \in {"deploy", "undeploy", "purge", "restart"}, NEW l \in Place \ {"idle"},
         NEW p \in Params \union {Nil}, Begin(a, op, l, p), Places(op, l),
         op = "deploy" => p \in Params,
         \/ UNCHANGED queue /\ l \notin {"stopping", "starting"}
         \/ /\ l \in {"stopping", "starting"}
            /\ \E r \in LauncherCall : r.from = a /\ queue' = Append(queue, r),
         ~Overlap => SerialOf(a)'
  PROVE  CallTypes' /\ CallInv' /\ QueueInv' /\ SerialInv'
<1>1. admin' = [b \in Manager |->
                  IF b = a THEN [op |-> op, pc |-> l, p |-> p, overlap |-> Overlap]
                  ELSE IF admin[b] = NoCall THEN NoCall ELSE [admin[b] EXCEPT !.overlap = TRUE]]
      /\ ~Busy(a) /\ UNCHANGED <<services, registry, alone>>
  BY DEF Begin, At, Busy
<1>2. Overlap \in BOOLEAN /\ (Overlap <=> \E b \in Manager : Busy(b))
  BY DEF Overlap, At, Busy
<1>3. /\ admin'[a].op = op /\ admin'[a].pc = l /\ admin'[a].p = p
      /\ admin'[a].overlap = Overlap /\ admin'[a] \in SvcCall
  BY <1>1, <1>2 DEF SvcCall
<1>4. ASSUME NEW b \in Manager, b # a
      PROVE  /\ admin'[b].op = admin[b].op /\ admin'[b].pc = admin[b].pc /\ admin'[b].p = admin[b].p
             /\ Busy(b) => admin'[b].overlap
             /\ admin[b] = NoCall => admin'[b] = NoCall
             /\ admin'[b] \in SvcCall
  <2>1. admin[b] \in SvcCall /\ (~Busy(b) <=> admin[b] = NoCall)
    BY DEF CallTypes, CallInv, Busy, NoCall
  <2>2. CASE admin[b] = NoCall
    <3>1. admin'[b] = admin[b]
      BY <1>1, <1>4, <2>2
    <3>2. QED
      BY <2>1, <2>2, <3>1
  <2>3. CASE admin[b] # NoCall
    <3>1. admin'[b] = [admin[b] EXCEPT !.overlap = TRUE]
      BY <1>1, <1>4, <2>3
    <3>2. QED
      BY Zenon, <2>1, <2>3, <3>1 DEF SvcCall
  <2>4. QED
    BY <2>2, <2>3
<1>5. admin' \in [Manager -> SvcCall]
  BY Zenon, <1>1, <1>3, <1>4
<1>6. Busy(a)' /\ \A b \in Manager \ {a} : (Busy(b)' <=> Busy(b)) /\ (Waiting(b)' <=> Waiting(b))
  BY <1>3, <1>4 DEF Busy, Waiting
<1>7. CallInv'
  <2>1. \A b, c \in Manager : Busy(b)' /\ Busy(c)' /\ b # c => admin'[b].overlap
    BY <1>2, <1>3, <1>4, <1>6
  <2>2. \A b \in Manager : /\ Busy(b)' \/ admin'[b] = NoCall
                           /\ Places(admin'[b].op, admin'[b].pc)
                           /\ admin'[b].op = "deploy" => admin'[b].p \in Params
    BY <1>3, <1>4, <1>6 DEF CallInv
  <2>3. QED
    BY <2>1, <2>2 DEF CallInv
<1>8. queue' \in Seq(LauncherCall) /\ QueueInv'
  <2>1. ~Waiting(a) /\ (Waiting(a)' <=> l \in {"stopping", "starting"})
    BY <1>1, <1>3 DEF Busy, Waiting
  <2>2. CASE UNCHANGED queue
    BY <1>6, <2>1, <2>2, QueueSame DEF CallTypes
  <2>3. CASE /\ l \in {"stopping", "starting"}
             /\ \E r \in LauncherCall : r.from = a /\ queue' = Append(queue, r)
    BY <1>6, <2>1, <2>3, QueueAppends
  <2>4. QED
    BY <2>2, <2>3
<1>9. SerialInv'
  BY <1>2, <1>3, <1>4, <1>6 DEF SerialInv
<1>10. QED
  BY <1>1, <1>5, <1>7, <1>8, <1>9 DEF CallTypes

ServiceInv == CallTypes /\ CallInv /\ QueueInv /\ LauncherInv /\ SerialInv

\* The objects of the launcher are left alone.
LEMMA LauncherSame ==
  ASSUME LauncherInv, UNCHANGED <<lpc, object, run>>, queue' = <<>> => queue = <<>>
  PROVE  LauncherInv'
BY DEF LauncherInv

\* Nobody is in the way of a call that begins alone.
LEMMA BeginsAlone ==
  ASSUME ServiceInv, ~Overlap, alone
  PROVE  Agree
BY DEF ServiceInv, SerialInv, Overlap, At, Busy

\* A call that begins without the launcher finds no parameters.
LEMMA BeginQuiet ==
  ASSUME ServiceInv, NEW a \in Manager, NEW p \in Params \union {Nil},
         services = Nil, UNCHANGED queue,
         \/ Begin(a, "deploy", "key", p) /\ p \in Params
         \/ Begin(a, "purge", "delete", p)
  PROVE  ServiceInv'
<1>1. UNCHANGED <<services, registry, lpc, object, run, alone>>
  BY DEF Begin
<1>2. LauncherInv'
  BY <1>1, LauncherSame DEF ServiceInv
<1>3. ~Overlap /\ alone => Stops'
  BY <1>1, BeginsAlone DEF Agree, Enabled, Stops, Final
<1>4. admin'[a].pc \in {"key", "delete"} /\ (admin'[a].pc = "delete" => admin'[a].op = "purge")
  BY DEF Begin
<1>5. ~Overlap => SerialOf(a)'
  BY <1>1, <1>3, <1>4 DEF SerialOf, Waiting
<1>6. /\ Places("deploy", "key") /\ Places("purge", "delete")
      /\ "key" \in Place \ {"idle"} /\ "delete" \in Place \ {"idle"}
  BY DEF Places, Place
<1>7. CallTypes' /\ CallInv' /\ QueueInv' /\ SerialInv'
  BY <1>5, <1>6, BeginKeeps DEF ServiceInv
<1>8. QED
  BY <1>2, <1>7 DEF ServiceInv

\* A call that begins with a request to the launcher
LEMMA BeginRequest ==
  ASSUME ServiceInv, NEW a \in Manager, NEW p \in Params \union {Nil}, NEW kind,
         services # Nil, Request(a, kind, services),
         NEW op \in {"deploy", "undeploy", "purge", "restart"}, NEW l \in {"stopping", "starting"},
         Begin(a, op, l, p), op = "deploy" => p \in Params,
         \/ l = "stopping" /\ op # "restart" /\ kind \in {"stop", "purge"}
         \/ l = "starting" /\ op = "restart" /\ kind = "start" /\ services.enabled
  PROVE  ServiceInv'
<1>1. UNCHANGED <<services, registry, lpc, object, run, alone>>
  BY DEF Begin
<1>2. PICK r \in LauncherCall : r = [kind |-> kind, p |-> services, from |-> a]
  BY Zenon DEF ServiceInv, CallTypes, LauncherCall
<1>3. r.kind = kind /\ r.p = services /\ r.from = a /\ queue' = Append(queue, r)
  BY <1>2 DEF Request
<1>4. queue' # <<>> /\ Final' = r
  <2>1. /\ queue' # <<>> /\ Len(queue') = Len(queue) + 1 /\ queue'[Len(queue) + 1] = r
    BY <1>3, AppendFacts DEF ServiceInv, CallTypes
  <2>2. QED
    BY <2>1 DEF Final
<1>5. LauncherInv'
  BY <1>1, <1>4, LauncherSame DEF ServiceInv
<1>6. admin'[a].pc = l /\ admin'[a].op = op
  BY DEF Begin
<1>7. ~Overlap /\ alone => registry = services
  BY BeginsAlone DEF Agree
<1>8. ~Overlap => SerialOf(a)'
  BY <1>1, <1>3, <1>4, <1>6, <1>7 DEF SerialOf, Waiting, Enabled
<1>9. Places(op, l) /\ l \in Place \ {"idle"}
  BY DEF Places, Place
<1>10. CallTypes' /\ CallInv' /\ QueueInv' /\ SerialInv'
  BY <1>3, <1>8, <1>9, BeginKeeps DEF ServiceInv
<1>11. QED
  BY <1>5, <1>10 DEF ServiceInv

LEMMA DeployKeeps ==
  ASSUME ServiceInv, NEW a \in Manager, NEW p \in Params, DeployService(a, p)
  PROVE  ServiceInv'
<1>1. CASE services = Nil
  BY <1>1, BeginQuiet DEF DeployService
<1>2. CASE services # Nil
  BY <1>2, BeginRequest DEF DeployService
<1>3. QED
  BY <1>1, <1>2

\* The calls of the manager begin.
LEMMA CallsBegin ==
  ASSUME ServiceInv, NEW a \in Manager,
         \/ svc_disable(a) \/ svc_enable(a) \/ svc_deploy(a) \/ svc_undeploy(a)
         \/ svc_restart(a) \/ svc_flash(a) \/ svc_purge(a) \/ svc_start_by_launcher(a)
  PROVE  ServiceInv'
<1>1. ASSUME NEW e \in BOOLEAN, SetServiceEnabled(a, e) PROVE ServiceInv'
  <2>1. [services EXCEPT !.enabled = e] \in Params
    BY <1>1 DEF SetServiceEnabled, ServiceInv, CallTypes, Params
  <2>2. QED
    BY <1>1, <2>1, DeployKeeps DEF SetServiceEnabled
<1>2. CASE svc_deploy(a)
  BY <1>2, DeployKeeps, ServicesParameters DEF svc_deploy
<1>3. CASE RestartService(a)
  BY <1>3, BeginRequest DEF RestartService
<1>4. CASE UndeployService(a)
  BY <1>4, BeginRequest DEF UndeployService
<1>5. CASE PurgeService(a)
  <2>1. CASE services = Nil
    BY <1>5, <2>1, BeginQuiet DEF PurgeService
  <2>2. CASE services # Nil
    BY <1>5, <2>2, BeginRequest DEF PurgeService
  <2>3. QED
    BY <2>1, <2>2
<1>6. QED
  BY Zenon, <1>1, <1>2, <1>3, <1>4, <1>5 DEF svc_disable, svc_enable, svc_undeploy, svc_restart,
     svc_flash, svc_purge, svc_start_by_launcher

\* What follows the answer of the launcher, or its absence
LEMMA AnsweredKeeps ==
  ASSUME CallTypes, CallInv, SerialInv, NEW a \in Manager, Waiting(a), NEW ok \in BOOLEAN,
         Answered(a, ok), UNCHANGED <<services, registry>>,
         ~admin[a].overlap /\ admin[a].pc = "stopping" => Stops',
         ~admin[a].overlap /\ admin[a].pc = "starting" /\ ok => Starts(services)'
  PROVE  /\ admin' \in [Manager -> SvcCall] /\ alone' \in BOOLEAN /\ CallInv' /\ SerialInv'
         /\ ~Waiting(a)' /\ \A b \in Manager \ {a} : admin'[b] = admin[b]
<1>1. Busy(a) /\ a \in DOMAIN admin /\ admin[a] \in SvcCall
  BY DEF Waiting, Busy, CallTypes
<1>2. ~admin[a].overlap => SerialOf(a)
  BY <1>1 DEF SerialInv
<1>3. ASSUME NEW o \in BOOLEAN, CallReturn(a, o), o => ok /\ admin[a].pc = "starting"
      PROVE  /\ admin' \in [Manager -> SvcCall] /\ alone' \in BOOLEAN /\ CallInv' /\ SerialInv'
             /\ ~Waiting(a)' /\ \A b \in Manager \ {a} : admin'[b] = admin[b]
  <2>1. admin'[a] = NoCall /\ \A b \in Manager \ {a} : admin'[b] = admin[b]
    BY <1>1, <1>3 DEF CallReturn
  <2>2. ~Waiting(a)'
    BY <2>1 DEF Waiting, NoCall
  <2>3. ASSUME ~admin[a].overlap, o, alone' PROVE Agree'
    <3>1. Enabled /\ Starts(services)' /\ admin[a].pc = "starting"
      BY <1>2, <1>3, <2>3 DEF SerialOf
    <3>2. alone \/ admin[a].op = "deploy"
      BY Zenon, <1>3, <2>3 DEF CallReturn
    <3>3. registry = services
      BY <1>2, <2>3, <3>1, <3>2 DEF SerialOf
    <3>4. QED
      BY <3>1, <3>3 DEF Agree, Enabled, Starts, Final
  <2>4. QED
    BY <1>1, <1>3, <2>1, <2>2, <2>3, ReturnKeeps
<1>4. ASSUME NEW l \in {"key", "delete", "remove"}, CallGoto(a, l), UNCHANGED alone,
             admin[a].pc = "stopping", Places(admin[a].op, l), l = "remove" => admin[a].op = "purge",
             l = "delete" => admin[a].op = "undeploy"
      PROVE  /\ admin' \in [Manager -> SvcCall] /\ alone' \in BOOLEAN /\ CallInv' /\ SerialInv'
             /\ ~Waiting(a)' /\ \A b \in Manager \ {a} : admin'[b] = admin[b]
  <2>1. /\ admin'[a].pc = l /\ admin'[a].op = admin[a].op
        /\ \A b \in Manager \ {a} : admin'[b] = admin[b]
    BY <1>1, <1>4 DEF CallGoto, SvcCall
  <2>2. ~Waiting(a)'
    BY <2>1 DEF Waiting
  <2>3. ~admin[a].overlap => SerialOf(a)'
    BY <1>4, <2>1, <2>2 DEF SerialOf
  <2>4. QED
    BY <1>1, <1>4, <2>1, <2>2, <2>3, GotoKeeps DEF Place, CallTypes
<1>5. CASE admin[a].pc = "starting"
  BY <1>3, <1>5 DEF Answered
<1>6. CASE admin[a].pc = "stopping"
  <2>1. admin[a].op \in {"deploy", "undeploy", "purge"}
    BY <1>6 DEF CallInv, Places
  <2>2. CASE admin[a].op = "deploy"
    BY <1>4, <1>6, <2>2 DEF Answered, Places
  <2>3. CASE admin[a].op # "deploy" /\ ~ok
    BY Zenon, <1>3, <1>6, <2>3 DEF Answered
  <2>4. CASE admin[a].op = "undeploy" /\ ok
    <3>1. CallGoto(a, "delete") /\ UNCHANGED alone
      BY <1>6, <2>4 DEF Answered
    <3>2. Places(admin[a].op, "delete")
      BY <2>4 DEF Places
    <3>3. QED
      BY Zenon, <1>4, <1>6, <2>4, <3>1, <3>2
  <2>5. CASE admin[a].op = "purge" /\ ok
    <3>1. CallGoto(a, "remove") /\ UNCHANGED alone
      BY Zenon, <1>6, <2>5 DEF Answered
    <3>2. Places(admin[a].op, "remove")
      BY <2>5 DEF Places
    <3>3. QED
      BY <1>4, <1>6, <2>5, <3>1, <3>2
  <2>6. QED
    BY <2>1, <2>2, <2>3, <2>4, <2>5
<1>7. QED
  BY <1>5, <1>6 DEF Waiting

\* deploy_service, undeploy_service and purge_service after the launcher has answered
LEMMA DeployKeyKeeps ==
  ASSUME ServiceInv, NEW a \in Manager, DeployKey(a)
  PROVE  ServiceInv'
<1>1. /\ Busy(a) /\ ~Waiting(a) /\ admin[a].pc = "key" /\ admin[a].op = "deploy"
      /\ admin[a] \in SvcCall /\ admin[a].p \in Params /\ a \in DOMAIN admin
  BY DEF DeployKey, At, Busy, Waiting, ServiceInv, CallInv, Places, CallTypes
<1>2. UNCHANGED <<services, queue, lpc, object, run>>
  BY DEF DeployKey, launcher
<1>3. LauncherInv'
  BY <1>2, LauncherSame DEF ServiceInv
<1>4. CASE CallReturn(a, FALSE) /\ UNCHANGED registry
  <2>1. admin' \in [Manager -> SvcCall] /\ alone' \in BOOLEAN /\ CallInv' /\ SerialInv'
    BY ZenonT(30), <1>1, <1>4, ReturnKeeps DEF ServiceInv
  <2>2. \A b \in Manager \ {a} : Waiting(b)' <=> Waiting(b)
    BY <1>4 DEF CallReturn, Waiting, ServiceInv, CallTypes
  <2>3. QueueInv'
    BY <1>1, <1>2, <2>2, QueueSame DEF ServiceInv
  <2>4. QED
    BY <1>2, <1>3, <1>4, <2>1, <2>3 DEF ServiceInv, CallTypes
<1>5. CASE CallGoto(a, "insert") /\ registry' = admin[a].p /\ UNCHANGED alone
  <2>1. /\ admin'[a].pc = "insert" /\ admin'[a].op = "deploy" /\ admin'[a].p = admin[a].p
        /\ \A b \in Manager \ {a} : admin'[b] = admin[b]
    BY <1>1, <1>5 DEF CallGoto, SvcCall
  <2>2. ~admin[a].overlap => SerialOf(a)'
    <3>1. ~admin[a].overlap /\ alone => Stops'
      BY <1>1, <1>2 DEF ServiceInv, SerialInv, SerialOf, Stops, Final
    <3>2. QED
      BY <1>5, <2>1, <3>1 DEF SerialOf, Waiting
  <2>3. "insert" \in Place \ {"idle"} /\ Places("deploy", "insert")
    BY DEF Place, Places
  <2>4. admin' \in [Manager -> SvcCall] /\ CallInv' /\ SerialInv'
    BY Zenon, <1>1, <1>5, <2>2, <2>3, GotoKeeps DEF ServiceInv
  <2>5. \A b \in Manager \ {a} : Waiting(b)' <=> Waiting(b)
    BY <2>1 DEF Waiting
  <2>6. QueueInv'
    BY <1>1, <1>2, <2>5, QueueSame DEF ServiceInv
  <2>7. QED
    BY <1>1, <1>2, <1>3, <1>5, <2>4, <2>6 DEF ServiceInv, CallTypes
<1>6. QED
  BY Zenon, <1>4, <1>5 DEF DeployKey

LEMMA DeployInsertKeeps ==
  ASSUME ServiceInv, NEW a \in Manager, DeployInsert(a)
  PROVE  ServiceInv'
<1>1. /\ Busy(a) /\ ~Waiting(a) /\ admin[a].pc = "insert" /\ admin[a].op = "deploy"
      /\ admin[a] \in SvcCall /\ admin[a].p \in Params /\ a \in DOMAIN admin
  BY DEF DeployInsert, At, Busy, Waiting, ServiceInv, CallInv, Places, CallTypes
<1>2. /\ UNCHANGED <<registry, lpc, object, run>> /\ services' = admin[a].p
      /\ services' \in Params /\ services' # Nil
  BY ZenonT(30), <1>1, ServicesParameters DEF DeployInsert
<1>3. ~admin[a].overlap => registry = admin[a].p /\ (alone => Stops)
  BY <1>1 DEF ServiceInv, SerialInv, SerialOf
<1>4. CASE ~admin[a].p.enabled
  <2>1. CallReturn(a, TRUE) /\ UNCHANGED queue
    BY Zenon, <1>4 DEF DeployInsert
  <2>2. alone' => alone
    BY Zenon, <1>4, <2>1 DEF CallReturn
  <2>3. ~admin[a].overlap /\ alone' => Agree'
    BY <1>2, <1>3, <1>4, <2>1, <2>2 DEF Agree, Enabled, Stops, Final
  <2>4. admin' \in [Manager -> SvcCall] /\ alone' \in BOOLEAN /\ CallInv' /\ SerialInv'
    BY Zenon, <1>1, <2>1, <2>3, ReturnKeeps DEF ServiceInv
  <2>5. \A b \in Manager \ {a} : Waiting(b)' <=> Waiting(b)
    BY <2>1 DEF CallReturn, Waiting, ServiceInv, CallTypes
  <2>6. QueueInv'
    BY <1>1, <2>1, <2>5, QueueSame DEF ServiceInv
  <2>7. LauncherInv'
    BY <1>2, <2>1, LauncherSame DEF ServiceInv
  <2>8. QED
    BY <1>2, <2>1, <2>4, <2>6, <2>7 DEF ServiceInv, CallTypes
<1>5. CASE admin[a].p.enabled
  <2>1. Request(a, "start", admin[a].p) /\ CallGoto(a, "starting") /\ UNCHANGED alone
    BY <1>5 DEF DeployInsert
  <2>2. PICK r \in LauncherCall : r = [kind |-> "start", p |-> admin[a].p, from |-> a]
    BY Zenon, <1>1 DEF LauncherCall
  <2>3. r.kind = "start" /\ r.p = admin[a].p /\ r.from = a /\ queue' = Append(queue, r)
    BY <2>1, <2>2 DEF Request
  <2>4. /\ admin'[a].pc = "starting" /\ admin'[a].op = "deploy" /\ admin'[a].p = admin[a].p
        /\ \A b \in Manager \ {a} : admin'[b] = admin[b]
    BY <1>1, <2>1 DEF CallGoto, SvcCall
  <2>5. Waiting(a)' /\ \A b \in Manager \ {a} : Waiting(b)' <=> Waiting(b)
    BY <2>4 DEF Waiting
  <2>6. queue' \in Seq(LauncherCall) /\ QueueInv' /\ queue' # <<>> /\ Final' = r
    BY <1>1, <2>3, <2>5, QueueAppends DEF ServiceInv
  <2>7. LauncherInv'
    BY <1>2, <2>6, LauncherSame DEF ServiceInv
  <2>8. ~admin[a].overlap => SerialOf(a)'
    BY <1>2, <1>3, <1>5, <2>3, <2>4, <2>6 DEF SerialOf, Enabled, Waiting
  <2>9. "starting" \in Place \ {"idle"} /\ Places("deploy", "starting")
    BY DEF Place, Places
  <2>10. admin' \in [Manager -> SvcCall] /\ CallInv' /\ SerialInv'
    BY <1>1, <2>1, <2>8, <2>9, GotoKeeps DEF ServiceInv
  <2>11. QED
    BY <1>2, <2>1, <2>6, <2>7, <2>10 DEF ServiceInv, CallTypes
<1>6. QED
  BY <1>4, <1>5

LEMMA DeleteKeeps ==
  ASSUME ServiceInv, NEW a \in Manager, DeleteKey(a) \/ RemoveService(a)
  PROVE  ServiceInv'
<1>1. /\ Busy(a) /\ ~Waiting(a) /\ admin[a].pc \in {"delete", "remove"}
      /\ admin[a].op \in {"undeploy", "purge"}
      /\ admin[a] \in SvcCall /\ a \in DOMAIN admin
  BY Zenon DEF DeleteKey, RemoveService, At, Busy, Waiting, ServiceInv, CallInv, Places, CallTypes
<1>2. /\ UNCHANGED <<queue, lpc, object, run>> /\ services' \in {services, Nil}
      /\ registry' \in {registry, Nil}
  BY Zenon DEF DeleteKey, RemoveService, launcher
<1>3. LauncherInv'
  BY <1>2, LauncherSame DEF ServiceInv
<1>4. ~admin[a].overlap /\ alone => /\ Stops'
                                    /\ admin[a].op = "undeploy" /\ admin[a].pc = "remove" => registry = Nil
                                    /\ admin[a].op = "purge" /\ admin[a].pc = "delete" => services = Nil
  BY <1>1, <1>2 DEF ServiceInv, SerialInv, SerialOf, Stops, Final
<1>5. ASSUME NEW ok \in BOOLEAN, CallReturn(a, ok),
             ok /\ ~admin[a].overlap /\ alone => registry' = Nil /\ services' = Nil
      PROVE  ServiceInv'
  <2>1. alone' => alone
    BY Zenon, <1>1, <1>5 DEF CallReturn
  <2>2. ~admin[a].overlap /\ ok /\ alone' => Agree'
    BY <1>4, <1>5, <2>1 DEF Agree, Enabled
  <2>3. admin' \in [Manager -> SvcCall] /\ alone' \in BOOLEAN /\ CallInv' /\ SerialInv'
    BY <1>1, <1>5, <2>2, ReturnKeeps DEF ServiceInv
  <2>4. \A b \in Manager \ {a} : Waiting(b)' <=> Waiting(b)
    BY <1>5 DEF CallReturn, Waiting, ServiceInv, CallTypes
  <2>5. QueueInv'
    BY <1>1, <1>2, <2>4, QueueSame DEF ServiceInv
  <2>6. QED
    BY <1>2, <1>3, <2>3, <2>5 DEF ServiceInv, CallTypes
<1>6. ASSUME NEW l \in {"delete", "remove"}, CallGoto(a, l), UNCHANGED alone,
             IF l = "remove" THEN admin[a].op = "undeploy" /\ registry' = Nil
             ELSE admin[a].op = "purge" /\ services' = Nil
      PROVE  ServiceInv'
  <2>1. /\ admin'[a].pc = l /\ admin'[a].op = admin[a].op
        /\ \A b \in Manager \ {a} : admin'[b] = admin[b]
    BY <1>1, <1>6 DEF CallGoto, SvcCall
  <2>2. ~admin[a].overlap => SerialOf(a)'
    BY <1>1, <1>4, <1>6, <2>1 DEF SerialOf, Waiting
  <2>3. l \in Place \ {"idle"} /\ Places(admin[a].op, l)
    BY <1>1 DEF Place, Places
  <2>4. admin' \in [Manager -> SvcCall] /\ CallInv' /\ SerialInv'
    BY <1>1, <1>6, <2>2, <2>3, GotoKeeps DEF ServiceInv
  <2>5. \A b \in Manager \ {a} : Waiting(b)' <=> Waiting(b)
    BY <2>1 DEF Waiting
  <2>6. QueueInv'
    BY <1>1, <1>2, <2>5, QueueSame DEF ServiceInv
  <2>7. QED
    BY <1>2, <1>3, <1>6, <2>4, <2>6 DEF ServiceInv, CallTypes
<1>7. CASE DeleteKey(a)
  <2>1. admin[a].pc = "delete" /\ UNCHANGED services
    BY <1>7 DEF DeleteKey, At
  <2>2. CASE CallReturn(a, FALSE)
    BY Zenon, <1>5, <2>2
  <2>3. CASE registry' = Nil /\ admin[a].op = "undeploy" /\ CallGoto(a, "remove") /\ UNCHANGED alone
    BY <1>6, <2>3
  <2>4. CASE registry' = Nil /\ admin[a].op # "undeploy" /\ CallReturn(a, TRUE)
    BY Zenon, <1>1, <1>4, <1>5, <2>1, <2>4
  <2>5. QED
    BY Zenon, <1>7, <2>2, <2>3, <2>4 DEF DeleteKey
<1>8. CASE RemoveService(a)
  <2>1. admin[a].pc = "remove" /\ services' = Nil /\ UNCHANGED registry
    BY <1>8 DEF RemoveService, At
  <2>2. CASE admin[a].op = "undeploy" /\ CallReturn(a, TRUE)
    BY Zenon, <1>1, <1>4, <1>5, <2>1, <2>2
  <2>3. CASE admin[a].op # "undeploy" /\ CallGoto(a, "delete") /\ UNCHANGED alone
    BY <1>1, <1>6, <2>1, <2>3
  <2>4. QED
    BY Zenon, <1>8, <2>2, <2>3 DEF RemoveService
<1>9. QED
  BY <1>7, <1>8

\* The manager does not wait any longer for an answer.
LEMMA TimeoutKeeps ==
  ASSUME ServiceInv, NEW a \in Manager, CallTimeout(a)
  PROVE  ServiceInv'
<1>1. UNCHANGED <<services, registry, lpc, object, run>> /\ Answered(a, FALSE)
  BY Zenon DEF CallTimeout
<1>2. a # Nil /\ queue \in Seq(LauncherCall) /\ Len(queue) \in Nat
  BY ServicesParameters DEF ServiceInv, CallTypes
<1>3. Waiting(a) /\ queue # <<>>
  BY <1>2 DEF CallTimeout, ServiceInv, QueueInv
<1>4. \A i \in 1..Len(queue) : queue[i] \in LauncherCall /\ [queue[i] EXCEPT !.from = Nil] \in LauncherCall
  <2>1. \A r \in LauncherCall : [r EXCEPT !.from = Nil] \in LauncherCall
    BY DEF LauncherCall
  <2>2. \A i \in 1..Len(queue) : queue[i] \in LauncherCall
    BY <1>2
  <2>3. QED
    BY <2>1, <2>2, Zenon
<1>5. queue' = [i \in 1..Len(queue) |->
                 IF queue[i].from = a THEN [queue[i] EXCEPT !.from = Nil] ELSE queue[i]]
  BY DEF CallTimeout
<1>6. queue' \in Seq(LauncherCall) /\ Len(queue') = Len(queue) /\ queue' # <<>>
  BY <1>2, <1>3, <1>4, <1>5
<1>7. \A i \in 1..Len(queue) : /\ queue'[i].kind = queue[i].kind /\ queue'[i].p = queue[i].p
                               /\ queue'[i].from = IF queue[i].from = a THEN Nil ELSE queue[i].from
  BY <1>4, <1>5 DEF LauncherCall
<1>8. Final'.kind = Final.kind
  BY <1>2, <1>3, <1>6, <1>7 DEF Final
<1>9. ~admin[a].overlap /\ admin[a].pc = "stopping" => Stops'
  BY <1>3, <1>6, <1>8 DEF ServiceInv, SerialInv, SerialOf, Stops, Busy
<1>10. /\ admin' \in [Manager -> SvcCall] /\ alone' \in BOOLEAN /\ CallInv' /\ SerialInv'
       /\ ~Waiting(a)' /\ \A b \in Manager \ {a} : admin'[b] = admin[b]
  BY Zenon, <1>1, <1>3, <1>9, AnsweredKeeps DEF ServiceInv
<1>11. QueueInv'
  <2>1. ASSUME NEW i \in 1..Len(queue), queue'[i].from # Nil
        PROVE  queue'[i].from = queue[i].from /\ queue[i].from \in Manager \ {a}
    BY Zenon, <1>4, <1>7, <2>1 DEF LauncherCall
  <2>2. \A b \in Manager \ {a} : Waiting(b) => Waiting(b)'
    BY <1>10 DEF Waiting
  <2>3. \A i \in 1..Len(queue) : queue'[i].from # Nil => Waiting(queue[i].from)'
    BY <2>1, <2>2 DEF ServiceInv, QueueInv, Waiting
  <2>4. \A i, j \in 1..Len(queue) : queue'[i].from = queue'[j].from /\ queue'[i].from # Nil => i = j
    BY <2>1 DEF ServiceInv, QueueInv
  <2>5. QED
    BY <1>6, <2>3, <2>4 DEF QueueInv
<1>12. LauncherInv'
  BY <1>1, <1>6, LauncherSame DEF ServiceInv
<1>13. QED
  BY <1>1, <1>6, <1>10, <1>11, <1>12 DEF ServiceInv, CallTypes

\* The launcher ends a call: what its last call comes to is still to be done, or is done.
LEMMA FinishDoes ==
  ASSUME ServiceInv, RunnerInv, FinishCall, queue # <<>>
  PROVE  \E ok \in BOOLEAN : /\ Reply(ok) /\ LauncherInv'
                             /\ Len(queue) > 1 => queue' # <<>> /\ Final' = Final
                             /\ Stops => Stops'
                             /\ \A p : ok /\ Starts(p) => Starts(p)'
<1>1. /\ lpc = "done" /\ object = Nil /\ queue' = Tail(queue) /\ lpc' = "idle"
      /\ DOMAIN run = Object /\ starts \in Nat
  BY DEF FinishCall, RunnerInv
<1>2. queue \in Seq(LauncherCall)
  BY DEF ServiceInv, CallTypes
<1>3. /\ queue' \in Seq(LauncherCall) /\ Len(queue') = Len(queue) - 1 /\ Len(queue) \in Nat /\ Len(queue) >= 1
      /\ \A i \in 1..(Len(queue) - 1) : queue'[i] = queue[i + 1]
      /\ queue' = <<>> <=> Len(queue) = 1
      /\ Head(queue) = queue[1]
  BY <1>1, <1>2, TailFacts
<1>4. Len(queue) > 1 => queue' # <<>> /\ Final' = Final
  BY <1>3 DEF Final
<1>5. Len(queue) = 1 => queue' = <<>> /\ Final = Head(queue)
  BY <1>3 DEF Final
<1>6. Len(queue) = 1 \/ Len(queue) > 1
  BY <1>3
<1>7. CASE Head(queue).kind # "start" /\ Reply(TRUE) /\ UNCHANGED <<object, starts, run, faults>>
  <2>1. LauncherInv'
    BY <1>1, <1>7 DEF LauncherInv
  <2>2. Stops => Stops'
    BY <1>1, <1>4, <1>5, <1>6, <1>7 DEF Stops
  <2>3. \A p : Starts(p) => Starts(p)'
    BY <1>4, <1>5, <1>6, <1>7 DEF Starts
  <2>4. QED
    BY Zenon, <1>4, <1>7, <2>1, <2>2, <2>3
<1>8. CASE /\ Head(queue).kind = "start" /\ starts < MaxStarts /\ object' = starts + 1
           /\ run' = [run EXCEPT ![starts + 1] =
                     [NoRun EXCEPT !.pc = "sleep", !.active = TRUE, !.p = Head(queue).p]]
           /\ Reply(TRUE)
  <2>1. object' \in Object /\ object' # Nil
    BY <1>1, <1>8, ServicesParameters DEF Object
  <2>2. run'[object'].p = Head(queue).p /\ ~run'[object'].aborted
    BY <1>1, <1>8, <2>1 DEF NoRun
  <2>3. LauncherInv'
    BY <1>1, <2>1, <2>2 DEF LauncherInv
  <2>4. Stops => Stops'
    BY <1>4, <1>5, <1>6, <1>8 DEF Stops
  <2>5. \A p : Starts(p) => Starts(p)'
    BY <1>4, <1>5, <1>6, <2>1, <2>2 DEF Starts
  <2>6. QED
    BY Zenon, <1>4, <1>8, <2>3, <2>4, <2>5
<1>9. CASE Reply(FALSE) /\ UNCHANGED <<object, starts, run>>
  <2>1. LauncherInv'
    BY <1>1, <1>9 DEF LauncherInv
  <2>2. Stops => Stops'
    BY <1>1, <1>4, <1>5, <1>6, <1>9 DEF Stops
  <2>3. QED
    BY Zenon, <1>4, <1>9, <2>1, <2>2
<1>10. QED
  BY Zenon, <1>7, <1>8, <1>9 DEF FinishCall

LEMMA FinishKeeps ==
  ASSUME ServiceInv, RunnerInv, FinishCall
  PROVE  ServiceInv'
<1>1. queue # <<>> /\ queue' = Tail(queue) /\ UNCHANGED <<services, registry>>
  BY DEF FinishCall, ServiceInv, LauncherInv
<1>2. PICK ok \in BOOLEAN : /\ Reply(ok) /\ LauncherInv'
                            /\ Len(queue) > 1 => queue' # <<>> /\ Final' = Final
                            /\ Stops => Stops'
                            /\ \A p : ok /\ Starts(p) => Starts(p)'
  BY <1>1, FinishDoes
<1>3. queue \in Seq(LauncherCall)
  BY DEF ServiceInv, CallTypes
<1>4. /\ queue' \in Seq(LauncherCall) /\ Len(queue') = Len(queue) - 1 /\ Len(queue) \in Nat /\ Len(queue) >= 1
      /\ \A i \in 1..(Len(queue) - 1) : queue'[i] = queue[i + 1]
      /\ Head(queue) = queue[1] /\ queue[1] \in LauncherCall
  BY <1>1, <1>3, TailFacts
<1>5. \A i, j \in 1..Len(queue') : queue'[i].from = queue'[j].from /\ queue'[i].from # Nil => i = j
  <2> SUFFICES ASSUME NEW i \in 1..Len(queue'), NEW j \in 1..Len(queue'),
                      queue'[i].from = queue'[j].from, queue'[i].from # Nil
               PROVE  i = j
    OBVIOUS
  <2>1. /\ i + 1 \in 1..Len(queue) /\ j + 1 \in 1..Len(queue)
        /\ queue'[i] = queue[i + 1] /\ queue'[j] = queue[j + 1]
    BY <1>4
  <2>2. i + 1 = j + 1
    BY <2>1 DEF ServiceInv, QueueInv
  <2>3. QED
    BY <1>4, <2>2
<1>6. \A i \in 1..Len(queue') : queue'[i].from # Nil => /\ Waiting(queue'[i].from)
                                                       /\ queue'[i].from # Head(queue).from
                                                       /\ queue'[i].from \in Manager
  <2>1. \A i \in 1..Len(queue') : /\ i + 1 \in 1..Len(queue) /\ 1 \in 1..Len(queue) /\ i + 1 # 1
                                  /\ queue'[i] = queue[i + 1]
    BY <1>4
  <2>2. \A i \in 1..Len(queue) : queue[i] \in LauncherCall
    BY <1>3
  <2>3. QED
    BY <1>4, <2>1, <2>2 DEF ServiceInv, QueueInv, LauncherCall
<1>7. CASE Head(queue).from = Nil
  <2>1. UNCHANGED admin /\ alone' = (alone /\ ok)
    BY <1>2, <1>7 DEF Reply
  <2>2. QueueInv'
    BY <1>5, <1>6, <2>1 DEF QueueInv, Waiting
  <2>3. SerialInv'
    <3>1. ASSUME NEW a \in Manager, Busy(a)', ~admin'[a].overlap PROVE SerialOf(a)'
      <4>1. SerialOf(a)
        BY <2>1, <3>1 DEF ServiceInv, SerialInv, Busy
      <4>2. Waiting(a) => queue' # <<>> /\ Final' = Final
        <5>1. Waiting(a) => queue[Len(queue)].from = a /\ a # Nil
          BY <4>1, ServicesParameters DEF SerialOf, Final
        <5>2. Waiting(a) => Len(queue) # 1
          BY <1>4, <1>7, <5>1
        <5>3. QED
          BY <1>2, <1>4, <5>2
      <4>3. (alone' => alone) /\ Waiting(a)' = Waiting(a) /\ Enabled' = Enabled
        BY Zenon, <1>1, <2>1 DEF Waiting, Enabled
      <4>4. QED
        BY <1>1, <1>2, <2>1, <4>1, <4>2, <4>3 DEF SerialOf, Waiting
    <3>2. alone' /\ (\A a \in Manager : ~Busy(a)') => Agree'
      <4> SUFFICES ASSUME alone', \A a \in Manager : ~Busy(a)' PROVE Agree'
        OBVIOUS
      <4>1. alone /\ ok
        BY Zenon, <2>1
      <4>2. Agree /\ Enabled' = Enabled
        BY <1>1, <2>1, <4>1 DEF ServiceInv, SerialInv, Busy, Enabled
      <4>3. Enabled => Starts(services)'
        BY <1>1, <1>2, <4>1, <4>2 DEF Agree, Starts, Final
      <4>4. QED
        BY <1>1, <1>2, <4>2, <4>3 DEF Agree
    <3>3. QED
      BY <3>1, <3>2 DEF SerialInv
  <2>4. QED
    BY <1>1, <1>2, <1>4, <2>1, <2>2, <2>3 DEF ServiceInv, CallTypes, CallInv, Busy
<1>8. CASE Head(queue).from # Nil
  <2>1. PICK a \in Manager : a = Head(queue).from
    BY <1>4, <1>8 DEF LauncherCall
  <2>2. Answered(a, ok)
    BY <1>2, <1>8, <2>1 DEF Reply
  <2>3. Waiting(a) /\ Busy(a)
    BY <1>4, <1>8, <2>1 DEF ServiceInv, QueueInv, Waiting, Busy
  <2>4. ~admin[a].overlap => SerialOf(a)
    BY <2>3 DEF ServiceInv, SerialInv
  <2>5. ~admin[a].overlap /\ admin[a].pc = "stopping" => Stops'
    BY <1>1, <1>2, <2>4 DEF SerialOf, Stops
  <2>6. ~admin[a].overlap /\ admin[a].pc = "starting" /\ ok => Starts(services)'
    <3>1. ~admin[a].overlap /\ admin[a].pc = "starting" => Starts(services)
      BY <1>1, <2>4 DEF SerialOf, Starts
    <3>2. QED
      BY <1>1, <1>2, <3>1 DEF Starts, Final
  <2>7. /\ admin' \in [Manager -> SvcCall] /\ alone' \in BOOLEAN /\ CallInv' /\ SerialInv'
        /\ ~Waiting(a)' /\ \A b \in Manager \ {a} : admin'[b] = admin[b]
    BY Zenon, <1>1, <2>2, <2>3, <2>5, <2>6, AnsweredKeeps DEF ServiceInv
  <2>8. QueueInv'
    <3>1. \A i \in 1..Len(queue') : queue'[i].from # Nil => queue'[i].from \in Manager \ {a}
      BY <1>6, <2>1
    <3>2. \A i \in 1..Len(queue') : queue'[i].from # Nil => Waiting(queue[i].from)'
      BY <1>6, <2>7, <3>1 DEF Waiting
    <3>3. QED
      BY <1>5, <3>2 DEF QueueInv
  <2>9. QED
    BY <1>1, <1>2, <1>4, <2>7, <2>8 DEF ServiceInv, CallTypes
<1>9. QED
  BY <1>7, <1>8

\* Steps that leave the calls alone, and the object of an idle launcher
LEMMA QuietService ==
  ASSUME ServiceInv, UNCHANGED <<services, registry, admin, queue, alone>>, LauncherInv',
         queue = <<>> => object' = object /\ (object # Nil => run'[object].p = run[object].p)
  PROVE  ServiceInv'
<1>1. Stops => Stops'
  BY DEF Stops, Final
<1>2. \A p : Starts(p) => Starts(p)'
  BY DEF Starts, Final
<1>3. SerialInv'
  BY <1>1, <1>2 DEF ServiceInv, SerialInv, SerialOf, Busy, Waiting, Agree, Enabled, Final
<1>4. CallTypes' /\ CallInv' /\ QueueInv'
  BY DEF ServiceInv, CallTypes, CallInv, QueueInv, Busy, Waiting
<1>5. QED
  BY <1>3, <1>4 DEF ServiceInv

\* The launcher stops what runs, and takes reports.
LEMMA StoppingKeeps ==
  ASSUME ServiceInv, RunnerInv, StopSvc \/ TakeData \/ KillProcess \/ HandleStatus
  PROVE  ServiceInv'
<1>0. DOMAIN run = Object /\ \A g \in Object : DOMAIN run[g] = Fields
  BY DEF RunnerInv
<1>1. UNCHANGED <<services, registry, admin, queue, alone>>
  BY DEF StopSvc, TakeData, KillProcess, HandleStatus, manager, launcher
<1>2. CASE StopSvc
  <2>1. queue # <<>> /\ object' = Nil
    BY <1>2 DEF StopSvc
  <2>2. LauncherInv'
    BY <1>1, <2>1 DEF LauncherInv
  <2>3. QED
    BY <1>1, <2>1, <2>2, QuietService
<1>3. CASE TakeData \/ KillProcess
  <2>1. lpc \in {"stop", "kill"} /\ UNCHANGED object
    BY <1>3 DEF TakeData, KillProcess
  <2>2. object = Nil /\ queue # <<>>
    BY <2>1 DEF RunnerInv, ServiceInv, LauncherInv
  <2>3. LauncherInv'
    BY <1>1, <2>1, <2>2 DEF LauncherInv
  <2>4. QED
    BY <1>1, <2>2, <2>3, QuietService
<1>4. CASE HandleStatus
  <2>1. /\ UNCHANGED <<lpc, object>>
        /\ \A g \in Object : run'[g].p = run[g].p /\ run'[g].aborted = run[g].aborted
    BY <1>0, <1>4 DEF HandleStatus, launcher, Fields
  <2>2. LauncherInv'
    BY <1>1, <2>1 DEF ServiceInv, LauncherInv
  <2>3. QED
    BY <1>1, <2>1, <2>2, QuietService DEF ServiceInv, LauncherInv
<1>5. QED
  BY <1>2, <1>3, <1>4

\* A runner and its process never change what the object runs.
LEMMA RunsKeep ==
  ASSUME ServiceInv, RunnerInv, NEW g \in Object,
         \/ RunnerStep(g) \/ BecomesReady(g) \/ ReadyEarly(g)
         \/ \E how \in {"dead", "hung"} : ProcessFails(g, how)
  PROVE  ServiceInv'
<1>0. DOMAIN run = Object /\ DOMAIN run[g] = Fields
  BY DEF RunnerInv
<1>1. UNCHANGED <<services, registry, admin, queue, alone, lpc, object>>
  BY DEF RunnerStep, Loop, Spawn, StoreData, ChildExits, AbortRunner, Ping,
     CheckReady, Rest, BecomesReady, ReadyEarly, ProcessFails, manager, launcher
<1>2. ASSUME object = g PROVE run'[g].p = run[g].p /\ run'[g].aborted = run[g].aborted
  <2>1. ~run[g].aborted
    BY <1>2, ServicesParameters DEF ServiceInv, LauncherInv
  <2>2. CASE BecomesReady(g) \/ ReadyEarly(g) \/ \E how \in {"dead", "hung"} : ProcessFails(g, how)
    <3>1. \E x : run' = [run EXCEPT ![g].proc = x]
      BY <2>2 DEF BecomesReady, ReadyEarly, ProcessFails
    <3>2. QED
      BY <1>0, <3>1 DEF Fields
  <2>3. CASE Loop(g) \/ Spawn(g) \/ ChildExits(g)
    BY <1>0, <2>3 DEF Loop, Spawn, ChildExits, RunnerGoto, Fields
  <2>4. CASE StoreData(g)
    BY <1>0, <2>4 DEF StoreData, Fields
  <2>5. CASE Ping(g) \/ CheckReady(g)
    BY <1>0, <2>5 DEF Ping, CheckReady, Fields
  <2>6. CASE AbortRunner(g)
    BY <2>1, <2>6 DEF AbortRunner
  <2>7. QED
    BY <2>2, <2>3, <2>4, <2>5, <2>6 DEF RunnerStep
<1>3. \A h \in Object \ {g} : run'[h] = run[h]
  BY <1>0 DEF RunnerStep, Loop, Spawn, StoreData, ChildExits, AbortRunner, Ping,
     CheckReady, RunnerGoto, BecomesReady, ReadyEarly, ProcessFails
<1>4. object # Nil => /\ object \in Object /\ run'[object].p = run[object].p
                      /\ run'[object].aborted = run[object].aborted
  BY <1>2, <1>3 DEF ServiceInv, LauncherInv
<1>5. LauncherInv'
  BY <1>1, <1>4 DEF ServiceInv, LauncherInv
<1>6. QED
  BY <1>1, <1>4, <1>5, QuietService

LEMMA StepService ==
  ASSUME ServiceInv, RunnerInv, ServicesNext \/ UNCHANGED servicesVars
  PROVE  ServiceInv'
<1>1. ASSUME NEW a \in Manager, ManagerStep(a) PROVE ServiceInv'
  BY <1>1, CallsBegin, DeployKeyKeeps, DeployInsertKeeps, DeleteKeeps, TimeoutKeeps DEF ManagerStep
<1>2. CASE LauncherStep \/ HandleStatus
  BY <1>2, StoppingKeeps, FinishKeeps DEF LauncherStep
<1>3. ASSUME NEW g \in Object,
             \/ RunnerStep(g) \/ BecomesReady(g) \/ ReadyEarly(g)
             \/ \E how \in {"dead", "hung"} : ProcessFails(g, how)
      PROVE  ServiceInv'
  BY <1>3, RunsKeep
<1>4. CASE UNCHANGED servicesVars
  <2>1. UNCHANGED <<services, registry, admin, queue, alone, lpc, object, run>>
    BY <1>4 DEF servicesVars, manager, launcher
  <2>2. LauncherInv'
    BY <2>1 DEF ServiceInv, LauncherInv
  <2>3. QED
    BY <2>1, <2>2, QuietService
<1>5. QED
  BY <1>1, <1>2, <1>3, <1>4 DEF ServicesNext

LEMMA InitService == ServicesInit => ServiceInv
<1> SUFFICES ASSUME ServicesInit PROVE ServiceInv
  OBVIOUS
<1>1. services \in Params \union {Nil} /\ registry = services /\ alone = TRUE
  BY ServicesParameters DEF ServicesInit
<1>2. \A a \in Manager : admin[a] = NoCall /\ ~Busy(a) /\ admin[a].op = "none" /\ admin[a].pc = "idle"
  BY DEF ServicesInit, NoCall, Busy
<1>3. admin \in [Manager -> SvcCall]
  BY DEF ServicesInit, NoCall, SvcCall, Place
<1>4. CallInv
  BY <1>2 DEF CallInv, Places
<1>5. lpc = "idle" /\ object = Nil
  BY DEF ServicesInit
<1>6. CASE ~Enabled
  <2>1. queue = <<>> /\ queue \in Seq(LauncherCall)
    BY <1>6 DEF ServicesInit, Enabled
  <2>2. Agree
    BY <1>1, <1>5, <1>6, <2>1 DEF Agree, Stops
  <2>3. QED
    BY <1>1, <1>2, <1>3, <1>4, <1>5, <2>1, <2>2 DEF ServiceInv, CallTypes, QueueInv, LauncherInv, SerialInv
<1>7. CASE Enabled
  <2>1. PICK r \in LauncherCall : r = [kind |-> "start", p |-> services, from |-> Nil]
    BY Zenon, <1>1, <1>7 DEF LauncherCall, Enabled
  <2>2. queue = <<r>> /\ r.kind = "start" /\ r.p = services /\ r.from = Nil
    BY <1>7, <2>1 DEF ServicesInit, Enabled
  <2>3. queue \in Seq(LauncherCall) /\ queue # <<>> /\ Len(queue) = 1 /\ queue[1] = r
    BY <2>2
  <2>4. Agree
    BY <1>1, <1>7, <2>2, <2>3 DEF Agree, Starts, Final
  <2>5. QueueInv
    BY <2>2, <2>3 DEF QueueInv
  <2>6. QED
    BY <1>1, <1>2, <1>3, <1>4, <1>5, <2>3, <2>4, <2>5 DEF ServiceInv, CallTypes, LauncherInv, SerialInv
<1>8. QED
  BY <1>6, <1>7

\* However many callers, calls, failures, timeouts and late answers there are: once all the
\* calls have ended, and the last of those that met or failed has been made good by a
\* deployment, the registry, the manager and the launcher agree on what runs.
THEOREM DeployedRunsCorrect == ServicesSpec => []DeployedRuns
<1>1. ServicesInit => RunnerInv /\ ServiceInv
  BY InitRunner, InitService
<1>2. RunnerInv /\ ServiceInv /\ [ServicesNext]_servicesVars => (RunnerInv /\ ServiceInv)'
  BY StepRunner, StepService
<1>3. ServiceInv => DeployedRuns
  BY DEF DeployedRuns, Settled, At, ServiceInv, SerialInv, Busy, Agree, Enabled, Starts, Stops
<1>4. QED
  BY <1>1, <1>2, <1>3, PTL DEF ServicesSpec
=============================================================================
