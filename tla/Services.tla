------------------------------ MODULE Services ------------------------------
(***************************************************************************)
(* One service between the service manager of the core (svcmgr.rs), which  *)
(* keeps its parameters in a map and in the registry, and the launcher     *)
(* (launcher.rs), which runs it as a process and runs it again whenever it *)
(* ends.                                                                   *)
(*                                                                         *)
(* The launcher takes its calls one after another (mutex services).  Each  *)
(* start makes a new object with a runner task of its own; a runner that   *)
(* is aborted goes on to its next point of suspension, so one that has     *)
(* just spawned a process leaves it behind: it lives on with its standard  *)
(* input closed, nobody's child.                                           *)
(***************************************************************************)
EXTENDS Naturals, Sequences, FiniteSets

CONSTANTS Manager,       \* callers of the service manager
          Loaded, Deployed, \* parameters that may be in the registry when the core starts,
                       \* and that may be deployed: a configuration v and a flag
          MaxStarts,   \* bound: objects the launcher makes
          MaxCalls,    \* bound: calls of the manager
          MaxFaults,   \* bound: crashed or hung processes, failed or late calls
          Nil

Object == 1..MaxStarts

\* The parameters a service may have: its flag may be set and reset.
Params == [v : {p.v : p \in (Loaded \ {Nil}) \union Deployed}, enabled : BOOLEAN]

ASSUME ServicesParameters ==
  /\ MaxStarts \in Nat /\ Nil \notin Manager /\ Nil \notin Object /\ Nil \notin Params
  /\ Loaded \subseteq Params \union {Nil} /\ Deployed \subseteq Params

VARIABLES services,    \* map of the manager: Nil or the parameters
          registry,    \* the same in the registry
          admin,       \* calls of the manager in progress
          queue,       \* calls of the launcher, the head in progress
          lpc, old,    \* where that one is; the object it stops
          object,      \* map of the launcher: Nil or an object
          run,         \* [Object -> its runner, process and runtime data]
          mail,        \* status events of processes not handled yet
          starts, calls, faults, \* use of the bounds
          alone        \* history: the last call that failed or overlapped another one was
                       \* followed by a deployment (see CallReturn)

manager == <<services, registry, admin>>
launcher == <<queue, lpc, old, object, starts>>
bounds == <<calls, faults>>
servicesVars == <<manager, launcher, run, mail, bounds, alone>>

NoCall == [op |-> "none", pc |-> "idle", p |-> Nil, overlap |-> FALSE]
NoRun == [pc |-> "none", active |-> FALSE, aborted |-> FALSE, p |-> Nil, proc |-> "none",
          data |-> FALSE, status |-> "starting"]

\* load: a service may be in the registry, and the core starts it if it is enabled.
ServicesInit ==
  /\ services \in Loaded /\ registry = services
  /\ admin = [a \in Manager |-> NoCall]
  /\ queue = IF services = Nil \/ ~services.enabled THEN <<>>
             ELSE <<[kind |-> "start", p |-> services, from |-> Nil]>>
  /\ lpc = "idle" /\ old = Nil /\ object = Nil
  /\ run = [g \in Object |-> NoRun]
  /\ mail = <<>>
  /\ starts = 0 /\ calls = 0 /\ faults \in 0..MaxFaults
  /\ alone = TRUE

Fault == faults < MaxFaults /\ faults' = faults + 1

----------------------------------------------------------------------------
(* The service manager *)

\* start_stop_service
Request(a, kind, p) == queue' = Append(queue, [kind |-> kind, p |-> p, from |-> a])
At(a, pc) == admin[a].pc = pc
CallGoto(a, pc) == admin' = [admin EXCEPT ![a].pc = pc]
Overlap == \E b \in Manager : ~At(b, "idle")

\* The end of a call: overlapping calls and failures leave doubt.  A deployment of an enabled
\* service ends it; of a disabled one does not, since a process that the manager has
\* forgotten is not stopped by it.
CallReturn(a, ok) ==
  /\ admin' = [admin EXCEPT ![a] = NoCall]
  /\ alone' = IF ~ok \/ admin[a].overlap THEN FALSE
              ELSE alone \/ (admin[a].op = "deploy" /\ admin[a].p.enabled)

\* A call begins.  Bound: calls overlap once no fault is left.
Begin(a, op, pc, p) ==
  /\ At(a, "idle") /\ calls < MaxCalls /\ calls' = calls + 1
  /\ Overlap => faults = MaxFaults
  /\ admin' = [b \in Manager |->
       IF b = a THEN [op |-> op, pc |-> pc, p |-> p, overlap |-> Overlap]
       ELSE IF admin[b] = NoCall THEN NoCall ELSE [admin[b] EXCEPT !.overlap = TRUE]]
  /\ UNCHANGED <<services, registry, lpc, old, object, starts, run, mail, faults, alone>>

\* deploy_service: what runs is stopped, if it is known.
DeployService(a, p) ==
  IF services = Nil THEN Begin(a, "deploy", "key", p) /\ UNCHANGED queue
  ELSE Begin(a, "deploy", "stopping", p) /\ Request(a, "stop", services)

\* set_service_enabled: a deployment of what was read, with another flag.
SetServiceEnabled(a, enabled) ==
  /\ services # Nil /\ services.enabled # enabled
  /\ DeployService(a, [services EXCEPT !.enabled = enabled])

DeployKey(a) ==
  /\ At(a, "key")
  /\ \/ CallGoto(a, "insert") /\ registry' = admin[a].p /\ UNCHANGED <<alone, faults>>
     \/ CallReturn(a, FALSE) /\ Fault /\ UNCHANGED registry
  /\ UNCHANGED <<services, launcher, run, mail, calls>>

\* Faulty variant of DeployInsert: the map of the manager keeps the old parameters.
DeployInsertNot(a) ==
  /\ At(a, "insert")
  /\ IF admin[a].p.enabled
     THEN Request(a, "start", admin[a].p) /\ CallGoto(a, "starting") /\ UNCHANGED alone
     ELSE CallReturn(a, TRUE) /\ UNCHANGED queue
  /\ UNCHANGED <<services, registry, lpc, old, object, starts, run, mail, bounds>>

DeployInsert(a) ==
  /\ At(a, "insert")
  /\ services' = admin[a].p
  /\ IF admin[a].p.enabled
     THEN Request(a, "start", admin[a].p) /\ CallGoto(a, "starting") /\ UNCHANGED alone
     ELSE CallReturn(a, TRUE) /\ UNCHANGED queue
  /\ UNCHANGED <<registry, lpc, old, object, starts, run, mail, bounds>>

\* restart_service; get_service_init refuses a service that is disabled.
RestartService(a) ==
  /\ services # Nil /\ services.enabled
  /\ Begin(a, "restart", "starting", Nil) /\ Request(a, "start", services)

\* undeploy_service and purge_service: stop first, then forget.
UndeployService(a) ==
  services # Nil /\ Begin(a, "undeploy", "stopping", Nil) /\ Request(a, "stop", services)

PurgeService(a) ==
  IF services = Nil THEN Begin(a, "purge", "delete", Nil) /\ UNCHANGED queue
  ELSE Begin(a, "purge", "stopping", Nil) /\ Request(a, "purge", services)

\* purge_service removes the entry before the key, undeploy_service after it.
DeleteKey(a) ==
  /\ At(a, "delete")
  /\ \/ /\ registry' = Nil /\ UNCHANGED faults
        /\ IF admin[a].op = "undeploy" THEN CallGoto(a, "remove") /\ UNCHANGED alone ELSE CallReturn(a, TRUE)
     \/ CallReturn(a, FALSE) /\ Fault /\ UNCHANGED registry
  /\ UNCHANGED <<services, launcher, run, mail, calls>>

RemoveService(a) ==
  /\ At(a, "remove")
  /\ services' = Nil
  /\ IF admin[a].op = "undeploy" THEN CallReturn(a, TRUE) ELSE CallGoto(a, "delete") /\ UNCHANGED alone
  /\ UNCHANGED <<registry, launcher, run, mail, bounds>>

\* What follows the answer of the launcher.  deploy_service goes on even without one.
Answered(a, ok) ==
  IF admin[a].pc = "starting" THEN CallReturn(a, ok)
  ELSE IF admin[a].op = "deploy" THEN CallGoto(a, "key") /\ UNCHANGED alone
  ELSE IF ok THEN CallGoto(a, IF admin[a].op = "undeploy" THEN "delete" ELSE "remove") /\ UNCHANGED alone
  ELSE CallReturn(a, FALSE)

\* The call times out; the launcher will serve it all the same.
CallTimeout(a) ==
  /\ \E i \in 1..Len(queue) : queue[i].from = a
  /\ Fault /\ Answered(a, FALSE)
  /\ queue' = [i \in 1..Len(queue) |->
                 IF queue[i].from = a THEN [queue[i] EXCEPT !.from = Nil] ELSE queue[i]]
  /\ UNCHANGED <<services, registry, lpc, old, object, starts, run, mail, calls>>

----------------------------------------------------------------------------
(* The launcher: handle_call *)

\* stop_svc, the beginning: the object leaves the map.
StopSvc ==
  /\ lpc = "idle" /\ queue # <<>>
  /\ lpc' = IF object = Nil THEN "done" ELSE "stop"
  /\ old' = object /\ object' = Nil
  /\ run' = [g \in Object |-> IF g = object THEN [run[g] EXCEPT !.active = FALSE] ELSE run[g]]
  /\ UNCHANGED <<manager, queue, starts, mail, bounds, alone>>

\* Service::stop takes the runtime data; without any there is nothing to kill.
TakeData ==
  /\ lpc = "stop"
  /\ IF run[old].data THEN lpc' = "kill" /\ run' = [run EXCEPT ![old].data = FALSE]
     ELSE lpc' = "done" /\ run' = [run EXCEPT ![old].aborted = TRUE]
  /\ UNCHANGED <<manager, queue, old, object, starts, mail, bounds, alone>>

\* Faulty variant of KillProcess: the process is not waited for.
KillProcessNot ==
  /\ lpc = "kill" /\ lpc' = "done"
  /\ UNCHANGED <<manager, queue, old, object, starts, run, mail, bounds, alone>>

\* kill_pstree returns when the process is gone.  The runner, aborted then or ended because
\* it is not active, does nothing more.
KillProcess ==
  /\ lpc = "kill"
  /\ run' = [run EXCEPT ![old] = [NoRun EXCEPT !.pc = "gone"]]
  /\ mail' = IF run[old].proc = "up" THEN Append(mail, "terminating") ELSE mail
  /\ lpc' = "done"
  /\ UNCHANGED <<manager, queue, old, object, starts, bounds, alone>>

Reply(ok) ==
  LET a == Head(queue).from IN
  IF a # Nil THEN Answered(a, ok) ELSE UNCHANGED admin /\ alone' = (alone /\ ok)

\* The rest of start (its files may fail it), stop and stop_and_purge.
FinishCall ==
  /\ lpc = "done"
  /\ \/ /\ Head(queue).kind # "start" /\ Reply(TRUE)
        /\ UNCHANGED <<object, starts, run, faults>>
     \/ /\ Head(queue).kind = "start" /\ starts < MaxStarts
        /\ starts' = starts + 1 /\ object' = starts + 1
        /\ run' = [run EXCEPT ![starts + 1] =
                     [NoRun EXCEPT !.pc = "sleep", !.active = TRUE, !.p = Head(queue).p]]
        /\ Reply(TRUE) /\ UNCHANGED faults
     \/ Head(queue).kind \in {"start", "purge"} /\ Fault /\ Reply(FALSE)
        /\ UNCHANGED <<object, starts, run>>
  /\ queue' = Tail(queue) /\ lpc' = "idle" /\ old' = Nil
  /\ UNCHANGED <<services, registry, mail, calls>>

\* status_handler needs the map of the launcher.
HandleStatus ==
  /\ mail # <<>> /\ lpc = "idle"
  /\ mail' = Tail(mail)
  /\ run' = [g \in Object |-> IF g = object /\ run[g].data
                              THEN [run[g] EXCEPT !.status = Head(mail)] ELSE run[g]]
  /\ UNCHANGED <<manager, launcher, bounds, alone>>

----------------------------------------------------------------------------
(* The runner of an object, and the tasks that watch its process *)

RunnerGoto(g, pc) == run' = [run EXCEPT ![g].pc = pc]
Rest == UNCHANGED <<manager, launcher, mail, bounds, alone>>

\* runner: the loop, entered after a delay
Loop(g) == run[g].pc = "sleep" /\ RunnerGoto(g, IF run[g].active THEN "spawn" ELSE "gone") /\ Rest

\* launch: spawn the process and send it its configuration
Spawn(g) ==
  /\ run[g].pc = "spawn"
  /\ run' = [run EXCEPT ![g].pc = "spawned", ![g].proc = "starting"]
  /\ Rest

\* The data are stored; or sending failed, since the process has ended.
StoreData(g) ==
  /\ run[g].pc = "spawned"
  /\ run' = [run EXCEPT ![g] =
       IF @.proc = "dead" THEN [@ EXCEPT !.pc = "sleep", !.proc = "none"]
       ELSE [@ EXCEPT !.pc = "wait", !.data = TRUE, !.status = "starting"]]
  /\ Rest

\* child.wait: the data are dropped with the tasks, and the process is run in the mode that
\* reacts to failures, if it has one.
ChildExits(g) ==
  /\ run[g].pc = "wait" /\ run[g].proc = "dead" /\ run[g].data
  /\ run' = [run EXCEPT ![g].pc = "sleep", ![g].data = FALSE, ![g].proc = "none"]
  /\ Rest

\* abort takes effect where the runner is suspended.
AbortRunner(g) ==
  /\ run[g].aborted /\ run[g].pc \in {"spawned", "wait", "sleep"}
  /\ run' = [run EXCEPT ![g] = [NoRun EXCEPT !.pc = "gone", !.proc = run[g].proc]]
  /\ Rest

\* pinger_fut kills a process that does not answer.
Ping(g) ==
  /\ run[g].pc = "wait" /\ run[g].data /\ run[g].proc = "hung"
  /\ run' = [run EXCEPT ![g].proc = "dead"]
  /\ Rest

\* ready_fut kills one that has not reported itself ready in time, or whose report came
\* before the data were stored.
CheckReady(g) ==
  /\ run[g].pc = "wait" /\ run[g].data /\ run[g].status = "starting"
  /\ run[g].proc = "hung" \/ (run[g].proc = "up" /\ mail = <<>>)
  /\ run' = [run EXCEPT ![g].proc = "dead"]
  /\ Rest

----------------------------------------------------------------------------
(* The process *)

BecomesReady(g) ==
  /\ run[g].proc = "starting" /\ run[g].data
  /\ run' = [run EXCEPT ![g].proc = "up"] /\ mail' = Append(mail, "online")
  /\ UNCHANGED <<manager, launcher, bounds, alone>>

\* It reports itself ready before the runner has stored the data.
ReadyEarly(g) ==
  /\ run[g].proc = "starting" /\ run[g].pc = "spawned" /\ Fault
  /\ run' = [run EXCEPT ![g].proc = "up"] /\ mail' = Append(mail, "online")
  /\ UNCHANGED <<manager, launcher, calls, alone>>

\* It crashes, hangs or is not ready in time.
ProcessFails(g, how) ==
  /\ run[g].proc \in {"starting", "up"} /\ run[g].pc # "gone" /\ Fault
  /\ run' = [run EXCEPT ![g].proc = how]
  /\ UNCHANGED <<manager, launcher, mail, calls, alone>>

----------------------------------------------------------------------------
(* The calls of the core that reach the manager (eapi.rs) *)

svc_disable(a) == SetServiceEnabled(a, FALSE)
svc_enable(a) == SetServiceEnabled(a, TRUE)
svc_deploy(a) == \E p \in Deployed : DeployService(a, p)
svc_undeploy(a) == UndeployService(a)
svc_restart(a) == RestartService(a)
\* A restart with a binary, which the launcher writes once the service is stopped: see
\* FinishCall for the start that fails then.
svc_flash(a) == RestartService(a)
svc_purge(a) == PurgeService(a)
\* start_stop of a launcher that has come up: what is enabled is started, once more if need be.
svc_start_by_launcher(a) == RestartService(a)

ManagerStep(a) ==
  \/ svc_disable(a) \/ svc_enable(a) \/ svc_deploy(a) \/ svc_undeploy(a)
  \/ svc_restart(a) \/ svc_flash(a) \/ svc_purge(a) \/ svc_start_by_launcher(a)
  \/ DeployKey(a) \/ DeployInsert(a) \/ DeleteKey(a) \/ RemoveService(a)
  \/ CallTimeout(a)

\* What the launcher answers to list and get, and what the manager makes of it: a service
\* without an answer is unknown, and disabled if it is not to run.
ServiceStatus ==
  IF object = Nil THEN Nil ELSE IF run[object].data THEN run[object].status ELSE "starting"
InfoStatus ==
  IF ServiceStatus # Nil THEN ServiceStatus
  ELSE IF services.enabled THEN "unknown" ELSE "disabled"
\* wait_all_started
AllStarted == services # Nil /\ services.enabled => InfoStatus = "online"

LauncherStep == StopSvc \/ TakeData \/ KillProcess \/ FinishCall

RunnerStep(g) ==
  \/ Loop(g) \/ Spawn(g) \/ StoreData(g) \/ ChildExits(g)
  \/ AbortRunner(g) \/ Ping(g) \/ CheckReady(g)

ServicesNext ==
  \/ \E a \in Manager : ManagerStep(a)
  \/ LauncherStep \/ HandleStatus
  \/ \E g \in Object :
       RunnerStep(g) \/ BecomesReady(g) \/ ReadyEarly(g) \/ \E how \in {"dead", "hung"} : ProcessFails(g, how)

\* The tasks of the launcher run, and a process that does not fail becomes ready.
ServicesFairness ==
  /\ WF_servicesVars(LauncherStep) /\ WF_servicesVars(HandleStatus)
  /\ \A g \in Object : WF_servicesVars(RunnerStep(g)) /\ WF_servicesVars(BecomesReady(g))

ServicesSpec == ServicesInit /\ [][ServicesNext]_servicesVars /\ ServicesFairness

----------------------------------------------------------------------------
(* At most one process is attended to, that is, has a runner that is not   *)
(* aborted; and none once the launcher has stopped the service: a new      *)
(* process is not spawned before the one of the earlier configuration has  *)
(* been killed or given up (start and stop of launcher.rs).                *)
Attended(g) == run[g].proc \in {"starting", "up", "hung"} /\ ~run[g].aborted /\ run[g].pc # "gone"
OneProcess ==
  \A g \in Object : Attended(g) =>
    /\ object = g \/ (lpc \in {"stop", "kill"} /\ old = g)
    /\ \A h \in Object : Attended(h) => h = g

(* When nothing is in progress, the map of the manager, the registry and   *)
(* what the launcher runs agree, provided that since the last call that    *)
(* failed or overlapped another one somebody has deployed the service anew *)
(* and enabled (deploy_service).  Late answers of the launcher do no harm. *)
Settled == queue = <<>> /\ \A a \in Manager : At(a, "idle")
DeployedRuns ==
  Settled /\ alone =>
    /\ registry = services
    /\ IF services # Nil /\ services.enabled
       THEN object # Nil /\ run[object].p = services
       ELSE object = Nil

(* A service the launcher is to run is shown online again and again,       *)
(* however its processes crash or hang, and is so (runner, pinger_fut,     *)
(* ready_fut and status_handler): so wait_all_started ends well in a core  *)
(* that has started its services, unless a start of theirs fails.          *)
Online ==
  /\ object # Nil => run[object].proc = "up" /\ ServiceStatus = "online"
  /\ Settled /\ alone => AllStarted
============================================================================
