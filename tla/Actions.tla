------------------------------ MODULE Actions ------------------------------
(***************************************************************************)
(* The action manager (eva/src/actmgr.rs) and the operation of the core    *)
(* that drives it (Core::action, eva/src/core.rs).                         *)
(*                                                                         *)
(* A caller asks for an action on an item.  For a local item the core      *)
(* raises the "act" counter of the unit, spawns a task and waits until the *)
(* task has stored the action; the task performs the RPC call to the       *)
(* target service, waits for the action to finish or for a timeout, and    *)
(* lowers the counter.  The service reports progress with status events    *)
(* that reach the manager in any order relative to the task's steps.  For  *)
(* a remote item the call is forwarded to a replication service and only   *)
(* the uuid is remembered.  Actions on different uuids share nothing but   *)
(* the item and the two maps of the manager.                               *)
(***************************************************************************)
EXTENDS Integers, FiniteSets

CONSTANTS Uuid,        \* uuids of actions, each used by at most one call
          Oid,         \* items an action may be called for
          Unit,        \* the items with an act counter; the others are lmacros
          Remote,      \* items a replication source may take over
          Reports,     \* statuses the target services report
          MaxDeploys,  \* bound: item deployments, removals and replacements
          MaxAborts    \* bound: calls cut off after the counter was raised

ASSUME UuidFinite == IsFiniteSet(Uuid)
ASSUME UnitIsOid == Unit \subseteq Oid /\ Remote \subseteq Oid
ASSUME OidNonEmpty == Oid # {}
ASSUME BoundsAreNat == MaxDeploys \in Nat /\ MaxAborts \in Nat

VARIABLES src, enabled, act,  \* the inventory: where an item lives, whether it
                      \* may be used, its act counter
          pc, target, stateOnly, reply,  \* the call of Core::action for an uuid
          task,       \* the task spawned for a local action
          status,     \* Manager.actions: status of a stored action, or Absent
          fires,      \* how often the action's completion triggers were fired
          remote,     \* Manager.remote_actions: status a remote action had
          terminated, \* actions a "terminate" request was sent for
          deploys, aborts  \* use of the bounds

item == <<src, enabled, act>>
call == <<pc, target, stateOnly, reply>>
vars == <<src, enabled, act, pc, target, stateOnly, reply, task, status, fires,
          remote, terminated, deploys, aborts>>

----------------------------------------------------------------------------
(* Action statuses, ordered as the manager compares them. *)

Created == 0
Accepted == 1
Pending == 2
Running == 8
Completed == 15
Failed == 128
Canceled == 129
Terminated == 130

Statuses == {Created, Accepted, Pending, Running, Completed, Failed, Canceled,
             Terminated}

Absent == -1

Finished(s) == s >= Completed

ASSUME ReportsAreStatuses == Reports \subseteq Statuses

----------------------------------------------------------------------------
(* State *)

NoOid == CHOOSE o \in Oid : TRUE

Init ==
  /\ src = [o \in Oid |-> "local"]
  /\ enabled = [o \in Oid |-> TRUE]
  /\ act = [o \in Oid |-> 0]
  /\ pc = [a \in Uuid |-> "idle"]
  /\ target = [a \in Uuid |-> NoOid]
  /\ stateOnly = [a \in Uuid |-> FALSE]
  /\ reply = [a \in Uuid |-> "none"]
  /\ task = [a \in Uuid |-> "none"]
  /\ status = [a \in Uuid |-> Absent]
  /\ fires = [a \in Uuid |-> 0]
  /\ remote = [a \in Uuid |-> Absent]
  /\ terminated = {}
  /\ deploys = 0
  /\ aborts = 0

Stored(a) == status[a] # Absent

\* Faulty variant of MarkFailed: a finished action is failed once more.
MarkFailedAlways(a) ==
  IF Stored(a)
  THEN /\ status' = [status EXCEPT ![a] = Failed]
       /\ fires' = [fires EXCEPT ![a] = @ + 1]
  ELSE UNCHANGED <<status, fires>>

\* Faulty variant of MarkFailed: accepted and running actions are left alone.
MarkFailedUnaccepted(a) ==
  IF Stored(a) /\ status[a] < Accepted
  THEN /\ status' = [status EXCEPT ![a] = Failed]
       /\ fires' = [fires EXCEPT ![a] = @ + 1]
  ELSE UNCHANGED <<status, fires>>

\* Action::mark_failed
MarkFailed(a) ==
  IF Stored(a) /\ ~Finished(status[a])
  THEN /\ status' = [status EXCEPT ![a] = Failed]
       /\ fires' = [fires EXCEPT ![a] = @ + 1]
  ELSE UNCHANGED <<status, fires>>

\* Action::mark_accepted
MarkAccepted(a) ==
  /\ status' = [status EXCEPT ![a] = IF @ < Accepted THEN Accepted ELSE @]
  /\ UNCHANGED fires

\* ItemState::act_incr
ActIncr(o) ==
  act' = IF o \in Unit THEN [act EXCEPT ![o] = @ + 1] ELSE act

\* Faulty variant of ActDecr: the counter is not lowered while others run.
ActDecrLastOnly(o) ==
  IF o \in Unit /\ src[o] = "local" /\ act[o] = 1
  THEN act' = [act EXCEPT ![o] = 0]
  ELSE UNCHANGED act

\* ItemState::act_decr, for an item that is still local
ActDecr(o) ==
  IF o \in Unit /\ src[o] = "local"
  THEN act' = [act EXCEPT ![o] = IF @ = 0 THEN 0 ELSE @ - 1]
  ELSE UNCHANGED act

Reply(a, r) ==
  /\ pc' = [pc EXCEPT ![a] = "done"]
  /\ reply' = [reply EXCEPT ![a] = r]
  /\ UNCHANGED <<target, stateOnly>>

Goto(a, l) == pc' = [pc EXCEPT ![a] = l] /\ UNCHANGED <<target, stateOnly, reply>>

\* A call for item o is made.
Enter(a, o, so, l, r) ==
  /\ pc[a] = "idle" /\ enabled[o]
  /\ pc' = [pc EXCEPT ![a] = l]
  /\ target' = [target EXCEPT ![a] = o]
  /\ stateOnly' = [stateOnly EXCEPT ![a] = so]
  /\ reply' = [reply EXCEPT ![a] = r]

----------------------------------------------------------------------------
(* Core::action on a local item *)

\* The block under the inventory read lock and the state processor lock: the
\* counter is raised and announced, the task is spawned.
CallLocal(a, o, so) ==
  /\ src[o] = "local"
  /\ Enter(a, o, so, "accepting", "none")
  /\ ActIncr(o)
  /\ task' = [task EXCEPT ![a] = "launch"]
  /\ UNCHANGED <<src, enabled, status, fires, remote, terminated, deploys, aborts>>

\* The same block left early: the announcement fails and "?" returns, or the
\* caller's future is dropped while it awaits the announcement.
CallAborted(a, o, so) ==
  /\ aborts < MaxAborts /\ aborts' = aborts + 1
  /\ o \in Unit /\ src[o] = "local"
  /\ Enter(a, o, so, "done", "error")
  /\ ActIncr(o)
  /\ UNCHANGED <<src, enabled, task, status, fires, remote, terminated, deploys>>

\* The spawned task: launch_action stores the action and lets the caller go.
TaskStore(a) ==
  /\ task[a] = "launch"
  /\ status' = [status EXCEPT ![a] = Created]
  /\ task' = [task EXCEPT ![a] = "perform"]
  /\ UNCHANGED <<item, call, fires, remote, terminated, deploys, aborts>>

\* The RPC call to the target returns: accepted, or an error (the timeout of
\* the call included).  The cleaner may have removed the action meanwhile.
PerformReturns(a, ok) ==
  /\ task[a] = "perform"
  /\ task' = [task EXCEPT ![a] = "await"]
  /\ IF ok /\ Stored(a) THEN MarkAccepted(a) ELSE MarkFailed(a)
  /\ UNCHANGED <<item, call, remote, terminated, deploys, aborts>>

\* core_listener: the completion trigger has been fired.
AwaitFinished(a) ==
  /\ task[a] = "await" /\ fires[a] > 0
  /\ task' = [task EXCEPT ![a] = "decr"]
  /\ UNCHANGED <<item, call, status, fires, remote, terminated, deploys, aborts>>

\* The timeout elapses first; the action is marked in a later step.
AwaitElapsed(a) ==
  /\ task[a] = "await" /\ fires[a] = 0
  /\ task' = [task EXCEPT ![a] = "timedout"]
  /\ UNCHANGED <<item, call, status, fires, remote, terminated, deploys, aborts>>

\* mark_action_timed_out
MarkTimedOut(a) ==
  /\ task[a] = "timedout"
  /\ MarkFailed(a)
  /\ task' = [task EXCEPT ![a] = "decr"]
  /\ UNCHANGED <<item, call, remote, terminated, deploys, aborts>>

\* The task lowers the counter under the two locks and ends.
TaskDecr(a) ==
  /\ task[a] = "decr"
  /\ ActDecr(target[a])
  /\ task' = [task EXCEPT ![a] = "done"]
  /\ UNCHANGED <<src, enabled, call, status, fires, remote, terminated, deploys, aborts>>

----------------------------------------------------------------------------
(* The caller's side after the spawn *)

\* The task has stored the action, and the wait asked for (any time, none
\* included) has passed.
CallAccepted(a) ==
  /\ pc[a] = "accepting" /\ task[a] # "launch"
  /\ Goto(a, "judge")
  /\ UNCHANGED <<item, task, status, fires, remote, terminated, deploys, aborts>>

\* A full result is asked for: get_action_serialized.
CallResult(a) ==
  /\ pc[a] = "judge" /\ ~stateOnly[a]
  /\ Reply(a, IF Stored(a) THEN "info" ELSE "error")
  /\ UNCHANGED <<item, task, status, fires, remote, terminated, deploys, aborts>>

\* A state-only result is asked for: must_be_completed.
MustBeCompleted(a) ==
  /\ pc[a] = "judge" /\ stateOnly[a]
  /\ IF Stored(a) /\ ~Finished(status[a])
     THEN Goto(a, "terminate")
     ELSE Reply(a, IF status[a] = Completed THEN "true" ELSE "false")
  /\ UNCHANGED <<item, task, status, fires, remote, terminated, deploys, aborts>>

\* Faulty variant of TerminateSent: actions that do not run yet are skipped.
TerminateSentRunning(a) ==
  IF status[a] = Running THEN terminated \union {a} ELSE terminated

\* Manager::terminate_action: only actions of the local map are known to it.
TerminateSent(a) ==
  IF Stored(a) /\ ~Finished(status[a]) THEN terminated \union {a} ELSE terminated

\* The state-only caller gives up on the action.
CallTerminates(a) ==
  /\ pc[a] = "terminate"
  /\ terminated' = TerminateSent(a)
  /\ Reply(a, "false")
  /\ UNCHANGED <<item, task, status, fires, remote, deploys, aborts>>

\* action.terminate of the core's API
ApiTerminate(a) ==
  /\ TerminateSent(a) # terminated
  /\ terminated' = TerminateSent(a)
  /\ UNCHANGED <<item, call, task, status, fires, remote, deploys, aborts>>

----------------------------------------------------------------------------
(* Core::action on an item of a remote source *)

CallRemote(a, o, so) ==
  /\ src[o] = "remote"
  /\ Enter(a, o, so, "remote", "none")
  /\ UNCHANGED <<item, task, status, fires, remote, terminated, deploys, aborts>>

\* The replication service answers with the state the action has on its node.
RemoteAnswers(a, s) ==
  /\ pc[a] = "remote"
  /\ remote' = [remote EXCEPT ![a] = s]
  /\ CASE ~stateOnly[a] ->
            Reply(a, "info") /\ UNCHANGED terminated
       [] stateOnly[a] /\ s = Completed ->
            Reply(a, "true") /\ UNCHANGED terminated
       [] OTHER ->
            Reply(a, "false") /\ terminated' = TerminateSent(a)
  /\ UNCHANGED <<item, task, status, fires, deploys, aborts>>

\* The forwarded call fails or times out.
RemoteFails(a) ==
  /\ pc[a] = "remote"
  /\ Reply(a, "error")
  /\ UNCHANGED <<item, task, status, fires, remote, terminated, deploys, aborts>>

----------------------------------------------------------------------------
(* The manager's other operations *)

\* Faulty variant of ProcessEvent: events are applied as they come.
ProcessEventUnordered(a, s) ==
  /\ task[a] \notin {"none", "launch"}
  /\ Stored(a)
  /\ status' = [status EXCEPT ![a] = s]
  /\ fires' = [fires EXCEPT ![a] =
                 IF Finished(s) /\ ~Finished(status[a]) THEN @ + 1 ELSE @]
  /\ UNCHANGED <<item, call, task, remote, terminated, deploys, aborts>>

\* process_event: a service reports status s for the action.
ProcessEvent(a, s) ==
  /\ task[a] \notin {"none", "launch"}
  /\ Stored(a) /\ status[a] < s
  /\ status' = [status EXCEPT ![a] = s]
  /\ fires' = [fires EXCEPT ![a] =
                 IF Finished(s) /\ ~Finished(status[a]) THEN @ + 1 ELSE @]
  /\ UNCHANGED <<item, call, task, remote, terminated, deploys, aborts>>

\* cleanup_action_history: old entries go, unfinished local ones stay.
Cleanup(L, R) ==
  /\ L \union R # {}
  /\ \A a \in L : Stored(a) /\ Finished(status[a])
  /\ \A a \in R : remote[a] # Absent
  /\ status' = [a \in Uuid |-> IF a \in L THEN Absent ELSE status[a]]
  /\ remote' = [a \in Uuid |-> IF a \in R THEN Absent ELSE remote[a]]
  /\ UNCHANGED <<item, call, task, fires, terminated, deploys, aborts>>

----------------------------------------------------------------------------
(* Changes of the inventory while actions run *)

PutItem(o, from, en) ==
  /\ deploys < MaxDeploys /\ deploys' = deploys + 1
  /\ src' = [src EXCEPT ![o] = from]
  /\ enabled' = [enabled EXCEPT ![o] = en]
  /\ act' = [act EXCEPT ![o] = 0]
  /\ UNCHANGED <<call, task, status, fires, remote, terminated, aborts>>

\* append_item_from_config_data sets act to zero, whatever it was.
Deploy(o, en) == PutItem(o, "local", en)

Undeploy(o) == src[o] # "none" /\ PutItem(o, "none", FALSE)

ReplaceByRemote(o) == o \in Remote /\ PutItem(o, "remote", TRUE)

----------------------------------------------------------------------------
TaskStep(a) ==
  \/ TaskStore(a)
  \/ \E ok \in BOOLEAN : PerformReturns(a, ok)
  \/ AwaitFinished(a) \/ AwaitElapsed(a) \/ MarkTimedOut(a) \/ TaskDecr(a)

CallStep(a) ==
  \/ CallAccepted(a) \/ CallResult(a) \/ MustBeCompleted(a) \/ CallTerminates(a)
  \/ RemoteFails(a) \/ \E s \in Statuses : RemoteAnswers(a, s)

Next ==
  \/ \E a \in Uuid, o \in Oid, so \in BOOLEAN :
       CallLocal(a, o, so) \/ CallAborted(a, o, so) \/ CallRemote(a, o, so)
  \/ \E a \in Uuid : TaskStep(a) \/ CallStep(a) \/ ApiTerminate(a)
  \/ \E a \in Uuid, s \in Reports : ProcessEvent(a, s)
  \/ \E L, R \in SUBSET Uuid : Cleanup(L, R)
  \/ \E o \in Oid, en \in BOOLEAN : Deploy(o, en)
  \/ \E o \in Oid : Undeploy(o) \/ ReplaceByRemote(o)

Spec == Init /\ [][Next]_vars

----------------------------------------------------------------------------
(* Properties *)

CallState == {"idle", "accepting", "judge", "terminate", "remote", "done"}
TaskState == {"none", "launch", "perform", "await", "timedout", "decr", "done"}

\* Type invariant of the manager, its callers and tasks.
TypeOK ==
  /\ src \in [Oid -> {"none", "local", "remote"}]
  /\ enabled \in [Oid -> BOOLEAN] /\ act \in [Oid -> Nat]
  /\ pc \in [Uuid -> CallState] /\ target \in [Uuid -> Oid]
  /\ stateOnly \in [Uuid -> BOOLEAN]
  /\ reply \in [Uuid -> {"none", "info", "true", "false", "error"}]
  /\ task \in [Uuid -> TaskState]
  /\ status \in [Uuid -> Statuses \union {Absent}]
  /\ fires \in [Uuid -> Nat]
  /\ remote \in [Uuid -> Statuses \union {Absent}]
  /\ terminated \subseteq Uuid
  /\ deploys \in Nat /\ aborts \in Nat

\* Local actions whose task has not lowered the counter of item o yet.
InFlight(o) ==
  {a \in Uuid : task[a] \notin {"none", "done"} /\ target[a] = o}

\* The completion triggers of an action are fired exactly once, and they are
\* fired exactly when the action gets its first finished status, whether a
\* status event, a failed launch call or the timeout comes first.  The task and
\* a waiting caller are woken by nothing else.
TriggersFireOnce ==
  \A a \in Uuid :
    /\ fires[a] <= 1
    /\ Stored(a) => (fires[a] = 1 <=> Finished(status[a]))

\* An action whose task is still at work is in the manager's map or was finished
\* before the history cleaner took it away: "action not stored" never hides an
\* action that is still running, and a task never waits for a trigger that was
\* dropped with the action.
OnlyFinishedForgotten ==
  \A a \in Uuid : task[a] \notin {"none", "launch"} /\ ~Stored(a) => fires[a] = 1

\* The task lowers the counter of the unit only for an action that has finished:
\* mark_action_timed_out leaves nothing unfinished behind, even if the status
\* changes between the end of the wait and the marking.
TaskEndsFinished ==
  \A a \in Uuid : task[a] \in {"decr", "done"} => fires[a] = 1

\* The status of a stored action never goes back, and a finished action never
\* becomes unfinished again, in whatever order the reply to the launch call, the
\* timeout and the service's events are handled.
StatusNeverGoesBack ==
  [][\A a \in Uuid : Stored(a) /\ status'[a] # Absent => status[a] <= status'[a]]_vars

\* The act counter of a unit never shows more actions than there are tasks that will
\* lower it and calls that were cut off, whatever is deployed meanwhile: nothing else
\* leaves a unit busy.  As long as the unit is not deployed anew, no action in flight is
\* missing from the counter.
ActCounts ==
  /\ \A o \in Oid : src[o] = "local" => act[o] <= Cardinality(InFlight(o)) + aborts
  /\ deploys = 0 => \A o \in Unit : Cardinality(InFlight(o)) <= act[o]

\* "If state only result is requested, the action is automatically terminated on
\* failure / wait timeout": a state-only caller that is told the action did not
\* complete leaves no action running without a terminate request.
StateOnlyTerminates ==
  \A a \in Uuid :
    reply[a] = "false" =>
      \/ a \in terminated
      \/ fires[a] = 1
      \/ Finished(remote[a])

\* The same of the actions that Core::action has started on this node.
LocalStateOnlyTerminates ==
  \A a \in Uuid :
    reply[a] = "false" /\ task[a] # "none" => a \in terminated \/ fires[a] = 1

\* Every action that was started finishes, its task ends and its caller gets a
\* reply, even if the service never answers or reports anything: each uuid is used
\* once, so it comes to this at last.
ActionsEnded ==
  \A a \in Uuid :
    /\ task[a] \in {"none", "done"} /\ pc[a] \in {"idle", "done"}
    /\ task[a] = "done" => fires[a] = 1
============================================================================
