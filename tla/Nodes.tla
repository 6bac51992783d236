------------------------------- MODULE Nodes -------------------------------
(***************************************************************************)
(* How the core learns whether a remote node is online: the table of nodes *)
(* of the replication service (svc/repl/src/nodes.rs), with the tasks that *)
(* reload and ping a node, discovery and the calls that append and remove  *)
(* nodes; the events the service publishes; and the node map of the core   *)
(* with the task that looks for lost services (eva/src/core.rs).           *)
(*                                                                         *)
(* The module follows one remote node that serves the replication API.     *)
(* mark_node changes the table under the lock and publishes after it has   *)
(* let the lock go, so events of two tasks may overtake each other; a task *)
(* that is aborted between the two may still publish.                      *)
(***************************************************************************)
EXTENDS Naturals, Sequences

CONSTANTS Discovery,  \* is discovery enabled?
          MaxChanges, \* bound: how often the remote node goes or comes, is appended or
                      \* removed by a call, or the service ends, taken together
          MaxMail     \* size of the queue of events between service and core

ASSUME Parameters ==
  Discovery \in BOOLEAN /\ MaxChanges \in Nat /\ MaxMail \in Nat

Own == {"reloader", "pinger"}            \* the tasks of a node of the table
Task == Own \union {"discovery", "api"}

VARIABLES up,              \* is the remote node reachable?
          svc, conf,       \* the service; is the node stored as a static one?
          entry, online,   \* the node in the table
          pc, late,        \* the tasks; publications of aborted tasks
          mail,            \* events published and not handled yet
          inv,             \* is an inventory of the node on its way or being processed?
          node, source,    \* the core: its node map, the source of the node's items
          handler, checker, \* replication_node_state_handler, node checker
          changes          \* use of the bound

service == <<svc, conf, entry, online, pc, late>>
core == <<node, source, handler, checker>>
vars == <<up, service, mail, inv, core, changes>>

Init ==
  /\ up \in BOOLEAN
  /\ svc = "down" /\ conf \in BOOLEAN
  /\ entry = "none" /\ online = FALSE
  /\ pc = [t \in Task |-> IF t \in Own THEN "off" ELSE "idle"] /\ late = {}
  /\ mail = <<>>
  /\ inv = FALSE /\ node = "none" /\ source = "none"
  /\ handler = "idle" /\ checker = "idle"
  /\ changes = 0

Change == changes < MaxChanges /\ changes' = changes + 1

\* The remote node goes, without a word, or comes.
Flip ==
  /\ Change
  /\ up' = ~up
  /\ UNCHANGED <<service, mail, inv, core>>

----------------------------------------------------------------------------
(* The table of nodes *)

Working == svc # "down"
Ready == svc \in {"up", "ending"}

Publish(events) == Len(mail) + Len(events) <= MaxMail /\ mail' = mail \o events

Goto(t, l) == pc' = [pc EXCEPT ![t] = l]

Event(l) == IF l = "publish_on" THEN "Online" ELSE "Offline"

\* Faulty variant of StopTasks: the tasks go on.
StopTasksNot(t, l, own) ==
  /\ late' = late
  /\ pc' = [pc EXCEPT ![t] = l]

\* Node::stop_tasks, called by t, which goes on at l; the node's tasks are "off", or
\* new ones.  A task that has left mark_node's block may still publish before it is
\* cancelled.
StopTasks(t, l, own) ==
  /\ \E S \in SUBSET {x \in Own \ {t} : pc[x] \in {"publish_on", "publish_off"}} :
       late' = late \union {<<x, Event(pc[x])>> : x \in S}
  /\ pc' = [x \in Task |-> IF x \in Own THEN own ELSE IF x = t THEN l ELSE pc[x]]

\* remove_node, called by t.  A task of the node cancels itself before it publishes.
RemoveNode(t) ==
  /\ entry' = "none" /\ online' = FALSE
  /\ StopTasks(t, "idle", "off")
  /\ \/ Publish(<<"Removed">>)
     \/ t \in Own /\ UNCHANGED mail

\* Faulty variant of MarkNode: an event is published only if the mark is new.
MarkNodeOnChange(t, on) ==
  IF entry = "none" \/ online = on THEN Goto(t, "idle") /\ UNCHANGED <<entry, online, late, mail>>
  ELSE IF ~on /\ entry = "found" THEN RemoveNode(t)
  ELSE /\ online' = on
       /\ Goto(t, IF on THEN "publish_on" ELSE "publish_off")
       /\ UNCHANGED <<entry, late, mail>>

\* mark_node, under the lock.  A discovered node that is lost is removed.
MarkNode(t, on) ==
  IF entry = "none" THEN Goto(t, "idle") /\ UNCHANGED <<entry, online, late, mail>>
  ELSE IF online /\ ~on /\ entry = "found" THEN RemoveNode(t)
  ELSE /\ online' = on
       /\ Goto(t, IF on THEN "publish_on" ELSE "publish_off")
       /\ UNCHANGED <<entry, late, mail>>

Mark(t) ==
  /\ Working /\ pc[t] \in {"mark_on", "mark_off"}
  /\ MarkNode(t, pc[t] = "mark_on")
  /\ UNCHANGED <<up, svc, conf, inv, core, changes>>

\* The end of mark_node
PublishMark(t) ==
  /\ Working /\ pc[t] \in {"publish_on", "publish_off"}
  /\ Publish(<<Event(pc[t])>>)
  /\ Goto(t, "idle")
  /\ UNCHANGED <<up, svc, conf, entry, online, late, inv, core, changes>>

PublishLate(p) ==
  /\ Working /\ p \in late
  /\ Publish(<<p[2]>>) /\ late' = late \ {p}
  /\ UNCHANGED <<up, svc, conf, entry, online, pc, inv, core, changes>>

----------------------------------------------------------------------------
(* reloader, pinger *)

\* The reloader is due, or triggered; the pinger is due and pings a node that is
\* online and not just being reloaded.
Due(t) ==
  /\ Working /\ t \in Own /\ pc[t] = "idle"
  /\ t = "pinger" => online /\ pc["reloader"] = "idle"

\* reload_node, ping_node, with the answer or the timeout.  The inventory that was
\* pulled is published before the node is marked.
CallNode(t) ==
  /\ Due(t)
  /\ \/ /\ up /\ t = "reloader"
        /\ Goto(t, "mark_on")
        /\ inv' = TRUE
     \/ /\ ~up
        /\ Goto(t, "mark_off")
        /\ UNCHANGED inv
  /\ UNCHANGED <<up, svc, conf, entry, online, late, mail, core, changes>>

----------------------------------------------------------------------------
(* discovery_handler *)

\* append_discovered_node and append_node, for a node that is not in the table
\* (otherwise at most a reload is triggered)
Running ==
  /\ Working /\ pc["discovery"] = "idle" /\ up /\ Discovery /\ entry = "none"
  /\ entry' = "found" /\ online' = FALSE
  /\ pc' = [pc EXCEPT !["reloader"] = "idle", !["pinger"] = "idle"]
  /\ Publish(<<"Offline">>)
  /\ UNCHANGED <<up, svc, conf, late, inv, core, changes>>

\* The remote node says that it goes.  The handler may take its time: the node may be
\* back when it is marked.
Terminating ==
  /\ Working /\ pc["discovery"] = "idle" /\ up /\ Change
  /\ up' = FALSE
  /\ Goto("discovery", "mark_off")
  /\ UNCHANGED <<svc, conf, entry, online, late, mail, inv, core>>

----------------------------------------------------------------------------
(* node.append, node.deploy, node.remove and node.undeploy, of a service *)
(* that has loaded its nodes                                             *)

\* append_static_node, called by t: a node that exists is removed first.
AppendStatic(t, l) ==
  /\ entry' = "static" /\ online' = FALSE
  /\ Publish(IF entry = "none" THEN <<"Offline">> ELSE <<"Removed", "Offline">>)
  /\ StopTasks(t, l, "idle")

NodeAppend ==
  /\ Ready /\ pc["api"] = "idle" /\ Change
  /\ AppendStatic("api", "save")
  /\ UNCHANGED <<up, svc, conf, inv, core>>

NodeRemove ==
  /\ Ready /\ pc["api"] = "idle" /\ Change
  /\ entry # "none"
  /\ entry' = "none" /\ online' = FALSE
  /\ StopTasks("api", "unsave", "off")
  /\ Publish(<<"Removed">>)
  /\ UNCHANGED <<up, svc, conf, inv, core>>

\* The registry is changed afterwards.
Registry ==
  /\ Working /\ pc["api"] \in {"save", "unsave"}
  /\ conf' = (pc["api"] = "save")
  /\ Goto("api", "idle")
  /\ UNCHANGED <<up, svc, entry, online, late, mail, inv, core, changes>>

----------------------------------------------------------------------------
(* The life of the service *)

\* main, to the point where it waits for the core
Start ==
  /\ svc = "down"
  /\ svc' = "loading"
  /\ IF conf THEN Publish(<<"Offline">>) ELSE UNCHANGED mail
  /\ UNCHANGED <<up, conf, entry, online, pc, late, inv, core, changes>>

Load ==
  /\ svc = "loading"
  /\ svc' = "up"
  /\ IF conf THEN AppendStatic("api", "idle") ELSE UNCHANGED <<entry, online, pc, late, mail>>
  /\ UNCHANGED <<up, conf, inv, core, changes>>

\* mark_all_offline; the tasks are still at work.
MarkAllOffline ==
  /\ svc = "up" /\ changes < MaxChanges
  /\ svc' = "ending"
  /\ IF entry = "none" THEN UNCHANGED mail
     ELSE Publish(<<IF entry = "static" THEN "Offline" ELSE "Removed">>)
  /\ UNCHANGED <<up, conf, entry, online, pc, late, inv, core, changes>>

\* The process ends, or is killed.
Stop ==
  /\ svc # "down" /\ Change
  /\ svc' = "down" /\ entry' = "none" /\ online' = FALSE
  /\ pc' = [t \in Task |-> IF t \in Own THEN "off" ELSE "idle"] /\ late' = {}
  /\ UNCHANGED <<up, conf, mail, inv, core>>

----------------------------------------------------------------------------
(* The core *)

\* Inventory::mark_source_online
MarkSource(on) ==
  source' = IF source = "none" THEN "none" ELSE IF on THEN "online" ELSE "offline"

\* process_remote_inventory: a source that is new is online.  A full inventory that
\* comes while another one is processed is ignored.
ProcessInventory ==
  /\ inv
  /\ inv' = FALSE
  /\ source' = IF source = "none" THEN "online" ELSE source
  /\ UNCHANGED <<up, service, mail, node, handler, checker, changes>>

\* replication_node_state_handler: mark_core_node_online, or destroy_source, which
\* waits for an inventory that is being processed but not for one on its way.
Handle ==
  /\ handler = "idle" /\ mail # <<>>
  /\ mail' = Tail(mail)
  /\ \/ /\ Head(mail) = "Online"
        /\ node' = "online" /\ handler' = "source_on"
        /\ UNCHANGED <<inv, source>>
     \/ /\ Head(mail) = "Offline"
        /\ node' = "offline" /\ handler' = "source_off"
        /\ UNCHANGED <<inv, source>>
     \/ /\ Head(mail) = "Removed"
        /\ node' = "none" /\ source' = "none" /\ inv' \in {inv, FALSE}
        /\ UNCHANGED handler
  /\ UNCHANGED <<up, service, checker, changes>>

\* Core::mark_source_online goes on when it has the inventory.
HandleSource ==
  /\ handler # "idle"
  /\ MarkSource(handler = "source_on") /\ handler' = "idle"
  /\ UNCHANGED <<up, service, mail, inv, node, checker, changes>>

\* start_node_checker: the service of a node of the map is asked and not online.
CheckService ==
  /\ checker = "idle" /\ node # "none" /\ ~Ready
  /\ checker' = "mark"
  /\ UNCHANGED <<up, service, mail, inv, node, source, handler, changes>>

\* The node is marked, even if it was removed or came online meanwhile.
CheckMark ==
  /\ checker = "mark"
  /\ node' = "offline" /\ checker' = "source"
  /\ UNCHANGED <<up, service, mail, inv, source, handler, changes>>

CheckSource ==
  /\ checker = "source"
  /\ MarkSource(FALSE) /\ checker' = "idle"
  /\ UNCHANGED <<up, service, mail, inv, node, handler, changes>>

----------------------------------------------------------------------------
TaskStep(t) == Mark(t) \/ PublishMark(t) \/ CallNode(t)
HandlerStep == Handle \/ HandleSource
CheckerStep == CheckService \/ CheckMark \/ CheckSource

Next ==
  \/ \E t \in Task : TaskStep(t)
  \/ \E p \in late : PublishLate(p)
  \/ Running \/ Terminating \/ NodeAppend \/ NodeRemove \/ Registry
  \/ Start \/ Load \/ MarkAllOffline \/ Stop
  \/ ProcessInventory \/ HandlerStep \/ CheckerStep
  \/ Flip

Spec == Init /\ [][Next]_vars

\* The tasks of the service and of the core are scheduled again and again, their
\* timers fire, and the remote node keeps announcing itself.
FairSpec ==
  /\ Spec
  /\ \A t \in Task : WF_vars(TaskStep(t))
  /\ WF_vars(\E p \in late : PublishLate(p))
  /\ WF_vars(Running) /\ WF_vars(Registry) /\ WF_vars(Load)
  /\ WF_vars(ProcessInventory) /\ WF_vars(HandlerStep) /\ WF_vars(CheckerStep)

----------------------------------------------------------------------------
(* Properties *)

\* "stop manually to make sure futs are stopped": the reloader and the pinger work
\* exactly while their node is in the table.
TasksOfTable == \A t \in Own : pc[t] # "off" <=> entry # "none"

\* A node that is in the table and stays reachable is online in the core for good,
\* with the source of its items, whatever late events, removals, restarts and marks
\* of the node checker went before: the reloader publishes its result every time.
\* A static node that stays away is offline in the core for good, and so are its
\* items: no inventory that was processed late leaves them online.  If the service is
\* lost for good, the node checker of the core leaves no node of it online, nor the
\* items of a node it knows.
CoreKnowsNode ==
  /\ <>[](up /\ svc = "up" /\ entry # "none") => <>[](node = "online" /\ source = "online")
  /\ <>[](~up /\ svc = "up" /\ entry = "static") => <>[](node = "offline" /\ source # "online")
  /\ <>[](svc = "down") => <>[](node # "online" /\ (node = "offline" => source # "online"))
============================================================================
