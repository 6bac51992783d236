----------------------------- MODULE MCExchange -----------------------------
(***************************************************************************)
(* What exchanges states, actions and calls with other nodes and with the  *)
(* devices, for TLC: one of the parts in a behaviour.  The variable part   *)
(* says which; the modules extended here rest in an initial state          *)
(* otherwise.  The other parts share the variables v1, v2, ..., and those  *)
(* that the part has no use for are None.                                  *)
(***************************************************************************)
EXTENDS Replication, RemoteCalls, Modbus, ModbusSlave, LogicRules, TLC

CONSTANT None

VARIABLES part, v1, v2, v3, v4, v5, v6, v7, v8, v9, v10, v11, v12, v13, v14, v15, v16

shared == <<v1, v2, v3, v4, v5, v6, v7, v8, v9, v10, v11, v12, v13, v14, v15, v16>>
all == <<part, vars, callsVars, masterVars, slaveVars, rulesVars, shared>>

----------------------------------------------------------------------------
(* Replication with items created by state events and two kinds of meta    *)
Live == INSTANCE Replication WITH
  Meta <- {"m1", "m2"}, Full <- {"f1"}, Quick <- {"q"}, Events <- {"e"}, ForceAccept <- TRUE,
  MaxIeid <- 2, MaxNet <- 2,
  top <- v1, itemMeta <- v2, net <- v3, inv <- v4, ieid <- v5, meta <- v6, locked <- v7,
  pc <- v8, msg <- v9, ref <- v10

(* Unidirectional replication, of nodes that are discovered or static      *)
UniSize(i) == IF i = 1 THEN 2 ELSE 1
UniSetting(s, d) == [send |-> s, interval |-> TRUE, discovery |-> d]
Uni == INSTANCE UniReplication WITH
  Items <- 2, SizeOf <- UniSize, MaxSize <- 2, MaxNet <- 2, QueueSize <- 1, BusSize <- 2,
  Settings <- {UniSetting(TRUE, TRUE), UniSetting(TRUE, FALSE), UniSetting(FALSE, FALSE)},
  MaxChanges <- 1, MaxFaults <- 1,
  set <- v1, ieid <- v2, waiting <- v3, queue <- v4, buf <- v5, sender <- v6, submitter <- v7,
  list <- v8, net <- v9, goodbye <- v10, node <- v11, removed <- v12, bus <- v13, changes <- v14,
  shown <- v15, faults <- v16

----------------------------------------------------------------------------
(* Actions of the field controllers and direct writes                      *)
FieldSetting(c, v, r, w, b, j) ==
  [ctl |-> c, verify |-> v, retries |-> r, words |-> w, bulk |-> b, jobs |-> j]
FieldSettings ==
  {FieldSetting("modbus", TRUE, 0, 2, FALSE, {"a1", "a2"}), FieldSetting("modbus", TRUE, 0, 2, FALSE, {"d1"}),
   FieldSetting("w1", TRUE, 1, 1, FALSE, {"a1", "d1"}), FieldSetting("sr", FALSE, 0, 1, FALSE, {"a1", "a2"}),
   FieldSetting("ads", TRUE, 1, 1, FALSE, {"a1", "d1"}), FieldSetting("ads", TRUE, 1, 1, TRUE, {"d1"}),
   FieldSetting("enip", TRUE, 1, 1, FALSE, {"a1"}), FieldSetting("enip", TRUE, 0, 1, FALSE, {"d1"}),
   FieldSetting("opcua", FALSE, 1, 1, TRUE, {"a1", "d1"}), FieldSetting("opcua", FALSE, 0, 1, FALSE, {"d1"}),
   FieldSetting("virtual", FALSE, 0, 1, FALSE, {"a1", "d1"}), FieldSetting("virtual", FALSE, 0, 1, TRUE, {"d1"}),
   FieldSetting("pubsub", FALSE, 0, 1, FALSE, {"a1", "d1"})}
Field == INSTANCE FieldActions WITH
  Action <- {"a1", "a2"}, Direct <- {"d1"}, Settings <- FieldSettings, QueueSize <- 1, OutSize <- 1,
  MaxStops <- 1,
  set <- v1, task <- v2, actt <- v3, queue <- v4, out <- v5, device <- v6, late <- v7, answer <- v8,
  final <- v9, stopped <- v10, stops <- v11, found <- v12

(* Two registers, the first of them mapped to one item or to both          *)
Own == [r1 |-> {"i"}, r2 |-> {"j"}]
Both == [r1 |-> {"i", "j"}, r2 |-> {"j"}]
PullSetting(c, p, t, m) == [ctl |-> c, panic |-> p, ttl |-> t, map |-> m]
PullSettings ==
  {PullSetting("modbus", FALSE, 1, Both), PullSetting("enip", TRUE, 0, Both), PullSetting("ads", TRUE, 1, Both),
   PullSetting("opcua", TRUE, 1, Both), PullSetting("w1", FALSE, 1, Own), PullSetting("virtual", FALSE, 0, Own),
   PullSetting("sr", FALSE, 0, Own), PullSetting("pubsub", TRUE, 1, Own)}
Pull == INSTANCE FieldPull WITH
  Item <- {"i", "j"}, Reg <- <<"r1", "r2">>, Value <- {"0", "1"}, Settings <- PullSettings, QueueSize <- 2,
  MaxChanges <- 2, MaxLags <- 1,
  set <- v1, dev <- v2, link <- v3, up <- v4, doomed <- v5, valid <- v6, symbols <- v7, coming <- v8,
  round <- v9, cache <- v10, out <- v11, shown <- v12, changes <- v13, lags <- v14

----------------------------------------------------------------------------
(* Openers with one and two ports, with and without steps between the ends *)
Opener(l, st, wo, wc, tu, ts, te) ==
  [logic |-> l, steps |-> st, warmup_open |-> wo, warmup_close |-> wc, tuning |-> tu, ts |-> ts, te |-> te]
Shaft == INSTANCE Openers WITH
  Act <- {1, 2}, MaxStops <- 1, MaxFaults <- 1,
  Configs <- {Opener("ac", <<1, 2>>, 1, 0, 1, 0 - 1, 1), Opener("rdc", <<1, 2>>, 0, 0, 0, 1, 2),
              Opener("rdc", <<1>>, 0, 1, 1, 0 - 1, 0 - 1), Opener("ac", <<2>>, 0, 0, 0, 0 - 1, 0 - 1)},
  cfg <- v1, shaft <- v2, port <- v3, dport <- v4, known <- v5, pending <- v6, queue <- v7, act <- v8,
  active <- v9, seq <- v10, out <- v11, status <- v12, stops <- v13, faults <- v14, misled <- v15

----------------------------------------------------------------------------
(* The instances that TLC explores *)

\* Targets that allow some of the methods, and that are offline, or without the API
Target(a, o, s, m) == [api |-> TRUE, admin |-> a, online |-> o, server |-> s, methods |-> m]
SomeNodes ==
  {Target(FALSE, TRUE, TRUE, {"item"}), Target(TRUE, FALSE, TRUE, {"ping", "item"}),
   Target(FALSE, TRUE, FALSE, {"bus", "result"}), Target(TRUE, TRUE, TRUE, {"rpvt"})}
ItemsThenNone == <<{"item", "result"}, {"result"}>>

\* Tasks of the Modbus controller, which share connections and registers
Job(o, tp, r, b, v) == [op |-> o, tp |-> tp, reg |-> r, bit |-> b, value |-> v]
Short == <<{0}, {1}>>
Long == <<{0}, {1}, {0, 1}, {}>>
SomePlans ==
  {[t1 |-> Job("set", tp, 1, 0, Short), t2 |-> j, t3 |-> Job("get", "Uint32", 2, 0, <<>>)] :
     tp \in {"Uint32", "Real32", "Real32b"},
     j \in {Job("get", "Uint16", 2, 0, <<>>), Job("set", "Uint16", 3, 0, <<{1}>>)}}
  \union
  {[t1 |-> Job("set", tp, 1, 0, Long), t2 |-> Job("get", "Uint16", 2, 0, <<>>),
    t3 |-> Job("set", "Bit", 5, 1, <<{0}>>)] : tp \in {"Uint64", "Uint64w"}}
SomeKinds ==
  {[kind |-> "tcp", fc16 |-> TRUE], [kind |-> "serial", fc16 |-> FALSE], [kind |-> "native", fc16 |-> FALSE]}

\* A client of every kind
KindOf == [t |-> "tcp", u |-> "udp", r |-> "rtu", a |-> "ascii", b |-> "bus"]

\* Three rules: with a chill-out time, blocking, and for the initial state
RuleOf(m, i, b, k, c) == [match |-> m, initial |-> i, block |-> b, brk |-> k, chill |-> c]
ThreeRules ==
  <<RuleOf({1}, "skip", FALSE, FALSE, TRUE), RuleOf({1}, "process", TRUE, TRUE, FALSE),
    RuleOf({}, "only", FALSE, FALSE, FALSE)>>
OnAndOff == <<0, 1, 0, 1>>

----------------------------------------------------------------------------
(* The parts together                                                      *)

\* The variables a part that uses the first n shared ones has no use for: unchanged, and None
From16 == <<v16>>
From15 == <<v15, v16>>
From13 == <<v13, v14, v15, v16>>
From11 == <<v11, v12, v13, v14, v15, v16>>
Off16 == v16 = None
Off15 == v15 = None /\ Off16
Off13 == v13 = None /\ v14 = None /\ Off15
Off11 == v11 = None /\ v12 = None /\ Off13
OffShared ==
  /\ v1 = None /\ v2 = None /\ v3 = None /\ v4 = None /\ v5 = None /\ v6 = None /\ v7 = None
  /\ v8 = None /\ v9 = None /\ v10 = None /\ Off11

MCInit ==
  /\ part \in {"follows", "calls", "modbus", "slave", "rules", "live", "uni", "actions", "pull", "openers"}
  /\ Init
  /\ CallsInit /\ (part # "calls" => node = CHOOSE n \in Nodes : TRUE)
  /\ MasterInit /\ (part # "modbus" => kind = (CHOOSE k \in Kinds : TRUE) /\ plan = (CHOOSE p \in Plans : TRUE))
  /\ SlaveInit
  /\ RulesInit /\ (part # "rules" => scene = "rules")
  /\ CASE part = "live" -> Live!Init /\ Off11
       [] part = "uni" -> Uni!Init
       [] part = "actions" -> Field!Init /\ Off13
       [] part = "pull" -> Pull!Init /\ Off15
       [] part = "openers" -> Shaft!Init /\ Off16
       [] OTHER -> OffShared

\* A step of one part
Repl(A) == part = "follows" /\ A /\ UNCHANGED <<part, callsVars, masterVars, slaveVars, rulesVars, shared>>
Ask(A) == part = "calls" /\ A /\ UNCHANGED <<part, vars, masterVars, slaveVars, rulesVars, shared>>
Poll(A) == part = "modbus" /\ A /\ UNCHANGED <<part, vars, callsVars, slaveVars, rulesVars, shared>>
Respond(A) == part = "slave" /\ A /\ UNCHANGED <<part, vars, callsVars, masterVars, rulesVars, shared>>
Decide(A) == part = "rules" /\ A /\ UNCHANGED <<part, vars, callsVars, masterVars, slaveVars, shared>>
\* A step of the part p, which has no use for the shared variables in rest
Do(p, rest, A) ==
  part = p /\ A /\ UNCHANGED <<part, vars, callsVars, masterVars, slaveVars, rulesVars, rest>>
MCNext ==
  \/ Repl(Next) \/ Ask(CallsNext) \/ Poll(MasterNext) \/ Respond(SlaveNext) \/ Decide(RulesNext)
  \/ Do("live", From11, Live!Next)
  \/ Do("uni", <<>>, Uni!Next)
  \/ Do("actions", From13, Field!Next)
  \/ Do("pull", From15, Pull!Next)
  \/ Do("openers", From16, Shaft!Next)

\* The fairness of the modules, for the part that runs
LiveTask == {"f1", "q", "e"}
Gets(t, m) == IF t = "e" THEN Live!EventBegin(t, m) ELSE Live!InvBegin(t, m)
LiveFairness ==
  /\ \A t \in LiveTask : WF_shared(Do("live", From11, Live!Work(t)))
  /\ WF_shared(Do("live", From11, Live!SendInventory))
  /\ \A t \in LiveTask : WF_shared(Do("live", From11, \E m \in v3 : Gets(t, m)))
UniFairness ==
  /\ WF_shared(Do("uni", <<>>, Uni!Handle)) /\ WF_shared(Do("uni", <<>>, Uni!SenderTakes))
  /\ WF_shared(Do("uni", <<>>, Uni!SenderTick)) /\ WF_shared(Do("uni", <<>>, Uni!ListItems))
  /\ WF_shared(Do("uni", <<>>, Uni!Submit)) /\ WF_shared(Do("uni", <<>>, Uni!append_discovered_node))
  /\ WF_shared(Do("uni", <<>>, Uni!discovery_handler)) /\ WF_shared(Do("uni", <<>>, Uni!Receive))
  /\ WF_shared(Do("uni", <<>>, Uni!update_state_from_repl)) /\ WF_shared(Do("uni", <<>>, Uni!destroy_source))
UniGets(i) == \E m \in v9 : Uni!Carries(m, i) /\ Uni!ps_process_bulk_state(m)
\* The strong fairness of both kinds of replication
Arrivals ==
  /\ SF_shared(Do("live", From11, Live!InvBegin("f1", Live!Latest)) \/ Do("uni", <<>>, UniGets(1)))
  /\ SF_shared(Do("uni", <<>>, UniGets(2)))
CallFairness == \A c \in CallId : WF_callsVars(Ask(CallStep(c)))
ActionFairness ==
  /\ \A t \in {"a1", "a2", "d1", "handler"} : WF_shared(Do("actions", From13, Field!TaskStep(t)))
  /\ WF_shared(Do("actions", From13, Field!TakeAction)) /\ WF_shared(Do("actions", From13, Field!Publish))
PullFairness ==
  /\ WF_shared(Do("pull", From15, Pull!Tick)) /\ WF_shared(Do("pull", From15, Pull!PullOne))
  /\ WF_shared(Do("pull", From15, Pull!PullAll)) /\ WF_shared(Do("pull", From15, Pull!HandleInput))
  /\ WF_shared(Do("pull", From15, Pull!SendState)) /\ WF_shared(Do("pull", From15, Pull!Publish))
  /\ WF_shared(Do("pull", From15, Pull!Watch)) /\ WF_shared(Do("pull", From15, Pull!Panic))
  /\ WF_shared(Do("pull", From15, Pull!Start))
LogicFairness ==
  /\ WF_rulesVars(Decide(TakeState)) /\ WF_rulesVars(Decide(ProcessRule))
  /\ WF_rulesVars(Decide(MacroEnds)) /\ WF_rulesVars(Decide(ChilloutEnds))
  /\ WF_rulesVars(Decide(FinishState)) /\ WF_rulesVars(Decide(SpawnCycle))
  /\ WF_rulesVars(Decide(RunCycle)) /\ WF_rulesVars(Decide(LeaveCycle))

MCFairness ==
  /\ LiveFairness /\ UniFairness /\ Arrivals /\ CallFairness /\ ActionFairness /\ PullFairness
  /\ LogicFairness

MCSpec == MCInit /\ [][MCNext]_all /\ MCFairness

----------------------------------------------------------------------------
(* Properties *)

\* An answer is the answer to its own request: of a remote node (AnswersBelong of module
\* RemoteCalls) and of a Modbus device (AnswersHonest of module Modbus).
AnswersMatch == AnswersBelong /\ AnswersHonest

\* Once the source and the device are quiet the core shows the last state of each, and
\* goes on showing it: an item of another node (process_remote_inventory and
\* update_state_from_repl), one of a node that only sends (repl-uni), and the items that
\* the field controllers pull, whatever was lost, came late or found a queue full.
ReplicasCatchUp ==
  <>[](/\ part = "live" => Live!CaughtUp
       /\ part = "uni" => Uni!UniCaughtUp
       /\ part = "pull" => Pull!ShownTrue)

\* What is asked for comes to an end: a call of a remote node is answered or times out,
\* an action of a field controller gets its final event, the last event that matched a
\* rule runs its macro, and a cycle that is stopped leaves its loop.
RequestsEnd ==
  <>[](/\ part = "calls" => CallsEnded
       /\ part = "actions" => Field!Settled
       /\ part = "rules" => LastEventRan /\ CycleStopped)

\* What is reported of an action is so: of a field controller's (ReportsTrue of module
\* FieldActions), and of an opener's, whose shaft is where the core is told
\* (ShaftFollows of module Openers).
CompletedIsTrue ==
  /\ part = "actions" => Field!ReportsTrue
  /\ part = "openers" => Shaft!ShaftFollows

\* The frames of the unidirectional replication carry every record of the buffer
\* (FramesCarryAll of UniReplication), and a replica never goes back to an older version
\* while it exists, although events, periodic lists and doubled datagrams overtake each
\* other (Forward of UniReplication).
UniReplicates ==
  /\ [](part = "uni" => Uni!FramesCarryAll)
  /\ [][part = "uni" => Uni!Forward]_shared
============================================================================
