------------------------------- MODULE MCCore -------------------------------
(***************************************************************************)
(* What the core keeps and runs, for TLC: the persistence of items, the    *)
(* locks, the services, the sequences of actions and the actions, one of   *)
(* them in a behaviour.  The variable part says which; the others rest in  *)
(* an initial state, and the variables of the actions are Nil.             *)
(***************************************************************************)
EXTENDS MCPersistence, CoreLocks, Services, ActionSequences

VARIABLES part,
          v1, v2, v3, v4, v5, v6, v7, v8, v9, v10, v11, v12, v13, v14

acting == <<v1, v2, v3, v4, v5, v6, v7, v8, v9, v10, v11, v12, v13, v14>>
all == <<part, vars, locksVars, servicesVars, seqVars, acting>>

(* One action on a unit or a macro, local or remote, with every fault      *)
Acts == INSTANCE Actions WITH
  Uuid <- {"a"}, Oid <- {"unit", "macro"}, Unit <- {"unit"}, Remote <- {"unit"},
  Reports <- {8, 15, 129}, MaxDeploys <- 2, MaxAborts <- 1,
  src <- v1, enabled <- v2, act <- v3, pc <- v4, target <- v5, stateOnly <- v6, reply <- v7, task <- v8,
  status <- v9, fires <- v10, remote <- v11, terminated <- v12, deploys <- v13, aborts <- v14

(* The instances that TLC explores.  Raw events and plain bulk frames, or  *)
(* bulk frames that change other items too; parameters of a service loaded *)
(* and deployed anew; a delay, then two actions at once.                   *)
TwoKinds == {{"raw", "raw_other", "raw_new", "bulk"}, {"bulk_other", "bulk_delta", "bulk_new"}}
OldService == {[v |-> "old", enabled |-> TRUE]}
NewService == {[v |-> "new", enabled |-> TRUE]}
DelayThenTwo == {<<{}, {"x", "y"}>>}

----------------------------------------------------------------------------
(* The parts together                                                      *)

OffActs ==
  /\ v1 = Nil /\ v2 = Nil /\ v3 = Nil /\ v4 = Nil /\ v5 = Nil /\ v6 = Nil /\ v7 = Nil
  /\ v8 = Nil /\ v9 = Nil /\ v10 = Nil /\ v11 = Nil /\ v12 = Nil /\ v13 = Nil /\ v14 = Nil
MCInit ==
  /\ part \in {"persistence", "locks", "services", "sequences", "actions"}
  /\ Init /\ (part # "persistence" => set = CHOOSE s \in Setting : TRUE)
  /\ LocksInit /\ (part # "locks" => useDb = (CHOOSE d \in Databases : TRUE)
                                     /\ ops = (CHOOSE o \in HandlerOps : TRUE))
  /\ ServicesInit /\ (part # "services" => services = (CHOOSE p \in Loaded : TRUE) /\ faults = 0)
  /\ SeqInit
  /\ IF part = "actions" THEN Acts!Init ELSE OffActs

\* A step of one part
Keep(A) == part = "persistence" /\ A /\ UNCHANGED <<part, locksVars, servicesVars, seqVars, acting>>
Lock(A) == part = "locks" /\ A /\ UNCHANGED <<part, vars, servicesVars, seqVars, acting>>
Serve(A) == part = "services" /\ A /\ UNCHANGED <<part, vars, locksVars, seqVars, acting>>
Follow(A) == part = "sequences" /\ A /\ UNCHANGED <<part, vars, locksVars, servicesVars, acting>>
Act(A) == part = "actions" /\ A /\ UNCHANGED <<part, vars, locksVars, servicesVars, seqVars>>
MCNext == Keep(Next) \/ Lock(LocksNext) \/ Serve(ServicesNext) \/ Follow(SeqNext) \/ Act(Acts!Next)

\* The fairness of the modules, for the part that runs.  The task and the caller of an
\* action wait for nothing without a timeout.
MCFairness ==
  /\ \A t \in Task : WF_vars(Keep(phase # "down" /\ Work(t)))
  /\ WF_vars(Keep(phase # "down" /\ (HandleRecv \/ HandleWrite)))
  /\ WF_vars(Keep(phase # "down" /\ (WorkerTake \/ WorkerWrite)))
  /\ WF_vars(Keep(Drained)) /\ WF_vars(Keep(Down))
  /\ \A t \in LockTask : WF_locksVars(Lock(LockingStep(t)))
  /\ WF_servicesVars(Serve(LauncherStep)) /\ WF_servicesVars(Serve(HandleStatus))
  /\ \A g \in Object : WF_servicesVars(Serve(RunnerStep(g))) /\ WF_servicesVars(Serve(BecomesReady(g)))
  /\ \A c \in SeqCaller : WF_seqVars(Follow(CallerStep(c)))
  /\ WF_seqVars(Follow(\E f \in flight, ok \in BOOLEAN : ActionEnds(f, ok)))
  /\ WF_acting(Act(Acts!TaskStep("a"))) /\ WF_acting(Act(Acts!CallStep("a")))

MCSpec == MCInit /\ [][MCNext]_all /\ MCFairness

----------------------------------------------------------------------------
(* Properties *)

\* What the core begins it ends: a shutdown, every operation that takes the locks unless
\* bulk frames set items that depend on others, the calls that run sequences, and every
\* action with its task and its caller, whatever the service of its item does; and a
\* service that is to run is online again and again, however its processes fail.
EverythingEnds ==
  /\ <>[](/\ part = "persistence" => phase \notin {"saving", "drained"}
          /\ part = "sequences" => CallsEnded
          /\ part = "actions" => Acts!ActionsEnded)
  /\ \A t \in LockTask : []<>(part = "locks" => Ended(t))
  /\ []<>(part = "services" => Online)
============================================================================
