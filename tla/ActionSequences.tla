-------------------------- MODULE ActionSequences --------------------------
(***************************************************************************)
(* Sequences of actions of the core (eva/src/seq.rs): execute, terminate   *)
(* and shutdown.  A sequence is run by a task of its own, found by its     *)
(* UUID in FUTS; a batch of its actions is run by further tasks, which     *)
(* nobody aborts.                                                          *)
(***************************************************************************)
EXTENDS Naturals, Sequences, FiniteSets

CONSTANTS SeqCaller, SeqUuid,
          Plans,       \* sequences: sets of actions, an empty one is a delay
          OnAbort,     \* actions to run when a sequence fails, or {}
          MaxTerminates, \* bound: calls of terminate
          NoCaller

VARIABLES futs,        \* FUTS: [SeqUuid -> the caller whose task it is, or NoCaller]
          seqn,        \* [SeqCaller -> its call of execute]
          task,        \* [SeqCaller -> the task that runs the sequence]
          flight,      \* actions in progress: <<caller, number of the entry, or 0 for OnAbort, action>>
          down,        \* shutdown has been called
          ends         \* use of the bound

seqVars == <<futs, seqn, task, flight, down, ends>>

IdleCall == [pc |-> "idle", u |-> NoCaller, aborts |-> 0]
NoTask == [pc |-> "none", todo |-> <<>>, at |-> 0, late |-> 0, aborted |-> FALSE, failed |-> FALSE]

SeqInit ==
  /\ futs = [u \in SeqUuid |-> NoCaller]
  /\ seqn = [c \in SeqCaller |-> IdleCall] /\ task = [c \in SeqCaller |-> NoTask]
  /\ flight = {} /\ down = FALSE /\ ends = 0

----------------------------------------------------------------------------
(* execute *)

Execute(c, u, plan) ==
  /\ seqn[c] = IdleCall
  /\ seqn' = [seqn EXCEPT ![c] = [IdleCall EXCEPT !.pc = "insert", !.u = u]]
  /\ task' = [task EXCEPT ![c] = [NoTask EXCEPT !.pc = "run", !.todo = plan]]
  /\ UNCHANGED <<futs, flight, down, ends>>

\* The task is running already.  A sequence with the same UUID loses its entry.
Insert(c) ==
  /\ seqn[c].pc = "insert"
  /\ futs' = [futs EXCEPT ![seqn[c].u] = c]
  /\ seqn' = [seqn EXCEPT ![c].pc = "wait"]
  /\ UNCHANGED <<task, flight, down, ends>>

\* Faulty variant of Receive: a sequence that is being terminated counts as ended.
ReceiveEarly(c) ==
  /\ seqn[c].pc = "wait" /\ (task[c].pc \in {"ok", "failed", "dropped"} \/ task[c].aborted)
  /\ futs' = [futs EXCEPT ![seqn[c].u] = NoCaller]
  /\ seqn' = [seqn EXCEPT ![c].pc = IF task[c].pc = "ok" \/ OnAbort = {} THEN "done" ELSE "abort"]
  /\ UNCHANGED <<task, flight, down, ends>>

\* The task has sent its result, or has been dropped.  The entry of the UUID is removed.
Receive(c) ==
  /\ seqn[c].pc = "wait" /\ task[c].pc \in {"ok", "failed", "dropped"}
  /\ futs' = [futs EXCEPT ![seqn[c].u] = NoCaller]
  /\ seqn' = [seqn EXCEPT ![c].pc = IF task[c].pc = "ok" \/ OnAbort = {} THEN "done" ELSE "abort"]
  /\ UNCHANGED <<task, flight, down, ends>>

LaunchOnAbort(c) ==
  /\ seqn[c].pc = "abort"
  /\ flight' = flight \union {<<c, 0, a>> : a \in OnAbort}
  /\ seqn' = [seqn EXCEPT ![c].pc = "aborting", ![c].aborts = @ + 1]
  /\ UNCHANGED <<futs, task, down, ends>>

AbortEnds(c) ==
  /\ seqn[c].pc = "aborting" /\ \A f \in flight : f[1] # c \/ f[2] # 0
  /\ seqn' = [seqn EXCEPT ![c].pc = "done"]
  /\ UNCHANGED <<futs, task, flight, down, ends>>

----------------------------------------------------------------------------
(* launch_action_sequence.  "run": the task executes; "wait": it is        *)
(* suspended in an entry.                                                  *)

\* The next entry: a delay, one action, or a batch; after the last one the result is sent.
NextEntry(c) ==
  /\ task[c].pc = "run"
  /\ IF task[c].todo = <<>> THEN task' = [task EXCEPT ![c].pc = "ok"] /\ UNCHANGED flight
     ELSE /\ task' = [task EXCEPT ![c].pc = "wait", ![c].todo = Tail(@), ![c].at = @ + 1,
                                  ![c].late = IF task[c].aborted THEN @ + 1 ELSE @]
          /\ flight' = flight \union {<<c, task[c].at + 1, a>> : a \in Head(task[c].todo)}
  /\ UNCHANGED <<futs, seqn, down, ends>>

\* op.enough: no time is left for the next entry.
NoTimeLeft(c) ==
  /\ task[c].pc = "run" /\ task[c].todo # <<>>
  /\ task' = [task EXCEPT ![c].pc = "failed"]
  /\ UNCHANGED <<futs, seqn, flight, down, ends>>

\* launch_action_entry: an action ends; a failed one fails the sequence when its batch ends.
ActionEnds(f, ok) ==
  /\ f \in flight /\ flight' = flight \ {f}
  /\ task' = IF f[2] = 0 \/ task[f[1]].pc # "wait" THEN task
             ELSE [task EXCEPT ![f[1]].failed = @ \/ ~ok]
  /\ UNCHANGED <<futs, seqn, down, ends>>

EntryEnds(c) ==
  /\ task[c].pc = "wait" /\ ~task[c].aborted
  /\ \A f \in flight : f[1] # c \/ f[2] # task[c].at
  /\ task' = [task EXCEPT ![c].pc = IF task[c].failed THEN "failed" ELSE "run"]
  /\ UNCHANGED <<futs, seqn, flight, down, ends>>

\* An aborted task is dropped where it is suspended.  A single action is dropped with it:
\* nobody waits for it any longer, but it goes on.
DropTask(c) ==
  /\ task[c].aborted /\ task[c].pc = "wait"
  /\ task' = [task EXCEPT ![c].pc = "dropped"]
  /\ UNCHANGED <<futs, seqn, flight, down, ends>>

----------------------------------------------------------------------------
Aborted(C) == [c \in SeqCaller |-> IF c \in C /\ task[c].pc \in {"run", "wait"}
                                THEN [task[c] EXCEPT !.aborted = TRUE] ELSE task[c]]

Terminate(u) ==
  /\ futs[u] # NoCaller /\ ends < MaxTerminates /\ ends' = ends + 1
  /\ task' = Aborted({futs[u]})
  /\ futs' = [futs EXCEPT ![u] = NoCaller]
  /\ UNCHANGED <<seqn, flight, down>>

SeqShutdown ==
  /\ ~down /\ down' = TRUE
  /\ task' = Aborted({futs[u] : u \in SeqUuid})
  /\ UNCHANGED <<futs, seqn, flight, ends>>

\* The calls of the core (eapi.rs)
seq(c) == \E u \in SeqUuid, plan \in Plans : Execute(c, u, plan)
seq_terminate == \E u \in SeqUuid : Terminate(u)

CallerStep(c) ==
  \/ Insert(c) \/ Receive(c) \/ LaunchOnAbort(c) \/ AbortEnds(c)
  \/ NextEntry(c) \/ NoTimeLeft(c) \/ EntryEnds(c) \/ DropTask(c)

SeqNext ==
  \/ \E c \in SeqCaller : seq(c) \/ CallerStep(c)
  \/ \E f \in flight, ok \in BOOLEAN : ActionEnds(f, ok)
  \/ seq_terminate \/ SeqShutdown

\* Tasks run, and actions end: each of them is waited for no longer than its timeout.
SeqFairness ==
  /\ \A c \in SeqCaller : WF_seqVars(CallerStep(c))
  /\ WF_seqVars(\E f \in flight, ok \in BOOLEAN : ActionEnds(f, ok))

SeqSpec == SeqInit /\ [][SeqNext]_seqVars /\ SeqFairness

----------------------------------------------------------------------------
(* The actions for a failed sequence are run at most once, only for one    *)
(* that has not succeeded, and never before it has stopped: no entry of it *)
(* begins after they have begun; and a sequence begins at most one entry   *)
(* after it was terminated (execute and terminate of seq.rs).              *)
AbortFollowsFailure ==
  \A c \in SeqCaller :
    /\ seqn[c].aborts <= 1
    /\ seqn[c].aborts = 1 => task[c].pc \in {"failed", "dropped"}
    /\ task[c].late <= 1

(* Every call of execute ends, whatever fails and whoever terminates it,   *)
(* two calls with one UUID included.                                       *)
CallsEnded == \A c \in SeqCaller : seqn[c].pc \in {"idle", "done"}
============================================================================
