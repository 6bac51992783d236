------------------------------ MODULE Terminals ------------------------------
(***************************************************************************)
(* The terminals of the file manager (svc/filemgr).  "terminal.create"     *)
(* starts a handler task, which starts a shell and learns its process id,  *)
(* and waits for the id; clients then exchange input and output with the   *)
(* handler by "terminal.sync".  A terminal ends when its shell exits, when *)
(* a client kills it, when nobody has synchronised it for the time-out, or *)
(* with the service.                                                       *)
(***************************************************************************)
EXTENDS Naturals, FiniteSets

CONSTANTS
    Terminal,
    MaxSyncs    \* bound: synchronisations and resizes of a terminal

VARIABLES
    svc,        \* the service: "runs", "stops" or "ended"
    create,     \* the call terminal.create: "idle", "waits", "done", "timeout"
    handler,    \* handler task: "none", "runs", "lingers" or "ended"
    shell,      \* the process: "none", "starts", "runs" or "gone"
    pid,        \* the id is known to TerminalProcess and not yet taken for a kill
    listed,     \* TERMINALS
    fresh,      \* last_sync is younger than the time-out
    output,     \* the end of the shell is in the output
    told,       \* a client has read it
    kills,      \* kill_pstree tasks per terminal: not yet run
    killed,     \* kills ordered so far
    syncs

vars == <<svc, create, handler, shell, pid, listed, fresh, output, told, kills,
          killed, syncs>>

Init ==
    /\ svc = "runs"
    /\ create = [t \in Terminal |-> "idle"]
    /\ handler = [t \in Terminal |-> "none"]
    /\ shell = [t \in Terminal |-> "none"]
    /\ pid = [t \in Terminal |-> FALSE]
    /\ listed = {} /\ fresh = {} /\ output = {} /\ told = {} /\ kills = {}
    /\ killed = [t \in Terminal |-> 0]
    /\ syncs = [t \in Terminal |-> 0]

(***************************************************************************)
(* Ending a terminal                                                       *)
(***************************************************************************)

\* Faulty variant of terminate_process: the id is read and left in place.
TerminateKeepsPid(t) ==
    /\ UNCHANGED pid
    /\ kills' = IF pid[t] THEN kills \union {t} ELSE kills
    /\ killed' = [killed EXCEPT ![t] = @ + (IF pid[t] THEN 1 ELSE 0)]

\* pid.swap(0): only one of several callers orders the kill
terminate_process(t) ==
    /\ pid' = [pid EXCEPT ![t] = FALSE]
    /\ kills' = IF pid[t] THEN kills \union {t} ELSE kills
    /\ killed' = [killed EXCEPT ![t] = @ + (IF pid[t] THEN 1 ELSE 0)]

\* the request may reach the handler before the handler is aborted
terminate(t) ==
    /\ \/ handler' = [handler EXCEPT ![t] = "ended"] /\ UNCHANGED shell
       \/ /\ handler[t] = "runs" /\ shell[t] = "runs"
          /\ handler' = [handler EXCEPT ![t] = "ended"]
          /\ shell' = [shell EXCEPT ![t] = "gone"]
    /\ output' = output \ {t}
    /\ terminate_process(t)

\* the task of kill_pstree
RunKill(t) ==
    /\ t \in kills /\ svc # "ended"
    /\ kills' = kills \ {t}
    /\ shell' = [shell EXCEPT ![t] = "gone"]
    /\ UNCHANGED <<svc, create, handler, pid, listed, fresh, output, told, killed, syncs>>

(***************************************************************************)
(* terminal.create                                                         *)
(***************************************************************************)

CreateBegin(t) ==
    /\ svc = "runs" /\ create[t] = "idle"
    /\ create' = [create EXCEPT ![t] = "waits"]
    /\ handler' = [handler EXCEPT ![t] = "runs"]
    /\ shell' = [shell EXCEPT ![t] = "starts"]
    /\ fresh' = fresh \union {t}
    /\ UNCHANGED <<svc, pid, listed, output, told, kills, killed, syncs>>

\* the terminal library starts the shell; the handler stores its id if the
\* handler is still there
ShellStarts(t) ==
    /\ svc # "ended" /\ shell[t] = "starts"
    /\ shell' = [shell EXCEPT ![t] = "runs"]
    /\ pid' = [pid EXCEPT ![t] = handler[t] = "runs"]
    /\ UNCHANGED <<svc, create, handler, listed, fresh, output, told, kills, killed, syncs>>

CreateEnd(t) ==
    /\ create[t] = "waits" /\ pid[t] /\ svc # "ended"
    /\ create' = [create EXCEPT ![t] = "done"]
    /\ listed' = listed \union {t}
    /\ UNCHANGED <<svc, handler, shell, pid, fresh, output, told, kills, killed, syncs>>

\* the wait is over; terminate finds no id unless it has come just now
CreateTimeout(t) ==
    /\ create[t] = "waits" /\ svc # "ended"
    /\ create' = [create EXCEPT ![t] = "timeout"]
    /\ terminate(t)
    /\ UNCHANGED <<svc, listed, fresh, told, syncs>>

(***************************************************************************)
(* Clients                                                                 *)
(***************************************************************************)

\* terminal.sync takes the output; input of ^C interrupts the shell's children
sync(t) ==
    /\ t \in listed /\ svc # "ended" /\ syncs[t] < MaxSyncs
    /\ syncs' = [syncs EXCEPT ![t] = @ + 1]
    /\ fresh' = fresh \union {t}
    /\ told' = IF t \in output THEN told \union {t} ELSE told
    /\ output' = output \ {t}
    /\ UNCHANGED <<svc, create, handler, shell, pid, listed, kills, killed>>

\* terminal.resize does not renew last_sync
resize(t) ==
    /\ t \in listed /\ svc # "ended" /\ syncs[t] < MaxSyncs
    /\ syncs' = [syncs EXCEPT ![t] = @ + 1]
    /\ UNCHANGED <<svc, create, handler, shell, pid, listed, fresh, output, told, kills,
                   killed>>

kill(t) ==
    /\ t \in listed /\ svc # "ended"
    /\ listed' = listed \ {t}
    /\ terminate(t)
    /\ UNCHANGED <<svc, create, fresh, told, syncs>>

(***************************************************************************)
(* The handler and the shell                                               *)
(***************************************************************************)

ShellExits(t) ==
    /\ shell[t] = "runs"
    /\ shell' = [shell EXCEPT ![t] = "gone"]
    /\ UNCHANGED <<svc, create, handler, pid, listed, fresh, output, told, kills, killed,
                   syncs>>

\* Output::Terminated
HandlerSeesEnd(t) ==
    /\ handler[t] = "runs" /\ shell[t] = "gone" /\ svc # "ended"
    /\ handler' = [handler EXCEPT ![t] = "lingers"]
    /\ output' = output \union {t}
    /\ UNCHANGED <<svc, create, shell, pid, listed, fresh, told, kills, killed, syncs>>

\* a second later: the output is cleared whether or not it was read
HandlerEnds(t) ==
    /\ handler[t] = "lingers" /\ svc # "ended"
    /\ terminate(t)
    /\ UNCHANGED <<svc, create, listed, fresh, told, syncs>>

(***************************************************************************)
(* The cleaner and the end of the service                                  *)
(***************************************************************************)

Idle(t) ==
    /\ t \in fresh /\ fresh' = fresh \ {t}
    /\ UNCHANGED <<svc, create, handler, shell, pid, listed, output, told, kills, killed,
                   syncs>>

\* Faulty variant of Cleanup: the entry goes, the process stays.
CleanupForgets(t) ==
    /\ svc = "runs" /\ t \in listed \ fresh
    /\ listed' = listed \ {t}
    /\ UNCHANGED <<svc, create, handler, shell, pid, fresh, output, told, kills, killed, syncs>>

\* the cleaner of main works with TERMINALS locked
Cleanup(t) ==
    /\ svc = "runs" /\ t \in listed \ fresh
    /\ listed' = listed \ {t}
    /\ terminate(t)
    /\ UNCHANGED <<svc, create, fresh, told, syncs>>

Stop ==
    /\ svc = "runs" /\ svc' = "stops"
    /\ UNCHANGED <<create, handler, shell, pid, listed, fresh, output, told, kills, killed,
                   syncs>>

StopTerminal(t) ==
    /\ svc = "stops" /\ t \in listed /\ handler[t] # "ended"
    /\ terminate(t)
    /\ UNCHANGED <<svc, create, listed, fresh, told, syncs>>

\* main returns without waiting for the kills it has ordered
Exit ==
    /\ svc = "stops" /\ \A t \in listed : handler[t] = "ended"
    /\ svc' = "ended"
    /\ UNCHANGED <<create, handler, shell, pid, listed, fresh, output, told, kills, killed,
                   syncs>>

Step(t) ==
    \/ CreateBegin(t) \/ ShellStarts(t) \/ CreateEnd(t) \/ CreateTimeout(t)
    \/ sync(t) \/ resize(t) \/ kill(t)
    \/ ShellExits(t) \/ HandlerSeesEnd(t) \/ HandlerEnds(t)
    \/ Idle(t) \/ Cleanup(t) \/ StopTerminal(t) \/ RunKill(t)

Next == (\E t \in Terminal : Step(t)) \/ Stop \/ Exit

\* The tasks of the service keep running; clients, shells and the order to
\* stop are free
Fairness ==
    \A t \in Terminal :
        /\ WF_vars(CreateEnd(t) \/ CreateTimeout(t)) /\ WF_vars(HandlerSeesEnd(t))
        /\ WF_vars(HandlerEnds(t)) /\ WF_vars(Idle(t)) /\ WF_vars(Cleanup(t)) /\ WF_vars(RunKill(t))

Spec == Init /\ [][Next]_vars /\ Fairness

(***************************************************************************)
(* Properties                                                              *)
(***************************************************************************)

\* However a client's kill, the cleaner, the end of the shell and the end of
\* the service meet, the process tree of a terminal is killed at most once
\* (TerminalProcess::terminate_process): a second kill could hit a process
\* that was given the same id since.
KilledOnce == \A t \in Terminal : killed[t] <= 1

\* While the service runs, every shell ends once no client synchronises its
\* terminal: the cleaner of main terminates it.  The exception is a shell
\* whose id did not come within the time-out of terminal.create: nobody
\* knows it (main.rs:83).
ShellsGone ==
    svc = "runs" => \A t \in Terminal : shell[t] \in {"none", "gone"} \/ create[t] = "timeout"
=============================================================================
