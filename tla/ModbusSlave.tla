----------------------------- MODULE ModbusSlave -----------------------------
(***************************************************************************)
(* The Modbus slave context service (svc/svc-modbus-slave): listeners of   *)
(* several kinds and a bus method work on one context of registers, which  *)
(* is loaded from a file when the service starts and saved into it by a    *)
(* call, when a listener fails and when the service stops.  The file is    *)
(* truncated, then written; the context stays locked meanwhile.            *)
(***************************************************************************)
EXTENDS Integers, Sequences, FiniteSets

CONSTANTS Client,      \* clients of the listeners
          ClientKind,        \* [Client -> {"tcp", "udp", "rtu", "ascii", "bus"}]
          Holding,     \* number of registers that clients write
          MaxRequests, \* bound: requests in progress
          MaxWrites,   \* bound: requests that write
          MaxStarts,   \* bound: starts of the service, each by a later version
          MaxFaults,   \* bound: failed listeners, failed or interrupted saves
          NoData

ASSUME SlaveParameters ==
  Holding \in Nat /\ NoData \notin {"call", "main", "poc"} /\ NoData \notin [1..Holding + 1 -> Int]

VARIABLES ctx,         \* CONTEXT: registers, the last one is the version
          file,        \* the data file: NoData or what is in it
          proc,        \* the process: "down", "up", "stopping", "poc", "exiting"
          lock,        \* who saves: NoData or "call", "main", "poc"
          request,     \* [Client -> its request: pc and operation]
          writes, starts, faults, \* use of the bounds
          kept         \* history: [saved, whole, late] the context last saved, whether the file
                       \* is whole, whether a client has written since

slaveVars == <<ctx, file, proc, lock, request, writes, starts, faults, kept>>

Version == Holding + 1
Zero == [i \in 1..Version |-> 0]
NoRequest == [pc |-> "idle", op |-> "none"]
Running == proc # "down"

SlaveInit ==
  /\ ctx = Zero /\ file = NoData /\ proc = "down" /\ lock = NoData
  /\ request = [c \in Client |-> NoRequest]
  /\ writes = 0 /\ starts = 0 /\ faults = 0
  /\ kept = [saved |-> Zero, whole |-> TRUE, late |-> FALSE]

Fault == faults < MaxFaults /\ faults' = faults + 1

\* load_context_data: a file that is too short leaves the other registers as they are.
LoadContextData ==
  IF file = NoData THEN Zero ELSE [i \in 1..Version |-> IF i <= Len(file) THEN file[i] ELSE 0]

\* Faulty variant of Start: the version is set before the context is loaded.
StartVersionFirst ==
  /\ proc = "down" /\ starts < MaxStarts
  /\ starts' = starts + 1 /\ proc' = "up"
  /\ ctx' = IF file = NoData THEN [Zero EXCEPT ![Version] = starts + 1] ELSE LoadContextData
  /\ kept' = [kept EXCEPT !.late = FALSE]
  /\ UNCHANGED <<file, lock, request, writes, faults>>

\* main: load the context, then set the registers of the version; the listeners start.
Start ==
  /\ proc = "down" /\ starts < MaxStarts
  /\ starts' = starts + 1 /\ proc' = "up"
  /\ ctx' = [LoadContextData EXCEPT ![Version] = starts + 1]
  /\ kept' = [kept EXCEPT !.late = FALSE]
  /\ UNCHANGED <<file, lock, request, writes, faults>>

----------------------------------------------------------------------------
(* Requests *)

Wait(c, op) == request' = [request EXCEPT ![c] = [pc |-> "frame", op |-> op]]
RequestEnds(c) == request' = [request EXCEPT ![c] = NoRequest]
Rest == UNCHANGED <<ctx, file, proc, lock, writes, starts, faults, kept>>
Ready(c, kind) ==
  /\ Running /\ ClientKind[c] = kind /\ request[c].pc = "idle"
  /\ Cardinality({d \in Client : request[d].pc = "frame"}) < MaxRequests

\* A frame that cannot be parsed ends a TCP connection.  A new one takes its place.
handle_tcp(c, op) ==
  Ready(c, "tcp") /\ (IF op = "bad" THEN request' = [request EXCEPT ![c].pc = "closed"] ELSE Wait(c, op)) /\ Rest
accept(c) == Running /\ request[c].pc = "closed" /\ RequestEnds(c) /\ Rest
\* The others log the error, or answer with it.
udp_handle(c, op) == Ready(c, "udp") /\ op # "bad" /\ Wait(c, op) /\ Rest
handle_rtu_frame(c, op) == Ready(c, "rtu") /\ op # "bad" /\ Wait(c, op) /\ Rest
handle_ascii_frame(c, op) == Ready(c, "ascii") /\ op # "bad" /\ Wait(c, op) /\ Rest
\* The bus method needs a service that is not stopping.
handle_bus_call(c, op) == Ready(c, "bus") /\ proc \in {"up", "poc"} /\ op # "bad" /\ Wait(c, op) /\ Rest

\* handle_frame: the request is processed when the context is not locked, and answered.
HandleFrame(c) ==
  /\ Running /\ request[c].pc = "frame" /\ lock = NoData
  /\ IF request[c].op = "write"
     THEN /\ writes < MaxWrites /\ writes' = writes + 1
          /\ \E i \in 1..Holding : ctx' = [ctx EXCEPT ![i] = 1 - @]
          /\ kept' = [kept EXCEPT !.late = TRUE]
     ELSE UNCHANGED <<ctx, writes, kept>>
  /\ RequestEnds(c)
  /\ UNCHANGED <<file, proc, lock, starts, faults>>

----------------------------------------------------------------------------
(* save_context *)

SaveContext(who) ==
  /\ Running /\ lock = NoData
  /\ CASE who = "call" -> proc = "up" [] who = "main" -> proc = "stopping" [] who = "poc" -> proc = "poc"
  /\ lock' = who /\ file' = <<>>
  /\ kept' = [kept EXCEPT !.whole = FALSE]
  /\ UNCHANGED <<ctx, proc, request, writes, starts, faults>>

\* The process is gone, with its requests.
Exit == proc' = "down" /\ lock' = NoData /\ request' = [c \in Client |-> NoRequest]

\* The context is unlocked.  The call returns; the others end the process next, and a client
\* may still write before they do.
Unlock == lock' = NoData /\ proc' = IF lock = "call" THEN proc ELSE "exiting"
SaveEnds ==
  /\ lock # NoData
  /\ file' = ctx
  /\ kept' = [saved |-> ctx, whole |-> TRUE, late |-> FALSE]
  /\ Unlock
  /\ UNCHANGED <<ctx, request, writes, starts, faults>>

\* Writing fails: the call returns the error, main ends with it, and the task of the listener
\* panics, so that poc ends the process.
SaveFails ==
  /\ lock # NoData /\ Fault /\ Unlock
  /\ UNCHANGED <<ctx, file, request, writes, starts, kept>>

Exits == proc = "exiting" /\ lock = NoData /\ Exit /\ UNCHANGED <<ctx, file, writes, starts, faults, kept>>

\* launch of a listener returns with an error: save_and_poc.
ServerFails ==
  proc = "up" /\ Fault /\ proc' = "poc" /\ UNCHANGED <<ctx, file, lock, request, writes, starts, kept>>

\* svc_block returns
Stop ==
  proc = "up" /\ proc' = "stopping" /\ UNCHANGED <<ctx, file, lock, request, writes, starts, faults, kept>>

\* The process is killed; a file that is being written is cut somewhere.
Killed ==
  /\ Running /\ Fault /\ Exit
  /\ IF lock = NoData THEN UNCHANGED file ELSE \E n \in 0..Version - 1 : file' = SubSeq(ctx, 1, n)
  /\ UNCHANGED <<ctx, writes, starts, kept>>

----------------------------------------------------------------------------
Request(c, op) ==
  \/ handle_tcp(c, op) \/ udp_handle(c, op) \/ handle_rtu_frame(c, op)
  \/ handle_ascii_frame(c, op) \/ handle_bus_call(c, op)

SlaveNext ==
  \/ Start
  \/ \E c \in Client :
       (\E op \in {"read", "write", "bad"} : Request(c, op)) \/ accept(c) \/ HandleFrame(c)
  \/ \E who \in {"call", "main", "poc"} : SaveContext(who)
  \/ SaveEnds \/ SaveFails \/ Exits \/ ServerFails \/ Stop \/ Killed

SlaveSpec == SlaveInit /\ [][SlaveNext]_slaveVars

----------------------------------------------------------------------------
(* What was saved last is what the next start finds, however many clients *)
(* write meanwhile and whoever saves, unless that save did not end; and    *)
(* the version shown is the one that runs, whatever was saved              *)
(* (save_context, save_and_poc and main).                                  *)
ContextKept ==
  /\ kept.whole /\ file # NoData => file = kept.saved
  /\ proc = "up" => ctx[Version] = starts
  /\ proc = "up" /\ kept.whole /\ ~kept.late => \A i \in 1..Holding : ctx[i] = kept.saved[i]
============================================================================
