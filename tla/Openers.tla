------------------------------ MODULE Openers ------------------------------
(***************************************************************************)
(* Openers of the logic manager (svc/controller-lm/src/opener.rs): a unit  *)
(* with several positions, moved by switching a port (and a direction or   *)
(* reverse port) on for a computed time.  An action becomes a plan of port *)
(* switches and delays, the plan a sequence run by the core.  The shaft    *)
(* is part of the model: it moves with the outputs.                        *)
(*                                                                         *)
(* logic "ac": port = motor, dport = direction (on: opening)               *)
(* logic "rdc": port opens, dport closes                                   *)
(***************************************************************************)
EXTENDS Naturals, Integers, Sequences, FiniteSets, SequencesExt, FiniteSetsExt

CONSTANTS
    Act,        \* actions, numbered in the order of the calls
    Configs,    \* [logic, steps, warmup_open, warmup_close, tuning, ts, te]; ts < te,
                \* as Plan::generate does not end for a position between te and ts;
                \* 0 - 1 for a threshold that is not set
    MaxStops,   \* bound: terminate and kill calls
    MaxFaults,  \* bound: port actions that fail, calls that time out
    None

VARIABLES
    cfg,        \* the opener's configuration, chosen once
    shaft,      \* where the shaft is, in units of time from the closed end
    port, dport,\* the outputs
    known,      \* the unit's value in the core
    pending,    \* ACTT: actions in the queue that nobody terminated
    queue,      \* the opener's action queue
    act,        \* the handler: [pc, a, to]
    active,     \* ACTIVE: the action whose sequence is registered
    seq,        \* sequences in the core: [a, todo, state]
    out,        \* raw states on their way to the core
    status,     \* per action: what was last published
    stops, faults,
    misled      \* an action was cut short, failed, or planned with a state on its way

vars == <<cfg, shaft, port, dport, known, pending, queue, act, active, seq, out, status,
          stops, faults, misled>>

Idle == [pc |-> "idle", a |-> None, to |-> 0]

EndPos(c) == Len(c.steps)

\* the time from the closed end to a position
Upto(c, n) == FoldLeft(LAMBDA x, y : x + y, 0, SubSeq(c.steps, 1, n))

(***************************************************************************)
(* Plans                                                                   *)
(***************************************************************************)

Delay(d, idle) == <<"delay", d, idle>>

\* Plan::generate, going up without the te detour.  The second number of a
\* delay is the part of it in which the motor warms up
GoUp(c, from, to) ==
    <<IF c.logic = "ac" THEN <<"dport", 1>> ELSE <<"dport", 0>>,
      <<"port", 1>>,
      Delay(c.warmup_open + Upto(c, to) - Upto(c, from)
              + IF to = EndPos(c) THEN c.tuning ELSE 0, c.warmup_open),
      <<"port", 0>>>>

\* Plan::generate, going down without the ts detour
GoDown(c, from, to) ==
    LET d == Delay(c.warmup_close + Upto(c, from) - Upto(c, to)
                     + IF to = 0 THEN c.tuning ELSE 0, c.warmup_close) IN
    IF c.logic = "ac"
    THEN <<<<"dport", 0>>, <<"port", 1>>, d, <<"port", 0>>>>
    ELSE <<<<"port", 0>>, <<"dport", 1>>, d, <<"dport", 0>>>>

\* Plan::generate within the bounds: positions from te up are reached from
\* the open end, those up to ts from the closed end
generate(c, from, to) ==
    CASE from < to /\ c.te >= 0 /\ to >= c.te /\ to # EndPos(c) ->
            GoUp(c, from, EndPos(c)) \o GoDown(c, EndPos(c), to)
      [] from < to -> GoUp(c, from, to)
      [] from > to /\ to <= c.ts /\ to # 0 -> GoDown(c, from, 0) \o GoUp(c, 0, to)
      [] from > to -> GoDown(c, from, to)
      [] OTHER -> <<>>

\* Plan::generate: "step out of bounds"
OutOfBounds(c, from, to) == from \notin 0 .. EndPos(c) \/ to \notin 0 .. EndPos(c)

\* set_on_abort_multi
OnAbort(c) == <<<<"port", 0>>>> \o IF c.logic = "rdc" THEN <<<<"dport", 0>>>> ELSE <<>>

(***************************************************************************)
(* The shaft                                                               *)
(***************************************************************************)

Top == Upto(cfg, EndPos(cfg))

Opening == port = 1 /\ dport = IF cfg.logic = "ac" THEN 1 ELSE 0
Closing == IF cfg.logic = "ac" THEN port = 1 /\ dport = 0 ELSE port = 0 /\ dport = 1

\* where the shaft is after d units of time, stopped by its ends
After(d) ==
    CASE Opening -> Min({Top, shaft + d})
      [] Closing -> Max({0, shaft - d})
      [] OTHER   -> shaft

Init ==
    /\ cfg \in Configs
    /\ \E n \in 0 .. EndPos(cfg) : known = n /\ shaft = Upto(cfg, n)
    /\ port = 0 /\ dport = 0
    /\ pending = {} /\ queue = <<>> /\ act = Idle /\ active = None
    /\ seq = {} /\ out = <<>>
    /\ status = [a \in Act |-> "none"]
    /\ stops = 0 /\ faults = 0 /\ misled = FALSE

Device == <<cfg, shaft, port, dport>>

\* "action": listed and queued; the actions are called in order
Call(a) ==
    /\ status[a] = "none" /\ \A b \in Act : b < a => status[b] # "none"
    /\ pending' = pending \union {a}
    /\ queue' = Append(queue, a)
    /\ status' = [status EXCEPT ![a] = "pending"]
    /\ UNCHANGED <<Device, known, act, active, seq, out, stops, faults, misled>>

\* handle_action, up to the call for the current position
TakeAction ==
    /\ act.pc = "idle" /\ queue # <<>>
    /\ LET a == Head(queue) IN
       /\ queue' = Tail(queue)
       /\ pending' = pending \ {a}
       /\ IF a \in pending
          THEN \E to \in 0 .. EndPos(cfg) + 1 :
                 /\ act' = [pc |-> "position", a |-> a, to |-> to]
                 /\ status' = [status EXCEPT ![a] = "running"]
          ELSE /\ act' = act
               /\ status' = [status EXCEPT ![a] = "canceled"]
    /\ UNCHANGED <<Device, known, active, seq, out, stops, faults, misled>>

\* get_current_pos, execute up to the call of "seq"
Execute ==
    /\ act.pc = "position"
    /\ IF OutOfBounds(cfg, known, act.to)
       THEN /\ act' = [act EXCEPT !.pc = "failed"]
            /\ UNCHANGED <<active, seq, misled>>
       ELSE /\ act' = [act EXCEPT !.pc = "seq"]
            /\ active' = act.a
            /\ seq' = seq \union {[a |-> act.a, todo |-> generate(cfg, known, act.to),
                                   state |-> "runs"]}
            /\ misled' = (misled \/ out # <<>>)
    /\ UNCHANGED <<Device, known, pending, queue, out, status, stops, faults>>

\* the core performs the next command of a sequence; one that was aborted
\* performs its abort actions, which are taken to succeed
SeqStep ==
    \E s \in seq :
       /\ s.todo # <<>>
       /\ LET cmd == Head(s.todo) IN
          /\ port'  = IF cmd[1] = "port" THEN cmd[2] ELSE port
          /\ dport' = IF cmd[1] = "dport" THEN cmd[2] ELSE dport
          /\ shaft' = IF cmd[1] = "delay" THEN After(cmd[2] - cmd[3]) ELSE shaft
       /\ seq' = (seq \ {s}) \union {[s EXCEPT !.todo = Tail(@)]}
    /\ UNCHANGED <<cfg, known, pending, queue, act, active, out, status, stops, faults, misled>>

\* the sequence is cut short, possibly in the middle of a delay
Cut(s, state) ==
    /\ s.state = "runs"
    /\ seq' = (seq \ {s}) \union {[s EXCEPT !.todo = OnAbort(cfg), !.state = state]}
    /\ shaft' \in IF s.todo # <<>> /\ Head(s.todo)[1] = "delay"
                  THEN {After(d) : d \in 0 .. Head(s.todo)[2]} ELSE {shaft}
    /\ misled' = TRUE

\* a port action fails, or the sequence runs out of time
SeqFails ==
    /\ faults < MaxFaults
    /\ faults' = faults + 1
    /\ \E s \in seq : s.todo # <<>> /\ Cut(s, "failed")
    /\ UNCHANGED <<cfg, port, dport, known, pending, queue, act, active, out, status, stops>>

\* the answer to "seq": unregister, then the result of the action; the state
\* goes before it
SeqAnswer ==
    /\ act.pc = "seq"
    /\ \E s \in seq :
         /\ s.a = act.a /\ s.todo = <<>>
         /\ seq' = seq \ {s}
         /\ active' = None
         /\ act' = Idle
         /\ out' = IF s.state = "runs" THEN Append(out, act.to) ELSE out
         /\ status' = [status EXCEPT ![act.a] =
               CASE s.state = "runs" -> "completed"
                 [] s.state = "aborted" -> "terminated"
                 [] OTHER -> "failed"]
    /\ UNCHANGED <<Device, known, pending, queue, stops, faults, misled>>

\* the call for the sequence times out before its answer
CallTimesOut ==
    /\ act.pc = "seq" /\ faults < MaxFaults
    /\ faults' = faults + 1
    /\ active' = None
    /\ act' = Idle
    /\ status' = [status EXCEPT ![act.a] = "failed"]
    /\ misled' = TRUE
    /\ UNCHANGED <<Device, known, pending, queue, seq, out, stops>>

\* a sequence nobody waits for any more ends in the core
SeqForgotten ==
    /\ \E s \in seq : s.todo = <<>> /\ s.a # act.a /\ seq' = seq \ {s}
    /\ UNCHANGED <<Device, known, pending, queue, act, active, out, status, stops, faults, misled>>

\* run_action failed: no plan
ExecuteFails ==
    /\ act.pc = "failed"
    /\ act' = Idle
    /\ status' = [status EXCEPT ![act.a] = "failed"]
    /\ UNCHANGED <<Device, known, pending, queue, active, seq, out, stops, faults, misled>>

\* the publisher's message reaches the core, which updates the unit
StateArrives ==
    /\ out # <<>>
    /\ known' = Head(out)
    /\ out' = Tail(out)
    /\ UNCHANGED <<Device, pending, queue, act, active, seq, status, stops, faults, misled>>

\* terminate_seq of the sequence registered
TerminateSeq ==
    IF \E s \in seq : s.a = active /\ s.state = "runs"
    THEN \E s \in seq : s.a = active /\ Cut(s, "aborted")
    ELSE UNCHANGED <<seq, shaft, misled>>

\* "terminate": an action that waits is marked, else its sequence is ended
terminate(a) ==
    /\ status[a] # "none" /\ stops < MaxStops
    /\ stops' = stops + 1
    /\ pending' = pending \ {a}
    /\ IF a \notin pending /\ active = a
       THEN TerminateSeq
       ELSE UNCHANGED <<seq, shaft, misled>>
    /\ UNCHANGED <<cfg, port, dport, known, queue, act, active, out, status, faults>>

\* "kill": all that wait are marked, and the sequence of the unit is ended
kill ==
    /\ stops < MaxStops
    /\ stops' = stops + 1
    /\ pending' = {}
    /\ TerminateSeq
    /\ UNCHANGED <<cfg, port, dport, known, queue, act, active, out, status, faults>>

Next ==
    \/ \E a \in Act : Call(a) \/ terminate(a)
    \/ TakeAction \/ Execute \/ ExecuteFails
    \/ SeqStep \/ SeqFails \/ SeqAnswer \/ CallTimesOut \/ SeqForgotten
    \/ StateArrives \/ kill

Spec == Init /\ [][Next]_vars

\* no call of a sequence was given up while the sequence went on
NoOverrun == \A s \in seq : s.a = act.a

(***************************************************************************)
(* An action that is reported completed has put the shaft where it says,   *)
(* whatever the detours, the warm-up and the tuning time: while no action  *)
(* was cut short, failed, or planned with a state still on its way, the    *)
(* position the core knows (or is being told) is where the shaft is.  And  *)
(* unless the call for a sequence was given up before the sequence ended,  *)
(* the motor stands still when no sequence runs, and the two outputs of an *)
(* rdc opener are never on together, aborts included.                      *)
(***************************************************************************)
ShaftFollows ==
    /\ seq = {} /\ ~misled => shaft = Upto(cfg, IF out = <<>> THEN known ELSE Last(out))
    /\ seq = {} => ~Opening /\ ~Closing
    /\ cfg.logic = "rdc" /\ NoOverrun => ~(port = 1 /\ dport = 1)

=============================================================================
