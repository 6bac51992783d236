---------------------------- MODULE FieldActions ----------------------------
(***************************************************************************)
(* How a field controller executes an action (svc/controller-modbus, enip, *)
(* ads, opcua, w1, sr, virtual and pubsub).  The core's "action" call is   *)
(* taken by a task of its own; six of the controllers put the action in a  *)
(* bounded queue of its item, note it in ACTT, the set of actions that may *)
(* still be canceled, and have one task per item that writes the device:   *)
(* retried, and on demand verified by reading back.  virtual and pubsub    *)
(* execute the action in the call itself.  Every event goes through one    *)
(* bounded channel to the task that publishes it on the bus.               *)
(*                                                                         *)
(* Every task is a sequence of steps still to take.  One item is modelled: *)
(* items share nothing but the channel.  A value is named by the job that  *)
(* writes it, and the device register is a pair of words.                  *)
(***************************************************************************)
EXTENDS Naturals, Sequences, FiniteSets

CONSTANTS
    Action,     \* actions the core calls for
    Direct,     \* writes by var.set, reg.set or w1.set, which skip the queue
    Settings,   \* [ctl, verify, retries, words, bulk, jobs]: the configurations explored
    QueueSize,  \* capacity of the item's action queue
    OutSize,    \* capacity of the channel to the publisher
    MaxStops,   \* bound: terminate and kill calls
    None

VARIABLES
    set,        \* the configuration, chosen once
    task,       \* per job, and "handler": [job, todo, tries]
    actt,       \* ACTT: the actions that may still be canceled
    queue,      \* ACTION_QUEUES[oid]
    out,        \* the channel (topic, payload) to the publisher
    device,     \* the two words of the register
    late,       \* requests given up on that may still reach the device
    answer,     \* per job: the result of the call
    final,      \* per action: the final events published
    stopped,    \* actions a terminate or kill call has canceled
    stops,
    found       \* jobs whose whole value a verification has read

vars == <<set, task, actt, queue, out, device, late, answer, final, stopped,
          stops, found>>

Job == Action \union Direct

Task == Job \union {"handler"}

(***************************************************************************)
(* How each controller writes a value: how many words one request carries, *)
(* whether it can verify, and what a failed verification read means.       *)
(***************************************************************************)

\* modbus::set and bus_set: without function 16 the words go one by one
modbus_set == [words |-> set.words, verify |-> set.verify, reread |-> FALSE]

\* write_tag and write_tag_sync
enip_write_tag == [words |-> 1, verify |-> set.verify, reread |-> FALSE]

\* write and write_and_verify
ads_write == [words |-> 1, verify |-> set.verify, reread |-> FALSE]

\* write and write_multi: the node's status code is the only answer
opcua_write == [words |-> 1, verify |-> FALSE, reread |-> FALSE]

\* set: the verifying get has retries of its own and its error is returned
w1_set == [words |-> 1, verify |-> set.verify, reread |-> TRUE]

\* the command is run once
sr_command == [words |-> 1, verify |-> FALSE, reread |-> FALSE]

Writing ==
    CASE set.ctl = "modbus" -> modbus_set
      [] set.ctl = "enip"   -> enip_write_tag
      [] set.ctl = "ads"    -> ads_write
      [] set.ctl = "opcua"  -> opcua_write
      [] set.ctl = "w1"     -> w1_set
      [] OTHER              -> sr_command

Retries == IF set.ctl = "sr" THEN 0 ELSE set.retries

Write ==
    <<"write">> \o (IF Writing.words = 2 THEN <<"word2">> ELSE <<>>)
                \o (IF Writing.verify THEN <<"verify">> ELSE <<>>)

(***************************************************************************)
(* The item's task: run_action and handle_action of each controller.  A    *)
(* payload without unit parameters fails the action.                       *)
(***************************************************************************)

\* the value may be transformed for the device
modbus_run_action == <<"transform">> \o Write

enip_run_action == <<"transform">> \o Write

\* without a handle of the variable the action fails
ads_run_action == <<"check", "transform">> \o Write

\* the value is converted to the node's type after the transformation
opcua_run_action == <<"transform", "convert">> \o Write

w1_run_action == <<"transform">> \o Write

sr_run_action == Write

Handled(run) == <<"running", "params">> \o run \o <<"completed">>

modbus_handle_action == Handled(modbus_run_action)

enip_handle_action == Handled(enip_run_action)

ads_handle_action == Handled(ads_run_action)

opcua_handle_action == Handled(opcua_run_action)

w1_handle_action == Handled(w1_run_action)

sr_handle_action == Handled(sr_run_action)

HandleAction ==
    CASE set.ctl = "modbus" -> modbus_handle_action
      [] set.ctl = "enip"   -> enip_handle_action
      [] set.ctl = "ads"    -> ads_handle_action
      [] set.ctl = "opcua"  -> opcua_handle_action
      [] set.ctl = "w1"     -> w1_handle_action
      [] OTHER              -> sr_handle_action

(***************************************************************************)
(* The "action" calls                                                      *)
(***************************************************************************)

\* noted in ACTT, queued, and only then announced as pending
modbus_action == <<"append", "enqueue", "pending">>

enip_action == modbus_action

ads_action == modbus_action

opcua_action == modbus_action

w1_action == modbus_action

sr_action == modbus_action

\* virtual: the item's state, then the variable, then the event
virtual_action == <<"state", "set", "completed">>

\* pubsub: the message is handed to the pub/sub worker
pubsub_action == <<"pending", "output", "completed">>

ActionCall ==
    CASE set.ctl = "modbus"  -> modbus_action
      [] set.ctl = "enip"    -> enip_action
      [] set.ctl = "ads"     -> ads_action
      [] set.ctl = "opcua"   -> opcua_action
      [] set.ctl = "w1"      -> w1_action
      [] set.ctl = "sr"      -> sr_action
      [] set.ctl = "virtual" -> virtual_action
      [] OTHER               -> pubsub_action

(***************************************************************************)
(* The calls that skip the queue.  An attempt is what they repeat.         *)
(***************************************************************************)

modbus_reg_set == Write

enip_var_set == Write

\* the handle is looked up, or created, in every attempt
ads_var_set == <<"handle">> \o Write

\* write_var_jobs_multi verifies that the variable can be read: the value
\* read is compared with itself
ads_var_set_bulk == <<"handle", "write">> \o (IF set.verify THEN <<"reread">> ELSE <<>>)

opcua_var_set == Write

opcua_var_set_bulk == Write

w1_set_call == Write

virtual_var_set == <<"set">>

virtual_var_set_bulk == <<"set">>

\* pubsub.publish with a QoS above zero waits for the worker
pubsub_publish == <<"output", "processed">>

Attempt ==
    CASE set.ctl = "modbus"  -> modbus_reg_set
      [] set.ctl = "enip"    -> enip_var_set
      [] set.ctl = "ads"     -> IF set.bulk THEN ads_var_set_bulk ELSE ads_var_set
      [] set.ctl = "opcua"   -> IF set.bulk THEN opcua_var_set_bulk ELSE opcua_var_set
      [] set.ctl = "w1"      -> w1_set_call
      [] set.ctl = "virtual" -> IF set.bulk THEN virtual_var_set_bulk ELSE virtual_var_set
      [] OTHER               -> pubsub_publish

\* opcua converts the value before the first attempt
DirectCall == (IF set.ctl = "opcua" THEN <<"convert">> ELSE <<>>) \o Attempt

Queued == set.ctl \notin {"virtual", "pubsub"}

Idle == [job |-> None, todo |-> <<>>, tries |-> 0]

Init ==
    /\ set \in Settings
    /\ task = [t \in Task |-> Idle]
    /\ actt = {}
    /\ queue = <<>>
    /\ out = <<>>
    /\ device = [w \in {1, 2} |-> None]
    /\ late = {}
    /\ answer = [j \in Job |-> "none"]
    /\ final = [j \in Action |-> {}]
    /\ stopped = {}
    /\ stops = 0
    /\ found = {}

Step(t) == IF task[t].todo = <<>> THEN "none" ELSE Head(task[t].todo)

\* the rest of the task's steps; the last step of a call answers it
Go(t, todo) ==
    /\ task' = [task EXCEPT ![t].todo = todo]
    /\ answer' = IF t \in Job /\ todo = <<>> THEN [answer EXCEPT ![t] = "ok"] ELSE answer

Done(t) == Go(t, Tail(task[t].todo))

\* Faulty variant of Fails: an error of handle_action is only logged.
FailsLogged(t) ==
    IF t = "handler"
    THEN Go(t, <<>>)
    ELSE /\ task' = [task EXCEPT ![t].todo = <<>>]
         /\ answer' = [answer EXCEPT ![t] = "error"]

\* an error: handle_action reports it as an event, a call returns it
Fails(t) ==
    IF t = "handler"
    THEN Go(t, <<"failed">>)
    ELSE /\ task' = [task EXCEPT ![t].todo = <<>>]
         /\ answer' = [answer EXCEPT ![t] = "error"]

\* one more attempt, unless they or the time are used up
Again(t) ==
    \/ Fails(t)
    \/ /\ task[t].tries < Retries
       /\ task' = [task EXCEPT ![t] = [@ EXCEPT !.tries = @ + 1,
                      !.todo = IF t = "handler" THEN Write \o <<"completed">> ELSE Attempt]]
       /\ UNCHANGED answer

(***************************************************************************)
(* Steps                                                                   *)
(***************************************************************************)

\* a call arrives
Call(j) ==
    /\ task[j] = Idle /\ answer[j] = "none"
    /\ j \in set.jobs
    /\ j \in Direct => set.ctl # "sr"
    /\ task' = [task EXCEPT ![j] = [job |-> j, tries |-> 0,
                   todo |-> IF j \in Action THEN ActionCall ELSE DirectCall]]
    /\ UNCHANGED <<set, actt, queue, out, device, late, answer, final, stopped, stops, found>>

\* actt.append
Append_(t) ==
    /\ Step(t) = "append"
    /\ actt' = actt \union {task[t].job}
    /\ Done(t)
    /\ UNCHANGED <<set, queue, out, device, late, final, stopped, stops, found>>

\* tx.send(action): waits for room in the queue
Enqueue(t) ==
    /\ Step(t) = "enqueue" /\ Len(queue) < QueueSize
    /\ queue' = Append(queue, task[t].job)
    /\ Done(t)
    /\ UNCHANGED <<set, actt, out, device, late, final, stopped, stops, found>>

\* the item's task takes the next action; handle_action's ACTT.remove
TakeAction ==
    /\ task["handler"].todo = <<>> /\ queue # <<>>
    /\ LET j == Head(queue) IN
       /\ task' = [task EXCEPT !["handler"] = [job |-> j, tries |-> 0,
                      todo |-> IF j \in actt THEN HandleAction ELSE <<"canceled">>]]
       /\ actt' = actt \ {j}
    /\ queue' = Tail(queue)
    /\ UNCHANGED <<set, out, device, late, answer, final, stopped, stops, found>>

\* an event or a raw state is sent: waits for room in the channel
Send(t) ==
    /\ Step(t) \in {"pending", "running", "canceled", "completed", "failed", "state"}
    /\ Len(out) < OutSize
    /\ out' = Append(out, <<task[t].job, Step(t)>>)
    /\ Done(t)
    /\ UNCHANGED <<set, actt, queue, device, late, final, stopped, stops, found>>

\* the payload, the handle, or the value may not be what is needed
Prepare(t) ==
    /\ Step(t) \in {"params", "check", "transform", "convert", "handle"}
    /\ Done(t) \/ (IF Step(t) = "handle" THEN Again(t) ELSE Fails(t))
    /\ UNCHANGED <<set, actt, queue, out, device, late, final, stopped, stops, found>>

\* the words a request carries
Words(t) ==
    CASE Step(t) = "word2"   -> {2}
      [] Writing.words = 2   -> {1}
      [] OTHER               -> {1, 2}

\* a write is answered; the device may have ignored the value
WriteAnswered(t) ==
    /\ Step(t) \in {"write", "word2", "set"}
    /\ \/ device' = [w \in {1, 2} |-> IF w \in Words(t) THEN task[t].job ELSE device[w]]
       \/ Step(t) # "set" /\ UNCHANGED device
    /\ Done(t)
    /\ UNCHANGED <<set, actt, queue, out, late, final, stopped, stops, found>>

\* a write is refused, or times out with the request still on its way
WriteFails(t) ==
    /\ Step(t) \in {"write", "word2", "set"}
    /\ late' \in IF Step(t) = "set" THEN {late} ELSE {late, late \union {<<task[t].job, Words(t)>>}}
    /\ IF Step(t) = "set" THEN Fails(t) ELSE Again(t)
    /\ UNCHANGED <<set, actt, queue, out, device, final, stopped, stops, found>>

\* PUBSUB_TX: the worker publishes after the call went on
Output(t) ==
    /\ Step(t) = "output"
    /\ \/ late' = late \union {<<task[t].job, {1, 2}>>} /\ Done(t)
       \/ UNCHANGED late /\ Fails(t)
    /\ UNCHANGED <<set, actt, queue, out, device, final, stopped, stops, found>>

\* Faulty variant of Verify: the value read is compared with itself.
VerifyNothing(t) ==
    /\ Step(t) = "verify"
    /\ Done(t) \/ (IF Writing.reread THEN Fails(t) ELSE Again(t))
    /\ UNCHANGED <<set, actt, queue, out, device, late, final, stopped, stops, found>>

\* the verifying read: equal, different, or itself failed
Verify(t) ==
    /\ Step(t) = "verify"
    /\ LET whole == \A w \in {1, 2} : device[w] = task[t].job IN
       \/ /\ whole /\ Done(t)
          /\ found' = found \union {task[t].job}
       \/ /\ ~whole /\ Again(t)
          /\ UNCHANGED found
       \/ /\ IF Writing.reread THEN Fails(t) ELSE Again(t)
          /\ UNCHANGED found
    /\ UNCHANGED <<set, actt, queue, out, device, late, final, stopped, stops>>

\* the bulk write's verification: the variable is read, or the attempt failed
Reread(t) ==
    /\ Step(t) = "reread"
    /\ Done(t) \/ Again(t)
    /\ UNCHANGED <<set, actt, queue, out, device, late, final, stopped, stops, found>>

\* the worker has published the message, or the call's time is over
Processed(t) ==
    /\ Step(t) = "processed"
    /\ \/ (\A r \in late : r[1] # task[t].job) /\ Done(t)
       \/ Fails(t)
    /\ UNCHANGED <<set, actt, queue, out, device, late, final, stopped, stops, found>>

\* the device takes a request its sender had given up on, or never does
LateWrite ==
    \E r \in late :
        /\ late' = late \ {r}
        /\ \/ UNCHANGED device
           \/ device' = [w \in {1, 2} |-> IF w \in r[2] THEN r[1] ELSE device[w]]
        /\ UNCHANGED <<set, task, actt, queue, out, answer, final, stopped, stops, found>>

\* the task that publishes what the channel brings
Publish ==
    /\ out # <<>>
    /\ LET e == Head(out) IN
       final' = IF e[2] \in {"canceled", "completed", "failed"}
                THEN [final EXCEPT ![e[1]] = @ \union {e[2]}] ELSE final
    /\ out' = Tail(out)
    /\ UNCHANGED <<set, task, actt, queue, device, late, answer, stopped, stops, found>>

\* mark_terminated: an error unless the action is still in ACTT
terminate(j) ==
    /\ Queued /\ stops < MaxStops
    /\ stops' = stops + 1
    /\ actt' = actt \ {j}
    /\ stopped' = stopped \union (actt \intersect {j})
    /\ UNCHANGED <<set, task, queue, out, device, late, answer, final, found>>

\* mark_killed: every action of the item
kill ==
    /\ Queued /\ stops < MaxStops
    /\ stops' = stops + 1
    /\ actt' = {}
    /\ stopped' = stopped \union actt
    /\ UNCHANGED <<set, task, queue, out, device, late, answer, final, found>>

TaskStep(t) ==
    \/ Append_(t)
    \/ Enqueue(t)
    \/ Send(t)
    \/ Prepare(t)
    \/ WriteAnswered(t)
    \/ WriteFails(t)
    \/ Output(t)
    \/ Processed(t)
    \/ Verify(t)
    \/ Reread(t)

Next ==
    \/ \E j \in Job : Call(j)
    \/ TakeAction
    \/ \E t \in Task : TaskStep(t)
    \/ LateWrite
    \/ Publish
    \/ \E j \in Action : terminate(j)
    \/ kill

(***************************************************************************)
(* The runtime goes on with every task that can go on; an attempt to write *)
(* always ends, by an answer or by its timeout.                            *)
(***************************************************************************)
Fairness ==
    /\ \A t \in Task : WF_vars(TaskStep(t))
    /\ WF_vars(TakeAction)
    /\ WF_vars(Publish)

Spec == Init /\ [][Next]_vars /\ Fairness

(***************************************************************************)
(* The events of an action tell the truth.  An action has at most one      *)
(* final event.  One that terminate or kill has canceled is never written  *)
(* and never reported completed, wherever the cancellation fell between    *)
(* the call, the queue and the item's task.  With verification on, an      *)
(* action reported completed, or a write answered without an error, was    *)
(* read back whole from the device after the last attempt, whichever       *)
(* attempts failed, arrived late or wrote one word of two.  A bulk write   *)
(* of ads is not: its verification accepts any value it can read.          *)
(***************************************************************************)
ReportsTrue ==
    /\ \A j \in Action : Cardinality(final[j]) <= 1
    /\ \A j \in stopped :
          /\ "completed" \notin final[j]
          /\ \A w \in {1, 2} : device[w] # j
    /\ Queued /\ Writing.verify =>
          /\ \A j \in Action : "completed" \in final[j] => j \in found
          /\ ~set.bulk => \A j \in Direct : answer[j] = "ok" => j \in found

(***************************************************************************)
(* Every call is answered, and an action whose call was accepted gets its  *)
(* final event on the bus, with the queue and the channel full, attempts   *)
(* failing and cancellations in between.                                   *)
(***************************************************************************)
Settled ==
    /\ \A j \in Job : task[j] # Idle => answer[j] # "none"
    /\ \A j \in Action : answer[j] = "ok" => final[j] # {}

=============================================================================
