--------------------------- MODULE UniReplication ---------------------------
(***************************************************************************)
(* One-way replication over UDP: svc/repl-uni sends the states of its      *)
(* node in bulk frames, svc/repl of another node receives them and hands   *)
(* them to its core.  Nothing comes back to the sender, so a lost frame is *)
(* made good only by the periodic submission of all items.                 *)
(*                                                                         *)
(* The receiver knows the sender by its announcements.  A node it has      *)
(* discovered is removed as soon as it is taken for offline, and the core  *)
(* destroys its items; only an inventory record creates an item again, a   *)
(* state event of an unknown item is an error.                             *)
(***************************************************************************)
EXTENDS Naturals, Sequences, SequencesExt, FiniteSets

CONSTANTS
    Items,      \* the number of items of the sending node
    SizeOf(_),  \* bytes a record of the item takes in a frame
    MaxSize,    \* mtu less the header of a frame
    MaxNet,     \* bound: frames on their way at once
    QueueSize,  \* pubsub.queue_size
    BusSize,    \* records the receiver's bus holds before the core takes one
    Settings,   \* configurations explored: [send, interval, discovery]
    MaxChanges, \* bound: new states of the items
    MaxFaults,  \* bound: frames lost or doubled, keys not got, restarts, time-outs
    None

VARIABLES
    set,        \* one of Settings, chosen once
    ieid,       \* per item: its version at the sender's core
    waiting,    \* event handlers that wait for a place in the queue
    queue,      \* channel from the handlers to the sender task
    buf,        \* data_buf
    sender,     \* the sender task: "runs" or "panicked"
    submitter,  \* submit_periodic: "sleeps", "sends" or "panicked"
    list,       \* the items it has got from the core
    net,        \* frames on their way
    goodbye,    \* the announcement of the end of the service is on its way
    node,       \* the sender at the receiver: "unknown", "offline" or "online"
    removed,    \* "node removed" events the core has not handled
    bus,        \* data published to the core and not yet applied
    changes,
    shown,      \* per item: its version at the receiver's core, None: no such item
    faults

vars == <<set, ieid, waiting, queue, buf, sender, submitter, list, net, goodbye, node,
          removed, bus, changes, shown, faults>>

Item == 1 .. Items

Init ==
    /\ set \in Settings
    /\ ieid = [i \in Item |-> 1]
    /\ waiting = {} /\ queue = <<>> /\ buf = <<>>
    /\ sender = "runs" /\ submitter = "sleeps" /\ list = <<>>
    /\ net = {} /\ goodbye = FALSE
    /\ node = IF set.discovery THEN "unknown" ELSE "offline"
    /\ removed = FALSE /\ bus = <<>>
    /\ shown = [i \in Item |-> None]
    /\ changes = 0 /\ faults = 0

receiverVars == <<node, removed, bus, shown>>

senderVars == <<ieid, changes, waiting, queue, buf, sender, submitter, list>>

Transmit(frames) ==
    /\ Cardinality(net \union frames) <= MaxNet
    /\ net' = net \union frames

Fault == faults < MaxFaults /\ faults' = faults + 1

(***************************************************************************)
(* Packing a list of records into frames                                   *)
(***************************************************************************)

\* send_frame skips a frame without records
send_frame(packet, frames) == IF packet = <<>> THEN frames ELSE frames \union {packet}

\* the record that does not fit begins the next frame
AddRecord(acc, d) ==
    IF acc.size + SizeOf(d.i) > MaxSize
    THEN [frames |-> send_frame(acc.packet, acc.frames), packet |-> <<d>>, size |-> SizeOf(d.i)]
    ELSE [acc EXCEPT !.packet = Append(@, d), !.size = @ + SizeOf(d.i)]

notify(data) ==
    LET Packed[k \in 0 .. Len(data)] ==
            IF k = 0 THEN [frames |-> {}, packet |-> <<>>, size |-> 0]
            ELSE AddRecord(Packed[k - 1], data[k])
        last == Packed[Len(data)]
    IN send_frame(last.packet, last.frames)

(***************************************************************************)
(* The sending service                                                     *)
(***************************************************************************)

\* handle_frame, process_local_state: an event for each new state; the
\* channel of a sender task that is gone refuses it
SourceChanges(i) ==
    /\ changes < MaxChanges /\ changes' = changes + 1
    /\ ieid' = [ieid EXCEPT ![i] = @ + 1]
    /\ waiting' = IF sender = "runs"
                  THEN waiting \union {[i |-> i, n |-> ieid[i] + 1, kind |-> "state"]}
                  ELSE waiting
    /\ UNCHANGED <<set, queue, buf, sender, submitter, list, net, goodbye, receiverVars, faults>>

process_local_state(d) ==
    /\ d \in waiting /\ Len(queue) < QueueSize
    /\ waiting' = waiting \ {d}
    /\ queue' = Append(queue, d)
    /\ UNCHANGED <<set, ieid, changes, buf, sender, submitter, list, net, goodbye, receiverVars, faults>>

\* sender: with "send" the state is buffered; without it notify reads a
\* configuration that was never set, and the task panics
SenderTakes ==
    /\ sender = "runs" /\ queue # <<>>
    /\ IF set.send
       THEN /\ buf' = Append(buf, Head(queue))
            /\ queue' = Tail(queue)
            /\ UNCHANGED <<sender, waiting>>
       ELSE /\ sender' = "panicked" /\ queue' = <<>> /\ waiting' = {}
            /\ UNCHANGED buf
    /\ UNCHANGED <<set, ieid, changes, submitter, list, net, goodbye, receiverVars, faults>>

\* buf_interval ticks; the buffer is cleared whether or not it was sent
SenderTick ==
    /\ sender = "runs" /\ buf # <<>>
    /\ buf' = <<>>
    /\ \/ Transmit(notify(buf)) /\ UNCHANGED faults
       \/ Fault /\ UNCHANGED net
    /\ UNCHANGED <<set, ieid, changes, waiting, queue, sender, submitter, list, goodbye, receiverVars>>

\* submit_periodic: item.list, then notify
ListItems ==
    /\ set.interval /\ submitter = "sleeps"
    /\ submitter' = "sends"
    /\ list' = [i \in Item |-> [i |-> i, n |-> ieid[i], kind |-> "inventory"]]
    /\ UNCHANGED <<set, ieid, changes, waiting, queue, buf, sender, net, goodbye, receiverVars, faults>>

Submit ==
    /\ submitter = "sends" /\ list' = <<>>
    /\ IF set.send
       THEN /\ submitter' = "sleeps"
            /\ \/ Transmit(notify(list)) /\ UNCHANGED faults
               \/ Fault /\ UNCHANGED net
       ELSE submitter' = "panicked" /\ UNCHANGED <<net, faults>>
    /\ UNCHANGED <<set, ieid, changes, waiting, queue, buf, sender, goodbye, receiverVars>>

\* the service ends with an announcement and is started again; what it has
\* not sent is lost, and it does not ask for the states it has missed
Restart ==
    /\ Fault
    /\ waiting' = {} /\ queue' = <<>> /\ buf' = <<>>
    /\ sender' = "runs" /\ submitter' = "sleeps" /\ list' = <<>>
    /\ goodbye' = TRUE
    /\ UNCHANGED <<set, ieid, changes, net, receiverVars>>

(***************************************************************************)
(* The receiving service and its core                                      *)
(***************************************************************************)

\* a frame arrives and may arrive once more
Arrives(m) ==
    /\ m \in net
    /\ \/ net' = net \ {m} /\ UNCHANGED faults
       \/ Fault /\ UNCHANGED net

Lose(m) ==
    /\ m \in net /\ net' = net \ {m}
    /\ Fault
    /\ UNCHANGED <<set, senderVars, goodbye, receiverVars>>

\* One of the announcements the service repeats arrives.  append_node: a
\* node without API is created offline, with the event that it was removed;
\* a known one is left as it is
append_discovered_node ==
    /\ set.discovery /\ node = "unknown"
    /\ node' = "offline" /\ removed' = TRUE
    /\ UNCHANGED <<set, senderVars, net, goodbye, bus, shown, faults>>

\* mark_node with online = false: a discovered node that was online is removed
MarkOffline ==
    /\ node' = CASE node # "online" -> node
                 [] set.discovery -> "unknown"
                 [] OTHER -> "offline"
    /\ removed' = (removed \/ (node = "online" /\ set.discovery))

discovery_handler ==
    /\ goodbye /\ goodbye' = FALSE
    /\ MarkOffline
    /\ UNCHANGED <<set, senderVars, net, bus, shown, faults>>

\* state_checker: no frame for the time-out of the node
state_checker ==
    /\ node = "online" /\ Fault
    /\ MarkOffline
    /\ UNCHANGED <<set, senderVars, net, goodbye, bus, shown>>

\* frames of an unknown node are ignored
ps_process_bulk_state(m) ==
    /\ Len(bus) + Len(m) <= BusSize
    /\ Arrives(m)
    /\ IF node = "unknown"
       THEN UNCHANGED <<node, bus>>
       ELSE node' = "online" /\ bus' = bus \o m
    /\ UNCHANGED <<set, senderVars, goodbye, removed, shown>>

\* Faulty variant of update_state_from_repl: an older state is applied too.
UpdateAny ==
    /\ bus # <<>> /\ bus' = Tail(bus)
    /\ LET d == Head(bus) IN shown' = [shown EXCEPT ![d.i] = d.n]
    /\ UNCHANGED <<set, senderVars, net, goodbye, node, removed, faults>>

\* the core: an inventory record creates an unknown item, and only a newer
\* state is applied
update_state_from_repl ==
    /\ bus # <<>> /\ bus' = Tail(bus)
    /\ LET d == Head(bus) IN
       shown' = IF \/ shown[d.i] = None /\ d.kind = "inventory"
                   \/ shown[d.i] # None /\ d.n > shown[d.i]
                THEN [shown EXCEPT ![d.i] = d.n] ELSE shown
    /\ UNCHANGED <<set, senderVars, net, goodbye, node, removed, faults>>

\* the core handles node events on a channel of its own
destroy_source ==
    /\ removed
    /\ removed' = FALSE
    /\ shown' = [i \in Item |-> None]
    /\ UNCHANGED <<set, senderVars, net, goodbye, node, bus, faults>>

Receive == \E m \in net : ps_process_bulk_state(m)

Handle == \E d \in waiting : process_local_state(d)

Next ==
    \/ \E i \in Item : SourceChanges(i)
    \/ Handle \/ SenderTakes \/ SenderTick \/ ListItems \/ Submit \/ Restart
    \/ \E m \in net : Lose(m)
    \/ append_discovered_node \/ discovery_handler \/ state_checker \/ Receive
    \/ update_state_from_repl \/ destroy_source

\* the frame brings the last version of the item, with its inventory record
Carries(m, i) == [i |-> i, n |-> ieid[i], kind |-> "inventory"] \in Range(m)

\* The tasks keep running and the interval timers ticking; datagrams are
\* lost or doubled only finitely often (MaxFaults)
Fairness ==
    /\ WF_vars(Handle) /\ WF_vars(SenderTakes) /\ WF_vars(SenderTick)
    /\ WF_vars(ListItems) /\ WF_vars(Submit)
    /\ WF_vars(append_discovered_node) /\ WF_vars(discovery_handler)
    /\ \A i \in Item : SF_vars(\E m \in net : Carries(m, i) /\ ps_process_bulk_state(m))
    /\ WF_vars(Receive) /\ WF_vars(update_state_from_repl) /\ WF_vars(destroy_source)

Spec == Init /\ [][Next]_vars /\ Fairness

(***************************************************************************)
(* Properties                                                              *)
(***************************************************************************)

\* The frames that notify (repl-uni eapi.rs) makes of the buffer and of the
\* list of all items carry each of the records, none of them is empty, and a
\* frame is longer than the MTU allows only if a single record is.
FramesCarryAll ==
    \A data \in {buf, list} :
        LET frames == notify(data)
        IN /\ UNION {Range(f) : f \in frames} = Range(data)
           /\ \A f \in frames : /\ f # <<>>
                               /\ \/ Len(f) = 1
                                  \/ FoldSeq(LAMBDA d, n : SizeOf(d.i) + n, 0, f) <= MaxSize

\* With "send" and "interval" in its configuration the sender brings the
\* receiver to the last state of every item, whatever datagrams are lost or
\* doubled and whenever the service restarts or its node is taken for lost:
\* items destroyed with a removed node are created again by submit_periodic.
UniCaughtUp == set.send /\ set.interval => shown = ieid

\* A replica never goes back to an older version while it exists
\* (update_state_from_repl), although state events, periodic lists and
\* doubled datagrams overtake each other.
Forward == \A i \in Item : shown[i] # None /\ shown'[i] # None => shown'[i] >= shown[i]
=============================================================================
