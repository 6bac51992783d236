----------------------------- MODULE HmiSockets -----------------------------
(***************************************************************************)
(* A web socket of the HMI service and the states of one item it shows     *)
(* (svc/hmi/src/handler.rs): events of the core are handled by tasks of    *)
(* their own, the initial state is asked for by another one, and all of    *)
(* them put frames into the queue of the socket, from which its sender     *)
(* takes them, one by one or in bulks.                                     *)
(*                                                                         *)
(* A state is known by its IEID, which grows with each event.              *)
(***************************************************************************)
EXTENDS Naturals, Sequences, FiniteSets

CONSTANTS MaxIeid,     \* bound: states of the item
          QueueSize,   \* WS_QUEUE
          MaxCommands  \* bound: commands of the client

VARIABLES how,         \* the socket: [early: subscribed by its URL, buffered: has a buf_ttl]
          ieid,        \* the state of the item in the core
          events,      \* events on the bus
          sends,       \* tasks that send a state: [i, pc, init]
          sock,        \* the socket: new, open, ending (tx closed), closed
          subscribed,  \* is the socket in WS_SUB for the item
          repl,        \* WsTx.repl of the item, 0: no entry
          queue, buf,  \* frames for the sender; its buffer of states
          shown,       \* the state the client has last received, 0: none
          commands,    \* use of the bound
          swapped, blind \* history: a send was overtaken; the initial state was read by a
                       \* socket not yet subscribed

vars == <<how, ieid, events, sends, sock, subscribed, repl, queue, buf, shown, commands,
          swapped, blind>>
Bye == 0

Init ==
  /\ how \in [early : BOOLEAN, buffered : BOOLEAN]
  /\ ieid = 1 /\ events = {} /\ sends = {}
  /\ sock = "new" /\ subscribed = FALSE /\ repl = 0 /\ queue = <<>> /\ buf = <<>> /\ shown = 0
  /\ commands = 0 /\ swapped = FALSE /\ blind = FALSE

\* The core publishes a new state.
Event ==
  /\ ieid < MaxIeid /\ ieid' = ieid + 1
  /\ events' = events \union {ieid + 1}
  /\ UNCHANGED <<how, sends, sock, subscribed, repl, queue, buf, shown, commands, swapped, blind>>

----------------------------------------------------------------------------
(* The socket and its commands *)

Reading == [i |-> 0, pc |-> "read", init |-> TRUE]

\* handle_web_request: the handler, which subscribes the socket, and the task of the initial
\* state are started one after the other.
OpenSocket ==
  /\ sock = "new" /\ sock' = "open"
  /\ sends' = IF how.early THEN sends \union {Reading} ELSE sends
  /\ UNCHANGED <<how, ieid, events, subscribed, repl, queue, buf, shown, commands, swapped, blind>>

\* serve_websocket, the masks of the URL
SubscribeEarly ==
  /\ sock = "open" /\ how.early /\ commands = 0 /\ ~subscribed
  /\ subscribed' = TRUE
  /\ UNCHANGED <<how, ieid, events, sends, sock, repl, queue, buf, shown, commands, swapped, blind>>

Command == sock = "open" /\ (how.early => subscribed) /\ commands < MaxCommands
           /\ commands' = commands + 1

\* subscribe.state_initial
SubscribeInitial ==
  /\ Command
  /\ subscribed' = TRUE /\ sends' = sends \union {Reading}
  /\ UNCHANGED <<how, ieid, events, sock, repl, queue, buf, shown, swapped, blind>>

\* unsubscribe.state.  What the client sees from now on is of no concern until it subscribes
\* again; an entry of repl stays.
Unsubscribe ==
  /\ Command /\ ~how.early /\ subscribed' = FALSE
  /\ UNCHANGED <<how, ieid, events, sends, sock, repl, queue, buf, shown, swapped, blind>>

----------------------------------------------------------------------------
(* Sending *)

\* notify_state: the subscribers are listed.
NotifyState(i) ==
  /\ i \in events /\ events' = events \ {i}
  /\ sends' = IF subscribed THEN sends \union {[i |-> i, pc |-> "guard", init |-> FALSE]} ELSE sends
  /\ UNCHANGED <<how, ieid, sock, subscribed, repl, queue, buf, shown, commands, swapped, blind>>

\* send_initial: the state is asked from the core.
ReadInitial(t) ==
  /\ t \in sends /\ t.pc = "read"
  /\ sends' = (sends \ {t}) \union {[i |-> ieid, pc |-> "guard", init |-> TRUE]}
  /\ blind' = (blind \/ ~subscribed)
  /\ UNCHANGED <<how, ieid, events, sock, subscribed, repl, queue, buf, shown, commands, swapped>>

\* Faulty variant of Guard: an older state is sent too.
GuardNot(t) ==
  /\ t \in sends /\ t.pc = "guard"
  /\ sends' = (sends \ {t}) \union {[t EXCEPT !.pc = "send"]} /\ repl' = t.i
  /\ UNCHANGED <<how, ieid, events, sock, subscribed, queue, buf, shown, commands, swapped, blind>>

\* try_send_state_frame, under the lock of repl: an older state is skipped.
Guard(t) ==
  /\ t \in sends /\ t.pc = "guard"
  /\ IF repl > t.i THEN sends' = sends \ {t} /\ UNCHANGED repl
     ELSE sends' = (sends \ {t}) \union {[t EXCEPT !.pc = "send"]} /\ repl' = t.i
  /\ UNCHANGED <<how, ieid, events, sock, subscribed, queue, buf, shown, commands, swapped, blind>>

\* try_send, after the lock is released.  A full queue ends the socket: ask_terminate.
TrySend(t) ==
  /\ t \in sends /\ t.pc = "send" /\ sends' = sends \ {t}
  /\ swapped' = (swapped \/ repl > t.i)
  /\ IF sock \in {"ending", "closed"} THEN UNCHANGED <<queue, sock>>
     ELSE IF Len(queue) < QueueSize THEN queue' = Append(queue, t.i) /\ UNCHANGED sock
     ELSE sock' = "ending" /\ UNCHANGED queue
  /\ UNCHANGED <<how, ieid, events, subscribed, repl, buf, shown, commands, blind>>

\* serve_websocket_sender: a state is sent, or kept for the next bulk; a bye ends the sender.
Send ==
  /\ queue # <<>> /\ sock # "closed"
  /\ queue' = Tail(queue)
  /\ CASE Head(queue) = Bye -> sock' = "closed" /\ UNCHANGED <<buf, shown>>
       [] Head(queue) # Bye /\ how.buffered -> buf' = Append(buf, Head(queue)) /\ UNCHANGED <<sock, shown>>
       [] OTHER -> shown' = Head(queue) /\ UNCHANGED <<sock, buf>>
  /\ UNCHANGED <<how, ieid, events, sends, subscribed, repl, commands, swapped, blind>>

SendBulk ==
  /\ buf # <<>> /\ sock # "closed"
  /\ shown' = buf[Len(buf)] /\ buf' = <<>>
  /\ UNCHANGED <<how, ieid, events, sends, sock, subscribed, repl, queue, commands, swapped, blind>>

\* The channel is closed and empty, or the client is gone: sender and handler end.
EndSocket ==
  /\ (sock = "ending" /\ queue = <<>>) \/ (sock = "open" /\ commands < MaxCommands)
  /\ sock' = "closed" /\ subscribed' = FALSE
  /\ commands' = IF sock = "open" THEN commands + 1 ELSE commands
  /\ UNCHANGED <<how, ieid, events, sends, repl, queue, buf, shown, swapped, blind>>

\* WebSocket::terminate (a revoked token): a bye behind what is in the queue.
Terminate ==
  /\ sock = "open" /\ Len(queue) < QueueSize /\ Command
  /\ queue' = Append(queue, Bye) /\ sock' = "ending" /\ subscribed' = FALSE
  /\ UNCHANGED <<how, ieid, events, sends, repl, buf, shown, swapped, blind>>

Next ==
  \/ Event \/ OpenSocket \/ SubscribeEarly \/ SubscribeInitial \/ Unsubscribe
  \/ \E i \in events : NotifyState(i)
  \/ \E t \in sends : ReadInitial(t) \/ Guard(t) \/ TrySend(t)
  \/ Send \/ SendBulk \/ EndSocket \/ Terminate

Spec == Init /\ [][Next]_vars

----------------------------------------------------------------------------
(* When nothing is on its way, the client of a subscribed socket shows the *)
(* current state of the item, whatever the order in which events and the   *)
(* initial state were handled, unless a send was overtaken between the     *)
(* lock of repl and the queue, or the task of the initial state ran before *)
(* the handler had subscribed (try_send_state_frame, send_initial).        *)
AtRest == events = {} /\ sends = {} /\ queue = <<>> /\ buf = <<>>
ClientCurrent ==
  AtRest /\ sock = "open" /\ subscribed /\ ~swapped /\ ~blind => shown = ieid

(* The client never goes back to an older state, with the same exception   *)
(* (the comparison of IEIDs in try_send_state_frame).                      *)
Forward == ~swapped => shown' >= shown
============================================================================
