----------------------------- MODULE Expiration -----------------------------
(***************************************************************************)
(* svc/svc-expiration watches the events of items and, for an item without *)
(* events for its time, publishes a state event with an error status.  The *)
(* bus handler and the checker work on the watch of an item (the time of   *)
(* its last event, the expired flag) without a common lock.                *)
(*                                                                         *)
(* An lvar is watched by the states the core announces, so that its        *)
(* expiration is itself an event of it.                                    *)
(***************************************************************************)
EXTENDS Naturals, Sequences, FiniteSets

CONSTANTS
    Item, Lvar, \* the items watched and the lvars among them
    Expires,    \* ticks without an event
    MaxEvents   \* bound: states set by others

VARIABLES
    age,        \* per item: ticks since last_event, at most Expires
    expired,    \* per item: the expired flag
    frames,     \* bus frames for the service
    handling,   \* the item whose frame is being handled: last_event is set, the flag is not; or {}
    todo,       \* items the checker has to look at in this round
    checked,    \* the item found expired and not yet marked, or {}
    found,      \* items to publish
    inbox,      \* raw state events for the core: [i, ok]
    core,       \* per item: its status at the core is not an error
    events

vars == <<age, expired, frames, handling, todo, checked, found, inbox, core, events>>

Init ==
    /\ age = [i \in Item |-> 0] /\ expired = [i \in Item |-> FALSE]
    /\ frames = <<>> /\ handling = {} /\ todo = {} /\ checked = {} /\ found = {}
    /\ inbox = <<>> /\ core = [i \in Item |-> TRUE] /\ events = 0

watchVars == <<age, expired, handling, todo, checked, found>>

\* a field service publishes a state: the bus hands it to both
StateSet(i) ==
    /\ events < MaxEvents /\ events' = events + 1
    /\ inbox' = Append(inbox, [i |-> i, ok |-> TRUE])
    /\ frames' = IF i \in Lvar THEN frames ELSE Append(frames, i)
    /\ UNCHANGED <<watchVars, core>>

\* the core announces a state that differs
CoreApplies ==
    /\ inbox # <<>> /\ inbox' = Tail(inbox)
    /\ LET e == Head(inbox) IN
       /\ core' = [core EXCEPT ![e.i] = e.ok]
       /\ frames' = IF e.i \in Lvar /\ (e.ok \/ core[e.i]) THEN Append(frames, e.i) ELSE frames
    /\ UNCHANGED <<watchVars, events>>

Tick ==
    /\ \E i \in Item : age[i] < Expires
    /\ age' = [i \in Item |-> IF age[i] < Expires THEN age[i] + 1 ELSE age[i]]
    /\ UNCHANGED <<expired, frames, handling, todo, checked, found, inbox, core, events>>

(***************************************************************************)
(* The handler of bus frames                                               *)
(***************************************************************************)

handle_frame ==
    /\ frames # <<>> /\ handling = {}
    /\ frames' = Tail(frames) /\ handling' = {Head(frames)}
    /\ age' = [age EXCEPT ![Head(frames)] = 0]
    /\ UNCHANGED <<expired, todo, checked, found, inbox, core, events>>

handle_event ==
    /\ handling # {} /\ handling' = {}
    /\ expired' = [i \in Item |-> IF i \in handling THEN FALSE ELSE expired[i]]
    /\ UNCHANGED <<age, frames, todo, checked, found, inbox, core, events>>

(***************************************************************************)
(* The checker                                                             *)
(***************************************************************************)

Wake ==
    /\ todo = {} /\ checked = {} /\ found = {}
    /\ \E i \in Item : ~expired[i] /\ age[i] = Expires
    /\ todo' = Item
    /\ UNCHANGED <<age, expired, frames, handling, checked, found, inbox, core, events>>

is_expired(i) ==
    /\ i \in todo /\ checked = {}
    /\ todo' = todo \ {i}
    /\ checked' = IF ~expired[i] /\ age[i] = Expires THEN {i} ELSE {}
    /\ UNCHANGED <<age, expired, frames, handling, found, inbox, core, events>>

mark_expired ==
    /\ checked # {} /\ checked' = {}
    /\ expired' = [i \in Item |-> expired[i] \/ i \in checked]
    /\ found' = found \union checked
    /\ UNCHANGED <<age, frames, handling, todo, inbox, core, events>>

\* the frame of a sensor comes back to the service, which ignores its own
Publish(i) ==
    /\ todo = {} /\ checked = {} /\ i \in found
    /\ found' = found \ {i}
    /\ inbox' = Append(inbox, [i |-> i, ok |-> FALSE])
    /\ UNCHANGED <<age, expired, frames, handling, todo, checked, core, events>>

Checker == Wake \/ (\E i \in Item : is_expired(i) \/ Publish(i)) \/ mark_expired

Next ==
    \/ \E i \in Item : StateSet(i)
    \/ CoreApplies \/ Tick \/ handle_frame \/ handle_event \/ Checker

\* Time passes, and the core, the bus and the checker keep running
Spec ==
    /\ Init /\ [][Next]_vars
    /\ WF_vars(CoreApplies) /\ WF_vars(Tick) /\ WF_vars(handle_frame) /\ WF_vars(handle_event)
    /\ WF_vars(Checker)

(***************************************************************************)
(* Properties                                                              *)
(***************************************************************************)

\* An item that gets no more events is shown with the error status at last,
\* however its last events cross the checker between is_expired and
\* mark_expired or between mark_expired and publish.
Expired == \A i \in Item : ~core[i]
=============================================================================
