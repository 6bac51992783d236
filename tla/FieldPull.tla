------------------------------ MODULE FieldPull ------------------------------
(***************************************************************************)
(* How a field controller brings the values of a device to the core: the   *)
(* pull loops of svc/controller-modbus, enip, ads, opcua, w1 and virtual,  *)
(* the update commands of controller-sr and the input of controller-pubsub.*)
(* A round reads the registers, register by register or all at once, turns *)
(* them into states of the mapped items, drops the states the cache knows  *)
(* and offers the others to a bounded channel without waiting; a task      *)
(* publishes what the channel brings.  When the link fails, some of the    *)
(* controllers mark the items, others only ask for a panic: the service    *)
(* then dies, is run once more to mark every mapped item as failed ("react *)
(* to failure" mode) and is started again.                                 *)
(*                                                                         *)
(* A register holds a value, "odd" (a value the item's transformation      *)
(* rejects) or "fail" (the device refuses to read it).                     *)
(***************************************************************************)
EXTENDS Naturals, Sequences, FiniteSets, SequencesExt

CONSTANTS
    Item,
    Reg,        \* a sequence: the order the registers are read in
    Value,
    Settings,   \* [ctl, panic, ttl, map]: the configurations explored; map[r]
                \* is the set of the items register r is mapped to
    QueueSize,  \* capacity of the channel
    MaxChanges, \* bound: changes of the device and of the link
    MaxLags,    \* bound: rounds that begin before the channel is empty
    None

VARIABLES
    set,        \* the configuration, chosen once
    dev,        \* per register: what the device holds
    link,       \* the device can be reached
    up,         \* the service runs
    doomed,     \* poc() was called: the service panics
    valid,      \* ads: the handles, opcua: the session, can be used
    symbols,    \* ads: the registers that had a handle at start
    coming,     \* pubsub: messages not processed yet
    round,      \* the round: [todo, pulled, failed, send]
    cache,      \* RawStateCache: per item the last state passed on, its age
    out,        \* the channel to the publisher
    shown,      \* per item: the state the core was told
    changes,
    lags

vars == <<set, dev, link, up, doomed, valid, symbols, coming, round, cache,
          out, shown, changes, lags>>

Registers == Range(Reg)

NoRound == [todo |-> <<>>, pulled |-> [i \in Item |-> None], failed |-> {}, send |-> {}]

Init ==
    /\ set \in Settings
    /\ \E v \in Value : dev = [r \in Registers |-> v]
    /\ link = TRUE
    /\ up = TRUE
    /\ doomed = FALSE
    /\ valid = TRUE
    /\ symbols = Registers
    /\ coming = IF set.ctl = "pubsub" THEN <<dev>> ELSE <<>>
    /\ round = NoRound
    /\ cache = [i \in Item |-> None]
    /\ out = <<>>
    /\ shown = [i \in Item |-> [status |-> "error", value |-> None]]
    /\ changes = 0
    /\ lags = 0

(***************************************************************************)
(* What reading x does to a mapped item: a value, a failure, or nothing;   *)
(* and whether it calls poc().                                             *)
(***************************************************************************)
Pulled(x) == [to |-> "value", value |-> x, poc |-> FALSE]

Failed(poc) == [to |-> "failed", value |-> None, poc |-> poc]

Nothing == [to |-> "none", value |-> None, poc |-> FALSE]

\* a holding register whose value cannot be transformed is passed over
modbus_pull(x) ==
    CASE x = "fail" -> Failed(FALSE)
      [] x = "odd"  -> Nothing
      [] OTHER      -> Pulled(x)

enip_pull_plc(x) ==
    CASE x = "fail" -> Failed(TRUE)
      [] x = "odd"  -> Failed(FALSE)
      [] OTHER      -> Pulled(x)

ads_pull(x) == IF x \in {"fail", "odd"} THEN Failed(FALSE) ELSE Pulled(x)

opcua_pull(x) == IF x \in {"fail", "odd"} THEN Failed(FALSE) ELSE Pulled(x)

\* the value is sent as it is when it cannot be transformed
w1_pull(x) == IF x = "fail" THEN Failed(FALSE) ELSE Pulled(x)

\* an unknown variable, an index out of range
virtual_puller(x) == IF x \in {"fail", "odd"} THEN Failed(FALSE) ELSE Pulled(x)

\* a failed command, a line that is missing or cannot be parsed
sr_update_handler(x) == IF x \in {"fail", "odd"} THEN Failed(FALSE) ELSE Pulled(x)

\* the path is not in the message, the value cannot be transformed
process_input_payload(x) == IF x \in {"fail", "odd"} THEN Nothing ELSE Pulled(x)

Process(x) ==
    CASE set.ctl = "modbus"  -> modbus_pull(x)
      [] set.ctl = "enip"    -> enip_pull_plc(x)
      [] set.ctl = "ads"     -> ads_pull(x)
      [] set.ctl = "opcua"   -> opcua_pull(x)
      [] set.ctl = "w1"      -> w1_pull(x)
      [] set.ctl = "virtual" -> virtual_puller(x)
      [] set.ctl = "sr"      -> sr_update_handler(x)
      [] OTHER               -> process_input_payload(x)

\* read_multi, a command or a message bring all registers at once
Whole == set.ctl \in {"ads", "opcua", "sr", "pubsub"}

\* the read of all registers fails as a whole and marks no item
Unmarked == set.ctl \in {"ads", "opcua"}

\* these wait for room in the channel
Waits == set.ctl \in {"virtual", "pubsub"}

\* every state passes
Uncached == set.ctl \in {"virtual", "sr"}

\* sr publishes by itself
Direct == set.ctl = "sr"

(***************************************************************************)
(* RawStateCache: a state passes when it differs from the last one passed  *)
(* on, or when that one has expired                                        *)
(***************************************************************************)
retain_map_modified(i, s) ==
    \/ cache[i] = None
    \/ cache[i].state # s
    \/ cache[i].age >= set.ttl

(***************************************************************************)
(* Rounds                                                                  *)
(***************************************************************************)

Resting == round.todo = <<>> /\ round.send = {}

\* one register's value, x, into the round
Take(rd, r, x) ==
    LET p == Process(x) IN
    [rd EXCEPT !.pulled = [i \in Item |-> IF p.to = "value" /\ i \in set.map[r]
                                           THEN p.value ELSE @[i]],
               !.failed = @ \union (IF p.to = "failed" THEN set.map[r] ELSE {})]

\* what the registers of the round amount to, the failed items last
States(rd) ==
    {<<i, IF i \in rd.failed THEN [status |-> "error", value |-> rd.pulled[i]]
                             ELSE [status |-> "ok", value |-> rd.pulled[i]]>> :
       i \in {j \in Item : j \in rd.failed \/ rd.pulled[j] # None}}

\* the round goes on to its sending part: the cache is updated before
Close(rd) ==
    LET now == States(rd)
        new == {e \in now : Uncached \/ retain_map_modified(e[1], e[2])} IN
    /\ round' = [NoRound EXCEPT !.send = new]
    /\ cache' = [i \in Item |->
                   IF \E e \in new : e[1] = i
                   THEN [state |-> (CHOOSE e \in new : e[1] = i)[2], age |-> 0]
                   ELSE cache[i]]

\* the interval elapses; sr: or a trigger of an action or of the call "update"
Tick ==
    /\ up /\ Resting /\ set.ctl # "pubsub"
    /\ IF out = <<>> THEN UNCHANGED lags ELSE lags < MaxLags /\ lags' = lags + 1
    /\ round' = [NoRound EXCEPT !.todo = SelectSeq(Reg, LAMBDA r : r \in symbols)]
    /\ cache' = [i \in Item |-> IF cache[i] = None \/ cache[i].age >= set.ttl THEN cache[i]
                                ELSE [cache[i] EXCEPT !.age = @ + 1]]
    /\ UNCHANGED <<set, dev, link, up, doomed, valid, symbols, coming, out, shown, changes>>

Read(r) == IF link /\ valid THEN dev[r] ELSE "fail"

\* one register is read.  The pullers of w1, one per item, share nothing but
\* the channel and are taken in turn
PullOne ==
    /\ round.todo # <<>> /\ ~Whole
    /\ LET r  == Head(round.todo)
           rd == [Take(round, r, Read(r)) EXCEPT !.todo = Tail(@)] IN
       /\ IF rd.todo = <<>> THEN Close(rd) ELSE round' = rd /\ UNCHANGED cache
       /\ doomed' = (doomed \/ (set.panic /\ Process(Read(r)).poc))
    /\ UNCHANGED <<set, dev, link, up, valid, symbols, coming, out, shown, changes, lags>>

\* all are read; a read that fails as a whole asks for a panic, and the ads
\* controller releases its handles before
PullAll ==
    /\ round.todo # <<>> /\ Whole
    /\ IF ~link /\ Unmarked
       THEN /\ round' = NoRound
            /\ doomed' = (doomed \/ set.panic)
            /\ valid' = FALSE
            /\ UNCHANGED cache
       ELSE /\ Close([FoldLeft(LAMBDA rd, r : Take(rd, r, Read(r)), round, round.todo)
                         EXCEPT !.todo = <<>>])
            /\ UNCHANGED <<doomed, valid>>
    /\ UNCHANGED <<set, dev, link, up, symbols, coming, out, shown, changes, lags>>

\* pubsub: the next message
HandleInput ==
    /\ up /\ Resting /\ coming # <<>>
    /\ Close(FoldLeft(LAMBDA rd, r : Take(rd, r, Head(coming)[r]), NoRound, Reg))
    /\ coming' = Tail(coming)
    /\ UNCHANGED <<set, dev, link, up, doomed, valid, symbols, out, shown, changes, lags>>

\* a raw state without a value leaves the item's value as it is
Told(i, s) ==
    shown' = [shown EXCEPT ![i] =
                [status |-> s.status, value |-> IF s.value = None THEN @.value ELSE s.value]]

\* try_send: a full channel loses the state; virtual and pubsub wait
SendState ==
    \E e \in round.send :
        /\ round' = [round EXCEPT !.send = @ \ {e}]
        /\ IF Direct
           THEN Told(e[1], e[2]) /\ UNCHANGED out
           ELSE /\ Waits => Len(out) < QueueSize
                /\ out' = IF Len(out) < QueueSize THEN Append(out, e) ELSE out
                /\ UNCHANGED shown
        /\ UNCHANGED <<set, dev, link, up, doomed, valid, symbols, coming, cache, changes, lags>>

Publish ==
    /\ up /\ out # <<>>
    /\ Told(Head(out)[1], Head(out)[2])
    /\ out' = Tail(out)
    /\ UNCHANGED <<set, dev, link, up, doomed, valid, symbols, coming, round, cache, changes, lags>>

(***************************************************************************)
(* The service                                                             *)
(***************************************************************************)

\* opcua: the watcher of the session, ads: the ping, pubsub: the tester;
\* the session is not opened again
Watch ==
    /\ up /\ ~link /\ set.ctl \in {"ads", "opcua", "pubsub"} /\ ~doomed
    /\ set.panic
    /\ doomed' = TRUE
    /\ valid' = (set.ctl # "opcua" /\ valid)
    /\ UNCHANGED <<set, dev, link, up, symbols, coming, round, cache, out, shown, changes, lags>>

\* the panic, and the run in react-to-failure mode that marks every item
Panic ==
    /\ up /\ doomed
    /\ up' = FALSE /\ doomed' = FALSE
    /\ round' = NoRound /\ out' = <<>>
    /\ coming' = <<>>
    /\ shown' = [i \in Item |-> [shown[i] EXCEPT !.status = "error"]]
    /\ UNCHANGED <<set, dev, link, valid, symbols, cache, changes, lags>>

\* the start: with the link down it fails and the items stay marked.  ads
\* pulls only what it got a handle for, and marks the rest.  A broker sends
\* the last message of a topic to a new subscriber
Start ==
    /\ ~up /\ link
    /\ up' = TRUE
    /\ valid' = TRUE
    /\ symbols' = IF set.ctl = "ads" THEN {r \in Registers : dev[r] # "fail"} ELSE Registers
    /\ cache' = [i \in Item |-> None]
    /\ coming' = IF set.ctl = "pubsub" THEN <<dev>> ELSE <<>>
    /\ UNCHANGED <<set, dev, link, doomed, round, out, shown, changes, lags>>

(***************************************************************************)
(* The device                                                              *)
(***************************************************************************)
DeviceChanges ==
    /\ changes < MaxChanges
    /\ \E r \in Registers, x \in Value \union {"odd", "fail"} :
          /\ x # dev[r]
          /\ dev' = [dev EXCEPT ![r] = x]
    /\ changes' = changes + 1
    /\ coming' = IF set.ctl = "pubsub" /\ link /\ up THEN Append(coming, dev') ELSE coming
    /\ UNCHANGED <<set, link, up, doomed, valid, symbols, round, cache, out, shown, lags>>

LinkChanges ==
    /\ changes < MaxChanges /\ set.ctl # "virtual"
    /\ link' = ~link
    /\ changes' = changes + 1
    /\ UNCHANGED <<set, dev, up, doomed, valid, symbols, coming, round, cache, out, shown, lags>>

Next ==
    \/ Tick \/ PullOne \/ PullAll \/ HandleInput \/ SendState \/ Publish
    \/ Watch \/ Panic \/ Start
    \/ DeviceChanges \/ LinkChanges

(***************************************************************************)
(* Timers fire, tasks that can go on do, and the launcher starts a service *)
(* that died again.  The device owes nothing.                              *)
(***************************************************************************)
Fairness ==
    /\ WF_vars(Tick) /\ WF_vars(PullOne) /\ WF_vars(PullAll) /\ WF_vars(HandleInput)
    /\ WF_vars(SendState) /\ WF_vars(Publish)
    /\ WF_vars(Watch) /\ WF_vars(Panic) /\ WF_vars(Start)

Spec == Init /\ [][Next]_vars /\ Fairness

RegsOf(i) == {r \in Registers : i \in set.map[r]}

\* the register whose value an item takes: the last one read
LastReg(i) == Reg[CHOOSE n \in DOMAIN Reg :
                    /\ i \in set.map[Reg[n]]
                    /\ \A m \in n + 1 .. Len(Reg) : i \notin set.map[Reg[m]]]

\* the configurations that can come back after the link was down
Recovers == Unmarked => set.panic

\* the controllers that tell the core of a value they cannot transform
Objects == set.ctl \in {"enip", "ads", "opcua", "virtual", "sr"}

\* enip with panic_in: one tag that cannot be read restarts the service, for all
Steady == set.ctl = "enip" /\ set.panic => \A r \in Registers : dev[r] # "fail"

Settled(i) ==
    /\ Recovers /\ Steady /\ link /\ RegsOf(i) \subseteq symbols
       /\ (\A r \in RegsOf(i) : dev[r] \in Value)
          => shown[i] = [status |-> "ok", value |-> dev[LastReg(i)]]
    /\ Recovers /\ ~link /\ (set.ctl = "pubsub" => set.panic) => shown[i].status = "error"
    /\ Recovers /\ link /\ set.ctl # "pubsub" /\ (\E r \in RegsOf(i) : dev[r] = "fail")
          => shown[i].status = "error"
    /\ Recovers /\ link /\ Objects /\ (\E r \in RegsOf(i) : dev[r] = "odd")
          => shown[i].status = "error"

(***************************************************************************)
(* Once the device stays as it is, the core is told and goes on being told *)
(* the truth about every mapped item: the value of its last register when  *)
(* all of them can be read, an error when one cannot or the link is down;  *)
(* whatever the channel lost while it was full, wherever the device        *)
(* changed within a round, however often the service died.                 *)
(***************************************************************************)
ShownTrue == \A i \in Item : Settled(i)

=============================================================================
