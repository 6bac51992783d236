----------------------------- MODULE LogicRules -----------------------------
(***************************************************************************)
(* Rules, cycles, jobs and parsers of the logic manager                    *)
(* (svc/controller-lm: main.rs, rule.rs, cycle.rs, job.rs, parser.rs).     *)
(*                                                                         *)
(* One item is watched.  Its states are numbered; Level[n] is the value of *)
(* state n.  A rule fires when the value enters its condition; with a      *)
(* chill-out time, what enters it meanwhile is kept, the last event only,  *)
(* and run when the time is over.                                          *)
(***************************************************************************)
EXTENDS Naturals, Sequences, FiniteSets, Functions

CONSTANTS
    Level,      \* the values of the states 1, 2, ... of the item
    Rules,      \* the rules in the order of priority:
                \* [match, initial, block, brk, chill], match a set of values, {} for any
    MaxCycleStarts,  \* bound: calls of cycle.start
    MaxRuns     \* bound: runs of the cycle's macro and of the job's

VARIABLES
    scene,      \* "rules" or "cycles": they share nothing, a behaviour explores one
    sent,       \* states published so far
    inbox,      \* the channel of the state handler
    prev,       \* PREV_STATES: the last state processed, 0 for none
    handler,    \* [pc, n, left]: the state at hand and the rules still to ask
    chill,      \* per rule: [active, event]
    launched,   \* per rule: the events whose macro was launched, in order
    running,    \* macros spawned and not ended: <<rule, event>>
    parsed,     \* the state whose parts the parsers published last, 0 for none
    pulling,    \* the parser's interval worker: the state it fetched, or 0
    cycle,      \* [status, fresh, loops]: the run() tasks spawned and those in the loop
    callers,    \* cycle.start calls between the check and the store
    begun, runs,
    job,        \* "sleeps", "runs" or "ends"
    entered,    \* per rule: the last event that entered its condition
    hasty       \* two starts overlapped, or a stop met a starting cycle

rulesVars == <<scene, sent, inbox, prev, handler, chill, launched, running, parsed, pulling, cycle,
          callers, begun, runs, job, entered, hasty>>

Rule == DOMAIN Rules

(***************************************************************************)
(* Rules                                                                   *)
(***************************************************************************)

\* Rule::matches
matches(r, v) == Rules[r].match = {} \/ v \in Rules[r].match

\* Rule::need_process: the value changed and was out of the condition before
need_process(r, v, p) ==
    IF p = 0 THEN Rules[r].initial # "skip"
    ELSE /\ Rules[r].initial # "only"
         /\ \/ Rules[r].match = {}
            \/ Level[p] # v /\ ~matches(r, Level[p])

Resting == [pc |-> "idle", n |-> 0, left |-> <<>>]

Quiet == [active |-> FALSE, event |-> 0]

RulesInit ==
    /\ scene \in {"rules", "cycles"}
    /\ sent = 0 /\ inbox = <<>> /\ prev = 0 /\ handler = Resting
    /\ chill = [r \in Rule |-> Quiet]
    /\ launched = [r \in Rule |-> <<>>]
    /\ running = {}
    /\ parsed = 0 /\ pulling = 0
    /\ cycle = [status |-> "stopped", fresh |-> 0, loops |-> 0]
    /\ callers = 0 /\ begun = 0 /\ runs = 0
    /\ job = "sleeps"
    /\ entered = [r \in Rule |-> 0]
    /\ hasty = FALSE

CycleVars == <<scene, cycle, callers, begun, runs, job, hasty>>

\* the core publishes the next state, handle_frame puts it in the channel
StateEvent ==
    /\ scene = "rules" /\ sent < Len(Level)
    /\ sent' = sent + 1
    /\ inbox' = Append(inbox, sent + 1)
    /\ UNCHANGED <<prev, handler, chill, launched, running, parsed, pulling, entered, CycleVars>>

\* state_handler takes an event; process_state asks the rules in their order
TakeState ==
    /\ handler.pc = "idle" /\ inbox # <<>>
    /\ handler' = [pc |-> "rules", n |-> Head(inbox), left |-> [r \in Rule |-> r]]
    /\ inbox' = Tail(inbox)
    /\ UNCHANGED <<sent, prev, chill, launched, running, parsed, pulling, entered, CycleVars>>

\* Rule::process: the macro is launched, awaited by a blocking rule; or the
\* event is kept while the rule chills out
ProcessRule ==
    /\ handler.pc = "rules" /\ handler.left # <<>>
    /\ LET r == Head(handler.left)
           n == handler.n
           fires == need_process(r, Level[n], prev) /\ matches(r, Level[n])
           after == IF fires /\ Rules[r].brk THEN <<>> ELSE Tail(handler.left) IN
       IF ~fires
       THEN /\ handler' = [handler EXCEPT !.left = after]
            /\ UNCHANGED <<chill, launched, running, entered>>
       ELSE /\ entered' = [entered EXCEPT ![r] = n]
            /\ IF chill[r].active
               THEN /\ chill' = [chill EXCEPT ![r].event = n]
                    /\ handler' = [handler EXCEPT !.left = after]
                    /\ UNCHANGED <<launched, running>>
               ELSE /\ chill' = IF Rules[r].chill THEN [chill EXCEPT ![r].active = TRUE] ELSE chill
                    /\ launched' = [launched EXCEPT ![r] = Append(@, n)]
                    /\ running' = running \union {<<r, n>>}
                    /\ handler' = [handler EXCEPT !.left = after,
                                     !.pc = IF Rules[r].block THEN "blocked" ELSE @]
    /\ UNCHANGED <<sent, inbox, prev, parsed, pulling, CycleVars>>

\* a macro ends, or its call times out; a blocking rule's event goes on
MacroEnds ==
    /\ \E m \in running :
         /\ running' = running \ {m}
         /\ handler' = IF handler.pc = "blocked" /\ Rules[m[1]].block /\ m[2] = handler.n
                       THEN [handler EXCEPT !.pc = "rules"] ELSE handler
    /\ UNCHANGED <<sent, inbox, prev, chill, launched, parsed, pulling, entered, CycleVars>>

\* process_chillout: spawned after a blocking macro ended
ChilloutEnds ==
    /\ \E r \in Rule :
         /\ chill[r].active
         /\ ~(handler.pc = "blocked" /\ <<r, handler.n>> \in running)
         /\ chill' = [chill EXCEPT ![r] = Quiet]
         /\ IF chill[r].event = 0
            THEN UNCHANGED <<launched, running>>
            ELSE /\ launched' = [launched EXCEPT ![r] = Append(@, chill[r].event)]
                 /\ running' = running \union {<<r, chill[r].event>>}
    /\ UNCHANGED <<sent, inbox, prev, handler, parsed, pulling, entered, CycleVars>>

\* process_state after the rules: the parsers, then the state is the last one
FinishState ==
    /\ handler.pc = "rules" /\ handler.left = <<>>
    /\ parsed' = handler.n
    /\ prev' = handler.n
    /\ handler' = Resting
    /\ UNCHANGED <<sent, inbox, chill, launched, running, pulling, entered, CycleVars>>

\* tick_group_interval: the state is fetched, then mapped and published
PullState ==
    /\ pulling = 0 /\ sent > 0 /\ parsed # sent
    /\ pulling' = sent
    /\ UNCHANGED <<sent, inbox, prev, handler, chill, launched, running, parsed, entered, CycleVars>>

PublishPulled ==
    /\ pulling # 0
    /\ parsed' = pulling
    /\ pulling' = 0
    /\ UNCHANGED <<sent, inbox, prev, handler, chill, launched, running, entered, CycleVars>>

(***************************************************************************)
(* Cycles and jobs                                                         *)
(***************************************************************************)

RuleVars == <<scene, sent, inbox, prev, handler, chill, launched, running, parsed, pulling, entered>>

\* cycle::start: the status is looked at
StartCycle ==
    /\ scene = "cycles" /\ begun < MaxCycleStarts
    /\ begun' = begun + 1
    /\ callers' = IF cycle.status = "stopped" THEN callers + 1 ELSE callers
    /\ hasty' = (hasty \/ (cycle.status = "stopped" /\ callers > 0))
    /\ UNCHANGED <<RuleVars, cycle, runs, job>>

\* cycle::start: the status is stored and the loop spawned
SpawnCycle ==
    /\ callers > 0
    /\ callers' = callers - 1
    /\ cycle' = [cycle EXCEPT !.status = "starting", !.fresh = @ + 1]
    /\ UNCHANGED <<RuleVars, begun, runs, job, hasty>>

\* Cycle::run stores its status first, whatever it is
RunCycle ==
    /\ cycle.fresh > 0
    /\ cycle' = [status |-> "running", fresh |-> cycle.fresh - 1, loops |-> cycle.loops + 1]
    /\ UNCHANGED <<RuleVars, callers, begun, runs, job, hasty>>

\* an iteration: the macro runs for at most the interval, then the error
\* macro if it failed or the cycle was late
Iterate ==
    /\ cycle.loops > 0 /\ cycle.status = "running" /\ runs < MaxRuns
    /\ runs' = runs + 1
    /\ UNCHANGED <<RuleVars, cycle, callers, begun, job, hasty>>

\* the loop sees that the status is not running, and stores "stopped"
LeaveCycle ==
    /\ cycle.loops > 0 /\ cycle.status # "running"
    /\ cycle' = [cycle EXCEPT !.status = "stopped", !.loops = @ - 1]
    /\ UNCHANGED <<RuleVars, callers, begun, runs, job, hasty>>

\* Faulty variant of StopCycle: the loop of a running cycle is not told.
StopCycleUntold ==
    /\ cycle.status # "stopped"
    /\ cycle' = [cycle EXCEPT !.status = "stopped"]
    /\ hasty' = (hasty \/ cycle.status = "starting")
    /\ UNCHANGED <<RuleVars, callers, begun, runs, job>>

\* cycle::stop
StopCycle ==
    /\ cycle.status # "stopped"
    /\ cycle' = [cycle EXCEPT !.status = "stopping"]
    /\ hasty' = (hasty \/ cycle.status = "starting")
    /\ UNCHANGED <<RuleVars, callers, begun, runs, job>>

\* Job::scheduler: sleep until the next launch, then run the macro; a launch
\* that is due while the macro runs is skipped
JobStep ==
    /\ scene = "cycles"
    /\ \/ job = "sleeps" /\ runs < MaxRuns /\ job' = "runs" /\ runs' = runs + 1
       \/ job = "runs" /\ job' = "sleeps" /\ runs' = runs
       \/ job = "sleeps" /\ runs = MaxRuns /\ job' = "ends" /\ runs' = runs
    /\ UNCHANGED <<RuleVars, cycle, callers, begun, hasty>>

RulesNext ==
    \/ StateEvent \/ TakeState \/ ProcessRule \/ MacroEnds \/ ChilloutEnds \/ FinishState
    \/ PullState \/ PublishPulled
    \/ StartCycle \/ SpawnCycle \/ RunCycle \/ Iterate \/ LeaveCycle \/ StopCycle
    \/ JobStep

RulesSpec ==
    /\ RulesInit /\ [][RulesNext]_rulesVars
    /\ WF_rulesVars(TakeState) /\ WF_rulesVars(ProcessRule) /\ WF_rulesVars(MacroEnds)
    /\ WF_rulesVars(ChilloutEnds) /\ WF_rulesVars(FinishState)
    /\ WF_rulesVars(SpawnCycle) /\ WF_rulesVars(RunCycle) /\ WF_rulesVars(LeaveCycle)

(***************************************************************************)
(* Once the states come to rest, the last event that entered a rule's      *)
(* condition has been run, also when it came while the rule was chilling   *)
(* out and replaced the event that was kept before it.                     *)
(***************************************************************************)
LastEventRan == \A r \in Rule : entered[r] # 0 => entered[r] \in Range(launched[r])

(***************************************************************************)
(* A cycle that is stopped leaves its loop, and it never has two loops, so *)
(* long as two starts do not overlap and it is not stopped before it runs. *)
(***************************************************************************)
OneLoop ==
    ~hasty => /\ cycle.loops + cycle.fresh <= 1
              /\ cycle.status = "stopped" => cycle.loops + cycle.fresh = 0
CycleStopped == cycle.status = "stopping" => cycle.loops = 0 \/ hasty

=============================================================================
