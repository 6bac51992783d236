---------------------------- MODULE MCItemStates ----------------------------
(***************************************************************************)
(* The settings in which TLC explores ItemStates.                          *)
(***************************************************************************)
EXTENDS ItemStates

Numbers == 0..2

\* An event that sets a status and a value, plain or forced; one with a status
\* only; one that is conditional; one that brings a new time.
Event(s, v) == [status |-> s, value |-> v, cmpStatus |-> No, cmpValue |-> No,
                elseStatus |-> No, elseValue |-> No, force |-> "none", newTime |-> FALSE]
PlainEvents == {Event(1, 1), Event(1, 2), Event(-1, No)}
AllEvents ==
  {Event(1, 1), Event(1, 2), Event(1, No), Event(-1, No), Event(-1, 2),
   [Event(1, 1) EXCEPT !.newTime = TRUE],
   [Event(1, 1) EXCEPT !.force = "weak"],
   [Event(1, 2) EXCEPT !.force = "full"],
   [Event(1, 1) EXCEPT !.cmpStatus = 1, !.elseStatus = 0, !.elseValue = 2],
   [Event(0, 2) EXCEPT !.cmpValue = 1]}

NoLogic == [status |-> No, value |-> No, ranged |-> FALSE]
PlainConfigs == {NoLogic}
RangeConfigs == {NoLogic, [NoLogic EXCEPT !.ranged = TRUE]}

\* Raw events of every form and two actions on a unit, with or without a range
UnitInUse == [kind |-> "unit", tasks |-> Handler \union Actor, events |-> AllEvents,
              others |-> FALSE, configs |-> RangeConfigs, time |-> 7]

\* A unit that is deployed, removed, enabled, disabled and announced meanwhile
UnitDeployed == [kind |-> "unit", events |-> PlainEvents,
                 tasks |-> {"h", "a1"} \union Deployer \union Announcer,
                 others |-> TRUE, configs |-> PlainConfigs, time |-> 4]

\* Two callers of lvar_op beside raw events
LvarInUse == [kind |-> "lvar", tasks |-> Handler \union LvarCaller, events |-> PlainEvents,
              others |-> TRUE, configs |-> PlainConfigs, time |-> 4]

AllSettings == {UnitInUse, UnitDeployed, LvarInUse}
============================================================================
