--------------------------- MODULE MCPersistence ---------------------------
(***************************************************************************)
(* The settings in which TLC explores Persistence.                         *)
(***************************************************************************)
EXTENDS Persistence

\* With instant saves only the tasks whose states are sent in order take part.
OrderedTasks == Raw \union Deployer \union Destroyer \union Enabler

KeptSettings ==
  {[storage |-> "registry", instant |-> FALSE, tasks |-> Task],
   [storage |-> "registry", instant |-> TRUE, tasks |-> OrderedTasks],
   [storage |-> "postgres", instant |-> FALSE, tasks |-> Task],
   [storage |-> "postgres", instant |-> TRUE,
    tasks |-> Raw \union Lvar \union Deployer \union Destroyer]}

Sqlite == {[storage |-> "sqlite", instant |-> FALSE, tasks |-> Task]}
============================================================================
