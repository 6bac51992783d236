------------------------------ MODULE MCNodes ------------------------------
(***************************************************************************)
(* The instance of Nodes for TLC; its constants are in the configuration.  *)
(***************************************************************************)
EXTENDS Nodes
============================================================================
