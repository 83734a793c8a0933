---------------------------- MODULE MCPiActivation ----------------------------
(***************************************************************************)
(* PiActivation for TLC: one session of one computer.                       *)
(***************************************************************************)
EXTENDS PiActivation

CONSTANT session

AllTasks == Request \cup Event
OneKey   == [t \in AllTasks |-> session]
==============================================================================
