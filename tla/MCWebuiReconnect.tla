-------------------------- MODULE MCWebuiReconnect --------------------------
(***************************************************************************)
(* Values of the constants of WebuiReconnect for TLC.                      *)
(***************************************************************************)
EXTENDS WebuiReconnect

CONSTANTS a, b

MCChats == {a, b}
=============================================================================
