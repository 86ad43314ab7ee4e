---------------------------- MODULE MCContextWindow ----------------------------
(***************************************************************************)
(* A small instance of ContextWindow.                                      *)
(***************************************************************************)
EXTENDS ContextWindow

CONSTANTS a, b

MCKeys == {a, b}
MCBatches == {<<>>, <<a>>, <<a, b>>}
MCSeedLists == {<<>>, <<a>>}
================================================================================
