-------------------------- MODULE MCConsoleTokens --------------------------
(***************************************************************************)
(* A small console: two requests at a time, which overlap in every way,    *)
(* each for the operator's token, for its capabilities or for the machine  *)
(* token.                                                                  *)
(***************************************************************************)
EXTENDS ConsoleTokens, TLC

CONSTANTS r1, r2
=============================================================================
