------------------------ MODULE MCServiceLifecycle ------------------------
(***************************************************************************)
(* Two or three concurrent health requests over two lifespans.             *)
(***************************************************************************)
EXTENDS ServiceLifecycle

CONSTANTS h1, h2
=============================================================================
