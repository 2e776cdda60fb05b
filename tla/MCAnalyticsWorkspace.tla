------------------------ MODULE MCAnalyticsWorkspace ------------------------
(***************************************************************************)
(* One generated dataset, two view tables, two handlers.                   *)
(***************************************************************************)
EXTENDS AnalyticsWorkspace
=============================================================================
