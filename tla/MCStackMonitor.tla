--------------------------- MODULE MCStackMonitor ---------------------------
(***************************************************************************)
(* StackMonitor with its targets in the order of the configuration.        *)
(***************************************************************************)
EXTENDS StackMonitor

MCTargetOrder == <<"otel-collector", "loki", "tempo">>

TwoTargets == <<"loki", "tempo">>
=============================================================================
