------------------------------ MODULE MCGateway ------------------------------
(***************************************************************************)
(* The gateway watching one component.                                     *)
(***************************************************************************)
EXTENDS Gateway

MCTargetOrder == <<"otel-collector">>
=============================================================================
