----------------------------- MODULE MCLifecycle -----------------------------
(***************************************************************************)
(* The life of a gateway that watches only the collector.                  *)
(***************************************************************************)
EXTENDS Lifecycle

MCTargetOrder == <<"otel-collector">>

\* Nothing, or an address of the caller's choice.
MCForgeries == {<<>>, <<"forged">>}

\* The apps are alike.
AppSymmetry == Permutations(Apps)
=============================================================================
