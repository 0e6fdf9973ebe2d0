--------------------------- MODULE MCFlutterClient ---------------------------
(***************************************************************************)
(* A phone whose wall clock ticks and is set back to where it started.     *)
(***************************************************************************)
EXTENDS FlutterClient

MCClockSteps == {1, -MaxNow}
=============================================================================
