---------------------------- MODULE MCSessionView ----------------------------
(***************************************************************************)
(* Bounds for checking SessionView: three sessions, so that two switches   *)
(* differ, each with an event before the page is loaded and the first one  *)
(* with events after that.                                                 *)
(***************************************************************************)
EXTENDS SessionView

CONSTANTS a, b, c

OneBefore == [s \in Sessions |-> 1]
OneMore == [s \in Sessions |-> IF s = a THEN 2 ELSE 1]
TwoMore == [s \in Sessions |-> IF s = a THEN 3 ELSE 1]

=============================================================================
