-------------------------- MODULE MCExtensionPrompts --------------------------
(***************************************************************************)
(* Bounds for checking ExtensionPrompts: two sessions, two prompts of the  *)
(* one the page shows at first and one of the other.                       *)
(***************************************************************************)
EXTENDS ExtensionPrompts

CONSTANTS a, b, p1, p2, p3

TwoAndOne == [p \in Prompts |-> IF p = p3 THEN b ELSE a]

=============================================================================
