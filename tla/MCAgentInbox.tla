----------------------------- MODULE MCAgentInbox -----------------------------
(***************************************************************************)
(* Bounds for checking AgentInbox: two tasks, one of which may come later. *)
(***************************************************************************)
EXTENDS AgentInbox

CONSTANTS t1, t2

OneEarly == <<t1>>
BothEarly == <<t1, t2>>

=============================================================================
