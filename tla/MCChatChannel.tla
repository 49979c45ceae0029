---------------------------- MODULE MCChatChannel ----------------------------
(***************************************************************************)
(* Bounds for checking ChatChannel: two sessions that take the channel     *)
(* from one another.                                                       *)
(***************************************************************************)
EXTENDS ChatChannel, TLC

CONSTANTS a, b

SymmetricSessions == Permutations(Sessions)
NoUpdates == {}
FirstUpdate == {1}
SecondUpdate == {2}

=============================================================================
