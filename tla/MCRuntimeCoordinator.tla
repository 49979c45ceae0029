------------------------ MODULE MCRuntimeCoordinator ------------------------
(* Two instances over two workspaces: the smallest registry in which a      *)
(* binding can meet another instance's session in the same workspace and in *)
(* another one.                                                              *)
EXTENDS RuntimeCoordinator, TLC

CONSTANTS i1, i2, w1, w2, s1, s2, k1, k2

MCInstanceId == {i1, i2}
MCWorkspaceId == {w1, w2}
MCSessionId == {s1, s2}
MCKey == {k1, k2}

Symmetric ==
    Permutations(MCInstanceId) \cup Permutations(MCWorkspaceId)
        \cup Permutations(MCSessionId) \cup Permutations(MCKey)

=============================================================================
