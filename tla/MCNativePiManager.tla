-------------------------- MODULE MCNativePiManager --------------------------
(* The manager with a few instances and callers.  Which methods the callers  *)
(* use, and what Pi writes, is chosen by each configuration.  t1 is a        *)
(* temporary session id, s1 and s2 are formal ones.                          *)
EXTENDS NativePiManager, TLC

CONSTANTS i1, i2, i3, w1, t1, s1, s2, k1, k2, c1, c2

MCInstances2 == {i1, i2}
MCInstances3 == {i1, i2, i3}
MCSessions1 == {s1}
MCSessions2 == {t1, s1}
MCSessions3 == {t1, s1, s2}
MCKeys == {k1, k2}
MCCallers == {c1, c2}

\* The bounds on counters never stand in the way of a step.
ASSUME BoundsAreWide == MaxSequence >= MaxFrames + MaxCalls /\ MaxAccepted >= MaxCalls

\* EveryPiIsOwned without its exception.  A failed attach breaks it.
NoPiIsLost ==
    \A i \in InstanceId :
        process[i] = "open" =>
            \/ i \in DOMAIN runtimes
            \/ \E c \in Caller : calls[c] # Idle /\ calls[c].target.instance = i

\* ClosedRuntimesAreForgotten without its exceptions.  A failed kill breaks it,
\* and so does a session bound while its runtime goes away.
NothingIsLeftBehind ==
    \A i \in InstanceId :
        (process[i] = "closed" /\ i \in DOMAIN instances) ~> i \notin DOMAIN instances

\* Keys and callers are interchangeable.  Sessions are not, and instances are
\* taken in one order.
Symmetric == Permutations(MCKeys) \cup Permutations(MCCallers)

=============================================================================
