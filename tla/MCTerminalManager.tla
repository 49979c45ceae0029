--------------------------- MODULE MCTerminalManager ---------------------------
(* The manager with one or two tabs of a partition and two overlapping       *)
(* commands; each configuration chooses the commands and how shells end.     *)
EXTENDS TerminalManager

CONSTANTS t1, t2, p1, c1, c2

MCTerminals1 == {t1}
MCTerminals2 == {t1, t2}
MCPartitions1 == {p1}
MCCallers == {c1, c2}

\* The bound on generations never stands in the way of a command.
ASSUME GenerationsAreEnough == MaxGeneration >= MaxCalls

-----------------------------------------------------------------------------
(* What one would like to hold, without the exceptions of TerminalManager.   *)
(* None of these does: the configurations that check them end with an error, *)
(* the counterexample README tells of.                                       *)

\* A shell that is alive has its tab, or a command is about to kill it.
NoShellOutlivesItsTab ==
    \A p \in Pty : Alive(p) =>
        Known(p[1], p[2]) \/ \E c \in Caller : Holds(c, p) \/ Replaces(c, p)

\* The tab of a shell that is dead does not stay running.
DeadShellsAreNoticed ==
    \A id \in TerminalId :
        LET endsUnseen == /\ id \in DOMAIN tabs /\ tabs[id].status = "running"
                          /\ pty[<<id, tabs[id].generation>>] \in {"held", "dead"}
        IN  endsUnseen ~> ~endsUnseen

\* A tab whose close has begun goes.
ClosedTabsGo ==
    \A id \in TerminalId :
        (id \in DOMAIN tabs /\ tabs[id].status = "closing") ~> id \notin DOMAIN tabs

=============================================================================
