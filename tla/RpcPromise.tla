------------------------------ MODULE RpcPromise ------------------------------
(***************************************************************************)
(* What PiRpcBridge::request promises its callers, without queues, threads *)
(* or locks: a request ends exactly once, with the answer Pi gave to it,   *)
(* with a timeout, or, once Pi is gone, with ProcessClosed.                *)
(***************************************************************************)
CONSTANT Request

VARIABLES
    status,               \* how far each request is
    ran,                  \* the requests Pi answered
    up                    \* Pi is there

promiseVars == <<status, ran, up>>

Init ==
    /\ status = [r \in Request |-> "new"]
    /\ ran = {}
    /\ up = TRUE

Ask(r) ==
    /\ status[r] = "new"
    /\ status' = [status EXCEPT ![r] = "asked"]
    /\ UNCHANGED <<ran, up>>

\* Pi may answer a request its caller has given up.
Run(r) ==
    /\ up
    /\ status[r] \in {"asked", "timed out"}
    /\ r \notin ran
    /\ ran' = ran \cup {r}
    /\ UNCHANGED <<status, up>>

End(r, how) ==
    /\ status[r] = "asked"
    /\ how = "answered" => r \in ran
    /\ how = "closed" => ~up
    /\ status' = [status EXCEPT ![r] = how]
    /\ UNCHANGED <<ran, up>>

Leave ==
    /\ up
    /\ up' = FALSE
    /\ UNCHANGED <<status, ran>>

Next ==
    \/ \E r \in Request :
          Ask(r) \/ Run(r) \/ \E how \in {"answered", "timed out", "closed"} : End(r, how)
    \/ Leave

\* Every request that was asked ends.
Fairness ==
    \A r \in Request :
        WF_promiseVars(\E how \in {"answered", "timed out", "closed"} : End(r, how))

Spec == Init /\ [][Next]_promiseVars /\ Fairness

=============================================================================
