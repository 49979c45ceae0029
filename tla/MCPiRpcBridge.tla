---------------------------- MODULE MCPiRpcBridge ----------------------------
(* Two requests and a notice over queues of one place: every queue can be    *)
(* full while another call waits for it.                                     *)
EXTENDS PiRpcBridge

CONSTANTS r1, r2, m1

MCRequests == {r1, r2}
MCNotices == {m1}

\* What the drain at the end of read_frames suggests, and MCBridgeStuck.cfg
\* refutes: once Pi is gone, its lines are read to the end.
LinesAreReadToTheEnd == (process = "closed") ~> (router.at = "ended")

=============================================================================
