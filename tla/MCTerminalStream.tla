--------------------------- MODULE MCTerminalStream ---------------------------
(***************************************************************************)
(* Bounds for checking TerminalStream.  A journal of two chunks overflows  *)
(* with the third; a receiver of one event lags; the connection may be     *)
(* lost once; a checkpoint is refused for its field or may be accepted.    *)
(***************************************************************************)
EXTENDS TerminalStream

OneSize == {1}

=============================================================================
