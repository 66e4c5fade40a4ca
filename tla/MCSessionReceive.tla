-------------------------- MODULE MCSessionReceive --------------------------
(***************************************************************************)
(* Model-checking instance of SessionReceive.  Four records from the peer  *)
(* are enough for a hello, the follow-up fetch after the handshake, a run  *)
(* of post-handshake messages and data behind them; one renegotiation     *)
(* asked for by this side.                                                *)
(***************************************************************************)
EXTENDS SessionReceive

=============================================================================
