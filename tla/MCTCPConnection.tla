-------------------------- MODULE MCTCPConnection --------------------------
(***************************************************************************)
(* Two goroutines that send and a handler that may send or shut down: room *)
(* for one message in each of bufs, out and the bufio.Writer, one of them  *)
(* too large to be written.                                                *)
(***************************************************************************)
EXTENDS TCPConnection
=============================================================================
