---------------------------- MODULE MCSocketLife ----------------------------
(***************************************************************************)
(* SocketLife on the instances of MCConnection.                            *)
(***************************************************************************)
EXTENDS SocketLife, MCConnection
=============================================================================
