---------------------------- MODULE MCHttpDemo ----------------------------
(* HttpDemo for TLC. *)
EXTENDS HttpDemo

CONSTANTS c1, p1, fun1, other, h1, h2

MCClient == {c1}
MCPeer   == {p1}
MCConn   == (MCClient \X (1 .. 2)) \cup MCPeer
=============================================================================
