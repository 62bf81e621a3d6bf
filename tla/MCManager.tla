----------------------------- MODULE MCManager -----------------------------
(* Small instances of Manager for TLC. *)
EXTENDS Manager

CONSTANTS p1, p2, p3, a1, a2, ip1

MCPeer == {p1, p2, p3}
MCAddr == {a1, a2}
MCLocalIP == {ip1}
MCNoLocalIP == {}

=============================================================================
