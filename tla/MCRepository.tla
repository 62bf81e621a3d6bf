---------------------------- MODULE MCRepository ----------------------------
(* Small instances of the node repository for TLC. *)
EXTENDS Repository

CONSTANTS a1, a2, a3

MCAddr == {a1, a2}

\* three addresses, so that an index of two can still be offered a new one
MCAddr3 == {a1, a2, a3}

\* two seeds that both resolve to a1, then a2
MCSeedAddrs == <<a1, a1, a2>>

\* one seed resolving to a1
MCOneSeed == <<a1>>
=============================================================================
