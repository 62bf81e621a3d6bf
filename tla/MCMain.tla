------------------------------- MODULE MCMain -------------------------------
(* main with two record lines, for TLC. *)
EXTENDS Main
CONSTANTS l1, l2
MCLines == {l1, l2}
=============================================================================
