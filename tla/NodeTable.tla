------------------------------ MODULE NodeTable ------------------------------
(***************************************************************************)
(* What the node repository promises (spec 6 and 8.4): a table of known    *)
(* node keys that holds at most Limit of them, and a file that holds the   *)
(* table as some save left it.  A key is learned only while the table has  *)
(* room; restoring merges the file into the table, and never past the      *)
(* limit; a save first empties the file and then writes the table into it; *)
(* a crash loses the table and keeps the file.                             *)
(***************************************************************************)
EXTENDS Naturals

CONSTANTS
    Key,    \* node keys
    Limit,  \* the table's capacity
    Size(_) \* the number of elements of a finite set (Cardinality)

VARIABLES
    known,  \* the keys in the table
    file    \* the keys the file decodes to

Init ==
    /\ known = {}
    /\ file = {}

\* A new key enters a table that has room.
Learn(k) ==
    /\ k \notin known
    /\ Size(known) < Limit
    /\ known' = known \cup {k}
    /\ UNCHANGED file

\* The file is merged into the table, which stays within the limit.
Restore ==
    /\ Size(known \cup file) <= Limit
    /\ known' = known \cup file
    /\ UNCHANGED file

\* A save truncates the file, then writes the table into it.
Truncate ==
    /\ file' = {}
    /\ UNCHANGED known

Save ==
    /\ file' = known
    /\ UNCHANGED known

\* The process dies: the table is lost, the file survives.
Forget ==
    /\ known' = {}
    /\ UNCHANGED file

Next == Restore \/ Truncate \/ Save \/ Forget \/ \E k \in Key : Learn(k)

vars == <<known, file>>

Spec == Init /\ [][Next]_vars

=============================================================================
