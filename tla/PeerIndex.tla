------------------------------ MODULE PeerIndex ------------------------------
(***************************************************************************)
(* What the connection manager promises about its peer index (spec 4.2):   *)
(* a table from address keys to peers holding at most Limit entries.  A    *)
(* peer is admitted (started and indexed) only under a free key while the  *)
(* table has room, and each peer object is admitted at most once; an entry *)
(* may be released at any time.                                            *)
(***************************************************************************)
EXTENDS Naturals

CONSTANTS
    Key,    \* address keys
    Obj,    \* peer objects
    None,   \* the empty entry
    Limit,  \* the table's capacity
    Size(_) \* the number of elements of a finite set (Cardinality)

VARIABLES
    index,    \* Key -> Obj \cup {None}
    admitted  \* the objects ever admitted

Filled == {k \in Key : index[k] # None}

Init ==
    /\ index = [k \in Key |-> None]
    /\ admitted = {}

\* A new object takes a free key while fewer than Limit keys are filled.
Admit(k, o) ==
    /\ index[k] = None
    /\ Size(Filled) < Limit
    /\ o \notin admitted
    /\ index' = [index EXCEPT ![k] = o]
    /\ admitted' = admitted \cup {o}

\* The entry under a key is dropped.
Release(k) ==
    /\ index' = [index EXCEPT ![k] = None]
    /\ UNCHANGED admitted

Next == \E k \in Key : Release(k) \/ \E o \in Obj : Admit(k, o)

vars == <<index, admitted>>

Spec == Init /\ [][Next]_vars

\* The table never holds more than Limit entries.
Bounded == Size(Filled) <= Limit

=============================================================================
