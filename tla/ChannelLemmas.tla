---------------------------- MODULE ChannelLemmas ----------------------------
(***************************************************************************)
(* A buffered Go channel is modelled as a sequence whose length never      *)
(* exceeds the channel's capacity: a send appends and is enabled only      *)
(* below the capacity, a receive takes the head of a non-empty sequence.   *)
(* These lemmas state what the two operations preserve.                    *)
(***************************************************************************)
EXTENDS Sequences, Naturals, SequenceTheorems, TLAPS

\* A send on a channel below its capacity keeps it a bounded sequence.
LEMMA SendType ==
    ASSUME NEW S, NEW s \in Seq(S), NEW e \in S, NEW n \in Nat, Len(s) < n
    PROVE  Append(s, e) \in Seq(S) /\ Len(Append(s, e)) <= n
BY AppendProperties

\* A receive from a non-empty channel yields an element and keeps the rest
\* a bounded sequence.
LEMMA RecvType ==
    ASSUME NEW S, NEW s \in Seq(S), s # << >>, NEW n \in Nat, Len(s) <= n
    PROVE  Head(s) \in S /\ Tail(s) \in Seq(S) /\ Len(Tail(s)) <= n
BY HeadTailProperties, LenProperties

=============================================================================
