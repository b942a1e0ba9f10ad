---------------------------- MODULE BodyTransfer ----------------------------
(***************************************************************************)
(* What the credit protocol promises for each body stream of a session,    *)
(* with no wire, no session and no cancellation in sight: the producer may *)
(* be ONE chunk ahead of the consumer, the consumer gets the chunks in     *)
(* order, and it sees the end only after the last chunk of the source.     *)
(* A transfer may stop anywhere; what was delivered is then a prefix.      *)
(***************************************************************************)
EXTENDS Naturals, Sequences

CONSTANTS
    Streams,  \* the body streams of the session
    Chunks    \* how many chunks the source of each stream holds

VARIABLES
    offered,  \* how many chunks the producer has put on the stream
    got,      \* the chunks the consumer has finished with, in order
    eof       \* the consumer was told the body is complete

vars == <<offered, got, eof>>

Init ==
    /\ offered = [s \in Streams |-> 0]
    /\ got = [s \in Streams |-> <<>>]
    /\ eof = [s \in Streams |-> FALSE]

Offer(s) ==
    /\ offered[s] < Chunks
    /\ offered[s] = Len(got[s])
    /\ offered' = [offered EXCEPT ![s] = @ + 1]
    /\ UNCHANGED <<got, eof>>

Take(s) ==
    /\ Len(got[s]) < offered[s]
    /\ ~eof[s]
    /\ got' = [got EXCEPT ![s] = Append(@, Len(@) + 1)]
    /\ UNCHANGED <<offered, eof>>

Complete(s) ==
    /\ Len(got[s]) = Chunks
    /\ ~eof[s]
    /\ eof' = [eof EXCEPT ![s] = TRUE]
    /\ UNCHANGED <<offered, got>>

Next == \E s \in Streams : Offer(s) \/ Take(s) \/ Complete(s)

Spec == Init /\ [][Next]_vars
=============================================================================
