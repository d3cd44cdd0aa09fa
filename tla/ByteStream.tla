------------------------------ MODULE ByteStream ------------------------------
(***************************************************************************)
(* What a resumable connection promises to the two programs that use it:   *)
(* "the illusion of a perfect unbroken stream of bytes" in each direction. *)
(* There are no transports here. A byte is known by its position in the    *)
(* stream of the end that wrote it.                                        *)
(***************************************************************************)
EXTENDS Naturals, Sequences

CONSTANTS
    Client, Server,
    Workloads,  \* bound: the numbers of bytes the two ends write
    Window      \* bytes an end may have written that the other has not received

Ends == {Client, Server}

Peer(e) == IF e = Client THEN Server ELSE Client

VARIABLES
    sent,       \* bytes each end has written
    got,        \* the bytes each end has received, in order
    taken,      \* how many of them it has read or thrown away
    closed,     \* the end was closed
    eof         \* the end has been told that its peer is gone

svars == <<sent, got, taken, closed, eof>>

\* The n bytes that follow the first m bytes of a stream.
Chunk(m, n) == [i \in 1..n |-> m + i]

Init ==
    /\ sent = [e \in Ends |-> 0]
    /\ got = [e \in Ends |-> <<>>]
    /\ taken = [e \in Ends |-> 0]
    /\ closed = [e \in Ends |-> FALSE]
    /\ eof = [e \in Ends |-> FALSE]

Write(e) ==
    /\ ~closed[e]
    /\ ~eof[e]
    /\ \E n \in 1..Window :
        /\ sent[e] + n - Len(got[Peer(e)]) <= Window
        /\ sent' = [sent EXCEPT ![e] = @ + n]
    /\ \E w \in Workloads : \A c \in Ends : sent'[c] <= w[c]
    /\ UNCHANGED <<got, taken, closed, eof>>

\* The next bytes arrive. A closed end still receives, and throws away.
Receive(e) ==
    /\ \E n \in 0..(sent[Peer(e)] - Len(got[e])) :
        got' = [got EXCEPT ![e] = @ \o Chunk(Len(@), n)]
    /\ \/ taken' = taken
       \/ closed[e] /\ taken' = [taken EXCEPT ![e] = Len(got'[e])]
    /\ UNCHANGED <<sent, closed, eof>>

Read(e) ==
    /\ ~closed[e]
    /\ \E n \in 1..(Len(got[e]) - taken[e]) : taken' = [taken EXCEPT ![e] = @ + n]
    /\ UNCHANGED <<sent, got, closed, eof>>

Close(e) ==
    /\ closed' = [closed EXCEPT ![e] = TRUE]
    /\ UNCHANGED <<sent, got, taken, eof>>

\* The end of the stream is seen only at its end.
SeeEnd(e) ==
    /\ closed[Peer(e)]
    /\ Len(got[e]) = sent[Peer(e)]
    /\ eof' = [eof EXCEPT ![e] = TRUE]
    /\ UNCHANGED <<sent, got, taken, closed>>

Next == \E e \in Ends : Write(e) \/ Receive(e) \/ Read(e) \/ Close(e) \/ SeeEnd(e)

Spec == Init /\ [][Next]_svars
===============================================================================
