------------------------- MODULE ResumableConnProofs -------------------------
(***************************************************************************)
(* A resumable connection is a stream of bytes, for buffers, frames and    *)
(* transports of any number and size.                                      *)
(***************************************************************************)
EXTENDS ResumableConn, SequenceTheorems, TLAPS

-------------------------------------------------------------------------------
(* Transports *)

Messages == [kind : {"position", "frame", "errorTag"}, at : Nat, data : Seq(Nat)]

Transports == [up : BOOLEAN, to : [Ends -> Seq(Messages)]]

Nets == [Conns -> Transports]

\* The peer of an end is the other end.
LEMMA PeerEnd ==
    ASSUME NEW e \in Ends
    PROVE  Peer(e) \in Ends /\ Peer(e) # e /\ Peer(Peer(e)) = e /\ Ends = {e, Peer(e)}
  BY EndsDiffer DEF Ends, Peer

\* Closing a transport leaves alone what is in flight, and the other transports.
LEMMA BrokenNet ==
    ASSUME NEW n \in Nets, NEW k \in Conns
    PROVE  /\ Broken(n, k) \in Nets
           /\ ~Broken(n, k)[k].up
           /\ \A j \in Conns :
                /\ Broken(n, k)[j].to = n[j].to
                /\ j # k => Broken(n, k)[j] = n[j]
                /\ Broken(n, k)[j].up => n[j].up
  BY DEF Broken, Nets, Transports

\* What is in flight to one end on one transport is replaced.
Replaced(n, k, e, q) == [n EXCEPT ![k].to[e] = q]

\* The rest is not.
LEMMA ReplacedNet ==
    ASSUME NEW n \in Nets, NEW k \in Conns, NEW e \in Ends, NEW q \in Seq(Messages)
    PROVE  /\ Replaced(n, k, e, q) \in Nets
           /\ \A j \in Conns : Replaced(n, k, e, q)[j].up = n[j].up
           /\ \A j \in Conns : j # k => Replaced(n, k, e, q)[j] = n[j]
           /\ Replaced(n, k, e, q)[k].to[Peer(e)] = n[k].to[Peer(e)]
           /\ Replaced(n, k, e, q)[k].to[e] = q
  <1>. DEFINE t == [n[k] EXCEPT !.to = [n[k].to EXCEPT ![e] = q]]
  <1>1. /\ t \in Transports
        /\ t.up = n[k].up
        /\ t.to[Peer(e)] = n[k].to[Peer(e)]
        /\ t.to[e] = q
    <2>1. n[k] \in Transports
      BY DEF Nets
    <2>2. [n[k].to EXCEPT ![e] = q] \in [Ends -> Seq(Messages)]
      BY <2>1 DEF Transports
    <2>. QED  BY <2>1, <2>2, PeerEnd DEF Transports
  <1>2. Replaced(n, k, e, q) = [n EXCEPT ![k] = t]
    BY DEF Replaced
  <1>. HIDE DEF t
  <1>. QED  BY <1>1, <1>2 DEF Nets

\* A message reaches the peer on a transport that is up, and nobody else.
LEMMA SentNet ==
    ASSUME net \in Nets, NEW e \in Ends, NEW k \in Conns, NEW m \in Messages
    PROVE  /\ Sent(e, k, m) \in Nets
           /\ \A j \in Conns : Sent(e, k, m)[j].up = net[j].up
           /\ \A j \in Conns : j # k => Sent(e, k, m)[j] = net[j]
           /\ Sent(e, k, m)[k].to[e] = net[k].to[e]
           /\ ~net[k].up => Sent(e, k, m) = net
           /\ net[k].up => Sent(e, k, m)[k].to[Peer(e)] = Append(net[k].to[Peer(e)], m)
  <1>1. CASE ~net[k].up
    BY <1>1 DEF Sent
  <1>2. CASE net[k].up
    <2>. DEFINE q == Append(net[k].to[Peer(e)], m)
    <2>1. q \in Seq(Messages)
      BY PeerEnd, AppendProperties DEF Nets, Transports
    <2>2. Sent(e, k, m) = Replaced(net, k, Peer(e), q)
      BY <1>2 DEF Sent, Replaced
    <2>. DEFINE f == Peer(e)
    <2>3. f \in Ends /\ Peer(f) = e
      BY PeerEnd
    <2>. HIDE DEF q, f
    <2>4. /\ Replaced(net, k, f, q) \in Nets
          /\ \A j \in Conns : Replaced(net, k, f, q)[j].up = net[j].up
          /\ \A j \in Conns : j # k => Replaced(net, k, f, q)[j] = net[j]
          /\ Replaced(net, k, f, q)[k].to[e] = net[k].to[e]
          /\ Replaced(net, k, f, q)[k].to[f] = q
      BY <2>1, <2>3, ReplacedNet
    <2>. QED  BY <1>2, <2>2, <2>4 DEF q, f
  <1>. QED  BY <1>1, <1>2

\* Reading takes the first message that is in flight to the reader.
LEMMA TakenNet ==
    ASSUME NEW n \in Nets, NEW e \in Ends, attached[e] \in Conns,
           n[attached[e]].to[e] # <<>>
    PROVE  /\ Taken(n, e) \in Nets
           /\ \A j \in Conns : Taken(n, e)[j].up = n[j].up
           /\ \A j \in Conns : j # attached[e] => Taken(n, e)[j] = n[j]
           /\ Taken(n, e)[attached[e]].to[Peer(e)] = n[attached[e]].to[Peer(e)]
           /\ Taken(n, e)[attached[e]].to[e] = Tail(n[attached[e]].to[e])
  <1>. DEFINE k == attached[e]
  <1>. DEFINE q == Tail(n[k].to[e])
  <1>1. q \in Seq(Messages)
    BY HeadTailProperties DEF Nets, Transports
  <1>2. Taken(n, e) = Replaced(n, k, e, q)
    BY DEF Taken, Replaced
  <1>3. k \in Conns
    OBVIOUS
  <1>. HIDE DEF q, k
  <1>4. /\ Taken(n, e) \in Nets
        /\ \A j \in Conns : Taken(n, e)[j].up = n[j].up
        /\ \A j \in Conns : j # k => Taken(n, e)[j] = n[j]
        /\ Taken(n, e)[k].to[Peer(e)] = n[k].to[Peer(e)]
        /\ Taken(n, e)[k].to[e] = q
    BY <1>1, <1>2, <1>3, ReplacedNet
  <1>. QED  BY <1>4 DEF q, k

-------------------------------------------------------------------------------
(* Where an end is with a transport *)

\* It has not attached the transport yet, or is done with it.
Before(e, k) == k \in waiting[e] \/ k > dialed

After(e, k) == ~Before(e, k) /\ attached[e] # k

\* It waits for the position of its peer, its read loop or its write loop runs.
Greets(e, k) == attached[e] = k /\ reader[e].pc = "handshake"

Listens(e, k) == attached[e] = k /\ reader[e].pc \in {"ack", "data"}

Talks(e, k) == attached[e] = k /\ writer[e].pc # "off"

Active(e, k) == Greets(e, k) \/ Listens(e, k) \/ Talks(e, k)

\* The loops of an end and the transport they are about
LoopAt(e) ==
    /\ attached[e] = None => reader[e].pc = "off" /\ writer[e].pc = "off"
    /\ attached[e] <= dialed /\ attached[e] \notin waiting[e]
    /\ \A k \in waiting[e] : k <= dialed
    /\ reader[e].pc = "handshake" => writer[e].pc = "off" /\ writer[e].local = Len(rcvd[e])
    /\ reader[e].pc # "data" => reader[e].data = <<>>
    /\ writer[e].ack + writer[e].local <= Len(rcvd[e])
    /\ writer[e].pc # "frame" => writer[e].ack = 0 /\ writer[e].size = 0

LoopInv == \A e \in Ends : LoopAt(e)

\* A step of e leaves its peer alone.
Still(p) ==
    /\ written'[p] = written[p] /\ acked'[p] = acked[p] /\ rcvd'[p] = rcvd[p]
    /\ localClosed'[p] = localClosed[p] /\ remoteClosed'[p] = remoteClosed[p]
    /\ waiting'[p] = waiting[p] /\ attached'[p] = attached[p]
    /\ reader'[p] = reader[p] /\ writer'[p] = writer[p]

TypeInv == TypeOK /\ LoopInv

Readers == [pc : {"off", "handshake", "ack", "data"}, data : Seq(Nat)]

Writers == [pc : {"off", "ready", "frame"}, ack : Nat, size : Nat, local : Nat, peer : Nat]

\* What an action of an end preserves: the type invariant, and the state of its peer
LocalStep(e) == TypeInv' /\ Still(Peer(e)) /\ dialed' = dialed

\* The loops of the peer are where they were.
LEMMA LocalStepRule ==
    ASSUME TypeInv, NEW e \in Ends, TypeOK', LoopAt(e)', Still(Peer(e)), dialed' = dialed
    PROVE  LocalStep(e)
  <1>1. LoopAt(Peer(e))'
    BY PeerEnd DEF TypeInv, LoopInv, LoopAt, Still
  <1>. QED  BY <1>1, PeerEnd DEF LocalStep, TypeInv, LoopInv

\* The program that uses the connection
LEMMA ProgramSteps ==
    ASSUME TypeInv, NEW e \in Ends, Write(e) \/ Read(e) \/ Close(e)
    PROVE  LocalStep(e)
  <1>1. SendLen(e) \in Int /\ Len(rcvd[e]) \in Nat /\ SendBufferSize \in Int
    BY SizesPositive, LenProperties DEF TypeInv, TypeOK, SendLen
  <1>. USE DEF TypeInv, TypeOK
  <1>2. CASE Write(e)
    <2>. PICK n \in 1..(SendBufferSize - SendLen(e)) : written' = [written EXCEPT ![e] = @ + n]
      BY <1>2 DEF Write
    <2>1. written' \in [Ends -> Nat]
      BY <1>1
    <2>2. TypeOK' /\ LoopAt(e)' /\ Still(Peer(e)) /\ dialed' = dialed
      BY <1>2, <2>1, PeerEnd DEF Write, handlers, control, LoopInv, LoopAt, Still
    <2>. QED  BY <2>2, LocalStepRule
  <1>3. CASE Read(e)
    <2>. PICK n \in 1..(Len(rcvd[e]) - consumed[e]) : consumed' = [consumed EXCEPT ![e] = @ + n]
      BY <1>3 DEF Read
    <2>1. consumed' \in [Ends -> Nat]
      <3>1. consumed[e] \in Nat /\ consumed \in [Ends -> Nat]
        OBVIOUS
      <3>. HIDE DEF TypeInv, TypeOK
      <3>2. consumed[e] + n \in Nat
        BY <1>1, <3>1
      <3>. QED  BY <3>1, <3>2
    <2>2. TypeOK' /\ LoopAt(e)' /\ Still(Peer(e)) /\ dialed' = dialed
      BY <1>3, <2>1, PeerEnd DEF Read, handlers, control, LoopInv, LoopAt, Still
    <2>. QED  BY <2>2, LocalStepRule
  <1>4. CASE Close(e)
    <2>1. localClosed' \in [Ends -> BOOLEAN]
      BY <1>4 DEF Close
    <2>2. TypeOK' /\ LoopAt(e)' /\ Still(Peer(e)) /\ dialed' = dialed
      BY <1>4, <2>1, PeerEnd DEF Close, handlers, control, LoopInv, LoopAt, Still
    <2>. QED  BY <2>2, LocalStepRule
  <1>. QED  BY <1>2, <1>3, <1>4

\* What a transport is known to be
LEMMA TypeFacts ==
    ASSUME TypeInv, NEW e \in Ends
    PROVE  /\ net \in Nets
           /\ reader[e].pc # "off" \/ writer[e].pc # "off" => attached[e] \in Conns
           /\ attached[e] # None => attached[e] \in Conns
           /\ waiting[e] \subseteq Conns
           /\ Len(rcvd[e]) \in Nat /\ Len(reader[e].data) \in Nat
           /\ None \notin Conns
  <1>1. net \in Nets
    BY DEF TypeInv, TypeOK, Nets, Transports, Messages
  <1>2. Len(rcvd[e]) \in Nat /\ Len(reader[e].data) \in Nat
    <2>1. rcvd[e] \in Seq(Nat) /\ reader[e].data \in Seq(Nat)
      BY DEF TypeInv, TypeOK
    <2>. QED  BY <2>1, LenProperties
  <1>3. attached[e] \in Conns \union {None} /\ waiting[e] \subseteq Conns
    BY DEF TypeInv, TypeOK
  <1>4. attached[e] = None => reader[e].pc = "off" /\ writer[e].pc = "off"
    BY DEF TypeInv, LoopInv, LoopAt
  <1>5. None \notin Conns
    BY DEF None, Conns
  <1>. QED  BY <1>1, <1>2, <1>3, <1>4, <1>5

\* Handlers that attach and detach
LEMMA AttachingSteps ==
    ASSUME TypeInv, NEW e \in Ends, Attaching(e)
    PROVE  LocalStep(e)
  <1>. USE DEF TypeInv, TypeOK
  <1>. SUFFICES TypeOK' /\ LoopAt(e)' /\ Still(Peer(e)) /\ dialed' = dialed
    BY LocalStepRule
  <1>1. CASE RequestDetach(e)
    <2>1. net' \in Nets
      BY <1>1, TypeFacts, BrokenNet DEF RequestDetach
    <2>. QED  BY <1>1, <2>1, PeerEnd
              DEF RequestDetach, buffers, control, LoopInv, LoopAt, Still, Nets, Transports, Messages
  <1>2. CASE Abandon(e)
    <2>. PICK k \in waiting[e] : /\ waiting' = [waiting EXCEPT ![e] = @ \ {k}]
                                 /\ net' = Broken(net, k)
      BY <1>2 DEF Abandon
    <2>1. net' \in Nets
      BY TypeFacts, BrokenNet
    <2>2. waiting' \in [Ends -> SUBSET Conns]
      OBVIOUS
    <2>. QED  BY <1>2, <2>1, <2>2, PeerEnd
              DEF Abandon, buffers, control, LoopInv, LoopAt, Still, Nets, Transports, Messages
  <1>3. CASE Attach(e)
    <2>. PICK k \in waiting[e] : AttachConn(e, k)
      BY <1>3 DEF Attach
    <2>1. Position(Len(rcvd[e])) \in Messages
      BY TypeFacts, EmptySeq DEF Position, Messages
    <2>2. net' \in Nets
      BY <2>1, TypeFacts, SentNet DEF AttachConn, LocalPosition
    <2>3. /\ waiting' \in [Ends -> SUBSET Conns]
          /\ attached' \in [Ends -> Conns \union {None}]
          /\ stop' \in [Ends -> BOOLEAN]
      BY TypeFacts DEF AttachConn
    <2>. DEFINE r == [Idle EXCEPT !.pc = "handshake"]
                w == [NoWriter EXCEPT !.local = Len(rcvd[e])]
    <2>4. r \in Readers /\ r.pc = "handshake" /\ r.data = <<>>
      BY EmptySeq DEF Idle, Readers
    <2>5. w \in Writers /\ w.pc = "off" /\ w.ack = 0 /\ w.size = 0 /\ w.local = Len(rcvd[e])
      BY TypeFacts DEF NoWriter, Writers
    <2>6. reader' = [reader EXCEPT ![e] = r] /\ writer' = [writer EXCEPT ![e] = w]
      BY DEF AttachConn, LocalPosition
    <2>. HIDE DEF r, w
    <2>7. reader' \in [Ends -> Readers] /\ writer' \in [Ends -> Writers]
      BY <2>4, <2>5, <2>6 DEF Readers, Writers
    <2>8. TypeOK'
      BY <2>2, <2>3, <2>7
         DEF AttachConn, buffers, control, Nets, Transports, Messages, Readers, Writers
    <2>9. reader'[e] = r /\ writer'[e] = w /\ attached'[e] = k /\ waiting'[e] = waiting[e] \ {k}
      BY <2>6 DEF AttachConn
    <2>10. LoopAt(e)'
      <3>1. k # None /\ k <= dialed /\ (\A j \in waiting[e] : j <= dialed) /\ Len(rcvd[e]) \in Nat
        BY TypeFacts DEF LoopInv, LoopAt
      <3>2. rcvd' = rcvd /\ dialed' = dialed
        BY DEF AttachConn, buffers, control
      <3>. HIDE DEF TypeOK, TypeInv
      <3>. QED  BY <2>4, <2>5, <2>9, <3>1, <3>2 DEF LoopAt
    <2>11. Still(Peer(e)) /\ dialed' = dialed
      BY <2>6, PeerEnd DEF AttachConn, buffers, control, Still
    <2>. QED  BY <2>8, <2>10, <2>11
  <1>4. CASE Detach(e)
    <2>. DEFINE n == Broken(net, attached[e])
    <2>1. net' = Replaced(n, attached[e], e, <<>>) /\ attached[e] \in Conns
      BY <1>4, TypeFacts DEF Detach, Replaced
    <2>2. n \in Nets
      BY <2>1, TypeFacts, BrokenNet
    <2>. HIDE DEF n
    <2>3. net' \in Nets
      BY <2>1, <2>2, ReplacedNet, EmptySeq
    <2>4. NoWriter \in Writers
      BY DEF NoWriter, Writers
    <2>5. writer' \in [Ends -> Writers]
      BY <1>4, <2>4 DEF Detach, Writers
    <2>6. TypeOK'
      BY <1>4, <2>3, <2>5 DEF Detach, buffers, control, Nets, Transports, Messages, Writers
    <2>7. writer'[e] = NoWriter /\ attached'[e] = None /\ rcvd' = rcvd
      BY <1>4 DEF Detach, buffers
    <2>8. LoopAt(e)'
      <3>1. /\ (\A j \in waiting[e] : j <= dialed) /\ Len(rcvd[e]) \in Nat
            /\ reader[e].pc = "off" /\ reader[e].data = <<>>
        BY <1>4, TypeFacts DEF Detach, LoopInv, LoopAt
      <3>3. None <= dialed /\ None \notin waiting[e]
        BY TypeFacts, MaxConnsPositive DEF None, Conns
      <3>2. waiting' = waiting /\ reader' = reader /\ dialed' = dialed
        BY <1>4 DEF Detach, control
      <3>. HIDE DEF TypeOK, TypeInv
      <3>. QED  BY <2>7, <3>1, <3>2, <3>3 DEF LoopAt, NoWriter
    <2>9. Still(Peer(e)) /\ dialed' = dialed
      BY <1>4, PeerEnd DEF Detach, buffers, control, Still
    <2>. QED  BY <2>6, <2>8, <2>9
  <1>. QED  BY <1>1, <1>2, <1>3, <1>4 DEF Attaching

\* A message that an end can read
LEMMA InboxFacts ==
    ASSUME TypeInv, NEW e \in Ends, attached[e] \in Conns
    PROVE  /\ Inbox(e) \in Seq(Messages)
           /\ Inbox(e) # <<>> =>
                /\ Head(Inbox(e)) \in Messages
                /\ Head(Inbox(e)).at \in Nat
                /\ Head(Inbox(e)).data \in Seq(Nat)
                /\ Len(Head(Inbox(e)).data) \in Nat
  <1>1. Inbox(e) \in Seq(Messages)
    BY TypeFacts DEF Inbox, Nets, Transports
  <1>2. Inbox(e) # <<>> => Head(Inbox(e)) \in Messages
    BY <1>1, HeadTailProperties
  <1>. QED  BY <1>1, <1>2, LenProperties DEF Messages

\* The read loop ends.
LEMMA ReaderExitFacts ==
    ASSUME TypeInv, NEW e \in Ends, attached[e] \in Conns, NEW n \in Nets, ReaderExit(e, n)
    PROVE  /\ reader' \in [Ends -> Readers] /\ stop' \in [Ends -> BOOLEAN] /\ net' \in Nets
           /\ reader'[e].pc = "off" /\ reader'[e].data = <<>>
           /\ reader'[Peer(e)] = reader[Peer(e)]
  <1>1. Idle \in Readers /\ Idle.pc = "off" /\ Idle.data = <<>>
    BY EmptySeq DEF Idle, Readers
  <1>2. net' \in Nets
    BY BrokenNet DEF ReaderExit
  <1>. QED  BY <1>1, <1>2, PeerEnd DEF ReaderExit, TypeInv, TypeOK, Readers

\* Data goes to the end of the receive buffer.
LEMMA ReceiveFacts ==
    ASSUME TypeInv, NEW e \in Ends, NEW n \in 0..Len(reader[e].data), Receive(e, n)
    PROVE  /\ rcvd' \in [Ends -> Seq(Nat)] /\ consumed' \in [Ends -> Nat]
           /\ rcvd'[Peer(e)] = rcvd[Peer(e)]
           /\ rcvd'[e] = rcvd[e] \o SubSeq(reader[e].data, 1, n)
           /\ SubSeq(reader[e].data, 1, n) \in Seq(Nat)
           /\ Len(SubSeq(reader[e].data, 1, n)) = n
           /\ Len(rcvd'[e]) = Len(rcvd[e]) + n
  <1>. DEFINE q == SubSeq(reader[e].data, 1, n)
  <1>1. reader[e].data \in Seq(Nat) /\ rcvd[e] \in Seq(Nat)
    BY DEF TypeInv, TypeOK
  <1>2. q \in Seq(Nat) /\ Len(q) = n
    BY <1>1, SubSeqProperties, LenProperties
  <1>3. rcvd' = [rcvd EXCEPT ![e] = rcvd[e] \o q]
    BY DEF Receive
  <1>4. rcvd[e] \o q \in Seq(Nat) /\ Len(rcvd[e] \o q) = Len(rcvd[e]) + n
    <2>. HIDE DEF q
    <2>1. rcvd[e] \o q \in Seq(Nat) /\ Len(rcvd[e] \o q) = Len(rcvd[e]) + Len(q)
      BY <1>1, <1>2, ConcatProperties
    <2>. QED  BY <1>2, <2>1
  <1>5. consumed' \in [Ends -> Nat] \/ rcvd'[e] \notin Seq(Nat)
    BY LenProperties DEF Receive, TypeInv, TypeOK
  <1>. HIDE DEF q
  <1>6. rcvd' \in [Ends -> Seq(Nat)] /\ rcvd'[e] = rcvd[e] \o q /\ rcvd'[Peer(e)] = rcvd[Peer(e)]
    BY <1>3, <1>4, PeerEnd DEF TypeInv, TypeOK
  <1>. QED  BY <1>2, <1>4, <1>5, <1>6 DEF q

\* The handshake
LEMMA HandshakeSteps ==
    ASSUME TypeInv, NEW e \in Ends, Handshake(e) \/ HandshakeFails(e)
    PROVE  LocalStep(e)
  <1>0. reader[e].pc = "handshake" /\ attached[e] \in Conns
    BY TypeFacts DEF Handshake, HandshakeFails
  <1>1. CASE Handshake(e)
    <2>. DEFINE p == Head(Inbox(e)).at
                c == IF Compatible(e, p) THEN "ack" ELSE "off"
                r == [reader[e] EXCEPT !.pc = c]
                w == [writer[e] EXCEPT !.pc = "ready", !.peer = p]
    <2>1. Inbox(e) # <<>> /\ p \in Nat
      BY <1>0, <1>1, InboxFacts DEF Handshake
    <2>2. /\ r \in Readers /\ r.data = reader[e].data
          /\ r.pc \in {"ack", "off"}
      <3>1. reader[e] \in Readers
        BY DEF TypeInv, TypeOK, Readers
      <3>2. c \in {"ack", "off"}
        OBVIOUS
      <3>. HIDE DEF c
      <3>. QED  BY <3>1, <3>2 DEF Readers
    <2>3. /\ w \in Writers /\ w.pc = "ready" /\ w.local = writer[e].local
          /\ w.ack = writer[e].ack /\ w.size = writer[e].size
      <3>1. writer[e] \in Writers
        BY DEF TypeInv, TypeOK, Writers
      <3>. HIDE DEF p
      <3>. QED  BY <2>1, <3>1 DEF Writers
    <2>4. reader' = [reader EXCEPT ![e] = r]
      BY <1>1 DEF Handshake
    <2>5. writer' = [writer EXCEPT ![e] = w] \/ writer' = writer
      BY <1>1 DEF Handshake
    <2>6. acked' = [acked EXCEPT ![e] = p] \/ acked' = acked
      BY <1>1 DEF Handshake, TypeInv, TypeOK
    <2>7. net' \in Nets
      <3>1. ErrorTag \in Messages
        BY EmptySeq DEF ErrorTag, Messages
      <3>. DEFINE n == Sent(e, attached[e], ErrorTag)
      <3>2. n \in Nets /\ n[attached[e]].to[e] = net[attached[e]].to[e]
        BY <1>0, <3>1, TypeFacts, SentNet
      <3>3. net' = Taken(net, e) \/ net' = Taken(n, e)
        BY <1>1 DEF Handshake
      <3>. HIDE DEF n
      <3>4. net[attached[e]].to[e] # <<>>
        BY <2>1 DEF Inbox
      <3>. QED  BY <1>0, <3>2, <3>3, <3>4, TypeFacts, TakenNet
    <2>8. remoteClosed' \in [Ends -> BOOLEAN] /\ remoteClosed'[Peer(e)] = remoteClosed[Peer(e)]
      BY <1>1, PeerEnd DEF Handshake, TypeInv, TypeOK
    <2>. HIDE DEF p, r, w
    <2>9. reader' \in [Ends -> Readers] /\ writer' \in [Ends -> Writers] /\ acked' \in [Ends -> Nat]
      <3>1. reader \in [Ends -> Readers] /\ writer \in [Ends -> Writers] /\ acked \in [Ends -> Nat]
        BY DEF TypeInv, TypeOK, Readers, Writers
      <3>. QED  BY <2>1, <2>2, <2>3, <2>4, <2>5, <2>6, <3>1
    <2>10. TypeOK'
      BY <1>1, <2>7, <2>8, <2>9
         DEF Handshake, TypeInv, TypeOK, control, Readers, Writers, Nets, Transports, Messages
    <2>11. /\ reader'[e] = r /\ writer'[e] \in {w, writer[e]}
           /\ attached' = attached /\ waiting' = waiting /\ rcvd' = rcvd /\ dialed' = dialed
      BY <1>1, <2>4, <2>5 DEF Handshake, TypeInv, TypeOK, control
    <2>12. LoopAt(e)'
      BY <1>0, <2>2, <2>3, <2>11, TypeFacts DEF TypeInv, LoopInv, LoopAt
    <2>13. Still(Peer(e)) /\ dialed' = dialed
      <3>1. /\ reader'[Peer(e)] = reader[Peer(e)] /\ writer'[Peer(e)] = writer[Peer(e)]
            /\ acked'[Peer(e)] = acked[Peer(e)]
        BY <2>4, <2>5, <2>6, PeerEnd DEF TypeInv, TypeOK
      <3>. QED  BY <1>1, <2>8, <3>1 DEF Handshake, control, Still
    <2>. QED  BY <2>10, <2>12, <2>13, LocalStepRule
  <1>2. CASE HandshakeFails(e)
    <2>1. net' \in Nets
      BY <1>0, <1>2, TypeFacts, BrokenNet DEF HandshakeFails
    <2>2. Idle \in Readers /\ Idle.pc = "off" /\ Idle.data = <<>>
      BY EmptySeq DEF Idle, Readers
    <2>3. /\ reader' \in [Ends -> Readers] /\ reader'[e] = Idle
          /\ reader'[Peer(e)] = reader[Peer(e)]
      BY <1>2, <2>2, PeerEnd DEF HandshakeFails, TypeInv, TypeOK, Readers
    <2>4. TypeOK'
      BY <1>2, <2>1, <2>3
         DEF HandshakeFails, TypeInv, TypeOK, buffers, control, Readers, Nets, Transports, Messages
    <2>5. LoopAt(e)'
      BY <1>0, <1>2, <2>2, <2>3
         DEF HandshakeFails, TypeInv, LoopInv, LoopAt, buffers, control
    <2>6. Still(Peer(e)) /\ dialed' = dialed
      BY <1>2, <2>3 DEF HandshakeFails, buffers, control, Still
    <2>. QED  BY <2>4, <2>5, <2>6, LocalStepRule
  <1>. QED  BY <1>1, <1>2

\* A frame or an error tag is read.
LEMMA InboxSteps ==
    ASSUME TypeInv, NEW e \in Ends, ReadFrame(e) \/ ReadErrorTag(e)
    PROVE  LocalStep(e)
  <1>. DEFINE m == Head(Inbox(e))
  <1>0. reader[e].pc = "ack" /\ attached[e] \in Conns /\ Inbox(e) # <<>>
    BY TypeFacts DEF ReadFrame, ReadErrorTag
  <1>1. m.at \in Nat /\ m.data \in Seq(Nat)
    BY <1>0, InboxFacts
  <1>2. Taken(net, e) \in Nets
    BY <1>0, TypeFacts, TakenNet DEF Inbox
  <1>. HIDE DEF m
  <1>3. /\ waiting' = waiting /\ attached' = attached /\ writer' = writer /\ dialed' = dialed
        /\ rcvd' = rcvd /\ written' = written /\ localClosed' = localClosed
    BY DEF ReadFrame, ReadErrorTag, control
  <1>4. /\ acked' \in [Ends -> Nat] /\ acked'[Peer(e)] = acked[Peer(e)]
        /\ remoteClosed' \in [Ends -> BOOLEAN] /\ remoteClosed'[Peer(e)] = remoteClosed[Peer(e)]
    <2>1. acked' = acked \/ acked' = [acked EXCEPT ![e] = @ + m.at]
      BY DEF ReadFrame, ReadErrorTag, TypeInv, TypeOK, m
    <2>2. remoteClosed' = remoteClosed \/ remoteClosed' = [remoteClosed EXCEPT ![e] = TRUE]
      BY DEF ReadFrame, ReadErrorTag
    <2>3. acked \in [Ends -> Nat] /\ remoteClosed \in [Ends -> BOOLEAN] /\ m.at \in Nat
      BY <1>1 DEF TypeInv, TypeOK
    <2>4. acked' \in [Ends -> Nat]
      BY <2>1, <2>3
    <2>. QED  BY <2>1, <2>2, <2>3, <2>4, PeerEnd
  <1>5. /\ reader' \in [Ends -> Readers] /\ stop' \in [Ends -> BOOLEAN] /\ net' \in Nets
        /\ reader'[e].pc # "data" => reader'[e].data = <<>>
        /\ reader'[e].pc \in {"off", "ack", "data"}
        /\ reader'[Peer(e)] = reader[Peer(e)]
    <2>1. CASE ReaderExit(e, Taken(net, e))
      BY <1>0, <1>2, <2>1, ReaderExitFacts
    <2>2. CASE ~ReaderExit(e, Taken(net, e))
      <3>. DEFINE c == IF m.data = <<>> THEN "ack" ELSE "data"
                  r == [pc |-> c, data |-> m.data]
      <3>1. reader' = [reader EXCEPT ![e] = r] /\ net' = Taken(net, e) /\ stop' = stop
        BY <2>2 DEF ReadFrame, ReadErrorTag, m
      <3>2. c \in {"ack", "data"} /\ (c # "data" => m.data = <<>>)
        OBVIOUS
      <3>. HIDE DEF c
      <3>3. r \in Readers /\ r.pc \in {"ack", "data"} /\ (r.pc # "data" => r.data = <<>>)
        BY <1>1, <3>2 DEF Readers
      <3>. HIDE DEF r
      <3>4. reader \in [Ends -> Readers] /\ stop \in [Ends -> BOOLEAN]
        BY DEF TypeInv, TypeOK, Readers
      <3>. QED  BY <1>2, <3>1, <3>3, <3>4, PeerEnd
    <2>. QED  BY <2>1, <2>2
  <1>6. TypeOK'
    BY <1>3, <1>4, <1>5 DEF ReadFrame, ReadErrorTag, TypeInv, TypeOK, control, Readers,
                           Nets, Transports, Messages
  <1>7. LoopAt(e)'
    BY <1>0, <1>3, <1>5 DEF TypeInv, LoopInv, LoopAt
  <1>8. Still(Peer(e)) /\ dialed' = dialed
    BY <1>3, <1>4, <1>5 DEF Still
  <1>. QED  BY <1>6, <1>7, <1>8, LocalStepRule

\* Data is read, or the read loop ends.
LEMMA DataSteps ==
    ASSUME TypeInv, NEW e \in Ends, ReadData(e) \/ ReadStops(e) \/ ReadFails(e)
    PROVE  LocalStep(e)
  <1>0. reader[e].pc \in {"ack", "data"} /\ attached[e] \in Conns
    BY TypeFacts DEF ReadData, ReadStops, ReadFails
  <1>1. \E n \in 0..Len(reader[e].data) : Receive(e, n)
    BY TypeFacts DEF ReadData, ReadStops, ReadFails, LastRead
  <1>. PICK n \in 0..Len(reader[e].data) : Receive(e, n)
    BY <1>1
  <1>2. /\ rcvd' \in [Ends -> Seq(Nat)] /\ consumed' \in [Ends -> Nat]
        /\ rcvd'[Peer(e)] = rcvd[Peer(e)] /\ Len(rcvd'[e]) >= Len(rcvd[e])
        /\ Len(rcvd'[e]) \in Nat
    <2>1. Len(rcvd[e]) \in Nat /\ Len(reader[e].data) \in Nat
      BY TypeFacts
    <2>2. /\ rcvd' \in [Ends -> Seq(Nat)] /\ consumed' \in [Ends -> Nat]
          /\ rcvd'[Peer(e)] = rcvd[Peer(e)] /\ Len(rcvd'[e]) = Len(rcvd[e]) + n
      BY ReceiveFacts
    <2>. QED  BY <2>1, <2>2
  <1>3. /\ reader' \in [Ends -> Readers] /\ stop' \in [Ends -> BOOLEAN] /\ net' \in Nets
        /\ reader'[e].pc # "data" => reader'[e].data = <<>>
        /\ reader'[e].pc \in {"off", "ack", "data"}
        /\ reader'[Peer(e)] = reader[Peer(e)]
    <2>1. CASE ReadStops(e) \/ ReadFails(e)
      <3>1. ReaderExit(e, net)
        BY <2>1 DEF ReadStops, ReadFails
      <3>. QED  BY <1>0, <3>1, ReaderExitFacts, TypeFacts
    <2>2. CASE ReadData(e)
      <3>. PICK i \in 1..Len(reader[e].data) :
                reader' = [reader EXCEPT ![e] =
                    IF i = Len(@.data) THEN [Idle EXCEPT !.pc = "ack"]
                    ELSE [pc |-> "data", data |-> SubSeq(@.data, i + 1, Len(@.data))]]
        BY <2>2 DEF ReadData
      <3>. DEFINE r1 == [Idle EXCEPT !.pc = "ack"]
                  q == SubSeq(reader[e].data, i + 1, Len(reader[e].data))
                  r2 == [pc |-> "data", data |-> q]
      <3>1. reader[e] \in Readers /\ reader[e].pc = "data" /\ reader[e].data \in Seq(Nat)
        BY <2>2 DEF ReadData, TypeInv, TypeOK, Readers
      <3>2. reader' = [reader EXCEPT ![e] = r1] \/ reader' = [reader EXCEPT ![e] = r2]
        <4>1. reader' = [reader EXCEPT ![e] = IF i = Len(reader[e].data) THEN r1 ELSE r2]
          OBVIOUS
        <4>. HIDE DEF r1, r2
        <4>. QED  BY <4>1
      <3>3. q \in Seq(Nat)
        <4>d. PICK d \in Seq(Nat) : d = reader[e].data
          BY <3>1
        <4>1. Len(d) \in Nat /\ i \in 1..Len(d) /\ \A c \in 1..Len(d) : d[c] \in Nat
          BY <4>d, LenProperties
        <4>2. i + 1 \in Int /\ Len(d) \in Int /\ \A c \in (i + 1)..Len(d) : d[c] \in Nat
          BY <4>1
        <4>3. SubSeq(d, i + 1, Len(d)) \in Seq(Nat)
          BY <4>2, SubSeqProperties
        <4>. QED  BY <4>3, <4>d
      <3>4. r1 \in Readers /\ r1.pc = "ack" /\ r1.data = <<>>
        BY EmptySeq DEF Idle, Readers
      <3>. HIDE DEF q
      <3>5. r2 \in Readers /\ r2.pc = "data"
        BY <3>1, <3>3 DEF Readers
      <3>. HIDE DEF r1, r2
      <3>6. reader \in [Ends -> Readers] /\ stop' \in [Ends -> BOOLEAN] /\ net' \in Nets
        BY <2>2, TypeFacts DEF ReadData, TypeInv, TypeOK, Readers
      <3>7. /\ reader' \in [Ends -> Readers]
            /\ reader'[e] \in {r1, r2} /\ reader'[Peer(e)] = reader[Peer(e)]
        BY <3>2, <3>4, <3>5, <3>6, PeerEnd
      <3>. QED  BY <3>4, <3>5, <3>6, <3>7
    <2>. QED  BY <2>1, <2>2
  <1>4. /\ waiting' = waiting /\ attached' = attached /\ writer' = writer /\ dialed' = dialed
        /\ acked' = acked /\ written' = written /\ localClosed' = localClosed
        /\ remoteClosed' = remoteClosed /\ UNCHANGED control
    BY DEF ReadData, ReadStops, ReadFails, control
  <1>5. TypeOK'
    BY <1>2, <1>3, <1>4 DEF TypeInv, TypeOK, control, Readers, Nets, Transports, Messages
  <1>6. LoopAt(e)'
    <2>1. writer[e].ack \in Nat /\ writer[e].local \in Nat /\ Len(rcvd[e]) \in Nat
      BY TypeFacts DEF TypeInv, TypeOK
    <2>2. LoopAt(e)
      BY DEF TypeInv, LoopInv
    <2>. QED  BY <1>0, <1>2, <1>3, <1>4, <2>1, <2>2 DEF LoopAt
  <1>7. Still(Peer(e)) /\ dialed' = dialed
    BY <1>2, <1>3, <1>4 DEF Still
  <1>. QED  BY <1>5, <1>6, <1>7, LocalStepRule

\* What the write loop does to its own record
LEMMA WriterFacts ==
    ASSUME TypeInv, NEW e \in Ends, Writing(e)
    PROVE  /\ writer[e].pc # "off" /\ attached[e] \in Conns
           /\ writer' \in [Ends -> Writers] /\ writer'[Peer(e)] = writer[Peer(e)]
           /\ ChooseFrame(e) =>
                /\ writer[e].pc = "ready" /\ writer'[e].pc = "frame"
                /\ writer'[e].local = writer[e].local /\ writer'[e].peer = writer[e].peer
                /\ writer'[e].ack = Len(rcvd[e]) - writer[e].local
                /\ writer[e].peer + writer'[e].size <= written[e]
           /\ WriteFrame(e) =>
                /\ writer[e].pc = "frame" /\ writer'[e].pc = "ready"
                /\ writer'[e].local = writer[e].local + writer[e].ack
                /\ writer'[e].peer = writer[e].peer + writer[e].size
                /\ writer'[e].ack = 0 /\ writer'[e].size = 0
           /\ ~ChooseFrame(e) /\ ~WriteFrame(e) =>
                /\ writer'[e].pc = "off" /\ writer'[e].local = 0
                /\ writer'[e].ack = 0 /\ writer'[e].size = 0
  <1>. DEFINE w == writer[e]
  <1>1. writer \in [Ends -> Writers] /\ w \in Writers /\ Len(rcvd[e]) \in Nat
    BY TypeFacts DEF TypeInv, TypeOK, Writers
  <1>2. w.pc # "off" /\ attached[e] \in Conns
    BY TypeFacts DEF Writing, ChooseFrame, WriteFrame, WriteFails, WriteStops, WriteErrorTag
  <1>3. /\ w.ack \in Nat /\ w.size \in Nat /\ w.local \in Nat /\ w.peer \in Nat
        /\ written[e] \in Nat /\ w.ack + w.local <= Len(rcvd[e])
    BY <1>1 DEF Writers, TypeInv, TypeOK, LoopInv, LoopAt
  <1>4. ASSUME NEW v \in Writers, writer' = [writer EXCEPT ![e] = v]
        PROVE  /\ writer' \in [Ends -> Writers] /\ writer'[Peer(e)] = writer[Peer(e)]
               /\ writer'[e] = v
    BY <1>1, <1>4, PeerEnd
  <1>5. CASE ChooseFrame(e)
    <2>. PICK n \in 0..AtMost(ToSend(e), MaxFrame) :
            writer' = [writer EXCEPT ![e].pc = "frame", ![e].ack = ToAck(e), ![e].size = n]
      BY <1>5 DEF ChooseFrame
    <2>. DEFINE a == ToAck(e)
                v == [w EXCEPT !.pc = "frame", !.ack = a, !.size = n]
    <2>1. n \in Nat /\ a \in Nat /\ a = Len(rcvd[e]) - w.local
      BY <1>1, <1>3 DEF ToAck
    <2>2. w.peer + n <= written[e]
      <3>1. MaxFrame \in Nat /\ ToSend(e) \in Int /\ ToSend(e) = written[e] - w.peer
        BY <1>3, SizesPositive DEF ToSend
      <3>2. AtMost(ToSend(e), MaxFrame) \in Int /\ AtMost(ToSend(e), MaxFrame) <= ToSend(e)
        BY <3>1 DEF AtMost
      <3>. HIDE DEF w
      <3>. QED  BY <1>3, <3>1, <3>2
    <2>3. writer' = [writer EXCEPT ![e] = v]
      OBVIOUS
    <2>. HIDE DEF a, w
    <2>4. /\ v \in Writers /\ v.pc = "frame" /\ v.ack = a /\ v.size = n
          /\ v.local = w.local /\ v.peer = w.peer
      BY <1>1, <2>1 DEF Writers
    <2>. HIDE DEF v
    <2>5. w.pc = "ready" /\ ~WriteFrame(e)
      BY <1>5 DEF ChooseFrame, WriteFrame, w
    <2>. QED  BY <1>2, <1>4, <1>5, <2>1, <2>2, <2>3, <2>4, <2>5 DEF w
  <1>6. CASE WriteFrame(e)
    <2>. DEFINE v == Advanced(w)
    <2>1. writer' = [writer EXCEPT ![e] = v] /\ w.pc = "frame" /\ ~ChooseFrame(e)
      BY <1>6 DEF WriteFrame, ChooseFrame
    <2>2. /\ v \in Writers /\ v.pc = "ready" /\ v.ack = 0 /\ v.size = 0
          /\ v.local = w.local + w.ack /\ v.peer = w.peer + w.size
      <3>. DEFINE l == w.local + w.ack
                  q == w.peer + w.size
      <3>1. l \in Nat /\ q \in Nat
        <4>1. w.local \in Nat /\ w.ack \in Nat /\ w.peer \in Nat /\ w.size \in Nat
          BY <1>3
        <4>. HIDE DEF w
        <4>. QED  BY <4>1
      <3>2. v = [NoWriter EXCEPT !.pc = "ready", !.local = l, !.peer = q]
        BY DEF Advanced
      <3>. HIDE DEF l, q, v
      <3>3. /\ v \in Writers /\ v.pc = "ready" /\ v.ack = 0 /\ v.size = 0
            /\ v.local = l /\ v.peer = q
        BY <3>1, <3>2 DEF NoWriter, Writers
      <3>. QED  BY <3>3 DEF l, q
    <2>. HIDE DEF v
    <2>. QED  BY <1>2, <1>4, <1>6, <2>1, <2>2
  <1>7. CASE ~ChooseFrame(e) /\ ~WriteFrame(e)
    <2>1. writer' = [writer EXCEPT ![e] = NoWriter]
      BY <1>7 DEF Writing, WriteFails, WriteStops, WriteErrorTag, WriterExit
    <2>2. /\ NoWriter \in Writers /\ NoWriter.pc = "off" /\ NoWriter.local = 0
          /\ NoWriter.ack = 0 /\ NoWriter.size = 0
      BY DEF NoWriter, Writers
    <2>. QED  BY <1>2, <1>4, <1>7, <2>1, <2>2
  <1>. QED  BY <1>5, <1>6, <1>7

\* The write loop
LEMMA WritingSteps ==
    ASSUME TypeInv, NEW e \in Ends, Writing(e)
    PROVE  LocalStep(e)
  <1>1. attached[e] \in Conns
    BY WriterFacts
  <1>2. net' \in Nets
    <2>1. CASE WriteFrame(e)
      <3>. DEFINE m == Frame(writer[e].ack, Bytes(writer[e].peer, writer[e].size))
      <3>1. writer[e].size \in Nat /\ writer[e].peer \in Nat /\ writer[e].ack \in Nat
        BY DEF TypeInv, TypeOK
      <3>2. Bytes(writer[e].peer, writer[e].size) \in Seq(Nat)
        BY <3>1, SeqDef DEF Bytes
      <3>3. m \in Messages
        BY <3>1, <3>2 DEF Frame, Messages
      <3>4. net' = Sent(e, attached[e], m)
        BY <2>1 DEF WriteFrame
      <3>. HIDE DEF m
      <3>. QED  BY <1>1, <3>3, <3>4, TypeFacts, SentNet
    <2>2. CASE WriteErrorTag(e)
      <3>1. ErrorTag \in Messages
        BY EmptySeq DEF ErrorTag, Messages
      <3>. QED  BY <1>1, <2>2, <3>1, TypeFacts, SentNet DEF WriteErrorTag
    <2>3. CASE ~WriteFrame(e) /\ ~WriteErrorTag(e)
      BY <2>3, TypeFacts DEF Writing, ChooseFrame, WriteFails, WriteStops
    <2>. QED  BY <2>1, <2>2, <2>3
  <1>3. stop' \in [Ends -> BOOLEAN]
    BY DEF Writing, ChooseFrame, WriteFrame, WriteFails, WriteStops, WriteErrorTag, WriterExit,
           TypeInv, TypeOK
  <1>4. UNCHANGED <<buffers, waiting, attached, reader, control>>
    BY DEF Writing, ChooseFrame, WriteFrame, WriteFails, WriteStops, WriteErrorTag
  <1>5. TypeOK'
    BY <1>2, <1>3, <1>4, WriterFacts
       DEF TypeInv, TypeOK, buffers, control, Writers, Nets, Transports, Messages
  <1>6. LoopAt(e)'
    <2>1. LoopAt(e) /\ reader[e].pc # "handshake" /\ attached[e] # None
      BY <1>1, WriterFacts, TypeFacts DEF TypeInv, LoopInv, LoopAt
    <2>2. /\ writer'[e].ack + writer'[e].local <= Len(rcvd[e])
          /\ writer'[e].pc # "frame" => writer'[e].ack = 0 /\ writer'[e].size = 0
      <3>1. /\ writer[e].ack \in Nat /\ writer[e].local \in Nat /\ Len(rcvd[e]) \in Nat
            /\ writer[e].ack + writer[e].local <= Len(rcvd[e])
        BY <2>1, TypeFacts DEF TypeInv, TypeOK, LoopAt
      <3>. QED  BY <3>1, WriterFacts
    <2>. QED  BY <1>4, <2>1, <2>2 DEF LoopAt, buffers, control
  <1>7. Still(Peer(e)) /\ dialed' = dialed
    BY <1>4, WriterFacts DEF Still, buffers, control
  <1>. QED  BY <1>5, <1>6, <1>7, LocalStepRule

\* The steps of neither end's loops: the client dials or gives up, the server
\* returns or loses patience, a transport dies
Outside == Redialing \/ ServerReturns \/ GraceTimeout \/ \E k \in Conns : Break(k)

\* They leave the loops and what is in flight alone.
LEMMA OutsideFacts ==
    ASSUME TypeInv, Outside
    PROVE  /\ TypeInv'
           /\ UNCHANGED <<written, acked, rcvd, consumed, remoteClosed, attached, reader, writer>>
           /\ \A e \in Ends : localClosed[e] => localClosed'[e]
           /\ \A k \in Conns : /\ net'[k].to = net[k].to
                               /\ net'[k].up => net[k].up
           /\ dialed' \in {dialed, dialed + 1}
           /\ \A e \in Ends, k \in Conns :
                k <= dialed => (k \in waiting'[e] <=> k \in waiting[e])
           /\ \A e \in Ends, k \in Conns :
                k > dialed /\ k <= dialed' => k \in waiting'[e] \/ (e = Client /\ ~net'[k].up)
  <1>. USE DEF TypeInv, TypeOK
  <1>0. net \in Nets /\ dialed \in Nat /\ MaxConns \in Nat /\ Conns = 1..MaxConns
    <2>1. net \in Nets
      BY DEF Nets, Transports, Messages
    <2>. QED  BY <2>1, MaxConnsPositive DEF Conns
  <1>a. ASSUME UNCHANGED <<rcvd, attached, reader, writer>>, dialed' = dialed + 1,
               \A e \in Ends : waiting'[e] \in {waiting[e], waiting[e] \union {dialed + 1}}
        PROVE  LoopInv'
    <2>. SUFFICES ASSUME NEW e \in Ends  PROVE LoopAt(e)'
      BY DEF LoopInv
    <2>1. LoopAt(e) /\ attached[e] \in Nat /\ \A k \in waiting[e] : k \in Nat
      <3>1. LoopAt(e)
        BY DEF LoopInv
      <3>2. attached[e] \in Conns \union {None} /\ waiting[e] \subseteq Conns
        OBVIOUS
      <3>. HIDE DEF TypeInv, TypeOK
      <3>. QED  BY <1>0, <3>1, <3>2 DEF None
    <2>2. attached[e] <= dialed + 1 /\ attached[e] # dialed + 1
      <3>1. attached[e] <= dialed
        BY <2>1 DEF LoopAt
      <3>. HIDE DEF TypeInv, TypeOK
      <3>. QED  BY <1>0, <2>1, <3>1
    <2>3. \A k \in waiting'[e] : k <= dialed + 1
      <3>1. \A k \in waiting[e] : k \in Nat /\ k <= dialed
        BY <2>1 DEF LoopAt
      <3>2. waiting'[e] = waiting[e] \/ waiting'[e] = waiting[e] \union {dialed + 1}
        BY <1>a
      <3>. HIDE DEF TypeInv, TypeOK
      <3>. QED  BY <1>0, <3>1, <3>2
    <2>4. attached[e] \notin waiting'[e]
      BY <1>0, <1>a, <2>1, <2>2 DEF LoopAt
    <2>. HIDE DEF TypeInv, TypeOK
    <2>. QED  BY <1>a, <2>1, <2>2, <2>3, <2>4 DEF LoopAt
  <1>1. CASE Dial
    <2>1. /\ UNCHANGED <<buffers, attached, stop, reader, writer, tracked, net>>
          /\ dialed' = dialed + 1 /\ current' = dialed + 1 /\ loop' = "main"
          /\ waiting' = [e \in Ends |-> waiting[e] \union {dialed + 1}]
          /\ dialed + 1 \in Conns
      BY <1>0, <1>1 DEF Dial
    <2>2. waiting' \in [Ends -> SUBSET Conns]
      BY <2>1
    <2>3. TypeOK'
      BY <2>1, <2>2 DEF buffers
    <2>4. LoopInv'
      BY <1>a, <2>1 DEF buffers
    <2>5. \A k \in Conns : k > dialed /\ k <= dialed' => k = dialed + 1
      BY <1>0, <2>1
    <2>6. \A e \in Ends, k \in Conns : k <= dialed => (k \in waiting'[e] <=> k \in waiting[e])
      BY <1>0, <2>1
    <2>7. \A e \in Ends : dialed + 1 \in waiting'[e]
      BY <2>1
    <2>8. /\ UNCHANGED <<written, acked, rcvd, consumed, remoteClosed, attached, reader, writer>>
          /\ localClosed' = localClosed /\ net' = net /\ dialed' = dialed + 1
      BY <2>1 DEF buffers
    <2>9. \A e \in Ends, k \in Conns : k > dialed /\ k <= dialed' => k \in waiting'[e]
      BY <2>5, <2>7
    <2>10. \A k \in Conns : net'[k].to = net[k].to /\ (net'[k].up => net[k].up)
      BY <2>8
    <2>. HIDE DEF TypeOK
    <2>. QED  BY <2>3, <2>4, <2>6, <2>8, <2>9, <2>10
  <1>2. CASE DialLost
    <2>1. /\ UNCHANGED <<buffers, attached, stop, reader, writer, current, tracked>>
          /\ dialed' = dialed + 1 /\ loop' \in {"redial", loop}
          /\ waiting' = [waiting EXCEPT ![Server] = @ \union {dialed + 1}]
          /\ dialed + 1 \in Conns
          /\ net' = Broken(net, dialed + 1)
      BY <1>0, <1>2 DEF DialLost
    <2>2. waiting' \in [Ends -> SUBSET Conns]
      BY <2>1
    <2>3. /\ net' \in Nets /\ ~net'[dialed + 1].up
          /\ \A k \in Conns : net'[k].to = net[k].to /\ (net'[k].up => net[k].up)
      <3>. DEFINE d == dialed + 1
      <3>1. d \in Conns /\ net' = Broken(net, d)
        BY <2>1
      <3>. HIDE DEF d
      <3>2. /\ net' \in Nets /\ ~net'[d].up
            /\ \A k \in Conns : net'[k].to = net[k].to /\ (net'[k].up => net[k].up)
        BY <1>0, <3>1, BrokenNet
      <3>. QED  BY <3>2 DEF d
    <2>4. TypeOK'
      BY <2>1, <2>2, <2>3 DEF buffers, Nets, Transports, Messages
    <2>5. \A e \in Ends : waiting'[e] \in {waiting[e], waiting[e] \union {dialed + 1}}
      <3>1. \A e \in Ends : waiting'[e] =
                IF e = Server THEN waiting[e] \union {dialed + 1} ELSE waiting[e]
        BY <2>1
      <3>. QED  BY <3>1
    <2>6. LoopInv'
      BY <1>a, <2>1, <2>5 DEF buffers
    <2>7. \A e \in Ends, k \in Conns : k <= dialed => (k \in waiting'[e] <=> k \in waiting[e])
      <3>. SUFFICES ASSUME NEW e \in Ends, NEW k \in Conns, k <= dialed
                    PROVE  k \in waiting'[e] <=> k \in waiting[e]
        OBVIOUS
      <3>1. k # dialed + 1
        BY <1>0
      <3>2. waiting'[e] = waiting[e] \/ waiting'[e] = waiting[e] \union {dialed + 1}
        BY <2>5
      <3>. HIDE DEF TypeInv, TypeOK
      <3>. QED  BY <3>1, <3>2
    <2>8. \A k \in Conns : k > dialed /\ k <= dialed' => k = dialed + 1
      BY <1>0, <2>1
    <2>9. \A e \in Ends : e = Client \/ dialed + 1 \in waiting'[e]
      BY <2>1 DEF Ends
    <2>. HIDE DEF TypeOK
    <2>. QED  BY <2>1, <2>3, <2>4, <2>6, <2>7, <2>8, <2>9 DEF buffers
  <1>3. CASE \E k \in Conns : Break(k)
    <2>. PICK k \in Conns : Break(k)
      BY <1>3
    <2>1. /\ net' \in Nets
          /\ \A j \in Conns : net'[j].to = net[j].to /\ (net'[j].up => net[j].up)
      BY <1>0, BrokenNet DEF Break
    <2>2. UNCHANGED <<buffers, handlers, control>>
      BY DEF Break
    <2>3. TypeOK'
      BY <2>1, <2>2 DEF buffers, handlers, control, Nets, Transports, Messages
    <2>4. LoopInv'
      BY <2>2 DEF LoopInv, LoopAt, buffers, handlers, control
    <2>. QED  BY <1>0, <2>1, <2>2, <2>3, <2>4 DEF buffers, handlers, control
  <1>4. CASE \/ PeriodicDialRefused \/ LastLost \/ ConnectionLost \/ Backoff \/ DialFails
             \/ GiveUp \/ ContextDone \/ ServerReturns \/ GraceTimeout
    <2>1. UNCHANGED <<written, acked, rcvd, consumed, remoteClosed, handlers, dialed, current, net>>
      BY <1>4 DEF PeriodicDialRefused, LastLost, ConnectionLost, Backoff, DialFails, GiveUp,
                  ContextDone, ServerReturns, GraceTimeout, ClientReturns, Close, buffers, control
    <2>2. loop' \in {"main", "redial", "backoff", "last", "done"} /\ tracked' \in BOOLEAN
      BY <1>4 DEF PeriodicDialRefused, LastLost, ConnectionLost, Backoff, DialFails, GiveUp,
                  ContextDone, ServerReturns, GraceTimeout, ClientReturns, Close, control
    <2>3. \E e \in Ends : localClosed' \in {localClosed, [localClosed EXCEPT ![e] = TRUE]}
      BY <1>4 DEF PeriodicDialRefused, LastLost, ConnectionLost, Backoff, DialFails, GiveUp,
                  ContextDone, ServerReturns, GraceTimeout, ClientReturns, Close, buffers, Ends
    <2>4. /\ localClosed' \in [Ends -> BOOLEAN]
          /\ \A e \in Ends : localClosed[e] => localClosed'[e]
      BY <2>3
    <2>5. TypeOK'
      BY <2>1, <2>2, <2>4 DEF handlers
    <2>6. LoopInv'
      BY <2>1 DEF LoopInv, LoopAt, handlers
    <2>. QED  BY <1>0, <2>1, <2>4, <2>5, <2>6 DEF handlers
  <1>. QED  BY <1>1, <1>2, <1>3, <1>4 DEF Outside, Redialing

\* In the first state both loops of each end run on the first transport.
LEMMA InitType ==
    ASSUME Init
    PROVE  TypeInv
  <1>. DEFINE r == [Idle EXCEPT !.pc = "ack"]
              w == [NoWriter EXCEPT !.pc = "ready"]
  <1>1. r \in Readers /\ r.pc = "ack" /\ r.data = <<>>
    BY EmptySeq DEF Idle, Readers
  <1>2. w \in Writers /\ w.pc = "ready" /\ w.ack = 0 /\ w.size = 0 /\ w.local = 0
    BY DEF NoWriter, Writers
  <1>3. reader = [e \in Ends |-> r] /\ writer = [e \in Ends |-> w]
    BY DEF Init
  <1>. HIDE DEF r, w
  <1>4. reader \in [Ends -> Readers] /\ writer \in [Ends -> Writers]
    BY <1>1, <1>2, <1>3
  <1>5. 1 \in Conns /\ <<>> \in Seq(Nat) /\ <<>> \in Seq(Messages) /\ Len(<<>>) = 0
    BY MaxConnsPositive, EmptySeq DEF Conns
  <1>6. net \in Nets
    BY <1>5 DEF Init, Nets, Transports
  <1>7. /\ written \in [Ends -> Nat] /\ acked \in [Ends -> Nat] /\ consumed \in [Ends -> Nat]
        /\ rcvd \in [Ends -> Seq(Nat)]
        /\ attached \in [Ends -> Conns \union {None}] /\ dialed \in Conns /\ current \in Conns
        /\ loop \in {"main", "redial", "backoff", "last", "done"}
    BY <1>5 DEF Init
  <1>8. /\ localClosed \in [Ends -> BOOLEAN] /\ remoteClosed \in [Ends -> BOOLEAN]
        /\ stop \in [Ends -> BOOLEAN] /\ tracked \in BOOLEAN
        /\ waiting \in [Ends -> SUBSET Conns]
    BY DEF Init
  <1>9. TypeOK
    BY <1>4, <1>6, <1>7, <1>8 DEF TypeOK, Readers, Writers, Nets, Transports, Messages
  <1>10. LoopInv
    <2>. SUFFICES ASSUME NEW e \in Ends  PROVE LoopAt(e)
      BY DEF LoopInv
    <2>1. /\ reader[e] = r /\ writer[e] = w /\ attached[e] = 1 /\ waiting[e] = {}
          /\ rcvd[e] = <<>> /\ dialed = 1
      BY <1>3 DEF Init
    <2>. QED  BY <1>1, <1>2, <1>5, <2>1 DEF LoopAt, None
  <1>. QED  BY <1>9, <1>10 DEF TypeInv

\* A step that changes nothing
LEMMA StutterType ==
    ASSUME TypeInv, UNCHANGED vars
    PROVE  TypeInv'
  <1>1. UNCHANGED <<written, acked, rcvd, consumed, localClosed, remoteClosed, waiting,
                    attached, stop, reader, writer, dialed, loop, current, tracked, net>>
    BY DEF vars, buffers, handlers, control
  <1>2. TypeOK'
    BY <1>1 DEF TypeInv, TypeOK
  <1>3. LoopInv'
    BY <1>1 DEF TypeInv, LoopInv, LoopAt
  <1>. QED  BY <1>2, <1>3 DEF TypeInv

\* Every step of an end is local, so the type invariant holds in every state.
THEOREM TypeInvariant == Spec => []TypeInv
  <1>1. Init => TypeInv
    BY InitType
  <1>2. TypeInv /\ [Next]_vars => TypeInv'
    <2>. SUFFICES ASSUME TypeInv, [Next]_vars PROVE TypeInv'
      OBVIOUS
    <2>1. ASSUME NEW e \in Ends,
                 Write(e) \/ Read(e) \/ Close(e) \/ Attaching(e) \/ Reading(e) \/ Writing(e)
          PROVE  TypeInv'
      BY <2>1, ProgramSteps, AttachingSteps, HandshakeSteps, InboxSteps, DataSteps, WritingSteps
         DEF Reading, LocalStep
    <2>2. CASE Outside
      BY <2>2, OutsideFacts
    <2>3. CASE UNCHANGED vars
      BY <2>3, StutterType
    <2>. QED  BY <2>1, <2>2, <2>3 DEF Next, Outside
  <1>. QED  BY <1>1, <1>2, PTL DEF Spec

\* Every variable keeps its type, whatever the two ends and the network do.
THEOREM TypeCorrect == Spec => []TypeOK
  <1>1. TypeInv => TypeOK
    BY DEF TypeInv
  <1>. QED  BY <1>1, TypeInvariant, PTL

-------------------------------------------------------------------------------
(* What is buffered *)

\* What is acknowledged was received, and what is received was written.
BufferInv ==
    \A e \in Ends : acked[e] <= Len(rcvd[Peer(e)]) /\ Len(rcvd[Peer(e)]) <= written[e]

\* The write loop stays within the send buffer.
SendInv ==
    \A e \in Ends : writer[e].pc # "off" =>
        acked[e] <= writer[e].peer /\ writer[e].peer + writer[e].size <= written[e]

-------------------------------------------------------------------------------
(* What is in transit *)

HasTag(s) == \E i \in 1..Len(s) : s[i].kind = "errorTag"

\* The i-th message starts at position b[i - 1] and ends at b[i], and acknowledges
\* from a[i - 1] to a[i]; an error tag is the last one.
Continues(s, b, a, i) ==
    /\ s[i].kind \in {"frame", "errorTag"}
    /\ s[i].kind = "errorTag" => i = Len(s) /\ s[i].data = <<>>
    /\ s[i].data = Bytes(b[i - 1], Len(s[i].data))
    /\ b[i] = b[i - 1] + Len(s[i].data)
    /\ a[i] = a[i - 1] + s[i].at

\* The messages continue the stream from position b0 to b1, and acknowledge the
\* other one from a0 to a1.
Through(s, b0, a0, b1, a1) ==
    \E b \in [0..Len(s) -> 0..b1], a \in [0..Len(s) -> 0..a1] :
        /\ b[0] = b0 /\ a[0] = a0 /\ b[Len(s)] = b1 /\ a[Len(s)] = a1
        /\ \A i \in 1..Len(s) : Continues(s, b, a, i)

\* No messages go nowhere.
LEMMA ThroughEmpty ==
    ASSUME NEW b0 \in Nat, NEW a0 \in Nat
    PROVE  /\ Through(<<>>, b0, a0, b0, a0)
           /\ \A b1, a1 \in Nat : Through(<<>>, b0, a0, b1, a1) => b1 = b0 /\ a1 = a0
           /\ ~HasTag(<<>>)
  <1>1. Len(<<>>) = 0 /\ 0..0 = {0} /\ 1..0 = {}
    BY EmptySeq
  <1>. DEFINE b == [i \in 0..0 |-> b0]
              a == [i \in 0..0 |-> a0]
  <1>2. b \in [0..0 -> 0..b0] /\ a \in [0..0 -> 0..a0] /\ b[0] = b0 /\ a[0] = a0
    OBVIOUS
  <1>. HIDE DEF b, a
  <1>3. Through(<<>>, b0, a0, b0, a0)
    BY <1>1, <1>2 DEF Through
  <1>4. ASSUME NEW b1 \in Nat, NEW a1 \in Nat, Through(<<>>, b0, a0, b1, a1)
        PROVE  b1 = b0 /\ a1 = a0
    BY <1>1, <1>4 DEF Through
  <1>. QED  BY <1>1, <1>3, <1>4 DEF HasTag

\* A run of messages ends at or after where it starts.
LEMMA ThroughBound ==
    ASSUME NEW s, NEW b0, NEW a0, NEW b1, NEW a1, Through(s, b0, a0, b1, a1), Len(s) \in Nat
    PROVE  b0 \in 0..b1 /\ a0 \in 0..a1
  BY DEF Through

\* A message is sent at the end of a run.
LEMMA ThroughAppend ==
    ASSUME NEW s \in Seq(Messages), NEW b0, NEW a0, NEW b1 \in Nat, NEW a1 \in Nat,
           Through(s, b0, a0, b1, a1), ~HasTag(s),
           NEW m \in Messages, m.kind \in {"frame", "errorTag"},
           m.kind = "errorTag" => m.data = <<>>,
           m.data = Bytes(b1, Len(m.data))
    PROVE  Through(Append(s, m), b0, a0, b1 + Len(m.data), a1 + m.at)
  <1>. DEFINE t == Append(s, m)
              n == Len(s)
              b2 == b1 + Len(m.data)
              a2 == a1 + m.at
  <1>1. /\ n \in Nat /\ Len(t) = n + 1 /\ t[n + 1] = m
        /\ \A i \in 1..n : t[i] = s[i]
    BY AppendProperties, LenProperties
  <1>2. b2 \in Nat /\ a2 \in Nat /\ b1 <= b2 /\ a1 <= a2
    BY LenProperties DEF Messages
  <1>. PICK b \in [0..n -> 0..b1] : \E a \in [0..n -> 0..a1] :
        /\ b[0] = b0 /\ a[0] = a0 /\ b[n] = b1 /\ a[n] = a1
        /\ \A i \in 1..n : Continues(s, b, a, i)
    BY DEF Through
  <1>. PICK a \in [0..n -> 0..a1] :
        /\ b[0] = b0 /\ a[0] = a0 /\ b[n] = b1 /\ a[n] = a1
        /\ \A i \in 1..n : Continues(s, b, a, i)
    OBVIOUS
  <1>. DEFINE c == [i \in 0..(n + 1) |-> IF i = n + 1 THEN b2 ELSE b[i]]
              d == [i \in 0..(n + 1) |-> IF i = n + 1 THEN a2 ELSE a[i]]
  <1>4. /\ c[n + 1] = b2 /\ d[n + 1] = a2
        /\ \A i \in 0..n : c[i] = b[i] /\ d[i] = a[i]
    BY <1>1
  <1>5. c \in [0..(n + 1) -> 0..b2] /\ d \in [0..(n + 1) -> 0..a2]
    <2>1. \A i \in 0..n : b[i] \in 0..b2 /\ a[i] \in 0..a2
      <3>1. \A x \in 0..b1 : x \in 0..b2
        BY <1>2
      <3>2. \A x \in 0..a1 : x \in 0..a2
        BY <1>2
      <3>. HIDE DEF b2, a2, n
      <3>. QED  BY <3>1, <3>2
    <2>2. \A i \in 0..(n + 1) : i = n + 1 \/ i \in 0..n
      BY <1>1
    <2>. HIDE DEF b2, a2
    <2>. QED  BY <1>1, <1>2, <2>1, <2>2
  <1>. HIDE DEF c, d
  <1>6. ASSUME NEW i \in 1..(n + 1)
        PROVE  Continues(t, c, d, i)
    <2>1. CASE i = n + 1
      <3>1. i - 1 = n /\ n \in 0..n /\ t[i] = m
        BY <1>1, <2>1
      <3>2. c[i - 1] = b1 /\ d[i - 1] = a1 /\ c[i] = b2 /\ d[i] = a2
        BY <1>4, <2>1, <3>1
      <3>. QED  BY <1>1, <2>1, <3>1, <3>2 DEF Continues
    <2>2. CASE i # n + 1
      <3>1. i \in 1..n /\ i \in 0..n /\ i - 1 \in 0..n
        <4>1. n \in Nat
          BY <1>1
        <4>. HIDE DEF n, t, b2, a2
        <4>. QED  BY <2>2, <4>1
      <3>2. t[i] = s[i] /\ c[i - 1] = b[i - 1] /\ d[i - 1] = a[i - 1] /\ c[i] = b[i] /\ d[i] = a[i]
        BY <1>1, <1>4, <3>1
      <3>3. s[i].kind # "errorTag"
        BY <3>1 DEF HasTag
      <3>4. Continues(s, b, a, i)
        BY <3>1
      <3>. HIDE DEF t
      <3>. QED  BY <3>2, <3>3, <3>4 DEF Continues
    <2>. QED  BY <2>1, <2>2
  <1>7. c[0] = b0 /\ d[0] = a0 /\ c[n + 1] = b2 /\ d[n + 1] = a2
    BY <1>1, <1>4
  <1>. HIDE DEF t, b2, a2, n
  <1>8. Through(t, b0, a0, b2, a2)
    <2>1. c \in [0..Len(t) -> 0..b2] /\ d \in [0..Len(t) -> 0..a2]
      BY <1>1, <1>5
    <2>2. c[0] = b0 /\ d[0] = a0 /\ c[Len(t)] = b2 /\ d[Len(t)] = a2
      BY <1>1, <1>7
    <2>3. \A i \in 1..Len(t) : Continues(t, c, d, i)
      BY <1>1, <1>6
    <2>. QED  BY <2>1, <2>2, <2>3 DEF Through
  <1>. QED  BY <1>8 DEF t, b2, a2

\* The first message of a run is read.
LEMMA ThroughTail ==
    ASSUME NEW s \in Seq(Messages), s # <<>>, NEW b0 \in Nat, NEW a0 \in Nat,
           NEW b1 \in Nat, NEW a1 \in Nat, Through(s, b0, a0, b1, a1)
    PROVE  /\ Head(s).kind \in {"frame", "errorTag"}
           /\ Head(s).data = Bytes(b0, Len(Head(s).data))
           /\ Head(s).kind = "errorTag" => b0 = b1
           /\ Through(Tail(s), b0 + Len(Head(s).data), a0 + Head(s).at, b1, a1)
           /\ b0 + Len(Head(s).data) <= b1
           /\ a0 + Head(s).at <= a1
           /\ HasTag(Tail(s)) => HasTag(s)
           /\ Head(s).kind = "errorTag" => HasTag(s)
  <1>. DEFINE t == Tail(s)
              n == Len(s)
              m == Head(s)
  <1>1. /\ n \in Nat /\ n > 0 /\ Len(t) = n - 1 /\ m = s[1]
        /\ \A i \in 1..(n - 1) : t[i] = s[i + 1]
    BY HeadTailProperties, LenProperties, EmptySeq
  <1>. PICK b \in [0..n -> 0..b1] : \E a \in [0..n -> 0..a1] :
        /\ b[0] = b0 /\ a[0] = a0 /\ b[n] = b1 /\ a[n] = a1
        /\ \A i \in 1..n : Continues(s, b, a, i)
    BY DEF Through
  <1>. PICK a \in [0..n -> 0..a1] :
        /\ b[0] = b0 /\ a[0] = a0 /\ b[n] = b1 /\ a[n] = a1
        /\ \A i \in 1..n : Continues(s, b, a, i)
    OBVIOUS
  <1>2. /\ m.kind \in {"frame", "errorTag"} /\ m.data = Bytes(b0, Len(m.data))
        /\ b[1] = b0 + Len(m.data) /\ a[1] = a0 + m.at
        /\ m.kind = "errorTag" => n = 1 /\ m.data = <<>>
    <2>1. Continues(s, b, a, 1) /\ 1 - 1 = 0
      BY <1>1
    <2>. QED  BY <1>1, <2>1 DEF Continues
  <1>3. b[1] \in 0..b1 /\ a[1] \in 0..a1
    BY <1>1
  <1>. DEFINE c == [i \in 0..(n - 1) |-> b[i + 1]]
              d == [i \in 0..(n - 1) |-> a[i + 1]]
  <1>4. c \in [0..(n - 1) -> 0..b1] /\ d \in [0..(n - 1) -> 0..a1]
    <2>1. \A i \in 0..(n - 1) : i + 1 \in 0..n
      BY <1>1
    <2>. HIDE DEF n
    <2>. QED  BY <2>1
  <1>5. \A i \in 0..(n - 1) : c[i] = b[i + 1] /\ d[i] = a[i + 1]
    OBVIOUS
  <1>. HIDE DEF c, d, t, n, m
  <1>6. ASSUME NEW i \in 1..(n - 1)
        PROVE  Continues(t, c, d, i)
    <2>1. i + 1 \in 1..n /\ i - 1 \in 0..(n - 1) /\ i \in 0..(n - 1)
          /\ (i + 1) - 1 = i /\ (i - 1) + 1 = i
      BY <1>1
    <2>2. t[i] = s[i + 1] /\ c[i - 1] = b[i] /\ d[i - 1] = a[i] /\ c[i] = b[i + 1] /\ d[i] = a[i + 1]
      BY <1>1, <1>5, <2>1
    <2>3. i + 1 = n => i = n - 1
      BY <1>1
    <2>4. Continues(s, b, a, i + 1)
      BY <2>1
    <2>. QED  BY <1>1, <2>1, <2>2, <2>3, <2>4 DEF Continues, n
  <1>7. Through(t, b[1], a[1], b1, a1)
    <2>1. c \in [0..Len(t) -> 0..b1] /\ d \in [0..Len(t) -> 0..a1]
      BY <1>1, <1>4
    <2>2. c[0] = b[1] /\ d[0] = a[1] /\ c[Len(t)] = b1 /\ d[Len(t)] = a1
      <3>1. 0 \in 0..(n - 1) /\ 0 + 1 = 1 /\ n - 1 \in 0..(n - 1) /\ (n - 1) + 1 = n
        BY <1>1
      <3>. QED  BY <1>1, <1>5, <3>1
    <2>3. \A i \in 1..Len(t) : Continues(t, c, d, i)
      BY <1>1, <1>6
    <2>. QED  BY <2>1, <2>2, <2>3 DEF Through
  <1>8. HasTag(t) => HasTag(s)
    <2>. SUFFICES ASSUME NEW i \in 1..Len(t), t[i].kind = "errorTag" PROVE HasTag(s)
      BY DEF HasTag
    <2>1. i + 1 \in 1..Len(s) /\ s[i + 1].kind = "errorTag"
      BY <1>1 DEF n
    <2>. QED  BY <2>1 DEF HasTag
  <1>9. m.kind = "errorTag" => HasTag(s) /\ b0 = b1
    <2>1. m.kind = "errorTag" => HasTag(s)
      BY <1>1, <1>2 DEF HasTag, n
    <2>2. m.kind = "errorTag" => b[1] = b1 /\ Len(m.data) = 0
      BY <1>2, EmptySeq
    <2>. QED  BY <1>2, <2>1, <2>2
  <1>10. b0 + Len(m.data) <= b1 /\ a0 + m.at <= a1
    BY <1>2, <1>3
  <1>. QED  BY <1>2, <1>7, <1>8, <1>9, <1>10 DEF t, m

\* A tag moves neither position.
LEMMA ThroughTag ==
    ASSUME NEW s \in Seq(Messages), NEW b0, NEW a0, NEW b1 \in Nat, NEW a1 \in Nat,
           Through(s, b0, a0, b1, a1), ~HasTag(s)
    PROVE  Through(Append(s, ErrorTag), b0, a0, b1, a1)
  <1>m. PICK m \in Messages : m = ErrorTag
    BY EmptySeq DEF ErrorTag, Messages
  <1>1. m.kind = "errorTag" /\ m.at = 0 /\ m.data = <<>>
    BY <1>m DEF ErrorTag
  <1>2. Bytes(b1, 0) = <<>> /\ Len(m.data) = 0
    <2>1. Bytes(b1, 0) = <<>>
      <3>1. Bytes(b1, 0) \in Seq(Nat) /\ Len(Bytes(b1, 0)) = 0
        BY SeqDef, LenProperties DEF Bytes
      <3>. QED  BY <3>1, EmptySeq
    <2>. QED  BY <1>1, <2>1, EmptySeq
  <1>3. m.data = Bytes(b1, Len(m.data))
    BY <1>1, <1>2
  <1>4. Through(Append(s, m), b0, a0, b1 + Len(m.data), a1 + m.at)
    BY <1>1, <1>3, ThroughAppend
  <1>5. b1 + Len(m.data) = b1 /\ a1 + m.at = a1
    BY <1>1, <1>2
  <1>. QED  BY <1>4, <1>5, <1>m

\* Sequences that grow or shrink, and the tags in them
LEMMA AppendFacts ==
    ASSUME NEW s \in Seq(Messages), NEW m \in Messages
    PROVE  /\ Append(s, m) \in Seq(Messages) /\ Append(s, m) # <<>>
           /\ Len(Append(s, m)) = Len(s) + 1
           /\ HasTag(Append(s, m)) => HasTag(s) \/ m.kind = "errorTag"
           /\ s = <<>> => Append(s, m)[1] = m /\ Tail(Append(s, m)) = <<>>
           /\ s # <<>> => Append(s, m)[1] = s[1] /\ Tail(Append(s, m)) = Append(Tail(s), m)
  <1>. DEFINE t == Append(s, m)
  <1>1. /\ t \in Seq(Messages) /\ t # <<>> /\ Len(t) = Len(s) + 1 /\ t[Len(s) + 1] = m
        /\ \A i \in 1..Len(s) : t[i] = s[i]
        /\ Len(s) \in Nat
    BY AppendProperties, LenProperties
  <1>2. Tail(t) \in Seq(Messages) /\ Len(Tail(t)) = Len(s)
        /\ \A i \in 1..Len(s) : Tail(t)[i] = t[i + 1]
    BY <1>1, HeadTailProperties
  <1>. HIDE DEF t
  <1>3. HasTag(t) => HasTag(s) \/ m.kind = "errorTag"
    <2>. SUFFICES ASSUME NEW i \in 1..Len(t), t[i].kind = "errorTag"
                  PROVE  HasTag(s) \/ m.kind = "errorTag"
      BY DEF HasTag
    <2>1. i = Len(s) + 1 \/ i \in 1..Len(s)
      BY <1>1
    <2>. QED  BY <1>1, <2>1 DEF HasTag
  <1>4. ASSUME s = <<>>
        PROVE  t[1] = m /\ Tail(t) = <<>>
    <2>1. Len(s) = 0 /\ Len(s) + 1 = 1
      BY <1>4, EmptySeq
    <2>2. t[1] = m
      BY <1>1, <2>1
    <2>3. Tail(t) = <<>>
      BY <1>2, <2>1, EmptySeq
    <2>. QED  BY <2>2, <2>3
  <1>5. ASSUME s # <<>>
        PROVE  t[1] = s[1] /\ Tail(t) = Append(Tail(s), m)
    <2>1. /\ Len(s) > 0 /\ Tail(s) \in Seq(Messages) /\ Len(Tail(s)) = Len(s) - 1
          /\ \A i \in 1..(Len(s) - 1) : Tail(s)[i] = s[i + 1]
      BY <1>1, <1>5, HeadTailProperties, EmptySeq
    <2>. DEFINE u == Append(Tail(s), m)
    <2>2. /\ u \in Seq(Messages) /\ Len(u) = Len(s) /\ u[Len(s)] = m
          /\ \A i \in 1..(Len(s) - 1) : u[i] = Tail(s)[i]
      BY <1>1, <2>1, AppendProperties
    <2>. HIDE DEF u
    <2>3. ASSUME NEW i \in 1..Len(s) PROVE Tail(t)[i] = u[i]
      <3>1. CASE i = Len(s)
        BY <1>1, <1>2, <2>2, <3>1
      <3>2. CASE i # Len(s)
        <4>1. i \in 1..(Len(s) - 1) /\ i + 1 \in 1..Len(s)
          BY <1>1, <3>2
        <4>. QED  BY <1>1, <1>2, <2>1, <2>2, <4>1
      <3>. QED  BY <3>1, <3>2
    <2>4. Tail(t) = u
      BY <1>2, <2>2, <2>3, SeqEqual
    <2>. QED  BY <1>1, <2>1, <2>4 DEF u
  <1>. QED  BY <1>1, <1>3, <1>4, <1>5 DEF t

\* What is left when the head is read
LEMMA TailFacts ==
    ASSUME NEW s \in Seq(Messages), s # <<>>
    PROVE  /\ Tail(s) \in Seq(Messages) /\ Len(Tail(s)) = Len(s) - 1 /\ Len(s) \in Nat \ {0}
           /\ Head(s) = s[1]
           /\ HasTag(Tail(s)) => HasTag(s)
           /\ Len(s) <= 1 => Tail(s) = <<>>
  <1>1. /\ Tail(s) \in Seq(Messages) /\ Len(Tail(s)) = Len(s) - 1
        /\ \A i \in 1..Len(Tail(s)) : Tail(s)[i] = s[i + 1]
        /\ Len(s) \in Nat \ {0} /\ Head(s) = s[1]
    BY HeadTailProperties, LenProperties, EmptySeq
  <1>2. HasTag(Tail(s)) => HasTag(s)
    <2>. SUFFICES ASSUME NEW i \in 1..Len(Tail(s)), Tail(s)[i].kind = "errorTag" PROVE HasTag(s)
      BY DEF HasTag
    <2>1. i + 1 \in 1..Len(s) /\ s[i + 1].kind = "errorTag"
      BY <1>1
    <2>. QED  BY <2>1 DEF HasTag
  <1>3. Len(s) <= 1 => Tail(s) = <<>>
    BY <1>1, EmptySeq
  <1>. QED  BY <1>1, <1>2, <1>3

\* Data is cut anywhere.
LEMMA BytesCut ==
    ASSUME NEW p \in Nat, NEW d \in Seq(Nat), d = Bytes(p, Len(d)), NEW n \in 0..Len(d)
    PROVE  /\ SubSeq(d, 1, n) = Bytes(p, n)
           /\ SubSeq(d, n + 1, Len(d)) = Bytes(p + n, Len(d) - n)
           /\ Len(SubSeq(d, n + 1, Len(d))) = Len(d) - n
           /\ Bytes(p, 0) = <<>>
  <1>1. Len(d) \in Nat /\ n \in Nat /\ n <= Len(d) /\ \A i \in 1..Len(d) : d[i] = p + i
    BY LenProperties DEF Bytes
  <1>2. \A q, l \in Nat : /\ Bytes(q, l) \in Seq(Nat) /\ Len(Bytes(q, l)) = l
                         /\ \A i \in 1..l : Bytes(q, l)[i] = q + i
    BY SeqDef, LenProperties DEF Bytes
  <1>3. Bytes(p, 0) = <<>>
    BY <1>2, EmptySeq
  <1>4. SubSeq(d, 1, n) = Bytes(p, n)
    <2>. DEFINE u == SubSeq(d, 1, n)
    <2>1. u \in Seq(Nat) /\ Len(u) = n /\ \A i \in 1..n : u[i] = d[i]
      BY <1>1, SubSeqProperties
    <2>. HIDE DEF u
    <2>2. ASSUME NEW i \in 1..n PROVE u[i] = Bytes(p, n)[i]
      <3>1. i \in 1..Len(d)
        BY <1>1
      <3>2. d[i] = p + i /\ Bytes(p, n)[i] = p + i
        BY <1>1, <1>2, <3>1
      <3>. QED  BY <2>1, <3>2
    <2>3. u = Bytes(p, n)
      BY <1>1, <1>2, <2>1, <2>2, SeqEqual
    <2>. QED  BY <2>3 DEF u
  <1>5. /\ SubSeq(d, n + 1, Len(d)) = Bytes(p + n, Len(d) - n)
        /\ Len(SubSeq(d, n + 1, Len(d))) = Len(d) - n
    <2>. DEFINE u == SubSeq(d, n + 1, Len(d))
                l == Len(d) - n
    <2>1. u \in Seq(Nat) /\ Len(u) = l /\ \A i \in 1..l : u[i] = d[n + i]
      <3>1. n + 1 \in Int /\ Len(d) \in Int /\ \A i \in (n + 1)..Len(d) : d[i] \in Nat
        BY <1>1
      <3>2. /\ SubSeq(d, n + 1, Len(d)) \in Seq(Nat)
            /\ Len(SubSeq(d, n + 1, Len(d))) = IF n + 1 <= Len(d) THEN Len(d) - (n + 1) + 1 ELSE 0
            /\ \A i \in 1..(Len(d) - (n + 1) + 1) :
                    SubSeq(d, n + 1, Len(d))[i] = d[(n + 1) + i - 1]
        BY <3>1, SubSeqProperties
      <3>. HIDE DEF u
      <3>3. /\ u \in Seq(Nat)
            /\ Len(u) = IF n + 1 <= Len(d) THEN Len(d) - (n + 1) + 1 ELSE 0
            /\ \A i \in 1..(Len(d) - (n + 1) + 1) : u[i] = d[(n + 1) + i - 1]
        BY <3>2 DEF u
      <3>4. Len(d) - (n + 1) + 1 = l /\ \A i \in 1..l : (n + 1) + i - 1 = n + i
        BY <1>1
      <3>5. Len(u) = l
        BY <1>1, <3>3
      <3>. QED  BY <3>3, <3>4, <3>5
    <2>2. l \in Nat /\ p + n \in Nat /\ \A i \in 1..l : n + i \in 1..Len(d)
      BY <1>1
    <2>. HIDE DEF u, l
    <2>3. ASSUME NEW i \in 1..l PROVE u[i] = Bytes(p + n, l)[i]
      <3>1. d[n + i] = p + (n + i) /\ p + (n + i) = (p + n) + i
        BY <1>1, <2>2
      <3>2. Bytes(p + n, l)[i] = (p + n) + i
        BY <1>2, <2>2
      <3>. QED  BY <2>1, <3>1, <3>2
    <2>4. u = Bytes(p + n, l)
      BY <1>2, <2>1, <2>2, <2>3, SeqEqual
    <2>. QED  BY <2>1, <2>4 DEF u, l
  <1>. QED  BY <1>3, <1>4, <1>5

\* Where the messages of f on k end
EndsAt(f, k, s, b, a) ==
    /\ Talks(f, k) =>
        /\ b <= writer[f].peer /\ a <= writer[f].local
        /\ net[k].up => b = writer[f].peer /\ a = writer[f].local
    /\ InOrder /\ HasTag(s) => localClosed[f] /\ b = written[f]

\* e has not attached k.
QuietInv(e, k) ==
    LET f == Peer(e)
        s == net[k].to[e]
    IN  /\ After(e, k) => ~net[k].up
        /\ Before(f, k) => s = <<>>
        /\ Before(e, k) =>
            /\ ~Talks(f, k) /\ ~Listens(f, k)
            /\ s # <<>> => Len(s) = 1 /\ s[1].kind = "position" /\ s[1].at <= Len(rcvd[f])
        /\ Talks(f, k) \/ Greets(f, k) => ~HasTag(s)

\* e waits for the position of its peer: the peer has received nothing on k.
GreetInv(e, k) ==
    LET f == Peer(e)
        s == net[k].to[e]
    IN  /\ Before(e, k) \/ Greets(e, k) =>
            /\ Active(f, k) => IF s = <<>> THEN ~net[k].up ELSE s[1].at = Len(rcvd[f])
            /\ Greets(f, k) => Len(s) <= 1
        /\ Greets(e, k) =>
            /\ s # <<>> =>
                /\ s[1].kind = "position" /\ s[1].at <= Len(rcvd[f])
                /\ \E b \in 0..written[f] :
                    /\ Through(Tail(s), Len(rcvd[e]), s[1].at, b, s[1].at)
                    /\ EndsAt(f, k, s, b, s[1].at)
            /\ Listens(f, k) =>
                net[k].to[f] = <<>> /\ reader[f].pc = "ack" /\ acked[f] = Len(rcvd[e])
            /\ Talks(f, k) => writer[f].local = Len(rcvd[f]) /\ writer[f].ack = 0

\* The read loop of e continues where the receive buffer ends.
ListenInv(e, k) ==
    LET f == Peer(e)
        s == net[k].to[e]
    IN  /\ Listens(e, k) =>
            /\ reader[e].data = Bytes(Len(rcvd[e]), Len(reader[e].data))
            /\ \E b \in 0..written[f], a \in 0..Len(rcvd[f]) :
                /\ Through(s, Len(rcvd[e]) + Len(reader[e].data), acked[e], b, a)
                /\ EndsAt(f, k, s, b, a)
                /\ Talks(e, k) => a <= writer[e].peer
        /\ Talks(f, k) /\ Active(e, k) => Len(rcvd[e]) <= writer[f].peer

ChannelAt(k) == \A e \in Ends : QuietInv(e, k) /\ GreetInv(e, k) /\ ListenInv(e, k)

ChannelInv == \A k \in Conns : ChannelAt(k)

-------------------------------------------------------------------------------
(* Steps that take something back *)

\* A step leaves the loops of p alone, as far as transport k goes.
StillOn(p, k) ==
    /\ attached'[p] = attached[p] /\ reader'[p] = reader[p] /\ writer'[p] = writer[p]
    /\ written'[p] = written[p] /\ acked'[p] = acked[p] /\ rcvd'[p] = rcvd[p]
    /\ localClosed[p] => localClosed'[p]
    /\ Before(p, k)' <=> Before(p, k)

\* A step of x ends loops, closes k, or drops what is in flight to a loop that has
\* ended: it sends nothing on k, and its read loop on k, if it goes on, has not moved.
Weakens(x, k) ==
    LET p == Peer(x)
        s == net[k].to[x]
    IN  /\ StillOn(p, k)
        /\ Before(x, k)' => Before(x, k)
        /\ After(x, k)' => After(x, k) \/ ~net'[k].up
        /\ net'[k].up => net[k].up
        /\ net'[k].to[p] = net[k].to[p]
        /\ net'[k].to[x] = s
            \/ /\ ~Before(x, k)' /\ ~Greets(x, k)' /\ ~Listens(x, k)'
               /\ s # <<>>
               /\ net'[k].to[x] = <<>> \/ net'[k].to[x] = Tail(s)
        /\ attached'[x] = k =>
            /\ attached[x] = k
            /\ reader'[x] = reader[x] \/ reader'[x].pc = "off"
            /\ writer'[x] = writer[x] \/ writer'[x].pc = "off"
        /\ Len(rcvd'[x]) >= Len(rcvd[x]) /\ written'[x] >= written[x]
        /\ localClosed[x] => localClosed'[x] /\ written'[x] = written[x]
        /\ Greets(x, k)' \/ Listens(x, k)' => rcvd'[x] = rcvd[x] /\ acked'[x] = acked[x]
        /\ Active(x, k)' =>
            /\ Before(p, k) \/ Greets(p, k) => Len(rcvd'[x]) = Len(rcvd[x])
            /\ Talks(p, k) => Len(rcvd'[x]) <= writer[p].peer

\* What is known of the numbers and sequences of a transport
LEMMA NumberFacts ==
    ASSUME TypeInv, NEW e \in Ends
    PROVE  /\ Len(rcvd[e]) \in Nat /\ written[e] \in Nat /\ acked[e] \in Nat
           /\ writer[e].peer \in Nat /\ writer[e].local \in Nat
           /\ writer[e].ack \in Nat /\ writer[e].size \in Nat
           /\ Len(reader[e].data) \in Nat /\ dialed \in Nat /\ attached[e] \in Nat
           /\ reader[e].data \in Seq(Nat) /\ rcvd[e] \in Seq(Nat)
           /\ \A k \in Conns : net[k].to[e] \in Seq(Messages) /\ Len(net[k].to[e]) \in Nat
  <1>1. net \in Nets
    BY TypeFacts
  <1>2. \A k \in Conns : net[k].to[e] \in Seq(Messages)
    BY <1>1 DEF Nets, Transports
  <1>. QED  BY <1>2, LenProperties, MaxConnsPositive DEF TypeInv, TypeOK, Conns, None

\* The same of the next state
LEMMA NextMessages ==
    ASSUME TypeInv'
    PROVE  \A k \in Conns, e \in Ends : net'[k].to[e] \in Seq(Messages)
  <1>1. net' \in Nets
    BY DEF TypeInv, TypeOK, Nets, Transports, Messages
  <1>. QED  BY <1>1 DEF Nets, Transports

\* Such a step keeps the invariant of k.
LEMMA WeakensKeeps ==
    ASSUME TypeInv, TypeInv', NEW x \in Ends, NEW k \in Conns, ChannelAt(k), Weakens(x, k)
    PROVE  ChannelAt(k)'
  <1>. PICK p \in Ends : p = Peer(x)
    BY PeerEnd
  <1>. PICK s \in Seq(Messages) : s = net[k].to[x]
    BY NumberFacts
  <1>. PICK t \in Seq(Messages) : t = net[k].to[p]
    BY NumberFacts
  <1>0. p # x /\ Peer(p) = x /\ Ends = {x, p}
    BY PeerEnd
  <1>1. QuietInv(x, k) /\ GreetInv(x, k) /\ ListenInv(x, k)
    BY DEF ChannelAt
  <1>2. QuietInv(p, k) /\ GreetInv(p, k) /\ ListenInv(p, k)
    BY DEF ChannelAt
  <1>3. (s # <<>> /\ HasTag(Tail(s)) => HasTag(s)) /\ ~HasTag(<<>>)
    BY TailFacts, ThroughEmpty
  <1>4. QuietInv(x, k)'
    BY <1>0, <1>1, <1>3 DEF Weakens, StillOn, QuietInv, Talks, Listens, Greets, After
  <1>a. /\ Len(rcvd[x]) \in Nat /\ Len(rcvd'[x]) \in Nat /\ Len(rcvd[p]) \in Nat
        /\ written[x] \in Nat /\ written'[x] \in Nat /\ written[p] \in Nat
    <2>1. Len(rcvd[x]) \in Nat /\ Len(rcvd[p]) \in Nat /\ written[x] \in Nat /\ written[p] \in Nat
      BY <1>0, NumberFacts
    <2>2. Len(rcvd'[x]) \in Nat /\ written'[x] \in Nat
      BY LenProperties DEF TypeInv, TypeOK
    <2>. QED  BY <2>1, <2>2
  <1>b. /\ Before(p, k)' <=> Before(p, k)
        /\ Talks(p, k)' <=> Talks(p, k)
        /\ Listens(p, k)' <=> Listens(p, k)
        /\ Greets(p, k)' <=> Greets(p, k)
        /\ Active(p, k)' <=> Active(p, k)
        /\ After(p, k)' <=> After(p, k)
    BY DEF Weakens, StillOn, Talks, Listens, Greets, Active, After
  <1>c. /\ Talks(x, k)' => Talks(x, k) /\ writer'[x] = writer[x]
        /\ Listens(x, k)' => /\ Listens(x, k) /\ reader'[x] = reader[x]
                             /\ writer'[x] = writer[x] \/ ~Talks(x, k)'
                             /\ net'[k].to[x] = s
        /\ Greets(x, k)' => Greets(x, k) /\ net'[k].to[x] = s
        /\ Before(x, k)' => Before(x, k) /\ net'[k].to[x] = s
        /\ Active(x, k)' => Active(x, k)
    BY DEF Weakens, Talks, Listens, Greets, Active
  <1>d. /\ net'[k].up => net[k].up
        /\ net'[k].to[p] = t
        /\ Len(rcvd'[x]) >= Len(rcvd[x]) /\ written'[x] >= written[x]
        /\ localClosed[x] => localClosed'[x] /\ written'[x] = written[x]
        /\ Greets(x, k)' \/ Listens(x, k)' => rcvd'[x] = rcvd[x] /\ acked'[x] = acked[x]
        /\ Active(x, k)' /\ (Before(p, k) \/ Greets(p, k)) => Len(rcvd'[x]) = Len(rcvd[x])
        /\ Active(x, k)' /\ Talks(p, k) => Len(rcvd'[x]) <= writer[p].peer
        /\ reader'[p] = reader[p] /\ writer'[p] = writer[p]
        /\ written'[p] = written[p] /\ acked'[p] = acked[p] /\ rcvd'[p] = rcvd[p]
        /\ localClosed[p] => localClosed'[p]
    BY DEF Weakens, StillOn
  <1>e. ASSUME NEW b, NEW a, EndsAt(p, k, s, b, a) PROVE EndsAt(p, k, s, b, a)'
    BY <1>b, <1>d, <1>e DEF EndsAt
  <1>f. ASSUME NEW b, NEW a, EndsAt(x, k, t, b, a) PROVE EndsAt(x, k, t, b, a)'
    BY <1>c, <1>d, <1>f DEF EndsAt
  <1>g. /\ t # <<>> => t[1].at \in Nat
        /\ \A b : b \in 0..written[x] => b \in 0..written'[x]
        /\ \A a : a \in 0..Len(rcvd[x]) => a \in 0..Len(rcvd'[x])
    <2>1. t # <<>> => t[1] \in Messages
      BY HeadTailProperties, TailFacts
    <2>. QED  BY <1>a, <1>d, <2>1 DEF Messages
  <1>5. GreetInv(x, k)'
    BY <1>0, <1>1, <1>b, <1>c, <1>d, <1>e DEF GreetInv
  <1>6. ListenInv(x, k)'
    BY <1>0, <1>1, <1>b, <1>c, <1>d, <1>e DEF ListenInv
  <1>7. QuietInv(p, k)'
    <2>1. t # <<>> /\ t[1].at <= Len(rcvd[x]) => t[1].at <= Len(rcvd'[x])
      BY <1>a, <1>d, <1>g
    <2>. QED  BY <1>0, <1>2, <1>b, <1>c, <1>d, <2>1 DEF QuietInv
  <1>8. GreetInv(p, k)'
    <2>1. t # <<>> /\ t[1].at <= Len(rcvd[x]) => t[1].at <= Len(rcvd'[x])
      BY <1>a, <1>d, <1>g
    <2>2. ASSUME Before(p, k) \/ Greets(p, k), Active(x, k)'
          PROVE  /\ IF t = <<>> THEN ~net'[k].up ELSE t[1].at = Len(rcvd'[x])
                 /\ Greets(x, k)' => Len(t) <= 1
      BY <1>0, <1>2, <1>c, <1>d, <2>2 DEF GreetInv
    <2>3. ASSUME Greets(p, k), t # <<>>
          PROVE  /\ t[1].kind = "position" /\ t[1].at <= Len(rcvd'[x])
                 /\ \E b \in 0..written'[x] :
                    /\ Through(Tail(t), Len(rcvd[p]), t[1].at, b, t[1].at)
                    /\ EndsAt(x, k, t, b, t[1].at)'
      BY <1>0, <1>2, <1>f, <1>g, <2>1, <2>3 DEF GreetInv
    <2>4. ASSUME Greets(p, k)
          PROVE  /\ Listens(x, k)' =>
                    /\ net'[k].to[x] = <<>> /\ reader'[x].pc = "ack"
                    /\ acked'[x] = Len(rcvd[p])
                 /\ Talks(x, k)' => writer'[x].local = Len(rcvd'[x]) /\ writer'[x].ack = 0
      BY <1>0, <1>2, <1>c, <1>d, <2>4 DEF GreetInv, Active
    <2>. QED  BY <1>0, <1>b, <1>d, <2>2, <2>3, <2>4 DEF GreetInv, Active
  <1>9. ListenInv(p, k)'
    <2>1. ASSUME Listens(p, k)
          PROVE  /\ reader[p].data = Bytes(Len(rcvd[p]), Len(reader[p].data))
                 /\ \E b \in 0..written'[x], a \in 0..Len(rcvd'[x]) :
                    /\ Through(t, Len(rcvd[p]) + Len(reader[p].data), acked[p], b, a)
                    /\ EndsAt(x, k, t, b, a)'
                    /\ Talks(p, k) => a <= writer[p].peer
      BY <1>0, <1>2, <1>f, <1>g, <2>1 DEF ListenInv
    <2>2. Talks(x, k)' /\ Active(p, k) => Len(rcvd[p]) <= writer'[x].peer
      BY <1>0, <1>2, <1>c DEF ListenInv
    <2>. QED  BY <1>0, <1>b, <1>d, <2>1, <2>2 DEF ListenInv
  <1>. QED  BY <1>0, <1>4, <1>5, <1>6, <1>7, <1>8, <1>9 DEF ChannelAt

\* What x has written and received only grows; once it is closed it writes no more.
Grows(x) ==
    /\ Len(rcvd'[x]) >= Len(rcvd[x]) /\ written'[x] >= written[x]
    /\ localClosed[x] => localClosed'[x] /\ written'[x] = written[x]

\* A step of x keeps the invariant of a transport it does not touch.
LEMMA OtherTransports ==
    ASSUME TypeInv, NEW x \in Ends, LocalStep(x), Grows(x), NEW j \in Conns, ChannelAt(j),
           attached[x] # j, attached'[x] # j, net'[j] = net[j],
           j \in waiting'[x] <=> j \in waiting[x]
    PROVE  ChannelAt(j)'
  <1>1. StillOn(Peer(x), j)
    BY DEF LocalStep, Still, StillOn, Before
  <1>2. Before(x, j)' <=> Before(x, j)
    BY DEF LocalStep, Before
  <1>3. Weakens(x, j)
    BY <1>1, <1>2 DEF Weakens, After, Greets, Listens, Talks, Active, Grows
  <1>. QED  BY <1>3, WeakensKeeps DEF LocalStep

\* So does a step of x that ends loops of its own on its transport, and it may
\* then have received something more.
LEMMA OwnTransport ==
    ASSUME TypeInv, NEW x \in Ends, LocalStep(x), Grows(x), ChannelInv,
           NEW k \in Conns, attached[x] = k, attached'[x] = k, waiting'[x] = waiting[x],
           \A j \in Conns : j # k => net'[j] = net[j],
           Weakens(x, k)
    PROVE  ChannelInv'
  <1>. SUFFICES ASSUME NEW j \in Conns PROVE ChannelAt(j)'
    BY DEF ChannelInv
  <1>1. CASE j = k
    BY <1>1, WeakensKeeps DEF LocalStep, ChannelInv
  <1>2. CASE j # k
    BY <1>2, OtherTransports DEF ChannelInv
  <1>. QED  BY <1>1, <1>2

\* A step of x on its transport need only keep the invariant of that transport.
LEMMA ChannelRule ==
    ASSUME TypeInv, NEW x \in Ends, LocalStep(x), Grows(x), ChannelInv,
           NEW k \in Conns, attached[x] = k, attached'[x] = k, waiting'[x] = waiting[x],
           \A j \in Conns : j # k => net'[j] = net[j],
           QuietInv(x, k)' /\ GreetInv(x, k)' /\ ListenInv(x, k)',
           NEW p \in Ends, p = Peer(x), QuietInv(p, k)' /\ GreetInv(p, k)' /\ ListenInv(p, k)'
    PROVE  ChannelInv'
  <1>. SUFFICES ASSUME NEW j \in Conns PROVE ChannelAt(j)'
    BY DEF ChannelInv
  <1>1. CASE j = k
    BY <1>1, PeerEnd DEF ChannelAt
  <1>2. CASE j # k
    BY <1>2, OtherTransports DEF ChannelInv
  <1>. QED  BY <1>1, <1>2

\* The peer is where it was on every transport.
LEMMA StillFacts ==
    ASSUME NEW x \in Ends, LocalStep(x), NEW k \in Conns, NEW p \in Ends, p = Peer(x)
    PROVE  /\ Before(p, k)' <=> Before(p, k)
           /\ Talks(p, k)' <=> Talks(p, k)
           /\ Listens(p, k)' <=> Listens(p, k)
           /\ Greets(p, k)' <=> Greets(p, k)
           /\ Active(p, k)' <=> Active(p, k)
           /\ After(p, k)' <=> After(p, k)
           /\ written'[p] = written[p] /\ acked'[p] = acked[p] /\ rcvd'[p] = rcvd[p]
           /\ localClosed'[p] = localClosed[p]
           /\ reader'[p] = reader[p] /\ writer'[p] = writer[p]
  BY DEF LocalStep, Still, Before, Talks, Listens, Greets, Active, After

\* The steps of a program
LEMMA ProgramChannel ==
    ASSUME TypeInv, NEW x \in Ends, Write(x) \/ Read(x) \/ Close(x), ChannelInv
    PROVE  Grows(x) /\ ChannelInv'
  <1>1. LocalStep(x)
    BY ProgramSteps
  <1>2. /\ UNCHANGED <<acked, rcvd, handlers, net>> /\ dialed' = dialed
        /\ written' = written \/ ~localClosed[x]
        /\ localClosed[x] => localClosed'[x]
    BY DEF Write, Read, Close, control, TypeInv, TypeOK
  <1>3. written'[x] >= written[x]
    <2>1. CASE Write(x)
      <3>. PICK n \in 1..(SendBufferSize - SendLen(x)) : written' = [written EXCEPT ![x] = @ + n]
        BY <2>1 DEF Write
      <3>. QED  BY SizesPositive DEF TypeInv, TypeOK, SendLen
    <2>2. CASE Read(x) \/ Close(x)
      BY <2>2 DEF Read, Close, TypeInv, TypeOK
    <2>. QED  BY <2>1, <2>2
  <1>4. Len(rcvd[x]) \in Nat /\ Len(rcvd'[x]) = Len(rcvd[x])
    BY <1>2, NumberFacts
  <1>5. Grows(x)
    BY <1>2, <1>3, <1>4 DEF Grows
  <1>6. ASSUME NEW j \in Conns PROVE ChannelAt(j)'
    <2>1. StillOn(Peer(x), j)
      BY <1>1 DEF LocalStep, Still, StillOn, Before
    <2>2. ListenInv(x, j)
      BY DEF ChannelInv, ChannelAt
    <2>3. Weakens(x, j)
      BY <1>2, <1>4, <1>5, <2>1, <2>2
         DEF Weakens, Before, After, Greets, Listens, Talks, Active, Grows, handlers, ListenInv
    <2>. QED  BY <1>1, <2>3, WeakensKeeps DEF LocalStep, ChannelInv
  <1>. QED  BY <1>5, <1>6 DEF ChannelInv

\* A step that leaves alone what x has written, received and acknowledged
LEMMA SteadyGrows ==
    ASSUME TypeInv, NEW x \in Ends, UNCHANGED <<written, rcvd, localClosed>>
    PROVE  Grows(x) /\ Len(rcvd'[x]) = Len(rcvd[x])
  BY NumberFacts DEF Grows

\* The handlers that detach, or do not attach
LEMMA DetachChannel ==
    ASSUME TypeInv, NEW x \in Ends, RequestDetach(x) \/ Abandon(x) \/ Detach(x), ChannelInv
    PROVE  Grows(x) /\ ChannelInv'
  <1>0. UNCHANGED <<written, rcvd, localClosed, acked, reader, dialed>>
    BY DEF RequestDetach, Abandon, Detach, buffers, control
  <1>1. LocalStep(x) /\ Grows(x) /\ Len(rcvd'[x]) = Len(rcvd[x])
    BY <1>0, AttachingSteps, SteadyGrows DEF Attaching
  <1>2. ASSUME NEW j \in Conns PROVE ListenInv(x, j) /\ ChannelAt(j) /\ StillOn(Peer(x), j)
    BY <1>1 DEF ChannelInv, ChannelAt, LocalStep, Still, StillOn, Before
  <1>3. CASE RequestDetach(x)
    <2>0. PICK k \in Conns : k = attached[x]
      BY <1>3, TypeFacts DEF RequestDetach
    <2>1. net' = Broken(net, k) /\ UNCHANGED <<waiting, attached, writer>>
      BY <1>3, <2>0 DEF RequestDetach
    <2>2. /\ \A j \in Conns : net'[j].to = net[j].to /\ (net'[j].up => net[j].up)
          /\ \A j \in Conns : j # k => net'[j] = net[j]
      BY <2>1, TypeFacts, BrokenNet
    <2>3. Weakens(x, k)
      BY <1>0, <1>1, <1>2, <2>1, <2>2
         DEF Weakens, Before, After, Greets, Listens, Talks, Active, Grows, ListenInv
    <2>. QED  BY <1>1, <2>0, <2>1, <2>2, <2>3, OwnTransport
  <1>4. CASE Abandon(x)
    <2>. PICK k \in waiting[x] : /\ waiting' = [waiting EXCEPT ![x] = @ \ {k}]
                                 /\ net' = Broken(net, k)
      BY <1>4 DEF Abandon
    <2>1. k \in Conns /\ attached[x] # k /\ UNCHANGED <<attached, writer>>
      BY <1>4, TypeFacts DEF Abandon, TypeInv, LoopInv, LoopAt
    <2>2. /\ \A j \in Conns : net'[j].to = net[j].to /\ (net'[j].up => net[j].up)
          /\ \A j \in Conns : j # k => net'[j] = net[j]
          /\ ~net'[k].up
      BY <2>1, TypeFacts, BrokenNet
    <2>3. waiting'[x] = waiting[x] \ {k}
      BY DEF TypeInv, TypeOK
    <2>4. Weakens(x, k)
      BY <1>0, <1>1, <1>2, <2>1, <2>2, <2>3
         DEF Weakens, Before, After, Greets, Listens, Talks, Active, Grows, ListenInv
    <2>5. ASSUME NEW j \in Conns PROVE ChannelAt(j)'
      <3>1. CASE j = k
        BY <1>1, <1>2, <2>1, <2>4, <3>1, WeakensKeeps DEF LocalStep
      <3>2. CASE j # k /\ attached[x] # j
        BY <1>1, <1>2, <2>1, <2>2, <2>3, <3>2, OtherTransports
      <3>3. CASE attached[x] = j
        <4>1. net'[j] = net[j] /\ j \notin waiting[x] /\ j \notin waiting'[x]
          BY <2>1, <2>2, <2>3, <3>3 DEF TypeInv, LoopInv, LoopAt
        <4>2. Weakens(x, j)
          BY <1>0, <1>1, <1>2, <2>1, <4>1
             DEF Weakens, Before, After, Greets, Listens, Talks, Active, Grows, ListenInv
        <4>. QED  BY <1>1, <1>2, <4>2, WeakensKeeps DEF LocalStep
      <3>. QED  BY <3>1, <3>2, <3>3
    <2>. QED  BY <1>1, <2>5 DEF ChannelInv
  <1>5. CASE Detach(x)
    <2>0. PICK k \in Conns : k = attached[x]
      BY <1>5, TypeFacts DEF Detach
    <2>n. PICK n \in Nets : n = Broken(net, k)
      BY TypeFacts, BrokenNet
    <2>1. /\ net' = Replaced(n, k, x, <<>>)
          /\ waiting' = waiting /\ attached'[x] = None /\ None \notin Conns
      BY <1>5, <2>0, <2>n, TypeFacts DEF Detach, Replaced, TypeInv, TypeOK
    <2>2. /\ ~n[k].up
          /\ \A j \in Conns : n[j].to = net[j].to /\ (n[j].up => net[j].up)
          /\ \A j \in Conns : j # k => n[j] = net[j]
      BY <2>n, TypeFacts, BrokenNet
    <2>3. /\ \A j \in Conns : net'[j].up = n[j].up
          /\ \A j \in Conns : j # k => net'[j] = n[j]
          /\ net'[k].to[Peer(x)] = n[k].to[Peer(x)] /\ net'[k].to[x] = <<>>
      <3>1. PICK q \in Seq(Messages) : q = <<>>
        BY EmptySeq
      <3>2. net' = Replaced(n, k, x, q)
        BY <2>1, <3>1
      <3>3. /\ \A j \in Conns : Replaced(n, k, x, q)[j].up = n[j].up
            /\ \A j \in Conns : j # k => Replaced(n, k, x, q)[j] = n[j]
            /\ Replaced(n, k, x, q)[k].to[Peer(x)] = n[k].to[Peer(x)]
            /\ Replaced(n, k, x, q)[k].to[x] = q
        BY ReplacedNet
      <3>. QED  BY <3>1, <3>2, <3>3
    <2>4. Weakens(x, k)
      <3>1. ~Before(x, k)
        BY <2>0 DEF Before, TypeInv, TypeOK, LoopInv, LoopAt, Conns, None
      <3>. QED
        BY <1>0, <1>1, <1>2, <2>0, <2>1, <2>2, <2>3, <3>1
        DEF Weakens, Before, After, Greets, Listens, Talks, Active, Grows, ListenInv
    <2>5. ASSUME NEW j \in Conns PROVE ChannelAt(j)'
      <3>1. CASE j = k
        BY <1>1, <1>2, <2>1, <2>4, <3>1, WeakensKeeps DEF LocalStep
      <3>2. CASE j # k
        BY <1>1, <1>2, <2>0, <2>1, <2>2, <2>3, <3>2, OtherTransports
      <3>. QED  BY <3>1, <3>2
    <2>. QED  BY <1>1, <2>5 DEF ChannelInv
  <1>. QED  BY <1>3, <1>4, <1>5

\* The steps of neither end's loops
LEMMA OutsideChannel ==
    ASSUME TypeInv, Outside, ChannelInv
    PROVE  ChannelInv'
  <1>. SUFFICES ASSUME NEW k \in Conns PROVE ChannelAt(k)'
    BY DEF ChannelInv
  <1>0. Client \in Ends /\ Server \in Ends /\ Peer(Client) = Server /\ Client # Server
    BY EndsDiffer DEF Ends, Peer
  <1>1. /\ UNCHANGED <<written, acked, rcvd, attached, reader, writer>>
        /\ \A e \in Ends : localClosed[e] => localClosed'[e]
        /\ net'[k].to = net[k].to /\ (net'[k].up => net[k].up)
        /\ dialed' \in {dialed, dialed + 1}
        /\ \A e \in Ends : k <= dialed => (k \in waiting'[e] <=> k \in waiting[e])
        /\ \A e \in Ends : k > dialed /\ k <= dialed' =>
                k \in waiting'[e] \/ (e = Client /\ ~net'[k].up)
    BY OutsideFacts
  <1>2. k \in Nat /\ dialed \in Nat /\ dialed' \in Nat
    BY <1>0, <1>1, NumberFacts, MaxConnsPositive DEF Conns
  <1>3. StillOn(Server, k)
    BY <1>0, <1>1, <1>2 DEF StillOn, Before
  <1>4. /\ Before(Client, k)' => Before(Client, k)
        /\ After(Client, k)' => After(Client, k) \/ ~net'[k].up
    BY <1>0, <1>1, <1>2 DEF Before, After
  <1>5. ListenInv(Client, k)
    BY <1>0 DEF ChannelInv, ChannelAt
  <1>6. Len(rcvd[Client]) \in Nat /\ written[Client] \in Nat
    BY <1>0, NumberFacts
  <1>7. Weakens(Client, k)
    BY <1>0, <1>1, <1>3, <1>4, <1>5, <1>6
       DEF Weakens, Greets, Listens, Talks, Active, ListenInv
  <1>. QED  BY <1>0, <1>7, OutsideFacts, WeakensKeeps DEF ChannelInv

-------------------------------------------------------------------------------
(* What a read loop finds *)

\* The data that a read loop holds, and the frames behind it, are what its peer
\* wrote and acknowledges what its own write loop sent.
LEMMA ReadFacts ==
    ASSUME TypeInv, NEW e \in Ends, NEW k \in Conns, ListenInv(e, k), Listens(e, k)
    PROVE  /\ Len(rcvd[e]) + Len(reader[e].data) <= written[Peer(e)]
           /\ reader[e].data = Bytes(Len(rcvd[e]), Len(reader[e].data))
           /\ Talks(Peer(e), k) => Len(rcvd[e]) + Len(reader[e].data) <= writer[Peer(e)].peer
  <1>f. PICK f \in Ends : f = Peer(e)
    BY PeerEnd
  <1>s. PICK s \in Seq(Messages) : s = net[k].to[e]
    BY NumberFacts
  <1>n. PICK n \in Nat : n = Len(rcvd[e]) + Len(reader[e].data)
    <2>1. PICK q \in Seq(Nat) : q = reader[e].data
      BY NumberFacts
    <2>2. Len(rcvd[e]) + Len(q) \in Nat
      BY NumberFacts, LenProperties
    <2>. QED  BY <2>1, <2>2, Zenon
  <1>w. PICK w \in Nat : w = written[f]
    BY NumberFacts
  <1>r. PICK r \in Nat : r = Len(rcvd[f])
    BY NumberFacts
  <1>1. PICK b \in 0..w : \E a \in 0..r : Through(s, n, acked[e], b, a) /\ EndsAt(f, k, s, b, a)
    BY <1>f, <1>s, <1>n, <1>w, <1>r DEF ListenInv
  <1>2. PICK a \in 0..r : Through(s, n, acked[e], b, a) /\ EndsAt(f, k, s, b, a)
    BY <1>1
  <1>3. Len(s) \in Nat /\ writer[f].peer \in Nat
    BY NumberFacts, LenProperties
  <1>4. n \in 0..b
    BY <1>2, <1>3, ThroughBound
  <1>5. n <= b /\ n <= w
    BY <1>4
  <1>6. Talks(f, k) => n <= writer[f].peer
    <2>1. Talks(f, k) => b <= writer[f].peer
      BY <1>2 DEF EndsAt
    <2>. QED  BY <1>3, <1>5, <2>1
  <1>7. reader[e].data = Bytes(Len(rcvd[e]), Len(reader[e].data))
    BY DEF ListenInv
  <1>. QED  BY <1>f, <1>n, <1>w, <1>5, <1>6, <1>7

\* A message that the read loop comes to is a frame that continues the stream,
\* whose acknowledgement is for bytes that were sent; or the tag that ends it.
LEMMA HeadFacts ==
    ASSUME TypeInv, NEW e \in Ends, NEW k \in Conns, ListenInv(e, k), Listens(e, k),
           reader[e].data = <<>>, net[k].to[e] # <<>>
    PROVE  LET f == Peer(e)
               s == net[k].to[e]
               m == Head(s)
           IN  /\ m.kind \in {"frame", "errorTag"}
               /\ m.data = Bytes(Len(rcvd[e]), Len(m.data))
               /\ acked[e] + m.at <= Len(rcvd[f])
               /\ Talks(e, k) => acked[e] + m.at <= writer[e].peer
               /\ InOrder /\ m.kind = "errorTag" => localClosed[f] /\ Len(rcvd[e]) = written[f]
               /\ \E b \in 0..written[f], a \in 0..Len(rcvd[f]) :
                    /\ Through(Tail(s), Len(rcvd[e]) + Len(m.data), acked[e] + m.at, b, a)
                    /\ EndsAt(f, k, Tail(s), b, a)
                    /\ Talks(e, k) => a <= writer[e].peer
  <1>f. PICK f \in Ends : f = Peer(e)
    BY PeerEnd
  <1>s. PICK s \in Seq(Messages) : s = net[k].to[e]
    BY NumberFacts
  <1>n. PICK n \in Nat : n = Len(rcvd[e])
    BY NumberFacts
  <1>w. PICK w \in Nat : w = written[f]
    BY NumberFacts
  <1>r. PICK r \in Nat : r = Len(rcvd[f])
    BY NumberFacts
  <1>c. PICK c \in Nat : c = acked[e]
    BY NumberFacts
  <1>m. PICK m \in Messages : m = Head(s)
    BY <1>s, HeadTailProperties
  <1>0. Len(rcvd[e]) + Len(reader[e].data) = n
    BY <1>n, EmptySeq
  <1>1. PICK b \in 0..w : \E a \in 0..r :
            /\ Through(s, n, c, b, a) /\ EndsAt(f, k, s, b, a)
            /\ Talks(e, k) => a <= writer[e].peer
    BY <1>0, <1>f, <1>s, <1>w, <1>r, <1>c DEF ListenInv
  <1>2. PICK a \in 0..r : /\ Through(s, n, c, b, a) /\ EndsAt(f, k, s, b, a)
                          /\ Talks(e, k) => a <= writer[e].peer
    BY <1>1
  <1>3. b \in Nat /\ a \in Nat /\ a <= r /\ m.at \in Nat /\ writer[e].peer \in Nat
    BY NumberFacts DEF Messages
  <1>4. /\ m.kind \in {"frame", "errorTag"}
        /\ m.data = Bytes(n, Len(m.data))
        /\ m.kind = "errorTag" => n = b /\ HasTag(s)
        /\ Through(Tail(s), n + Len(m.data), c + m.at, b, a)
        /\ c + m.at <= a
        /\ HasTag(Tail(s)) => HasTag(s)
    <2>1. s # <<>> /\ Through(s, n, c, b, a) /\ b \in Nat /\ a \in Nat
      BY <1>2, <1>3, <1>s
    <2>2. /\ Head(s).kind \in {"frame", "errorTag"}
          /\ Head(s).data = Bytes(n, Len(Head(s).data))
          /\ Head(s).kind = "errorTag" => n = b
          /\ Through(Tail(s), n + Len(Head(s).data), c + Head(s).at, b, a)
          /\ n + Len(Head(s).data) <= b
          /\ c + Head(s).at <= a
          /\ HasTag(Tail(s)) => HasTag(s)
          /\ Head(s).kind = "errorTag" => HasTag(s)
      BY <2>1, ThroughTail, Zenon
    <2>. QED  BY <1>m, <2>2, Zenon
  <1>5. EndsAt(f, k, Tail(s), b, a)
    BY <1>2, <1>4 DEF EndsAt
  <1>6. c + m.at <= r
    BY <1>3, <1>4
  <1>7. Talks(e, k) => c + m.at <= writer[e].peer
    BY <1>2, <1>3, <1>4
  <1>8. InOrder /\ m.kind = "errorTag" => localClosed[f] /\ n = w
    BY <1>2, <1>4, <1>w DEF EndsAt
  <1>9. \E j \in 0..w, i \in 0..r :
            /\ Through(Tail(s), n + Len(m.data), c + m.at, j, i) /\ EndsAt(f, k, Tail(s), j, i)
            /\ Talks(e, k) => i <= writer[e].peer
    BY <1>2, <1>4, <1>5
  <1>. QED  BY <1>f, <1>s, <1>n, <1>w, <1>r, <1>c, <1>m, <1>4, <1>6, <1>7, <1>8, <1>9

-------------------------------------------------------------------------------
(* Loops that end *)

\* A step of x that ends a loop of its own: a message may be lost with it, and
\* a part of the data it was reading may have been received.
LEMMA EndingRule ==
    ASSUME TypeInv, ChannelInv, NEW x \in Ends, LocalStep(x), NEW k \in Conns, attached[x] = k,
           UNCHANGED <<waiting, attached, written, localClosed>>,
           \A j \in Conns : j # k => net'[j] = net[j],
           net'[k].up => net[k].up, net'[k].to[Peer(x)] = net[k].to[Peer(x)],
           \/ net'[k].to[x] = net[k].to[x]
           \/ /\ reader'[x].pc = "off" /\ net[k].to[x] # <<>>
              /\ net'[k].to[x] = Tail(net[k].to[x]),
           reader'[x] = reader[x] \/ reader'[x].pc = "off",
           writer'[x] = writer[x] \/ writer'[x].pc = "off",
           acked'[x] = acked[x] \/ reader'[x].pc = "off",
           \/ rcvd'[x] = rcvd[x]
           \/ /\ reader'[x].pc = "off" /\ Listens(x, k)
              /\ \E n \in 0..Len(reader[x].data) : Len(rcvd'[x]) = Len(rcvd[x]) + n
    PROVE  Grows(x) /\ ChannelInv'
  <1>p. PICK p \in Ends : p = Peer(x)
    BY PeerEnd
  <1>q. PICK q \in Seq(Nat) : q = reader[x].data
    BY NumberFacts
  <1>0. p # x /\ Peer(p) = x
    BY <1>p, PeerEnd
  <1>1. QuietInv(p, k) /\ GreetInv(p, k) /\ ListenInv(x, k)
    BY DEF ChannelInv, ChannelAt
  <1>2. Len(rcvd[x]) \in Nat /\ written[x] \in Nat /\ Len(q) \in Nat /\ writer[p].peer \in Nat
    BY NumberFacts, LenProperties
  <1>3. /\ Len(rcvd'[x]) >= Len(rcvd[x])
        /\ Len(rcvd'[x]) <= Len(rcvd[x]) + Len(q)
        /\ Len(rcvd'[x]) = Len(rcvd[x]) \/ Listens(x, k)
    <2>1. CASE rcvd'[x] = rcvd[x]
      BY <1>2, <2>1
    <2>2. CASE rcvd'[x] # rcvd[x]
      <3>1. \E n \in 0..Len(q) : Len(rcvd'[x]) = Len(rcvd[x]) + n
        BY <1>q, <2>2, Zenon
      <3>2. Listens(x, k)
        BY <2>2
      <3>. QED  BY <1>2, <3>1, <3>2
    <2>. QED  BY <2>1, <2>2
  <1>4. Len(rcvd'[x]) \in Nat
    BY LenProperties DEF LocalStep, TypeInv, TypeOK
  <1>5. Grows(x)
    BY <1>2, <1>3 DEF Grows
  <1>6. StillOn(p, k)
    BY <1>p DEF LocalStep, Still, StillOn, Before
  <1>7. ~Before(x, k) /\ ~Before(x, k)'
    <2>1. k \notin waiting[x] /\ k <= dialed /\ k \in Nat /\ dialed \in Nat
      BY NumberFacts, MaxConnsPositive DEF TypeInv, LoopInv, LoopAt, Conns
    <2>. QED  BY <2>1 DEF LocalStep, Before
  <1>8. Active(x, k)' => Active(x, k)
    BY DEF Active, Greets, Listens, Talks
  <1>9. ASSUME Before(p, k) \/ Greets(p, k)  PROVE Len(rcvd'[x]) = Len(rcvd[x])
    <2>1. CASE Before(p, k)
      BY <1>0, <1>1, <1>3, <2>1 DEF QuietInv
    <2>2. CASE Greets(p, k)
      <3>1. Listens(x, k) => reader[x].pc = "ack"
        BY <1>0, <1>1, <2>2 DEF GreetInv
      <3>2. Listens(x, k) => Len(q) = 0
        BY <1>q, <3>1, EmptySeq DEF TypeInv, LoopInv, LoopAt
      <3>. QED  BY <1>2, <1>3, <1>4, <3>2
    <2>. QED  BY <1>9, <2>1, <2>2
  <1>10. ASSUME Active(x, k)', Talks(p, k)  PROVE Len(rcvd'[x]) <= writer[p].peer
    <2>1. CASE Listens(x, k)
      <3>1. Len(rcvd[x]) + Len(q) <= writer[p].peer
        BY <1>1, <1>p, <1>q, <1>10, <2>1, ReadFacts
      <3>. QED  BY <1>2, <1>3, <1>4, <3>1
    <2>2. CASE ~Listens(x, k)
      <3>1. Len(rcvd'[x]) = Len(rcvd[x])
        BY <1>3, <2>2
      <3>. QED  BY <1>1, <1>8, <1>p, <1>10, <3>1 DEF ListenInv
    <2>. QED  BY <2>1, <2>2
  <1>11. Greets(x, k)' \/ Listens(x, k)' => rcvd'[x] = rcvd[x] /\ acked'[x] = acked[x]
    BY DEF Greets, Listens
  <1>12. Weakens(x, k)
    <2>1. After(x, k)' => After(x, k)
      BY <1>7 DEF After
    <2>2. /\ net'[k].to[x] = net[k].to[x]
            \/ /\ ~Before(x, k)' /\ ~Greets(x, k)' /\ ~Listens(x, k)'
               /\ net[k].to[x] # <<>>
               /\ net'[k].to[x] = <<>> \/ net'[k].to[x] = Tail(net[k].to[x])
      BY <1>7 DEF Greets, Listens
    <2>. QED  BY <1>p, <1>5, <1>6, <1>7, <1>9, <1>10, <1>11, <2>1, <2>2 DEF Weakens, Grows
  <1>. QED  BY <1>5, <1>12, OwnTransport

\* The loops that end, but for a read loop that refuses a frame
LEMMA EndingChannel ==
    ASSUME TypeInv, ChannelInv, NEW x \in Ends,
           \/ HandshakeFails(x) \/ ReadErrorTag(x) \/ ReadStops(x) \/ ReadFails(x)
           \/ (ReadFrame(x) /\ ReaderExit(x, Taken(net, x)))
           \/ WriteFails(x) \/ WriteStops(x)
    PROVE  Grows(x) /\ ChannelInv'
  <1>1. LocalStep(x)
    BY HandshakeSteps, InboxSteps, DataSteps, WritingSteps DEF Writing
  <1>2. UNCHANGED <<waiting, attached, written, localClosed>>
    BY DEF HandshakeFails, ReadErrorTag, ReadStops, ReadFails, ReadFrame, WriteFails, WriteStops, buffers
  <1>k. PICK k \in Conns : k = attached[x]
    <2>1. reader[x].pc # "off" \/ writer[x].pc # "off"
      BY DEF HandshakeFails, ReadErrorTag, ReadStops, ReadFails, ReadFrame, WriteFails, WriteStops
    <2>. QED  BY <2>1, TypeFacts
  <1>3. net \in Nets /\ Peer(x) \in Ends /\ Peer(x) # x
    BY TypeFacts, PeerEnd
  <1>4. ASSUME NEW n \in Nets, net' = Broken(n, k),
               \A j \in Conns : n[j].up = net[j].up,
               \A j \in Conns : j # k => n[j] = net[j]
        PROVE  /\ \A j \in Conns : j # k => net'[j] = net[j]
               /\ net'[k].up => net[k].up
               /\ net'[k].to = n[k].to
    BY <1>4, BrokenNet
  <1>5. reader' = [reader EXCEPT ![x] = Idle] => reader'[x].pc = "off"
    BY DEF TypeInv, TypeOK, Idle
  <1>6. CASE HandshakeFails(x)
    <2>1. /\ UNCHANGED <<rcvd, acked, writer>> /\ reader'[x].pc = "off"
          /\ net' = Broken(net, k)
      BY <1>5, <1>6, <1>k DEF HandshakeFails, buffers
    <2>2. /\ \A j \in Conns : j # k => net'[j] = net[j]
          /\ net'[k].up => net[k].up
          /\ net'[k].to = net[k].to
      BY <1>3, <1>4, <2>1
    <2>. QED  BY <1>1, <1>2, <1>k, <2>1, <2>2, EndingRule
  <1>7. CASE ReadErrorTag(x) \/ (ReadFrame(x) /\ ReaderExit(x, Taken(net, x)))
    <2>1. /\ UNCHANGED <<rcvd, writer>> /\ reader'[x].pc = "off"
          /\ net' = Broken(Taken(net, x), k) /\ net[k].to[x] # <<>>
      BY <1>5, <1>7, <1>k DEF ReadErrorTag, ReadFrame, ReaderExit, Inbox
    <2>n. PICK n \in Nets : n = Taken(net, x)
      BY <1>3, <1>k, <2>1, TakenNet
    <2>2. /\ \A j \in Conns : n[j].up = net[j].up
          /\ \A j \in Conns : j # k => n[j] = net[j]
          /\ n[k].to[Peer(x)] = net[k].to[Peer(x)]
          /\ n[k].to[x] = Tail(net[k].to[x])
      BY <1>3, <1>k, <2>1, <2>n, TakenNet
    <2>3. /\ \A j \in Conns : j # k => net'[j] = net[j]
          /\ net'[k].up => net[k].up
          /\ net'[k].to = n[k].to
      BY <1>4, <2>1, <2>2, <2>n
    <2>. QED  BY <1>1, <1>2, <1>k, <2>1, <2>2, <2>3, EndingRule
  <1>8. CASE ReadStops(x) \/ ReadFails(x)
    <2>1. /\ UNCHANGED <<acked, writer>> /\ reader'[x].pc = "off"
          /\ net' = Broken(net, k) /\ Listens(x, k) /\ LastRead(x)
      BY <1>5, <1>8, <1>k DEF ReadStops, ReadFails, ReaderExit, Listens
    <2>2. /\ \A j \in Conns : j # k => net'[j] = net[j]
          /\ net'[k].up => net[k].up
          /\ net'[k].to = net[k].to
      BY <1>3, <1>4, <2>1
    <2>3. \E n \in 0..Len(reader[x].data) : Len(rcvd'[x]) = Len(rcvd[x]) + n
      BY <2>1, ReceiveFacts DEF LastRead
    <2>. QED  BY <1>1, <1>2, <1>k, <2>1, <2>2, <2>3, EndingRule
  <1>9. CASE WriteFails(x) \/ WriteStops(x)
    <2>1. UNCHANGED <<rcvd, acked, reader, net>> /\ writer' = [writer EXCEPT ![x] = NoWriter]
      BY <1>9 DEF WriteFails, WriteStops, WriterExit, buffers
    <2>2. writer'[x].pc = "off"
      BY <2>1 DEF NoWriter, TypeInv, TypeOK
    <2>. QED  BY <1>1, <1>2, <1>k, <2>1, <2>2, EndingRule
  <1>. QED  BY <1>6, <1>7, <1>8, <1>9

-------------------------------------------------------------------------------
(* The handshake *)

\* A run of messages that holds one position
LEMMA OnlyPosition ==
    ASSUME NEW s \in Seq(Messages), Len(s) = 1, s[1].kind = "position"
    PROVE  ~HasTag(s) /\ Tail(s) = <<>>
  <1>1. s # <<>>
    <2>1. Len(<<>>) = 0
      BY EmptySeq, Zenon
    <2>2. Len(s) # 0
      OBVIOUS
    <2>. QED  BY <2>1, <2>2, Zenon
  <1>2. Tail(s) = <<>>
    <2>1. Tail(s) \in Seq(Messages) /\ Len(Tail(s)) = Len(s) - 1
      BY <1>1, TailFacts
    <2>2. Len(Tail(s)) = 0
      BY <2>1
    <2>. QED  BY <2>1, <2>2, EmptySeq
  <1>3. \A i \in 1..Len(s) : i = 1
    OBVIOUS
  <1>. QED  BY <1>2, <1>3 DEF HasTag

\* A handler attaches a transport on which its peer has sent at most its position.
LEMMA AttachChannel ==
    ASSUME TypeInv, ChannelInv, BufferInv, NEW x \in Ends, Attach(x)
    PROVE  Grows(x) /\ ChannelInv'
  <1>k. PICK k \in waiting[x] : AttachConn(x, k)
    BY DEF Attach
  <1>p. PICK p \in Ends : p = Peer(x)
    BY PeerEnd
  <1>1. /\ k \in Conns /\ net \in Nets /\ p # x /\ Peer(p) = x /\ Ends = {x, p}
        /\ k \notin {attached[x]} /\ k <= dialed /\ k \in Nat /\ dialed \in Nat
    <2>1. k \in Conns
      BY <1>k, TypeFacts
    <2>. QED  BY <1>k, <1>p, <2>1, TypeFacts, PeerEnd, NumberFacts, MaxConnsPositive
              DEF TypeInv, LoopInv, LoopAt, Conns
  <1>s. PICK s \in Seq(Messages) : s = net[k].to[x]
    BY <1>1, NumberFacts
  <1>2. UNCHANGED <<written, rcvd, acked, localClosed, dialed>>
    BY <1>k DEF AttachConn, buffers, control
  <1>3. LocalStep(x) /\ Grows(x)
    BY <1>2, AttachingSteps, SteadyGrows DEF Attaching
  <1>4. /\ attached[x] = None /\ attached'[x] = k /\ waiting'[x] = waiting[x] \ {k}
        /\ reader'[x].pc = "handshake" /\ writer'[x].pc = "off"
        /\ net' = Sent(x, k, Position(Len(rcvd[x])))
    BY <1>k DEF AttachConn, LocalPosition, TypeInv, TypeOK, Idle, NoWriter
  <1>m. PICK m \in Messages : m = Position(Len(rcvd[x]))
    BY TypeFacts, EmptySeq DEF Position, Messages
  <1>5. m.kind = "position" /\ m.at = Len(rcvd[x])
    BY <1>m DEF Position
  <1>6. /\ \A j \in Conns : net'[j].up = net[j].up
        /\ \A j \in Conns : j # k => net'[j] = net[j]
        /\ net'[k].to[x] = s
        /\ ~net[k].up => net' = net
        /\ net[k].up => net'[k].to[p] = Append(net[k].to[p], m)
    <2>0. net \in Nets /\ k \in Conns
      BY <1>1
    <2>1. net' = Sent(x, k, m)
      BY <1>4, <1>m
    <2>2. /\ \A j \in Conns : Sent(x, k, m)[j].up = net[j].up
          /\ \A j \in Conns : j # k => Sent(x, k, m)[j] = net[j]
          /\ Sent(x, k, m)[k].to[x] = net[k].to[x]
          /\ ~net[k].up => Sent(x, k, m) = net
          /\ net[k].up => Sent(x, k, m)[k].to[Peer(x)] = Append(net[k].to[Peer(x)], m)
      BY <2>0, SentNet
    <2>. QED  BY <1>p, <1>s, <2>1, <2>2
  <1>7. /\ QuietInv(x, k) /\ GreetInv(x, k) /\ ListenInv(x, k)
        /\ QuietInv(p, k) /\ GreetInv(p, k) /\ ListenInv(p, k)
    BY <1>1 DEF ChannelInv, ChannelAt
  <1>8. /\ Before(x, k) /\ ~Before(x, k)' /\ ~After(x, k)'
        /\ Greets(x, k)' /\ ~Talks(x, k)' /\ ~Listens(x, k)' /\ Active(x, k)'
    BY <1>1, <1>2, <1>4, <1>k DEF Before, After, Greets, Talks, Listens, Active
  <1>9. /\ net[k].to[p] = <<>> /\ ~Talks(p, k) /\ ~Listens(p, k)
        /\ s # <<>> => Len(s) = 1 /\ s[1].kind = "position" /\ s[1].at <= Len(rcvd[p])
    BY <1>1, <1>7, <1>8, <1>p, <1>s DEF QuietInv
  <1>10. /\ Before(p, k)' <=> Before(p, k)
         /\ Talks(p, k)' <=> Talks(p, k)
         /\ Listens(p, k)' <=> Listens(p, k)
         /\ Greets(p, k)' <=> Greets(p, k)
         /\ Active(p, k)' <=> Active(p, k)
         /\ After(p, k)' <=> After(p, k)
    BY <1>3, <1>p DEF LocalStep, Still, Before, Talks, Listens, Greets, Active, After
  <1>t. PICK t \in Seq(Messages) : t = net'[k].to[p]
    BY <1>1, <1>3, NextMessages DEF LocalStep
  <1>11. t # <<>> => Len(t) = 1 /\ t[1].kind = "position" /\ t[1].at = Len(rcvd[x])
    <2>1. CASE net[k].up
      <3>q. PICK q \in Seq(Messages) : q = net[k].to[p]
        BY <1>1, NumberFacts
      <3>1. t = Append(q, m) /\ q = <<>>
        BY <1>6, <1>9, <1>t, <2>1, <3>q
      <3>2. Len(t) = Len(q) + 1 /\ t[1] = m
        BY <3>1, AppendFacts
      <3>3. Len(q) = 0
        BY <3>1, EmptySeq
      <3>. QED  BY <1>5, <3>2, <3>3
    <2>2. CASE ~net[k].up
      BY <1>6, <1>9, <1>t, <2>2
    <2>. QED  BY <2>1, <2>2
  <1>12. t = <<>> => ~net[k].up
    <2>1. CASE net[k].up
      <3>q. PICK q \in Seq(Messages) : q = net[k].to[p]
        BY <1>1, NumberFacts
      <3>1. t = Append(q, m)
        BY <1>6, <1>t, <2>1, <3>q
      <3>. QED  BY <3>1, AppendFacts
    <2>. QED  BY <2>1
  <1>13. ~HasTag(s) /\ ~HasTag(t) /\ (s # <<>> => Tail(s) = <<>>) /\ (t # <<>> => Tail(t) = <<>>)
    BY <1>9, <1>11, OnlyPosition, ThroughEmpty
  <1>14. /\ Len(rcvd[x]) \in Nat /\ Len(rcvd[p]) \in Nat
         /\ Len(rcvd[x]) \in 0..written[p] /\ Len(rcvd[p]) \in 0..written[x]
         /\ s # <<>> => s[1].at \in Nat
    <2>1. /\ Len(rcvd[x]) \in Nat /\ Len(rcvd[p]) \in Nat /\ written[p] \in Nat /\ written[x] \in Nat
      BY NumberFacts
    <2>2. Len(rcvd[x]) <= written[p] /\ Len(rcvd[p]) <= written[x]
      BY <1>1, <1>p DEF BufferInv
    <2>3. s # <<>> => s[1] \in Messages
      BY TailFacts, HeadTailProperties
    <2>. QED  BY <2>1, <2>2, <2>3 DEF Messages
  <1>15. ASSUME NEW b, NEW a PROVE EndsAt(p, k, s, b, a)' /\ EndsAt(x, k, t, b, a)'
    BY <1>8, <1>9, <1>10, <1>13 DEF EndsAt
  <1>16. /\ s # <<>> => Through(Tail(s), Len(rcvd[x]), s[1].at, Len(rcvd[x]), s[1].at)
         /\ t # <<>> => Through(Tail(t), Len(rcvd[p]), t[1].at, Len(rcvd[p]), t[1].at)
    <2>1. ASSUME NEW n \in Nat, NEW a \in Nat PROVE Through(<<>>, n, a, n, a)
      BY ThroughEmpty
    <2>2. t # <<>> => t[1].at \in Nat
      BY <1>11, <1>14
    <2>. QED  BY <1>13, <1>14, <2>1, <2>2
  <1>17. QuietInv(x, k)'
    BY <1>1, <1>6, <1>7, <1>8, <1>10, <1>13, <1>p, <1>s DEF QuietInv
  <1>18. GreetInv(x, k)'
    <2>1. /\ Active(p, k) => IF s = <<>> THEN ~net'[k].up ELSE s[1].at = Len(rcvd'[p])
          /\ Greets(p, k) => Len(s) <= 1
      BY <1>1, <1>2, <1>6, <1>7, <1>8, <1>p, <1>s DEF GreetInv
    <2>2. s # <<>> => \E b \in 0..written'[p] :
                        /\ Through(Tail(s), Len(rcvd'[x]), s[1].at, b, s[1].at)
                        /\ EndsAt(p, k, s, b, s[1].at)'
      BY <1>2, <1>14, <1>15, <1>16
    <2>. QED  BY <1>2, <1>6, <1>9, <1>10, <1>p, <2>1, <2>2 DEF GreetInv
  <1>19. ListenInv(x, k)'
    BY <1>8, <1>9, <1>10, <1>p DEF ListenInv
  <1>20. QuietInv(p, k)'
    <2>1. After(p, k) => ~net'[k].up
      BY <1>1, <1>6, <1>7 DEF QuietInv
    <2>2. t # <<>> => t[1].at <= Len(rcvd'[x])
      BY <1>2, <1>11, <1>14
    <2>. QED  BY <1>1, <1>8, <1>10, <1>11, <1>13, <1>t, <2>1, <2>2 DEF QuietInv
  <1>21. GreetInv(p, k)'
    <2>1. t # <<>> => \E b \in 0..written'[x] :
                        /\ Through(Tail(t), Len(rcvd'[p]), t[1].at, b, t[1].at)
                        /\ EndsAt(x, k, t, b, t[1].at)'
      BY <1>2, <1>14, <1>15, <1>16
    <2>2. t # <<>> => t[1].at <= Len(rcvd'[x]) /\ t[1].at = Len(rcvd'[x])
      BY <1>2, <1>11, <1>14
    <2>3. Len(t) <= 1
      <3>1. CASE t = <<>>
        BY <3>1, EmptySeq
      <3>2. CASE t # <<>>
        <4>1. Len(t) = 1
          BY <1>11, <3>2
        <4>. QED  BY <4>1
      <3>. QED  BY <3>1, <3>2
    <2>4. IF t = <<>> THEN ~net'[k].up ELSE t[1].at = Len(rcvd'[x])
      BY <1>1, <1>6, <1>12, <2>2
    <2>. QED  BY <1>1, <1>8, <1>11, <1>t, <2>1, <2>2, <2>3, <2>4 DEF GreetInv
  <1>22. ListenInv(p, k)'
    BY <1>1, <1>8, <1>9, <1>10 DEF ListenInv
  <1>23. ChannelAt(k)'
    BY <1>1, <1>17, <1>18, <1>19, <1>20, <1>21, <1>22 DEF ChannelAt
  <1>24. ASSUME NEW j \in Conns PROVE ChannelAt(j)'
    <2>1. CASE j # k
      <3>1. attached[x] # j
        BY <1>4, TypeFacts
      <3>2. j \in waiting'[x] <=> j \in waiting[x]
        BY <1>4, <2>1
      <3>. QED  BY <1>3, <1>4, <1>6, <2>1, <3>1, <3>2, OtherTransports DEF ChannelInv
    <2>. QED  BY <1>23, <2>1
  <1>. QED  BY <1>3, <1>24 DEF ChannelInv

\* What the handshake does to the end that reads a position
LEMMA HandshakeFacts ==
    ASSUME TypeInv, NEW x \in Ends, Handshake(x), NEW k \in Conns, k = attached[x],
           NEW c, c = net[k].to[x][1].at
    PROVE  /\ UNCHANGED <<written, rcvd, localClosed, waiting, attached>>
           /\ Greets(x, k) /\ net[k].to[x] # <<>> /\ c \in Nat
           /\ Compatible(x, c) =>
                /\ acked'[x] = c
                /\ reader'[x].pc = "ack" /\ reader'[x].data = <<>>
                /\ writer'[x].pc = "ready" /\ writer'[x].peer = c
                /\ writer'[x].local = Len(rcvd[x]) /\ writer'[x].ack = 0 /\ writer'[x].size = 0
                /\ net'[k].to[Peer(x)] = net[k].to[Peer(x)]
                /\ remoteClosed' = remoteClosed
           /\ ~Compatible(x, c) =>
                /\ acked'[x] = acked[x]
                /\ reader'[x].pc = "off" /\ writer'[x].pc = "off"
                /\ net'[k].to[Peer(x)] = IF net[k].up THEN Append(net[k].to[Peer(x)], ErrorTag)
                                         ELSE net[k].to[Peer(x)]
           /\ \A j \in Conns : j # k => net'[j] = net[j]
           /\ net'[k].up = net[k].up
           /\ net'[k].to[x] = Tail(net[k].to[x])
  <1>1. /\ UNCHANGED <<written, rcvd, localClosed, waiting, attached>>
        /\ Greets(x, k) /\ net[k].to[x] # <<>> /\ net \in Nets
        /\ reader[x].pc = "handshake"
    BY TypeFacts DEF Handshake, Greets, Inbox
  <1>2. c = Head(Inbox(x)).at /\ c \in Nat
    <2>s. PICK s \in Seq(Messages) : s = net[k].to[x]
      BY NumberFacts
    <2>1. s # <<>> /\ s = Inbox(x)
      BY <1>1, <2>s DEF Inbox
    <2>2. Head(s) = s[1] /\ Head(s) \in Messages
      BY <2>1, TailFacts, HeadTailProperties
    <2>. QED  BY <2>1, <2>2, <2>s DEF Messages
  <1>. DEFINE ok == Compatible(x, c)
  <1>3. /\ acked' = [acked EXCEPT ![x] = IF ok THEN c ELSE @]
        /\ reader' = [reader EXCEPT ![x].pc = IF ok THEN "ack" ELSE "off"]
        /\ writer' = IF ok THEN [writer EXCEPT ![x].pc = "ready", ![x].peer = c] ELSE writer
        /\ net' = IF ok THEN Taken(net, x) ELSE Taken(Sent(x, attached[x], ErrorTag), x)
        /\ remoteClosed' = [remoteClosed EXCEPT ![x] = @ \/ ~ok]
    BY <1>2 DEF Handshake
  <1>. HIDE DEF ok
  <1>4. /\ reader[x] \in Readers /\ writer[x] \in Writers
        /\ reader[x].data = <<>> /\ writer[x].pc = "off"
        /\ writer[x].local = Len(rcvd[x]) /\ writer[x].ack = 0 /\ writer[x].size = 0
    BY <1>1 DEF TypeInv, TypeOK, Readers, Writers, LoopInv, LoopAt
  <1>5. ok => /\ acked'[x] = c
              /\ reader'[x].pc = "ack" /\ reader'[x].data = <<>>
              /\ writer'[x].pc = "ready" /\ writer'[x].peer = c
              /\ writer'[x].local = Len(rcvd[x]) /\ writer'[x].ack = 0 /\ writer'[x].size = 0
    <2>. SUFFICES ASSUME ok PROVE /\ acked'[x] = c
              /\ reader'[x].pc = "ack" /\ reader'[x].data = <<>>
              /\ writer'[x].pc = "ready" /\ writer'[x].peer = c
              /\ writer'[x].local = Len(rcvd[x]) /\ writer'[x].ack = 0 /\ writer'[x].size = 0
      OBVIOUS
    <2>1. acked'[x] = c
      BY <1>3 DEF TypeInv, TypeOK
    <2>. DEFINE r == [reader[x] EXCEPT !.pc = "ack"]
                w == [writer[x] EXCEPT !.pc = "ready", !.peer = c]
    <2>2. reader' = [reader EXCEPT ![x] = r] /\ writer' = [writer EXCEPT ![x] = w]
      BY <1>3
    <2>3. r.pc = "ack" /\ r.data = reader[x].data
      BY <1>4 DEF Readers
    <2>4. /\ w.pc = "ready" /\ w.peer = c /\ w.local = writer[x].local
          /\ w.ack = writer[x].ack /\ w.size = writer[x].size
      BY <1>4 DEF Writers
    <2>. HIDE DEF r, w
    <2>5. reader'[x] = r /\ writer'[x] = w
      BY <2>2 DEF TypeInv, TypeOK
    <2>. QED  BY <1>4, <2>1, <2>3, <2>4, <2>5
  <1>6. ~ok => acked'[x] = acked[x] /\ reader'[x].pc = "off" /\ writer'[x].pc = "off"
    <2>. SUFFICES ASSUME ~ok
                  PROVE  acked'[x] = acked[x] /\ reader'[x].pc = "off" /\ writer'[x].pc = "off"
      OBVIOUS
    <2>. DEFINE r == [reader[x] EXCEPT !.pc = "off"]
    <2>1. reader' = [reader EXCEPT ![x] = r] /\ writer' = writer /\ acked'[x] = acked[x]
      BY <1>3 DEF TypeInv, TypeOK
    <2>2. r.pc = "off"
      BY <1>4 DEF Readers
    <2>. HIDE DEF r
    <2>3. reader'[x] = r
      BY <2>1 DEF TypeInv, TypeOK
    <2>. QED  BY <1>4, <2>1, <2>2, <2>3
  <1>n. PICK n \in Nets : n = IF ok THEN net ELSE Sent(x, k, ErrorTag)
    <2>m. PICK m \in Messages : m = ErrorTag
      BY EmptySeq DEF ErrorTag, Messages
    <2>1. Sent(x, k, m) \in Nets
      BY <1>1, SentNet
    <2>. QED  BY <1>1, <2>1, <2>m
  <1>7. /\ \A j \in Conns : j # k => n[j] = net[j]
        /\ \A j \in Conns : n[j].up = net[j].up
        /\ n[k].to[x] = net[k].to[x]
        /\ ok => n[k].to[Peer(x)] = net[k].to[Peer(x)]
        /\ ~ok => n[k].to[Peer(x)] = IF net[k].up THEN Append(net[k].to[Peer(x)], ErrorTag)
                                     ELSE net[k].to[Peer(x)]
    <2>m. PICK m \in Messages : m = ErrorTag
      BY EmptySeq DEF ErrorTag, Messages
    <2>1. ~ok => n = Sent(x, k, m)
      BY <1>n, <2>m
    <2>2. /\ \A j \in Conns : Sent(x, k, m)[j].up = net[j].up
          /\ \A j \in Conns : j # k => Sent(x, k, m)[j] = net[j]
          /\ Sent(x, k, m)[k].to[x] = net[k].to[x]
          /\ ~net[k].up => Sent(x, k, m) = net
          /\ net[k].up => Sent(x, k, m)[k].to[Peer(x)] = Append(net[k].to[Peer(x)], m)
      <3>1. net \in Nets
        BY <1>1
      <3>. QED  BY <3>1, SentNet
    <2>3. ok => n = net
      BY <1>n
    <2>. QED  BY <2>1, <2>2, <2>3, <2>m
  <1>8. net' = Taken(n, x) /\ n[attached[x]].to[x] # <<>> /\ attached[x] \in Conns
    BY <1>1, <1>3, <1>7, <1>n
  <1>9. /\ \A j \in Conns : net'[j].up = n[j].up
        /\ \A j \in Conns : j # k => net'[j] = n[j]
        /\ net'[k].to[Peer(x)] = n[k].to[Peer(x)]
        /\ net'[k].to[x] = Tail(n[k].to[x])
    BY <1>8, TakenNet
  <1>10. ok => remoteClosed' = remoteClosed
    BY <1>3 DEF TypeInv, TypeOK
  <1>. QED  BY <1>1, <1>2, <1>5, <1>6, <1>7, <1>9, <1>10 DEF ok

\* The position of the peer is read. Where handlers attach in order it is one to
\* continue from.
LEMMA HandshakeChannel ==
    ASSUME TypeInv, ChannelInv, NEW x \in Ends, Handshake(x), NEW k \in Conns, k = attached[x],
           InOrder => Compatible(x, net[k].to[x][1].at)
    PROVE  Grows(x) /\ ChannelInv'
  <1>p. PICK p \in Ends : p = Peer(x)
    BY PeerEnd
  <1>s. PICK s \in Seq(Messages) : s = net[k].to[x]
    BY NumberFacts
  <1>t. PICK t \in Seq(Messages) : t = net[k].to[p]
    BY NumberFacts
  <1>c. PICK c \in Nat : c = s[1].at
    BY <1>s, HandshakeFacts
  <1>0. p # x /\ Peer(p) = x /\ Ends = {x, p}
    BY <1>p, PeerEnd
  <1>1. /\ UNCHANGED <<written, rcvd, localClosed, waiting, attached>>
        /\ Greets(x, k) /\ s # <<>>
        /\ \A j \in Conns : j # k => net'[j] = net[j]
        /\ net'[k].up = net[k].up
        /\ net'[k].to[x] = Tail(s)
    BY <1>c, <1>s, HandshakeFacts
  <1>2. LocalStep(x) /\ Grows(x)
    BY <1>1, HandshakeSteps, SteadyGrows
  <1>3. /\ QuietInv(x, k) /\ GreetInv(x, k) /\ ListenInv(x, k)
        /\ QuietInv(p, k) /\ GreetInv(p, k) /\ ListenInv(p, k)
    BY DEF ChannelInv, ChannelAt
  <1>4. /\ ~Before(x, k)' /\ ~After(x, k)' /\ ~Greets(x, k)' /\ ~Before(p, k)
        /\ attached[x] = k /\ attached'[x] = k
    <2>1. ~Before(x, k)
      BY NumberFacts, MaxConnsPositive DEF Before, TypeInv, LoopInv, LoopAt, Conns
    <2>2. ~Before(x, k)'
      BY <1>1, <1>2, <2>1 DEF LocalStep, Before
    <2>3. ~Greets(x, k)'
      <3>1. reader'[x].pc # "handshake"
        BY <1>c, <1>s, HandshakeFacts
      <3>. QED  BY <3>1 DEF Greets
    <2>4. ~Before(p, k)
      BY <1>1, <1>3, <1>p, <1>s DEF QuietInv
    <2>. QED  BY <1>1, <2>2, <2>3, <2>4 DEF After
  <1>5. /\ (Talks(p, k) \/ Greets(p, k)) => ~HasTag(s)
        /\ HasTag(Tail(s)) => HasTag(s)
        /\ ~HasTag(t)
        /\ After(p, k) => ~net[k].up
    BY <1>0, <1>1, <1>3, <1>p, <1>s, <1>t, TailFacts DEF QuietInv
  <1>6. QuietInv(x, k)'
    BY <1>1, <1>2, <1>4, <1>5, <1>p, StillFacts DEF QuietInv
  <1>7. GreetInv(x, k)'
    BY <1>4 DEF GreetInv
  <1>n. /\ Len(rcvd[x]) \in Nat /\ Len(rcvd[p]) \in Nat /\ written[x] \in Nat /\ written[p] \in Nat
        /\ acked[p] \in Nat
        /\ t # <<>> => t[1].at \in Nat
    <2>1. t # <<>> => t[1] \in Messages
      BY TailFacts, HeadTailProperties
    <2>. QED  BY <2>1, NumberFacts DEF Messages
  <1>8. CASE Compatible(x, c)
    <2>1. /\ acked'[x] = c /\ reader'[x].pc = "ack" /\ reader'[x].data = <<>>
          /\ writer'[x].pc = "ready" /\ writer'[x].peer = c
          /\ writer'[x].local = Len(rcvd[x]) /\ writer'[x].ack = 0
          /\ net'[k].to[p] = t
      <3>1. c = net[k].to[x][1].at
        BY <1>c, <1>s
      <3>2. Compatible(x, c) =>
                /\ acked'[x] = c
                /\ reader'[x].pc = "ack" /\ reader'[x].data = <<>>
                /\ writer'[x].pc = "ready" /\ writer'[x].peer = c
                /\ writer'[x].local = Len(rcvd[x]) /\ writer'[x].ack = 0 /\ writer'[x].size = 0
                /\ net'[k].to[Peer(x)] = net[k].to[Peer(x)]
                /\ remoteClosed' = remoteClosed
        BY <3>1, HandshakeFacts
      <3>. QED  BY <1>8, <1>p, <1>t, <3>2
    <2>2. Listens(x, k)' /\ Talks(x, k)' /\ Active(x, k)' /\ Active(x, k)
      BY <1>1, <1>4, <2>1 DEF Listens, Talks, Greets, Active
    <2>3. /\ Active(p, k) => c = Len(rcvd[p])
          /\ Greets(p, k) => Len(s) <= 1
          /\ c <= Len(rcvd[p])
          /\ \E b \in 0..written[p] : /\ Through(Tail(s), Len(rcvd[x]), c, b, c)
                                     /\ EndsAt(p, k, s, b, c)
          /\ Listens(p, k) => t = <<>> /\ reader[p].pc = "ack" /\ acked[p] = Len(rcvd[x])
      BY <1>1, <1>3, <1>c, <1>p, <1>s, <1>t DEF GreetInv
    <2>4. /\ Greets(p, k) => Len(t) <= 1
          /\ Greets(p, k) => IF t = <<>> THEN ~net[k].up ELSE t[1].at = Len(rcvd[x])
          /\ Greets(p, k) /\ t # <<>> => t[1].kind = "position"
          /\ Greets(p, k) /\ t # <<>> => \E b \in 0..written[x] :
                Through(Tail(t), Len(rcvd[p]), t[1].at, b, t[1].at)
      BY <1>0, <1>1, <1>3, <1>t, <2>2 DEF GreetInv
    <2>5. ListenInv(x, k)'
      <3>1. reader'[x].data = Bytes(Len(rcvd[x]), 0) /\ Len(reader'[x].data) = 0
        <4>q. PICK q \in Seq(Nat) : q = <<>>
          BY EmptySeq
        <4>1. Len(q) = 0 /\ q = Bytes(Len(rcvd[x]), Len(q))
          <5>1. Len(q) = 0
            BY <4>q, EmptySeq
          <5>2. Bytes(Len(rcvd[x]), 0) \in Seq(Nat) /\ Len(Bytes(Len(rcvd[x]), 0)) = 0
            BY <1>n, SeqDef, LenProperties DEF Bytes
          <5>. QED  BY <4>q, <5>1, <5>2, EmptySeq
        <4>. QED  BY <2>1, <4>1, <4>q
      <3>2. PICK b \in 0..written[p] : /\ Through(Tail(s), Len(rcvd[x]), c, b, c)
                                       /\ EndsAt(p, k, s, b, c)
        BY <2>3
      <3>3. EndsAt(p, k, Tail(s), b, c)'
        BY <1>1, <1>2, <1>5, <1>p, <3>2, StillFacts DEF EndsAt
      <3>4. Len(rcvd[x]) + 0 = Len(rcvd[x]) /\ c \in 0..Len(rcvd[p]) /\ c <= c
        BY <1>n, <2>3
      <3>5. \E j \in 0..written'[p], a \in 0..Len(rcvd'[p]) :
                /\ Through(Tail(s), Len(rcvd'[x]) + Len(reader'[x].data), acked'[x], j, a)
                /\ EndsAt(p, k, Tail(s), j, a)'
                /\ Talks(x, k)' => a <= writer'[x].peer
        <4>1. /\ b \in 0..written'[p] /\ c \in 0..Len(rcvd'[p]) /\ c <= writer'[x].peer
              /\ Through(Tail(s), Len(rcvd'[x]) + 0, acked'[x], b, c)
          BY <1>1, <2>1, <3>2, <3>4
        <4>2. Through(Tail(s), Len(rcvd'[x]) + Len(reader'[x].data), acked'[x], b, c)
          BY <3>1, <4>1, Zenon
        <4>. QED  BY <3>3, <4>1, <4>2
      <3>6. Talks(p, k)' => Len(rcvd'[x]) <= writer'[p].peer
        BY <1>1, <1>2, <1>3, <1>p, <2>2, StillFacts DEF ListenInv
      <3>7. /\ reader'[x].data = Bytes(Len(rcvd'[x]), Len(reader'[x].data))
            /\ net'[k].to[x] = Tail(s)
        BY <1>1, <3>1
      <3>. QED  BY <1>p, <3>5, <3>6, <3>7 DEF ListenInv
    <2>6. QuietInv(p, k)'
      BY <1>0, <1>1, <1>2, <1>4, <1>5, <1>p, <2>1, StillFacts DEF QuietInv
    <2>7. GreetInv(p, k)'
      <3>1. CASE Greets(p, k)
        <4>1. Tail(s) = <<>> /\ (t # <<>> => Tail(t) = <<>>)
          BY <1>1, <2>3, <2>4, <3>1, TailFacts
        <4>2. c = Len(rcvd[p])
          BY <2>3, <3>1 DEF Active
        <4>3. ASSUME t # <<>>
              PROVE  \E b \in 0..written'[x] :
                        /\ Through(Tail(t), Len(rcvd'[p]), t[1].at, b, t[1].at)
                        /\ EndsAt(x, k, t, b, t[1].at)'
          <5>a. PICK a \in Nat : a = t[1].at
            BY <1>n, <4>3
          <5>1. PICK b \in 0..written[x] : Through(<<>>, Len(rcvd[p]), a, b, a)
            BY <2>4, <3>1, <4>1, <4>3, <5>a
          <5>2. b = c
            <6>1. b \in Nat
              BY <1>n
            <6>. QED  BY <1>n, <4>2, <5>1, <6>1, ThroughEmpty
          <5>3. a = Len(rcvd[x])
            BY <2>4, <3>1, <4>3, <5>a
          <5>4. EndsAt(x, k, t, b, a)'
            BY <1>5, <2>1, <5>2, <5>3, <1>n DEF EndsAt
          <5>. QED  BY <1>1, <1>2, <1>p, <4>1, <4>3, <5>1, <5>4, <5>a, StillFacts
        <4>4. t # <<>> => t[1].at <= Len(rcvd'[x])
          BY <1>1, <1>n, <2>4, <3>1
        <4>. QED  BY <1>0, <1>1, <1>2, <1>4, <1>p, <2>1, <2>2, <2>4, <3>1, <4>1, <4>2, <4>3, <4>4,
                     StillFacts DEF GreetInv
      <3>2. CASE ~Greets(p, k)
        BY <1>2, <1>4, <1>p, <3>2, StillFacts DEF GreetInv
      <3>. QED  BY <3>1, <3>2
    <2>8. ListenInv(p, k)'
      <3>1. Active(p, k) => Len(rcvd[p]) <= c
        BY <1>n, <2>3
      <3>2. CASE Listens(p, k)
        <4>1. t = <<>> /\ acked[p] = Len(rcvd[x]) /\ c = Len(rcvd[p])
          BY <2>3, <3>2 DEF Active
        <4>2. reader[p].data = <<>>
          BY <2>3, <3>2 DEF TypeInv, LoopInv, LoopAt
        <4>3. /\ reader[p].data = Bytes(Len(rcvd[p]), Len(reader[p].data))
              /\ \E b \in 0..written[x], a \in 0..Len(rcvd[x]) :
                /\ Through(<<>>, Len(rcvd[p]) + Len(reader[p].data), Len(rcvd[x]), b, a)
                /\ Talks(p, k) => a <= writer[p].peer
          BY <1>0, <1>3, <1>t, <3>2, <4>1 DEF ListenInv
        <4>4. Len(rcvd[p]) + Len(reader[p].data) = Len(rcvd[p])
          BY <1>n, <4>2, EmptySeq
        <4>5. PICK b \in 0..written[x] : \E a \in 0..Len(rcvd[x]) :
                /\ Through(<<>>, Len(rcvd[p]), Len(rcvd[x]), b, a)
                /\ Talks(p, k) => a <= writer[p].peer
          BY <4>3, <4>4
        <4>6. PICK a \in 0..Len(rcvd[x]) :
                /\ Through(<<>>, Len(rcvd[p]), Len(rcvd[x]), b, a)
                /\ Talks(p, k) => a <= writer[p].peer
          BY <4>5
        <4>7. b = c /\ a = Len(rcvd[x])
          <5>1. b \in Nat /\ a \in Nat
            BY <1>n
          <5>. QED  BY <1>n, <4>1, <4>6, <5>1, ThroughEmpty
        <4>8. EndsAt(x, k, t, b, a)'
          BY <1>5, <2>1, <4>7, <1>n DEF EndsAt
        <4>9. \E j \in 0..written'[x], i \in 0..Len(rcvd'[x]) :
                /\ Through(t, Len(rcvd'[p]) + Len(reader'[p].data), acked'[p], j, i)
                /\ EndsAt(x, k, t, j, i)'
                /\ Talks(p, k)' => i <= writer'[p].peer
          <5>1. /\ rcvd'[p] = rcvd[p] /\ reader'[p] = reader[p] /\ acked'[p] = acked[p]
                /\ written'[x] = written[x] /\ rcvd'[x] = rcvd[x]
                /\ Talks(p, k)' => a <= writer'[p].peer
            BY <1>1, <1>2, <1>p, <4>6, StillFacts
          <5>2. Through(t, Len(rcvd'[p]) + Len(reader'[p].data), acked'[p], b, a)
            BY <4>1, <4>4, <4>6, <5>1, Zenon
          <5>3. b \in 0..written'[x] /\ a \in 0..Len(rcvd'[x])
            BY <5>1
          <5>. QED  BY <4>8, <5>1, <5>2, <5>3, Zenon
        <4>10. /\ reader'[p].data = Bytes(Len(rcvd'[p]), Len(reader'[p].data))
               /\ Active(p, k)' => Len(rcvd'[p]) <= writer'[x].peer
          BY <1>2, <1>p, <2>1, <3>1, <4>3, StillFacts
        <4>. QED  BY <1>0, <2>1, <4>9, <4>10 DEF ListenInv
      <3>3. CASE ~Listens(p, k)
        BY <1>0, <1>2, <1>p, <2>1, <3>1, <3>3, StillFacts DEF ListenInv
      <3>. QED  BY <3>2, <3>3
    <2>. QED  BY <1>1, <1>2, <1>4, <1>6, <1>7, <1>p, <2>5, <2>6, <2>7, <2>8, ChannelRule
  <1>9. CASE ~Compatible(x, c)
    <2>u. PICK u \in Seq(Messages) : u = net'[k].to[p]
      BY <1>2, NextMessages DEF LocalStep
    <2>1. /\ reader'[x].pc = "off" /\ writer'[x].pc = "off"
          /\ u = IF net[k].up THEN Append(t, ErrorTag) ELSE t
      BY <1>9, <1>c, <1>p, <1>s, <1>t, <2>u, HandshakeFacts
    <2>2. /\ ~Listens(x, k)' /\ ~Talks(x, k)' /\ ~Active(x, k)' /\ Active(x, k)
          /\ ~InOrder
      BY <1>1, <1>4, <1>9, <1>c, <1>s, <2>1 DEF Listens, Talks, Greets, Active
    <2>3. ASSUME NEW b, NEW a PROVE EndsAt(x, k, u, b, a)'
      BY <2>2 DEF EndsAt
    <2>4. ListenInv(x, k)'
      BY <2>2 DEF ListenInv
    <2>5. QuietInv(p, k)'
      BY <1>0, <1>1, <1>2, <1>4, <1>5, <1>p, <2>2, StillFacts DEF QuietInv
    <2>m. PICK m \in Messages : m = ErrorTag
      BY EmptySeq DEF ErrorTag, Messages
    <2>6. GreetInv(p, k)'
      <3>1. CASE Greets(p, k) /\ u # <<>>
        <4>1. /\ t # <<>>
              /\ t[1].kind = "position" /\ t[1].at <= Len(rcvd[x])
              /\ \E b \in 0..written[x] : Through(Tail(t), Len(rcvd[p]), t[1].at, b, t[1].at)
          BY <1>0, <1>3, <1>t, <2>1, <2>2, <3>1 DEF GreetInv
        <4>a. PICK a \in Nat : a = t[1].at
          BY <1>n, <4>1
        <4>2. PICK b \in 0..written[x] : Through(Tail(t), Len(rcvd[p]), a, b, a)
          BY <4>1, <4>a
        <4>3. b \in Nat /\ Tail(t) \in Seq(Messages) /\ ~HasTag(Tail(t))
          BY <1>5, <1>n, <4>1, TailFacts
        <4>4. Through(Append(Tail(t), ErrorTag), Len(rcvd[p]), a, b, a)
          BY <4>2, <4>3, ThroughTag
        <4>5. u[1] = t[1] /\ (Tail(u) = Tail(t) \/ Tail(u) = Append(Tail(t), ErrorTag))
          BY <2>1, <2>m, <4>1, AppendFacts
        <4>6. Through(Tail(u), Len(rcvd[p]), u[1].at, b, u[1].at)
          BY <4>2, <4>4, <4>5, <4>a
        <4>7. \E j \in 0..written'[x] : /\ Through(Tail(u), Len(rcvd'[p]), u[1].at, j, u[1].at)
                                      /\ EndsAt(x, k, u, j, u[1].at)'
          BY <1>1, <1>2, <1>p, <2>3, <4>6, StillFacts
        <4>8. u[1].kind = "position" /\ u[1].at <= Len(rcvd'[x])
          BY <1>1, <4>1, <4>5
        <4>. QED  BY <1>0, <1>2, <1>4, <1>p, <2>2, <2>u, <4>7, <4>8, StillFacts DEF GreetInv
      <3>2. CASE ~(Greets(p, k) /\ u # <<>>)
        BY <1>0, <1>2, <1>4, <1>p, <2>2, <2>u, <3>2, StillFacts DEF GreetInv
      <3>. QED  BY <3>1, <3>2
    <2>7. ListenInv(p, k)'
      <3>1. CASE Listens(p, k)
        <4>d. PICK d \in Nat : d = Len(rcvd[p]) + Len(reader[p].data)
          <5>q. PICK q \in Seq(Nat) : q = reader[p].data
            BY NumberFacts
          <5>1. Len(rcvd[p]) + Len(q) \in Nat
            BY <1>n, LenProperties
          <5>. QED  BY <5>q, <5>1, Zenon
        <4>1. /\ reader[p].data = Bytes(Len(rcvd[p]), Len(reader[p].data))
              /\ \E b \in 0..written[x], a \in 0..Len(rcvd[x]) :
                /\ Through(t, d, acked[p], b, a)
                /\ Talks(p, k) => a <= writer[p].peer
          BY <1>0, <1>3, <1>t, <3>1, <4>d DEF ListenInv
        <4>2. PICK b \in 0..written[x] : \E a \in 0..Len(rcvd[x]) :
                /\ Through(t, d, acked[p], b, a)
                /\ Talks(p, k) => a <= writer[p].peer
          BY <4>1
        <4>3. PICK a \in 0..Len(rcvd[x]) : /\ Through(t, d, acked[p], b, a)
                                           /\ Talks(p, k) => a <= writer[p].peer
          BY <4>2
        <4>4. b \in Nat /\ a \in Nat
          BY <1>n
        <4>5. Through(Append(t, ErrorTag), d, acked[p], b, a)
          BY <1>5, <4>3, <4>4, ThroughTag
        <4>6. Through(u, d, acked[p], b, a)
          BY <2>1, <4>3, <4>5
        <4>7. /\ rcvd'[p] = rcvd[p] /\ reader'[p] = reader[p] /\ acked'[p] = acked[p]
              /\ writer'[p] = writer[p] /\ (Talks(p, k)' <=> Talks(p, k))
              /\ written'[x] = written[x] /\ rcvd'[x] = rcvd[x]
          BY <1>1, <1>2, <1>p, StillFacts
        <4>8. Through(u, Len(rcvd'[p]) + Len(reader'[p].data), acked'[p], b, a)
          BY <4>6, <4>7, <4>d, Zenon
        <4>9. \E j \in 0..written'[x], i \in 0..Len(rcvd'[x]) :
                /\ Through(u, Len(rcvd'[p]) + Len(reader'[p].data), acked'[p], j, i)
                /\ EndsAt(x, k, u, j, i)'
                /\ Talks(p, k)' => i <= writer'[p].peer
          <5>1. b \in 0..written'[x] /\ a \in 0..Len(rcvd'[x])
            BY <4>7
          <5>2. Talks(p, k)' => a <= writer'[p].peer
            BY <4>3, <4>7
          <5>3. EndsAt(x, k, u, b, a)'
            BY <2>3
          <5>. QED  BY <4>8, <5>1, <5>2, <5>3, Zenon
        <4>. QED  BY <1>0, <2>2, <2>u, <4>1, <4>7, <4>9 DEF ListenInv
      <3>2. CASE ~Listens(p, k)
        BY <1>0, <1>2, <1>p, <2>2, <3>2, StillFacts DEF ListenInv
      <3>. QED  BY <3>1, <3>2
    <2>. QED  BY <1>1, <1>2, <1>4, <1>6, <1>7, <1>p, <2>4, <2>5, <2>6, <2>7, ChannelRule
  <1>. QED  BY <1>8, <1>9

-------------------------------------------------------------------------------
(* The read loop *)

\* As long as the read loop of x only reads, its peer finds what it found, and
\* the handshake is over on both ends.
LEMMA ReadingPeer ==
    ASSUME TypeInv, NEW x \in Ends, LocalStep(x), Grows(x), NEW k \in Conns,
           NEW p \in Ends, p = Peer(x), QuietInv(p, k), ListenInv(p, k),
           ~Before(p, k), ~Greets(p, k), Listens(x, k), Listens(x, k)',
           UNCHANGED <<waiting, attached, writer, written, localClosed>>,
           net'[k].up = net[k].up, net'[k].to[p] = net[k].to[p]
    PROVE  /\ QuietInv(p, k)' /\ GreetInv(p, k)' /\ ListenInv(p, k)' /\ GreetInv(x, k)'
           /\ ~Before(x, k)' /\ ~After(x, k)'
  <1>0. p # x /\ Peer(p) = x
    BY PeerEnd
  <1>t. PICK t \in Seq(Messages) : t = net[k].to[p]
    BY NumberFacts
  <1>1. ~Before(x, k)' /\ ~After(x, k)' /\ ~Greets(x, k)'
    <2>1. ~Before(x, k)
      BY NumberFacts, MaxConnsPositive DEF Before, TypeInv, LoopInv, LoopAt, Conns, Listens
    <2>. QED  BY <2>1 DEF LocalStep, Before, After, Listens, Greets
  <1>2. Talks(x, k)' <=> Talks(x, k)
    BY DEF Talks
  <1>3. QuietInv(p, k)'
    <2>1. /\ After(p, k) => ~net[k].up
          /\ Talks(x, k) => ~HasTag(t)
      BY <1>0, <1>t DEF QuietInv
    <2>. QED  BY <1>0, <1>1, <1>2, <1>t, <2>1, StillFacts DEF QuietInv
  <1>4. GreetInv(p, k)'
    BY StillFacts DEF GreetInv
  <1>5. GreetInv(x, k)'
    BY <1>1 DEF GreetInv
  <1>6. ListenInv(p, k)'
    <2>1. /\ rcvd'[p] = rcvd[p] /\ reader'[p] = reader[p] /\ acked'[p] = acked[p]
          /\ writer'[p] = writer[p] /\ (Talks(p, k)' <=> Talks(p, k))
          /\ (Listens(p, k)' <=> Listens(p, k)) /\ (Active(p, k)' <=> Active(p, k))
      BY StillFacts
    <2>2. Talks(x, k)' /\ Active(p, k)' => Len(rcvd'[p]) <= writer'[x].peer
      BY <1>0, <1>2, <2>1 DEF ListenInv
    <2>3. ASSUME NEW b, NEW a, EndsAt(x, k, t, b, a) PROVE EndsAt(x, k, t, b, a)'
      BY <1>2, <2>3 DEF EndsAt
    <2>4. ASSUME NEW a \in 0..Len(rcvd[x]) PROVE a \in 0..Len(rcvd'[x])
      <3>1. Len(rcvd[x]) \in Nat /\ Len(rcvd'[x]) \in Nat /\ Len(rcvd'[x]) >= Len(rcvd[x])
        BY NumberFacts, LenProperties DEF Grows, LocalStep, TypeInv, TypeOK
      <3>. QED  BY <3>1
    <2>5. CASE Listens(p, k)
      <3>1. /\ reader[p].data = Bytes(Len(rcvd[p]), Len(reader[p].data))
            /\ \E b \in 0..written[x], a \in 0..Len(rcvd[x]) :
                /\ Through(t, Len(rcvd[p]) + Len(reader[p].data), acked[p], b, a)
                /\ EndsAt(x, k, t, b, a)
                /\ Talks(p, k) => a <= writer[p].peer
        BY <1>0, <1>t, <2>5 DEF ListenInv
      <3>2. \E b \in 0..written'[x], a \in 0..Len(rcvd'[x]) :
                /\ Through(t, Len(rcvd'[p]) + Len(reader'[p].data), acked'[p], b, a)
                /\ EndsAt(x, k, t, b, a)'
                /\ Talks(p, k)' => a <= writer'[p].peer
        BY <2>1, <2>3, <2>4, <3>1
      <3>. QED  BY <1>0, <1>t, <2>1, <2>2, <3>1, <3>2 DEF ListenInv
    <2>6. CASE ~Listens(p, k)
      BY <1>0, <2>1, <2>2, <2>6 DEF ListenInv
    <2>. QED  BY <2>5, <2>6
  <1>. QED  BY <1>1, <1>3, <1>4, <1>5, <1>6

\* The head of a frame is read.
LEMMA FrameChannel ==
    ASSUME TypeInv, ChannelInv, NEW x \in Ends, ReadFrame(x), ~ReaderExit(x, Taken(net, x))
    PROVE  Grows(x) /\ ChannelInv'
  <1>k. PICK k \in Conns : k = attached[x]
    BY TypeFacts DEF ReadFrame
  <1>p. PICK p \in Ends : p = Peer(x)
    BY PeerEnd
  <1>s. PICK s \in Seq(Messages) : s = net[k].to[x]
    BY NumberFacts
  <1>1. /\ UNCHANGED <<written, rcvd, localClosed, waiting, attached, writer>>
        /\ reader[x].pc = "ack" /\ s # <<>> /\ Inbox(x) = s /\ net \in Nets
        /\ attached[x] = k /\ attached'[x] = k
    BY <1>k, <1>s, TypeFacts DEF ReadFrame, Inbox
  <1>2. LocalStep(x) /\ Grows(x)
    BY <1>1, InboxSteps, SteadyGrows
  <1>m. PICK m \in Messages : m = Head(s)
    BY <1>1, HeadTailProperties
  <1>d. PICK d \in Seq(Nat) : d = m.data
    BY DEF Messages
  <1>3. /\ net' = Taken(net, x)
        /\ acked'[x] = acked[x] + m.at
        /\ reader'[x].data = d /\ reader'[x].pc \in {"ack", "data"}
    <2>1. m.at <= SendLen(x)
      BY <1>1, <1>m DEF ReadFrame
    <2>2. acked' = [acked EXCEPT ![x] = acked[x] + m.at]
      BY <1>1, <1>m, <2>1 DEF ReadFrame
    <2>3. acked'[x] = acked[x] + m.at
      BY <2>2 DEF TypeInv, TypeOK
    <2>. DEFINE c == IF d = <<>> THEN "ack" ELSE "data"
                r == [pc |-> c, data |-> d]
    <2>4. reader' = [reader EXCEPT ![x] = r] /\ net' = Taken(net, x)
      BY <1>1, <1>d, <1>m DEF ReadFrame
    <2>5. c \in {"ack", "data"}
      OBVIOUS
    <2>. HIDE DEF c
    <2>6. r.pc \in {"ack", "data"} /\ r.data = d
      BY <2>5
    <2>. HIDE DEF r
    <2>7. reader'[x] = r
      BY <2>4 DEF TypeInv, TypeOK
    <2>. QED  BY <2>3, <2>4, <2>6, <2>7
  <1>4. /\ \A j \in Conns : net'[j].up = net[j].up
        /\ \A j \in Conns : j # k => net'[j] = net[j]
        /\ net'[k].to[p] = net[k].to[p]
        /\ net'[k].to[x] = Tail(s)
    BY <1>1, <1>3, <1>p, <1>s, TakenNet
  <1>5. Listens(x, k) /\ Listens(x, k)' /\ reader[x].data = <<>>
    BY <1>1, <1>3 DEF Listens, TypeInv, LoopInv, LoopAt
  <1>6. /\ QuietInv(x, k) /\ GreetInv(x, k) /\ ListenInv(x, k)
        /\ QuietInv(p, k) /\ GreetInv(p, k) /\ ListenInv(p, k)
    BY DEF ChannelInv, ChannelAt
  <1>7. ~Before(p, k) /\ ~Greets(p, k) /\ Peer(p) = x
    <2>1. Peer(p) = x
      BY <1>p, PeerEnd
    <2>. QED  BY <1>1, <1>5, <1>6, <1>p, <1>s, <2>1 DEF QuietInv, GreetInv
  <1>8. /\ QuietInv(p, k)' /\ GreetInv(p, k)' /\ ListenInv(p, k)' /\ GreetInv(x, k)'
        /\ ~Before(x, k)' /\ ~After(x, k)'
    BY <1>1, <1>2, <1>4, <1>5, <1>6, <1>7, <1>p, ReadingPeer
  <1>9. QuietInv(x, k)'
    <2>1. /\ Talks(p, k) \/ Greets(p, k) => ~HasTag(s)
          /\ HasTag(Tail(s)) => HasTag(s)
      BY <1>1, <1>6, <1>p, <1>s, TailFacts DEF QuietInv
    <2>. QED  BY <1>2, <1>4, <1>7, <1>8, <1>p, <2>1, StillFacts DEF QuietInv
  <1>10. ListenInv(x, k)'
    <2>1. /\ m.data = Bytes(Len(rcvd[x]), Len(m.data))
          /\ \E b \in 0..written[p], a \in 0..Len(rcvd[p]) :
                /\ Through(Tail(s), Len(rcvd[x]) + Len(m.data), acked[x] + m.at, b, a)
                /\ EndsAt(p, k, Tail(s), b, a)
                /\ Talks(x, k) => a <= writer[x].peer
      BY <1>1, <1>5, <1>6, <1>m, <1>p, <1>s, HeadFacts
    <2>2. ASSUME NEW b, NEW a, EndsAt(p, k, Tail(s), b, a) PROVE EndsAt(p, k, Tail(s), b, a)'
      BY <1>2, <1>4, <1>p, <2>2, StillFacts DEF EndsAt
    <2>3. /\ rcvd'[p] = rcvd[p] /\ written'[p] = written[p] /\ writer'[p] = writer[p]
          /\ (Talks(p, k)' <=> Talks(p, k)) /\ (Talks(x, k)' <=> Talks(x, k))
          /\ rcvd'[x] = rcvd[x] /\ writer'[x] = writer[x]
      BY <1>1, <1>2, <1>p, StillFacts DEF Talks
    <2>4. \E b \in 0..written'[p], a \in 0..Len(rcvd'[p]) :
                /\ Through(Tail(s), Len(rcvd'[x]) + Len(d), acked'[x], b, a)
                /\ EndsAt(p, k, Tail(s), b, a)'
                /\ Talks(x, k)' => a <= writer'[x].peer
      BY <1>3, <1>d, <2>1, <2>2, <2>3
    <2>5. Talks(p, k)' => Len(rcvd'[x]) <= writer'[p].peer
      BY <1>5, <1>6, <1>p, <2>3 DEF ListenInv, Active
    <2>. QED  BY <1>3, <1>4, <1>d, <1>p, <2>1, <2>3, <2>4, <2>5 DEF ListenInv
  <1>. QED  BY <1>1, <1>2, <1>4, <1>8, <1>9, <1>10, <1>p, ChannelRule

\* A part of the data of a frame is read.
LEMMA DataChannel ==
    ASSUME TypeInv, ChannelInv, NEW x \in Ends, ReadData(x)
    PROVE  Grows(x) /\ ChannelInv'
  <1>k. PICK k \in Conns : k = attached[x]
    BY TypeFacts DEF ReadData
  <1>p. PICK p \in Ends : p = Peer(x)
    BY PeerEnd
  <1>d. PICK d \in Seq(Nat) : d = reader[x].data
    BY NumberFacts
  <1>1. /\ UNCHANGED <<written, acked, localClosed, waiting, attached, writer, net>>
        /\ reader[x].pc = "data" /\ attached[x] = k /\ attached'[x] = k
    BY <1>k DEF ReadData
  <1>n. PICK n \in 1..Len(d) :
            /\ Receive(x, n)
            /\ reader' = [reader EXCEPT ![x] =
                  IF n = Len(@.data) THEN [Idle EXCEPT !.pc = "ack"]
                  ELSE [pc |-> "data", data |-> SubSeq(@.data, n + 1, Len(@.data))]]
    BY <1>d, Zenon DEF ReadData
  <1>l. PICK l \in Nat : l = Len(d)
    BY LenProperties
  <1>r. PICK r \in Nat : r = Len(rcvd[x])
    BY NumberFacts
  <1>2. n \in Nat /\ n <= l /\ l - n \in Nat /\ n \in 0..Len(d)
    BY <1>l
  <1>3. Len(rcvd'[x]) = r + n
    <2>1. n \in 0..Len(reader[x].data)
      BY <1>2, <1>d, Zenon
    <2>2. Len(rcvd'[x]) = Len(rcvd[x]) + n
      BY <1>n, <2>1, ReceiveFacts
    <2>. QED  BY <2>2, <1>r
  <1>5. Listens(x, k)
    BY <1>1 DEF Listens
  <1>6. /\ QuietInv(x, k) /\ GreetInv(x, k) /\ ListenInv(x, k)
        /\ QuietInv(p, k) /\ GreetInv(p, k) /\ ListenInv(p, k)
    BY DEF ChannelInv, ChannelAt
  <1>7. /\ r + l <= written[p] /\ d = Bytes(r, l)
        /\ Talks(p, k) => r + l <= writer[p].peer
    BY <1>5, <1>6, <1>d, <1>l, <1>p, <1>r, ReadFacts, Zenon
  <1>u. PICK u \in Seq(Nat) : /\ u = reader'[x].data /\ u = Bytes(r + n, Len(u)) /\ Len(u) = l - n
                              /\ reader'[x].pc \in {"ack", "data"}
    <2>. DEFINE r1 == [Idle EXCEPT !.pc = "ack"]
                q == SubSeq(d, n + 1, Len(d))
                r2 == [pc |-> "data", data |-> q]
    <2>1. reader' = [reader EXCEPT ![x] = IF n = l THEN r1 ELSE r2]
      BY <1>d, <1>l, <1>n
    <2>2. q \in Seq(Nat) /\ q = Bytes(r + n, l - n) /\ Len(q) = l - n
      <3>1. d = Bytes(r, Len(d))
        BY <1>7, <1>l
      <3>2. SubSeq(d, n + 1, Len(d)) = Bytes(r + n, Len(d) - n) /\ Len(q) = Len(d) - n
        BY <1>2, <3>1, BytesCut
      <3>3. q \in Seq(Nat)
        BY <1>2, <1>l, SubSeqProperties
      <3>. QED  BY <1>l, <3>2, <3>3
    <2>3. r1.pc = "ack" /\ r1.data = <<>>
      BY DEF Idle
    <2>. HIDE DEF q
    <2>4. r2.pc = "data" /\ r2.data = q
      OBVIOUS
    <2>. HIDE DEF r1, r2
    <2>5. reader'[x] = IF n = l THEN r1 ELSE r2
      BY <2>1 DEF TypeInv, TypeOK
    <2>6. CASE n = l
      <3>1. PICK v \in Seq(Nat) : v = <<>>
        BY EmptySeq
      <3>2. Len(v) = 0 /\ Bytes(r + n, 0) = v /\ l - n = 0
        <4>1. Len(v) = 0
          BY <3>1, EmptySeq
        <4>2. Bytes(r + n, 0) \in Seq(Nat) /\ Len(Bytes(r + n, 0)) = 0
          BY <1>2, SeqDef, LenProperties DEF Bytes
        <4>3. l - n = 0
          BY <2>6, <1>2
        <4>. QED  BY <3>1, <4>1, <4>2, <4>3, EmptySeq
      <3>. QED  BY <2>3, <2>5, <2>6, <3>1, <3>2
    <2>7. CASE n # l
      BY <2>2, <2>4, <2>5, <2>7
    <2>. QED  BY <2>6, <2>7
  <1>8. LocalStep(x) /\ Grows(x)
    <2>1. Len(rcvd'[x]) >= Len(rcvd[x])
      BY <1>2, <1>3, <1>r
    <2>2. written'[x] >= written[x]
      BY <1>1, NumberFacts
    <2>. QED  BY <1>1, <2>1, <2>2, DataSteps DEF Grows
  <1>9. Listens(x, k)'
    BY <1>1, <1>u DEF Listens
  <1>10. ~Before(p, k) /\ ~Greets(p, k) /\ Peer(p) = x
    <2>1. Peer(p) = x
      BY <1>p, PeerEnd
    <2>. QED  BY <1>1, <1>5, <1>6, <2>1 DEF QuietInv, GreetInv
  <1>11. /\ QuietInv(p, k)' /\ GreetInv(p, k)' /\ ListenInv(p, k)' /\ GreetInv(x, k)'
         /\ ~Before(x, k)' /\ ~After(x, k)'
    BY <1>1, <1>5, <1>6, <1>8, <1>9, <1>10, <1>p, ReadingPeer
  <1>12. QuietInv(x, k)'
    <2>1. Talks(p, k) \/ Greets(p, k) => ~HasTag(net[k].to[x])
      BY <1>6, <1>p DEF QuietInv
    <2>. QED  BY <1>1, <1>8, <1>10, <1>11, <1>p, <2>1, StillFacts DEF QuietInv
  <1>13. ListenInv(x, k)'
    <2>s. PICK s \in Seq(Messages) : s = net[k].to[x]
      BY NumberFacts
    <2>1. \E b \in 0..written[p], a \in 0..Len(rcvd[p]) :
                /\ Through(s, r + l, acked[x], b, a)
                /\ EndsAt(p, k, s, b, a)
                /\ Talks(x, k) => a <= writer[x].peer
      BY <1>5, <1>6, <1>d, <1>l, <1>p, <1>r, <2>s, Zenon DEF ListenInv
    <2>2. ASSUME NEW b, NEW a, EndsAt(p, k, s, b, a) PROVE EndsAt(p, k, s, b, a)'
      BY <1>1, <1>8, <1>p, <2>2, StillFacts DEF EndsAt
    <2>3. /\ rcvd'[p] = rcvd[p] /\ written'[p] = written[p] /\ writer'[p] = writer[p]
          /\ (Talks(p, k)' <=> Talks(p, k)) /\ (Talks(x, k)' <=> Talks(x, k))
          /\ acked'[x] = acked[x] /\ writer'[x] = writer[x]
      BY <1>1, <1>8, <1>p, StillFacts DEF Talks
    <2>4. Len(rcvd'[x]) + Len(u) = r + l
      BY <1>2, <1>3, <1>u
    <2>5. \E b \in 0..written'[p], a \in 0..Len(rcvd'[p]) :
                /\ Through(s, Len(rcvd'[x]) + Len(u), acked'[x], b, a)
                /\ EndsAt(p, k, s, b, a)'
                /\ Talks(x, k)' => a <= writer'[x].peer
      BY <2>1, <2>2, <2>3, <2>4
    <2>6. Talks(p, k)' => Len(rcvd'[x]) <= writer'[p].peer
      <3>1. writer[p].peer \in Nat
        BY NumberFacts
      <3>. QED  BY <1>2, <1>3, <1>7, <2>3, <3>1
    <2>7. u = Bytes(Len(rcvd'[x]), Len(u))
      BY <1>3, <1>u
    <2>. QED  BY <1>1, <1>p, <1>u, <2>3, <2>5, <2>6, <2>7, <2>s DEF ListenInv
  <1>. QED  BY <1>1, <1>8, <1>11, <1>12, <1>13, <1>p, ChannelRule

-------------------------------------------------------------------------------
(* The write loop *)

\* The write loop sends a frame, or the tag that ends the stream, from where it is.
LEMMA SendChannel ==
    ASSUME TypeInv, ChannelInv, NEW x \in Ends, LocalStep(x), NEW k \in Conns, k = attached[x],
           UNCHANGED <<written, acked, rcvd, localClosed, waiting, attached, reader>>,
           NEW m \in Messages,
           \A j \in Conns : net'[j].up = net[j].up,
           \A j \in Conns : j # k => net'[j] = net[j],
           net'[k].to[x] = net[k].to[x],
           ~net[k].up => net' = net,
           net[k].up => net'[k].to[Peer(x)] = Append(net[k].to[Peer(x)], m),
           m.kind \in {"frame", "errorTag"}, m.kind = "errorTag" => m.data = <<>>,
           NEW z \in Nat, z = Len(m.data), m.data = Bytes(writer[x].peer, z),
           Talks(x, k), m.at = writer[x].ack, writer[x].peer + z <= written[x],
           InOrder /\ m.kind = "errorTag" => localClosed[x] /\ writer[x].peer + z = written[x],
           writer'[x].pc # "off" =>
                /\ m.kind = "frame" /\ writer'[x].ack = 0
                /\ writer'[x].peer = writer[x].peer + z
                /\ writer'[x].local = writer[x].local + m.at
    PROVE  Grows(x) /\ ChannelInv'
  <1>p. PICK p \in Ends : p = Peer(x)
    BY PeerEnd
  <1>t. PICK t \in Seq(Messages) : t = net[k].to[p]
    BY NumberFacts
  <1>u. PICK u \in Seq(Messages) : u = net'[k].to[p]
    BY NextMessages DEF LocalStep
  <1>q. PICK q \in Nat : q = writer[x].peer
    BY NumberFacts
  <1>l. PICK l \in Nat : l = writer[x].local
    BY NumberFacts
  <1>g. PICK g \in Nat : g = m.at
    BY DEF Messages
  <1>0. p # x /\ Peer(p) = x /\ Ends = {x, p} /\ net \in Nets
    BY <1>p, PeerEnd, TypeFacts
  <1>1. /\ \A j \in Conns : net'[j].up = net[j].up
        /\ \A j \in Conns : j # k => net'[j] = net[j]
        /\ net'[k].to[x] = net[k].to[x]
        /\ u = IF net[k].up THEN Append(t, m) ELSE t
    <2>2. u = IF net[k].up THEN Append(t, m) ELSE t
      <3>1. CASE net[k].up
        <4>1. u = Append(t, m)
          BY <1>p, <1>t, <1>u, <3>1, Zenon
        <4>. QED  BY <3>1, <4>1
      <3>2. CASE ~net[k].up
        <4>1. u = t
          BY <1>p, <1>t, <1>u, <3>2, Zenon
        <4>. QED  BY <3>2, <4>1
      <3>. QED  BY <3>1, <3>2
    <2>. QED  BY <2>2
  <1>2. /\ Grows(x) /\ attached'[x] = k /\ attached[x] = k
        /\ rcvd'[x] = rcvd[x] /\ waiting'[x] = waiting[x] /\ written'[x] = written[x]
        /\ reader'[x] = reader[x] /\ acked'[x] = acked[x]
    BY SteadyGrows
  <1>3. /\ QuietInv(x, k) /\ GreetInv(x, k) /\ ListenInv(x, k)
        /\ QuietInv(p, k) /\ GreetInv(p, k) /\ ListenInv(p, k)
    BY DEF ChannelInv, ChannelAt
  <1>n. /\ Len(rcvd[x]) \in Nat /\ Len(rcvd[p]) \in Nat /\ written[x] \in Nat
        /\ writer[p].peer \in Nat
    BY NumberFacts
  <1>4. /\ ~Before(x, k) /\ ~Before(x, k)' /\ ~After(x, k)' /\ ~Greets(x, k) /\ ~Greets(x, k)'
        /\ Listens(x, k)' <=> Listens(x, k)
        /\ Active(x, k) /\ ~Before(p, k)
        /\ l + g <= Len(rcvd[x])
    <2>1. ~Before(x, k)
      BY NumberFacts, MaxConnsPositive DEF Before, TypeInv, LoopInv, LoopAt, Conns
    <2>2. ~Before(x, k)'
      BY <2>1 DEF Before, LocalStep
    <2>3. ~Greets(x, k)
      BY DEF Talks, Greets, TypeInv, LoopInv, LoopAt
    <2>4. ~Before(p, k)
      BY <1>0, <1>3 DEF QuietInv
    <2>5. g + l <= Len(rcvd[x])
      BY <1>g, <1>l DEF TypeInv, LoopInv, LoopAt
    <2>6. l + g <= Len(rcvd[x])
      BY <1>n, <2>5
    <2>. QED  BY <1>2, <2>1, <2>2, <2>3, <2>4, <2>6 DEF After, Greets, Listens, Active
  <1>5. /\ ~HasTag(t) /\ (After(p, k) => ~net[k].up)
        /\ HasTag(u) => m.kind = "errorTag" /\ net[k].up
    <2>1. ~HasTag(t) /\ (After(p, k) => ~net[k].up)
      BY <1>0, <1>3, <1>t DEF QuietInv
    <2>2. HasTag(Append(t, m)) => HasTag(t) \/ m.kind = "errorTag"
      BY AppendFacts
    <2>. QED  BY <1>1, <2>1, <2>2
  <1>6. /\ Talks(x, k)' => m.kind = "frame" /\ writer'[x].ack = 0
        /\ Talks(x, k)' => writer'[x].peer = q + z /\ writer'[x].local = l + g
    BY <1>g, <1>l, <1>q DEF Talks
  <1>7. ASSUME NEW b \in Nat, NEW a \in Nat, b <= q, a <= l, net[k].up => b = q /\ a = l,
               NEW y \in Seq(Messages), NEW b0 \in Nat, NEW a0 \in Nat,
               Through(y, b0, a0, b, a), ~HasTag(y)
        PROVE  \E j, i \in Nat :
                    /\ Through(IF net[k].up THEN Append(y, m) ELSE y, b0, a0, j, i)
                    /\ EndsAt(x, k, u, j, i)'
                    /\ j <= q + z /\ i = a + (IF net[k].up THEN g ELSE 0)
    <2>1. CASE net[k].up
      <3>1. m.data = Bytes(b, Len(m.data)) /\ b = q /\ a = l
        BY <1>7, <1>q, <2>1
      <3>2. Through(Append(y, m), b0, a0, b + Len(m.data), a + m.at)
        BY <1>7, <3>1, ThroughAppend
      <3>3. b + Len(m.data) = q + z /\ a + m.at = l + g
        BY <1>g, <3>1
      <3>4. EndsAt(x, k, u, q + z, l + g)'
        BY <1>2, <1>5, <1>6, <1>q DEF EndsAt
      <3>5. q + z \in Nat /\ l + g \in Nat
        OBVIOUS
      <3>. QED  BY <2>1, <3>1, <3>2, <3>3, <3>4, <3>5
    <2>2. CASE ~net[k].up
      <3>1. b <= q + z /\ a <= l + g /\ a = a + 0
        BY <1>7
      <3>2. EndsAt(x, k, u, b, a)'
        BY <1>1, <1>5, <1>6, <2>2, <3>1 DEF EndsAt
      <3>. QED  BY <1>7, <2>2, <3>1, <3>2
    <2>. QED  BY <2>1, <2>2
  <1>8. ASSUME NEW b, NEW a, NEW s, EndsAt(x, k, s, b, a)
        PROVE  b <= q /\ a <= l /\ (net[k].up => b = q /\ a = l)
    BY <1>8, <1>l, <1>q DEF EndsAt
  <1>9. QuietInv(x, k)'
    <2>1. Talks(p, k) \/ Greets(p, k) => ~HasTag(net[k].to[x])
      BY <1>3, <1>p DEF QuietInv
    <2>. QED  BY <1>1, <1>4, <1>p, <2>1, StillFacts DEF QuietInv
  <1>10. GreetInv(x, k)'
    BY <1>4 DEF GreetInv
  <1>11. ListenInv(x, k)'
    <2>s. PICK s \in Seq(Messages) : s = net[k].to[x]
      BY NumberFacts
    <2>1. ASSUME NEW b, NEW a, EndsAt(p, k, s, b, a) PROVE EndsAt(p, k, s, b, a)'
      BY <1>1, <1>p, <2>1, StillFacts DEF EndsAt
    <2>2. /\ rcvd'[p] = rcvd[p] /\ written'[p] = written[p] /\ writer'[p] = writer[p]
          /\ (Talks(p, k)' <=> Talks(p, k))
      BY <1>p, StillFacts
    <2>3. Talks(p, k)' => Len(rcvd'[x]) <= writer'[p].peer
      BY <1>2, <1>3, <1>4, <1>p, <2>2 DEF ListenInv
    <2>4. CASE Listens(x, k)
      <3>1. /\ reader[x].data = Bytes(Len(rcvd[x]), Len(reader[x].data))
            /\ \E b \in 0..written[p], a \in 0..Len(rcvd[p]) :
                /\ Through(s, Len(rcvd[x]) + Len(reader[x].data), acked[x], b, a)
                /\ EndsAt(p, k, s, b, a)
                /\ a <= q
        BY <1>3, <1>p, <1>q, <2>4, <2>s DEF ListenInv
      <3>2. ASSUME NEW a \in 0..Len(rcvd[p]), a <= q PROVE Talks(x, k)' => a <= writer'[x].peer
        BY <1>6, <3>2
      <3>3. \E b \in 0..written'[p], a \in 0..Len(rcvd'[p]) :
                /\ Through(s, Len(rcvd'[x]) + Len(reader'[x].data), acked'[x], b, a)
                /\ EndsAt(p, k, s, b, a)'
                /\ Talks(x, k)' => a <= writer'[x].peer
        BY <1>2, <2>1, <2>2, <3>1, <3>2
      <3>. QED  BY <1>1, <1>2, <1>p, <2>3, <2>s, <3>1, <3>3 DEF ListenInv
    <2>5. CASE ~Listens(x, k)
      BY <1>4, <1>p, <2>3, <2>5 DEF ListenInv
    <2>. QED  BY <2>4, <2>5
  <1>12. QuietInv(p, k)'
    BY <1>0, <1>1, <1>4, <1>5, <1>6, <1>p, <1>u, StillFacts DEF QuietInv
  <1>13. GreetInv(p, k)'
    <2>1. CASE Greets(p, k)
      <3>1. /\ IF t = <<>> THEN ~net[k].up ELSE t[1].at = Len(rcvd[x])
            /\ t # <<>> => t[1].kind = "position" /\ t[1].at <= Len(rcvd[x])
            /\ t # <<>> => \E b \in 0..written[x] :
                    /\ Through(Tail(t), Len(rcvd[p]), t[1].at, b, t[1].at)
                    /\ EndsAt(x, k, t, b, t[1].at)
            /\ Listens(x, k) =>
                    net[k].to[x] = <<>> /\ reader[x].pc = "ack" /\ acked[x] = Len(rcvd[p])
            /\ l = Len(rcvd[x]) /\ g = 0
        BY <1>0, <1>3, <1>4, <1>g, <1>l, <1>t, <2>1 DEF GreetInv
      <3>2. /\ u = <<>> => ~net[k].up
            /\ u # <<>> => t # <<>> /\ u[1] = t[1]
            /\ u # <<>> => Tail(u) = IF net[k].up THEN Append(Tail(t), m) ELSE Tail(t)
        BY <1>1, <3>1, AppendFacts
      <3>3. ASSUME u # <<>>
            PROVE  \E b \in 0..written[x] :
                    /\ Through(Tail(u), Len(rcvd[p]), u[1].at, b, u[1].at)
                    /\ EndsAt(x, k, u, b, u[1].at)'
        <4>1. t # <<>> /\ Tail(t) \in Seq(Messages) /\ ~HasTag(Tail(t))
          BY <1>5, <3>2, <3>3, TailFacts
        <4>a. PICK a \in Nat : a = t[1].at
          BY <1>n, <3>1, <4>1
        <4>2. PICK b \in 0..written[x] : /\ Through(Tail(t), Len(rcvd[p]), a, b, a)
                                         /\ EndsAt(x, k, t, b, a)
          BY <3>1, <4>1, <4>a
        <4>3. b \in Nat /\ b <= q /\ a <= l /\ (net[k].up => b = q /\ a = l)
          BY <1>8, <1>n, <4>2
        <4>4. PICK j \in Nat : \E i \in Nat :
                /\ Through(IF net[k].up THEN Append(Tail(t), m) ELSE Tail(t), Len(rcvd[p]), a, j, i)
                /\ EndsAt(x, k, u, j, i)'
                /\ j <= q + z /\ i = a + (IF net[k].up THEN g ELSE 0)
          <5>y. PICK y \in Seq(Messages) : y = Tail(t)
            BY <4>1
          <5>r. PICK r \in Nat : r = Len(rcvd[p])
            BY <1>n
          <5>1. Through(y, r, a, b, a) /\ ~HasTag(y)
            BY <4>1, <4>2, <5>r, <5>y
          <5>2. \E j, i \in Nat :
                    /\ Through(IF net[k].up THEN Append(y, m) ELSE y, r, a, j, i)
                    /\ EndsAt(x, k, u, j, i)'
                    /\ j <= q + z /\ i = a + (IF net[k].up THEN g ELSE 0)
            BY <1>7, <4>3, <5>1
          <5>. QED  BY <5>2, <5>r, <5>y
        <4>5. PICK i \in Nat :
                /\ Through(IF net[k].up THEN Append(Tail(t), m) ELSE Tail(t), Len(rcvd[p]), a, j, i)
                /\ EndsAt(x, k, u, j, i)'
                /\ j <= q + z /\ i = a + (IF net[k].up THEN g ELSE 0)
          BY <4>4
        <4>6. i = a
          BY <3>1, <4>5
        <4>7. j \in 0..written[x]
          BY <1>n, <1>q, <4>5
        <4>. QED  BY <3>2, <3>3, <4>5, <4>6, <4>7, <4>a
      <3>4. /\ rcvd'[p] = rcvd[p] /\ Greets(p, k)' /\ ~Before(p, k)'
        BY <1>4, <1>p, <2>1, StillFacts
      <3>5. Talks(x, k)' => writer'[x].local = Len(rcvd'[x]) /\ writer'[x].ack = 0
        <4>1. l + g = Len(rcvd[x])
          BY <3>1
        <4>. QED  BY <1>2, <1>6, <4>1
      <3>6. IF u = <<>> THEN ~net'[k].up ELSE u[1].at = Len(rcvd'[x])
        BY <1>1, <1>2, <3>1, <3>2
      <3>7. u # <<>> => u[1].kind = "position" /\ u[1].at <= Len(rcvd'[x])
        BY <1>2, <3>1, <3>2
      <3>8. Listens(x, k)' =>
                net'[k].to[x] = <<>> /\ reader'[x].pc = "ack" /\ acked'[x] = Len(rcvd'[p])
        BY <1>1, <1>2, <1>4, <3>1, <3>4
      <3>. QED  BY <1>0, <1>2, <1>4, <1>u, <3>3, <3>4, <3>5, <3>6, <3>7, <3>8 DEF GreetInv
    <2>2. CASE ~Greets(p, k)
      BY <1>4, <1>p, <2>2, StillFacts DEF GreetInv
    <2>. QED  BY <2>1, <2>2
  <1>14. ListenInv(p, k)'
    <2>1. /\ rcvd'[p] = rcvd[p] /\ reader'[p] = reader[p] /\ acked'[p] = acked[p]
          /\ writer'[p] = writer[p] /\ (Talks(p, k)' <=> Talks(p, k))
          /\ (Listens(p, k)' <=> Listens(p, k)) /\ (Active(p, k)' <=> Active(p, k))
      BY <1>p, StillFacts
    <2>2. Talks(x, k)' /\ Active(p, k)' => Len(rcvd'[p]) <= writer'[x].peer
      <3>1. Active(p, k) => Len(rcvd[p]) <= q
        BY <1>0, <1>3, <1>q DEF ListenInv
      <3>2. Active(p, k) => Len(rcvd[p]) <= q + z
        BY <1>n, <3>1
      <3>. QED  BY <1>6, <2>1, <3>2
    <2>3. CASE Listens(p, k)
      <3>d. PICK d \in Nat : d = Len(rcvd[p]) + Len(reader[p].data)
        <4>v. PICK v \in Seq(Nat) : v = reader[p].data
          BY NumberFacts
        <4>1. Len(rcvd[p]) + Len(v) \in Nat
          BY <1>n, LenProperties
        <4>. QED  BY <4>v, <4>1, Zenon
      <3>c. PICK c \in Nat : c = acked[p]
        BY NumberFacts
      <3>1. /\ reader[p].data = Bytes(Len(rcvd[p]), Len(reader[p].data))
            /\ \E b \in 0..written[x], a \in 0..Len(rcvd[x]) :
                /\ Through(t, d, c, b, a)
                /\ EndsAt(x, k, t, b, a)
                /\ Talks(p, k) => a <= writer[p].peer
        BY <1>0, <1>3, <1>t, <2>3, <3>c, <3>d, Zenon DEF ListenInv
      <3>2. PICK b \in 0..written[x] : \E a \in 0..Len(rcvd[x]) :
                /\ Through(t, d, c, b, a)
                /\ EndsAt(x, k, t, b, a)
                /\ Talks(p, k) => a <= writer[p].peer
        BY <3>1
      <3>3. PICK a \in 0..Len(rcvd[x]) :
                /\ Through(t, d, c, b, a)
                /\ EndsAt(x, k, t, b, a)
                /\ Talks(p, k) => a <= writer[p].peer
        BY <3>2
      <3>4. /\ b \in Nat /\ a \in Nat /\ b <= q /\ a <= l /\ (net[k].up => b = q /\ a = l)
        BY <1>8, <1>n, <3>3
      <3>5. PICK j \in Nat : \E i \in Nat :
                /\ Through(u, d, c, j, i)
                /\ EndsAt(x, k, u, j, i)'
                /\ j <= q + z /\ i = a + (IF net[k].up THEN g ELSE 0)
        <4>1. \E j, i \in Nat :
                /\ Through(IF net[k].up THEN Append(t, m) ELSE t, d, c, j, i)
                /\ EndsAt(x, k, u, j, i)'
                /\ j <= q + z /\ i = a + (IF net[k].up THEN g ELSE 0)
          BY <1>5, <1>7, <3>3, <3>4
        <4>2. u = IF net[k].up THEN Append(t, m) ELSE t
          BY <1>1
        <4>. QED  BY <4>1, <4>2
      <3>6. PICK i \in Nat :
                /\ Through(u, d, c, j, i)
                /\ EndsAt(x, k, u, j, i)'
                /\ j <= q + z /\ i = a + (IF net[k].up THEN g ELSE 0)
        BY <3>5
      <3>7. j \in 0..written'[x]
        <4>1. j \in Nat /\ j <= q + z
          BY <3>6
        <4>. QED  BY <1>2, <1>n, <1>q, <4>1
      <3>8. i <= Len(rcvd[x])
        <4>1. CASE net[k].up
          BY <1>4, <3>4, <3>6, <4>1
        <4>2. CASE ~net[k].up
          BY <1>n, <3>6, <4>2
        <4>. QED  BY <4>1, <4>2
      <3>9. i \in 0..Len(rcvd'[x])
        BY <1>2, <1>n, <3>8
      <3>10. Talks(p, k)' => i <= writer'[p].peer
        <4>1. Talks(p, k) => Len(rcvd[x]) <= writer[p].peer
          BY <1>3, <1>4, <1>p DEF ListenInv
        <4>2. Talks(p, k) => i <= writer[p].peer
          BY <1>n, <3>8, <4>1
        <4>. QED  BY <2>1, <4>2
      <3>11. Through(u, Len(rcvd'[p]) + Len(reader'[p].data), acked'[p], j, i)
        BY <2>1, <3>6, <3>c, <3>d, Zenon
      <3>12. \E b1 \in 0..written'[x], a1 \in 0..Len(rcvd'[x]) :
                /\ Through(u, Len(rcvd'[p]) + Len(reader'[p].data), acked'[p], b1, a1)
                /\ EndsAt(x, k, u, b1, a1)'
                /\ Talks(p, k)' => a1 <= writer'[p].peer
        BY <3>6, <3>7, <3>9, <3>10, <3>11, Zenon
      <3>. QED  BY <1>0, <1>u, <2>1, <2>2, <3>1, <3>12 DEF ListenInv
    <2>4. CASE ~Listens(p, k)
      BY <1>0, <2>1, <2>2, <2>4 DEF ListenInv
    <2>. QED  BY <2>3, <2>4
  <1>. QED  BY <1>1, <1>2, <1>9, <1>10, <1>11, <1>12, <1>13, <1>14, <1>p, ChannelRule

\* The write loop: it takes a frame, sends it, or ends the stream.
LEMMA WritingChannel ==
    ASSUME TypeInv, ChannelInv, SendInv, NEW x \in Ends,
           ChooseFrame(x) \/ WriteFrame(x) \/ WriteErrorTag(x)
    PROVE  Grows(x) /\ ChannelInv'
  <1>0. /\ UNCHANGED <<written, acked, rcvd, localClosed, waiting, attached, reader>>
        /\ LocalStep(x) /\ net \in Nets /\ Peer(x) \in Ends
    BY WritingSteps, TypeFacts, PeerEnd
       DEF Writing, ChooseFrame, WriteFrame, WriteErrorTag, buffers
  <1>k. PICK k \in Conns : k = attached[x]
    BY WriterFacts DEF Writing
  <1>1. Talks(x, k)
    BY <1>k DEF Talks, ChooseFrame, WriteFrame, WriteErrorTag
  <1>n. /\ writer[x].peer \in Nat /\ writer[x].size \in Nat /\ writer[x].ack \in Nat
        /\ writer[x].local \in Nat /\ Len(rcvd[x]) \in Nat /\ written[x] \in Nat
    BY NumberFacts
  <1>2. writer[x].peer + writer[x].size <= written[x]
    BY <1>1 DEF SendInv, Talks
  <1>3. ASSUME NEW m \in Messages, net' = Sent(x, k, m)
        PROVE  /\ \A j \in Conns : net'[j].up = net[j].up
               /\ \A j \in Conns : j # k => net'[j] = net[j]
               /\ net'[k].to[x] = net[k].to[x]
               /\ ~net[k].up => net' = net
               /\ net[k].up => net'[k].to[Peer(x)] = Append(net[k].to[Peer(x)], m)
    BY <1>0, <1>3, SentNet
  <1>4. CASE WriteFrame(x)
    <2>q. PICK q \in Nat : q = writer[x].peer
      BY <1>n
    <2>z. PICK z \in Nat : z = writer[x].size
      BY <1>n
    <2>d. PICK d \in Seq(Nat) : d = Bytes(q, z) /\ Len(d) = z
      <3>1. Bytes(q, z) \in Seq(Nat) /\ Len(Bytes(q, z)) = z
        BY SeqDef, LenProperties DEF Bytes
      <3>. QED  BY <3>1
    <2>m. PICK m \in Messages : m = Frame(writer[x].ack, d)
      BY <1>n DEF Frame, Messages
    <2>1. m.kind = "frame" /\ m.at = writer[x].ack /\ m.data = d
      BY <2>m DEF Frame
    <2>2. net' = Sent(x, k, m)
      BY <1>4, <1>k, <2>d, <2>m, <2>q, <2>z DEF WriteFrame
    <2>3. /\ \A j \in Conns : net'[j].up = net[j].up
          /\ \A j \in Conns : j # k => net'[j] = net[j]
          /\ net'[k].to[x] = net[k].to[x]
          /\ ~net[k].up => net' = net
          /\ net[k].up => net'[k].to[Peer(x)] = Append(net[k].to[Peer(x)], m)
      BY <1>3, <2>2, Zenon
    <2>4. /\ z = Len(m.data) /\ m.data = Bytes(writer[x].peer, z)
          /\ writer[x].peer + z <= written[x]
      BY <1>2, <2>1, <2>d, <2>q, <2>z
    <2>5. /\ writer'[x].ack = 0 /\ writer'[x].peer = writer[x].peer + z
          /\ writer'[x].local = writer[x].local + m.at
      BY <1>4, <2>1, <2>z, WriterFacts DEF Writing
    <2>6. m.kind \in {"frame", "errorTag"} /\ m.kind # "errorTag"
      BY <2>1
    <2>. QED  BY <1>0, <1>1, <1>k, <2>1, <2>3, <2>4, <2>5, <2>6, SendChannel
  <1>5. CASE WriteErrorTag(x)
    <2>z. PICK z \in Nat : z = 0
      OBVIOUS
    <2>m. PICK m \in Messages : m = ErrorTag
      BY EmptySeq DEF ErrorTag, Messages
    <2>1. m.kind = "errorTag" /\ m.at = 0 /\ m.data = <<>>
      BY <2>m DEF ErrorTag
    <2>2. net' = Sent(x, k, m) /\ writer'[x].pc = "off"
      BY <1>5, <1>k, <2>m DEF WriteErrorTag, WriterExit, NoWriter, TypeInv, TypeOK
    <2>3. /\ \A j \in Conns : net'[j].up = net[j].up
          /\ \A j \in Conns : j # k => net'[j] = net[j]
          /\ net'[k].to[x] = net[k].to[x]
          /\ ~net[k].up => net' = net
          /\ net[k].up => net'[k].to[Peer(x)] = Append(net[k].to[Peer(x)], m)
      BY <1>3, <2>2, Zenon
    <2>4. z = Len(m.data) /\ m.data = Bytes(writer[x].peer, z)
      <3>1. Bytes(writer[x].peer, 0) \in Seq(Nat) /\ Len(Bytes(writer[x].peer, 0)) = 0
        BY <1>n, SeqDef, LenProperties DEF Bytes
      <3>2. Bytes(writer[x].peer, 0) = <<>>
        BY <3>1, EmptySeq
      <3>. QED  BY <2>1, <2>z, <3>2, EmptySeq
    <2>5. writer[x].ack = 0 /\ writer[x].size = 0
      BY <1>5 DEF WriteErrorTag, TypeInv, LoopInv, LoopAt
    <2>6. localClosed[x] /\ writer[x].peer + z = written[x]
      <3>1. localClosed[x] /\ written[x] - writer[x].peer = 0
        BY <1>5 DEF WriteErrorTag, ToSend
      <3>. QED  BY <1>n, <2>z, <3>1
    <2>7. writer[x].peer + z <= written[x] /\ m.at = writer[x].ack
      BY <1>n, <2>1, <2>5, <2>6
    <2>8. m.kind \in {"frame", "errorTag"}
      BY <2>1
    <2>. QED  BY <1>0, <1>1, <1>k, <2>1, <2>2, <2>3, <2>4, <2>6, <2>7, <2>8, SendChannel
  <1>6. CASE ChooseFrame(x)
    <2>p. PICK p \in Ends : p = Peer(x)
      BY PeerEnd
    <2>1. /\ writer'[x].pc = "frame" /\ net' = net /\ attached[x] = k /\ attached'[x] = k
          /\ writer'[x].peer = writer[x].peer /\ writer'[x].local = writer[x].local
          /\ writer'[x].ack = Len(rcvd[x]) - writer[x].local
      BY <1>0, <1>6, <1>k, WriterFacts DEF Writing, ChooseFrame
    <2>2. /\ Talks(x, k)' /\ (Active(x, k)' <=> Active(x, k))
          /\ (Greets(x, k)' <=> Greets(x, k)) /\ (Listens(x, k)' <=> Listens(x, k))
          /\ (Before(x, k)' <=> Before(x, k)) /\ (After(x, k)' <=> After(x, k))
      BY <1>0, <1>1, <2>1 DEF Talks, Active, Greets, Listens, Before, After, LocalStep
    <2>3. /\ QuietInv(x, k) /\ GreetInv(x, k) /\ ListenInv(x, k)
          /\ QuietInv(p, k) /\ GreetInv(p, k) /\ ListenInv(p, k)
      BY DEF ChannelInv, ChannelAt
    <2>4. p # x /\ Peer(p) = x
      BY <2>p, PeerEnd
    <2>5. Grows(x)
      BY <1>0, SteadyGrows
    <2>6. ASSUME NEW s, NEW b, NEW a
          PROVE  /\ EndsAt(x, k, s, b, a)' <=> EndsAt(x, k, s, b, a)
                 /\ EndsAt(p, k, s, b, a)' <=> EndsAt(p, k, s, b, a)
      BY <1>0, <1>1, <2>1, <2>2, <2>p, StillFacts DEF EndsAt
    <2>7. QuietInv(x, k)' /\ QuietInv(p, k)'
      BY <1>0, <1>1, <2>1, <2>2, <2>3, <2>4, <2>p, StillFacts DEF QuietInv
    <2>8. ListenInv(x, k)'
      BY <1>0, <1>1, <2>1, <2>2, <2>3, <2>6, <2>p, StillFacts DEF ListenInv
    <2>9. ListenInv(p, k)'
      BY <1>0, <1>1, <2>1, <2>2, <2>3, <2>4, <2>6, <2>p, StillFacts DEF ListenInv
    <2>10. GreetInv(x, k)'
      BY <1>0, <1>1, <2>1, <2>2, <2>3, <2>6, <2>p, StillFacts DEF GreetInv
    <2>11. GreetInv(p, k)'
      <3>1. Greets(p, k) => writer'[x].local = Len(rcvd'[x]) /\ writer'[x].ack = 0
        <4>1. Greets(p, k) => writer[x].local = Len(rcvd[x])
          BY <1>1, <2>3, <2>4 DEF GreetInv
        <4>. QED  BY <1>0, <1>n, <2>1, <4>1
      <3>. QED  BY <1>0, <1>1, <2>1, <2>2, <2>3, <2>4, <2>6, <2>p, <3>1, StillFacts DEF GreetInv
    <2>12. \A j \in Conns : j # k => net'[j] = net[j]
      BY <2>1
    <2>13. waiting'[x] = waiting[x]
      BY <1>0
    <2>. QED  BY <1>0, <2>1, <2>5, <2>7, <2>8, <2>9, <2>10, <2>11, <2>12, <2>13, <2>p, ChannelRule
  <1>. QED  BY <1>4, <1>5, <1>6

-------------------------------------------------------------------------------
(* The buffers *)

\* A step of x need only be within bounds on its own side.
LEMMA BufferRule ==
    ASSUME TypeInv, BufferInv, SendInv, NEW x \in Ends, LocalStep(x), Grows(x),
           acked'[x] <= Len(rcvd[Peer(x)]), Len(rcvd'[x]) <= written[Peer(x)],
           writer'[x].pc # "off" =>
                /\ acked'[x] <= writer'[x].peer
                /\ writer'[x].peer + writer'[x].size <= written'[x]
    PROVE  BufferInv' /\ SendInv'
  <1>p. PICK p \in Ends : p = Peer(x)
    BY PeerEnd
  <1>0. p # x /\ Peer(p) = x /\ Ends = {x, p}
    BY <1>p, PeerEnd
  <1>1. /\ Len(rcvd[x]) \in Nat /\ Len(rcvd[p]) \in Nat /\ acked[p] \in Nat
        /\ written[x] \in Nat /\ written[p] \in Nat
    BY NumberFacts
  <1>2. Len(rcvd'[x]) \in Nat /\ written'[x] \in Nat
    BY LenProperties DEF LocalStep, TypeInv, TypeOK
  <1>3. /\ acked'[p] = acked[p] /\ rcvd'[p] = rcvd[p] /\ written'[p] = written[p]
        /\ writer'[p] = writer[p]
    BY <1>p DEF LocalStep, Still
  <1>4. /\ acked[p] <= Len(rcvd[x]) /\ Len(rcvd[p]) <= written[x]
    BY <1>0, <1>p DEF BufferInv
  <1>5. /\ Len(rcvd'[x]) >= Len(rcvd[x]) /\ written'[x] >= written[x]
    BY DEF Grows
  <1>6. acked[p] <= Len(rcvd'[x]) /\ Len(rcvd[p]) <= written'[x]
    BY <1>1, <1>2, <1>4, <1>5
  <1>7. BufferInv'
    BY <1>0, <1>3, <1>6, <1>p DEF BufferInv
  <1>8. SendInv'
    BY <1>0, <1>3 DEF SendInv
  <1>. QED  BY <1>7, <1>8

\* The steps that leave the buffers of x alone, or add to what it has written
LEMMA SteadyBuffers ==
    ASSUME TypeInv, BufferInv, SendInv, NEW x \in Ends, LocalStep(x), Grows(x),
           acked'[x] = acked[x], rcvd'[x] = rcvd[x],
           writer'[x] = writer[x] \/ writer'[x].pc = "off"
    PROVE  BufferInv' /\ SendInv'
  <1>p. PICK p \in Ends : p = Peer(x)
    BY PeerEnd
  <1>0. Peer(p) = x
    BY <1>p, PeerEnd
  <1>1. acked[x] <= Len(rcvd[p]) /\ Len(rcvd[x]) <= written[p]
    BY <1>0, <1>p DEF BufferInv
  <1>2. writer[x].pc # "off" =>
            acked[x] <= writer[x].peer /\ writer[x].peer + writer[x].size <= written[x]
    BY DEF SendInv
  <1>3. /\ written[x] \in Nat /\ written'[x] \in Nat /\ written'[x] >= written[x]
        /\ writer[x].peer + writer[x].size \in Nat
    <2>1. written'[x] \in Nat
      BY DEF LocalStep, TypeInv, TypeOK
    <2>2. writer[x].peer \in Nat /\ writer[x].size \in Nat /\ written[x] \in Nat
      BY NumberFacts
    <2>. QED  BY <2>1, <2>2 DEF Grows
  <1>4. writer'[x].pc # "off" =>
            acked'[x] <= writer'[x].peer /\ writer'[x].peer + writer'[x].size <= written'[x]
    <2>1. CASE writer'[x] = writer[x]
      <3>1. writer[x].pc # "off" => writer[x].peer + writer[x].size <= written'[x]
        BY <1>2, <1>3
      <3>. QED  BY <1>2, <2>1, <3>1
    <2>2. CASE writer'[x].pc = "off"
      BY <2>2
    <2>. QED  BY <2>1, <2>2
  <1>. QED  BY <1>1, <1>4, <1>p, BufferRule

\* What is acknowledged was received, and what is received was written.
LEMMA ReadingBuffers ==
    ASSUME TypeInv, ChannelInv, BufferInv, SendInv, NEW x \in Ends, Reading(x), Grows(x)
    PROVE  BufferInv' /\ SendInv'
  <1>0. LocalStep(x)
    BY HandshakeSteps, InboxSteps, DataSteps DEF Reading
  <1>k. PICK k \in Conns : k = attached[x]
    BY TypeFacts DEF Reading, Handshake, HandshakeFails, ReadFrame, ReadErrorTag, ReadData,
                     ReadStops, ReadFails
  <1>p. PICK p \in Ends : p = Peer(x)
    BY PeerEnd
  <1>1. ListenInv(x, k) /\ GreetInv(x, k)
    BY DEF ChannelInv, ChannelAt
  <1>2. Peer(p) = x /\ acked[x] <= Len(rcvd[p]) /\ Len(rcvd[x]) <= written[p]
    <2>1. Peer(p) = x
      BY <1>p, PeerEnd
    <2>. QED  BY <1>p, <2>1 DEF BufferInv
  <1>n. /\ written[x] \in Nat /\ written[p] \in Nat /\ Len(rcvd[x]) \in Nat /\ acked[x] \in Nat
        /\ Len(rcvd[p]) \in Nat
    BY NumberFacts
  <1>3. CASE Handshake(x)
    <2>s. PICK s \in Seq(Messages) : s = net[k].to[x]
      BY NumberFacts
    <2>c. PICK c \in Nat : c = s[1].at
      BY <1>3, <1>k, <2>s, HandshakeFacts
    <2>1. /\ Greets(x, k) /\ s # <<>> /\ rcvd'[x] = rcvd[x] /\ written'[x] = written[x]
      BY <1>3, <1>k, <2>c, <2>s, HandshakeFacts
    <2>2. CASE Compatible(x, c)
      <3>1. acked'[x] = c /\ writer'[x].peer = c /\ writer'[x].size = 0
        BY <1>3, <1>k, <2>2, <2>c, <2>s, HandshakeFacts
      <3>2. c <= Len(rcvd[p])
        BY <1>1, <1>p, <2>1, <2>c, <2>s DEF GreetInv
      <3>3. c <= written[x] /\ c + 0 = c /\ c <= c
        BY <2>2 DEF Compatible
      <3>. QED  BY <1>0, <1>2, <1>p, <2>1, <3>1, <3>2, <3>3, BufferRule
    <2>3. CASE ~Compatible(x, c)
      <3>1. acked'[x] = acked[x] /\ writer'[x].pc = "off"
        BY <1>3, <1>k, <2>3, <2>c, <2>s, HandshakeFacts
      <3>. QED  BY <1>0, <2>1, <3>1, SteadyBuffers
    <2>. QED  BY <2>2, <2>3
  <1>4. CASE ReadFrame(x)
    <2>1. /\ reader[x].pc = "ack" /\ net[k].to[x] # <<>> /\ Inbox(x) = net[k].to[x]
          /\ rcvd'[x] = rcvd[x] /\ writer'[x] = writer[x] /\ written'[x] = written[x]
      BY <1>4, <1>k DEF ReadFrame, Inbox
    <2>2. Listens(x, k) /\ reader[x].data = <<>>
      BY <1>k, <2>1 DEF Listens, TypeInv, LoopInv, LoopAt
    <2>m. PICK m \in Messages : m = Head(net[k].to[x])
      BY <1>k, <2>1, InboxFacts
    <2>3. /\ acked[x] + m.at <= Len(rcvd[p])
          /\ Talks(x, k) => acked[x] + m.at <= writer[x].peer
      BY <1>1, <1>p, <2>1, <2>2, <2>m, HeadFacts
    <2>4. acked'[x] = acked[x] + m.at \/ acked'[x] = acked[x]
      BY <1>4, <2>1, <2>m DEF ReadFrame, TypeInv, TypeOK
    <2>5. CASE acked'[x] = acked[x]
      BY <1>0, <2>1, <2>5, SteadyBuffers
    <2>6. CASE acked'[x] = acked[x] + m.at
      <3>1. writer[x].pc # "off" =>
                /\ acked[x] + m.at <= writer[x].peer
                /\ writer[x].peer + writer[x].size <= written[x]
        BY <1>k, <2>3 DEF Talks, SendInv
      <3>. QED  BY <1>0, <1>2, <1>p, <2>1, <2>3, <2>6, <3>1, BufferRule
    <2>. QED  BY <2>4, <2>5, <2>6
  <1>5. CASE ReadData(x) \/ ReadStops(x) \/ ReadFails(x)
    <2>d. PICK d \in Seq(Nat) : d = reader[x].data
      BY NumberFacts
    <2>1. /\ acked'[x] = acked[x] /\ writer'[x] = writer[x] /\ written'[x] = written[x]
          /\ Listens(x, k)
      BY <1>5, <1>k DEF ReadData, ReadStops, ReadFails, Listens
    <2>2. \E n \in 0..Len(d) : Receive(x, n)
      <3>1. \E n \in 0..Len(reader[x].data) : Receive(x, n)
        <4>1. CASE ReadData(x)
          <5>1. \E n \in 1..Len(reader[x].data) : Receive(x, n)
            BY <4>1, Zenon DEF ReadData
          <5>2. \E n \in 1..Len(d) : Receive(x, n)
            BY <2>d, <5>1, Zenon
          <5>3. \E n \in 0..Len(d) : Receive(x, n)
            BY <5>2, LenProperties
          <5>. QED  BY <2>d, <5>3, Zenon
        <4>2. CASE ReadStops(x) \/ ReadFails(x)
          BY <4>2, Zenon DEF ReadStops, ReadFails, LastRead
        <4>. QED  BY <1>5, <4>1, <4>2
      <3>. QED  BY <2>d, <3>1, Zenon
    <2>n. PICK n \in 0..Len(d) : Receive(x, n)
      BY <2>2
    <2>3. Len(rcvd'[x]) = Len(rcvd[x]) + n
      <3>1. n \in 0..Len(reader[x].data)
        BY <2>d, Zenon
      <3>. QED  BY <2>n, <3>1, ReceiveFacts
    <2>4. Len(rcvd[x]) + Len(d) <= written[p]
      BY <1>1, <1>p, <2>1, <2>d, ReadFacts, Zenon
    <2>5. Len(rcvd'[x]) <= written[p]
      BY <1>n, <2>3, <2>4, LenProperties
    <2>6. writer[x].pc # "off" =>
            acked[x] <= writer[x].peer /\ writer[x].peer + writer[x].size <= written[x]
      BY DEF SendInv
    <2>. QED  BY <1>0, <1>2, <1>p, <2>1, <2>5, <2>6, BufferRule
  <1>6. CASE HandshakeFails(x) \/ ReadErrorTag(x)
    <2>1. acked'[x] = acked[x] /\ rcvd'[x] = rcvd[x] /\ writer'[x] = writer[x]
      BY <1>6 DEF HandshakeFails, ReadErrorTag, buffers
    <2>. QED  BY <1>0, <2>1, SteadyBuffers
  <1>. QED  BY <1>3, <1>4, <1>5, <1>6 DEF Reading

\* The write loop
LEMMA WritingBuffers ==
    ASSUME TypeInv, BufferInv, SendInv, NEW x \in Ends, Writing(x), Grows(x)
    PROVE  BufferInv' /\ SendInv'
  <1>0. LocalStep(x) /\ UNCHANGED <<written, acked, rcvd>>
    BY WritingSteps DEF Writing, ChooseFrame, WriteFrame, WriteFails, WriteStops, WriteErrorTag, buffers
  <1>p. PICK p \in Ends : p = Peer(x)
    BY PeerEnd
  <1>1. acked[x] <= Len(rcvd[p]) /\ Len(rcvd[x]) <= written[p]
    <2>1. Peer(p) = x
      BY <1>p, PeerEnd
    <2>. QED  BY <1>p, <2>1 DEF BufferInv
  <1>2. acked[x] <= writer[x].peer /\ writer[x].peer + writer[x].size <= written[x]
    BY WriterFacts DEF SendInv
  <1>3. /\ writer[x].peer \in Nat /\ writer[x].size \in Nat /\ written[x] \in Nat /\ acked[x] \in Nat
    BY NumberFacts
  <1>4. CASE ChooseFrame(x)
    <2>1. writer'[x].peer = writer[x].peer /\ writer[x].peer + writer'[x].size <= written[x]
      BY <1>4, WriterFacts
    <2>. QED  BY <1>0, <1>1, <1>2, <1>p, <2>1, BufferRule
  <1>5. CASE WriteFrame(x)
    <2>1. writer'[x].peer = writer[x].peer + writer[x].size /\ writer'[x].size = 0
      BY <1>5, WriterFacts
    <2>2. /\ acked[x] <= writer[x].peer + writer[x].size
          /\ (writer[x].peer + writer[x].size) + 0 <= written[x]
      BY <1>2, <1>3
    <2>. QED  BY <1>0, <1>1, <1>p, <2>1, <2>2, BufferRule
  <1>6. CASE ~ChooseFrame(x) /\ ~WriteFrame(x)
    <2>1. writer'[x].pc = "off"
      BY <1>6, WriterFacts
    <2>. QED  BY <1>0, <2>1, SteadyBuffers
  <1>. QED  BY <1>4, <1>5, <1>6

-------------------------------------------------------------------------------
(* Handlers that attach in order *)

\* e has attached k, and none of the later transports, or a later one
Passed(e, k) ==
    /\ k <= dialed
    /\ \A j \in waiting[e] : k < j
    /\ attached[e] # None => k <= attached[e]

\* What is sent on k was sent by an end that has passed k, and the position that
\* opens it is the one its sender has still.
OrderAt(e, k) ==
    LET f == Peer(e)
        s == net[k].to[e]
    IN  /\ s # <<>> \/ Listens(e, k) \/ attached[f] = k => Passed(f, k)
        /\ (Before(e, k) \/ Greets(e, k)) /\ s # <<>> => s[1].at = Len(rcvd[f])

OrderInv == InOrder => \A k \in Conns, e \in Ends : OrderAt(e, k)

\* What a step of x does to a transport, as far as the order goes
OrderStep(x, k) ==
    LET p == Peer(x)
        s == net[k].to[x]
        t == net[k].to[p]
        u == net'[k].to[p]
    IN  /\ net'[k].to[x] # <<>> => s # <<>>
        /\ Listens(x, k)' => Listens(x, k) \/ s # <<>>
        /\ Before(x, k)' \/ Greets(x, k)' =>
            (Before(x, k) \/ Greets(x, k)) /\ net'[k].to[x] = s
        /\ u # <<>> =>
            \/ t # <<>> /\ u[1] = t[1]
            \/ /\ attached'[x] = k
               /\ Before(p, k) \/ Greets(p, k) => u[1].at = Len(rcvd'[x])

\* Such steps keep the order: an end that receives data on a transport has a peer
\* that waits for the position of no earlier one.
LEMMA OrderRule ==
    ASSUME TypeInv, ChannelInv, OrderInv, InOrder, NEW x \in Ends, LocalStep(x),
           waiting'[x] \subseteq waiting[x],
           \/ attached'[x] \in {attached[x], None}
           \/ attached'[x] \in waiting[x] /\ \A j \in waiting'[x] : attached'[x] < j,
           Len(rcvd'[x]) = Len(rcvd[x]) \/ reader[x].pc = "data",
           \A k \in Conns : OrderStep(x, k)
    PROVE  OrderInv'
  <1>p. PICK p \in Ends : p = Peer(x)
    BY PeerEnd
  <1>0. p # x /\ Peer(p) = x /\ Ends = {x, p}
    BY <1>p, PeerEnd
  <1>1. ASSUME NEW j \in Conns PROVE OrderAt(x, j)' /\ OrderAt(p, j)'
    <2>1. OrderAt(x, j) /\ OrderAt(p, j) /\ OrderStep(x, j)
      BY DEF OrderInv
    <2>2. /\ dialed' = dialed /\ waiting'[p] = waiting[p] /\ attached'[p] = attached[p]
          /\ rcvd'[p] = rcvd[p] /\ (Listens(p, j)' <=> Listens(p, j))
          /\ (Before(p, j)' <=> Before(p, j)) /\ (Greets(p, j)' <=> Greets(p, j))
      BY <1>p, StillFacts DEF LocalStep, Still
    <2>3. Passed(p, j) => Passed(p, j)'
      BY <2>2 DEF Passed
    <2>4. ASSUME Passed(x, j) PROVE Passed(x, j)'
      <3>1. j <= dialed' /\ \A i \in waiting'[x] : j < i
        BY <2>2, <2>4 DEF Passed
      <3>2. CASE attached'[x] = attached[x]
        BY <2>4, <3>1, <3>2 DEF Passed
      <3>3. CASE attached'[x] = None
        BY <3>1, <3>3 DEF Passed
      <3>4. CASE attached'[x] \in waiting[x]
        <4>1. attached'[x] \in Conns /\ j < attached'[x]
          BY <2>4, <3>4 DEF Passed, TypeInv, TypeOK
        <4>2. j <= attached'[x]
          BY <4>1, MaxConnsPositive DEF Conns
        <4>. QED  BY <3>1, <4>2 DEF Passed
      <3>. QED  BY <3>2, <3>3, <3>4
    <2>5. attached'[x] = j => Passed(x, j)'
      <3>1. CASE attached'[x] = attached[x]
        BY <1>0, <2>1, <2>4, <3>1 DEF OrderAt
      <3>2. CASE attached'[x] = None
        BY <3>2, TypeFacts
      <3>3. CASE attached'[x] \in waiting[x] /\ \A i \in waiting'[x] : attached'[x] < i
        <4>1. attached'[x] <= dialed /\ j <= j
          BY <3>3, NumberFacts, MaxConnsPositive DEF TypeInv, LoopInv, LoopAt, Conns
        <4>. QED  BY <2>2, <3>3, <4>1 DEF Passed
      <3>. QED  BY <3>1, <3>2, <3>3
    <2>6. OrderAt(x, j)'
      BY <1>p, <2>1, <2>2, <2>3 DEF OrderAt, OrderStep
    <2>7. ASSUME net'[j].to[p] # <<>> PROVE Passed(x, j)'
      BY <1>0, <1>p, <2>1, <2>4, <2>5, <2>7 DEF OrderAt, OrderStep
    <2>8. ASSUME Before(p, j) \/ Greets(p, j), net'[j].to[p] # <<>>
          PROVE  net'[j].to[p][1].at = Len(rcvd'[x])
      <3>1. CASE net[j].to[p] # <<>> /\ net'[j].to[p][1] = net[j].to[p][1]
        <4>1. net[j].to[p][1].at = Len(rcvd[x]) /\ Passed(x, j)
          BY <1>0, <2>1, <2>8, <3>1 DEF OrderAt
        <4>2. CASE reader[x].pc = "data"
          <5>k. PICK k \in Conns : k = attached[x]
            BY <4>2, TypeFacts
          <5>1. Listens(x, k) /\ j <= k /\ j \in Nat /\ k \in Nat /\ dialed \in Nat
            BY <4>1, <4>2, <5>k, TypeFacts, NumberFacts, MaxConnsPositive
               DEF Listens, Passed, Conns
          <5>2. j # k
            <6>1. QuietInv(p, k) /\ GreetInv(p, k)
              BY DEF ChannelInv, ChannelAt
            <6>. QED  BY <1>0, <2>8, <4>2, <5>1, <6>1 DEF QuietInv, GreetInv
          <5>3. Passed(p, k)
            BY <1>p, <5>1 DEF OrderInv, OrderAt
          <5>4. ~Greets(p, j)
            <6>1. attached[p] # None => k <= attached[p]
              BY <5>3 DEF Passed
            <6>. QED  BY <5>1, <5>2, <6>1, TypeFacts DEF Greets
          <5>5. ~Before(p, j)
            <6>1. j \notin waiting[p]
              BY <5>1, <5>2, <5>3 DEF Passed
            <6>2. j <= dialed
              BY <4>1 DEF Passed
            <6>. QED  BY <5>1, <6>1, <6>2 DEF Before
          <5>. QED  BY <2>8, <5>4, <5>5
        <4>3. CASE Len(rcvd'[x]) = Len(rcvd[x])
          BY <3>1, <4>1, <4>3
        <4>. QED  BY <4>2, <4>3
      <3>2. CASE ~(net[j].to[p] # <<>> /\ net'[j].to[p][1] = net[j].to[p][1])
        BY <1>p, <2>1, <2>8, <3>2 DEF OrderStep
      <3>. QED  BY <3>1, <3>2
    <2>9. Listens(p, j) => Passed(x, j)'
      BY <1>0, <2>1, <2>4 DEF OrderAt
    <2>10. OrderAt(p, j)'
      BY <1>0, <2>2, <2>5, <2>7, <2>8, <2>9 DEF OrderAt
    <2>. QED  BY <2>6, <2>10
  <1>. QED  BY <1>0, <1>1 DEF OrderInv

\* A step of x that sends nothing keeps the order. It may take, or drop, what is in
\* flight to x on its own transport.
LEMMA ReadOrder ==
    ASSUME TypeInv, ChannelInv, OrderInv, InOrder, NEW x \in Ends, LocalStep(x),
           waiting'[x] \subseteq waiting[x], attached'[x] \in {attached[x], None},
           Len(rcvd'[x]) = Len(rcvd[x]) \/ reader[x].pc = "data",
           reader'[x].pc = "handshake" => reader[x].pc = "handshake",
           reader'[x].pc \in {"ack", "data"} =>
                reader[x].pc \in {"ack", "data"} \/ net[attached[x]].to[x] # <<>>,
           \A j \in Conns : net'[j].to[Peer(x)] = net[j].to[Peer(x)],
           \A j \in Conns :
                \/ net'[j].to[x] = net[j].to[x]
                \/ /\ net[j].to[x] # <<>> /\ j = attached[x]
                   /\ attached'[x] = None \/ reader'[x].pc # "handshake"
    PROVE  OrderInv'
  <1>1. ASSUME NEW j \in Conns PROVE OrderStep(x, j)
    <2>1. Before(x, j)' => Before(x, j)
      BY DEF Before, LocalStep
    <2>2. attached'[x] = j => attached[x] = j
      BY TypeFacts
    <2>3. (Greets(x, j)' => Greets(x, j)) /\ (Listens(x, j)' => Listens(x, j) \/ net[j].to[x] # <<>>)
      BY <2>2 DEF Greets, Listens
    <2>4. net'[j].to[x] # net[j].to[x] =>
            net[j].to[x] # <<>> /\ ~Before(x, j) /\ ~Greets(x, j)'
      <3>1. j = attached[x] => ~Before(x, j)
        BY NumberFacts DEF TypeInv, LoopInv, LoopAt, Before
      <3>2. None # j
        BY TypeFacts
      <3>. QED  BY <3>1, <3>2 DEF Greets
    <2>. QED  BY <2>1, <2>3, <2>4 DEF OrderStep
  <1>. QED  BY <1>1, OrderRule

\* x writes on k, or attaches it as the first of the transports that wait.
Continuing(x, k) ==
    /\ attached[x] = k /\ waiting'[x] = waiting[x] /\ reader'[x] = reader[x]
    /\ Talks(x, k)

Opening(x, k, m) ==
    /\ m.at = Len(rcvd[x])
    /\ k \in waiting[x] /\ waiting'[x] = waiting[x] \ {k}
    /\ \A j \in waiting[x] : k <= j
    /\ reader'[x].pc = "handshake"

\* So does a step of x that sends the position of x, or sends more.
LEMMA SendOrder ==
    ASSUME TypeInv, ChannelInv, OrderInv, InOrder, NEW x \in Ends, LocalStep(x), NEW k \in Conns,
           NEW m \in Messages, rcvd'[x] = rcvd[x], attached'[x] = k,
           Continuing(x, k) \/ Opening(x, k, m),
           \A j \in Conns : j # k => net'[j].to = net[j].to,
           net'[k].to[x] = net[k].to[x],
           ~net[k].up => net'[k].to = net[k].to,
           net[k].up => net'[k].to[Peer(x)] = Append(net[k].to[Peer(x)], m)
    PROVE  OrderInv'
  <1>p. PICK p \in Ends : p = Peer(x)
    BY PeerEnd
  <1>t. PICK t \in Seq(Messages) : t = net[k].to[p]
    BY NumberFacts
  <1>0. Peer(p) = x
    BY <1>p, PeerEnd
  <1>1. QuietInv(p, k) /\ GreetInv(p, k)
    BY DEF ChannelInv, ChannelAt
  <1>2. ASSUME NEW j \in Conns PROVE Before(x, j)' \/ Greets(x, j)' => Before(x, j) \/ Greets(x, j)
    BY DEF Before, Greets, LocalStep, Continuing, Opening
  <1>3. ASSUME NEW j \in Conns PROVE Listens(x, j)' => Listens(x, j)
    BY DEF Listens, Continuing, Opening
  <1>4. ASSUME NEW j \in Conns, j # k PROVE OrderStep(x, j)
    BY <1>2, <1>3, <1>4 DEF OrderStep
  <1>5. OrderStep(x, k)
    <2>1. CASE ~net[k].up
      BY <1>2, <1>3, <2>1 DEF OrderStep
    <2>2. CASE net[k].up
      <3>1. net'[k].to[p] = Append(t, m)
        BY <2>2, <1>p, <1>t
      <3>2. t # <<>> => net'[k].to[p][1] = t[1]
        BY <3>1, AppendProperties, EmptySeq, LenProperties
      <3>3. t = <<>> => net'[k].to[p][1] = m
        BY <3>1
      <3>4. t = <<>> /\ (Before(p, k) \/ Greets(p, k)) => m.at = Len(rcvd'[x])
        <4>1. Talks(x, k) => ~(t = <<>> /\ (Before(p, k) \/ Greets(p, k)))
          BY <1>0, <1>1, <2>2, <1>t DEF GreetInv, Active
        <4>2. attached[x] # k => m.at = Len(rcvd'[x])
          BY DEF Continuing, Opening
        <4>3. k \in waiting[x] => attached[x] # k
          BY DEF TypeInv, LoopInv, LoopAt
        <4>. QED  BY <4>1, <4>2, <4>3 DEF Continuing, Opening
      <3>. QED  BY <1>2, <1>3, <1>p, <1>t, <3>2, <3>3, <3>4 DEF OrderStep
    <2>. QED  BY <2>1, <2>2
  <1>7. \A j \in Conns : OrderStep(x, j)
    BY <1>4, <1>5
  <1>8. waiting'[x] \subseteq waiting[x]
    BY DEF Continuing, Opening
  <1>9. \/ attached'[x] \in {attached[x], None}
        \/ attached'[x] \in waiting[x] /\ \A j \in waiting'[x] : attached'[x] < j
    <2>1. CASE k \in waiting[x] /\ waiting'[x] = waiting[x] \ {k} /\ \A j \in waiting[x] : k <= j
      <3>1. \A j \in waiting'[x] : j \in Conns /\ j # k /\ k <= j
        BY <2>1, TypeFacts
      <3>2. \A j \in waiting'[x] : k < j
        BY <3>1, MaxConnsPositive DEF Conns
      <3>. QED  BY <2>1, <3>2
    <2>. QED  BY <2>1 DEF Continuing, Opening
  <1>. QED  BY <1>7, <1>8, <1>9, OrderRule

\* The position that opens a transport is one its reader can continue from.
LEMMA PositionFits ==
    ASSUME TypeInv, BufferInv, OrderInv, InOrder, NEW x \in Ends, Handshake(x),
           NEW k \in Conns, k = attached[x]
    PROVE  Compatible(x, net[k].to[x][1].at)
  <1>p. PICK p \in Ends : p = Peer(x)
    BY PeerEnd
  <1>1. Greets(x, k) /\ net[k].to[x] # <<>>
    BY DEF Handshake, Inbox, Greets
  <1>2. net[k].to[x][1].at = Len(rcvd[p])
    BY <1>1, <1>p DEF OrderInv, OrderAt
  <1>3. acked[x] <= Len(rcvd[p]) /\ Len(rcvd[p]) <= written[x]
    BY <1>p DEF BufferInv
  <1>. QED  BY <1>2, <1>3 DEF Compatible

\* The programs and the handlers that detach
LEMMA DetachOrder ==
    ASSUME TypeInv, ChannelInv, OrderInv, InOrder, NEW x \in Ends,
           \/ Write(x) \/ Read(x) \/ Close(x)
           \/ RequestDetach(x) \/ Abandon(x) \/ Detach(x)
    PROVE  OrderInv'
  <1>1. LocalStep(x) /\ Len(rcvd'[x]) = Len(rcvd[x]) /\ reader'[x] = reader[x]
    BY ProgramSteps, AttachingSteps
       DEF Attaching, Write, Read, Close, RequestDetach, Abandon, Detach, buffers, handlers
  <1>2. Peer(x) \in Ends /\ Peer(x) # x /\ net \in Nets
    BY PeerEnd, TypeFacts
  <1>3. CASE Write(x) \/ Read(x) \/ Close(x)
    <2>1. UNCHANGED <<waiting, attached, net>>
      BY <1>3 DEF Write, Read, Close, handlers
    <2>. QED  BY <1>1, <2>1, ReadOrder
  <1>4. CASE RequestDetach(x)
    <2>k. PICK k \in Conns : k = attached[x]
      BY <1>4, TypeFacts DEF RequestDetach
    <2>1. UNCHANGED <<waiting, attached>> /\ net' = Broken(net, k)
      BY <1>4, <2>k DEF RequestDetach
    <2>2. \A j \in Conns : net'[j].to = net[j].to
      BY <1>2, <2>1, BrokenNet
    <2>. QED  BY <1>1, <2>1, <2>2, ReadOrder
  <1>5. CASE Abandon(x)
    <2>k. PICK k \in waiting[x] : waiting' = [waiting EXCEPT ![x] = @ \ {k}] /\ net' = Broken(net, k)
      BY <1>5 DEF Abandon
    <2>1. attached' = attached /\ waiting'[x] \subseteq waiting[x] /\ k \in Conns
      BY <1>5, <2>k, TypeFacts DEF Abandon, TypeInv, TypeOK
    <2>2. \A j \in Conns : net'[j].to = net[j].to
      BY <1>2, <2>k, <2>1, BrokenNet
    <2>. QED  BY <1>1, <2>1, <2>2, ReadOrder
  <1>6. CASE Detach(x)
    <2>k. PICK k \in Conns : k = attached[x]
      BY <1>6, TypeFacts DEF Detach
    <2>n. PICK n \in Nets : n = Broken(net, k)
      BY <1>2, BrokenNet
    <2>q. PICK q \in Seq(Messages) : q = <<>>
      BY EmptySeq
    <2>1. waiting' = waiting /\ attached'[x] = None /\ net' = Replaced(n, k, x, q)
      BY <1>6, <2>k, <2>n, <2>q DEF Detach, Replaced, TypeInv, TypeOK
    <2>2. \A j \in Conns : n[j].to = net[j].to
      BY <1>2, <2>n, BrokenNet
    <2>3. /\ \A j \in Conns : j # k => net'[j] = n[j]
          /\ net'[k].to[Peer(x)] = n[k].to[Peer(x)] /\ net'[k].to[x] = <<>>
      <3>1. /\ \A j \in Conns : j # k => Replaced(n, k, x, q)[j] = n[j]
            /\ Replaced(n, k, x, q)[k].to[Peer(x)] = n[k].to[Peer(x)]
            /\ Replaced(n, k, x, q)[k].to[x] = q
        BY ReplacedNet
      <3>. QED  BY <2>1, <2>q, <3>1
    <2>4. \A j \in Conns : net'[j].to[Peer(x)] = net[j].to[Peer(x)]
      BY <2>2, <2>3
    <2>5. \A j \in Conns : net'[j].to[x] = net[j].to[x] \/ (net[j].to[x] # <<>> /\ j = attached[x])
      BY <2>2, <2>3, <2>k
    <2>. QED  BY <1>1, <2>1, <2>4, <2>5, ReadOrder
  <1>. QED  BY <1>3, <1>4, <1>5, <1>6

\* A handler that attaches the first of the transports that wait
LEMMA AttachOrder ==
    ASSUME TypeInv, ChannelInv, OrderInv, InOrder, NEW x \in Ends, Attach(x)
    PROVE  OrderInv'
  <1>k. PICK k \in Conns : k \in waiting[x] /\ AttachConn(x, k)
    BY TypeFacts DEF Attach
  <1>1. k \in Conns /\ net \in Nets /\ Peer(x) \in Ends /\ LocalStep(x)
    BY <1>k, TypeFacts, PeerEnd, AttachingSteps DEF Attaching
  <1>m. PICK m \in Messages : m = Position(Len(rcvd[x]))
    BY TypeFacts, EmptySeq DEF Position, Messages
  <1>2. m.at = Len(rcvd[x])
    BY <1>m DEF Position
  <1>3. /\ rcvd' = rcvd /\ attached'[x] = k /\ waiting'[x] = waiting[x] \ {k}
        /\ reader'[x].pc = "handshake" /\ net' = Sent(x, k, m)
        /\ \A j \in waiting[x] : k <= j
    BY <1>k, <1>m DEF AttachConn, LocalPosition, TypeInv, TypeOK, Idle, buffers
  <1>4. /\ \A j \in Conns : j # k => net'[j] = net[j]
        /\ net'[k].to[x] = net[k].to[x]
        /\ ~net[k].up => net' = net
        /\ net[k].up => net'[k].to[Peer(x)] = Append(net[k].to[Peer(x)], m)
    <2>1. /\ \A j \in Conns : j # k => Sent(x, k, m)[j] = net[j]
          /\ Sent(x, k, m)[k].to[x] = net[k].to[x]
          /\ ~net[k].up => Sent(x, k, m) = net
          /\ net[k].up => Sent(x, k, m)[k].to[Peer(x)] = Append(net[k].to[Peer(x)], m)
      <3>1. net \in Nets /\ k \in Conns
        BY <1>1
      <3>. QED  BY <3>1, SentNet
    <2>. QED  BY <1>3, <2>1
  <1>5. /\ \A j \in Conns : j # k => net'[j].to = net[j].to
        /\ ~net[k].up => net'[k].to = net[k].to
    BY <1>4
  <1>6. rcvd'[x] = rcvd[x] /\ attached'[x] = k
    BY <1>3
  <1>7. Opening(x, k, m)
    BY <1>2, <1>3, <1>k DEF Opening
  <1>. QED  BY <1>1, <1>4, <1>5, <1>6, <1>7, SendOrder

\* The handshake and the read loop
LEMMA ReadingOrder ==
    ASSUME TypeInv, ChannelInv, BufferInv, OrderInv, InOrder, NEW x \in Ends, Reading(x)
    PROVE  OrderInv'
  <1>0. LocalStep(x)
    BY HandshakeSteps, InboxSteps, DataSteps DEF Reading
  <1>k. PICK k \in Conns : k = attached[x]
    <2>1. reader[x].pc # "off"
      BY DEF Reading, Handshake, HandshakeFails, ReadFrame, ReadErrorTag, ReadData, ReadStops, ReadFails
    <2>. QED  BY <2>1, TypeFacts
  <1>1. UNCHANGED <<waiting, attached>> /\ net \in Nets /\ Peer(x) \in Ends /\ Peer(x) # x
    BY TypeFacts, PeerEnd
       DEF Reading, Handshake, HandshakeFails, ReadFrame, ReadErrorTag, ReadData, ReadStops, ReadFails
  <1>2. reader' = [reader EXCEPT ![x] = Idle] => reader'[x].pc = "off"
    BY DEF TypeInv, TypeOK, Idle
  <1>3. CASE Handshake(x)
    <2>c. PICK c \in Nat : c = net[k].to[x][1].at
      BY <1>3, <1>k, HandshakeFacts
    <2>1. Compatible(x, c)
      BY <1>3, <1>k, <2>c, PositionFits
    <2>2. /\ rcvd' = rcvd /\ net[k].to[x] # <<>> /\ reader'[x].pc = "ack"
          /\ net'[k].to[Peer(x)] = net[k].to[Peer(x)]
          /\ \A j \in Conns : j # k => net'[j] = net[j]
      BY <1>3, <1>k, <2>c, <2>1, HandshakeFacts
    <2>3. \A j \in Conns : net'[j].to[Peer(x)] = net[j].to[Peer(x)]
      BY <2>2
    <2>4. \A j \in Conns : net'[j].to[x] = net[j].to[x] \/ (net[j].to[x] # <<>> /\ j = attached[x])
      BY <1>k, <2>2
    <2>. QED  BY <1>0, <1>1, <1>k, <2>2, <2>3, <2>4, ReadOrder
  <1>4. CASE HandshakeFails(x)
    <2>1. rcvd' = rcvd /\ net' = Broken(net, k) /\ reader'[x].pc = "off"
      BY <1>2, <1>4, <1>k DEF HandshakeFails, buffers
    <2>2. \A j \in Conns : net'[j].to = net[j].to
      BY <1>1, <2>1, BrokenNet
    <2>. QED  BY <1>0, <1>1, <2>1, <2>2, ReadOrder
  <1>5. CASE ReadFrame(x) \/ ReadErrorTag(x)
    <2>1. /\ rcvd' = rcvd /\ reader[x].pc = "ack" /\ net[k].to[x] # <<>>
          /\ net' = Taken(net, x) \/ net' = Broken(Taken(net, x), k)
      BY <1>5, <1>k DEF ReadFrame, ReadErrorTag, ReaderExit, Inbox
    <2>n. PICK n \in Nets : n = Taken(net, x)
      BY <1>1, <1>k, <2>1, TakenNet
    <2>2. /\ \A j \in Conns : j # k => n[j] = net[j]
          /\ n[k].to[Peer(x)] = net[k].to[Peer(x)]
      BY <1>1, <1>k, <2>1, <2>n, TakenNet
    <2>3. \A j \in Conns : net'[j].to = n[j].to
      BY <2>1, <2>n, BrokenNet
    <2>4. \A j \in Conns : net'[j].to[Peer(x)] = net[j].to[Peer(x)]
      BY <2>2, <2>3
    <2>5. \A j \in Conns : net'[j].to[x] = net[j].to[x] \/ (net[j].to[x] # <<>> /\ j = attached[x])
      BY <1>k, <2>1, <2>2, <2>3
    <2>6. reader'[x].pc # "handshake"
      <3>1. CASE ReaderExit(x, Taken(net, x))
        BY <1>2, <3>1 DEF ReaderExit
      <3>2. CASE ReadFrame(x) /\ ~ReaderExit(x, Taken(net, x))
        <4>. DEFINE c == IF Head(Inbox(x)).data = <<>> THEN "ack" ELSE "data"
                    r == [pc |-> c, data |-> Head(Inbox(x)).data]
        <4>1. reader' = [reader EXCEPT ![x] = r]
          BY <3>2 DEF ReadFrame
        <4>2. r.pc # "handshake"
          OBVIOUS
        <4>. HIDE DEF r
        <4>. QED  BY <4>1, <4>2 DEF TypeInv, TypeOK
      <3>. QED  BY <1>5, <3>1, <3>2 DEF ReadErrorTag
    <2>. QED  BY <1>0, <1>1, <2>1, <2>4, <2>5, <2>6, ReadOrder
  <1>6. CASE ReadData(x) \/ ReadStops(x) \/ ReadFails(x)
    <2>1. reader[x].pc \in {"ack", "data"} /\ (net' = net \/ net' = Broken(net, k))
      BY <1>6, <1>k DEF ReadData, ReadStops, ReadFails, ReaderExit
    <2>2. \A j \in Conns : net'[j].to = net[j].to
      BY <1>1, <2>1, BrokenNet
    <2>3. reader'[x].pc # "handshake"
      <3>1. CASE ReadData(x)
        <4>n. PICK n \in 1..Len(reader[x].data) : reader' = [reader EXCEPT ![x] =
                  IF n = Len(@.data) THEN [Idle EXCEPT !.pc = "ack"]
                  ELSE [pc |-> "data", data |-> SubSeq(@.data, n + 1, Len(@.data))]]
          BY <3>1 DEF ReadData
        <4>. DEFINE r == IF n = Len(reader[x].data) THEN [Idle EXCEPT !.pc = "ack"]
                         ELSE [pc |-> "data", data |-> SubSeq(reader[x].data, n + 1, Len(reader[x].data))]
        <4>1. reader' = [reader EXCEPT ![x] = r]
          BY <4>n
        <4>2. r.pc # "handshake"
          BY DEF Idle
        <4>. HIDE DEF r
        <4>. QED  BY <4>1, <4>2 DEF TypeInv, TypeOK
      <3>2. CASE ReadStops(x) \/ ReadFails(x)
        BY <1>2, <3>2 DEF ReadStops, ReadFails, ReaderExit
      <3>. QED  BY <1>6, <3>1, <3>2
    <2>4. Len(rcvd'[x]) = Len(rcvd[x]) \/ reader[x].pc = "data"
      <3>1. CASE reader[x].pc = "ack"
        <4>1. reader[x].data = <<>> /\ LastRead(x)
          BY <1>6, <3>1 DEF ReadData, ReadStops, ReadFails, TypeInv, LoopInv, LoopAt
        <4>2. PICK n \in 0..Len(reader[x].data) : Receive(x, n)
          BY <4>1 DEF LastRead
        <4>3. Len(rcvd'[x]) = Len(rcvd[x]) + n
          BY <4>2, ReceiveFacts
        <4>4. n = 0 /\ Len(rcvd[x]) \in Nat
          BY <4>1, <4>2, EmptySeq, NumberFacts
        <4>. QED  BY <4>3, <4>4
      <3>. QED  BY <2>1, <3>1
    <2>. QED  BY <1>0, <1>1, <2>1, <2>2, <2>3, <2>4, ReadOrder
  <1>. QED  BY <1>3, <1>4, <1>5, <1>6 DEF Reading

\* The write loop
LEMMA WritingOrder ==
    ASSUME TypeInv, ChannelInv, OrderInv, InOrder, NEW x \in Ends, Writing(x)
    PROVE  OrderInv'
  <1>0. /\ UNCHANGED <<rcvd, waiting, attached, reader>>
        /\ LocalStep(x) /\ net \in Nets /\ Peer(x) \in Ends
    BY WritingSteps, TypeFacts, PeerEnd
       DEF Writing, ChooseFrame, WriteFrame, WriteFails, WriteStops, WriteErrorTag, buffers
  <1>k. PICK k \in Conns : k = attached[x]
    BY WriterFacts
  <1>1. Talks(x, k)
    BY <1>k, WriterFacts DEF Talks
  <1>2. ASSUME NEW m \in Messages, net' = Sent(x, k, m) PROVE OrderInv'
    <2>1. /\ \A j \in Conns : j # k => net'[j] = net[j]
          /\ net'[k].to[x] = net[k].to[x]
          /\ ~net[k].up => net' = net
          /\ net[k].up => net'[k].to[Peer(x)] = Append(net[k].to[Peer(x)], m)
      BY <1>0, <1>2, SentNet
    <2>2. /\ \A j \in Conns : j # k => net'[j].to = net[j].to
          /\ ~net[k].up => net'[k].to = net[k].to
      BY <2>1
    <2>3. rcvd'[x] = rcvd[x] /\ attached'[x] = k /\ attached[x] = k /\ Continuing(x, k)
      BY <1>0, <1>1, <1>k DEF Continuing
    <2>. QED  BY <1>0, <2>1, <2>2, <2>3, SendOrder
  <1>3. CASE WriteFrame(x)
    <2>1. /\ writer[x].peer \in Nat /\ writer[x].size \in Nat /\ writer[x].ack \in Nat
      BY NumberFacts
    <2>d. PICK d \in Seq(Nat) : d = Bytes(writer[x].peer, writer[x].size)
      <3>1. Bytes(writer[x].peer, writer[x].size) \in Seq(Nat)
        BY <2>1, SeqDef DEF Bytes
      <3>. QED  BY <3>1
    <2>m. PICK m \in Messages : m = Frame(writer[x].ack, d)
      BY <2>1 DEF Frame, Messages
    <2>2. net' = Sent(x, k, m)
      BY <1>3, <1>k, <2>d, <2>m DEF WriteFrame
    <2>. QED  BY <1>2, <2>2
  <1>4. CASE WriteErrorTag(x)
    <2>m. PICK m \in Messages : m = ErrorTag
      BY EmptySeq DEF ErrorTag, Messages
    <2>1. net' = Sent(x, k, m)
      BY <1>4, <1>k, <2>m DEF WriteErrorTag
    <2>. QED  BY <1>2, <2>1
  <1>5. CASE ChooseFrame(x) \/ WriteFails(x) \/ WriteStops(x)
    <2>1. net' = net
      BY <1>5 DEF ChooseFrame, WriteFails, WriteStops
    <2>. QED  BY <1>0, <2>1, ReadOrder
  <1>. QED  BY <1>3, <1>4, <1>5 DEF Writing

\* The steps of neither end's loops: a new transport is later than the others.
LEMMA OutsideOrder ==
    ASSUME TypeInv, Outside, ChannelInv, OrderInv, InOrder
    PROVE  OrderInv'
  <1>. SUFFICES ASSUME NEW k \in Conns, NEW e \in Ends PROVE OrderAt(e, k)'
    BY DEF OrderInv
  <1>f. PICK f \in Ends : f = Peer(e)
    BY PeerEnd
  <1>1. /\ UNCHANGED <<rcvd, attached, reader>>
        /\ net'[k].to = net[k].to /\ dialed' \in {dialed, dialed + 1}
        /\ \A j \in Conns : j <= dialed => (j \in waiting'[f] <=> j \in waiting[f])
        /\ k <= dialed => (k \in waiting'[e] <=> k \in waiting[e])
    BY OutsideFacts
  <1>2. OrderAt(e, k) /\ QuietInv(e, k)
    BY DEF OrderInv, ChannelInv, ChannelAt
  <1>3. k \in Nat /\ dialed \in Nat /\ waiting'[f] \subseteq Conns
    <2>1. waiting'[f] \subseteq Conns
      BY OutsideFacts DEF TypeInv, TypeOK
    <2>. QED  BY <2>1, NumberFacts, MaxConnsPositive DEF Conns
  <1>4. ASSUME Passed(f, k) PROVE Passed(f, k)'
    <2>1. k <= dialed' /\ (attached'[f] # None => k <= attached'[f])
      BY <1>1, <1>3, <1>4 DEF Passed
    <2>2. ASSUME NEW j \in waiting'[f] PROVE k < j
      <3>1. j \in Conns /\ j \in Nat
        BY <1>3, MaxConnsPositive DEF Conns
      <3>2. CASE j <= dialed
        BY <1>1, <1>4, <3>1, <3>2 DEF Passed
      <3>3. CASE j > dialed
        BY <1>3, <1>4, <3>1, <3>3 DEF Passed
      <3>. QED  BY <1>3, <3>1, <3>2, <3>3
    <2>. QED  BY <2>1, <2>2 DEF Passed
  <1>5. (Listens(e, k)' <=> Listens(e, k)) /\ (Greets(e, k)' <=> Greets(e, k))
    BY <1>1 DEF Listens, Greets
  <1>6. Before(e, k)' => Before(e, k)
    BY <1>1, <1>3 DEF Before
  <1>. QED  BY <1>1, <1>2, <1>4, <1>5, <1>6, <1>f DEF OrderAt

-------------------------------------------------------------------------------
(* The invariant *)

ConnInv == TypeInv /\ ChannelInv /\ BufferInv /\ SendInv /\ OrderInv

Local(x) == Write(x) \/ Read(x) \/ Close(x) \/ Attaching(x) \/ Reading(x) \/ Writing(x)

\* The steps of an end keep it.
LEMMA LocalKeeps ==
    ASSUME ConnInv, NEW x \in Ends, Local(x)
    PROVE  LocalStep(x) /\ Grows(x) /\ ConnInv'
  <1>. USE DEF ConnInv
  <1>1. LocalStep(x)
    BY ProgramSteps, AttachingSteps, HandshakeSteps, InboxSteps, DataSteps, WritingSteps
       DEF Local, Reading
  <1>2. CASE Write(x) \/ Read(x) \/ Close(x)
    <2>1. Grows(x) /\ ChannelInv'
      BY <1>2, ProgramChannel
    <2>2. acked'[x] = acked[x] /\ rcvd'[x] = rcvd[x] /\ writer'[x] = writer[x]
      BY <1>2 DEF Write, Read, Close, handlers
    <2>3. BufferInv' /\ SendInv'
      BY <1>1, <2>1, <2>2, SteadyBuffers
    <2>4. OrderInv'
      BY <1>2, DetachOrder DEF OrderInv
    <2>. QED  BY <1>1, <2>1, <2>3, <2>4 DEF LocalStep
  <1>3. CASE Attaching(x)
    <2>1. Grows(x) /\ ChannelInv'
      BY <1>3, DetachChannel, AttachChannel DEF Attaching
    <2>2. acked'[x] = acked[x] /\ rcvd'[x] = rcvd[x]
      BY <1>3 DEF Attaching, RequestDetach, Abandon, Attach, AttachConn, Detach, buffers
    <2>3. writer'[x] = writer[x] \/ writer'[x].pc = "off"
      BY <1>3 DEF Attaching, RequestDetach, Abandon, Attach, AttachConn, Detach, TypeInv, TypeOK, NoWriter
    <2>4. BufferInv' /\ SendInv'
      BY <1>1, <2>1, <2>2, <2>3, SteadyBuffers
    <2>5. OrderInv'
      BY <1>3, DetachOrder, AttachOrder DEF Attaching, OrderInv
    <2>. QED  BY <1>1, <2>1, <2>4, <2>5 DEF LocalStep
  <1>4. CASE Reading(x)
    <2>1. Grows(x) /\ ChannelInv'
      <3>1. CASE Handshake(x)
        <4>k. PICK k \in Conns : k = attached[x]
          BY <3>1, TypeFacts DEF Handshake
        <4>1. InOrder => Compatible(x, net[k].to[x][1].at)
          BY <3>1, <4>k, PositionFits
        <4>. QED  BY <3>1, <4>k, <4>1, HandshakeChannel
      <3>2. CASE ReadFrame(x)
        BY <3>2, EndingChannel, FrameChannel
      <3>3. CASE ReadData(x)
        BY <3>3, DataChannel
      <3>4. CASE HandshakeFails(x) \/ ReadErrorTag(x) \/ ReadStops(x) \/ ReadFails(x)
        BY <3>4, EndingChannel
      <3>. QED  BY <1>4, <3>1, <3>2, <3>3, <3>4 DEF Reading
    <2>2. BufferInv' /\ SendInv'
      BY <1>4, <2>1, ReadingBuffers
    <2>3. OrderInv'
      BY <1>4, ReadingOrder DEF OrderInv
    <2>. QED  BY <1>1, <2>1, <2>2, <2>3 DEF LocalStep
  <1>5. CASE Writing(x)
    <2>1. Grows(x) /\ ChannelInv'
      BY <1>5, WritingChannel, EndingChannel DEF Writing
    <2>2. BufferInv' /\ SendInv'
      BY <1>5, <2>1, WritingBuffers
    <2>3. OrderInv'
      BY <1>5, WritingOrder DEF OrderInv
    <2>. QED  BY <1>1, <2>1, <2>2, <2>3 DEF LocalStep
  <1>. QED  BY <1>2, <1>3, <1>4, <1>5 DEF Local

\* So do the others.
LEMMA OutsideKeeps ==
    ASSUME ConnInv, Outside
    PROVE  ConnInv'
  <1>. USE DEF ConnInv
  <1>1. TypeInv' /\ UNCHANGED <<written, acked, rcvd, writer>>
    BY OutsideFacts
  <1>2. ChannelInv'
    BY OutsideChannel
  <1>3. BufferInv' /\ SendInv'
    BY <1>1 DEF BufferInv, SendInv
  <1>4. OrderInv'
    BY OutsideOrder DEF OrderInv
  <1>. QED  BY <1>1, <1>2, <1>3, <1>4

\* So does a step that changes nothing.
LEMMA StutterKeeps ==
    ASSUME ConnInv, UNCHANGED vars
    PROVE  ConnInv'
  <1>. USE DEF vars, buffers, handlers, control
  <1>1. TypeInv'
    BY StutterType DEF ConnInv
  <1>2. BufferInv' /\ SendInv'
    BY DEF ConnInv, BufferInv, SendInv
  <1>3. OrderInv'
    BY DEF ConnInv, OrderInv, OrderAt, Passed, Listens, Greets, Before
  <1>4. ChannelInv'
    <2>. SUFFICES ASSUME NEW k \in Conns, NEW e \in Ends
                  PROVE  QuietInv(e, k)' /\ GreetInv(e, k)' /\ ListenInv(e, k)'
      BY DEF ChannelInv, ChannelAt
    <2>1. QuietInv(e, k) /\ GreetInv(e, k) /\ ListenInv(e, k)
      BY DEF ConnInv, ChannelInv, ChannelAt
    <2>2. UNCHANGED <<written, acked, rcvd, localClosed, waiting, attached, reader, writer, dialed, net>>
      OBVIOUS
    <2>3. QuietInv(e, k)'
      BY <2>1, <2>2 DEF QuietInv, Before, After, Greets, Listens, Talks
    <2>4. GreetInv(e, k)'
      BY <2>1, <2>2, Zenon DEF GreetInv, EndsAt, Before, Greets, Listens, Talks, Active
    <2>5. ListenInv(e, k)'
      BY <2>1, <2>2, Zenon DEF ListenInv, EndsAt, Greets, Listens, Talks, Active
    <2>. QED  BY <2>3, <2>4, <2>5
  <1>. QED  BY <1>1, <1>2, <1>3, <1>4 DEF ConnInv

\* After the first exchange both loops run on the first transport and nothing is
\* in flight.
LEMMA InitHolds ==
    ASSUME Init
    PROVE  ConnInv
  <1>1. TypeInv
    BY InitType
  <1>2. ASSUME NEW e \in Ends
        PROVE  /\ written[e] = 0 /\ acked[e] = 0 /\ rcvd[e] = <<>> /\ waiting[e] = {}
               /\ attached[e] = 1 /\ reader[e].pc = "ack" /\ reader[e].data = <<>>
               /\ writer[e].pc = "ready" /\ writer[e].local = 0 /\ writer[e].peer = 0
               /\ writer[e].size = 0 /\ writer[e].ack = 0
               /\ Len(rcvd[e]) = 0 /\ Len(reader[e].data) = 0
    BY EmptySeq DEF Init, Idle, NoWriter
  <1>3. ASSUME NEW k \in Conns, NEW e \in Ends
        PROVE  net[k].up /\ net[k].to[e] = <<>>
    BY DEF Init
  <1>4. dialed = 1 /\ Conns \subseteq Nat
    BY MaxConnsPositive DEF Init, Conns
  <1>5. BufferInv /\ SendInv
    BY <1>2, PeerEnd DEF BufferInv, SendInv
  <1>6. ASSUME NEW k \in Conns, NEW e \in Ends
        PROVE  OrderAt(e, k) /\ QuietInv(e, k) /\ GreetInv(e, k) /\ ListenInv(e, k)
    <2>f. PICK f \in Ends : f = Peer(e)
      BY PeerEnd
    <2>1. OrderAt(e, k)
      BY <1>2, <1>3, <1>4, <2>f DEF OrderAt, Passed, Listens
    <2>2. ~Greets(e, k) /\ ~Greets(f, k) /\ (Before(e, k) <=> k > 1) /\ (Before(f, k) <=> k > 1)
          /\ (attached[e] = k <=> k = 1) /\ (attached[f] = k <=> k = 1)
      BY <1>2, <1>4 DEF Greets, Before
    <2>3. ~After(e, k) /\ (Before(e, k) => ~Talks(f, k) /\ ~Listens(f, k) /\ ~Active(f, k))
      <3>1. k = 1 \/ k > 1
        BY <1>4, MaxConnsPositive DEF Conns
      <3>. QED  BY <2>2, <3>1 DEF After, Talks, Listens, Active
    <2>4. ~HasTag(net[k].to[e])
      BY <1>3, EmptySeq DEF HasTag
    <2>5. QuietInv(e, k)
      BY <1>3, <2>3, <2>4, <2>f DEF QuietInv
    <2>6. GreetInv(e, k)
      BY <2>2, <2>3, <2>f DEF GreetInv
    <2>7. ListenInv(e, k)
      <3>1. Bytes(0, 0) = <<>>
        <4>1. Bytes(0, 0) \in Seq(Nat) /\ Len(Bytes(0, 0)) = 0
          BY SeqDef, LenProperties DEF Bytes
        <4>. QED  BY <4>1, EmptySeq
      <3>2. reader[e].data = Bytes(Len(rcvd[e]), Len(reader[e].data))
        BY <1>2, <3>1
      <3>3. Through(net[k].to[e], Len(rcvd[e]) + Len(reader[e].data), acked[e], 0, 0)
        <4>1. Through(<<>>, 0, 0, 0, 0)
          BY ThroughEmpty
        <4>2. Len(rcvd[e]) + Len(reader[e].data) = 0 /\ acked[e] = 0 /\ net[k].to[e] = <<>>
          <5>1. Len(rcvd[e]) = 0 /\ Len(reader[e].data) = 0 /\ acked[e] = 0 /\ net[k].to[e] = <<>>
            BY <1>2, <1>3, Zenon
          <5>2. 0 + 0 = 0
            OBVIOUS
          <5>. QED  BY <5>1, <5>2, Zenon
        <4>. QED  BY <4>1, <4>2, Zenon
      <3>4. EndsAt(f, k, net[k].to[e], 0, 0)
        BY <1>2, <2>4 DEF EndsAt
      <3>5. 0 \in 0..written[f] /\ 0 \in 0..Len(rcvd[f]) /\ 0 <= writer[e].peer
            /\ Len(rcvd[e]) <= writer[f].peer
        BY <1>2
      <3>. QED  BY <2>f, <3>2, <3>3, <3>4, <3>5 DEF ListenInv
    <2>. QED  BY <2>1, <2>5, <2>6, <2>7
  <1>. QED  BY <1>1, <1>5, <1>6 DEF ConnInv, ChannelInv, ChannelAt, OrderInv

\* The invariant of the connection, whether handlers attach in order or not
THEOREM ConnectionInvariant == Spec => []ConnInv
  <1>1. Init => ConnInv
    BY InitHolds
  <1>2. ConnInv /\ [Next]_vars => ConnInv'
    <2>. SUFFICES ASSUME ConnInv, [Next]_vars PROVE ConnInv'
      OBVIOUS
    <2>1. ASSUME NEW x \in Ends, Local(x) PROVE ConnInv'
      BY <2>1, LocalKeeps
    <2>2. CASE Outside
      BY <2>2, OutsideKeeps
    <2>3. CASE UNCHANGED vars
      BY <2>3, StutterKeeps
    <2>. QED  BY <2>1, <2>2, <2>3 DEF Next, Local, Outside
  <1>. QED  BY <1>1, <1>2, PTL DEF Spec

-------------------------------------------------------------------------------
(* What the invariant is for *)

\* The write loop only ever looks for data the send buffer still holds: the
\* subtraction of positions in runResumeV1Write does not wrap, in whatever order
\* the handlers of an end attach.
THEOREM SendPositionsHeld == Spec => []PeerPositionInBuffer
  <1>1. ConnInv => PeerPositionInBuffer
    <2>. SUFFICES ASSUME ConnInv, NEW e \in Ends, writer[e].pc = "ready"
                  PROVE  acked[e] <= writer[e].peer /\ writer[e].peer <= written[e]
      BY DEF PeerPositionInBuffer
    <2>1. /\ acked[e] <= writer[e].peer /\ writer[e].peer + writer[e].size <= written[e]
          /\ writer[e].size = 0
      BY DEF ConnInv, SendInv, TypeInv, LoopInv, LoopAt
    <2>2. writer[e].peer \in Nat
      BY NumberFacts DEF ConnInv
    <2>. QED  BY <2>1, <2>2
  <1>. QED  BY <1>1, ConnectionInvariant, PTL

\* No acknowledgement is larger than the send buffer it is about: runResumeV1Read
\* never ends a transport with "got ack bigger than current send buffer".
THEOREM AcksAlwaysFit == Spec => []AcksFit
  <1>1. ConnInv => AcksFit
    <2>. SUFFICES ASSUME ConnInv, NEW e \in Ends, reader[e].pc = "ack", Inbox(e) # <<>>
                  PROVE  Head(Inbox(e)).at <= SendLen(e)
      BY DEF AcksFit
    <2>0. TypeInv
      BY DEF ConnInv
    <2>k. PICK k \in Conns : k = attached[e]
      BY <2>0, TypeFacts
    <2>1. Inbox(e) = net[k].to[e]
      BY <2>k DEF Inbox
    <2>a. PICK a \in Nat : a = Head(Inbox(e)).at
      BY <2>0, <2>k, InboxFacts
    <2>2. ListenInv(e, k) /\ Listens(e, k) /\ reader[e].data = <<>>
      BY <2>0, <2>k DEF ConnInv, ChannelInv, ChannelAt, Listens, TypeInv, LoopInv, LoopAt
    <2>3. acked[e] + Head(net[k].to[e]).at <= Len(rcvd[Peer(e)])
      BY <2>0, <2>1, <2>2, HeadFacts
    <2>4. acked[e] + a <= Len(rcvd[Peer(e)])
      BY <2>1, <2>3, <2>a
    <2>5. Len(rcvd[Peer(e)]) <= written[e]
      BY DEF ConnInv, BufferInv
    <2>6. acked[e] \in Nat /\ written[e] \in Nat /\ Len(rcvd[Peer(e)]) \in Nat
      BY <2>0, NumberFacts, PeerEnd
    <2>7. a <= written[e] - acked[e]
      BY <2>4, <2>5, <2>6
    <2>. QED  BY <2>7, <2>a DEF SendLen
  <1>. QED  BY <1>1, ConnectionInvariant, PTL

\* An end learns that its peer is gone only from the tag that ends the stream.
LEMMA EndSeen ==
    ASSUME ConnInv, InOrder, NEW x \in Ends, Local(x)
    PROVE  \/ remoteClosed' = remoteClosed
           \/ /\ ReadErrorTag(x)
              /\ localClosed[Peer(x)] /\ Len(rcvd[x]) = written[Peer(x)]
  <1>0. TypeInv
    BY DEF ConnInv
  <1>1. CASE Handshake(x)
    <2>k. PICK k \in Conns : k = attached[x]
      BY <1>0, <1>1, TypeFacts DEF Handshake
    <2>c. PICK c \in Nat : c = net[k].to[x][1].at
      BY <1>0, <1>1, <2>k, HandshakeFacts
    <2>1. Compatible(x, c)
      BY <1>1, <2>c, <2>k, PositionFits DEF ConnInv
    <2>. QED  BY <1>0, <1>1, <2>1, <2>c, <2>k, HandshakeFacts
  <1>2. CASE ReadErrorTag(x)
    <2>k. PICK k \in Conns : k = attached[x]
      BY <1>0, <1>2, TypeFacts DEF ReadErrorTag
    <2>1. net[k].to[x] # <<>> /\ Head(net[k].to[x]).kind = "errorTag"
      BY <1>2, <2>k DEF ReadErrorTag, Inbox
    <2>2. ListenInv(x, k) /\ Listens(x, k) /\ reader[x].data = <<>>
      BY <1>2, <2>k DEF ReadErrorTag, ConnInv, ChannelInv, ChannelAt, Listens, TypeInv, LoopInv, LoopAt
    <2>. QED  BY <1>0, <1>2, <2>1, <2>2, HeadFacts
  <1>3. CASE ~Handshake(x) /\ ~ReadErrorTag(x)
    BY <1>3 DEF Local, Write, Read, Close, Attaching, RequestDetach, Abandon, Attach, AttachConn,
                Detach, Reading, HandshakeFails, ReadFrame, ReadData, ReadStops, ReadFails,
                Writing, ChooseFrame, WriteFrame, WriteFails, WriteStops, WriteErrorTag, buffers
  <1>. QED  BY <1>1, <1>2, <1>3

\* A connection is taken for closed by the peer only if the peer closed it and
\* everything it had written arrived, where the handlers of an end attach in the order
\* of the dials.
THEOREM EndOfStream ==
    ASSUME InOrder
    PROVE  Spec => []EndMeansEnd
  <1>1. Init => EndMeansEnd
    BY DEF Init, EndMeansEnd
  <1>2. ConnInv /\ ConnInv' /\ EndMeansEnd /\ [Next]_vars => EndMeansEnd'
    <2>. SUFFICES ASSUME ConnInv, ConnInv', EndMeansEnd, [Next]_vars PROVE EndMeansEnd'
      OBVIOUS
    <2>0. TypeInv /\ TypeInv'
      BY DEF ConnInv
    <2>1. ASSUME NEW x \in Ends, Local(x) PROVE EndMeansEnd'
      <3>p. PICK p \in Ends : p = Peer(x)
        BY PeerEnd
      <3>0. p # x /\ Peer(p) = x /\ Ends = {x, p}
        BY <3>p, PeerEnd
      <3>1. LocalStep(x) /\ Grows(x)
        BY <2>1, LocalKeeps
      <3>2. /\ written'[p] = written[p] /\ rcvd'[p] = rcvd[p]
            /\ localClosed'[p] = localClosed[p] /\ remoteClosed'[p] = remoteClosed[p]
        BY <3>1, <3>p DEF LocalStep, Still
      <3>3. remoteClosed[p] => localClosed'[x] /\ Len(rcvd'[p]) = written'[x]
        BY <3>0, <3>1, <3>2 DEF EndMeansEnd, Grows
      <3>4. remoteClosed'[x] => localClosed[p] /\ Len(rcvd[x]) = written[p]
        BY <2>1, <3>p, EndSeen DEF EndMeansEnd
      <3>5. Len(rcvd'[x]) >= Len(rcvd[x]) /\ Len(rcvd'[x]) <= written[p]
        BY <3>0, <3>1, <3>2 DEF Grows, ConnInv, BufferInv
      <3>6. Len(rcvd[x]) \in Nat /\ Len(rcvd'[x]) \in Nat /\ written[p] \in Nat
        <4>1. rcvd'[x] \in Seq(Nat)
          BY <2>0 DEF TypeInv, TypeOK
        <4>. QED  BY <2>0, <4>1, NumberFacts, LenProperties
      <3>7. remoteClosed'[x] => localClosed'[p] /\ Len(rcvd'[x]) = written'[p]
        BY <3>2, <3>4, <3>5, <3>6
      <3>. QED  BY <3>0, <3>2, <3>3, <3>7, <3>p DEF EndMeansEnd
    <2>2. CASE Outside
      <3>1. /\ UNCHANGED <<written, rcvd, remoteClosed>>
            /\ \A e \in Ends : localClosed[e] => localClosed'[e]
        BY <2>0, <2>2, OutsideFacts
      <3>. QED  BY <3>1, PeerEnd DEF EndMeansEnd
    <2>3. CASE UNCHANGED vars
      BY <2>3 DEF vars, buffers, EndMeansEnd
    <2>. QED  BY <2>1, <2>2, <2>3 DEF Next, Local, Outside
  <1>. QED  BY <1>1, <1>2, ConnectionInvariant, PTL DEF Spec

-------------------------------------------------------------------------------
(* A stream of bytes *)

\* What an end receives are the next bytes its peer wrote.
LEMMA ReceivesStream ==
    ASSUME ConnInv, NEW x \in Ends, ReadData(x) \/ ReadStops(x) \/ ReadFails(x)
    PROVE  Stream!Receive(x)
  <1>0. TypeInv
    BY DEF ConnInv
  <1>k. PICK k \in Conns : k = attached[x]
    BY <1>0, TypeFacts DEF ReadData, ReadStops, ReadFails
  <1>1. ListenInv(x, k) /\ Listens(x, k)
    BY <1>k DEF ReadData, ReadStops, ReadFails, ConnInv, ChannelInv, ChannelAt, Listens
  <1>d. PICK d \in Seq(Nat) : d = reader[x].data
    BY <1>0, NumberFacts
  <1>b. PICK b \in Nat : b = Len(rcvd[x])
    BY <1>0, NumberFacts
  <1>n. PICK n \in 0..Len(d) : Receive(x, n)
    <2>1. \E n \in 0..Len(reader[x].data) : Receive(x, n)
      <3>1. Len(reader[x].data) \in Nat
        BY <1>0, TypeFacts
      <3>. QED  BY <3>1 DEF ReadData, ReadStops, ReadFails, LastRead
    <2>. QED  BY <2>1, <1>d, Zenon
  <1>2. d = Bytes(b, Len(d)) /\ b + Len(d) <= written[Peer(x)]
    BY <1>0, <1>1, <1>b, <1>d, ReadFacts, Zenon
  <1>3. SubSeq(d, 1, n) = Bytes(b, n)
    BY <1>2, BytesCut
  <1>4. rcvd' = [rcvd EXCEPT ![x] = rcvd[x] \o Bytes(b, n)]
    BY <1>3, <1>d, <1>n DEF Receive
  <1>5. Bytes(b, n) = Stream!Chunk(Len(rcvd[x]), n)
    BY <1>b DEF Bytes, Stream!Chunk
  <1>6. n \in 0..(written[Peer(x)] - Len(rcvd[x]))
    <2>1. written[Peer(x)] \in Nat /\ Len(d) \in Nat
      BY <1>0, NumberFacts, PeerEnd, LenProperties
    <2>. QED  BY <1>2, <1>b, <1>n, <2>1
  <1>7. UNCHANGED <<written, localClosed, remoteClosed>>
    BY DEF ReadData, ReadStops, ReadFails
  <1>8. consumed' = consumed \/ (localClosed[x] /\ consumed' = [consumed EXCEPT ![x] = Len(rcvd'[x])])
    BY <1>0, <1>n DEF Receive, TypeInv, TypeOK
  <1>9. Stream!Peer(x) = Peer(x)
    BY DEF Stream!Peer, Peer
  <1>10. rcvd' = [rcvd EXCEPT ![x] = @ \o Stream!Chunk(Len(@), n)]
    BY <1>4, <1>5
  <1>. QED  BY <1>6, <1>7, <1>8, <1>9, <1>10 DEF Stream!Receive

\* What an end writes fits the window: the send buffer holds what the peer has not
\* acknowledged, and so what it has not received.
LEMMA WritesStream ==
    ASSUME ConnInv, NEW x \in Ends, Write(x)
    PROVE  Stream!Write(x)
  <1>0. TypeInv
    BY DEF ConnInv
  <1>p. PICK p \in Ends : p = Peer(x)
    BY PeerEnd
  <1>1. Stream!Peer(x) = p /\ Stream!Ends = Ends
    BY <1>p DEF Stream!Peer, Peer, Stream!Ends, Ends
  <1>2. /\ acked[x] \in Nat /\ written[x] \in Nat /\ Len(rcvd[p]) \in Nat /\ SendBufferSize \in Nat
        /\ acked[x] <= Len(rcvd[p]) /\ Len(rcvd[p]) <= written[x]
    BY <1>0, <1>p, NumberFacts, SizesPositive DEF ConnInv, BufferInv
  <1>3. PICK n \in 1..(SendBufferSize - SendLen(x)) : written' = [written EXCEPT ![x] = @ + n]
    BY DEF Write
  <1>4. n \in 1..SendBufferSize /\ written[x] + n - Len(rcvd[p]) <= SendBufferSize
    BY <1>2, <1>3 DEF SendLen
  <1>5. /\ ~localClosed[x] /\ ~remoteClosed[x]
        /\ \E w \in Workloads : \A c \in Ends : written'[c] <= w[c]
        /\ UNCHANGED <<rcvd, consumed, localClosed, remoteClosed>>
    BY DEF Write
  <1>. QED  BY <1>1, <1>3, <1>4, <1>5 DEF Stream!Write

\* A step of an end is a step of the stream, or none.
LEMMA LocalStream ==
    ASSUME ConnInv, InOrder, NEW x \in Ends, Local(x)
    PROVE  Stream!Next \/ UNCHANGED Stream!svars
  <1>1. Stream!Ends = Ends /\ Stream!Peer(x) = Peer(x)
    BY DEF Stream!Peer, Peer, Stream!Ends, Ends
  <1>2. CASE Write(x)
    BY <1>1, <1>2, WritesStream DEF Stream!Next
  <1>3. CASE Read(x)
    <2>1. Stream!Read(x)
      BY <1>3 DEF Read, Stream!Read
    <2>. QED  BY <1>1, <2>1 DEF Stream!Next
  <1>4. CASE Close(x)
    <2>1. Stream!Close(x)
      BY <1>4 DEF Close, Stream!Close
    <2>. QED  BY <1>1, <2>1 DEF Stream!Next
  <1>5. CASE ReadData(x) \/ ReadStops(x) \/ ReadFails(x)
    BY <1>1, <1>5, ReceivesStream DEF Stream!Next
  <1>6. CASE ReadErrorTag(x)
    <2>1. UNCHANGED <<written, rcvd, consumed, localClosed>>
          /\ remoteClosed' = [remoteClosed EXCEPT ![x] = TRUE]
      BY <1>6 DEF ReadErrorTag
    <2>2. CASE localClosed[Peer(x)] /\ Len(rcvd[x]) = written[Peer(x)]
      <3>1. Stream!SeeEnd(x)
        BY <1>1, <2>1, <2>2 DEF Stream!SeeEnd
      <3>. QED  BY <1>1, <3>1 DEF Stream!Next
    <2>3. CASE remoteClosed' = remoteClosed
      BY <2>1, <2>3 DEF Stream!svars
    <2>. QED  BY <2>2, <2>3, EndSeen
  <1>7. CASE Attaching(x) \/ Handshake(x) \/ HandshakeFails(x) \/ ReadFrame(x) \/ Writing(x)
    <2>1. UNCHANGED <<written, rcvd, consumed, localClosed>>
      BY <1>7 DEF Attaching, RequestDetach, Abandon, Attach, AttachConn, Detach, Handshake,
                  HandshakeFails, ReadFrame, Writing, ChooseFrame, WriteFrame, WriteFails,
                  WriteStops, WriteErrorTag, buffers
    <2>2. remoteClosed' = remoteClosed
      <3>1. CASE Handshake(x)
        <4>1. ~ReadErrorTag(x)
          BY <3>1 DEF Handshake, ReadErrorTag
        <4>. QED  BY <4>1, EndSeen
      <3>2. CASE Attaching(x) \/ HandshakeFails(x) \/ ReadFrame(x) \/ Writing(x)
        BY <3>2 DEF Attaching, RequestDetach, Abandon, Attach, AttachConn, Detach,
                    HandshakeFails, ReadFrame, Writing, ChooseFrame, WriteFrame, WriteFails,
                    WriteStops, WriteErrorTag, buffers
      <3>. QED  BY <1>7, <3>1, <3>2
    <2>. QED  BY <2>1, <2>2 DEF Stream!svars
  <1>. QED  BY <1>2, <1>3, <1>4, <1>5, <1>6, <1>7 DEF Local, Reading

\* So is any other: the timers and the redial loop of the client can close an end.
LEMMA OutsideStream ==
    ASSUME Outside
    PROVE  Stream!Next \/ UNCHANGED Stream!svars
  <1>1. Client \in Stream!Ends /\ Server \in Stream!Ends
    BY DEF Stream!Ends
  <1>2. CASE ClientReturns
    <2>1. Stream!Close(Client)
      BY <1>2 DEF ClientReturns, Stream!Close
    <2>. QED  BY <1>1, <2>1 DEF Stream!Next
  <1>3. CASE ServerReturns \/ GraceTimeout
    <2>1. Stream!Close(Server)
      BY <1>3 DEF ServerReturns, GraceTimeout, Close, Stream!Close
    <2>. QED  BY <1>1, <2>1 DEF Stream!Next
  <1>4. CASE ~ClientReturns /\ ~ServerReturns /\ ~GraceTimeout
    BY <1>4 DEF Outside, Redialing, Dial, DialLost, PeriodicDialRefused, LastLost, ConnectionLost,
                Backoff, DialFails, GiveUp, ContextDone, Break, buffers, Stream!svars
  <1>. QED  BY <1>2, <1>3, <1>4

\* Where the handlers of an end attach in the order of the dials, the connection is
\* what it promises: whatever transports come and go, each program reads the bytes the
\* other wrote, each once and in order, and is told of the end only at the end.
THEOREM ConnectionIsStream ==
    ASSUME InOrder
    PROVE  Spec => ImplementsStream
  <1>1. Init => Stream!Init
    BY DEF Init, Stream!Init, Ends, Stream!Ends
  <1>2. ConnInv /\ [Next]_vars => [Stream!Next]_(Stream!svars)
    <2>. SUFFICES ASSUME ConnInv, [Next]_vars PROVE Stream!Next \/ UNCHANGED Stream!svars
      OBVIOUS
    <2>1. ASSUME NEW x \in Ends, Local(x) PROVE Stream!Next \/ UNCHANGED Stream!svars
      BY <2>1, LocalStream
    <2>2. CASE Outside
      BY <2>2, OutsideStream
    <2>3. CASE UNCHANGED vars
      BY <2>3 DEF vars, buffers, Stream!svars
    <2>. QED  BY <2>1, <2>2, <2>3 DEF Next, Local, Outside
  <1>. QED  BY <1>1, <1>2, ConnectionInvariant, PTL DEF Spec, ImplementsStream, Stream!Spec
===============================================================================
