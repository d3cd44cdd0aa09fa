----------------------------- MODULE ResumableConn -----------------------------
(***************************************************************************)
(* A resumable SSH connection of lib/resumption: two ends, the transports  *)
(* the client dials one after the other, and on each end the goroutines of *)
(* runResumeV1Unlocking (one that waits to attach, a read loop, a write    *)
(* loop), the redial loop of the client and the grace timeout of the       *)
(* server.                                                                 *)
(*                                                                         *)
(* A byte is known by its position in the stream, 1 being the first. Init  *)
(* is the state after the first exchange, when the first transport is      *)
(* attached on both ends.                                                  *)
(***************************************************************************)
EXTENDS Integers, Sequences

CONSTANTS
    Client, Server,
    Workloads,          \* bound: the numbers of bytes the two programs write
    MaxConns,           \* bound: transports the client dials
    SendBufferSize,
    ReceiveBufferSize,
    MaxFrame,           \* maxFrameSize
    ChannelSize,        \* messages a transport holds before a write blocks
    InOrder             \* the handlers of an end attach in the order of the dials

Ends == {Client, Server}

Peer(e) == IF e = Client THEN Server ELSE Client

Conns == 1..MaxConns

None == 0

ASSUME EndsDiffer == Client # Server
ASSUME WorkloadsNat == Workloads \subseteq [Ends -> Nat]
ASSUME MaxConnsPositive == MaxConns \in Nat \ {0}
ASSUME SizesPositive ==
    {SendBufferSize, ReceiveBufferSize, MaxFrame, ChannelSize} \subseteq Nat \ {0}
ASSUME InOrderBoolean == InOrder \in BOOLEAN

VARIABLES
    written,        \* sendBuffer.end
    acked,          \* sendBuffer.start
    rcvd,           \* what went through the receive buffer; its length is receiveBuffer.end
    consumed,       \* receiveBuffer.start
    localClosed,
    remoteClosed,
    waiting,        \* transports whose runResumeV1Unlocking has not attached
    attached,       \* the transport requestDetachLocked is about, or None
    stop,           \* stopRequested of that transport
    reader,         \* where its read loop is, and the data it has yet to read
    writer,         \* where its write loop is, its localPosition and peerPosition
    dialed,         \* transports dialed so far
    loop,           \* where runClientResumableUnlocking is
    current,        \* the transport whose goroutine it waits for
    tracked,        \* the server has an entry for the connection
    net             \* the transports: still working, and in flight to each end

buffers == <<written, acked, rcvd, consumed, localClosed, remoteClosed>>

handlers == <<waiting, attached, stop, reader, writer>>

control == <<dialed, loop, current, tracked>>

vars == <<buffers, handlers, control, net>>

-------------------------------------------------------------------------------
(* Buffers and transports *)

AtMost(a, b) == IF a <= b THEN a ELSE b

\* sendBuffer.len() and the room in it
SendLen(e) == written[e] - acked[e]

\* How much the read loop may put in the receive buffer.
Room(e) == ReceiveBufferSize - (Len(rcvd[e]) - consumed[e])

\* Data is copied from the send buffer to a frame by position.
Bytes(m, n) == [i \in 1..n |-> m + i]

\* Everything that arrived and was not yet read by the read loop.
Inbox(e) == net[attached[e]].to[e]

Position(p) == [kind |-> "position", at |-> p, data |-> <<>>]

Frame(ack, data) == [kind |-> "frame", at |-> ack, data |-> data]

ErrorTag == [kind |-> "errorTag", at |-> 0, data |-> <<>>]

\* What a message written by e on k does to the network.
Sent(e, k, m) ==
    IF net[k].up THEN [net EXCEPT ![k].to[Peer(e)] = Append(@, m)] ELSE net

\* nc.Close(), or a failure: from now on calls may fail on either end.
Broken(n, k) == [n EXCEPT ![k].up = FALSE]

\* The next message is read from the transport in use.
Taken(n, e) == [n EXCEPT ![attached[e]].to[e] = Tail(@)]

\* A write returns: there is room for it, or the transport will not deliver it.
WriteReturns(e) ==
    LET k == attached[e]
    IN  ~net[k].up \/ Len(net[k].to[Peer(e)]) < ChannelSize

Idle == [pc |-> "off", data |-> <<>>]

NoWriter == [pc |-> "off", ack |-> 0, size |-> 0, local |-> 0, peer |-> 0]

Init ==
    /\ written = [e \in Ends |-> 0]
    /\ acked = [e \in Ends |-> 0]
    /\ rcvd = [e \in Ends |-> <<>>]
    /\ consumed = [e \in Ends |-> 0]
    /\ localClosed = [e \in Ends |-> FALSE]
    /\ remoteClosed = [e \in Ends |-> FALSE]
    /\ waiting = [e \in Ends |-> {}]
    /\ attached = [e \in Ends |-> 1]
    /\ stop = [e \in Ends |-> FALSE]
    /\ reader = [e \in Ends |-> [Idle EXCEPT !.pc = "ack"]]
    /\ writer = [e \in Ends |-> [NoWriter EXCEPT !.pc = "ready"]]
    /\ dialed = 1
    /\ loop = "main"
    /\ current = 1
    /\ tracked = TRUE
    /\ net = [k \in Conns |-> [up |-> TRUE, to |-> [e \in Ends |-> <<>>]]]

-------------------------------------------------------------------------------
(* The program that uses the connection: managedConn *)

\* managedConn.Write, as far as the send buffer has room
Write(e) ==
    /\ ~localClosed[e]
    /\ ~remoteClosed[e]
    /\ \E n \in 1..(SendBufferSize - SendLen(e)) :
        written' = [written EXCEPT ![e] = @ + n]
    /\ \E w \in Workloads : \A c \in Ends : written'[c] <= w[c]
    /\ UNCHANGED <<acked, rcvd, consumed, localClosed, remoteClosed, handlers, control, net>>

\* managedConn.Read
Read(e) ==
    /\ ~localClosed[e]
    /\ \E n \in 1..(Len(rcvd[e]) - consumed[e]) :
        consumed' = [consumed EXCEPT ![e] = @ + n]
    /\ UNCHANGED <<written, acked, rcvd, localClosed, remoteClosed, handlers, control, net>>

\* managedConn.Close, by the program or by a timer
Close(e) ==
    /\ ~localClosed[e]
    /\ localClosed' = [localClosed EXCEPT ![e] = TRUE]
    /\ UNCHANGED <<written, acked, rcvd, consumed, remoteClosed, handlers, control, net>>

-------------------------------------------------------------------------------
(* runResumeV1Unlocking: attaching and detaching *)

RequestDetach_StopOnly(e) ==
    /\ waiting[e] # {}
    /\ attached[e] # None
    /\ ~remoteClosed[e]
    /\ ~stop[e]
    /\ stop' = [stop EXCEPT ![e] = TRUE]
    /\ UNCHANGED <<buffers, waiting, attached, reader, writer, control, net>>

\* A waiting handler detaches the transport in use.
RequestDetach(e) ==
    /\ waiting[e] # {}
    /\ attached[e] # None
    /\ ~remoteClosed[e]
    /\ ~stop[e] \/ net[attached[e]].up
    /\ stop' = [stop EXCEPT ![e] = TRUE]
    /\ net' = Broken(net, attached[e])
    /\ UNCHANGED <<buffers, waiting, attached, reader, writer, control>>

\* "resuming a connection already closed by the peer"
Abandon(e) ==
    /\ remoteClosed[e]
    /\ \E k \in waiting[e] :
        /\ waiting' = [waiting EXCEPT ![e] = @ \ {k}]
        /\ net' = Broken(net, k)
    /\ UNCHANGED <<buffers, attached, stop, reader, writer, control>>

LocalPosition_Read(e) == consumed[e]

\* receiveBuffer.end, which the peer is told and acknowledgements count from
LocalPosition(e) == Len(rcvd[e])

\* Attaches, and sends the local position.
AttachConn(e, k) ==
    /\ attached[e] = None
    /\ ~remoteClosed[e]
    /\ InOrder => \A j \in waiting[e] : k <= j
    /\ waiting' = [waiting EXCEPT ![e] = @ \ {k}]
    /\ attached' = [attached EXCEPT ![e] = k]
    /\ stop' = [stop EXCEPT ![e] = FALSE]
    /\ reader' = [reader EXCEPT ![e] = [Idle EXCEPT !.pc = "handshake"]]
    /\ writer' = [writer EXCEPT ![e] = [NoWriter EXCEPT !.local = LocalPosition(e)]]
    /\ net' = Sent(e, k, Position(LocalPosition(e)))
    /\ UNCHANGED <<buffers, control>>

Attach(e) == \E k \in waiting[e] : AttachConn(e, k)

\* Both loops have returned.
Detach(e) ==
    /\ attached[e] # None
    /\ reader[e].pc = "off"
    /\ writer[e].pc = "off"
    /\ attached' = [attached EXCEPT ![e] = None]
    /\ stop' = [stop EXCEPT ![e] = FALSE]
    /\ writer' = [writer EXCEPT ![e] = NoWriter]
    /\ net' = [Broken(net, attached[e]) EXCEPT ![attached[e]].to[e] = <<>>]
    /\ UNCHANGED <<buffers, waiting, reader, control>>

-------------------------------------------------------------------------------
(* resumeV1Handshake *)

\* peerPosition is one the send buffer can continue from.
Compatible(e, p) == acked[e] <= p /\ p <= written[e]

\* The peer's position arrives. One that is not compatible marks the connection
\* as closed by the peer.
Handshake(e) ==
    /\ reader[e].pc = "handshake"
    /\ Inbox(e) # <<>>
    /\ LET p == Head(Inbox(e)).at
           ok == Compatible(e, p)
       IN  /\ acked' = [acked EXCEPT ![e] = IF ok THEN p ELSE @]
           /\ remoteClosed' = [remoteClosed EXCEPT ![e] = @ \/ ~ok]
           /\ reader' = [reader EXCEPT ![e].pc = IF ok THEN "ack" ELSE "off"]
           /\ writer' = IF ok THEN [writer EXCEPT ![e].pc = "ready", ![e].peer = p] ELSE writer
           /\ net' = IF ok THEN Taken(net, e) ELSE Taken(Sent(e, attached[e], ErrorTag), e)
    /\ UNCHANGED <<written, rcvd, consumed, localClosed, waiting, attached, stop, control>>

\* An I/O error, or handshakeWatchdog
HandshakeFails(e) ==
    /\ reader[e].pc = "handshake"
    /\ reader' = [reader EXCEPT ![e] = Idle]
    /\ net' = Broken(net, attached[e])
    /\ UNCHANGED <<buffers, waiting, attached, stop, writer, control>>

-------------------------------------------------------------------------------
(* runResumeV1Read *)

\* The read loop returns: the transport is closed and the write loop told to stop.
ReaderExit(e, n) ==
    /\ reader' = [reader EXCEPT ![e] = Idle]
    /\ stop' = [stop EXCEPT ![e] = TRUE]
    /\ net' = Broken(n, attached[e])

\* A frame's acknowledgement and size
ReadFrame(e) ==
    /\ reader[e].pc = "ack"
    /\ Inbox(e) # <<>>
    /\ Head(Inbox(e)).kind = "frame"
    /\ LET m == Head(Inbox(e))
       IN  IF m.at <= SendLen(e) /\ Len(m.data) <= MaxFrame
           THEN /\ reader' = [reader EXCEPT ![e] =
                    [pc |-> IF m.data = <<>> THEN "ack" ELSE "data", data |-> m.data]]
                /\ net' = Taken(net, e)
                /\ UNCHANGED stop
           ELSE ReaderExit(e, Taken(net, e))
    /\ acked' = [acked EXCEPT ![e] =
            IF Head(Inbox(e)).at <= SendLen(e) THEN @ + Head(Inbox(e)).at ELSE @]
    /\ UNCHANGED <<written, rcvd, consumed, localClosed, remoteClosed>>
    /\ UNCHANGED <<waiting, attached, writer, control>>

\* "peer signaled connection close"
ReadErrorTag(e) ==
    /\ reader[e].pc = "ack"
    /\ Inbox(e) # <<>>
    /\ Head(Inbox(e)).kind = "errorTag"
    /\ remoteClosed' = [remoteClosed EXCEPT ![e] = TRUE]
    /\ ReaderExit(e, Taken(net, e))
    /\ UNCHANGED <<written, acked, rcvd, consumed, localClosed, waiting, attached, writer, control>>

\* The first n of the bytes still to be read go to the receive buffer, or are
\* thrown away once the connection is closed.
Receive(e, n) ==
    /\ rcvd' = [rcvd EXCEPT ![e] = @ \o SubSeq(reader[e].data, 1, n)]
    /\ consumed' = [consumed EXCEPT ![e] =
            IF localClosed[e] /\ reader[e].pc = "data" THEN Len(rcvd'[e]) ELSE @]

\* The data of a frame, in pieces that fit the receive buffer
ReadData(e) ==
    /\ reader[e].pc = "data"
    /\ ~stop[e]
    /\ \E n \in 1..Len(reader[e].data) :
        /\ IF localClosed[e] THEN n = Len(reader[e].data) ELSE n <= Room(e)
        /\ Receive(e, n)
        /\ reader' = [reader EXCEPT ![e] =
              IF n = Len(@.data) THEN [Idle EXCEPT !.pc = "ack"]
              ELSE [pc |-> "data", data |-> SubSeq(@.data, n + 1, Len(@.data))]]
    /\ UNCHANGED <<written, acked, localClosed, remoteClosed>>
    /\ UNCHANGED <<waiting, attached, stop, writer, control, net>>

\* A read that is under way when the loop ends counts as far as it came.
LastRead(e) ==
    \E n \in 0..Len(reader[e].data) :
        /\ localClosed[e] \/ n = 0 \/ n <= Room(e)
        /\ Receive(e, n)

\* "disconnection requested", seen before reading more data
ReadStops(e) ==
    /\ reader[e].pc = "data"
    /\ stop[e]
    /\ LastRead(e)
    /\ ReaderExit(e, net)
    /\ UNCHANGED <<written, acked, localClosed, remoteClosed>>
    /\ UNCHANGED <<waiting, attached, writer, control>>

\* An I/O error
ReadFails(e) ==
    /\ reader[e].pc \in {"ack", "data"}
    /\ ~net[attached[e]].up
    /\ reader[e].pc = "data" => localClosed[e] \/ Room(e) > 0
    /\ LastRead(e)
    /\ ReaderExit(e, net)
    /\ UNCHANGED <<written, acked, localClosed, remoteClosed>>
    /\ UNCHANGED <<waiting, attached, writer, control>>

-------------------------------------------------------------------------------
(* runResumeV1Write *)

ToAck_All(e) == Len(rcvd[e])

ToAck_Read(e) == consumed[e] - writer[e].local

\* What there is to acknowledge
ToAck(e) == Len(rcvd[e]) - writer[e].local

\* What there is to send
ToSend(e) == written[e] - writer[e].peer

ChooseFrame_AckOnly(e) ==
    /\ writer[e].pc = "ready"
    /\ ToAck(e) > 0
    /\ \E n \in 0..AtMost(ToSend(e), MaxFrame) :
        /\ ToSend(e) > 0 => n > 0
        /\ writer' = [writer EXCEPT ![e].pc = "frame", ![e].ack = ToAck(e), ![e].size = n]
    /\ UNCHANGED <<buffers, waiting, attached, stop, reader, control, net>>

\* A frame is put together under the lock.
ChooseFrame(e) ==
    /\ writer[e].pc = "ready"
    /\ ToAck(e) > 0 \/ ToSend(e) > 0
    /\ \E n \in 0..AtMost(ToSend(e), MaxFrame) :
        /\ ToSend(e) > 0 => n > 0
        /\ writer' = [writer EXCEPT ![e].pc = "frame", ![e].ack = ToAck(e), ![e].size = n]
    /\ UNCHANGED <<buffers, waiting, attached, stop, reader, control, net>>

Advanced_AckOnly(w) ==
    [NoWriter EXCEPT !.pc = "ready", !.local = w.local + w.ack, !.peer = w.peer]

\* Both positions advance by what the frame held.
Advanced(w) ==
    [NoWriter EXCEPT !.pc = "ready", !.local = w.local + w.ack, !.peer = w.peer + w.size]

\* The frame is written without the lock; then the positions advance.
WriteFrame(e) ==
    /\ writer[e].pc = "frame"
    /\ ~stop[e]     \* else this end has closed the transport
    /\ WriteReturns(e)
    /\ net' = Sent(e, attached[e],
              Frame(writer[e].ack, Bytes(writer[e].peer, writer[e].size)))
    /\ writer' = [writer EXCEPT ![e] = Advanced(@)]
    /\ UNCHANGED <<buffers, waiting, attached, stop, reader, control>>

\* The write loop returns; the transport stays open for the read loop.
WriterExit(e) ==
    /\ writer' = [writer EXCEPT ![e] = NoWriter]
    /\ stop' = [stop EXCEPT ![e] = TRUE]

WriteFails(e) ==
    /\ writer[e].pc = "frame"
    /\ ~net[attached[e]].up
    /\ WriterExit(e)
    /\ UNCHANGED <<buffers, waiting, attached, reader, control, net>>

\* Nothing to acknowledge or to send: a request to stop, or the peer gone
WriteStops(e) ==
    /\ writer[e].pc = "ready"
    /\ ToAck(e) = 0 /\ ToSend(e) = 0
    /\ stop[e] \/ remoteClosed[e]
    /\ WriterExit(e)
    /\ UNCHANGED <<buffers, waiting, attached, reader, control, net>>

WriteErrorTag_Silent(e) ==
    /\ writer[e].pc = "ready"
    /\ ToAck(e) = 0 /\ ToSend(e) = 0
    /\ ~stop[e] /\ ~remoteClosed[e] /\ localClosed[e]
    /\ WriterExit(e)
    /\ UNCHANGED <<buffers, waiting, attached, reader, control, net>>

\* Closed, and everything has been sent
WriteErrorTag(e) ==
    /\ writer[e].pc = "ready"
    /\ ToAck(e) = 0 /\ ToSend(e) = 0
    /\ ~stop[e] /\ ~remoteClosed[e] /\ localClosed[e]
    /\ WriteReturns(e)
    /\ WriterExit(e)
    /\ net' = Sent(e, attached[e], ErrorTag)
    /\ UNCHANGED <<buffers, waiting, attached, reader, control>>

-------------------------------------------------------------------------------
(* The client redials, the server keeps the entry *)

\* close(done) of goAttachResumableUnlocking
CurrentDone == current \notin waiting[Client] /\ attached[Client] # current

\* runClientResumableUnlocking dials: on a tick of reconnectTicker, long after
\* the handshake (replacementInterval against handshakeTimeout), while the
\* transport in use may be lost; or in the reconnection loop.
Dialing ==
    \/ loop = "main" /\ current \notin waiting[Client] /\ reader[Client].pc # "handshake"
    \/ loop = "backoff"

\* dialResumable succeeds: handlers for a new transport wait on both ends.
Dial ==
    /\ Dialing
    /\ tracked
    /\ dialed < MaxConns
    /\ dialed' = dialed + 1
    /\ current' = dialed + 1
    /\ loop' = "main"
    /\ waiting' = [e \in Ends |-> waiting[e] \union {dialed + 1}]
    /\ UNCHANGED <<buffers, attached, stop, reader, writer, tracked, net>>

\* The transport breaks before the server's answer reaches the client.
DialLost ==
    /\ Dialing
    /\ tracked
    /\ dialed < MaxConns
    /\ dialed' = dialed + 1
    /\ waiting' = [waiting EXCEPT ![Server] = @ \union {dialed + 1}]
    /\ net' = Broken(net, dialed + 1)
    /\ loop' = IF loop = "backoff" THEN "redial" ELSE loop
    /\ UNCHANGED <<buffers, attached, stop, reader, writer, current, tracked>>

\* runClientResumableUnlocking returns, and closes the connection.
ClientReturns ==
    /\ loop' = "done"
    /\ localClosed' = [localClosed EXCEPT ![Client] = TRUE]
    /\ UNCHANGED <<written, acked, rcvd, consumed, remoteClosed, handlers>>
    /\ UNCHANGED <<dialed, current, tracked, net>>

\* On a tick the server refuses for good (no such connection, another address,
\* an expired certificate): no more dials, but the transport in use is kept.
PeriodicDialRefused ==
    /\ Dialing
    /\ loop = "main"
    /\ loop' = "last"
    /\ UNCHANGED <<buffers, handlers, dialed, current, tracked, net>>

LastLost == loop = "last" /\ CurrentDone /\ ClientReturns

\* "connection lost, starting reconnection loop"
ConnectionLost ==
    /\ loop = "main"
    /\ CurrentDone
    /\ loop' = "redial"
    /\ UNCHANGED <<buffers, handlers, dialed, current, tracked, net>>

\* The connection is not closed: wait, then dial whatever happens meanwhile.
Backoff ==
    /\ loop = "redial"
    /\ ~localClosed[Client]
    /\ loop' = "backoff"
    /\ UNCHANGED <<buffers, handlers, dialed, current, tracked, net>>

\* "reconnection attempt failed", without effect on the server
DialFails ==
    /\ loop = "backoff"
    /\ loop' = "redial"
    /\ UNCHANGED <<buffers, handlers, dialed, current, tracked, net>>

\* A connection that was closed or reconnectTimeout, or a refused dial
GiveUp == loop \in {"redial", "backoff"} /\ ClientReturns

\* ctx.Done()
ContextDone == loop # "done" /\ ClientReturns

\* sshServer returns: the entry is deleted and the connection closed.
ServerReturns ==
    /\ tracked
    /\ tracked' = FALSE
    /\ localClosed' = [localClosed EXCEPT ![Server] = TRUE]
    /\ UNCHANGED <<written, acked, rcvd, consumed, remoteClosed, handlers>>
    /\ UNCHANGED <<dialed, loop, current, net>>

\* connEntry.timeout, set when the last handler is gone
GraceTimeout ==
    /\ waiting[Server] = {}
    /\ attached[Server] = None
    /\ Close(Server)

\* A transport dies.
Break(k) ==
    /\ k <= dialed
    /\ net[k].up
    /\ net' = Broken(net, k)
    /\ UNCHANGED <<buffers, handlers, control>>

-------------------------------------------------------------------------------

Attaching(e) == RequestDetach(e) \/ Abandon(e) \/ Attach(e) \/ Detach(e)

Reading(e) ==
    \/ Handshake(e) \/ HandshakeFails(e)
    \/ ReadFrame(e) \/ ReadErrorTag(e) \/ ReadData(e) \/ ReadStops(e) \/ ReadFails(e)

Writing(e) ==
    \/ ChooseFrame(e) \/ WriteFrame(e) \/ WriteFails(e)
    \/ WriteStops(e) \/ WriteErrorTag(e)

Redialing ==
    \/ Dial \/ DialLost \/ PeriodicDialRefused
    \/ LastLost \/ ConnectionLost \/ Backoff \/ DialFails \/ GiveUp \/ ContextDone

Next ==
    \/ \E e \in Ends :
        \/ Write(e) \/ Read(e) \/ Close(e)
        \/ Attaching(e) \/ Reading(e) \/ Writing(e)
    \/ Redialing
    \/ ServerReturns \/ GraceTimeout
    \/ \E k \in Conns : Break(k)

Spec == Init /\ [][Next]_vars

\* Goroutines run, programs read what there is to read, a server that sees its
\* connection end returns and closes it, timers fire.
Fairness ==
    /\ \A e \in Ends :
        /\ WF_vars(Read(e))
        /\ WF_vars(Attaching(e))
        /\ WF_vars(Reading(e))
        /\ WF_vars(Writing(e))
    /\ WF_vars(ConnectionLost)
    /\ WF_vars(loop # "main" /\ (Dial \/ GiveUp))
    /\ WF_vars(LastLost)
    /\ WF_vars(ServerReturns /\ (localClosed[Server] \/ remoteClosed[Server]))
    /\ WF_vars(GraceTimeout)

FairSpec == Spec /\ Fairness

-------------------------------------------------------------------------------

TypeOK ==
    /\ written \in [Ends -> Nat]
    /\ acked \in [Ends -> Nat]
    /\ rcvd \in [Ends -> Seq(Nat)]
    /\ consumed \in [Ends -> Nat]
    /\ localClosed \in [Ends -> BOOLEAN]
    /\ remoteClosed \in [Ends -> BOOLEAN]
    /\ waiting \in [Ends -> SUBSET Conns]
    /\ attached \in [Ends -> Conns \union {None}]
    /\ stop \in [Ends -> BOOLEAN]
    /\ reader \in [Ends -> [pc : {"off", "handshake", "ack", "data"}, data : Seq(Nat)]]
    /\ writer \in [Ends -> [pc : {"off", "ready", "frame"}, ack : Nat, size : Nat,
                            local : Nat, peer : Nat]]
    /\ dialed \in Conns
    /\ loop \in {"main", "redial", "backoff", "last", "done"}
    /\ current \in Conns
    /\ tracked \in BOOLEAN
    /\ net \in [Conns ->
        [up : BOOLEAN,
         to : [Ends -> Seq([kind : {"position", "frame", "errorTag"},
                            at : Nat, data : Seq(Nat)])]]]

\* Whatever transports come and go, the two ends see a stream: no byte is lost,
\* repeated or out of order, the end of the stream is reported only to an end
\* that has received everything its peer wrote before closing, and what is
\* in doubt never exceeds the send buffer.
Stream == INSTANCE ByteStream WITH
    Window <- SendBufferSize,
    sent <- written, got <- rcvd, taken <- consumed,
    closed <- localClosed, eof <- remoteClosed

ImplementsStream == Stream!Spec

\* The write loop only ever looks for data the send buffer still holds, so that
\* "skip" (peerPosition - sendBuffer.start, an unsigned subtraction) does not
\* wrap, even though the read loop moves the start of the buffer meanwhile.
PeerPositionInBuffer ==
    \A e \in Ends : writer[e].pc = "ready" =>
        acked[e] <= writer[e].peer /\ writer[e].peer <= written[e]

\* An acknowledgement is never larger than the send buffer it is about: the
\* read loop never ends a transport with "got ack bigger than current send buffer".
AcksFit ==
    \A e \in Ends : reader[e].pc = "ack" /\ Inbox(e) # <<>> /\ Head(Inbox(e)).kind = "frame"
        => Head(Inbox(e)).at <= SendLen(e)

\* A connection is taken for closed by the peer only if the peer closed it and
\* everything it had written arrived; a handshake never ends a connection
\* that both programs still use.
EndMeansEnd ==
    \A e \in Ends : remoteClosed[e] =>
        localClosed[Peer(e)] /\ Len(rcvd[e]) = written[Peer(e)]

\* Every byte written arrives, unless an end is closed: no wait of a loop, of a
\* handler that wants to attach, or of a full buffer or transport is for ever.
EverythingArrives ==
    \A e \in Ends : \A n \in UNION {1..w[e] : w \in Workloads} :
        written[e] >= n ~> Len(rcvd[Peer(e)]) >= n \/ \E c \in Ends : localClosed[c]

\* When one end is closed the other learns of it or is closed too.
CloseIsNoticed ==
    \A e \in Ends : localClosed[e] ~> remoteClosed[Peer(e)] \/ localClosed[Peer(e)]

\* When both ends are closed no transport stays attached and no handler waits.
TransportsReleased ==
    (\A e \in Ends : localClosed[e])
        ~> [](\A e \in Ends : attached[e] = None /\ waiting[e] = {})
===============================================================================
