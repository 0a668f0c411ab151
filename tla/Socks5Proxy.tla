----------------------------- MODULE Socks5Proxy -----------------------------
(***************************************************************************)
(* The local SOCKS/HTTP listener that carries connections over ordinary    *)
(* sockets: Socks5Proxy (src/core/network/socks5-proxy.ts) in front of the *)
(* direct egress and SOCKS5 upstream channels (direct-tcp-channel.ts,      *)
(* socks5-upstream.ts, socket-io.ts).  SshChannel models the same listener *)
(* in front of an SSH channel, from an open tunnel on.                     *)
(*                                                                         *)
(* A client's stream is a fixed sequence of units that arrives in pieces   *)
(* of any size: the request, which the listener reads itself, then what    *)
(* must reach the far end, then, after an HTTP request's body, what must   *)
(* not.  The hard parts are the moments between two reads, between the     *)
(* request and the channel, and the ends of the two halves: a socket is    *)
(* paused, a slot or a queue is held, and each must be undone on every     *)
(* path.                                                                   *)
(***************************************************************************)
EXTENDS Naturals, Sequences, FiniteSets, SequencesExt

CONSTANTS
  Conn,             \* client connections
  Kinds,            \* the kinds of request they make
  MaxConnections,   \* maxConnections
  MaxPending,       \* maxPendingChannelOpens
  MaxQueue,         \* maxQueuedSocketBytes
  MaxTotalQueue,    \* maxTotalQueuedSocketBytes
  Window,           \* readWindowBytes of a socket-backed channel
  MaxAnswer         \* units a far end answers with

VARIABLES
  running,          \* the server listens
  others,           \* what connections outside Conn hold: sockets, pending opens, queued bytes
  conn,             \* each connection, its socket and its channel
  pendingChannelOpens,
  totalQueuedSocketBytes

vars == <<running, others, conn, pendingChannelOpens, totalQueuedSocketBytes>>

-----------------------------------------------------------------------------
(* The requests. *)

Forwarded == {"none", "length", "chunked", "bad"}       \* http-forward, by the framing of its body
Tunnel    == {"socks", "connect"}

\* h: the request; d: data; s1, s0: a chunk's size; c, l: CR and LF; e: the empty trailer; x: another request.
Stream(kind) ==
  CASE kind \in Tunnel    -> <<"h", "h", "d", "d">>
    [] kind = "none"      -> <<"h", "h", "x">>
    [] kind = "length"    -> <<"h", "d", "d", "x">>
    [] kind = "chunked"   -> <<"h", "s1", "d", "c", "l", "s0", "e", "x">>
    [] kind = "bad"       -> <<"h", "s1", "d", "d">>

HeadOf(kind) == Len(SelectSeq(Stream(kind), LAMBDA u : u = "h"))

\* What the far end must get of the first n units; 0 stands for the rewritten header.
Wanted(kind, n) ==
  (IF kind \in Forwarded THEN <<0>> ELSE <<>>)
    \o SelectSeq([i \in 1..n |-> i], LAMBDA i : Stream(kind)[i] \notin {"h", "x"})

\* describeHttpForwardBody and the gate's first state.
GateOf(kind) ==
  CASE kind \in Tunnel -> [state |-> "stream", left |-> 0]
    [] kind = "none"   -> [state |-> "done", left |-> 0]
    [] kind = "length" -> [state |-> "content", left |-> 2]
    [] OTHER           -> [state |-> "size", left |-> 0]

\* One unit of the body through HttpForwardBodyGate.
GateStep(g, u) ==
  CASE g.state \in {"stream", "done", "thrown"} -> g
    [] g.state = "content" -> IF g.left = 1 THEN [state |-> "done", left |-> 0] ELSE [g EXCEPT !.left = @ - 1]
    [] g.state = "size"    -> CASE u = "s1" -> [state |-> "data", left |-> 1]
                                [] u = "s0" -> [state |-> "trailers", left |-> 0]
                                [] OTHER    -> [g EXCEPT !.state = "thrown"]
    [] g.state = "data"    -> IF g.left = 1 THEN [state |-> "cr", left |-> 0] ELSE [g EXCEPT !.left = @ - 1]
    [] g.state = "cr"      -> [g EXCEPT !.state = IF u = "c" THEN "lf" ELSE "thrown"]
    [] g.state = "lf"      -> [g EXCEPT !.state = IF u = "l" THEN "size" ELSE "thrown"]
    [] g.state = "trailers" -> [g EXCEPT !.state = IF u = "e" THEN "done" ELSE @]

\* consume: what of a piece belongs to the request, and the gate after it.
consume(kind, gate, piece) ==
  FoldLeft(LAMBDA r, i : [gate |-> GateStep(r.gate, Stream(kind)[i]),
                          forward |-> IF r.gate.state = "done" THEN r.forward ELSE Append(r.forward, i)],
           [gate |-> gate, forward |-> <<>>], piece)

Piece(from, to) == [i \in 1..(to - from) |-> from + i]

-----------------------------------------------------------------------------
(* A connection. *)

\* The client's half: sent and fin, taken by the listener.  Upward: paused, gate, complete, step of the first
\* writes, the write in progress, what the far end has, its end.  Downward: answered and farFin, read by the
\* channel, unacknowledged, held (pausedForBackpressure), queue of pieces, ending (endSocketAfterQueuedWrites).
New ==
  [phase |-> "new", kind |-> "none", sock |-> "open", sent |-> 0, fin |-> FALSE, taken |-> 0,
   chan |-> "none", step |-> "no", paused |-> FALSE, gate |-> GateOf("none"), complete |-> FALSE,
   writing |-> <<>>, up |-> <<>>, upEnd |-> "no", replied |-> FALSE, out |-> <<>>,
   answered |-> 0, farFin |-> FALSE, read |-> 0, unack |-> 0, held |-> FALSE, queue |-> <<>>, ending |-> FALSE]

\* The kinds of state of each part.
TypeOK ==
  /\ running \in BOOLEAN
  /\ pendingChannelOpens \in 0..MaxPending
  /\ totalQueuedSocketBytes \in 0..MaxTotalQueue
  /\ \A c \in Conn :
       /\ conn[c].phase \in {"new", "reading", "opening", "on", "failing", "over"}
       /\ conn[c].sock \in {"open", "ended", "gone"}
       /\ conn[c].chan \in {"none", "open", "closing", "closed"}
       /\ conn[c].step \in {"no", "head", "body"}
       /\ conn[c].upEnd \in {"no", "asked", "fin"}
       /\ conn[c].taken <= conn[c].sent /\ conn[c].read <= conn[c].answered

Init ==
  /\ running = TRUE /\ conn = [c \in Conn |-> New]
  /\ others \in [sockets : {0, MaxConnections}, pending : {0, MaxPending}, queued : {0, 1}]
  /\ pendingChannelOpens = others.pending /\ totalQueuedSocketBytes = others.queued

Put(c, r) == conn' = [conn EXCEPT ![c] = r]
Queued(r) == FoldLeft(LAMBDA n, p : n + p, 0, r.queue)
sockets == {c \in Conn : conn[c].phase \in {"reading", "opening", "on"} /\ conn[c].sock # "gone"}

\* Mutant: the close handler does not close the channel.
destroyedOnly(r) ==
  [r EXCEPT !.sock = "gone", !.phase = IF @ = "opening" THEN @ ELSE "over"]

\* socket.destroy and its close event: the handshake is rejected, the opening is aborted, or the channel is closed.
destroyed(r) ==
  [r EXCEPT !.sock = "gone", !.phase = IF @ = "opening" THEN @ ELSE "over",
            !.chan = IF @ = "open" THEN "closing" ELSE @]

\* The catch of handleSocket: a failure reply unless one was sent or the socket is gone, then end and destroy.
failed(r) ==
  IF r.sock = "gone" THEN [r EXCEPT !.phase = "over"]
  ELSE IF r.sock = "ended" /\ ~r.replied THEN destroyed(r)
  ELSE [r EXCEPT !.phase = "failing", !.sock = "ended",
                 !.out = IF r.replied THEN @ ELSE Append(@, <<"reply", "fail">>)]

-----------------------------------------------------------------------------
(* The request. *)

\* A connection is accepted, or dropped at the limit.
Accept(c, kind) ==
  /\ running /\ conn[c].phase = "new"
  /\ Put(c, IF Cardinality(sockets) + others.sockets >= MaxConnections THEN destroyed([New EXCEPT !.kind = kind])
            ELSE [New EXCEPT !.phase = "reading", !.kind = kind])
  /\ UNCHANGED <<running, others, pendingChannelOpens, totalQueuedSocketBytes>>

\* readSocketChunk: a piece arrives while the request is being read.  The greeting of SOCKS5 is answered, and
\* refused when it does not offer "no authentication"; the request is complete, unusable, or one too many.
ReadRequest(c) ==
  LET r == conn[c]
      got == [r EXCEPT !.taken = r.sent, !.paused = TRUE,
                       !.out = IF r.kind = "socks" /\ r.taken = 0 THEN Append(@, <<"reply", "method">>) ELSE @] IN
  /\ r.phase = "reading" /\ r.taken < r.sent
  /\ \/ r.sent < HeadOf(r.kind) /\ Put(c, got) /\ UNCHANGED pendingChannelOpens
     \/ r.kind = "socks" /\ r.taken = 0
        /\ Put(c, failed([r EXCEPT !.taken = r.sent, !.out = <<<<"reply", "refused">>>>, !.replied = TRUE]))
        /\ UNCHANGED pendingChannelOpens
     \/ r.sent >= HeadOf(r.kind)
        /\ \/ Put(c, failed(got)) /\ UNCHANGED pendingChannelOpens
           \/ pendingChannelOpens < MaxPending /\ Put(c, [got EXCEPT !.phase = "opening"])
              /\ pendingChannelOpens' = pendingChannelOpens + 1
  /\ UNCHANGED <<running, others, totalQueuedSocketBytes>>

\* The handshake deadline destroys the socket; a client that only half-closed is ended by it too.
HandshakeDeadline(c) ==
  /\ conn[c].phase = "reading"
  /\ Put(c, destroyed(conn[c]))
  /\ UNCHANGED <<running, others, pendingChannelOpens, totalQueuedSocketBytes>>

-----------------------------------------------------------------------------
(* The channel is opened. *)

\* onEndWhileOpening: the client's end is seen, with nothing left to read, before the channel is there.
EndWhileOpening(c) ==
  /\ conn[c].phase = "opening" /\ conn[c].sock = "open" /\ conn[c].fin /\ conn[c].taken = conn[c].sent
  /\ Put(c, destroyed(conn[c]))
  /\ UNCHANGED <<running, others, pendingChannelOpens, totalQueuedSocketBytes>>

\* releasePendingOpen.
releasePendingOpen(r) == pendingChannelOpens - 1

\* waitForConnect or performSocks5Handshake fails, times out or is aborted.
OpenFails(c) ==
  /\ conn[c].phase = "opening"
  /\ pendingChannelOpens' = releasePendingOpen(conn[c])
  /\ Put(c, failed(conn[c]))
  /\ UNCHANGED <<running, others, totalQueuedSocketBytes>>

\* HandshakeReader.release: units that came with the upstream proxy's reply are given back to the socket.
release(r, k) == [r EXCEPT !.answered = k]

\* What the request carried is written first: the rewritten header, or what followed a tunnel's request.
firstWrite(r) ==
  LET rest == Piece(HeadOf(r.kind), r.taken) IN
  CASE r.kind \in Forwarded -> [r EXCEPT !.writing = <<0>>, !.step = "head"]
    [] rest # <<>>          -> [r EXCEPT !.writing = rest, !.step = "body"]
    [] OTHER                -> [r EXCEPT !.paused = FALSE]

\* connectChannel has given a channel, with k units of the answer already there.  It is closed at once when the
\* client is gone; otherwise the tunnel is announced, except for a forwarded HTTP request, and its data start.
Opened(c, k) ==
  LET r == conn[c]
      open == [release(r, k) EXCEPT !.phase = "on", !.chan = "open", !.gate = GateOf(r.kind),
                                    !.replied = r.kind \in Tunnel,
                                    !.out = IF r.kind \in Tunnel THEN Append(@, <<"reply", "ok">>) ELSE @] IN
  /\ r.phase = "opening"
  /\ pendingChannelOpens' = pendingChannelOpens - 1
  /\ Put(c, IF r.sock = "gone" THEN [r EXCEPT !.phase = "over", !.chan = "closing"] ELSE firstWrite(open))
  /\ UNCHANGED <<running, others, totalQueuedSocketBytes>>

-----------------------------------------------------------------------------
(* Towards the far end. *)

\* forwardClientData: write what the gate lets through, or throw.
forwarded(r, piece) ==
  LET got == consume(r.kind, r.gate, piece)
      next == [r EXCEPT !.gate = got.gate, !.writing = got.forward, !.complete = got.gate.state = "done"] IN
  IF got.gate.state = "thrown" THEN IF r.step = "no" THEN destroyed(r) ELSE failed([r EXCEPT !.writing = <<>>])
  ELSE IF got.forward # <<>> THEN next
  ELSE [next EXCEPT !.step = "no", !.paused = next.complete]

\* writeToChannel: the socket is paused while a piece is written.
ClientData(c) ==
  LET r == conn[c] IN
  /\ r.phase = "on" /\ r.sock # "gone" /\ ~r.paused /\ r.taken < r.sent
  /\ Put(c, forwarded([r EXCEPT !.taken = r.sent, !.paused = TRUE], Piece(r.taken, r.sent)))
  /\ UNCHANGED <<running, others, pendingChannelOpens, totalQueuedSocketBytes>>

\* The write is done: the body that came with the header follows, or the socket reads on unless the request ended.
afterWrite(r) ==
  IF r.phase # "on" THEN [r EXCEPT !.writing = <<>>]
  ELSE IF r.step = "head" THEN forwarded([r EXCEPT !.step = "body"], Piece(HeadOf(r.kind), r.taken))
  ELSE [r EXCEPT !.writing = <<>>, !.step = "no", !.paused = r.complete]

\* SocketBackedChannel.write: a socket that is no longer writable takes nothing and reports no failure.
ChannelWritten(c) ==
  LET r == conn[c] IN
  /\ r.writing # <<>>
  /\ Put(c, afterWrite([r EXCEPT !.up = IF r.chan \in {"open", "closing"} /\ r.upEnd # "fin"
                                        THEN @ \o r.writing ELSE @]))
  /\ UNCHANGED <<running, others, pendingChannelOpens, totalQueuedSocketBytes>>

\* The write times out, or the far socket closes under it.
ChannelWriteFails(c) ==
  LET r == [conn[c] EXCEPT !.writing = <<>>] IN
  /\ conn[c].writing # <<>>
  /\ Put(c, IF r.phase # "on" THEN r ELSE IF r.step = "no" THEN destroyed(r) ELSE failed(r))
  /\ UNCHANGED <<running, others, pendingChannelOpens, totalQueuedSocketBytes>>

\* The client's end is seen once everything before it was read.
ClientEnd(c) ==
  LET r == conn[c] IN
  /\ r.phase = "on" /\ r.sock # "gone" /\ r.fin /\ r.taken = r.sent /\ r.upEnd = "no"
  /\ Put(c, [r EXCEPT !.upEnd = "asked"])
  /\ UNCHANGED <<running, others, pendingChannelOpens, totalQueuedSocketBytes>>

\* end and close wait for the write queue.
flushed(r) == r.writing = <<>>

\* end: the far end is told that nothing more comes.
ChannelEnds(c) ==
  /\ conn[c].upEnd = "asked" /\ conn[c].chan = "open" /\ flushed(conn[c])
  /\ Put(c, [conn[c] EXCEPT !.upEnd = "fin"])
  /\ UNCHANGED <<running, others, pendingChannelOpens, totalQueuedSocketBytes>>

\* close: the far socket is destroyed.
ChannelCloses(c) ==
  /\ conn[c].chan = "closing" /\ conn[c].writing = <<>>
  /\ Put(c, [conn[c] EXCEPT !.chan = "closed"])
  /\ UNCHANGED <<running, others, pendingChannelOpens, totalQueuedSocketBytes>>

-----------------------------------------------------------------------------
(* Towards the client. *)

\* The far socket's data event and enqueueSocketWrite: reading stops when too much is outstanding, and a queue
\* over its limit costs the connection.
FarData(c) ==
  LET r == conn[c]
      n == r.answered - r.read
      taken == [r EXCEPT !.read = r.answered, !.unack = @ + n, !.held = @ \/ r.unack + n >= Window] IN
  /\ r.chan = "open" /\ ~r.held /\ n > 0
  /\ \/ r.sock # "open" /\ Put(c, taken) /\ UNCHANGED totalQueuedSocketBytes
     \/ r.sock = "open" /\ Queued(r) + n <= MaxQueue /\ totalQueuedSocketBytes + n <= MaxTotalQueue
        /\ Put(c, [taken EXCEPT !.queue = Append(@, n)]) /\ totalQueuedSocketBytes' = totalQueuedSocketBytes + n
     \/ r.sock = "open" /\ (Queued(r) + n > MaxQueue \/ totalQueuedSocketBytes + n > MaxTotalQueue)
        /\ Put(c, destroyed(taken)) /\ UNCHANGED totalQueuedSocketBytes
  /\ UNCHANGED <<running, others, pendingChannelOpens>>

\* acknowledgeData: reading resumes at half the window.
acknowledgeData(r, n) ==
  LET left == r.unack - n IN [r EXCEPT !.unack = left, !.held = @ /\ 2 * left > Window]

Bytes(r, n) == [i \in 1..n |-> <<"unit", r.read - Queued(r) + i>>]

\* The finally of a queued write.
unqueued(r) == totalQueuedSocketBytes - Head(r.queue)

\* The queue's next piece is written and acknowledged; it is passed over when the socket is not writable.
QueueWrites(c) ==
  LET r == conn[c]
      n == Head(r.queue)
      rest == [r EXCEPT !.queue = Tail(@)] IN
  /\ r.queue # <<>>
  /\ Put(c, IF r.sock = "open" THEN acknowledgeData([rest EXCEPT !.out = @ \o Bytes(r, n)], n) ELSE rest)
  /\ totalQueuedSocketBytes' = unqueued(r)
  /\ UNCHANGED <<running, others, pendingChannelOpens>>

\* The client does not read: the write times out and the socket is destroyed.
QueueWriteFails(c) ==
  /\ conn[c].queue # <<>> /\ conn[c].sock = "open"
  /\ Put(c, destroyed([conn[c] EXCEPT !.queue = Tail(@)]))
  /\ totalQueuedSocketBytes' = totalQueuedSocketBytes - Head(conn[c].queue)
  /\ UNCHANGED <<running, others, pendingChannelOpens>>

\* The far end's end is seen once its data were read.
FarEnd(c) ==
  /\ conn[c].chan = "open" /\ conn[c].farFin /\ conn[c].read = conn[c].answered /\ ~conn[c].ending
  /\ Put(c, [conn[c] EXCEPT !.ending = TRUE])
  /\ UNCHANGED <<running, others, pendingChannelOpens, totalQueuedSocketBytes>>

\* endSocketAfterQueuedWrites.
drained(r) == r.queue = <<>>

EndSocket(c) ==
  /\ conn[c].ending /\ drained(conn[c]) /\ conn[c].sock = "open"
  /\ Put(c, [conn[c] EXCEPT !.sock = "ended"])
  /\ UNCHANGED <<running, others, pendingChannelOpens, totalQueuedSocketBytes>>

\* A socket closes when both halves have ended, or when a failure reply was flushed.
SocketCloses(c) ==
  LET r == conn[c] IN
  /\ r.sock = "ended" /\ (r.phase = "failing" \/ (r.fin /\ r.taken = r.sent))
  /\ Put(c, destroyed(r))
  /\ UNCHANGED <<running, others, pendingChannelOpens, totalQueuedSocketBytes>>

-----------------------------------------------------------------------------
(* The two ends, and stop. *)

ClientSends(c, n) ==
  LET r == conn[c] IN
  /\ r.phase \in {"reading", "opening", "on"} /\ r.sock # "gone" /\ ~r.fin
  /\ r.sent + n <= Len(Stream(r.kind))
  /\ Put(c, [r EXCEPT !.sent = @ + n])
  /\ UNCHANGED <<running, others, pendingChannelOpens, totalQueuedSocketBytes>>

ClientFinishes(c) ==
  LET r == conn[c] IN
  /\ r.phase \in {"reading", "opening", "on"} /\ r.sock # "gone" /\ ~r.fin
  /\ Put(c, [r EXCEPT !.fin = TRUE])
  /\ UNCHANGED <<running, others, pendingChannelOpens, totalQueuedSocketBytes>>

ClientResets(c) ==
  /\ conn[c].phase \in {"reading", "opening", "on", "failing"} /\ conn[c].sock # "gone"
  /\ Put(c, destroyed(conn[c]))
  /\ UNCHANGED <<running, others, pendingChannelOpens, totalQueuedSocketBytes>>

FarSends(c, n) ==
  LET r == conn[c] IN
  /\ r.chan = "open" /\ ~r.farFin /\ r.answered + n <= MaxAnswer
  /\ Put(c, [r EXCEPT !.answered = @ + n])
  /\ UNCHANGED <<running, others, pendingChannelOpens, totalQueuedSocketBytes>>

FarFinishes(c) ==
  /\ conn[c].chan = "open" /\ ~conn[c].farFin
  /\ Put(c, [conn[c] EXCEPT !.farFin = TRUE])
  /\ UNCHANGED <<running, others, pendingChannelOpens, totalQueuedSocketBytes>>

\* The far socket breaks: onError destroys the client's.
FarBreaks(c) ==
  /\ conn[c].chan = "open"
  /\ Put(c, [destroyed(conn[c]) EXCEPT !.chan = "closed"])
  /\ UNCHANGED <<running, others, pendingChannelOpens, totalQueuedSocketBytes>>

\* stop: every listed socket is destroyed, and nothing is accepted any more.
stop ==
  /\ running
  /\ running' = FALSE
  /\ conn' = [c \in Conn |-> IF c \in sockets THEN destroyed(conn[c]) ELSE conn[c]]
  /\ UNCHANGED <<others, pendingChannelOpens, totalQueuedSocketBytes>>

Next ==
  \/ stop
  \/ \E c \in Conn :
       \/ \E kind \in Kinds : Accept(c, kind)
       \/ ReadRequest(c) \/ HandshakeDeadline(c) \/ EndWhileOpening(c) \/ OpenFails(c)
       \/ \E k \in 0..1 : Opened(c, k)
       \/ ClientData(c) \/ ChannelWritten(c) \/ ChannelWriteFails(c) \/ ClientEnd(c) \/ ChannelEnds(c)
       \/ ChannelCloses(c) \/ FarData(c) \/ QueueWrites(c) \/ QueueWriteFails(c) \/ FarEnd(c) \/ EndSocket(c)
       \/ SocketCloses(c) \/ ClientFinishes(c) \/ ClientResets(c) \/ FarFinishes(c) \/ FarBreaks(c)
       \/ \E n \in 1..3 : ClientSends(c, n) \/ FarSends(c, n)

Spec == Init /\ [][Next]_vars

-----------------------------------------------------------------------------
(* Properties. *)

UnitsOut(r) == SelectSeq(r.out, LAMBDA o : o[1] = "unit")

\* The far end gets what the client sent for it, in order, without a gap, and nothing of a request that follows;
\* when it is told that no more comes, it has all of it.  The client gets the answer in order, and all of it
\* before its socket is ended.
StreamsAreWhole ==
  \A c \in Conn : LET r == conn[c] IN
    r.chan # "none" =>
      /\ IsPrefix(r.up, Wanted(r.kind, r.sent))
      /\ r.upEnd = "fin" /\ r.sock # "gone" /\ r.phase = "on" => r.up = Wanted(r.kind, r.sent)
      /\ UnitsOut(r) = [i \in 1..Len(UnitsOut(r)) |-> <<"unit", i>>]
      /\ r.phase = "on" /\ r.sock = "ended" => r.farFin /\ Len(UnitsOut(r)) = r.answered

\* A tunnel's client is told once how its request went, before the first unit of the answer.
OneReply ==
  \A c \in Conn : LET r == conn[c] IN
    r.kind \in Tunnel =>
      /\ Len(SelectSeq(r.out, LAMBDA o : o \in {<<"reply", "ok">>, <<"reply", "fail">>, <<"reply", "refused">>})) <= 1
      /\ \A i \in DOMAIN r.out : r.out[i][1] = "unit" => \E j \in 1..(i - 1) : r.out[j] = <<"reply", "ok">>

\* Every slot of the two limits belongs to a connection that still uses it.
SlotsAreReturned ==
  /\ pendingChannelOpens = others.pending + Cardinality({c \in Conn : conn[c].phase = "opening"})
  /\ totalQueuedSocketBytes = others.queued + MapThenSumSet(LAMBDA c : Queued(conn[c]), Conn)

\* No direction of an open connection is left waiting for nothing: a paused client has a write in progress or a
\* finished request, and a held far end has units still to be written.
NothingStalls ==
  \A c \in Conn : LET r == conn[c] IN
    r.phase = "on" /\ r.sock = "open" /\ r.chan = "open" =>
      /\ r.paused => r.writing # <<>> \/ r.complete
      /\ r.held => r.queue # <<>>

\* A channel does not outlive its client's socket.
NoOrphanChannel ==
  \A c \in Conn : conn[c].phase = "over" => conn[c].chan # "open"

\* What the listener owes its connections: whole streams, one reply, free slots, no stall and no orphan.
ConnectionsAreServed ==
  StreamsAreWhole /\ OneReply /\ SlotsAreReturned /\ NothingStalls /\ NoOrphanChannel
=============================================================================
