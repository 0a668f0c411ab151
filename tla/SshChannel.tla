----------------------------- MODULE SshChannel -----------------------------
(***************************************************************************)
(* One direct-tcpip channel of an SSH session: the channel's state in      *)
(* src/src/core/ssh/channel-state.ts and session-state.ts, its opening,    *)
(* writing, delivery and closing in live-client.ts, the consumer that      *)
(* socks5-proxy.ts puts on top of it, and a server that keeps RFC 4254.    *)
(*                                                                         *)
(* Only what the two ends tell apart is kept of the messages: how many     *)
(* bytes of DATA and of window are on their way, and whether an EOF or a   *)
(* CLOSE is.  DATA, EOF and CLOSE keep their order on the wire (the        *)
(* transport's ordinary queue), so an EOF arrives after all the data and a *)
(* CLOSE last of all; a WINDOW_ADJUST may overtake data.  A frame is any   *)
(* nonempty part of what may be sent.                                      *)
(*                                                                         *)
(* The program runs on one thread.  All packets of one TCP chunk are       *)
(* handled before any promise continues: that is why messages may arrive   *)
(* between the confirmation of an open and the moment its consumer         *)
(* attaches.                                                               *)
(***************************************************************************)
EXTENDS Integers

CONSTANTS
  LocalMax,    \* localWindowMaximum: the receive window
  RemoteMax,   \* the window the server grants, and returns as it reads
  MaxWrite,    \* the longest single write of the local application
  MaxPending   \* MAX_PENDING_CHANNEL_EVENTS

ASSUME SshChannelAssumption ==
  /\ LocalMax \in Nat \ {0}
  /\ RemoteMax \in Nat \ {0}
  /\ MaxWrite \in Nat \ {0}
  /\ MaxPending \in Nat \ {0}

VARIABLES
  session,       \* the SSH session: "up", or why it ended
  life,          \* ChannelState.lifecycle; "gone" once removed from the map
  localWindow, acked, remoteWindow,
  opener,        \* how far openDirectTcpIpChannel and its caller are
  delivery,      \* ChannelDeliveryState: "none", "pending" or "ready"
  pendingBytes, pendingEnd, pendingClose, pendingCount,
  sock,          \* the local application's socket
  handed,        \* bytes handed to that socket and not acknowledged yet
  told,          \* the consumer has seen end, close or error
  writer,        \* writeChannelDataFlowControlled: "idle", "build", "send", "wait"
  upload,        \* bytes of the write not framed yet
  frames,        \* bytes framed and not sent yet
  lost,          \* why the consumer's socket was given up, if it was
  closed,        \* SshDirectTcpIpChannel.closed
  ending,        \* end(): "no", "sent" or "failed"
  closing,       \* close(): "no", "asked", "eof" or "done"
  upOpen, upData, upAdjust, upEof, upClose,                \* to the server
  dnReply, dnData, dnAdjust, dnEof, dnClose,               \* to the client
  sentEof, sentClose,                                      \* by the client, ever
  srv, srvWindow, srvGrant, srvEof, srvClose, srvGotClose  \* the server

channel  == <<life, localWindow, acked, remoteWindow>>
buffered == <<delivery, pendingBytes, pendingEnd, pendingClose, pendingCount>>
consumer == <<sock, handed, told, lost>>
writing  == <<writer, upload, frames>>
wrapper  == <<closed, ending, closing>>
up       == <<upOpen, upData, upAdjust, upEof, upClose, sentEof, sentClose>>
down     == <<dnReply, dnData, dnAdjust, dnEof, dnClose>>
server   == <<srv, srvWindow, srvGrant, srvEof, srvClose, srvGotClose>>
vars     == <<session, channel, opener, buffered, consumer, writing, wrapper, up,
              down, server>>

-----------------------------------------------------------------------------
(* Lifecycles of a channel that is confirmed and still in the map. *)
Live == {"open", "eof-sent", "eof-received", "closed"}

Endings == {"eof", "timeout", "channel", "ack"}

PhasesOK ==
  /\ session \in {"up", "down", "broken", "overflow"}
  /\ life \in {"none", "opening", "gone"} \cup Live
  /\ opener \in {"none", "sent", "confirmed", "attached", "discarded", "failed"}
  /\ delivery \in {"none", "pending", "ready"}
  /\ sock \in {"open", "destroyed", "closed"}
  /\ lost \in {"no"} \cup Endings
  /\ writer \in {"idle", "build", "send", "wait"}
  /\ ending \in {"no", "sent", "failed"}
  /\ closing \in {"no", "asked", "eof", "done"}
  /\ dnReply \in {"none", "confirm", "fail"}
  /\ srv \in {"none", "open", "refused"}

CountsOK ==
  /\ localWindow \in Nat /\ acked \in Nat /\ remoteWindow \in Nat
  /\ pendingBytes \in Nat /\ pendingCount \in Nat /\ handed \in Nat
  /\ upload \in Nat /\ frames \in Nat
  /\ upData \in Nat /\ upAdjust \in Nat /\ dnData \in Nat /\ dnAdjust \in Nat
  /\ sentEof \in Nat /\ sentClose \in Nat
  /\ srvWindow \in Nat /\ srvGrant \in Nat

FlagsOK ==
  /\ pendingEnd \in BOOLEAN /\ pendingClose \in BOOLEAN
  /\ told \in BOOLEAN /\ closed \in BOOLEAN
  /\ upOpen \in BOOLEAN /\ upEof \in BOOLEAN /\ upClose \in BOOLEAN
  /\ dnEof \in BOOLEAN /\ dnClose \in BOOLEAN
  /\ srvEof \in BOOLEAN /\ srvClose \in BOOLEAN /\ srvGotClose \in BOOLEAN

(* The values each variable takes; no counter, the windows above all, goes below
   zero. *)
TypeOK == PhasesOK /\ CountsOK /\ FlagsOK

(* The local application's connection has been accepted; no channel yet. *)
Init ==
  /\ session = "up"
  /\ life = "none" /\ localWindow = 0 /\ acked = 0 /\ remoteWindow = 0
  /\ opener = "none"
  /\ delivery = "none" /\ pendingBytes = 0 /\ pendingCount = 0
  /\ pendingEnd = FALSE /\ pendingClose = FALSE
  /\ sock = "open" /\ handed = 0 /\ told = FALSE /\ lost = "no"
  /\ writer = "idle" /\ upload = 0 /\ frames = 0
  /\ closed = FALSE /\ ending = "no" /\ closing = "no"
  /\ upOpen = FALSE /\ upData = 0 /\ upAdjust = 0 /\ upEof = FALSE /\ upClose = FALSE
  /\ dnReply = "none" /\ dnData = 0 /\ dnAdjust = 0 /\ dnEof = FALSE /\ dnClose = FALSE
  /\ sentEof = 0 /\ sentClose = 0
  /\ srv = "none" /\ srvWindow = 0 /\ srvGrant = 0
  /\ srvEof = FALSE /\ srvClose = FALSE /\ srvGotClose = FALSE

-----------------------------------------------------------------------------
(* Pieces of the handlers *)

IsUp == session = "up"

(* deleteChannelDelivery *)
DeleteDelivery ==
  /\ delivery' = "none"
  /\ pendingBytes' = 0 /\ pendingCount' = 0
  /\ pendingEnd' = FALSE /\ pendingClose' = FALSE

(* The proxy destroys the local socket; what was queued for it is dropped. *)
DestroySocket(why) ==
  /\ sock' = IF sock = "open" THEN "destroyed" ELSE sock
  /\ lost' = IF sock = "open" THEN why ELSE lost
  /\ handed' = 0

(* The write in hand rejects, and the proxy gives its socket up for it. *)
WriteFails(why) ==
  /\ writer' = "idle" /\ upload' = 0 /\ frames' = 0
  /\ DestroySocket(why)

(* SSH_MSG_CHANNEL_EOF and SSH_MSG_CHANNEL_CLOSE of the client *)
SendEof   == upEof' = TRUE /\ sentEof' = sentEof + 1
SendClose == upClose' = TRUE /\ sentClose' = sentClose + 1

(* markEofSent *)
AfterEofSent == IF life = "eof-received" THEN "closed" ELSE "eof-sent"

(* markEofReceived *)
AfterEofReceived == IF life = "eof-sent" THEN "closed" ELSE "eof-received"

(* The session ends (a DISCONNECT, a transport error, a message that is
   refused): waiters are rejected, and clearChannelDeliveries tells the
   consumers that are attached.  The pending open fails as Abandon does. *)
EndSession(why) ==
  /\ session' = why
  /\ IF opener = "sent" THEN opener' = "failed" /\ life' = "gone"
                        ELSE UNCHANGED <<opener, life>>
  /\ DeleteDelivery
  /\ IF opener = "sent" \/ writer = "wait" \/ delivery = "ready"
     THEN DestroySocket("channel") ELSE UNCHANGED <<sock, lost, handed>>
  /\ told' = (told \/ (delivery = "ready" /\ sock # "closed"))
  /\ IF writer = "wait"
     THEN writer' = "idle" /\ upload' = 0 /\ frames' = 0 ELSE UNCHANGED writing
  /\ UNCHANGED <<localWindow, acked, remoteWindow, wrapper, up, server>>

-----------------------------------------------------------------------------
(* Opening *)

(* openDirectTcpIpChannel up to its wait: the state is created with its whole
   receive window, its delivery holds events back, CHANNEL_OPEN is queued. *)
Open ==
  /\ IsUp /\ opener = "none" /\ sock = "open"
  /\ opener' = "sent"
  /\ life' = "opening" /\ localWindow' = LocalMax
  /\ delivery' = "pending"
  /\ upOpen' = TRUE
  /\ UNCHANGED <<session, acked, remoteWindow, pendingBytes, pendingEnd, pendingClose,
                 pendingCount, consumer, writing, wrapper, upData, upAdjust, upEof,
                 upClose, sentEof, sentClose, down, server>>

(* The open times out or its caller goes away.  A CHANNEL_OPEN still queued is
   withdrawn, one already written stays; abortChannel has no remote id to close. *)
Abandon ==
  /\ IsUp /\ opener = "sent"
  /\ opener' = "failed"
  /\ life' = "gone"
  /\ DeleteDelivery
  /\ upOpen' \in {FALSE, upOpen}
  /\ DestroySocket("timeout")
  /\ UNCHANGED <<session, localWindow, acked, remoteWindow, told, writing, wrapper,
                 upData, upAdjust, upEof, upClose, sentEof, sentClose, down, server>>

(* CHANNEL_OPEN_CONFIRMATION; one for an abandoned open is answered by CLOSE. *)
ReceiveConfirm ==
  /\ IsUp /\ dnReply = "confirm"
  /\ dnReply' = "none"
  /\ IF life = "opening"
     THEN /\ life' = "open" /\ remoteWindow' = RemoteMax /\ opener' = "confirmed"
          /\ UNCHANGED <<upClose, sentClose>>
     ELSE SendClose /\ UNCHANGED <<life, remoteWindow, opener>>
  /\ UNCHANGED <<session, localWindow, acked, buffered, consumer, writing, wrapper,
                 upOpen, upData, upAdjust, upEof, sentEof, dnData, dnAdjust, dnEof,
                 dnClose, server>>

(* CHANNEL_OPEN_FAILURE *)
ReceiveFail ==
  /\ IsUp /\ dnReply = "fail"
  /\ dnReply' = "none"
  /\ IF life = "opening"
     THEN life' = "gone" /\ opener' = "failed" /\ DeleteDelivery /\ DestroySocket("channel")
     ELSE UNCHANGED <<life, opener, buffered, sock, lost, handed>>
  /\ UNCHANGED <<session, localWindow, acked, remoteWindow, told, writing, wrapper, up,
                 dnData, dnAdjust, dnEof, dnClose, server>>

(* The caller goes on, attaches its listeners, and in the next microtask the
   events held back are delivered (markChannelConsumerReady). *)
Attach ==
  /\ opener = "confirmed" /\ sock = "open"
  /\ opener' = "attached"
  /\ delivery' = IF delivery = "none" \/ pendingClose THEN "none" ELSE "ready"
  /\ handed' = pendingBytes
  /\ told' = (pendingEnd \/ pendingClose)
  /\ closed' = pendingClose
  /\ pendingBytes' = 0 /\ pendingCount' = 0 /\ pendingEnd' = FALSE /\ pendingClose' = FALSE
  /\ UNCHANGED <<session, channel, sock, lost, writing, ending, closing, up, down, server>>

(* The caller goes on and finds its socket gone: it only closes the channel. *)
Discard ==
  /\ opener = "confirmed" /\ sock # "open"
  /\ opener' = "discarded"
  /\ closed' = TRUE /\ closing' = "asked"
  /\ UNCHANGED <<session, channel, buffered, consumer, writing, ending, up, down, server>>

-----------------------------------------------------------------------------
(* Messages of the server *)

(* bufferChannelDelivery has no room left; the error ends the session. *)
Overflows == delivery = "pending" /\ pendingCount >= MaxPending

(* deliverChannelEvent reaches a socket that still takes data. *)
Reaches == delivery = "ready" /\ sock = "open"

(* requireCanReceive, and the bound of consumeLocalWindow *)
MayReceive(n) == life \in {"open", "eof-sent"} /\ n <= localWindow

(* CHANNEL_DATA; what has no window or no direction is a fatal error. *)
ReceiveData(n) ==
  /\ IsUp /\ dnReply = "none"
  /\ dnData' = dnData - n
  /\ IF life \in {"none", "gone"}
     THEN UNCHANGED <<session, channel, opener, buffered, consumer, writing, wrapper, up,
                      server>>
     ELSE IF ~MayReceive(n) THEN EndSession("broken")
     ELSE IF Overflows THEN EndSession("overflow")
     ELSE /\ localWindow' = localWindow - n
          /\ pendingBytes' = IF delivery = "pending" THEN pendingBytes + n ELSE pendingBytes
          /\ pendingCount' = IF delivery = "pending" THEN pendingCount + 1 ELSE pendingCount
          /\ handed' = IF Reaches THEN handed + n ELSE handed
          /\ UNCHANGED <<session, life, acked, remoteWindow, opener, delivery, pendingEnd,
                         pendingClose, sock, told, lost, writing, wrapper, up, server>>
  /\ UNCHANGED <<dnReply, dnAdjust, dnEof, dnClose>>

(* mutant: the window granted replaces the window left *)
ReceiveAdjustReplaces(n) ==
  /\ IsUp /\ dnReply = "none"
  /\ dnAdjust' = dnAdjust - n
  /\ remoteWindow' = IF life \in Live THEN n ELSE remoteWindow
  /\ writer' = IF life \in Live /\ writer = "wait" THEN "build" ELSE writer
  /\ UNCHANGED <<session, life, localWindow, acked, opener, buffered, consumer, upload,
                 frames, wrapper, up, dnReply, dnData, dnEof, dnClose, server>>

(* CHANNEL_WINDOW_ADJUST: a write that waits for the window goes on. *)
ReceiveAdjust(n) ==
  /\ IsUp /\ dnReply = "none"
  /\ dnAdjust' = dnAdjust - n
  /\ remoteWindow' = IF life \in Live THEN remoteWindow + n ELSE remoteWindow
  /\ writer' = IF life \in Live /\ writer = "wait" THEN "build" ELSE writer
  /\ UNCHANGED <<session, life, localWindow, acked, opener, buffered, consumer, upload,
                 frames, wrapper, up, dnReply, dnData, dnEof, dnClose, server>>

(* CHANNEL_EOF: the consumer sees the end; a write that waits rejects. *)
ReceiveEof ==
  /\ IsUp /\ dnReply = "none" /\ dnEof /\ dnData = 0
  /\ dnEof' = FALSE
  /\ IF life \in {"none", "gone"}
     THEN UNCHANGED <<session, channel, opener, buffered, consumer, writing, wrapper, up,
                      server>>
     ELSE IF Overflows THEN EndSession("overflow")
     ELSE
        /\ life' = AfterEofReceived
        /\ pendingEnd' = (delivery = "pending" \/ pendingEnd)
        /\ pendingCount' = IF delivery = "pending" THEN pendingCount + 1 ELSE pendingCount
        /\ told' = (told \/ delivery = "ready")
        /\ IF writer = "wait" THEN WriteFails("eof")
                              ELSE UNCHANGED <<writing, sock, lost, handed>>
        /\ UNCHANGED <<session, localWindow, acked, remoteWindow, opener, delivery,
                       pendingBytes, pendingClose, wrapper, up, server>>
  /\ UNCHANGED <<dnReply, dnData, dnAdjust, dnClose>>

(* CHANNEL_CLOSE: answered by exactly one CLOSE, the channel is removed. *)
ReceiveClose ==
  /\ IsUp /\ dnReply = "none" /\ dnClose /\ dnData = 0 /\ ~dnEof /\ dnAdjust = 0
  /\ dnClose' = FALSE
  /\ IF life \in {"none", "gone"}
     THEN UNCHANGED <<session, channel, opener, buffered, consumer, writing, wrapper, up,
                      server>>
     ELSE IF Overflows THEN EndSession("overflow")
     ELSE
        /\ life' = "gone"
        /\ SendClose
        /\ pendingClose' = (delivery = "pending")
        /\ pendingCount' = IF delivery = "pending" THEN pendingCount + 1 ELSE pendingCount
        /\ delivery' = IF delivery = "ready" THEN "none" ELSE delivery
        /\ told' = (told \/ delivery = "ready")
        /\ closed' = (closed \/ (delivery = "ready" /\ sock # "closed"))
        /\ IF writer = "wait" THEN WriteFails("channel")
                              ELSE UNCHANGED <<writing, sock, lost, handed>>
        /\ UNCHANGED <<session, localWindow, acked, remoteWindow, opener, pendingBytes,
                       pendingEnd, ending, closing, upOpen, upData, upAdjust, upEof,
                       sentEof, server>>
  /\ UNCHANGED <<dnReply, dnData, dnAdjust, dnEof>>

(* A DISCONNECT, or the transport fails. *)
SessionEnds ==
  /\ IsUp
  /\ EndSession("down")
  /\ UNCHANGED down

-----------------------------------------------------------------------------
(* The local application, through the proxy *)

(* The proxy pauses the socket and writes what it read.  A channel the server
   has closed refuses the write, and the proxy gives its socket up. *)
AppWrite(n) ==
  /\ opener = "attached" /\ sock = "open" /\ ending = "no"
  /\ writer = "idle"
  /\ IF closed THEN DestroySocket("channel") /\ UNCHANGED <<writer, upload>>
               ELSE writer' = "build" /\ upload' = n /\ UNCHANGED <<sock, lost, handed>>
  /\ UNCHANGED <<session, channel, opener, buffered, told, frames, wrapper, up, down,
                 server>>

(* requireCanSend *)
CanSend == life \in {"open", "eof-received"}

(* mutant: the window does not bound what is framed *)
FramedWhole == upload

(* What buildChannelDataFrames takes of the write. *)
Framed == IF upload <= remoteWindow THEN upload ELSE remoteWindow

(* buildChannelDataFrames; with no window left the write waits for it. *)
Build ==
  /\ writer = "build"
  /\ IF ~CanSend \/ ~IsUp
     THEN WriteFails("channel") /\ UNCHANGED remoteWindow
     ELSE /\ writer' = IF Framed = 0 THEN "wait" ELSE "send"
          /\ frames' = Framed
          /\ upload' = upload - Framed
          /\ remoteWindow' = remoteWindow - Framed
          /\ UNCHANGED <<sock, lost, handed>>
  /\ UNCHANGED <<session, life, localWindow, acked, opener, buffered, told, wrapper, up,
                 down, server>>

(* sendChannelRuntimePayload looks for the channel before each frame. *)
MaySend == life \in Live /\ IsUp

Send(n) ==
  /\ writer = "send" /\ n <= frames
  /\ MaySend
  /\ upData' = upData + n
  /\ frames' = frames - n
  /\ writer' = IF frames' > 0 THEN "send" ELSE IF upload > 0 THEN "build" ELSE "idle"
  /\ UNCHANGED <<session, channel, opener, buffered, consumer, upload, wrapper, upOpen,
                 upAdjust, upEof, upClose, sentEof, sentClose, down, server>>

SendFails ==
  /\ writer = "send"
  /\ ~MaySend
  /\ WriteFails("channel")
  /\ UNCHANGED <<session, channel, opener, buffered, told, wrapper, up, down, server>>

(* waitForChannelWriteWindow gives up. *)
WindowTimeout ==
  /\ writer = "wait"
  /\ WriteFails("timeout")
  /\ UNCHANGED <<session, channel, opener, buffered, told, wrapper, up, down, server>>

(* mutant: the wrong direction's EOF stops the window *)
ReturnedUntilOwnEof(n) ==
  IF life = "eof-sent" \/ localWindow > LocalMax \div 2 THEN 0 ELSE acked + n

(* What acknowledgeChannelData returns to the server: nothing above half a
   window or after its EOF, everything acknowledged so far otherwise. *)
Returned(n) ==
  IF life = "eof-received" \/ localWindow > LocalMax \div 2 THEN 0 ELSE acked + n

(* acknowledgeLocalData throws *)
AckRejects(n) == ~closed /\ (life \notin Live \/ n > LocalMax - localWindow - acked)

(* n bytes have been written to the socket, and are acknowledged. *)
AppAck(n) ==
  /\ sock = "open"
  /\ IF AckRejects(n)
     THEN DestroySocket("ack") /\ UNCHANGED <<localWindow, acked, upAdjust>>
     ELSE /\ handed' = handed - n
          /\ IF closed
             THEN UNCHANGED <<localWindow, acked, upAdjust>>
             ELSE /\ localWindow' = localWindow + Returned(n)
                  /\ acked' = IF Returned(n) = 0 THEN acked + n ELSE 0
                  /\ upAdjust' = upAdjust + Returned(n)
          /\ UNCHANGED <<sock, lost>>
  /\ UNCHANGED <<session, life, remoteWindow, opener, buffered, told, writing, wrapper,
                 upOpen, upData, upEof, upClose, sentEof, sentClose, down, server>>

(* The application half-closes: end().  The socket reads on only between
   writes, so none is under way. *)
AppEnd ==
  /\ opener = "attached" /\ sock = "open" /\ ~closed /\ ending = "no"
  /\ writer = "idle"
  /\ life' = IF life \in Live THEN AfterEofSent ELSE life
  /\ IF life \in Live /\ IsUp
     THEN SendEof /\ ending' = "sent" /\ UNCHANGED <<sock, lost, handed>>
     ELSE DestroySocket("channel") /\ ending' = "failed" /\ UNCHANGED <<upEof, sentEof>>
  /\ UNCHANGED <<session, localWindow, acked, remoteWindow, opener, buffered, told,
                 writing, closed, closing, upOpen, upData, upAdjust, upClose, sentClose,
                 down, server>>

(* The application resets, or the proxy's own limits destroy the socket. *)
AppResets ==
  /\ sock = "open"
  /\ opener # "none"
  /\ sock' = "destroyed" /\ handed' = 0
  /\ UNCHANGED <<session, channel, opener, buffered, told, lost, writing, wrapper, up,
                 down, server>>

(* The socket's close event: the listeners go and the channel is closed.  While
   the channel opens, it is Abandon that follows. *)
SocketCloses ==
  /\ sock = "destroyed" /\ opener # "sent"
  /\ sock' = "closed"
  /\ IF opener = "attached" /\ ~closed
     THEN closed' = TRUE /\ closing' = "asked" ELSE UNCHANGED <<closed, closing>>
  /\ UNCHANGED <<session, channel, opener, buffered, handed, told, lost, writing, ending,
                 up, down, server>>

(* close() once the end and the writes have settled: closeDirectChannel sends
   EOF unless end() did. *)
CloseSendsEof ==
  /\ closing = "asked" /\ writer = "idle"
  /\ closing' = "eof"
  /\ life' = IF life \in Live /\ ending # "sent" THEN AfterEofSent ELSE life
  /\ IF life \in Live /\ ending # "sent" /\ IsUp THEN SendEof ELSE UNCHANGED <<upEof, sentEof>>
  /\ UNCHANGED <<session, localWindow, acked, remoteWindow, opener, buffered, consumer,
                 writing, closed, ending, upOpen, upData, upAdjust, upClose, sentClose,
                 down, server>>

(* Once the EOF is written: CLOSE, unless the server's came in between. *)
CloseSendsClose ==
  /\ closing = "eof"
  /\ closing' = "done"
  /\ DeleteDelivery
  /\ life' = "gone"
  /\ IF life \in Live /\ IsUp THEN SendClose ELSE UNCHANGED <<upClose, sentClose>>
  /\ UNCHANGED <<session, localWindow, acked, remoteWindow, opener, consumer, writing,
                 closed, ending, upOpen, upData, upAdjust, upEof, sentEof, down, server>>

-----------------------------------------------------------------------------
(* The server, which keeps RFC 4254 *)

client == <<session, channel, opener, buffered, consumer, writing, wrapper, sentEof,
            sentClose>>

ServerOpens ==
  /\ IsUp /\ upOpen
  /\ upOpen' = FALSE
  /\ \/ srv' = "open" /\ srvWindow' = LocalMax /\ srvGrant' = RemoteMax /\ dnReply' = "confirm"
     \/ srv' = "refused" /\ dnReply' = "fail" /\ UNCHANGED <<srvWindow, srvGrant>>
  /\ UNCHANGED <<client, upData, upAdjust, upEof, upClose, dnData, dnAdjust, dnEof,
                 dnClose, srvEof, srvClose, srvGotClose>>

Serving == IsUp /\ srv = "open" /\ ~srvClose

ServerSends(n) ==
  /\ Serving /\ ~srvEof /\ n <= srvWindow
  /\ dnData' = dnData + n
  /\ srvWindow' = srvWindow - n
  /\ UNCHANGED <<client, upOpen, upData, upAdjust, upEof, upClose, dnReply, dnAdjust,
                 dnEof, dnClose, srv, srvGrant, srvEof, srvClose, srvGotClose>>

ServerSendsEof ==
  /\ Serving /\ ~srvEof
  /\ srvEof' = TRUE /\ dnEof' = TRUE
  /\ UNCHANGED <<client, upOpen, upData, upAdjust, upEof, upClose, dnReply, dnData,
                 dnAdjust, dnClose, srv, srvWindow, srvGrant, srvClose, srvGotClose>>

ServerSendsClose ==
  /\ Serving
  /\ srvClose' = TRUE /\ dnClose' = TRUE
  /\ UNCHANGED <<client, upOpen, upData, upAdjust, upEof, upClose, dnReply, dnData,
                 dnAdjust, dnEof, srv, srvWindow, srvGrant, srvEof, srvGotClose>>

(* It returns window for what it has read. *)
ServerGrants(n) ==
  /\ Serving
  /\ srvGrant' = srvGrant + n /\ dnAdjust' = dnAdjust + n
  /\ UNCHANGED <<client, upOpen, upData, upAdjust, upEof, upClose, dnReply, dnData,
                 dnEof, dnClose, srv, srvWindow, srvEof, srvClose, srvGotClose>>

ServerReads(n) ==
  /\ IsUp
  /\ upData' = upData - n
  /\ srvGrant' = srvGrant - n
  /\ UNCHANGED <<client, upOpen, upAdjust, upEof, upClose, down, srv, srvWindow, srvEof,
                 srvClose, srvGotClose>>

ServerReadsAdjust(n) ==
  /\ IsUp
  /\ upAdjust' = upAdjust - n
  /\ srvWindow' = srvWindow + n
  /\ UNCHANGED <<client, upOpen, upData, upEof, upClose, down, srv, srvGrant, srvEof,
                 srvClose, srvGotClose>>

ServerReadsEof ==
  /\ IsUp /\ upEof /\ upData = 0
  /\ upEof' = FALSE
  /\ UNCHANGED <<client, upOpen, upData, upAdjust, upClose, down, server>>

ServerReadsClose ==
  /\ IsUp /\ upClose /\ upData = 0 /\ ~upEof /\ upAdjust = 0
  /\ upClose' = FALSE
  /\ srvGotClose' = TRUE /\ srvClose' = TRUE
  /\ dnClose' = (dnClose \/ ~srvClose)
  /\ UNCHANGED <<client, upOpen, upData, upAdjust, upEof, dnReply, dnData, dnAdjust,
                 dnEof, srv, srvWindow, srvGrant, srvEof>>

-----------------------------------------------------------------------------
ReceiveSomeData == \E n \in 1..dnData : ReceiveData(n)
ReceiveSomeAdjust == \E n \in 1..dnAdjust : ReceiveAdjust(n)
Receive ==
  ReceiveConfirm \/ ReceiveFail \/ ReceiveSomeData \/ ReceiveSomeAdjust \/ ReceiveEof
    \/ ReceiveClose

SendSome == \E n \in 1..frames : Send(n)
AckSome == \E n \in 1..handed : AppAck(n)
Continue ==
  Attach \/ Discard \/ Build \/ SendSome \/ SendFails \/ SocketCloses \/ CloseSendsEof
    \/ CloseSendsClose

ServerReadsSome == \E n \in 1..upData : ServerReads(n)
ServerReadsSomeAdjust == \E n \in 1..upAdjust : ServerReadsAdjust(n)
ServerReceives ==
  ServerOpens \/ ServerReadsSome \/ ServerReadsSomeAdjust \/ ServerReadsEof
    \/ ServerReadsClose

ServerActs ==
  \/ ServerSendsEof \/ ServerSendsClose
  \/ \E n \in 1..srvWindow : ServerSends(n)
  \/ \E n \in 1..(RemoteMax - srvGrant) : ServerGrants(n)

App ==
  \/ Open \/ Abandon \/ AppEnd \/ AppResets \/ WindowTimeout \/ SessionEnds
  \/ \E n \in 1..MaxWrite : AppWrite(n)

Next == Receive \/ Continue \/ AckSome \/ App \/ ServerReceives \/ ServerActs

(* Each kind of message under way is read, in its turn; a promise whose value is
   there continues; the timers of an open and of a write that waits run out; what
   is queued for the local socket is written, or its write timeout (120 s)
   destroys the socket.  Neither the application nor the server has to act. *)
Fairness ==
  /\ WF_vars(ReceiveConfirm) /\ WF_vars(ReceiveFail)
  /\ WF_vars(ReceiveSomeData) /\ WF_vars(ReceiveSomeAdjust)
  /\ WF_vars(ReceiveEof) /\ WF_vars(ReceiveClose)
  /\ WF_vars(Continue) /\ WF_vars(AckSome)
  /\ WF_vars(Abandon) /\ WF_vars(WindowTimeout)
  /\ WF_vars(ServerOpens) /\ WF_vars(ServerReadsSome) /\ WF_vars(ServerReadsSomeAdjust)
  /\ WF_vars(ServerReadsEof) /\ WF_vars(ServerReadsClose)

Spec == Init /\ [][Next]_vars

FairSpec == Spec /\ Fairness

-----------------------------------------------------------------------------
(* Safety *)

(* The consumer still takes what the channel delivers. *)
ConsumerLives == opener \in {"sent", "confirmed", "attached"} /\ sock = "open"

(* Both ends count the same windows.  What the server believes it may still
   send, with the data and the WINDOW_ADJUSTs under way, is the client's
   localWindow; what the client believes, with what it has framed and what is
   under way, is what the server has granted (consumeLocalWindow,
   replenishAcknowledgedLocalWindow, consumeRemoteWindow, expandRemoteWindow). *)
WindowsAgree ==
  /\ IsUp /\ life \in Live => srvWindow + dnData + upAdjust = localWindow
  /\ IsUp /\ life \in Live => remoteWindow + frames + upData + dnAdjust = srvGrant
  /\ IsUp => upData <= srvGrant

(* No byte of the receive window is forgotten: while the local socket is there,
   every byte received is held back for it, queued for it, acknowledged and
   waiting to be returned, or returned (bufferChannelDelivery,
   markChannelConsumerReady, acknowledgeLocalData). *)
WindowAccounted ==
  IsUp /\ life \in Live /\ ConsumerLives =>
    localWindow + acked + handed + pendingBytes = LocalMax

(* The client never takes a message of a conforming server for a protocol
   error, which would end every other channel of the session too
   (requireCanReceive, consumeLocalWindow). *)
NoProtocolFailure == session # "broken"

(* A server that may not send any more has something to wait for: bytes the
   local application has still to read.  An acknowledgement that left the window
   at or below one half with nothing outstanding would never be followed by
   another one (the threshold in acknowledgeChannelData). *)
NeverStarved ==
  IsUp /\ life \in {"open", "eof-sent"} /\ ConsumerLives
    /\ localWindow <= LocalMax \div 2 => handed + pendingBytes > 0

(* A write waits only for a window that is empty: the WINDOW_ADJUST that fills it
   wakes the write (waitForChannelWriteWindow, flushChannelWaiters). *)
NoLostWakeup == IsUp /\ life \in Live /\ writer = "wait" => remoteWindow = 0

(* acknowledgeLocalData never turns down the proxy: what a socket acknowledges
   it has received before, on a channel that is still known. *)
AckAccepted == lost # "ack"

(* A channel the client has forgotten is not left open at the server: a CLOSE is
   on its way, has arrived, or will answer the late confirmation. *)
NoOrphanAtServer ==
  IsUp /\ srv = "open" /\ life = "gone" => upClose \/ srvGotClose \/ dnReply = "confirm"

(* The end of the server's stream reaches the local application, whether it came
   before or after the listeners were attached. *)
EndIsTold ==
  IsUp /\ opener = "attached" /\ sock = "open"
    /\ life \in {"eof-received", "closed", "gone"} => told

(* What the client sends keeps RFC 4254 5.3: at most one EOF and one CLOSE, and
   nothing on the channel after its CLOSE, no data after its EOF. *)
ClientConforms ==
  [][/\ sentEof' > sentEof => sentEof = 0 /\ sentClose = 0
     /\ sentClose' > sentClose => sentClose = 0
     /\ upData' > upData => sentEof = 0 /\ sentClose = 0
     /\ upAdjust' > upAdjust => sentClose = 0]_vars

(* The channel of live-client.ts and channel-state.ts and its server understand
   each other to the end: both count the windows alike and no byte of them is
   lost, no message of either breaks the other, no writer and no sender waits for
   nothing, and neither end of a stream is forgotten. *)
ChannelIsSound ==
  /\ [](/\ WindowsAgree /\ WindowAccounted /\ NeverStarved
        /\ NoProtocolFailure /\ AckAccepted /\ NoLostWakeup
        /\ NoOrphanAtServer /\ EndIsTold)
  /\ ClientConforms

-----------------------------------------------------------------------------
(* Liveness *)

(* A server that has used up its window gets some back, unless the stream or the
   local socket ends. *)
WindowReopens ==
  srvWindow = 0 /\ Serving ~> srvWindow > 0 \/ ~Serving \/ srvEof \/ sock # "open"

(* Once the local socket is closed the channel leaves the map, and the server
   learns of it while the session lasts. *)
ChannelReleased ==
  sock = "closed" ~> life \in {"none", "gone"} /\ (srv = "open" => srvGotClose \/ ~IsUp)

(* A stalled stream moves again, and a finished channel goes away at both ends. *)
ChannelMovesOn == WindowReopens /\ ChannelReleased

=============================================================================
