-------------------------- MODULE SshChannelProofs --------------------------
(***************************************************************************)
(* Proofs about SshChannel for windows and writes of every size: both ends *)
(* agree on the windows, nothing of a window is lost, nobody is starved,   *)
(* no acknowledgement or message is refused, no channel is orphaned, and   *)
(* the client keeps RFC 4254.                                              *)
(***************************************************************************)
EXTENDS SshChannel, TLAPS

-----------------------------------------------------------------------------
(* The inductive invariant *)

(* How far the open has come, and what cannot have happened before that. *)
Opening ==
  /\ opener = "none" <=> life = "none"
  /\ opener = "sent" <=> life = "opening"
  /\ opener = "sent" => IsUp
  /\ opener # "attached" => writer = "idle" /\ handed = 0
  /\ opener \in {"none", "sent"} => acked = 0 /\ pendingBytes = 0
  /\ closing # "no" => opener \in {"attached", "discarded"} /\ sock # "open" /\ closed
  /\ closed /\ sock = "open" => life = "gone"

(* The open at the server: nothing is said on the channel before its
   confirmation, and the client knows of the channel only after it. *)
Confirming ==
  /\ opener = "none" => ~upOpen /\ srv = "none"
  /\ upOpen => srv = "none"
  /\ srv # "open" => /\ dnReply # "confirm" /\ ~dnEof /\ ~dnClose /\ ~upClose
                     /\ dnData = 0 /\ dnAdjust = 0 /\ upData = 0 /\ upAdjust = 0
  /\ srv = "open" /\ life = "opening" => dnReply = "confirm"
  /\ dnReply = "confirm" => life \in {"opening", "gone"}
  /\ dnReply = "fail" => srv = "refused"
  /\ life \in Live => srv = "open"
  /\ life = "opening" => upData = 0 /\ upAdjust = 0 /\ localWindow = LocalMax
  /\ life = "opening" /\ srv = "open" =>
       srvWindow + dnData = LocalMax /\ srvGrant = RemoteMax /\ dnAdjust = 0

(* After the server's EOF there is no data, and no second EOF. *)
ServerEnded ==
  /\ dnEof => srvEof
  /\ IsUp /\ life \in {"eof-received", "closed"} => srvEof /\ ~dnEof /\ dnData = 0

(* The windows of both ends. *)
Windows ==
  /\ WindowsAgree
  /\ writer # "send" => frames = 0
  /\ writer \in {"build", "wait"} => upload > 0

(* Where an event goes: held back until the consumer attaches, then to it. *)
Delivering ==
  /\ IsUp /\ opener \in {"sent", "confirmed"} => delivery = "pending"
  /\ IsUp /\ opener = "attached" /\ life \in Live /\ sock = "open" => delivery = "ready"
  /\ delivery # "pending" => pendingBytes = 0
  /\ delivery = "ready" => opener = "attached"
  /\ pendingClose => life = "gone"
  /\ pendingBytes > 0 => IsUp /\ (life \in Live \/ pendingClose)
  /\ sock = "open" /\ handed > 0 /\ ~closed => IsUp /\ life \in Live
  /\ IsUp /\ opener = "confirmed" /\ life \in {"eof-received", "closed"} => pendingEnd
  /\ IsUp /\ opener = "confirmed" /\ life = "gone" => pendingClose

(* The receive window. *)
Receiving == WindowAccounted /\ NeverStarved

(* What the client has sent, against its lifecycle. *)
Sending ==
  /\ IsUp /\ life # "gone" => sentClose = 0
  /\ srv = "none" \/ dnReply = "confirm" => sentClose = 0
  /\ IsUp /\ life \in {"none", "opening", "open", "eof-received"} => sentEof = 0
  /\ IsUp /\ life \in {"eof-sent", "closed"} => ending = "sent" \/ closing \in {"eof", "done"}
  /\ IsUp /\ life \in {"eof-sent", "closed"} => writer # "send"

IInv ==
  /\ TypeOK /\ Opening /\ Confirming /\ ServerEnded /\ Windows /\ Delivering
  /\ Receiving /\ Sending
  /\ NoProtocolFailure /\ NoLostWakeup /\ AckAccepted /\ NoOrphanAtServer /\ EndIsTold

-----------------------------------------------------------------------------
(* One lemma per action: the action preserves the invariant. *)

(* The end of the session preserves the invariant, whichever message it came
   with: what speaks of a session that is up is void, and the rest is reset. *)
LEMMA SessionEnded ==
  ASSUME IInv, IsUp, NEW why \in {"down", "overflow"}, EndSession(why),
         dnReply' = dnReply, dnAdjust' = dnAdjust, dnData' \in 0..dnData,
         dnEof' \in BOOLEAN, dnEof' => dnEof, dnClose' \in BOOLEAN, dnClose' => dnClose
  PROVE  IInv'
<1>1. TypeOK'
  <2>1. PhasesOK'
    BY DEF IInv, TypeOK, PhasesOK, EndSession, DeleteDelivery, DestroySocket, Endings,
      Live, writing, wrapper, server
  <2>2. CountsOK'
    BY DEF IInv, TypeOK, CountsOK, EndSession, DeleteDelivery, DestroySocket, writing, up,
      server
  <2>3. FlagsOK'
    BY DEF IInv, TypeOK, FlagsOK, EndSession, DeleteDelivery, wrapper, up, server
  <2>4. QED
    BY <2>1, <2>2, <2>3 DEF TypeOK
<1>2. Opening'
  BY DEF IInv, TypeOK, PhasesOK, Opening, IsUp, EndSession, DeleteDelivery, DestroySocket,
    writing, wrapper
<1>3. Confirming' /\ ServerEnded'
  BY DEF IInv, TypeOK, PhasesOK, CountsOK, Opening, Confirming, ServerEnded, IsUp,
    EndSession, Live, up, server
<1>4. Windows'
  BY DEF IInv, Windows, WindowsAgree, IsUp, EndSession, writing
<1>5. Delivering'
  BY DEF IInv, TypeOK, CountsOK, Opening, Delivering, IsUp, EndSession, DeleteDelivery,
    DestroySocket, wrapper
<1>6. Receiving' /\ Sending'
  BY DEF IInv, Receiving, WindowAccounted, NeverStarved, Sending, Confirming, IsUp,
    EndSession, up, server
<1>7. NoProtocolFailure' /\ NoLostWakeup' /\ AckAccepted' /\ NoOrphanAtServer' /\ EndIsTold'
  BY DEF IInv, NoProtocolFailure, NoLostWakeup, AckAccepted, NoOrphanAtServer, EndIsTold,
    IsUp, EndSession, DestroySocket
<1>8. QED
  BY <1>1, <1>2, <1>3, <1>4, <1>5, <1>6, <1>7 DEF IInv

(* A DISCONNECT, or the transport fails. *)
LEMMA SessionEndsKeeps ==
  ASSUME IInv, SessionEnds
  PROVE  IInv'
<1>1. IsUp /\ EndSession("down") /\ UNCHANGED <<dnReply, dnData, dnAdjust, dnEof, dnClose>>
  BY DEF SessionEnds, down
<1>2. dnData' \in 0..dnData
  BY <1>1 DEF IInv, TypeOK, CountsOK
<1>3. dnEof' \in BOOLEAN /\ dnClose' \in BOOLEAN
  BY <1>1 DEF IInv, TypeOK, FlagsOK
<1>4. QED
  BY <1>1, <1>2, <1>3, SessionEnded

(* A message for a channel that is not in the map changes nothing but the wire. *)
LEMMA Ignored ==
  ASSUME IInv, IsUp, dnReply = "none", life \in {"none", "gone"},
         UNCHANGED <<session, channel, opener, buffered, consumer, writing, wrapper>>,
         UNCHANGED <<up, server>>,
         dnReply' = dnReply, dnAdjust' = dnAdjust, dnData' \in 0..dnData,
         dnEof' \in BOOLEAN, dnEof' => dnEof, dnClose' \in BOOLEAN, dnClose' => dnClose
  PROVE  IInv'
<1>1. TypeOK'
  <2>1. PhasesOK'
    BY DEF IInv, TypeOK, PhasesOK, channel, buffered, consumer, writing, wrapper, server
  <2>2. CountsOK'
    BY DEF IInv, TypeOK, CountsOK, channel, buffered, consumer, writing, up, server
  <2>3. FlagsOK'
    BY DEF IInv, TypeOK, FlagsOK, buffered, consumer, wrapper, up, server
  <2>4. QED
    BY <2>1, <2>2, <2>3 DEF TypeOK
<1>2. Opening'
  BY DEF IInv, Opening, IsUp, channel, buffered, consumer, writing, wrapper
<1>3. Confirming' /\ ServerEnded'
  BY DEF IInv, TypeOK, CountsOK, Confirming, ServerEnded, IsUp, Live, channel, up, server
<1>4. Windows'
  BY DEF IInv, Windows, WindowsAgree, IsUp, Live, channel, writing, up, server
<1>5. Delivering'
  BY DEF IInv, Delivering, IsUp, channel, buffered, consumer, wrapper
<1>6. Receiving' /\ Sending'
  BY DEF IInv, Receiving, WindowAccounted, NeverStarved, ConsumerLives, Sending, IsUp, Live,
    channel, buffered, consumer, writing, wrapper, up, server
<1>7. NoProtocolFailure' /\ NoLostWakeup' /\ AckAccepted' /\ NoOrphanAtServer' /\ EndIsTold'
  BY DEF IInv, NoProtocolFailure, NoLostWakeup, AckAccepted, NoOrphanAtServer, EndIsTold,
    IsUp, channel, consumer, writing, up, server
<1>8. QED
  BY <1>1, <1>2, <1>3, <1>4, <1>5, <1>6, <1>7 DEF IInv

(* CHANNEL_DATA: a conforming server keeps the window, so the data is never
   refused; it leaves the window and is held back or handed over. *)
LEMMA ReceiveDataKeeps ==
  ASSUME IInv, NEW n \in 1..dnData, ReceiveData(n)
  PROVE  IInv'
<1>1. IsUp /\ dnReply = "none" /\ dnReply' = dnReply /\ dnAdjust' = dnAdjust
        /\ dnEof' = dnEof /\ dnClose' = dnClose
  BY DEF ReceiveData
<1>2. dnData' \in 0..dnData
  BY DEF IInv, TypeOK, CountsOK, ReceiveData
<1>3. dnEof' \in BOOLEAN /\ dnClose' \in BOOLEAN
  BY <1>1 DEF IInv, TypeOK, FlagsOK
<1>4. CASE life \in {"none", "gone"}
  <2>1. /\ UNCHANGED <<session, channel, opener, buffered, consumer, writing, wrapper>>
        /\ UNCHANGED <<up, server>>
    BY <1>4 DEF ReceiveData
  <2>2. QED
    BY <1>1, <1>2, <1>3, <1>4, <2>1, Ignored
<1>5. CASE life \notin {"none", "gone"}
  <2>1. MayReceive(n)
    BY <1>1, <1>5 DEF IInv, TypeOK, PhasesOK, CountsOK, Confirming, ServerEnded, Windows,
      WindowsAgree, MayReceive, IsUp, Live
  <2>2. CASE Overflows
    BY <1>1, <1>2, <1>3, <1>5, <2>1, <2>2, SessionEnded DEF ReceiveData
  <2>3. CASE ~Overflows
    <3>1. /\ localWindow' = localWindow - n /\ dnData' = dnData - n
          /\ pendingBytes' = IF delivery = "pending" THEN pendingBytes + n ELSE pendingBytes
          /\ pendingCount' = IF delivery = "pending" THEN pendingCount + 1 ELSE pendingCount
          /\ handed' = IF Reaches THEN handed + n ELSE handed
          /\ UNCHANGED <<session, life, acked, remoteWindow, opener, delivery, pendingEnd,
                         pendingClose, sock, told, lost, writing, wrapper, up, server>>
      BY <1>5, <2>1, <2>3 DEF ReceiveData
    <3>2. PhasesOK'
      BY <1>1, <3>1 DEF IInv, TypeOK, PhasesOK, writing, wrapper, server
    <3>3. CountsOK'
      BY <1>1, <1>2, <2>1, <3>1 DEF IInv, TypeOK, CountsOK, MayReceive, writing, up, server
    <3>4. FlagsOK'
      BY <1>1, <1>3, <3>1 DEF IInv, TypeOK, FlagsOK, wrapper, up, server
    <3>5. Opening'
      BY <1>1, <2>1, <3>1 DEF IInv, Opening, Delivering, MayReceive, Reaches, IsUp, writing,
        wrapper
    <3>6. Confirming' /\ ServerEnded'
      BY <1>1, <2>1, <3>1 DEF IInv, Confirming, ServerEnded, MayReceive, IsUp, Live, up,
        server
    <3>7. Windows'
      BY <1>1, <2>1, <3>1 DEF IInv, TypeOK, CountsOK, Windows, WindowsAgree, IsUp, Live,
        writing, up, server
    <3>8. Delivering'
      BY <1>1, <2>1, <3>1 DEF IInv, TypeOK, CountsOK, Opening, Delivering, MayReceive,
        Reaches, IsUp, Live, wrapper
    <3>9. Receiving'
      BY <1>1, <2>1, <3>1 DEF IInv, TypeOK, CountsOK, Delivering, Receiving,
        WindowAccounted, NeverStarved, ConsumerLives, MayReceive, Reaches, IsUp, Live
    <3>10. Sending'
      BY <1>1, <3>1 DEF IInv, Sending, IsUp, writing, wrapper, up, server
    <3>11. NoProtocolFailure' /\ NoLostWakeup' /\ AckAccepted' /\ NoOrphanAtServer' /\ EndIsTold'
      BY <1>1, <3>1 DEF IInv, NoProtocolFailure, NoLostWakeup, AckAccepted,
        NoOrphanAtServer, EndIsTold, IsUp, writing, up, server
    <3>12. QED
      BY <3>2, <3>3, <3>4, <3>5, <3>6, <3>7, <3>8, <3>9, <3>10, <3>11 DEF IInv, TypeOK
  <2>4. QED
    BY <2>2, <2>3
<1>6. QED
  BY <1>4, <1>5

(* CHANNEL_EOF: the server's direction ends, and a write that waits is dropped. *)
LEMMA ReceiveEofKeeps ==
  ASSUME IInv, ReceiveEof
  PROVE  IInv'
<1>1. /\ IsUp /\ dnReply = "none" /\ dnEof /\ dnData = 0
      /\ dnReply' = dnReply /\ dnData' = dnData /\ dnAdjust' = dnAdjust
      /\ dnEof' = FALSE /\ dnClose' = dnClose
  BY DEF ReceiveEof
<1>2. dnData' \in 0..dnData
  BY <1>1
<1>3. dnEof' \in BOOLEAN /\ dnClose' \in BOOLEAN
  BY <1>1 DEF IInv, TypeOK, FlagsOK
<1>4. CASE life \in {"none", "gone"}
  <2>1. /\ UNCHANGED <<session, channel, opener, buffered, consumer, writing, wrapper>>
        /\ UNCHANGED <<up, server>>
    BY <1>4 DEF ReceiveEof
  <2>2. QED
    BY <1>1, <1>2, <1>3, <1>4, <2>1, Ignored
<1>5. CASE life \notin {"none", "gone"} /\ Overflows
  BY <1>1, <1>2, <1>3, <1>5, SessionEnded DEF ReceiveEof
<1>6. CASE life \notin {"none", "gone"} /\ ~Overflows
  <2>1. /\ life' = AfterEofReceived
        /\ pendingEnd' = (delivery = "pending" \/ pendingEnd)
        /\ pendingCount' = IF delivery = "pending" THEN pendingCount + 1 ELSE pendingCount
        /\ told' = (told \/ delivery = "ready")
        /\ UNCHANGED <<session, localWindow, acked, remoteWindow, opener, delivery,
                       pendingBytes, pendingClose, wrapper, up, server>>
    BY <1>6 DEF ReceiveEof
  <2>2. IF writer = "wait" THEN WriteFails("eof") ELSE UNCHANGED <<writing, sock, lost, handed>>
    BY <1>6 DEF ReceiveEof
  <2>3. life \in {"open", "eof-sent"}
    BY <1>1, <1>6 DEF IInv, TypeOK, PhasesOK, Confirming, ServerEnded, IsUp, Live
  <2>4. PhasesOK'
    BY <1>1, <2>1, <2>2, <2>3 DEF IInv, TypeOK, PhasesOK, AfterEofReceived, Live, Endings,
      WriteFails, DestroySocket, writing, wrapper, server
  <2>5. CountsOK'
    BY <1>1, <2>1, <2>2 DEF IInv, TypeOK, CountsOK, WriteFails, DestroySocket, writing, up,
      server
  <2>6. FlagsOK'
    BY <1>1, <1>3, <2>1 DEF IInv, TypeOK, FlagsOK, wrapper, up, server
  <2>7. Opening'
    BY <1>1, <2>1, <2>2, <2>3 DEF IInv, Opening, AfterEofReceived, IsUp, WriteFails,
      DestroySocket, writing, wrapper
  <2>8. Confirming' /\ ServerEnded'
    BY <1>1, <2>1, <2>3 DEF IInv, Confirming, ServerEnded, AfterEofReceived, IsUp, Live, up,
      server
  <2>9. Windows'
    BY <1>1, <2>1, <2>2, <2>3 DEF IInv, Windows, WindowsAgree, AfterEofReceived, IsUp, Live,
      WriteFails, writing, up, server
  <2>10. Delivering'
    <3>1. sock' = "open" => sock = "open" /\ handed' = handed
      BY <2>2 DEF WriteFails, DestroySocket
    <3>2. opener = "confirmed" => pendingEnd'
      BY <1>1, <2>1 DEF IInv, Delivering
    <3>3. QED
      BY <1>1, <2>1, <2>3, <3>1, <3>2 DEF IInv, Delivering, AfterEofReceived, IsUp, Live,
        wrapper
  <2>11. Receiving'
    BY <1>1, <2>1, <2>2, <2>3 DEF IInv, Receiving, WindowAccounted, NeverStarved,
      ConsumerLives, AfterEofReceived, IsUp, Live, WriteFails, DestroySocket
  <2>12. Sending'
    BY <1>1, <2>1, <2>2, <2>3 DEF IInv, Sending, AfterEofReceived, IsUp, WriteFails,
      writing, wrapper, up, server
  <2>13. NoProtocolFailure' /\ NoLostWakeup' /\ AckAccepted' /\ NoOrphanAtServer'
    BY <1>1, <2>1, <2>2, <2>3 DEF IInv, NoProtocolFailure, NoLostWakeup, AckAccepted,
      NoOrphanAtServer, AfterEofReceived, IsUp, Live, WriteFails, DestroySocket, writing, up,
      server
  <2>14. EndIsTold'
    <3>1. sock' = "open" => sock = "open"
      BY <2>2 DEF WriteFails, DestroySocket
    <3>2. sock' = "open" /\ opener = "attached" => delivery = "ready"
      BY <1>1, <2>3, <3>1 DEF IInv, Delivering, Live
    <3>3. QED
      BY <1>1, <2>1, <2>3, <3>1, <3>2 DEF EndIsTold, IsUp
  <2>15. QED
    BY <2>4, <2>5, <2>6, <2>7, <2>8, <2>9, <2>10, <2>11, <2>12, <2>13, <2>14 DEF IInv, TypeOK
<1>7. QED
  BY <1>4, <1>5, <1>6

(* CHANNEL_CLOSE: the channel is answered and forgotten; its consumer is told, at
   once or when it attaches. *)
LEMMA ReceiveCloseKeeps ==
  ASSUME IInv, ReceiveClose
  PROVE  IInv'
<1>1. /\ IsUp /\ dnReply = "none" /\ dnClose
      /\ dnReply' = dnReply /\ dnData' = dnData /\ dnAdjust' = dnAdjust
      /\ dnEof' = dnEof /\ dnClose' = FALSE
  BY DEF ReceiveClose
<1>2. dnData' \in 0..dnData
  BY <1>1 DEF IInv, TypeOK, CountsOK
<1>3. dnEof' \in BOOLEAN /\ dnClose' \in BOOLEAN
  BY <1>1 DEF IInv, TypeOK, FlagsOK
<1>4. CASE life \in {"none", "gone"}
  <2>1. /\ UNCHANGED <<session, channel, opener, buffered, consumer, writing, wrapper>>
        /\ UNCHANGED <<up, server>>
    BY <1>4 DEF ReceiveClose
  <2>2. QED
    BY <1>1, <1>2, <1>3, <1>4, <2>1, Ignored
<1>5. CASE life \notin {"none", "gone"} /\ Overflows
  <2>1. EndSession("overflow")
    BY <1>5 DEF ReceiveClose
  <2>2. QED
    BY <1>1, <1>2, <1>3, <2>1, SessionEnded
<1>6. CASE life \notin {"none", "gone"} /\ ~Overflows
  <2>1. /\ life' = "gone"
        /\ SendClose
        /\ pendingClose' = (delivery = "pending")
        /\ pendingCount' = IF delivery = "pending" THEN pendingCount + 1 ELSE pendingCount
        /\ delivery' = IF delivery = "ready" THEN "none" ELSE delivery
        /\ told' = (told \/ delivery = "ready")
        /\ closed' = (closed \/ (delivery = "ready" /\ sock # "closed"))
        /\ UNCHANGED <<session, localWindow, acked, remoteWindow, opener, pendingBytes,
                       pendingEnd, ending, closing, upOpen, upData, upAdjust, upEof,
                       sentEof, server>>
    BY <1>6 DEF ReceiveClose
  <2>2. IF writer = "wait" THEN WriteFails("channel")
                           ELSE UNCHANGED <<writing, sock, lost, handed>>
    BY <1>6 DEF ReceiveClose
  <2>3. life \in Live
    BY <1>1, <1>6 DEF IInv, TypeOK, PhasesOK, Confirming
  <2>4. PhasesOK'
    BY <1>1, <2>1, <2>2 DEF IInv, TypeOK, PhasesOK, Endings, WriteFails, DestroySocket,
      writing, server
  <2>5. CountsOK'
    BY <1>1, <2>1, <2>2 DEF IInv, TypeOK, CountsOK, SendClose, WriteFails, DestroySocket,
      writing, server
  <2>6. FlagsOK'
    BY <1>1, <1>3, <2>1 DEF IInv, TypeOK, FlagsOK, SendClose, server
  <2>7. sock' = "open" => sock = "open" /\ handed' = handed
    BY <2>2 DEF WriteFails, DestroySocket
  <2>8. closed => closed'
    BY <2>1
  <2>9. Opening'
    BY <1>1, <2>1, <2>2, <2>3, <2>8 DEF IInv, Opening, IsUp, Live, WriteFails,
      DestroySocket, writing
  <2>10. Confirming' /\ ServerEnded'
    BY <1>1, <2>1, <2>3 DEF IInv, Confirming, ServerEnded, IsUp, Live, SendClose, server
  <2>11. Windows'
    BY <1>1, <2>1, <2>2 DEF IInv, Windows, WindowsAgree, IsUp, Live, WriteFails, writing,
      server
  <2>12. Delivering'
    <3>1. delivery = "pending" => pendingClose'
      BY <2>1
    <3>2. sock' = "open" /\ handed' > 0 => closed'
      <4>1. sock = "open" /\ handed > 0 => opener = "attached"
        BY DEF IInv, TypeOK, CountsOK, Opening
      <4>2. sock = "open" /\ opener = "attached" => delivery = "ready"
        BY <1>1, <2>3 DEF IInv, Delivering
      <4>3. delivery = "ready" /\ sock = "open" => closed'
        BY <2>1
      <4>4. QED
        BY <2>7, <4>1, <4>2, <4>3
    <3>3. QED
      BY <1>1, <2>1, <2>3, <2>7, <3>1, <3>2 DEF IInv, TypeOK, CountsOK, Delivering, IsUp,
        Live
  <2>13. Receiving' /\ Sending'
    BY <1>1, <2>1, <2>3 DEF IInv, Receiving, WindowAccounted, NeverStarved, Sending,
      Confirming, IsUp, Live, SendClose, server
  <2>14. NoProtocolFailure' /\ NoLostWakeup' /\ AckAccepted' /\ NoOrphanAtServer'
    BY <1>1, <2>1, <2>2 DEF IInv, NoProtocolFailure, NoLostWakeup, AckAccepted,
      NoOrphanAtServer, IsUp, Live, SendClose, WriteFails, DestroySocket
  <2>15. EndIsTold'
    <3>1. sock' = "open" /\ opener = "attached" => delivery = "ready"
      BY <1>1, <2>3, <2>7 DEF IInv, Delivering
    <3>2. QED
      BY <2>1, <3>1 DEF EndIsTold
  <2>16. QED
    BY <2>4, <2>5, <2>6, <2>9, <2>10, <2>11, <2>12, <2>13, <2>14, <2>15 DEF IInv, TypeOK
<1>7. QED
  BY <1>4, <1>5, <1>6

(* openDirectTcpIpChannel: the open starts from nothing. *)
LEMMA OpenKeeps ==
  ASSUME IInv, Open
  PROVE  IInv'
<1>1. TypeOK'
  <2>1. PhasesOK'
    BY DEF IInv, TypeOK, PhasesOK, Endings, Live, Open, server, down, wrapper, writing,
      consumer, IsUp
  <2>2. CountsOK'
    BY SshChannelAssumption DEF IInv, TypeOK, CountsOK, Open, server, down, wrapper,
      writing, consumer, IsUp
  <2>3. FlagsOK'
    BY DEF IInv, TypeOK, FlagsOK, Open, server, down, wrapper, writing, consumer, IsUp
  <2>4. QED
    BY <2>1, <2>2, <2>3 DEF TypeOK
<1>2. Delivering'
  BY DEF IInv, Delivering, Live, IsUp, Opening, Open, server, down, wrapper, writing,
    consumer
<1>3. Sending'
  BY DEF IInv, Sending, IsUp, Opening, Open, server, down, wrapper, writing, consumer
<1>4. Opening' /\ Confirming' /\ ServerEnded' /\ Windows' /\ Receiving'
  BY DEF IInv, Opening, IsUp, Confirming, Live, ServerEnded, Windows, WindowsAgree,
    Receiving, NeverStarved, ConsumerLives, WindowAccounted, Open, server, down, wrapper,
    writing, consumer
<1>5. NoLostWakeup' /\ NoOrphanAtServer' /\ EndIsTold'
  BY DEF IInv, NoLostWakeup, Live, IsUp, NoOrphanAtServer, EndIsTold, Open, server, down,
    wrapper, writing, consumer
<1>6. NoProtocolFailure' /\ AckAccepted'
  BY DEF IInv, NoProtocolFailure, AckAccepted, Open, server, down, wrapper, writing,
    consumer, IsUp
<1>7. QED
  BY <1>1, <1>2, <1>3, <1>4, <1>5, <1>6 DEF IInv

(* An open given up: the late confirmation will be answered by CLOSE. *)
LEMMA AbandonKeeps ==
  ASSUME IInv, Abandon
  PROVE  IInv'
<1>1. TypeOK'
  <2>1. PhasesOK'
    BY DEF IInv, TypeOK, PhasesOK, Endings, Live, Abandon, server, down, wrapper, writing,
      DestroySocket, DeleteDelivery, IsUp
  <2>2. CountsOK'
    BY DEF IInv, TypeOK, CountsOK, Abandon, server, down, wrapper, writing, DestroySocket,
      DeleteDelivery, IsUp
  <2>3. FlagsOK'
    BY DEF IInv, TypeOK, FlagsOK, Abandon, server, down, wrapper, writing, DestroySocket,
      DeleteDelivery, IsUp
  <2>4. QED
    BY <2>1, <2>2, <2>3 DEF TypeOK
<1>2. Confirming'
  <2>1. upOpen' => upOpen
    BY DEF Abandon
  <2>2. QED
    BY <2>1 DEF IInv, TypeOK, CountsOK, Opening, Confirming, Abandon, Live, down, server
<1>3. NoOrphanAtServer'
  BY DEF IInv, NoOrphanAtServer, IsUp, Opening, Confirming, Live, Abandon, server, down,
    wrapper, writing, DestroySocket, DeleteDelivery
<1>4. Opening' /\ ServerEnded' /\ Windows' /\ Delivering' /\ Receiving'
  BY DEF IInv, Opening, IsUp, ServerEnded, Windows, WindowsAgree, Live, Delivering,
    Receiving, NeverStarved, ConsumerLives, WindowAccounted, Abandon, server, down,
    wrapper, writing, DestroySocket, DeleteDelivery
<1>5. Sending' /\ NoLostWakeup' /\ AckAccepted' /\ EndIsTold'
  BY DEF IInv, Sending, IsUp, NoLostWakeup, Live, AckAccepted, EndIsTold, Abandon, server,
    down, wrapper, writing, DestroySocket, DeleteDelivery
<1>6. NoProtocolFailure'
  BY DEF IInv, NoProtocolFailure, Abandon, server, down, wrapper, writing, DestroySocket,
    DeleteDelivery, IsUp
<1>7. QED
  BY <1>1, <1>2, <1>3, <1>4, <1>5, <1>6 DEF IInv

(* The confirmation: the windows of both ends start out equal. *)
LEMMA ReceiveConfirmKeeps ==
  ASSUME IInv, ReceiveConfirm
  PROVE  IInv'
<1>1. TypeOK'
  <2>1. PhasesOK'
    BY DEF IInv, TypeOK, PhasesOK, Endings, Live, ReceiveConfirm, server, wrapper,
      writing, consumer, buffered, SendClose, IsUp
  <2>2. CountsOK'
    BY SshChannelAssumption DEF IInv, TypeOK, CountsOK, ReceiveConfirm, server, wrapper,
      writing, consumer, buffered, SendClose, IsUp
  <2>3. FlagsOK'
    BY DEF IInv, TypeOK, FlagsOK, ReceiveConfirm, server, wrapper, writing, consumer,
      buffered, SendClose, IsUp
  <2>4. QED
    BY <2>1, <2>2, <2>3 DEF TypeOK
<1>2. Windows'
  BY SshChannelAssumption DEF IInv, Windows, WindowsAgree, Live, IsUp, Opening,
    Confirming, ReceiveConfirm, server, wrapper, writing, consumer, buffered, SendClose
<1>3. Delivering'
  BY DEF IInv, Delivering, Live, IsUp, Opening, ReceiveConfirm, server, wrapper, writing,
    consumer, buffered, SendClose
<1>4. Receiving'
  BY SshChannelAssumption DEF IInv, Receiving, NeverStarved, ConsumerLives, IsUp,
    WindowAccounted, Live, Opening, Confirming, ReceiveConfirm, server, wrapper, writing,
    consumer, buffered, SendClose
<1>5. Sending'
  BY DEF IInv, Sending, IsUp, Confirming, Live, ReceiveConfirm, server, wrapper, writing,
    consumer, buffered, SendClose
<1>6. NoLostWakeup'
  BY DEF IInv, NoLostWakeup, Live, IsUp, Opening, ReceiveConfirm, server, wrapper,
    writing, consumer, buffered, SendClose
<1>7. Opening' /\ Confirming' /\ ServerEnded' /\ NoOrphanAtServer' /\ EndIsTold'
  BY DEF IInv, Opening, IsUp, Confirming, Live, ServerEnded, NoOrphanAtServer, EndIsTold,
    ReceiveConfirm, server, wrapper, writing, consumer, buffered, SendClose
<1>8. NoProtocolFailure' /\ AckAccepted'
  BY DEF IInv, NoProtocolFailure, AckAccepted, ReceiveConfirm, server, wrapper, writing,
    consumer, buffered, SendClose, IsUp
<1>9. QED
  BY <1>1, <1>2, <1>3, <1>4, <1>5, <1>6, <1>7, <1>8 DEF IInv

(* The open is refused. *)
LEMMA ReceiveFailKeeps ==
  ASSUME IInv, ReceiveFail
  PROVE  IInv'
<1>1. TypeOK'
  <2>1. PhasesOK'
    BY DEF IInv, TypeOK, PhasesOK, Endings, Live, ReceiveFail, server, up, wrapper,
      writing, buffered, DestroySocket, DeleteDelivery, IsUp
  <2>2. CountsOK'
    BY DEF IInv, TypeOK, CountsOK, ReceiveFail, server, up, wrapper, writing, buffered,
      DestroySocket, DeleteDelivery, IsUp
  <2>3. FlagsOK'
    BY DEF IInv, TypeOK, FlagsOK, ReceiveFail, server, up, wrapper, writing, buffered,
      DestroySocket, DeleteDelivery, IsUp
  <2>4. QED
    BY <2>1, <2>2, <2>3 DEF TypeOK
<1>2. NoOrphanAtServer'
  BY DEF IInv, NoOrphanAtServer, IsUp, Confirming, Live, ReceiveFail, server, up, wrapper,
    writing, buffered, DestroySocket, DeleteDelivery
<1>3. Opening' /\ Confirming' /\ ServerEnded' /\ Windows' /\ Delivering'
  BY DEF IInv, Opening, IsUp, Confirming, Live, ServerEnded, Windows, WindowsAgree,
    Delivering, ReceiveFail, server, up, wrapper, writing, buffered, DestroySocket,
    DeleteDelivery
<1>4. Receiving' /\ Sending' /\ NoLostWakeup' /\ AckAccepted' /\ EndIsTold'
  BY DEF IInv, Receiving, NeverStarved, ConsumerLives, IsUp, WindowAccounted, Live,
    Sending, NoLostWakeup, AckAccepted, EndIsTold, ReceiveFail, server, up, wrapper,
    writing, buffered, DestroySocket, DeleteDelivery
<1>5. NoProtocolFailure'
  BY DEF IInv, NoProtocolFailure, ReceiveFail, server, up, wrapper, writing, buffered,
    DestroySocket, DeleteDelivery, IsUp
<1>6. QED
  BY <1>1, <1>2, <1>3, <1>4, <1>5 DEF IInv

(* The consumer attaches: what was held back is handed over. *)
LEMMA AttachKeeps ==
  ASSUME IInv, Attach
  PROVE  IInv'
<1>1. TypeOK'
  <2>1. PhasesOK'
    BY DEF IInv, TypeOK, PhasesOK, Endings, Live, Attach, server, down, up, writing,
      channel
  <2>2. CountsOK'
    BY DEF IInv, TypeOK, CountsOK, Attach, server, down, up, writing, channel
  <2>3. FlagsOK'
    BY DEF IInv, TypeOK, FlagsOK, Attach, server, down, up, writing, channel
  <2>4. QED
    BY <2>1, <2>2, <2>3 DEF TypeOK
<1>2. Opening'
  BY DEF IInv, Opening, IsUp, Delivering, Live, Attach, server, down, up, writing, channel
<1>3. Receiving'
  BY DEF IInv, TypeOK, Receiving, NeverStarved, ConsumerLives, IsUp, WindowAccounted,
    Live, CountsOK, Opening, Attach, server, down, up, writing, channel
<1>4. EndIsTold'
  BY DEF IInv, TypeOK, EndIsTold, IsUp, FlagsOK, Delivering, Live, Attach, server, down,
    up, writing, channel
<1>5. Confirming' /\ Delivering'
  BY DEF IInv, Confirming, Live, Delivering, IsUp, Attach, server, down, up, writing,
    channel
<1>6. ServerEnded' /\ Windows' /\ Sending' /\ NoProtocolFailure' /\ NoLostWakeup'
  BY DEF IInv, ServerEnded, IsUp, Windows, WindowsAgree, Live, Sending, NoProtocolFailure,
    NoLostWakeup, Attach, server, down, up, writing, channel
<1>7. AckAccepted' /\ NoOrphanAtServer'
  BY DEF IInv, AckAccepted, NoOrphanAtServer, IsUp, Attach, server, down, up, writing,
    channel
<1>8. QED
  BY <1>1, <1>2, <1>3, <1>4, <1>5, <1>6, <1>7 DEF IInv

(* The socket was gone first: the channel is closed unused. *)
LEMMA DiscardKeeps ==
  ASSUME IInv, Discard
  PROVE  IInv'
<1>1. TypeOK'
  <2>1. PhasesOK'
    BY DEF IInv, TypeOK, PhasesOK, Endings, Live, Discard, server, down, up, writing,
      consumer, buffered, channel
  <2>2. CountsOK'
    BY DEF IInv, TypeOK, CountsOK, Discard, server, down, up, writing, consumer, buffered,
      channel
  <2>3. FlagsOK'
    BY DEF IInv, TypeOK, FlagsOK, Discard, server, down, up, writing, consumer, buffered,
      channel
  <2>4. QED
    BY <2>1, <2>2, <2>3 DEF TypeOK
<1>2. Sending'
  BY DEF IInv, Sending, IsUp, Opening, Discard, server, down, up, writing, consumer,
    buffered, channel
<1>3. Opening' /\ Confirming' /\ Delivering' /\ Receiving' /\ EndIsTold'
  BY DEF IInv, Opening, IsUp, Confirming, Live, Delivering, Receiving, NeverStarved,
    ConsumerLives, WindowAccounted, EndIsTold, Discard, server, down, up, writing,
    consumer, buffered, channel
<1>4. ServerEnded' /\ Windows' /\ NoProtocolFailure' /\ NoLostWakeup' /\ AckAccepted'
  BY DEF IInv, ServerEnded, IsUp, Windows, WindowsAgree, Live, NoProtocolFailure,
    NoLostWakeup, AckAccepted, Discard, server, down, up, writing, consumer, buffered,
    channel
<1>5. NoOrphanAtServer'
  BY DEF IInv, NoOrphanAtServer, IsUp, Discard, server, down, up, writing, consumer,
    buffered, channel
<1>6. QED
  BY <1>1, <1>2, <1>3, <1>4, <1>5 DEF IInv

(* A WINDOW_ADJUST moves window from the wire to the client and wakes a write. *)
LEMMA ReceiveAdjustKeeps ==
  ASSUME IInv, NEW n \in 1..dnAdjust, ReceiveAdjust(n)
  PROVE  IInv'
<1>1. TypeOK'
  <2>1. PhasesOK'
    BY DEF IInv, TypeOK, PhasesOK, Endings, Live, ReceiveAdjust, server, up, wrapper,
      consumer, buffered, IsUp
  <2>2. CountsOK'
    BY DEF IInv, TypeOK, CountsOK, ReceiveAdjust, server, up, wrapper, consumer, buffered,
      Live, IsUp
  <2>3. FlagsOK'
    BY DEF IInv, TypeOK, FlagsOK, ReceiveAdjust, server, up, wrapper, consumer, buffered,
      Live, IsUp
  <2>4. QED
    BY <2>1, <2>2, <2>3 DEF TypeOK
<1>2. Windows'
  BY DEF IInv, TypeOK, Windows, WindowsAgree, Live, IsUp, CountsOK, ReceiveAdjust, server,
    up, wrapper, consumer, buffered
<1>3. Opening' /\ Confirming' /\ Sending' /\ NoLostWakeup'
  BY DEF IInv, Opening, IsUp, Confirming, Live, Sending, NoLostWakeup, ReceiveAdjust,
    server, up, wrapper, consumer, buffered
<1>4. ServerEnded' /\ Delivering' /\ Receiving' /\ NoProtocolFailure' /\ AckAccepted'
  BY DEF IInv, ServerEnded, IsUp, Delivering, Live, Receiving, NeverStarved,
    ConsumerLives, WindowAccounted, NoProtocolFailure, AckAccepted, ReceiveAdjust, server,
    up, wrapper, consumer, buffered
<1>5. NoOrphanAtServer' /\ EndIsTold'
  BY DEF IInv, NoOrphanAtServer, IsUp, EndIsTold, ReceiveAdjust, server, up, wrapper,
    consumer, buffered, Live
<1>6. QED
  BY <1>1, <1>2, <1>3, <1>4, <1>5 DEF IInv

(* A write begins. *)
LEMMA AppWriteKeeps ==
  ASSUME IInv, NEW n \in 1..MaxWrite, AppWrite(n)
  PROVE  IInv'
<1>1. TypeOK'
  <2>1. PhasesOK'
    BY DEF IInv, TypeOK, PhasesOK, Endings, Live, AppWrite, server, down, up, wrapper,
      buffered, channel, DestroySocket
  <2>2. CountsOK'
    BY DEF IInv, TypeOK, CountsOK, AppWrite, server, down, up, wrapper, buffered, channel,
      DestroySocket
  <2>3. FlagsOK'
    BY DEF IInv, TypeOK, FlagsOK, AppWrite, server, down, up, wrapper, buffered, channel,
      DestroySocket
  <2>4. QED
    BY <2>1, <2>2, <2>3 DEF TypeOK
<1>2. Opening' /\ Windows' /\ Delivering' /\ Receiving' /\ Sending'
  BY DEF IInv, Opening, IsUp, Windows, WindowsAgree, Live, Delivering, Receiving,
    NeverStarved, ConsumerLives, WindowAccounted, Sending, AppWrite, server, down, up,
    wrapper, buffered, channel, DestroySocket
<1>3. NoLostWakeup' /\ AckAccepted' /\ EndIsTold'
  BY DEF IInv, NoLostWakeup, Live, IsUp, AckAccepted, EndIsTold, AppWrite, server, down,
    up, wrapper, buffered, channel, DestroySocket
<1>4. Confirming' /\ ServerEnded' /\ NoProtocolFailure' /\ NoOrphanAtServer'
  BY DEF IInv, Confirming, Live, ServerEnded, IsUp, NoProtocolFailure, NoOrphanAtServer,
    AppWrite, server, down, up, wrapper, buffered, channel, DestroySocket
<1>5. QED
  BY <1>1, <1>2, <1>3, <1>4 DEF IInv

(* Frames are taken out of the window; the write waits only when it is empty. *)
LEMMA BuildKeeps ==
  ASSUME IInv, Build
  PROVE  IInv'
<1>1. TypeOK'
  <2>1. PhasesOK'
    BY DEF IInv, TypeOK, PhasesOK, Endings, Live, Build, server, down, up, wrapper,
      buffered, Framed, CanSend, WriteFails, DestroySocket, IsUp
  <2>2. CountsOK'
    BY DEF IInv, TypeOK, CountsOK, Build, server, down, up, wrapper, buffered, Framed,
      CanSend, WriteFails, DestroySocket, IsUp
  <2>3. FlagsOK'
    BY DEF IInv, TypeOK, FlagsOK, Build, server, down, up, wrapper, buffered, Framed,
      CanSend, WriteFails, DestroySocket, IsUp
  <2>4. QED
    BY <2>1, <2>2, <2>3 DEF TypeOK
<1>2. Windows'
  BY DEF IInv, TypeOK, Windows, WindowsAgree, Live, IsUp, CountsOK, Build, server, down,
    up, wrapper, buffered, Framed, CanSend, WriteFails, DestroySocket
<1>3. NoLostWakeup'
  BY DEF IInv, NoLostWakeup, Live, IsUp, Windows, WindowsAgree, Build, server, down, up,
    wrapper, buffered, Framed, CanSend, WriteFails, DestroySocket
<1>4. Opening' /\ Delivering' /\ Receiving' /\ Sending' /\ AckAccepted'
  BY DEF IInv, Opening, IsUp, Delivering, Live, Receiving, NeverStarved, ConsumerLives,
    WindowAccounted, Sending, AckAccepted, Build, server, down, up, wrapper, buffered,
    Framed, CanSend, WriteFails, DestroySocket
<1>5. EndIsTold'
  BY DEF IInv, EndIsTold, IsUp, Build, server, down, up, wrapper, buffered, Framed,
    CanSend, WriteFails, DestroySocket
<1>6. Confirming' /\ ServerEnded' /\ NoProtocolFailure' /\ NoOrphanAtServer'
  BY DEF IInv, Confirming, Live, ServerEnded, IsUp, NoProtocolFailure, NoOrphanAtServer,
    Build, server, down, up, wrapper, buffered, Framed, CanSend, WriteFails, DestroySocket
<1>7. QED
  BY <1>1, <1>2, <1>3, <1>4, <1>5, <1>6 DEF IInv

(* A frame goes to the wire. *)
LEMMA SendKeeps ==
  ASSUME IInv, NEW n \in 1..frames, Send(n)
  PROVE  IInv'
<1>1. TypeOK'
  <2>1. PhasesOK'
    BY DEF IInv, TypeOK, PhasesOK, Endings, Live, Send, server, down, wrapper, consumer,
      buffered, channel, MaySend, IsUp
  <2>2. CountsOK'
    BY DEF IInv, TypeOK, CountsOK, Send, server, down, wrapper, consumer, buffered,
      channel, MaySend, Live, IsUp
  <2>3. FlagsOK'
    BY DEF IInv, TypeOK, FlagsOK, Send, server, down, wrapper, consumer, buffered,
      channel, MaySend, Live, IsUp
  <2>4. QED
    BY <2>1, <2>2, <2>3 DEF TypeOK
<1>2. Windows'
  BY DEF IInv, TypeOK, Windows, WindowsAgree, Live, IsUp, CountsOK, Send, server, down,
    wrapper, consumer, buffered, channel, MaySend
<1>3. Opening' /\ Confirming' /\ Sending' /\ NoLostWakeup'
  BY DEF IInv, Opening, IsUp, Confirming, Live, Sending, NoLostWakeup, Send, server, down,
    wrapper, consumer, buffered, channel, MaySend
<1>4. ServerEnded' /\ Delivering' /\ Receiving' /\ NoProtocolFailure' /\ AckAccepted'
  BY DEF IInv, ServerEnded, IsUp, Delivering, Live, Receiving, NeverStarved,
    ConsumerLives, WindowAccounted, NoProtocolFailure, AckAccepted, Send, server, down,
    wrapper, consumer, buffered, channel, MaySend
<1>5. NoOrphanAtServer' /\ EndIsTold'
  BY DEF IInv, NoOrphanAtServer, IsUp, EndIsTold, Send, server, down, wrapper, consumer,
    buffered, channel, MaySend, Live
<1>6. QED
  BY <1>1, <1>2, <1>3, <1>4, <1>5 DEF IInv

(* The channel or the session went while frames were being sent. *)
LEMMA SendFailsKeeps ==
  ASSUME IInv, SendFails
  PROVE  IInv'
<1>1. TypeOK'
  <2>1. PhasesOK'
    BY DEF IInv, TypeOK, PhasesOK, Endings, Live, SendFails, server, down, up, wrapper,
      buffered, channel, MaySend, IsUp, WriteFails, DestroySocket
  <2>2. CountsOK'
    BY DEF IInv, TypeOK, CountsOK, SendFails, server, down, up, wrapper, buffered,
      channel, MaySend, Live, IsUp, WriteFails, DestroySocket
  <2>3. FlagsOK'
    BY DEF IInv, TypeOK, FlagsOK, SendFails, server, down, up, wrapper, buffered, channel,
      MaySend, Live, IsUp, WriteFails, DestroySocket
  <2>4. QED
    BY <2>1, <2>2, <2>3 DEF TypeOK
<1>2. Opening' /\ Windows' /\ Delivering' /\ Receiving' /\ Sending'
  BY DEF IInv, Opening, IsUp, Windows, WindowsAgree, Live, Delivering, Receiving,
    NeverStarved, ConsumerLives, WindowAccounted, Sending, SendFails, server, down, up,
    wrapper, buffered, channel, MaySend, WriteFails, DestroySocket
<1>3. NoLostWakeup' /\ AckAccepted' /\ EndIsTold'
  BY DEF IInv, NoLostWakeup, Live, IsUp, AckAccepted, EndIsTold, SendFails, server, down,
    up, wrapper, buffered, channel, MaySend, WriteFails, DestroySocket
<1>4. Confirming' /\ ServerEnded' /\ NoProtocolFailure' /\ NoOrphanAtServer'
  BY DEF IInv, Confirming, Live, ServerEnded, IsUp, NoProtocolFailure, NoOrphanAtServer,
    SendFails, server, down, up, wrapper, buffered, channel, MaySend, WriteFails,
    DestroySocket
<1>5. QED
  BY <1>1, <1>2, <1>3, <1>4 DEF IInv

(* A write gives up waiting. *)
LEMMA WindowTimeoutKeeps ==
  ASSUME IInv, WindowTimeout
  PROVE  IInv'
<1>1. TypeOK'
  <2>1. PhasesOK'
    BY DEF IInv, TypeOK, PhasesOK, Endings, Live, WindowTimeout, server, down, up,
      wrapper, buffered, channel, WriteFails, DestroySocket
  <2>2. CountsOK'
    BY DEF IInv, TypeOK, CountsOK, WindowTimeout, server, down, up, wrapper, buffered,
      channel, WriteFails, DestroySocket
  <2>3. FlagsOK'
    BY DEF IInv, TypeOK, FlagsOK, WindowTimeout, server, down, up, wrapper, buffered,
      channel, WriteFails, DestroySocket
  <2>4. QED
    BY <2>1, <2>2, <2>3 DEF TypeOK
<1>2. Opening' /\ Windows' /\ Delivering' /\ Receiving' /\ Sending'
  BY DEF IInv, Opening, IsUp, Windows, WindowsAgree, Live, Delivering, Receiving,
    NeverStarved, ConsumerLives, WindowAccounted, Sending, WindowTimeout, server, down,
    up, wrapper, buffered, channel, WriteFails, DestroySocket
<1>3. NoLostWakeup' /\ AckAccepted' /\ EndIsTold'
  BY DEF IInv, NoLostWakeup, Live, IsUp, AckAccepted, EndIsTold, WindowTimeout, server,
    down, up, wrapper, buffered, channel, WriteFails, DestroySocket
<1>4. Confirming' /\ ServerEnded' /\ NoProtocolFailure' /\ NoOrphanAtServer'
  BY DEF IInv, Confirming, Live, ServerEnded, IsUp, NoProtocolFailure, NoOrphanAtServer,
    WindowTimeout, server, down, up, wrapper, buffered, channel, WriteFails, DestroySocket
<1>5. QED
  BY <1>1, <1>2, <1>3, <1>4 DEF IInv

(* An acknowledgement returns all that was held back, or there is window left. *)
LEMMA AppAckKeeps ==
  ASSUME IInv, NEW n \in 1..handed, AppAck(n)
  PROVE  IInv'
<1>1. TypeOK'
  <2>1. PhasesOK'
    BY DEF IInv, TypeOK, PhasesOK, Endings, Live, AppAck, server, down, wrapper, writing,
      buffered, AckRejects, Returned, DestroySocket
  <2>2. CountsOK'
    BY DEF IInv, TypeOK, CountsOK, AppAck, server, down, wrapper, writing, buffered,
      AckRejects, Live, Returned, DestroySocket
  <2>3. FlagsOK'
    BY DEF IInv, TypeOK, FlagsOK, AppAck, server, down, wrapper, writing, buffered,
      AckRejects, Live, Returned, DestroySocket
  <2>4. QED
    BY <2>1, <2>2, <2>3 DEF TypeOK
<1>2. Windows'
  BY DEF IInv, TypeOK, Windows, WindowsAgree, Live, IsUp, CountsOK, AppAck, server, down,
    wrapper, writing, buffered, AckRejects, Returned, DestroySocket
<1>3. Delivering'
  BY DEF IInv, TypeOK, Delivering, Live, IsUp, CountsOK, AppAck, server, down, wrapper,
    writing, buffered, AckRejects, Returned, DestroySocket
<1>4. Receiving'
  BY SshChannelAssumption DEF IInv, TypeOK, Receiving, NeverStarved, ConsumerLives, IsUp,
    WindowAccounted, Live, CountsOK, Opening, AppAck, server, down, wrapper, writing,
    buffered, AckRejects, Returned, DestroySocket
<1>5. AckAccepted'
  BY DEF IInv, TypeOK, AckAccepted, CountsOK, Opening, IsUp, Delivering, Live, Receiving,
    NeverStarved, ConsumerLives, WindowAccounted, AppAck, server, down, wrapper, writing,
    buffered, AckRejects, Returned, DestroySocket
<1>6. Opening' /\ Confirming' /\ EndIsTold'
  BY DEF IInv, Opening, IsUp, Confirming, Live, EndIsTold, AppAck, server, down, wrapper,
    writing, buffered, AckRejects, Returned, DestroySocket
<1>7. ServerEnded' /\ Sending' /\ NoProtocolFailure' /\ NoLostWakeup' /\ NoOrphanAtServer'
  BY DEF IInv, ServerEnded, IsUp, Sending, NoProtocolFailure, NoLostWakeup, Live,
    NoOrphanAtServer, AppAck, server, down, wrapper, writing, buffered, AckRejects,
    Returned, DestroySocket
<1>8. QED
  BY <1>1, <1>2, <1>3, <1>4, <1>5, <1>6, <1>7 DEF IInv

(* The application half-closes. *)
LEMMA AppEndKeeps ==
  ASSUME IInv, AppEnd
  PROVE  IInv'
<1>1. TypeOK'
  <2>1. PhasesOK'
    BY DEF IInv, TypeOK, PhasesOK, Endings, Live, AppEnd, server, down, writing, buffered,
      AfterEofSent, SendEof, DestroySocket, IsUp
  <2>2. CountsOK'
    BY DEF IInv, TypeOK, CountsOK, AppEnd, server, down, writing, buffered, Live,
      AfterEofSent, SendEof, DestroySocket, IsUp
  <2>3. FlagsOK'
    BY DEF IInv, TypeOK, FlagsOK, AppEnd, server, down, writing, buffered, Live,
      AfterEofSent, SendEof, DestroySocket, IsUp
  <2>4. QED
    BY <2>1, <2>2, <2>3 DEF TypeOK
<1>2. Receiving'
  BY DEF IInv, Receiving, NeverStarved, ConsumerLives, IsUp, WindowAccounted, Live,
    Opening, Sending, AppEnd, server, down, writing, buffered, AfterEofSent, SendEof,
    DestroySocket
<1>3. Opening' /\ Confirming' /\ ServerEnded' /\ Windows' /\ Delivering'
  BY DEF IInv, Opening, IsUp, Confirming, Live, ServerEnded, Windows, WindowsAgree,
    Delivering, AppEnd, server, down, writing, buffered, AfterEofSent, SendEof,
    DestroySocket
<1>4. Sending' /\ NoLostWakeup' /\ AckAccepted' /\ NoOrphanAtServer' /\ EndIsTold'
  BY DEF IInv, Sending, IsUp, NoLostWakeup, Live, AckAccepted, NoOrphanAtServer,
    EndIsTold, AppEnd, server, down, writing, buffered, AfterEofSent, SendEof,
    DestroySocket
<1>5. NoProtocolFailure'
  BY DEF IInv, NoProtocolFailure, AppEnd, server, down, writing, buffered, Live,
    AfterEofSent, SendEof, DestroySocket, IsUp
<1>6. QED
  BY <1>1, <1>2, <1>3, <1>4, <1>5 DEF IInv

(* The local socket is destroyed. *)
LEMMA AppResetsKeeps ==
  ASSUME IInv, AppResets
  PROVE  IInv'
<1>1. TypeOK'
  <2>1. PhasesOK'
    BY DEF IInv, TypeOK, PhasesOK, Endings, Live, AppResets, server, down, up, wrapper,
      writing, buffered, channel
  <2>2. CountsOK'
    BY DEF IInv, TypeOK, CountsOK, AppResets, server, down, up, wrapper, writing,
      buffered, channel
  <2>3. FlagsOK'
    BY DEF IInv, TypeOK, FlagsOK, AppResets, server, down, up, wrapper, writing, buffered,
      channel
  <2>4. QED
    BY <2>1, <2>2, <2>3 DEF TypeOK
<1>2. Opening' /\ Delivering' /\ Receiving' /\ EndIsTold'
  BY DEF IInv, Opening, IsUp, Delivering, Live, Receiving, NeverStarved, ConsumerLives,
    WindowAccounted, EndIsTold, AppResets, server, down, up, wrapper, writing, buffered,
    channel
<1>3. Confirming' /\ ServerEnded' /\ Windows' /\ Sending' /\ NoProtocolFailure'
  BY DEF IInv, Confirming, Live, ServerEnded, IsUp, Windows, WindowsAgree, Sending,
    NoProtocolFailure, AppResets, server, down, up, wrapper, writing, buffered, channel
<1>4. NoLostWakeup' /\ AckAccepted' /\ NoOrphanAtServer'
  BY DEF IInv, NoLostWakeup, Live, IsUp, AckAccepted, NoOrphanAtServer, AppResets, server,
    down, up, wrapper, writing, buffered, channel
<1>5. QED
  BY <1>1, <1>2, <1>3, <1>4 DEF IInv

(* The close event of the local socket asks for the close of the channel. *)
LEMMA SocketClosesKeeps ==
  ASSUME IInv, SocketCloses
  PROVE  IInv'
<1>1. TypeOK'
  <2>1. PhasesOK'
    BY DEF IInv, TypeOK, PhasesOK, Endings, Live, SocketCloses, server, down, up, writing,
      buffered, channel
  <2>2. CountsOK'
    BY DEF IInv, TypeOK, CountsOK, SocketCloses, server, down, up, writing, buffered,
      channel
  <2>3. FlagsOK'
    BY DEF IInv, TypeOK, FlagsOK, SocketCloses, server, down, up, writing, buffered,
      channel
  <2>4. QED
    BY <2>1, <2>2, <2>3 DEF TypeOK
<1>2. Sending'
  BY DEF IInv, Sending, IsUp, Opening, SocketCloses, server, down, up, writing, buffered,
    channel
<1>3. Opening' /\ Delivering' /\ Receiving' /\ EndIsTold'
  BY DEF IInv, Opening, IsUp, Delivering, Live, Receiving, NeverStarved, ConsumerLives,
    WindowAccounted, EndIsTold, SocketCloses, server, down, up, writing, buffered, channel
<1>4. Confirming' /\ ServerEnded' /\ Windows' /\ NoProtocolFailure' /\ NoLostWakeup'
  BY DEF IInv, Confirming, Live, ServerEnded, IsUp, Windows, WindowsAgree,
    NoProtocolFailure, NoLostWakeup, SocketCloses, server, down, up, writing, buffered,
    channel
<1>5. AckAccepted' /\ NoOrphanAtServer'
  BY DEF IInv, AckAccepted, NoOrphanAtServer, IsUp, SocketCloses, server, down, up,
    writing, buffered, channel
<1>6. QED
  BY <1>1, <1>2, <1>3, <1>4, <1>5 DEF IInv

(* close() sends EOF unless end() has. *)
LEMMA CloseSendsEofKeeps ==
  ASSUME IInv, CloseSendsEof
  PROVE  IInv'
<1>1. TypeOK'
  <2>1. PhasesOK'
    BY DEF IInv, TypeOK, PhasesOK, Endings, Live, CloseSendsEof, server, down, writing,
      consumer, buffered, AfterEofSent, SendEof, IsUp
  <2>2. CountsOK'
    BY DEF IInv, TypeOK, CountsOK, CloseSendsEof, server, down, writing, consumer,
      buffered, Live, AfterEofSent, SendEof, IsUp
  <2>3. FlagsOK'
    BY DEF IInv, TypeOK, FlagsOK, CloseSendsEof, server, down, writing, consumer,
      buffered, Live, AfterEofSent, SendEof, IsUp
  <2>4. QED
    BY <2>1, <2>2, <2>3 DEF TypeOK
<1>2. Receiving'
  BY DEF IInv, Receiving, NeverStarved, ConsumerLives, IsUp, WindowAccounted, Live,
    Opening, CloseSendsEof, server, down, writing, consumer, buffered, AfterEofSent,
    SendEof
<1>3. Opening' /\ Confirming' /\ ServerEnded' /\ Windows' /\ Delivering'
  BY DEF IInv, Opening, IsUp, Confirming, Live, ServerEnded, Windows, WindowsAgree,
    Delivering, CloseSendsEof, server, down, writing, consumer, buffered, AfterEofSent,
    SendEof
<1>4. Sending' /\ NoLostWakeup' /\ NoOrphanAtServer' /\ EndIsTold'
  BY DEF IInv, Sending, IsUp, NoLostWakeup, Live, NoOrphanAtServer, EndIsTold,
    CloseSendsEof, server, down, writing, consumer, buffered, AfterEofSent, SendEof
<1>5. NoProtocolFailure' /\ AckAccepted'
  BY DEF IInv, NoProtocolFailure, AckAccepted, CloseSendsEof, server, down, writing,
    consumer, buffered, Live, AfterEofSent, SendEof, IsUp
<1>6. QED
  BY <1>1, <1>2, <1>3, <1>4, <1>5 DEF IInv

(* close() sends CLOSE unless the server was first. *)
LEMMA CloseSendsCloseKeeps ==
  ASSUME IInv, CloseSendsClose
  PROVE  IInv'
<1>1. TypeOK'
  <2>1. PhasesOK'
    BY DEF IInv, TypeOK, PhasesOK, Endings, Live, CloseSendsClose, server, down, writing,
      consumer, SendClose, DeleteDelivery, IsUp
  <2>2. CountsOK'
    BY DEF IInv, TypeOK, CountsOK, CloseSendsClose, server, down, writing, consumer, Live,
      SendClose, DeleteDelivery, IsUp
  <2>3. FlagsOK'
    BY DEF IInv, TypeOK, FlagsOK, CloseSendsClose, server, down, writing, consumer, Live,
      SendClose, DeleteDelivery, IsUp
  <2>4. QED
    BY <2>1, <2>2, <2>3 DEF TypeOK
<1>2. Delivering'
  BY DEF IInv, Delivering, Live, IsUp, Opening, CloseSendsClose, server, down, writing,
    consumer, SendClose, DeleteDelivery
<1>3. Sending'
  BY DEF IInv, Sending, IsUp, Confirming, Live, CloseSendsClose, server, down, writing,
    consumer, SendClose, DeleteDelivery
<1>4. NoOrphanAtServer'
  BY DEF IInv, TypeOK, NoOrphanAtServer, IsUp, PhasesOK, Endings, Live, Opening,
    CloseSendsClose, server, down, writing, consumer, SendClose, DeleteDelivery
<1>5. EndIsTold'
  BY DEF IInv, EndIsTold, IsUp, Opening, CloseSendsClose, server, down, writing, consumer,
    Live, SendClose, DeleteDelivery
<1>6. Opening' /\ Confirming' /\ ServerEnded' /\ Windows' /\ Receiving'
  BY DEF IInv, Opening, IsUp, Confirming, Live, ServerEnded, Windows, WindowsAgree,
    Receiving, NeverStarved, ConsumerLives, WindowAccounted, CloseSendsClose, server,
    down, writing, consumer, SendClose, DeleteDelivery
<1>7. NoLostWakeup'
  BY DEF IInv, NoLostWakeup, Live, IsUp, CloseSendsClose, server, down, writing, consumer,
    SendClose, DeleteDelivery
<1>8. NoProtocolFailure' /\ AckAccepted'
  BY DEF IInv, NoProtocolFailure, AckAccepted, CloseSendsClose, server, down, writing,
    consumer, Live, SendClose, DeleteDelivery, IsUp
<1>9. QED
  BY <1>1, <1>2, <1>3, <1>4, <1>5, <1>6, <1>7, <1>8 DEF IInv

(* The server answers the open. *)
LEMMA ServerOpensKeeps ==
  ASSUME IInv, ServerOpens
  PROVE  IInv'
<1>1. TypeOK'
  <2>1. PhasesOK'
    BY DEF IInv, TypeOK, PhasesOK, Endings, Live, ServerOpens, client, wrapper, writing,
      consumer, buffered, channel, IsUp
  <2>2. CountsOK'
    BY SshChannelAssumption DEF IInv, TypeOK, CountsOK, ServerOpens, client, wrapper,
      writing, consumer, buffered, channel, IsUp
  <2>3. FlagsOK'
    BY DEF IInv, TypeOK, FlagsOK, ServerOpens, client, wrapper, writing, consumer,
      buffered, channel, IsUp
  <2>4. QED
    BY <2>1, <2>2, <2>3 DEF TypeOK
<1>2. Confirming'
  BY SshChannelAssumption DEF IInv, TypeOK, Confirming, Live, PhasesOK, Endings, Opening,
    IsUp, ServerOpens, client, wrapper, writing, consumer, buffered, channel
<1>3. Windows'
  BY SshChannelAssumption DEF IInv, Windows, WindowsAgree, Live, IsUp, Confirming,
    ServerOpens, client, wrapper, writing, consumer, buffered, channel
<1>4. Sending'
  BY DEF IInv, Sending, IsUp, Confirming, Live, ServerOpens, client, wrapper, writing,
    consumer, buffered, channel
<1>5. NoOrphanAtServer'
  BY DEF IInv, NoOrphanAtServer, IsUp, ServerOpens, client, wrapper, writing, consumer,
    buffered, channel
<1>6. Opening' /\ ServerEnded' /\ Delivering' /\ Receiving' /\ NoProtocolFailure'
  BY DEF IInv, Opening, IsUp, ServerEnded, Delivering, Live, Receiving, NeverStarved,
    ConsumerLives, WindowAccounted, NoProtocolFailure, ServerOpens, client, wrapper,
    writing, consumer, buffered, channel
<1>7. NoLostWakeup' /\ AckAccepted' /\ EndIsTold'
  BY DEF IInv, NoLostWakeup, Live, IsUp, AckAccepted, EndIsTold, ServerOpens, client,
    wrapper, writing, consumer, buffered, channel
<1>8. QED
  BY <1>1, <1>2, <1>3, <1>4, <1>5, <1>6, <1>7 DEF IInv

(* The server sends what its window allows. *)
LEMMA ServerSendsKeeps ==
  ASSUME IInv, NEW n \in 1..srvWindow, ServerSends(n)
  PROVE  IInv'
<1>1. TypeOK'
  <2>1. PhasesOK'
    BY DEF IInv, TypeOK, PhasesOK, Endings, Live, ServerSends, client, wrapper, writing,
      consumer, buffered, channel, Serving, IsUp
  <2>2. CountsOK'
    BY DEF IInv, TypeOK, CountsOK, ServerSends, client, wrapper, writing, consumer,
      buffered, channel, Serving, IsUp
  <2>3. FlagsOK'
    BY DEF IInv, TypeOK, FlagsOK, ServerSends, client, wrapper, writing, consumer,
      buffered, channel, Serving, IsUp
  <2>4. QED
    BY <2>1, <2>2, <2>3 DEF TypeOK
<1>2. Confirming'
  BY DEF IInv, TypeOK, Confirming, Live, CountsOK, ServerSends, client, wrapper, writing,
    consumer, buffered, channel, Serving, IsUp
<1>3. Windows'
  BY DEF IInv, TypeOK, Windows, WindowsAgree, Live, IsUp, CountsOK, ServerSends, client,
    wrapper, writing, consumer, buffered, channel, Serving
<1>4. ServerEnded'
  BY DEF IInv, ServerEnded, IsUp, ServerSends, client, wrapper, writing, consumer,
    buffered, channel, Serving
<1>5. Opening' /\ Delivering' /\ Receiving' /\ Sending' /\ NoProtocolFailure'
  BY DEF IInv, Opening, IsUp, Delivering, Live, Receiving, NeverStarved, ConsumerLives,
    WindowAccounted, Sending, NoProtocolFailure, ServerSends, client, wrapper, writing,
    consumer, buffered, channel, Serving
<1>6. NoLostWakeup' /\ AckAccepted' /\ NoOrphanAtServer' /\ EndIsTold'
  BY DEF IInv, NoLostWakeup, Live, IsUp, AckAccepted, NoOrphanAtServer, EndIsTold,
    ServerSends, client, wrapper, writing, consumer, buffered, channel, Serving
<1>7. QED
  BY <1>1, <1>2, <1>3, <1>4, <1>5, <1>6 DEF IInv

(* The server ends its direction. *)
LEMMA ServerSendsEofKeeps ==
  ASSUME IInv, ServerSendsEof
  PROVE  IInv'
<1>1. TypeOK'
  <2>1. PhasesOK'
    BY DEF IInv, TypeOK, PhasesOK, Endings, Live, ServerSendsEof, client, wrapper,
      writing, consumer, buffered, channel, Serving, IsUp
  <2>2. CountsOK'
    BY DEF IInv, TypeOK, CountsOK, ServerSendsEof, client, wrapper, writing, consumer,
      buffered, channel, Serving, IsUp
  <2>3. FlagsOK'
    BY DEF IInv, TypeOK, FlagsOK, ServerSendsEof, client, wrapper, writing, consumer,
      buffered, channel, Serving, IsUp
  <2>4. QED
    BY <2>1, <2>2, <2>3 DEF TypeOK
<1>2. Confirming' /\ ServerEnded'
  BY DEF IInv, Confirming, Live, ServerEnded, IsUp, ServerSendsEof, client, wrapper,
    writing, consumer, buffered, channel, Serving
<1>3. Opening' /\ Windows' /\ Delivering' /\ Receiving' /\ Sending'
  BY DEF IInv, Opening, IsUp, Windows, WindowsAgree, Live, Delivering, Receiving,
    NeverStarved, ConsumerLives, WindowAccounted, Sending, ServerSendsEof, client,
    wrapper, writing, consumer, buffered, channel, Serving
<1>4. NoProtocolFailure' /\ NoLostWakeup' /\ AckAccepted' /\ NoOrphanAtServer' /\
  EndIsTold'
  BY DEF IInv, NoProtocolFailure, NoLostWakeup, Live, IsUp, AckAccepted, NoOrphanAtServer,
    EndIsTold, ServerSendsEof, client, wrapper, writing, consumer, buffered, channel,
    Serving
<1>5. QED
  BY <1>1, <1>2, <1>3, <1>4 DEF IInv

(* The server closes. *)
LEMMA ServerSendsCloseKeeps ==
  ASSUME IInv, ServerSendsClose
  PROVE  IInv'
<1>1. TypeOK'
  <2>1. PhasesOK'
    BY DEF IInv, TypeOK, PhasesOK, Endings, Live, ServerSendsClose, client, wrapper,
      writing, consumer, buffered, channel, Serving, IsUp
  <2>2. CountsOK'
    BY DEF IInv, TypeOK, CountsOK, ServerSendsClose, client, wrapper, writing, consumer,
      buffered, channel, Serving, IsUp
  <2>3. FlagsOK'
    BY DEF IInv, TypeOK, FlagsOK, ServerSendsClose, client, wrapper, writing, consumer,
      buffered, channel, Serving, IsUp
  <2>4. QED
    BY <2>1, <2>2, <2>3 DEF TypeOK
<1>2. Confirming'
  BY DEF IInv, Confirming, Live, ServerSendsClose, client, wrapper, writing, consumer,
    buffered, channel, Serving, IsUp
<1>3. Opening' /\ ServerEnded' /\ Windows' /\ Delivering' /\ Receiving'
  BY DEF IInv, Opening, IsUp, ServerEnded, Windows, WindowsAgree, Live, Delivering,
    Receiving, NeverStarved, ConsumerLives, WindowAccounted, ServerSendsClose, client,
    wrapper, writing, consumer, buffered, channel, Serving
<1>4. Sending' /\ NoProtocolFailure' /\ NoLostWakeup' /\ AckAccepted' /\ NoOrphanAtServer'
  BY DEF IInv, Sending, IsUp, NoProtocolFailure, NoLostWakeup, Live, AckAccepted,
    NoOrphanAtServer, ServerSendsClose, client, wrapper, writing, consumer, buffered,
    channel, Serving
<1>5. EndIsTold'
  BY DEF IInv, EndIsTold, IsUp, ServerSendsClose, client, wrapper, writing, consumer,
    buffered, channel, Serving
<1>6. QED
  BY <1>1, <1>2, <1>3, <1>4, <1>5 DEF IInv

(* The server grants window. *)
LEMMA ServerGrantsKeeps ==
  ASSUME IInv, NEW n \in 1..(RemoteMax - srvGrant), ServerGrants(n)
  PROVE  IInv'
<1>1. TypeOK'
  <2>1. PhasesOK'
    BY DEF IInv, TypeOK, PhasesOK, Endings, Live, ServerGrants, client, wrapper, writing,
      consumer, buffered, channel, Serving, IsUp
  <2>2. CountsOK'
    BY DEF IInv, TypeOK, CountsOK, ServerGrants, client, wrapper, writing, consumer,
      buffered, channel, Serving, IsUp
  <2>3. FlagsOK'
    BY DEF IInv, TypeOK, FlagsOK, ServerGrants, client, wrapper, writing, consumer,
      buffered, channel, Serving, IsUp
  <2>4. QED
    BY <2>1, <2>2, <2>3 DEF TypeOK
<1>2. Confirming'
  BY SshChannelAssumption DEF IInv, TypeOK, Confirming, Live, CountsOK, ServerGrants,
    client, wrapper, writing, consumer, buffered, channel, Serving, IsUp
<1>3. Windows'
  BY DEF IInv, TypeOK, Windows, WindowsAgree, Live, IsUp, CountsOK, ServerGrants, client,
    wrapper, writing, consumer, buffered, channel, Serving
<1>4. Opening' /\ ServerEnded' /\ Delivering' /\ Receiving' /\ Sending'
  BY DEF IInv, Opening, IsUp, ServerEnded, Delivering, Live, Receiving, NeverStarved,
    ConsumerLives, WindowAccounted, Sending, ServerGrants, client, wrapper, writing,
    consumer, buffered, channel, Serving
<1>5. NoProtocolFailure' /\ NoLostWakeup' /\ AckAccepted' /\ NoOrphanAtServer' /\
  EndIsTold'
  BY DEF IInv, NoProtocolFailure, NoLostWakeup, Live, IsUp, AckAccepted, NoOrphanAtServer,
    EndIsTold, ServerGrants, client, wrapper, writing, consumer, buffered, channel,
    Serving
<1>6. QED
  BY <1>1, <1>2, <1>3, <1>4, <1>5 DEF IInv

(* The server reads data. *)
LEMMA ServerReadsKeeps ==
  ASSUME IInv, NEW n \in 1..upData, ServerReads(n)
  PROVE  IInv'
<1>1. TypeOK'
  <2>1. PhasesOK'
    BY DEF IInv, TypeOK, PhasesOK, Endings, Live, ServerReads, client, wrapper, writing,
      consumer, buffered, channel, down, IsUp
  <2>2. CountsOK'
    BY DEF IInv, TypeOK, CountsOK, Windows, WindowsAgree, Live, IsUp, ServerReads, client,
      wrapper, writing, consumer, buffered, channel, down
  <2>3. FlagsOK'
    BY DEF IInv, TypeOK, FlagsOK, ServerReads, client, wrapper, writing, consumer,
      buffered, channel, down, IsUp
  <2>4. QED
    BY <2>1, <2>2, <2>3 DEF TypeOK
<1>2. Windows'
  BY DEF IInv, TypeOK, Windows, WindowsAgree, Live, IsUp, CountsOK, ServerReads, client,
    wrapper, writing, consumer, buffered, channel, down
<1>3. Confirming'
  BY DEF IInv, Confirming, Live, ServerReads, client, wrapper, writing, consumer,
    buffered, channel, down, IsUp
<1>4. Opening' /\ ServerEnded' /\ Delivering' /\ Receiving' /\ Sending'
  BY DEF IInv, Opening, IsUp, ServerEnded, Delivering, Live, Receiving, NeverStarved,
    ConsumerLives, WindowAccounted, Sending, ServerReads, client, wrapper, writing,
    consumer, buffered, channel, down
<1>5. NoProtocolFailure' /\ NoLostWakeup' /\ AckAccepted' /\ NoOrphanAtServer' /\
  EndIsTold'
  BY DEF IInv, NoProtocolFailure, NoLostWakeup, Live, IsUp, AckAccepted, NoOrphanAtServer,
    EndIsTold, ServerReads, client, wrapper, writing, consumer, buffered, channel, down
<1>6. QED
  BY <1>1, <1>2, <1>3, <1>4, <1>5 DEF IInv

(* The server takes a WINDOW_ADJUST. *)
LEMMA ServerReadsAdjustKeeps ==
  ASSUME IInv, NEW n \in 1..upAdjust, ServerReadsAdjust(n)
  PROVE  IInv'
<1>1. TypeOK'
  <2>1. PhasesOK'
    BY DEF IInv, TypeOK, PhasesOK, Endings, Live, ServerReadsAdjust, client, wrapper,
      writing, consumer, buffered, channel, down, IsUp
  <2>2. CountsOK'
    BY DEF IInv, TypeOK, CountsOK, ServerReadsAdjust, client, wrapper, writing, consumer,
      buffered, channel, down, IsUp
  <2>3. FlagsOK'
    BY DEF IInv, TypeOK, FlagsOK, ServerReadsAdjust, client, wrapper, writing, consumer,
      buffered, channel, down, IsUp
  <2>4. QED
    BY <2>1, <2>2, <2>3 DEF TypeOK
<1>2. Windows'
  BY DEF IInv, TypeOK, Windows, WindowsAgree, Live, IsUp, CountsOK, ServerReadsAdjust,
    client, wrapper, writing, consumer, buffered, channel, down
<1>3. Confirming'
  BY DEF IInv, Confirming, Live, ServerReadsAdjust, client, wrapper, writing, consumer,
    buffered, channel, down, IsUp
<1>4. Opening' /\ ServerEnded' /\ Delivering' /\ Receiving' /\ Sending'
  BY DEF IInv, Opening, IsUp, ServerEnded, Delivering, Live, Receiving, NeverStarved,
    ConsumerLives, WindowAccounted, Sending, ServerReadsAdjust, client, wrapper, writing,
    consumer, buffered, channel, down
<1>5. NoProtocolFailure' /\ NoLostWakeup' /\ AckAccepted' /\ NoOrphanAtServer' /\
  EndIsTold'
  BY DEF IInv, NoProtocolFailure, NoLostWakeup, Live, IsUp, AckAccepted, NoOrphanAtServer,
    EndIsTold, ServerReadsAdjust, client, wrapper, writing, consumer, buffered, channel,
    down
<1>6. QED
  BY <1>1, <1>2, <1>3, <1>4, <1>5 DEF IInv

(* The server reads the EOF. *)
LEMMA ServerReadsEofKeeps ==
  ASSUME IInv, ServerReadsEof
  PROVE  IInv'
<1>1. TypeOK'
  <2>1. PhasesOK'
    BY DEF IInv, TypeOK, PhasesOK, Endings, Live, ServerReadsEof, client, wrapper,
      writing, consumer, buffered, channel, server, down, IsUp
  <2>2. CountsOK'
    BY DEF IInv, TypeOK, CountsOK, ServerReadsEof, client, wrapper, writing, consumer,
      buffered, channel, server, down, IsUp
  <2>3. FlagsOK'
    BY DEF IInv, TypeOK, FlagsOK, ServerReadsEof, client, wrapper, writing, consumer,
      buffered, channel, server, down, IsUp
  <2>4. QED
    BY <2>1, <2>2, <2>3 DEF TypeOK
<1>2. Opening' /\ Confirming' /\ ServerEnded' /\ Windows' /\ Delivering'
  BY DEF IInv, Opening, IsUp, Confirming, Live, ServerEnded, Windows, WindowsAgree,
    Delivering, ServerReadsEof, client, wrapper, writing, consumer, buffered, channel,
    server, down
<1>3. Receiving' /\ Sending' /\ NoProtocolFailure' /\ NoLostWakeup' /\ AckAccepted'
  BY DEF IInv, Receiving, NeverStarved, ConsumerLives, IsUp, WindowAccounted, Live,
    Sending, NoProtocolFailure, NoLostWakeup, AckAccepted, ServerReadsEof, client,
    wrapper, writing, consumer, buffered, channel, server, down
<1>4. NoOrphanAtServer' /\ EndIsTold'
  BY DEF IInv, NoOrphanAtServer, IsUp, EndIsTold, ServerReadsEof, client, wrapper,
    writing, consumer, buffered, channel, server, down
<1>5. QED
  BY <1>1, <1>2, <1>3, <1>4 DEF IInv

(* The server reads the CLOSE and answers it. *)
LEMMA ServerReadsCloseKeeps ==
  ASSUME IInv, ServerReadsClose
  PROVE  IInv'
<1>1. TypeOK'
  <2>1. PhasesOK'
    BY DEF IInv, TypeOK, PhasesOK, Endings, Live, ServerReadsClose, client, wrapper,
      writing, consumer, buffered, channel, IsUp
  <2>2. CountsOK'
    BY DEF IInv, TypeOK, CountsOK, ServerReadsClose, client, wrapper, writing, consumer,
      buffered, channel, IsUp
  <2>3. FlagsOK'
    BY DEF IInv, TypeOK, FlagsOK, ServerReadsClose, client, wrapper, writing, consumer,
      buffered, channel, IsUp
  <2>4. QED
    BY <2>1, <2>2, <2>3 DEF TypeOK
<1>2. Confirming' /\ NoOrphanAtServer'
  BY DEF IInv, Confirming, Live, NoOrphanAtServer, IsUp, ServerReadsClose, client,
    wrapper, writing, consumer, buffered, channel
<1>3. Opening' /\ ServerEnded' /\ Windows' /\ Delivering' /\ Receiving'
  BY DEF IInv, Opening, IsUp, ServerEnded, Windows, WindowsAgree, Live, Delivering,
    Receiving, NeverStarved, ConsumerLives, WindowAccounted, ServerReadsClose, client,
    wrapper, writing, consumer, buffered, channel
<1>4. Sending' /\ NoProtocolFailure' /\ NoLostWakeup' /\ AckAccepted' /\ EndIsTold'
  BY DEF IInv, Sending, IsUp, NoProtocolFailure, NoLostWakeup, Live, AckAccepted,
    EndIsTold, ServerReadsClose, client, wrapper, writing, consumer, buffered, channel
<1>5. QED
  BY <1>1, <1>2, <1>3, <1>4 DEF IInv

-----------------------------------------------------------------------------
(* The invariant holds of every behaviour *)

(* It holds before the channel is opened. *)
LEMMA InvInit == Init => IInv
<1>. SUFFICES ASSUME Init PROVE IInv
  OBVIOUS
<1>1. TypeOK
  BY DEF Init, TypeOK, PhasesOK, CountsOK, FlagsOK, Endings, Live
<1>2. Opening /\ Confirming /\ ServerEnded /\ Windows /\ Delivering
  BY DEF Init, Opening, Confirming, ServerEnded, Windows, WindowsAgree, Delivering, IsUp,
    Live
<1>3. Receiving /\ Sending
  BY DEF Init, Receiving, WindowAccounted, NeverStarved, Sending, IsUp, Live
<1>4. NoProtocolFailure /\ NoLostWakeup /\ AckAccepted /\ NoOrphanAtServer /\ EndIsTold
  BY DEF Init, NoProtocolFailure, NoLostWakeup, AckAccepted, NoOrphanAtServer, EndIsTold,
    IsUp, Live
<1>5. QED
  BY <1>1, <1>2, <1>3, <1>4 DEF IInv

(* A step that changes nothing preserves it. *)
LEMMA StutterKeeps == IInv /\ UNCHANGED vars => IInv'
<1>. SUFFICES ASSUME IInv, UNCHANGED vars PROVE IInv'
  OBVIOUS
<1>. USE DEF vars, channel, buffered, consumer, writing, wrapper, up, down, server
<1>1. PhasesOK' /\ CountsOK'
  BY DEF IInv, TypeOK, PhasesOK, CountsOK
<1>2. FlagsOK'
  BY DEF IInv, TypeOK, FlagsOK
<1>3. Opening' /\ Confirming' /\ ServerEnded' /\ Windows'
  BY DEF IInv, Opening, Confirming, ServerEnded, Windows, WindowsAgree, IsUp
<1>4. Delivering' /\ Receiving' /\ Sending'
  BY DEF IInv, Delivering, Receiving, WindowAccounted, NeverStarved, ConsumerLives, Sending,
    IsUp
<1>5. NoProtocolFailure' /\ NoLostWakeup' /\ AckAccepted' /\ NoOrphanAtServer' /\ EndIsTold'
  BY DEF IInv, NoProtocolFailure, NoLostWakeup, AckAccepted, NoOrphanAtServer, EndIsTold,
    IsUp
<1>6. QED
  BY <1>1, <1>2, <1>3, <1>4, <1>5 DEF IInv, TypeOK

(* Every step preserves it. *)
LEMMA InvStep == IInv /\ [Next]_vars => IInv'
<1>. SUFFICES ASSUME IInv, [Next]_vars PROVE IInv'
  OBVIOUS

<1>1. CASE Receive
  BY <1>1, ReceiveConfirmKeeps, ReceiveFailKeeps, ReceiveDataKeeps, ReceiveAdjustKeeps,
    ReceiveEofKeeps, ReceiveCloseKeeps DEF Receive, ReceiveSomeData, ReceiveSomeAdjust
<1>2. CASE Continue
  BY <1>2, AttachKeeps, DiscardKeeps, BuildKeeps, SendKeeps, SendFailsKeeps,
    SocketClosesKeeps, CloseSendsEofKeeps, CloseSendsCloseKeeps DEF Continue, SendSome
<1>3. CASE AckSome
  BY <1>3, AppAckKeeps DEF AckSome
<1>4. CASE App
  BY <1>4, OpenKeeps, AbandonKeeps, AppEndKeeps, AppResetsKeeps, WindowTimeoutKeeps,
    SessionEndsKeeps, AppWriteKeeps DEF App
<1>5. CASE ServerReceives
  BY <1>5, ServerOpensKeeps, ServerReadsKeeps, ServerReadsAdjustKeeps,
    ServerReadsEofKeeps, ServerReadsCloseKeeps DEF ServerReceives, ServerReadsSome,
    ServerReadsSomeAdjust
<1>6. CASE ServerActs
  BY <1>6, ServerSendsEofKeeps, ServerSendsCloseKeeps, ServerSendsKeeps, ServerGrantsKeeps
    DEF ServerActs
<1>7. QED
  BY <1>1, <1>2, <1>3, <1>4, <1>5, <1>6, StutterKeeps DEF Next

(* The invariant holds of every behaviour of the channel. *)
LEMMA InvHolds == Spec => []IInv
<1>1. QED
  BY InvInit, InvStep, PTL DEF Spec

-----------------------------------------------------------------------------
(* The theorems *)

(* Every variable keeps its type; no window or counter goes below zero. *)
THEOREM ChannelTypes == Spec => []TypeOK
<1>1. IInv => TypeOK
  BY DEF IInv
<1>2. QED
  BY <1>1, InvHolds, PTL

(* Both ends always agree on both windows, counting what is framed and under way
   (consumeLocalWindow, consumeRemoteWindow and their counterparts). *)
THEOREM BothEndsCountAlike == Spec => []WindowsAgree
<1>1. IInv => WindowsAgree
  BY DEF IInv, Windows
<1>2. QED
  BY <1>1, InvHolds, PTL

(* Every byte of the receive window is held back, queued, acknowledged or free
   while the local socket lives (acknowledgeLocalData). *)
THEOREM ReceiveWindowIsKept == Spec => []WindowAccounted
<1>1. IInv => WindowAccounted
  BY DEF IInv, Receiving
<1>2. QED
  BY <1>1, InvHolds, PTL

(* A window at or below one half always has bytes outstanding whose
   acknowledgement reopens it (acknowledgeChannelData), for a window of any size. *)
THEOREM ServerIsNotStarved == Spec => []NeverStarved
<1>1. IInv => NeverStarved
  BY DEF IInv, Receiving
<1>2. QED
  BY <1>1, InvHolds, PTL

(* No message of a conforming server ends the session as a protocol error
   (requireCanReceive, consumeLocalWindow). *)
THEOREM ConformingServerIsUnderstood == Spec => []NoProtocolFailure
<1>1. IInv => NoProtocolFailure
  BY DEF IInv
<1>2. QED
  BY <1>1, InvHolds, PTL

(* A write waits only while the window is empty (waitForChannelWriteWindow). *)
THEOREM WaitingWriteIsWoken == Spec => []NoLostWakeup
<1>1. IInv => NoLostWakeup
  BY DEF IInv
<1>2. QED
  BY <1>1, InvHolds, PTL

(* No acknowledgement of the proxy is refused (acknowledgeLocalData). *)
THEOREM AcknowledgementsAreAccepted == Spec => []AckAccepted
<1>1. IInv => AckAccepted
  BY DEF IInv
<1>2. QED
  BY <1>1, InvHolds, PTL

(* A channel the client has forgotten is closed at the server, or about to be. *)
THEOREM NoChannelIsOrphaned == Spec => []NoOrphanAtServer
<1>1. IInv => NoOrphanAtServer
  BY DEF IInv
<1>2. QED
  BY <1>1, InvHolds, PTL

(* The end of the server's stream reaches the attached consumer, also when it
   came before the listeners (markChannelConsumerReady). *)
THEOREM EndReachesTheConsumer == Spec => []EndIsTold
<1>1. IInv => EndIsTold
  BY DEF IInv
<1>2. QED
  BY <1>1, InvHolds, PTL

(* What ClientConforms allows of one step. *)
Conforms ==
  /\ sentEof' > sentEof => sentEof = 0 /\ sentClose = 0
  /\ sentClose' > sentClose => sentClose = 0
  /\ upData' > upData => sentEof = 0 /\ sentClose = 0
  /\ upAdjust' > upAdjust => sentClose = 0

(* A step that sends nothing conforms. *)
LEMMA QuietConforms ==
  ASSUME IInv, sentEof' = sentEof, sentClose' = sentClose, upData' <= upData,
         upAdjust' <= upAdjust, upData' \in Nat, upAdjust' \in Nat
  PROVE  Conforms
  BY DEF IInv, TypeOK, CountsOK, Conforms

(* Every step of the client and of the server conforms. *)
LEMMA StepConforms == IInv /\ [Next]_vars => Conforms \/ UNCHANGED vars
<1>. SUFFICES ASSUME IInv, Next PROVE Conforms
  OBVIOUS
<1>0. TypeOK /\ TypeOK'
  BY InvStep DEF IInv
<1>1. CASE Open
  BY <1>0, <1>1, QuietConforms DEF TypeOK, CountsOK, Open, server, down, wrapper, writing,
    consumer, IsUp
<1>2. CASE Abandon
  BY <1>0, <1>2, QuietConforms DEF TypeOK, CountsOK, Abandon, server, down, wrapper,
    writing, DestroySocket, DeleteDelivery, IsUp
<1>3. CASE ReceiveConfirm
  BY <1>0, <1>3 DEF IInv, TypeOK, CountsOK, Sending, IsUp, Conforms, ReceiveConfirm,
    server, wrapper, writing, consumer, buffered, SendClose
<1>4. CASE ReceiveFail
  BY <1>0, <1>4, QuietConforms DEF TypeOK, CountsOK, ReceiveFail, server, up, wrapper,
    writing, buffered, DestroySocket, DeleteDelivery, IsUp
<1>5. CASE Attach
  BY <1>0, <1>5, QuietConforms DEF TypeOK, CountsOK, Attach, server, down, up, writing,
    channel
<1>6. CASE Discard
  BY <1>0, <1>6, QuietConforms DEF TypeOK, CountsOK, Discard, server, down, up, writing,
    consumer, buffered, channel
<1>7. ASSUME NEW n \in 1..dnData, ReceiveData(n) PROVE Conforms
  BY <1>0, <1>7, QuietConforms DEF TypeOK, CountsOK, ReceiveData, server, up, wrapper,
    writing, consumer, buffered, channel, MayReceive, Reaches, Overflows, EndSession,
    DestroySocket, DeleteDelivery, IsUp
<1>8. ASSUME NEW n \in 1..dnAdjust, ReceiveAdjust(n) PROVE Conforms
  BY <1>0, <1>8, QuietConforms DEF TypeOK, CountsOK, ReceiveAdjust, server, up, wrapper,
    consumer, buffered, Live, IsUp
<1>9. CASE ReceiveEof
  BY <1>0, <1>9, QuietConforms DEF TypeOK, CountsOK, ReceiveEof, server, up, wrapper,
    writing, consumer, buffered, channel, Overflows, EndSession, DestroySocket,
    DeleteDelivery, AfterEofReceived, WriteFails, IsUp
<1>10. CASE ReceiveClose
  BY <1>0, <1>10 DEF IInv, TypeOK, CountsOK, Confirming, Live, Sending, IsUp, Conforms,
    ReceiveClose, server, up, wrapper, writing, consumer, buffered, channel, Overflows,
    EndSession, DestroySocket, DeleteDelivery, SendClose, WriteFails
<1>11. CASE SessionEnds
  BY <1>0, <1>11, QuietConforms DEF TypeOK, CountsOK, SessionEnds, down, EndSession,
    server, up, wrapper, writing, DestroySocket, DeleteDelivery, IsUp
<1>12. ASSUME NEW n \in 1..MaxWrite, AppWrite(n) PROVE Conforms
  BY <1>0, <1>12, QuietConforms DEF TypeOK, CountsOK, AppWrite, server, down, up, wrapper,
    buffered, channel, DestroySocket
<1>13. CASE Build
  BY <1>0, <1>13, QuietConforms DEF TypeOK, CountsOK, Build, server, down, up, wrapper,
    buffered, Framed, CanSend, WriteFails, DestroySocket, IsUp
<1>14. ASSUME NEW n \in 1..frames, Send(n) PROVE Conforms
  BY <1>0, <1>14 DEF IInv, TypeOK, CountsOK, Sending, IsUp, PhasesOK, Endings, Live,
    Conforms, Send, server, down, wrapper, consumer, buffered, channel, MaySend
<1>15. CASE SendFails
  BY <1>0, <1>15, QuietConforms DEF TypeOK, CountsOK, SendFails, server, down, up,
    wrapper, buffered, channel, MaySend, Live, IsUp, WriteFails, DestroySocket
<1>16. CASE WindowTimeout
  BY <1>0, <1>16, QuietConforms DEF TypeOK, CountsOK, WindowTimeout, server, down, up,
    wrapper, buffered, channel, WriteFails, DestroySocket
<1>17. ASSUME NEW n \in 1..handed, AppAck(n) PROVE Conforms
  BY <1>0, <1>17 DEF IInv, TypeOK, CountsOK, Opening, IsUp, Delivering, Live, Sending,
    Conforms, AppAck, server, down, wrapper, writing, buffered, AckRejects, Returned,
    DestroySocket
<1>18. CASE AppEnd
  BY <1>0, <1>18 DEF IInv, TypeOK, CountsOK, Opening, IsUp, Sending, Conforms, AppEnd,
    server, down, writing, buffered, Live, AfterEofSent, SendEof, DestroySocket
<1>19. CASE AppResets
  BY <1>0, <1>19, QuietConforms DEF TypeOK, CountsOK, AppResets, server, down, up,
    wrapper, writing, buffered, channel
<1>20. CASE SocketCloses
  BY <1>0, <1>20, QuietConforms DEF TypeOK, CountsOK, SocketCloses, server, down, up,
    writing, buffered, channel
<1>21. CASE CloseSendsEof
  BY <1>0, <1>21 DEF IInv, TypeOK, CountsOK, Opening, IsUp, Sending, Conforms,
    CloseSendsEof, server, down, writing, consumer, buffered, Live, AfterEofSent, SendEof
<1>22. CASE CloseSendsClose
  BY <1>0, <1>22 DEF IInv, TypeOK, CountsOK, Opening, IsUp, Sending, Conforms,
    CloseSendsClose, server, down, writing, consumer, Live, SendClose, DeleteDelivery
<1>23. CASE ServerOpens
  BY <1>0, <1>23, QuietConforms DEF TypeOK, CountsOK, ServerOpens, client, wrapper,
    writing, consumer, buffered, channel, IsUp
<1>24. ASSUME NEW n \in 1..srvWindow, ServerSends(n) PROVE Conforms
  BY <1>0, <1>24, QuietConforms DEF TypeOK, CountsOK, ServerSends, client, wrapper,
    writing, consumer, buffered, channel, Serving, IsUp
<1>25. CASE ServerSendsEof
  BY <1>0, <1>25, QuietConforms DEF TypeOK, CountsOK, ServerSendsEof, client, wrapper,
    writing, consumer, buffered, channel, Serving, IsUp
<1>26. CASE ServerSendsClose
  BY <1>0, <1>26, QuietConforms DEF TypeOK, CountsOK, ServerSendsClose, client, wrapper,
    writing, consumer, buffered, channel, Serving, IsUp
<1>27. ASSUME NEW n \in 1..(RemoteMax - srvGrant), ServerGrants(n) PROVE Conforms
  BY <1>0, <1>27, QuietConforms DEF TypeOK, CountsOK, ServerGrants, client, wrapper,
    writing, consumer, buffered, channel, Serving, IsUp
<1>28. ASSUME NEW n \in 1..upData, ServerReads(n) PROVE Conforms
  BY <1>0, <1>28, QuietConforms DEF TypeOK, CountsOK, ServerReads, client, wrapper,
    writing, consumer, buffered, channel, down, IsUp
<1>29. ASSUME NEW n \in 1..upAdjust, ServerReadsAdjust(n) PROVE Conforms
  BY <1>0, <1>29, QuietConforms DEF TypeOK, CountsOK, ServerReadsAdjust, client, wrapper,
    writing, consumer, buffered, channel, down, IsUp
<1>30. CASE ServerReadsEof
  BY <1>0, <1>30, QuietConforms DEF TypeOK, CountsOK, ServerReadsEof, client, wrapper,
    writing, consumer, buffered, channel, server, down, IsUp
<1>31. CASE ServerReadsClose
  BY <1>0, <1>31, QuietConforms DEF TypeOK, CountsOK, ServerReadsClose, client, wrapper,
    writing, consumer, buffered, channel, IsUp
<1>32. QED
  BY <1>1, <1>2, <1>3, <1>4, <1>5, <1>6, <1>7, <1>8, <1>9, <1>10, <1>11, <1>12, <1>13,
    <1>14, <1>15, <1>16, <1>17, <1>18, <1>19, <1>20, <1>21, <1>22, <1>23, <1>24, <1>25,
    <1>26, <1>27, <1>28, <1>29, <1>30, <1>31 DEF Next, Receive, Continue, AckSome, App,
    ServerReceives, ServerActs, ReceiveSomeData, ReceiveSomeAdjust, SendSome,
    ServerReadsSome, ServerReadsSomeAdjust

(* The client sends at most one EOF and one CLOSE, no data after either, and
   nothing on the channel after its CLOSE (buildChannelEof, buildChannelClose,
   sendChannelRuntimePayload). *)
THEOREM ClientKeepsTheProtocol == Spec => ClientConforms
<1>1. IInv /\ [Next]_vars => [Conforms]_vars
  BY StepConforms
<1>2. QED
  BY <1>1, InvHolds, PTL DEF Spec, ClientConforms, Conforms

(* All of it together, for windows, writes and queues of any size. *)
THEOREM ChannelIsSoundAlways == Spec => ChannelIsSound
<1> DEFINE Sound ==
      /\ WindowsAgree /\ WindowAccounted /\ NeverStarved
      /\ NoProtocolFailure /\ AckAccepted /\ NoLostWakeup
      /\ NoOrphanAtServer /\ EndIsTold
<1>1. IInv => Sound
  BY DEF IInv, Windows, Receiving
<1>2. Spec => []Sound
  BY <1>1, InvHolds, PTL
<1>3. QED
  BY <1>2, ClientKeepsTheProtocol, PTL DEF ChannelIsSound

=============================================================================
