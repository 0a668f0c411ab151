---------------------------- MODULE SshTransport ----------------------------
(***************************************************************************)
(* The packet scheduler (SshSocketTransport) and the runtime key exchange   *)
(* (SshLiveClient.performKex, beginRuntimeRekey, withRuntimeGate) of an     *)
(* authenticated session, with the server's side of the exchange as what    *)
(* RFC 4253 lets a server send.                                             *)
(*                                                                         *)
(* A packet is its kind, a number for channel data, and the keys it was     *)
(* protected with: the keys of the session are numbered 0, 1, 2 ...  A      *)
(* frame is on the wire when it is handed to the socket; the pump holds it  *)
(* until the socket has drained.                                            *)
(***************************************************************************)
EXTENDS Naturals, Sequences, FiniteSets, SequencesExt

CONSTANTS
    MaxBurst,   \* MAX_CONSECUTIVE_CHANNEL_OPENS
    MaxData,    \* channel data packets the client sends
    MaxOpens,   \* channel opens the client sends
    MaxAdjusts, \* window adjusts and keepalives the client sends
    MaxServed,  \* data packets the server sends
    MaxKeys     \* key exchanges after the first

VARIABLES
    q,        \* the four outbound queues
    frame,    \* the queue whose head is being written, or "none" (the pump rests)
    burst,    \* consecutiveChannelOpens, up to MaxBurst
    barrier,  \* runtimeKeyExchangeActive
    unusable, \* the transport was destroyed
    outKey,   \* the keys of the packet writer
    inKey,    \* the keys of the packet reader
    pendIn,   \* pendingInboundProtection is set
    pause,    \* "none", "armed" (pauseAfterMessageNumber), "paused"
    phase,    \* where performKex stands; "none": no rekeyPromise
    given,    \* the server's KEXINIT performKex was called with, or "no"
    written,  \* the packet performKex awaits has been written
    payloads, \* payloadQueue: what only the key exchange waits for
    gated,    \* packets whose senders wait in withRuntimeGate
    closed,   \* SshLiveClient.closed
    sent,     \* how much of each bounded kind was sent
    wire,     \* frames on their way to the server
    inwire,   \* frames on their way to the client
    srv       \* the server: keys, and how far its side of an exchange is

client == <<q, frame, burst, barrier, unusable, outKey, inKey, pendIn, pause,
            phase, given, written, payloads, gated, closed, sent>>
vars == <<client, wire, inwire, srv>>

Queues == {"kex", "prio", "opens", "ord"}
KexKinds == {"kexinit", "dhinit", "newkeys"}
Kinds == KexKinds \cup {"data", "open", "adjust", "disconnect"}
Packets == [kind : Kinds, id : 0..MaxData]
InKinds == {"data", "kexinit", "kexinitG", "guess", "reply", "newkeys"}

Packet(kind) == [kind |-> kind, id |-> 0]
Keyed(p, k) == [kind |-> p.kind, id |-> p.id, key |-> k]

\* What performKex awaits: its own packet to be written, or a payload.
Sending == {"sendInit", "sendDh", "sendNewKeys"}
Waiting == {"waitInit", "waitGuess", "waitReply", "waitNewKeys"}

\* The queues, the keys, the exchange and the frames on their way have the
\* shapes the code gives them.
TypeOK ==
    /\ \A n \in Queues : q[n] \in Seq(Packets)
    /\ DOMAIN q = Queues
    /\ frame \in Queues \cup {"none"}
    /\ burst \in 0..MaxBurst
    /\ {barrier, unusable, pendIn, written, closed} \subseteq BOOLEAN
    /\ outKey \in 0..MaxKeys /\ inKey \in 0..MaxKeys
    /\ pause \in {"none", "armed", "paused"}
    /\ phase \in {"none", "haveInit"} \cup Sending \cup Waiting
    /\ given \in {"no", "kexinit", "kexinitG"}
    /\ payloads \in Seq(InKinds) /\ gated \in Seq(Packets)
    /\ sent \in [{"data", "open", "adjust"} -> Nat]
    /\ wire \in Seq([kind : Kinds, id : 0..MaxData, key : 0..MaxKeys])
    /\ inwire \in Seq([kind : InKinds, key : 0..MaxKeys])
    /\ srv \in [in : 0..MaxKeys, out : 0..MaxKeys, init : BOOLEAN, got : BOOLEAN,
                done : BOOLEAN, served : 0..MaxServed]

Init ==
    /\ q = [n \in Queues |-> <<>>]
    /\ frame = "none" /\ burst = 0
    /\ barrier = FALSE /\ unusable = FALSE
    /\ outKey = 0 /\ inKey = 0 /\ pendIn = FALSE /\ pause = "none"
    /\ phase = "none" /\ given = "no" /\ written = FALSE
    /\ payloads = <<>> /\ gated = <<>> /\ closed = FALSE
    /\ sent = [k \in {"data", "open", "adjust"} |-> 0]
    /\ wire = <<>> /\ inwire = <<>>
    /\ srv = [in |-> 0, out |-> 0, init |-> FALSE, got |-> FALSE, done |-> FALSE,
              served |-> 0]

-----------------------------------------------------------------------------
(* The scheduler.                                                           *)

\* The queue the pump takes its next frame from.
nextOutboundQueue(queues, active, opens) ==
    CASE active -> IF queues.kex # <<>> THEN "kex" ELSE "none"
      [] ~active /\ queues.prio # <<>> -> "prio"
      [] /\ ~active /\ queues.prio = <<>> /\ queues.opens # <<>>
         /\ queues.ord = <<>> \/ opens < MaxBurst -> "opens"
      [] ~active /\ queues.prio = <<>> /\ queues.ord # <<>>
         /\ (queues.opens = <<>> \/ opens >= MaxBurst) -> "ord"
      [] OTHER -> IF queues.kex # <<>> THEN "kex" ELSE "none"

\* The pump takes the next frame: its packet is protected and handed to the
\* socket at once.  queues, active and keys are those of the moment.
StartNext(queues, active, keys) ==
    LET n == nextOutboundQueue(queues, active, burst) IN
    /\ frame' = n
    /\ burst' = CASE n = "opens" -> IF burst < MaxBurst THEN burst + 1 ELSE burst
                  [] n = "ord" -> 0
                  [] OTHER -> burst
    /\ wire' = IF n = "none" THEN wire ELSE Append(wire, Keyed(queues[n][1], keys))

\* A call of the pump while it runs changes nothing.
Pump(queues, active, keys) ==
    IF frame = "none" THEN StartNext(queues, active, keys)
                      ELSE UNCHANGED <<frame, burst, wire>>

\* The queue a payload goes to.
queueFor(p) ==
    CASE barrier /\ p.kind \in KexKinds -> "kex"
      [] ~barrier /\ p.kind = "adjust" -> "prio"
      [] ~barrier /\ p.kind = "open" -> "opens"
      [] OTHER -> "ord"

Push(queues, p, n) == [queues EXCEPT ![n] = Append(@, p)]

\* enqueueOutboundPayload with the barrier as it is.
enqueueOutboundPayload(p) ==
    LET queues == Push(q, p, queueFor(p)) IN
    /\ q' = queues
    /\ Pump(queues, barrier, outKey)

\* The continuation of performKex runs before the next event does.
Resumes == phase \in Sending /\ written
Awaits(p) == CASE p = "waitInit" -> {"kexinit", "kexinitG"}
               [] p = "waitGuess" -> InKinds
               [] p = "waitReply" -> {"reply", "guess"}
               [] p = "waitNewKeys" -> {"newkeys"}
               [] OTHER -> {}
Matching(p, s) == {i \in DOMAIN s : s[i] \in Awaits(p)}
Event == ~Resumes /\ phase # "haveInit" /\ Matching(phase, payloads) = {} /\ ~unusable

\* The socket has drained: the pump takes the frame off its queue, resolves its
\* sender's promise and goes on to the next frame before that sender resumes.
FrameDone ==
    /\ Event /\ frame # "none"
    /\ LET queues == [q EXCEPT ![frame] = Tail(@)]
           done == q[frame][1] IN
       /\ q' = queues
       /\ written' = (written \/ done.kind \in KexKinds)
       /\ StartNext(queues, barrier, outKey)
    /\ UNCHANGED <<barrier, unusable, outKey, inKey, pendIn, pause, phase, given,
                   payloads, gated, closed, sent, inwire, srv>>

\* The socket is destroyed: what was queued is rejected, and what was on its way
\* is of no interest any more.
Gone ==
    /\ unusable' = TRUE /\ closed' = TRUE
    /\ q' = [n \in Queues |-> <<>>]
    /\ frame' = "none" /\ phase' = "none" /\ written' = FALSE /\ given' = "no"
    /\ payloads' = <<>> /\ gated' = <<>> /\ wire' = <<>> /\ inwire' = <<>>
    /\ burst' = 0 /\ barrier' = FALSE /\ pendIn' = FALSE /\ pause' = "none"
    /\ UNCHANGED <<outKey, inKey, sent, srv>>

\* The connection is lost, or a keepalive finds it dead.
Fail == Event /\ Gone

\* A frame's write fails or takes longer than writeTimeoutMs.
WriteFails == Event /\ frame # "none" /\ Gone

\* The payload performKex waits for does not come in time.
Timeout == Event /\ phase \in Waiting /\ Gone

-----------------------------------------------------------------------------
(* Senders.                                                                 *)

\* Mutant: a sender does not wait for the key exchange.
passAtOnce(p) ==
    enqueueOutboundPayload(p) /\ UNCHANGED gated

\* withRuntimeGate: the payload is queued now, or after the key exchange.
withRuntimeGate(p) ==
    IF phase = "none" THEN enqueueOutboundPayload(p) /\ UNCHANGED gated
                      ELSE gated' = Append(gated, p) /\ UNCHANGED <<q, frame, burst, wire>>

\* A channel's data, a channel open, or a reply or keepalive.
sendRuntimePayload(kind) ==
    /\ Event /\ ~closed
    /\ sent[kind] < (CASE kind = "data" -> MaxData [] kind = "open" -> MaxOpens
                       [] OTHER -> MaxAdjusts)
    /\ sent' = [sent EXCEPT ![kind] = @ + 1]
    /\ withRuntimeGate([kind |-> kind, id |-> IF kind = "data" THEN sent["data"] + 1 ELSE 0])
    /\ UNCHANGED <<barrier, unusable, outKey, inKey, pendIn, pause, phase, given,
                   written, payloads, closed, inwire, srv>>

\* An open whose caller has given up leaves its queue unless it was started.
AbortOpen ==
    /\ Event
    /\ \E i \in DOMAIN q.opens :
         /\ ~(frame = "opens" /\ i = 1)
         /\ q' = [q EXCEPT !.opens = RemoveAt(@, i)]
    /\ UNCHANGED <<frame, burst, barrier, unusable, outKey, inKey, pendIn, pause,
                   phase, given, written, payloads, gated, closed, sent, wire, inwire, srv>>

\* disconnect does not pass the gate: its packet waits in the ordinary queue.
disconnect ==
    /\ Event /\ ~closed
    /\ closed' = TRUE
    /\ enqueueOutboundPayload(Packet("disconnect"))
    /\ UNCHANGED <<barrier, unusable, outKey, inKey, pendIn, pause, phase, given,
                   written, payloads, gated, sent, inwire, srv>>

\* The courtesy packet was written and the socket ends, or its time is up.
disconnected ==
    /\ Event /\ closed
    /\ Gone

-----------------------------------------------------------------------------
(* The key exchange.                                                        *)

\* performKex up to its first await: after a KEXINIT of the server's (by) the
\* barrier is up before the client's own is queued, otherwise it is queued
\* behind what was accepted before it.
StartKex(by) ==
    LET active == by # "no"
        queues == Push(q, Packet("kexinit"), IF active THEN "kex" ELSE "ord") IN
    /\ phase' = "sendInit" /\ given' = by /\ written' = FALSE
    /\ barrier' = active
    /\ q' = queues
    /\ Pump(queues, active, outKey)

\* Asked for, by the clock or by the bytes transferred.
beginRuntimeRekey ==
    /\ Event /\ ~closed /\ phase = "none" /\ outKey < MaxKeys
    /\ StartKex("no")
    /\ UNCHANGED <<unusable, outKey, inKey, pendIn, pause, payloads, gated, closed,
                   sent, inwire, srv>>

\* Arms the pause and queues KEX_DH_INIT, the barrier being up.
sendDhInit ==
    /\ pause' = "armed"
    /\ phase' = "sendDh" /\ written' = FALSE
    /\ enqueueOutboundPayload(Packet("dhinit"))

\* The server's KEXINIT is at hand: a packet it guessed wrongly is eaten first.
receiveServerKexInit(init) ==
    IF init = "kexinitG"
    THEN phase' = "waitGuess" /\ UNCHANGED <<pause, written, q, frame, burst, wire>>
    ELSE sendDhInit

\* The client's KEXINIT is written.  Of its own accord it raises the barrier now.
KexInitWritten ==
    /\ Resumes /\ phase = "sendInit"
    /\ barrier' = TRUE
    /\ IF given # "no"
       THEN /\ phase' = "haveInit" /\ UNCHANGED <<pause, written, q, frame, burst, wire>>
       ELSE /\ phase' = "waitInit" /\ UNCHANGED <<pause, written, q, frame, burst, wire>>
    /\ UNCHANGED <<unusable, outKey, inKey, pendIn, given, payloads, gated, closed,
                   sent, inwire, srv>>

\* The payload performKex waits for is taken off the queue.
Taken(p) == Min(Matching(p, payloads))
Got(p) ==
    /\ phase = p /\ Matching(p, payloads) # {}
    /\ payloads' = RemoveAt(payloads, Taken(p))

GotInit ==
    /\ \/ Got("waitInit") /\ receiveServerKexInit(payloads[Taken("waitInit")])
       \/ phase = "haveInit" /\ receiveServerKexInit(given) /\ UNCHANGED payloads
    /\ UNCHANGED <<barrier, unusable, outKey, inKey, pendIn, given, gated, closed,
                   sent, inwire, srv>>

GotGuess ==
    /\ Got("waitGuess")
    /\ sendDhInit
    /\ UNCHANGED <<barrier, unusable, outKey, inKey, pendIn, given, gated, closed,
                   sent, inwire, srv>>

DhInitWritten ==
    /\ Resumes /\ phase = "sendDh"
    /\ phase' = "waitReply"
    /\ UNCHANGED <<q, frame, burst, barrier, unusable, outKey, inKey, pendIn, pause,
                   given, written, payloads, gated, closed, sent, wire, inwire, srv>>

\* The reply verifies, and the reader's next keys are ready before NEWKEYS is
\* sent.  A guess taken for the reply does not verify.
GotReply ==
    /\ phase = "waitReply" /\ Matching(phase, payloads) # {}
    /\ IF payloads[Taken(phase)] = "reply"
       THEN /\ Got("waitReply")
            /\ pendIn' = TRUE
            /\ phase' = "sendNewKeys" /\ written' = FALSE
            /\ enqueueOutboundPayload(Packet("newkeys"))
            /\ UNCHANGED <<barrier, unusable, outKey, inKey, pause, given, gated,
                           closed, sent, inwire, srv>>
       ELSE Gone

\* enableOutboundEncryption refuses while a frame is being written.
CannotSwitch == frame # "none" \/ q.kex # <<>>

\* NEWKEYS is written: the writer changes its keys and the parser goes on.
NewKeysWritten ==
    /\ Resumes /\ phase = "sendNewKeys"
    /\ IF CannotSwitch
       THEN Gone
       ELSE /\ outKey' = outKey + 1
            /\ pause' = "none"
            /\ phase' = "waitNewKeys"
            /\ UNCHANGED <<q, frame, burst, barrier, unusable, inKey, pendIn, given,
                           written, payloads, gated, closed, sent, wire, inwire, srv>>

\* The packets of the gate, each to its queue, with the barrier down.
Released(queues, ps) ==
    FoldLeft(LAMBDA qs, p : Push(qs, p, CASE p.kind = "adjust" -> "prio"
                                          [] p.kind = "open" -> "opens"
                                          [] OTHER -> "ord"), queues, ps)

\* The server's NEWKEYS came: the barrier falls, the pump goes on, the promise is
\* over.  A KEXINIT that came behind NEWKEYS starts the next exchange before any
\* sender passes the gate; otherwise the senders pass in their order.
KexDone ==
    /\ phase = "waitNewKeys" /\ Matching(phase, payloads) # {}
    /\ LET rest == RemoveAt(payloads, Taken(phase))
           next == {i \in DOMAIN rest : rest[i] \in {"kexinit", "kexinitG"}}
           flows == nextOutboundQueue(q, FALSE, burst) # "none" IN
       IF next # {} /\ ~closed
       THEN LET queues == Push(q, Packet("kexinit"), "kex") IN
            /\ payloads' = RemoveAt(rest, Min(next))
            /\ q' = queues
            /\ IF flows THEN StartNext(q, FALSE, outKey) ELSE StartNext(queues, TRUE, outKey)
            /\ phase' = "sendInit" /\ given' = rest[Min(next)] /\ written' = FALSE
            /\ barrier' = TRUE
            /\ UNCHANGED gated
       ELSE /\ payloads' = <<>>
            /\ barrier' = FALSE
            /\ phase' = "none" /\ given' = "no" /\ written' = FALSE
            /\ q' = Released(q, gated) /\ gated' = <<>>
            /\ IF flows \/ gated = <<>> THEN StartNext(q, FALSE, outKey)
               ELSE StartNext(Released(q, <<gated[1]>>), FALSE, outKey)
    /\ UNCHANGED <<unusable, outKey, inKey, pendIn, pause, closed, sent, inwire, srv>>

-----------------------------------------------------------------------------
(* The parser (handleData) and the dispatch of what it parsed.              *)

\* One packet is parsed; several of one chunk are parsed before anybody resumes.
\* What does not match the reader's keys ends the session.
handleData ==
    /\ ~Resumes /\ ~unusable /\ phase # "haveInit"
    /\ pause # "paused" /\ inwire # <<>>
    /\ LET p == inwire[1] IN
       IF p.key # inKey
       THEN Gone
       ELSE /\ inwire' = Tail(inwire)
            /\ IF p.kind = "newkeys" /\ pendIn
               THEN inKey' = inKey + 1 /\ pendIn' = FALSE
               ELSE UNCHANGED <<inKey, pendIn>>
            /\ pause' = IF pause = "armed" /\ p.kind \in {"reply", "guess"}
                        THEN "paused" ELSE pause
            /\ CASE p.kind \in {"kexinit", "kexinitG"} /\ phase = "none" /\ ~closed ->
                      StartKex(p.kind) /\ UNCHANGED payloads
                 [] p.kind # "data" /\ phase # "none" ->
                      /\ payloads' = Append(payloads, p.kind)
                      /\ UNCHANGED <<q, frame, burst, wire, barrier, phase, given, written>>
                 [] OTHER -> UNCHANGED <<q, frame, burst, wire, barrier, phase, given,
                                         written, payloads>>
            /\ UNCHANGED <<unusable, outKey, gated, closed, sent, srv>>

-----------------------------------------------------------------------------
(* The server.                                                              *)

Out(kind, key) == [kind |-> kind, key |-> key]

\* The server starts an exchange; it may guess, wrongly.
ServerInit ==
    /\ ~unusable /\ ~srv.init /\ srv.out < MaxKeys
    /\ srv' = [srv EXCEPT !.init = TRUE]
    /\ \E i \in {<<Out("kexinit", srv.out)>>,
                 <<Out("kexinitG", srv.out), Out("guess", srv.out)>>} :
         inwire' = inwire \o i
    /\ UNCHANGED <<client, wire>>

\* Data until its own KEXINIT and after its NEWKEYS.
ServerData ==
    /\ ~unusable /\ (~srv.init \/ srv.done)
    /\ srv.served < MaxServed
    /\ srv' = [srv EXCEPT !.served = @ + 1]
    /\ inwire' = Append(inwire, Out("data", srv.out))
    /\ UNCHANGED <<client, wire>>

\* The server reads a packet, answers KEXINIT with its own unless it sent one,
\* and KEX_DH_INIT with the reply and NEWKEYS.  It does not understand a packet
\* that is protected with other keys than it expects.
ServerReads ==
    /\ wire # <<>> /\ wire[1].key = srv.in
    /\ wire' = Tail(wire)
    /\ CASE wire[1].kind = "kexinit" ->
              /\ srv' = [srv EXCEPT !.got = TRUE, !.init = TRUE]
              /\ \E i \in {<<Out("kexinit", srv.out)>>,
                           <<Out("kexinitG", srv.out), Out("guess", srv.out)>>} :
                   inwire' = IF srv.init THEN inwire ELSE inwire \o i
         [] wire[1].kind = "dhinit" ->
              /\ srv' = [srv EXCEPT !.out = @ + 1, !.done = TRUE]
              /\ inwire' = inwire \o <<Out("reply", srv.out), Out("newkeys", srv.out)>>
         [] wire[1].kind = "newkeys" ->
              /\ srv' = [srv EXCEPT !.in = @ + 1, !.init = FALSE, !.got = FALSE, !.done = FALSE]
              /\ UNCHANGED inwire
         [] OTHER -> UNCHANGED <<srv, inwire>>
    /\ UNCHANGED client

-----------------------------------------------------------------------------
Kex == KexInitWritten \/ GotInit \/ GotGuess \/ DhInitWritten \/ GotReply
       \/ NewKeysWritten \/ KexDone

Next ==
    \/ FrameDone \/ Fail \/ WriteFails \/ Timeout \/ AbortOpen \/ disconnect \/ disconnected
    \/ \E kind \in {"data", "open", "adjust"} : sendRuntimePayload(kind)
    \/ beginRuntimeRekey \/ Kex \/ handleData
    \/ ServerInit \/ ServerData \/ ServerReads

\* A write ends or times out, what resumed runs, and a wait for the server is
\* answered or times out.  Nothing is assumed of the server.
Fairness == WF_vars(FrameDone \/ WriteFails) /\ WF_vars(Kex) /\ WF_vars(Timeout)

Spec == Init /\ [][Next]_vars
FairSpec == Spec /\ Fairness

-----------------------------------------------------------------------------
(* Properties.                                                              *)

\* Each side reads every packet with the keys it was protected with, whoever
\* started the exchange and however the packets of both sides interleave.
KeysAgree ==
    /\ wire # <<>> => wire[1].key = srv.in
    /\ inwire # <<>> /\ pause # "paused" /\ ~unusable => inwire[1].key = inKey

\* A key exchange never fails of itself: no frame is being written when the
\* writer changes its keys, and no packet the server guessed is taken for its reply.
ExchangeIsClean ==
    /\ Resumes /\ phase = "sendNewKeys" => ~CannotSwitch
    /\ phase = "waitReply" /\ Matching(phase, payloads) # {} =>
           payloads[Taken(phase)] = "reply"

\* Where in a sequence of frames the client is between its KEXINIT and NEWKEYS.
InExchange(i) ==
    LET marks == {j \in 1..i - 1 : wire[j].kind \in {"kexinit", "newkeys"}} IN
    IF marks = {} THEN srv.got ELSE wire[Max(marks)].kind = "kexinit"

\* Between KEXINIT and NEWKEYS the client sends neither channel data nor replies.
HeldDuringExchange ==
    \A i \in DOMAIN wire : InExchange(i) => wire[i].kind \in KexKinds \cup {"open", "disconnect"}

\* "nothing except KEX/NEWKEYS can follow under the old keys" (performKex).
NothingFollowsKexInit ==
    \A i \in DOMAIN wire : InExchange(i) => wire[i].kind \in KexKinds \cup {"disconnect"}

Data(s) == SelectSeq(s, LAMBDA p : p.kind = "data")
Unwritten == IF frame = "ord" THEN Tail(q.ord) ELSE q.ord

\* Channel data reaches the server in the order it was sent: nothing of it is
\* lost, doubled or overtaken at the gate, in the queues or by the key exchange.
DataInOrder ==
    ~unusable =>
        LET d == Data(wire \o Unwritten \o gated) IN
        \A i \in DOMAIN d : d[i].id = sent["data"] - Len(d) + i

\* What the two ends make of the stream is the same.
StreamsAgree == KeysAgree /\ ExchangeIsClean /\ HeldDuringExchange /\ DataInOrder

\* Every sender passes the gate, or the session ends.
GateOpens == gated # <<>> ~> gated = <<>> \/ unusable

=============================================================================
