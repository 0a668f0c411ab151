------------------------------- MODULE TunFlow -------------------------------
(***************************************************************************)
(* The flows of the TUN dataplane (internal/dataplane of                   *)
(* native/service-go): how a connection or a datagram flow captured by the *)
(* adapter is held for its name, decided, dialled and relayed (stack.go,   *)
(* sniff.go, socks5.go), what DNS answers teach (dns.go), and whether the  *)
(* tunnel is taken to carry IPv6 (reach.go).                               *)
(*                                                                         *)
(* Flows run side by side with changes of the policy, of the names learned *)
(* for an address and of the answer of the IPv6 probe.  The policy of a    *)
(* flow is cut down to what these interleavings can tell apart: the names, *)
(* the addresses and the owners it selects (RoutingDecisions has the whole *)
(* order).  A chunk stands for the bytes of one read, or for a datagram.   *)
(***************************************************************************)
EXTENDS Integers, Sequences, FiniteSets, SequencesExt

CONSTANTS
  Flow,          \* the flows
  Name,          \* the names flows carry and answers are about
  LocalName,     \* those that can only mean the local network
  Address,       \* the destinations
  Alias,         \* the names records answer under, none among them
  V6,            \* the IPv6 ones
  Kinds,         \* what a flow can be: records [proto, port, own, hello, proxied, mine, big]
  Policies,      \* the routing revisions: records [names, ips]
  MaxNames,      \* domainCacheMaxNames
  MaxChunks,     \* chunks an application or its peer sends in a flow
  MaxReads,      \* sniffMaxReads, quicMaxInitialDatagrams
  MaxChanges     \* flows begun, changes of the policy and of the cache, and probes

VARIABLES
  policy,        \* the routing revision in force
  datagrams,     \* the transport carries datagrams (Xray does, SSH does not)
  cache,         \* each address: the names it was learned under, newest first
  told,          \* the <<address, name>> pairs a resolver answered or a flow carried
  tunnelIPv6, unconfirmed,
  yes,           \* conclusive probes in a row that found IPv6 reachable, at most 2
  flow,          \* each flow
  cutShort,      \* a datagram flow was ended while one side was active
  changes

vars == <<policy, datagrams, cache, told, tunnelIPv6, unconfirmed, yes, flow, cutShort, changes>>
world == <<policy, datagrams, cache, told, tunnelIPv6, unconfirmed, yes, changes>>
settings == <<policy, datagrams, cache, told, tunnelIPv6, unconfirmed, yes>>

None == "none"
Numbers(n) == [i \in 1..n |-> i]
Idle == [st |-> "idle"]

\* What the far end of a flow stands at: the application's side (sent, eof), what was read
\* of it (read, head), what went up; the peer's side (answers, peerEof) and what came down.
NoBytes == [sent |-> 0, eof |-> FALSE, read |-> 0, head |-> << >>, up |-> << >>, upDone |-> FALSE,
            answers |-> 0, peerEof |-> FALSE, down |-> 0, downDone |-> FALSE]

\* The flows, the learned names and the IPv6 verdict have the shapes the code gives them.
TypeOK ==
  /\ policy \in Policies /\ {datagrams, tunnelIPv6, unconfirmed, cutShort} \subseteq BOOLEAN
  /\ \A a \in Address : Len(cache[a]) <= MaxNames /\ Range(cache[a]) \subseteq Name
  /\ told \subseteq Address \X Name /\ yes \in 0..2 /\ changes \in 0..MaxChanges
  /\ \A f \in Flow : flow[f].st \in {"idle", "held", "dial", "relay", "drain", "dns", "waits", "ended"}

Init ==
  /\ policy \in Policies /\ datagrams \in BOOLEAN
  /\ cache = [a \in Address |-> << >>] /\ told = {}
  /\ tunnelIPv6 = FALSE /\ unconfirmed = FALSE /\ yes = 0
  /\ flow = [f \in Flow |-> Idle] /\ cutShort = FALSE /\ changes = 0

----------------------------------------------------------------------------
\* The policy, as far as a flow's own steps can change its answer.

SelectedByRule(p, to, domains) == to \in p.ips \/ domains \cap p.names # {}

Decide(p, k, to, domains, sniffed) ==
  LET proxied == SelectedByRule(p, to, domains) \/ (k.mine /\ ~(sniffed /\ domains \subseteq LocalName))
  IN CASE ~proxied -> "direct"
       [] proxied /\ k.proto = "udp" /\ ~datagrams -> "drop"
       [] OTHER -> "proxy"

shouldSniff(p, k, to) ==
  LET nameless == SelectedByRule(p, to, {}) \/ k.mine
  IN (p.names # {} /\ ~nameless) \/ (nameless /\ k.proto = "tcp" /\ k.port = "web")

DialsByName(p, name) == name \in p.names

refusesForIPv6(k, to, domains, verdict, held) ==
  /\ to \in V6 /\ ~tunnelIPv6
  /\ verdict = "proxy" \/ (held /\ domains = {} /\ k.port = "web")

----------------------------------------------------------------------------
\* The names learned for an address (DomainCache).

boundedNames(newest, older) ==
  LET merged == newest \o SelectSeq(older, LAMBDA n : n \notin Range(newest))
  IN SubSeq(merged, 1, IF Len(merged) < MaxNames THEN Len(merged) ELSE MaxNames)

Record(a, names) == cache' = [cache EXCEPT ![a] = boundedNames(names, @)]

Learned(a) == Range(cache[a])

rememberSniffedName(a, name) ==
  IF name \in LocalName
  THEN UNCHANGED <<cache, told>>
  ELSE Record(a, <<name>>) /\ told' = told \cup {<<a, name>>}

\* An entry expires or is evicted.
Lapse(a) ==
  /\ changes < MaxChanges /\ cache[a] # << >>
  /\ cache' = [cache EXCEPT ![a] = << >>] /\ changes' = changes + 1
  /\ UNCHANGED <<policy, datagrams, told, tunnelIPv6, unconfirmed, yes, flow, cutShort>>

UpdatePolicy(p) ==
  /\ changes < MaxChanges /\ p # policy
  /\ policy' = p /\ changes' = changes + 1
  /\ UNCHANGED <<datagrams, cache, told, tunnelIPv6, unconfirmed, yes, flow, cutShort>>

----------------------------------------------------------------------------
\* The IPv6 probe: two IPv6 targets and two IPv4 ones are asked through the tunnel.

Targets == {61, 62, 41, 42}

ProbeTunnelIPv6(answered) ==
  IF {61, 62} \subseteq answered THEN "reachable"
  ELSE IF answered \cap {41, 42} # {} THEN "unreachable" ELSE "unknown"

watchTunnelIPv6(answer) ==
  CASE answer = "unknown" -> UNCHANGED <<tunnelIPv6, unconfirmed>>
    [] answer = "reachable" /\ ~tunnelIPv6 /\ ~unconfirmed -> unconfirmed' = TRUE /\ UNCHANGED tunnelIPv6
    [] answer = "reachable" /\ (tunnelIPv6 \/ unconfirmed) -> unconfirmed' = FALSE /\ tunnelIPv6' = TRUE
    [] OTHER -> unconfirmed' = FALSE /\ tunnelIPv6' = FALSE

\* A probe that runs into its deadline before every target settled learned nothing.
Probe(answered, deadline) ==
  LET answer == IF deadline THEN "unknown" ELSE ProbeTunnelIPv6(answered)
  IN /\ changes < MaxChanges /\ (deadline => answered = {})
     /\ changes' = changes + 1
     /\ watchTunnelIPv6(answer)
     /\ yes' = CASE answer = "reachable" -> IF yes < 2 THEN yes + 1 ELSE 2
                 [] answer = "unreachable" -> 0
                 [] OTHER -> yes
     /\ UNCHANGED <<policy, datagrams, cache, told, flow, cutShort>>

----------------------------------------------------------------------------
\* A flow begins.  handleTCP refuses it before the handshake or accepts it; a datagram flow
\* is accepted first and judged afterwards.

Begun(k, to, st, domains, verdict) ==
  [st |-> st, kind |-> k, to |-> to, pol |-> policy, domains |-> domains, learned |-> domains, sniffed |-> FALSE,
   verdict |-> verdict, v6 |-> tunnelIPv6, name |-> None, io |-> NoBytes, soon |-> 2, soonPeer |-> 2, quiet |-> 0,
   reader |-> TRUE, ask |-> None]

\* Nothing of a refused flow, or of a DNS exchange that is over, is kept.
Refused == [st |-> "ended"]

handleTCP(f, k, to) ==
  LET domains == Learned(to)
      verdict == Decide(policy, k, to, domains, FALSE)
      held == shouldSniff(policy, k, to)
  IN /\ k.proto = "tcp" /\ flow[f] = Idle /\ changes < MaxChanges
     /\ flow' = [flow EXCEPT ![f] =
          IF refusesForIPv6(k, to, domains, verdict, held) THEN Refused
          ELSE Begun(k, to, IF held THEN "held" ELSE "dial", domains, verdict)]
     /\ changes' = changes + 1 /\ UNCHANGED <<settings, cutShort>>

\* After the sniff or without one: datagrams that may not leave are drained, the others dialled.
Judged(k, to, domains, verdict) ==
  IF verdict = "drop" \/ refusesForIPv6(k, to, domains, verdict, FALSE) THEN "drain" ELSE "dial"

readFirstDatagram == [NoBytes EXCEPT !.sent = 1, !.read = 1, !.head = <<1>>]

\* Port 53: a flow that opens with a query is served as DNS, any other is routed on what it sent
\* first, without looking for a name.
handleUDP(f, k, to) ==
  LET domains == Learned(to)
      verdict == Decide(policy, k, to, domains, FALSE)
      opened(st) == Begun(k, to, st, domains, verdict)
  IN /\ k.proto = "udp" /\ flow[f] = Idle /\ changes < MaxChanges
     /\ flow' = [flow EXCEPT ![f] =
          CASE k.port = "dns" /\ k.own # None -> [opened("waits") EXCEPT !.ask = [id |-> 1, question |-> k.own]]
            [] k.port = "dns" /\ k.own = None -> [opened(Judged(k, to, domains, verdict)) EXCEPT !.io = readFirstDatagram]
            [] OTHER -> opened(IF shouldSniff(policy, k, to) THEN "held" ELSE Judged(k, to, domains, verdict))]
     /\ changes' = changes + 1 /\ UNCHANGED <<settings, cutShort>>

----------------------------------------------------------------------------
\* Holding a flow for its name (sniffTCP, sniffUDP).

\* The name the first n chunks show: the hello is complete with chunk kind.hello.
Shown(k, n) == IF k.own # None /\ n >= k.hello THEN k.own ELSE None

\* Chunks that can no longer turn out to carry a name end the hold at once.
NeedMore(k, n) == k.own # None /\ n < k.hello /\ n < MaxReads

\* The flow is judged again by its own name, under the revision it began with.
Resolved(f, io, name) ==
  LET w == flow[f]
      verdict == IF name = None THEN w.verdict ELSE Decide(w.pol, w.kind, w.to, {name}, TRUE)
      domains == IF name = None THEN w.domains ELSE {name}
      st == IF w.kind.proto = "tcp" THEN "dial" ELSE Judged(w.kind, w.to, domains, verdict)
  IN flow' = [flow EXCEPT ![f] = [w EXCEPT !.st = st, !.io = io, !.name = name, !.sniffed = name # None,
                                           !.domains = domains, !.verdict = verdict]]

SniffRead(f) ==
  LET w == flow[f]
      n == w.io.read + 1
      io == [w.io EXCEPT !.read = n, !.head = Append(@, n)]
      name == Shown(w.kind, n)
  IN /\ w.st = "held" /\ w.io.read < w.io.sent
     /\ IF name = None /\ NeedMore(w.kind, n)
        THEN flow' = [flow EXCEPT ![f].io = io] /\ UNCHANGED world
        ELSE /\ Resolved(f, io, name)
             /\ IF name = None THEN UNCHANGED <<cache, told>> ELSE rememberSniffedName(w.to, name)
             /\ UNCHANGED <<policy, datagrams, tunnelIPv6, unconfirmed, yes, changes>>
     /\ UNCHANGED cutShort

\* The window closes, or the application closes before its hello is whole.
SniffEnds(f) ==
  /\ flow[f].st = "held" /\ Resolved(f, flow[f].io, None)
  /\ UNCHANGED <<world, cutShort>>

----------------------------------------------------------------------------
\* Dialling.  The head goes up first, whichever way the flow goes.

\* By the name the flow carried as its own server's, when that name is what the rules select.
dialName(w) ==
  IF w.verdict = "proxy" /\ w.kind.proto = "tcp" /\ DialsByName(w.pol, w.name) /\ ~w.kind.proxied THEN w.name ELSE None

\* A datagram too large for the relay of the transport is dropped, not sent.
Sent(w, chunks) == IF w.verdict = "proxy" THEN SelectSeq(chunks, LAMBDA c : c # w.kind.big) ELSE chunks

\* The transport's SOCKS inbound, or the network card, has connected the flow.
Connected(w) == [w EXCEPT !.st = "relay", !.io.up = Sent(w, w.io.head), !.ask = dialName(w)]

\* Mutant: what was read for the name is not sent on.
dialHeadless(f) ==
  /\ flow[f].st = "dial"
  /\ flow' = [flow EXCEPT ![f] = [Connected(@) EXCEPT !.io.up = << >>]]
  /\ UNCHANGED <<world, cutShort>>

dialTCP(f) ==
  /\ flow[f].st = "dial"
  /\ flow' = [flow EXCEPT ![f] = Connected(@)] \/ flow' = [flow EXCEPT ![f].st = "ended"]
  /\ UNCHANGED <<world, cutShort>>

----------------------------------------------------------------------------
\* Relaying.  Each direction of a TCP flow half-closes its far side at its own end; the flow is
\* over when both are.

Open(f) == flow[f].st \in {"held", "dial", "relay", "drain"}

AppSends(f) ==
  /\ Open(f) /\ ~flow[f].io.eof /\ flow[f].io.sent < MaxChunks
  /\ flow' = [flow EXCEPT ![f].io.sent = @ + 1]
  /\ UNCHANGED <<world, cutShort>>

AppCloses(f) ==
  /\ Open(f) /\ flow[f].kind.proto = "tcp" /\ ~flow[f].io.eof
  /\ flow' = [flow EXCEPT ![f].io.eof = TRUE]
  /\ UNCHANGED <<world, cutShort>>

PeerSends(f) ==
  /\ flow[f].st = "relay" /\ ~flow[f].io.peerEof /\ flow[f].io.answers < MaxChunks - 1
  /\ flow' = [flow EXCEPT ![f].io.answers = @ + 1]
  /\ UNCHANGED <<world, cutShort>>

PeerCloses(f) ==
  /\ flow[f].st = "relay" /\ flow[f].kind.proto = "tcp" /\ ~flow[f].io.peerEof
  /\ flow' = [flow EXCEPT ![f].io.peerEof = TRUE]
  /\ UNCHANGED <<world, cutShort>>

\* A flow whose two directions are done ends.
relay(w) == IF w.io.upDone /\ w.io.downDone THEN [w EXCEPT !.st = "ended"] ELSE w

\* Activity in either direction of a datagram flow puts off the deadline of both.
extendUDPDeadlines(w) == [w EXCEPT !.soon = 2, !.soonPeer = 2, !.quiet = 0]

CopyUp(f) ==
  LET w == flow[f]
      io == w.io
  IN /\ w.st = "relay"
     /\ \/ /\ io.read < io.sent
           /\ flow' = [flow EXCEPT ![f] = [extendUDPDeadlines(w) EXCEPT
                !.io = [io EXCEPT !.read = @ + 1, !.up = @ \o Sent(w, <<io.read + 1>>)]]]
        \/ /\ io.eof /\ io.read = io.sent /\ ~io.upDone
           /\ flow' = [flow EXCEPT ![f] = relay([w EXCEPT !.io.upDone = TRUE])]
     /\ UNCHANGED <<world, cutShort>>

CopyDown(f) ==
  LET w == flow[f]
      io == w.io
  IN /\ w.st = "relay"
     /\ \/ /\ io.down < io.answers /\ w.reader
           /\ flow' = [flow EXCEPT ![f] = [extendUDPDeadlines(w) EXCEPT !.io.down = @ + 1]]
        \/ /\ io.peerEof /\ io.down = io.answers /\ ~io.downDone
           /\ flow' = [flow EXCEPT ![f] = relay([w EXCEPT !.io.downDone = TRUE])]
     /\ UNCHANGED <<world, cutShort>>

\* discardUDP: what a refused flow sends is read and dropped.
Drain(f) ==
  LET w == flow[f] IN
  /\ w.st = "drain" /\ w.io.read < w.io.sent
  /\ flow' = [flow EXCEPT ![f] = [w EXCEPT !.io.read = w.io.sent, !.soon = 2]]
  /\ UNCHANGED <<world, cutShort>>

\* Half of udpSessionIdleTimeout passes for a datagram flow with nothing left to read.
Tick(f) ==
  LET w == flow[f] IN
  /\ w.st \in {"relay", "drain"} /\ w.kind.proto = "udp" /\ w.io.read = w.io.sent /\ w.soon > 0
  /\ w.io.down = w.io.answers \/ ~w.reader
  /\ flow' = [flow EXCEPT ![f] = [w EXCEPT !.soon = @ - 1, !.quiet = IF @ < 2 THEN @ + 1 ELSE 2,
                                           !.soonPeer = IF @ > 0 THEN @ - 1 ELSE 0]]
  /\ UNCHANGED <<world, cutShort>>

\* A read runs into its deadline: the loop over the peer's datagrams ends, or the whole flow.
Expire(f) ==
  LET w == flow[f] IN
  /\ w.st \in {"relay", "drain"} /\ w.kind.proto = "udp"
  /\ \/ /\ w.soonPeer = 0 /\ w.reader /\ w.st = "relay" /\ w.io.down = w.io.answers
        /\ flow' = [flow EXCEPT ![f].reader = FALSE]
     \/ w.soon = 0 /\ w.io.read = w.io.sent /\ flow' = [flow EXCEPT ![f].st = "ended"]
  /\ cutShort' = (cutShort \/ (w.st = "relay" /\ w.quiet < 2))
  /\ UNCHANGED world

\* The proxy closes the connection that controls a tunnelled datagram flow.
watchControl(f) ==
  /\ flow[f].st = "relay" /\ flow[f].kind.proto = "udp" /\ flow[f].verdict = "proxy"
  /\ flow' = [flow EXCEPT ![f].st = "ended"]
  /\ UNCHANGED <<world, cutShort>>

----------------------------------------------------------------------------
\* serveDNS: one query at a time goes to the resolver the application addressed.

udpSourceIs(d) == d.resolver

\* A datagram is the answer only if it comes from that resolver and echoes id and question.
answers(d, ask) == udpSourceIs(d) /\ d.id = ask.id /\ d.question = ask.question

\* A datagram that reaches the relay's socket: a response to some query, with a record for an
\* address that may answer under an alias of the name asked for.
Datagrams == [resolver : BOOLEAN, id : 1..2, question : Name, about : Address, alias : Alias]

\* The names an answer teaches: the one asked for first, then the owner of the record.
parseDNSAnswers(d) == <<d.question>> \o (IF d.alias \in {None, d.question} THEN << >> ELSE <<d.alias>>)

\* A datagram reaches the relay's socket while a query is out; what is not its answer is dropped.
DnsDatagram(f, d) ==
  LET w == flow[f] IN
  /\ w.st = "waits"
  /\ IF answers(d, w.ask)
     THEN /\ Record(d.about, parseDNSAnswers(d))
          /\ flow' = [flow EXCEPT ![f] = [w EXCEPT !.st = "dns", !.name = d.question]]
     ELSE UNCHANGED <<cache, flow>>
  /\ told' = IF d.resolver /\ d.id = w.ask.id /\ d.question = w.ask.question
             THEN told \cup ({d.about} \X Range(parseDNSAnswers(d))) ELSE told
  /\ UNCHANGED <<policy, datagrams, tunnelIPv6, unconfirmed, yes, changes, cutShort>>

\* The application asks again on the same socket.
DnsAgain(f, name) ==
  /\ flow[f].st = "dns" /\ flow[f].ask.id = 1
  /\ flow' = [flow EXCEPT ![f] = [@ EXCEPT !.st = "waits", !.ask = [id |-> 2, question |-> name], !.name = None]]
  /\ UNCHANGED <<world, cutShort>>

\* The resolver is silent for dnsTimeout, or the application goes quiet.
DnsEnds(f) ==
  /\ flow[f].st \in {"waits", "dns"}
  /\ flow' = [flow EXCEPT ![f] = Refused]
  /\ UNCHANGED <<world, cutShort>>

\* The slot of a flow that is over is taken by a later flow.
Forget(f) ==
  /\ flow[f].st = "ended" /\ flow' = [flow EXCEPT ![f] = Idle]
  /\ UNCHANGED <<world, cutShort>>

Next ==
  \/ \E f \in Flow :
       \/ \E k \in Kinds, to \in Address : handleTCP(f, k, to) \/ handleUDP(f, k, to)
       \/ SniffRead(f) \/ SniffEnds(f) \/ dialTCP(f)
       \/ AppSends(f) \/ AppCloses(f) \/ PeerSends(f) \/ PeerCloses(f) \/ CopyUp(f) \/ CopyDown(f)
       \/ Drain(f) \/ Tick(f) \/ Expire(f) \/ watchControl(f)
       \/ \E d \in Datagrams : DnsDatagram(f, d)
       \/ \E n \in Name : DnsAgain(f, n)
       \/ DnsEnds(f) \/ Forget(f)
  \/ \E a \in Address : Lapse(a)
  \/ \E p \in Policies : UpdatePolicy(p)
  \/ \E s \in SUBSET Targets, t \in BOOLEAN : Probe(s, t)

Spec == Init /\ [][Next]_vars

----------------------------------------------------------------------------

Live == {f \in Flow : flow[f].st \in {"dial", "relay", "drain"} \/ (flow[f].st = "ended" /\ flow[f] # Refused)}

\* What goes up is what the application sent, whole and in order, the head included; only a
\* datagram too large for the transport's relay may be missing.  A TCP flow that ended on both
\* sides delivered everything in both directions, though one side closed long before the other.
BytesAreWhole ==
  \A f \in Live :
    LET w == flow[f] IN
    /\ w.io.up # << >> \/ w.st = "relay" => w.io.up = Sent(w, Numbers(w.io.read))
    /\ w.st = "ended" /\ w.io.upDone /\ w.io.downDone
         => w.io.up = Numbers(w.io.sent) /\ w.io.down = w.io.answers
    /\ w.st = "ended" /\ w.kind.proto = "tcp" /\ w.io.up # << >> => w.io.upDone /\ w.io.downDone

\* A flow that has shown its own name is routed by that name alone and by the revision in force
\* when it began, whatever names its address was learned under and whatever the policy became;
\* a name is dialled only if it selects the flow and is the connected server's own.
RoutedByItsName ==
  \A f \in Live :
    LET w == flow[f] IN
    /\ w.name # None => w.verdict = Decide(w.pol, w.kind, w.to, {w.name}, TRUE)
    /\ w.ask # None /\ w.st = "relay" => w.ask = w.kind.own /\ w.ask \in w.pol.names /\ ~w.kind.proxied
    /\ w.verdict = "drop" => w.io.up = << >>

\* While the tunnel is not known to carry IPv6, an IPv6 flow is sent into it only when a name
\* was learned for its address that did not select it, or off the web ports: a browser is never
\* left with a connection that succeeds and then closes.  IPv6 is believed after two probes in a
\* row found it, never after one.
IPv6IsConfirmed ==
  /\ tunnelIPv6 => yes = 2
  /\ \A f \in Live :
       LET w == flow[f] IN
       w.to \in V6 /\ ~w.v6 /\ w.verdict = "proxy" /\ w.st = "relay" /\ w.kind.proto = "tcp"
         => w.sniffed /\ (w.learned # {} \/ w.kind.port # "web")

\* An address is known only under names that the resolver asked for them answered or that a
\* flow to it carried; no stray datagram teaches one, and a local name is never learned from a flow.
NamesAreTold ==
  \A a \in Address : \A n \in Range(cache[a]) : <<a, n>> \in told

\* A datagram flow is given up only after a full idle period without a datagram in either direction.
QuietInBothDirections == ~cutShort

\* The flows of the dataplane: whole, routed by their own name, refused where the tunnel would
\* fail them, taught by nobody else, and not cut off while they are in use.
FlowsAreCarried == BytesAreWhole /\ RoutedByItsName /\ IPv6IsConfirmed /\ NamesAreTold /\ QuietInBothDirections
=============================================================================
