----------------------------- MODULE MCSession ------------------------------
(***************************************************************************)
(* The sessions of both transports, for TLC.                               *)
(* They share no state: a behaviour chooses one of them and is a behaviour  *)
(* of that one, so each is explored exactly as it would be by itself.  The  *)
(* bounds of each are in its INSTANCE, those of ServerIdentity and         *)
(* WakeSupervisor, which the theorems leave open, CONSTANTS.               *)
(***************************************************************************)
EXTENDS Naturals, TLC

CONSTANTS
  XrayPorts, XrayRules, \* sets of model values
  ChannelOpens,         \* bound: channels the SSH client opens
  Servers,              \* the saved servers of ServerIdentity, by host name
  ServerAddresses,      \* and where they or others may be
  ServerMoves, UserConnects, AppRestarts, FailedSaves, \* bounds: the Max... of ServerIdentity
  NetworkChanges, BackoffSteps, WakeSessions, FailedReads \* the Max... of WakeSupervisor

VARIABLES
  which, \* the component explored
  state, ended, disposed, owed, xrayTimer, xrayQueue, xrayJob, proc, mine, live, carries, rules,
  inbound, xrayOwner, remembered, xrayHeld, heldAt, clock, bound, tun, adapter, xrayActive,
  attempted, stops, listener, proxy, monitor, stuck, unapplied, forgotten, stray,
  xrayAsks, exits, taken, xrayFaults,
  q, frame, burst, barrier, unusable, outKey, inKey, pendIn, pause, transportPhase, given, written,
  payloads, gated, closed, transportSent, wire, inwire, srv,
  pin, preferred, steady, stage, offer, agreed, tried, presented, retrying, stopped, aborted,
  verified, carried, attempts,
  store, asked, identityRequest, session, last, types, identityHeld, identityPhase, via, at,
  resolver, answers, identityOwner, key, due, identitySent, halt, proved, stale, moves,
  identityConnects, restarts, identityFaults,
  want, wakePhase, ticking, late, signature, network, step, quick, pending, recent, probing, world,
  base, heard, early, missed, wakeConnects, wakeFaults,
  running, others, conn, pendingChannelOpens, totalQueuedSocketBytes

XraySymmetry == Permutations(XrayPorts) \cup Permutations(XrayRules)

Xray == INSTANCE XrayService WITH
  Ports <- XrayPorts, RuleSets <- XrayRules, MaxStops <- 1, MaxAsks <- 2, MaxExits <- 1,
  MaxTroubles <- 1, timer <- xrayTimer, queue <- xrayQueue, job <- xrayJob, owner <- xrayOwner,
  held <- xrayHeld, active <- xrayActive, asks <- xrayAsks, faults <- xrayFaults

Transport == INSTANCE SshTransport WITH
  MaxBurst <- 1, MaxData <- 2, MaxOpens <- ChannelOpens, MaxAdjusts <- 1, MaxServed <- 1,
  MaxKeys <- 2, phase <- transportPhase, sent <- transportSent

Connect == INSTANCE SshConnect

Identity == INSTANCE ServerIdentity WITH
  Host <- Servers, Address <- ServerAddresses, MaxMoves <- ServerMoves,
  MaxConnects <- UserConnects, MaxRestarts <- AppRestarts, MaxFaults <- FailedSaves,
  request <- identityRequest, held <- identityHeld, phase <- identityPhase,
  owner <- identityOwner, sent <- identitySent, connects <- identityConnects,
  faults <- identityFaults

Wake == INSTANCE WakeSupervisor WITH
  MaxWorld <- NetworkChanges, MaxStep <- BackoffSteps, MaxConnects <- WakeSessions,
  MaxFaults <- FailedReads, phase <- wakePhase, connects <- wakeConnects, faults <- wakeFaults

Listener == INSTANCE Socks5Proxy WITH
  Conn <- {1}, Kinds <- {"socks", "connect", "none", "length", "chunked", "bad"},
  MaxConnections <- 1, MaxPending <- 1, MaxQueue <- 2, MaxTotalQueue <- 1, Window <- 2,
  MaxAnswer <- 2

-----------------------------------------------------------------------------
xrayVars ==
  <<state, ended, disposed, owed, xrayTimer, xrayQueue, xrayJob, proc, mine, live, carries, rules,
    inbound, xrayOwner, remembered, xrayHeld, heldAt, clock, bound, tun, adapter, xrayActive,
    attempted, stops, listener, proxy, monitor, stuck, unapplied, forgotten, stray,
    xrayAsks, exits, taken, xrayFaults>>
transportVars ==
  <<q, frame, burst, barrier, unusable, outKey, inKey, pendIn, pause, transportPhase, given,
    written, payloads, gated, closed, transportSent, wire, inwire, srv>>
connectVars ==
  <<pin, preferred, steady, stage, offer, agreed, tried, presented, retrying, stopped, aborted,
    verified, carried, attempts>>
identityVars ==
  <<store, asked, identityRequest, session, last, types, identityHeld, identityPhase, via, at,
    resolver, answers, identityOwner, key, due, identitySent, halt, proved, stale, moves,
    identityConnects, restarts, identityFaults>>
wakeVars ==
  <<want, wakePhase, ticking, late, signature, network, step, quick, pending, recent, probing,
    world, base, heard, early, missed, wakeConnects, wakeFaults>>
listenerVars ==
  <<running, others, conn, pendingChannelOpens, totalQueuedSocketBytes>>

(* A component that is not the one explored rests at zeros. *)
XrayRests ==
  /\ state = 0 /\ ended = 0 /\ disposed = 0 /\ owed = 0 /\ xrayTimer = 0 /\ xrayQueue = 0 /\ xrayJob = 0
  /\ proc = 0 /\ mine = 0 /\ live = 0 /\ carries = 0 /\ rules = 0 /\ inbound = 0 /\ xrayOwner = 0 /\ remembered = 0
  /\ xrayHeld = 0 /\ heldAt = 0 /\ clock = 0 /\ bound = 0 /\ tun = 0 /\ adapter = 0 /\ xrayActive = 0
  /\ attempted = 0 /\ stops = 0 /\ listener = 0 /\ proxy = 0 /\ monitor = 0 /\ stuck = 0
  /\ unapplied = 0 /\ forgotten = 0 /\ stray = 0 /\ xrayAsks = 0
  /\ exits = 0 /\ taken = 0 /\ xrayFaults = 0
TransportRests ==
  /\ q = 0 /\ frame = 0 /\ burst = 0 /\ barrier = 0 /\ unusable = 0 /\ outKey = 0 /\ inKey = 0 /\ pendIn = 0
  /\ pause = 0 /\ transportPhase = 0 /\ given = 0 /\ written = 0 /\ payloads = 0 /\ gated = 0 /\ closed = 0
  /\ transportSent = 0 /\ wire = 0 /\ inwire = 0 /\ srv = 0
ConnectRests ==
  /\ pin = 0 /\ preferred = 0 /\ steady = 0 /\ stage = 0 /\ offer = 0 /\ agreed = 0 /\ tried = 0 /\ presented = 0
  /\ retrying = 0 /\ stopped = 0 /\ aborted = 0 /\ verified = 0 /\ carried = 0 /\ attempts = 0
IdentityRests ==
  /\ store = 0 /\ asked = 0 /\ identityRequest = 0 /\ session = 0 /\ last = 0 /\ types = 0 /\ identityHeld = 0
  /\ identityPhase = 0 /\ via = 0 /\ at = 0 /\ resolver = 0 /\ answers = 0 /\ identityOwner = 0 /\ key = 0
  /\ due = 0 /\ identitySent = 0 /\ halt = 0 /\ proved = 0 /\ stale = 0 /\ moves = 0 /\ identityConnects = 0
  /\ restarts = 0 /\ identityFaults = 0
WakeRests ==
  /\ want = 0 /\ wakePhase = 0 /\ ticking = 0 /\ late = 0 /\ signature = 0 /\ network = 0 /\ step = 0 /\ quick = 0
  /\ pending = 0 /\ recent = 0 /\ probing = 0 /\ world = 0 /\ base = 0 /\ heard = 0 /\ early = 0 /\ missed = 0
  /\ wakeConnects = 0 /\ wakeFaults = 0
ListenerRests ==
  /\ running = 0 /\ others = 0 /\ conn = 0 /\ pendingChannelOpens = 0 /\ totalQueuedSocketBytes = 0

Init ==
  \/ /\ which = "xray" /\ Xray!Init
     /\ TransportRests /\ ConnectRests /\ IdentityRests /\ WakeRests /\ ListenerRests
  \/ /\ which = "transport" /\ Transport!Init
     /\ XrayRests /\ ConnectRests /\ IdentityRests /\ WakeRests /\ ListenerRests
  \/ /\ which = "connect" /\ Connect!Init
     /\ XrayRests /\ TransportRests /\ IdentityRests /\ WakeRests /\ ListenerRests
  \/ /\ which = "identity" /\ Identity!Init
     /\ XrayRests /\ TransportRests /\ ConnectRests /\ WakeRests /\ ListenerRests
  \/ /\ which = "wake" /\ Wake!Init
     /\ XrayRests /\ TransportRests /\ ConnectRests /\ IdentityRests /\ ListenerRests
  \/ /\ which = "listener" /\ Listener!Init
     /\ XrayRests /\ TransportRests /\ ConnectRests /\ IdentityRests /\ WakeRests

Next ==
  \/ /\ which = "xray" /\ Xray!Next
     /\ UNCHANGED <<which, transportVars, connectVars, identityVars, wakeVars, listenerVars>>
  \/ /\ which = "transport" /\ Transport!Next
     /\ UNCHANGED <<which, xrayVars, connectVars, identityVars, wakeVars, listenerVars>>
  \/ /\ which = "connect" /\ Connect!Next
     /\ UNCHANGED <<which, xrayVars, transportVars, identityVars, wakeVars, listenerVars>>
  \/ /\ which = "identity" /\ Identity!Next
     /\ UNCHANGED <<which, xrayVars, transportVars, connectVars, wakeVars, listenerVars>>
  \/ /\ which = "wake" /\ Wake!Next
     /\ UNCHANGED <<which, xrayVars, transportVars, connectVars, identityVars, listenerVars>>
  \/ /\ which = "listener" /\ Listener!Next
     /\ UNCHANGED <<which, xrayVars, transportVars, connectVars, identityVars, wakeVars>>

vars == <<which, xrayVars, transportVars, connectVars, identityVars, wakeVars,
          listenerVars>>

Spec == Init /\ [][Next]_vars

-----------------------------------------------------------------------------
(* Properties. *)

\* While Xray is restarted after it stopped, no port that routing points at
\* is left for another program to bind and no hold outlives its deadline; and
\* once the queue of xray-service.ts has drained, a Connected session has its
\* Xray, its rules and one routing path, and an ended one has given
\* everything back.  Excepted are the port a retry has pointed routing at
\* when it ends before it takes the hold over from the earlier port (stray),
\* an adapter the controller has lost track of (forgotten), the proxy setting
\* of an apply that failed after a restart (unapplied), and what a failed
\* teardown could not take down (stuck).
XraySessionIsKept == which = "xray" => Xray!TypeOK /\ Xray!OutageIsHeld /\ Xray!StatusIsKept

\* Whoever begins a key exchange and whatever is queued, gated or on its way
\* then, client and server read every packet with the keys it was protected
\* with, the exchange does not fail of itself, data is held back between
\* KEXINIT and NEWKEYS, and channel data arrives in order (socket-
\* transport.ts, live-client.ts).
StreamsAgree == which = "transport" => Transport!TypeOK /\ Transport!StreamsAgree

\* Whatever keys a server presents at which attempt, nothing is authenticated
\* to one without the pinned key, one that has it is found, each key type is
\* asked for at most once, and a caller hears of every key that was presented
\* (live-client.ts, connect).
PinHolds == which = "connect" => Connect!TypeOK /\ Connect!PinHolds

\* A session that reconnects by name, by the address kept outside the tunnel
\* or by a cached one sends its credentials only to the server it began with,
\* a remembered address that is somebody else's now is forgotten rather than
\* believed, and only the name itself halts a session (live-ssh-service.ts,
\* main.ts).
ServerIsItself == which = "identity" => Identity!TypeOK /\ Identity!ServerIsItself

\* A sleep or a change of network noticed while a session is wanted cuts its
\* backoff short or probes it, somebody watches for the next one, and a burst
\* of wakes does not spend the attempts at once (system-wake-detector.ts, live-ssh-
\* service.ts).
WakesAreServed == which = "wake" => Wake!TypeOK /\ Wake!WakesAreServed

\* A connection of the local SOCKS and HTTP listener carries both directions
\* whole and in order, answers once, never waits for nothing, and gives back
\* its channel and its share of the limits however it ends (socks5-proxy.ts).
ConnectionsAreServed == which = "listener" => Listener!TypeOK /\ Listener!ConnectionsAreServed

\* performKex says: "Once written, activate the barrier so nothing except
\* KEX/NEWKEYS can follow under the old keys."  A channel open that was queued
\* before follows KEXINIT.
NothingFollowsKexInit == which = "transport" => Transport!NothingFollowsKexInit

=============================================================================
