------------------------------ MODULE MCHelper ------------------------------
(***************************************************************************)
(* The Go helper and the controller that runs it, for TLC.                  *)
(* They share no state: a behaviour chooses one of them and is a behaviour  *)
(* of that one, so each is explored exactly as it would be by itself.  The  *)
(* bounds of each are in its INSTANCE or in the cfg.  Theorems about a      *)
(* component are instantiated with it, to be cited of the composition.      *)
(***************************************************************************)
EXTENDS Naturals, TLC

CONSTANTS
  Helpers, Indices,                            \* WinRoute: sets of model values
  SearchPaths, CreateTries, AdapterOpens,      \* TunAdapter
  AdapterPackets, AdapterFaults, AdapterSwaps,
  Lookups, Snapshots, SnapshotFaults,          \* OwnerTable
  HelperProcesses, HelperStarts, HelperFaults, \* NativeDataplane
  Bridges, EndpointConnections,                \* ServiceIpc
  PendingRequests, ServiceRequests, TeardownFaults

VARIABLES
  which, \* the component explored
  ifs, routeTable, journal, refused, lock, routePc, server, nicIndex, todo, done, kept, applied,
  leftover, then, routeGuard, moved, behind, lost, routeFaults, crashes, moves,
  servers, ipv6, guardTable, guardGuard, exempt, reachable, current, ids, guardChanges,
  guardFaults, commits,
  file, load, loaded, device, adapterOpen, tries, session, readers, writer, inbound, outbound,
  cancelled, failure, claimed, supervisor, owner, closer, teardown, adapterTold, ends, opens,
  packets, adapterFaults, swaps,
  ownerPc, ownerOpen, noted, cooled, waits, ownerTable, stale, cooling, ownerAttempts, inflight,
  captured, ownerFaults,
  policy, datagrams, cache, flowsTold, tunnelIPv6, unconfirmed, yes, flow, cutShort, flowsChanges,
  proc, up, helperInbox, ended, helperGeneration, client, dataplaneGeneration, connecting,
  attached, active, startAttempted, stopping, disposed, op, signal, heard, legacy, starts,
  helperFaults,
  mode, main, serviceAttempts, completed, code, dataplane, state, shuttingDown, teardownErr, unfinished, conn,
  partial, writing, timer, serviceInbox, outbox, bridge, pending, bstatus, requests, serviceFaults

RouteSymmetry == Permutations(Helpers) \cup Permutations(Indices)

P(f, v, b) == [family |-> f, value |-> v, bits |-> b]
OtherRoutes == {P(4, 0, 1), P(4, 2, 2), P(4, 3, 3), P(4, 5, 3), P(6, 4, 2), P(6, 0, 0)}
Servers == {{}, {[family |-> 4, value |-> 1]}, {[family |-> 6, value |-> 1]}}

K(proto, port, own, hello, proxied, helpers, big) ==
  [proto |-> proto, port |-> port, own |-> own, hello |-> hello, proxied |-> proxied, mine |-> helpers,
   big |-> big]
FlowKinds ==
  {K("tcp", "web", "s", 2, FALSE, FALSE, 0), K("tcp", "web", "s", 1, FALSE, TRUE, 0),
   K("tcp", "other", "s", 1, TRUE, FALSE, 0), K("udp", "web", "s", 1, FALSE, FALSE, 2),
   K("udp", "dns", "s", 1, FALSE, FALSE, 0), K("udp", "dns", "none", 1, FALSE, TRUE, 1),
   K("tcp", "web", "l", 1, FALSE, TRUE, 0)}
FlowPolicies == {[names |-> {"s"}, ips |-> {}], [names |-> {"s"}, ips |-> {"a6"}]}

Route == INSTANCE WinRoute WITH
  Helper <- Helpers, Server <- {"s"}, Index <- Indices, MaxAttempts <- 2, MaxFaults <- 1,
  MaxCrashes <- 1, MaxMoves <- 1, table <- routeTable, pc <- routePc, guard <- routeGuard,
  faults <- routeFaults

Guard == INSTANCE TrafficGuard WITH
  Bits <- 3, Routes <- OtherRoutes, OnLink <- {P(4, 6, 2)}, Local <- {P(4, 7, 3), P(6, 7, 3)},
  ServerSets <- Servers, MaxRouted <- 2, PerFilter <- 2, MaxChanges <- 3, MaxFaults <- 1,
  MaxCommits <- 1, table <- guardTable, guard <- guardGuard, changes <- guardChanges,
  faults <- guardFaults

Adapter == INSTANCE TunAdapter WITH
  Paths <- SearchPaths, createAttempts <- CreateTries, MaxOpens <- AdapterOpens,
  MaxPackets <- AdapterPackets, MaxFaults <- AdapterFaults, MaxSwaps <- AdapterSwaps,
  open <- adapterOpen, told <- adapterTold, faults <- adapterFaults

Owner == INSTANCE OwnerTable WITH
  Lookup <- Lookups, MaxAttempts <- Snapshots, MaxFaults <- SnapshotFaults,
  pc <- ownerPc, open <- ownerOpen, table <- ownerTable,
  attempts <- ownerAttempts, faults <- ownerFaults

Flows == INSTANCE TunFlow WITH
  Flow <- {1}, Name <- {"s", "l"}, LocalName <- {"l"}, Address <- {"a4", "a6"},
  Alias <- {"none", "l"}, V6 <- {"a6"}, Kinds <- FlowKinds, Policies <- FlowPolicies,
  MaxNames <- 2, MaxChunks <- 2, MaxReads <- 2, MaxChanges <- 2, told <- flowsTold,
  changes <- flowsChanges

Helper == INSTANCE NativeDataplaneProofs WITH
  MaxHelpers <- HelperProcesses, MaxStarts <- HelperStarts, MaxFaults <- HelperFaults,
  inbox <- helperInbox, faults <- helperFaults

Service == INSTANCE ServiceIpc WITH
  Clients <- Bridges, MaxConnections <- EndpointConnections, MaxPending <- PendingRequests,
  MaxRequests <- ServiceRequests, MaxFaults <- TeardownFaults, attempts <- serviceAttempts, inbox <- serviceInbox, faults <- serviceFaults

-----------------------------------------------------------------------------
routeVars ==
  <<ifs, routeTable, journal, refused, lock, routePc, server, nicIndex, todo, done, kept, applied,
    leftover, then, routeGuard, moved, behind, lost, routeFaults, crashes, moves>>
guardVars ==
  <<servers, ipv6, guardTable, guardGuard, exempt, reachable, current, ids, guardChanges,
    guardFaults, commits>>
adapterVars ==
  <<file, load, loaded, device, adapterOpen, tries, session, readers, writer, inbound, outbound,
    cancelled, failure, claimed, supervisor, owner, closer, teardown, adapterTold, ends, opens,
    packets, adapterFaults, swaps>>
ownerVars ==
  <<ownerPc, ownerOpen, noted, cooled, waits, ownerTable, stale, cooling, ownerAttempts, inflight,
    captured, ownerFaults>>
flowsVars ==
  <<policy, datagrams, cache, flowsTold, tunnelIPv6, unconfirmed, yes, flow, cutShort, flowsChanges>>
helperVars ==
  <<proc, up, helperInbox, ended, helperGeneration, client, dataplaneGeneration, connecting,
    attached, active, startAttempted, stopping, disposed, op, signal, heard, legacy, starts,
    helperFaults>>
serviceVars ==
  <<mode, main, serviceAttempts, completed, code, dataplane, state, shuttingDown, teardownErr, unfinished,
    conn, partial, writing, timer, serviceInbox, outbox, bridge, pending, bstatus, requests,
    serviceFaults>>

(* A component that is not the one explored rests at zeros. *)
RouteRests ==
  /\ ifs = 0 /\ routeTable = 0 /\ journal = 0 /\ refused = 0 /\ lock = 0 /\ routePc = 0 /\ server = 0
  /\ nicIndex = 0 /\ todo = 0 /\ done = 0 /\ kept = 0 /\ applied = 0 /\ leftover = 0 /\ then = 0 /\ routeGuard = 0
  /\ moved = 0 /\ behind = 0 /\ lost = 0 /\ routeFaults = 0 /\ crashes = 0 /\ moves = 0
GuardRests ==
  /\ servers = 0 /\ ipv6 = 0 /\ guardTable = 0 /\ guardGuard = 0 /\ exempt = 0 /\ reachable = 0 /\ current = 0
  /\ ids = 0 /\ guardChanges = 0 /\ guardFaults = 0 /\ commits = 0
AdapterRests ==
  /\ file = 0 /\ load = 0 /\ loaded = 0 /\ device = 0 /\ adapterOpen = 0 /\ tries = 0 /\ session = 0 /\ readers = 0
  /\ writer = 0 /\ inbound = 0 /\ outbound = 0 /\ cancelled = 0 /\ failure = 0 /\ claimed = 0 /\ supervisor = 0
  /\ owner = 0 /\ closer = 0 /\ teardown = 0 /\ adapterTold = 0 /\ ends = 0 /\ opens = 0 /\ packets = 0
  /\ adapterFaults = 0 /\ swaps = 0
OwnerRests ==
  /\ ownerPc = 0 /\ ownerOpen = 0 /\ noted = 0 /\ cooled = 0 /\ waits = 0 /\ ownerTable = 0 /\ stale = 0
  /\ cooling = 0 /\ ownerAttempts = 0 /\ inflight = 0 /\ captured = 0 /\ ownerFaults = 0
FlowsRests ==
  /\ policy = 0 /\ datagrams = 0 /\ cache = 0 /\ flowsTold = 0 /\ tunnelIPv6 = 0 /\ unconfirmed = 0 /\ yes = 0
  /\ flow = 0 /\ cutShort = 0 /\ flowsChanges = 0
HelperRests ==
  /\ proc = 0 /\ up = 0 /\ helperInbox = 0 /\ ended = 0 /\ helperGeneration = 0 /\ client = 0
  /\ dataplaneGeneration = 0 /\ connecting = 0 /\ attached = 0 /\ active = 0 /\ startAttempted = 0
  /\ stopping = 0 /\ disposed = 0 /\ op = 0 /\ signal = 0 /\ heard = 0 /\ legacy = 0 /\ starts = 0
  /\ helperFaults = 0
ServiceRests ==
  /\ mode = 0 /\ main = 0 /\ serviceAttempts = 0 /\ completed = 0 /\ code = 0 /\ dataplane = 0 /\ state = 0
  /\ shuttingDown = 0 /\ teardownErr = 0 /\ unfinished = 0 /\ conn = 0 /\ partial = 0 /\ writing = 0 /\ timer = 0
  /\ serviceInbox = 0 /\ outbox = 0 /\ bridge = 0 /\ pending = 0 /\ bstatus = 0 /\ requests = 0
  /\ serviceFaults = 0

Init ==
  \/ /\ which = "route" /\ Route!Init
     /\ GuardRests /\ AdapterRests /\ OwnerRests /\ FlowsRests /\ HelperRests /\ ServiceRests
  \/ /\ which = "guard" /\ Guard!Init
     /\ RouteRests /\ AdapterRests /\ OwnerRests /\ FlowsRests /\ HelperRests /\ ServiceRests
  \/ /\ which = "adapter" /\ Adapter!Init
     /\ RouteRests /\ GuardRests /\ OwnerRests /\ FlowsRests /\ HelperRests /\ ServiceRests
  \/ /\ which = "owner" /\ Owner!Init
     /\ RouteRests /\ GuardRests /\ AdapterRests /\ FlowsRests /\ HelperRests /\ ServiceRests
  \/ /\ which = "flows" /\ Flows!Init
     /\ RouteRests /\ GuardRests /\ AdapterRests /\ OwnerRests /\ HelperRests /\ ServiceRests
  \/ /\ which = "helper" /\ Helper!Init
     /\ RouteRests /\ GuardRests /\ AdapterRests /\ OwnerRests /\ FlowsRests /\ ServiceRests
  \/ /\ which = "service" /\ Service!Init
     /\ RouteRests /\ GuardRests /\ AdapterRests /\ OwnerRests /\ FlowsRests /\ HelperRests

Next ==
  \/ /\ which = "route" /\ Route!Next
     /\ UNCHANGED <<which, guardVars, adapterVars, ownerVars, flowsVars, helperVars,
        serviceVars>>
  \/ /\ which = "guard" /\ Guard!Next
     /\ UNCHANGED <<which, routeVars, adapterVars, ownerVars, flowsVars, helperVars,
        serviceVars>>
  \/ /\ which = "adapter" /\ Adapter!Next
     /\ UNCHANGED <<which, routeVars, guardVars, ownerVars, flowsVars, helperVars, serviceVars>>
  \/ /\ which = "owner" /\ Owner!Next
     /\ UNCHANGED <<which, routeVars, guardVars, adapterVars, flowsVars, helperVars,
        serviceVars>>
  \/ /\ which = "flows" /\ Flows!Next
     /\ UNCHANGED <<which, routeVars, guardVars, adapterVars, ownerVars, helperVars,
        serviceVars>>
  \/ /\ which = "helper" /\ Helper!Next
     /\ UNCHANGED <<which, routeVars, guardVars, adapterVars, ownerVars, flowsVars,
        serviceVars>>
  \/ /\ which = "service" /\ Service!Next
     /\ UNCHANGED <<which, routeVars, guardVars, adapterVars, ownerVars, flowsVars, helperVars>>

vars == <<which, routeVars, guardVars, adapterVars, ownerVars, flowsVars, helperVars,
          serviceVars>>

Spec == Init /\ [][Next]_vars

-----------------------------------------------------------------------------
(* Properties. *)

\* Whichever of two helpers is killed wherever, the journal of
\* winroute/manager.go describes every change of the routing table that is
\* left to undo, and no recovery reconfigures another VPN's adapter that was
\* given the index a journal names.  Excepted are the changes the code gives up
\* by name, and those of a journal that a start writes over without having read
\* it: between its recovery and its Apply the lock is free, so that a second
\* helper may write the file in between (manager.go 351-362).
ChangesAreDescribed == which = "route" => Route!TypeOK /\ Route!ChangesAreDescribed

\* The routes of a dataplane that is up stay in force although another helper
\* starts and recovers, they never capture the transport's own server, and
\* the traffic guard stands only while the capture does (Apply,
\* rollbackLocked, Close).
RoutesInUse == which = "route" => Route!RoutesInUse

\* The exemptions newPlan computes (narrow, collapse, cover) and
\* UpdateReachable installs refuse a socket bound to the card exactly where
\* the routing table sends its address into the tunnel, whatever changed and
\* failed meanwhile, and never what the guard has to spare.
GuardFollowsTheTable == which = "guard" => Guard!TypeOK /\ Guard!GuardFollowsTheTable

\* The Wintun session ends once and under no driver call of a pump, by its
\* owner or by the runner whose ring failed, the failure is not lost between
\* the two, and only the verified library is loaded (adapter_windows.go,
\* runner_windows.go).
AdapterIsTakenDownOnce == which = "adapter" => Adapter!TypeOK /\ Adapter!AdapterIsTakenDownOnce

\* A socket that was open when its lookup began is attributed to its process,
\* however the lookups of a burst share, wait for and refresh one snapshot
\* (attribution.go).
OpenSocketIsFound == which = "owner" => Owner!TypeOK /\ Owner!OpenSocketIsFound

\* A flow of the adapter is carried whole in both directions, is routed by
\* the name it carries and the revision in force when it began, is refused
\* over IPv6 the tunnel is not known to carry, learns names only from who was
\* asked, and is not given up while either side sends (tundata).
FlowsAreCarried == which = "flows" => Flows!TypeOK /\ Flows!FlowsAreCarried

\* The controller of the native dataplane, the helper processes it starts,
\* loses and abandons, and the adapter one of them holds stay in step: an
\* adapter is owed a stop, an active one is carried, a disposed controller
\* releases all, and a helper that carries traffic is not ended without a
\* stop.
AdapterIsHeld ==
  /\ [](which = "helper" => Helper!TypeOK /\ Helper!AdapterIsHeld)
  /\ [][which = "helper" => Helper!ActiveIsNotKilled]_vars

\* A helper service that ends, is told to shut down or is stopped by Windows
\* leaves no adapter; a teardown it leaves incomplete is the error of the command
\* that ran it, or its exit status where it ran it on its way out (a start that
\* replaces a dataplane only logs it); a bridge that fails leaves no request
\* waiting; a connection that keeps one of the endpoint's slots has a deadline.
ServiceAnswers == which = "service" => Service!TypeOK /\ Service!ServiceAnswers

\* guard_windows.go says of the ids the guard keeps: "reachable are the IDs of the
\* filters that follow the routing table."  An update that fails at its commit
\* leaves the ids of filters that were never installed.
ReachableAreInstalled == which = "guard" => Guard!ReachableAreInstalled

=============================================================================
