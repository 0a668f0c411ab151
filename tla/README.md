# Shadow: TLA+ models of the VPN client's tunnel

Shadow (`src/`) is an Electron client that carries a machine's traffic through
an SSH server or through Xray.  This directory holds TLA+ modules translated
from its source, the TLC configurations that check them on small instances, and
TLAPS proofs of what matters most for every size of the instance.
`PROJECT.json` lists the components, the runs, the source lines behind every
definition, the hazards and the theorems.

Paths below are relative to the repository, e.g. `src/service/...` is
`src/src/service/...` seen from the parent of this directory.

## 1. The system

| Component | State it keeps | Operations | What makes it correct |
|---|---|---|---|
| SSH service bridge, `src/service/live-ssh-service.ts` | connection state, SSH client, reconnect timer, routing and hold flags, listener, parked connections, mutation queue | connect, disconnect, beginDisconnect, clearError, dispose, updateRouting; client, timer and helper events | a wanted session is always being tried for, an ended one never comes back, Connected is true, the machine's routing is owned, has a deadline and is taken down |
| Native dataplane controller, `src/service/native-dataplane.ts` | isActive, pending start | start, stop, probe, unexpected stop | the adapter that is up is the one the service knows of |
| SSH client, `src/core/ssh/live-client.ts`, `session-state.ts`, `channel-state.ts` | channels, windows, events held for late consumers | open, write, acknowledge, end, close; peer messages | windows agree at both ends, no byte is lost or sent after EOF, no channel is left behind |
| SSH transport, `src/core/ssh/socket-transport.ts` | four outbound queues, key epochs | enqueue, pump, rekey | order per channel, no starvation, keys change at the same packet at both ends |
| Host-key trust, `src/core/ssh/host-key.ts` | pinned key | verify over several attempts | a changed key is never accepted silently |
| Xray service, `src/service/xray-service.ts` | process, held ports, hold, mutation queue | as the SSH bridge | as the SSH bridge; held ports are occupied while routing points at them |
| Transport coordinator and quit, `src/main/app/transport-mutation-coordinator.ts`, `quit-deadline.ts`, `src/main/main.ts` | generation, tail, stopping | requestIntent, enqueue, stopAcceptingIntents | the last intent wins, quit ends |
| Windows system proxy, `src/core/network/windows-system-proxy.ts` | journal file, five registry values, PAC server | apply, restore, recovery | the user's own settings come back after any crash |
| Local listener, `src/core/network/socks5-proxy.ts` | sockets | accept, relay, stop | each connection is answered once |
| Process routes, `src/service/process-route-learning.ts`, `local-routing-enforcement.ts` | learned routes | observe, refresh | learned routes follow the rules |
| Routing decisions, `src/core/routing/*` | none | match | the documented precedence |
| Helper clients and IPC, `src/service/native-*-client.ts`, `local-ipc-*.ts` | pending requests | request, answer, timeout, exit | every request is settled once |
| Go helper, `native/service-go/internal` | routes, journal and its lock, firewall, adapter | start, swap, stop, recover | every change in place is journalled |
| Storage, `src/main/storage/app-storage.ts` | store and secrets files | save, migrate, reset | a crash leaves a pair that loads |
| Updates, `src/main/app/app-update-controller.ts` | check and download in flight | check, download | the file offered is the file checked |
| Renderer, `src/renderer` | bounded event queue, snapshot | enqueue, drain | the last state is shown |
| Codecs, cryptography, share links, build scripts, React components | - | - | not modelled (bytes, text, presentation) |

How they meet.  The renderer calls main over IPC.  Main turns Connect and
Disconnect into intents of the transport coordinator, which calls one of the two
services; a Disconnect also calls `beginDisconnect` at once, ahead of the queue.
A service dials (SSH client or Xray process), brings up the local listener, and
points the machine at it: with the Windows proxy setting, or with the TUN adapter
of the Go helper.  Client events, timers and the helper's death come back as
callbacks on the same JavaScript thread, between any two awaits.

What is hard.  Nothing in the services is preempted inside a synchronous
segment, yet every await is a gap in which the user, a timer, the server or the
helper may act; work that was overtaken still runs to its end and must notice;
teardown steps fail; and the machine's own settings survive the process.  The
`hazards` of `PROJECT.json` name the lines where this bites.

## 2. Modules

| Part | Modules | Runs | Proofs |
|---|---|---|---|
| SSH supervisor | LiveSshService, MCLiveSshPaths, MCLiveSshService | `ssh_paths`, `ssh_liveness` | LiveSshServiceProofs, carried over in MCLiveSshPathsProofs |
| SSH channel | SshChannel, MCSshChannel | `ssh_channel` | SshChannelProofs |
| Intents and quit, and what the user is told | LatestIntent (abstract), TransportCoordinator; TunnelNotices, RendererSnapshot, in MCTransportCoordinator | `transport_intents`, `transport_liveness` | TransportCoordinatorProofs |
| Go helper and its controller | WinRoute, TrafficGuard, TunAdapter, OwnerTable, TunFlow, NativeDataplane, ServiceIpc, in MCHelper | `helper`, `guard_commit` | NativeDataplaneProofs; OwnerTable's, TunAdapter's, ServiceIpc's and the composition in MCHelperProofs |
| What carries and watches a session | XrayService, SshTransport, SshConnect, ServerIdentity, WakeSupervisor, Socks5Proxy, in MCSession | `session`, `kex_init` | ServerIdentity's and WakeSupervisor's in MCSessionProofs |
| Routing of the machine | WindowsSystemProxy, RoutingDecisions, ProcessAttribution, ProcessRouteLearner, in MCRouting | `routing` | WindowsSystemProxy's, ProcessRouteLearner's and ProcessAttribution's in MCRoutingProofs |
| The application | AppStorage, AppUpdate, MainWindow, RoutingPage, RotatingFileLog, in MCApplication | `application` | - |
| Progress | SshKeepalive, and again SshTransport, OwnerTable, TunAdapter, in MCProgress | `progress` | - |

A component's module stands by itself: its constants bound it, its properties are
conjunctions of named parts at its end. MCHelper, MCSession, MCRouting,
MCApplication, MCProgress and MCTransportCoordinator put several components that share
no state into one run: a behaviour chooses one of them (`which`) and is a behaviour of
that one, the others rest at zeros (the proxy manager and the transport queue, which
MCRouting and MCTransportCoordinator extend, in a first state). Nothing is explored
that a run of the component alone would not explore, and nothing less; the bounds
are in the INSTANCE of each, or in the cfg for the components whose theorems are
carried over to the composition.

Properties are exact.  Where the code breaks what it promises, the property does not
leave the case out of the model: a history variable marks the step that breaks it, and
the property allows what follows from that step and nothing more.  The history variables
are marked as such where they are declared, and the sections below say which line of the
code each stands for.

Symmetry is used where the code compares such values only for equality: helper
processes and interface indices (MCHelper), ports and PAC texts (MCRouting), Xray's
ports and rule sets (MCSession), host names and secret texts (MCApplication).  The
runs with symmetry check no liveness.

## 3. LiveSshService

### State and steps

The class runs on one thread and does everything slow in *mutations*, closures
chained on a promise (`enqueueMutation`, lines 1604-1616).  The model keeps the
chain as a FIFO `queue`; `at` is the await or synchronous segment the head has
reached, and `run` its local variables.  Each synchronous segment of the code is
one action, so every interleaving of handlers with awaits is there and no other.

| Code | Model |
|---|---|
| `lifecycleGeneration`, `routingGeneration`, `routingHoldGeneration` and the values captured from them | the flag `current` of a mutation, `clientCurrent` of the client's handler; `Overtake*` clears them.  The counters only grow and are only compared for equality, so a captured value is the present one or stale for good. |
| `processRoutingGeneration` inside one apply | `run.live` |
| `abandonTunStart` | `run.aborted` |
| `client`, sessions not yet closed | `client`, `open` |
| `systemRoutingApplied`, `tunRoutingActive`, `tunStartAttempted`, `dataplane.isActive` | same names (`active`) |
| the machine | `systemProxy` (what the Windows setting says) and `adapter` (whether the helper's adapter is really up) |
| history | `forgotten` (that adapter came up after everybody had lost track of it), `unwatched` (the listener came up after `clearError` had looked for it): the first and the third of the Observations |
| `routingHoldTimer`, `routingHoldStopQueued` | `holdTimer`, `holdStopQueued` |
| `tunnelWaiters` | `waiters` |
| `connectInternal` | BeginConnect, Replace, DialStart, Dial*, Listen*, Established, Apply, Applied, Failed |
| `applySystemRouting`, `applyTunRouting` | BeginApply, Probe, TunStart*, TunRestore, TunStop, Proxy, ProxyApply* |
| `stopSystemRouting`, `stopLocalListener`, `disconnectInternal` | BeginStop, FinishStop, StopListener, FinishClose, Ended |
| `handleClientFailure`, its cleanup, `scheduleReconnect`, `haltReconnect` | ClientFails, BeginCleanup, Cleaned, ScheduleReconnect, HaltReconnect |
| `suspendTunnel` and its timer | SuspendTunnel, HoldTimerFires, HoldStop |
| `handleDataplaneUnexpectedStop` | HelperDies, Reapply |

Abstractions.  Errors are three classes, as `handleConnectFailure` tells them
apart.  Delays are not modelled: an armed timer may fire at any time, which
includes every delay and every early wake.  The wake detector and the watchdog
are therefore left out: waking fires the reconnect timer, and the watchdog acts
only when there is no client, no timer and no mutation in flight, which
`Supervised` shows never to happen while a session is wanted.  A start of the adapter
that fails leaves the adapter up or down (the helper may finish a start that was
given up on); a stop or restore may fail where `CleanupMayFail`.  Not modelled:
the terminal, `checkTunnel`, the refresh of learned process routes.

### Runs

`MCLiveSshPaths` puts the three machines into one run; a behaviour is one of them.

| Run | Instance | Shows |
|---|---|---|
| `ssh_paths`, path `proxy` | 2 clients, 2 parked connections, 3 queued mutations, no TUN | all safety properties |
| `ssh_paths`, path `adapter` | TUN, 1 client, 3 queued mutations | all but HeldRoutingHasDeadline, see Observations |
| `ssh_paths`, path `failing` | TUN, every teardown step and the proxy setting may fail | TypeOK, AttemptsAreAccounted, SessionIsAccounted |
| `ssh_liveness` | TUN, 2 queued mutations, the proxy setting may be refused, fair | SessionSettles: DisconnectEnds, OutageEnds, KeepsTrying |

AttemptsAreAccounted is Supervised, UnwantedIsQuiet and OneAttempt.  SessionIsAccounted
is NoLeakedSession, ConnectedIsServed, ParkedIsAnswered and
RejectedCredentialsAreNotReplayed, and holds on all three paths: no failing teardown
loses a session.  TrafficIsRight is MachineRoutingIsOwned, RoutedHasListener,
NoSilentBypass and DisconnectedIsDirect, with HeldRoutingHasDeadline where there is no
adapter; it says nothing of the path where undoing fails.  MachineRoutingIsOwned and
DisconnectedIsDirect speak of the adapter that is really up as well as of the one the
controller believes in, and DisconnectedIsDirect of the listener.  They allow a
`forgotten` adapter and an `unwatched` listener; a stop, a restore or the next start
clears the mark, so an adapter the service knows of is never excused.

Bounds.  `MaxQueue` limits what *callers* may add; the service's own additions
(cleanup, stop, reapply) are never cut off, so no behaviour is lost inside the
service.  Two or three entries let a call, its successor and a mutation the
service adds itself meet one running mutation, which is every pair the
generation checks distinguish: older entries are overtaken alike.  One client
identity can be used again after it is closed; two make a leaked session beside
a new one possible.  Two authentication failures are the code's own limit; two
adapter stops (three in the code, same comparison) are enough for one stop that is
followed by a restart and one that is not.
Deadlock is not checked: after `dispose` the service really stops.

Fairness (`FairSpec`).  The queue keeps moving, because every await has an end of
its own: dials, helper commands and proxy commands have deadlines, `close`
resolves.  Armed timers fire.  Main owes a `disconnect` after each
`beginDisconnect` (`src/main/main.ts` 1705-1725 queues it in the same call; a newer
intent replaces it only by its own connect or disconnect, see section 5).  The user is not
assumed to do anything: the liveness properties speak of the time after the
last call (`UserQuiet`).

### What is proved

`LiveSshServiceProofs` proves, for all sets of clients and connections, all
bounds and both kinds of machine, under `LiveSshAssumption` (bounds are
positive, flags are Boolean, `NoClient` is not a client):

- `TypeCorrect`: `Spec => []TypeOK`;
- `OneAttemptAtATime`: `Spec => []OneAttempt`;
- `LoopIsSupervised`: `Spec => []Supervised`;
- `EndedStaysEnded`: `Spec => []UnwantedIsQuiet`.

Neither Supervised nor UnwantedIsQuiet is inductive.  A finished attempt would
break Supervised if a second current attempt could be what the first one's
client hides behind; a failed client would break it if it were heard while
its own attempt were still at the dial.  `OneAttempt` says that this cannot be: at
most one attempt or cleanup in the queue is current, a client is heard beside it
only once it is the running attempt's own, and each mutation is at a point of its
own program (`RunsItsProgram`).  The induction is over
`IInv == TypeOK /\ OneAttempt /\ Supervised /\ UnwantedIsQuiet`, one lemma per
action; the lemmas about `Overtake`, `Append` and `Tail` say which positions of
the queue stay current.  TLC checks all four on the instances first.

Its second part goes on from there to SessionIsAccounted
(`SessionIsAlwaysAccounted`; its parts are `NoSessionIsLost`, `ConnectedIsTrue`,
`ParkedHasAnAnswer`, `RejectionsAreBounded`), from the same assumption.  An open session
is the client, the one the running mutation has in hand, or the one a queued cleanup
names, and this changes several times in one connect.  `SessionInv == IInv /\ Held`
follows it: `QueueOK` (a cleanup names a client that is not in use, and what stops or
cleans up stands before the attempt that follows), `DialOK` (an attempt that is yet to
dial has only its predecessor to close), `SessionOK` (the session in hand is open, has
its listener, and is closed by a mutation that does not leave it in use), `ConnectedOK`
(while Connected nothing under way takes away what serves it) and `ParkedOK` (a stop of
the routing is not done before the listener is gone).

The third part follows routing and adapter through every await of `connectInternal`,
`applyTunRouting` and `stopSystemRouting`.  Its theorems state what the machine has to
grant: that undoing works (`~CleanupMayFail`), that the proxy setting is not refused
(`~ProxyMayRefuse`), or that there is no adapter (`~TunEnabled`).

| Theorem | Where | What makes it inductive, beside SessionInv |
|---|---|---|
| `RoutingIsAlwaysOwned`: MachineRoutingIsOwned | undoing works | *RoutingOwned*: the adapter's flags are set only under applied routing; a stop clears them before its first await and takes along that an adapter has to go, so that an adapter that is up has a flag, a stop or a restore in hand, or is forgotten |
| `ListenerIsAlwaysThere`: RoutedHasListener | undoing works | *ListenerKept*: routing is applied only over a listener, and a mutation that is about to stop the listener has stopped the routing |
| `DisconnectedLeavesNothing`: DisconnectedIsDirect | undoing works | *GivenUp*: a session that is over or was given up has no client; *StopsFirst*: after that nothing is left but what is forgotten or unwatched, or a stop that is not overtaken waits |
| `NothingBypassesSilently`: NoSilentBypass | the setting is not refused | *BypassOK*: an apply that is not overtaken gets somewhere, and while Connected the traffic is routed, about to be, or a mutation that replaces the routing is queued |
| `HeldRoutingIsReleased`: HeldRoutingHasDeadline | no adapter | *NoAdapter*, *HeldOK*: held routing has its clock, or a mutation that ends the hold waits and cannot be overtaken by one that does not |

`TrafficIsAlwaysWhereItSays` is the first four together.  `MCLiveSshPathsProofs` carries
them to the specification the run checks: a behaviour of MCLiveSshPaths chooses its
path once and is a behaviour of LiveSshService on such a machine, so
`TrafficIsAlwaysRight` (`PathSpec => []TrafficIsRight`) and `EveryPathIsAccounted` hold
for every value of the constants, from LiveSshAssumption and `PathAssumption`: there is
at least one client, for the paths that use one client of the set.

Only model-checked: the liveness properties (the prover does not handle fairness).

### Observations

- An adapter whose helper dies during a policy swap is forgotten
  (`tunStartAttempted` is cleared, line 2028) while the swap is still being retried;
  if the retry is given up on but finished by the new helper, no stop is sent and the
  adapter stays up beneath the proxy path, and beneath Disconnected, against the comment
  at 1966-1968.  This is `forgotten`, and the only way an adapter is left up.
- A session that drops while its adapter is rebuilt (596) gets routing applied
  afterwards (600) with no hold running, against the doc of `suspendTunnel`
  (1153-1155).  This is why the adapter path does not claim HeldRoutingHasDeadline.
- `clearError` (964) stops only what it sees; a listener still binding comes up
  afterwards and stays, in the state Disconnected, against the doc at 946-947.  This is
  `unwatched`.
- An adapter that dies for the last allowed time while the helper is probed is started
  once more (the suspension is read at 1852-1858 and not again), against the reason
  given at 2037.

## 4. SshChannel

### State and steps

One `direct-tcpip` channel from the moment the proxy has accepted a local
connection.  The client's channel bookkeeping (`channel-state.ts`,
`session-state.ts`), the asynchronous layer over it (`live-client.ts`) and the
consumer that the proxy attaches (`socks5-proxy.ts`) are one module, since what
can go wrong lies between them.  The server is external: it does whatever
RFC 4254 allows, in any order, and nothing else.

| Code | Model |
|---|---|
| `ChannelState`: lifecycle, localWindow, acknowledged bytes, remoteWindow | `life`, `localWindow`, `acked`, `remoteWindow` |
| `ChannelDeliveryState` and its pending events | `delivery`, `pendingBytes`, `pendingEnd`, `pendingClose`, `pendingCount` |
| the proxy's local socket and its write queue | `sock`, `handed`, `told`, `lost` |
| `SshDirectTcpIpChannel` | `closed`, `ending`, `closing` |
| `openDirectTcpIpChannel` | Open, Abandon, ReceiveConfirm, ReceiveFail, Attach, Discard |
| `receiveChannelMessage`, `dispatchRuntimePayload`, `deliverChannelEvent` | ReceiveData, ReceiveAdjust, ReceiveEof, ReceiveClose |
| `writeChannelDataFlowControlled` | AppWrite, Build, Send, SendFails, WindowTimeout |
| `acknowledgeData`, `acknowledgeChannelData` | AppAck, Returned, AckRejects |
| `end`, `close`, `closeDirectChannel`, the socket's events | AppEnd, AppResets, SocketCloses, CloseSendsEof, CloseSendsClose |
| `handlePeerDisconnect`, `handleFatalError`, `clearChannelDeliveries` | SessionEnds, EndSession |

Abstractions.  Bytes are counted, not carried.  DATA, EOF and CLOSE stay in order
on the wire; a WINDOW_ADJUST may overtake data, as the transport's priority
queues let it.  All packets of one TCP chunk are handled before any promise
continues, so messages may come between a confirmation and Attach, and a whole
burst before the next await.  Of the limits of the hold buffer the number of
events is kept, the two byte limits are not: any one of them has the same effect.
The pause of all sends while keys are exchanged belongs to SshTransport.  Once
the session has ended, the client's own channel table is not followed further: the
client is thrown away.  Left out: the terminal's channel, extended data, channel
requests, handshake and keepalive.

### Runs

`ssh_channel` has a receive window of 4, a send window of 2, writes up to 3 and 2
events held, under fairness.  ChannelIsSound joins the eight invariants
(WindowsAgree, WindowAccounted, NeverStarved, NoProtocolFailure, AckAccepted,
NoLostWakeup, NoOrphanAtServer, EndIsTold) and ClientConforms; ChannelMovesOn joins
WindowReopens and ChannelReleased.

Bounds.  In a window of 4, one half is neither 0 nor 1 nor the whole, so the
threshold of `acknowledgeChannelData` is met from both sides and by
acknowledgements that are one or several frames.  A write of 3 against a window of 2
has to wait.  Two held
events are data followed by EOF or CLOSE, and a third overflows.  The theorems
below hold for windows, writes and limits of every size.

Fairness.  A message under way is read (the socket is drained as long as the
session is up); a settled promise continues; the timers of an open and of a
waiting write run out (`directTcpIpOpenTimeoutMs`, `operationTimeoutMs`); bytes
queued for a local socket are written or the 120-second write timeout destroys it.
Nothing is assumed of the application or of the server's willingness to send,
grant or close.

### What is proved

`SshChannelProofs` proves, from `SshChannelAssumption` (windows, writes and the
event limit are positive), each safety property of `ssh_channel` as
`Spec => []P`, and `Spec => ClientConforms`.  One inductive invariant carries all
of them; none is inductive by itself.  Its parts:

- *Opening*, *Confirming*: which messages can exist before and after each step of
  the open.  Without them a confirmation could find a half-used window.
- *ServerEnded*: after the server's EOF nothing more arrives, which is why the four
  lifecycles are enough and NoProtocolFailure holds.
- *Windows*: WindowsAgree, and that frames exist only while they are being sent, so
  that window taken for a write that fails is not missed.
- *Delivering*: where each byte is held, from which AckAccepted and EndIsTold follow.
- *Receiving*: WindowAccounted and NeverStarved.
- *Sending*: what has been sent against the lifecycle, from which ClientConforms follows.

One lemma per action shows that it preserves the invariant.  WindowReopens and
ChannelReleased are liveness and only model-checked.

### Observations

- `worklog.md` line 116 says writes remain allowed after the remote EOF.  A write
  that waits for window at that moment rejects instead (`waitForChannelWriteWindow`,
  1426-1446) and its socket is destroyed.
- A session that ends in the chunk that confirmed an open leaves the consumer,
  attached a moment later, on a dead channel without an event
  (`clearChannelDeliveries`, 1266-1282), against the comment above it.

## 5. TransportCoordinator and LatestIntent

### State and steps

Main serializes everything that touches the tunnels in one promise chain, and lets
a newer intent supersede work that is queued or waiting.  Each synchronous segment
between two awaits is one action.

| Code | Model |
|---|---|
| `tail` of TransportMutationCoordinator, the operation running and its await | `queue`, `run`, `at` |
| `currentGeneration` | `current` of each operation; `by = "nobody"` for generation 0 |
| `stopping`, `applicationQuitting` | `stopping` |
| `activeTransport`, the two services | `active`, `svc` |
| the captured request against the saved routing | `fresh` of each operation, `applied`, `targets` |
| `enqueue`, `requestIntent` | Accept, Begin, Return, Reject |
| `requestTransportIntent`, after `applicationServicesReady` | GiveUp, Proceeds |
| `connect`, `connectProxy` | RequestConnect, ConnectReplaces, Replaced, ConnectStarts, Connected, ConnectRejects, Remembered |
| `disconnectActiveTransport`, its `preempt` | RequestDisconnect, Disconnect, Disconnected, DisconnectRejects |
| `saveRoutingChange`, `applyRoutingConfigurationAfterMutation` | Save, QueueRouting, ApplyRouting, DropSession, NothingToDrop, RoutingUpdated |
| `dismissConnectionError` | RequestDismiss, Dismiss, Cleared |
| `initializeApplicationServices`, `autoConnectOnStartup` | ServicesCreated, AutoConnect, SkipAutoConnect |
| `before-quit`, `settleBeforeDeadline` | Quit, Dispose, Disposed, CleanupEnds, Deadline, Exit |

Abstractions.  The generation only grows and is only compared for equality, so a
captured one is the present one or stale for good; a flag that every new intent
clears says the same in finitely many states.  Likewise for what an operation
captured of the routing.  A service is `off`, `on` (a session connecting,
connected or reconnecting), `ending` or `error`; its promises resolve, reject or
stay open as long as they like, and a rejected disconnect may or may not have ended
the session.  This is weaker than what LiveSshService does, so what holds here does
not rest on it.  The three cleanups of a quit run side by side in the code and one
after the other here; nothing is visible between them but their end.  Left out: the
recovery of unreadable storage, which initializes the services a second time, the
deletion of the profile in use, and the proxy restored at the deadline.  What the
user is told of all this is TunnelNotices.

`LatestIntent` is the promise in three variables: what was asked for last, by whom,
and which tunnels have a session.  A session starts only for the latest intent and
in the place of every other; the Connect of a launch counts only if nobody has
asked for anything.

`beginDisconnect` ties this module to LiveSshService.  There, a session that was
told to stop waits for the disconnect that main has queued, and its liveness
assumes that this call comes.  AnnouncedIsQueued and AnnouncedIsServed show here
that it does, also if another intent overtakes the Disconnect that announced it.

### Runs

| Run | Instance | Shows |
|---|---|---|
| `transport_intents` | 2 operations of callers waiting, 1 change saved and not queued | TypeOK, IntentsAreKept (OneTunnel, AnnouncedIsQueued), RestsAsAsked (RestIsAsAsked, RoutingIsLatest, ExitIsClean), LatestIntentWins |
| `transport_intents`, notices | 2 connections, 3 changes of the session, 2 intents, 1 probe | NoticesAreTrue |
| `transport_intents`, window | queues of two, two changes, two changes of visibility, two loads, one that fails | WindowFollows |
| `transport_liveness` (TransportCoordinator itself) | 1 waiting, fair | TransportSettles (AnnouncedIsServed, QuitEnds) |

Bounds.  Beside the two operations of callers there are the one running, the
change that is saved already and the cleanup, so up to five are under way: enough
for a Connect overtaken by a Connect of the other transport that is overtaken in
turn.  With one waiting, the liveness run still has an intent overtaken while it
runs.  The theorems hold for queues of every length.  The application may exit, so
a state without a successor is no error.

**TunnelNotices** (`session-transitions.ts`, `notifications.ts`, `tunnel-check-guard.ts`,
the tray) is another component of `transport_intents`.  It runs intents one by one, as
the queue lets them through, and follows the notices, their Stop, the checks and the menus
of the sessions these make.  NoticesAreTrue: a Stop ends the drop it announced and no
other, a late check is not shown for a later session, every connection is verified once.

**RendererSnapshot** (`useSnapshot.ts`, `renderer-event-queue.ts`) is the last component of
that run: events, the bounded queue, snapshots in flight and a hidden window; Connects,
Clears and changes of visibility come at any moment.  WindowFollows: once nothing is on
its way, the screen shows the transport, the status, the check and the log of the main
process.  It allows exactly the following, which the code does:

- `removed`: a check result on its way when a connect begins is folded over the new
  snapshot; a log entry waiting for the frame reappears after a clear.
- `dropped`: a full queue of the next frame drops entries.
- `overtaken`: an event sent before the window was hidden may arrive after it is shown
  again, wait for the snapshot, and be replayed on it although it is older.

Fairness.  In `transport_liveness` main's promises continue and every call of a
service is answered: dials, processes and helpers have deadlines of their own.  The
timer of the quit need not come first, so a quit ends also because the queue
drains: the cleanup waits for an initialization that may wait for the automatic
Connect in the same queue, and the check of generation 0 together with the release
of `applicationServicesReady` is what keeps the two from waiting on each other.
That the timer ends a quit behind a service that never answers is one step
(Deadline, then Exit) and not checked as a property.

### What is proved

`TransportCoordinatorProofs` proves, from `CoordinatorAssumption` (room for one
operation and one change), `Spec => []P` for TypeOK, OneTunnel and
AnnouncedIsQueued, and the refinement `Spec => LatestIntentWins`.  The inductive
invariant adds to these:

- *LatestOK*: a Connect that is still current, queued or running, is what is wanted
  now, and nothing is being quit.  Without it a start could not be shown to be for
  the latest intent.
- *AnnouncedOK*: only the active service was told to end, and a current Connect
  that waits for the old session owes nothing: otherwise changing `active` would
  leave the announcement with the wrong service.

Five lemmas say what becomes of the queue when an operation joins, leaves, is
overtaken or goes stale.  One lemma, SessionsOnlyEnd, serves every step that starts
no session; the steps that start one or accept an intent are proved by hand.  The
refinement maps the former to a Stop, the others to Start, Ask or AskAtLaunch.

The module goes on to RestsAsAsked (`EverythingRestsAsAsked`; its parts are
`LastIntentIsDone`, `SessionHasSavedRouting`, `CompletedQuitLeavesNothing`).  The three
speak of a queue at rest and say nothing of the way there, so each has an invariant of
its own on top of IInv: *IntentServed*, what was last asked has been done, has rejected,
or is carried by an operation that has not come further than its call; *RoutingServed*,
a session that runs on older routing has a change behind it in the queue, or one that is
saved and yet to be queued; *CleanupServed*, what a quit's cleanup has disposed of stays
so, and what it has yet to dispose of is behind it.  The second is where the order of
the queue matters: a Connect captures the routing when it is accepted, and it is the
change queued behind it that makes up for what was saved meanwhile.

Only model-checked: AnnouncedIsServed and QuitEnds (liveness).

## 6. The Go helper and its controller (run `helper`)

- **WinRoute** (`internal/winroute`, the start and stop of `runner_windows.go`, main's
  recovery).  Two helpers, one journal and its lock.  Apply writes the journal, then
  runs one command after the other; rollback, restore and recovery undo entry by
  entry; a helper may be killed between any two steps and an index may be given to
  another adapter.  ChangesAreDescribed: the journal describes every change in place
  that is still to be undone, and no recovery touches an adapter that only took over
  an index.  What it allows to be lost is what the code gives up by name (too many
  attempts, an entry nobody can place, a journal that was refused, the rollback of a
  failed command) and what a start writes over without having read it: `behind` marks a
  start whose recovery read another file than the one its Apply replaces, because another
  helper wrote the journal in between, while the lock was free, or because the file could
  not be read (`manager.go` 63-65, 351-362).  What its own recovery has read, a start never
  loses.  RoutesInUse: routes in use survive another helper's start and never
  capture the server.  Bounds: one fault, one crash, one change of the network, two
  attempts per entry (three in the code; the same comparison).
- **TrafficGuard** (`internal/winfirewall`).  The plan's exemptions over three-bit
  addresses of both families, installed and replaced in transactions that may fail.
  A card-bound socket is refused exactly where the routing table sends its address
  into the tunnel.  How Windows evaluates filters is external; the self-check and the
  helper's application ids are abstracted.  `guard_commit` shows the finding below.
- **TunAdapter** (`internal/tun`, `fatal.go`).  The library is searched, verified and
  loaded; pumps read and write while owner and supervisor may each take the session
  down.  The session ends once, under no driver call, and the failure is told once.
- **OwnerTable** (`attribution.go`).  Three lookups share snapshots of the socket
  table; a socket open before its lookup began is found.  A port that is used again
  within 250 ms is answered with its old owner: the code accepts this and the
  property does not speak of it.
- **TunFlow** (`stack.go`, `dns.go`, `reach.go`, `sniff.go`, `socks5.go`).  One flow of
  each kind with its names, owner, policy revision and relay in both directions.
  Parsing of TLS and QUIC is abstracted to what is known after each chunk; relay
  resets, port ranges and the log limiter are not modelled.
- **NativeDataplane** (`native-dataplane.ts`, `native-helper-client.ts`).  The
  controller, up to three helper processes and the adapter one of them holds.  The
  caller probes, starts and stops one after the other and may abandon a start, as
  both bridges do.  AdapterIsHeld: an adapter is owed a stop, an active one is
  carried, disposal releases all, and a helper that carries traffic is not killed.
- **ServiceIpc** (`app.go`, `protocol.go`, the Windows service, both bridges).  Two
  connections, requests, deadlines, shutdown by command, by signal and by the end of
  input.  ServiceAnswers: a teardown that leaves something behind is told by whoever ran
  it, in the answer to its command or, on the way out, in the exit status; a dataplane
  that a start replaces is only mentioned in the log.  Malformed lines, the token and the
  simulator are not modelled.

### What is proved

Four of the components have their property proved for every instance.  The parts of
their invariants were checked by TLC first; each property is stated over what the
others hide.

- `NativeDataplaneProofs` (from bounds that are naturals): AdapterIsHeld and all it
  contains, with ActiveIsNotKilled as an action property.  The property looks at the
  last command in a helper's inbox; the invariant says who waits for which command
  (*Awaited*), that a stop under way is the last its helper was told (*Stopping*), that
  a helper being started has been told nothing else (*Connecting*) and that the client
  that runs is the last helper started (*Numbered*).  `Reported` is there for the type
  alone: the end of a helper reaches the listeners once.  Every step changes the
  inboxes in one of five ways and there is a lemma for each.
- The first part of `MCHelperProofs` (any number of callers of OwnerTable):
  OpenSocketIsFound.  What makes it inductive is a count of completed snapshots: a lookup that waits for one knows of a
  snapshot that began after it asked, so the socket it asks for is in it.
- The second part of `MCHelperProofs` (TunAdapter; search paths are naturals with a first one, at least one attempt
  to create): AdapterIsTakenDownOnce.  *Locking* says who holds and who waits for the
  adapter's lock, *Quiet* that a driver call is under way only in an open session,
  *Ending* who has claimed the end, *Fated* what the failing ring left in its channel;
  NoCallOutlivesTheSession and FailureIsNotLost follow from them.

- The third part of `MCHelperProofs` (finitely many bridges, one request at least; any number
  of connections, failures and cleanups): ServiceAnswers.  That a service which ends by itself
  holds no adapter needs *CompletedIsShutdown* (the deferred cleanup is left out only where a
  shutdown was handled, after which no command brings an adapter up) and *ServingIsClean*
  (what a teardown left on the way out is remembered, so the exit status can tell; what a
command left is in its answer, `Told`).  *OpensOnce*
  says that a connection that waits for a slot has neither frame nor answer under way, without
  which a deadline could be missing when it gets one.  The proof showed one step the process
  cannot make: an answer was still written by a service that had been killed.  `Written` now
  has the guard that `Serve` had.

The last part of `MCHelperProofs` carries the four over to the specification the run checks: MCHelper
chooses a component once and instantiates it (the controller with its proofs), so a behaviour
that chose it is a behaviour of it and the theorem is cited with MCHelper's constants
put in.  The bounds of the four are therefore CONSTANTS of MCHelper, and the theorems
hold for every value of them.

WinRoute, TrafficGuard and TunFlow are only model-checked: RoutesInUse and
ChangesAreDescribed look for entries with SelectSeq and Reverse, and what a recursive
operator of the library computes is an induction over data; GuardFollowsTheTable compares
prefixes by division by powers of two and gathers them with folds.  FlowsAreCarried was not attempted.

Finding (`guard_commit`): `UpdateReachable` replaces the ids it remembers before the
transaction is committed (`guard_windows.go` 85).  If the commit fails, the ids name
filters that were never installed and no later update succeeds.

Observations:

- With two faults and an index used again, `RetryUndo` after the adapter closes runs
  the undo of an entry without an identity on an index another VPN may have.
- `rollbackLocked` drops the failed operation whose undo failed too (442), although
  its command may have made its change.
- A journal that cannot be read does not stop a start, which then overwrites it.
- Helper A recovers and releases the lock, B starts, applies and is killed, and A's
  Apply overwrites B's journal (`manager.go` 63-65, 359-362).
- After `handleFailure` of the process bridge, what the killed process had written is
  still read and may replace the status Error.
- A teardown that left changes behind in a stop-dataplane, a disconnect or a shutdown
  command is told in its answer and not remembered: the service ends with status 0
  (`app.go` 172-175, 277-283).  The one of a dataplane that a start replaces is only
  logged.

## 7. What carries and watches a session (run `session`)

- **XrayService** (`xray-service.ts`).  The second supervisor: mutation queue, Xray
  process, held ports, hold timer, adapter and proxy path, restart for a changed rule.
  XraySessionIsKept: no port that routing points at is free for another program
  during an outage, a hold has a deadline, and at rest the status is true.  The stops
  of one teardown are one step; generations are flags; two inbounds are one port; a
  terminated process ends.  The property allows four things, each marked by the step that does it:
  `stray`, the port a retry has pointed routing at when it ends before it takes over a hold
  begun with another (204, 877, 904-912); `forgotten`, an adapter the controller has lost
  track of; `unapplied`, the Windows proxy at the earlier port after an apply that failed
  when a restart had moved it; `stuck`, what a failed teardown could not take down.
  Bounds: one trouble (a failing step or a port taken).
- **SshTransport** (`socket-transport.ts`, the key exchange of `live-client.ts`).
  Queues for control, opens, data and the exchange; either side may begin a rekey;
  every packet carries the number of the key it was protected with.  StreamsAgree:
  both ends use the same key for each packet, the exchange does not fail of itself and
  data arrives in order.  Byte limits are left out.
- **SshConnect** (`connect` of `live-client.ts`, `algorithms.ts`).  The attempts of one
  connect over the key types: credentials go only to the pinned key, a server that has
  it is found, each type is tried at most once.  No bounds: its state is finite.
- **ServerIdentity** (`openSshSession` and what feeds it).  Name, protected address,
  cached address and remembered key over reconnects; the stranger may take an
  address.  Rejection counts belong to LiveSshService, a key that changes in a rekey
  to SshTransport.
- **WakeSupervisor** (`system-wake-detector.ts`, `wake`).  Sleep and roaming against
  backoff, attempts and probes.
- **Socks5Proxy** (`socks5-proxy.ts`).  One SOCKS, CONNECT or forwarded HTTP connection
  with pauses, partial writes and failures, and the shared limits.

### What is proved

`MCSessionProofs` proves ServerIsItself and WakesAreServed for the specification the run
checks, so the bounds of these two components are CONSTANTS of MCSession.

`ServerIsAlwaysItself`, for all hosts, addresses and bounds; the one assumption is that no
host has the name that stands for "none" (`IdentityBounds`).  CredentialsReachTheirServer
looks at the moment of sending, long after name, address and key were put together.
*Expects* says that all along the key a session expects is the one it owes, although
Connect, Edit, TrustHostKey, Retry and an accepted key each write one side of that;
*HeldIsKnown* that routing is held only for the host and after its key was verified, which
is what lets a retry use a remembered address; *DialsRemembered* and *NotStale* that such a
dial is of what is remembered and was not found to be another server's since; *TypesKnown*
that this run knows the type of every key it verified, from which ImpostorIsFinal follows;
*HaltedByKey* that only the user goes on from a changed key.

`WakesAreAlwaysServed`, for any number of sleeps and changes of network, connects and
failed reads, and for every length of the backoff (`WakeBounds`: at least one step).
WakeIsAnswered accepts a first backoff step as an answer, so the proof needs
*UpStartsOver*: a session that was up has set the backoff to its start, whatever step it
was dialled at. *CutIsRecent* says that a wait cut short is in the half minute that keeps
the next one from being cut, from which EarlyAttemptsAreSpaced follows; *PastIsPast* and
*WantedIsUnderWay* that no wake is heard of before it happens and that what is wanted is
somewhere between queue and session.

Only model-checked: XraySessionIsKept (the second supervisor; the first one's proofs show
what it would take), StreamsAgree (the queues are filtered with SelectSeq and the streams
compared with folds, an induction over data), PinHolds (SshConnect has no constants: TLC
explores all of it) and ConnectionsAreServed (not attempted).

Finding (`kex_init`): a queued channel open follows KEXINIT under the old keys, against
the comment of `performKex` (`live-client.ts` 810-812).

Observations:

- Xray's adapter that stops while it is being restarted stays up, as in section 3; a
  restart that loses its Xray before taking the hold over leaves the hold with the
  earlier ports (`xray-service.ts` 204, 877, 904-912).
- A server KEXINIT after `disconnect()` makes `beginRuntimeRekey` reject without a
  handler; the model ignores it.
- A wake between the dial and its success is dropped without a probe; a network that
  flaps back to the same signature is not noticed.
- A failed first write of a forwarded HTTP request appends a 502 even after bytes of
  an answer; a FIN inside the handshake ends only at the 30-second deadline.

## 8. Routing of the machine (run `routing`)

- **WindowsSystemProxy** (`windows-system-proxy.ts`, main's recovery and quit).  The
  journal, the five values as named groups, the broadcast and the PAC servers, one
  step at a time; each step may fail, and the process may end anywhere and start
  again.  SettingsAreGivenBack: the user's settings are in the registry or in the
  journal the next start reads, what is given back is never Shadow's, and a recovery
  without a failure has given them back.  PacsAreServed: every PAC URL in the registry
  or still held by a client is answered with the text last applied.  A failed
  `reg.exe` changed nothing; reads of the registry are one step.  Bounds: four ports,
  two texts, one failing step or end of the process.  An old version kept a journal
  per tunnel; Init has both orders of the two.  `outlived` marks the one step that loses
  settings: the older of two journals is removed while the later one stays (see
  Observations).
- **RoutingDecisions** (`routing-matcher.ts`, `traffic-policy.ts`, `buildProxyPac`,
  `xray-config.ts`, `policy.go`).  The decision of the listener, the PAC, Xray and the
  adapter as operators over one configuration and one flow.  OneOrder: they agree, and
  what the adapter does not look up could not have changed its answer.
  NothingSelectedLeaks: a selected datagram is carried or refused.  Rule ids and the
  protected endpoint are left out.
- **ProcessAttribution** (`process-attribution.ts`).  Lookups against captures that
  fail, pause and are disposed of.  LookupsAreAnswered: a lookup is answered from a
  snapshot taken after its socket was accepted, and a lookup that waits waits for a
  capture that is running or follows.  `misled` marks the lookups that are answered from
  an older one: those whose own last capture failed, while that snapshot is still cached.  Bounds: four lookups of two attempts, three failed captures
  (a pause follows the second), one pause that lapses.
- **ProcessRouteLearner** (`process-route-learning.ts` and its caller).  What is learned
  of the connections and DNS cache entries of the selected applications, against changes
  of the rules, direct lists, failing queries and publications, and ends of the session.
  LearnedRoutesAreTrue: a PAC publishes only what was learned for its rules and outside
  their direct list; at rest, what is learned is in the PAC or known to be owed, with the
  monitor armed; and a learned name stays while discovery works.  Bounds: two
  applications, one address, two names, three routings of which one selects nothing, one
  change of the routing, three cycles, one failure and one end of the session.

### What is proved

`MCRoutingProofs` proves three properties of the run.  Its first part proves SettingsAreGivenBack (`SettingsAreAlwaysGivenBack`; its
parts are `ProxyTypes`, `SettingsAreKept`, `LeftoversStayOut` and the action property
`RecoveryHasGivenBack`) from `WindowsSystemProxyAssumption`: limits that are naturals, and
that the port and form Init takes for an earlier run exist.  The number of failing steps,
ends of the process and spoilt journals is arbitrary there; the run has one.

UserSettingsAreKept speaks of the two places the settings can be in and is not
inductive: it does not say that the registry has all five values by the time a
restore removes the journal. *Kept* says which journal counts (the older one of two,
the only one, or none: then the registry). *Undoing(i)* says that steps i to 10 of
an undo are left, that it writes what the journal says that it will remove, and that
the values before step i are the user's own already, unless the older
journal stands in the other directory (*Decisive*); so the registry has them all when the journal goes.
*Persisting* says that what an apply is about to save is the user's own or does not
count, *Publishing* that nothing of Shadow's is written while no journal holds what
was there, and *Holding* that the copy in memory is the one on disk. A quit that
restores out of the queue meets an undo at any of its steps: it may rewrite a value,
but never one that was given back with another (`RestoredAside`). TLC checked the
invariant with two failures and one PAC text before the proof.

Its second part proves LearnedRoutesAreTrue (`LearnedRoutesAreAlwaysTrue`; for the component
by itself `WhatIsLearnedIsTrue` and the action property `LearnedNamesAlwaysStay`) for all
applications, addresses, names, families and routings and all bounds, which are CONSTANTS of
MCRouting.  It assumes (`LearnerBounds`) that no address is called "none", and that a
routing names applications and names.  Two chains carry the induction.

Who still has to act: a refresh and an apply run with the generation they were queued with
and publish after several awaits. *Queued* says that the last apply that waits is for the
routing in use and so is a refresh of this generation, *Overtaken* that a mutation that was
overtaken has the apply that overtook it behind it, and *Settled* that once no apply waits
the monitor goes on (its timer, a queued refresh or the running one is of this generation)
and something was learned or is owed.

What a cycle holds while it runs: *Serves* (it learns for the applications the learner has
as its target), *KeepsClear* (from its commit on, what is learned is outside the direct list
it was begun with), *SignatureIsTrue* (the last signature is that of what is learned),
*LiteralIsRemembered* and *AppliedIsInForce* (what the cycle remembers of its publication of
literal addresses, and what the learner remembers as applied, is what the PAC says, unless a
publication is owed).  *AgesAreKnown* bounds the age of a name by the time since the last
cycle that learned, from which LearnedNamesStay follows.

Its third part proves LookupsAreAnswered (`LookupsAreAlwaysAnswered`; `SocketsAreAttributed`
for the component by itself) for any set of lookups and any number of failed captures and
pauses.  It assumes (`LookupBounds`) that a lookup may ask for a snapshot at least once.  That
an answer is fresh does not follow from who waits; three statements carry the induction.
*Later*: a capture is for lookups that were made, and for all that an earlier one was for, so
a new snapshot never loses a socket.  *AwaitsLater*: a lookup that waits for the running
capture was made before it began, and one that waits for the next has it queued behind the
running one.  *Covered*: who was waited for is covered, and who is covered is in the snapshot
unless a capture failed or the cache was cleared.

OneOrder and PacsAreServed are only model-checked: the first divides by powers of two, which
the prover's arithmetic does not reach; the second filters sequences of PAC servers, and what
a recursive definition does to every sequence takes an induction over data.

Observations:

- With two failed steps a PAC endpoint that is retried may serve old content.
- When an old version left two journals and the `routing` one is the older, a recovery
  that fails at the newer and a restore or apply after it lose the user's settings: the
  restore looks only in `routing` and removes that journal, and the xray one that stays,
  which describes Shadow's own values, is the oldest from then on (comment 91-95).  This
  is `outlived`; from every other start and after every other step the settings are kept.
- A public name that resolves into the local network is routed differently by the
  adapter and by the name paths.  A single-label or `.local` name that resolves to a
  public address selected by an IP rule goes to the proxy in the PAC and direct in
  Xray (`xray-config.ts` 99-104, 141).
- After a failed apply of rules without applications the old PAC stays.
- A failed capture advances `snapshotAt` (`process-attribution.ts` 157-162), so the lookups
  it was for are answered from an older snapshot, in which a port may be another's,
  against the comment at 102-104 (`misled`); a
  dispose while the helper starts leaves it undisposed.

## 9. The application (run `application`)

- **AppStorage** (`app-storage.ts`).  Store and secrets in memory and as files for one
  server, one key and one profile; every mutation writes them one after the other and
  takes back what a failed write did; crashes and damaged files in between.  Bounds:
  two troubles in any mix.  SavedIsKept allows `torn`, the one pair of key and fingerprint
  left by a process that died between the two writes of `upsertKey` or of its rollback
  (1301-1305, 1326-1336), until the key is saved again; `leftBehind`, the references that a
  `startFresh` could not drop from the store; and the old value of a record, which is in
  memory alone once a failed save has replaced it and could not put it back.
- **AppUpdate** (`app-update-controller.ts`, `github-app-update.ts`).  Checks with
  ETags, downloads, verification and pruning.  The model assumes assets with digests;
  one without is only checked for its size.  What is offered was the latest release when
  it was selected; `unkept` marks the exception, a release whose ETag could not be saved.
- **MainWindow** (`main-window.ts`, `tray.ts`).  The window, its release in the
  background, crashes of the interface, and the end of the Windows session.
- **RoutingPage** (`useRoutingController.ts`, `useRoutingAutosave.ts`, the saving side of
  main).  Rules, mode and list with overlapping saves, dialogs and Undo.  The page may be
  left and opened again at any moment; what the page that was left still does (answers it
  awaits, deletes, the Undo of its toasts) goes on beside the new one, with its own refs.
  RoutingChangesAreKept allows: what was asked of a kind whose last save `failed`; rules
  once a change was built on others than the user's (`wanted.rules = NoRules`), by a page
  opened before the one left had finished or by the one left; and an ended session after a
  change was decided `blind`, by a page that could not see another change.  Bounds: one
  rule, one new rule that is also the imported one, two acts, one failure.
- **RotatingFileLog** (`rotating-file-log.ts`).  Appends, rotations and clears, any step of
  which may fail, partly or whole, or be the last before a crash.  LogIsKept: what is read
  is a suffix of what was written and not cleared, and an entry is given up no sooner than
  the `Backups`-th removal of the oldest archive after the removal that made room for it.
  A rotation that fails after that removal counts, so its retry takes another archive (see
  Observations).  Bounds: three archives of one entry, six entries, two failures, a crash.

The properties of this run are only model-checked.  LogIsKept reads the tail of the log with
a fold, an induction over data; the others were not attempted.

Observations:

- A failed settings write and a withdrawn release let a 304 keep the withdrawn offer
  (`app-update-controller.ts` 87-117; `unkept`); a
  crash between `rm` and `rename` loses the old file.
- An Xray "Stopped" notice may come when its teardown outlasts the settle time;
  `beginSession` clears a check without a refresh of the menu.
- Routing page: a failed save of rules followed by a successful save of the mode says
  "saved"; a failed switch to Full skips the guard of the last target; a confirmed
  change that waits is not counted as pending.  Coming back while a save is under way
  forgets the drafts, and a change is then built on the rules that save replaces; Undo
  after leaving does the same (`useRoutingController.ts` 177-182, 598-600).
- `selectProxyProfile` may select a stale profile; upsert by id can give two profiles
  one fingerprint.
- A failing last rename of the log, or a crash before it, loses one archive per retry
  (`rotating-file-log.ts` 140).

## 10. Progress (run `progress`)

NobodyWaitsForEver is checked under the fairness of each component: a keepalive's
timers fire and packets of a live server arrive (SshKeepalive), the pump and the
exchange continue while the server answers (SshTransport), a capture ends and a
sleep is over (OwnerTable), and a pump that may run runs (TunAdapter).  Timers are
Node's or the Go runtime's and fire; captures and driver calls end by themselves;
nothing is assumed of servers, users or applications.

## 11. Not modelled

Byte formats, cryptography and packet parsing (no interleaving, and arithmetic out of
TLC's reach); share links and most of the Xray configuration (conversions of text);
password and key authentication; the terminal; IPC validation (checks of shapes); the
download of the proxy list; the energy policy (only intervals); migrations of old
files; React components other than the routing page; the browser preview; build
scripts.
