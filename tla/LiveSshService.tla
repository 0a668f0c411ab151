--------------------------- MODULE LiveSshService ---------------------------
(***************************************************************************)
(* The SSH transport's service, class LiveSshServiceBridge of              *)
(* src/src/service/live-ssh-service.ts: one SSH session kept alive by a    *)
(* reconnect supervisor, the local HTTP/SOCKS listener that outlives the   *)
(* session, and the machine's system routing (Windows proxy setting or TUN *)
(* adapter) that points at that listener.                                  *)
(*                                                                         *)
(* The class runs on one JavaScript thread.  Calls, timers and client      *)
(* events run to completion (one action each); everything slow is a        *)
(* mutation in a FIFO queue whose head runs until its next await.  A       *)
(* mutation is therefore a small program: "at" is the await (or the        *)
(* synchronous segment) it has reached, and every other handler may run    *)
(* while it waits there.                                                   *)
(*                                                                         *)
(* The code tells overtaken work apart with counters that only grow        *)
(* (lifecycleGeneration, routingGeneration, routingHoldGeneration) and     *)
(* only ever compares a captured value with the present one.  A captured   *)
(* value is thus either the present one or stale for good, which is what   *)
(* the flag "current" records here; Overtake makes every captured value    *)
(* stale, as an increment does.                                            *)
(***************************************************************************)
EXTENDS Naturals, Sequences, FiniteSets

CONSTANTS
  Clients,          \* identities of SshLiveClient objects
  NoClient,         \* the value of an undefined client
  Conns,            \* proxy connections the listener may have accepted
  MaxQueue,         \* bound on the queue when a caller adds to it
  MaxAuthFailures,  \* MAXIMUM_AUTOMATIC_AUTH_FAILURES
  MaxTunStops,      \* MAXIMUM_TUN_UNEXPECTED_STOPS
  TunEnabled,       \* Windows, helper present, request.tunDataplaneEnabled
  CleanupMayFail,   \* systemProxy.restore() and dataplane.stop() may fail
  ProxyMayRefuse    \* systemProxy.apply() may throw, or decline (not on Windows)

ASSUME LiveSshAssumption ==
  /\ NoClient \notin Clients
  /\ MaxQueue \in Nat \ {0}
  /\ MaxAuthFailures \in Nat \ {0}
  /\ MaxTunStops \in Nat \ {0}
  /\ TunEnabled \in BOOLEAN
  /\ CleanupMayFail \in BOOLEAN
  /\ ProxyMayRefuse \in BOOLEAN

VARIABLES
  status,                   \* RuntimeStatus.state
  client,                   \* this.client
  clientCurrent,            \* the generation captured by this.client's event handler is current
  open,                     \* clients whose SSH session has not been disconnected
  lastRequest,              \* a Connect has been asked for
  disconnectRequested,
  reconnectHalted,
  disposed,
  reconnectTimer,           \* "none" or "armed"; whatever overtakes its generation clears it
  supervisor,               \* the watchdog and the wake detector run
  consecutiveAuthFailures,
  sessionEstablished,
  systemRoutingApplied,
  routingChangedWhileDown,
  systemProxy,              \* the machine's own proxy setting: "direct" or "listener"
  tunRoutingActive,
  tunStartAttempted,
  active,                   \* dataplane.isActive: a start succeeded and no stop followed
  adapter,                  \* the helper's adapter really captures the machine's traffic
  forgotten,                \* history: that adapter came up after everyone had lost track of it
  tunStops,                 \* unexpected adapter stops inside the window
  tunSuspended,
  holdTimer,                \* routingHoldTimer is armed
  holdStopQueued,           \* routingHoldStopQueued
  socksProxy,               \* the local listener exists
  unwatched,                \* history: it came up after clearError had looked for it
  waiters,                  \* connections parked in waitForTunnel
  queue,                    \* the mutation queue; its head is the running mutation
  at,                       \* where the running mutation is
  run                       \* the running mutation's local variables

intent  == <<lastRequest, disconnectRequested, reconnectHalted, disposed>>
link    == <<client, clientCurrent, open>>
retry   == <<reconnectTimer, supervisor, consecutiveAuthFailures, sessionEstablished>>
tun     == <<tunRoutingActive, tunStartAttempted, active, adapter, forgotten, tunStops, tunSuspended>>
routing == <<systemRoutingApplied, routingChangedWhileDown, systemProxy, tun>>
hold    == <<holdTimer, holdStopQueued>>
local   == <<socksProxy, unwatched, waiters>>
exec    == <<queue, at, run>>
vars    == <<status, intent, link, retry, routing, hold, local, exec>>

-----------------------------------------------------------------------------
(* Types *)

States == {"Disconnected", "Connecting", "Connected", "Reconnecting",
           "Disconnecting", "Error"}

Kinds == {"connect", "disconnect", "dispose", "cleanup", "stopRouting",
          "holdStop", "routing", "reapply"}

(* What went wrong in a connect attempt, as handleConnectFailure tells it
   apart: "lost" may be retried, "auth" is counted, "final" needs the user. *)
Failures == {"lost", "auth", "final"}

Mutations == [kind : Kinds, current : BOOLEAN, user : BOOLEAN,
              retryable : BOOLEAN, client : Clients \cup {NoClient}]

(* The awaits, and the synchronous segments that go on after them. *)
Awaits   == {"stop", "close", "dial", "listen", "probe", "tunStart",
             "tunRestore", "tunStop", "proxyApply"}
Segments == {"replace", "dialStart", "established", "apply", "applied",
             "failed", "cleaned", "stopListener", "ended", "done"}
Points   == {"idle", "proxy"} \cup Awaits \cup Segments

Locals == [hold : BOOLEAN, holdTun : BOOLEAN, session : Clients \cup {NoClient},
           error : Failures, live : BOOLEAN, aborted : BOOLEAN,
           stopsTun : BOOLEAN, next : Segments]

NoLocals == [hold |-> FALSE, holdTun |-> FALSE, session |-> NoClient,
             error |-> "lost", live |-> FALSE, aborted |-> FALSE,
             stopsTun |-> FALSE, next |-> "done"]

IntentType ==
  /\ lastRequest \in BOOLEAN
  /\ disconnectRequested \in BOOLEAN
  /\ reconnectHalted \in BOOLEAN
  /\ disposed \in BOOLEAN

LinkType ==
  /\ client \in Clients \cup {NoClient}
  /\ clientCurrent \in BOOLEAN
  /\ open \subseteq Clients

RetryType ==
  /\ reconnectTimer \in {"none", "armed"}
  /\ supervisor \in BOOLEAN
  /\ consecutiveAuthFailures \in Nat
  /\ sessionEstablished \in BOOLEAN

TunType ==
  /\ tunRoutingActive \in BOOLEAN
  /\ tunStartAttempted \in BOOLEAN
  /\ active \in BOOLEAN
  /\ adapter \in BOOLEAN
  /\ forgotten \in BOOLEAN
  /\ tunStops \in Nat
  /\ tunSuspended \in BOOLEAN

RoutingType ==
  /\ systemRoutingApplied \in BOOLEAN
  /\ routingChangedWhileDown \in BOOLEAN
  /\ systemProxy \in {"direct", "listener"}
  /\ TunType

HoldType == holdTimer \in BOOLEAN /\ holdStopQueued \in BOOLEAN

LocalType == socksProxy \in BOOLEAN /\ unwatched \in BOOLEAN /\ waiters \subseteq Conns

ExecType ==
  /\ queue \in Seq(Mutations)
  /\ at \in Points
  /\ run \in Locals

(* The type invariant, one part for each part of the state. *)
TypeOK ==
  /\ status \in States
  /\ IntentType /\ LinkType /\ RetryType /\ RoutingType
  /\ HoldType /\ LocalType /\ ExecType

-----------------------------------------------------------------------------
(* The queue and the generations *)

Mutation(k) == [kind |-> k, current |-> TRUE, user |-> FALSE,
                retryable |-> TRUE, client |-> NoClient]

(* A step of lifecycleGeneration: every captured generation is stale now.  The
   stop of an expired hold captured the hold's own generation instead, and a
   plain stop captured none. *)
Overtake(q) ==
  [i \in 1..Len(q) |->
     IF q[i].kind \in {"holdStop", "stopRouting"}
     THEN q[i] ELSE [q[i] EXCEPT !.current = FALSE]]

(* A step of routingGeneration: an older routing update is stale. *)
OvertakeRouting(q) ==
  [i \in 1..Len(q) |->
     IF q[i].kind = "routing" THEN [q[i] EXCEPT !.current = FALSE] ELSE q[i]]

(* A step of routingHoldGeneration. *)
OvertakeHold(q) ==
  [i \in 1..Len(q) |->
     IF q[i].kind = "holdStop" THEN [q[i] EXCEPT !.current = FALSE] ELSE q[i]]

Running   == Head(queue)
IsCurrent == Running.current

(* A caller may add to the queue. *)
HasRoom == Len(queue) < MaxQueue

(* The running mutation has reached p. *)
At(p) == queue # <<>> /\ at = p

(* A mutation of kind k starts, and is not overtaken. *)
Begins(k) == At("idle") /\ Running.kind = k /\ IsCurrent

(* The running mutation settles, and the next one may start. *)
Finish == queue' = Tail(queue) /\ at' = "idle" /\ run' = NoLocals

GoTo(p) == at' = p /\ UNCHANGED <<queue, run>>

(* A session is wanted: what wake(), the watchdog and the timer check first. *)
Wanted == lastRequest /\ ~disconnectRequested /\ ~reconnectHalted /\ ~disposed

(* isRoutingStateActive, with the running mutation's allowConnecting. *)
RoutingStateActive ==
  \/ status = "Connected"
  \/ Running.kind = "connect" /\ status \in {"Connecting", "Reconnecting"}

(* The check after each await of applySystemRouting: neither a newer apply nor
   an outage came in between (processRoutingGeneration), and the session is up. *)
ApplyLive == run.live /\ RoutingStateActive

(* noteRoutingChangedWhileDown *)
ChangeNoted ==
  routingChangedWhileDown \/ (systemRoutingApplied /\ lastRequest /\ ~disconnectRequested)

-----------------------------------------------------------------------------
(* Initially the bridge has just been constructed. *)

Init ==
  /\ status = "Disconnected"
  /\ client = NoClient /\ clientCurrent = FALSE /\ open = {}
  /\ lastRequest = FALSE /\ disconnectRequested = FALSE
  /\ reconnectHalted = FALSE /\ disposed = FALSE
  /\ reconnectTimer = "none" /\ supervisor = FALSE
  /\ consecutiveAuthFailures = 0 /\ sessionEstablished = FALSE
  /\ systemRoutingApplied = FALSE /\ routingChangedWhileDown = FALSE
  /\ systemProxy = "direct"
  /\ tunRoutingActive = FALSE /\ tunStartAttempted = FALSE
  /\ active = FALSE /\ adapter = FALSE /\ forgotten = FALSE
  /\ tunStops = 0 /\ tunSuspended = FALSE
  /\ holdTimer = FALSE /\ holdStopQueued = FALSE
  /\ socksProxy = FALSE /\ unwatched = FALSE /\ waiters = {}
  /\ queue = <<>> /\ at = "idle" /\ run = NoLocals

-----------------------------------------------------------------------------
(* stopSystemRouting: everything up to its first await, then n goes on. *)

BeginStop(n, r) ==
  /\ at' = "stop"
  /\ run' = [r EXCEPT !.next = n, !.live = FALSE,
                      !.stopsTun = tunRoutingActive \/ tunStartAttempted]
  /\ queue' = OvertakeHold(queue)
  /\ holdTimer' = FALSE
  /\ holdStopQueued' = FALSE
  /\ systemRoutingApplied' = FALSE
  /\ tunRoutingActive' = FALSE
  /\ tunStartAttempted' = FALSE
  /\ UNCHANGED <<routingChangedWhileDown, systemProxy, active, adapter, forgotten, tunStops,
                 tunSuspended>>

(* dataplane.stop() settled: the controller reads inactive whatever happened,
   and the adapter is gone unless the helper failed to take it down. *)
DataplaneStopped ==
  /\ active' = (active /\ ~run.stopsTun)
  /\ adapter' \in IF ~run.stopsTun THEN {adapter}
                  ELSE IF CleanupMayFail THEN {FALSE, adapter} ELSE {FALSE}
  /\ forgotten' = (forgotten /\ adapter')

(* The awaits of stopSystemRouting are over: TUN down, proxy setting restored. *)
FinishStop ==
  /\ At("stop")
  /\ DataplaneStopped
  /\ systemProxy' \in IF CleanupMayFail THEN {"direct", systemProxy} ELSE {"direct"}
  /\ GoTo(run.next)
  /\ UNCHANGED <<status, intent, link, retry, hold, local, systemRoutingApplied,
                 routingChangedWhileDown, tunRoutingActive, tunStartAttempted,
                 tunStops, tunSuspended>>

(* disconnectClient is over. *)
FinishClose ==
  /\ At("close")
  /\ open' = open \ {run.session}
  /\ GoTo(run.next)
  /\ UNCHANGED <<status, intent, client, clientCurrent, retry, routing, hold, local>>

(* A mutation that finds itself overtaken returns at once.  The cleanup of a
   failed session closes its client first, and a plain stop never asks. *)
SkipOvertaken ==
  /\ At("idle")
  /\ ~IsCurrent
  /\ Running.kind # "cleanup"
  /\ Finish
  /\ UNCHANGED <<status, intent, link, retry, routing, hold, local>>

Done ==
  /\ At("done")
  /\ Finish
  /\ UNCHANGED <<status, intent, link, retry, routing, hold, local>>

-----------------------------------------------------------------------------
(* connectInternal *)

(* The previous session's client is taken out, and closed before the dial. *)
TakeClient(r) ==
  /\ client' = NoClient
  /\ clientCurrent' = FALSE
  /\ at' = IF client = NoClient THEN "dial" ELSE "close"
  /\ run' = [r EXCEPT !.session = client, !.next = "dialStart"]
  /\ UNCHANGED <<open, queue>>

(* Routing and the listener survive an automatic reconnect. *)
HoldRouting == ~Running.user /\ systemRoutingApplied /\ socksProxy

(* mutant: an adapter is held without asking whether it is still up *)
HoldTunRoutingBlindly == HoldRouting /\ tunRoutingActive /\ ~routingChangedWhileDown

(* An adapter survives only while it is up and carries the present rules. *)
HoldTunRouting ==
  HoldRouting /\ tunRoutingActive /\ active /\ ~routingChangedWhileDown

(* What survives of the previous session is decided once, at the start. *)
BeginConnect ==
  /\ Begins("connect")
  /\ LET r == [NoLocals EXCEPT !.hold = HoldRouting, !.holdTun = HoldTunRouting]
     IN \/ HoldRouting /\ TakeClient(r) /\ UNCHANGED <<routing, hold>>
        \/ ~HoldRouting /\ BeginStop("replace", r) /\ UNCHANGED link
  /\ UNCHANGED <<status, intent, retry, local>>

Replace ==
  /\ At("replace")
  /\ IF IsCurrent THEN TakeClient(run) ELSE Finish /\ UNCHANGED link
  /\ UNCHANGED <<status, intent, retry, routing, hold, local>>

DialStart ==
  /\ At("dialStart")
  /\ IF IsCurrent THEN GoTo("dial") ELSE Finish
  /\ UNCHANGED <<status, intent, link, retry, routing, hold, local>>

(* The SSH session c is up. *)
DialOk(c) ==
  /\ At("dial")
  /\ IsCurrent
  /\ open' = open \cup {c}
  /\ client' = c
  /\ clientCurrent' = TRUE
  /\ consecutiveAuthFailures' = 0
  /\ at' = IF socksProxy THEN "established" ELSE "listen"
  /\ run' = [run EXCEPT !.session = c]
  /\ UNCHANGED <<status, intent, reconnectTimer, supervisor, sessionEstablished,
                 routing, hold, local, queue>>

(* The SSH session c is up, but nobody waits for it any more. *)
DialOvertaken(c) ==
  /\ At("dial")
  /\ ~IsCurrent
  /\ open' = open \cup {c}
  /\ at' = "close"
  /\ run' = [run EXCEPT !.session = c, !.next = "done"]
  /\ UNCHANGED <<status, intent, client, clientCurrent, retry, routing, hold, local,
                 queue>>

(* connectClient rejected.  Routing held through the TUN adapter is given up,
   so that the next attempt may resolve the server's name. *)
DialFail(e) ==
  /\ At("dial")
  /\ LET r == [run EXCEPT !.error = e]
     IN IF run.holdTun /\ IsCurrent
        THEN BeginStop("failed", r)
        ELSE at' = "failed" /\ run' = r /\ UNCHANGED <<queue, routing, hold>>
  /\ UNCHANGED <<status, intent, link, retry, local>>

(* ensureLocalListener.  An attempt that was overtaken meanwhile leaves the listener
   to whoever overtook it; clearError has stopped what it saw, and it saw none. *)
ListenOk ==
  /\ At("listen")
  /\ socksProxy' = TRUE
  /\ unwatched' = (unwatched \/ status = "Disconnected")
  /\ GoTo("established")
  /\ UNCHANGED <<status, intent, link, retry, routing, hold, waiters>>

(* The catch block with a client already acquired: it is closed first.  The
   listener and the proxy setting are only set up where no adapter is held, so
   the catch block's release of a held adapter is DialFail's alone. *)
SetupFails ==
  /\ at' = "close"
  /\ run' = [run EXCEPT !.next = "failed", !.error = "lost"]
  /\ client' = IF client = run.session THEN NoClient ELSE client
  /\ clientCurrent' = (clientCurrent /\ client # run.session)
  /\ UNCHANGED <<open, queue>>

ListenFail ==
  /\ At("listen")
  /\ SetupFails
  /\ UNCHANGED <<status, intent, retry, routing, hold, local>>

(* The acquired session is no longer the one to use. *)
Superseded == ~IsCurrent \/ client # run.session

CloseSuperseded ==
  /\ at' = "close"
  /\ run' = [run EXCEPT !.next = "done"]
  /\ UNCHANGED queue

(* The session becomes Connected: the hold ends and parked connections resume. *)
BecomeConnected ==
  /\ systemRoutingApplied' = TRUE
  /\ routingChangedWhileDown' = FALSE
  /\ holdTimer' = FALSE
  /\ holdStopQueued' = FALSE
  /\ sessionEstablished' = TRUE
  /\ status' = "Connected"
  /\ waiters' = {}
  /\ queue' = OvertakeHold(Tail(queue))
  /\ at' = "idle"
  /\ run' = NoLocals
  /\ UNCHANGED <<systemProxy, tun, socksProxy, unwatched>>

-----------------------------------------------------------------------------
(* applySystemRouting and applyTunRouting; then n goes on.  "proxy" is the
   Windows proxy path, the fallback of every machine without an adapter. *)

(* stopTunRouting inside applyTunRouting: an adapter this session may still have
   up goes before the proxy path is put on top of it. *)
BeginTunStop(r) ==
  /\ at' = "tunStop"
  /\ run' = [r EXCEPT !.stopsTun = tunRoutingActive \/ tunStartAttempted]
  /\ tunRoutingActive' = FALSE
  /\ tunStartAttempted' = FALSE
  /\ UNCHANGED <<queue, active, tunStops, tunSuspended>>

BeginApply(n, r) ==
  LET s == [r EXCEPT !.next = n, !.live = TRUE, !.aborted = FALSE]
  IN IF TunEnabled /\ tunSuspended
     THEN BeginTunStop(s) /\ UNCHANGED <<adapter, forgotten>>
     ELSE /\ at' = IF TunEnabled THEN "probe" ELSE "proxy"
          /\ run' = s
          /\ UNCHANGED <<queue, tun>>

(* The flag goes first, so that whoever supersedes this attempt finds it. *)
ConnectApplies ==
  /\ systemRoutingApplied' = TRUE
  /\ BeginApply("applied", run)
  /\ UNCHANGED <<routingChangedWhileDown, systemProxy, hold>>

(* The listener is up.  Held TUN routing is kept as it is, an adapter with old
   rules is rebuilt from scratch, anything else is applied afresh. *)
Established ==
  /\ At("established")
  /\ \/ /\ Superseded
        /\ CloseSuperseded
        /\ UNCHANGED <<status, sessionEstablished, routing, hold, local>>
     \/ /\ ~Superseded /\ run.holdTun
        /\ BecomeConnected
     \/ /\ ~Superseded /\ ~run.holdTun /\ run.hold /\ tunRoutingActive
        /\ BeginStop("apply", run)
        /\ UNCHANGED <<status, sessionEstablished, local>>
     \/ /\ ~Superseded /\ ~run.holdTun /\ ~(run.hold /\ tunRoutingActive)
        /\ ConnectApplies
        /\ UNCHANGED <<status, sessionEstablished, local>>
  /\ UNCHANGED <<intent, link, reconnectTimer, supervisor, consecutiveAuthFailures>>

(* The rebuild goes on once the old adapter is down, without asking again
   whether the session is still there. *)
Apply ==
  /\ At("apply")
  /\ ConnectApplies
  /\ UNCHANGED <<status, intent, link, retry, local>>

Applied ==
  /\ At("applied")
  /\ \/ /\ Superseded
        /\ CloseSuperseded
        /\ UNCHANGED <<status, sessionEstablished, routing, hold, local>>
     \/ /\ ~Superseded
        /\ BecomeConnected
  /\ UNCHANGED <<intent, link, reconnectTimer, supervisor, consecutiveAuthFailures>>

(* The helper answered, and so did the lookup of the server's addresses. *)
Probe ==
  /\ At("probe")
  /\ \/ /\ ~ApplyLive
        /\ GoTo("proxy")
        /\ UNCHANGED tun
     \/ /\ ApplyLive
        /\ BeginTunStop(run)
        /\ UNCHANGED <<adapter, forgotten>>
     \/ /\ ApplyLive
        /\ tunStartAttempted' = TRUE
        /\ forgotten' = FALSE
        /\ GoTo("tunStart")
        /\ UNCHANGED <<tunRoutingActive, active, adapter, tunStops, tunSuspended>>
  /\ UNCHANGED <<status, intent, link, retry, systemRoutingApplied,
                 routingChangedWhileDown, systemProxy, hold, local>>

TunStartOk ==
  /\ At("tunStart")
  /\ active' = TRUE
  /\ adapter' = TRUE
  /\ forgotten' = FALSE
  /\ GoTo("tunRestore")
  /\ UNCHANGED <<status, intent, link, retry, systemRoutingApplied,
                 routingChangedWhileDown, systemProxy, tunRoutingActive,
                 tunStartAttempted, tunStops, tunSuspended, hold, local>>

(* Every attempt to start failed or was given up on; the helper may have
   finished one all the same, and nobody knows of that one if the helper before it
   died during the start.  An overtaken start leaves an adapter that is up to
   whoever overtook it, and notes that it carries old rules. *)
TunStartFail ==
  /\ At("tunStart")
  /\ adapter' \in IF active THEN {adapter} ELSE BOOLEAN
  /\ forgotten' = (adapter' /\ ~tunRoutingActive /\ ~tunStartAttempted)
  /\ IF run.aborted \/ ~ApplyLive
     THEN /\ routingChangedWhileDown' =
               IF tunRoutingActive /\ ~RoutingStateActive
               THEN ChangeNoted ELSE routingChangedWhileDown
          /\ GoTo("proxy")
          /\ UNCHANGED <<tunRoutingActive, tunStartAttempted, active, tunStops, tunSuspended>>
     ELSE BeginTunStop(run) /\ UNCHANGED routingChangedWhileDown
  /\ UNCHANGED <<status, intent, link, retry, systemRoutingApplied, systemProxy,
                 hold, local>>

(* With the adapter carrying traffic the proxy setting goes. *)
TunRestore ==
  /\ At("tunRestore")
  /\ systemProxy' \in IF CleanupMayFail THEN {"direct", systemProxy} ELSE {"direct"}
  /\ tunRoutingActive' = TRUE
  /\ GoTo(run.next)
  /\ UNCHANGED <<status, intent, link, retry, systemRoutingApplied,
                 routingChangedWhileDown, tunStartAttempted, active, adapter,
                 forgotten, tunStops, tunSuspended, hold, local>>

TunStop ==
  /\ At("tunStop")
  /\ DataplaneStopped
  /\ GoTo("proxy")
  /\ UNCHANGED <<status, intent, link, retry, systemRoutingApplied,
                 routingChangedWhileDown, systemProxy, tunRoutingActive,
                 tunStartAttempted, tunStops, tunSuspended, hold, local>>

(* An overtaken apply leaves the proxy setting to whoever overtook it. *)
Proxy ==
  /\ At("proxy")
  /\ GoTo(IF ApplyLive THEN "proxyApply" ELSE run.next)
  /\ UNCHANGED <<status, intent, link, retry, routing, hold, local>>

ProxyApplyOk ==
  /\ At("proxyApply")
  /\ systemProxy' \in IF ProxyMayRefuse THEN {"listener", systemProxy} ELSE {"listener"}
  /\ GoTo(run.next)
  /\ UNCHANGED <<status, intent, link, retry, systemRoutingApplied,
                 routingChangedWhileDown, tun, hold, local>>

(* An error fails the connect attempt, and only the update otherwise. *)
ProxyApplyFail ==
  /\ At("proxyApply")
  /\ ProxyMayRefuse
  /\ systemProxy' \in {"listener", systemProxy}
  /\ IF Running.kind = "connect"
     THEN SetupFails
     ELSE Finish /\ UNCHANGED link
  /\ UNCHANGED <<status, intent, retry, systemRoutingApplied,
                 routingChangedWhileDown, tun, hold, local>>

(* updateRouting's mutation *)
RoutingUpdate ==
  /\ Begins("routing")
  /\ IF status = "Connected" /\ lastRequest /\ socksProxy
     THEN BeginApply("done", NoLocals) /\ UNCHANGED routingChangedWhileDown
     ELSE /\ routingChangedWhileDown' = ChangeNoted
          /\ Finish
          /\ UNCHANGED tun
  /\ UNCHANGED <<status, intent, link, retry, systemRoutingApplied, systemProxy,
                 hold, local>>

(* The mutation of handleDataplaneUnexpectedStop *)
Reapply ==
  /\ Begins("reapply")
  /\ IF status = "Connected" /\ systemRoutingApplied /\ lastRequest /\ socksProxy
     THEN BeginApply("done", NoLocals)
     ELSE Finish /\ UNCHANGED tun
  /\ UNCHANGED <<status, intent, link, retry, systemRoutingApplied,
                 routingChangedWhileDown, systemProxy, hold, local>>

-----------------------------------------------------------------------------
(* Failed attempts and lost sessions *)

(* suspendTunnel: the clock starts after which held routing is returned, unless
   it runs already or has expired and its stop is queued. *)
ArmsHold == systemRoutingApplied /\ ~holdTimer /\ ~holdStopQueued

SuspendTunnel(q) ==
  /\ holdTimer' = (holdTimer \/ ArmsHold)
  /\ queue' = IF ArmsHold THEN OvertakeHold(q) ELSE q
  /\ UNCHANGED holdStopQueued

(* The guard of scheduleReconnect, called with the present generation. *)
MaySchedule == Wanted /\ reconnectTimer = "none"

(* scheduleReconnect *)
ScheduleReconnect ==
  /\ reconnectTimer' = IF MaySchedule THEN "armed" ELSE reconnectTimer
  /\ supervisor' = (supervisor \/ MaySchedule)
  /\ status' = IF MaySchedule THEN "Reconnecting" ELSE status
  /\ UNCHANGED reconnectHalted

(* haltReconnect; its stop is added to the queue by the caller. *)
HaltReconnect ==
  /\ reconnectHalted' = TRUE
  /\ reconnectTimer' = "none"
  /\ supervisor' = FALSE
  /\ status' = "Error"

(* mutant: counts the attempts that are left *)
AuthFailuresCountDown == IF run.error = "auth" THEN consecutiveAuthFailures - 1
                                               ELSE consecutiveAuthFailures

AuthFailures == IF run.error = "auth" THEN consecutiveAuthFailures + 1
                                      ELSE consecutiveAuthFailures

MayRetry ==
  \/ run.error = "lost"
  \/ /\ run.error = "auth"
     /\ ~Running.user
     /\ sessionEstablished
     /\ AuthFailures < MaxAuthFailures

(* The end of connectInternal's catch block, with handleConnectFailure. *)
Failed ==
  /\ At("failed")
  /\ \/ /\ ~IsCurrent
        /\ Finish
        /\ UNCHANGED <<status, reconnectHalted, retry, hold>>
     \/ /\ IsCurrent
        /\ consecutiveAuthFailures' = AuthFailures
        /\ IF MayRetry
           THEN SuspendTunnel(Tail(queue)) /\ ScheduleReconnect
           ELSE SuspendTunnel(Append(Tail(queue), Mutation("stopRouting"))) /\ HaltReconnect
        /\ at' = "idle"
        /\ run' = NoLocals
        /\ UNCHANGED sessionEstablished
  /\ UNCHANGED <<lastRequest, disconnectRequested, disposed, link, routing, local>>

(* The mutation of handleClientFailure, after its client is closed. *)
BeginCleanup ==
  /\ At("idle")
  /\ Running.kind = "cleanup"
  /\ at' = "close"
  /\ run' = [NoLocals EXCEPT !.session = Running.client, !.next = "cleaned"]
  /\ UNCHANGED <<status, intent, link, retry, routing, hold, local, queue>>

(* mutant: the failed session is closed and nothing follows *)
CleanedWithoutRetry ==
  /\ At("cleaned")
  /\ Finish
  /\ UNCHANGED <<status, intent, link, retry, routing, hold, local>>

Cleaned ==
  /\ At("cleaned")
  /\ \/ /\ ~IsCurrent
        /\ queue' = Tail(queue)
        /\ UNCHANGED <<status, reconnectHalted, reconnectTimer, supervisor>>
     \/ /\ IsCurrent /\ Running.retryable
        /\ queue' = Tail(queue)
        /\ ScheduleReconnect
     \/ /\ IsCurrent /\ ~Running.retryable
        /\ queue' = Append(Tail(queue), Mutation("stopRouting"))
        /\ HaltReconnect
  /\ at' = "idle"
  /\ run' = NoLocals
  /\ UNCHANGED <<lastRequest, disconnectRequested, disposed, consecutiveAuthFailures,
                 sessionEstablished, link, routing, hold, local>>

-----------------------------------------------------------------------------
(* Teardown *)

(* disconnectInternal, for a disconnect and for disposal *)
DisconnectInternal ==
  /\ Begins("disconnect") \/ Begins("dispose")
  /\ client' = NoClient
  /\ clientCurrent' = FALSE
  /\ BeginStop("stopListener", [NoLocals EXCEPT !.session = client])
  /\ UNCHANGED <<status, intent, open, retry, local>>

(* stopRouting alone, after a halt or a dismissed error *)
StopRouting ==
  /\ Begins("stopRouting")
  /\ BeginStop("stopListener", NoLocals)
  /\ UNCHANGED <<status, intent, link, retry, local>>

(* mutant: parked connections are forgotten *)
StopListenerForgetsWaiters ==
  /\ At("stopListener")
  /\ socksProxy' = FALSE
  /\ unwatched' = FALSE
  /\ at' = IF Running.kind = "stopRouting" THEN "done"
           ELSE IF run.session # NoClient THEN "close" ELSE "ended"
  /\ run' = [run EXCEPT !.next = "ended"]
  /\ UNCHANGED <<status, intent, link, retry, routing, hold, waiters, queue>>

(* stopLocalListener: parked connections are refused. *)
StopListener ==
  /\ At("stopListener")
  /\ socksProxy' = FALSE
  /\ unwatched' = FALSE
  /\ waiters' = {}
  /\ at' = IF Running.kind = "stopRouting" THEN "done"
           ELSE IF run.session # NoClient THEN "close" ELSE "ended"
  /\ run' = [run EXCEPT !.next = "ended"]
  /\ UNCHANGED <<status, intent, link, retry, routing, hold, queue>>

(* The end of disconnectInternal; disposal also lets the helper go. *)
Ended ==
  /\ At("ended")
  /\ status' = IF IsCurrent THEN "Disconnected" ELSE status
  /\ IF Running.kind = "dispose"
     THEN /\ active' = FALSE
          /\ adapter' \in IF CleanupMayFail THEN {FALSE, adapter} ELSE {FALSE}
          /\ forgotten' = (forgotten /\ adapter')
     ELSE UNCHANGED <<active, adapter, forgotten>>
  /\ Finish
  /\ UNCHANGED <<intent, link, retry, systemRoutingApplied, routingChangedWhileDown,
                 systemProxy, tunRoutingActive, tunStartAttempted, tunStops,
                 tunSuspended, hold, local>>

(* The mutation of an expired hold *)
HoldStop ==
  /\ Begins("holdStop")
  /\ IF client # NoClient \/ disposed \/ disconnectRequested
     THEN holdStopQueued' = FALSE /\ Finish /\ UNCHANGED <<routing, holdTimer>>
     ELSE BeginStop("done", NoLocals)
  /\ UNCHANGED <<status, intent, link, retry, local>>

QueueStep ==
  \/ FinishStop \/ FinishClose \/ SkipOvertaken \/ Done
  \/ BeginConnect \/ Replace \/ DialStart
  \/ \E c \in Clients \ open : DialOk(c) \/ DialOvertaken(c)
  \/ \E e \in Failures : DialFail(e)
  \/ ListenOk \/ ListenFail \/ Established \/ Apply \/ Applied
  \/ Probe \/ TunStartOk \/ TunStartFail \/ TunRestore \/ TunStop
  \/ Proxy \/ ProxyApplyOk \/ ProxyApplyFail
  \/ RoutingUpdate \/ Reapply
  \/ Failed \/ BeginCleanup \/ Cleaned
  \/ DisconnectInternal \/ StopRouting \/ StopListener \/ Ended \/ HoldStop

-----------------------------------------------------------------------------
(* Calls, timers and events; each runs at once, whatever the queue is doing. *)

(* mutant: the previous lifecycle's work stays current *)
StartConnectKeepsOld(user, state) ==
  /\ reconnectTimer' = "none"
  /\ lastRequest' = TRUE
  /\ disconnectRequested' = FALSE
  /\ clientCurrent' = FALSE
  /\ status' = state
  /\ supervisor' = TRUE
  /\ queue' = Append(queue, [Mutation("connect") EXCEPT !.user = user])

(* startConnect: the lifecycle is replaced and an attempt queued. *)
StartConnect(user, state) ==
  /\ reconnectTimer' = "none"
  /\ lastRequest' = TRUE
  /\ disconnectRequested' = FALSE
  /\ clientCurrent' = FALSE
  /\ status' = state
  /\ supervisor' = TRUE
  /\ queue' = Append(Overtake(queue), [Mutation("connect") EXCEPT !.user = user])

(* connect: a fresh mandate, whatever stopped the previous session. *)
Connect ==
  /\ ~disposed
  /\ HasRoom
  /\ reconnectHalted' = FALSE
  /\ consecutiveAuthFailures' = 0
  /\ sessionEstablished' = FALSE
  /\ tunStops' = 0
  /\ tunSuspended' = FALSE
  /\ StartConnect(TRUE, "Connecting")
  /\ UNCHANGED <<disposed, client, open, systemRoutingApplied, routingChangedWhileDown,
                 systemProxy, tunRoutingActive, tunStartAttempted, active, adapter,
                 forgotten, hold, local, at, run>>

(* The timer of scheduleReconnect *)
ReconnectTimerFires ==
  /\ reconnectTimer = "armed"
  /\ IF lastRequest /\ ~disconnectRequested /\ ~reconnectHalted
     THEN StartConnect(FALSE, "Reconnecting")
     ELSE /\ reconnectTimer' = "none"
          /\ UNCHANGED <<lastRequest, disconnectRequested, clientCurrent, status,
                         supervisor, queue>>
  /\ UNCHANGED <<reconnectHalted, disposed, client, open, consecutiveAuthFailures,
                 sessionEstablished, routing, hold, local, at, run>>

(* What disconnect, clearError and dispose do at once: nothing in flight belongs
   to the present lifecycle any more, and a start of the adapter is abandoned. *)
EndLifecycle(state) ==
  /\ disconnectRequested' = TRUE
  /\ reconnectTimer' = "none"
  /\ supervisor' = FALSE
  /\ clientCurrent' = FALSE
  /\ status' = state
  /\ run' = [run EXCEPT !.aborted = run.aborted \/ at = "tunStart"]
  /\ UNCHANGED <<lastRequest, reconnectHalted, client, open, consecutiveAuthFailures,
                 sessionEstablished, routing, hold, local, at>>

(* beginDisconnect: the ending of the session, ahead of its teardown's turn. *)
BeginDisconnect ==
  /\ ~disposed
  /\ status \in {"Connecting", "Reconnecting", "Connected"}
  /\ EndLifecycle("Disconnecting")
  /\ queue' = Overtake(queue)
  /\ UNCHANGED disposed

Disconnect ==
  /\ ~disposed
  /\ HasRoom
  /\ EndLifecycle("Disconnecting")
  /\ queue' = Append(Overtake(queue), Mutation("disconnect"))
  /\ UNCHANGED disposed

ClearError ==
  /\ ~disposed
  /\ status = "Error"
  /\ HasRoom
  /\ EndLifecycle("Disconnected")
  /\ queue' = IF systemRoutingApplied \/ socksProxy
              THEN Append(Overtake(queue), Mutation("stopRouting"))
              ELSE Overtake(queue)
  /\ UNCHANGED disposed

Dispose ==
  /\ ~disposed
  /\ HasRoom
  /\ disposed' = TRUE
  /\ EndLifecycle("Disconnecting")
  /\ queue' = Append(Overtake(queue), Mutation("dispose"))

(* updateRouting and updateRoutingRules *)
UpdateRouting ==
  /\ ~disposed
  /\ HasRoom
  /\ queue' = Append(OvertakeRouting(queue), Mutation("routing"))
  /\ UNCHANGED <<status, intent, link, retry, routing, hold, local, at, run>>

(* handleClientFailure: the session broke under its generation. *)
ClientFails(retryable) ==
  /\ client # NoClient
  /\ clientCurrent
  /\ client' = NoClient
  /\ clientCurrent' = FALSE
  /\ reconnectTimer' = "none"
  /\ LET q == Append(Overtake(queue), [Mutation("cleanup") EXCEPT
                                         !.retryable = retryable, !.client = client])
     IN IF retryable
        THEN /\ SuspendTunnel(q)
             /\ run' = [run EXCEPT !.live = FALSE]
             /\ status' = "Reconnecting"
        ELSE /\ queue' = q
             /\ status' = "Error"
             /\ UNCHANGED <<hold, run>>
  /\ UNCHANGED <<intent, open, supervisor, consecutiveAuthFailures, sessionEstablished,
                 routing, local, at>>

(* An expired hold has nothing to release. *)
HoldIsOver ==
  client # NoClient \/ disposed \/ disconnectRequested \/ ~systemRoutingApplied

(* The timer of suspendTunnel *)
HoldTimerFires ==
  /\ holdTimer
  /\ holdTimer' = FALSE
  /\ IF HoldIsOver
     THEN UNCHANGED <<holdStopQueued, queue>>
     ELSE /\ holdStopQueued' = TRUE
          /\ queue' = Append(queue, Mutation("holdStop"))
  /\ UNCHANGED <<status, intent, link, retry, routing, local, at, run>>

(* The helper dies and takes its adapter with it.  The controller tells the
   service, handleDataplaneUnexpectedStop, only of an adapter it took for up.
   An abandoned start has been rejected already.  kept counts the earlier stops
   still inside the window. *)
HelperDies ==
  /\ adapter
  /\ ~(at = "tunStart" /\ run.aborted)
  /\ adapter' = FALSE
  /\ forgotten' = FALSE
  /\ active' = FALSE
  /\ IF active /\ ~disposed /\ (tunRoutingActive \/ tunStartAttempted)
     THEN /\ tunRoutingActive' = FALSE
          /\ tunStartAttempted' = FALSE
          /\ \E kept \in 0..tunStops :
               /\ tunStops' = kept + 1
               /\ tunSuspended' = (tunSuspended \/ kept + 1 >= MaxTunStops)
          /\ queue' = Append(queue, Mutation("reapply"))
     ELSE UNCHANGED <<tunRoutingActive, tunStartAttempted, tunStops, tunSuspended, queue>>
  /\ UNCHANGED <<status, intent, link, retry, systemRoutingApplied,
                 routingChangedWhileDown, systemProxy, hold, local, at, run>>

(* waitForTunnel: a connection accepted by the listener waits for a session. *)
Park(w) ==
  /\ socksProxy
  /\ w \notin waiters
  /\ Wanted
  /\ client = NoClient \/ status # "Connected"
  /\ waiters' = waiters \cup {w}
  /\ UNCHANGED <<status, intent, link, retry, routing, hold, socksProxy, unwatched, exec>>

(* The wait times out, or the caller's socket goes away. *)
Unpark(w) ==
  /\ w \in waiters
  /\ waiters' = waiters \ {w}
  /\ UNCHANGED <<status, intent, link, retry, routing, hold, socksProxy, unwatched, exec>>

UserStep == Connect \/ BeginDisconnect \/ Disconnect \/ ClearError \/ Dispose \/ UpdateRouting

Event ==
  \/ ReconnectTimerFires
  \/ HoldTimerFires
  \/ \E retryable \in BOOLEAN : ClientFails(retryable)
  \/ HelperDies
  \/ \E w \in Conns : Park(w) \/ Unpark(w)

Next == QueueStep \/ UserStep \/ Event

(* The disconnect that main queued when it called beginDisconnect. *)
OwedDisconnect ==
  /\ status = "Disconnecting"
  /\ \A i \in 1..Len(queue) : queue[i].kind = "disconnect" => ~queue[i].current
  /\ Disconnect

(* Every await of a mutation settles (the dial, the helper's commands and the
   proxy commands have deadlines of their own), armed timers fire, and main,
   which calls beginDisconnect only ahead of the disconnect or the connect it has
   queued, makes that call. *)
Fairness ==
  /\ WF_vars(QueueStep)
  /\ WF_vars(ReconnectTimerFires)
  /\ WF_vars(HoldTimerFires)
  /\ WF_vars(OwedDisconnect)

Spec == Init /\ [][Next]_vars

FairSpec == Spec /\ Fairness

-----------------------------------------------------------------------------
(* Safety *)

(* A mutation of one of the kinds K waits or runs, and is not overtaken. *)
Pending(K) == \E i \in 1..Len(queue) : queue[i].kind \in K /\ queue[i].current

(* The invariant of the reconnect loop that checkSupervisorInvariant patrols:
   while a session is wanted, the supervisor runs and there is a client whose
   events are heard, an armed timer, or an attempt (or the cleanup that ends in
   one) in the queue.  The watchdog never has anything to repair. *)
Supervised ==
  Wanted => /\ supervisor
            /\ \/ clientCurrent
               \/ reconnectTimer = "armed"
               \/ Pending({"connect", "cleanup"})

(* The converse: once the session is ended or halted, no timer, no queued work
   and no client's event can bring it back; only connect() can. *)
UnwantedIsQuiet ==
  ~Wanted => /\ ~clientCurrent
             /\ reconnectTimer = "none"
             /\ ~supervisor
             /\ ~Pending({"connect", "cleanup"})

(* Where the running mutation goes once what it awaits has settled. *)
ApplyPoints  == {"probe", "tunStart", "tunRestore", "tunStop", "proxy", "proxyApply"}
Continuation == IF at \in {"stop", "close"} \cup ApplyPoints THEN run.next ELSE at

(* The running attempt has a session of its own. *)
SessionInHand == Continuation \in {"listen", "established", "apply", "applied"}

Lifecycle == {"connect", "cleanup"}

(* A mutation is at a point of its own program. *)
RunsItsProgram ==
  /\ at # "idle" => queue # <<>>
  /\ at \in ApplyPoints =>
       run.next = IF Running.kind = "connect" THEN "applied" ELSE "done"
  /\ Continuation \in {"replace", "dialStart", "dial", "failed"} \/ SessionInHand =>
       Running.kind = "connect"
  /\ Continuation = "cleaned" => Running.kind = "cleanup"
  /\ Continuation \in {"done", "ended", "stopListener"} =>
       ~(Running.kind \in Lifecycle /\ IsCurrent)

(* Why Supervised and UnwantedIsQuiet survive every step: at most one attempt or
   cleanup is not overtaken; a client is heard beside it only once it is the
   running attempt's own session, which is heard until the attempt is overtaken;
   a teardown that is not overtaken is one the user asked for. *)
OneAttempt ==
  /\ RunsItsProgram
  /\ \A i, j \in 1..Len(queue) :
       /\ queue[i].kind \in Lifecycle /\ queue[i].current
       /\ queue[j].kind \in Lifecycle /\ queue[j].current
       => i = j
  /\ \A i \in 1..Len(queue) :
       queue[i].current =>
         /\ queue[i].kind \in Lifecycle /\ clientCurrent => i = 1 /\ SessionInHand
         /\ queue[i].kind = "disconnect" => disconnectRequested
         /\ queue[i].kind = "dispose" => disposed
  /\ SessionInHand => /\ clientCurrent <=> IsCurrent
                      /\ IsCurrent => client = run.session

(* No SSH session is lost track of: one that is open is the client in use, is in
   the hands of the running mutation, or waits for its cleanup; and a new one is
   dialled only when the previous ones are closed. *)
NoLeakedSession ==
  /\ \A c \in open : \/ c = client
                     \/ queue # <<>> /\ at # "idle" /\ c = run.session
                     \/ \E i \in 1..Len(queue) : queue[i].client = c
  /\ at = "dial" => open = {}

(* Connected is true: the session is open and heard, routing is in and the
   listener is up (no late stop of an earlier outage took them down), and no
   connection is left waiting. *)
ConnectedIsServed ==
  status = "Connected" =>
    /\ client \in open /\ clientCurrent
    /\ systemRoutingApplied
    /\ socksProxy
    /\ waiters = {}

(* The adapter is up for somebody: the flags that make a teardown stop it are set, or
   the running mutation has its start, or its stop, in hand. *)
AdapterInHand ==
  \/ tunRoutingActive \/ tunStartAttempted
  \/ at = "tunRestore"
  \/ at \in {"stop", "tunStop"} /\ run.stopsTun

(* What points the machine at the listener is always known to be in place, so
   that whoever ends the session takes it down: the proxy setting, the adapter the
   controller takes for up, and the adapter that really is.  The code breaks the last
   in one way, which forgotten marks: the helper dies during a start, which clears the
   flags, and the start is given up on although the next helper finishes it. *)
MachineRoutingIsOwned ==
  /\ systemProxy = "listener" => systemRoutingApplied \/ at = "stop"
  /\ active => AdapterInHand
  /\ adapter => AdapterInHand \/ forgotten

(* The machine is never pointed at a listener that is gone. *)
RoutedHasListener ==
  systemProxy = "listener" \/ tunRoutingActive => socksProxy

(* While Connected and at rest the machine's traffic is really routed, by the
   proxy setting or by a live adapter, whatever died or changed on the way. *)
NoSilentBypass ==
  status = "Connected" /\ queue = <<>> =>
    systemProxy = "listener" \/ (tunRoutingActive /\ active)

(* Routing held without a session has a deadline: the hold timer, the stop of
   the expired hold, or a mutation that ends in one of them or stops routing. *)
HeldRoutingHasDeadline ==
  systemRoutingApplied /\ client = NoClient /\ ~disconnectRequested =>
    \/ holdTimer
    \/ Pending({"holdStop", "stopRouting", "connect"})
    \/ \E i \in 1..Len(queue) :
         queue[i].kind = "cleanup" /\ queue[i].current /\ ~queue[i].retryable

(* A parked connection is answered: a session is still wanted, or the stop of
   the listener that refuses it is queued (or owed, after beginDisconnect). *)
ParkedIsAnswered ==
  waiters # {} =>
    /\ socksProxy
    /\ Wanted \/ disconnectRequested \/ Pending({"stopRouting"})

(* Disconnected at rest means that nothing of the session is left: no session, no
   routing, no adapter, no listener.  What the code does leave is a forgotten adapter
   and a listener that was still binding when clearError looked for one (unwatched). *)
DisconnectedIsDirect ==
  status = "Disconnected" /\ queue = <<>> =>
    /\ open = {} /\ client = NoClient
    /\ systemProxy = "direct" /\ ~systemRoutingApplied
    /\ ~tunRoutingActive /\ ~active /\ (adapter => forgotten)
    /\ waiters = {} /\ (socksProxy => unwatched)

(* Credentials the server rejected are presented again by themselves only after
   they worked in this session, and fewer than MaxAuthFailures times running. *)
RejectedCredentialsAreNotReplayed ==
  consecutiveAuthFailures > 0 /\ Wanted =>
    sessionEstablished /\ consecutiveAuthFailures < MaxAuthFailures

(* The reconnect loop of live-ssh-service.ts accounts for every attempt: a wanted
   session is being tried for, one that was ended or halted is never brought back
   by what is still in flight, and no two attempts are under way. *)
AttemptsAreAccounted == Supervised /\ UnwantedIsQuiet /\ OneAttempt

(* A session is accounted for: an open one is never forgotten, the one called
   Connected is there and is served, a parked connection has its answer, and
   rejected credentials are not tried for ever. *)
SessionIsAccounted ==
  /\ NoLeakedSession /\ ConnectedIsServed
  /\ ParkedIsAnswered /\ RejectedCredentialsAreNotReplayed

(* The machine's traffic is where the status says: routed to a listener that is up
   while a session is wanted, never beside the tunnel unnoticed, and direct once
   the session has ended, but for what MachineRoutingIsOwned and DisconnectedIsDirect
   name. *)
TrafficIsWhereItSays ==
  /\ MachineRoutingIsOwned /\ RoutedHasListener
  /\ NoSilentBypass /\ DisconnectedIsDirect

-----------------------------------------------------------------------------
(* Liveness, once the user leaves the service alone *)

UserQuiet == <>[][UserStep => OwedDisconnect]_vars

(* A disconnect comes to its end, whatever it interrupted. *)
DisconnectEnds ==
  UserQuiet => (status = "Disconnecting" ~> status # "Disconnecting")

(* An outage ends: a session is back or the machine is on direct routing. *)
OutageEnds ==
  UserQuiet => (systemRoutingApplied /\ client = NoClient
                  ~> ~systemRoutingApplied \/ client # NoClient)

(* A wanted session is tried for until it is up or given up. *)
KeepsTrying ==
  UserQuiet => (Wanted ~> ~Wanted \/ at = "dial" \/ status = "Connected")

(* The service never rests halfway: a disconnect and an outage end, and a wanted
   session is tried for. *)
SessionSettles == DisconnectEnds /\ OutageEnds /\ KeepsTrying

=============================================================================
