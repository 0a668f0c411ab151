----------------------------- MODULE XrayService -----------------------------
(***************************************************************************)
(* The Xray transport: service/xray-service.ts and xray/process-utils.ts.  *)
(*                                                                         *)
(* Every change of the machine runs as a mutation, one at a time, in the   *)
(* order it was queued; the events that overtake it (Xray exits, the user  *)
(* disconnects, the adapter stops, a timer fires) happen between any two   *)
(* of its awaits.  A mutation is the sequence of its remaining steps: each *)
(* action runs the first one, up to the await that ends it.                *)
(*                                                                         *)
(* Generation counters are kept as the answers to the comparisons made     *)
(* with them: "life" of a mutation is its isCurrentLifecycle, "fresh" its  *)
(* comparison with processRoutingGeneration.  The two inbounds of Xray are *)
(* one port, 0 stands for none, and a set of rules is the part of it Xray  *)
(* reads only at its start.                                                *)
(***************************************************************************)
EXTENDS Integers, Sequences, FiniteSets

CONSTANTS Ports,     \* loopback ports
          RuleSets,  \* what Xray's own configuration can carry
          MaxStops,  \* MAXIMUM_TUN_UNEXPECTED_STOPS
          MaxAsks,   \* bound: connects, disconnects and updates asked for
          MaxExits,  \* bound: Xray processes and adapters that stop on their own
          MaxTroubles \* bound: starts, applies and teardowns that fail, and ports another
                      \* program binds, together

Listener == -1  \* the proxy setting points at the routing listener

VARIABLES
    state, ended, disposed, \* status.state, disconnectRequested, disposed
    owed,                   \* beginDisconnect was called, its disconnect is on its way
    timer,                  \* reconnectTimer
    queue, job,             \* mutations waiting, and the one that runs
    proc, mine, live,       \* the child; it is this.process; its generation is current
    carries, rules,         \* runningLocalRuleOverrides, and what is asked for
    inbound,                \* socksEndpoint and httpEndpoint
    owner, remembered,      \* who listens on a port; preferredXrayInboundPorts
    held, heldAt, clock,    \* routingHeld, heldRoutingEndpoints, routingHoldTimer
    bound,                  \* heldInboundPorts
    tun,                    \* the request asks for the adapter
    adapter,                \* where the helper's adapter sends flows
    active, attempted,      \* tunRoutingActive, tunStartAttempted
    stops,                  \* tunUnexpectedStops
    listener, proxy,        \* the routing listener's upstream; the Windows proxy
    monitor,                \* processRoutingMonitor
    stuck,                  \* history: a teardown failed and left the adapter or the proxy
    unapplied,              \* history: an apply failed
    forgotten,              \* history: the adapter is one no stop is owed for any more
    stray,                  \* history: routing pointed here when Xray ended under the hold
                            \* of another port
    asks, exits, taken, faults

session == <<state, ended, disposed, owed, timer>>
child == <<proc, mine, live, carries>>
hold == <<held, heldAt, clock, stray>>
tunnel == <<adapter, active, attempted, stops, forgotten>>
paths == <<tunnel, listener, proxy>>
world == <<asks, exits, taken>>
trouble == <<faults, stuck, unapplied>>
fixed == <<rules, tun>>
vars == <<session, queue, job, child, fixed, inbound, owner, remembered, hold, bound, paths, monitor,
          world, trouble>>

Idle == [kind |-> "none", life |-> FALSE, fresh |-> FALSE, aborted |-> FALSE, restart |-> FALSE,
         port |-> 0, todo |-> <<>>]
Mutation(kind, restart) ==
    [kind |-> kind, life |-> TRUE, restart |-> restart]
Kinds == {"connect", "disconnect", "clear", "failure", "expire", "adapter", "update", "refresh"}

\* The session, its queue, the ports and the hold have the shapes the code gives
\* them.
TypeOK ==
    /\ state \in {"Disconnected", "Connecting", "Connected", "Disconnecting", "Error", "Reconnecting"}
    /\ {ended, disposed, owed, timer, mine, live, held, clock, active, attempted, tun, stuck, unapplied, forgotten} \subseteq BOOLEAN
    /\ proc \in {"none", "starting", "up", "dead"}
    /\ \A i \in DOMAIN queue : queue[i].kind \in Kinds
    /\ owner \in [Ports -> {"free", "xray", "held", "other"}]
    /\ {inbound, remembered, heldAt, bound, adapter, listener, stray} \subseteq Ports \cup {0}
    /\ proxy \in Ports \cup {0, Listener}
    /\ monitor \in {"off", "armed", "queued"}

Init ==
    /\ state = "Disconnected" /\ ended = FALSE /\ disposed = FALSE /\ owed = FALSE /\ timer = FALSE
    /\ queue = <<>> /\ job = Idle
    /\ proc = "none" /\ mine = FALSE /\ live = FALSE
    /\ rules \in RuleSets /\ carries = rules /\ tun \in BOOLEAN
    /\ inbound = 0 /\ owner = [p \in Ports |-> "free"] /\ remembered = 0
    /\ held = FALSE /\ heldAt = 0 /\ clock = FALSE /\ bound = 0
    /\ adapter = 0 /\ active = FALSE /\ attempted = FALSE /\ stops = 0
    /\ listener = 0 /\ proxy = 0 /\ monitor = "off"
    /\ asks = 0 /\ exits = 0 /\ taken = 0 /\ faults = 0
    /\ stuck = FALSE /\ unapplied = FALSE /\ forgotten = FALSE /\ stray = 0

Trouble == faults + taken < MaxTroubles
Fault == Trouble /\ faults' = faults + 1 /\ UNCHANGED <<stuck, unapplied>>
Sticks == Trouble /\ faults' = faults + 1 /\ stuck' = TRUE /\ UNCHANGED unapplied
Refuses == Trouble /\ faults' = faults + 1 /\ unapplied' = TRUE /\ UNCHANGED stuck
NoFault == UNCHANGED trouble
Ask == asks < MaxAsks /\ asks' = asks + 1 /\ UNCHANGED <<exits, taken>>

\* lifecycleGeneration += 1.  A hold has a generation of its own, and so does
\* process discovery.
Overtake(q) ==
    [i \in DOMAIN q |-> IF q[i].kind \in {"expire", "refresh"} THEN q[i] ELSE [q[i] EXCEPT !.life = FALSE]]
Forget(q, kind) == [i \in DOMAIN q |-> IF q[i].kind = kind THEN [q[i] EXCEPT !.life = FALSE] ELSE q[i]]

\* isRoutingApplicable
Applicable == state \in {"Connecting", "Connected"}
Overtaken == ~job.fresh \/ ~Applicable

-----------------------------------------------------------------------------
(* What overtakes a mutation.                                               *)

\* startConnect
startConnect(q, restart) ==
    /\ timer' = FALSE /\ ended' = FALSE
    /\ state' = "Connecting"
    /\ queue' = Append(Forget(Overtake(q), "update"), Mutation("connect", restart))
    /\ live' = FALSE

connect ==
    /\ Ask /\ ~disposed /\ ~owed
    /\ stops' = 0
    /\ startConnect(queue, FALSE)
    /\ job' = [job EXCEPT !.life = FALSE]
    /\ UNCHANGED <<disposed, owed, proc, mine, carries, fixed, inbound, owner, remembered, hold, bound,
                   adapter, active, attempted, forgotten, listener, proxy, monitor, trouble>>

\* endSessionNow
endSessionNow ==
    /\ ended' = TRUE /\ timer' = FALSE /\ state' = "Disconnecting" /\ live' = FALSE
    /\ job' = [job EXCEPT !.life = FALSE, !.aborted = job # Idle]

\* beginDisconnect, which main calls before it queues the disconnect.
beginDisconnect ==
    /\ Ask /\ ~disposed /\ ~owed /\ state \in {"Connecting", "Reconnecting", "Connected"}
    /\ endSessionNow /\ owed' = TRUE
    /\ queue' = Overtake(queue)
    /\ UNCHANGED <<disposed, proc, mine, carries, fixed, inbound, owner, remembered, hold, bound, paths,
                   monitor, trouble>>

\* disconnect, and dispose, which also gives up the adapter for good.
disconnect ==
    /\ \/ Ask /\ UNCHANGED disposed
       \/ owed /\ UNCHANGED <<world, disposed>>
       \/ disposed' = TRUE /\ UNCHANGED world
    /\ ~disposed
    /\ endSessionNow /\ owed' = FALSE
    /\ queue' = Append(Overtake(queue), Mutation("disconnect", FALSE))
    /\ UNCHANGED <<proc, mine, carries, fixed, inbound, owner, remembered, hold, bound, paths, monitor,
                   trouble>>

\* clearError
clearError ==
    /\ ~disposed /\ state = "Error"
    /\ ended' = TRUE /\ timer' = FALSE /\ state' = "Disconnected" /\ live' = FALSE
    /\ job' = [job EXCEPT !.life = FALSE, !.aborted = job # Idle]
    /\ queue' = IF held THEN Append(Overtake(queue), Mutation("clear", FALSE)) ELSE Overtake(queue)
    /\ UNCHANGED <<disposed, owed, proc, mine, carries, fixed, inbound, owner, remembered, hold, bound,
                   paths, monitor, world, trouble>>

\* updateRouting and updateRoutingRules
updateRouting ==
    /\ Ask /\ ~disposed
    /\ rules' \in RuleSets
    /\ queue' = Append(Forget(queue, "update"), Mutation("update", FALSE))
    /\ UNCHANGED <<session, job, child, tun, inbound, owner, remembered, hold, bound, paths, monitor,
                   trouble>>

\* The restart timer fires, or wake brings it forward.
wake ==
    /\ timer /\ ~disposed /\ ~ended
    /\ startConnect(queue, TRUE)
    /\ job' = [job EXCEPT !.life = FALSE]
    /\ UNCHANGED <<disposed, owed, proc, mine, carries, fixed, inbound, owner, remembered, hold, bound,
                   paths, monitor, world, trouble>>

\* Xray exits.
Exits ==
    /\ proc = "up" /\ exits < MaxExits /\ exits' = exits + 1
    /\ proc' = "dead"
    /\ owner' = [p \in Ports |-> IF owner[p] = "xray" THEN "free" ELSE owner[p]]
    /\ UNCHANGED <<session, queue, job, mine, live, carries, fixed, inbound, remembered, hold, bound,
                   paths, monitor, asks, taken, trouble>>

\* The port of an Xray that ends under the hold of another port: the hold keeps
\* the one it was begun with.
Strays == IF held /\ inbound \notin {0, heldAt} THEN inbound ELSE stray

\* holdRouting.  A hold that is on keeps its deadline and what it points at.
holdRouting ==
    /\ heldAt' = IF held THEN heldAt ELSE inbound
    /\ held' = TRUE
    /\ clock' = IF held THEN clock ELSE TRUE
    /\ monitor' = "off"

InStartup == job.todo # <<>> /\ Head(job.todo) = "startup"

\* handleXrayClose and handleXrayFailure: an exit during startup is the startup's
\* to report; a spawn that fails is reported at once.
handleXrayFailure ==
    /\ mine /\ live
    /\ \/ proc = "dead" /\ ~InStartup /\ NoFault
       \/ proc = "starting" /\ InStartup /\ Fault
    /\ holdRouting
    /\ stray' = Strays
    /\ mine' = FALSE /\ live' = FALSE /\ inbound' = 0
    /\ proc' = "dead"
    /\ timer' = FALSE /\ state' = "Error"
    /\ queue' = Append(Forget(Overtake(queue), "refresh"), Mutation("failure", FALSE))
    /\ job' = [job EXCEPT !.life = FALSE, !.fresh = FALSE]
    /\ UNCHANGED <<ended, disposed, owed, carries, fixed, owner, remembered, bound, paths, world>>

\* The hold's deadline.
HoldExpires ==
    /\ clock /\ clock' = FALSE
    /\ queue' = IF disposed THEN queue ELSE Append(queue, Mutation("expire", FALSE))
    /\ UNCHANGED <<session, job, child, fixed, inbound, owner, remembered, held, heldAt, stray, bound, paths,
                   monitor, world, trouble>>

\* handleDataplaneUnexpectedStop
handleDataplaneUnexpectedStop ==
    /\ adapter # 0 /\ exits < MaxExits /\ exits' = exits + 1
    /\ adapter' = 0 /\ forgotten' = FALSE
    /\ IF disposed \/ (~active /\ ~attempted)
       THEN UNCHANGED <<active, attempted, stops, queue>>
       ELSE /\ active' = FALSE /\ attempted' = FALSE
            /\ stops' = IF stops < MaxStops THEN stops + 1 ELSE stops
            /\ queue' = Append(queue, Mutation("adapter", FALSE))
    /\ UNCHANGED <<session, job, child, fixed, inbound, owner, remembered, hold, bound, listener, proxy,
                   monitor, asks, taken, trouble>>

\* Process discovery asks for a refresh.
MonitorDue ==
    /\ monitor = "armed" /\ Applicable
    /\ monitor' = "queued"
    /\ queue' = Append(queue, Mutation("refresh", FALSE))
    /\ UNCHANGED <<session, job, child, fixed, inbound, owner, remembered, hold, bound, paths, world,
                   trouble>>

\* Another program binds a port nobody has.
Taken(p) ==
    /\ owner[p] = "free" /\ Trouble /\ taken' = taken + 1
    /\ owner' = [owner EXCEPT ![p] = "other"]
    /\ UNCHANGED <<session, queue, job, child, fixed, inbound, remembered, hold, bound, paths, monitor,
                   asks, exits, trouble>>

-----------------------------------------------------------------------------
(* Mutations: what each one will do is decided when its turn comes.         *)

stopRouting == <<"unroute", "settle">>
applySystemRouting == <<"tun", "path">>

\* restartForLocalRuleChange: only the proxy path enters Xray's HTTP inbound.
NeedsRestart ==
    mine /\ state = "Connected" /\ ~active /\ listener = 0 /\ carries # rules

\* The steps of a mutation, when it is still wanted.
Steps(m) ==
    CASE m.kind = "connect" ->
            IF ~m.life THEN <<>>
            ELSE (IF m.restart /\ held THEN <<>> ELSE stopRouting) \o <<"kill", "occupy", "exec">>
      [] m.kind = "disconnect" -> IF m.life THEN stopRouting \o <<"reap", "ended">> ELSE <<>>
      [] m.kind \in {"clear", "expire"} ->
            IF m.life /\ held /\ ~disposed THEN stopRouting ELSE <<>>
      [] m.kind = "failure" ->
            (IF held THEN <<>> ELSE stopRouting) \o <<"reap", "reoccupy", "resched">>
      [] m.kind = "adapter" ->
            IF ~m.life \/ disposed THEN <<>>
            ELSE IF held THEN stopRouting
            ELSE IF state = "Connected" /\ inbound # 0 THEN applySystemRouting \o <<"rules">> ELSE <<>>
      [] m.kind = "update" ->
            IF m.life /\ ~disposed /\ state = "Connected" /\ inbound # 0
            THEN IF NeedsRestart THEN <<"rules">> ELSE applySystemRouting \o <<"rules">>
            ELSE <<>>
      [] m.kind = "refresh" -> IF m.life /\ state = "Connected" THEN <<"refresh">> ELSE <<"rearm">>

Take ==
    /\ job.todo = <<>> /\ queue # <<>>
    /\ queue' = Tail(queue)
    /\ LET m == Head(queue)
           todo == Steps(m)
       IN /\ job' = IF todo = <<>> THEN Idle
                    ELSE [Idle EXCEPT !.kind = m.kind, !.life = m.life, !.restart = m.restart,
                                      !.port = inbound, !.todo = todo]
          /\ mine' = IF m.kind = "disconnect" /\ m.life THEN FALSE ELSE mine
          /\ IF m.kind = "disconnect" /\ disposed THEN adapter' = 0 /\ forgotten' = FALSE
             ELSE UNCHANGED <<adapter, forgotten>>
    /\ UNCHANGED <<session, proc, live, carries, fixed, inbound, owner, remembered, hold, bound, active,
                   attempted, stops, listener, proxy, monitor, world, trouble>>

At(step) == job.todo # <<>> /\ Head(job.todo) = step
Goes(todo) == job' = IF todo = <<>> THEN Idle ELSE [job EXCEPT !.todo = todo]
Rest == Tail(job.todo)

\* cleanupProcessResources begins before the next await.
Leaves == job'.todo # <<>> /\ Head(job'.todo) = "cleanup"

-----------------------------------------------------------------------------
(* stopRouting, step by step.                                               *)

\* The adapter, the listener and the proxy setting, in this order; each may fail
\* and the next is stopped all the same.  The hold is over before the first.
Unroute ==
    /\ At("unroute")
    /\ held' = FALSE /\ clock' = FALSE /\ heldAt' = 0 /\ stray' = 0
    /\ monitor' = "off"
    /\ queue' = Forget(Forget(queue, "refresh"), "expire")
    /\ active' = FALSE /\ attempted' = FALSE /\ listener' = 0
    /\ \/ /\ adapter' = IF active \/ attempted THEN 0 ELSE adapter
          /\ proxy' = 0
          /\ NoFault
       \/ /\ adapter' \in {adapter, IF active \/ attempted THEN 0 ELSE adapter}
          /\ proxy' \in {proxy, 0}
          /\ adapter' # 0 \/ proxy' # 0
          /\ Sticks
    /\ forgotten' = (forgotten /\ adapter' # 0)
    /\ Goes(Rest)
    /\ UNCHANGED <<session, child, fixed, inbound, owner, remembered, bound, stops, world>>

\* stopTunRouting
stopTunRouting ==
    /\ At("tunOff")
    /\ active' = FALSE /\ attempted' = FALSE
    /\ IF active \/ attempted
       THEN (adapter' = 0 /\ NoFault) \/ (Sticks /\ UNCHANGED adapter)
       ELSE UNCHANGED <<adapter, trouble>>
    /\ forgotten' = (forgotten /\ adapter' # 0)
    /\ Goes(Rest)
    /\ UNCHANGED <<session, queue, child, fixed, inbound, owner, remembered, hold, bound, stops, listener,
                   proxy, monitor, world>>

\* releaseHeldPorts: last of all in stopRouting, first of all in a start.
releaseHeldPorts ==
    /\ At("settle") \/ At("release")
    /\ bound' = 0
    /\ owner' = [p \in Ports |-> IF p = bound THEN "free" ELSE owner[p]]
    /\ inbound' = IF At("settle") THEN 0 ELSE inbound
    /\ Goes(Rest)
    /\ UNCHANGED <<session, queue, child, fixed, remembered, hold, paths, monitor, world, trouble>>

\* stopXrayProcess and terminateProcess
stopXrayProcess ==
    /\ At("reap") \/ (At("kill") /\ job.life)
    /\ proc' = "none" /\ mine' = FALSE /\ live' = FALSE
    /\ owner' = [p \in Ports |-> IF owner[p] = "xray" THEN "free" ELSE owner[p]]
    /\ Goes(Rest)
    /\ UNCHANGED <<session, queue, carries, fixed, inbound, remembered, hold, bound, paths, monitor, world,
                   trouble>>

\* disconnectInternal, once everything is down.
Disconnected ==
    /\ At("ended")
    /\ state' = IF job.life THEN "Disconnected" ELSE state
    /\ Goes(Rest)
    /\ UNCHANGED <<ended, disposed, owed, timer, queue, child, fixed, inbound, owner, remembered, hold,
                   bound, paths, monitor, world, trouble>>

\* occupyHeldPorts: a port that cannot be bound ends the hold.
occupyHeldPorts ==
    /\ At("reoccupy") \/ (At("occupy") /\ job.life)
    /\ IF ~held \/ disposed \/ bound # 0 \/ heldAt = 0
       THEN Goes(Rest) /\ UNCHANGED <<owner, bound>>
       ELSE IF owner[heldAt] = "free"
       THEN bound' = heldAt /\ owner' = [owner EXCEPT ![heldAt] = "held"] /\ Goes(Rest)
       ELSE Goes(stopRouting \o Rest) /\ UNCHANGED <<owner, bound>>
    /\ UNCHANGED <<session, queue, child, fixed, inbound, remembered, hold, paths, monitor, world, trouble>>

-----------------------------------------------------------------------------
(* connectInternal.                                                         *)

\* A connect that is overtaken returns at its next check.
ReturnOvertaken ==
    /\ At("kill") \/ At("occupy") \/ At("exec") \/ At("spawn")
    /\ ~job.life
    /\ job' = Idle
    /\ UNCHANGED <<session, queue, child, fixed, inbound, owner, remembered, hold, bound, paths, monitor,
                   world, trouble>>

\* The catch of connectInternal; "blocked" is XrayRestartBlockedError.
Catch(blocked) == <<"cleanup", IF blocked THEN "blocked" ELSE "recover">>

\* requireExecutablePath, the version, and the ports.
requireExecutablePath ==
    /\ At("exec") /\ job.life
    /\ \/ Goes(<<"release", "reserve">>) /\ NoFault
       \/ Goes(Catch(TRUE)) /\ Fault
    /\ UNCHANGED <<session, queue, child, fixed, inbound, owner, remembered, hold, bound, paths, monitor,
                   world>>

\* reserveDistinctLocalTcpPorts: the remembered port when it is free.
reserveDistinctLocalTcpPorts ==
    /\ At("reserve")
    /\ \/ \E p \in Ports :
            /\ owner[p] = "free"
            /\ remembered # 0 /\ owner[remembered] = "free" => p = remembered
            /\ job' = [job EXCEPT !.port = p, !.todo = <<"spawn">>]
       \/ (\A p \in Ports : owner[p] # "free") /\ Goes(Catch(FALSE))
    /\ UNCHANGED <<session, queue, child, fixed, inbound, owner, remembered, hold, bound, paths, monitor,
                   world, trouble>>

\* buildXrayConfig and spawn
Spawn ==
    /\ At("spawn") /\ job.life
    /\ \/ /\ NoFault
          /\ proc' = "starting" /\ mine' = TRUE /\ live' = TRUE /\ carries' = rules
          /\ Goes(<<"startup">>)
       \/ Fault /\ Goes(Catch(TRUE)) /\ UNCHANGED child
    /\ UNCHANGED <<session, queue, fixed, inbound, owner, remembered, hold, bound, paths, monitor, world>>

\* waitForProcessStartup.  Xray exits when it cannot bind; a start that was
\* overtaken is no longer waited for.  An exit on the remembered port forgets it.
waitForProcessStartup ==
    /\ At("startup")
    /\ \/ /\ proc = "starting" /\ owner[job.port] = "free" /\ NoFault
          /\ proc' = "up" /\ owner' = [owner EXCEPT ![job.port] = "xray"]
          /\ remembered' = job.port
          /\ IF job.life /\ mine
             THEN inbound' = job.port /\ Goes(applySystemRouting \o <<"finish">>)
             ELSE Goes(<<"cleanup">>) /\ UNCHANGED inbound
       \/ /\ proc = "dead" \/ owner[job.port] # "free"
          /\ proc' = "dead" /\ NoFault
          /\ remembered' = IF remembered = job.port THEN 0 ELSE remembered
          /\ \E blocked \in BOOLEAN : Goes(Catch(blocked))
          /\ UNCHANGED <<owner, inbound>>
       \/ /\ proc = "starting" /\ ((NoFault /\ ~job.life) \/ Fault)
          /\ Goes(Catch(FALSE))
          /\ UNCHANGED <<proc, owner, remembered, inbound>>
    /\ mine' = (mine /\ ~Leaves)
    /\ UNCHANGED <<session, queue, live, carries, fixed, hold, bound, paths, monitor, world>>

\* cleanupProcessResources: a hold stays for its deadline or the next attempt.
cleanupProcessResources ==
    /\ At("cleanup")
    /\ mine' = FALSE
    /\ IF held
       THEN /\ inbound' = 0 /\ monitor' = "off" /\ queue' = Forget(queue, "refresh")
            /\ stray' = Strays
            /\ Goes(<<"reap">> \o Rest)
       ELSE Goes(stopRouting \o <<"reap">> \o Rest) /\ UNCHANGED <<inbound, monitor, queue, stray>>
    /\ UNCHANGED <<session, proc, live, carries, fixed, owner, remembered, held, heldAt, clock, bound,
                   paths, world, trouble>>

\* The end of the catch: another attempt later, or Error.
Recover ==
    /\ At("recover") \/ At("blocked")
    /\ IF ~job.life THEN job' = Idle /\ UNCHANGED state
       ELSE IF job.restart /\ ~ended /\ At("recover")
       THEN Goes(<<"reoccupy", "resched">>) /\ UNCHANGED state
       ELSE IF job.restart /\ held
       THEN Goes(stopRouting \o job.todo) /\ UNCHANGED state
       ELSE state' = "Error" /\ job' = Idle
    /\ UNCHANGED <<ended, disposed, owed, timer, queue, child, fixed, inbound, owner, remembered, hold,
                   bound, paths, monitor, world, trouble>>

\* scheduleReconnect
scheduleReconnect ==
    /\ At("resched")
    /\ IF job.life /\ ~disposed /\ ~ended /\ ~timer
       THEN timer' = TRUE /\ state' = "Reconnecting"
       ELSE UNCHANGED <<timer, state>>
    /\ Goes(Rest)
    /\ UNCHANGED <<ended, disposed, owed, queue, child, fixed, inbound, owner, remembered, hold, bound,
                   paths, monitor, world, trouble>>

\* Routing points at this process: whatever was held is taken over.
Finish ==
    /\ At("finish")
    /\ IF job.life /\ mine
       THEN /\ held' = FALSE /\ clock' = FALSE /\ heldAt' = 0 /\ stray' = 0
            /\ queue' = Forget(queue, "expire")
            /\ state' = "Connected"
            /\ Goes(Rest)
       ELSE Goes(<<"cleanup">>) /\ UNCHANGED <<hold, queue, state>>
    /\ mine' = (mine /\ ~Leaves)
    /\ UNCHANGED <<ended, disposed, owed, timer, proc, live, carries, fixed, inbound, owner, remembered, bound, paths,
                   monitor, world, trouble>>

-----------------------------------------------------------------------------
(* applySystemRouting.  An apply that fails fails its mutation.             *)

Throws == Goes(IF job.kind = "connect" THEN Catch(FALSE) ELSE <<>>)

\* applyTunRouting up to the start: discovery stops, an adapter that cannot be
\* used comes down before the proxy path goes on top of it.
applyTunRouting ==
    /\ At("tun")
    /\ monitor' = "off" /\ queue' = Forget(queue, "refresh")
    /\ \E todo \in (IF ~tun THEN {Rest}
                    ELSE IF stops >= MaxStops THEN {<<"tunOff">> \o Rest}
                    ELSE {<<"tunStart">> \o Rest, <<"tunOff">> \o Rest}) :
          job' = [job EXCEPT !.todo = todo, !.fresh = TRUE, !.port = inbound]
    /\ attempted' = (attempted \/ Head(job'.todo) = "tunStart")
    /\ forgotten' = (forgotten /\ ~attempted')
    /\ UNCHANGED <<session, child, fixed, inbound, owner, remembered, hold, bound, adapter, active, stops,
                   listener, proxy, world, trouble>>

\* startDataplaneWithRetry: a start given up on may still finish in the helper.
\* When the adapter stopped while it was being started again, no stop is owed for
\* it any more, and that adapter stays (as in the SSH transport).
StartTun ==
    /\ At("tunStart")
    /\ \/ NoFault /\ adapter' = job.port
          /\ forgotten' = FALSE
          /\ Goes(<<"tunDone">> \o Tail(Rest))
       \/ /\ \/ job.aborted /\ UNCHANGED faults
             \/ Trouble /\ faults' = faults + 1
          /\ UNCHANGED <<stuck, unapplied>>
          /\ adapter' \in {adapter, job.port}
          /\ forgotten' = (adapter' # 0 /\ ~attempted)
          /\ IF Overtaken \/ job.aborted THEN Goes(Rest) ELSE Goes(<<"tunOff">> \o Rest)
    /\ UNCHANGED <<session, queue, child, fixed, inbound, owner, remembered, hold, bound, active, attempted,
                   stops, listener, proxy, monitor, world>>

\* The adapter decides now: the listener and the proxy setting are given back.
TunDone ==
    /\ At("tunDone")
    /\ active' = TRUE
    /\ listener' = 0
    /\ (proxy' = 0 /\ NoFault) \/ (proxy # 0 /\ Sticks /\ UNCHANGED proxy)
    /\ Goes(Rest)
    /\ UNCHANGED <<session, queue, child, fixed, inbound, owner, remembered, hold, bound, adapter, attempted,
                   stops, forgotten, monitor, world>>

\* The fallback: the routing listener where connections can be attributed, or
\* the Windows proxy straight at Xray.
ChoosePath ==
    /\ At("path")
    /\ IF Overtaken THEN Goes(Rest)
       ELSE Goes(<<"listen", "viaListener">> \o Rest) \/ Goes(<<"direct">> \o Rest)
    /\ UNCHANGED <<session, queue, child, fixed, inbound, owner, remembered, hold, bound, paths, monitor,
                   world, trouble>>

\* startLocalProxy: a listener that runs is pointed at Xray in place.  One that
\* cannot start ends the apply.
startLocalProxy ==
    /\ At("listen")
    /\ \/ listener' = job.port /\ Goes(Rest) /\ NoFault
       \/ listener = 0 /\ Refuses /\ UNCHANGED listener /\ Goes(Tail(Rest))
    /\ UNCHANGED <<session, queue, child, fixed, inbound, owner, remembered, hold, bound, tunnel, proxy,
                   monitor, world>>

\* systemProxy.apply, for the listener or for Xray's own inbound.
ApplyProxy ==
    /\ \/ At("viaListener") \/ At("direct")
    /\ listener' = IF At("direct") THEN 0 ELSE listener
    /\ IF At("viaListener") /\ Overtaken THEN Goes(Rest) /\ UNCHANGED <<proxy, monitor, trouble>>
       ELSE \/ /\ NoFault
               /\ proxy' = IF At("viaListener") THEN Listener ELSE job.port
               /\ monitor' \in IF At("viaListener") \/ Overtaken THEN {monitor} ELSE {"off", "armed"}
               /\ Goes(Rest)
            \/ Refuses /\ Throws /\ UNCHANGED <<proxy, monitor>>
    /\ mine' = (mine /\ ~Leaves)
    /\ UNCHANGED <<session, queue, proc, live, carries, fixed, inbound, owner, remembered, hold, bound,
                   tunnel, world>>

\* refreshProcessRouting: the proxy is applied again with what was learned.
refreshProcessRouting ==
    /\ At("refresh") \/ At("rearm")
    /\ \/ At("refresh") /\ NoFault /\ inbound # 0 /\ proxy' = inbound
       \/ At("refresh") /\ Refuses /\ UNCHANGED proxy
       \/ (At("rearm") \/ inbound = 0) /\ NoFault /\ UNCHANGED proxy
    /\ monitor' = IF monitor = "queued" THEN "armed" ELSE monitor
    /\ Goes(Rest)
    /\ UNCHANGED <<session, queue, child, fixed, inbound, owner, remembered, hold, bound, tunnel, listener,
                   world>>

\* Mutant: a change of the rules Xray reads at its start is never caught up with.
restartNever ==
    /\ At("rules")
    /\ Goes(Rest)
    /\ UNCHANGED <<session, queue, child, fixed, inbound, owner, remembered, hold, bound, paths, monitor,
                   world, trouble>>

\* restartForLocalRuleChange, before and after an apply: routing is held while
\* Xray is started again with the rules it reads at its start.
restartForLocalRuleChange ==
    /\ At("rules")
    /\ IF NeedsRestart
       THEN /\ holdRouting
            /\ startConnect(Forget(queue, "refresh"), TRUE)
            /\ UNCHANGED stray
       ELSE UNCHANGED <<hold, monitor, timer, ended, state, queue, live>>
    /\ Goes(Rest)
    /\ UNCHANGED <<disposed, owed, proc, mine, carries, fixed, inbound, owner, remembered, bound, paths,
                   world, trouble>>

Next ==
    \/ connect \/ beginDisconnect \/ disconnect \/ clearError \/ updateRouting \/ wake
    \/ Exits \/ handleXrayFailure \/ HoldExpires \/ handleDataplaneUnexpectedStop \/ MonitorDue
    \/ \E p \in Ports : Taken(p)
    \/ Take \/ Unroute \/ stopTunRouting \/ releaseHeldPorts
    \/ stopXrayProcess \/ Disconnected \/ occupyHeldPorts \/ ReturnOvertaken
    \/ requireExecutablePath \/ reserveDistinctLocalTcpPorts \/ Spawn \/ waitForProcessStartup
    \/ cleanupProcessResources \/ Recover \/ scheduleReconnect \/ Finish
    \/ applyTunRouting \/ StartTun \/ TunDone \/ ChoosePath \/ startLocalProxy \/ ApplyProxy
    \/ refreshProcessRouting \/ restartForLocalRuleChange

Spec == Init /\ [][Next]_vars

-----------------------------------------------------------------------------
(* Properties.                                                              *)

Quiet == queue = <<>> /\ job = Idle /\ ~owed /\ ~(proc = "dead" /\ mine /\ live)

\* Where the machine's traffic is sent.
Pointed == {adapter, listener, proxy} \ {0, Listener}

\* Once the queue has drained, whatever routing points at is Xray's, or is the
\* port of the hold and bound: it is not free for another program.  There are
\* four exceptions.  A hold knows the port it was begun with only: when its retry
\* has pointed routing at another port and its Xray exits, or the retry fails, before
\* the hold is taken over, that port is free until the hold ends (stray).  The adapter the
\* controller has lost track of stays where it points (forgotten).  An apply that
\* failed after a restart on another port leaves the Windows proxy at the earlier
\* one (unapplied).  And a teardown that failed leaves what it could not take down.
PointedPortsAreKept ==
    Quiet /\ ~stuck =>
        \A p \in Pointed :
            \/ owner[p] \in {"xray", "held"}
            \/ held /\ p = stray
            \/ forgotten /\ p = adapter
            \/ unapplied /\ p = proxy

\* Once the queue has drained an ended session has given everything back: no
\* listener, no child, no held port, no adapter that is not a forgotten one and,
\* unless a teardown failed, no proxy setting.
EndedIsDirect ==
    Quiet /\ state = "Disconnected" =>
        /\ proc = "none" /\ ~held /\ bound = 0 /\ ~timer /\ listener = 0
        /\ ~stuck => (adapter = 0 \/ forgotten) /\ proxy = 0

\* A hold has a deadline: its timer runs, its expiry is queued, or a mutation
\* that ends it or takes it over is on its way.
HoldHasDeadline ==
    held /\ ~disposed => clock \/ queue # <<>> \/ job # Idle

\* A session that is Connected, once the queue has drained, has its Xray, and no
\* hold is left of the outage before; a session on its way has something that
\* will move it on.
ConnectedIsServed ==
    /\ Quiet /\ state = "Connected" =>
         /\ proc = "up" /\ mine /\ owner[inbound] = "xray" /\ ~held /\ bound = 0
         /\ ~stuck /\ ~unapplied /\ ~forgotten =>
                Pointed = {inbound} /\ ~(adapter # 0 /\ proxy # 0)
    /\ state \in {"Connecting", "Disconnecting"} /\ ~owed => queue # <<>> \/ job # Idle
    /\ state = "Reconnecting" => timer \/ queue # <<>> \/ job # Idle

\* Once the queue has drained on the proxy path, Xray runs with the rules it
\* reads only at its start.
LocalRulesAreCurrent ==
    Quiet /\ state = "Connected" /\ ~unapplied /\ ~active /\ proxy \in Ports => carries = rules

\* An outage keeps what was routed to Xray from everyone else, and no longer than
\* its deadline.
OutageIsHeld == PointedPortsAreKept /\ HoldHasDeadline

\* What the status says is what the machine does, once the queue has drained.
StatusIsKept == EndedIsDirect /\ ConnectedIsServed /\ LocalRulesAreCurrent

=============================================================================
