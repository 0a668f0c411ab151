------------------------ MODULE TransportCoordinator ------------------------
(***************************************************************************)
(* How main turns what the user asks for into calls of the two tunnel      *)
(* services: src/src/main/app/transport-mutation-coordinator.ts, the       *)
(* intents, routing changes and quit of src/src/main/main.ts, and          *)
(* quit-deadline.ts.                                                       *)
(*                                                                         *)
(* Operations run one after the other (the promise chain tail); each       *)
(* synchronous segment between two awaits is one action.  The generation   *)
(* only grows and is compared for equality only, so a captured generation  *)
(* is the present one or stale for good: current of an operation.  That it *)
(* is still 0 is by = "nobody".  What an operation captured of the saved   *)
(* routing is likewise still what is saved, or not: fresh.                 *)
(*                                                                         *)
(* The services are external here.  A call of connect or disconnect        *)
(* changes the service's state at once, and its promise resolves, rejects  *)
(* or stays open for as long as it likes.                                  *)
(***************************************************************************)
EXTENDS Naturals, Sequences

CONSTANTS
  MaxQueue,   \* operations callers may have waiting
  MaxSaves    \* routing changes saved whose operation is not queued yet

ASSUME CoordinatorAssumption == MaxQueue \in Nat \ {0} /\ MaxSaves \in Nat \ {0}

VARIABLES
  queue,      \* operations waiting behind the running one
  run,        \* the operation running
  at,         \* the await it has reached; "idle": none is running
  want, by,   \* the latest intent accepted, and whose it is
  stopping,   \* stopAcceptingIntents was called; applicationQuitting
  active,     \* activeTransport
  svc,        \* each service: "off", "on", "ending" or "error"
  owed,       \* told beginDisconnect, and called for nothing since
  failed,     \* the latest intent's operation has rejected
  init,       \* initializeApplicationServices: how far it is
  ready,      \* applicationServicesReady has resolved
  acquired,   \* the SSH service it creates: "no", "used" or "disposed"
  targets,    \* the saved routing has something to route
  saves,      \* routing changes saved and not queued yet
  applied,    \* the active session has the saved routing
  applyFailed,
  outcome,    \* of the quit: "none", "completed" or "deadline"
  exited

intent  == <<want, by, stopping, failed>>
routing == <<targets, saves, applied, applyFailed>>
startup == <<init, ready, acquired>>
quit    == <<outcome, exited>>
vars    == <<queue, run, at, intent, active, svc, owed, startup, routing, quit>>

-----------------------------------------------------------------------------
Tunnels == {"ssh", "xray"}

Other(t) == IF t = "ssh" THEN "xray" ELSE "ssh"

Operations ==
  [op : {"connect", "disconnect", "routing", "dismiss", "cleanup"},
   to : Tunnels, restart : BOOLEAN, auto : BOOLEAN, current : BOOLEAN, fresh : BOOLEAN]

(* An operation as it enters the queue. *)
Operation(op) ==
  [op |-> op, to |-> "ssh", restart |-> FALSE, auto |-> FALSE, current |-> TRUE,
   fresh |-> TRUE]

NoOperation == [Operation("dismiss") EXCEPT !.current = FALSE, !.fresh = FALSE]

Awaits ==
  {"idle", "ready", "replace", "connect", "undo", "remember", "disconnect", "update",
   "drop", "clear", "dispose", "initialized"}

ExecOK ==
  /\ queue \in Seq(Operations) /\ run \in Operations
  /\ at \in Awaits

IntentOK ==
  /\ want \in Tunnels \cup {"nothing", "quit"}
  /\ by \in {"nobody", "user", "launch"}
  /\ stopping \in BOOLEAN /\ failed \in BOOLEAN

ServicesOK ==
  /\ active \in Tunnels
  /\ svc \in [Tunnels -> {"off", "on", "ending", "error"}]
  /\ owed \in SUBSET Tunnels

RestOK ==
  /\ init \in {"creating", "auto", "waiting", "done"}
  /\ ready \in BOOLEAN
  /\ acquired \in {"no", "used", "disposed"}
  /\ targets \in BOOLEAN /\ saves \in 0..MaxSaves
  /\ applied \in BOOLEAN /\ applyFailed \in BOOLEAN
  /\ outcome \in {"none", "completed", "deadline"} /\ exited \in BOOLEAN

(* The values each variable takes. *)
TypeOK == ExecOK /\ IntentOK /\ ServicesOK /\ RestOK

(* The services are being created; nothing has been asked for. *)
Init ==
  /\ queue = <<>> /\ run = NoOperation /\ at = "idle"
  /\ want = "nothing" /\ by = "nobody" /\ stopping = FALSE /\ failed = FALSE
  /\ active = "ssh"
  /\ svc = [t \in Tunnels |-> "off"] /\ owed = {}
  /\ init = "creating" /\ ready = FALSE /\ acquired = "no"
  /\ targets \in BOOLEAN /\ saves = 0 /\ applied = FALSE /\ applyFailed = FALSE
  /\ outcome = "none" /\ exited = FALSE

-----------------------------------------------------------------------------
(* Calls of the services *)

(* Disconnect of the service: a session begins to end, what a beginDisconnect
   announced has come. *)
Ending == [svc EXCEPT ![active] = IF @ = "on" THEN "ending" ELSE @]
CallDisconnect ==
  /\ svc' = Ending
  /\ owed' = owed \ {active}

(* The promise of disconnect resolves, or rejects and may have done it or not. *)
Ended == [svc EXCEPT ![active] = "off"]

(* The attempt has failed: the session ends in the state Error. *)
NotConnected == [svc EXCEPT ![active] = IF @ = "on" THEN "error" ELSE @]

(* setActiveTransport and connect of the service *)
CallConnect(t, before) ==
  /\ active' = t
  /\ svc' = [before EXCEPT ![t] = "on"]
  /\ owed' = owed \ {t}
  /\ applied' = run.fresh /\ applyFailed' = FALSE
  /\ at' = "connect"

-----------------------------------------------------------------------------
(* The queue *)

Overtake(q) == [i \in DOMAIN q |-> [q[i] EXCEPT !.current = FALSE]]

Room == Len(queue) < MaxQueue

(* requestIntent: every operation before it is overtaken. *)
Accept(o) ==
  /\ queue' = Append(Overtake(queue), o)
  /\ run' = [run EXCEPT !.current = FALSE]
  /\ failed' = FALSE
  /\ UNCHANGED stopping

(* The operation has returned; the startup that waited for it goes on. *)
Return ==
  /\ at' = "idle" /\ run' = NoOperation
  /\ init' = IF run.auto /\ init = "waiting" THEN "done" ELSE init

(* The operation has thrown. *)
Reject ==
  /\ Return
  /\ failed' = (failed \/ (run.current /\ run.op # "routing"))
  /\ UNCHANGED <<want, by, stopping>>

(* The operation at the head starts; an overtaken intent returns at once. *)
Begin ==
  /\ ~exited /\ at = "idle" /\ queue # <<>>
  /\ Head(queue).op \in {"connect", "disconnect", "routing"}
  /\ queue' = Tail(queue)
  /\ IF Head(queue).op # "routing" /\ ~Head(queue).current
     THEN /\ UNCHANGED <<at, run>>
          /\ init' = IF Head(queue).auto /\ init = "waiting" THEN "done" ELSE init
     ELSE at' = "ready" /\ run' = Head(queue) /\ UNCHANGED init
  /\ UNCHANGED <<intent, active, svc, owed, ready, acquired, routing, quit>>

-----------------------------------------------------------------------------
(* Intents *)

(* connect, connectProxy: by IPC, tray or notification.  The request is captured
   as the routing is saved now. *)
RequestConnect(t, restart) ==
  /\ ~exited /\ ~stopping /\ targets /\ Room
  /\ Accept([Operation("connect") EXCEPT !.to = t, !.restart = restart])
  /\ want' = t /\ by' = "user"
  /\ UNCHANGED <<at, active, svc, owed, startup, routing, quit>>

(* mutant: the automatic Connect is queued whatever has happened *)
AutoConnectRegardless(t) ==
  /\ ~exited /\ init = "auto" /\ targets
  /\ init' = "waiting"
  /\ Accept([Operation("connect") EXCEPT !.to = t, !.auto = TRUE])
  /\ want' = t /\ by' = "launch"
  /\ UNCHANGED <<at, active, svc, owed, ready, acquired, routing, quit>>

(* autoConnectOnStartup: expectedGeneration 0. *)
AutoConnect(t) ==
  /\ ~exited /\ init = "auto"
  /\ ~stopping /\ by = "nobody" /\ targets
  /\ init' = "waiting"
  /\ Accept([Operation("connect") EXCEPT !.to = t, !.auto = TRUE])
  /\ want' = t /\ by' = "launch"
  /\ UNCHANGED <<at, active, svc, owed, ready, acquired, routing, quit>>

(* It is disabled, has nothing to connect to, or was too late. *)
SkipAutoConnect ==
  /\ ~exited /\ init = "auto"
  /\ init' = "done"
  /\ UNCHANGED <<queue, run, at, intent, active, svc, owed, ready, acquired, routing,
                 quit>>

(* mutant: a Disconnect that waits already is not queued again *)
RequestDisconnectOnce ==
  /\ ~exited /\ ~stopping /\ Room
  /\ IF \E i \in DOMAIN queue : queue[i].op = "disconnect"
     THEN /\ queue' = Overtake(queue) /\ failed' = FALSE
          /\ run' = [run EXCEPT !.current = FALSE] /\ UNCHANGED stopping
     ELSE Accept(Operation("disconnect"))
  /\ want' = "nothing" /\ by' = "user"
  /\ IF ready /\ svc[active] = "on"
     THEN svc' = Ending /\ owed' = owed \cup {active} ELSE UNCHANGED <<svc, owed>>
  /\ UNCHANGED <<at, active, startup, routing, quit>>

(* disconnectActiveTransport: the session that is active stops at once
   (beginDisconnect), its teardown waits for its turn. *)
RequestDisconnect ==
  /\ ~exited /\ ~stopping /\ Room
  /\ Accept(Operation("disconnect"))
  /\ want' = "nothing" /\ by' = "user"
  /\ IF ready /\ svc[active] = "on"
     THEN svc' = Ending /\ owed' = owed \cup {active} ELSE UNCHANGED <<svc, owed>>
  /\ UNCHANGED <<at, active, startup, routing, quit>>

(* The services are there: requestTransportIntent asks again whether the intent
   is the latest, and the operation begins. *)
GiveUp ==
  /\ ~exited /\ at = "ready" /\ ready
  /\ IF run.op = "routing" THEN stopping ELSE ~run.current \/ stopping
  /\ Return
  /\ UNCHANGED <<queue, intent, active, svc, owed, ready, acquired, routing, quit>>

Proceeds(op) == ~exited /\ at = "ready" /\ ready /\ run.op = op /\ run.current /\ ~stopping

NeedsReplacing == active # run.to \/ (run.restart /\ svc[run.to] # "off")

ConnectReplaces ==
  /\ Proceeds("connect") /\ NeedsReplacing
  /\ CallDisconnect
  /\ at' = "replace"
  /\ UNCHANGED <<queue, run, intent, active, startup, routing, quit>>

ConnectStarts ==
  /\ Proceeds("connect") /\ ~NeedsReplacing
  /\ CallConnect(run.to, svc)
  /\ UNCHANGED <<queue, run, intent, startup, targets, saves, quit>>

(* mutant: whether the intent is still the latest is not asked again *)
ReplacedUnasked ==
  /\ ~exited /\ at = "replace"
  /\ CallConnect(run.to, Ended)
  /\ UNCHANGED <<run, init, queue, intent, ready, acquired, targets, saves, quit>>

(* The old session has ended.  An intent overtaken meanwhile stops here. *)
Replaced ==
  /\ ~exited /\ at = "replace"
  /\ IF run.current
     THEN CallConnect(run.to, Ended) /\ UNCHANGED <<run, init>>
     ELSE svc' = Ended /\ Return /\ UNCHANGED <<active, owed, applied, applyFailed>>
  /\ UNCHANGED <<queue, intent, ready, acquired, targets, saves, quit>>

(* connect resolves, with a session or in the state Error; after an intent that
   was overtaken the session is taken down again. *)
Connected ==
  /\ ~exited /\ at = "connect"
  /\ IF run.current
     THEN svc' \in {svc, NotConnected} /\ at' = "remember" /\ UNCHANGED owed
     ELSE CallDisconnect /\ at' = "undo"
  /\ UNCHANGED <<queue, run, intent, active, startup, routing, quit>>

(* connect rejects: the session is there or it is not. *)
ConnectRejects ==
  /\ ~exited /\ at = "connect"
  /\ svc' \in {svc, NotConnected}
  /\ Reject
  /\ UNCHANGED <<queue, active, owed, ready, acquired, routing, quit>>

(* rememberLastConnectedTransport has been saved, or not. *)
Remembered ==
  /\ ~exited /\ at = "remember"
  /\ Return
  /\ UNCHANGED <<queue, intent, active, svc, owed, ready, acquired, routing, quit>>

(* disconnectActiveTransportInternal *)
Disconnect ==
  /\ Proceeds("disconnect")
  /\ CallDisconnect
  /\ at' = "disconnect"
  /\ UNCHANGED <<queue, run, intent, active, startup, routing, quit>>

(* The service's disconnect resolves, where nothing follows it. *)
Disconnected ==
  /\ ~exited /\ at \in {"disconnect", "undo", "drop"}
  /\ svc' = Ended
  /\ Return
  /\ UNCHANGED <<queue, intent, active, owed, ready, acquired, routing, quit>>

DisconnectRejects ==
  /\ ~exited /\ at \in {"disconnect", "undo", "drop", "replace"}
  /\ svc' \in {svc, Ended}
  /\ Reject
  /\ UNCHANGED <<queue, active, owed, ready, acquired, routing, quit>>

(* A session fails for good, at any time. *)
ServiceFails ==
  /\ ~exited
  /\ \E t \in Tunnels : svc[t] = "on" /\ svc' = [svc EXCEPT ![t] = "error"]
  /\ UNCHANGED <<queue, run, at, intent, active, owed, startup, routing, quit>>

-----------------------------------------------------------------------------
(* Routing changes, and the error that is dismissed *)

(* A routing change is saved: what was captured before is out of date. *)
Save ==
  /\ ~exited /\ saves < MaxSaves /\ Room
  /\ saves' = saves + 1
  /\ targets' \in BOOLEAN
  /\ applied' = FALSE
  /\ queue' = [i \in DOMAIN queue |-> [queue[i] EXCEPT !.fresh = FALSE]]
  /\ run' = [run EXCEPT !.fresh = FALSE]
  /\ UNCHANGED <<at, intent, active, svc, owed, startup, applyFailed, quit>>

(* mutant: a change is applied whether or not it has been saved *)
QueueRoutingUnsaved ==
  /\ ~exited /\ Room
  /\ saves' = saves - 1
  /\ queue' = Append(queue, Operation("routing"))
  /\ UNCHANGED <<run, at, intent, active, svc, owed, startup, targets, applied,
                 applyFailed, quit>>

(* mutant: a change is not queued beside one that is queued or running *)
QueueRoutingOnce ==
  /\ ~exited /\ saves > 0
  /\ saves' = saves - 1
  /\ queue' = IF run.op = "routing" \/ \E i \in DOMAIN queue : queue[i].op = "routing"
              THEN queue ELSE Append(queue, Operation("routing"))
  /\ UNCHANGED <<run, at, intent, active, svc, owed, startup, targets, applied,
                 applyFailed, quit>>

(* applyRoutingConfigurationAfterMutation *)
QueueRouting ==
  /\ ~exited /\ saves > 0
  /\ saves' = saves - 1
  /\ queue' = Append(queue, Operation("routing"))
  /\ UNCHANGED <<run, at, intent, active, svc, owed, startup, targets, applied,
                 applyFailed, quit>>

AppliesRouting == ~exited /\ at = "ready" /\ ready /\ run.op = "routing" /\ ~stopping

(* routingMutationAction is "apply": updateRouting gets what is saved now. *)
ApplyRouting ==
  /\ AppliesRouting /\ targets
  /\ applied' = TRUE /\ applyFailed' = FALSE
  /\ at' = "update"
  /\ UNCHANGED <<queue, run, intent, active, svc, owed, startup, targets, saves, quit>>

(* It is "disconnect": there is nothing left to route. *)
DropSession ==
  /\ AppliesRouting /\ ~targets /\ svc[active] \in {"on", "error"}
  /\ CallDisconnect
  /\ at' = "drop"
  /\ UNCHANGED <<queue, run, intent, active, startup, routing, quit>>

(* It is "idle". *)
NothingToDrop ==
  /\ AppliesRouting /\ ~targets /\ svc[active] \in {"off", "ending"}
  /\ Return
  /\ UNCHANGED <<queue, intent, active, svc, owed, ready, acquired, routing, quit>>

(* updateRouting resolves, or rejects: "saved, not applied". *)
RoutingUpdated ==
  /\ ~exited /\ at = "update"
  /\ applyFailed' \in BOOLEAN
  /\ Return
  /\ UNCHANGED <<queue, intent, active, svc, owed, ready, acquired, targets, saves,
                 applied, quit>>

RequestDismiss ==
  /\ ~exited /\ Room
  /\ queue' = Append(queue, Operation("dismiss"))
  /\ UNCHANGED <<run, at, intent, active, svc, owed, startup, routing, quit>>

(* dismissConnectionError: clearError, if the active service shows an error. *)
Dismiss ==
  /\ ~exited /\ at = "idle" /\ queue # <<>> /\ Head(queue).op = "dismiss"
  /\ queue' = Tail(queue)
  /\ IF svc[active] = "error" THEN svc' = Ended /\ at' = "clear" ELSE UNCHANGED <<svc, at>>
  /\ UNCHANGED <<run, intent, active, owed, startup, routing, quit>>

Cleared ==
  /\ ~exited /\ at = "clear"
  /\ Return
  /\ UNCHANGED <<queue, intent, active, svc, owed, ready, acquired, routing, quit>>

-----------------------------------------------------------------------------
(* Startup and quit *)

(* createServiceBridge has an answer: the service, or a simulator in its place.
   One that comes after the quit is disposed. *)
ServicesCreated ==
  /\ ~exited /\ init = "creating"
  /\ IF stopping
     THEN init' = "done" /\ acquired' = "disposed" /\ UNCHANGED <<svc, ready>>
     ELSE /\ init' = "auto" /\ acquired' = "used" /\ ready' = TRUE
          /\ svc' \in {svc, [svc EXCEPT !["ssh"] = "error"]}
  /\ UNCHANGED <<queue, run, at, intent, active, owed, routing, quit>>

(* before-quit: no intent is accepted any more, those queued are released, the
   cleanup is queued and the deadline set. *)
Quit ==
  /\ ~exited /\ ~stopping
  /\ stopping' = TRUE
  /\ want' = "quit" /\ by' = "user"
  /\ ready' = TRUE
  /\ queue' = Append(Overtake(queue), Operation("cleanup"))
  /\ run' = [run EXCEPT !.current = FALSE]
  /\ UNCHANGED <<at, failed, active, svc, owed, init, acquired, routing, quit>>

(* The cleanup disposes both services. *)
Dispose ==
  /\ ~exited /\ at = "idle" /\ queue # <<>> /\ Head(queue).op = "cleanup"
  /\ queue' = Tail(queue) /\ run' = Head(queue)
  /\ at' = "dispose"
  /\ svc' = [t \in Tunnels |-> IF svc[t] = "on" THEN "ending" ELSE svc[t]]
  /\ owed' = {}
  /\ acquired' = IF acquired = "used" THEN "disposed" ELSE acquired
  /\ UNCHANGED <<intent, active, init, ready, routing, quit>>

Disposed ==
  /\ ~exited /\ at = "dispose"
  /\ svc' = [t \in Tunnels |-> "off"]
  /\ at' = "initialized"
  /\ UNCHANGED <<queue, run, intent, active, owed, startup, routing, quit>>

(* It has waited for the initialization too: settleBeforeDeadline completes. *)
CleanupEnds ==
  /\ ~exited /\ at = "initialized" /\ init = "done"
  /\ outcome' = IF outcome = "none" THEN "completed" ELSE outcome
  /\ Return
  /\ UNCHANGED <<queue, intent, active, svc, owed, ready, acquired, routing, exited>>

(* The deadline: Xray's process is killed, and the app exits with the queue as it
   is. *)
Deadline ==
  /\ ~exited /\ stopping /\ outcome = "none"
  /\ outcome' = "deadline"
  /\ svc' = [svc EXCEPT !["xray"] = "off"]
  /\ UNCHANGED <<queue, run, at, intent, active, owed, startup, routing, exited>>

Exit ==
  /\ ~exited /\ outcome # "none"
  /\ exited' = TRUE
  /\ UNCHANGED <<queue, run, at, intent, active, svc, owed, startup, routing, outcome>>

-----------------------------------------------------------------------------
(* The operation running goes on by itself, or is answered by a service. *)
Runs ==
  \/ Begin \/ GiveUp \/ ConnectReplaces \/ ConnectStarts \/ Disconnect \/ Dismiss
  \/ ApplyRouting \/ DropSession \/ NothingToDrop \/ Dispose \/ CleanupEnds

Answered ==
  \/ Replaced \/ Connected \/ ConnectRejects \/ Remembered \/ Disconnected
  \/ DisconnectRejects \/ RoutingUpdated \/ Cleared \/ Disposed

User ==
  \/ \E t \in Tunnels, r \in BOOLEAN : RequestConnect(t, r)
  \/ RequestDisconnect \/ RequestDismiss \/ Save \/ Quit

Startup == ServicesCreated \/ SkipAutoConnect \/ \E t \in Tunnels : AutoConnect(t)

Next ==
  Runs \/ Answered \/ User \/ QueueRouting \/ Startup \/ ServiceFails \/ Deadline \/ Exit

Spec == Init /\ [][Next]_vars

(* Every call of a service is answered: dials, processes and helpers have
   deadlines of their own.  The promises of main go on.  The deadline of the quit
   need not come first. *)
FairSpec ==
  /\ Spec
  /\ WF_vars(Runs) /\ WF_vars(Answered)
  /\ WF_vars(ServicesCreated) /\ WF_vars(SkipAutoConnect) /\ WF_vars(Exit)

-----------------------------------------------------------------------------
(* Safety *)

Idle == queue = <<>> /\ at = "idle" /\ ~stopping

Live == {"on", "ending"}

(* Only the active service ever has a session: the other one has ended before
   activeTransport changes, also when a disconnect rejects, an intent is
   overtaken between the two calls or the application quits. *)
OneTunnel == svc[Other(active)] \notin Live

(* Intents that come faster than they are served leave the machine as the last
   one asked: after a Disconnect no session, after a Connect that transport is the
   active one, unless its own operation rejected. *)
RestIsAsAsked ==
  Idle /\ ~failed =>
    /\ want = "nothing" => svc[active] \notin Live
    /\ want \in Tunnels => active = want

(* Once nothing is queued the session runs on the routing that is saved, and never
   on rules that have been removed: a Connect uses what it captured when it was
   asked for, and the change saved behind it is applied after it
   (applyRoutingConfigurationAfterMutation). *)
RoutingIsLatest ==
  Idle /\ saves = 0 /\ svc[active] = "on" => (applied \/ applyFailed) /\ targets

(* A session that was told to end ahead of the queue is never forgotten: the latest
   intent, which will call its service, is still to come, or the cleanup is. *)
AnnouncedIsQueued ==
  owed # {} =>
    \/ stopping
    \/ at = "ready" /\ run.current /\ run.op # "routing"
    \/ \E i \in DOMAIN queue : queue[i].current /\ queue[i].op \in {"connect", "disconnect"}

(* A quit that did not run into its deadline leaves no session, and no service
   created behind its back. *)
ExitIsClean ==
  exited /\ outcome = "completed" =>
    acquired = "disposed" /\ \A t \in Tunnels : svc[t] = "off"

Intents == INSTANCE LatestIntent WITH running <- {t \in Tunnels : svc[t] \in Live}

(* Main implements LatestIntent: a superseded Connect never starts a session, one
   tunnel replaces the other, and the automatic Connect never overrides a user. *)
LatestIntentWins == Intents!Spec

(* Neither the tunnels nor what they were told is mixed up by the queue of main.ts:
   there is one tunnel, and the end announced to it has a call to come. *)
IntentsAreKept == OneTunnel /\ AnnouncedIsQueued

(* Once the queue is empty, or the application has quit, everything is as it was
   last asked: the tunnel, its routing, and nothing after a quit. *)
RestsAsAsked == RestIsAsAsked /\ RoutingIsLatest /\ ExitIsClean

-----------------------------------------------------------------------------
(* Liveness *)

(* What beginDisconnect announced to a service is followed by a call of that
   service, once the user stops asking. *)
AnnouncedIsServed ==
  <>[][~User]_vars => \A t \in Tunnels : t \in owed ~> t \notin owed \/ exited

(* A quit ends, also before its deadline: the cleanup waits for the initialization,
   which may wait for the automatic Connect in the queue of the cleanup. *)
QuitEnds == stopping ~> exited

(* Main does not stop halfway: what it announced is called, and a quit ends. *)
TransportSettles == AnnouncedIsServed /\ QuitEnds

=============================================================================
