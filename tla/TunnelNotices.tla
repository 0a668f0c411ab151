----------------------------- MODULE TunnelNotices -----------------------------
(***************************************************************************)
(* What the main process tells the user of a running tunnel: the desktop    *)
(* notices of a drop, its end and a reconnect that was given up             *)
(* (session-transitions.ts, notifications.ts), the tunnel check and the     *)
(* probe of every new connection (tunnel-check-guard.ts), and the tray menu *)
(* (tray-model.ts), all driven by the status events of the active bridge    *)
(* (main.ts).                                                               *)
(*                                                                          *)
(* A bridge is its status: the state, the number of its connection          *)
(* (connectedAt; 0 when it has none) and the number of the connect that     *)
(* opened the session.  The bridge that is not active rests at              *)
(* Disconnected.  A status event is handled where it is emitted, so the     *)
(* change and its handling are one step.                                    *)
(***************************************************************************)
EXTENDS Naturals, Sequences, FiniteSets

CONSTANTS Probe,           \* the checks that can run at one time
          MaxConnections,  \* connections made
          MaxMoves,        \* status changes a bridge makes by itself, and changes of the store
          MaxAsks          \* connects and disconnects asked for

VARIABLES active,    \* activeTransport
          status,    \* of the active bridge: [state, conn, session]
          job,       \* the intent the transport queue is running
          asks,      \* the intents behind it
          tracker,   \* TunnelTransitionTracker: [live, lost, pending]
          settle,    \* transitionSettleTimer: its transport, or "none"
          lost,      \* tunnelLost: the drop (a connection) announced, or 0
          slot,      \* the notice shown in the slot "tunnel": [kind, drop]
          posted,    \* drops whose notice was shown; a copy may be clicked yet
          check,     \* lastTunnelCheck
          key,       \* sessionKey of TunnelCheckSessionGuard
          probe,     \* the checks running, by their tickets
          verify,    \* tunnelVerificationTimer: its connection, or 0
          verified,  \* verifiedConnectionKey, or 0
          trayTimer, \* trayRefreshTimer is armed
          menu,      \* the menu the tray shows
          store,     \* [readable, blocked, target]
          last,      \* connections made (history)
          auto,      \* automatic checks made of each connection (history)
          ended,     \* "Stop reconnecting" that ended a session (history)
          moves, asked

told    == <<tracker, settle, lost, slot, posted>>
checked == <<check, key, probe, verify, verified, auto>>
vars    == <<active, status, job, asks, told, checked, trayTimer, menu, store, last, ended, moves, asked>>

Transports == {"ssh", "xray"}
NoNotice   == [kind |-> "none", drop |-> 0]
NoCheck    == [t |-> "none", began |-> 0, session |-> 0]
NoTicket   == [t |-> "none", fresh |-> FALSE, conn |-> 0, session |-> 0]
NoKey      == <<"none", 0>>
AtRest     == [state |-> "Disconnected", conn |-> 0, session |-> 0]
Fresh      == [live |-> FALSE, lost |-> FALSE, pending |-> FALSE]

(* The tracker, the timers, the check and the menu have the shapes main.ts   *)
(* gives them.                                                               *)
TypeOK ==
  /\ active \in Transports
  /\ status.state \in {"Disconnected", "Connecting", "Connected", "Reconnecting", "Error", "Disconnecting"}
  /\ status.conn \in 0..MaxConnections /\ last \in 0..MaxConnections
  /\ job.at \in {"idle", "leave", "leaving", "enter", "dial", "off", "offing"}
  /\ asks \in Seq([kind : Transports \cup {"off"}, restart : BOOLEAN])
  /\ tracker \in [live : BOOLEAN, lost : BOOLEAN, pending : BOOLEAN]
  /\ settle \in Transports \cup {"none"}
  /\ lost \in 0..MaxConnections /\ posted \subseteq 1..MaxConnections
  /\ slot.kind \in {"none", "lost", "restored", "stopped"}
  /\ \A p \in Probe : probe[p].t \in Transports \cup {"none"}
  /\ trayTimer \in BOOLEAN

isCheckableState(state) == state \in {"Connected", "Reconnecting"}
InFlight(probes) == \E p \in Probe : probes[p] # NoTicket

---------------------------------------------------------------------------
(* The tray menu. *)

checkItem(t, s, result, busy) ==
  IF s.state # "Connected" THEN "needs a tunnel"
  ELSE IF busy THEN "checking"
  ELSE IF result = NoCheck \/ result.t # t THEN "ready"
  ELSE "result"

idlePrimary(kept) == IF kept.blocked \/ ~kept.target THEN "none" ELSE "connect"

buildTrayMenuModel(t, s, kept, result, busy) ==
  IF ~kept.readable
  THEN [title |-> "unreadable", kind |-> "none", primary |-> "none", switch |-> FALSE, check |-> "needs a tunnel"]
  ELSE [title |-> s.state, kind |-> t,
        primary |-> CASE s.state \in {"Connected", "Reconnecting"}      -> "disconnect"
                      [] s.state \in {"Connecting", "Disconnecting"}    -> "none"
                      [] s.state = "Error"        -> IF kept.blocked THEN "none" ELSE "retry"
                      [] s.state = "Disconnected" -> idlePrimary(kept),
        switch |-> s.state \notin {"Connecting", "Disconnecting"} /\ ~kept.blocked /\ kept.target,
        check |-> checkItem(t, s, result, busy)]

CurrentMenu == buildTrayMenuModel(active, status, store, check, InFlight(probe))

---------------------------------------------------------------------------
(* TunnelTransitionTracker. *)

\* Mutant: Reconnecting leaves the stop pending.
observeLeavesPending(tr, state) ==
  IF state = "Reconnecting" THEN [tr EXCEPT !.lost = tr.live \/ tr.lost]
  ELSE IF state = "Connected" THEN [live |-> TRUE, lost |-> FALSE, pending |-> FALSE]
  ELSE IF state = "Error" THEN [tr EXCEPT !.pending = tr.pending \/ tr.live]
  ELSE IF state = "Connecting" THEN tr ELSE Fresh

observe(tr, state) ==
  CASE state = "Connected"    -> [live |-> TRUE, lost |-> FALSE, pending |-> FALSE]
    [] state = "Reconnecting" -> [tr EXCEPT !.pending = FALSE, !.lost = tr.live \/ tr.lost]
    [] state = "Error"        -> [tr EXCEPT !.pending = tr.pending \/ tr.live]
    [] state = "Connecting"   -> tr
    [] OTHER                  -> Fresh

transition(tr, state) ==
  CASE state = "Connected" /\ tr.live /\ tr.lost        -> "restored"
    [] state = "Reconnecting" /\ tr.live /\ ~tr.lost    -> "lost"
    [] OTHER                                            -> "none"

---------------------------------------------------------------------------
(* DesktopNotifier.  The notice is shown, or the settings (or the visible   *)
(* window) mute it, or the system shows none.                               *)

Outcomes == {"shown", "muted", "failed"}

Noted == [lost |-> lost, slot |-> slot, posted |-> posted]

withdrawTunnelLost(n) ==
  IF n.lost = 0 THEN n
  ELSE [n EXCEPT !.lost = 0, !.slot = IF @ = [kind |-> "lost", drop |-> n.lost] THEN NoNotice ELSE @]

\* announceTunnelTransition: notifyTunnelLost, notifyTunnelRestored, notifyReconnectStopped.
announce(n, what, drop, how) ==
  CASE what = "none" -> n
    [] what # "none" /\ how = "muted"  -> IF what = "lost" THEN n ELSE withdrawTunnelLost(n)
    [] what # "none" /\ how = "failed" -> [n EXCEPT !.lost = 0, !.slot = NoNotice]
    [] what # "none" /\ how = "shown"  ->
         [lost   |-> IF what = "lost" THEN drop ELSE 0,
          slot   |-> [kind |-> what, drop |-> drop],
          posted |-> IF what = "lost" THEN n.posted \cup {drop} ELSE n.posted]

Notices(n) == lost' = n.lost /\ slot' = n.slot /\ posted' = n.posted

---------------------------------------------------------------------------
(* TunnelCheckSessionGuard: its generation is only compared for equality,   *)
(* so a ticket is fresh until the generation moves on.                      *)

outdated(probes) == [p \in Probe |-> [probes[p] EXCEPT !.fresh = FALSE]]

SessionKey(t, s) == IF isCheckableState(s.state) THEN <<t, s.conn>> ELSE NoKey

\* scheduleTunnelVerification: <<timer, verified>>.
Verification(s) ==
  CASE s.state # "Connected" \/ s.conn = 0 -> <<0, 0>>
    [] s.state = "Connected" /\ s.conn # 0 /\ verified = s.conn -> <<verify, verified>>
    [] OTHER -> <<s.conn, s.conn>>

\* handleRuntimeEvent and handleActiveStatusChanged for the status s of the active bridge.
Status(s) ==
  \E how \in Outcomes :
    LET what  == transition(tracker, s.state)
        after == observe(tracker, s.state)
        n     == announce(Noted, what, last, how)
    IN  /\ status' = s
        /\ verify' = Verification(s)[1] /\ verified' = Verification(s)[2]
        /\ key' = SessionKey(active, s)
        /\ probe' = IF key' # key THEN outdated(probe) ELSE probe
        /\ check' = IF isCheckableState(s.state) THEN check ELSE NoCheck
        /\ tracker' = after
        /\ Notices(IF after.lost THEN n ELSE withdrawTunnelLost(n))
        /\ settle' = IF after.pending THEN IF settle = "none" THEN active ELSE settle ELSE "none"
        /\ trayTimer' = TRUE

---------------------------------------------------------------------------
(* The transport queue: what connect, connectProxy and                      *)
(* disconnectActiveTransport do with the session (the queue itself is       *)
(* TransportCoordinator's).                                                 *)

Idle == [kind |-> "off", at |-> "idle", restart |-> FALSE]

Init ==
  /\ active = "ssh" /\ status = AtRest /\ job = Idle /\ asks = <<>>
  /\ tracker = Fresh /\ settle = "none" /\ lost = 0 /\ slot = NoNotice /\ posted = {}
  /\ check = NoCheck /\ key = NoKey /\ probe = [p \in Probe |-> NoTicket]
  /\ verify = 0 /\ verified = 0 /\ auto = [c \in 1..MaxConnections |-> 0]
  /\ store \in [readable : BOOLEAN, blocked : {FALSE}, target : {TRUE}]
  /\ trayTimer = TRUE
  /\ menu = buildTrayMenuModel("ssh", AtRest, [readable |-> FALSE, blocked |-> FALSE, target |-> FALSE], NoCheck, FALSE)
  /\ last = 0 /\ ended = {} /\ moves = 0 /\ asked = 0

\* A connect or disconnect from a window (or the tray, or a notice).
AskFor(kind, restart) ==
  /\ asked < MaxAsks /\ asked' = asked + 1
  /\ asks' = Append(asks, [kind |-> kind, restart |-> restart])

CanConnect == store.readable /\ ~store.blocked /\ store.target

Ask ==
  /\ \/ \E t \in Transports : CanConnect /\ AskFor(t, FALSE)
     \/ AskFor("off", FALSE)
  /\ UNCHANGED <<active, status, job, told, checked, trayTimer, menu, store, last, ended, moves>>

beginSession ==
  /\ check' = NoCheck
  /\ key' = NoKey /\ probe' = outdated(probe)
  /\ tracker' = Fresh /\ settle' = "none"
  /\ Notices(withdrawTunnelLost(Noted))

RunConnect ==
  /\ job.at = "idle" /\ asks # <<>> /\ Head(asks).kind # "off"
  /\ beginSession
  /\ LET a == Head(asks)
         leaves == active # a.kind \/ (a.restart /\ status.state # "Disconnected")
     IN  job' = [kind |-> a.kind, at |-> IF leaves THEN "leave" ELSE "enter", restart |-> a.restart]
  /\ asks' = Tail(asks)
  /\ UNCHANGED <<active, status, verify, verified, auto, trayTimer, menu, store, last, ended, moves, asked>>

RunDisconnect ==
  /\ job.at = "idle" /\ asks # <<>> /\ Head(asks).kind = "off"
  /\ asks' = Tail(asks)
  /\ job' = IF Len(asks) > 1 THEN job ELSE [Idle EXCEPT !.at = "off"]
  /\ UNCHANGED <<active, status, told, checked, trayTimer, menu, store, last, ended, moves, asked>>

\* The bridge's disconnect: Disconnecting, then Disconnected, or Error when it throws.
Leave ==
  /\ job.at \in {"leave", "off"}
  /\ Status([status EXCEPT !.state = "Disconnecting"])
  /\ job' = [job EXCEPT !.at = IF @ = "leave" THEN "leaving" ELSE "offing"]
  /\ UNCHANGED <<active, asks, menu, store, last, auto, ended, moves, asked>>

Left ==
  /\ job.at \in {"leaving", "offing"}
  /\ \/ /\ Status(AtRest)
        /\ job' = IF job.at = "leaving" THEN [job EXCEPT !.at = "enter"] ELSE Idle
     \/ /\ Status([AtRest EXCEPT !.state = "Error"])
        /\ job' = Idle
  /\ UNCHANGED <<active, asks, menu, store, last, auto, ended, moves, asked>>

\* Superseded, or setActiveTransport and the bridge's connect.
Superseded ==
  /\ job.at = "enter" /\ asks # <<>>
  /\ job' = Idle
  /\ UNCHANGED <<active, status, asks, told, checked, trayTimer, menu, store, last, ended, moves, asked>>

setActiveTransport ==
  /\ job.at = "enter" /\ asks = <<>> /\ active # job.kind
  /\ active' = job.kind /\ status' = AtRest /\ trayTimer' = TRUE
  /\ UNCHANGED <<job, asks, told, checked, menu, store, last, ended, moves, asked>>

Dial ==
  /\ job.at = "enter" /\ active = job.kind /\ asks = <<>>
  /\ Status([state |-> "Connecting", conn |-> 0, session |-> asked])
  /\ job' = [job EXCEPT !.at = "dial"]
  /\ UNCHANGED <<active, asks, menu, store, last, auto, ended, moves, asked>>

\* The connect returns; one that was superseded is taken down again.
Dialled ==
  /\ job.at = "dial" /\ status.state # "Connecting"
  /\ job' = IF asks = <<>> THEN Idle ELSE [Idle EXCEPT !.at = "off"]
  /\ UNCHANGED <<active, status, asks, told, checked, trayTimer, menu, store, last, ended, moves, asked>>

---------------------------------------------------------------------------
(* The bridges (external here; LiveSshService and XrayService).             *)

\* What a bridge may report next; Xray restarts through Error and Connecting.
NextStates(s) ==
  CASE s = "Connecting"   -> {"Connected", "Error", "Reconnecting"}
    [] s = "Connected"    -> {"Connected", "Reconnecting", "Error"}
    [] s = "Reconnecting" -> {"Connected", "Error", "Connecting", "Reconnecting"}
    [] s = "Error"        -> {"Reconnecting"}
    [] OTHER              -> {}

Move ==
  /\ moves < MaxMoves /\ moves' = moves + 1
  /\ job.at \in {"idle", "dial"} /\ status.session # 0
  /\ \E s \in NextStates(status.state) :
       LET made == s = "Connected" /\ status.state # "Connected"
       IN  /\ last' = IF made THEN last + 1 ELSE last
           /\ made => last < MaxConnections
           /\ Status([state   |-> s, session |-> status.session,
                      conn    |-> CASE made -> last + 1
                                    [] ~made /\ (s = "Connecting" \/ (s = "Reconnecting" /\ status.state = s)) -> 0
                                    [] OTHER -> status.conn])
  /\ UNCHANGED <<active, job, asks, menu, store, auto, ended, asked>>

---------------------------------------------------------------------------
(* The settle timer, and the clicks on a notice.                            *)

Settle ==
  /\ settle # "none" /\ settle' = "none"
  /\ \E how \in Outcomes :
       LET n == IF tracker.pending THEN announce(Noted, "stopped", last, how) ELSE Noted
       IN  IF active # settle THEN UNCHANGED <<tracker, lost, slot, posted>>
           ELSE /\ tracker' = IF tracker.pending THEN Fresh ELSE tracker
                /\ Notices(IF tracker'.lost THEN n ELSE withdrawTunnelLost(n))
  /\ UNCHANGED <<active, status, job, asks, checked, trayTimer, menu, store, last, ended, moves, asked>>

\* The user or the system closes the notice; a copy may stay in its center.
Dismiss ==
  /\ slot # NoNotice /\ slot' = NoNotice
  /\ UNCHANGED <<active, status, job, asks, tracker, settle, lost, posted, checked, trayTimer, menu, store, last, ended,
                 moves, asked>>

\* The session is stopped only for the notice that announced the drop under way.
ItsOwnDrop(d) == lost = d

StopReconnecting ==
  /\ \E d \in posted :
       /\ slot' = IF slot = [kind |-> "lost", drop |-> d] THEN NoNotice ELSE slot
       /\ IF ~ItsOwnDrop(d) THEN UNCHANGED <<lost, asks, asked, ended, trayTimer>>
          ELSE /\ lost' = 0
               /\ IF tracker.lost /\ status.state \notin {"Connected", "Disconnected", "Disconnecting"}
                  THEN AskFor("off", FALSE) /\ ended' = ended \cup {<<d, last>>} /\ UNCHANGED trayTimer
                  ELSE trayTimer' = TRUE /\ UNCHANGED <<asks, asked, ended>>
  /\ UNCHANGED <<active, status, job, tracker, settle, posted, checked, menu, store, last, moves>>

---------------------------------------------------------------------------
(* Tunnel checks.                                                           *)

performTunnelCheck(p) ==
  /\ probe[p] = NoTicket
  /\ probe' = [probe EXCEPT ![p] = [t |-> active, fresh |-> TRUE, conn |-> status.conn, session |-> status.session]]
  /\ trayTimer' = TRUE

RunCheck ==
  /\ status.session # 0
  /\ \E p \in Probe : performTunnelCheck(p)
  /\ UNCHANGED <<active, status, job, asks, told, check, key, verify, verified, auto, menu, store, last, ended, moves,
                 asked>>

Verify ==
  /\ verify # 0 /\ verify' = 0
  /\ IF verified = verify
     THEN /\ \E p \in Probe : performTunnelCheck(p)
          /\ auto' = [auto EXCEPT ![verify] = @ + 1]
     ELSE UNCHANGED <<probe, trayTimer, auto>>
  /\ UNCHANGED <<active, status, job, asks, told, check, key, verified, menu, store, last, ended, moves, asked>>

accepts(ticket) == ticket.fresh /\ ticket.t = active /\ isCheckableState(status.state)

CheckEnds ==
  /\ \E p \in Probe :
       LET ticket == probe[p]
       IN  /\ ticket # NoTicket
           /\ probe' = [probe EXCEPT ![p] = NoTicket]
           /\ check' = IF accepts(ticket) THEN [t |-> ticket.t, began |-> ticket.conn, session |-> ticket.session] ELSE check
  /\ trayTimer' = TRUE
  /\ UNCHANGED <<active, status, job, asks, told, key, verify, verified, auto, menu, store, last, ended, moves, asked>>

---------------------------------------------------------------------------
(* The tray.                                                                *)

scheduleTrayRefresh == trayTimer' = TRUE

\* TrayController.update: a menu equal to the one shown is not drawn again.
update(model) == menu' = model

refreshTray ==
  /\ trayTimer /\ trayTimer' = FALSE
  /\ update(CurrentMenu)
  /\ UNCHANGED <<active, status, job, asks, told, checked, store, last, ended, moves, asked>>

\* A window's request changes what is stored; each one refreshes the tray when it ends.
StoreChanges ==
  /\ moves < MaxMoves /\ moves' = moves + 1
  /\ store' \in {[readable |-> TRUE, blocked |-> b, target |-> ~b] : b \in BOOLEAN}
  /\ trayTimer' = TRUE
  /\ UNCHANGED <<active, status, job, asks, told, checked, menu, last, ended, asked>>

\* A click on the primary item of the menu, which may be older than the state it acts on.
PrimaryClick ==
  /\ \/ menu.primary = "disconnect" /\ AskFor("off", FALSE)
     \/ menu.primary \in {"connect", "retry"} /\ CanConnect /\ AskFor(active, FALSE)
  /\ scheduleTrayRefresh
  /\ UNCHANGED <<active, status, job, told, checked, menu, store, last, ended, moves>>

\* Another server or profile, which closes whatever runs; the one in use is left alone.
switchTunnelTarget(t, same) ==
  IF t = active /\ same /\ status.state \in {"Connected", "Connecting", "Reconnecting"}
  THEN UNCHANGED <<asks, asked>>
  ELSE CanConnect /\ AskFor(t, TRUE)

SwitchClick ==
  /\ menu.switch
  /\ \E t \in Transports, same \in BOOLEAN : switchTunnelTarget(t, same)
  /\ scheduleTrayRefresh
  /\ UNCHANGED <<active, status, job, told, checked, menu, store, last, ended, moves>>

Next ==
  \/ Ask \/ RunConnect \/ RunDisconnect \/ Leave \/ Left \/ Superseded \/ setActiveTransport \/ Dial \/ Dialled
  \/ Move \/ Settle \/ Dismiss \/ StopReconnecting
  \/ RunCheck \/ Verify \/ CheckEnds
  \/ refreshTray \/ StoreChanges \/ PrimaryClick \/ SwitchClick

Spec == Init /\ [][Next]_vars

---------------------------------------------------------------------------
(* A "Reconnecting" notice is out only while the drop it announced is being *)
(* retried, and its button ends that drop's session and no other.           *)
StopIsForItsDrop ==
  /\ lost # 0 => tracker.lost /\ lost = last
  /\ slot.kind = "lost" => lost = slot.drop
  /\ \A e \in ended : e[1] = e[2]

(* "Stopped reconnecting" is said only of a session that is at Error, and   *)
(* an Error that may be final has its timer running.                        *)
GivingUpIsTold == tracker.pending => status.state = "Error" /\ settle = active

(* A check result shown is of the running session: its transport, and the   *)
(* connect that opened it.                                                  *)
CheckIsOfThisSession ==
  check # NoCheck => check.t = active /\ check.session = status.session /\ isCheckableState(status.state)

(* Every connection is checked once by itself, and one that is up has had   *)
(* its check or has it ahead.                                               *)
ConnectionIsVerified ==
  /\ \A c \in DOMAIN auto : auto[c] <= 1
  /\ status.state = "Connected" => verify = status.conn \/ auto[status.conn] = 1

(* When no intent is under way, the tray shows the state there is or its    *)
(* refresh is due.                                                          *)
TrayIsTrue == job = Idle /\ asks = <<>> => trayTimer \/ menu = CurrentMenu

(* What the user is told of the tunnel is true.                             *)
NoticesAreTrue ==
  StopIsForItsDrop /\ GivingUpIsTold /\ CheckIsOfThisSession /\ ConnectionIsVerified /\ TrayIsTrue
=============================================================================
