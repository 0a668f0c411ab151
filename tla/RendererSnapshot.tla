---------------------------- MODULE RendererSnapshot ----------------------------
(***************************************************************************)
(* How a window keeps its picture of the main process current: the first    *)
(* and later loads of the snapshot, the events that reach it in between and *)
(* are replayed or folded in at the next animation frame (useSnapshot.ts,   *)
(* diagnostics.ts), the bounded queues they wait in                         *)
(* (renderer-event-queue.ts), and what the main process sends: events to a  *)
(* visible window only, replies to what the window asked, and               *)
(* snapshot-invalidated (main.ts).                                          *)
(*                                                                          *)
(* Events and replies reach the window in the order they were sent.  The    *)
(* window turns visible or hidden in the main process first; the document   *)
(* hears of each turn later, in their order, and independently of events.   *)
(***************************************************************************)
EXTENDS Naturals, Sequences, SequencesExt

CONSTANTS maxEvents,   \* of a queue of events (MAX_PENDING_STARTUP_EVENTS)
          MaxChanges,  \* what happens in the main process
          MaxLoads,    \* loads of the snapshot
          MaxFlips,    \* the window is shown or hidden
          MaxLost      \* loads that fail or time out

VARIABLES main,      \* the main process: [t, state, check, log]
          op,        \* an operation it runs: "none", "window" (asked by the window), "tray"
          made,      \* check results and log entries made so far
          shown,     \* the window is visible to the main process
          chan,      \* what it sent and the window has not received
          loads,     \* loads the main process has not answered, by generation
          notices,   \* turns to visible (TRUE) or hidden the document has not heard of
          hidden,    \* document.hidden
          view,      \* the snapshot on the screen, or NoView
          synced, generation, awaiting,  \* synchronized, synchronizationGeneration; a load is awaited
          pending, render,   \* the two queues
          frame, timer,      \* renderFrame, invalidationTimer
          told,      \* the failure of a load is on the screen, with its retry
          removed,   \* history: check results and entries a Connect or Clear removed before they arrived
          dropped,   \* history: entries a full queue of frames dropped
          overtaken, \* history: an event from before the window was hidden was put on a later snapshot
          changes, flips, lost

core == <<main, op, made>>
ui   == <<view, synced, generation, awaiting, pending, render, frame, timer, told>>
past == <<removed, dropped, overtaken>>
vars == <<core, shown, chan, loads, notices, hidden, ui, past, changes, flips, lost>>

Transports == {"ssh", "xray"}
States     == {"Disconnected", "Connecting", "Connected", "Reconnecting"}
NoView     == [t |-> "none", state |-> "none", check |-> 0, log |-> <<>>]

(* The types of the variables. *)
TypeOK ==
  /\ main.t \in Transports /\ main.state \in States /\ view.state \in States \cup {"none"}
  /\ op \in {"none", "window", "tray"}
  /\ {shown, hidden, synced, awaiting, frame, timer, told, overtaken} \subseteq BOOLEAN
  /\ Len(pending) <= maxEvents /\ Len(render) <= maxEvents
  /\ loads \subseteq 1..generation

---------------------------------------------------------------------------
(* BoundedRendererEventQueue. *)

isReplaceableStateEvent(e) == e.kind # "log"

\* trim: the oldest log entry goes first, a state event only when there is no other.
trim(q) ==
  IF Len(q) <= maxEvents THEN q
  ELSE LET logs == {i \in DOMAIN q : q[i].kind = "log"}
       IN  RemoveAt(q, IF logs # {} THEN CHOOSE i \in logs : \A j \in logs : i <= j ELSE 1)

\* Mutant: a state event takes the place of the one before it.
enqueueInPlace(q, e) ==
  LET same == {i \in DOMAIN q : q[i].kind = e.kind}
  IN  IF isReplaceableStateEvent(e) /\ same # {} THEN [q EXCEPT ![CHOOSE i \in same : TRUE] = e]
      ELSE trim(Append(q, e))

enqueue(q, e) ==
  trim(Append(IF isReplaceableStateEvent(e) THEN SelectSeq(q, LAMBDA x : x.kind # e.kind) ELSE q, e))

---------------------------------------------------------------------------
(* applyLiveServiceEventsToSnapshot, one event; an entry already there is   *)
(* not added again.                                                         *)
apply(v, e) ==
  CASE e.kind = "status" ->
         [v EXCEPT !.state = e.state,
                   !.check = IF e.state # v.state /\ e.state \in {"Disconnected", "Connecting"} THEN 0 ELSE @]
    [] e.kind = "transport" ->
         [v EXCEPT !.t = e.t, !.state = e.state, !.check = IF v.t # e.t THEN 0 ELSE @]
    [] e.kind = "check" -> [v EXCEPT !.check = e.val]
    [] e.kind = "log"   -> [v EXCEPT !.log = IF Contains(@, e.val) THEN @ ELSE Append(@, e.val)]

applyAll(v, q) == FoldLeft(apply, v, q)

---------------------------------------------------------------------------
(* The main process. *)

Event(kind, t, state, val) == [kind |-> kind, t |-> t, state |-> state, val |-> val, old |-> FALSE]
IsEvent(m) == m.kind \notin {"loaded", "reply"}
Invalidated == Event("invalidated", "none", "none", 0)

\* broadcast: to a visible window only.
broadcast(events) == chan' = IF shown THEN chan \o events ELSE chan

Change == changes < MaxChanges /\ changes' = changes + 1

\* The statuses a bridge reports after one, without being asked to connect.
Follows == [Disconnected |-> {}, Connecting |-> {"Connected", "Disconnected"}, Connected |-> {"Reconnecting", "Disconnected"},
            Reconnecting |-> {"Connected", "Disconnected"}]

\* handleRuntimeEvent: a status; a check result does not outlive its tunnel.
StatusChanges ==
  /\ Change
  /\ \E s \in Follows[main.state] :
       LET cleared == main.check # 0 /\ s \notin {"Connected", "Reconnecting"}
       IN  /\ main' = [main EXCEPT !.state = s, !.check = IF cleared THEN 0 ELSE @]
           /\ broadcast(<<Event("status", "none", s, 0)>> \o IF cleared THEN <<Invalidated>> ELSE <<>>)
  /\ UNCHANGED <<op, made, shown, loads, notices, hidden, ui, past, flips, lost>>

CheckDone ==
  /\ Change /\ main.state \in {"Connected", "Reconnecting"}
  /\ made' = made + 1
  /\ main' = [main EXCEPT !.check = made + 1]
  /\ broadcast(<<Event("check", "none", "none", made + 1)>>)
  /\ UNCHANGED <<op, shown, loads, notices, hidden, ui, past, flips, lost>>

appendDiagnostic ==
  /\ Change /\ made' = made + 1
  /\ main' = [main EXCEPT !.log = Append(@, made + 1)]
  /\ broadcast(<<Event("log", "none", "none", made + 1)>>)
  /\ UNCHANGED <<op, shown, loads, notices, hidden, ui, past, flips, lost>>

\* What was sent and is not on the screen yet.
OnTheirWay(kinds) ==
  {e.val : e \in {m \in ToSet(chan) \cup ToSet(render) \cup ToSet(pending) : m.kind \in kinds}}

\* A connect from the window or the tray: beginSession clears the check and the
\* log without an event, then the transport and the status change.
Connect ==
  /\ op = "none" /\ Change
  /\ op' \in {"window", "tray"} /\ (op' = "window" => shown /\ ~hidden /\ view # NoView)
  /\ \E t \in Transports :
       /\ main' = [t |-> t, state |-> "Connecting", check |-> 0, log |-> <<>>]
       /\ broadcast((IF t # main.t THEN <<Event("transport", t, "Disconnected", 0)>> ELSE <<>>)
                    \o <<Event("status", "none", "Connecting", 0)>>)
  /\ removed' = removed \cup OnTheirWay({"check", "log"})
  /\ UNCHANGED <<made, shown, loads, notices, hidden, ui, dropped, overtaken, flips, lost>>

\* clearDiagnostics, asked by the window: the log goes without an event, its reply carries a snapshot.
Clear ==
  /\ Change /\ main.log # <<>>
  /\ shown /\ ~hidden /\ view # NoView
  /\ main' = [main EXCEPT !.log = <<>>]
  /\ chan' = Append(chan, [kind |-> "reply", snap |-> main', gen |-> 0])
  /\ removed' = removed \cup OnTheirWay({"log"})
  /\ UNCHANGED <<op, made, shown, loads, notices, hidden, ui, dropped, overtaken, flips, lost>>

\* The operation ends: its reply carries a snapshot; what nobody asked for says so to the windows.
Finish ==
  /\ op # "none" /\ op' = "none"
  /\ IF op = "window" THEN chan' = Append(chan, [kind |-> "reply", snap |-> main, gen |-> 0])
     ELSE broadcast(<<Invalidated>>)
  /\ UNCHANGED <<main, made, shown, loads, notices, hidden, ui, past, changes, flips, lost>>

\* loadSnapshot
createSnapshot ==
  /\ \E g \in loads :
       /\ loads' = loads \ {g}
       /\ chan' = Append(chan, [kind |-> "loaded", snap |-> main, gen |-> g])
  /\ UNCHANGED <<core, shown, notices, hidden, ui, past, changes, flips, lost>>

\* The window is shown or hidden.  What is on its way when it is hidden is marked, to tell it from what
\* is sent after it is shown again.
Flip ==
  /\ flips < MaxFlips /\ flips' = flips + 1
  /\ shown' = ~shown /\ notices' = Append(notices, ~shown)
  /\ chan' = IF shown THEN [i \in DOMAIN chan |-> IF IsEvent(chan[i]) THEN [chan[i] EXCEPT !.old = TRUE] ELSE chan[i]]
             ELSE chan
  /\ UNCHANGED <<core, loads, hidden, ui, past, changes, lost>>

---------------------------------------------------------------------------
(* The window. *)

synchronizeSnapshot ==
  /\ generation < MaxLoads /\ generation' = generation + 1
  /\ synced' = FALSE /\ awaiting' = TRUE /\ told' = FALSE
  /\ pending' = <<>> /\ render' = <<>> /\ frame' = FALSE
  /\ loads' = loads \cup {generation + 1}

\* onServiceEvent
onServiceEvent(e) ==
  CASE hidden -> UNCHANGED <<pending, render, frame, timer>>
    [] ~hidden /\ e.kind = "invalidated" -> timer' = TRUE /\ UNCHANGED <<pending, render, frame>>
    [] ~hidden /\ e.kind # "invalidated" /\ ~synced ->
         pending' = enqueue(pending, e) /\ UNCHANGED <<render, frame, timer>>
    [] OTHER -> render' = enqueue(render, e) /\ frame' = TRUE /\ UNCHANGED <<pending, timer>>

\* The entries of a queue, and those that e makes it drop.
Entries(q) == {e.val : e \in {m \in ToSet(q) : m.kind = "log"}}
Drops(q, e) == Entries(Append(q, e)) \ Entries(enqueue(q, e))

ReceiveEvent ==
  /\ chan # <<>> /\ IsEvent(Head(chan)) /\ chan' = Tail(chan)
  /\ onServiceEvent(Head(chan))
  /\ dropped' = dropped \cup IF ~hidden /\ synced /\ Head(chan) # Invalidated
                             THEN Drops(render, Head(chan)) ELSE {}
  /\ UNCHANGED <<core, shown, loads, notices, hidden, view, synced, generation, awaiting, told,
                 removed, overtaken, changes, flips, lost>>

\* A load of this generation: its snapshot, and on it what came in meanwhile.
ReceiveLoaded ==
  /\ chan # <<>> /\ Head(chan).kind = "loaded" /\ chan' = Tail(chan)
  /\ IF awaiting /\ Head(chan).gen = generation
     THEN /\ view' = applyAll(Head(chan).snap, pending)
          /\ pending' = <<>> /\ synced' = TRUE /\ awaiting' = FALSE
          /\ overtaken' = \E e \in ToSet(pending) : e.old
     ELSE UNCHANGED <<view, pending, synced, awaiting, overtaken>>
  /\ UNCHANGED <<core, shown, loads, notices, hidden, generation, render, frame, timer, told,
                 removed, dropped, changes, flips, lost>>

\* setSnapshot with the reply to the window's own request.
setSnapshot ==
  /\ chan # <<>> /\ Head(chan).kind = "reply" /\ chan' = Tail(chan)
  /\ view' = Head(chan).snap
  /\ overtaken' = FALSE
  /\ UNCHANGED <<core, shown, loads, notices, hidden, synced, generation, awaiting, pending, render,
                 frame, timer, told, removed, dropped, changes, flips, lost>>

\* loadSnapshotWithTimeout rejects.
LoadFails ==
  /\ awaiting /\ awaiting' = FALSE /\ lost < MaxLost /\ lost' = lost + 1
  /\ synced' = FALSE /\ pending' = <<>> /\ told' = TRUE
  /\ UNCHANGED <<core, shown, chan, loads, notices, hidden, view, generation, render, frame, timer,
                 past, changes, flips>>

flushRenderEvents ==
  /\ frame /\ frame' = FALSE
  /\ render' = <<>>
  /\ view' = IF hidden \/ view = NoView THEN view ELSE applyAll(view, render)
  /\ UNCHANGED <<core, shown, chan, loads, notices, hidden, synced, generation, awaiting, pending,
                 timer, told, past, changes, flips, lost>>

InvalidationTimer ==
  /\ timer /\ timer' = FALSE
  /\ IF hidden THEN UNCHANGED <<loads, synced, generation, awaiting, pending, render, frame, told>>
     ELSE synchronizeSnapshot
  /\ UNCHANGED <<core, shown, chan, notices, hidden, view, past, changes, flips, lost>>

\* The retry of a failed load.
Retry ==
  /\ told /\ ~hidden /\ synchronizeSnapshot
  /\ UNCHANGED <<core, shown, chan, notices, hidden, view, timer, past, changes, flips, lost>>

handleVisibilityChange ==
  /\ notices # <<>> /\ notices' = Tail(notices)
  /\ hidden' = ~Head(notices)
  /\ IF hidden'
     THEN /\ synced' = FALSE /\ pending' = <<>> /\ render' = <<>> /\ frame' = FALSE
          /\ UNCHANGED <<loads, generation, awaiting, told>>
     ELSE synchronizeSnapshot
  /\ UNCHANGED <<core, shown, chan, view, timer, past, changes, flips, lost>>

---------------------------------------------------------------------------
Init ==
  /\ \E s \in {"Disconnected", "Connected"} : main = [t |-> "ssh", state |-> s, check |-> 0, log |-> <<>>]
  /\ op = "none" /\ made = 0 /\ shown = TRUE /\ chan = <<>>
  /\ hidden \in BOOLEAN /\ notices = IF hidden THEN <<TRUE>> ELSE <<>>
  /\ view = NoView /\ synced = FALSE /\ generation = 1 /\ awaiting = TRUE /\ loads = {1}
  /\ pending = <<>> /\ render = <<>> /\ frame = FALSE /\ timer = FALSE /\ told = FALSE
  /\ removed = {} /\ dropped = {} /\ overtaken = FALSE
  /\ changes = 0 /\ flips = 0 /\ lost = 0

Next ==
  \/ StatusChanges \/ CheckDone \/ appendDiagnostic \/ Connect \/ Clear \/ Finish \/ createSnapshot \/ Flip
  \/ ReceiveEvent \/ ReceiveLoaded \/ setSnapshot \/ LoadFails \/ flushRenderEvents \/ InvalidationTimer \/ Retry
  \/ handleVisibilityChange

Spec == Init /\ [][Next]_vars

---------------------------------------------------------------------------
Settled ==
  /\ shown /\ ~hidden /\ notices = <<>> /\ chan = <<>> /\ op = "none"
  /\ ~awaiting /\ synced /\ ~frame /\ ~timer

(* When nothing is on its way, the screen shows the main process's          *)
(* transport, status, check and log, although queues were full, loads       *)
(* failed and the window was hidden.  The exceptions are exact: a check      *)
(* result or an entry that a Connect or a Clear removed while it was on its  *)
(* way may be folded over the new snapshot; an entry that a full queue of    *)
(* the next frame dropped is missing; and an event sent before the window    *)
(* was hidden that arrives after it is shown again is replayed on a snapshot *)
(* later than itself, until the next snapshot.                               *)
ViewIsCurrent ==
  Settled /\ ~overtaken =>
    /\ view.t = main.t /\ view.state = main.state
    /\ view.check = main.check \/ (main.check = 0 /\ view.check \in removed)
    /\ SelectSeq(view.log, LAMBDA x : x \notin removed)
         = SelectSeq(main.log, LAMBDA x : x \notin dropped \/ Contains(view.log, x))

(* A visible window that follows no events has a load under way or ahead,   *)
(* or says that it failed.                                                  *)
NeverSilentlyStale == shown /\ ~hidden /\ ~synced => awaiting \/ told \/ generation = MaxLoads

(* No entry of the log is on the screen twice. *)
NoEntryTwice == \A i, j \in DOMAIN view.log : view.log[i] = view.log[j] => i = j

(* The window's picture of the main process.                                *)
WindowFollows == ViewIsCurrent /\ NeverSilentlyStale /\ NoEntryTwice
=============================================================================
