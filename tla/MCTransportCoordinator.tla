----------------------- MODULE MCTransportCoordinator -----------------------
(***************************************************************************)
(* The transport queue of the main process, what it tells the user of the   *)
(* tunnel, and what it tells the window, for TLC.  They share no state here *)
(* (TunnelNotices runs its intents one by one, whatever the queue would     *)
(* make of them; RendererSnapshot has statuses of its own): a behaviour     *)
(* chooses one and is a behaviour of that one, while the others rest.       *)
(***************************************************************************)
EXTENDS TransportCoordinator

VARIABLES
  which, \* the component explored
  noticesActive, status, job, asks, tracker, settle, lost, slot, posted, check, key, probe, verify,
  verified, trayTimer, menu, store, last, auto, ended, moves, asked,
  main, op, made, shown, chan, loads, visibility, hidden, view, synced, generation, awaiting,
  pending, render, frame, timer, told, removed, overtaken, dropped, changes, flips, snapshotLost

Notices == INSTANCE TunnelNotices WITH
  Probe <- {1}, MaxConnections <- 2, MaxMoves <- 3, MaxAsks <- 2, active <- noticesActive

Snapshot == INSTANCE RendererSnapshot WITH
  maxEvents <- 2, MaxChanges <- 2, MaxLoads <- 2, MaxFlips <- 2, MaxLost <- 1,
  notices <- visibility, lost <- snapshotLost

-----------------------------------------------------------------------------
noticesVars ==
  <<noticesActive, status, job, asks, tracker, settle, lost, slot, posted, check, key, probe, verify,
    verified, trayTimer, menu, store, last, auto, ended, moves, asked>>
snapshotVars ==
  <<main, op, made, shown, chan, loads, visibility, hidden, view, synced, generation, awaiting,
    pending, render, frame, timer, told, removed, overtaken, dropped, changes, flips, snapshotLost>>

NoticesRest ==
  /\ noticesActive = 0 /\ status = 0 /\ job = 0 /\ asks = 0 /\ tracker = 0 /\ settle = 0 /\ lost = 0
  /\ slot = 0 /\ posted = 0 /\ check = 0 /\ key = 0 /\ probe = 0 /\ verify = 0 /\ verified = 0
  /\ trayTimer = 0 /\ menu = 0 /\ store = 0 /\ last = 0 /\ auto = 0 /\ ended = 0 /\ moves = 0 /\ asked = 0

SnapshotRests ==
  /\ main = 0 /\ op = 0 /\ made = 0 /\ shown = 0 /\ chan = 0 /\ loads = 0 /\ visibility = 0 /\ hidden = 0
  /\ view = 0 /\ synced = 0 /\ generation = 0 /\ awaiting = 0 /\ pending = 0 /\ render = 0 /\ frame = 0
  /\ timer = 0 /\ told = 0 /\ removed = 0 /\ overtaken = 0 /\ dropped = 0 /\ changes = 0 /\ flips = 0
  /\ snapshotLost = 0

MCInit ==
  /\ Init
  /\ \/ which = "intents" /\ NoticesRest /\ SnapshotRests
     \/ which = "notices" /\ Notices!Init /\ SnapshotRests /\ targets = FALSE
     \/ which = "snapshot" /\ Snapshot!Init /\ NoticesRest /\ targets = FALSE

MCNext ==
  \/ which = "intents" /\ Next /\ UNCHANGED <<which, noticesVars, snapshotVars>>
  \/ which = "notices" /\ Notices!Next /\ UNCHANGED <<which, vars, snapshotVars>>
  \/ which = "snapshot" /\ Snapshot!Next /\ UNCHANGED <<which, vars, noticesVars>>

MCSpec == MCInit /\ [][MCNext]_<<which, vars, noticesVars, snapshotVars>>

-----------------------------------------------------------------------------
(* Properties. *)

\* A notice, a tray menu and a check result are about the session that runs:
\* the Stop of a notice ends the drop it announced and no other, a late check
\* is not shown for a later session, and every connection is verified once
\* (main.ts, session-transitions.ts).
NoticesAreTrue == which = "notices" => Notices!TypeOK /\ Notices!NoticesAreTrue

\* A window that follows the main process's events shows its state, although
\* events overtake the snapshot they belong to, are folded and dropped at a
\* full queue and stop while the window is hidden; one that does not follow
\* them loads again or says so (useSnapshot.ts, renderer-event-queue.ts).
\* Excepted are a check and entries that a Connect or a Clear removes while
\* they are on their way, entries a full queue of the next frame drops, and
\* the snapshot on which an event from before the window was hidden is
\* replayed.
WindowFollows == which = "snapshot" => Snapshot!TypeOK /\ Snapshot!WindowFollows
=============================================================================
