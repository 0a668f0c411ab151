--------------------------- MODULE MCApplication ----------------------------
(***************************************************************************)
(* What the application keeps, shows and updates, for TLC.                 *)
(* They share no state: a behaviour chooses one of them and is a behaviour  *)
(* of that one, so each is explored exactly as it would be by itself.  The  *)
(* bounds of each are in its INSTANCE.                                      *)
(***************************************************************************)
EXTENDS Naturals, TLC

CONSTANTS Hosts, Values, \* sets of model values
          NoRelease

VARIABLES
  which, \* the component explored
  storageStore, secrets, storeFile, secretsFile, backups, stale, storagePhase, point, storageNext,
  later, dropping, learned, saved, unsaved, torn, leftBehind, storageFaults,
  storageCrashes, damage,
  build, latest, eTag, info, updateDownload, updateCheck, answer, download, asset, content,
  waiting, updateFiles, parts, updateSeen, updateTold, unkept, published, updateAsked, updateFaults,
  updateCrashes,
  platform, startMin, windowPhase, settings, saving, win, making, requests, early, tray, release,
  watcher, soon, page, windowNext, leftDown, recent, windowWanted, navs, events,
  pageStore, live, switches, calls, replies, todo, mounted, pageSeen, drafts, ref, leaving,
  turningOff, busy, dialog, undo, badge, settled, retryOf, pageWanted, left, reading, failed, blind,
  cut, acts, pageFaults,
  logFiles, size, handle, queue, at, turn, logNext, written, removals, moved, clears, logFaults, logCrashes

StorageSymmetry == Permutations(Hosts) \cup Permutations(Values)

Releases ==
  {[version |-> 0, archs |-> {"x64"}, build |-> 0], [version |-> 1, archs |-> {"x64"}, build |-> 0],
   [version |-> 1, archs |-> {"x64"}, build |-> 1],
   [version |-> 2, archs |-> {"x64", "arm64"}, build |-> 0]}
Builds ==
  {[platform |-> "windows", kind |-> "portable", arch |-> "x64", translated |-> TRUE],
   [platform |-> "other", kind |-> "portable", arch |-> "x64", translated |-> FALSE]}
    \cup [platform : {"linux"}, kind : {"mounted", "extracted", "undirected", "package", "child"},
          arch : {"x64"}, translated : {FALSE}]

Storage == INSTANCE AppStorage WITH
  Hosts <- Hosts, Values <- Values, MaxTroubles <- 2, store <- storageStore, phase <- storagePhase,
  next <- storageNext, faults <- storageFaults, crashes <- storageCrashes

Update == INSTANCE AppUpdate WITH
  None <- NoRelease, Releases <- Releases, Builds <- Builds, MaxPublished <- 2, MaxAsked <- 3,
  MaxFaults <- 1, MaxCrashes <- 1, check <- updateCheck, files <- updateFiles, seen <- updateSeen,
  told <- updateTold, asked <- updateAsked, faults <- updateFaults, crashes <- updateCrashes

Window == INSTANCE MainWindow WITH
  Platforms <- {"win32", "darwin"}, MaxEvents <- 5, phase <- windowPhase, next <- windowNext,
  wanted <- windowWanted

Page == INSTANCE RoutingPage WITH
  Rule <- {"r1"}, New <- {"n"}, Imported <- {"n"}, MaxActs <- 2, MaxFaults <- 1,
  store <- pageStore, seen <- pageSeen, wanted <- pageWanted, faults <- pageFaults

Log == INSTANCE RotatingFileLog WITH
  Backups <- 3, MaxSize <- 1, MaxEntries <- 6, MaxClears <- 1, MaxFaults <- 2, MaxCrashes <- 1,
  files <- logFiles, next <- logNext, faults <- logFaults, crashes <- logCrashes

-----------------------------------------------------------------------------
storageVars ==
  <<storageStore, secrets, storeFile, secretsFile, backups, stale, storagePhase, point,
    storageNext, later, dropping, learned, saved, unsaved, torn, leftBehind, storageFaults,
    storageCrashes, damage>>
updateVars ==
  <<build, latest, eTag, info, updateDownload, updateCheck, answer, download, asset, content,
    waiting, updateFiles, parts, updateSeen, updateTold, unkept, published, updateAsked, updateFaults,
    updateCrashes>>
windowVars ==
  <<platform, startMin, windowPhase, settings, saving, win, making, requests, early, tray, release,
    watcher, soon, page, windowNext, leftDown, recent, windowWanted, navs, events>>
pageVars ==
  <<pageStore, live, switches, calls, replies, todo, mounted, pageSeen, drafts, ref, leaving,
    turningOff, busy, dialog, undo, badge, settled, retryOf, pageWanted, left, reading, failed,
    blind, cut, acts, pageFaults>>
logVars ==
  <<logFiles, size, handle, queue, at, turn, logNext, written, removals, moved, clears,
    logFaults, logCrashes>>

(* A component that is not the one explored rests at zeros. *)
StorageRests ==
  /\ storageStore = 0 /\ secrets = 0 /\ storeFile = 0 /\ secretsFile = 0 /\ backups = 0 /\ stale = 0
  /\ storagePhase = 0 /\ point = 0 /\ storageNext = 0 /\ later = 0 /\ dropping = 0 /\ learned = 0 /\ saved = 0
  /\ unsaved = 0 /\ torn = 0 /\ leftBehind = 0 /\ storageFaults = 0 /\ storageCrashes = 0 /\ damage = 0
UpdateRests ==
  /\ build = 0 /\ latest = 0 /\ eTag = 0 /\ info = 0 /\ updateDownload = 0 /\ updateCheck = 0 /\ answer = 0
  /\ download = 0 /\ asset = 0 /\ content = 0 /\ waiting = 0 /\ updateFiles = 0 /\ parts = 0 /\ updateSeen = 0
  /\ updateTold = 0 /\ unkept = 0 /\ published = 0 /\ updateAsked = 0 /\ updateFaults = 0 /\ updateCrashes = 0
WindowRests ==
  /\ platform = 0 /\ startMin = 0 /\ windowPhase = 0 /\ settings = 0 /\ saving = 0 /\ win = 0 /\ making = 0
  /\ requests = 0 /\ early = 0 /\ tray = 0 /\ release = 0 /\ watcher = 0 /\ soon = 0 /\ page = 0 /\ windowNext = 0
  /\ leftDown = 0 /\ recent = 0 /\ windowWanted = 0 /\ navs = 0 /\ events = 0
PageRests ==
  /\ pageStore = 0 /\ live = 0 /\ switches = 0 /\ calls = 0 /\ replies = 0 /\ todo = 0 /\ mounted = 0
  /\ pageSeen = 0 /\ drafts = 0 /\ ref = 0 /\ leaving = 0 /\ turningOff = 0 /\ busy = 0 /\ dialog = 0 /\ undo = 0
  /\ badge = 0 /\ settled = 0 /\ retryOf = 0 /\ pageWanted = 0 /\ cut = 0
  /\ left = 0 /\ reading = 0 /\ failed = 0 /\ blind = 0 /\ acts = 0 /\ pageFaults = 0
LogRests ==
  /\ logFiles = 0 /\ size = 0 /\ handle = 0 /\ queue = 0 /\ at = 0 /\ turn = 0 /\ logNext = 0
  /\ written = 0 /\ removals = 0 /\ moved = 0
  /\ clears = 0 /\ logFaults = 0 /\ logCrashes = 0

Init ==
  \/ /\ which = "storage" /\ Storage!Init
     /\ UpdateRests /\ WindowRests /\ PageRests /\ LogRests
  \/ /\ which = "update" /\ Update!Init
     /\ StorageRests /\ WindowRests /\ PageRests /\ LogRests
  \/ /\ which = "window" /\ Window!Init
     /\ StorageRests /\ UpdateRests /\ PageRests /\ LogRests
  \/ /\ which = "page" /\ Page!Init
     /\ StorageRests /\ UpdateRests /\ WindowRests /\ LogRests
  \/ /\ which = "log" /\ Log!Init
     /\ StorageRests /\ UpdateRests /\ WindowRests /\ PageRests

Next ==
  \/ /\ which = "storage" /\ Storage!Next
     /\ UNCHANGED <<which, updateVars, windowVars, pageVars,
        logVars>>
  \/ /\ which = "update" /\ Update!Next
     /\ UNCHANGED <<which, storageVars, windowVars, pageVars,
        logVars>>
  \/ /\ which = "window" /\ Window!Next
     /\ UNCHANGED <<which, storageVars, updateVars, pageVars,
        logVars>>
  \/ /\ which = "page" /\ Page!Next
     /\ UNCHANGED <<which, storageVars, updateVars, windowVars, logVars>>
  \/ /\ which = "log" /\ Log!Next
     /\ UNCHANGED <<which, storageVars, updateVars, windowVars, pageVars>>

vars == <<which, storageVars, updateVars, windowVars, pageVars,
          logVars>>

Spec == Init /\ [][Next]_vars

-----------------------------------------------------------------------------
(* Properties. *)

\* Whatever write fails and wherever the process dies, memory and the two
\* files of app-storage.ts agree between two mutations, no reference dangles,
\* a key matches its fingerprint, trust in a host key is trust in the server
\* as it is saved now, and no saved secret is deleted for good.  Excepted are
\* the one key and fingerprint that a process left which died between the two
\* writes of a save, or of its rollback; the references a startFresh could not
\* drop from the store; and the old value of a record that a failed save has
\* replaced and not put back when the process dies.
SavedIsKept == which = "storage" => Storage!TypeOK /\ Storage!SavedIsKept

\* What is offered, shown and kept as an update is a file of the latest
\* release, verified and fit to replace this build, although checks,
\* downloads, withdrawn releases, failures and crashes interleave; except that
\* a release whose validator could not be saved stays offered after it was
\* withdrawn, while the older validator is answered with "not modified"
\* (app-update-controller.ts, github-app-update.ts).
UpdatesAreTrue == which = "update" => Update!TypeOK /\ Update!UpdatesAreTrue

\* The running application always has a window or an icon, a window that was
\* asked for is shown, the end of the Windows session is heard of while the
\* window is released, and crashes of the interface do not loop (main.ts).
ApplicationIsReachable == which = "window" => Window!TypeOK /\ Window!ApplicationIsReachable

\* What the user last asked of the routing page is what is saved and shown,
\* although saves, downloads, delete animations, dialogs and Undo overlap,
\* and the page lets no change through that ends the session for want of
\* targets.  Excepted are a kind of change whose last save failed; rules
\* changed on a page opened before the one left had finished, or by the Undo
\* and the deletes of the one left; and a change decided while another was
\* on its way unseen (useRoutingController.ts).
RoutingChangesAreKept == which = "page" => Page!TypeOK /\ Page!RoutingChangesAreKept

\* The log and its archives hold the newest entries in the order they were
\* made and within their size, wherever a rotation fails or the process dies.
\* Older entries go with the oldest archive alone, which a rotation takes
\* also when it fails or dies after that (rotating-file-log.ts).
LogIsKept == which = "log" => Log!TypeOK /\ Log!LogIsKept

=============================================================================
