------------------------------- MODULE MainWindow -------------------------------
(***************************************************************************)
(* The window of the application and what stands in for it: the tray icon   *)
(* with its close-to-tray and the release of a hidden window (tray.ts), the *)
(* creation of the window and of its interface with the reloads after a     *)
(* crash (main.ts, main-window.ts), and the invisible window that hears the *)
(* end of a Windows session while there is no other (session-end-watcher).  *)
(* Handlers of the main process run to completion; what is asynchronous is  *)
(* the creation of the window, the saving of settings, the timers and the   *)
(* callbacks put off with setImmediate.                                     *)
(***************************************************************************)
EXTENDS Naturals

CONSTANTS Platforms,   \* "win32", "darwin"
          MaxEvents    \* what the user and the system do: closes, clicks, changes, crashes

VARIABLES platform, startMin,  \* startMinimizedToTray
          phase,     \* "storage", "ready" (window creation allowed), "quitting"
          settings,  \* what storage.getSettings gives: [close, release]
          saving,    \* a change of the settings under way, or NoChange
          win,       \* "none", "visible", "hidden"
          making,    \* mainWindowCreation: "no", "asked", "loading", "dead"
          requests,  \* showOrCreateWindow waits for the creation
          early,     \* windowShowRequested
          tray,      \* the icon exists
          release,   \* scheduledRendererRelease
          watcher,   \* the stand-in window is up
          soon,      \* updateSessionEndWatcher is put off
          page,      \* of the window: "none", "loading", "app", "crash", "down"
          next,      \* the navigation put off after a crash: "none", "reload", "crash-page"
          leftDown,  \* leftDownAfterCrash
          recent,    \* the automatic reload was less than a minute ago
          wanted,    \* the window was asked for and not closed since (history)
          navs,      \* automatic navigations since the window was opened or a minute passed (history)
          events

app  == <<platform, startMin, phase, settings, saving>>
face == <<page, next, leftDown, recent, navs>>
vars == <<app, win, making, requests, early, tray, release, watcher, soon, face, wanted, events>>

NoChange == [close |-> FALSE, release |-> FALSE, on |-> FALSE]
Quitting == phase = "quitting"

(* The settings, the window, the tray and the navigation have the shapes    *)
(* main.ts gives them.                                                       *)
TypeOK ==
  /\ phase \in {"storage", "ready", "quitting"}
  /\ win \in {"none", "visible", "hidden"} /\ making \in {"no", "asked", "loading", "dead"}
  /\ page \in {"none", "loading", "app", "crash", "down"} /\ next \in {"none", "reload", "crash-page"}
  /\ {tray, release, watcher, soon, leftDown, recent, wanted, early, requests} \subseteq BOOLEAN
  /\ navs \in Nat

Init ==
  /\ platform \in Platforms /\ startMin \in BOOLEAN /\ phase = "storage"
  /\ settings \in [close : BOOLEAN, release : BOOLEAN] /\ saving = NoChange
  /\ win = "none" /\ making = "no" /\ requests = FALSE /\ early = FALSE /\ tray = FALSE /\ release = FALSE
  /\ watcher = FALSE /\ soon = FALSE
  /\ page = "none" /\ next = "none" /\ leftDown = FALSE /\ recent = FALSE /\ navs = 0
  /\ wanted = FALSE /\ events = 0

Event == events < MaxEvents /\ events' = events + 1

---------------------------------------------------------------------------
(* The tray. *)

isTrayRequired(set) == startMin \/ set.close

\* Mutant: the hidden window is not shown before the icon goes.
syncRemovesOnly(set) == FALSE

\* TrayController.sync: what becomes of the window, the icon and the release timer.
syncShows(set) == ~isTrayRequired(set) /\ win = "hidden"

sync(set) ==
  /\ release' = (release /\ set.close /\ set.release /\ isTrayRequired(set))
  /\ win' = IF syncShows(set) THEN "visible" ELSE win
  /\ \/ tray' = isTrayRequired(set)
     \/ ~tray /\ tray' = FALSE          \* the icon cannot be created

\* The interface of a window that is shown again is loaded if a crash left it down.
shownPage == IF leftDown THEN "loading" ELSE page

---------------------------------------------------------------------------
(* The stand-in for the end of the session. *)

updateSessionEndWatcher(window) == watcher' = (platform = "win32" /\ window = "none" /\ ~Quitting)

WatcherTurn ==
  /\ soon /\ soon' = FALSE
  /\ updateSessionEndWatcher(win)
  /\ UNCHANGED <<app, win, making, requests, early, tray, release, face, wanted, events>>

---------------------------------------------------------------------------
(* Start. *)

\* initializeApplicationStorage ends in the tray's sync.
StorageReady ==
  /\ phase = "storage"
  /\ sync(settings)
  /\ phase' = "ready"
  /\ \/ (~startMin \/ ~tray') /\ making' = "asked" /\ UNCHANGED watcher
     \/ startMin /\ tray' /\ making' = (IF early THEN "asked" ELSE "no") /\ updateSessionEndWatcher("none")
  /\ early' = FALSE /\ requests' = early
  /\ UNCHANGED <<platform, startMin, settings, saving, soon, face, wanted, events>>

---------------------------------------------------------------------------
(* Creation of the window. *)

\* createMainWindow makes the window (shown) and loads its interface.
WindowMade ==
  /\ making = "asked"
  /\ making' = "loading"
  /\ win' = "visible" /\ page' = "loading" /\ leftDown' = FALSE /\ recent' = FALSE /\ navs' = 0
  /\ updateSessionEndWatcher("visible")
  /\ UNCHANGED <<app, requests, early, tray, release, soon, next, wanted, events>>

\* The load ends: the window is shown if it is not, and who waited for it shows it.
WindowLoaded ==
  /\ making = "loading"
  /\ making' = "no" /\ requests' = FALSE
  /\ win' = "visible" /\ release' = FALSE
  /\ page' = IF page = "loading" THEN "app" ELSE IF win = "hidden" THEN shownPage ELSE page
  /\ leftDown' = (leftDown /\ win # "hidden") /\ navs' = IF win = "hidden" THEN 0 ELSE navs
  /\ UNCHANGED <<app, early, tray, watcher, soon, next, recent, wanted, events>>

\* The window was closed while it loaded: its creation fails, and so does the request.
CreationFails ==
  /\ making = "dead"
  /\ making' = "no" /\ requests' = FALSE
  /\ wanted' = FALSE
  /\ UNCHANGED <<app, win, early, tray, release, watcher, soon, face, events>>

\* requestWindowShow, showOrCreateWindow and TrayController.showWindow: a second
\* instance, a click on the tray or a notice, the dock's activate.
requestWindowShow ==
  /\ wanted' = TRUE
  /\ IF phase = "storage"
     THEN early' = TRUE /\ UNCHANGED <<win, making, requests, release, face>>
     ELSE /\ UNCHANGED early
          /\ IF win = "none"
             THEN /\ making' = IF making = "no" THEN "asked" ELSE making
                  /\ requests' = TRUE
                  /\ UNCHANGED <<win, release, face>>
             ELSE /\ win' = "visible" /\ release' = FALSE
                  /\ page' = IF win = "hidden" THEN shownPage ELSE page
                  /\ leftDown' = (leftDown /\ win # "hidden")
                  /\ navs' = 0
                  /\ UNCHANGED <<making, requests, next, recent>>

Show ==
  /\ ~Quitting /\ Event
  /\ requestWindowShow
  /\ UNCHANGED <<app, tray, watcher, soon>>

---------------------------------------------------------------------------
(* The window goes: closed, hidden to the tray, or released from it. *)

\* The window is destroyed.  With no window left (the stand-in counts as one)
\* the application is told, and quits unless it lives in the tray.
quitsWithoutWindows == platform # "darwin" /\ (~settings.close \/ ~tray) /\ ~watcher

Destroyed ==
  /\ win' = "none" /\ page' = "none" /\ next' = "none" /\ leftDown' = FALSE /\ release' = FALSE
  /\ making' = IF making = "loading" THEN "dead" ELSE making
  /\ soon' = TRUE
  /\ phase' = IF quitsWithoutWindows THEN "quitting" ELSE phase

hidesOnClose == tray /\ settings.close /\ ~Quitting

handleWindowClose ==
  /\ win = "visible" /\ Event
  /\ wanted' = FALSE
  /\ IF hidesOnClose
     THEN /\ win' = "hidden" /\ release' = settings.release
          /\ UNCHANGED <<page, next, leftDown, making, soon, phase>>
     ELSE Destroyed
  /\ UNCHANGED <<platform, startMin, settings, saving, requests, early, tray, watcher, recent, navs>>

\* The timer of scheduleRendererRelease.  A settings change is saved in less than its half minute.
ReleaseTimer ==
  /\ release /\ ~saving.on
  /\ IF Quitting \/ ~settings.close \/ ~settings.release \/ win # "hidden"
     THEN release' = FALSE /\ UNCHANGED <<win, page, next, leftDown, making, soon, phase>>
     ELSE Destroyed
  /\ UNCHANGED <<platform, startMin, settings, saving, requests, early, tray, watcher, recent, navs, wanted, events>>

---------------------------------------------------------------------------
(* Settings. *)

updateSettings ==
  /\ phase = "ready" /\ win = "visible" /\ page = "app" /\ ~saving.on /\ Event
  /\ \E c, r \in BOOLEAN : saving' = [close |-> c, release |-> r, on |-> TRUE]
  /\ UNCHANGED <<platform, startMin, phase, settings, win, making, requests, early, tray, release, watcher, soon, face,
                 wanted>>

SettingsSaved ==
  /\ saving.on /\ saving' = NoChange
  /\ settings' = [close |-> saving.close, release |-> saving.release]
  /\ IF settings' # settings
     THEN sync(settings') /\ page' = (IF syncShows(settings') THEN shownPage ELSE page)
                          /\ leftDown' = (leftDown /\ ~syncShows(settings'))
     ELSE UNCHANGED <<release, win, tray, page, leftDown>>
  /\ UNCHANGED <<platform, startMin, phase, making, requests, early, watcher, soon, next, recent, navs, wanted, events>>

---------------------------------------------------------------------------
(* The interface crashes.                                                   *)

\* RendererCrashPolicy.next
crashDecision(cannotStart) ==
  IF page = "crash" \/ cannotStart THEN "stay" ELSE IF recent THEN "crash-page" ELSE "reload"

RendererGone ==
  /\ ~Quitting /\ page \in {"loading", "app", "crash"} /\ Event
  /\ \E cannotStart \in BOOLEAN :
       LET decision == crashDecision(cannotStart)
       IN  /\ page' = "down"
           /\ leftDown' = (leftDown \/ decision = "stay")
           /\ next' = IF decision = "stay" THEN "none" ELSE decision
           /\ recent' = (recent \/ decision = "reload")
  /\ UNCHANGED <<app, win, making, requests, early, tray, release, watcher, soon, navs, wanted>>

Navigate ==
  /\ next # "none" /\ next' = "none"
  /\ page' = IF next = "reload" THEN "loading" ELSE "crash"
  /\ leftDown' = IF next = "reload" THEN FALSE ELSE leftDown
  /\ navs' = navs + 1
  /\ UNCHANGED <<app, win, making, requests, early, tray, release, watcher, soon, recent, wanted, events>>

PageLoaded ==
  /\ page = "loading" /\ making # "loading" /\ page' = "app"
  /\ UNCHANGED <<app, win, making, requests, early, tray, release, watcher, soon, next, leftDown, recent, navs, wanted, events>>

\* "Reload interface" on the crash page.
ReloadClicked ==
  /\ page = "crash" /\ win = "visible" /\ Event
  /\ page' = "loading" /\ leftDown' = FALSE /\ navs' = 0
  /\ UNCHANGED <<app, win, making, requests, early, tray, release, watcher, soon, next, recent, wanted>>

\* RENDERER_CRASH_RELOAD_WINDOW_MS pass.
MinutePasses ==
  /\ recent /\ next = "none" /\ recent' = FALSE /\ navs' = 0
  /\ UNCHANGED <<app, win, making, requests, early, tray, release, watcher, soon, page, next, leftDown, wanted, events>>

---------------------------------------------------------------------------
quitApplication ==
  /\ phase = "ready" /\ phase' = "quitting" /\ release' = FALSE
  /\ UNCHANGED <<platform, startMin, settings, saving, win, making, requests, early, tray, watcher, soon, face, wanted,
                 events>>

Next ==
  \/ WatcherTurn \/ StorageReady \/ WindowMade \/ WindowLoaded \/ CreationFails \/ Show
  \/ handleWindowClose \/ ReleaseTimer \/ updateSettings \/ SettingsSaved
  \/ RendererGone \/ Navigate \/ PageLoaded \/ ReloadClicked \/ MinutePasses
  \/ quitApplication

Spec == Init /\ [][Next]_vars

---------------------------------------------------------------------------
(* The running application can be reached: its window is visible or coming, *)
(* or its icon is in the tray (macOS keeps it in the dock).                 *)
AlwaysReachable == phase = "ready" /\ platform # "darwin" => win = "visible" \/ tray \/ making # "no"

(* A window the user asked for is visible or still being made; if it is     *)
(* not, its creation failed and that was said.                              *)
AskedWindowIsShown == wanted /\ phase = "ready" => win = "visible" \/ making # "no"

(* While a Windows session may end, a window hears of it or is about to.    *)
SessionEndIsHeard == phase = "ready" /\ platform = "win32" => win # "none" \/ watcher \/ soon \/ making # "no"

(* Crashes never make the interface load over and over: by itself it is     *)
(* loaded once in a minute, then the crash page is shown, and no more; and  *)
(* an interface left down is loaded again when the window is opened.        *)
CrashesEnd ==
  /\ navs <= 2
  /\ page = "down" => next # "none" \/ leftDown

(* The window and the tray: reachable, shown when asked, heard of, and no   *)
(* crash loop.                                                              *)
ApplicationIsReachable == AlwaysReachable /\ AskedWindowIsShown /\ SessionEndIsHeard /\ CrashesEnd
=============================================================================
