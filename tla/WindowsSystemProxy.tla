------------------------- MODULE WindowsSystemProxy -------------------------
(***************************************************************************)
(* The Windows proxy settings the application borrows and gives back:      *)
(* src/src/core/network/windows-system-proxy.ts, with its callers at the   *)
(* start, the quit and the end of the session in src/src/main/main.ts.     *)
(*                                                                         *)
(* Both tunnel services share one manager.  Its operations run one at a    *)
(* time (operationQueue); a call made meanwhile begins when that one has   *)
(* ended.  An operation is the sequence todo of its awaited steps: any of  *)
(* them may fail, and the process may end between any two.  A registry     *)
(* command that reports a failure is taken to have changed nothing.        *)
(*                                                                         *)
(* A registry value is a tuple led by its kind.  A PAC URL is              *)
(* <<"pac", endpoint, version>>, version 0 for the plain path.  The text   *)
(* of a PAC is a number, 0 for none; its hash is the number itself.        *)
(***************************************************************************)
EXTENDS Naturals, Sequences, SequencesExt

CONSTANTS
  Endpoints,     \* local ports a PAC server may get
  Pacs,          \* PAC texts the routing settings can produce
  Forms,         \* ProxyOverrides the rules can ask for: "full", "short"
  Ports,         \* ports of the tunnel's local listener
  MaxRetained,   \* MAX_RETAINED_PAC_ENDPOINTS
  MaxVersions,   \* MAX_SERVED_PAC_VERSIONS
  MaxFaults,     \* steps that fail in one run of the application
  MaxTroubles    \* steps that fail, ends of the process and spoilt journals, together

(* The earlier run whose values Init may find used port 1 and all bypass entries. *)
ASSUME WindowsSystemProxyAssumption ==
  /\ MaxRetained \in Nat /\ MaxVersions \in Nat \ {0}
  /\ MaxFaults \in Nat /\ MaxTroubles \in Nat
  /\ 1 \in Ports /\ "full" \in Forms

VARIABLES
  reg,        \* the registry values
  told,       \* PAC URLs a WinINet client may hold since the last refresh
  journal,    \* for each directory, the journal file in it
  legacyFirst,\* the journal of the old xray directory is the older one
  lost,       \* history: the journal with the user's settings became unreadable
  outlived,   \* history: that journal was removed while a later one stayed
  life,       \* of the process: "down", "recovering" or "up"
  leaving,    \* "no", or "session" or "deadline": it gave the proxy back to quit
  op, req,    \* the operation running and its request
  todo, aim,  \* its remaining steps, and the values they write
  dir,        \* the directory whose journal it ends by removing
  held,       \* this.snapshot
  mem,        \* the manager's other fields
  open,       \* PAC endpoints that are listening
  text,       \* for each endpoint, the text it was made for; 0: the current one
  stale,      \* endpoints of a dead run that some URL still names
  turn,       \* the endpoint rotation under way in apply
  troubles, faults   \* so far, and steps of this run that failed

machine == <<reg, told, journal, legacyFirst, lost, outlived>>
running == <<op, req, todo, aim, dir>>
manager == <<held, mem, open, text, stale, turn>>
bounds  == <<troubles, faults>>
vars    == <<machine, life, leaving, running, manager, bounds>>

-----------------------------------------------------------------------------
(* Registry values, snapshots and journals *)

Names == {"enable", "server", "override", "url", "detect"}

None == <<"none">>
Off  == <<"dword", 0>>
On   == <<"dword", 1>>
Own  == <<"user">>

(* The user's own settings: a static proxy with its exceptions, a setup     *)
(* script and automatic detection, so that every value has to come back.    *)
user == [enable |-> On, server |-> Own, override |-> Own, url |-> Own, detect |-> On]

Blank == [n \in Names |-> None]

Nothing == [some |-> FALSE, snap |-> Blank]
Some(s) == [some |-> TRUE, snap |-> s]

Absent   == [state |-> "absent", snap |-> Blank]
Spoiled  == [state |-> "spoiled", snap |-> Blank]
Usable(s) == [state |-> "usable", snap |-> s]

IsShadowPac(u) == u[1] = "pac"

(* isShadowStaticProxy: a loopback proxy beside the bypass entries Shadow *)
(* writes, all of them or one of the shorter forms.                       *)
IsShadowStatic(server, override) == server[1] = "listener" /\ override[1] = "local"

(* withoutAppOwnedProxyValues *)
WithoutAppOwned(s, port) ==
  LET leftover == IsShadowStatic(s.server, s.override)
      own      == leftover \/ s.server = <<"listener", port>>
  IN [s EXCEPT !.server   = IF own THEN None ELSE @,
               !.enable   = IF own /\ @ # None THEN Off ELSE @,
               !.override = IF leftover THEN None ELSE @,
               !.url      = IF IsShadowPac(@) THEN None ELSE @]

(* What clearAppOwnedProxyValues leaves of the registry. *)
Cleared(r) ==
  LET static == IsShadowStatic(r.server, r.override)
  IN [r EXCEPT !.url      = IF IsShadowPac(@) THEN None ELSE @,
               !.enable   = IF static THEN Off ELSE @,
               !.server   = IF static THEN None ELSE @,
               !.override = IF static THEN None ELSE @]

(* The directories whose journals are usable, and the one of them with the *)
(* earlier modification time.                                              *)
Candidates == {d \in DOMAIN journal : journal[d].state = "usable"}

Oldest ==
  IF "routing" \notin Candidates \/ (legacyFirst /\ "xray" \in Candidates) THEN "xray" ELSE "routing"

-----------------------------------------------------------------------------
(* The manager's memory, its PAC endpoints and what they answer *)

FreshMem ==
  [pac |-> 0, retained |-> <<>>, fallback |-> {}, content |-> 0, published |-> 0,
   versions |-> <<>>, registryUrl |-> None, registeredUrl |-> None,
   pendingUrl |-> None, static |-> None, dirty |-> FALSE]

(* server = 0: apply has not started its PAC server yet, or no longer needs *)
(* to undo that it did.                                                     *)
NoTurn == [server |-> 0, previous |-> 0, content |-> 0]

(* The text a request for a URL of an open endpoint is answered with. *)
Served(u) ==
  CASE u[3] # 0 -> IF u[3] \in Range(mem.versions) THEN u[3] ELSE mem.content
    [] u[3] = 0 /\ u[2] \in mem.fallback ->
         IF mem.published # 0 THEN mem.published ELSE mem.content
    [] OTHER -> IF text[u[2]] # 0 THEN text[u[2]] ELSE mem.content

(* rememberPacVersion: the newest is kept, and what is registered. *)
Remembered(m, pac) ==
  LET seq  == Append(SelectSeq(m.versions, LAMBDA v : v # pac), pac)
      kept == {pac} \cup {u[3] : u \in {x \in {m.registeredUrl, m.registryUrl} : IsShadowPac(x)}}
      out  == {i \in 1..Len(seq) : seq[i] \notin kept}
  IN IF Len(seq) <= MaxVersions \/ out = {} THEN seq
     ELSE RemoveAt(seq, CHOOSE i \in out : \A j \in out : i <= j)

(* publishRetainedPacServers: the endpoints kept for stale clients answer  *)
(* with the published text; the oldest beyond the limit are closed.        *)
Retained(seq, active) == SelectSeq(seq, LAMBDA e : e # active)

Expired(seq) ==
  Range(SubSeq(seq, 1, IF Len(seq) > MaxRetained THEN Len(seq) - MaxRetained ELSE 0))

PublishRetained(m, active) ==
  LET seq == Retained(m.retained, active)
      out == Expired(seq)
  IN [m EXCEPT !.retained = SelectSeq(seq, LAMBDA e : e \notin out),
               !.fallback = ((@ \ {active}) \cup Range(seq)) \ out]

AddRetained(m, e) ==
  [m EXCEPT !.retained = IF e = 0 \/ e \in Range(@) THEN @ ELSE Append(@, e)]

(* stopPacServer *)
Stopped(m) ==
  [m EXCEPT !.pac = 0, !.retained = <<>>, !.fallback = {}, !.content = 0, !.published = 0,
            !.versions = <<>>, !.registeredUrl = None, !.pendingUrl = None]

StopClosed(m) == open \ ({m.pac} \cup Range(m.retained))

-----------------------------------------------------------------------------
(* The programs of the operations *)

RestoreSteps ==
  <<"enable", "server", "override", "url", "forget", "detect", "notify", "stop", "rmJournal">>

StaticSteps ==
  <<"enable", "server", "url", "override", "forget", "detect", "notify">>

PacSteps == <<"enable", "server", "detect", "url", "notify">>

Steps ==
  Range(RestoreSteps) \cup
  {"survey", "dropNewer", "lookup", "capture", "persist", "publish", "settle",
   "writePac", "republish", "serve", "registerPac"}

Requests ==
  [mode : {"static"}, port : Ports, form : Forms, pac : {0}, rotate : {FALSE},
   changed : {FALSE}, force : {FALSE}] \cup
  [mode : {"pac"}, port : Ports, form : {"full"}, pac : Pacs, rotate : BOOLEAN,
   changed : {FALSE}, force : {FALSE}]

NoRequest == [mode |-> "none", port |-> 0, form |-> "full", pac |-> 0, rotate |-> FALSE,
              changed |-> FALSE, force |-> FALSE]

StaticAim(r) ==
  [enable |-> On, server |-> <<"listener", r.port>>, override |-> <<"local", r.form>>,
   url |-> None, detect |-> Off]

PacAim(url) ==
  [enable |-> Off, server |-> None, override |-> None, url |-> url, detect |-> Off]

(* The operation takes its next step, which leads to the steps rest. *)
Doing(step) == todo # <<>> /\ Head(todo) = step

Continue(rest, values) ==
  IF rest = <<>>
    THEN op' = "none" /\ todo' = <<>> /\ aim' = Blank /\ life' = "up" /\ UNCHANGED leaving
    ELSE todo' = rest /\ aim' = values /\ UNCHANGED <<op, life, leaving>>

(* At the end of an apply or a restore that succeeded the state is clean. *)
Clean(m) == IF Len(todo) = 1 /\ op # "recover" THEN [m EXCEPT !.dirty = FALSE] ELSE m

-----------------------------------------------------------------------------
(* Registry steps *)

(* restoreValue, regAddString, regAddDword and regDeleteValue. *)
WriteValue(n) ==
  /\ Doing(n)
  /\ reg' = [reg EXCEPT ![n] = aim[n]]
  /\ mem' = [mem EXCEPT !.registryUrl = IF n = "url" /\ IsShadowPac(aim.url) THEN aim.url ELSE @]
  /\ Continue(Tail(todo), aim)
  /\ UNCHANGED <<told, journal, legacyFirst, lost, outlived, req, dir, held, open, text, stale, turn>>
  /\ UNCHANGED bounds

(* The PAC URL in the registry is no longer this manager's. *)
Forget ==
  /\ Doing("forget")
  /\ mem' = [mem EXCEPT !.registryUrl = None, !.pendingUrl = None]
  /\ Continue(Tail(todo), aim)
  /\ UNCHANGED <<machine, req, dir, held, open, text, stale, turn, bounds>>

(* notifyWindowsProxyChanged: every client has read the registry again. *)
Notify ==
  /\ Doing("notify")
  /\ told' = {reg.url}
  /\ Continue(Tail(todo), aim)
  /\ UNCHANGED <<reg, journal, legacyFirst, lost, outlived, req, dir, manager, bounds>>

-----------------------------------------------------------------------------
(* restore *)

(* The snapshot to put back: the one in memory, or the journal's; an        *)
(* unreadable journal is set aside.  apply looks only for a journal an      *)
(* earlier run left (restorePersistedSnapshot).                             *)
Lookup ==
  /\ Doing("lookup")
  /\ LET j    == journal["routing"]
         snap == IF held.some THEN held.snap ELSE j.snap
     IN IF IF held.some THEN op = "restore" ELSE j.state = "usable"
          THEN /\ Continue(RestoreSteps \o Tail(todo), snap)
               /\ UNCHANGED <<journal, mem, open>>
          ELSE /\ journal' = [journal EXCEPT !["routing"] = IF held.some THEN @ ELSE Absent]
               /\ IF op = "restore"
                    THEN mem' = Clean(Stopped(mem)) /\ open' = StopClosed(mem)
                    ELSE UNCHANGED <<mem, open>>
               /\ Continue(Tail(todo), aim)
  /\ UNCHANGED <<reg, told, legacyFirst, lost, outlived, req, dir, held, text, stale, turn, bounds>>

StopPac ==
  /\ Doing("stop")
  /\ mem' = [Stopped(mem) EXCEPT !.registryUrl = None, !.static = None, !.dirty = FALSE]
  /\ open' = StopClosed(mem)
  /\ held' = Nothing
  /\ Continue(Tail(todo), aim)
  /\ UNCHANGED <<machine, req, dir, text, stale, turn, bounds>>

RmJournal ==
  /\ Doing("rmJournal")
  /\ journal' = [journal EXCEPT ![dir] = Absent]
  /\ outlived' = (outlived \/ (dir = Oldest /\ Candidates # {dir}))
  /\ mem' = Clean(mem)
  /\ Continue(Tail(todo), aim)
  /\ UNCHANGED <<reg, told, legacyFirst, lost, req, dir, held, open, text, stale, turn, bounds>>

(* restore(), and the restore a PAC server's own error queues. *)
BeginRestore ==
  /\ life = "up" /\ op = "none"
  /\ op' = "restore" /\ todo' = <<"lookup">> /\ dir' = "routing" /\ req' = NoRequest
  /\ UNCHANGED <<machine, life, leaving, aim, manager, bounds>>

-----------------------------------------------------------------------------
(* apply *)

BeginApply(r) ==
  /\ life = "up" /\ op = "none" /\ leaving = "no"
  /\ op' = "apply" /\ req' = r /\ todo' = <<"lookup", "capture", "publish">> /\ dir' = "routing"
  /\ UNCHANGED <<machine, life, leaving, aim, manager, bounds>>

(* readProxySnapshot, without what Shadow itself left there *)
Capture ==
  /\ Doing("capture")
  /\ IF held.some
       THEN Continue(Tail(todo), aim)
       ELSE Continue(<<"persist">> \o Tail(todo), WithoutAppOwned(reg, req.port))
  /\ UNCHANGED <<machine, req, dir, manager, bounds>>

(* persistProxySnapshot: on disk, by a rename, before the registry changes. *)
Persist ==
  /\ Doing("persist")
  /\ journal' = [journal EXCEPT !["routing"] = Usable(aim)]
  /\ legacyFirst' = TRUE
  /\ held' = Some(aim)
  /\ Continue(Tail(todo), aim)
  /\ UNCHANGED <<reg, told, lost, outlived, req, dir, mem, open, text, stale, turn, bounds>>

(* A mutant: the PAC server is stopped before the registry is switched. *)
PublishStaticStopsFirst ==
  /\ Doing("publish") /\ req.mode = "static"
  /\ mem' = [Stopped(mem) EXCEPT !.static = None]
  /\ open' = StopClosed(mem)
  /\ Continue(StaticSteps \o <<"settle">>, StaticAim(req))
  /\ UNCHANGED <<machine, req, dir, held, text, stale, turn, bounds>>

PublishStatic ==
  /\ Doing("publish") /\ req.mode = "static"
  /\ LET write == mem.dirty \/ mem.static # <<"static", req.port, req.form>> \/ mem.pac # 0
     IN /\ mem' = [mem EXCEPT !.static = IF write THEN None ELSE @]
        /\ Continue((IF write THEN StaticSteps ELSE <<>>) \o <<"settle">>, StaticAim(req))
  /\ UNCHANGED <<machine, req, dir, held, open, text, stale, turn, bounds>>

(* The old PAC endpoint outlives the switch to the static proxy. *)
Settle ==
  /\ Doing("settle")
  /\ mem' = Clean([Stopped(mem) EXCEPT !.static = <<"static", req.port, req.form>>])
  /\ open' = StopClosed(mem)
  /\ Continue(Tail(todo), aim)
  /\ UNCHANGED <<machine, req, dir, held, text, stale, turn, bounds>>

(* A PAC that changed is written first.  A rotation whose broadcast failed  *)
(* is broadcast again (retryPendingPacNotification) before another endpoint *)
(* is opened, and serves an unchanged PAC itself.                           *)
PublishPac ==
  /\ Doing("publish") /\ req.mode = "pac"
  /\ LET changed == req.pac # mem.content
         retry   == /\ req.rotate /\ mem.pac # 0
                    /\ mem.pendingUrl # None /\ mem.pendingUrl = mem.registryUrl
     IN /\ req' = [req EXCEPT !.changed = changed, !.force = req.rotate /\ (changed \/ ~retry)]
        /\ Continue((IF changed THEN <<"writePac">> ELSE <<>>)
                      \o (IF retry THEN PacSteps \o <<"republish">> ELSE <<>>) \o <<"serve">>,
                    PacAim(mem.pendingUrl))
  /\ UNCHANGED <<machine, dir, manager, bounds>>

(* The PAC file is read by nobody; writing it may fail. *)
WritePac ==
  /\ Doing("writePac")
  /\ Continue(Tail(todo), aim)
  /\ UNCHANGED <<machine, req, dir, manager, bounds>>

Republish ==
  /\ Doing("republish")
  /\ LET m == PublishRetained([mem EXCEPT !.static = None, !.registeredUrl = mem.pendingUrl,
                                          !.pendingUrl = None, !.dirty = FALSE,
                                          !.published = mem.content], mem.pac)
     IN mem' = m /\ open' = open \ Expired(Retained(mem.retained, mem.pac))
  /\ Continue(Tail(todo), aim)
  /\ UNCHANGED <<machine, req, dir, held, text, stale, turn, bounds>>

Named == {u[2] : u \in {x \in told \cup {reg.url} : IsShadowPac(x)}}

(* The port the system gives: which one does not matter, but a client that  *)
(* holds the URL of a closed endpoint must not find another there.          *)
FreePort == Endpoints \ (open \cup Named)

(* startPacServer, and what the URL it gives leaves to write. *)
Serve ==
  /\ Doing("serve")
  /\ LET fresh == mem.pac = 0 \/ req.force
     IN \E e \in IF fresh THEN FreePort ELSE {mem.pac} :
          LET url      == <<"pac", e, IF req.rotate THEN 0 ELSE req.pac>>
              write    == mem.dirty \/ mem.registeredUrl # url
              revising == /\ ~req.rotate /\ ~mem.dirty
                          /\ mem.registeredUrl # None /\ mem.static = None
          IN /\ mem' = [mem EXCEPT !.content = req.pac, !.versions = Remembered(mem, req.pac), !.pac = e]
             /\ open' = open \cup {e}
             /\ stale' = stale \ {e}
             /\ text' = [x \in Endpoints |-> CASE x = e /\ fresh -> IF req.force THEN req.pac ELSE 0
                                               [] x \notin open -> 0
                                               [] OTHER -> text[x]]
             /\ turn' = [server |-> e, previous |-> IF req.force THEN mem.pac ELSE 0,
                         content |-> mem.content]
             /\ Continue((CASE write /\ ~revising -> PacSteps
                            [] write /\ revising -> <<"url", "notify">>
                            [] ~write /\ req.changed -> <<"notify">>
                            [] OTHER -> <<>>) \o <<"registerPac">>, PacAim(url))
  /\ UNCHANGED <<machine, req, dir, held, bounds>>

(* apply's last assignments and finishPacEndpointRotation(succeeded). *)
RegisterPac ==
  /\ Doing("registerPac")
  /\ LET m == AddRetained([mem EXCEPT !.static = None, !.registeredUrl = aim.url,
                                      !.pendingUrl = None, !.published = req.pac], turn.previous)
     IN /\ mem' = Clean(PublishRetained(m, turn.server))
        /\ open' = open \ Expired(Retained(m.retained, turn.server))
  /\ turn' = NoTurn
  /\ Continue(Tail(todo), aim)
  /\ UNCHANGED <<machine, req, dir, held, text, stale, bounds>>

-----------------------------------------------------------------------------
(* A step fails, or the process ends *)

(* finishPacEndpointRotation(failed): an endpoint the registry names stays  *)
(* beside the one clients still hold; one it does not name is closed.       *)
Rotated(m) ==
  LET named == m.registryUrl = aim.url
      m1    == [m EXCEPT !.pendingUrl = IF req.rotate /\ named THEN aim.url ELSE @]
  IN CASE turn.previous = 0 -> m1
       [] turn.previous # 0 /\ named -> AddRetained(m1, turn.previous)
       [] OTHER -> [m1 EXCEPT !.pac = turn.previous, !.content = turn.content]

(* Any step but the ones in memory may throw: the operation ends there and  *)
(* the next apply writes everything again.  A refresh that fails may have   *)
(* reached some clients.  A PAC server that cannot listen leaves the        *)
(* version it was started for remembered.                                   *)
StepFails ==
  /\ todo # <<>> /\ troubles < MaxTroubles /\ faults < MaxFaults
  /\ Head(todo) \notin {"forget", "stop", "publish", "settle", "republish", "registerPac"}
  /\ troubles' = troubles + 1 /\ faults' = faults + 1
  /\ told' = IF Head(todo) = "notify" THEN told \cup {reg.url} ELSE told
  /\ mem' = LET m == IF turn.server # 0 THEN Rotated(mem)
                     ELSE IF Head(todo) = "serve"
                       THEN [mem EXCEPT !.versions = Remembered(mem, req.pac)] ELSE mem
            IN [m EXCEPT !.dirty = @ \/ op # "recover"]
  /\ open' = IF turn.previous # 0 /\ mem.registryUrl # aim.url THEN open \ {turn.server} ELSE open
  /\ turn' = NoTurn
  /\ Continue(<<>>, Blank)
  /\ UNCHANGED <<reg, journal, legacyFirst, lost, outlived, req, dir, held, text, stale>>

(* A crash, a kill or the end of a quit. *)
ProcessEnds ==
  /\ life # "down" /\ troubles < MaxTroubles
  /\ troubles' = troubles + 1 /\ faults' = 0
  /\ life' = "down" /\ leaving' = "no" /\ op' = "none" /\ todo' = <<>> /\ aim' = Blank /\ req' = NoRequest
  /\ held' = Nothing /\ mem' = FreshMem /\ open' = {} /\ stale' = Named /\ turn' = NoTurn
  /\ text' = [e \in Endpoints |-> 0]
  /\ UNCHANGED <<machine, dir>>

(* A downgrade or an outside edit: the journal cannot be used any more. *)
SpoilJournal(d) ==
  /\ life = "down" /\ troubles < MaxTroubles /\ journal[d].state = "usable"
  /\ troubles' = troubles + 1
  /\ journal' = [journal EXCEPT ![d] = Spoiled]
  /\ lost' = (lost \/ d = Oldest)
  /\ UNCHANGED <<reg, told, legacyFirst, outlived, life, leaving, running, manager, faults>>

-----------------------------------------------------------------------------
(* Start, quit and the end of the session *)

Start ==
  /\ life = "down"
  /\ life' = "recovering" /\ op' = "recover" /\ todo' = <<"survey">>
  /\ UNCHANGED <<machine, leaving, req, aim, dir, manager, bounds>>

(* recoverWindowsSystemProxy: the oldest usable journal is the user's.  An  *)
(* unreadable one is set aside, and where that leaves none the values that  *)
(* can only be Shadow's are removed.                                        *)
Survey ==
  /\ Doing("survey")
  /\ LET aside == \E d \in DOMAIN journal : journal[d].state = "spoiled"
     IN /\ journal' = [d \in DOMAIN journal |->
                         IF journal[d].state = "spoiled" THEN Absent ELSE journal[d]]
        /\ IF Candidates = {}
             THEN /\ reg' = IF aside THEN Cleared(reg) ELSE reg
                  /\ told' = IF reg' # reg THEN {reg'.url} ELSE told
                  /\ Continue(<<>>, Blank)
                  /\ UNCHANGED dir
             ELSE /\ dir' = Oldest
                  /\ Continue((IF Candidates # {Oldest} THEN <<"dropNewer">> ELSE <<>>) \o RestoreSteps,
                              journal[Oldest].snap)
                  /\ UNCHANGED <<reg, told>>
  /\ UNCHANGED <<legacyFirst, lost, outlived, req, manager, bounds>>

DropNewer ==
  /\ Doing("dropNewer")
  /\ journal' = [d \in DOMAIN journal |-> IF d = dir THEN journal[d] ELSE Absent]
  /\ Continue(Tail(todo), aim)
  /\ UNCHANGED <<reg, told, legacyFirst, lost, outlived, req, dir, manager, bounds>>

(* restoreWindowsSystemProxyNow: outside the queue and in one go, from the  *)
(* oldest journal, which stays.  Values in failed keep what they had.       *)
RestoredNow(failed) ==
  IF Candidates = {} THEN reg
  ELSE [n \in Names |-> IF n \in failed THEN reg[n] ELSE journal[Oldest].snap[n]]

(* Windows ends the session: nobody is told, and the application quits. *)
SessionEnding ==
  /\ life = "up" /\ leaving = "no" /\ leaving' = "session"
  /\ \E failed \in {{}} \cup (IF troubles < MaxTroubles THEN {{n} : n \in Names} ELSE {}) :
       /\ reg' = RestoredNow(failed)
       /\ troubles' = troubles + (IF failed = {} THEN 0 ELSE 1)
  /\ UNCHANGED <<told, journal, legacyFirst, lost, outlived, life, running, manager, faults>>

(* A mutant: the journals go with the restore, as in a full one. *)
QuitDeadlineDropsJournals ==
  /\ life = "up" /\ leaving # "deadline" /\ leaving' = "deadline"
  /\ reg' = RestoredNow({}) /\ told' = {reg'.url}
  /\ journal' = [d \in DOMAIN journal |-> Absent]
  /\ UNCHANGED <<legacyFirst, lost, outlived, life, running, manager, bounds>>

(* restoreWindowsSystemProxyBeforeQuit, past the deadline of the quit. *)
QuitDeadline ==
  /\ life = "up" /\ leaving # "deadline" /\ leaving' = "deadline"
  /\ \E failed \in {{}} \cup (IF troubles < MaxTroubles THEN {{n} : n \in Names} ELSE {}) :
       LET now == RestoredNow(failed)
       IN /\ reg' = IF failed = {} /\ Candidates # {} THEN now ELSE Cleared(now)
          /\ told' = IF (failed = {} /\ Candidates # {}) \/ Cleared(now) # now THEN {reg'.url} ELSE told
          /\ troubles' = troubles + (IF failed = {} THEN 0 ELSE 1)
  /\ UNCHANGED <<journal, legacyFirst, lost, outlived, life, running, manager, faults>>

-----------------------------------------------------------------------------
(* What an earlier run may have left: nothing; the settings of a session    *)
(* that was cut off, or the first of them, beside the journal; or, from a   *)
(* version with a manager per tunnel, its journal in the xray directory,    *)
(* alone or beside one of the routing directory, which may be the later or  *)
(* the older one.  The older of two has the user's settings.                *)
Modified == StaticAim([port |-> 1, form |-> "full"])

Init ==
  /\ \/ reg = user /\ journal = [d \in {"routing", "xray"} |-> Absent] /\ legacyFirst = TRUE
     \/ /\ \/ \E e \in Endpoints, v \in Pacs : reg = [PacAim(<<"pac", e, v>>) EXCEPT !.override = Own]
           \/ reg = [user EXCEPT !.server = Modified.server]
        /\ journal = [routing |-> Usable(user), xray |-> Absent] /\ legacyFirst = TRUE
     \/ /\ reg = Modified /\ legacyFirst = TRUE
        /\ \E j \in {Absent, Usable(Modified)} :
             journal = [routing |-> j, xray |-> Usable(user)]
     \/ /\ reg = Modified /\ legacyFirst = FALSE
        /\ journal = [routing |-> Usable(user), xray |-> Usable(Modified)]
  /\ told = {reg.url} /\ lost = FALSE /\ outlived = FALSE
  /\ life = "down" /\ leaving = "no" /\ op = "none" /\ req = NoRequest /\ todo = <<>> /\ aim = Blank /\ dir = "routing"
  /\ held = Nothing /\ mem = FreshMem /\ open = {} /\ stale = Named /\ turn = NoTurn
  /\ text = [e \in Endpoints |-> 0]
  /\ troubles = 0 /\ faults = 0

Step ==
  \/ \E n \in Names : WriteValue(n)
  \/ Forget \/ Notify \/ Lookup \/ StopPac \/ RmJournal
  \/ Capture \/ Persist \/ PublishStatic \/ Settle
  \/ PublishPac \/ WritePac \/ Republish \/ Serve \/ RegisterPac
  \/ Survey \/ DropNewer

Next ==
  \/ Start \/ Step \/ StepFails
  \/ BeginRestore \/ \E r \in Requests : BeginApply(r)
  \/ SessionEnding \/ QuitDeadline
  \/ ProcessEnds \/ \E d \in {"routing", "xray"} : SpoilJournal(d)

Spec == Init /\ [][Next]_vars

-----------------------------------------------------------------------------
(* Properties *)

Values ==
  {None, Off, On, Own} \cup {<<"listener", p>> : p \in Ports}
    \cup {<<"local", f>> : f \in Forms}
    \cup {<<"pac", e, v>> : e \in Endpoints, v \in {0} \cup Pacs}

(* The registry, the journals and the manager hold values of their kinds. *)
TypeOK ==
  /\ reg \in [Names -> Values] /\ told \subseteq Values
  /\ \A d \in {"routing", "xray"} :
       journal[d].state \in {"absent", "usable", "spoiled"} /\ journal[d].snap \in [Names -> Values]
  /\ life \in {"down", "recovering", "up"} /\ leaving \in {"no", "session", "deadline"}
  /\ op \in {"none", "recover", "restore", "apply"}
  /\ todo \in Seq(Steps) /\ aim \in [Names -> Values] /\ dir \in {"routing", "xray"}
  /\ {legacyFirst, lost, outlived} \subseteq BOOLEAN
  /\ held.some \in BOOLEAN /\ held.snap \in [Names -> Values]
  /\ mem.pac \in {0} \cup Endpoints /\ mem.content \in {0} \cup Pacs
  /\ open \subseteq Endpoints /\ stale \subseteq Endpoints
  /\ troubles \in 0..MaxTroubles /\ faults \in 0..MaxFaults

(* Wherever an operation stops or the process ends, what the next start     *)
(* puts back are the user's own settings, and where there is nothing to put *)
(* back they are in the registry.  There are two exceptions.  The journal   *)
(* that has them may become unreadable (lost).  And after a start whose     *)
(* recovery failed and left two journals, apply and restore put back and    *)
(* remove the one of the routing directory alone: where that is the older   *)
(* one, the later one stays, and is what the next start reads (outlived).   *)
UserSettingsAreKept ==
  /\ ~lost /\ ~outlived =>
       IF Candidates = {} THEN reg = user ELSE journal[Oldest].snap = user
  /\ outlived => troubles # 0

NotShadows(s) == ~IsShadowPac(s.url) /\ ~IsShadowStatic(s.server, s.override)

GivingBack == \E i \in 1..Len(todo) : todo[i] = "rmJournal"

(* What apply saves to put back is never Shadow's own leftover: its PAC URL, *)
(* or its listener beside the bypass entries it writes.  Nor is what is     *)
(* being put back, but for the journal of the routing directory that an     *)
(* apply or a restore reads while an older one stands in the other.         *)
LeftoversAreNotAdopted ==
  /\ held.some => NotShadows(held.snap)
  /\ GivingBack /\ ~lost /\ ~outlived => NotShadows(aim) \/ (op # "recover" /\ dir # Oldest)

(* A PAC URL of this run that the registry names, or that a client still    *)
(* holds, is answered: whatever failed, no client is left to a dead port.   *)
PacUrlsAreServed ==
  \A u \in told \cup {reg.url} : IsShadowPac(u) => u[2] \in open \cup stale

(* After an apply that succeeded every client gets the PAC it asked for,    *)
(* on the new endpoint and on the ones kept for clients with an older URL.  *)
PublishedPacIsServed ==
  (op = "none" /\ req.mode = "pac" /\ ~mem.dirty /\ life = "up") =>
    \A u \in {<<"pac", e, 0>> : e \in Range(mem.retained)} \cup {mem.registeredUrl} :
      Served(u) = req.pac

(* No PAC server is left behind: one is current, the others are retained,   *)
(* and at most MaxRetained of those.                                        *)
EndpointsAreOwned ==
  op = "none" => /\ open = ({mem.pac} \cup Range(mem.retained)) \ {0}
                 /\ Len(mem.retained) <= MaxRetained + 1

(* A start whose recovery ends without a failure leaves the user's own      *)
(* settings in the registry, wherever the earlier runs were cut short, in   *)
(* a recovery as well.                                                      *)
RecoveryGivesBack ==
  life = "recovering" /\ life' = "up" /\ faults' = 0 /\ ~lost /\ ~outlived => reg' = user

(* The proxy settings of the user survive every operation, every failed     *)
(* step, every end of the process and every start, in the registry or in a  *)
(* journal that the next start reads, but for the two exceptions of         *)
(* UserSettingsAreKept; what is given back is never Shadow's own leftover,  *)
(* but for the one of LeftoversAreNotAdopted; and a start whose recovery    *)
(* ends without a failure has given them back.                              *)
SettingsAreGivenBack ==
  /\ [](TypeOK /\ UserSettingsAreKept /\ LeftoversAreNotAdopted)
  /\ [][RecoveryGivesBack]_vars

(* Whatever fails in a publication, every PAC URL that the registry names or *)
(* a WinINet client still holds is answered, with the text the last          *)
(* successful apply asked for, and no PAC server is left without an owner.   *)
PacsAreServed == PacUrlsAreServed /\ PublishedPacIsServed /\ EndpointsAreOwned
=============================================================================
