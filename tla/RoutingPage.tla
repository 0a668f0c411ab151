------------------------------ MODULE RoutingPage ------------------------------
(***************************************************************************)
(* The Routing page and the routing changes of the main process: drafts     *)
(* shown before they are saved, the save badge and its retry, the guards    *)
(* that ask before a change takes the last target from a running split      *)
(* tunnel, deletes that wait for their animation, Undo, import, lists that  *)
(* are downloaded outside every queue (useRoutingController.ts,             *)
(* useRoutingAutosave.ts, routing-model.ts), and what the main process does *)
(* with a change: it saves in order, applies in order and answers with a    *)
(* snapshot (main.ts, routing-targets.ts).                                  *)
(*                                                                          *)
(* Handlers read refs that follow the drafts and the snapshot at the next   *)
(* render.  Rules are valid; their order is left out.  The page is left and *)
(* opened again once: what the page that was left still has to do (answers  *)
(* it awaits, deletes, the Undo of its toasts) goes on beside the new one,  *)
(* with the refs and drafts it had.                                         *)
(***************************************************************************)
EXTENDS Naturals, Sequences, SequencesExt

CONSTANTS Rule,       \* rules that exist at the start, on
          New,        \* rules the user adds
          Imported,   \* the rules of a file
          MaxActs,    \* what the user does
          MaxFaults   \* saves, downloads and applications that fail

VARIABLES store,     \* the saved [rules, mode, list, have]
          live,      \* a session runs
          switches,  \* routingListSwitches.proxy
          calls,     \* calls the main process has not answered, in the order they were made
          replies,   \* its answers on their way
          todo,      \* a change that waited for an answer that has come
          mounted,   \* the page is open
          seen,      \* the snapshot in the window: [rules, mode, list, have, live]
          drafts,    \* [rules, mode]
          ref,       \* the refs: [rules, mode, list, have, live]
          leaving,   \* pendingDeletes: rules in their delete animation
          turningOff,\* listsTurningOff has the proxy list
          busy,      \* listBusy.proxy
          dialog,    \* the open dialog
          undo,      \* the Undo of a toast
          badge, settled, retryOf,  \* of the autosave
          left,      \* the page that was left, once another is open: [there, rules (its ref, while
                     \* it has a use), leaving, undo], or NoPage when nothing is left of it
          reading,   \* an Undo of a page that was left, with what it builds on, or NoUndo
          wanted,    \* history: what the user asked for: [rules, mode, list]; no rules once a change was
                     \* built on rules that another one had replaced
          failed,    \* history: the kinds whose last change could not be saved
          blind,     \* history: a change was decided while another was on its way unseen
          cut,       \* history: the main process ended a session for want of targets, while no
                     \* save of the last changes had failed and no change was blind
          acts, faults

page  == <<mounted, seen, drafts, ref, leaving, turningOff, busy, dialog, undo, badge, settled, retryOf>>
away  == <<left, reading>>
other == <<blind, acts, faults>>
vars  == <<store, live, switches, calls, replies, todo, page, away, wanted, failed, cut, other>>

Ids     == Rule \cup New \cup Imported
NoRules == <<>>   \* no draft of the rules
NoDraft == "none" \* nor of the mode
Modes   == {"proxy-all", "selected-rules"}
Rules   == [Ids -> {"absent", "on", "off"}]
NoDialog == [kind |-> "none"]
NoUndo   == [kind |-> "none"]
NoPage   == [there |-> FALSE, rules |-> NoRules, leaving |-> {}, undo |-> NoUndo]

(* The types of the variables. *)
TypeOK ==
  /\ store.rules \in Rules /\ store.mode \in Modes /\ ref.rules \in Rules
  /\ wanted.rules \in Rules \cup {NoRules}
  /\ {live, mounted, turningOff, busy, blind, cut} \subseteq BOOLEAN
  /\ failed \subseteq {"rules", "mode", "list"}
  /\ drafts.rules \in Rules \cup {NoRules} /\ drafts.mode \in Modes \cup {NoDraft}
  /\ leaving \subseteq Ids /\ badge \in {"saved", "saving", "failed", "unapplied"}
  /\ retryOf \in {"none", "rules"} \cup Modes

---------------------------------------------------------------------------
(* Targets and guards (routing-model.ts, routing-targets.ts). *)

countTargets(rules, list, have) == {i \in Ids : rules[i] = "on"} \cup IF list /\ have THEN {"list"} ELSE {}

settledRules(rules) == [i \in Ids |-> IF i \in leaving THEN "absent" ELSE rules[i]]
settledProxyList    == ref.list /\ ~turningOff

\* Mutant: changes on their way are not counted.
cutsIgnoringPending(rules, list) ==
  /\ ref.mode = "selected-rules" /\ ref.live
  /\ countTargets(ref.rules, ref.list, ref.have) # {} /\ countTargets(rules, list, ref.have) = {}

\* cutsLastTargetWithPending
cutsLastTarget(rules, list) ==
  /\ ref.mode = "selected-rules" /\ ref.live
  /\ countTargets(settledRules(ref.rules), settledProxyList, ref.have) # {}
  /\ countTargets(settledRules(rules), list, ref.have) = {}

splitNeedsGuard == countTargets(settledRules(ref.rules), settledProxyList, ref.have) = {}

\* routingMutationAction
routingMutationAction ==
  IF store.mode # "selected-rules" \/ countTargets(store.rules, store.list, store.have) # {} THEN "apply"
  ELSE IF live THEN "disconnect" ELSE "idle"

snapshot(l) ==
  [rules |-> store.rules, mode |-> store.mode, list |-> store.list, have |-> store.have, live |-> l]

---------------------------------------------------------------------------
(* Calls. *)

\* A call: what it changes, whether its badge and its draft are still the
\* latest, and what the page does when it has succeeded.
Call(kind, val, quiet, then) ==
  [kind |-> kind, val |-> val, quiet |-> quiet, last |-> TRUE, newest |-> TRUE, own |-> TRUE, then |-> then,
   switch |-> IF kind = "list" THEN switches + 1 ELSE 0,
   download |-> kind = "list" /\ val = "on" /\ ~store.have,
   phase |-> IF kind = "disconnect" THEN "saved" ELSE "sent"]

Nothing == [kind |-> "nothing"]
NoSnapshot == <<>>

\* The answer to a call: its outcome, and the snapshot that comes with a success.
Reply(c, phase, snap, unapplied) ==
  [kind |-> c.kind, val |-> c.val, quiet |-> c.quiet, last |-> c.last, newest |-> c.newest,
   own |-> c.own, then |-> c.then, phase |-> phase, snap |-> snap, unapplied |-> unapplied]

\* It downloads a list, outside every queue.
Slow(c) == c.download \/ c.kind = "refresh"

\* save: a loud call takes the badge over from the ones before it; a change of
\* rules or of the mode supersedes the drafts of its own kind.
superseded(q, c) ==
  [i \in DOMAIN q |-> [q[i] EXCEPT !.last = @ /\ (c.quiet \/ c.kind = "disconnect"),
                                   !.newest = @ /\ q[i].kind # c.kind]]

issue(c) ==
  /\ calls' = Append(superseded(calls, c), c)
  /\ replies' = superseded(replies, c)
  /\ badge' = IF c.quiet \/ c.kind = "disconnect" THEN badge ELSE "saving"
  /\ switches' = IF c.kind = "list" THEN switches + 1 ELSE switches

\* The same call by the page that was left: it has a badge and drafts of its own, which nobody sees.
issueAway(c) ==
  /\ calls' = Append(calls, [c EXCEPT !.last = FALSE, !.newest = FALSE, !.own = FALSE])
  /\ switches' = IF c.kind = "list" THEN switches + 1 ELSE switches
  /\ UNCHANGED <<replies, badge>>

changed(base, change) == [i \in Ids |-> IF i \in DOMAIN change THEN change[i] ELSE base[i]]

\* React renders: the refs follow the drafts and the snapshot.
shown(s) == [s EXCEPT !.rules = IF drafts.rules = NoRules THEN @ ELSE drafts.rules,
                      !.mode  = IF drafts.mode = NoDraft THEN @ ELSE drafts.mode]

\* What the page that was left has changed is not rendered yet.
Unrendered == left # NoPage /\ ref # shown(seen)

\* The rules or the mode of a new page need not be what the user asked for: the page that was left
\* before it has a change on its way, made the last one, or one the new page does not render yet; or
\* a save of the kind failed.
Forgotten(kind) ==
  LET q == SelectSeq(replies \o calls, LAMBDA c : c.kind = kind)
      drafted == IF kind = "rules" THEN drafts.rules # NoRules ELSE drafts.mode # NoDraft
  IN  /\ left # NoPage
      /\ \/ Unrendered \/ kind \in failed \/ (q # <<>> /\ ~Last(q).own)
         \/ IF drafted THEN \A c \in ToSet(q) : ~c.own ELSE \E c \in ToSet(q) : ~c.own

\* The user's change of the rules, and the rules it is built on: others than the user's are an accident
\* the page cannot see when they are forgotten with a page that was left.
wantRules(base, change, unseen) ==
  wanted' = [wanted EXCEPT !.rules =
               IF @ = NoRules \/ (unseen /\ base # @) THEN NoRules ELSE changed(@, change)]
want(field, val) == wanted' = [wanted EXCEPT ![field] = val]

\* commitRules: rules, as a change of the ones they are built on.
commitRules(base, change, then) ==
  LET next == changed(base, change)
  IN  /\ ref' = [ref EXCEPT !.rules = next]
      /\ drafts' = IF mounted THEN [drafts EXCEPT !.rules = next] ELSE drafts
      /\ wantRules(base, change, ~mounted \/ Forgotten("rules"))
      /\ issue(Call("rules", next, FALSE, then))

\* The same by the page that was left.
commitAway(base, change, then) ==
  LET next == changed(base, change)
  IN  /\ left' = IF left.rules = NoRules THEN left ELSE [left EXCEPT !.rules = next]
      /\ wantRules(base, change, TRUE)
      /\ issueAway(Call("rules", next, FALSE, then))

commitMode(m) ==
  /\ ref' = [ref EXCEPT !.mode = m]
  /\ drafts' = IF mounted THEN [drafts EXCEPT !.mode = m] ELSE drafts
  /\ want("mode", m)
  /\ issue(Call("mode", m, FALSE, Nothing))

listOn(then) ==
  /\ busy' = TRUE /\ turningOff' = turningOff
  /\ want("list", TRUE)
  /\ issue(Call("list", "on", FALSE, then))

listOff ==
  /\ busy' = TRUE /\ turningOff' = TRUE
  /\ want("list", FALSE)
  /\ issue(Call("list", "off", FALSE, Nothing))

\* Nothing is on its way.
Idle ==
  /\ calls = <<>> /\ replies = <<>> /\ leaving = {} /\ todo = Nothing
  /\ left.leaving = {} /\ reading = NoUndo

---------------------------------------------------------------------------
(* What the user does. *)

Act ==
  /\ mounted /\ todo = Nothing /\ UNCHANGED todo
  /\ dialog = NoDialog /\ acts < MaxActs /\ acts' = acts + 1
  /\ blind' = (blind \/ Unrendered \/ left.leaving # {}
                \/ \E c \in ToSet(calls \o replies) : c.then # Nothing \/ ~c.own)
\* An action that answers a dialog.
Answer(kind) ==
  /\ mounted /\ todo = Nothing /\ dialog.kind = kind /\ dialog' = NoDialog
  /\ UNCHANGED <<todo, blind, acts>>

toggled(i) == IF ref.rules[i] = "on" THEN "off" ELSE "on"
Ask(pending) == dialog' = [kind |-> "last-target", pending |-> pending]

toggleRule ==
  /\ Act
  /\ \E i \in Ids :
       /\ ref.rules[i] # "absent" /\ i \notin leaving
       /\ IF cutsLastTarget([ref.rules EXCEPT ![i] = toggled(i)], settledProxyList)
          THEN /\ Ask([kind |-> "toggle", id |-> i])
               /\ UNCHANGED <<ref, drafts, wanted, calls, replies, badge, switches>>
          ELSE commitRules(ref.rules, [x \in {i} |-> toggled(i)], Nothing) /\ UNCHANGED dialog
  /\ UNCHANGED <<away, failed, store, live, mounted, seen, leaving, turningOff, busy, undo, settled,
                 retryOf, cut, faults>>

deleteRule ==
  /\ Act
  /\ \E i \in Ids :
       /\ ref.rules[i] # "absent" /\ i \notin leaving
       /\ IF cutsLastTarget([ref.rules EXCEPT ![i] = "absent"], settledProxyList)
          THEN Ask([kind |-> "delete", id |-> i]) /\ UNCHANGED leaving
          ELSE leaving' = leaving \cup {i} /\ UNCHANGED dialog
  /\ UNCHANGED <<away, failed, store, live, switches, calls, replies, mounted, seen, drafts, ref,
                 turningOff, busy, undo, badge, settled, retryOf, wanted, cut, faults>>

\* removeRule's timer; leaving the page runs it at once.
Removed ==
  /\ todo = Nothing
  /\ \E i \in leaving :
       /\ leaving' = leaving \ {i}
       /\ undo' = [kind |-> "restore", id |-> i, was |-> ref.rules[i]]
       /\ commitRules(ref.rules, [x \in {i} |-> "absent"], Nothing)
  /\ UNCHANGED <<away, failed, store, live, todo, mounted, seen, turningOff, busy, dialog, settled,
                 retryOf, cut, blind, acts, faults>>

\* The timer of a delete that began after the page was left.
RemovedAway ==
  /\ todo = Nothing
  /\ \E i \in left.leaving :
       LET next == [left.rules EXCEPT ![i] = "absent"]
       IN  /\ left' = [there |-> TRUE, rules |-> next, leaving |-> left.leaving \ {i},
                       undo |-> [kind |-> "restore", id |-> i, was |-> left.rules[i]]]
           /\ wantRules(left.rules, [x \in {i} |-> "absent"], TRUE)
           /\ issueAway(Call("rules", next, FALSE, Nothing))
  /\ UNCHANGED <<store, live, todo, mounted, seen, drafts, ref, leaving, turningOff, busy, dialog,
                 undo, settled, retryOf, reading, failed, cut, other>>

\* No page and no change knows a rule with this id.
fresh(i) ==
  /\ \A rules \in {store.rules, seen.rules, ref.rules}
                    \cup {c.val : c \in {d \in ToSet(calls \o replies) : d.kind = "rules"}} :
       rules[i] = "absent"
  /\ left.rules # NoRules => left.rules[i] = "absent"

addRule ==
  /\ Act
  /\ \E i \in New : fresh(i) /\ commitRules(ref.rules, [x \in {i} |-> "on"], Nothing)
  /\ UNCHANGED <<away, failed, store, live, mounted, seen, leaving, turningOff, busy, dialog, undo,
                 settled, retryOf, cut, faults>>

\* toggleList; the switch is disabled while the list is busy.
toggleList ==
  /\ Act /\ ~busy
  /\ CASE ~ref.list -> listOn(Nothing) /\ UNCHANGED dialog
       [] ref.list /\ cutsLastTarget(ref.rules, FALSE) ->
            Ask([kind |-> "list"]) /\ UNCHANGED <<busy, turningOff, wanted, calls, replies, badge,
                                                  switches>>
       [] OTHER -> listOff /\ UNCHANGED dialog
  /\ UNCHANGED <<away, failed, store, live, mounted, seen, drafts, ref, leaving, undo, settled,
                 retryOf, cut, faults>>

refreshList ==
  /\ Act /\ ~busy /\ busy' = TRUE
  /\ issue(Call("refresh", "none", TRUE, Nothing))
  /\ UNCHANGED <<away, failed, store, live, mounted, seen, drafts, ref, leaving, turningOff, dialog,
                 undo, settled, retryOf, wanted, cut, faults>>

pickMode ==
  /\ Act
  /\ \E m \in Modes \ {ref.mode} :
       IF m = "selected-rules" /\ splitNeedsGuard
       THEN /\ dialog' = [kind |-> "mode-guard"]
            /\ UNCHANGED <<ref, drafts, wanted, calls, replies, badge, switches>>
       ELSE commitMode(m) /\ UNCHANGED dialog
  /\ UNCHANGED <<away, failed, store, live, mounted, seen, leaving, turningOff, busy, undo, settled,
                 retryOf, cut, faults>>

\* What a confirmed change does, alone or after the call it waits for.
applyPending(p) ==
  CASE p.kind = "toggle" -> /\ commitRules(ref.rules, [x \in {p.id} |-> "off"], Nothing)
                            /\ UNCHANGED <<leaving, busy, turningOff>>
    [] p.kind = "delete" -> /\ leaving' = IF ref.rules[p.id] = "absent" THEN leaving ELSE leaving \cup {p.id}
                            /\ UNCHANGED <<calls, replies, badge, switches, ref, drafts, wanted,
                                           busy, turningOff>>
    [] p.kind = "list"   -> listOff /\ UNCHANGED <<ref, drafts, leaving>>
    [] p.kind = "rules"  -> commitRules(ref.rules, p.rules, p.then) /\ UNCHANGED <<leaving, busy, turningOff>>
    [] p.kind = "mode"   -> commitMode("selected-rules") /\ UNCHANGED <<leaving, busy, turningOff>>
    [] OTHER -> UNCHANGED <<calls, replies, badge, switches, ref, drafts, wanted, leaving, busy,
                            turningOff>>

\* The same of the page that was left.
applyAway(p) ==
  CASE p.kind = "toggle" -> commitAway(left.rules, [x \in {p.id} |-> "off"], Nothing)
    [] p.kind = "delete" -> /\ left' = IF left.rules[p.id] = "absent" THEN left
                                       ELSE [left EXCEPT !.leaving = @ \cup {p.id}]
                            /\ UNCHANGED <<calls, replies, badge, switches, wanted>>
    [] p.kind = "list"   -> issueAway(Call("list", "off", FALSE, Nothing)) /\ want("list", FALSE) /\ UNCHANGED left
    [] p.kind = "rules"  -> commitAway(left.rules, p.rules, p.then)
    [] p.kind = "mode"   -> /\ issueAway(Call("mode", "selected-rules", FALSE, Nothing))
                            /\ want("mode", "selected-rules")
                            /\ UNCHANGED left
    [] p.kind = "offer"  -> /\ left' = [left EXCEPT !.undo = [kind |-> "undo-import", rules |-> p.rules]]
                            /\ UNCHANGED <<calls, replies, badge, switches, wanted>>

\* disconnectOnPurpose, then the change.
disconnectFirst(p) ==
  IF ref.live
  THEN issue(Call("disconnect", "none", FALSE, p)) /\ UNCHANGED <<ref, drafts, wanted, leaving, busy, turningOff>>
  ELSE applyPending(p)

guardSwitchAnyway ==
  /\ Answer("mode-guard") /\ disconnectFirst([kind |-> "mode"])
  /\ UNCHANGED <<away, failed, store, live, mounted, seen, undo, settled, retryOf, cut, faults>>

guardEnableList ==
  /\ Answer("mode-guard") /\ listOn([kind |-> "mode"])
  /\ UNCHANGED <<away, failed, store, live, mounted, seen, drafts, ref, leaving, undo, settled,
                 retryOf, cut, faults>>

lastTargetConfirm ==
  /\ Answer("last-target") /\ disconnectFirst(dialog.pending)
  /\ UNCHANGED <<away, failed, store, live, mounted, seen, undo, settled, retryOf, cut, faults>>

\* lastTargetToFull: the mode first, then the change.
lastTargetToFull ==
  /\ Answer("last-target")
  /\ ref' = [ref EXCEPT !.mode = "proxy-all"] /\ drafts' = [drafts EXCEPT !.mode = "proxy-all"]
  /\ want("mode", "proxy-all")
  /\ issue(Call("mode", "proxy-all", FALSE, dialog.pending))
  /\ UNCHANGED <<away, failed, store, live, mounted, seen, leaving, turningOff, busy, undo, settled,
                 retryOf, cut, faults>>

closeDialog ==
  /\ mounted /\ dialog # NoDialog /\ dialog' = NoDialog
  /\ dialog.kind = "import" => calls = <<>> /\ replies = <<>> /\ todo = Nothing
  /\ UNCHANGED <<away, failed, store, live, switches, calls, replies, todo, mounted, seen, drafts,
                 ref, leaving, turningOff, busy, undo, badge, settled, retryOf, wanted, cut, blind,
                 acts, faults>>

\* confirmImport: the rules of the file replace all; when they are saved the
\* toast offers the ones before.
confirmImport ==
  /\ Act /\ \A i \in Imported : ref.rules[i] = "absent"
  /\ LET next == [i \in Ids |-> IF i \in Imported THEN "on" ELSE "absent"]
         p    == [kind |-> "rules", rules |-> next, then |-> [kind |-> "offer", rules |-> ref.rules]]
     IN  IF cutsLastTarget(next, settledProxyList) THEN disconnectFirst(p) ELSE applyPending(p)
  /\ dialog' = [kind |-> "import"]
  /\ UNCHANGED <<away, failed, store, live, mounted, seen, undo, settled, retryOf, cut, faults>>

\* rulesAfterImportUndo: the previous rules come back, the imported ones go, the rest stays.
rulesAfterImportUndo(previous) ==
  [i \in {j \in Ids : previous[j] # "absent" \/ j \in Imported} |-> previous[i]]

\* What an Undo changes.
undone(u) == IF u.kind = "restore" THEN [x \in {u.id} |-> u.was] ELSE rulesAfterImportUndo(u.rules)

\* restoreRule and undoImport on the page.
Undo ==
  /\ mounted /\ todo = Nothing /\ UNCHANGED todo /\ undo # NoUndo /\ undo' = NoUndo
  /\ dialog = NoDialog
  /\ LET next == changed(ref.rules, undone(undo))
     IN  CASE undo.kind = "restore" /\ ref.rules[undo.id] # "absent" ->
                UNCHANGED <<ref, drafts, wanted, calls, replies, badge, switches, dialog>>
           [] undo.kind = "undo-import" /\ cutsLastTarget(next, settledProxyList) ->
                /\ Ask([kind |-> "rules", rules |-> next, then |-> Nothing])
                /\ UNCHANGED <<ref, drafts, wanted, calls, replies, badge, switches>>
           [] OTHER -> commitRules(ref.rules, undone(undo), Nothing) /\ UNCHANGED dialog
  /\ UNCHANGED <<away, failed, store, live, mounted, seen, leaving, turningOff, busy, settled,
                 retryOf, cut, other>>

\* wouldCutLastTarget, of what is saved.
cutsLastOf(rules) ==
  /\ live /\ store.mode = "selected-rules"
  /\ countTargets(store.rules, store.list, store.have) # {}
  /\ countTargets(rules, store.list, store.have) = {}

\* The same by a page that was left: the Undo of its toast loads a snapshot first.
Reads(u) ==
  reading' = IF u.kind = "restore" /\ store.rules[u.id] # "absent" THEN NoUndo
             ELSE [kind |-> u.kind, base |-> store.rules, change |-> undone(u),
                   cuts |-> u.kind = "undo-import" /\ cutsLastOf(changed(store.rules, undone(u)))]

UndoAway ==
  /\ todo = Nothing /\ reading = NoUndo
  /\ \/ ~mounted /\ undo # NoUndo /\ Reads(undo) /\ undo' = NoUndo /\ UNCHANGED left
     \/ left.undo # NoUndo /\ Reads(left.undo) /\ left' = [left EXCEPT !.undo = NoUndo] /\ UNCHANGED undo
  /\ UNCHANGED <<store, live, switches, calls, replies, todo, mounted, seen, drafts, ref, leaving,
                 turningOff, busy, dialog, badge, settled, retryOf, wanted, failed, cut, other>>

\* And builds on it; a change that would cut asks, and ends the session first.
UndoBuilds ==
  /\ todo = Nothing /\ reading # NoUndo /\ reading' = NoUndo
  /\ LET p == [kind |-> "rules", rules |-> changed(reading.base, reading.change), then |-> Nothing]
         disconnect == Call("disconnect", "none", FALSE, p)
     IN  IF reading.cuts
         THEN /\ \/ IF left = NoPage THEN issue(disconnect) ELSE issueAway(disconnect)
                 \/ UNCHANGED <<calls, replies, badge, switches>>
              /\ UNCHANGED <<ref, drafts, wanted, left, blind>>
         ELSE /\ IF left = NoPage THEN commitRules(reading.base, reading.change, Nothing) /\ UNCHANGED left
                 ELSE commitAway(reading.base, reading.change, Nothing) /\ UNCHANGED <<ref, drafts>>
              /\ blind' = (blind \/ reading.base # wanted.rules)
  /\ UNCHANGED <<store, live, todo, mounted, seen, leaving, turningOff, busy, dialog, undo, settled,
                 retryOf, failed, cut, acts, faults>>

\* retry: the failed change again, or the rules, which applies everything again.
retry ==
  /\ Act /\ badge \in {"failed", "unapplied"}
  /\ IF settled = "failed" /\ retryOf \in Modes
     THEN /\ issue(Call("mode", retryOf, FALSE, Nothing)) /\ UNCHANGED <<ref, drafts, wanted>>
     ELSE commitRules(ref.rules, <<>>, Nothing)
  /\ UNCHANGED <<away, failed, store, live, mounted, seen, leaving, turningOff, busy, dialog, undo,
                 settled, retryOf, cut, faults>>

\* The user opens another page; deletes that still wait run at once, before it.
Leave ==
  /\ mounted /\ left = NoPage /\ todo = Nothing /\ leaving = {}
  /\ mounted' = FALSE /\ dialog' = NoDialog
  /\ UNCHANGED <<away, failed, store, live, switches, calls, replies, todo, seen, drafts, ref,
                 leaving, turningOff, busy, undo, badge, settled, retryOf, wanted, cut, other>>

Old(q) == [i \in DOMAIN q |-> [q[i] EXCEPT !.last = FALSE, !.newest = FALSE, !.own = FALSE]]

\* And comes back, at any moment, to a new page: its drafts are empty, whatever is on its way.
Return ==
  /\ ~mounted /\ mounted' = TRUE /\ todo = Nothing
  /\ left' = IF Idle /\ undo = NoUndo /\ failed = {} THEN NoPage  \* nothing is left of it
             ELSE [rules |-> IF leaving # {} \/ \E c \in ToSet(calls \o replies) : c.then # Nothing
                             THEN ref.rules ELSE NoRules,
                   there |-> TRUE, leaving |-> leaving, undo |-> undo]
  /\ drafts' = [rules |-> NoRules, mode |-> NoDraft] /\ ref' = seen
  /\ leaving' = {} /\ turningOff' = FALSE /\ busy' = FALSE /\ undo' = NoUndo
  /\ badge' = "saved" /\ settled' = "saved" /\ retryOf' = "none"
  /\ calls' = Old(calls) /\ replies' = Old(replies)
  /\ UNCHANGED <<store, live, switches, todo, seen, dialog, reading, wanted, failed, cut, other>>

Render ==
  /\ mounted /\ todo = Nothing /\ ref # shown(seen) /\ ref' = shown(seen)
  /\ LET cleared == ~seen.live /\ settled = "unapplied"
     IN  settled' = (IF cleared THEN "saved" ELSE settled) /\ badge' = (IF cleared THEN "saved" ELSE badge)
  /\ UNCHANGED <<away, failed, store, live, switches, calls, replies, todo, mounted, seen, drafts,
                 leaving, turningOff, busy, dialog, undo, retryOf, wanted, cut, other>>

---------------------------------------------------------------------------
(* The main process. *)

\* The switch after a change of the list: a download that is not of the latest switch leaves it.
listAfter(c) ==
  IF c.download THEN store.list \/ c.switch = switches ELSE c.val = "on"

saved(c) ==
  CASE c.kind = "rules"   -> [store EXCEPT !.rules = c.val]
    [] c.kind = "mode"    -> [store EXCEPT !.mode = c.val]
    [] c.kind = "list"    -> [store EXCEPT !.list = listAfter(c), !.have = @ \/ c.download]
    [] c.kind = "refresh" -> [store EXCEPT !.have = TRUE]
    [] OTHER -> store

\* No later change of its kind has been made.
Latest(i) == IF calls[i].kind = "list" THEN calls[i].switch = switches
             ELSE \A j \in DOMAIN calls : j > i => calls[j].kind # calls[i].kind

\* saveRoutingChange: the storage saves in order; downloads end when they end.
Save ==
  \E i \in DOMAIN calls :
    /\ calls[i].phase = "sent"
    /\ Slow(calls[i]) \/ \A j \in 1..(i - 1) : calls[j].phase # "sent" \/ Slow(calls[j])
    /\ \/ /\ store' = saved(calls[i])
          /\ failed' = IF Latest(i) THEN failed \ {calls[i].kind} ELSE failed
          /\ calls' = [calls EXCEPT ![i].phase = "saved"]
          /\ UNCHANGED <<replies, faults>>
       \/ /\ faults < MaxFaults /\ faults' = faults + 1
          /\ calls' = RemoveAt(calls, i)
          /\ replies' = Append(replies, Reply(calls[i], "failed", NoSnapshot, FALSE))
          /\ failed' = IF Latest(i) THEN failed \cup ({calls[i].kind} \ {"refresh"}) ELSE failed
          /\ UNCHANGED store
    /\ UNCHANGED <<live, switches, todo, page, away, wanted, cut, blind, acts>>

\* applyRoutingAfterSave and the answer.  A change that leaves a running split
\* tunnel without targets ends the session.
applyRouting ==
  \E i \in DOMAIN calls :
    /\ calls[i].phase = "saved" /\ \A j \in 1..(i - 1) : calls[j].phase # "saved"
    /\ LET cuts == calls[i].kind # "disconnect" /\ routingMutationAction = "disconnect"
       IN  /\ live' = (live /\ ~cuts /\ calls[i].kind # "disconnect")
           /\ cut' = (cut \/ (cuts /\ failed = {} /\ ~blind))
           /\ \E unapplied \in IF live' /\ faults < MaxFaults THEN BOOLEAN ELSE {FALSE} :
                /\ faults' = IF unapplied THEN faults + 1 ELSE faults
                /\ replies' = Append(replies, Reply(calls[i], "done", snapshot(live'), unapplied))
    /\ calls' = RemoveAt(calls, i)
    /\ UNCHANGED <<away, failed, store, switches, todo, page, wanted, blind, acts>>

---------------------------------------------------------------------------
(* Answers. *)

\* save after the answer: only the latest loud call decides the badge.
badgeAfter(r) ==
  IF ~r.last \/ r.kind = "disconnect" THEN UNCHANGED <<badge, settled, retryOf>>
  ELSE CASE r.phase = "done" /\ r.unapplied ->
              badge' = "unapplied" /\ settled' = "unapplied" /\ retryOf' = "none"
         [] r.phase = "done" /\ ~r.unapplied /\ (~r.quiet \/ settled = "unapplied") ->
              badge' = "saved" /\ settled' = "saved" /\ retryOf' = "none"
         [] r.phase = "failed" /\ ~r.quiet /\ r.kind = "list" -> badge' = settled /\ UNCHANGED <<settled, retryOf>>
         [] r.phase = "failed" /\ ~r.quiet /\ r.kind # "list" ->
              /\ badge' = "failed" /\ settled' = "failed"
              /\ retryOf' = IF r.kind = "mode" THEN r.val ELSE "rules"
         [] OTHER -> UNCHANGED <<badge, settled, retryOf>>

\* A draft ends with the answer to the latest change of its kind.
draftsAfter(r) ==
  drafts' = IF ~(r.phase = "done" /\ r.newest) THEN drafts
            ELSE [rules |-> IF r.kind = "rules" THEN NoRules ELSE drafts.rules,
                  mode |-> IF r.kind = "mode" THEN NoDraft ELSE drafts.mode]

Receive ==
  /\ todo = Nothing /\ replies # <<>> /\ replies' = Tail(replies)
  /\ LET r == Head(replies)
         l == r.own /\ r.kind \in {"list", "refresh"}
     IN  /\ seen' = IF r.phase = "done" THEN r.snap ELSE seen
         /\ ref' = IF l /\ r.phase = "done" THEN [ref EXCEPT !.list = r.snap.list, !.have = r.snap.have] ELSE ref
         /\ busy' = (busy /\ ~l) /\ turningOff' = (turningOff /\ ~l)
         /\ todo' = IF r.phase = "done" /\ r.then # Nothing THEN r.then @@ [away |-> ~r.own] ELSE Nothing
         /\ badgeAfter(r) /\ draftsAfter(r)
  /\ UNCHANGED <<away, failed, store, live, switches, calls, mounted, leaving, dialog, undo, wanted,
                 cut, other>>

\* The change that waited for a call goes on before anything else in the window.
Continue ==
  /\ todo # Nothing /\ ~todo.away /\ todo' = Nothing
  /\ applyPending(todo)
  /\ IF todo.kind = "offer"
     THEN undo' = [kind |-> "undo-import", rules |-> todo.rules] /\ dialog' = NoDialog
     ELSE UNCHANGED <<undo, dialog>>
  /\ UNCHANGED <<away, failed, store, live, mounted, seen, settled, retryOf, cut, other>>

ContinueAway ==
  /\ todo # Nothing /\ todo.away /\ todo' = Nothing
  /\ applyAway(todo)
  /\ blind' = TRUE
  /\ UNCHANGED <<store, live, mounted, seen, drafts, ref, leaving, turningOff, busy, dialog, undo,
                 settled, retryOf, reading, failed, cut, acts, faults>>

\* A session starts, with targets, or ends by itself; the page hears of it.
Session ==
  /\ todo = Nothing /\ acts < MaxActs /\ acts' = acts + 1
  /\ live \/ routingMutationAction = "apply"
  /\ blind' = (blind \/ (~live /\ (calls # <<>> \/ replies # <<>> \/ dialog # NoDialog
                                  \/ leaving \cup left.leaving # {} \/ reading # NoUndo)))
  /\ live' = ~live /\ seen' = [seen EXCEPT !.live = ~live]
  /\ ref' = IF mounted THEN [ref EXCEPT !.live = ~live] ELSE ref
  /\ UNCHANGED <<away, failed, store, switches, calls, replies, todo, mounted, drafts, leaving,
                 turningOff, busy, dialog, undo, badge, settled, retryOf, wanted, cut, faults>>

---------------------------------------------------------------------------
Init ==
  /\ \E m \in Modes, list, have, l \in BOOLEAN :
       /\ list => have
       /\ store = [rules |-> [i \in Ids |-> IF i \in Rule THEN "on" ELSE "absent"],
                   mode |-> m, list |-> list, have |-> have]
       /\ live = l /\ wanted = [rules |-> store.rules, mode |-> m, list |-> list]
  /\ seen = snapshot(live) /\ ref = seen
  /\ switches = 0 /\ calls = <<>> /\ replies = <<>> /\ todo = Nothing /\ mounted = TRUE
  /\ drafts = [rules |-> NoRules, mode |-> NoDraft] /\ leaving = {} /\ turningOff = FALSE /\ busy = FALSE
  /\ dialog = NoDialog /\ undo = NoUndo /\ badge = "saved" /\ settled = "saved" /\ retryOf = "none"
  /\ left = NoPage /\ reading = NoUndo /\ failed = {}
  /\ cut = FALSE /\ blind = FALSE /\ acts = 0 /\ faults = 0

Next ==
  \/ toggleRule \/ deleteRule \/ Removed \/ RemovedAway \/ addRule \/ toggleList \/ refreshList \/ pickMode
  \/ guardSwitchAnyway \/ guardEnableList \/ lastTargetConfirm \/ lastTargetToFull \/ closeDialog
  \/ confirmImport \/ Undo \/ UndoAway \/ UndoBuilds \/ retry \/ Leave \/ Return \/ Render
  \/ Save \/ applyRouting \/ Receive \/ Continue \/ ContinueAway \/ Session

Spec == Init /\ [][Next]_vars

---------------------------------------------------------------------------
(* What the user asked for last is what is saved once nothing is on its     *)
(* way: no change is built on rules that another change has already         *)
(* replaced, and a late download does not undo a switch.  The exceptions    *)
(* are exact: a kind whose last save failed, and the rules after one change *)
(* of them was built on replaced ones: by a new page, opened while the page *)
(* left before it still had a change of the rules on its way or unsaved; or *)
(* by what that page does after it was left, its Undo included.             *)
NothingIsLost ==
  Idle => /\ "rules" \notin failed /\ wanted.rules # NoRules => store.rules = wanted.rules
          /\ "mode" \notin failed => store.mode = wanted.mode
          /\ "list" \notin failed => store.list = wanted.list

(* Until then the page shows what was asked for, whatever answers arrive    *)
(* and saves fail; except that a new page does not show what the page left  *)
(* before it still has on its way, or failed to save.                       *)
ShownIsWanted ==
  mounted /\ todo = Nothing /\ ref = shown(seen) =>
    /\ wanted.rules = NoRules \/ Forgotten("rules") \/ settledRules(ref.rules) = settledRules(wanted.rules)
    /\ Forgotten("mode") \/ ref.mode = wanted.mode

(* The main process never has to end a session because the page let a       *)
(* change through that left a split tunnel without targets.  The exceptions *)
(* are exact: while the last change of some kind could not be saved, and    *)
(* after a change was decided by a page that could not see another one: one *)
(* that waits for a confirmed call, one of a page that was left, or one     *)
(* made before the session started.                                         *)
NeverCutUnasked == ~cut

(* The badge does not go on saying that something is being saved.           *)
BadgeSettles == Idle => badge # "saving"

(* Routing changes: kept, shown, and never the end of a session unasked.    *)
RoutingChangesAreKept == NothingIsLost /\ ShownIsWanted /\ NeverCutUnasked /\ BadgeSettles
=============================================================================
