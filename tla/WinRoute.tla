------------------------------ MODULE WinRoute ------------------------------
(***************************************************************************)
(* The routing table of the machine and the journal that describes what    *)
(* this program changed in it: native/service-go, internal/winroute (the   *)
(* manager, the plan, the journal and its lock), the runner that brings a   *)
(* dataplane up and down (dataplane/runner_windows.go, fatal.go) and the    *)
(* commands of the helper that ask for it (app/dataplane.go, routes.go).    *)
(*                                                                         *)
(* Several helper processes share one journal.  Every netsh command, every *)
(* write of the journal and every change of the lock is a step of its own; *)
(* a helper may be killed between any two of them, the network card may be *)
(* given another index, and another VPN's adapter may take a free one.     *)
(***************************************************************************)
EXTENDS Naturals, Sequences, FiniteSets, SequencesExt

CONSTANTS Helper,       \* the helper processes that share the journal
          Server,       \* the addresses of transport servers
          Index,        \* the interface indices Windows hands out
          MaxAttempts,  \* maxRecoveryAttempts
          MaxFaults,    \* bound: commands, writes and lookups that fail
          MaxCrashes,   \* bound: helpers that are killed
          MaxMoves      \* bound: network changes and adapters of others

Nic == "nic"
Vpn == "vpn"
Unknown == "unknown"    \* an interface that could not be identified
NoOne == "none"
Luid == {Nic, Vpn} \cup Helper
AdapterOps == {"addr", "capture"}

VARIABLES
    ifs,        \* LUID -> its index, 0 while the interface does not exist
    table,      \* the settings in force: [op, luid, by]
    journal,    \* the file: a sequence of entries, or << >> when there is none
    refused,    \* the file is one this helper may not trust
    lock,       \* the helper whose process holds the lock file
    pc,         \* what each helper is doing
    server,     \* the server a dataplane keeps outside the tunnel
    nicIndex,   \* the index of the physical path, as it was looked up
    todo,       \* commands of the pass under way, still to be run
    done,       \* commands of an Apply that were run
    kept,       \* undo commands of the pass that failed
    applied,    \* Manager.applied
    leftover,   \* Manager.leftover
    then,       \* what the pass under way is for
    guard,      \* the traffic guard of the runner
    moved,      \* the network changed since the plan was applied
    behind,     \* history: the journal is not the one this helper's recovery left
    lost,       \* settings the code stopped describing, with the reason
    faults, crashes, moves

hvars == <<pc, server, nicIndex, todo, done, kept, applied, leftover, then, guard, moved, behind>>
vars == <<ifs, table, journal, refused, lock, hvars, lost, faults, crashes, moves>>

-----------------------------------------------------------------------------
(* Commands.                                                                *)

\* plan.go: Operations.  The host route comes first.  Of the adapter's
\* settings the address (with its metric) and the capture routes are kept.
Operations(s, nic, tun) ==
    << [op |-> s, index |-> nic, luid |-> Unknown, attempts |-> 0],
       [op |-> "addr", index |-> tun, luid |-> Unknown, attempts |-> 0],
       [op |-> "capture", index |-> tun, luid |-> Unknown, attempts |-> 0] >>

\* A host route is deleted by prefix, interface and next hop.
pinned(e) == e.op \in Server

LuidAt(i) == {l \in Luid : i # 0 /\ ifs[l] = i}
At(i) == CHOOSE l \in Luid : ifs[l] = i

\* The settings a command reaches: the ones of its kind on the interface that
\* has its index now.
Reached(e) == {x \in table : x.op = e.op /\ x.luid \in LuidAt(e.index)}

\* netsh adds a route that is not there, and sets an address at any time.  The
\* gateway of a host route is a neighbour of the network card only.
CanApply(e) ==
    /\ IF pinned(e) THEN LuidAt(e.index) = {Nic} ELSE LuidAt(e.index) # {}
    /\ e.op = "addr" \/ Reached(e) = {}
AfterApply(e, h) ==
    (table \ Reached(e)) \cup {[op |-> e.op, luid |-> At(e.index), by |-> h]}

\* It deletes a route that is there, and resets an address at any time.
CanUndo(e) == LuidAt(e.index) # {} /\ (e.op = "addr" \/ Reached(e) # {})
AfterUndo(e) == table \ Reached(e)

\* The settings an entry of the journal describes.
Describes(e, x) ==
    /\ e.op = x.op
    /\ x.luid = e.luid \/ (e.luid = Unknown /\ x.luid \in LuidAt(e.index))
Described(entries) == {x \in table : \E i \in DOMAIN entries : Describes(entries[i], x)}

\* manager.go: interfaceGoneLocked, when the interface can be looked up.
interfaceGone(e) == e.luid # Unknown /\ (ifs[e.luid] = 0 \/ ifs[e.luid] # e.index)

\* manager.go: routeAbsentLocked.  Only the deletion of a route can be checked.
routeAbsent(e) ==
    /\ e.op # "addr"
    /\ Described(<<e>>) = {}

\* manager.go: withoutRoutesInPlaceLocked, then identifyLocked, which may fail to
\* look up an index.
Prepared(ops, unreadable) ==
    LET InPlace(e) == pinned(e) /\ Reached(e) # {}
        Identified(e) == [e EXCEPT !.luid = IF LuidAt(e.index) = {} \/ e.index = unreadable
                                            THEN Unknown ELSE At(e.index)]
        want == SelectSeq(ops, LAMBDA e : ~InPlace(e))
    IN [i \in DOMAIN want |-> Identified(want[i])]

\* journal.go: splitJournalEntries.  The host routes are written first.
Split(entries) ==
    SelectSeq(entries, LAMBDA e : pinned(e)) \o SelectSeq(entries, LAMBDA e : ~pinned(e))

\* The settings that entries described and that nothing will describe any more.
Lose(entries, why) == {[x |-> x, why |-> why] : x \in Described(entries)}

-----------------------------------------------------------------------------
\* The interfaces, the table, the journal and the managers' fields have the
\* shapes the code gives them.
TypeOK ==
    /\ ifs \in [Luid -> Index \cup {0}]
    /\ \A x \in table : x.op \in Server \cup AdapterOps /\ x.luid \in Luid
    /\ lock \in Helper \cup {NoOne}
    /\ \A i \in DOMAIN journal : journal[i].attempts < MaxAttempts
    /\ pc \in [Helper -> {"down", "idle", "wait", "pass", "look", "open", "lock", "write",
                          "apply", "plane", "up", "failed", "close", "exit"}]
    /\ guard \in [Helper -> {"off", "on", "stuck"}]
    /\ \A h \in Helper : behind[h] => pc[h] \in {"look", "open", "lock", "write"}
    /\ \A h \in Helper : applied[h] # << >> => pc[h] \in {"plane", "up", "failed", "pass", "close", "exit"}

Init ==
    /\ ifs = [l \in Luid |-> IF l = Nic THEN CHOOSE i \in Index : TRUE ELSE 0]
    \* an earlier release may have left a route and a journal that is refused
    /\ \E old \in SUBSET Server :
         /\ Cardinality(old) <= 1
         /\ table = {[op |-> s, luid |-> Nic, by |-> NoOne] : s \in old}
         /\ refused = (old # {})
         /\ lost = {[x |-> x, why |-> "refused"] : x \in table}
    /\ journal = << >>
    /\ lock = NoOne
    /\ pc = [h \in Helper |-> "down"]
    /\ server = [h \in Helper |-> NoOne]
    /\ nicIndex = [h \in Helper |-> 0]
    /\ todo = [h \in Helper |-> << >>] /\ done = todo /\ kept = todo
    /\ applied = todo /\ leftover = todo
    /\ then = [h \in Helper |-> "none"]
    /\ guard = [h \in Helper |-> "off"]
    /\ moved = [h \in Helper |-> FALSE] /\ behind = moved
    /\ faults = 0 /\ crashes = 0 /\ moves = 0

Fault == faults < MaxFaults /\ faults' = faults + 1
NoFault == UNCHANGED faults
World == UNCHANGED <<crashes, moves>>
Goto(h, p) == pc' = [pc EXCEPT ![h] = p]
Keeps(h) == UNCHANGED <<server, nicIndex, moved>>

\* The process's memory once a runner is let go of: nothing of it is used again.
Forget(h) ==
    /\ todo' = [todo EXCEPT ![h] = << >>]
    /\ done' = [done EXCEPT ![h] = << >>]
    /\ kept' = [kept EXCEPT ![h] = << >>]
    /\ applied' = [applied EXCEPT ![h] = << >>]
    /\ leftover' = [leftover EXCEPT ![h] = << >>]
    /\ then' = [then EXCEPT ![h] = "none"]
    /\ server' = [server EXCEPT ![h] = NoOne]
    /\ nicIndex' = [nicIndex EXCEPT ![h] = 0]
    /\ moved' = [moved EXCEPT ![h] = FALSE]

Unlocked(h) == IF lock = h THEN NoOne ELSE lock

\* An interface that goes takes every setting on it along.
WithoutOn(l) == {x \in table : x.luid # l}

-----------------------------------------------------------------------------
(* The helper's commands.                                                   *)

Launch(h) ==
    /\ pc[h] = "down"
    /\ Goto(h, "idle")
    /\ UNCHANGED <<ifs, table, journal, behind, refused, lock, lost, server, nicIndex, todo, done,
                   kept, applied, leftover, then, guard, moved, faults>> /\ World

\* handleStartDataplane: StartWindows asks for the journal and waits for it.
handleStartDataplane(h) ==
    /\ pc[h] = "idle"
    /\ \E s \in Server : server' = [server EXCEPT ![h] = s]
    /\ Goto(h, "wait")
    /\ then' = [then EXCEPT ![h] = "start"]
    /\ UNCHANGED <<ifs, table, journal, behind, refused, lock, lost, nicIndex, todo, done, kept,
                   applied, leftover, guard, moved, faults>> /\ World

\* handleRecoverRoutes: RecoverJournal tries the lock once.
handleRecoverRoutes(h) ==
    /\ pc[h] = "idle"
    /\ lock = NoOne
    /\ Goto(h, "wait")
    /\ then' = [then EXCEPT ![h] = "command"]
    /\ UNCHANGED <<ifs, table, journal, behind, refused, lock, lost, server, nicIndex, todo, done, kept,
                   applied, leftover, guard, moved, faults>> /\ World

\* A start that fails lets the journal go and its adapter be closed.
AbandonStart(h) ==
    /\ Goto(h, "idle") /\ Forget(h)
    /\ lock' = Unlocked(h)
    /\ ifs' = [ifs EXCEPT ![h] = 0]
    /\ table' = WithoutOn(h)

\* acquireLockLocked: another helper kept the lock for longer than the wait.
JournalInUse(h) ==
    /\ pc[h] \in {"wait", "lock"}
    /\ lock # NoOne
    /\ AbandonStart(h)
    /\ behind' = [behind EXCEPT ![h] = FALSE]
    /\ UNCHANGED <<journal, refused, lost, guard, faults>> /\ World

\* recover, up to its first command: the lock is taken and the file is read.  A
\* file that is not trusted is set aside, and the start goes on without it, as
\* it does without a file that could not be read.
recover(h) ==
    /\ pc[h] = "wait" /\ lock = NoOne
    /\ \/ /\ refused
          /\ refused' = FALSE
          /\ Goto(h, IF then[h] = "start" THEN "look" ELSE "idle")
          /\ UNCHANGED <<todo, lock, behind, faults>>
       \/ /\ ~refused /\ journal = << >>
          /\ Goto(h, IF then[h] = "start" THEN "look" ELSE "idle")
          /\ UNCHANGED <<todo, refused, lock, behind, faults>>
       \/ /\ ~refused /\ journal # << >> /\ Fault
          /\ Goto(h, IF then[h] = "start" THEN "look" ELSE "idle")
          /\ behind' = [behind EXCEPT ![h] = then[h] = "start"]
          /\ UNCHANGED <<todo, refused, lock>>
       \/ /\ ~refused /\ journal # << >> /\ NoFault
          /\ lock' = h
          /\ todo' = [todo EXCEPT ![h] = Reverse(journal)]
          /\ Goto(h, "pass")
          /\ UNCHANGED <<refused, behind>>
    /\ leftover' = [leftover EXCEPT ![h] = << >>]
    /\ UNCHANGED <<ifs, table, journal, lost, done, kept, applied, then, guard>>
    /\ World /\ Keeps(h)

-----------------------------------------------------------------------------
(* Undoing: recoveryActionLocked and undoLocked, one entry at a time.       *)

Recovering(h) == then[h] \in {"start", "command"}

\* The entry is dropped without a command: its interface is gone, or - in
\* recovery only - nothing says which interface it was made on.
DropsEntry(h, e) ==
    \/ interfaceGone(e)
    \/ Recovering(h) /\ e.luid = Unknown /\ ~pinned(e)

Step(h, k, tab) ==
    /\ todo' = [todo EXCEPT ![h] = Tail(@)]
    /\ kept' = [kept EXCEPT ![h] = @ \o k]
    /\ table' = tab

\* The undo command of the entry: it works, it fails and changed nothing, or it
\* fails although it made the change.  The failure of a deletion whose route is
\* absent is not one.
UndoOne(h) ==
    /\ pc[h] = "pass" /\ then[h] # "rollback" /\ todo[h] # << >>
    /\ LET e == Head(todo[h]) IN
       \/ /\ DropsEntry(h, e)
          /\ Step(h, << >>, table)
          /\ lost' = IF interfaceGone(e) THEN lost ELSE lost \cup Lose(<<e>>, "abandoned")
          /\ NoFault
       \/ /\ ~DropsEntry(h, e) /\ CanUndo(e)
          /\ Step(h, << >>, AfterUndo(e))
          /\ NoFault /\ UNCHANGED lost
       \/ /\ ~DropsEntry(h, e) /\ ~CanUndo(e)
          /\ Step(h, IF routeAbsent(e) THEN << >> ELSE <<e>>, table)
          /\ NoFault /\ UNCHANGED lost
       \/ /\ ~DropsEntry(h, e) /\ CanUndo(e)
          /\ Fault /\ UNCHANGED lost
          /\ \/ Step(h, <<e>>, table)
             \/ Step(h, IF e.op = "addr" THEN <<e>> ELSE << >>, AfterUndo(e))
    /\ UNCHANGED <<ifs, journal, behind, refused, lock, pc, done, applied, leftover, then, guard>>
    /\ World /\ Keeps(h)

\* Mutant: a recovery clears the journal whatever it could not undo.
RetainedNothing(entries) == << >>

\* What a recovery retains of the entries it could not undo, in the order they
\* were applied; an entry that failed too often is given up.
Retained(entries) ==
    Reverse(SelectSeq([i \in DOMAIN entries |-> [entries[i] EXCEPT !.attempts = @ + 1]],
                      LAMBDA e : e.attempts < MaxAttempts))

GivenUp(entries) == SelectSeq(entries, LAMBDA e : e.attempts + 1 >= MaxAttempts)

\* The starts of other helpers that have done their recovery and not yet taken the
\* lock for their Apply: the file they have read is not the one h leaves behind.
Overtaken(h) ==
    [g \in Helper |-> g # h /\ (behind[g] \/ pc[g] \in {"look", "open", "lock"})]

\* persistLocked: the file is replaced or removed; a write that fails leaves it.
Persist(h, entries) ==
    \/ journal' = Split(entries) /\ behind' = Overtaken(h) /\ NoFault
    \/ UNCHANGED <<journal, behind>> /\ Fault

EndRecovery(h) ==
    /\ pc[h] = "pass" /\ todo[h] = << >> /\ Recovering(h)
    /\ Persist(h, Retained(kept[h]))
    /\ leftover' = [leftover EXCEPT ![h] = Retained(kept[h])]
    /\ kept' = [kept EXCEPT ![h] = << >>]
    /\ lost' = lost \cup Lose(GivenUp(kept[h]), "given up")
    /\ lock' = Unlocked(h)
    /\ Goto(h, IF then[h] = "start" THEN "look" ELSE "idle")
    /\ UNCHANGED <<ifs, table, refused, todo, done, applied, then, guard>> /\ World /\ Keeps(h)

-----------------------------------------------------------------------------
(* StartWindows after the recovery.                                         *)

\* The physical path is looked up before the adapter exists.
LookupEgress(h) ==
    /\ pc[h] = "look"
    /\ nicIndex' = [nicIndex EXCEPT ![h] = ifs[Nic]]
    /\ Goto(h, "open")
    /\ UNCHANGED <<ifs, table, journal, behind, refused, lock, lost, server, todo, done, kept, applied,
                   leftover, then, guard, moved, faults>> /\ World

\* tun.Open: Windows gives the adapter a free index.  One that was just said to
\* be the way to the internet ends the start.
OpenAdapter(h) ==
    /\ pc[h] = "open"
    /\ \E i \in {j \in Index : LuidAt(j) = {}} :
         \/ /\ i # nicIndex[h]
            /\ ifs' = [ifs EXCEPT ![h] = i]
            /\ Goto(h, "lock")
            /\ UNCHANGED <<table, lock, server, nicIndex, todo, done, kept, applied, leftover,
                           then, moved, behind>>
         \/ i = nicIndex[h] /\ AbandonStart(h) /\ behind' = [behind EXCEPT ![h] = FALSE]
    /\ UNCHANGED <<journal, refused, lost, guard, faults>> /\ World

\* Apply, up to its journal: the lock, the routes in place, the identities.
Apply(h) ==
    /\ pc[h] = "lock" /\ lock = NoOne
    /\ lock' = h
    /\ \E i \in {0, nicIndex[h], ifs[h]} :
         /\ IF i = 0 THEN NoFault ELSE Fault
         /\ todo' = [todo EXCEPT ![h] = Prepared(Operations(server[h], nicIndex[h], ifs[h]), i)]
    /\ moved' = [moved EXCEPT ![h] = FALSE]
    /\ Goto(h, "write")
    /\ UNCHANGED <<ifs, table, journal, behind, refused, lost, server, nicIndex, done, kept, applied,
                   leftover, then, guard>> /\ World

\* Mutant: a start forgets what its own recovery could not undo.
WriteJournalAlone(h) ==
    /\ pc[h] = "write"
    /\ journal' = Split(todo[h])
    /\ behind' = Overtaken(h)
    /\ lost' = lost \cup {l \in Lose(journal, "overwritten") :
                            behind[h] /\ l.x \notin Described(todo[h])}
    /\ Goto(h, "apply") /\ NoFault
    /\ UNCHANGED <<ifs, table, lock, server, nicIndex, todo, done, kept, applied, leftover,
                   then, moved, refused, guard>> /\ World

\* The journal is written before the first command runs, over whatever the file
\* holds: it was read by this start's recovery, and another helper may have
\* written it since, while the lock was free.
WriteJournal(h) ==
    /\ pc[h] = "write"
    /\ \/ /\ journal' = Split(leftover[h] \o todo[h])
          /\ behind' = Overtaken(h)
          /\ lost' = lost \cup {l \in Lose(journal, "overwritten") :
                                  behind[h] /\ l.x \notin Described(leftover[h] \o todo[h])}
          /\ Goto(h, "apply") /\ NoFault
          /\ UNCHANGED <<ifs, table, lock, server, nicIndex, todo, done, kept, applied, leftover,
                         then, moved>>
       \/ /\ Fault /\ AbandonStart(h) /\ behind' = [behind EXCEPT ![h] = FALSE]
          /\ UNCHANGED <<journal, lost>>
    /\ UNCHANGED <<refused, guard>> /\ World

\* One command of the plan: it works, it fails, or it fails although it made the
\* change.  A failure starts the rollback with the undo of that very command,
\* whose own failure is not kept.
ApplyOne(h) ==
    /\ pc[h] = "apply" /\ todo[h] # << >>
    /\ LET e == Head(todo[h]) IN
       \/ /\ CanApply(e)
          /\ table' = AfterApply(e, h)
          /\ todo' = [todo EXCEPT ![h] = Tail(@)]
          /\ done' = [done EXCEPT ![h] = Append(@, e)]
          /\ NoFault
          /\ UNCHANGED <<pc, then>>
       \/ /\ \/ ~CanApply(e) /\ table' = table /\ NoFault
             \/ table' = table /\ Fault
             \/ CanApply(e) /\ table' = AfterApply(e, h) /\ Fault
          /\ todo' = [todo EXCEPT ![h] = <<e>>]
          /\ Goto(h, "pass")
          /\ then' = [then EXCEPT ![h] = "rollback"]
          /\ UNCHANGED done
    /\ UNCHANGED <<ifs, journal, behind, refused, lock, lost, server, nicIndex, kept, applied, leftover,
                   guard, moved>> /\ World

\* rollbackLocked: the undo of the failed command, then of the ones before it.
UndoFailed(h) ==
    /\ pc[h] = "pass" /\ then[h] = "rollback" /\ todo[h] # << >>
    /\ LET e == Head(todo[h]) IN
       \/ CanUndo(e) /\ table' = AfterUndo(e) /\ NoFault /\ UNCHANGED lost
       \/ ~CanUndo(e) /\ NoFault /\ UNCHANGED <<table, lost>>
       \/ /\ CanUndo(e) /\ Fault /\ UNCHANGED table
          /\ lost' = lost \cup Lose(<<e>>, "failed step")
    /\ todo' = [todo EXCEPT ![h] = Reverse(done[h])]
    /\ done' = [done EXCEPT ![h] = << >>]
    /\ then' = [then EXCEPT ![h] = "undo"]
    /\ UNCHANGED <<ifs, journal, behind, refused, lock, pc, kept, applied, leftover, guard>>
    /\ World /\ Keeps(h)

\* The rollback is over: what could not be undone is left to a recovery, the
\* lock is let go of and the adapter closed.
EndRollback(h) ==
    /\ pc[h] = "pass" /\ todo[h] = << >> /\ then[h] = "undo"
    /\ Persist(h, leftover[h] \o Reverse(kept[h]))
    /\ AbandonStart(h)
    /\ UNCHANGED <<refused, lost, guard>> /\ World

ApplyDone(h) ==
    /\ pc[h] = "apply" /\ todo[h] = << >>
    /\ applied' = [applied EXCEPT ![h] = done[h]]
    /\ done' = [done EXCEPT ![h] = << >>]
    /\ Goto(h, "plane")
    /\ UNCHANGED <<ifs, table, journal, behind, refused, lock, lost, todo, kept, leftover, then, guard,
                   faults>> /\ World /\ Keeps(h)

\* Restore undoes what is applied, last first.
Restore(h, why) ==
    /\ todo' = [todo EXCEPT ![h] = Reverse(applied[h])]
    /\ then' = [then EXCEPT ![h] = why]
    /\ Goto(h, "pass")

\* The stack starts, and the traffic guard with it or not; a stack that does not
\* start gives the routes back.
StartPlane(h) ==
    /\ pc[h] = "plane"
    /\ \/ /\ \E g \in {"on", "off"} : guard' = [guard EXCEPT ![h] = g]
          /\ Goto(h, "up") /\ NoFault
          /\ then' = [then EXCEPT ![h] = "none"]
          /\ UNCHANGED todo
       \/ Fault /\ Restore(h, "noplane") /\ UNCHANGED guard
    /\ UNCHANGED <<ifs, table, journal, behind, refused, lock, lost, done, kept, applied, leftover>>
    /\ World /\ Keeps(h)

-----------------------------------------------------------------------------
(* A dataplane that is up, and how it comes down.                           *)

\* watchRoutes: a table that outgrew the guard takes the guard away.
watchRoutes(h) ==
    /\ pc[h] = "up" /\ guard[h] = "on"
    /\ guard' = [guard EXCEPT ![h] = "off"]
    /\ UNCHANGED <<ifs, table, journal, behind, refused, lock, lost, pc, server, nicIndex, todo, done,
                   kept, applied, leftover, then, moved, faults>> /\ World

\* The adapter is removed under the dataplane, which reports it.
PlaneFails(h) ==
    /\ pc[h] = "up" /\ moves < MaxMoves
    /\ moves' = moves + 1
    /\ ifs' = [ifs EXCEPT ![h] = 0]
    /\ table' = WithoutOn(h)
    /\ Goto(h, "failed")
    /\ UNCHANGED <<journal, behind, refused, lock, lost, server, nicIndex, todo, done, kept, applied,
                   leftover, then, guard, moved, faults, crashes>>

\* Mutant: the routes are restored while the guard is in place.
closeGuardLast(h) ==
    /\ pc[h] \in {"up", "failed"}
    /\ \E why \in {"stop", "shutdown", "fatal"} :
         /\ why = "fatal" => pc[h] = "failed"
         /\ Restore(h, why)
    /\ UNCHANGED <<ifs, table, journal, behind, refused, lock, lost, done, kept, applied, leftover,
                   guard, faults>>
    /\ World /\ Keeps(h)

\* runnerTeardown: the guard first.  stop-dataplane and shutdown ask for it, and
\* a dataplane that failed does it itself and ends the helper.
closeGuard(h) ==
    /\ pc[h] \in {"up", "failed"}
    /\ \E why \in {"stop", "shutdown", "fatal"} :
         /\ why = "fatal" => pc[h] = "failed"
         /\ Restore(h, why)
    /\ \/ guard' = [guard EXCEPT ![h] = "off"] /\ NoFault
       \/ guard[h] = "on" /\ guard' = [guard EXCEPT ![h] = "stuck"] /\ Fault
    /\ UNCHANGED <<ifs, table, journal, behind, refused, lock, lost, done, kept, applied, leftover>>
    /\ World /\ Keeps(h)

\* Restore's end: only what failed stays applied, and is journalled.
EndRestore(h) ==
    /\ pc[h] = "pass" /\ todo[h] = << >> /\ then[h] \in {"stop", "shutdown", "fatal", "noplane"}
    /\ applied' = [applied EXCEPT ![h] = Reverse(kept[h])]
    /\ kept' = [kept EXCEPT ![h] = << >>]
    /\ Persist(h, leftover[h] \o Reverse(kept[h]))
    /\ lock' = IF kept[h] = << >> THEN Unlocked(h) ELSE lock
    /\ Goto(h, "close")
    /\ UNCHANGED <<ifs, table, refused, lost, todo, done, leftover, then, guard>>
    /\ World /\ Keeps(h)

\* closePlane, then the second Restore of what the first could not undo, which
\* now finds the adapter's settings gone with it.
closePlane(h) ==
    /\ pc[h] = "close"
    /\ ifs' = [ifs EXCEPT ![h] = 0]
    /\ table' = WithoutOn(h)
    /\ \/ /\ applied[h] # << >> /\ then[h] # "noplane"
          /\ todo' = [todo EXCEPT ![h] = Reverse(applied[h])]
          /\ Goto(h, "exit")
       \/ /\ applied[h] = << >> \/ then[h] = "noplane"
          /\ Goto(h, "exit")
          /\ UNCHANGED todo
    /\ UNCHANGED <<journal, behind, refused, lock, lost, done, kept, applied, leftover, then, guard,
                   faults>> /\ World /\ Keeps(h)

RetryUndo(h) ==
    /\ pc[h] = "exit" /\ todo[h] # << >>
    /\ LET e == Head(todo[h]) IN
       \/ interfaceGone(e) /\ Step(h, << >>, table) /\ NoFault
       \/ ~interfaceGone(e) /\ CanUndo(e) /\ Step(h, << >>, AfterUndo(e)) /\ NoFault
       \/ /\ ~interfaceGone(e)
          /\ \/ ~CanUndo(e) /\ NoFault
             \/ CanUndo(e) /\ Fault
          /\ Step(h, IF routeAbsent(e) THEN << >> ELSE <<e>>, table)
    /\ UNCHANGED <<ifs, journal, behind, refused, lock, pc, done, applied, leftover, then, guard, lost>>
    /\ World /\ Keeps(h)

\* The runner is let go of: what is left is released to the next recovery.  An
\* accepted shutdown and a fatal failure end the process, which ends the guard.
CloseDone(h) ==
    /\ pc[h] = "exit" /\ todo[h] = << >>
    /\ IF applied[h] # << >> /\ then[h] # "noplane"
       THEN Persist(h, leftover[h] \o Reverse(kept[h]))
       ELSE UNCHANGED <<journal, behind, faults>>
    /\ lock' = Unlocked(h)
    /\ LET clean == guard[h] # "stuck" /\ kept[h] = << >>
           ends == then[h] = "fatal" \/ (then[h] = "shutdown" /\ clean)
       IN /\ Goto(h, IF ends THEN "down" ELSE "idle")
          /\ guard' = [guard EXCEPT ![h] = IF ends THEN "off" ELSE @]
    /\ Forget(h)
    /\ UNCHANGED <<ifs, table, refused, lost>> /\ World

-----------------------------------------------------------------------------
(* What happens to the helpers.                                             *)

\* The process is killed: the lock, the guard and the adapter go with it.
Crash(h) ==
    /\ pc[h] # "down" /\ crashes < MaxCrashes
    /\ crashes' = crashes + 1
    /\ Goto(h, "down") /\ Forget(h)
    /\ guard' = [guard EXCEPT ![h] = "off"]
    /\ lock' = Unlocked(h)
    /\ ifs' = [ifs EXCEPT ![h] = 0]
    /\ table' = WithoutOn(h)
    /\ behind' = [behind EXCEPT ![h] = FALSE]
    /\ UNCHANGED <<journal, refused, lost, faults, moves>>

\* The network card goes down and comes back, under its index or another one.
NetworkChange ==
    /\ moves < MaxMoves /\ moves' = moves + 1
    /\ \E i \in {j \in Index : LuidAt(j) \subseteq {Nic}} : ifs' = [ifs EXCEPT ![Nic] = i]
    /\ table' = WithoutOn(Nic)
    /\ moved' = [h \in Helper |-> TRUE]
    /\ UNCHANGED <<journal, behind, refused, lock, pc, server, nicIndex, todo, done, kept, applied,
                   leftover, then, guard, lost, faults, crashes>>

\* Another VPN brings an adapter up, with an address of its own, or takes it down.
OtherAdapter ==
    /\ moves < MaxMoves /\ moves' = moves + 1
    /\ \/ /\ ifs[Vpn] = 0
          /\ \E i \in {j \in Index : LuidAt(j) = {}} : ifs' = [ifs EXCEPT ![Vpn] = i]
          /\ table' = table \cup {[op |-> "addr", luid |-> Vpn, by |-> Vpn]}
       \/ ifs[Vpn] # 0 /\ ifs' = [ifs EXCEPT ![Vpn] = 0] /\ table' = WithoutOn(Vpn)
    /\ UNCHANGED <<journal, refused, lock, hvars, lost, faults, crashes>>

Next ==
    \/ \E h \in Helper :
         \/ Launch(h) \/ handleStartDataplane(h) \/ handleRecoverRoutes(h) \/ JournalInUse(h)
         \/ recover(h) \/ UndoOne(h) \/ EndRecovery(h)
         \/ LookupEgress(h) \/ OpenAdapter(h) \/ Apply(h) \/ WriteJournal(h) \/ ApplyOne(h)
         \/ UndoFailed(h) \/ EndRollback(h) \/ ApplyDone(h) \/ StartPlane(h)
         \/ watchRoutes(h) \/ PlaneFails(h) \/ closeGuard(h) \/ EndRestore(h)
         \/ closePlane(h) \/ RetryUndo(h) \/ CloseDone(h) \/ Crash(h)
    \/ NetworkChange
    \/ OtherAdapter

Spec == Init /\ [][Next]_vars

-----------------------------------------------------------------------------
(* Properties.                                                              *)

Ours == {x \in table : x.by # Vpn}

\* Whatever this program put into the routing table and is still there is
\* described by the journal, so that a later recovery can undo it, unless the
\* code has said that it gives it up: after too many attempts, with an entry
\* nobody can place, with a journal that was refused, or in the rollback of the
\* command that failed.  One start more loses what the journal describes: one
\* whose own recovery has read another file than it writes over, because a second
\* helper wrote the journal between the two or because the file could not be
\* read.  A start never loses an entry its recovery has read.
JournalCoversTable ==
    Ours \subseteq Described(journal) \cup {l.x : l \in lost}

\* While a dataplane is up and the network has not changed under it, every
\* setting of its plan is in force: no recovery of another helper takes routes
\* that are in use for leftovers.
AppliedIsInForce ==
    \A h \in Helper : pc[h] \in {"plane", "up"} /\ ~moved[h] =>
        \A i \in DOMAIN applied[h] : Reached(applied[h][i]) # {}

\* Traffic is captured only while the transport's own server is kept outside the
\* tunnel, at every instant of an Apply, a rollback and a teardown; an undo that
\* failed and a network change are the exceptions.
CapturedServerIsExcluded ==
    \A h \in Helper :
        /\ pc[h] \notin {"down", "idle"} /\ ~moved[h] /\ faults = 0
        /\ \E x \in table : x.op = "capture" /\ x.luid = h
        => \E x \in table : x.op = server[h] /\ x.luid = Nic

\* The guard that refuses traffic of sockets bound to another interface is in
\* place only while the capture routes carry that traffic instead.
GuardOnlyWhileCaptured ==
    \A h \in Helper : guard[h] = "on" /\ pc[h] # "failed" =>
        \E x \in table : x.op = "capture" /\ x.luid = h

\* No command of this program reconfigures the adapter of another VPN, although
\* Windows may give that adapter the index a journal names.
ForeignSettingsStay ==
    ifs[Vpn] # 0 => [op |-> "addr", luid |-> Vpn, by |-> Vpn] \in table

\* What is changed on the machine is described, and nothing else is touched.
ChangesAreDescribed == JournalCoversTable /\ ForeignSettingsStay

\* Routes in use stay in force, and never capture the tunnel's own server.
RoutesInUse == AppliedIsInForce /\ CapturedServerIsExcluded /\ GuardOnlyWhileCaptured

=============================================================================
