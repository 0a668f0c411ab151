------------------------- MODULE ProcessAttribution -------------------------
(***************************************************************************)
(* NativeProcessAttribution: lookups of the process behind an accepted      *)
(* socket, answered from snapshots of the TCP table they share; the pause    *)
(* after failed snapshots; and the helper process it starts on demand.       *)
(*                                                                         *)
(* Time is who had asked: a capture knows the lookups that were made before *)
(* it started, a snapshot those whose sockets it holds.                      *)
(***************************************************************************)
EXTENDS Naturals, FiniteSets

CONSTANTS
    Lookup,               \* resolveProcessName calls
    MAX_SNAPSHOT_FAILURES, MAX_SNAPSHOT_ATTEMPTS,
    MaxFaults, MaxLapses

VARIABLES
    call,      \* of each lookup: "new", "waiting", "again", "done"
    awaits,    \* the capture a waiting lookup awaits: "running" or "queued"
    tries,     \* its turns of the retry loop
    answer,    \* "none", "right", "stale" or "undefined"
    active,    \* a capture is running
    running,   \* the lookups made before it began
    queued,    \* a capture follows it
    covered,   \* the lookups made before snapshotAt
    holds,     \* the lookups whose sockets the snapshot holds
    failures,  \* consecutiveFailures
    paused,    \* the pause has not lapsed
    helper,    \* "none", "starting", "ready"
    disposed,
    misled,    \* history: the lookups for which the last capture that was late
               \* enough failed, as it was when they were answered
    faults, lapses

calls == <<call, awaits, tries, answer>>
capture == <<active, running, queued, helper>>
table == <<covered, holds, failures, paused>>
vars == <<calls, capture, table, disposed, misled, faults, lapses>>

\* Every variable holds a value of its kind.
TypeOK ==
    /\ call \in [Lookup -> {"new", "waiting", "again", "done"}]
    /\ awaits \in [Lookup -> {"running", "queued"}]
    /\ answer \in [Lookup -> {"none", "right", "stale", "undefined"}]
    /\ {running, covered, holds, misled} \subseteq SUBSET Lookup
    /\ {active, queued, paused, disposed} \subseteq BOOLEAN
    /\ failures \in Nat /\ tries \in [Lookup -> 0..MAX_SNAPSHOT_ATTEMPTS]
    /\ helper \in {"none", "starting", "ready"}

Made == {l \in Lookup : call[l] # "new"}

Answered(l) ==
    [answer EXCEPT ![l] = IF disposed THEN "undefined"
                          ELSE IF l \in holds THEN "right" ELSE "stale"]

\* startRefresh: the capture is newer than every lookup made so far.  The
\* helper is started first when there is none.
startRefresh(made, h) ==
    active' = TRUE /\ running' = made /\ helper' = IF h = "none" THEN "starting" ELSE h

joins(l) == active /\ l \in running

\* refreshAfter: join a capture that began late enough, begin one, or share the
\* one that follows the running one.
refreshAfter(l, made) ==
    /\ call' = [call EXCEPT ![l] = "waiting"]
    /\ tries' = [tries EXCEPT ![l] = @ + 1]
    /\ awaits' = [awaits EXCEPT ![l] = IF active /\ ~joins(l) THEN "queued" ELSE "running"]
    /\ IF active
       THEN queued' = (queued \/ ~joins(l)) /\ UNCHANGED <<active, running, helper>>
       ELSE startRefresh(made, helper) /\ UNCHANGED queued

Resolve(l) ==
    /\ call[l] = "new"
    /\ \/ /\ disposed \/ paused
          /\ call' = [call EXCEPT ![l] = "done"] /\ answer' = [answer EXCEPT ![l] = "undefined"]
          /\ UNCHANGED <<awaits, tries, capture>>
       \/ /\ ~disposed /\ ~paused
          /\ refreshAfter(l, Made \cup {l})
          /\ UNCHANGED answer
    /\ UNCHANGED <<table, disposed, misled, faults, lapses>>

\* A started helper that can answer is kept.
HelperReady ==
    /\ active /\ helper = "starting" /\ helper' = "ready"
    /\ UNCHANGED <<calls, active, running, queued, table, disposed, misled, faults, lapses>>

\* Mutant: the capture that was to follow is begun only when another is asked for.
followsLater == FALSE
follows == queued

\* The lookups of this capture that have no answer yet.
pending == {l \in running : call[l] # "done"}

\* The capture is over: snapshotAt advances, its waiters run on, and the one
\* that was to follow it begins.
over(h) ==
    /\ covered' = covered \cup running
    /\ call' = [l \in Lookup |-> IF call[l] = "waiting" /\ awaits[l] = "running"
                                 THEN "again" ELSE call[l]]
    /\ awaits' = [l \in Lookup |-> "running"]
    /\ queued' = FALSE
    /\ IF follows THEN startRefresh(Made, h)
       ELSE active' = FALSE /\ running' = {} /\ helper' = h
    /\ UNCHANGED <<tries, answer>>

CaptureSucceeds ==
    /\ active /\ helper = "ready"
    /\ IF disposed THEN UNCHANGED <<holds, failures, misled>>
       ELSE holds' = running /\ failures' = 0 /\ misled' = misled \ pending
    /\ over(helper)
    /\ UNCHANGED <<paused, disposed, faults, lapses>>

\* A failed capture counts and gives its helper up; a helper disposed of under
\* it fails it too.  Its lookups end all the same.
CaptureFails ==
    /\ active
    /\ \/ disposed /\ helper = "none" /\ UNCHANGED faults
       \/ faults < MaxFaults /\ faults' = faults + 1
    /\ failures' = failures + 1
    /\ paused' = (paused \/ failures' = MAX_SNAPSHOT_FAILURES)
    /\ misled' = misled \cup pending
    /\ over("none")
    /\ UNCHANGED <<holds, disposed, lapses>>

\* A lookup whose await ended asks once more while the snapshot is older.
Continue(l) ==
    /\ call[l] = "again"
    /\ LET enough == disposed \/ l \in covered \/ tries[l] = MAX_SNAPSHOT_ATTEMPTS IN
       \/ /\ enough
          /\ call' = [call EXCEPT ![l] = "done"] /\ answer' = Answered(l)
          /\ UNCHANGED <<awaits, tries, capture>>
       \/ /\ ~enough
          /\ refreshAfter(l, Made)
          /\ UNCHANGED answer
    /\ UNCHANGED <<table, disposed, misled, faults, lapses>>

\* isPaused() after twenty seconds.
PauseLapses ==
    /\ paused /\ lapses < MaxLapses /\ lapses' = lapses + 1
    /\ paused' = FALSE /\ failures' = 0
    /\ UNCHANGED <<calls, capture, covered, holds, disposed, misled, faults>>

\* dispose(): a helper that is still starting is not known yet.
Dispose ==
    /\ ~disposed /\ disposed' = TRUE
    /\ helper' = IF helper = "ready" THEN "none" ELSE helper
    /\ holds' = {}
    /\ UNCHANGED <<calls, active, running, queued, covered, failures, paused, misled, faults, lapses>>

Init ==
    /\ call = [l \in Lookup |-> "new"] /\ awaits = [l \in Lookup |-> "running"]
    /\ answer = [l \in Lookup |-> "none"] /\ tries = [l \in Lookup |-> 0]
    /\ running = {} /\ active = FALSE /\ queued = FALSE
    /\ covered = {} /\ holds = {} /\ failures = 0 /\ paused = FALSE
    /\ helper = "none" /\ disposed = FALSE /\ misled = {}
    /\ faults = 0 /\ lapses = 0

Next ==
    \/ \E l \in Lookup : Resolve(l) \/ Continue(l)
    \/ HelperReady \/ CaptureSucceeds \/ CaptureFails \/ PauseLapses \/ Dispose

Spec == Init /\ [][Next]_vars

(***************************************************************************)
(* Properties                                                               *)
(***************************************************************************)
\* A lookup is answered from a snapshot taken after its socket was accepted.
\* There is one exception, against the comment above the loop: snapshotAt
\* advances when a capture fails as well, so a lookup whose last capture failed
\* is answered from the snapshot before, in which its port may be another's.
\* A later capture that succeeds, a pause and dispose() end that.
AnswersAreFresh == \A l \in Lookup : answer[l] = "stale" => l \in misled

\* A waiting lookup awaits a capture that is running or will run.
NobodyWaitsForNothing ==
    \A l \in Lookup : call[l] = "waiting" => active /\ (awaits[l] = "queued" => queued)

\* Accepted sockets are attributed to their process, but for those whose last
\* capture failed, and nobody waits for a capture that never runs.
LookupsAreAnswered == AnswersAreFresh /\ NobodyWaitsForNothing
=============================================================================
