------------------------------ MODULE OwnerTable ------------------------------
(***************************************************************************)
(* Which process owns a socket: the cache of the machine's socket table    *)
(* that the TUN dataplane asks for every flow whose route can turn on its  *)
(* owner (OwnerTable, internal/dataplane/attribution.go of                 *)
(* native/service-go).                                                     *)
(*                                                                         *)
(* One snapshot serves every lookup for a while, and at most one is taken  *)
(* at a time.  A socket newer than the snapshot is not in it, so a lookup  *)
(* that misses waits for a snapshot begun after it: one in flight may have *)
(* been begun too early, and one may not be begun inside the cooldown.  A  *)
(* lookup of a selected application's socket that gives up sends its flow  *)
(* out directly.                                                           *)
(***************************************************************************)
EXTENDS Naturals, FiniteSets

CONSTANTS
  Lookup,        \* the lookups, each for a socket of its own
  MaxAttempts,   \* snapshots begun
  MaxFaults      \* snapshots that fail

VARIABLES
  pc,            \* where each lookup stands
  open,          \* the lookups whose sockets exist
  noted,         \* each lookup: attempts when it began
  cooled,        \* each lookup: it has waited the cooldown out
  waits,         \* each lookup: the number of the snapshot it waits for
  table,         \* the sockets in the last good snapshot
  stale,         \* that snapshot is older than ownerSnapshotTTL, or there is none
  cooling,       \* the last attempt is within ownerRefreshCooldown
  attempts,      \* snapshots begun
  inflight,      \* one is being taken
  captured,      \* the sockets it sees at least
  faults

vars == <<pc, open, noted, cooled, waits, table, stale, cooling, attempts, inflight, captured, faults>>

\* The lookups, the shared snapshot and the bounds have the shapes attribution.go gives them.
TypeOK ==
  /\ pc \in [Lookup -> {"idle", "enter", "first", "refresh", "look", "after", "sleep", "mine", "await", "last", "found", "unknown"}]
  /\ {open, table, captured} \subseteq SUBSET Lookup
  /\ noted \in [Lookup -> 0..MaxAttempts] /\ waits \in [Lookup -> 0..MaxAttempts] /\ cooled \in [Lookup -> BOOLEAN]
  /\ {stale, cooling, inflight} \subseteq BOOLEAN
  /\ attempts \in 0..MaxAttempts /\ faults \in 0..MaxFaults

Init ==
  /\ pc = [l \in Lookup |-> "idle"] /\ open = {} /\ noted = [l \in Lookup |-> 0]
  /\ waits = [l \in Lookup |-> 0] /\ cooled = [l \in Lookup |-> FALSE] /\ table = {} /\ stale = TRUE /\ cooling = FALSE
  /\ attempts = 0 /\ inflight = FALSE /\ captured = {} /\ faults = 0

Go(l, at) == pc' = [pc EXCEPT ![l] = at]

\* A lookup waits for the snapshot that is in flight, or that it has just begun.
WaitFor(l) == waits' = [waits EXCEPT ![l] = attempts']
Waiting(l) == inflight /\ attempts = waits[l]

\* An application opens the socket of a flow, and the flow reaches the dataplane: Process.
Process(l) ==
  /\ pc[l] = "idle" /\ attempts < MaxAttempts
  /\ open' = open \cup {l} /\ noted' = [noted EXCEPT ![l] = attempts] /\ Go(l, "first")
  /\ UNCHANGED <<cooled, waits, table, stale, cooling, attempts, inflight, captured, faults>>

\* lookup: a snapshot that is too old is refreshed before it is read, the first time.
LookFirst(l) ==
  /\ pc[l] = "first" /\ Go(l, IF stale THEN "refresh" ELSE "look")
  /\ UNCHANGED <<open, noted, cooled, waits, table, stale, cooling, attempts, inflight, captured, faults>>

\* beginLocked.  Every socket open now will be in the snapshot.
beginLocked ==
  /\ ~inflight /\ attempts < MaxAttempts
  /\ inflight' = TRUE /\ cooling' = TRUE /\ attempts' = attempts + 1 /\ captured' = open

\* refresh: waits for the snapshot in flight, does nothing inside the cooldown, takes one otherwise.
\* "mine" is the lookup that takes a snapshot for its first look, "await" one that waits for another's.
refresh(l) ==
  /\ pc[l] = "refresh"
  /\ \/ inflight /\ Go(l, "enter") /\ UNCHANGED <<cooling, attempts, inflight, captured>>
     \/ ~inflight /\ cooling /\ Go(l, "look") /\ UNCHANGED <<cooling, attempts, inflight, captured>>
     \/ ~cooling /\ beginLocked /\ Go(l, "enter")
  /\ UNCHANGED <<open, noted, cooled, table, stale, faults>> /\ WaitFor(l)

\* The snapshot a first look waited for, its own or another's, is in.
Refreshed(l) ==
  /\ pc[l] = "enter" /\ ~Waiting(l) /\ Go(l, "look")
  /\ UNCHANGED <<open, noted, cooled, waits, table, stale, cooling, attempts, inflight, captured, faults>>

Look(l) ==
  /\ pc[l] = "look" /\ Go(l, IF l \in table THEN "found" ELSE "after")
  /\ UNCHANGED <<open, noted, cooled, waits, table, stale, cooling, attempts, inflight, captured, faults>>

\* Mutant: any snapshot in flight will do.
anyInflight(l) ==
  LET fresh == attempts > noted[l] IN
  /\ pc[l] = "after"
  /\ \/ inflight /\ Go(l, "mine") /\ UNCHANGED <<cooling, attempts, inflight, captured>>
     \/ ~inflight /\ fresh /\ Go(l, "last") /\ UNCHANGED <<cooling, attempts, inflight, captured>>
     \/ ~inflight /\ ~fresh /\ ~cooled[l] /\ cooling /\ Go(l, "sleep") /\ UNCHANGED <<cooling, attempts, inflight, captured>>
     \/ ~fresh /\ (cooled[l] \/ ~cooling) /\ beginLocked /\ Go(l, "mine")
  /\ UNCHANGED <<open, noted, cooled, table, stale, faults>> /\ WaitFor(l)

\* refreshAfter: until a snapshot begun after the lookup has completed.
refreshAfter(l) ==
  LET fresh == attempts > noted[l] IN
  /\ pc[l] = "after"
  /\ \/ inflight /\ Go(l, IF fresh THEN "mine" ELSE "await") /\ UNCHANGED <<cooling, attempts, inflight, captured>>
     \/ ~inflight /\ fresh /\ Go(l, "last") /\ UNCHANGED <<cooling, attempts, inflight, captured>>
     \/ ~inflight /\ ~fresh /\ ~cooled[l] /\ cooling /\ Go(l, "sleep") /\ UNCHANGED <<cooling, attempts, inflight, captured>>
     \/ ~fresh /\ (cooled[l] \/ ~cooling) /\ beginLocked /\ Go(l, "mine")
  /\ UNCHANGED <<open, noted, cooled, table, stale, faults>> /\ WaitFor(l)

\* A snapshot that was begun too early for this lookup is in: refreshAfter goes round again.
Awaited(l) ==
  /\ pc[l] = "await" /\ ~Waiting(l) /\ Go(l, "after")
  /\ UNCHANGED <<open, noted, cooled, waits, table, stale, cooling, attempts, inflight, captured, faults>>

\* The one it needed is in.
Captured(l) ==
  /\ pc[l] = "mine" /\ ~Waiting(l) /\ Go(l, "last")
  /\ UNCHANGED <<open, noted, cooled, waits, table, stale, cooling, attempts, inflight, captured, faults>>

\* The cooldown has been slept out, once; the clock may still read inside it.
Slept(l) ==
  /\ pc[l] = "sleep" /\ cooled' = [cooled EXCEPT ![l] = TRUE] /\ Go(l, "after")
  /\ UNCHANGED <<open, noted, waits, table, stale, cooling, attempts, inflight, captured, faults>>

LookLast(l) ==
  /\ pc[l] = "last" /\ Go(l, IF l \in table THEN "found" ELSE "unknown")
  /\ UNCHANGED <<open, noted, cooled, waits, table, stale, cooling, attempts, inflight, captured, faults>>

\* The snapshot returns: sockets opened while it was taken may be in it.  One that failed leaves
\* the last good snapshot answering.
capture ==
  /\ inflight /\ inflight' = FALSE
  /\ \/ \E more \in SUBSET (open \ captured) : table' = captured \cup more /\ stale' = FALSE /\ UNCHANGED faults
     \/ faults < MaxFaults /\ faults' = faults + 1 /\ UNCHANGED <<table, stale>>
  /\ UNCHANGED <<pc, open, noted, cooled, waits, cooling, attempts, captured>>

\* Time passes: the snapshot ages, the cooldown ends.
Age ==
  /\ \/ ~stale /\ stale' = TRUE /\ UNCHANGED cooling
     \/ cooling /\ cooling' = FALSE /\ UNCHANGED stale
  /\ UNCHANGED <<pc, open, noted, cooled, waits, table, attempts, inflight, captured, faults>>

Step(l) ==
  \/ LookFirst(l) \/ refresh(l) \/ Refreshed(l) \/ Look(l) \/ refreshAfter(l) \/ Awaited(l) \/ Captured(l)
  \/ Slept(l) \/ LookLast(l)

Next == capture \/ Age \/ \E l \in Lookup : Process(l) \/ Step(l)

Spec == Init /\ [][Next]_vars

\* The kernel answers a snapshot, and goroutines run.
FairSpec == Spec /\ WF_vars(capture) /\ \A l \in Lookup : WF_vars(Step(l))

----------------------------------------------------------------------------

\* A socket that existed when its lookup began is attributed, however the lookups of a burst share
\* snapshots, unless the kernel failed to list the sockets.
OpenSocketIsFound == faults = 0 => \A l \in Lookup : pc[l] # "unknown"

\* Every lookup is answered, though each may have to wait for the snapshots of the others.
LookupEnds == \A l \in Lookup : pc[l] = "first" ~> pc[l] \in {"found", "unknown"}
=============================================================================
