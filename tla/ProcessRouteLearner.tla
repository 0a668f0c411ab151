------------------------- MODULE ProcessRouteLearner -------------------------
(***************************************************************************)
(* Process rules on a machine without adapter or attribution: the          *)
(* destinations of the selected applications are learned from the          *)
(* machine's connections and its DNS cache, and published as PAC rules.    *)
(* ProcessRouteLearner (src/service/process-route-learning.ts) and the     *)
(* monitor of the SSH bridge around it (src/service/live-ssh-service.ts);  *)
(* the Xray bridge has the same monitor.                                   *)
(*                                                                         *)
(* A cycle waits for the connections, for the publication of the literal   *)
(* addresses, for the DNS cache and for the final publication.  A routing  *)
(* update bumps the generation outside the queue of mutations, so each of  *)
(* these waits may end in a cycle that serves rules nobody has any more.   *)
(* What is learned is used up: an application whose destination is in the  *)
(* PAC is never seen at that destination again.                            *)
(***************************************************************************)
EXTENDS Naturals, Sequences, FiniteSets, SequencesExt

CONSTANTS
  Process,       \* the applications rules can select
  Profiled,      \* those with reviewed host families (PROCESS_ROUTE_DOMAIN_HINTS)
  Address,       \* remote addresses
  Domain,        \* names in the DNS cache
  Family,        \* those of the reviewed host families
  Requests,      \* the routings the user may ask for: [targets, direct]
  MaxAsks,       \* routing updates
  MaxCycles,     \* learning cycles
  MaxFaults,     \* failing queries and publications
  MaxDrops       \* sessions that end

VARIABLES
  active,        \* the session is Connected
  request,       \* the routing in use
  generation,    \* processRoutingGeneration
  queue,         \* the mutations that wait
  job,           \* the one that runs
  timer,         \* the generation processRoutingMonitor was armed for, 0 when it is not armed
  learner,       \* ProcessRouteLearner
  pac,           \* the routing in force
  seen,          \* the processes each address was ever seen with
  since,         \* halves of a TTL since a cycle last learned
  asks, cycles, faults, drops

vars == <<active, request, generation, queue, job, timer, learner, pac, seen, since, asks, cycles, faults, drops>>

-----------------------------------------------------------------------------
(* The learner. *)

TTL == 2              \* an entry is out of date at this age
Absent == 3
NoSig  == [ips |-> {"none"}, domains |-> {}]

NothingLearned ==
  [ips |-> [a \in Address |-> Absent], domains |-> [d \in Domain |-> Absent], leases |-> {}, covered |-> {}]

\* clear
Cleared ==
  [target |-> {}, learned |-> NothingLearned, waiting |-> {}, last |-> NoSig, applied |-> NoSig, pending |-> FALSE]

Hints(targets) == IF targets \cap Profiled = {} THEN {} ELSE Family
Present(age) == {x \in DOMAIN age : age[x] # Absent}
currentIps(k) == Present(k.ips)
currentDomains(targets, k) == Hints(targets) \cup Present(k.domains) \cup {l.domain : l \in k.leases}

buildProcessRouteSignature(targets, k) == [ips |-> currentIps(k), domains |-> currentDomains(targets, k)]

commit(l, k) == [l EXCEPT !.learned = k, !.last = buildProcessRouteSignature(l.target, k)]

\* Mutant: a change of the selected applications keeps what was learned for the others.
resetKeeps(l, targets) == [l EXCEPT !.target = targets]

\* resetForTargets
resetForTargets(l, targets) ==
  IF l.target = targets THEN l ELSE [Cleared EXCEPT !.target = targets]

\* A successful cycle renews every route it retains.
renew(age, drop) == [x \in DOMAIN age |-> IF age[x] >= TTL \/ x \in drop THEN Absent ELSE 0]

\* pruneExpired, and the direct list, after a failed cycle.
pruned(l, direct) ==
  LET k == l.learned
      keep(age, drop) == [x \in DOMAIN age |-> IF age[x] >= TTL \/ x \in drop THEN Absent ELSE age[x]] IN
  commit(l, [k EXCEPT !.ips = keep(@, {}), !.domains = keep(@, direct),
                      !.leases = {e \in @ : e.domain \notin direct},
                      !.covered = IF since >= TTL THEN {} ELSE @])

\* The first phase of learn: what is retained and what was observed.  conns are pairs of process and address.
observed(l, direct, conns) ==
  LET k == l.learned
      unprofiled == {c[2] : c \in {x \in conns : x[1] \notin Profiled}}
      profiled   == {c[2] : c \in {x \in conns : x[1] \in Profiled}}
      active_    == IF since >= TTL THEN {} ELSE k.covered
      ips        == renew(k.ips, {}) IN
  [ips     |-> [a \in Address |-> IF a \in (active_ \cap profiled) \ unprofiled THEN Absent
                                  ELSE IF \E c \in conns : c[2] = a THEN 0 ELSE ips[a]],
   domains |-> renew(k.domains, direct),
   leases  |-> {e \in k.leases : e.domain \notin direct},
   covered |-> active_]

Known(k) == currentIps(k) \cup k.covered \cup {e.address : e \in k.leases}

\* The second phase: names for the addresses, leases for those of one unprofiled application that have one name
\* and were not known before, and the addresses that a reviewed host family covers.
enriched(k, known, direct, targets, conns, lookups, entries) ==
  LET owners(a)  == {c[1] : c \in {x \in conns : x[2] = a}}
      names(a)   == {e[2] : e \in {x \in entries : x[1] = a}}
      newCovered == {a \in Address : owners(a) \cap Profiled # {} /\ names(a) \cap Family # {}}
      restricted(a) == a \in newCovered \cup k.covered /\ owners(a) \subseteq Profiled
      sure(a) == /\ a \in lookups \ known /\ a \notin newCovered \cup k.covered
                 /\ Cardinality(owners(a)) = 1 /\ owners(a) \cap Profiled = {}
                 /\ Cardinality(names(a)) = 1 /\ names(a) \cap direct = {}
      fromDns == (UNION {IF restricted(a) THEN names(a) \cap Family ELSE names(a) : a \in Address})
                 \ (Hints(targets) \cup direct) IN
  [ips     |-> [a \in Address |-> IF a \in newCovered /\ owners(a) \subseteq Profiled THEN Absent ELSE k.ips[a]],
   domains |-> [d \in Domain |-> IF d \in fromDns THEN 0 ELSE k.domains[d]],
   leases  |-> k.leases \cup {[address |-> a, domain |-> CHOOSE d \in names(a) : TRUE] : a \in {x \in Address : sure(x)}},
   covered |-> k.covered \cup newCovered]

-----------------------------------------------------------------------------
(* The monitor and the queue. *)

NoJob == [kind |-> "none", gen |-> 0, req |-> request, pc |-> "idle"]
Idle  == job.pc = "idle"

\* isStale, negated.
current(gen) == gen = generation

\* The kinds of state of the monitor and the learner.
TypeOK ==
  /\ active \in BOOLEAN /\ request \in Requests /\ timer \in 0..generation
  /\ job.pc \in {"idle", "learn", "conns", "literal", "dns", "after", "final"}
  /\ learner.learned.ips \in [Address -> 0..Absent] /\ learner.learned.domains \in [Domain -> 0..Absent]
  /\ learner.pending \in BOOLEAN /\ learner.target \subseteq Process
  /\ seen \in [Address -> SUBSET Process] /\ since \in 0..TTL

Init ==
  /\ active = TRUE /\ request \in Requests /\ generation = 1
  /\ queue = <<[kind |-> "apply", gen |-> 1, req |-> request]>> /\ job = [kind |-> "none", gen |-> 0, req |-> request, pc |-> "idle"]
  /\ timer = 0 /\ learner = Cleared /\ pac = [kind |-> "direct"] /\ seen = [a \in Address |-> {}] /\ since = 0
  /\ asks = 0 /\ cycles = 0 /\ faults = 0 /\ drops = 0

\* updateRouting: the generation moves at once, the apply waits its turn.
updateRouting(r) ==
  /\ active /\ asks < MaxAsks /\ asks' = asks + 1
  /\ request' = r /\ generation' = generation + 1 /\ timer' = 0
  /\ queue' = Append(queue, [kind |-> "apply", gen |-> 0, req |-> r])
  /\ UNCHANGED <<active, job, learner, pac, seen, since, cycles, faults, drops>>

\* The session ends: its status changes at once, stopSystemRouting waits its turn.
Drop ==
  /\ active /\ drops < MaxDrops /\ drops' = drops + 1
  /\ active' = FALSE /\ queue' = Append(queue, [kind |-> "stop", gen |-> 0, req |-> request])
  /\ UNCHANGED <<request, generation, job, timer, learner, pac, seen, since, asks, cycles, faults>>

\* It is back.
Return ==
  /\ ~active /\ Idle /\ queue = <<>> /\ asks < MaxAsks /\ asks' = asks + 1
  /\ active' = TRUE /\ queue' = <<[kind |-> "apply", gen |-> 0, req |-> request]>>
  /\ UNCHANGED <<request, generation, job, timer, learner, pac, seen, since, cycles, faults, drops>>

\* The monitor's timer fires and queues a refresh.
TimerFires ==
  /\ timer # 0 /\ timer' = 0
  /\ queue' = IF current(timer) /\ active THEN Append(queue, [kind |-> "refresh", gen |-> timer, req |-> request]) ELSE queue
  /\ UNCHANGED <<active, request, generation, job, learner, pac, seen, since, asks, cycles, faults, drops>>

\* stopSystemRouting
stopSystemRouting ==
  /\ Idle /\ queue # <<>> /\ Head(queue).kind = "stop"
  /\ queue' = Tail(queue) /\ generation' = generation + 1 /\ timer' = 0
  /\ learner' = Cleared /\ pac' = [kind |-> "direct"]
  /\ UNCHANGED <<active, request, job, seen, since, asks, cycles, faults, drops>>

\* A mutation begins: an apply stops the monitor and takes a generation of its own.
Begin ==
  LET m == Head(queue) IN
  /\ Idle /\ queue # <<>> /\ m.kind # "stop" /\ cycles < MaxCycles
  /\ queue' = Tail(queue) /\ cycles' = cycles + 1
  /\ generation' = IF m.kind = "apply" THEN generation + 1 ELSE generation
  /\ timer' = IF m.kind = "apply" THEN 0 ELSE timer
  /\ job' = [kind |-> m.kind, gen |-> IF m.kind = "apply" THEN generation + 1 ELSE m.gen, req |-> m.req,
             pc |-> "learn", lit |-> "no", litSig |-> NoSig, k |-> NothingLearned, known |-> {}, conns |-> {}]
  /\ UNCHANGED <<active, request, learner, pac, seen, since, asks, faults, drops>>

\* The end of a mutation: a refresh is scheduled again for its generation.
Ends(gen) ==
  /\ job' = NoJob
  /\ timer' = IF job.kind = "refresh" /\ gen = job.gen /\ active THEN job.gen ELSE timer
  /\ generation' = gen

\* startProcessRoutingMonitor, for an apply of rules that name applications.
Monitored ==
  /\ job' = NoJob /\ generation' = generation + 1 /\ timer' = generation + 1

At(pc) == job' = [job EXCEPT !.pc = pc] /\ UNCHANGED <<generation, timer>>

\* An overtaken or idle refresh returns; rules without applications are published without learning; an apply that
\* the adapter or the listener's own enforcement serves clears the learner.
StartLearn ==
  /\ job.pc = "learn"
  /\ \/ job.kind = "refresh" /\ ~(current(job.gen) /\ active) /\ Ends(generation) /\ UNCHANGED <<learner, pac>>
     \/ job.kind = "apply" /\ ~(current(job.gen) /\ active) /\ Ends(generation) /\ UNCHANGED <<learner, pac>>
     \/ job.kind = "apply" /\ current(job.gen) /\ active
        /\ learner' = Cleared /\ pac' = [kind |-> "other"] /\ Ends(generation)
     \/ current(job.gen) /\ active /\ job.req.targets # {}
        /\ learner' = resetForTargets(learner, job.req.targets)
        /\ job' = [job EXCEPT !.pc = "conns", !.known = currentIps(learner.learned)]
        /\ UNCHANGED <<generation, timer, pac>>
     \/ current(job.gen) /\ active /\ job.req.targets = {}
        /\ learner' = Cleared /\ At("after") /\ UNCHANGED pac
  /\ UNCHANGED <<active, request, queue, seen, since, asks, cycles, faults, drops>>

\* The connections of the selected applications are there: the first phase is committed, and its literal addresses
\* are published first when they changed and there is no direct list.
Connections(conns) ==
  LET l == commit(learner, observed(learner, job.req.direct, conns))
      literal == job.req.direct = {} /\ l.last # learner.last /\ job.known # currentIps(l.learned) IN
  /\ job.pc = "conns" /\ conns \subseteq job.req.targets \X Address
  /\ seen' = [a \in Address |-> seen[a] \cup {c[1] : c \in {x \in conns : x[2] = a}}]
  /\ IF ~current(job.gen) THEN At("after") /\ UNCHANGED <<learner, since>>
     ELSE /\ learner' = l /\ since' = 0 /\ UNCHANGED <<generation, timer>>
          /\ job' = [job EXCEPT !.pc = IF literal THEN "literal" ELSE "dns", !.k = l.learned, !.conns = conns,
                                !.known = Known([observed(learner, job.req.direct, {}) EXCEPT !.leases = learner.learned.leases])]
  /\ UNCHANGED <<active, request, queue, pac, asks, cycles, faults, drops>>

\* The query fails.
ConnectionsFail ==
  /\ job.pc = "conns" /\ faults < MaxFaults /\ faults' = faults + 1
  /\ learner' = pruned(learner, job.req.direct) /\ At("after")
  /\ UNCHANGED <<active, request, queue, pac, seen, since, asks, cycles, drops>>

Published ==
  [kind |-> "pac", targets |-> job.req.targets, direct |-> job.req.direct,
   ips |-> currentIps(learner.learned), domains |-> currentDomains(learner.target, learner.learned)]

\* A publication that failed is still owed.
stillOwed(l) == [l EXCEPT !.pending = TRUE]

\* publishProcessRoutingSnapshot, first for the literal addresses.
Literal ==
  /\ job.pc = "literal"
  /\ \/ current(job.gen) /\ active /\ pac' = Published
        /\ learner' = [learner EXCEPT !.applied = learner.last, !.pending = FALSE]
        /\ job' = [job EXCEPT !.pc = "dns", !.lit = "done", !.litSig = learner.last] /\ UNCHANGED faults
     \/ current(job.gen) /\ active /\ faults < MaxFaults /\ faults' = faults + 1
        /\ learner' = stillOwed(learner)
        /\ job' = [job EXCEPT !.pc = "dns", !.lit = "failed", !.litSig = learner.last] /\ UNCHANGED pac
     \/ ~(current(job.gen) /\ active)
        /\ job' = [job EXCEPT !.pc = IF current(job.gen) THEN "dns" ELSE "after", !.litSig = learner.last]
        /\ UNCHANGED <<learner, pac, faults>>
  /\ UNCHANGED <<active, request, generation, queue, timer, seen, since, asks, cycles, drops>>

Lookups == {a \in Address \ learner.waiting : \E c \in job.conns : c[2] = a}

\* The DNS cache was asked for the addresses that are due, and the second phase is committed.
Dns(entries) ==
  LET k == enriched(job.k, job.known, job.req.direct, job.req.targets, job.conns, Lookups, entries) IN
  /\ job.pc = "dns" /\ entries \subseteq Lookups \X Domain
  /\ learner' = LET l == [learner EXCEPT !.waiting = @ \cup Lookups] IN
                IF current(job.gen) \/ Lookups = {} THEN commit(l, IF Lookups = {} THEN job.k ELSE k) ELSE l
  /\ At("after")
  /\ UNCHANGED <<active, request, queue, pac, seen, since, asks, cycles, faults, drops>>

\* The DNS query fails: what the first phase learned stays.
DnsFails ==
  /\ job.pc = "dns" /\ Lookups # {} /\ faults < MaxFaults /\ faults' = faults + 1
  /\ learner' = commit([learner EXCEPT !.waiting = @ \cup Lookups], job.k)
  /\ At("after")
  /\ UNCHANGED <<active, request, queue, pac, seen, since, asks, cycles, drops>>

\* What follows learn: nothing when overtaken; the failed literal publication is thrown when nothing was learned
\* after it; a refresh has nothing to publish when all of it was.
AfterLearn ==
  LET litLast == job.litSig = learner.last
      owed == learner.pending \/ learner.last # learner.applied IN
  /\ job.pc = "after"
  /\ \/ ~(current(job.gen) /\ active) /\ Ends(generation) /\ UNCHANGED learner
     \/ current(job.gen) /\ active /\ job.lit = "failed" /\ litLast /\ UNCHANGED learner
        /\ IF job.kind = "apply" THEN Monitored ELSE Ends(generation)
     \/ current(job.gen) /\ active /\ job.lit = "done" /\ litLast
        /\ learner' = [learner EXCEPT !.pending = FALSE, !.applied = learner.last]
        /\ IF job.kind = "apply" THEN Monitored ELSE Ends(generation)
     \/ current(job.gen) /\ active /\ ~(job.lit # "no" /\ litLast) /\ job.kind = "refresh"
        /\ UNCHANGED learner /\ IF owed THEN At("final") ELSE Ends(generation)
     \/ current(job.gen) /\ active /\ ~(job.lit # "no" /\ litLast) /\ job.kind = "apply"
        /\ learner' = [learner EXCEPT !.pending = job.req.targets # {}] /\ At("final")
  /\ UNCHANGED <<active, request, queue, pac, seen, since, asks, cycles, faults, drops>>

\* The final publication.
Final ==
  /\ job.pc = "final"
  /\ \/ job.kind = "refresh" /\ ~(current(job.gen) /\ active) /\ Ends(generation) /\ UNCHANGED <<learner, pac, faults>>
     \/ (job.kind = "apply" \/ (current(job.gen) /\ active))
        /\ pac' = Published /\ UNCHANGED faults
        /\ IF current(job.gen) /\ active
           THEN /\ learner' = IF job.req.targets # {} THEN [learner EXCEPT !.applied = learner.last, !.pending = FALSE] ELSE learner
                /\ IF job.kind = "apply" /\ job.req.targets # {} THEN Monitored ELSE Ends(generation)
           ELSE UNCHANGED learner /\ Ends(generation)
     \/ (job.kind = "apply" \/ (current(job.gen) /\ active)) /\ faults < MaxFaults /\ faults' = faults + 1
        /\ learner' = (IF job.req.targets # {} THEN stillOwed(learner) ELSE learner) /\ UNCHANGED pac
        /\ IF job.kind = "apply" /\ job.req.targets # {} /\ current(job.gen) /\ active THEN Monitored ELSE Ends(generation)
  /\ UNCHANGED <<active, request, queue, seen, since, asks, cycles, drops>>

\* Half a TTL passes, and addresses come due for another look at the DNS cache.
Tick ==
  LET older(age) == [x \in DOMAIN age |-> IF age[x] < TTL THEN age[x] + 1 ELSE age[x]] IN
  /\ Idle /\ since < TTL /\ since' = since + 1
  /\ learner' = [learner EXCEPT !.learned.ips = older(@), !.learned.domains = older(@), !.waiting = {}]
  /\ UNCHANGED <<active, request, generation, queue, job, timer, pac, seen, asks, cycles, faults, drops>>

Next ==
  \/ \E r \in Requests : updateRouting(r)
  \/ Drop \/ Return \/ TimerFires \/ stopSystemRouting \/ Begin \/ StartLearn
  \/ \E conns \in SUBSET (Process \X Address) : Connections(conns)
  \/ ConnectionsFail \/ Literal \/ DnsFails \/ AfterLearn \/ Final \/ Tick
  \/ \E entries \in SUBSET (Address \X Domain) : Dns(entries)

Spec == Init /\ [][Next]_vars

-----------------------------------------------------------------------------
(* Properties. *)

\* Every address in the PAC was seen with an application the rules of that PAC select.
PacIsForItsRules ==
  pac.kind = "pac" => \A a \in pac.ips : seen[a] \cap pac.targets # {}

\* No name that was learned is sent through the tunnel against the direct list it is published with.
DirectListIsKept ==
  pac.kind = "pac" => pac.domains \cap pac.direct \subseteq Hints(pac.targets)

\* With nothing queued or running, what was learned is in the PAC or known to be owed, and the monitor goes on.
LearnedIsPublished ==
  Idle /\ queue = <<>> /\ active /\ pac.kind = "pac" /\ request.targets # {} =>
    /\ timer = generation
    /\ \/ learner.pending \/ learner.last # learner.applied
       \/ pac.ips = learner.last.ips /\ pac.domains = learner.last.domains

\* What is published is learned for the rules it is published with, respects their direct list, and is kept up.
LearnedRoutesAreTrue == PacIsForItsRules /\ DirectListIsKept /\ LearnedIsPublished

\* While discovery works, a learned name stays for the session: it goes only with the applications it was learned
\* for, with the session, by the direct list, or after a whole TTL without a cycle that learned.
LearnedNamesStay ==
  \A d \in Domain :
    /\ d \in Present(learner.learned.domains) /\ d \notin Present(learner'.learned.domains)
    /\ learner'.target = learner.target
    => since >= TTL \/ d \in job.req.direct
=============================================================================
