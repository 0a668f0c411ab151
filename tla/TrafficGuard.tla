----------------------------- MODULE TrafficGuard -----------------------------
(***************************************************************************)
(* The traffic guard of the Windows TUN dataplane (internal/winfirewall of *)
(* native/service-go, and the part of internal/dataplane/runner_windows.go *)
(* that keeps it in step with the routing table).                          *)
(*                                                                         *)
(* The capture routes cannot hold a socket bound to the network card.  A   *)
(* set of filters refuses what such a socket sends to an address the       *)
(* routing table sends into the tunnel, and exempts what the table sends   *)
(* elsewhere: the exemptions are computed from the table as it is read,    *)
(* replaced in a transaction when it changes, and gone with the session.   *)
(***************************************************************************)
EXTENDS Naturals, FiniteSets, SequencesExt

CONSTANTS
  Bits,          \* the length of an address
  Routes,        \* prefixes the table may send by another interface: [family, value, bits]
  OnLink,        \* those of the networks the machine is on, always in the table
  Local,         \* localPrefixes4, localPrefixes6
  ServerSets,    \* the transports' server addresses: sets of [family, value]
  MaxRouted,     \* maxRoutedPerFamily
  PerFilter,     \* prefixesPerFilter
  MaxChanges,    \* changes of the routing table
  MaxFaults,     \* reads and transactions that fail
  MaxCommits     \* commits that fail

VARIABLES
  servers, ipv6, \* the transport's servers, and whether IPv6 is captured
  table,         \* the routes by another interface
  guard,         \* "none" | "up" | "closed"
  exempt,        \* the exemptions installed: [id, prefixes]
  reachable,     \* g.reachable: the ids the guard replaces at the next update
  current,       \* watchRoutes: the exemptions it believes installed
  ids, changes, faults, commits

vars == <<servers, ipv6, table, guard, exempt, reachable, current, ids, changes, faults, commits>>
Families == {4, 6}
-----------------------------------------------------------------------------
(* Plans *)

Block(p) == 2 ^ (Bits - p.bits)
Covers(p, a) == p.family = a.family /\ a.value \div Block(p) = p.value \div Block(p)
Masked(p) == [p EXCEPT !.value = @ - (@ % Block(p))]
ofFamily(S, f) == {p \in S : p.family = f}

\* In address order a prefix is dropped when the last one kept covers it.
collapse(S) ==
  LET before(p, q) == p.value < q.value \/ (p.value = q.value /\ p.bits < q.bits)
      covered(kept, p) == kept # <<>> /\ Last(kept).bits <= p.bits /\ Covers(Last(kept), p)
  IN FoldLeft(LAMBDA kept, p : IF covered(kept, p) THEN kept ELSE Append(kept, p), <<>>, SetToSortSeq(S, before))

fixed == Local \cup {[family |-> s.family, value |-> s.value, bits |-> Bits] : s \in servers}

\* The default route and the capture routes would exempt the internet.
narrow(p) == p.bits >= 2

NewPlan(routed) ==
  LET all(f) == collapse(ofFamily(fixed \cup {Masked(p) : p \in {q \in routed : narrow(q)}}, f))
  IN [reachable |-> all(4) \o all(6),
      tooMany   |-> \E f \in Families : Len(all(f)) > Len(collapse(ofFamily(fixed, f))) + MaxRouted]

families == IF ipv6 THEN Families ELSE {4}

\* ReachableFilters: the exemptions of each guarded family, PerFilter prefixes to a filter.
ReachableFilters(plan) ==
  UNION {LET s == SelectSeq(plan.reachable, LAMBDA p : p.family = f)
         IN {ToSet(SubSeq(s, i, IF i + PerFilter - 1 < Len(s) THEN i + PerFilter - 1 ELSE Len(s))) :
               i \in {j \in 1..Len(s) : (j - 1) % PerFilter = 0}} : f \in families}
-----------------------------------------------------------------------------
(* Filters, as Windows evaluates them: of those that match, the heaviest *)

weightLocal == 12

StaticFilter(weight, action, direction, kind) == [weight |-> weight, action |-> action, direction |-> direction, kind |-> kind, prefixes |-> {}]

StaticFilters ==
  UNION {{StaticFilter(15, "permit", d, "helper"), StaticFilter(15, "permit", d, "services"),
          StaticFilter(14, "permit", d, "loopback"), StaticFilter(13, "permit", d, "tunnel"),
          StaticFilter(weightLocal, "permit", d, "ports"), StaticFilter(0, "block", d, "udp")} : d \in {"out", "in"}}
  \cup {StaticFilter(weightLocal, "permit", "in", "groups"),
        StaticFilter(weightLocal, "permit", "out", "reauthorized"), StaticFilter(0, "block", "out", "tcp")}

\* What a connection, or the first datagram to or from a peer, carries.
Packets(process, interface, kinds) ==
  [family: Families, value: 0..(2 ^ Bits - 1), direction: {"out", "in"}, protocol: {"udp", "tcp"},
   process: process, interface: interface, kind: kinds]

\* conditionsOf.
Matches(filter, p) ==
  CASE filter.kind = "helper" -> p.process = "helper"
    [] filter.kind = "services" -> p.process \in {"helper", "service"}
    [] filter.kind = "loopback" -> p.kind = "loopback"
    [] filter.kind = "tunnel" -> p.interface = "tunnel"
    [] filter.kind = "ports" -> p.kind = "service port"
    [] filter.kind = "groups" -> p.kind = "group"
    [] filter.kind = "reauthorized" -> p.protocol = "tcp" /\ p.kind = "existing"
    [] filter.kind = "udp" -> p.protocol = "udp"
    [] filter.kind = "tcp" -> p.protocol = "tcp"
    [] filter.kind = "prefixes" -> \E q \in filter.prefixes : Covers(q, p)

Filters ==
  StaticFilters \cup {[weight |-> weightLocal, action |-> "permit", direction |-> d, kind |-> "prefixes", prefixes |-> e.prefixes] :
                        e \in exempt, d \in {"out", "in"}}

Refused(p) ==
  LET matching == {f \in Filters : f.direction = p.direction /\ Matches(f, p)}
      heaviest == {f \in matching : \A g \in matching : g.weight <= f.weight}
  IN guard = "up" /\ p.family \in families /\ \E f \in heaviest : f.action = "block"
-----------------------------------------------------------------------------
\* protectedRoutePlan: a server reached over IPv6 cannot be excluded, so IPv6 is not captured.
protectedRoutePlan(addresses, enforce) == enforce /\ \A s \in addresses : s.family = 4

Init ==
  /\ servers \in ServerSets
  /\ ipv6 \in {protectedRoutePlan(servers, TRUE), protectedRoutePlan(servers, FALSE)}
  /\ table = OnLink
  /\ guard = "none" /\ exempt = {} /\ reachable = {} /\ current = <<>>
  /\ ids = 0 /\ changes = 0 /\ faults = 0 /\ commits = 0

\* A network is joined or left, another VPN adds a route or takes one.
ChangeTable ==
  /\ changes < MaxChanges
  /\ changes' = changes + 1
  /\ \E r \in Routes : table' = IF r \in table THEN table \ {r} ELSE table \cup {r}
  /\ UNCHANGED <<servers, ipv6, guard, exempt, reachable, current, ids, faults, commits>>

routedPrefixes == table \cup OnLink

added(plan) == {[id |-> ids + 1, prefixes |-> s] : s \in ReachableFilters(plan)}

\* install: the sublayer, the static filters and the exemptions, in one transaction.
install(plan) ==
  /\ guard' = "up" /\ exempt' = added(plan) /\ reachable' = {ids + 1}
  /\ current' = plan.reachable /\ ids' = ids + 1

\* Start installs the whole plan or nothing; a table that cannot be read leaves the networks the machine is on.
Start ==
  /\ guard = "none"
  /\ \E read \in BOOLEAN, installs \in BOOLEAN :
       LET plan == NewPlan(IF read THEN routedPrefixes ELSE OnLink)
       IN /\ faults' = faults + (IF read THEN 0 ELSE 1) + (IF installs THEN 0 ELSE 1) /\ faults' <= MaxFaults
          /\ IF plan.tooMany \/ ~installs
             THEN guard' = "closed" /\ UNCHANGED <<exempt, reachable, current, ids>>
             ELSE install(plan)
  /\ UNCHANGED <<servers, ipv6, table, changes, commits>>

\* transaction: a step of it fails, or the commit does, and it is aborted.
transaction(outcome) ==
  /\ faults' = faults + (IF outcome = "refused" THEN 1 ELSE 0) /\ faults' <= MaxFaults
  /\ commits' = commits + (IF outcome = "uncommitted" THEN 1 ELSE 0) /\ commits' <= MaxCommits

removed == guard' = "closed" /\ exempt' = {} /\ UNCHANGED <<reachable, current, ids>>

\* Mutant: the exemptions in place go in a transaction of their own, before the new ones.
updateInTwo(plan, outcome) ==
  /\ exempt' = IF outcome = "done" THEN added(plan) ELSE {}
  /\ IF outcome = "done" THEN reachable' = {ids + 1} /\ current' = plan.reachable ELSE UNCHANGED <<reachable, current>>
  /\ ids' = ids + 1 /\ UNCHANGED guard

\* UpdateReachable: the new filters are added and the ones it knows removed in one transaction.  An id that is not
\* installed fails the removal; the ids are recorded before the commit.
UpdateReachable(plan, outcome) ==
  LET known == reachable \subseteq {e.id : e \in exempt}
  IN /\ IF outcome = "done" /\ known
        THEN exempt' = {e \in exempt : e.id \notin reachable} \cup added(plan) /\ current' = plan.reachable
        ELSE UNCHANGED <<exempt, current>>
     /\ IF outcome \in {"done", "uncommitted"} /\ known
        THEN reachable' = {ids + 1} /\ ids' = ids + 1 ELSE UNCHANGED <<reachable, ids>>
     /\ UNCHANGED guard

\* watchRoutes, once an interval; a table that cannot be read leaves the exemptions in place.
Watch ==
  /\ guard = "up"
  /\ LET next == NewPlan(routedPrefixes)
     IN /\ next.reachable # current
        /\ \/ next.tooMany /\ removed /\ UNCHANGED <<faults, commits>>
           \/ ~next.tooMany /\ \E outcome \in {"done", "refused", "uncommitted"} :
                transaction(outcome) /\ UpdateReachable(next, outcome)
  /\ UNCHANGED <<servers, ipv6, table, changes>>

\* Close, or the process ends: the session's filters go with it.
Close ==
  /\ guard = "up"
  /\ removed
  /\ UNCHANGED <<servers, ipv6, table, changes, faults, commits>>

Next == ChangeTable \/ Start \/ Watch \/ Close

Spec == Init /\ [][Next]_vars
-----------------------------------------------------------------------------
(* What has to hold *)

\* The table, the guard's fields and the budgets have the shapes the code gives them.
TypeOK ==
  /\ servers \in ServerSets /\ ipv6 \in BOOLEAN /\ table \subseteq Routes \cup OnLink
  /\ guard \in {"none", "up", "closed"} /\ {e.id : e \in exempt} \cup reachable \subseteq 1..ids
  /\ changes \in 0..MaxChanges /\ faults \in 0..MaxFaults /\ commits \in 0..MaxCommits

InStep == guard = "up" /\ current = NewPlan(routedPrefixes).reachable

\* Where the routing table sends an address: the longest prefix wins, and the capture routes are one bit long.
SentElsewhere(a) == \E r \in table \cup OnLink : r.bits >= 2 /\ Covers(r, a)
Spared(a) == \E p \in fixed : Covers(p, a)

\* While the exemptions are in step with the table, a user's application that binds to the card is refused, out and in over
\* UDP and out over TCP, exactly where the table sends the address into the tunnel and neither the local network nor the
\* transport's server is meant.
CardFollowsTheTable ==
  InStep => \A p \in Packets({"user"}, {"card"}, {"new"}) :
              Refused(p) <=> /\ p.family \in families /\ (p.protocol = "udp" \/ p.direction = "out")
                             /\ ~SentElsewhere(p) /\ ~Spared(p)

\* In step or not, in every state an update or a failure leaves, the guard never refuses the helper and the services, the
\* adapter, loopback, DNS and DHCP, a connection opened before, the local network and the transport's servers, nor a family
\* that is not captured.
GuardSpares ==
  /\ \A p \in Packets({"helper", "service"}, {"card"}, {"new"}) \cup Packets({"user"}, {"tunnel"}, {"new"})
              \cup Packets({"user"}, {"card"}, {"loopback", "service port"}) : ~Refused(p)
  /\ \A p \in Packets({"user"}, {"card"}, {"existing"}) : p.protocol = "tcp" => ~Refused(p)
  /\ \A p \in Packets({"user"}, {"card"}, {"new"}) : (Spared(p) \/ p.family \notin families) => ~Refused(p)

\* What the watcher believes installed is what is installed, so that a change that could not be made is tried again; and the
\* guard is never installed over a table it cannot exempt.
WatcherKnows ==
  guard = "up" => UNION {e.prefixes : e \in exempt} = {p \in ToSet(current) : p.family \in families}

\* A plan exempts what its prefixes cover, each address once.
PlanIsExact ==
  LET plan == NewPlan(routedPrefixes).reachable
      given == fixed \cup {p \in routedPrefixes : p.bits >= 2}
  IN \A a \in [family: Families, value: 0..(2 ^ Bits - 1)] :
       Cardinality({i \in DOMAIN plan : Covers(plan[i], a)}) = IF \E p \in given : Covers(p, a) THEN 1 ELSE 0

\* The group a run checks: the guard keeps in what the table keeps in, and nothing else.
GuardFollowsTheTable == CardFollowsTheTable /\ GuardSpares /\ WatcherKnows /\ PlanIsExact

\* The ids the guard keeps are those of the filters that follow the routing table.
ReachableAreInstalled == guard = "up" => reachable = {e.id : e \in exempt}
=============================================================================
