-------------------------- MODULE RoutingDecisions --------------------------
(***************************************************************************)
(* Where a connection goes: the one routing order that five places of the  *)
(* program implement.                                                      *)
(*                                                                         *)
(*   TrafficPolicy, RoutingMatcher   core/routing                          *)
(*   LocalRoutingEnforcer            the routing listener                  *)
(*   buildProxyPac                   the Windows setup script              *)
(*   buildRoutingRules               Xray's HTTP inbound                   *)
(*   Policy, Matcher                 the TUN dataplane (Go)                *)
(*                                                                         *)
(* A name is the sequence of its labels and an address a number of Bits    *)
(* bits, so suffixes and prefixes are matched as the code matches them.    *)
(* Rules are the enabled and valid ones; a reported rule id is left out,   *)
(* with the order of the rules that only chooses it.  A state is one       *)
(* routing revision and one flow of it.                                    *)
(***************************************************************************)
EXTENDS Naturals, Sequences, FiniteSets

CONSTANTS NameSets,       \* sets of names an address may be learned under
          Bits,           \* the width of an address
          LocalRanges,    \* LOCAL_DESTINATION_CIDRS
          DomainRuleSets, \* sets of domain rules, [pattern, wildcard]
          IpRuleSets,     \* sets of IP rules, [network, prefix]
          Lists,          \* proxy lists and direct lists: sets of suffixes
          Apps            \* images that process rules name

None == "none"
Addresses == 0 .. 2^Bits - 1
Names == UNION NameSets

VARIABLES config, flow
vars == <<config, flow>>

Configs ==
    [mode : {"proxy-all", "selected-rules"}, domains : DomainRuleSets, ips : IpRuleSets,
     apps : SUBSET Apps, proxyList : Lists, directList : Lists,
     transport : BOOLEAN]  \* DirectProcesses names the transport's process

\* names: what the address was learned under, or, when sniffed, the one name
\* the flow carried itself.
Flows ==
    {f \in [addr : Addresses, names : NameSets, sniffed : BOOLEAN] :
        f.sniffed => Cardinality(f.names) = 1}

-----------------------------------------------------------------------------
(* Names, ranges and lists.                                                 *)

Parents(name) == {SubSeq(name, i, Len(name)) : i \in 1 .. Len(name)}
EndsWith(name, p) ==
    Len(name) > Len(p) /\ SubSeq(name, Len(name) - Len(p) + 1, Len(name)) = p

\* matchDomain: a plain rule through any parent, a wildcard through a strict one.
matchDomain(domains, name) ==
    \E r \in domains : r.pattern \in (IF r.wildcard THEN Parents(name) \ {name} ELSE Parents(name))

\* domainMatches of the Go matcher.
domainMatches(r, name) ==
    EndsWith(name, r.pattern) \/ (~r.wildcard /\ name = r.pattern)

\* isDomainCoveredByDirectDomainSuffixes: a name that could be a domain rule, so
\* one of two labels at least.
isDomainCovered(name, list) == Len(name) > 1 /\ Parents(name) \cap list # {}

\* domainCoveredBySuffixes (Go) and matchesDomainOrParent (PAC).
coveredBySuffixes(name, list) == Parents(name) \cap list # {}

\* isLocalDestinationHost for a name, isLocalName (Go)
isLocalName(name) == Len(name) = 1 \/ name[Len(name)] = "local"

\* ipMatchesCidr: the masked address is the network.
ipMatchesCidr(a, range) ==
    a \div 2^(Bits - range.prefix) = range.network \div 2^(Bits - range.prefix)

isLocalAddress(a) == \E l \in LocalRanges : ipMatchesCidr(a, l)

\* overlapsLocalDestinationRange: both networks under the shorter mask.
overlapsLocalRange(range) ==
    \E l \in LocalRanges :
        LET p == IF l.prefix < range.prefix THEN l.prefix ELSE range.prefix
        IN l.network \div 2^(Bits - p) = range.network \div 2^(Bits - p)

selectedByIp(ips, a) == \E r \in ips : ipMatchesCidr(a, r)

Direct(why) == [verdict |-> "direct", reason |-> why]
Proxy(why) == [verdict |-> "proxy", reason |-> why]

-----------------------------------------------------------------------------
(* TypeScript.  A host is a name or, with name = <<>>, an address.          *)

\* RoutingMatcher.matchDestination
matchDestination(c, name, addr) ==
    IF name # <<>> THEN matchDomain(c.domains, name) ELSE selectedByIp(c.ips, addr)

\* RoutingMatcher.unmatched
unmatched(c) ==
    IF c.mode = "proxy-all" THEN Proxy("proxy-all") ELSE Direct("no-match")

\* TrafficPolicy.decide for a TCP connection whose process is not given.
TrafficPolicyDecide(c, name, addr) ==
    CASE matchDestination(c, name, addr) -> Proxy("rule")
      [] ~matchDestination(c, name, addr)
           /\ (IF name # <<>> THEN isLocalName(name) ELSE isLocalAddress(addr)) ->
           Direct("local-destination")
      [] OTHER ->
           IF name # <<>> /\ isDomainCovered(name, c.directList) THEN Direct("direct-list")
           ELSE IF unmatched(c).verdict = "proxy" THEN unmatched(c)
           ELSE IF name # <<>> /\ isDomainCovered(name, c.proxyList) THEN Proxy("proxy-list")
           ELSE unmatched(c)

\* LocalRoutingEnforcer.decide.  resolved: what the resolver answered in time.
LocalRoutingDecide(c, name, addr, resolved, owner) ==
    LET decision == TrafficPolicyDecide(c, name, addr)
        local == decision.reason = "local-destination"
    IN IF decision = Proxy("rule") THEN decision
       ELSE IF ~local /\ owner \in c.apps THEN Proxy("process.name")
       ELSE IF decision.verdict = "proxy" THEN decision
       ELSE IF name # <<>> /\ \E a \in resolved : selectedByIp(c.ips, a) THEN Proxy("rule")
       ELSE decision

\* FindProxyForURL of the script buildProxyPac writes.  An IP rule is matched
\* through the resolved addresses last; a literal address resolves to itself.
FindProxyForURL(c, name, addr, resolved) ==
    LET addresses == IF name # <<>> THEN resolved ELSE {addr}
        direct == IF name # <<>> THEN isLocalName(name) \/ coveredBySuffixes(name, c.directList)
                                 ELSE isLocalAddress(addr)
    IN IF \/ name # <<>> /\ matchDomain(c.domains, name)
          \/ ~direct /\ (c.mode = "proxy-all" \/ (name # <<>> /\ coveredBySuffixes(name, c.proxyList)))
          \/ \E a \in addresses : selectedByIp(c.ips, a)
       THEN "proxy" ELSE "direct"

\* xrayLocalRuleOverrides
xrayLocalRuleOverrides(c) ==
    [ip |-> {r \in c.ips : overlapsLocalRange(r)},
     domain |-> {r \in c.domains : isLocalName(r.pattern)}]

\* buildRoutingRules: what Xray does with a host that came to its HTTP inbound.
\* Names are resolved (IPOnDemand) once there are IP rules for the local network.
XrayRoute(c, name, addr, resolved) ==
    LET overrides == xrayLocalRuleOverrides(c)
    IN IF name = <<>>
       THEN IF isLocalAddress(addr) /\ ~selectedByIp(overrides.ip, addr) THEN "direct" ELSE "proxy"
       ELSE IF \/ matchDomain(overrides.domain, name)
               \/ ~isLocalName(name)
               \/ \E a \in resolved : selectedByIp(overrides.ip, a)
            THEN "proxy" ELSE "direct"

-----------------------------------------------------------------------------
(* The TUN dataplane.  An owner is an image name; transport says that the   *)
(* flow's process is the transport's own.                                   *)

Unowned == [app |-> None, transport |-> FALSE]

\* Policy.isDirectProcess
isDirectProcess(c, owner) == c.transport /\ owner.transport

\* Mutant: the direct list releases a flow that any of its names is on.
directListAny(c, f) == \E n \in f.names : coveredBySuffixes(n, c.directList)

\* allDomainsCovered
directListReleases(c, f) ==
    f.names # {} /\ \A n \in f.names : coveredBySuffixes(n, c.directList)

\* Step 3: the address, or the name the flow itself carried.
isLocalFlow(f) ==
    isLocalAddress(f.addr) \/ (f.sniffed /\ \E n \in f.names : isLocalName(n))

\* Policy.route, for a flow that is not to the transport's endpoint
route(c, f, owner) ==
    IF isDirectProcess(c, owner) THEN Direct("direct-process")
    ELSE IF \/ \E n \in f.names, r \in c.domains : domainMatches(r, n)
            \/ selectedByIp(c.ips, f.addr) THEN Proxy("rule")
    ELSE IF isLocalFlow(f) THEN Direct("local-destination")
    ELSE IF owner.app \in c.apps THEN Proxy("process.name")
    ELSE IF directListReleases(c, f) THEN Direct("direct-list")
    ELSE IF c.mode = "proxy-all" THEN Proxy("proxy-all")
    ELSE IF \E n \in f.names : coveredBySuffixes(n, c.proxyList) THEN Proxy("proxy-list")
    ELSE Direct("no-match")

\* Policy.Decide
Decide(c, f, owner, udp, supported) ==
    LET d == route(c, f, owner)
    IN IF ~udp \/ supported \/ d.reason \in {"direct-process", "local-destination"} THEN d.verdict
       ELSE IF d.verdict = "proxy" THEN "drop" ELSE "direct"

Nameless(f) == [f EXCEPT !.names = {}, !.sniffed = FALSE]
Named(f, n) == [f EXCEPT !.names = {n}, !.sniffed = TRUE]

\* Policy.NamesMatter
NamesMatter(c) ==
    \/ c.domains # {}
    \/ IF c.mode = "proxy-all" THEN c.directList # {} ELSE c.proxyList # {}

\* Policy.NameCouldDecide.  serverFirst: a TCP flow to a port whose server
\* speaks first.
NameCouldDecide(c, f, owner, serverFirst) ==
    /\ NamesMatter(c)
    /\ LET why == route(c, Nameless(f), owner).reason
       IN \/ why = "proxy-all" /\ c.directList # {}
          \/ why = "no-match" /\ (c.domains # {} \/ c.proxyList # {})
          \/ why = "local-destination" /\ ~serverFirst /\ c.domains # {}

\* Policy.NameWorthReading, for a TCP flow to a web port
NameWorthReading(c, f, owner) ==
    NameCouldDecide(c, f, owner, FALSE) \/ route(c, Nameless(f), owner).verdict = "proxy"

\* Policy.OwnerMatters
OwnerMatters(c, f) ==
    /\ c.apps # {} \/ c.transport
    /\ LET settled == route(c, f, Unowned)
       IN /\ settled.reason # "local-destination"
          /\ c.apps # {} \/ settled.verdict = "proxy"

-----------------------------------------------------------------------------
Owners == [app : Apps \cup {None}, transport : BOOLEAN]

\* A revision takes effect, and a flow arrives.
Init == config \in Configs /\ flow \in {f \in Flows : f.names = {}}
Next == flow.names = {} /\ flow' \in {f \in Flows : f.addr = flow.addr /\ f.names # {}}
        /\ UNCHANGED config
Spec == Init /\ [][Next]_vars

\* A configuration and a flow the paths decide about are of the kinds the code reads.
TypeOK == config \in Configs /\ flow \in Flows

\* The name the flow is for, <<>> when it is for its address.
OwnName == IF flow.sniffed THEN CHOOSE n \in flow.names : TRUE ELSE <<>>

\* Whichever way a connection takes, the answer is the same: an application
\* that asks the routing listener, a browser that asks the setup script and the
\* adapter that sees the packets send it to the same side.  (A public name that
\* resolves into the local network is the exception: only the adapter sees the
\* address.  Process rules are the listener's and the adapter's.)
PathsAgree ==
    (flow.names = {} \/ flow.sniffed) /\ (isLocalAddress(flow.addr) /\ OwnName # <<>> => isLocalName(OwnName)) =>
        /\ config.mode = "selected-rules" =>
             \A app \in Apps \cup {None} :
                 LocalRoutingDecide(config, OwnName, flow.addr, {flow.addr}, app).verdict =
                     route(config, flow, [app |-> app, transport |-> FALSE]).verdict
        /\ FindProxyForURL(config, OwnName, flow.addr, {flow.addr}) =
               route(config, flow, Unowned).verdict

\* What the setup script sends to Xray as the tunnel's, Xray carries through
\* the tunnel: its own rules for the local network do not undo the choice.
\* (A local name that only an IP rule outside the local ranges selects is the
\* exception.)
XrayCarriesWhatItIsGiven ==
    (flow.names = {} \/ flow.sniffed) /\ (OwnName # <<>> /\ isLocalName(OwnName) => isLocalAddress(flow.addr)) =>
        (FindProxyForURL(config, OwnName, flow.addr, {flow.addr}) = "proxy" =>
            XrayRoute(config, OwnName, flow.addr, {flow.addr}) = "proxy")

\* With the static proxy Xray is given everything, and no direct list: it then
\* sends direct what the shared order sends direct.
XrayAppliesTheOrder ==
    /\ flow.names = {} \/ flow.sniffed
    /\ config.mode = "proxy-all" /\ config.directList = {}
    /\ OwnName # <<>> => (isLocalName(OwnName) <=> isLocalAddress(flow.addr))
    => XrayRoute(config, OwnName, flow.addr, {flow.addr}) = route(config, flow, Unowned).verdict

\* A flow that is not held back to read its name goes where it would have gone
\* under any name; away from the web ports a local name is the exception.
UnreadNameIsNotMissed ==
    flow.names = {} =>
        \A app \in Apps \cup {None}, n \in Names :
            LET owner == [app |-> app, transport |-> FALSE]
                same == route(config, Named(flow, n), owner).verdict = route(config, flow, owner).verdict
            IN /\ ~NameCouldDecide(config, flow, owner, FALSE) /\ ~isLocalName(n) => same
               /\ ~NameWorthReading(config, flow, owner) => same

\* A flow whose owner is not looked up goes where it would have gone with any
\* owner.
UnaskedOwnerIsNotMissed ==
    ~OwnerMatters(config, flow) =>
        \A owner \in Owners : route(config, flow, owner).verdict = route(config, flow, Unowned).verdict

\* Whoever answers the name lookups can add names to an address and so pull its
\* flows into the tunnel, but no further name releases a flow from it.
LearnedNamesOnlySelect ==
    flow.names # {} /\ ~flow.sniffed =>
        \A n \in Names, owner \in Owners :
            route(config, flow, owner).verdict = "proxy" =>
                route(config, [flow EXCEPT !.names = @ \cup {n}], owner).verdict = "proxy"

\* A datagram the rules select is carried or refused, never sent beside a
\* tunnel that cannot carry it; what they do not select is never refused.
SelectedDatagramsStayIn ==
    \A owner \in Owners, supported \in BOOLEAN :
        LET verdict == Decide(config, flow, owner, TRUE, supported)
        IN /\ (verdict = "direct") = (route(config, flow, owner).verdict = "direct")
           /\ verdict = "proxy" => supported

\* The paths share one routing order, and none answers for another.
OneOrder == PathsAgree /\ XrayCarriesWhatItIsGiven /\ XrayAppliesTheOrder

\* What the dataplane does not look up could not have mattered, what others
\* chose for it cannot release a flow, and nothing selected leaks.
NothingSelectedLeaks ==
    UnreadNameIsNotMissed /\ UnaskedOwnerIsNotMissed /\ LearnedNamesOnlySelect /\ SelectedDatagramsStayIn

=============================================================================
