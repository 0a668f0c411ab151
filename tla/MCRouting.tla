----------------------------- MODULE MCRouting ------------------------------
(***************************************************************************)
(* What sends the traffic of applications into the tunnel, for TLC.        *)
(* They share no state: a behaviour chooses one of them and is a behaviour  *)
(* of that one, so each is explored exactly as it would be by itself.  The  *)
(* proxy manager is the module extended, so its theorems speak of the       *)
(* properties checked here; the bounds of the others are in their INSTANCE *)
(* or, where there are theorems about them, CONSTANTS of this module.      *)
(***************************************************************************)
EXTENDS WindowsSystemProxy, TLC

CONSTANTS
  AcceptedSockets,                 \* Lookup of ProcessAttribution
  SnapshotFailures, SnapshotAttempts, FailedCaptures, PausesLapsed, \* and its MAX... and Max...
  LearnedApps, ProfiledApps,       \* the sets of ProcessRouteLearner: Process, Profiled,
  RemoteAddresses,                 \* Address,
  CachedNames, FamilyNames,        \* Domain, Family
  Routings,                        \* and Requests
  RoutingUpdates, LearningCycles, FailedQueries, SessionEnds \* its Max... bounds

VARIABLES
  which, \* the component explored
  config, flow,
  call, awaits, tries, answer, active, attributionRunning, queued, covered, holds, failures, paused, helper,
  disposed, misled, attributionFaults, lapses,
  learnerActive, learnerRequest, generation, learnerQueue, learnerJob, learnerTimer, learner, pac,
  seen, since, learnerAsks, cycles, learnerFaults, drops

PacSymmetry == Permutations(Endpoints) \cup Permutations(Pacs)

SomeNames == {<<"w">>, <<"w", "s">>, <<"a", "w", "s">>, <<"w", "local">>, <<"b", "t">>}
SomeNameSets == {{}} \cup {{a, b} : a \in SomeNames, b \in SomeNames}
SomeDomainRules ==
  {{}, {[pattern |-> <<"w", "local">>, wildcard |-> FALSE]}}
    \cup {{[pattern |-> <<"w", "s">>, wildcard |-> w]} : w \in BOOLEAN}
SomeIpRules ==
  {{}} \cup {{[network |-> n, prefix |-> 2]} : n \in 0..3}
    \cup {{[network |-> n, prefix |-> 1]} : n \in {0, 2}} \cup {{[network |-> 0, prefix |-> 0]}}
SomeRoutings ==
  {[targets |-> {"u"}, direct |-> {}], [targets |-> {"p", "u"}, direct |-> {"d"}],
   [targets |-> {}, direct |-> {}]}

Routing == INSTANCE RoutingDecisions WITH
  NameSets <- SomeNameSets, Bits <- 2, LocalRanges <- {[network |-> 2, prefix |-> 1]},
  DomainRuleSets <- SomeDomainRules, IpRuleSets <- SomeIpRules,
  Lists <- {{}, {<<"s">>}, {<<"w", "s">>}}, Apps <- {"app"}

Attribution == INSTANCE ProcessAttribution WITH
  Lookup <- AcceptedSockets, MAX_SNAPSHOT_FAILURES <- SnapshotFailures,
  MAX_SNAPSHOT_ATTEMPTS <- SnapshotAttempts, MaxFaults <- FailedCaptures,
  MaxLapses <- PausesLapsed, running <- attributionRunning, faults <- attributionFaults

Learner == INSTANCE ProcessRouteLearner WITH
  Process <- LearnedApps, Profiled <- ProfiledApps, Address <- RemoteAddresses,
  Domain <- CachedNames, Family <- FamilyNames, Requests <- Routings, MaxAsks <- RoutingUpdates,
  MaxCycles <- LearningCycles, MaxFaults <- FailedQueries, MaxDrops <- SessionEnds,
  active <- learnerActive, request <- learnerRequest, queue <- learnerQueue, job <- learnerJob,
  timer <- learnerTimer, asks <- learnerAsks, faults <- learnerFaults

-----------------------------------------------------------------------------
routingVars ==
  <<config, flow>>
attributionVars ==
  <<call, awaits, tries, answer, active, attributionRunning, queued, covered, holds, failures, paused, helper,
    disposed, misled, attributionFaults, lapses>>
learnerVars ==
  <<learnerActive, learnerRequest, generation, learnerQueue, learnerJob, learnerTimer, learner,
    pac, seen, since, learnerAsks, cycles, learnerFaults, drops>>

(* A component that is not the one explored rests: the proxy manager in its *)
(* first state, before any start, the others at zeros.                      *)
ProxyRests == Init /\ reg = user

RoutingRests ==
  /\ config = 0 /\ flow = 0
AttributionRests ==
  /\ call = 0 /\ awaits = 0 /\ tries = 0 /\ answer = 0 /\ active = 0 /\ attributionRunning = 0 /\ queued = 0 /\ covered = 0
  /\ holds = 0 /\ failures = 0 /\ paused = 0 /\ helper = 0 /\ disposed = 0 /\ misled = 0 /\ attributionFaults = 0
  /\ lapses = 0
LearnerRests ==
  /\ learnerActive = 0 /\ learnerRequest = 0 /\ generation = 0 /\ learnerQueue = 0 /\ learnerJob = 0
  /\ learnerTimer = 0 /\ learner = 0 /\ pac = 0 /\ seen = 0 /\ since = 0 /\ learnerAsks = 0 /\ cycles = 0
  /\ learnerFaults = 0 /\ drops = 0

AllInit ==
  \/ /\ which = "proxy" /\ Init
     /\ RoutingRests /\ AttributionRests /\ LearnerRests
  \/ /\ which = "routing" /\ Routing!Init
     /\ ProxyRests /\ AttributionRests /\ LearnerRests
  \/ /\ which = "attribution" /\ Attribution!Init
     /\ ProxyRests /\ RoutingRests /\ LearnerRests
  \/ /\ which = "learner" /\ Learner!Init
     /\ ProxyRests /\ RoutingRests /\ AttributionRests

AllNext ==
  \/ /\ which = "proxy" /\ Next
     /\ UNCHANGED <<which, routingVars, attributionVars, learnerVars>>
  \/ /\ which = "routing" /\ Routing!Next
     /\ UNCHANGED <<which, vars, attributionVars, learnerVars>>
  \/ /\ which = "attribution" /\ Attribution!Next
     /\ UNCHANGED <<which, vars, routingVars, learnerVars>>
  \/ /\ which = "learner" /\ Learner!Next
     /\ UNCHANGED <<which, vars, routingVars, attributionVars>>

allVars == <<which, vars, routingVars, attributionVars, learnerVars>>

AllSpec == AllInit /\ [][AllNext]_allVars

-----------------------------------------------------------------------------
(* Properties: SettingsAreGivenBack and PacsAreServed, and *)

\* The routing listener, the setup script, Xray's rules and the adapter
\* decide alike, although each is written in its own language; what the
\* adapter does not look up could not have changed its answer, no learned
\* name releases a flow, and a selected datagram is carried or refused.
OneOrder == which = "routing" => Routing!TypeOK /\ Routing!OneOrder /\ Routing!NothingSelectedLeaks

\* A connection is attributed from a snapshot taken after it was accepted,
\* unless the last capture that was to take one failed: then an older snapshot
\* answers.  A lookup never waits for a capture nobody runs, however captures
\* fail, pause and are disposed of (process-attribution.ts).
LookupsAreAnswered == which = "attribution" => Attribution!TypeOK /\ Attribution!LookupsAreAnswered

\* What the process monitor learns is published only for the rules it was
\* learned for and within their direct list, is published or known to be
\* owed, and a learned name stays while discovery works (process-route-
\* learning.ts).
LearnedRoutesAreTrue ==
  /\ [](which = "learner" => Learner!TypeOK /\ Learner!LearnedRoutesAreTrue)
  /\ [][which = "learner" => Learner!LearnedNamesStay]_allVars

=============================================================================
