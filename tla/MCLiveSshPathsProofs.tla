------------------------ MODULE MCLiveSshPathsProofs ------------------------
(***************************************************************************)
(* MCLiveSshPaths chooses how the machine is routed and is a behaviour of   *)
(* LiveSshService on such a machine, so what is proved there of the traffic *)
(* holds of it, for every number of clients, connections, queued mutations, *)
(* rejections and stops of the adapter.                                     *)
(***************************************************************************)
EXTENDS MCLiveSshPaths, TLAPS

pathVars == <<path, vars>>

-----------------------------------------------------------------------------
(* The path is chosen once. *)
LEMMA ChosenOnce ==
  ASSUME NEW p, [PathNext]_pathVars
  PROVE  (path = p) <=> (path = p)'
BY DEF PathNext, pathVars

(* With the proxy setting the behaviour is one of that instance. *)
LEMMA ProxyIsChosen ==
  path = "proxy" => /\ PathInit => WithProxy!Init
                    /\ [PathNext]_pathVars => [WithProxy!Next]_WithProxy!vars
<1>1. UNCHANGED pathVars => UNCHANGED WithProxy!vars
  BY DEF pathVars, vars, intent, link, retry, routing, tun, hold, local, exec,
         WithProxy!vars, WithProxy!intent, WithProxy!link, WithProxy!retry, WithProxy!routing,
         WithProxy!tun, WithProxy!hold, WithProxy!local, WithProxy!exec
<1>2. QED
  BY <1>1 DEF PathInit, PathNext

(* With the adapter it is one of that instance. *)
LEMMA AdapterIsChosen ==
  path = "adapter" => /\ PathInit => WithAdapter!Init
                      /\ [PathNext]_pathVars => [WithAdapter!Next]_WithAdapter!vars
<1>1. UNCHANGED pathVars => UNCHANGED WithAdapter!vars
  BY DEF pathVars, vars, intent, link, retry, routing, tun, hold, local, exec,
         WithAdapter!vars, WithAdapter!intent, WithAdapter!link, WithAdapter!retry,
         WithAdapter!routing, WithAdapter!tun, WithAdapter!hold, WithAdapter!local, WithAdapter!exec
<1>2. QED
  BY <1>1 DEF PathInit, PathNext

(* On the machine where undoing fails it is one of the third. *)
LEMMA FailingIsChosen ==
  path = "failing" => /\ PathInit => WithFailures!Init
                      /\ [PathNext]_pathVars => [WithFailures!Next]_WithFailures!vars
<1>1. UNCHANGED pathVars => UNCHANGED WithFailures!vars
  BY DEF pathVars, vars, intent, link, retry, routing, tun, hold, local, exec,
         WithFailures!vars, WithFailures!intent, WithFailures!link, WithFailures!retry,
         WithFailures!routing, WithFailures!tun, WithFailures!hold, WithFailures!local,
         WithFailures!exec
<1>2. QED
  BY <1>1 DEF PathInit, PathNext

(* The constants of the three are those of a service. *)
LEMMA PathConstants ==
  WithProxy!LiveSshAssumption /\ WithAdapter!LiveSshAssumption /\ WithFailures!LiveSshAssumption
<1>1. NoClient \notin One(Clients)
  BY LiveSshAssumption, PathAssumption DEF One
<1>2. QED
  BY <1>1, LiveSshAssumption DEF WithProxy!LiveSshAssumption, WithAdapter!LiveSshAssumption,
     WithFailures!LiveSshAssumption

(* What is accounted for with the proxy setting is what is accounted for of the service. *)
LEMMA ProxyAccounts ==
  WithProxy!AttemptsAreAccounted /\ WithProxy!SessionIsAccounted => AttemptsAreAccounted /\ SessionIsAccounted
<1>1. WithProxy!AttemptsAreAccounted => AttemptsAreAccounted
  BY DEF
     AttemptsAreAccounted, Supervised, UnwantedIsQuiet, OneAttempt, RunsItsProgram,
         SessionInHand, Continuation, ApplyPoints, Lifecycle, Wanted, Pending, Running,
         IsCurrent, WithProxy!AttemptsAreAccounted, WithProxy!Supervised,
         WithProxy!UnwantedIsQuiet, WithProxy!OneAttempt, WithProxy!RunsItsProgram,
         WithProxy!SessionInHand, WithProxy!Continuation, WithProxy!ApplyPoints,
         WithProxy!Lifecycle, WithProxy!Wanted, WithProxy!Pending, WithProxy!Running,
         WithProxy!IsCurrent
<1>2. WithProxy!SessionIsAccounted => SessionIsAccounted
  BY DEF
     SessionIsAccounted, NoLeakedSession, ConnectedIsServed, ParkedIsAnswered,
         RejectedCredentialsAreNotReplayed, Pending, Wanted, Running,
         WithProxy!SessionIsAccounted, WithProxy!NoLeakedSession, WithProxy!ConnectedIsServed,
         WithProxy!ParkedIsAnswered, WithProxy!RejectedCredentialsAreNotReplayed,
         WithProxy!Pending, WithProxy!Wanted, WithProxy!Running
<1>3. QED
  BY <1>1, <1>2

(* Likewise with the adapter, *)
LEMMA AdapterAccounts ==
  WithAdapter!AttemptsAreAccounted /\ WithAdapter!SessionIsAccounted => AttemptsAreAccounted /\ SessionIsAccounted
<1>1. WithAdapter!AttemptsAreAccounted => AttemptsAreAccounted
  BY DEF
     AttemptsAreAccounted, Supervised, UnwantedIsQuiet, OneAttempt, RunsItsProgram,
         SessionInHand, Continuation, ApplyPoints, Lifecycle, Wanted, Pending, Running,
         IsCurrent, WithAdapter!AttemptsAreAccounted, WithAdapter!Supervised,
         WithAdapter!UnwantedIsQuiet, WithAdapter!OneAttempt, WithAdapter!RunsItsProgram,
         WithAdapter!SessionInHand, WithAdapter!Continuation, WithAdapter!ApplyPoints,
         WithAdapter!Lifecycle, WithAdapter!Wanted, WithAdapter!Pending, WithAdapter!Running,
         WithAdapter!IsCurrent
<1>2. WithAdapter!SessionIsAccounted => SessionIsAccounted
  BY DEF
     SessionIsAccounted, NoLeakedSession, ConnectedIsServed, ParkedIsAnswered,
         RejectedCredentialsAreNotReplayed, Pending, Wanted, Running,
         WithAdapter!SessionIsAccounted, WithAdapter!NoLeakedSession,
         WithAdapter!ConnectedIsServed, WithAdapter!ParkedIsAnswered,
         WithAdapter!RejectedCredentialsAreNotReplayed, WithAdapter!Pending,
         WithAdapter!Wanted, WithAdapter!Running
<1>3. QED
  BY <1>1, <1>2

(* and where undoing fails. *)
LEMMA FailuresAccounts ==
  WithFailures!AttemptsAreAccounted /\ WithFailures!SessionIsAccounted => AttemptsAreAccounted /\ SessionIsAccounted
<1>1. WithFailures!AttemptsAreAccounted => AttemptsAreAccounted
  BY DEF
     AttemptsAreAccounted, Supervised, UnwantedIsQuiet, OneAttempt, RunsItsProgram,
         SessionInHand, Continuation, ApplyPoints, Lifecycle, Wanted, Pending, Running,
         IsCurrent, WithFailures!AttemptsAreAccounted, WithFailures!Supervised,
         WithFailures!UnwantedIsQuiet, WithFailures!OneAttempt, WithFailures!RunsItsProgram,
         WithFailures!SessionInHand, WithFailures!Continuation, WithFailures!ApplyPoints,
         WithFailures!Lifecycle, WithFailures!Wanted, WithFailures!Pending,
         WithFailures!Running, WithFailures!IsCurrent
<1>2. WithFailures!SessionIsAccounted => SessionIsAccounted
  BY DEF
     SessionIsAccounted, NoLeakedSession, ConnectedIsServed, ParkedIsAnswered,
         RejectedCredentialsAreNotReplayed, Pending, Wanted, Running,
         WithFailures!SessionIsAccounted, WithFailures!NoLeakedSession,
         WithFailures!ConnectedIsServed, WithFailures!ParkedIsAnswered,
         WithFailures!RejectedCredentialsAreNotReplayed, WithFailures!Pending,
         WithFailures!Wanted, WithFailures!Running
<1>3. QED
  BY <1>1, <1>2

-----------------------------------------------------------------------------
(* On a machine where undoing works and the proxy setting is not refused the traffic is
   where the status says, with the proxy setting and with the adapter; and with the
   setting, routing that is held over an outage has its deadline. *)
THEOREM TrafficIsAlwaysRight == PathSpec => []TrafficIsRight
<1>1. WithProxy!Spec => []WithProxy!TrafficIsWhereItSays
  BY WithProxy!TrafficIsAlwaysWhereItSays, PathConstants
<1>2. WithProxy!Spec => []WithProxy!HeldRoutingHasDeadline
  BY WithProxy!HeldRoutingIsReleased, PathConstants
<1>3. WithAdapter!Spec => []WithAdapter!TrafficIsWhereItSays
  BY WithAdapter!TrafficIsAlwaysWhereItSays, PathConstants
<1>4. [PathNext]_pathVars => /\ path = "proxy" <=> (path = "proxy")'
                             /\ path = "adapter" <=> (path = "adapter")'
  BY ChosenOnce
<1>5. PathSpec => PathInit /\ [][PathNext]_pathVars
  BY DEF PathSpec, pathVars
<1>6. QED
  BY <1>1, <1>2, <1>3, <1>4, <1>5, ProxyIsChosen, AdapterIsChosen, PTL
     DEF WithProxy!Spec, WithAdapter!Spec, TrafficIsRight

(* However the machine is routed, and whether or not undoing works there, the reconnect
   loop accounts for every attempt and the session is accounted for. *)
THEOREM EveryPathIsAccounted == PathSpec => [](AttemptsAreAccounted /\ SessionIsAccounted)
<1>1. WithProxy!Spec => [](WithProxy!AttemptsAreAccounted /\ WithProxy!SessionIsAccounted)
  BY WithProxy!EveryAttemptIsAccounted, WithProxy!SessionIsAlwaysAccounted, PathConstants, PTL
<1>2. WithAdapter!Spec => [](WithAdapter!AttemptsAreAccounted /\ WithAdapter!SessionIsAccounted)
  BY WithAdapter!EveryAttemptIsAccounted, WithAdapter!SessionIsAlwaysAccounted, PathConstants, PTL
<1>3. WithFailures!Spec => [](WithFailures!AttemptsAreAccounted /\ WithFailures!SessionIsAccounted)
  BY WithFailures!EveryAttemptIsAccounted, WithFailures!SessionIsAlwaysAccounted, PathConstants, PTL
<1>4. [PathNext]_pathVars => /\ path = "proxy" <=> (path = "proxy")'
                             /\ path = "adapter" <=> (path = "adapter")'
                             /\ path = "failing" <=> (path = "failing")'
  BY ChosenOnce
<1>5. PathSpec => PathInit /\ [][PathNext]_pathVars
  BY DEF PathSpec, pathVars
<1>6. PathInit => path = "proxy" \/ path = "adapter" \/ path = "failing"
  BY DEF PathInit
<1>7. QED
  BY <1>1, <1>2, <1>3, <1>4, <1>5, <1>6, ProxyIsChosen, AdapterIsChosen, FailingIsChosen,
     ProxyAccounts, AdapterAccounts, FailuresAccounts, PTL
     DEF WithProxy!Spec, WithAdapter!Spec, WithFailures!Spec
=============================================================================
