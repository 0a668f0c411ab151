----------------------- MODULE LiveSshServiceProofs -----------------------
(***************************************************************************)
(* Proofs about LiveSshService for every set of clients and connections,   *)
(* every length of the queue and every outcome of every await: the types,  *)
(* the two halves of the reconnect loop's invariant, Supervised and        *)
(* UnwantedIsQuiet; in the second part, that sessions are accounted; and   *)
(* in the third, that the machine's traffic is where the status says.      *)
(***************************************************************************)
EXTENDS LiveSshService, SequenceTheorems, TLAPS

-----------------------------------------------------------------------------
(* The queue's operators *)

(* Appending a mutation keeps the others where they are. *)
LEMMA AppendFacts ==
  ASSUME NEW q \in Seq(Mutations), NEW m \in Mutations
  PROVE  /\ Append(q, m) \in Seq(Mutations)
         /\ Len(Append(q, m)) = Len(q) + 1
         /\ \A i \in 1..Len(q) : Append(q, m)[i] = q[i]
         /\ Append(q, m)[Len(q) + 1] = m
  OBVIOUS

(* When the head settles, the others move up by one. *)
LEMMA TailFacts ==
  ASSUME NEW q \in Seq(Mutations), q # <<>>
  PROVE  /\ Tail(q) \in Seq(Mutations)
         /\ Len(q) \in Nat /\ Len(q) >= 1
         /\ Len(Tail(q)) = Len(q) - 1
         /\ \A i \in 1..(Len(q) - 1) : Tail(q)[i] = q[i + 1]
         /\ Head(q) = q[1]
         /\ Head(q) \in Mutations
  OBVIOUS

(* Overtaking keeps the queue and makes every lifecycle mutation stale. *)
LEMMA OvertakeFacts ==
  ASSUME NEW q \in Seq(Mutations)
  PROVE  /\ Overtake(q) \in Seq(Mutations)
         /\ Len(Overtake(q)) = Len(q)
         /\ \A i \in 1..Len(q) :
              /\ Overtake(q)[i].kind = q[i].kind
              /\ Overtake(q)[i].current =>
                   q[i].current /\ q[i].kind \in {"holdStop", "stopRouting"}
<1>1. Len(q) \in Nat /\ \A i \in 1..Len(q) : q[i] \in Mutations
  BY ElementOfSeq, LenProperties
<1>2. \A i \in 1..Len(q) :
        [q[i] EXCEPT !.current = FALSE] \in Mutations
  BY <1>1 DEF Mutations
<1>3. Overtake(q) \in [1..Len(q) -> Mutations]
  BY <1>1, <1>2 DEF Overtake
<1>4. Overtake(q) \in Seq(Mutations) /\ Len(Overtake(q)) = Len(q)
  BY <1>1, <1>3, SeqDef, LenProperties
<1>5. QED
  BY <1>1, <1>4 DEF Overtake, Mutations

(* A newer routing update leaves every other mutation alone. *)
LEMMA OvertakeRoutingFacts ==
  ASSUME NEW q \in Seq(Mutations)
  PROVE  /\ OvertakeRouting(q) \in Seq(Mutations)
         /\ Len(OvertakeRouting(q)) = Len(q)
         /\ \A i \in 1..Len(q) :
              /\ OvertakeRouting(q)[i].kind = q[i].kind
              /\ q[i].kind # "routing" => OvertakeRouting(q)[i] = q[i]
<1>1. Len(q) \in Nat /\ \A i \in 1..Len(q) : q[i] \in Mutations
  BY ElementOfSeq, LenProperties
<1>2. \A i \in 1..Len(q) :
        [q[i] EXCEPT !.current = FALSE] \in Mutations
  BY <1>1 DEF Mutations
<1>3. OvertakeRouting(q) \in [1..Len(q) -> Mutations]
  BY <1>1, <1>2 DEF OvertakeRouting
<1>4. OvertakeRouting(q) \in Seq(Mutations) /\ Len(OvertakeRouting(q)) = Len(q)
  BY <1>1, <1>3, SeqDef, LenProperties
<1>5. QED
  BY <1>1, <1>4 DEF OvertakeRouting, Mutations

(* The end of a hold leaves every mutation alone but the hold's stop. *)
LEMMA OvertakeHoldFacts ==
  ASSUME NEW q \in Seq(Mutations)
  PROVE  /\ OvertakeHold(q) \in Seq(Mutations)
         /\ Len(OvertakeHold(q)) = Len(q)
         /\ \A i \in 1..Len(q) :
              /\ OvertakeHold(q)[i].kind = q[i].kind
              /\ q[i].kind # "holdStop" => OvertakeHold(q)[i] = q[i]
<1>1. Len(q) \in Nat /\ \A i \in 1..Len(q) : q[i] \in Mutations
  BY ElementOfSeq, LenProperties
<1>2. \A i \in 1..Len(q) :
        [q[i] EXCEPT !.current = FALSE] \in Mutations
  BY <1>1 DEF Mutations
<1>3. OvertakeHold(q) \in [1..Len(q) -> Mutations]
  BY <1>1, <1>2 DEF OvertakeHold
<1>4. OvertakeHold(q) \in Seq(Mutations) /\ Len(OvertakeHold(q)) = Len(q)
  BY <1>1, <1>3, SeqDef, LenProperties
<1>5. QED
  BY <1>1, <1>4 DEF OvertakeHold, Mutations

-----------------------------------------------------------------------------
(* Type correctness: first what the helpers of the actions do to the types. *)

(* A part of the state that does not change keeps its type. *)
LEMMA Kept ==
  /\ IntentType /\ UNCHANGED intent => IntentType'
  /\ LinkType /\ UNCHANGED link => LinkType'
  /\ RetryType /\ UNCHANGED retry => RetryType'
  /\ TunType /\ UNCHANGED tun => TunType'
  /\ RoutingType /\ UNCHANGED routing => RoutingType'
  /\ HoldType /\ UNCHANGED hold => HoldType'
  /\ LocalType /\ UNCHANGED local => LocalType'
  /\ ExecType /\ UNCHANGED exec => ExecType'
<1>1. IntentType /\ UNCHANGED intent => IntentType'
  BY DEF IntentType, intent
<1>2. LinkType /\ UNCHANGED link => LinkType'
  BY DEF LinkType, link
<1>3. RetryType /\ UNCHANGED retry => RetryType'
  BY DEF RetryType, retry
<1>4. TunType /\ UNCHANGED tun => TunType'
  BY DEF TunType, tun
<1>5. RoutingType /\ UNCHANGED routing => RoutingType'
  BY <1>4 DEF RoutingType, routing
<1>6. HoldType /\ UNCHANGED hold => HoldType'
  BY DEF HoldType, hold
<1>7. LocalType /\ UNCHANGED local => LocalType'
  BY DEF LocalType, local
<1>8. ExecType /\ UNCHANGED exec => ExecType'
  BY DEF ExecType, exec
<1>9. QED
  BY <1>1, <1>2, <1>3, <1>4, <1>5, <1>6, <1>7, <1>8

(* What enters the queue is a mutation. *)
LEMMA MutationType ==
  /\ \A k \in Kinds : Mutation(k) \in Mutations
  /\ \A u \in BOOLEAN : [Mutation("connect") EXCEPT !.user = u] \in Mutations
  /\ \A r \in BOOLEAN, c \in Clients \cup {NoClient} :
       [Mutation("cleanup") EXCEPT !.retryable = r, !.client = c] \in Mutations
  BY DEF Mutation, Mutations, Kinds

(* A mutation starts with well-typed local variables. *)
LEMMA NoLocalsType == NoLocals \in Locals
  BY DEF NoLocals, Locals, Segments, Failures

(* A mutation that settles leaves a well-typed queue. *)
LEMMA FinishTypes ==
  ASSUME TypeOK, queue # <<>>, Finish
  PROVE  ExecType'
  BY TailFacts, NoLocalsType DEF TypeOK, ExecType, Finish, Points

(* A mutation that goes on keeps its queue and its local variables. *)
LEMMA GoToTypes ==
  ASSUME TypeOK, NEW p \in Points, GoTo(p)
  PROVE  ExecType'
  BY DEF TypeOK, ExecType, GoTo

(* stopSystemRouting *)
LEMMA BeginStopTypes ==
  ASSUME TypeOK, NEW n \in Segments, NEW r \in Locals, BeginStop(n, r)
  PROVE  RoutingType' /\ HoldType' /\ ExecType'
<1>1. (tunRoutingActive \/ tunStartAttempted) \in BOOLEAN
  OBVIOUS
<1>2. run' \in Locals
  BY <1>1 DEF BeginStop, Locals
<1>3. queue' \in Seq(Mutations)
  BY OvertakeHoldFacts DEF TypeOK, ExecType, BeginStop
<1>4. at' \in Points
  BY DEF BeginStop, Points, Awaits
<1>5. TunType'
  BY DEF BeginStop, TypeOK, RoutingType, TunType
<1>6. systemRoutingApplied' \in BOOLEAN /\ routingChangedWhileDown' \in BOOLEAN
  BY DEF BeginStop, TypeOK, RoutingType
<1>7. systemProxy' \in {"direct", "listener"}
  BY DEF BeginStop, TypeOK, RoutingType
<1>8. HoldType'
  BY DEF BeginStop, HoldType
<1>9. QED
  BY <1>2, <1>3, <1>4, <1>5, <1>6, <1>7, <1>8 DEF RoutingType, ExecType

(* dataplane.stop() *)
LEMMA DataplaneStoppedTypes ==
  ASSUME TypeOK, DataplaneStopped
  PROVE  active' \in BOOLEAN /\ adapter' \in BOOLEAN /\ forgotten' \in BOOLEAN
<1>1. active' \in BOOLEAN /\ adapter' \in BOOLEAN
  BY DEF DataplaneStopped, TypeOK, RoutingType, TunType
<1>2. forgotten' \in BOOLEAN
  BY DEF DataplaneStopped
<1>3. QED
  BY <1>1, <1>2

(* The client of the previous session is taken out. *)
LEMMA TakeClientTypes ==
  ASSUME TypeOK, NEW r \in Locals, TakeClient(r)
  PROVE  LinkType' /\ ExecType'
<1>1. run' \in Locals
  BY DEF TakeClient, Locals, Segments, TypeOK, LinkType
<1>2. at' \in Points /\ queue' \in Seq(Mutations)
  BY DEF TakeClient, Points, Awaits, TypeOK, ExecType
<1>3. LinkType'
  BY DEF TakeClient, TypeOK, LinkType
<1>4. QED
  BY <1>1, <1>2, <1>3 DEF ExecType

(* The catch block's close of an acquired client *)
LEMMA SetupFailsTypes ==
  ASSUME TypeOK, SetupFails
  PROVE  LinkType' /\ ExecType'
<1>1. run' \in Locals
  BY DEF SetupFails, Locals, Segments, Failures, TypeOK, ExecType
<1>2. at' \in Points /\ queue' \in Seq(Mutations)
  BY DEF SetupFails, Points, Awaits, TypeOK, ExecType
<1>3. LinkType'
  BY DEF SetupFails, TypeOK, LinkType
<1>4. QED
  BY <1>1, <1>2, <1>3 DEF ExecType

(* A superseded session is closed. *)
LEMMA CloseSupersededTypes ==
  ASSUME TypeOK, CloseSuperseded
  PROVE  ExecType'
<1>1. run' \in Locals
  BY DEF CloseSuperseded, Locals, Segments, TypeOK, ExecType
<1>2. QED
  BY <1>1 DEF CloseSuperseded, Points, Awaits, TypeOK, ExecType

(* The session becomes Connected. *)
LEMMA BecomeConnectedTypes ==
  ASSUME TypeOK, queue # <<>>, BecomeConnected
  PROVE  /\ status' \in States /\ sessionEstablished' \in BOOLEAN
         /\ RoutingType' /\ HoldType' /\ LocalType' /\ ExecType'
<1>1. queue' \in Seq(Mutations)
  BY TailFacts, OvertakeHoldFacts DEF TypeOK, ExecType, BecomeConnected
<1>2. ExecType'
  BY <1>1, NoLocalsType DEF ExecType, BecomeConnected, Points
<1>3. TunType'
  BY Kept DEF TypeOK, RoutingType, BecomeConnected
<1>4. RoutingType'
  BY <1>3 DEF TypeOK, RoutingType, BecomeConnected
<1>5. HoldType' /\ LocalType'
  BY DEF TypeOK, HoldType, LocalType, BecomeConnected
<1>6. status' \in States /\ sessionEstablished' \in BOOLEAN
  BY DEF BecomeConnected, States
<1>7. QED
  BY <1>2, <1>4, <1>5, <1>6

(* stopTunRouting *)
LEMMA BeginTunStopTypes ==
  ASSUME TypeOK, NEW r \in Locals, BeginTunStop(r), adapter' \in BOOLEAN,
         forgotten' \in BOOLEAN
  PROVE  TunType' /\ ExecType'
<1>1. (tunRoutingActive \/ tunStartAttempted) \in BOOLEAN
  OBVIOUS
<1>2. run' \in Locals
  BY <1>1 DEF BeginTunStop, Locals
<1>3. ExecType'
  BY <1>2 DEF BeginTunStop, Points, Awaits, TypeOK, ExecType
<1>4. TunType'
  BY DEF BeginTunStop, TypeOK, RoutingType, TunType
<1>5. QED
  BY <1>3, <1>4

(* applySystemRouting up to its first await *)
LEMMA BeginApplyTypes ==
  ASSUME TypeOK, NEW n \in Segments, NEW r \in Locals, BeginApply(n, r)
  PROVE  TunType' /\ ExecType'
<1> DEFINE s == [r EXCEPT !.next = n, !.live = TRUE, !.aborted = FALSE]
<1>1. s \in Locals
  BY DEF Locals
<1>2. CASE TunEnabled /\ tunSuspended
  <2>1. BeginTunStop(s) /\ UNCHANGED <<adapter, forgotten>>
    BY <1>2 DEF BeginApply
  <2>2. adapter' \in BOOLEAN /\ forgotten' \in BOOLEAN
    BY <2>1 DEF TypeOK, RoutingType, TunType
  <2>3. QED
    BY <1>1, <2>1, <2>2, BeginTunStopTypes
<1>3. CASE ~(TunEnabled /\ tunSuspended)
  <2>1. /\ at' = IF TunEnabled THEN "probe" ELSE "proxy"
        /\ run' = s
        /\ UNCHANGED <<queue, tun>>
    BY <1>3 DEF BeginApply
  <2>2. at' \in Points
    BY <2>1 DEF Points, Awaits, Segments
  <2>3. run' \in Locals /\ queue' \in Seq(Mutations)
    BY <1>1, <2>1 DEF TypeOK, ExecType
  <2>4. QED
    BY <2>1, <2>2, <2>3, Kept DEF TypeOK, RoutingType, ExecType
<1>4. QED
  BY <1>2, <1>3

(* The connect attempt applies the routing. *)
LEMMA ConnectAppliesTypes ==
  ASSUME TypeOK, ConnectApplies
  PROVE  RoutingType' /\ HoldType' /\ ExecType'
<1>1. TunType' /\ ExecType'
  BY BeginApplyTypes DEF ConnectApplies, TypeOK, ExecType, Segments
<1>2. QED
  BY <1>1, Kept DEF ConnectApplies, TypeOK, RoutingType

(* suspendTunnel *)
LEMMA SuspendTunnelTypes ==
  ASSUME TypeOK, NEW q \in Seq(Mutations), SuspendTunnel(q)
  PROVE  HoldType' /\ queue' \in Seq(Mutations)
<1>1. queue' \in Seq(Mutations)
  BY OvertakeHoldFacts DEF SuspendTunnel
<1>2. HoldType'
  BY DEF SuspendTunnel, TypeOK, HoldType
<1>3. QED
  BY <1>1, <1>2

(* scheduleReconnect and haltReconnect *)
LEMMA ScheduleTypes ==
  ASSUME TypeOK, ScheduleReconnect \/ HaltReconnect
  PROVE  /\ status' \in States
         /\ supervisor' \in BOOLEAN /\ reconnectHalted' \in BOOLEAN
         /\ reconnectTimer' \in {"none", "armed"}
<1>1. status' \in States
  BY DEF ScheduleReconnect, HaltReconnect, TypeOK, States
<1>2. supervisor' \in BOOLEAN /\ reconnectHalted' \in BOOLEAN
  BY DEF ScheduleReconnect, HaltReconnect, TypeOK, RetryType, IntentType
<1>3. reconnectTimer' \in {"none", "armed"}
  BY DEF ScheduleReconnect, HaltReconnect, TypeOK, RetryType
<1>4. QED
  BY <1>1, <1>2, <1>3

(* startConnect *)
LEMMA StartConnectTypes ==
  ASSUME TypeOK, NEW u \in BOOLEAN, NEW s \in States, StartConnect(u, s)
  PROVE  /\ status' \in States
         /\ lastRequest' \in BOOLEAN /\ disconnectRequested' \in BOOLEAN
         /\ clientCurrent' \in BOOLEAN /\ supervisor' \in BOOLEAN
         /\ reconnectTimer' \in {"none", "armed"}
         /\ queue' \in Seq(Mutations)
<1>1. queue' \in Seq(Mutations)
  BY OvertakeFacts, AppendFacts, MutationType DEF StartConnect, TypeOK, ExecType
<1>2. QED
  BY <1>1 DEF StartConnect

(* What disconnect, clearError and dispose do at once *)
LEMMA EndLifecycleTypes ==
  ASSUME TypeOK, NEW s \in States, EndLifecycle(s),
         disposed' \in BOOLEAN, queue' \in Seq(Mutations)
  PROVE  TypeOK'
<1>1. status' \in States
  BY DEF EndLifecycle
<1>2. IntentType'
  BY DEF EndLifecycle, TypeOK, IntentType
<1>3. LinkType'
  BY DEF EndLifecycle, TypeOK, LinkType
<1>4. RetryType'
  <2>1. supervisor' \in BOOLEAN /\ sessionEstablished' \in BOOLEAN
    BY DEF EndLifecycle, TypeOK, RetryType
  <2>2. reconnectTimer' = "none" /\ consecutiveAuthFailures' \in Nat
    BY DEF EndLifecycle, TypeOK, RetryType
  <2>3. QED
    BY <2>1, <2>2 DEF RetryType
<1>5. RoutingType' /\ HoldType' /\ LocalType'
  BY Kept DEF EndLifecycle, TypeOK
<1>6. ExecType'
  <2>1. (run.aborted \/ at = "tunStart") \in BOOLEAN
    OBVIOUS
  <2>2. run' \in Locals
    BY <2>1 DEF EndLifecycle, TypeOK, ExecType, Locals
  <2>3. QED
    BY <2>2 DEF EndLifecycle, TypeOK, ExecType
<1>7. QED
  BY <1>1, <1>2, <1>3, <1>4, <1>5, <1>6 DEF TypeOK

(* Every initial state is well typed. *)
LEMMA TypeInit == Init => TypeOK
<1> SUFFICES ASSUME Init PROVE TypeOK
  OBVIOUS
<1> USE DEF Init
<1>1. status \in States
  BY DEF States
<1>2. IntentType /\ HoldType
  BY DEF IntentType, HoldType
<1>3. LinkType /\ LocalType
  BY DEF LinkType, LocalType
<1>4. RetryType
  BY DEF RetryType
<1>5. TunType
  BY DEF TunType
<1>6. RoutingType
  BY <1>5 DEF RoutingType
<1>7. ExecType
  BY EmptySeq, NoLocalsType DEF ExecType, Points
<1>8. QED
  BY <1>1, <1>2, <1>3, <1>4, <1>6, <1>7 DEF TypeOK

(* Every step keeps the types. *)
LEMMA TypeStep == TypeOK /\ [Next]_vars => TypeOK'
<1> SUFFICES ASSUME TypeOK, [Next]_vars PROVE TypeOK'
  OBVIOUS
<1>1. CASE FinishStop
  <2>1. ExecType'
    BY <1>1, GoToTypes DEF FinishStop, TypeOK, ExecType, Locals, Points
  <2>2. active' \in BOOLEAN /\ adapter' \in BOOLEAN /\ forgotten' \in BOOLEAN
    BY <1>1, DataplaneStoppedTypes DEF FinishStop
  <2>3. TunType'
    BY <1>1, <2>2 DEF FinishStop, TypeOK, RoutingType, TunType
  <2>4. RoutingType'
    BY <1>1, <2>3 DEF FinishStop, TypeOK, RoutingType
  <2>5. QED
    BY <1>1, <2>1, <2>3, <2>4, Kept DEF FinishStop, TypeOK
<1>2. CASE FinishClose
  <2>1. ExecType'
    BY <1>2, GoToTypes DEF FinishClose, TypeOK, ExecType, Locals, Points
  <2>2. LinkType'
    BY <1>2 DEF FinishClose, TypeOK, LinkType
  <2>3. QED
    BY <1>2, <2>1, <2>2, Kept DEF FinishClose, TypeOK
<1>3. CASE SkipOvertaken
  <2>1. ExecType'
    BY <1>3, FinishTypes DEF SkipOvertaken, At
  <2>2. QED
    BY <1>3, <2>1, Kept DEF SkipOvertaken, TypeOK
<1>4. CASE Done
  <2>1. ExecType'
    BY <1>4, FinishTypes DEF Done, At
  <2>2. QED
    BY <1>4, <2>1, Kept DEF Done, TypeOK
<1>5. CASE BeginConnect
  <2>1. (HoldRouting) \in BOOLEAN /\ (HoldTunRouting) \in BOOLEAN
    BY <1>5 DEF HoldRouting, HoldTunRouting
  <2>2. [NoLocals EXCEPT !.hold = HoldRouting, !.holdTun = HoldTunRouting] \in Locals
    BY <1>5, <2>1, NoLocalsType DEF Locals
  <2>3. LinkType' /\ RoutingType' /\ HoldType' /\ ExecType'
    BY <1>5, <2>2, TakeClientTypes, BeginStopTypes, Kept
       DEF BeginConnect, TypeOK, Segments
  <2>4. QED
    BY <1>5, <2>3, Kept DEF BeginConnect, TypeOK
<1>6. CASE Replace
  <2>1. LinkType' /\ ExecType'
    BY <1>6, TakeClientTypes, FinishTypes, Kept
       DEF Replace, At, TypeOK, ExecType
  <2>2. QED
    BY <1>6, <2>1, Kept DEF Replace, TypeOK
<1>7. CASE DialStart
  <2>1. ExecType'
    BY <1>7, GoToTypes, FinishTypes DEF DialStart, At, Points, Awaits
  <2>2. QED
    BY <1>7, <2>1, Kept DEF DialStart, TypeOK
<1>8. ASSUME NEW c \in Clients, DialOk(c) PROVE TypeOK'
  <2>1. run' \in Locals
    BY <1>8 DEF DialOk, TypeOK, ExecType, Locals
  <2>2. ExecType'
    BY <1>8, <2>1 DEF DialOk, TypeOK, ExecType, Points, Awaits, Segments
  <2>3. LinkType'
    BY <1>8 DEF DialOk, TypeOK, LinkType
  <2>4. RetryType'
    BY <1>8 DEF DialOk, TypeOK, RetryType
  <2>5. QED
    BY <1>8, <2>2, <2>3, <2>4, Kept DEF DialOk, TypeOK
<1>9. ASSUME NEW c \in Clients, DialOvertaken(c) PROVE TypeOK'
  <2>1. run' \in Locals
    BY <1>9 DEF DialOvertaken, TypeOK, ExecType, Locals, Segments
  <2>2. ExecType'
    BY <1>9, <2>1 DEF DialOvertaken, TypeOK, ExecType, Points, Awaits, Segments
  <2>3. LinkType'
    BY <1>9 DEF DialOvertaken, TypeOK, LinkType
  <2>4. QED
    BY <1>9, <2>2, <2>3, Kept DEF DialOvertaken, TypeOK
<1>10. ASSUME NEW e \in Failures, DialFail(e) PROVE TypeOK'
  <2>1. [run EXCEPT !.error = e] \in Locals
    BY <1>10 DEF TypeOK, ExecType, Locals
  <2>2. RoutingType' /\ HoldType' /\ ExecType'
    BY <1>10, <2>1, BeginStopTypes, Kept
       DEF DialFail, TypeOK, ExecType, Points, Segments
  <2>3. QED
    BY <1>10, <2>2, Kept DEF DialFail, TypeOK
<1>11. CASE ListenOk
  <2>1. ExecType'
    BY <1>11, GoToTypes DEF ListenOk, Points, Segments
  <2>2. LocalType'
    BY <1>11 DEF ListenOk, TypeOK, LocalType
  <2>3. QED
    BY <1>11, <2>1, <2>2, Kept DEF ListenOk, TypeOK
<1>12. CASE ListenFail
  <2>1. LinkType' /\ ExecType'
    BY <1>12, SetupFailsTypes DEF ListenFail
  <2>2. QED
    BY <1>12, <2>1, Kept DEF ListenFail, TypeOK
<1>13. CASE Established
  <2>1. status' \in States
    BY <1>13, BecomeConnectedTypes DEF Established, At, TypeOK
  <2>2. sessionEstablished' \in BOOLEAN
    BY <1>13, BecomeConnectedTypes DEF Established, At, TypeOK, RetryType
  <2>3. RoutingType' /\ HoldType' /\ LocalType' /\ ExecType'
    BY <1>13, BecomeConnectedTypes, CloseSupersededTypes, BeginStopTypes,
       ConnectAppliesTypes, Kept DEF Established, At, TypeOK, ExecType, Segments
  <2>4. RetryType'
    BY <1>13, <2>2 DEF Established, TypeOK, RetryType
  <2>5. QED
    BY <1>13, <2>1, <2>3, <2>4, Kept DEF Established, TypeOK
<1>14. CASE Applied
  <2>1. status' \in States
    BY <1>14, BecomeConnectedTypes DEF Applied, At, TypeOK
  <2>2. sessionEstablished' \in BOOLEAN
    BY <1>14, BecomeConnectedTypes DEF Applied, At, TypeOK, RetryType
  <2>3. RoutingType' /\ HoldType' /\ LocalType' /\ ExecType'
    BY <1>14, BecomeConnectedTypes, CloseSupersededTypes, Kept
       DEF Applied, At, TypeOK
  <2>4. RetryType'
    BY <1>14, <2>2 DEF Applied, TypeOK, RetryType
  <2>5. QED
    BY <1>14, <2>1, <2>3, <2>4, Kept DEF Applied, TypeOK
<1>15. CASE Apply
  <2>1. RoutingType' /\ HoldType' /\ ExecType'
    BY <1>15, ConnectAppliesTypes DEF Apply
  <2>2. QED
    BY <1>15, <2>1, Kept DEF Apply, TypeOK
<1>16. CASE Probe
  <2>1. UNCHANGED <<adapter, forgotten>> => adapter' \in BOOLEAN /\ forgotten' \in BOOLEAN
    BY <1>16 DEF TypeOK, RoutingType, TunType
  <2>2. /\ tunStartAttempted' = TRUE /\ forgotten' = FALSE
        /\ UNCHANGED <<tunRoutingActive, active, adapter, tunStops, tunSuspended>>
        => TunType'
    BY <1>16 DEF TypeOK, RoutingType, TunType
  <2>3. TunType' /\ ExecType'
    BY <1>16, <2>1, <2>2, GoToTypes, BeginTunStopTypes, Kept
       DEF Probe, TypeOK, RoutingType, ExecType, Points, Awaits, Segments
  <2>4. RoutingType'
    BY <1>16, <2>3 DEF Probe, TypeOK, RoutingType
  <2>5. QED
    BY <1>16, <2>3, <2>4, Kept DEF Probe, TypeOK
<1>17. CASE TunStartOk
  <2>1. ExecType'
    BY <1>17, GoToTypes DEF TunStartOk, Points, Awaits
  <2>2. TunType'
    BY <1>17 DEF TunStartOk, TypeOK, RoutingType, TunType
  <2>3. RoutingType'
    BY <1>17, <2>2 DEF TunStartOk, TypeOK, RoutingType
  <2>4. QED
    BY <1>17, <2>1, <2>2, <2>3, Kept DEF TunStartOk, TypeOK
<1>18. CASE TunStartFail
  <2>0. adapter' \in BOOLEAN
    BY <1>18 DEF TunStartFail, TypeOK, RoutingType, TunType
  <2>1. adapter' \in BOOLEAN /\ forgotten' \in BOOLEAN
    BY <1>18, <2>0 DEF TunStartFail
  <2>2. UNCHANGED <<tunRoutingActive, tunStartAttempted, active, tunStops, tunSuspended>>
        => TunType'
    BY <1>18, <2>1 DEF TypeOK, RoutingType, TunType
  <2>3. TunType' /\ ExecType'
    BY <1>18, <2>1, <2>2, GoToTypes, BeginTunStopTypes
       DEF TunStartFail, TypeOK, ExecType, Points, Segments
  <2>4. (ChangeNoted) \in BOOLEAN
    BY <1>18 DEF ChangeNoted
  <2>5. routingChangedWhileDown' \in BOOLEAN
    BY <1>18, <2>4 DEF TunStartFail, TypeOK, RoutingType
  <2>6. RoutingType'
    BY <1>18, <2>3, <2>5 DEF TunStartFail, TypeOK, RoutingType
  <2>7. QED
    BY <1>18, <2>3, <2>6, Kept DEF TunStartFail, TypeOK
<1>19. CASE TunRestore
  <2>1. ExecType'
    BY <1>19, GoToTypes DEF TunRestore, TypeOK, ExecType, Locals, Points
  <2>2. TunType'
    BY <1>19 DEF TunRestore, TypeOK, RoutingType, TunType
  <2>3. RoutingType'
    BY <1>19, <2>2 DEF TunRestore, TypeOK, RoutingType
  <2>4. QED
    BY <1>19, <2>1, <2>2, <2>3, Kept DEF TunRestore, TypeOK
<1>20. CASE TunStop
  <2>1. ExecType'
    BY <1>20, GoToTypes DEF TunStop, Points, Segments
  <2>4. active' \in BOOLEAN /\ adapter' \in BOOLEAN /\ forgotten' \in BOOLEAN
    BY <1>20, DataplaneStoppedTypes DEF TunStop
  <2>2. TunType'
    BY <1>20, <2>4 DEF TunStop, TypeOK, RoutingType, TunType
  <2>3. RoutingType'
    BY <1>20, <2>2 DEF TunStop, TypeOK, RoutingType
  <2>5. QED
    BY <1>20, <2>1, <2>2, <2>3, Kept DEF TunStop, TypeOK
<1>21. CASE Proxy
  <2>1. ExecType'
    BY <1>21, GoToTypes DEF Proxy, TypeOK, ExecType, Locals, Points, Awaits
  <2>2. QED
    BY <1>21, <2>1, Kept DEF Proxy, TypeOK
<1>22. CASE ProxyApplyOk
  <2>1. ExecType'
    BY <1>22, GoToTypes DEF ProxyApplyOk, TypeOK, ExecType, Locals, Points
  <2>2. RoutingType'
    BY <1>22, Kept DEF ProxyApplyOk, TypeOK, RoutingType
  <2>3. QED
    BY <1>22, <2>1, <2>2, Kept DEF ProxyApplyOk, TypeOK
<1>23. CASE ProxyApplyFail
  <2>1. LinkType' /\ ExecType'
    BY <1>23, SetupFailsTypes, FinishTypes, Kept DEF ProxyApplyFail, At, TypeOK
  <2>2. RoutingType'
    BY <1>23, Kept DEF ProxyApplyFail, TypeOK, RoutingType
  <2>3. QED
    BY <1>23, <2>1, <2>2, Kept DEF ProxyApplyFail, TypeOK
<1>24. CASE RoutingUpdate
  <2>1. TunType' /\ ExecType'
    BY <1>24, BeginApplyTypes, FinishTypes, NoLocalsType, Kept
       DEF RoutingUpdate, Begins, At, TypeOK, RoutingType, Segments
  <2>2. (ChangeNoted) \in BOOLEAN
    BY <1>24 DEF ChangeNoted
  <2>3. routingChangedWhileDown' \in BOOLEAN
    BY <1>24, <2>2 DEF RoutingUpdate, TypeOK, RoutingType
  <2>4. RoutingType'
    BY <1>24, <2>1, <2>3 DEF RoutingUpdate, TypeOK, RoutingType
  <2>5. QED
    BY <1>24, <2>1, <2>4, Kept DEF RoutingUpdate, TypeOK
<1>25. CASE Reapply
  <2>1. TunType' /\ ExecType'
    BY <1>25, BeginApplyTypes, FinishTypes, NoLocalsType, Kept
       DEF Reapply, Begins, At, TypeOK, RoutingType, Segments
  <2>2. RoutingType'
    BY <1>25, <2>1 DEF Reapply, TypeOK, RoutingType
  <2>3. QED
    BY <1>25, <2>1, <2>2, Kept DEF Reapply, TypeOK
<1>26. CASE BeginCleanup
  <2>1. Running.client \in Clients \cup {NoClient}
    BY <1>26, TailFacts
       DEF BeginCleanup, At, Running, TypeOK, ExecType, Mutations
  <2>2. run' \in Locals
    BY <1>26, <2>1, NoLocalsType DEF BeginCleanup, Locals, Segments
  <2>3. ExecType'
    BY <1>26, <2>2 DEF BeginCleanup, TypeOK, ExecType, Points, Awaits
  <2>4. QED
    BY <1>26, <2>3, Kept DEF BeginCleanup, TypeOK
<1>27. CASE Cleaned
  <2>1. /\ Tail(queue) \in Seq(Mutations)
        /\ Append(Tail(queue), Mutation("stopRouting")) \in Seq(Mutations)
    BY <1>27, TailFacts, AppendFacts, MutationType
       DEF Cleaned, At, TypeOK, ExecType, Kinds
  <2>2. ExecType'
    BY <1>27, <2>1, NoLocalsType DEF Cleaned, TypeOK, ExecType, Points
  <2>3. status' \in States
    BY <1>27, ScheduleTypes DEF Cleaned, TypeOK
  <2>4. supervisor' \in BOOLEAN /\ reconnectHalted' \in BOOLEAN
    BY <1>27, ScheduleTypes DEF Cleaned, TypeOK, RetryType, IntentType
  <2>5. reconnectTimer' \in {"none", "armed"}
    BY <1>27, ScheduleTypes DEF Cleaned, TypeOK, RetryType
  <2>6. IntentType'
    BY <1>27, <2>4 DEF Cleaned, TypeOK, IntentType
  <2>7. RetryType'
    BY <1>27, <2>4, <2>5 DEF Cleaned, TypeOK, RetryType
  <2>8. QED
    BY <1>27, <2>2, <2>3, <2>6, <2>7, Kept DEF Cleaned, TypeOK
<1>28. CASE Failed
  <2>1. /\ Tail(queue) \in Seq(Mutations)
        /\ Append(Tail(queue), Mutation("stopRouting")) \in Seq(Mutations)
    BY <1>28, TailFacts, AppendFacts, MutationType
       DEF Failed, At, TypeOK, ExecType, Kinds
  <2>2. HoldType' /\ ExecType'
    BY <1>28, <2>1, SuspendTunnelTypes, FinishTypes, NoLocalsType, Kept
       DEF Failed, At, TypeOK, ExecType, Points
  <2>3. status' \in States
    BY <1>28, ScheduleTypes DEF Failed, TypeOK
  <2>4. UNCHANGED retry =>
          UNCHANGED <<supervisor, reconnectTimer, consecutiveAuthFailures, sessionEstablished>>
    BY <1>28 DEF retry
  <2>5. /\ supervisor' \in BOOLEAN /\ reconnectHalted' \in BOOLEAN
        /\ sessionEstablished' \in BOOLEAN
    BY <1>28, <2>4, ScheduleTypes DEF Failed, TypeOK, RetryType, IntentType
  <2>6. reconnectTimer' \in {"none", "armed"}
    BY <1>28, <2>4, ScheduleTypes DEF Failed, TypeOK, RetryType
  <2>7. AuthFailures \in Nat
    BY <1>28 DEF AuthFailures, TypeOK, RetryType
  <2>8. consecutiveAuthFailures' \in Nat
    BY <1>28, <2>4, <2>7 DEF Failed, TypeOK, RetryType
  <2>9. IntentType'
    BY <1>28, <2>5 DEF Failed, TypeOK, IntentType
  <2>10. RetryType'
    BY <1>28, <2>5, <2>6, <2>8 DEF RetryType
  <2>11. QED
    BY <1>28, <2>2, <2>3, <2>9, <2>10, Kept DEF Failed, TypeOK
<1>29. CASE DisconnectInternal
  <2>1. [NoLocals EXCEPT !.session = client] \in Locals
    BY <1>29, NoLocalsType DEF TypeOK, LinkType, Locals
  <2>2. RoutingType' /\ HoldType' /\ ExecType'
    BY <1>29, <2>1, BeginStopTypes DEF DisconnectInternal, Segments
  <2>3. LinkType'
    BY <1>29 DEF DisconnectInternal, TypeOK, LinkType
  <2>4. QED
    BY <1>29, <2>2, <2>3, Kept DEF DisconnectInternal, TypeOK
<1>30. CASE StopRouting
  <2>1. RoutingType' /\ HoldType' /\ ExecType'
    BY <1>30, BeginStopTypes, NoLocalsType DEF StopRouting, Segments
  <2>2. QED
    BY <1>30, <2>1, Kept DEF StopRouting, TypeOK
<1>31. CASE StopListener
  <2>1. run' \in Locals
    BY <1>31 DEF StopListener, TypeOK, ExecType, Locals, Segments
  <2>2. ExecType'
    BY <1>31, <2>1 DEF StopListener, TypeOK, ExecType, Points, Awaits, Segments
  <2>3. LocalType'
    BY <1>31 DEF StopListener, LocalType
  <2>4. QED
    BY <1>31, <2>2, <2>3, Kept DEF StopListener, TypeOK
<1>32. CASE Ended
  <2>1. ExecType'
    BY <1>32, FinishTypes DEF Ended, At
  <2>2. status' \in States
    BY <1>32 DEF Ended, TypeOK, States
  <2>3. TunType'
    BY <1>32 DEF Ended, TypeOK, RoutingType, TunType
  <2>4. RoutingType'
    BY <1>32, <2>3 DEF Ended, TypeOK, RoutingType
  <2>5. QED
    BY <1>32, <2>1, <2>2, <2>3, <2>4, Kept DEF Ended, TypeOK
<1>33. CASE HoldStop
  <2>1. holdStopQueued' = FALSE /\ UNCHANGED holdTimer => HoldType'
    BY <1>33 DEF TypeOK, HoldType
  <2>2. RoutingType' /\ HoldType' /\ ExecType'
    BY <1>33, <2>1, BeginStopTypes, FinishTypes, NoLocalsType, Kept
       DEF HoldStop, Begins, At, TypeOK, Segments
  <2>3. QED
    BY <1>33, <2>2, Kept DEF HoldStop, TypeOK
<1>34. CASE Connect
  <2>1. StartConnect(TRUE, "Connecting") /\ "Connecting" \in States
    BY <1>34 DEF Connect, States
  <2>2. /\ status' \in States /\ queue' \in Seq(Mutations)
             /\ lastRequest' \in BOOLEAN /\ disconnectRequested' \in BOOLEAN
             /\ clientCurrent' \in BOOLEAN /\ supervisor' \in BOOLEAN
             /\ reconnectTimer' \in {"none", "armed"}
    BY <1>34, <2>1, StartConnectTypes
  <2>3. IntentType'
    BY <1>34, <2>2 DEF Connect, TypeOK, IntentType
  <2>4. LinkType'
    BY <1>34, <2>2 DEF Connect, TypeOK, LinkType
  <2>5. sessionEstablished' \in BOOLEAN
    BY <1>34 DEF Connect
  <2>6. consecutiveAuthFailures' \in Nat
    BY <1>34 DEF Connect
  <2>7. RetryType'
    BY <1>34, <2>2, <2>5, <2>6 DEF RetryType
  <2>8. TunType'
    BY <1>34 DEF Connect, TypeOK, RoutingType, TunType
  <2>9. RoutingType'
    BY <1>34, <2>8 DEF Connect, TypeOK, RoutingType
  <2>10. ExecType'
    BY <1>34, <2>2 DEF Connect, TypeOK, ExecType
  <2>11. QED
    BY <1>34, <2>2, <2>3, <2>4, <2>7, <2>8, <2>9, <2>10, Kept
       DEF Connect, TypeOK
<1>35. CASE BeginDisconnect
  <2>1. queue' \in Seq(Mutations)
    BY <1>35, OvertakeFacts, AppendFacts, MutationType
       DEF BeginDisconnect, TypeOK, ExecType, Kinds
  <2>2. disposed' \in BOOLEAN
    BY <1>35 DEF BeginDisconnect, TypeOK, IntentType
  <2>3. QED
    BY <1>35, <2>1, <2>2, EndLifecycleTypes DEF BeginDisconnect, States
<1>36. CASE Disconnect
  <2>1. queue' \in Seq(Mutations)
    BY <1>36, OvertakeFacts, AppendFacts, MutationType
       DEF Disconnect, TypeOK, ExecType, Kinds
  <2>2. disposed' \in BOOLEAN
    BY <1>36 DEF Disconnect, TypeOK, IntentType
  <2>3. QED
    BY <1>36, <2>1, <2>2, EndLifecycleTypes DEF Disconnect, States
<1>37. CASE ClearError
  <2>1. queue' \in Seq(Mutations)
    BY <1>37, OvertakeFacts, AppendFacts, MutationType
       DEF ClearError, TypeOK, ExecType, Kinds
  <2>2. disposed' \in BOOLEAN
    BY <1>37 DEF ClearError, TypeOK, IntentType
  <2>3. QED
    BY <1>37, <2>1, <2>2, EndLifecycleTypes DEF ClearError, States
<1>38. CASE Dispose
  <2>1. queue' \in Seq(Mutations)
    BY <1>38, OvertakeFacts, AppendFacts, MutationType
       DEF Dispose, TypeOK, ExecType, Kinds
  <2>2. disposed' \in BOOLEAN
    BY <1>38 DEF Dispose, TypeOK, IntentType
  <2>3. QED
    BY <1>38, <2>1, <2>2, EndLifecycleTypes DEF Dispose, States
<1>39. CASE UpdateRouting
  <2>1. queue' \in Seq(Mutations)
    BY <1>39, OvertakeRoutingFacts, AppendFacts, MutationType
       DEF UpdateRouting, TypeOK, ExecType, Kinds
  <2>2. ExecType'
    BY <1>39, <2>1 DEF UpdateRouting, TypeOK, ExecType
  <2>3. QED
    BY <1>39, <2>2, Kept DEF UpdateRouting, TypeOK
<1>40. CASE ReconnectTimerFires
  <2>1. "Reconnecting" \in States
    BY <1>40 DEF States
  <2>2. status' \in States
    BY <1>40, <2>1, StartConnectTypes DEF ReconnectTimerFires, TypeOK
  <2>3. queue' \in Seq(Mutations)
    BY <1>40, <2>1, StartConnectTypes DEF ReconnectTimerFires, TypeOK, ExecType
  <2>4. reconnectTimer' \in {"none", "armed"}
    BY <1>40, <2>1, StartConnectTypes DEF ReconnectTimerFires
  <2>5. IntentType'
    BY <1>40, <2>1, StartConnectTypes
       DEF ReconnectTimerFires, TypeOK, IntentType
  <2>6. clientCurrent' \in BOOLEAN /\ supervisor' \in BOOLEAN
    BY <1>40, <2>1, StartConnectTypes
       DEF ReconnectTimerFires, TypeOK, LinkType, RetryType
  <2>7. LinkType'
    BY <1>40, <2>6 DEF ReconnectTimerFires, TypeOK, LinkType
  <2>8. RetryType'
    BY <1>40, <2>4, <2>6 DEF ReconnectTimerFires, TypeOK, RetryType
  <2>9. ExecType'
    BY <1>40, <2>3 DEF ReconnectTimerFires, TypeOK, ExecType
  <2>10. QED
    BY <1>40, <2>2, <2>5, <2>7, <2>8, <2>9, Kept DEF ReconnectTimerFires, TypeOK
<1>41. CASE HoldTimerFires
  <2>1. Append(queue, Mutation("holdStop")) \in Seq(Mutations)
    BY <1>41, AppendFacts, MutationType DEF TypeOK, ExecType, Kinds
  <2>2. ExecType'
    BY <1>41, <2>1 DEF HoldTimerFires, TypeOK, ExecType
  <2>3. HoldType'
    BY <1>41 DEF HoldTimerFires, TypeOK, HoldType
  <2>4. QED
    BY <1>41, <2>2, <2>3, Kept DEF HoldTimerFires, TypeOK
<1>42. ASSUME NEW r \in BOOLEAN, ClientFails(r) PROVE TypeOK'
  <2>1. Append(Overtake(queue), [Mutation("cleanup") EXCEPT
                                  !.retryable = r, !.client = client]) \in Seq(Mutations)
    BY <1>42, OvertakeFacts, AppendFacts, MutationType
       DEF TypeOK, LinkType, ExecType
  <2>2. HoldType' /\ queue' \in Seq(Mutations)
    BY <1>42, <2>1, SuspendTunnelTypes, Kept DEF ClientFails, TypeOK
  <2>3. [run EXCEPT !.live = FALSE] \in Locals
    BY <1>42 DEF TypeOK, ExecType, Locals
  <2>4. ExecType'
    BY <1>42, <2>2, <2>3 DEF ClientFails, TypeOK, ExecType
  <2>5. status' \in States
    BY <1>42 DEF ClientFails, States
  <2>6. LinkType'
    BY <1>42 DEF ClientFails, TypeOK, LinkType
  <2>7. RetryType'
    BY <1>42 DEF ClientFails, TypeOK, RetryType
  <2>8. QED
    BY <1>42, <2>2, <2>4, <2>5, <2>6, <2>7, Kept DEF ClientFails, TypeOK
<1>43. CASE HelperDies
  <2>1. queue' \in Seq(Mutations)
    <3>1. queue' = queue \/ queue' = Append(queue, Mutation("reapply"))
      BY <1>43 DEF HelperDies
    <3>2. queue \in Seq(Mutations) /\ Mutation("reapply") \in Mutations
      BY MutationType DEF TypeOK, ExecType, Kinds
    <3>3. QED
      BY <3>1, <3>2, AppendFacts
  <2>2. ExecType'
    BY <1>43, <2>1 DEF HelperDies, TypeOK, ExecType
  <2>3. tunStops' \in Nat
    BY <1>43 DEF HelperDies, TypeOK, RoutingType, TunType
  <2>4. tunSuspended' \in BOOLEAN
    BY <1>43 DEF HelperDies, TypeOK, RoutingType, TunType
  <2>5. tunRoutingActive' \in BOOLEAN /\ tunStartAttempted' \in BOOLEAN
    BY <1>43 DEF HelperDies, TypeOK, RoutingType, TunType
  <2>6. active' \in BOOLEAN /\ adapter' \in BOOLEAN
    BY <1>43 DEF HelperDies
  <2>7. RoutingType'
    BY <1>43, <2>3, <2>4, <2>5, <2>6
       DEF HelperDies, TypeOK, RoutingType, TunType
  <2>8. QED
    BY <1>43, <2>2, <2>7, Kept DEF HelperDies, TypeOK
<1>44. ASSUME NEW w \in Conns, Park(w) PROVE TypeOK'
  <2>1. LocalType'
    BY <1>44 DEF Park, TypeOK, LocalType
  <2>2. QED
    BY <1>44, <2>1, Kept DEF Park, TypeOK
<1>45. ASSUME NEW w \in Conns, Unpark(w) PROVE TypeOK'
  <2>1. LocalType'
    BY <1>45 DEF Unpark, TypeOK, LocalType
  <2>2. QED
    BY <1>45, <2>1, Kept DEF Unpark, TypeOK
<1>46. CASE UNCHANGED vars
  BY <1>46, Kept DEF vars, TypeOK
<1>47. QED
  BY <1>1, <1>2, <1>3, <1>4, <1>5, <1>6, <1>7, <1>8, <1>9, <1>10, <1>11,
     <1>12, <1>13, <1>14, <1>15, <1>16, <1>17, <1>18, <1>19, <1>20,
     <1>21, <1>22, <1>23, <1>24, <1>25, <1>26, <1>27, <1>28, <1>29,
     <1>30, <1>31, <1>32, <1>33, <1>34, <1>35, <1>36, <1>37, <1>38,
     <1>39, <1>40, <1>41, <1>42, <1>43, <1>44, <1>45, <1>46
     DEF Next, QueueStep, UserStep, Event

(* The type invariant holds in every state of every behaviour. *)
THEOREM TypeCorrect == Spec => []TypeOK
  BY TypeInit, TypeStep, PTL DEF Spec

-----------------------------------------------------------------------------
(* The reconnect loop: what the queue's operators keep of the mutations that
   belong to a lifecycle. *)

(* The inductive invariant *)
IInv == TypeOK /\ OneAttempt /\ Supervised /\ UnwantedIsQuiet

(* The kinds of mutation a generation of the lifecycle stands behind *)
Lasting == {"connect", "cleanup", "disconnect", "dispose"}

(* p holds the mutations of q, where they were and as current as they were, and
   after them none of a lasting kind. *)
Keeps(q, p) ==
  /\ q \in Seq(Mutations) /\ p \in Seq(Mutations)
  /\ Len(q) <= Len(p)
  /\ \A i \in 1..Len(q) :
       /\ p[i].kind = q[i].kind
       /\ q[i].kind \in Lasting => p[i].current = q[i].current
  /\ \A i \in 1..Len(p) : i \notin 1..Len(q) => p[i].kind \notin Lasting

(* The end of a hold, a newer routing update and a queued stop keep them. *)
LEMMA KeepsFacts ==
  ASSUME NEW q \in Seq(Mutations)
  PROVE  /\ Keeps(q, q)
         /\ Keeps(q, OvertakeHold(q))
         /\ \A k \in {"stopRouting", "holdStop", "reapply"} :
              Keeps(q, Append(q, Mutation(k)))
         /\ Keeps(q, Append(OvertakeRouting(q), Mutation("routing")))
         /\ Keeps(q, OvertakeHold(Append(q, Mutation("stopRouting"))))
<1>1. Len(q) \in Nat
  BY LenProperties
<1>2. Keeps(q, q)
  BY <1>1 DEF Keeps
<1>3. ASSUME NEW p \in Seq(Mutations)
      PROVE  Keeps(p, OvertakeHold(p))
  <2>1. Len(p) \in Nat
    BY LenProperties
  <2>2. QED
    BY <2>1, OvertakeHoldFacts DEF Keeps, Lasting
<1>4. ASSUME NEW k \in {"stopRouting", "holdStop", "reapply", "routing"}
      PROVE  Keeps(q, Append(q, Mutation(k)))
  <2>1. Mutation(k) \in Mutations /\ Mutation(k).kind = k
    BY <1>4, MutationType DEF Mutation, Kinds
  <2>2. QED
    BY <1>1, <1>4, <2>1, AppendFacts DEF Keeps, Lasting
<1>5. ASSUME NEW p \in Seq(Mutations), NEW r \in Seq(Mutations),
             Keeps(q, p), Keeps(p, r)
      PROVE  Keeps(q, r)
  <2>1. Len(p) \in Nat /\ Len(r) \in Nat
    BY LenProperties
  <2>2. Len(q) <= Len(p) /\ Len(p) <= Len(r)
    BY <1>5 DEF Keeps
  <2>3. ASSUME NEW i \in 1..Len(q)
        PROVE  /\ r[i].kind = q[i].kind
               /\ q[i].kind \in Lasting => r[i].current = q[i].current
    <3>1. i \in 1..Len(p)
      BY <1>1, <2>1, <2>2
    <3>2. /\ p[i].kind = q[i].kind
          /\ q[i].kind \in Lasting => p[i].current = q[i].current
      BY <1>5 DEF Keeps
    <3>3. /\ r[i].kind = p[i].kind
          /\ p[i].kind \in Lasting => r[i].current = p[i].current
      BY <1>5, <3>1 DEF Keeps
    <3>4. QED
      BY <3>2, <3>3
  <2>4. ASSUME NEW i \in 1..Len(r), i \notin 1..Len(q)
        PROVE  r[i].kind \notin Lasting
    <3>1. CASE i \in 1..Len(p)
      <4>1. p[i].kind \notin Lasting
        BY <1>5, <2>4, <3>1 DEF Keeps
      <4>2. r[i].kind = p[i].kind
        BY <1>5, <3>1 DEF Keeps
      <4>3. QED
        BY <4>1, <4>2
    <3>2. CASE i \notin 1..Len(p)
      BY <1>5, <2>4, <3>2 DEF Keeps
    <3>3. QED
      BY <3>1, <3>2
  <2>5. Len(q) <= Len(r)
    BY <1>1, <2>1, <2>2
  <2>6. QED
    BY <1>5, <2>3, <2>4, <2>5 DEF Keeps
<1>6. Keeps(q, OvertakeHold(Append(q, Mutation("stopRouting"))))
  <2>1. Append(q, Mutation("stopRouting")) \in Seq(Mutations)
    BY AppendFacts, MutationType DEF Kinds
  <2>2. Keeps(Append(q, Mutation("stopRouting")),
              OvertakeHold(Append(q, Mutation("stopRouting"))))
    BY <1>3, <2>1
  <2>3. QED
    BY <1>4, <1>5, <2>1, <2>2, OvertakeHoldFacts
<1>7. Keeps(q, Append(OvertakeRouting(q), Mutation("routing")))
  <2>1. OvertakeRouting(q) \in Seq(Mutations) /\ Len(OvertakeRouting(q)) = Len(q)
    BY OvertakeRoutingFacts
  <2>2. Mutation("routing") \in Mutations /\ Mutation("routing").kind = "routing"
    BY MutationType DEF Mutation, Kinds
  <2>3. QED
    BY <1>1, <2>1, <2>2, AppendFacts, OvertakeRoutingFacts DEF Keeps, Lasting
<1>8. QED
  BY <1>2, <1>3, <1>4, <1>6, <1>7

(* The same mutations wait or run before and after. *)
LEMMA KeepsPending ==
  ASSUME NEW q, NEW p, Keeps(q, p)
  PROVE  (\E i \in 1..Len(p) : p[i].kind \in Lifecycle /\ p[i].current)
           <=> (\E i \in 1..Len(q) : q[i].kind \in Lifecycle /\ q[i].current)
<1>1. Len(q) \in Nat /\ Len(p) \in Nat
  BY LenProperties DEF Keeps
<1>2. QED
  BY <1>1 DEF Keeps, Lasting, Lifecycle

(* Once its generation is overtaken, no mutation of a lasting kind is current. *)
LEMMA OvertakenLasting ==
  ASSUME NEW q \in Seq(Mutations)
  PROVE  \A i \in 1..Len(Overtake(q)) :
           Overtake(q)[i].kind \in Lasting => ~Overtake(q)[i].current
  BY OvertakeFacts DEF Lasting

-----------------------------------------------------------------------------
(* The three ways in which a step treats the running mutation *)

(* It goes on, or another handler runs beside it: the intent and the timers are
   left alone, a client begins to be heard only as the attempt's own, and ceases
   to be heard only where an attempt is under way or none is wanted. *)
LEMMA GoesOn ==
  ASSUME IInv, TypeOK', Keeps(queue, queue'), RunsItsProgram',
         at' # "idle" => queue # <<>>,
         UNCHANGED <<intent, reconnectTimer, supervisor>>,
         clientCurrent' => clientCurrent \/ (queue # <<>> /\ Running.kind = "connect" /\ IsCurrent),
         clientCurrent => clientCurrent' \/ Pending(Lifecycle) \/ ~Wanted,
         queue # <<>> /\ Running.kind \in Lifecycle /\ IsCurrent /\ clientCurrent' => SessionInHand',
         SessionInHand' => /\ clientCurrent' <=> IsCurrent'
                           /\ IsCurrent' => client' = run'.session
  PROVE  IInv'
<1> USE DEF IInv
<1>1. /\ queue \in Seq(Mutations) /\ queue' \in Seq(Mutations)
      /\ Len(queue) \in Nat /\ Len(queue') \in Nat
  BY LenProperties DEF Keeps
<1>2. Wanted' = Wanted
  BY DEF Wanted, intent
<1>3. Pending(Lifecycle)' <=> Pending(Lifecycle)
  BY KeepsPending DEF Pending
<1>4. queue # <<>> => Running = queue[1] /\ 1 \in 1..Len(queue)
  BY <1>1 DEF Running
<1>5. queue # <<>> /\ Running.kind = "connect" /\ IsCurrent => Pending(Lifecycle)
  BY <1>4 DEF Pending, Lifecycle, IsCurrent
<1>6. Supervised' /\ UnwantedIsQuiet'
  BY <1>2, <1>3, <1>5 DEF Supervised, UnwantedIsQuiet, Lifecycle
<1>7. \A i, j \in 1..Len(queue') :
        /\ queue'[i].kind \in Lifecycle /\ queue'[i].current
        /\ queue'[j].kind \in Lifecycle /\ queue'[j].current
        => i = j
  BY <1>1 DEF Keeps, Lasting, Lifecycle, OneAttempt
<1>8. \A i \in 1..Len(queue') :
        queue'[i].current =>
          /\ queue'[i].kind = "disconnect" => disconnectRequested'
          /\ queue'[i].kind = "dispose" => disposed'
  BY <1>1 DEF Keeps, Lasting, OneAttempt, intent
<1>9. ASSUME NEW i \in 1..Len(queue'), queue'[i].current,
             queue'[i].kind \in Lifecycle, clientCurrent'
      PROVE  i = 1 /\ SessionInHand'
  <2>1. i \in 1..Len(queue) /\ queue[i].current /\ queue[i].kind \in Lifecycle
    BY <1>1, <1>9 DEF Keeps, Lasting, Lifecycle
  <2>2. queue # <<>>
    BY <1>1, <2>1
  <2>3. clientCurrent => i = 1
    BY <1>1, <2>1 DEF OneAttempt
  <2>4. Running.kind = "connect" /\ IsCurrent => i = 1
    BY <1>1, <1>4, <2>1, <2>2 DEF OneAttempt, IsCurrent, Lifecycle
  <2>5. i = 1
    BY <1>9, <2>3, <2>4
  <2>6. QED
    BY <1>4, <1>9, <2>1, <2>2, <2>5 DEF IsCurrent
<1>10. OneAttempt'
  BY <1>7, <1>8, <1>9 DEF OneAttempt
<1>11. QED
  BY <1>6, <1>10

(* The common case: the client is the same and is heard as before. *)
LEMMA Moves ==
  ASSUME IInv, TypeOK', Keeps(queue, queue'), RunsItsProgram',
         at' # "idle" => queue # <<>>,
         UNCHANGED <<intent, client, clientCurrent, reconnectTimer, supervisor>>,
         queue # <<>> /\ (IsCurrent \/ SessionInHand') =>
           /\ SessionInHand' <=> SessionInHand
           /\ SessionInHand => run'.session = run.session
  PROVE  IInv'
<1>1. /\ queue \in Seq(Mutations) /\ queue' \in Seq(Mutations)
      /\ Len(queue) \in Nat /\ Len(queue') \in Nat
  BY LenProperties DEF Keeps
<1>2. queue # <<>> => /\ Running = queue[1] /\ 1 \in 1..Len(queue)
                      /\ Running' = queue'[1]
                      /\ Running'.kind = Running.kind
                      /\ Running.kind = "connect" => (IsCurrent' <=> IsCurrent)
  BY <1>1 DEF Running, Keeps, Lasting, IsCurrent
<1>3. queue # <<>> /\ Running.kind \in Lifecycle /\ IsCurrent /\ clientCurrent' => SessionInHand'
  BY <1>2 DEF IInv, OneAttempt, IsCurrent
<1>4. ASSUME SessionInHand'
      PROVE  /\ clientCurrent' <=> IsCurrent'
             /\ IsCurrent' => client' = run'.session
  <2>1. queue # <<>>
    BY <1>4 DEF SessionInHand, Continuation, ApplyPoints
  <2>2. SessionInHand /\ run'.session = run.session /\ Running.kind = "connect"
    BY <1>4, <2>1 DEF IInv, OneAttempt, RunsItsProgram
  <2>3. QED
    BY <1>2, <2>1, <2>2 DEF IInv, OneAttempt
<1>5. QED
  BY <1>3, <1>4, GoesOn

(* It settles, and what it leaves behind keeps the loop going: nothing of it was
   needed, or the session is up, or the next attempt is scheduled, or the loop
   is halted. *)
LEMMA Settles ==
  ASSUME IInv, TypeOK', queue # <<>>, Keeps(Tail(queue), queue'), at' = "idle",
         UNCHANGED <<lastRequest, disconnectRequested, disposed, clientCurrent>>,
         \/ /\ ~(Running.kind \in Lifecycle /\ IsCurrent) \/ clientCurrent
            /\ UNCHANGED <<reconnectHalted, reconnectTimer, supervisor>>
         \/ ScheduleReconnect
         \/ HaltReconnect /\ Running.kind \in Lifecycle /\ IsCurrent /\ ~SessionInHand
  PROVE  IInv'
<1> USE DEF IInv
<1>1. /\ queue \in Seq(Mutations) /\ Tail(queue) \in Seq(Mutations)
      /\ queue' \in Seq(Mutations)
      /\ Len(queue) \in Nat /\ Len(queue) >= 1 /\ Len(queue') \in Nat
      /\ Len(Tail(queue)) = Len(queue) - 1
      /\ \A i \in 1..(Len(queue) - 1) : Tail(queue)[i] = queue[i + 1]
      /\ Running = queue[1]
  BY TailFacts, LenProperties DEF Keeps, TypeOK, ExecType, Running
<1>2. ASSUME NEW i \in 1..Len(queue'), queue'[i].kind \in Lasting, queue'[i].current
      PROVE  /\ i + 1 \in 1..Len(queue) /\ i \in 1..Len(Tail(queue))
             /\ queue[i + 1].kind = queue'[i].kind /\ queue[i + 1].current
  <2>1. i \in 1..Len(Tail(queue))
    BY <1>2 DEF Keeps
  <2>2. queue'[i].kind = Tail(queue)[i].kind /\ Tail(queue)[i].current
    BY <1>2, <2>1 DEF Keeps
  <2>3. i + 1 \in 1..Len(queue) /\ Tail(queue)[i] = queue[i + 1]
    BY <1>1, <2>1
  <2>4. QED
    BY <2>1, <2>2, <2>3
<1>3. Lifecycle \subseteq Lasting
  BY DEF Lifecycle, Lasting
<1>4. OneAttempt'
  <2>1. RunsItsProgram'
    BY DEF RunsItsProgram, Continuation, SessionInHand, ApplyPoints
  <2>2. ASSUME NEW i \in 1..Len(queue'), NEW j \in 1..Len(queue'),
               queue'[i].kind \in Lifecycle, queue'[i].current,
               queue'[j].kind \in Lifecycle, queue'[j].current
        PROVE  i = j
    <3>1. /\ i + 1 \in 1..Len(queue) /\ queue[i + 1].kind \in Lifecycle /\ queue[i + 1].current
          /\ j + 1 \in 1..Len(queue) /\ queue[j + 1].kind \in Lifecycle /\ queue[j + 1].current
      BY <1>2, <1>3, <2>2
    <3>2. i + 1 = j + 1
      BY <3>1 DEF OneAttempt
    <3>3. QED
      BY <1>1, <3>2
  <2>3. ASSUME NEW i \in 1..Len(queue'), queue'[i].current
        PROVE  /\ queue'[i].kind = "disconnect" => disconnectRequested'
               /\ queue'[i].kind = "dispose" => disposed'
    BY <1>2, <2>3 DEF OneAttempt, Lasting
  <2>4. ASSUME NEW i \in 1..Len(queue'), queue'[i].current,
               queue'[i].kind \in Lifecycle, clientCurrent'
        PROVE  FALSE
    <3>1. i + 1 \in 1..Len(queue) /\ queue[i + 1].kind \in Lifecycle /\ queue[i + 1].current
      BY <1>2, <1>3, <2>4
    <3>2. i + 1 = 1
      BY <2>4, <3>1 DEF OneAttempt
    <3>3. QED
      BY <1>1, <3>2
  <2>5. ~SessionInHand'
    BY DEF SessionInHand, Continuation, ApplyPoints
  <2>6. QED
    BY <2>1, <2>2, <2>3, <2>4, <2>5 DEF OneAttempt
<1>5. Pending(Lifecycle)' => Pending(Lifecycle)
  BY <1>2, <1>3 DEF Pending
<1>6. ~(Running.kind \in Lifecycle /\ IsCurrent) /\ Pending(Lifecycle) => Pending(Lifecycle)'
  <2> SUFFICES ASSUME ~(Running.kind \in Lifecycle /\ IsCurrent),
                      NEW i \in 1..Len(queue),
                      queue[i].kind \in Lifecycle, queue[i].current
               PROVE  Pending(Lifecycle)'
    BY DEF Pending
  <2>1. i # 1
    BY <1>1 DEF IsCurrent
  <2>2. i - 1 \in 1..Len(Tail(queue)) /\ Tail(queue)[i - 1] = queue[i]
    BY <1>1, <2>1
  <2>3. /\ i - 1 \in 1..Len(queue')
        /\ queue'[i - 1].kind \in Lifecycle /\ queue'[i - 1].current
    BY <1>1, <1>3, <2>2 DEF Keeps
  <2>4. QED
    BY <2>3 DEF Pending
<1>7. Running.kind \in Lifecycle /\ IsCurrent => ~Pending(Lifecycle)'
  <2> SUFFICES ASSUME Running.kind \in Lifecycle, IsCurrent,
                      NEW i \in 1..Len(queue'),
                      queue'[i].kind \in Lifecycle, queue'[i].current
               PROVE  FALSE
    BY DEF Pending
  <2>1. i + 1 \in 1..Len(queue) /\ queue[i + 1].kind \in Lifecycle /\ queue[i + 1].current
    BY <1>2, <1>3
  <2>2. 1 \in 1..Len(queue) /\ queue[1].kind \in Lifecycle /\ queue[1].current
    BY <1>1 DEF IsCurrent
  <2>3. i + 1 = 1
    BY <2>1, <2>2 DEF OneAttempt
  <2>4. QED
    BY <1>1, <2>3
<1>8. Running.kind \in Lifecycle /\ IsCurrent /\ ~SessionInHand => ~clientCurrent
  <2>1. 1 \in 1..Len(queue)
    BY <1>1
  <2>2. QED
    BY <1>1, <2>1 DEF OneAttempt, IsCurrent
<1>9. TypeOK /\ TypeOK' /\ Supervised /\ UnwantedIsQuiet
  OBVIOUS
<1>10. CASE /\ ~(Running.kind \in Lifecycle /\ IsCurrent) \/ clientCurrent
            /\ UNCHANGED <<reconnectHalted, reconnectTimer, supervisor>>
  BY <1>5, <1>6, <1>9, <1>10, <1>4
     DEF Supervised, UnwantedIsQuiet, Wanted, Lifecycle
<1>11. CASE ScheduleReconnect
  <2>1. Wanted' = Wanted /\ reconnectTimer \in {"none", "armed"}
    BY <1>11 DEF ScheduleReconnect, Wanted, TypeOK, RetryType
  <2>2. CASE Wanted
    BY <1>11, <2>1, <2>2, <1>4, <1>9
       DEF ScheduleReconnect, MaySchedule, Supervised, UnwantedIsQuiet
  <2>3. CASE ~Wanted
    BY <1>11, <2>1, <2>3, <1>4, <1>5, <1>9
       DEF ScheduleReconnect, MaySchedule, Supervised, UnwantedIsQuiet, Lifecycle
  <2>4. QED
    BY <2>2, <2>3
<1>12. CASE HaltReconnect /\ Running.kind \in Lifecycle /\ IsCurrent /\ ~SessionInHand
  BY <1>4, <1>7, <1>8, <1>9, <1>12
     DEF HaltReconnect, Supervised, UnwantedIsQuiet, Wanted, Lifecycle
<1>13. QED
  BY <1>10, <1>11, <1>12

(* It is overtaken, with everything else in flight, and m is queued.  A session
   is wanted afterwards just if m is its attempt or its cleanup. *)
LEMMA IsOvertaken ==
  ASSUME IInv, TypeOK', UNCHANGED at, run'.next = run.next,
         NEW m \in Mutations, m.current,
         \/ queue' = Overtake(queue) /\ m.kind \notin Lasting
         \/ Keeps(Append(Overtake(queue), m), queue'),
         m.kind = "disconnect" => disconnectRequested',
         m.kind = "dispose" => disposed',
         clientCurrent' = FALSE, reconnectTimer' = "none",
         supervisor' <=> Wanted',
         m.kind \in Lifecycle <=> Wanted'
  PROVE  IInv'
<1> USE DEF IInv
<1>1. /\ queue \in Seq(Mutations) /\ queue' \in Seq(Mutations)
      /\ Len(queue) \in Nat /\ Len(queue') \in Nat
  BY LenProperties DEF TypeOK, ExecType
<1>2. /\ Overtake(queue) \in Seq(Mutations) /\ Len(Overtake(queue)) = Len(queue)
      /\ \A i \in 1..Len(queue) :
           /\ Overtake(queue)[i].kind = queue[i].kind
           /\ Overtake(queue)[i].kind \in Lasting => ~Overtake(queue)[i].current
  BY <1>1, OvertakeFacts, OvertakenLasting
<1>3. Lifecycle \subseteq Lasting
  BY DEF Lifecycle, Lasting
<1> DEFINE n == Len(queue) + 1
           Grown ==
             /\ Len(queue') >= Len(queue)
             /\ \A i \in 1..Len(queue) :
                  /\ queue'[i].kind = queue[i].kind
                  /\ queue'[i].kind \in Lasting => ~queue'[i].current
             /\ \A i \in 1..Len(queue') :
                  i \notin 1..Len(queue) /\ queue'[i].kind \in Lasting =>
                    i = n /\ queue'[i].kind = m.kind
             /\ m.kind \in Lifecycle =>
                  n \in 1..Len(queue') /\ queue'[n].kind = m.kind /\ queue'[n].current
<1>4. Grown
  <2>1. CASE queue' = Overtake(queue) /\ m.kind \notin Lasting
    BY <1>1, <1>2, <1>3, <2>1
  <2>2. CASE Keeps(Append(Overtake(queue), m), queue')
    <3> DEFINE q == Append(Overtake(queue), m)
    <3>1. /\ q \in Seq(Mutations) /\ Len(q) = n
          /\ \A i \in 1..Len(queue) : q[i] = Overtake(queue)[i]
          /\ q[n] = m
      BY <1>1, <1>2, AppendFacts
    <3>2. Keeps(q, queue')
      BY <2>2
    <3> HIDE DEF q
    <3>3. n \in Nat /\ n \in 1..Len(queue') /\ queue'[n].kind = m.kind
      BY <1>1, <3>1, <3>2 DEF Keeps
    <3>4. ASSUME NEW i \in 1..Len(queue)
          PROVE  /\ queue'[i].kind = queue[i].kind
                 /\ queue'[i].kind \in Lasting => ~queue'[i].current
      <4>1. i \in 1..Len(q) /\ q[i] = Overtake(queue)[i]
        BY <1>1, <3>1
      <4>2. QED
        BY <1>2, <3>2, <4>1 DEF Keeps
    <3>5. ASSUME NEW i \in 1..Len(queue'), i \notin 1..Len(queue),
                 queue'[i].kind \in Lasting
          PROVE  i = n
      BY <1>1, <3>1, <3>2, <3>5 DEF Keeps
    <3>6. m.kind \in Lifecycle => queue'[n].current
      BY <1>1, <1>3, <3>1, <3>2 DEF Keeps
    <3>7. QED
      BY <1>1, <3>3, <3>4, <3>5, <3>6
  <2> HIDE DEF Grown
  <2>3. QED
    BY <2>1, <2>2
<1>5. Supervised' /\ UnwantedIsQuiet'
  <2>1. Pending(Lifecycle)' <=> m.kind \in Lifecycle
    BY <1>1, <1>3, <1>4 DEF Pending
  <2>2. QED
    BY <2>1 DEF Supervised, UnwantedIsQuiet, Lifecycle
<1>6. at # "idle" => /\ queue # <<>> /\ queue' # <<>>
                     /\ Running'.kind = Running.kind
                     /\ Running.kind \in Lasting => ~IsCurrent'
  BY <1>1, <1>4 DEF OneAttempt, RunsItsProgram, Running, IsCurrent
<1>7. Continuation' = Continuation
  BY DEF Continuation
<1>8. RunsItsProgram'
  BY <1>6, <1>7 DEF OneAttempt, RunsItsProgram, SessionInHand, Lifecycle, Lasting,
                    Continuation, ApplyPoints
<1>9. SessionInHand' => ~IsCurrent'
  <2>1. SessionInHand => at # "idle" /\ Running.kind = "connect"
    BY DEF OneAttempt, RunsItsProgram, SessionInHand, Continuation, ApplyPoints
  <2>2. QED
    BY <1>6, <1>7, <2>1 DEF SessionInHand, Lasting
<1>10. \A i, j \in 1..Len(queue') :
        /\ queue'[i].kind \in Lifecycle /\ queue'[i].current
        /\ queue'[j].kind \in Lifecycle /\ queue'[j].current
        => i = j
  BY <1>1, <1>3, <1>4
<1>11. \A i \in 1..Len(queue') :
        queue'[i].current =>
          /\ queue'[i].kind = "disconnect" => disconnectRequested'
          /\ queue'[i].kind = "dispose" => disposed'
  BY <1>1, <1>4 DEF Lasting
<1>12. OneAttempt'
  BY <1>8, <1>9, <1>10, <1>11 DEF OneAttempt
<1>13. QED
  BY <1>5, <1>12

(* The head of a queue that is kept is the same mutation, as current as it was. *)
LEMMA HeadKept ==
  ASSUME queue # <<>>, Keeps(queue, queue')
  PROVE  /\ queue' # <<>>
         /\ Running'.kind = Running.kind
         /\ Running.kind \in Lasting => (IsCurrent' <=> IsCurrent)
<1>1. Len(queue) \in Nat /\ Len(queue') \in Nat /\ Len(queue) >= 1
  BY LenProperties, EmptySeq DEF Keeps
<1>2. QED
  BY <1>1 DEF Running, Keeps, Lasting, IsCurrent

(* Where stopSystemRouting leaves the running mutation *)
LEMMA StopMoves ==
  ASSUME NEW n, NEW r \in Locals, BeginStop(n, r)
  PROVE  /\ at' = "stop" /\ run'.next = n /\ run'.session = r.session
         /\ queue' = OvertakeHold(queue)
  BY DEF BeginStop, Locals

(* Where stopTunRouting leaves it *)
LEMMA TunStopMoves ==
  ASSUME NEW r \in Locals, BeginTunStop(r)
  PROVE  /\ at' = "tunStop" /\ run'.next = r.next /\ run'.session = r.session
         /\ queue' = queue
  BY DEF BeginTunStop, Locals

(* Where applySystemRouting leaves it: on its way, with n to go on at *)
LEMMA ApplyMoves ==
  ASSUME NEW n \in Segments, NEW r \in Locals, BeginApply(n, r)
  PROVE  /\ at' \in {"probe", "proxy", "tunStop"} /\ run'.next = n
         /\ run'.session = r.session /\ queue' = queue
<1> DEFINE s == [r EXCEPT !.next = n, !.live = TRUE, !.aborted = FALSE]
<1>1. s \in Locals /\ s.next = n /\ s.session = r.session
  BY DEF Locals
<1>2. CASE TunEnabled /\ tunSuspended
  BY <1>1, <1>2, TunStopMoves DEF BeginApply
<1>3. CASE ~(TunEnabled /\ tunSuspended)
  BY <1>1, <1>3 DEF BeginApply
<1>4. QED
  BY <1>2, <1>3

(* Where the exchange of clients leaves it *)
LEMMA TakeMoves ==
  ASSUME NEW r \in Locals, TakeClient(r)
  PROVE  /\ at' = "dial" \/ (at' = "close" /\ run'.next = "dialStart")
         /\ queue' = queue /\ clientCurrent' = FALSE
  BY DEF TakeClient, Locals

(* Where the catch block leaves it *)
LEMMA SetupMoves ==
  ASSUME run \in Locals, SetupFails
  PROVE  at' = "close" /\ run'.next = "failed" /\ queue' = queue
  BY DEF SetupFails, Locals

(* Where the close of a superseded session leaves it *)
LEMMA CloseMoves ==
  ASSUME run \in Locals, CloseSuperseded
  PROVE  at' = "close" /\ run'.next = "done" /\ queue' = queue
  BY DEF CloseSuperseded, Locals

(* It goes from one await to the next of the same call. *)
LEMMA SameProgram ==
  ASSUME IInv, TypeOK', At(at), at # "idle",
         UNCHANGED <<queue, intent, client, clientCurrent, reconnectTimer, supervisor>>,
         at' \in ApplyPoints => at \in ApplyPoints,
         run'.next = run.next, run'.session = run.session,
         Continuation' = Continuation
  PROVE  IInv'
<1>1. queue # <<>> /\ Keeps(queue, queue')
  BY KeepsFacts DEF At, IInv, TypeOK, ExecType
<1>2. SessionInHand' <=> SessionInHand
  BY DEF SessionInHand
<1>3. RunsItsProgram'
  BY <1>1, <1>2, HeadKept DEF IInv, OneAttempt, RunsItsProgram, Lifecycle, Lasting
<1>4. QED
  BY <1>1, <1>2, <1>3, Moves

(* The running mutation is the first of the queue. *)
LEMMA RunningPending ==
  ASSUME TypeOK, queue # <<>>, Running.kind \in Lifecycle, IsCurrent
  PROVE  Pending(Lifecycle)
<1>1. Running = queue[1] /\ 1 \in 1..Len(queue)
  BY TailFacts DEF Running, TypeOK, ExecType
<1>2. QED
  BY <1>1 DEF Pending, IsCurrent

(* The attempt takes the previous client out: its events are no longer heard. *)
LEMMA Takes ==
  ASSUME IInv, TypeOK', NEW r \in Locals, TakeClient(r), queue # <<>>,
         Running.kind = "connect", IsCurrent,
         UNCHANGED <<intent, reconnectTimer, supervisor>>
  PROVE  IInv'
<1>1. /\ at' = "dial" \/ (at' = "close" /\ run'.next = "dialStart")
      /\ queue' = queue /\ clientCurrent' = FALSE
  BY TakeMoves
<1>2. Keeps(queue, queue')
  BY <1>1, KeepsFacts DEF IInv, TypeOK, ExecType
<1>3. RunsItsProgram' /\ ~SessionInHand'
  BY <1>1, <1>2, HeadKept
     DEF RunsItsProgram, Continuation, SessionInHand, ApplyPoints, Lasting
<1>4. Pending(Lifecycle)
  BY RunningPending DEF IInv, Lifecycle
<1>5. QED
  BY <1>1, <1>2, <1>3, <1>4, GoesOn

(* The attempt drops its own session after an error. *)
LEMMA Drops ==
  ASSUME IInv, TypeOK', SetupFails, queue # <<>>, SessionInHand,
         UNCHANGED <<intent, reconnectTimer, supervisor>>
  PROVE  IInv'
<1>1. at' = "close" /\ run'.next = "failed" /\ queue' = queue
  BY SetupMoves DEF IInv, TypeOK, ExecType
<1>2. Running.kind = "connect" /\ (clientCurrent <=> IsCurrent)
  BY DEF IInv, OneAttempt, RunsItsProgram
<1>3. ~clientCurrent'
  BY <1>2 DEF SetupFails, IInv, OneAttempt
<1>4. Keeps(queue, queue')
  BY <1>1, KeepsFacts DEF IInv, TypeOK, ExecType
<1>5. RunsItsProgram' /\ ~SessionInHand'
  BY <1>1, <1>2, <1>4, HeadKept
     DEF RunsItsProgram, Continuation, SessionInHand, ApplyPoints, Lasting
<1>6. clientCurrent => Pending(Lifecycle)
  BY <1>2, RunningPending DEF IInv, Lifecycle
<1>7. QED
  BY <1>1, <1>3, <1>4, <1>5, <1>6, GoesOn

(* The attempt ends in a session that is heard. *)
LEMMA Connects ==
  ASSUME IInv, TypeOK', ~Superseded, BecomeConnected, queue # <<>>, SessionInHand,
         UNCHANGED <<intent, clientCurrent, reconnectTimer, supervisor>>
  PROVE  IInv'
<1>1. clientCurrent
  BY DEF Superseded, IInv, OneAttempt
<1>2. at' = "idle" /\ Keeps(Tail(queue), queue')
  BY TailFacts, KeepsFacts DEF BecomeConnected, IInv, TypeOK, ExecType
<1>3. QED
  BY <1>1, <1>2, Settles DEF intent

(* The attempt finds that it was overtaken, and closes its session. *)
LEMMA Closes ==
  ASSUME IInv, TypeOK', Superseded, CloseSuperseded, queue # <<>>, SessionInHand,
         UNCHANGED <<intent, client, clientCurrent, reconnectTimer, supervisor>>
  PROVE  IInv'
<1>1. at' = "close" /\ run'.next = "done" /\ queue' = queue
  BY CloseMoves DEF IInv, TypeOK, ExecType
<1>2. ~IsCurrent /\ Running.kind = "connect"
  BY DEF Superseded, IInv, OneAttempt, RunsItsProgram
<1>3. Keeps(queue, queue')
  BY <1>1, KeepsFacts DEF IInv, TypeOK, ExecType
<1>4. RunsItsProgram' /\ ~SessionInHand'
  BY <1>1, <1>2, <1>3, HeadKept
     DEF RunsItsProgram, Continuation, SessionInHand, ApplyPoints, Lasting
<1>5. QED
  BY <1>1, <1>2, <1>3, <1>4, Moves

(* A mutation that is no attempt and no cleanup settles. *)
LEMMA SettlesQuietly ==
  ASSUME IInv, TypeOK', queue # <<>>, Finish,
         ~(Running.kind \in Lifecycle /\ IsCurrent),
         UNCHANGED <<intent, clientCurrent, reconnectTimer, supervisor>>
  PROVE  IInv'
<1>1. at' = "idle" /\ Keeps(Tail(queue), queue')
  BY TailFacts, KeepsFacts DEF Finish, IInv, TypeOK, ExecType
<1>2. QED
  BY <1>1, Settles DEF intent

(* A handler runs beside it, and at most adds to the queue. *)
LEMMA Beside ==
  ASSUME IInv, TypeOK', Keeps(queue, queue'), UNCHANGED <<at, run>>,
         UNCHANGED <<intent, client, clientCurrent, reconnectTimer, supervisor>>
  PROVE  IInv'
<1>1. at # "idle" => queue # <<>>
  BY DEF IInv, OneAttempt, RunsItsProgram
<1>2. Continuation' = Continuation /\ (SessionInHand' <=> SessionInHand)
  BY DEF Continuation, SessionInHand
<1>3. RunsItsProgram'
  <2>1. CASE at = "idle"
    BY <2>1 DEF RunsItsProgram, Continuation, SessionInHand, ApplyPoints
  <2>2. CASE at # "idle"
    BY <1>1, <1>2, <2>2, HeadKept
       DEF IInv, OneAttempt, RunsItsProgram, Lifecycle, Lasting
  <2>3. QED
    BY <2>1, <2>2
<1>4. QED
  BY <1>1, <1>2, <1>3, Moves

(* Every step keeps the inductive invariant. *)
LEMMA InvStep == IInv /\ [Next]_vars => IInv'
<1> SUFFICES ASSUME IInv, [Next]_vars PROVE IInv'
  OBVIOUS
<1> TypeOK'
  BY TypeStep DEF IInv
<1> run \in Locals /\ run.next \in Segments /\ queue \in Seq(Mutations)
  BY DEF IInv, TypeOK, ExecType, Locals
<1>1. CASE FinishStop
  <2>1. At("stop") /\ at' = run.next /\ UNCHANGED <<queue, run>>
    BY <1>1 DEF FinishStop, GoTo
  <2>2. QED
    BY <1>1, <2>1, SameProgram
       DEF FinishStop, At, link, retry, Segments, Continuation, ApplyPoints
<1>2. CASE FinishClose
  <2>1. At("close") /\ at' = run.next /\ UNCHANGED <<queue, run>>
    BY <1>2 DEF FinishClose, GoTo
  <2>2. QED
    BY <1>2, <2>1, SameProgram
       DEF FinishClose, At, link, retry, Segments, Continuation, ApplyPoints
<1>3. CASE TunRestore
  <2>1. At("tunRestore") /\ at' = run.next /\ UNCHANGED <<queue, run>>
    BY <1>3 DEF TunRestore, GoTo
  <2>2. QED
    BY <1>3, <2>1, SameProgram
       DEF TunRestore, At, link, retry, Segments, Continuation, ApplyPoints
<1>4. CASE ProxyApplyOk
  <2>1. At("proxyApply") /\ at' = run.next /\ UNCHANGED <<queue, run>>
    BY <1>4 DEF ProxyApplyOk, GoTo
  <2>2. QED
    BY <1>4, <2>1, SameProgram
       DEF ProxyApplyOk, At, link, retry, Segments, Continuation, ApplyPoints
<1>5. CASE TunStartOk
  <2>1. At("tunStart") /\ at' = "tunRestore" /\ UNCHANGED <<queue, run>>
    BY <1>5 DEF TunStartOk, GoTo
  <2>2. QED
    BY <1>5, <2>1, SameProgram
       DEF TunStartOk, At, link, retry, Segments, Continuation, ApplyPoints
<1>6. CASE TunStop
  <2>1. At("tunStop") /\ at' = "proxy" /\ UNCHANGED <<queue, run>>
    BY <1>6 DEF TunStop, GoTo
  <2>2. QED
    BY <1>6, <2>1, SameProgram
       DEF TunStop, At, link, retry, Segments, Continuation, ApplyPoints
<1>7. CASE Proxy
  <2>1. At("proxy") /\ at' \in {"proxyApply", run.next} /\ UNCHANGED <<queue, run>>
    BY <1>7 DEF Proxy, GoTo
  <2>2. QED
    BY <1>7, <2>1, SameProgram
       DEF Proxy, At, link, retry, Segments, Continuation, ApplyPoints
<1>8. CASE Probe
  <2>1. /\ At("probe") /\ at' \in {"proxy", "tunStop", "tunStart"} /\ queue' = queue
        /\ run'.next = run.next /\ run'.session = run.session
    BY <1>8, TunStopMoves DEF Probe, GoTo
  <2>2. QED
    BY <1>8, <2>1, SameProgram DEF Probe, At, link, retry, Continuation, ApplyPoints
<1>9. CASE TunStartFail
  <2>1. /\ At("tunStart") /\ at' \in {"proxy", "tunStop"} /\ queue' = queue
        /\ run'.next = run.next /\ run'.session = run.session
    BY <1>9, TunStopMoves DEF TunStartFail, GoTo
  <2>2. QED
    BY <1>9, <2>1, SameProgram
       DEF TunStartFail, At, link, retry, Continuation, ApplyPoints
<1>10. CASE ListenOk
  <2>1. /\ At("listen") /\ at' = "established" /\ UNCHANGED <<queue, run>>
    BY <1>10 DEF ListenOk, GoTo
  <2>2. queue # <<>> /\ Keeps(queue, queue')
    BY <2>1, KeepsFacts DEF At
  <2>3. SessionInHand /\ SessionInHand' /\ RunsItsProgram'
    BY <2>1, <2>2, HeadKept
       DEF At, IInv, OneAttempt, RunsItsProgram, Continuation, SessionInHand,
           ApplyPoints
  <2>4. QED
    BY <1>10, <2>1, <2>2, <2>3, Moves DEF ListenOk, link, retry
<1>11. CASE Apply
  <2>1. /\ At("apply") /\ at' \in {"probe", "proxy", "tunStop"} /\ queue' = queue
        /\ run'.next = "applied" /\ run'.session = run.session
    BY <1>11, ApplyMoves DEF Apply, ConnectApplies, Segments
  <2>2. queue # <<>> /\ Keeps(queue, queue')
    BY <2>1, KeepsFacts DEF At
  <2>3. SessionInHand /\ SessionInHand' /\ RunsItsProgram'
    BY <2>1, <2>2, HeadKept
       DEF At, IInv, OneAttempt, RunsItsProgram, Continuation, SessionInHand,
           ApplyPoints
  <2>4. QED
    BY <1>11, <2>1, <2>2, <2>3, Moves DEF Apply, link, retry
<1>12. CASE Established
  <2>1. queue # <<>> /\ at = "established" /\ SessionInHand
    BY <1>12
       DEF Established, At, RunsItsProgram, Continuation, SessionInHand, ApplyPoints
  <2>2. CASE Superseded /\ CloseSuperseded
    BY <1>12, <2>1, <2>2, Closes DEF Established, link
  <2>3. CASE ~Superseded /\ BecomeConnected
    BY <1>12, <2>1, <2>3, Connects DEF Established, link
  <2>4. CASE BeginStop("apply", run) \/ ConnectApplies
    <3>1. /\ \/ at' = "stop" /\ run'.next = "apply"
             \/ at' \in {"probe", "proxy", "tunStop"} /\ run'.next = "applied"
          /\ run'.session = run.session /\ queue' \in {queue, OvertakeHold(queue)}
      BY <2>4, StopMoves, ApplyMoves DEF ConnectApplies, Segments
    <3>2. Keeps(queue, queue')
      BY <3>1, KeepsFacts
    <3>3. UNCHANGED <<reconnectTimer, supervisor>>
      BY <1>12 DEF Established
    <3>4. SessionInHand' /\ RunsItsProgram'
      BY <2>1, <3>1, <3>2, HeadKept
         DEF IInv, OneAttempt, Lasting, RunsItsProgram, Continuation,
             SessionInHand, ApplyPoints
    <3>5. QED
      BY <1>12, <2>1, <3>1, <3>2, <3>3, <3>4, Moves DEF Established, link
  <2>5. QED
    BY <1>12, <2>2, <2>3, <2>4 DEF Established
<1>13. CASE Applied
  <2>1. queue # <<>> /\ SessionInHand
    BY <1>13
       DEF Applied, At, RunsItsProgram, Continuation, SessionInHand, ApplyPoints
  <2>2. CASE Superseded /\ CloseSuperseded
    BY <1>13, <2>1, <2>2, Closes DEF Applied, link
  <2>3. CASE ~Superseded /\ BecomeConnected
    BY <1>13, <2>1, <2>3, Connects DEF Applied, link
  <2>4. QED
    BY <1>13, <2>2, <2>3 DEF Applied
<1>14. CASE BeginConnect
  <2> DEFINE r == [NoLocals EXCEPT !.hold = HoldRouting, !.holdTun = HoldTunRouting]
  <2>1. (HoldRouting) \in BOOLEAN /\ (HoldTunRouting) \in BOOLEAN
    BY DEF HoldRouting, HoldTunRouting
  <2>2. r \in Locals
    BY <2>1, NoLocalsType DEF Locals
  <2>3. queue # <<>> /\ at = "idle" /\ Running.kind = "connect" /\ IsCurrent
    BY <1>14 DEF BeginConnect, Begins, At
  <2>4. TakeClient(r) \/ (BeginStop("replace", r) /\ UNCHANGED link)
    BY <1>14 DEF BeginConnect
  <2> HIDE DEF r
  <2>5. CASE TakeClient(r)
    BY <1>14, <2>2, <2>3, <2>5, Takes DEF BeginConnect, retry
  <2>6. CASE BeginStop("replace", r) /\ UNCHANGED link
    <3>1. at' = "stop" /\ run'.next = "replace" /\ queue' = OvertakeHold(queue)
      BY <2>2, <2>6, StopMoves
    <3>2. Keeps(queue, queue')
      BY <3>1, KeepsFacts
    <3>3. RunsItsProgram' /\ ~SessionInHand' /\ ~SessionInHand
      BY <2>3, <3>1, <3>2, HeadKept
         DEF RunsItsProgram, Continuation, SessionInHand, ApplyPoints, Lasting
    <3>4. QED
      BY <1>14, <2>3, <2>6, <3>2, <3>3, Moves DEF BeginConnect, link, retry
  <2>7. QED
    BY <2>4, <2>5, <2>6
<1>15. CASE Replace
  <2>1. queue # <<>> /\ Running.kind = "connect"
    BY <1>15
       DEF Replace, At, IInv, OneAttempt, RunsItsProgram, Continuation,
           SessionInHand, ApplyPoints
  <2>2. CASE IsCurrent
    BY <1>15, <2>1, <2>2, Takes DEF Replace, retry
  <2>3. CASE ~IsCurrent
    BY <1>15, <2>1, <2>3, SettlesQuietly DEF Replace, link, retry
  <2>4. QED
    BY <2>2, <2>3
<1>16. CASE DialStart
  <2>1. queue # <<>> /\ at = "dialStart"
    BY <1>16 DEF DialStart, At
  <2>2. CASE IsCurrent
    <3>1. at' = "dial" /\ queue' = queue /\ Keeps(queue, queue')
      BY <1>16, <2>2, KeepsFacts DEF DialStart, GoTo
    <3>2. RunsItsProgram' /\ ~SessionInHand' /\ ~SessionInHand
      BY <2>1, <3>1, HeadKept
         DEF IInv, OneAttempt, RunsItsProgram, Continuation, SessionInHand,
             ApplyPoints
    <3>3. QED
      BY <1>16, <2>1, <3>1, <3>2, Moves DEF DialStart, link, retry
  <2>3. CASE ~IsCurrent
    BY <1>16, <2>1, <2>3, SettlesQuietly DEF DialStart, link, retry
  <2>4. QED
    BY <2>2, <2>3
<1>17. ASSUME NEW c \in Clients, DialOk(c) PROVE IInv'
  <2>1. /\ queue # <<>> /\ IsCurrent /\ Running.kind = "connect"
        /\ at' \in {"established", "listen"} /\ run'.session = c /\ queue' = queue
        /\ client' = c /\ clientCurrent' = TRUE
    BY <1>17
       DEF DialOk, At, Locals, IInv, OneAttempt, RunsItsProgram, Continuation,
           SessionInHand, ApplyPoints
  <2>2. Keeps(queue, queue')
    BY <2>1, KeepsFacts
  <2>3. RunsItsProgram' /\ SessionInHand' /\ IsCurrent'
    BY <2>1, <2>2, HeadKept
       DEF RunsItsProgram, Continuation, SessionInHand, ApplyPoints, Lasting
  <2>4. QED
    BY <1>17, <2>1, <2>2, <2>3, GoesOn DEF DialOk, retry
<1>18. ASSUME NEW c \in Clients, DialOvertaken(c) PROVE IInv'
  <2>1. /\ At("dial") /\ ~IsCurrent /\ queue' = queue
        /\ at' = "close" /\ run'.next = "done"
    BY <1>18 DEF DialOvertaken, Locals
  <2>2. queue # <<>> /\ Keeps(queue, queue')
    BY <2>1, KeepsFacts DEF At
  <2>3. RunsItsProgram'
    BY <2>1, <2>2, HeadKept
       DEF At, IInv, OneAttempt, Lifecycle, Lasting, RunsItsProgram,
           Continuation, SessionInHand, ApplyPoints
  <2>4. ~SessionInHand' /\ (IsCurrent => ~SessionInHand)
    BY <2>1 DEF At, RunsItsProgram, Continuation, SessionInHand, ApplyPoints
  <2>5. QED
    BY <1>18, <2>2, <2>3, <2>4, Moves DEF DialOvertaken, link, retry
<1>19. ASSUME NEW e \in Failures, DialFail(e) PROVE IInv'
  <2>1. /\ At("dial") /\ queue' \in {queue, OvertakeHold(queue)}
        /\ at' = "failed" \/ (at' = "stop" /\ run'.next = "failed")
    BY <1>19, StopMoves DEF DialFail, Locals
  <2>2. queue # <<>> /\ Keeps(queue, queue')
    BY <2>1, KeepsFacts DEF At
  <2>3. RunsItsProgram'
    BY <2>1, <2>2, HeadKept
       DEF At, IInv, OneAttempt, Lifecycle, Lasting, RunsItsProgram,
           Continuation, SessionInHand, ApplyPoints
  <2>4. ~SessionInHand' /\ (IsCurrent => ~SessionInHand)
    BY <2>1 DEF At, RunsItsProgram, Continuation, SessionInHand, ApplyPoints
  <2>5. QED
    BY <1>19, <2>2, <2>3, <2>4, Moves DEF DialFail, link, retry
<1>20. CASE ListenFail
  <2>1. queue # <<>> /\ SessionInHand
    BY <1>20
       DEF ListenFail, At, RunsItsProgram, Continuation, SessionInHand, ApplyPoints
  <2>2. QED
    BY <1>20, <2>1, Drops DEF ListenFail, retry
<1>21. CASE ProxyApplyFail
  <2>1. /\ queue # <<>> /\ UNCHANGED <<reconnectTimer, supervisor>>
        /\ IF Running.kind = "connect"
           THEN SessionInHand ELSE ~(Running.kind \in Lifecycle /\ IsCurrent)
    BY <1>21
       DEF ProxyApplyFail, At, IInv, OneAttempt, retry, RunsItsProgram,
           Continuation, SessionInHand, ApplyPoints
  <2>2. CASE Running.kind = "connect"
    BY <1>21, <2>1, <2>2, Drops DEF ProxyApplyFail
  <2>3. CASE Running.kind # "connect"
    BY <1>21, <2>1, <2>3, SettlesQuietly DEF ProxyApplyFail, link
  <2>4. QED
    BY <2>2, <2>3
<1>22. CASE SkipOvertaken
  BY <1>22, SettlesQuietly DEF SkipOvertaken, At, link, retry
<1>23. CASE Done
  <2>1. queue # <<>> /\ ~(Running.kind \in Lifecycle /\ IsCurrent)
    BY <1>23
       DEF Done, At, IInv, OneAttempt, RunsItsProgram, Continuation,
           SessionInHand, ApplyPoints
  <2>2. QED
    BY <1>23, <2>1, SettlesQuietly DEF Done, link, retry
<1>24. CASE Ended
  <2>1. queue # <<>> /\ ~(Running.kind \in Lifecycle /\ IsCurrent)
    BY <1>24
       DEF Ended, At, IInv, OneAttempt, RunsItsProgram, Continuation,
           SessionInHand, ApplyPoints
  <2>2. QED
    BY <1>24, <2>1, SettlesQuietly DEF Ended, link, retry
<1>25. CASE RoutingUpdate
  <2>1. queue # <<>> /\ at = "idle" /\ Running.kind = "routing"
    BY <1>25 DEF RoutingUpdate, Begins, At
  <2>2. UNCHANGED <<intent, client, clientCurrent, reconnectTimer, supervisor>>
    BY <1>25 DEF RoutingUpdate, link, retry
  <2>3. CASE BeginApply("done", NoLocals)
    <3>1. /\ at' \in {"probe", "proxy", "tunStop"} /\ run'.next = "done"
          /\ queue' = queue /\ Keeps(queue, queue')
      BY <2>3, ApplyMoves, NoLocalsType, KeepsFacts DEF Segments
    <3>2. RunsItsProgram' /\ ~SessionInHand' /\ ~SessionInHand
      BY <2>1, <3>1, HeadKept
         DEF RunsItsProgram, Continuation, SessionInHand, ApplyPoints, Lifecycle
    <3>3. QED
      BY <2>1, <2>2, <3>1, <3>2, Moves
  <2>4. CASE Finish
    BY <2>1, <2>2, <2>4, SettlesQuietly DEF Lifecycle
  <2>5. QED
    BY <1>25, <2>3, <2>4 DEF RoutingUpdate
<1>26. CASE Reapply
  <2>1. queue # <<>> /\ at = "idle" /\ Running.kind = "reapply"
    BY <1>26 DEF Reapply, Begins, At
  <2>2. UNCHANGED <<intent, client, clientCurrent, reconnectTimer, supervisor>>
    BY <1>26 DEF Reapply, link, retry
  <2>3. CASE BeginApply("done", NoLocals)
    <3>1. /\ at' \in {"probe", "proxy", "tunStop"} /\ run'.next = "done"
          /\ queue' = queue /\ Keeps(queue, queue')
      BY <2>3, ApplyMoves, NoLocalsType, KeepsFacts DEF Segments
    <3>2. RunsItsProgram' /\ ~SessionInHand' /\ ~SessionInHand
      BY <2>1, <3>1, HeadKept
         DEF RunsItsProgram, Continuation, SessionInHand, ApplyPoints, Lifecycle
    <3>3. QED
      BY <2>1, <2>2, <3>1, <3>2, Moves
  <2>4. CASE Finish
    BY <2>1, <2>2, <2>4, SettlesQuietly DEF Lifecycle
  <2>5. QED
    BY <1>26, <2>3, <2>4 DEF Reapply
<1>27. CASE Failed
  <2>1. /\ queue # <<>> /\ Running.kind = "connect" /\ ~SessionInHand
        /\ at' = "idle" /\ Tail(queue) \in Seq(Mutations)
    BY <1>27, TailFacts
       DEF Failed, At, Finish, IInv, OneAttempt, RunsItsProgram, Continuation,
           SessionInHand, ApplyPoints
  <2>2. CASE ~IsCurrent
    BY <1>27, <2>1, <2>2, SettlesQuietly DEF Failed, intent, link, retry
  <2>3. CASE IsCurrent
    <3>1. \/ SuspendTunnel(Tail(queue)) /\ ScheduleReconnect
          \/ /\ SuspendTunnel(Append(Tail(queue), Mutation("stopRouting")))
             /\ HaltReconnect
      BY <1>27, <2>3 DEF Failed
    <3>2. Keeps(Tail(queue), queue')
      BY <2>1, <3>1, KeepsFacts DEF SuspendTunnel
    <3>3. QED
      BY <1>27, <2>1, <2>3, <3>1, <3>2, Settles DEF Failed, link, Lifecycle
  <2>4. QED
    BY <2>2, <2>3
<1>28. CASE BeginCleanup
  <2>1. /\ At("idle") /\ Running.kind = "cleanup" /\ queue' = queue
        /\ at' = "close" /\ run'.next = "cleaned"
    BY <1>28, NoLocalsType DEF BeginCleanup, Locals
  <2>2. queue # <<>> /\ Keeps(queue, queue')
    BY <2>1, KeepsFacts DEF At
  <2>3. RunsItsProgram' /\ ~SessionInHand' /\ ~SessionInHand
    BY <2>1, <2>2, HeadKept
       DEF At, RunsItsProgram, Continuation, SessionInHand, ApplyPoints
  <2>4. QED
    BY <1>28, <2>2, <2>3, Moves DEF BeginCleanup, link, retry
<1>29. CASE Cleaned
  <2>1. /\ queue # <<>> /\ Running.kind = "cleanup" /\ ~SessionInHand
        /\ at' = "idle" /\ Tail(queue) \in Seq(Mutations)
    BY <1>29, TailFacts
       DEF Cleaned, At, IInv, OneAttempt, RunsItsProgram, Continuation,
           SessionInHand, ApplyPoints
  <2>2. queue' \in {Tail(queue), Append(Tail(queue), Mutation("stopRouting"))}
    BY <1>29 DEF Cleaned
  <2>3. Keeps(Tail(queue), queue')
    BY <2>1, <2>2, KeepsFacts
  <2>4. \/ ~IsCurrent /\ UNCHANGED <<reconnectHalted, reconnectTimer, supervisor>>
        \/ ScheduleReconnect
        \/ IsCurrent /\ HaltReconnect
    BY <1>29 DEF Cleaned
  <2>5. QED
    BY <1>29, <2>1, <2>3, <2>4, Settles DEF Cleaned, link, Lifecycle
<1>30. CASE DisconnectInternal
  <2>1. /\ queue # <<>> /\ at = "idle" /\ IsCurrent
        /\ Running.kind \in {"disconnect", "dispose"}
    BY <1>30 DEF DisconnectInternal, Begins, At
  <2>2. ~Wanted
    BY <2>1, TailFacts DEF IInv, OneAttempt, Running, IsCurrent, Wanted
  <2>3. at' = "stop" /\ run'.next = "stopListener" /\ queue' = OvertakeHold(queue)
    <3>1. [NoLocals EXCEPT !.session = client] \in Locals
      BY NoLocalsType DEF IInv, TypeOK, LinkType, Locals
    <3>2. QED
      BY <1>30, <3>1, StopMoves DEF DisconnectInternal
  <2>4. Keeps(queue, queue')
    BY <2>3, KeepsFacts
  <2>5. RunsItsProgram' /\ ~SessionInHand'
    BY <2>1, <2>3, <2>4, HeadKept
       DEF RunsItsProgram, Continuation, SessionInHand, ApplyPoints, Lifecycle
  <2>6. QED
    BY <1>30, <2>1, <2>2, <2>4, <2>5, GoesOn DEF DisconnectInternal, retry
<1>31. CASE StopRouting
  <2>1. /\ queue # <<>> /\ at = "idle" /\ Running.kind = "stopRouting"
        /\ at' = "stop" /\ run'.next = "stopListener" /\ queue' = OvertakeHold(queue)
    BY <1>31, StopMoves, NoLocalsType DEF StopRouting, Begins, At
  <2>2. Keeps(queue, queue')
    BY <2>1, KeepsFacts
  <2>3. RunsItsProgram' /\ ~SessionInHand' /\ ~SessionInHand
    BY <2>1, <2>2, HeadKept
       DEF RunsItsProgram, Continuation, SessionInHand, ApplyPoints, Lifecycle
  <2>4. QED
    BY <1>31, <2>1, <2>2, <2>3, Moves DEF StopRouting, link, retry
<1>32. CASE StopListener
  <2>1. /\ At("stopListener") /\ queue' = queue
        /\ at' \in {"done", "ended"} \/ (at' = "close" /\ run'.next = "ended")
    BY <1>32 DEF StopListener, Locals
  <2>2. queue # <<>> /\ Keeps(queue, queue')
    BY <2>1, KeepsFacts DEF At
  <2>3. RunsItsProgram' /\ ~SessionInHand' /\ ~SessionInHand
    BY <2>1, <2>2, HeadKept
       DEF At, IInv, OneAttempt, Lifecycle, Lasting, RunsItsProgram,
           Continuation, SessionInHand, ApplyPoints
  <2>4. QED
    BY <1>32, <2>2, <2>3, Moves DEF StopListener, link, retry
<1>33. CASE HoldStop
  <2>1. queue # <<>> /\ at = "idle" /\ Running.kind = "holdStop"
    BY <1>33 DEF HoldStop, Begins, At
  <2>2. UNCHANGED <<intent, client, clientCurrent, reconnectTimer, supervisor>>
    BY <1>33 DEF HoldStop, link, retry
  <2>3. CASE BeginStop("done", NoLocals)
    <3>1. /\ at' = "stop" /\ run'.next = "done" /\ queue' = OvertakeHold(queue)
          /\ Keeps(queue, queue')
      BY <2>3, StopMoves, NoLocalsType, KeepsFacts
    <3>2. RunsItsProgram' /\ ~SessionInHand' /\ ~SessionInHand
      BY <2>1, <3>1, HeadKept
         DEF RunsItsProgram, Continuation, SessionInHand, ApplyPoints, Lifecycle
    <3>3. QED
      BY <2>1, <2>2, <3>1, <3>2, Moves
  <2>4. CASE Finish
    BY <2>1, <2>2, <2>4, SettlesQuietly DEF Lifecycle
  <2>5. QED
    BY <1>33, <2>3, <2>4 DEF HoldStop
<1>34. CASE Connect
  <2> DEFINE m == [Mutation("connect") EXCEPT !.user = TRUE]
  <2>1. m \in Mutations /\ m.current /\ m.kind = "connect"
    BY MutationType DEF Mutation
  <2>2. /\ queue' = Append(Overtake(queue), m) /\ Wanted'
        /\ clientCurrent' = FALSE /\ reconnectTimer' = "none" /\ supervisor' = TRUE
        /\ UNCHANGED <<at, run>>
    BY <1>34 DEF Connect, StartConnect, Wanted
  <2>3. Keeps(Append(Overtake(queue), m), queue')
    BY <2>1, <2>2, OvertakeFacts, AppendFacts, KeepsFacts
  <2> HIDE DEF m
  <2>4. QED
    BY <2>1, <2>2, <2>3, IsOvertaken DEF Lifecycle
<1>35. CASE ReconnectTimerFires
  <2> DEFINE m == [Mutation("connect") EXCEPT !.user = FALSE]
  <2>1. m \in Mutations /\ m.current /\ m.kind = "connect"
    BY MutationType DEF Mutation
  <2>2. Wanted
    BY <1>35 DEF ReconnectTimerFires, IInv, UnwantedIsQuiet
  <2>3. /\ queue' = Append(Overtake(queue), m) /\ Wanted'
        /\ clientCurrent' = FALSE /\ reconnectTimer' = "none" /\ supervisor' = TRUE
        /\ UNCHANGED <<at, run>>
    BY <1>35, <2>2 DEF ReconnectTimerFires, StartConnect, Wanted
  <2>4. Keeps(Append(Overtake(queue), m), queue')
    BY <2>1, <2>3, OvertakeFacts, AppendFacts, KeepsFacts
  <2> HIDE DEF m
  <2>5. QED
    BY <2>1, <2>3, <2>4, IsOvertaken DEF Lifecycle
<1>36. CASE BeginDisconnect
  <2> DEFINE m == Mutation("stopRouting")
  <2>1. m \in Mutations /\ m.current /\ m.kind = "stopRouting"
    BY MutationType DEF Mutation, Kinds
  <2>2. /\ queue' = Overtake(queue) /\ disconnectRequested' = TRUE
        /\ clientCurrent' = FALSE /\ reconnectTimer' = "none" /\ supervisor' = FALSE
        /\ at' = at /\ run'.next = run.next
    BY <1>36 DEF BeginDisconnect, EndLifecycle, Locals
  <2> HIDE DEF m
  <2>3. QED
    BY <2>1, <2>2, IsOvertaken DEF Lifecycle, Lasting, Wanted
<1>37. CASE Disconnect
  <2> DEFINE m == Mutation("disconnect")
  <2>1. m \in Mutations /\ m.current /\ m.kind = "disconnect"
    BY MutationType DEF Mutation, Kinds
  <2>2. /\ queue' = Append(Overtake(queue), m) /\ disconnectRequested' = TRUE
        /\ clientCurrent' = FALSE /\ reconnectTimer' = "none" /\ supervisor' = FALSE
        /\ at' = at /\ run'.next = run.next
    BY <1>37 DEF Disconnect, EndLifecycle, Locals
  <2>3. Keeps(Append(Overtake(queue), m), Append(Overtake(queue), m))
    BY <2>1, OvertakeFacts, AppendFacts, KeepsFacts
  <2> HIDE DEF m
  <2>4. QED
    BY <2>1, <2>2, <2>3, IsOvertaken DEF Lifecycle, Lasting, Wanted
<1>38. CASE ClearError
  <2> DEFINE m == Mutation("stopRouting")
  <2>1. m \in Mutations /\ m.current /\ m.kind = "stopRouting"
    BY MutationType DEF Mutation, Kinds
  <2>2. /\ queue' \in {Overtake(queue), Append(Overtake(queue), m)} /\ disconnectRequested' = TRUE
        /\ clientCurrent' = FALSE /\ reconnectTimer' = "none" /\ supervisor' = FALSE
        /\ at' = at /\ run'.next = run.next
    BY <1>38 DEF ClearError, EndLifecycle, Locals
  <2>3. Keeps(Append(Overtake(queue), m), Append(Overtake(queue), m))
    BY <2>1, OvertakeFacts, AppendFacts, KeepsFacts
  <2> HIDE DEF m
  <2>4. QED
    BY <2>1, <2>2, <2>3, IsOvertaken DEF Lifecycle, Lasting, Wanted
<1>39. CASE Dispose
  <2> DEFINE m == Mutation("dispose")
  <2>1. m \in Mutations /\ m.current /\ m.kind = "dispose"
    BY MutationType DEF Mutation, Kinds
  <2>2. /\ queue' = Append(Overtake(queue), m) /\ disconnectRequested' = TRUE
        /\ clientCurrent' = FALSE /\ reconnectTimer' = "none" /\ supervisor' = FALSE
        /\ at' = at /\ run'.next = run.next /\ disposed' = TRUE
    BY <1>39 DEF Dispose, EndLifecycle, Locals
  <2>3. Keeps(Append(Overtake(queue), m), Append(Overtake(queue), m))
    BY <2>1, OvertakeFacts, AppendFacts, KeepsFacts
  <2> HIDE DEF m
  <2>4. QED
    BY <2>1, <2>2, <2>3, IsOvertaken DEF Lifecycle, Lasting, Wanted
<1>40. ASSUME NEW r \in BOOLEAN, ClientFails(r) PROVE IInv'
  <2> DEFINE m == [Mutation("cleanup") EXCEPT !.retryable = r, !.client = client]
  <2>1. m \in Mutations /\ m.current /\ m.kind = "cleanup"
    BY <1>40, MutationType DEF Mutation, IInv, TypeOK, LinkType
  <2>2. Append(Overtake(queue), m) \in Seq(Mutations)
    BY <2>1, OvertakeFacts, AppendFacts
  <2>3. Wanted /\ supervisor
    BY <1>40 DEF ClientFails, IInv, UnwantedIsQuiet, Supervised
  <2>4. /\ queue' \in {Append(Overtake(queue), m), OvertakeHold(Append(Overtake(queue), m))}
        /\ clientCurrent' = FALSE /\ reconnectTimer' = "none"
        /\ at' = at /\ run'.next = run.next
    BY <1>40 DEF ClientFails, SuspendTunnel, Locals
  <2>5. Wanted' /\ supervisor'
    BY <1>40, <2>3 DEF ClientFails, Wanted, intent
  <2>6. Keeps(Append(Overtake(queue), m), queue')
    BY <2>2, <2>4, KeepsFacts
  <2> HIDE DEF m
  <2>7. QED
    BY <2>1, <2>4, <2>5, <2>6, IsOvertaken DEF Lifecycle
<1>41. CASE UpdateRouting
  <2>1. queue' = Append(OvertakeRouting(queue), Mutation("routing"))
    BY <1>41 DEF UpdateRouting
  <2>2. Keeps(queue, queue')
    BY <2>1, KeepsFacts
  <2>3. QED
    BY <1>41, <2>2, Beside DEF UpdateRouting, link, retry
<1>42. CASE HoldTimerFires
  <2>1. queue' \in {queue, Append(queue, Mutation("holdStop"))}
    BY <1>42 DEF HoldTimerFires
  <2>2. Keeps(queue, queue')
    BY <2>1, KeepsFacts
  <2>3. QED
    BY <1>42, <2>2, Beside DEF HoldTimerFires, link, retry
<1>43. CASE HelperDies
  <2>1. queue' \in {queue, Append(queue, Mutation("reapply"))}
    BY <1>43 DEF HelperDies
  <2>2. Keeps(queue, queue')
    BY <2>1, KeepsFacts
  <2>3. QED
    BY <1>43, <2>2, Beside DEF HelperDies, link, retry
<1>44. ASSUME NEW w \in Conns, Park(w) PROVE IInv'
  <2>1. Keeps(queue, queue')
    BY <1>44, KeepsFacts DEF Park, exec
  <2>2. QED
    BY <1>44, <2>1, Beside DEF Park, link, retry, exec
<1>45. ASSUME NEW w \in Conns, Unpark(w) PROVE IInv'
  <2>1. Keeps(queue, queue')
    BY <1>45, KeepsFacts DEF Unpark, exec
  <2>2. QED
    BY <1>45, <2>1, Beside DEF Unpark, link, retry, exec
<1>46. CASE UNCHANGED vars
  <2>1. Keeps(queue, queue')
    BY <1>46, KeepsFacts DEF vars, exec
  <2>2. QED
    BY <1>46, <2>1, Beside DEF vars, link, retry, exec
<1>47. QED
  BY <1>1, <1>2, <1>3, <1>4, <1>5, <1>6, <1>7, <1>8, <1>9, <1>10, <1>11,
     <1>12, <1>13, <1>14, <1>15, <1>16, <1>17, <1>18, <1>19, <1>20,
     <1>21, <1>22, <1>23, <1>24, <1>25, <1>26, <1>27, <1>28, <1>29,
     <1>30, <1>31, <1>32, <1>33, <1>34, <1>35, <1>36, <1>37, <1>38,
     <1>39, <1>40, <1>41, <1>42, <1>43, <1>44, <1>45, <1>46
     DEF Next, QueueStep, UserStep, Event

LEMMA InvInit == Init => IInv
<1>1. Init => OneAttempt
  BY DEF Init, OneAttempt, RunsItsProgram, Continuation, SessionInHand, ApplyPoints
<1>2. Init => Supervised /\ UnwantedIsQuiet
  BY DEF Init, Supervised, UnwantedIsQuiet, Wanted, Pending
<1>3. QED
  BY <1>1, <1>2, TypeInit DEF IInv

(* The invariant holds in every state of every behaviour. *)
LEMMA InvHolds == Spec => []IInv
  BY InvInit, InvStep, PTL DEF Spec

(* The reconnect loop never strands a session the user wants: a client is heard,
   or the timer is armed, or an attempt is queued, whatever connects, drops,
   disconnects and failures came before.  checkSupervisorInvariant never finds
   anything to repair. *)
THEOREM LoopIsSupervised == Spec => []Supervised
  BY InvHolds, PTL DEF IInv

(* After disconnect(), dispose() or a halt nothing that is still in flight can
   bring the session back: no timer, no queued attempt and no client's event. *)
THEOREM EndedStaysEnded == Spec => []UnwantedIsQuiet
  BY InvHolds, PTL DEF IInv

(* At most one attempt or cleanup belongs to the present lifecycle, and the
   session whose events are heard is the one the attempt acquired. *)
THEOREM OneAttemptAtATime == Spec => []OneAttempt
  BY InvHolds, PTL DEF IInv

(* The three together: the reconnect loop accounts for every attempt, for any
   number of clients, connections, queued mutations and rejections. *)
THEOREM EveryAttemptIsAccounted == Spec => []AttemptsAreAccounted
<1>1. IInv => AttemptsAreAccounted
  BY DEF IInv, AttemptsAreAccounted
<1>2. QED
  BY <1>1, InvHolds, PTL

(***************************************************************************)
(* What one session holds and leaves behind.  No SSH session is lost track  *)
(* of, Connected is true, a parked connection is answered, and rejected     *)
(* credentials are not replayed, for every set of clients and connections,  *)
(* every length of the queue, every outcome of every await, with and        *)
(* without the adapter, and on machines where undoing fails or the proxy    *)
(* setting is refused.                                                      *)
(***************************************************************************)

-----------------------------------------------------------------------------
(* The inductive invariant *)

(* Only a cleanup has a client, and not the one in use; and nothing that is queued
   behind an attempt which is not overtaken closes a client or stops the routing. *)
QueueOK ==
  /\ \A i \in 1..Len(queue) :
       IF queue[i].kind = "cleanup" THEN queue[i].client \in Clients \ {client}
                                    ELSE queue[i].client = NoClient
  /\ \A i, j \in 1..Len(queue) :
       i < j /\ queue[j].kind \in {"cleanup", "stopRouting"} =>
         ~(queue[i].kind \in Lifecycle /\ queue[i].current)

(* An attempt that is yet to dial has the previous client to close at most. *)
DialOK ==
  /\ Continuation \in {"replace", "dialStart", "dial"} =>
       /\ ~clientCurrent
       /\ \A i \in 1..Len(queue) : queue[i].kind # "cleanup"
  /\ Continuation = "replace" => run.session = NoClient
  /\ Continuation \in {"dialStart", "dial"} =>
       /\ client = NoClient
       /\ open \subseteq (IF at = "close" THEN {run.session} ELSE {})

(* The session in hand is open, has its listener, and is closed at the end of a
   mutation that does not leave it in use. *)
SessionOK ==
  /\ SessionInHand => run.session \in open
  /\ Continuation \in {"established", "apply", "applied"} => socksProxy
  /\ Continuation \in {"failed", "cleaned", "done", "ended"} /\ at # "close" =>
       run.session \notin open
  /\ at = "close" => /\ ~(clientCurrent /\ client = run.session)
                     /\ Continuation \in {"dialStart", "failed", "cleaned", "done", "ended"}
  /\ Continuation = "stopListener" =>
       IF Running.kind = "stopRouting" THEN run.session = NoClient ELSE client = NoClient
  /\ Continuation = "cleaned" => run.session = Running.client
  /\ queue # <<>> /\ Running.kind = "cleanup" => Continuation \in {"idle", "cleaned"}

(* While Connected nothing is under way that takes away what serves it. *)
ConnectedOK ==
  /\ ConnectedIsServed
  /\ status = "Connected" =>
       /\ \A i \in 1..Len(queue) :
            /\ queue[i].kind # "stopRouting"
            /\ queue[i].kind = "connect" => ~queue[i].current
       /\ Continuation # "stopListener"

(* A stop of the routing is not done before the listener is gone. *)
ParkedOK ==
  /\ ParkedIsAnswered
  /\ queue # <<>> /\ Running.kind = "stopRouting" =>
       Continuation \in {"idle", "stopListener"} \/ (at = "done" /\ ~socksProxy)

(* What is said of the queue, the clients and the listener *)
Held == QueueOK /\ DialOK /\ SessionOK /\ NoLeakedSession /\ ConnectedOK /\ ParkedOK

SessionInv == IInv /\ Held

-----------------------------------------------------------------------------
(* How a step changes the queue *)

(* n is the mutation o, overtaken or not; a plain stop is never overtaken. *)
Same(n, o) ==
  /\ n.kind = o.kind /\ n.client = o.client
  /\ n.current => o.current
  /\ o.kind = "stopRouting" => n.current = o.current

(* p has the mutations of q, but for the first d of them. *)
Moved(q, p, d) ==
  /\ q \in Seq(Mutations) /\ p \in Seq(Mutations)
  /\ Len(q) \in Nat /\ Len(p) \in Nat /\ Len(q) >= d /\ Len(p) >= Len(q) - d
  /\ \A i \in 1..(Len(q) - d) : Same(p[i], q[i + d])

(* They are all it has, or it has m behind them. *)
Left(q, p, d)      == Moved(q, p, d) /\ Len(p) = Len(q) - d
Joined(q, p, d, m) == /\ Moved(q, p, d) /\ Len(p) = Len(q) - d + 1
                      /\ Same(p[Len(p)], m) /\ p[Len(p)].current = m.current

LEMMA OvertakesLeave ==
  ASSUME NEW q \in Seq(Mutations)
  PROVE  /\ Left(q, q, 0)
         /\ Left(q, Overtake(q), 0)
         /\ Left(q, OvertakeHold(q), 0)
         /\ Left(q, OvertakeRouting(q), 0)
<1>1. Len(q) \in Nat /\ \A i \in 1..Len(q) : q[i] \in Mutations
  BY ElementOfSeq, LenProperties
<1>2. Left(q, q, 0)
  BY <1>1 DEF Left, Moved, Same
<1>3. Left(q, Overtake(q), 0)
  <2>1. Overtake(q) \in Seq(Mutations) /\ Len(Overtake(q)) = Len(q)
    BY OvertakeFacts
  <2>2. \A i \in 1..Len(q) : Same(Overtake(q)[i], q[i])
    BY <1>1 DEF Same, Overtake, Mutations
  <2>3. QED
    BY <1>1, <2>1, <2>2 DEF Left, Moved
<1>4. Left(q, OvertakeHold(q), 0)
  <2>1. OvertakeHold(q) \in Seq(Mutations) /\ Len(OvertakeHold(q)) = Len(q)
    BY OvertakeHoldFacts
  <2>2. \A i \in 1..Len(q) : Same(OvertakeHold(q)[i], q[i])
    BY <1>1 DEF Same, OvertakeHold, Mutations
  <2>3. QED
    BY <1>1, <2>1, <2>2 DEF Left, Moved
<1>5. Left(q, OvertakeRouting(q), 0)
  <2>1. OvertakeRouting(q) \in Seq(Mutations) /\ Len(OvertakeRouting(q)) = Len(q)
    BY OvertakeRoutingFacts
  <2>2. \A i \in 1..Len(q) : Same(OvertakeRouting(q)[i], q[i])
    BY <1>1 DEF Same, OvertakeRouting, Mutations
  <2>3. QED
    BY <1>1, <2>1, <2>2 DEF Left, Moved
<1>6. QED
  BY <1>2, <1>3, <1>4, <1>5

LEMMA TailLeaves ==
  ASSUME NEW q \in Seq(Mutations), q # <<>>
  PROVE  Left(q, Tail(q), 1)
  BY TailFacts DEF Left, Moved, Same

LEMMA AppendJoins ==
  ASSUME NEW q, NEW p, NEW d \in 0..1, Left(q, p, d), NEW m \in Mutations
  PROVE  Joined(q, Append(p, m), d, m)
<1>1. p \in Seq(Mutations) /\ Len(p) = Len(q) - d /\ Len(q) \in Nat
  BY DEF Left, Moved
<1>2. /\ Append(p, m) \in Seq(Mutations) /\ Len(Append(p, m)) = Len(p) + 1
      /\ \A i \in 1..Len(p) : Append(p, m)[i] = p[i]
      /\ Append(p, m)[Len(p) + 1] = m
  BY <1>1, AppendFacts
<1>3. QED
  BY <1>1, <1>2 DEF Left, Joined, Moved, Same

(* What is left, or joined, is overtaken. *)
LEMMA LeftOfLeft ==
  ASSUME NEW q, NEW p, NEW r, NEW d \in 0..1, Left(q, p, d), Left(p, r, 0)
  PROVE  Left(q, r, d)
  BY DEF Left, Moved, Same

LEMMA LeftOfJoined ==
  ASSUME NEW q, NEW p, NEW d \in 0..1, NEW m \in Mutations, m.kind # "holdStop",
         Joined(q, p, d, m)
  PROVE  Joined(q, OvertakeHold(p), d, m)
<1>1. p \in Seq(Mutations) /\ Len(p) \in 1..(Len(q) + 1) /\ Len(q) \in Nat
  BY DEF Joined, Moved
<1>2. Left(p, OvertakeHold(p), 0)
  BY <1>1, OvertakesLeave
<1>3. OvertakeHold(p)[Len(p)] = p[Len(p)]
  BY <1>1, OvertakeHoldFacts DEF Joined, Same
<1> DEFINE r == OvertakeHold(p)
<1> HIDE DEF r
<1>4. /\ r \in Seq(Mutations) /\ Len(r) = Len(p)
      /\ \A i \in 1..Len(p) : Same(r[i], p[i])
  BY <1>1, <1>2 DEF r, Left, Moved
<1>5. Moved(q, r, d)
  <2>1. Moved(q, p, d) /\ Len(p) = Len(q) - d + 1 /\ Len(p) \in Nat
    BY DEF Joined, Moved
  <2>2. ASSUME NEW i \in 1..(Len(q) - d) PROVE Same(r[i], q[i + d])
    <3>1. i \in 1..Len(p)
      BY <1>1, <2>1
    <3>2. Same(r[i], p[i]) /\ Same(p[i], q[i + d])
      BY <1>4, <2>1, <3>1 DEF Moved
    <3>3. QED
      BY <3>2, Zenon DEF Same
  <2>3. QED
    BY <1>4, <2>1, <2>2 DEF Moved
<1>6. QED
  BY <1>3, <1>4, <1>5 DEF r, Joined

(* The running mutation stays first where nothing leaves the queue. *)
LEMMA RunningStays ==
  ASSUME queue # <<>>, Moved(queue, queue', 0)
  PROVE  queue' # <<>> => Same(Running', Running)
  BY DEF Moved, Running

(* No mutation is ahead of a cleanup or a stop that it would have to go before. *)
LEMMA QueueLeft ==
  ASSUME QueueOK, NEW d \in 0..1, Left(queue, queue', d),
         \/ client' \in {client, NoClient}
         \/ \A i \in 1..Len(queue) : queue[i].kind # "cleanup"
  PROVE  QueueOK'
<1>1. ASSUME NEW i \in 1..Len(queue')
      PROVE  i + d \in 1..Len(queue) /\ Same(queue'[i], queue[i + d])
  BY <1>1 DEF Left, Moved
<1>2. ASSUME NEW i \in 1..Len(queue')
      PROVE  IF queue'[i].kind = "cleanup" THEN queue'[i].client \in Clients \ {client'}
                                           ELSE queue'[i].client = NoClient
  <2>1. i + d \in 1..Len(queue) /\ Same(queue'[i], queue[i + d])
    BY <1>1
  <2>2. IF queue[i + d].kind = "cleanup" THEN queue[i + d].client \in Clients \ {client}
                                         ELSE queue[i + d].client = NoClient
    BY <2>1 DEF QueueOK
  <2>3. QED
    BY <2>1, <2>2, LiveSshAssumption DEF Same
<1>3. ASSUME NEW i \in 1..Len(queue'), NEW j \in 1..Len(queue'), i < j,
             queue'[j].kind \in {"cleanup", "stopRouting"}
      PROVE  ~(queue'[i].kind \in Lifecycle /\ queue'[i].current)
  <2>1. /\ i + d \in 1..Len(queue) /\ Same(queue'[i], queue[i + d])
        /\ j + d \in 1..Len(queue) /\ Same(queue'[j], queue[j + d]) /\ i + d < j + d
    BY <1>1, <1>3
  <2>2. ~(queue[i + d].kind \in Lifecycle /\ queue[i + d].current)
    BY <1>3, <2>1 DEF QueueOK, Same
  <2>3. QED
    BY <2>1, <2>2 DEF Same
<1>4. QED
  BY <1>2, <1>3 DEF QueueOK

LEMMA QueueJoined ==
  ASSUME QueueOK, NEW d \in 0..1, NEW m \in Mutations, Joined(queue, queue', d, m),
         client' \in {client, NoClient},
         IF m.kind = "cleanup" THEN m.client \in Clients \ {client'} ELSE m.client = NoClient,
         m.kind \in {"cleanup", "stopRouting"} =>
           \A i \in 1..(Len(queue) - d) : ~(queue'[i].kind \in Lifecycle /\ queue'[i].current)
  PROVE  QueueOK'
<1> DEFINE n == Len(queue) - d
<1>1. /\ n \in Nat /\ Len(queue') = n + 1
      /\ Same(queue'[n + 1], m)
      /\ \A i \in 1..n : i + d \in 1..Len(queue) /\ Same(queue'[i], queue[i + d])
  BY DEF Joined, Moved
<1>2. ASSUME NEW i \in 1..Len(queue')
      PROVE  IF queue'[i].kind = "cleanup" THEN queue'[i].client \in Clients \ {client'}
                                           ELSE queue'[i].client = NoClient
  <2>1. CASE i \in 1..n
    BY <1>1, <2>1, LiveSshAssumption DEF QueueOK, Same
  <2>2. CASE i = n + 1
    BY <1>1, <2>2 DEF Same
  <2>3. QED
    BY <1>1, <2>1, <2>2
<1>3. ASSUME NEW i \in 1..Len(queue'), NEW j \in 1..Len(queue'), i < j,
             queue'[j].kind \in {"cleanup", "stopRouting"}
      PROVE  ~(queue'[i].kind \in Lifecycle /\ queue'[i].current)
  <2>1. CASE j \in 1..n
    <3>1. /\ i + d \in 1..Len(queue) /\ Same(queue'[i], queue[i + d])
          /\ j + d \in 1..Len(queue) /\ Same(queue'[j], queue[j + d]) /\ i + d < j + d
      BY <1>1, <1>3, <2>1
    <3>2. ~(queue[i + d].kind \in Lifecycle /\ queue[i + d].current)
      BY <1>3, <3>1 DEF QueueOK, Same
    <3>3. QED
      BY <3>1, <3>2 DEF Same
  <2>2. CASE j = n + 1
    BY <1>1, <1>3, <2>2 DEF Same
  <2>3. QED
    BY <1>1, <2>1, <2>2
<1>4. QED
  BY <1>2, <1>3 DEF QueueOK

(* A client that waits for its cleanup, and a stop that is queued, are not
   forgotten unless they were first. *)
LEMMA QueueRemembers ==
  ASSUME NEW d \in 0..1, Moved(queue, queue', d)
  PROVE  /\ \A c : (\E i \in 1..Len(queue) : queue[i].client = c) =>
              \/ \E i \in 1..Len(queue') : queue'[i].client = c
              \/ d = 1 /\ Running.client = c
         /\ Pending({"stopRouting"}) =>
              Pending({"stopRouting"})' \/ (d = 1 /\ Running.kind = "stopRouting")
<1>1. ASSUME NEW i \in 1..Len(queue)
      PROVE  \/ i - d \in 1..Len(queue') /\ Same(queue'[i - d], queue[i])
             \/ d = 1 /\ Running = queue[i]
  <2>1. CASE i > d
    <3>1. i - d \in 1..(Len(queue) - d) /\ (i - d) + d = i
      BY <2>1 DEF Moved
    <3>2. Same(queue'[i - d], queue[(i - d) + d])
      BY <3>1 DEF Moved
    <3>3. QED
      BY <3>1, <3>2 DEF Moved
  <2>2. CASE ~(i > d)
    BY <2>2 DEF Moved, Running
  <2>3. QED
    BY <2>1, <2>2
<1>2. ASSUME NEW c, NEW i \in 1..Len(queue), queue[i].client = c
      PROVE  \/ \E j \in 1..Len(queue') : queue'[j].client = c
             \/ d = 1 /\ Running.client = c
  BY <1>1, <1>2 DEF Same
<1>3. ASSUME NEW i \in 1..Len(queue), queue[i].kind = "stopRouting", queue[i].current
      PROVE  Pending({"stopRouting"})' \/ (d = 1 /\ Running.kind = "stopRouting")
  BY <1>1, <1>3 DEF Same, Pending
<1>4. QED
  BY <1>2, <1>3 DEF Pending

LEMMA ClientsAreRemembered ==
  ASSUME Left(queue, queue', 0), NEW c, \E i \in 1..Len(queue) : queue[i].client = c
  PROVE  \E i \in 1..Len(queue') : queue'[i].client = c
<1>1. Moved(queue, queue', 0)
  BY DEF Left
<1>2. QED
  BY <1>1, QueueRemembers

(* A stop that joins the queue is queued. *)
LEMMA StopIsPending ==
  ASSUME NEW d \in 0..1, Joined(queue, queue', d, Mutation("stopRouting"))
  PROVE  Pending({"stopRouting"})'
<1>1. Len(queue') \in 1..Len(queue')
  BY DEF Joined, Moved
<1>2. queue'[Len(queue')].kind = "stopRouting" /\ queue'[Len(queue')].current
  BY DEF Joined, Same, Mutation
<1>3. QED
  BY <1>1, <1>2 DEF Pending

-----------------------------------------------------------------------------
(* The ways in which a step treats the running mutation *)

(* It goes from one await to the next of the same call. *)
LEMMA GoesOnWithin ==
  ASSUME SessionInv, queue # <<>>, at \notin {"idle", "close", "done"},
         at' \notin {"idle", "close"},
         UNCHANGED <<queue, status, intent, client, clientCurrent, open,
                     systemRoutingApplied, local>>,
         run'.next = run.next, run'.session = run.session, Continuation' = Continuation
  PROVE  Held'
<1> USE DEF SessionInv, Held
<1>1. /\ Running' = Running /\ (SessionInHand' <=> SessionInHand) /\ Wanted' = Wanted
      /\ UNCHANGED <<lastRequest, disconnectRequested, reconnectHalted, disposed,
                     socksProxy, waiters>>
  BY DEF Running, SessionInHand, Wanted, intent, local
<1>2. QueueOK'
  BY DEF QueueOK
<1>3. DialOK'
  BY <1>1 DEF DialOK
<1>4. SessionOK'
  BY <1>1 DEF SessionOK
<1>5. NoLeakedSession'
  BY DEF NoLeakedSession, DialOK, Continuation, ApplyPoints
<1>6. ConnectedOK'
  BY <1>1 DEF ConnectedOK, ConnectedIsServed
<1>7. ParkedOK'
  BY <1>1 DEF ParkedOK, ParkedIsAnswered, Pending
<1>8. QED
  BY <1>2, <1>3, <1>4, <1>5, <1>6, <1>7

(* It settles.  Its session is closed or in use, and of a stop that it was the
   listener is gone. *)
LEMMA SettlesWithin ==
  ASSUME SessionInv, TypeOK', queue # <<>>, at' = "idle",
         \/ Left(queue, queue', 1)
         \/ /\ Joined(queue, queue', 1, Mutation("stopRouting"))
            /\ Running.kind \in Lifecycle /\ IsCurrent /\ status' # "Connected",
         UNCHANGED <<client, clientCurrent, open, local, systemRoutingApplied>>,
         \A c \in open : (at # "idle" /\ c = run.session) \/ c = Running.client => c = client,
         Running.kind = "stopRouting" /\ IsCurrent => waiters = {},
         status' = status \/ status' # "Connected",
         Wanted' \/ disconnectRequested' \/ ~(Wanted \/ disconnectRequested)
           \/ Pending({"stopRouting"})'
  PROVE  Held'
<1> USE DEF SessionInv, Held
<1>1. Continuation' = "idle" /\ ~SessionInHand'
  BY DEF Continuation, SessionInHand, ApplyPoints
<1>2. Moved(queue, queue', 1)
  BY DEF Left, Joined
<1>3. QueueOK'
  <2>1. CASE Left(queue, queue', 1)
    BY <2>1, QueueLeft
  <2>2. CASE /\ Joined(queue, queue', 1, Mutation("stopRouting"))
             /\ Running.kind \in Lifecycle /\ IsCurrent
    <3>1. \A i \in 1..(Len(queue) - 1) : ~(queue'[i].kind \in Lifecycle /\ queue'[i].current)
      <4>1. ASSUME NEW i \in 1..(Len(queue) - 1), queue'[i].kind \in Lifecycle, queue'[i].current
            PROVE  FALSE
        <5>1. Same(queue'[i], queue[i + 1]) /\ i + 1 \in 1..Len(queue) /\ 1 \in 1..Len(queue)
          BY <1>2 DEF Moved
        <5>2. queue[i + 1].kind \in Lifecycle /\ queue[i + 1].current /\ i + 1 # 1
          BY <4>1, <5>1 DEF Same
        <5>3. queue[1].kind \in Lifecycle /\ queue[1].current
          BY <2>2 DEF Running, IsCurrent
        <5>4. QED
          BY <5>1, <5>2, <5>3 DEF IInv, OneAttempt
      <4>2. QED
        BY <4>1
    <3>2. /\ Mutation("stopRouting") \in Mutations
          /\ Mutation("stopRouting").kind = "stopRouting"
          /\ Mutation("stopRouting").client = NoClient
      BY MutationType DEF Mutation, Kinds
    <3>3. QED
      BY <2>2, <3>1, <3>2, QueueJoined
  <2>3. QED
    BY <2>1, <2>2
<1>4. DialOK' /\ SessionOK'
  BY <1>1 DEF DialOK, SessionOK
<1>5. NoLeakedSession'
  BY <1>2, QueueRemembers DEF NoLeakedSession
<1>6. ConnectedOK'
  <2>1. CASE status' # "Connected"
    BY <2>1 DEF ConnectedOK, ConnectedIsServed
  <2>2. CASE status' = status /\ Left(queue, queue', 1)
    <3>1. \A i \in 1..Len(queue') : i + 1 \in 1..Len(queue) /\ Same(queue'[i], queue[i + 1])
      BY <2>2 DEF Left, Moved
    <3>2. status = "Connected" =>
            \A i \in 1..Len(queue') : /\ queue'[i].kind # "stopRouting"
                                      /\ queue'[i].kind = "connect" => ~queue'[i].current
      BY <3>1 DEF ConnectedOK, Same
    <3>3. QED
      BY <1>1, <2>2, <3>2 DEF ConnectedOK, ConnectedIsServed, local
  <2>3. QED
    BY <2>1, <2>2
<1>7. ParkedOK'
  <2>1. Pending({"stopRouting"}) => Pending({"stopRouting"})' \/ waiters = {}
    <3>1. ASSUME Pending({"stopRouting"}), ~Pending({"stopRouting"})'
          PROVE  Running.kind = "stopRouting" /\ IsCurrent
      <4>1. PICK i \in 1..Len(queue) : queue[i].kind = "stopRouting" /\ queue[i].current
        BY <3>1 DEF Pending
      <4>2. i = 1
        <5>1. ASSUME i # 1 PROVE FALSE
          <6>1. i - 1 \in 1..(Len(queue) - 1) /\ (i - 1) + 1 = i
            BY <1>2, <5>1 DEF Moved
          <6>2. Same(queue'[i - 1], queue[(i - 1) + 1]) /\ i - 1 \in 1..Len(queue')
            BY <1>2, <6>1 DEF Moved
          <6>3. QED
            BY <3>1, <4>1, <6>1, <6>2 DEF Pending, Same
        <5>2. QED
          BY <5>1
      <4>3. QED
        BY <4>1, <4>2 DEF Running, IsCurrent
    <3>2. QED
      BY <3>1
  <2>2. ParkedIsAnswered'
    BY <2>1 DEF ParkedOK, ParkedIsAnswered, local
  <2>3. QED
    BY <1>1, <2>2 DEF ParkedOK
<1>8. QED
  BY <1>3, <1>4, <1>5, <1>6, <1>7

(* Another handler runs beside it, overtakes it or not, and may add m behind. *)
LEMMA HappensBeside ==
  ASSUME SessionInv, TypeOK', UNCHANGED <<at, open, local, systemRoutingApplied>>,
         run'.next = run.next, run'.session = run.session,
         NEW m \in Mutations, Left(queue, queue', 0) \/ Joined(queue, queue', 0, m),
         \/ client' = client /\ m.kind # "cleanup" /\ m.client = NoClient
         \/ /\ client' = NoClient /\ clientCurrent /\ client \in Clients
            /\ m.kind = "cleanup" /\ m.client = client /\ Joined(queue, queue', 0, m),
         m.kind \in {"cleanup", "stopRouting"} =>
           \A i \in 1..Len(queue) : ~(queue'[i].kind \in Lifecycle /\ queue'[i].current),
         clientCurrent' => clientCurrent /\ client' = client,
         status' = "Connected" =>
           /\ status = "Connected" /\ client' = client /\ clientCurrent' = clientCurrent
           /\ m.kind \notin {"connect", "stopRouting"},
         Wanted' \/ disconnectRequested' \/ ~(Wanted \/ disconnectRequested)
  PROVE  Held'
<1> USE DEF SessionInv, Held
<1>1. Moved(queue, queue', 0) /\ Continuation' = Continuation /\ (SessionInHand' <=> SessionInHand)
  BY DEF Left, Joined, Continuation, SessionInHand
<1>2. at = "idle" \/ (queue # <<>> /\ queue' # <<>>)
  BY <1>1, EmptySeq DEF Moved, IInv, OneAttempt, RunsItsProgram
<1>3. queue # <<>> => queue' # <<>> /\ Same(Running', Running)
  BY <1>1, RunningStays, EmptySeq DEF Moved
<1>4. QueueOK'
  <2>1. CASE Left(queue, queue', 0)
    BY <2>1, QueueLeft
  <2>2. CASE Joined(queue, queue', 0, m)
    <3>1. IF m.kind = "cleanup" THEN m.client \in Clients \ {client'} ELSE m.client = NoClient
      BY LiveSshAssumption
    <3>2. m.kind \in {"cleanup", "stopRouting"} =>
            \A i \in 1..(Len(queue) - 0) : ~(queue'[i].kind \in Lifecycle /\ queue'[i].current)
      BY <1>1 DEF Moved
    <3>3. client' \in {client, NoClient}
      OBVIOUS
    <3>4. QED
      BY <2>2, <3>1, <3>2, <3>3, QueueJoined
  <2>3. QED
    BY <2>1, <2>2
<1>5. DialOK'
  <2>1. CASE Continuation \notin {"replace", "dialStart", "dial"}
    BY <1>1, <2>1 DEF DialOK
  <2>2. CASE Continuation \in {"replace", "dialStart", "dial"}
    <3>1. ~clientCurrent /\ m.kind # "cleanup" /\ client' = client
      BY <2>2 DEF DialOK
    <3>2. ASSUME NEW i \in 1..Len(queue') PROVE queue'[i].kind # "cleanup"
      <4>1. CASE i \in 1..Len(queue)
        BY <1>1, <2>2, <4>1 DEF Moved, Same, DialOK
      <4>2. CASE i \notin 1..Len(queue)
        BY <3>1, <4>2 DEF Left, Joined, Moved, Same
      <4>3. QED
        BY <4>1, <4>2
    <3>3. QED
      BY <1>1, <2>2, <3>1, <3>2 DEF DialOK
  <2>3. QED
    BY <2>1, <2>2
<1>6. SessionOK'
  <2>1. Continuation = "cleaned" => run'.session = Running'.client
    BY <1>2, <1>3 DEF SessionOK, Same, Continuation, ApplyPoints
  <2>2. at = "close" => ~(clientCurrent' /\ client' = run'.session)
    BY DEF SessionOK
  <2>3. queue' # <<>> /\ Running'.kind = "cleanup" => Continuation' \in {"idle", "cleaned"}
    BY <1>1, <1>2, <1>3 DEF SessionOK, Same, Continuation, ApplyPoints
  <2>4. Continuation' = "stopListener" =>
          IF Running'.kind = "stopRouting" THEN run'.session = NoClient ELSE client' = NoClient
    BY <1>1, <1>2, <1>3 DEF SessionOK, Same, Continuation, ApplyPoints
  <2>5. QED
    BY <1>1, <2>1, <2>2, <2>3, <2>4 DEF SessionOK, local
<1>7. NoLeakedSession'
  <2>1. ASSUME NEW c \in open
        PROVE  \/ c = client'
               \/ queue' # <<>> /\ at # "idle" /\ c = run.session
               \/ \E i \in 1..Len(queue') : queue'[i].client = c
    <3>1. CASE c = client /\ client' # client
      BY <3>1 DEF Joined, Same, Moved
    <3>2. CASE c = client /\ client' = client
      BY <3>2
    <3>3. CASE queue # <<>> /\ at # "idle" /\ c = run.session
      BY <1>3, <3>3
    <3>4. CASE \E i \in 1..Len(queue) : queue[i].client = c
      <4>1. PICK i \in 1..Len(queue) : queue[i].client = c
        BY <3>4
      <4>2. i \in 1..Len(queue') /\ Same(queue'[i], queue[i])
        BY <1>1 DEF Moved
      <4>3. QED
        BY <4>1, <4>2 DEF Same
    <3>5. QED
      BY <3>1, <3>2, <3>3, <3>4 DEF NoLeakedSession
  <2>2. QED
    BY <2>1 DEF NoLeakedSession
<1>8. ConnectedOK'
  <2>1. CASE status' # "Connected"
    BY <2>1 DEF ConnectedOK, ConnectedIsServed
  <2>2. CASE status' = "Connected"
    <3>1. \A i \in 1..Len(queue') : /\ queue'[i].kind # "stopRouting"
                                    /\ queue'[i].kind = "connect" => ~queue'[i].current
      <4>1. ASSUME NEW i \in 1..Len(queue'), i \in 1..Len(queue)
            PROVE  /\ queue'[i].kind # "stopRouting"
                   /\ queue'[i].kind = "connect" => ~queue'[i].current
        BY <1>1, <2>2, <4>1 DEF Moved, Same, ConnectedOK
      <4>2. ASSUME NEW i \in 1..Len(queue'), i \notin 1..Len(queue)
            PROVE  queue'[i].kind \notin {"connect", "stopRouting"}
        BY <2>2, <4>2 DEF Left, Joined, Moved, Same
      <4>3. QED
        BY <4>1, <4>2
    <3>2. QED
      BY <1>1, <2>2, <3>1 DEF ConnectedOK, ConnectedIsServed, local
  <2>3. QED
    BY <2>1, <2>2
<1>9. ParkedOK'
  <2>1. Pending({"stopRouting"}) => Pending({"stopRouting"})'
    BY <1>1, QueueRemembers
  <2>2. ParkedIsAnswered'
    BY <2>1 DEF ParkedOK, ParkedIsAnswered, local
  <2>3. queue' # <<>> /\ Running'.kind = "stopRouting" =>
          Continuation' \in {"idle", "stopListener"} \/ (at' = "done" /\ ~socksProxy')
    BY <1>1, <1>2, <1>3 DEF ParkedOK, Same, Continuation, ApplyPoints, local
  <2>4. QED
    BY <2>2, <2>3 DEF ParkedOK
<1>10. QED
  BY <1>4, <1>5, <1>6, <1>7, <1>8, <1>9

(* It goes on elsewhere: at an await or a segment of another call.  What that means
   for the clients is for the step to say. *)
LEMMA GoesElsewhere ==
  ASSUME SessionInv, queue # <<>>, Left(queue, queue', 0), DialOK', SessionOK', NoLeakedSession',
         UNCHANGED <<status, intent, waiters>>, socksProxy => socksProxy',
         \/ client' \in {client, NoClient}
         \/ \A i \in 1..Len(queue) : queue[i].kind # "cleanup",
         status = "Connected" =>
           /\ UNCHANGED <<client, clientCurrent>> /\ systemRoutingApplied'
           /\ client \in open' /\ Continuation' # "stopListener",
         Running.kind = "stopRouting" =>
           Continuation' = "stopListener" \/ (at' = "done" /\ ~socksProxy')
  PROVE  Held'
<1> USE DEF SessionInv, Held
<1>1. Moved(queue, queue', 0) /\ queue' # <<>> /\ Same(Running', Running)
  BY RunningStays, EmptySeq DEF Left, Moved
<1>2. QueueOK'
  BY QueueLeft
<1>3. ConnectedOK'
  <2>1. status = "Connected" =>
          \A i \in 1..Len(queue') : /\ queue'[i].kind # "stopRouting"
                                    /\ queue'[i].kind = "connect" => ~queue'[i].current
    BY DEF Left, Moved, Same, ConnectedOK
  <2>2. QED
    BY <2>1 DEF ConnectedOK, ConnectedIsServed
<1>4. ParkedOK'
  <2>1. Pending({"stopRouting"}) => Pending({"stopRouting"})'
    BY <1>1, QueueRemembers
  <2>2. ParkedIsAnswered'
    BY <2>1 DEF ParkedOK, ParkedIsAnswered, Wanted, intent
  <2>3. QED
    BY <1>1, <2>2 DEF ParkedOK, Same
<1>5. QED
  BY <1>2, <1>3, <1>4

(* The running attempt and the others: what its being current rules out *)
LEMMA AttemptFacts ==
  ASSUME IInv, queue # <<>>
  PROVE  /\ Running = queue[1] /\ 1 \in 1..Len(queue) /\ Running \in Mutations
         /\ queue \in Seq(Mutations) /\ Len(queue) \in Nat
         /\ Running.kind \in Lifecycle /\ IsCurrent /\ ~SessionInHand => ~clientCurrent
         /\ Running.kind \in {"disconnect", "dispose"} /\ IsCurrent => ~clientCurrent
         /\ Running.kind \in Lifecycle /\ IsCurrent =>
              \A i \in 2..Len(queue) : ~(queue[i].kind \in Lifecycle /\ queue[i].current)
<1>1. /\ Running = queue[1] /\ 1 \in 1..Len(queue) /\ Running \in Mutations
      /\ queue \in Seq(Mutations) /\ Len(queue) \in Nat
  BY TailFacts, LenProperties DEF IInv, TypeOK, ExecType, Running
<1>2. Running.kind \in Lifecycle /\ IsCurrent /\ ~SessionInHand => ~clientCurrent
  BY <1>1 DEF IInv, OneAttempt, IsCurrent
<1>3. Running.kind \in {"disconnect", "dispose"} /\ IsCurrent => ~clientCurrent
  BY <1>1 DEF IInv, OneAttempt, IsCurrent, UnwantedIsQuiet, Wanted
<1>4. Running.kind \in Lifecycle /\ IsCurrent =>
        \A i \in 2..Len(queue) : ~(queue[i].kind \in Lifecycle /\ queue[i].current)
  BY <1>1 DEF IInv, OneAttempt, IsCurrent
<1>5. QED
  BY <1>1, <1>2, <1>3, <1>4

(* A current attempt is behind no cleanup, and no stop, and is not Connected. *)
LEMMA CurrentAttempt ==
  ASSUME SessionInv, queue # <<>>, Running.kind = "connect", IsCurrent
  PROVE  /\ \A i \in 1..Len(queue) : queue[i].kind \notin {"cleanup", "stopRouting"}
         /\ status # "Connected"
<1>1. Running = queue[1] /\ 1 \in 1..Len(queue) /\ Len(queue) \in Nat
  BY AttemptFacts DEF SessionInv
<1>2. ASSUME NEW i \in 1..Len(queue) PROVE queue[i].kind \notin {"cleanup", "stopRouting"}
  <2>1. CASE i = 1
    BY <1>1, <2>1
  <2>2. CASE i # 1
    BY <1>1, <2>2 DEF SessionInv, Held, QueueOK, Lifecycle, IsCurrent
  <2>3. QED
    BY <2>1, <2>2
<1>3. status # "Connected"
  BY <1>1 DEF SessionInv, Held, ConnectedOK, IsCurrent
<1>4. QED
  BY <1>2, <1>3

(* The attempt ends in a session that is Connected. *)
LEMMA BecomesConnected ==
  ASSUME SessionInv, TypeOK', queue # <<>>, at \in {"established", "applied"}, ~Superseded,
         BecomeConnected, UNCHANGED <<intent, link>>
  PROVE  Held'
<1> USE DEF SessionInv, Held
<1>1. /\ SessionInHand /\ Continuation = at /\ IsCurrent /\ client = run.session
      /\ Running.kind = "connect"
  BY DEF Superseded, SessionInHand, Continuation, ApplyPoints, IInv, OneAttempt, RunsItsProgram
<1>2. clientCurrent /\ client \in open /\ socksProxy
  BY <1>1 DEF IInv, OneAttempt, SessionOK
<1>3. \A i \in 1..Len(queue) : queue[i].kind \notin {"cleanup", "stopRouting"}
  BY <1>1, CurrentAttempt
<1>4. \A i \in 2..Len(queue) : ~(queue[i].kind \in Lifecycle /\ queue[i].current)
  BY <1>1, AttemptFacts DEF Lifecycle
<1>5. Left(queue, queue', 1)
  <2>1. queue \in Seq(Mutations)
    BY AttemptFacts
  <2>2. Left(queue, Tail(queue), 1) /\ Left(Tail(queue), OvertakeHold(Tail(queue)), 0)
    BY <2>1, TailLeaves, TailFacts, OvertakesLeave
  <2>3. QED
    BY <2>2, LeftOfLeft DEF BecomeConnected
<1>6. \A i \in 1..Len(queue') : i + 1 \in 2..Len(queue) /\ Same(queue'[i], queue[i + 1])
  BY <1>5 DEF Left, Moved
<1>7. at' = "idle" /\ Continuation' = "idle" /\ ~SessionInHand'
  BY DEF BecomeConnected, Continuation, SessionInHand, ApplyPoints
<1>8. QueueOK'
  BY <1>5, QueueLeft DEF link
<1>9. DialOK' /\ SessionOK'
  BY <1>7 DEF DialOK, SessionOK
<1>10. NoLeakedSession'
  <2>1. Running.client = NoClient
    BY <1>1, AttemptFacts DEF QueueOK
  <2>2. \A c \in open : c # NoClient
    BY LiveSshAssumption DEF IInv, TypeOK, LinkType
  <2>3. ASSUME NEW c \in open, \E i \in 1..Len(queue) : queue[i].client = c
        PROVE  \E i \in 1..Len(queue') : queue'[i].client = c
    <3>1. Moved(queue, queue', 1)
      BY <1>5 DEF Left
    <3>2. QED
      BY <2>1, <2>2, <2>3, <3>1, QueueRemembers
  <2>4. QED
    BY <1>1, <1>7, <2>3 DEF NoLeakedSession, link
<1>11. ConnectedOK'
  <2>1. ConnectedIsServed'
    BY <1>2 DEF ConnectedIsServed, BecomeConnected, link
  <2>2. \A i \in 1..Len(queue') : /\ queue'[i].kind # "stopRouting"
                                  /\ queue'[i].kind = "connect" => ~queue'[i].current
    BY <1>3, <1>4, <1>6 DEF Same, Lifecycle
  <2>3. QED
    BY <1>7, <2>1, <2>2 DEF ConnectedOK
<1>12. ParkedOK'
  BY <1>7 DEF ParkedOK, ParkedIsAnswered, BecomeConnected
<1>13. QED
  BY <1>8, <1>9, <1>10, <1>11, <1>12

-----------------------------------------------------------------------------
(* Every step keeps it *)

(* The segments are no awaits. *)
LEMMA NextIsSegment ==
  ASSUME TypeOK
  PROVE  /\ run \in Locals /\ run.next \in Segments /\ queue \in Seq(Mutations)
         /\ run.next \notin Awaits \cup {"idle", "proxy"}
         /\ open \subseteq Clients /\ NoClient \notin open
  BY LiveSshAssumption DEF TypeOK, ExecType, LinkType, Locals, Segments, Awaits

(* The awaits of stopSystemRouting and applySystemRouting *)
LEMMA RoutingStep ==
  ASSUME SessionInv,
         \/ FinishStop \/ Probe \/ TunStartOk \/ TunStartFail \/ TunRestore \/ TunStop
         \/ Proxy \/ ProxyApplyOk
  PROVE  Held'
<1>1. /\ run \in Locals /\ run.next \in Segments
      /\ run.next \notin Awaits \cup {"idle", "proxy"}
  BY NextIsSegment DEF SessionInv, IInv
<1>2. CASE FinishStop
  <2>1. At("stop") /\ UNCHANGED <<queue, run>> /\ at' = run.next
    BY <1>2 DEF FinishStop, GoTo
  <2>2. QED
    BY <1>1, <1>2, <2>1, GoesOnWithin
       DEF FinishStop, At, link, Segments, Awaits, Continuation, ApplyPoints
<1>3. CASE TunRestore
  <2>1. At("tunRestore") /\ UNCHANGED <<queue, run>> /\ at' = run.next
    BY <1>3 DEF TunRestore, GoTo
  <2>2. QED
    BY <1>1, <1>3, <2>1, GoesOnWithin
       DEF TunRestore, At, link, Segments, Awaits, Continuation, ApplyPoints
<1>4. CASE ProxyApplyOk
  <2>1. At("proxyApply") /\ UNCHANGED <<queue, run>> /\ at' = run.next
    BY <1>4 DEF ProxyApplyOk, GoTo
  <2>2. QED
    BY <1>1, <1>4, <2>1, GoesOnWithin
       DEF ProxyApplyOk, At, link, Segments, Awaits, Continuation, ApplyPoints
<1>5. CASE TunStartOk
  <2>1. At("tunStart") /\ UNCHANGED <<queue, run>> /\ at' = "tunRestore"
    BY <1>5 DEF TunStartOk, GoTo
  <2>2. QED
    BY <1>1, <1>5, <2>1, GoesOnWithin
       DEF TunStartOk, At, link, Segments, Awaits, Continuation, ApplyPoints
<1>6. CASE TunStop
  <2>1. At("tunStop") /\ UNCHANGED <<queue, run>> /\ at' = "proxy"
    BY <1>6 DEF TunStop, GoTo
  <2>2. QED
    BY <1>1, <1>6, <2>1, GoesOnWithin
       DEF TunStop, At, link, Segments, Awaits, Continuation, ApplyPoints
<1>7. CASE Proxy
  <2>1. At("proxy") /\ UNCHANGED <<queue, run>> /\ at' \in {"proxyApply", run.next}
    BY <1>7 DEF Proxy, GoTo
  <2>2. QED
    BY <1>1, <1>7, <2>1, GoesOnWithin
       DEF Proxy, At, link, routing, Segments, Awaits, Continuation, ApplyPoints
<1>8. CASE Probe
  <2>1. /\ At("probe") /\ at' \in {"proxy", "tunStop", "tunStart"} /\ queue' = queue
        /\ run'.next = run.next /\ run'.session = run.session
    BY <1>1, <1>8, TunStopMoves DEF Probe, GoTo
  <2>2. QED
    BY <1>1, <1>8, <2>1, GoesOnWithin DEF Probe, At, link, Continuation, ApplyPoints
<1>9. CASE TunStartFail
  <2>1. /\ At("tunStart") /\ at' \in {"proxy", "tunStop"} /\ queue' = queue
        /\ run'.next = run.next /\ run'.session = run.session
    BY <1>1, <1>9, TunStopMoves DEF TunStartFail, GoTo
  <2>2. QED
    BY <1>1, <1>9, <2>1, GoesOnWithin DEF TunStartFail, At, link, Continuation, ApplyPoints
<1>10. QED
  BY <1>2, <1>3, <1>4, <1>5, <1>6, <1>7, <1>8, <1>9

(* The mutations that settle *)
LEMMA SettleStep ==
  ASSUME SessionInv, TypeOK',
         \/ SkipOvertaken \/ Done \/ Ended
         \/ (Replace \/ DialStart) /\ ~IsCurrent
         \/ ProxyApplyFail /\ Running.kind # "connect"
         \/ (RoutingUpdate \/ Reapply \/ HoldStop) /\ Finish
         \/ Failed \/ Cleaned
  PROVE  Held'
<1> USE DEF SessionInv, Held
<1>1. queue # <<>>
  BY DEF SkipOvertaken, Done, Ended, Replace, DialStart, ProxyApplyFail, RoutingUpdate, Reapply,
         HoldStop, Failed, Cleaned, Begins, At
<1>2. /\ queue \in Seq(Mutations) /\ NoClient \notin open /\ Left(queue, Tail(queue), 1)
      /\ Tail(queue) \in Seq(Mutations)
      /\ Running.kind # "cleanup" => Running.client = NoClient
  BY <1>1, NextIsSegment, TailLeaves, TailFacts, AttemptFacts DEF IInv, QueueOK
<1>3. RunsItsProgram
  BY DEF IInv, OneAttempt
<1>4. ASSUME Finish, Running.kind # "cleanup", at # "idle" => run.session \notin open,
             Running.kind = "stopRouting" /\ IsCurrent => waiters = {},
             UNCHANGED <<intent, link, local, systemRoutingApplied>>,
             status' = status \/ status' = "Disconnected"
      PROVE  Held'
  <2>1. Left(queue, queue', 1) /\ at' = "idle"
    BY <1>2, <1>4 DEF Finish
  <2>2. Wanted' = Wanted /\ disconnectRequested' = disconnectRequested
    BY <1>4 DEF Wanted, intent
  <2>3. QED
    BY <1>1, <1>2, <1>4, <2>1, <2>2, SettlesWithin DEF link
<1>5. CASE SkipOvertaken
  BY <1>4, <1>5 DEF SkipOvertaken, At, routing
<1>6. CASE Done
  <2>1. at = "done" /\ Continuation = "done"
    BY <1>6 DEF Done, At, Continuation, ApplyPoints
  <2>2. Running.kind # "cleanup" /\ run.session \notin open
    BY <1>1, <2>1 DEF SessionOK
  <2>3. Running.kind = "stopRouting" => waiters = {}
    BY <1>1, <2>1 DEF ParkedOK, ParkedIsAnswered
  <2>4. QED
    BY <1>4, <1>6, <2>2, <2>3 DEF Done, routing
<1>7. CASE Ended
  <2>1. at = "ended" /\ Continuation = "ended"
    BY <1>7 DEF Ended, At, Continuation, ApplyPoints
  <2>2. Running.kind \notin {"cleanup", "stopRouting"} /\ run.session \notin open
    BY <1>1, <2>1 DEF SessionOK, ParkedOK
  <2>3. QED
    BY <1>4, <1>7, <2>2 DEF Ended
<1>8. CASE Replace /\ ~IsCurrent
  <2>1. at = "replace" /\ Continuation = "replace"
    BY <1>8 DEF Replace, At, Continuation, ApplyPoints
  <2>2. Running.kind = "connect" /\ run.session \notin open
    BY <1>2, <1>3, <2>1 DEF DialOK, RunsItsProgram
  <2>3. QED
    BY <1>4, <1>8, <2>2 DEF Replace, routing
<1>9. CASE DialStart /\ ~IsCurrent
  <2>1. at = "dialStart" /\ Continuation = "dialStart"
    BY <1>9 DEF DialStart, At, Continuation, ApplyPoints
  <2>2. Running.kind = "connect" /\ run.session \notin open
    BY <1>3, <2>1 DEF DialOK, RunsItsProgram
  <2>3. QED
    BY <1>4, <1>9, <2>2 DEF DialStart, routing
<1>10. CASE ProxyApplyFail /\ Running.kind # "connect"
  <2>1. at = "proxyApply" /\ Continuation = "done"
    BY <1>3, <1>10 DEF ProxyApplyFail, At, Continuation, ApplyPoints, RunsItsProgram
  <2>2. Running.kind \notin {"cleanup", "stopRouting"} /\ run.session \notin open
    BY <1>1, <2>1 DEF SessionOK, ParkedOK
  <2>3. QED
    BY <1>4, <1>10, <2>2 DEF ProxyApplyFail
<1>11. CASE (RoutingUpdate \/ Reapply \/ HoldStop) /\ Finish
  <2>1. at = "idle" /\ Running.kind \in {"routing", "reapply", "holdStop"}
    BY <1>11 DEF RoutingUpdate, Reapply, HoldStop, Begins, At
  <2>2. UNCHANGED <<status, intent, link, local>>
    BY <1>11 DEF RoutingUpdate, Reapply, HoldStop
  <2>3. systemRoutingApplied' = systemRoutingApplied
    <3>1. at' # "stop"
      BY <1>11 DEF Finish
    <3>2. QED
      BY <1>11, <3>1 DEF RoutingUpdate, Reapply, HoldStop, BeginStop, routing
  <2>4. QED
    BY <1>4, <1>11, <2>1, <2>2, <2>3
<1>12. CASE Failed
  <2>1. at = "failed" /\ Continuation = "failed"
    BY <1>12 DEF Failed, At, Continuation, ApplyPoints
  <2>2. Running.kind = "connect" /\ run.session \notin open
    BY <1>3, <2>1 DEF SessionOK, RunsItsProgram
  <2>3. UNCHANGED <<client, clientCurrent, open, local, systemRoutingApplied>>
    BY <1>12 DEF Failed, link, routing
  <2>4. CASE ~IsCurrent
    BY <1>4, <1>12, <2>2, <2>3, <2>4 DEF Failed, Finish, link, intent
  <2>5. CASE IsCurrent /\ MayRetry
    <3>1. ScheduleReconnect /\ SuspendTunnel(Tail(queue)) /\ at' = "idle"
      BY <1>12, <2>5 DEF Failed
    <3>2. Left(Tail(queue), queue', 0)
      BY <1>2, <3>1, OvertakesLeave DEF SuspendTunnel
    <3>3. Left(queue, queue', 1)
      BY <1>2, <3>2, LeftOfLeft
    <3>4. Wanted' = Wanted /\ disconnectRequested' = disconnectRequested
      BY <1>12, <3>1 DEF Failed, ScheduleReconnect, Wanted
    <3>5. status' = status \/ status' # "Connected"
      BY <3>1 DEF ScheduleReconnect
    <3>6. QED
      BY <1>1, <1>2, <2>2, <2>3, <3>1, <3>3, <3>4, <3>5, SettlesWithin
  <2>6. CASE IsCurrent /\ ~MayRetry
    <3>1. /\ HaltReconnect /\ SuspendTunnel(Append(Tail(queue), Mutation("stopRouting")))
          /\ at' = "idle"
      BY <1>12, <2>6 DEF Failed
    <3>2. Mutation("stopRouting") \in Mutations
      BY MutationType DEF Kinds
    <3>3. Joined(queue, Append(Tail(queue), Mutation("stopRouting")), 1, Mutation("stopRouting"))
      BY <1>2, <3>2, AppendJoins
    <3>4. Joined(queue, queue', 1, Mutation("stopRouting"))
      BY <3>1, <3>2, <3>3, LeftOfJoined DEF SuspendTunnel, Mutation
    <3>5. Pending({"stopRouting"})'
      BY <3>4, StopIsPending
    <3>6. status' # "Connected"
      BY <3>1 DEF HaltReconnect
    <3>7. QED
      BY <1>1, <1>2, <2>2, <2>3, <2>6, <3>1, <3>4, <3>5, <3>6, SettlesWithin DEF Lifecycle
  <2>7. QED
    BY <2>4, <2>5, <2>6
<1>13. CASE Cleaned
  <2>1. at = "cleaned" /\ Continuation = "cleaned" /\ at' = "idle"
    BY <1>13 DEF Cleaned, At, Continuation, ApplyPoints
  <2>2. /\ Running.kind = "cleanup" /\ run.session = Running.client
        /\ run.session \notin open
    BY <1>3, <2>1 DEF SessionOK, RunsItsProgram
  <2>3. UNCHANGED <<client, clientCurrent, open, local, systemRoutingApplied>>
    BY <1>13 DEF Cleaned, link, routing
  <2>4. CASE queue' = Tail(queue)
    <3>1. status' = status \/ status' # "Connected"
      BY <1>13 DEF Cleaned, ScheduleReconnect, HaltReconnect
    <3>2. Wanted' = Wanted /\ disconnectRequested' = disconnectRequested
      <4>1. queue' # Append(Tail(queue), Mutation("stopRouting"))
        <5>1. /\ Mutation("stopRouting") \in Mutations
              /\ Len(Tail(queue)) \in Nat
          BY <1>2, MutationType, LenProperties DEF Kinds
        <5>2. Len(Append(Tail(queue), Mutation("stopRouting"))) = Len(Tail(queue)) + 1
          BY <1>2, <5>1, AppendFacts
        <5>3. QED
          BY <2>4, <5>1, <5>2
      <4>2. QED
        BY <1>13, <4>1 DEF Cleaned, ScheduleReconnect, Wanted
    <3>3. QED
      BY <1>1, <1>2, <2>1, <2>2, <2>3, <2>4, <3>1, <3>2, SettlesWithin
  <2>5. CASE IsCurrent /\ HaltReconnect /\ queue' = Append(Tail(queue), Mutation("stopRouting"))
    <3>1. Mutation("stopRouting") \in Mutations
      BY MutationType DEF Kinds
    <3>2. Joined(queue, queue', 1, Mutation("stopRouting"))
      BY <1>2, <2>5, <3>1, AppendJoins
    <3>3. Pending({"stopRouting"})'
      BY <3>2, StopIsPending
    <3>4. status' # "Connected"
      BY <2>5 DEF HaltReconnect
    <3>5. QED
      BY <1>1, <1>2, <2>1, <2>2, <2>3, <2>5, <3>2, <3>3, <3>4, SettlesWithin DEF Lifecycle
  <2>6. QED
    BY <1>13, <2>4, <2>5 DEF Cleaned
<1>14. QED
  BY <1>5, <1>6, <1>7, <1>8, <1>9, <1>10, <1>11, <1>12, <1>13

(* The calls, timers and events *)
LEMMA BesideStep ==
  ASSUME SessionInv, TypeOK', UserStep \/ Event \/ UNCHANGED vars
  PROVE  Held'
<1>1. /\ run \in Locals /\ queue \in Seq(Mutations) /\ NoClient \notin open
      /\ client \in Clients \cup {NoClient}
  BY NextIsSegment DEF SessionInv, IInv, TypeOK, LinkType
<1>2. /\ \A k \in {"connect", "disconnect", "dispose", "stopRouting", "holdStop", "routing",
                   "reapply"} :
           Mutation(k) \in Mutations /\ Mutation(k).kind = k /\ Mutation(k).client = NoClient
  BY MutationType DEF Kinds, Mutation
<1>3. /\ Left(queue, queue, 0) /\ Left(queue, Overtake(queue), 0)
      /\ Left(queue, OvertakeRouting(queue), 0)
      /\ \A m \in Mutations : Joined(queue, Append(queue, m), 0, m)
  <2>1. Left(queue, queue, 0) /\ Left(queue, Overtake(queue), 0)
        /\ Left(queue, OvertakeRouting(queue), 0)
    BY <1>1, OvertakesLeave
  <2>2. ASSUME NEW m \in Mutations PROVE Joined(queue, Append(queue, m), 0, m)
    BY <2>1, <2>2, AppendJoins
  <2>3. QED
    BY <2>1, <2>2
<1>4. ASSUME NEW m \in Mutations, queue' = Append(Overtake(queue), m)
      PROVE  /\ Joined(queue, queue', 0, m)
             /\ \A i \in 1..Len(queue) : ~(queue'[i].kind \in Lifecycle /\ queue'[i].current)
  <2>1. Joined(queue, queue', 0, m)
    BY <1>3, <1>4, AppendJoins
  <2>2. Overtake(queue) \in Seq(Mutations) /\ Len(Overtake(queue)) = Len(queue)
    BY <1>1, OvertakeFacts
  <2>3. \A i \in 1..Len(queue) : queue'[i] = Overtake(queue)[i]
    BY <1>4, <2>2, AppendFacts
  <2>4. \A i \in 1..Len(queue) : Overtake(queue)[i].kind \in Lasting => ~Overtake(queue)[i].current
    BY <1>1, <2>2, OvertakenLasting
  <2>5. QED
    BY <2>1, <2>3, <2>4 DEF Lasting, Lifecycle
<1>5. ASSUME NEW u \in BOOLEAN, NEW s \in {"Connecting", "Reconnecting"}, StartConnect(u, s),
             UNCHANGED <<at, open, local, systemRoutingApplied, run, client, disposed>>,
             ~reconnectHalted', disposed => ~disconnectRequested
      PROVE  Held'
  <2> DEFINE m == [Mutation("connect") EXCEPT !.user = u]
  <2>1. m \in Mutations /\ m.kind = "connect" /\ m.client = NoClient
    BY MutationType DEF Mutation
  <2>2. Joined(queue, queue', 0, m)
    BY <1>4, <1>5, <2>1 DEF StartConnect
  <2>3. status' # "Connected" /\ ~clientCurrent'
    BY <1>5 DEF StartConnect
  <2>4. Wanted' \/ disconnectRequested' \/ ~(Wanted \/ disconnectRequested)
    BY <1>5 DEF StartConnect, Wanted
  <2> HIDE DEF m
  <2>5. QED
    BY <1>5, <2>1, <2>2, <2>3, <2>4, HappensBeside
<1>6. CASE Connect
  <2>1. UNCHANGED <<at, open, local, systemRoutingApplied, run, client, disposed>>
    BY <1>6 DEF Connect
  <2>2. StartConnect(TRUE, "Connecting") /\ ~reconnectHalted' /\ ~disposed
    BY <1>6 DEF Connect
  <2>3. QED
    BY <1>5, <2>1, <2>2
<1>7. CASE ReconnectTimerFires
  <2>1. UNCHANGED <<at, open, local, systemRoutingApplied, run, client, disposed, reconnectHalted>>
    BY <1>7 DEF ReconnectTimerFires, routing
  <2>2. CASE lastRequest /\ ~disconnectRequested /\ ~reconnectHalted
    <3>1. StartConnect(FALSE, "Reconnecting")
      BY <1>7, <2>2, Zenon DEF ReconnectTimerFires
    <3>2. ~reconnectHalted'
      BY <2>1, <2>2
    <3>3. QED
      BY <1>5, <2>1, <2>2, <3>1, <3>2
  <2>3. CASE ~(lastRequest /\ ~disconnectRequested /\ ~reconnectHalted)
    <3>1. UNCHANGED <<lastRequest, disconnectRequested, clientCurrent, status, queue>>
      BY <1>7, <2>3 DEF ReconnectTimerFires
    <3>2. Wanted' = Wanted
      BY <2>1, <3>1 DEF Wanted
    <3>3. QED
      BY <1>2, <1>3, <2>1, <3>1, <3>2, HappensBeside
  <2>4. QED
    BY <2>2, <2>3
<1>8. ASSUME NEW s \in {"Disconnecting", "Disconnected"}, EndLifecycle(s),
             NEW m \in Mutations, m.kind # "cleanup", m.client = NoClient,
             queue' = Overtake(queue) \/ queue' = Append(Overtake(queue), m)
      PROVE  Held'
  <2>1. /\ UNCHANGED <<at, open, local, systemRoutingApplied, client>>
        /\ run'.next = run.next /\ run'.session = run.session
        /\ ~clientCurrent' /\ status' # "Connected" /\ disconnectRequested'
    BY <1>1, <1>8 DEF EndLifecycle, Locals, routing
  <2>2. Left(queue, queue', 0) \/ Joined(queue, queue', 0, m)
    BY <1>3, <1>4, <1>8
  <2>3. \A i \in 1..Len(queue) : ~(queue'[i].kind \in Lifecycle /\ queue'[i].current)
    BY <1>1, <1>4, <1>8, OvertakenLasting, OvertakeFacts DEF Lasting, Lifecycle
  <2>4. QED
    BY <1>8, <2>1, <2>2, <2>3, HappensBeside
<1>9. CASE BeginDisconnect
  BY <1>2, <1>8, <1>9 DEF BeginDisconnect
<1>10. CASE Disconnect
  BY <1>2, <1>8, <1>10 DEF Disconnect
<1>11. CASE ClearError
  BY <1>2, <1>8, <1>11 DEF ClearError
<1>12. CASE Dispose
  BY <1>2, <1>8, <1>12 DEF Dispose
<1>13. CASE UpdateRouting
  <2>1. Joined(queue, queue', 0, Mutation("routing"))
    BY <1>2, <1>3, <1>13, AppendJoins DEF UpdateRouting
  <2>2. /\ UNCHANGED <<at, open, local, systemRoutingApplied, run, client, clientCurrent, status>>
        /\ UNCHANGED intent
    BY <1>13 DEF UpdateRouting, link, routing
  <2>3. Wanted' = Wanted
    BY <2>2 DEF Wanted, intent
  <2>4. QED
    BY <1>2, <2>1, <2>2, <2>3, HappensBeside DEF intent
<1>14. ASSUME NEW retryable \in BOOLEAN, ClientFails(retryable) PROVE Held'
  <2> DEFINE m == [Mutation("cleanup") EXCEPT !.retryable = retryable, !.client = client]
             q == Append(Overtake(queue), m)
  <2>1. client \in Clients /\ clientCurrent
    BY <1>1, <1>14 DEF ClientFails
  <2>2. m \in Mutations /\ m.kind = "cleanup" /\ m.client = client
    BY <2>1, MutationType DEF Mutation
  <2>3. Joined(queue, q, 0, m)
    BY <1>3, <2>2, AppendJoins
  <2>4. queue' = q \/ queue' = OvertakeHold(q)
    BY <1>14 DEF ClientFails, SuspendTunnel
  <2>5. Joined(queue, queue', 0, m)
    <3> HIDE DEF m, q
    <3>1. m.kind # "holdStop" /\ 0 \in 0..1
      BY <2>2
    <3>2. Joined(queue, OvertakeHold(q), 0, m)
      BY <2>2, <2>3, <3>1, LeftOfJoined
    <3>3. QED
      BY <2>3, <2>4, <3>2
  <2>6. \A i \in 1..Len(queue) : ~(queue'[i].kind \in Lifecycle /\ queue'[i].current)
    <3>1. q \in Seq(Mutations) /\ Len(q) = Len(queue) + 1 /\ Len(queue) \in Nat
      BY <2>3 DEF Joined, Moved
    <3>2. \A i \in 1..Len(queue) : q[i] = Overtake(queue)[i]
      BY <1>1, <2>2, AppendFacts, OvertakeFacts
    <3>3. \A i \in 1..Len(queue) : ~(q[i].kind \in Lifecycle /\ q[i].current)
      BY <1>1, <3>2, OvertakenLasting, OvertakeFacts DEF Lasting, Lifecycle
    <3>4. ASSUME NEW i \in 1..Len(queue), OvertakeHold(q)[i].kind \in Lifecycle
          PROVE  OvertakeHold(q)[i] = q[i]
      <4>1. i \in 1..Len(q)
        BY <3>1
      <4>2. /\ OvertakeHold(q)[i].kind = q[i].kind
            /\ q[i].kind # "holdStop" => OvertakeHold(q)[i] = q[i]
        BY <3>1, <4>1, OvertakeHoldFacts
      <4>3. QED
        BY <3>4, <4>2 DEF Lifecycle
    <3>5. QED
      BY <2>4, <3>3, <3>4
  <2>7. /\ UNCHANGED <<at, open, local, systemRoutingApplied>> /\ UNCHANGED intent
        /\ run'.next = run.next /\ run'.session = run.session
        /\ client' = NoClient /\ ~clientCurrent' /\ status' # "Connected"
    BY <1>1, <1>14 DEF ClientFails, Locals, routing
  <2>8. Wanted' = Wanted /\ disconnectRequested' = disconnectRequested
    BY <2>7 DEF Wanted, intent
  <2> HIDE DEF m
  <2>9. QED
    BY <2>1, <2>2, <2>5, <2>6, <2>7, <2>8, HappensBeside
<1>15. CASE HoldTimerFires
  <2>1. Left(queue, queue', 0) \/ Joined(queue, queue', 0, Mutation("holdStop"))
    BY <1>2, <1>3, <1>15 DEF HoldTimerFires
  <2>2. /\ UNCHANGED <<at, open, local, systemRoutingApplied, run, client, clientCurrent, status>>
        /\ UNCHANGED intent
    BY <1>15 DEF HoldTimerFires, link, routing
  <2>3. Wanted' = Wanted
    BY <2>2 DEF Wanted, intent
  <2>4. QED
    BY <1>2, <2>1, <2>2, <2>3, HappensBeside DEF intent
<1>16. CASE HelperDies
  <2>1. Left(queue, queue', 0) \/ Joined(queue, queue', 0, Mutation("reapply"))
    BY <1>2, <1>3, <1>16 DEF HelperDies
  <2>2. /\ UNCHANGED <<at, open, local, systemRoutingApplied, run, client, clientCurrent, status>>
        /\ UNCHANGED intent
    BY <1>16 DEF HelperDies, link
  <2>3. Wanted' = Wanted
    BY <2>2 DEF Wanted, intent
  <2>4. QED
    BY <1>2, <2>1, <2>2, <2>3, HappensBeside DEF intent
<1>17. ASSUME UNCHANGED <<status, intent, link, systemRoutingApplied, socksProxy, exec>>,
              waiters' # {} => waiters # {} \/ (socksProxy /\ Wanted),
              status = "Connected" => waiters' = {}
       PROVE  Held'
  <2> USE DEF SessionInv, Held
  <2>1. /\ Running' = Running /\ Continuation' = Continuation /\ (SessionInHand' <=> SessionInHand)
        /\ Wanted' = Wanted /\ (Pending({"stopRouting"})' <=> Pending({"stopRouting"}))
        /\ UNCHANGED <<queue, at, run, client, clientCurrent, open, status, disconnectRequested>>
    BY <1>17 DEF Running, Continuation, SessionInHand, Wanted, Pending, exec, intent, link
  <2>2. QueueOK' /\ DialOK' /\ SessionOK' /\ NoLeakedSession'
    BY <1>17, <2>1 DEF QueueOK, DialOK, SessionOK, NoLeakedSession
  <2>3. ConnectedOK'
    BY <1>17, <2>1 DEF ConnectedOK, ConnectedIsServed
  <2>4. ParkedOK'
    BY <1>17, <2>1 DEF ParkedOK, ParkedIsAnswered
  <2>5. QED
    BY <2>2, <2>3, <2>4
<1>18. ASSUME NEW w \in Conns, Park(w) PROVE Held'
  <2>1. status # "Connected"
    BY <1>1, <1>18 DEF Park, SessionInv, Held, ConnectedOK, ConnectedIsServed
  <2>2. QED
    BY <1>17, <1>18, <2>1 DEF Park, routing
<1>19. ASSUME NEW w \in Conns, Unpark(w) PROVE Held'
  <2>1. status = "Connected" => waiters' = {}
    BY <1>19 DEF Unpark, SessionInv, Held, ConnectedOK, ConnectedIsServed
  <2>2. QED
    BY <1>17, <1>19, <2>1 DEF Unpark, routing
<1>20. CASE UNCHANGED vars
  <2>1. status = "Connected" => waiters = {}
    BY DEF SessionInv, Held, ConnectedOK, ConnectedIsServed
  <2>2. QED
    BY <1>17, <1>20, <2>1 DEF vars, routing, local
<1>21. QED
  BY <1>6, <1>7, <1>9, <1>10, <1>11, <1>12, <1>13, <1>14, <1>15, <1>16, <1>18, <1>19, <1>20
     DEF UserStep, Event

(* A session in hand is not Connected yet, and is heard while it is current. *)
LEMMA InHand ==
  ASSUME SessionInv, SessionInHand
  PROVE  /\ queue # <<>> /\ Running.kind = "connect" /\ status # "Connected"
         /\ run.session \in open /\ run.session # NoClient
         /\ clientCurrent <=> IsCurrent
         /\ IsCurrent => client = run.session
<1>1. queue # <<>> /\ Running.kind = "connect"
  <2>1. RunsItsProgram
    BY DEF SessionInv, IInv, OneAttempt
  <2>2. at # "idle"
    BY DEF SessionInHand, Continuation, ApplyPoints
  <2>3. QED
    BY <2>1, <2>2 DEF RunsItsProgram
<1>2. /\ clientCurrent <=> IsCurrent
      /\ IsCurrent => client = run.session
  BY DEF SessionInv, IInv, OneAttempt
<1>3. run.session \in open /\ run.session # NoClient
  BY NextIsSegment DEF SessionInv, IInv, Held, SessionOK
<1>4. Running = queue[1] /\ 1 \in 1..Len(queue)
  BY <1>1, AttemptFacts DEF SessionInv
<1>5. status # "Connected"
  BY <1>1, <1>2, <1>4 DEF SessionInv, Held, ConnectedOK, ConnectedIsServed, IsCurrent
<1>6. QED
  BY <1>1, <1>2, <1>3, <1>5

(* While Connected a session is open. *)
LEMMA ConnectedHasClient ==
  ASSUME SessionInv, status = "Connected"
  PROVE  client \in open /\ client # NoClient /\ clientCurrent /\ systemRoutingApplied
BY NextIsSegment DEF SessionInv, IInv, Held, ConnectedOK, ConnectedIsServed

(* stopSystemRouting begins, in a mutation that is not Connected. *)
LEMMA StopsRouting ==
  ASSUME SessionInv, queue # <<>>, status # "Connected",
         NEW n \in Segments, NEW r \in Locals, BeginStop(n, r),
         UNCHANGED <<status, intent, open, local>>,
         UNCHANGED link \/ (client' = NoClient /\ ~clientCurrent'),
         DialOK', SessionOK', NoLeakedSession',
         Running.kind = "stopRouting" => n = "stopListener"
  PROVE  Held'
<1>1. Left(queue, queue', 0)
  BY NextIsSegment, OvertakesLeave DEF BeginStop, SessionInv, IInv
<1>2. Continuation' = n
  BY DEF BeginStop, Continuation, Locals
<1>3. QED
  BY <1>1, <1>2, GoesElsewhere DEF local, link

(* What BeginStop leaves of the running mutation *)
LEMMA StopFacts ==
  ASSUME SessionInv, queue # <<>>, NEW n \in Segments, NEW r \in Locals, BeginStop(n, r)
  PROVE  /\ Continuation' = n /\ at' = "stop" /\ run'.session = r.session
         /\ (SessionInHand' <=> n \in {"established", "apply", "applied"})
         /\ queue' # <<>> /\ Same(Running', Running)
         /\ Left(queue, queue', 0)
<1>1. Left(queue, queue', 0)
  BY NextIsSegment, OvertakesLeave DEF BeginStop, SessionInv, IInv
<1>2. Continuation' = n /\ at' = "stop" /\ run'.session = r.session
  BY DEF BeginStop, Continuation, Locals
<1>3. queue' # <<>> /\ Same(Running', Running)
  BY <1>1, RunningStays, EmptySeq DEF Left, Moved
<1>4. QED
  BY <1>1, <1>2, <1>3 DEF SessionInHand, Segments

(* The previous client is taken out. *)
LEMMA TakesClient ==
  ASSUME SessionInv, queue # <<>>, Running.kind = "connect", IsCurrent,
         at = "idle" \/ (at = "replace" /\ run.session = NoClient),
         NEW r \in Locals, TakeClient(r), UNCHANGED <<status, intent, local>>
  PROVE  Held'
<1> USE DEF SessionInv, Held
<1>1. /\ \A i \in 1..Len(queue) : queue[i].kind \notin {"cleanup", "stopRouting"}
      /\ status # "Connected"
  BY CurrentAttempt
<1>2. /\ client' = NoClient /\ ~clientCurrent' /\ UNCHANGED <<open, queue>>
      /\ run'.session = client /\ at' \in {"dial", "close"} /\ Continuation' \in {"dial", "dialStart"}
      /\ at' = "dial" <=> client = NoClient
      /\ at' = "close" => Continuation' = "dialStart"
  BY DEF TakeClient, Continuation, Locals, ApplyPoints
<1>3. open \subseteq {client} \ {NoClient}
  <2>1. \A i \in 1..Len(queue) : queue[i].client = NoClient
    BY <1>1 DEF QueueOK
  <2>2. QED
    BY <2>1, NextIsSegment DEF NoLeakedSession, IInv
<1>4. DialOK'
  BY <1>1, <1>2, <1>3 DEF DialOK
<1>5. SessionOK'
  BY <1>2 DEF SessionOK, SessionInHand, Running
<1>6. NoLeakedSession'
  BY <1>2, <1>3 DEF NoLeakedSession
<1>7. Left(queue, queue', 0)
  BY <1>2, NextIsSegment, OvertakesLeave DEF IInv
<1>8. QED
  BY <1>1, <1>2, <1>4, <1>5, <1>6, <1>7, GoesElsewhere DEF local

(* It goes on with the queue as it is. *)
LEMMA KeepsQueue ==
  ASSUME SessionInv, queue # <<>>, queue' = queue, DialOK', SessionOK', NoLeakedSession',
         UNCHANGED <<status, intent, waiters>>, socksProxy => socksProxy',
         \/ client' \in {client, NoClient}
         \/ \A i \in 1..Len(queue) : queue[i].kind # "cleanup",
         status = "Connected" =>
           /\ UNCHANGED <<client, clientCurrent>> /\ systemRoutingApplied'
           /\ client \in open' /\ Continuation' # "stopListener",
         Running.kind # "stopRouting"
  PROVE  Held'
<1>1. Left(queue, queue', 0)
  BY NextIsSegment, OvertakesLeave DEF SessionInv, IInv
<1>2. QED
  BY <1>1, GoesElsewhere

(* applySystemRouting begins. *)
LEMMA AppliesRouting ==
  ASSUME SessionInv, queue # <<>>, NEW n \in {"applied", "done"}, NEW r \in Locals,
         BeginApply(n, r), UNCHANGED <<status, intent, link, local>>,
         status = "Connected" => systemRoutingApplied',
         \/ n = "applied" /\ SessionInHand /\ Continuation # "listen" /\ r = run
         \/ n = "done" /\ at = "idle" /\ r.session = NoClient /\ Running.kind \in {"routing", "reapply"}
  PROVE  Held'
<1> USE DEF SessionInv, Held
<1>1. /\ queue' = queue /\ run'.session = r.session /\ Continuation' = n
      /\ at' \in {"tunStop", "probe", "proxy"}
  <2>1. CASE TunEnabled /\ tunSuspended
    BY <2>1 DEF BeginApply, BeginTunStop, Continuation, ApplyPoints, Locals
  <2>2. CASE ~(TunEnabled /\ tunSuspended)
    BY <2>2 DEF BeginApply, Continuation, ApplyPoints, Locals
  <2>3. QED
    BY <2>1, <2>2
<1>2. Running' = Running /\ UNCHANGED <<client, clientCurrent, open, socksProxy, waiters>>
  BY <1>1 DEF Running, link, local
<1>3. DialOK'
  BY <1>1 DEF DialOK
<1>4. Running.kind \notin {"cleanup", "stopRouting"}
  BY InHand
<1>5. SessionOK'
  <2>1. n = "applied" => run.session \in open /\ socksProxy
    BY InHand DEF SessionOK, SessionInHand
  <2>2. NoClient \notin open
    BY NextIsSegment DEF IInv
  <2>3. QED
    BY <1>1, <1>2, <1>4, <2>1, <2>2 DEF SessionOK, SessionInHand
<1>6. NoLeakedSession'
  BY <1>1, <1>2 DEF NoLeakedSession, SessionInHand, Continuation
<1>7. QED
  BY <1>1, <1>2, <1>3, <1>4, <1>5, <1>6, KeepsQueue, ConnectedHasClient

(* A client is closed *)
LEMMA CloseStep ==
  ASSUME SessionInv, FinishClose \/ BeginCleanup
  PROVE  Held'
<1> USE DEF SessionInv, Held
<1>1. queue # <<>> /\ queue' = queue /\ Running' = Running
  BY DEF FinishClose, BeginCleanup, At, GoTo, Running
<1>2. /\ run.next \in Segments /\ run.next \notin Awaits \cup {"idle", "proxy"}
      /\ run \in Locals /\ NoClient \notin open
  BY NextIsSegment DEF IInv
<1>3. UNCHANGED <<status, intent, client, clientCurrent, local, systemRoutingApplied>>
  BY DEF FinishClose, BeginCleanup, routing, link
<1>4. CASE FinishClose
  <2>1. /\ at = "close" /\ at' = run.next /\ run' = run /\ open' = open \ {run.session}
        /\ Continuation = run.next /\ Continuation' = run.next
        /\ run.next \in {"dialStart", "failed", "cleaned", "done", "ended"}
    BY <1>2, <1>4 DEF FinishClose, At, GoTo, Continuation, ApplyPoints, Segments, Awaits, SessionOK
  <2>2. ~SessionInHand'
    BY <2>1 DEF SessionInHand
  <2>3. DialOK'
    BY <1>1, <1>3, <2>1 DEF DialOK
  <2>4. SessionOK'
    BY <1>1, <1>3, <2>1, <2>2 DEF SessionOK
  <2>5. NoLeakedSession'
    BY <1>1, <1>3, <2>1 DEF NoLeakedSession
  <2>6. status = "Connected" => client \in open'
    BY <2>1, ConnectedHasClient DEF SessionOK
  <2>7. Running.kind # "stopRouting"
    BY <1>1, <2>1 DEF ParkedOK
  <2>8. QED
    BY <1>1, <1>3, <2>1, <2>3, <2>4, <2>5, <2>6, <2>7, ConnectedHasClient, KeepsQueue DEF local
<1>5. CASE BeginCleanup
  <2>1. /\ Running.kind = "cleanup" /\ open' = open
        /\ at' = "close" /\ run'.session = Running.client /\ Continuation' = "cleaned"
        /\ at = "idle"
    BY <1>5 DEF BeginCleanup, At, Continuation, NoLocals, link
  <2>2. Running.client # client
    BY <1>1, <2>1, AttemptFacts DEF QueueOK
  <2>3. DialOK'
    BY <2>1 DEF DialOK
  <2>4. SessionOK'
    BY <1>1, <1>3, <2>1, <2>2 DEF SessionOK, SessionInHand
  <2>5. NoLeakedSession'
    BY <1>1, <1>3, <2>1 DEF NoLeakedSession
  <2>6. QED
    BY <1>1, <1>3, <2>1, <2>3, <2>4, <2>5, ConnectedHasClient, KeepsQueue DEF local
<1>6. QED
  BY <1>4, <1>5

(* An attempt up to the outcome of its dial *)
LEMMA DialStep ==
  ASSUME SessionInv,
         \/ BeginConnect
         \/ (Replace \/ DialStart) /\ IsCurrent
         \/ \E c \in Clients \ open : DialOk(c) \/ DialOvertaken(c)
         \/ \E e \in Failures : DialFail(e)
  PROVE  Held'
<1> USE DEF SessionInv, Held
<1>1. /\ queue # <<>> /\ NoLocals \in Locals /\ run \in Locals /\ NoClient \notin open
      /\ client \in Clients \cup {NoClient}
  BY NextIsSegment, NoLocalsType
     DEF BeginConnect, Replace, DialStart, DialOk, DialOvertaken, DialFail, Begins, At,
         IInv, TypeOK, LinkType
<1>2. at \in {"replace", "dialStart", "dial"} => Continuation = at /\ Running.kind = "connect"
  BY DEF Continuation, ApplyPoints, IInv, OneAttempt, RunsItsProgram
<1>3. at = "dial" => open = {} /\ client = NoClient /\ ~clientCurrent /\ status # "Connected"
  BY <1>2, ConnectedHasClient DEF NoLeakedSession, DialOK
<1>4. CASE BeginConnect
  <2> DEFINE r == [NoLocals EXCEPT !.hold = HoldRouting, !.holdTun = HoldTunRouting]
  <2>1. at = "idle" /\ Running.kind = "connect" /\ IsCurrent
    BY <1>4 DEF BeginConnect, Begins, At
  <2>2. r \in Locals /\ r.session = NoClient
    <3>1. HoldRouting \in BOOLEAN /\ HoldTunRouting \in BOOLEAN
      BY DEF HoldRouting, HoldTunRouting
    <3>2. QED
      BY <1>1, <3>1 DEF Locals, NoLocals
  <2>3. UNCHANGED <<status, intent, local>>
    BY <1>4 DEF BeginConnect
  <2>4. \/ TakeClient(r)
        \/ BeginStop("replace", r) /\ UNCHANGED link
    BY <1>4 DEF BeginConnect
  <2> HIDE DEF r
  <2>5. CASE TakeClient(r)
    BY <1>1, <2>1, <2>2, <2>3, <2>5, TakesClient
  <2>6. CASE BeginStop("replace", r) /\ UNCHANGED link
    <3>1. /\ \A i \in 1..Len(queue) : queue[i].kind \notin {"cleanup", "stopRouting"}
          /\ status # "Connected" /\ ~clientCurrent
      BY <1>1, <2>1, CurrentAttempt, AttemptFacts DEF SessionInHand, Continuation, Lifecycle, ApplyPoints
    <3>2. "replace" \in Segments
      BY DEF Segments
    <3>3. /\ Continuation' = "replace" /\ at' = "stop" /\ run'.session = NoClient /\ ~SessionInHand'
          /\ queue' # <<>> /\ Same(Running', Running) /\ Left(queue, queue', 0)
      BY <1>1, <2>2, <2>6, <3>2, StopFacts
    <3>4. \A i \in 1..Len(queue') : queue'[i].kind # "cleanup"
      BY <3>1, <3>3 DEF Left, Moved, Same
    <3>5. DialOK'
      BY <2>6, <3>1, <3>3, <3>4 DEF DialOK, link
    <3>6. SessionOK'
      BY <2>1, <3>3 DEF SessionOK, Same
    <3>7. NoLeakedSession'
      <4>1. \A i \in 1..Len(queue) : queue[i].client = NoClient
        BY <3>1 DEF QueueOK
      <4>2. \A c \in open' : c = client'
        BY <1>1, <2>1, <2>6, <4>1 DEF NoLeakedSession, link
      <4>3. QED
        BY <3>3, <4>2 DEF NoLeakedSession
    <3>8. QED
      BY <1>1, <2>1, <2>2, <2>3, <2>6, <3>1, <3>2, <3>5, <3>6, <3>7, StopsRouting DEF link
  <2>7. QED
    BY <2>4, <2>5, <2>6
<1>5. CASE Replace /\ IsCurrent
  <2>1. /\ at = "replace" /\ Running.kind = "connect" /\ run.session = NoClient
        /\ TakeClient(run) /\ UNCHANGED <<status, intent, local>>
    BY <1>2, <1>5 DEF Replace, At, DialOK
  <2>2. QED
    BY <1>1, <1>5, <2>1, TakesClient
<1>6. CASE DialStart /\ IsCurrent
  <2>1. /\ at = "dialStart" /\ at' = "dial" /\ UNCHANGED <<queue, run>>
        /\ UNCHANGED <<status, intent, client, clientCurrent, open, local, systemRoutingApplied>>
    BY <1>6 DEF DialStart, At, GoTo, link, routing
  <2>2. Continuation' = "dial" /\ ~SessionInHand' /\ Running' = Running
    BY <2>1 DEF Continuation, SessionInHand, Running, ApplyPoints
  <2>3. open = {} /\ status # "Connected"
    BY <1>2, <2>1, ConnectedHasClient DEF DialOK
  <2>4. DialOK'
    BY <1>2, <2>1, <2>2, <2>3 DEF DialOK
  <2>5. SessionOK'
    BY <1>2, <2>1, <2>2 DEF SessionOK
  <2>6. NoLeakedSession'
    BY <2>1, <2>3 DEF NoLeakedSession
  <2>7. QED
    BY <1>1, <1>2, <2>1, <2>3, <2>4, <2>5, <2>6, KeepsQueue DEF local
<1>7. ASSUME NEW c \in Clients \ open, DialOk(c) PROVE Held'
  <2>1. /\ at = "dial" /\ IsCurrent /\ open' = open \cup {c} /\ client' = c
        /\ at' \in {"established", "listen"} /\ (at' = "established" => socksProxy)
        /\ run'.session = c /\ queue' = queue /\ Continuation' = at'
        /\ UNCHANGED <<status, intent, local>>
    BY <1>1, <1>7 DEF DialOk, At, Locals, Continuation, ApplyPoints
  <2>2. Running' = Running /\ socksProxy' = socksProxy
    BY <2>1 DEF Running, local
  <2>3. DialOK' /\ SessionOK' /\ NoLeakedSession'
    BY <1>2, <1>3, <2>1, <2>2 DEF DialOK, SessionOK, NoLeakedSession
  <2>4. \A i \in 1..Len(queue) : queue[i].kind # "cleanup"
    BY <1>1, <1>2, <2>1, CurrentAttempt
  <2>5. QED
    BY <1>1, <1>2, <1>3, <2>1, <2>3, <2>4, KeepsQueue DEF local
<1>8. ASSUME NEW c \in Clients \ open, DialOvertaken(c) PROVE Held'
  <2>1. /\ at = "dial" /\ open' = open \cup {c} /\ UNCHANGED <<client, clientCurrent>>
        /\ at' = "close" /\ run'.session = c /\ queue' = queue /\ Continuation' = "done"
        /\ UNCHANGED <<status, intent, local>>
    BY <1>1, <1>8 DEF DialOvertaken, At, Locals, Continuation, ApplyPoints
  <2>2. Running' = Running /\ ~SessionInHand'
    BY <2>1 DEF Running, SessionInHand
  <2>3. DialOK' /\ SessionOK' /\ NoLeakedSession'
    BY <1>1, <1>2, <1>3, <2>1, <2>2 DEF DialOK, SessionOK, NoLeakedSession
  <2>4. QED
    BY <1>1, <1>2, <1>3, <2>1, <2>3, KeepsQueue DEF local
<1>9. ASSUME NEW e \in Failures, DialFail(e) PROVE Held'
  <2> DEFINE r == [run EXCEPT !.error = e]
  <2>1. /\ at = "dial" /\ UNCHANGED <<status, intent, link, local>>
        /\ \/ BeginStop("failed", r)
           \/ at' = "failed" /\ run' = r /\ queue' = queue /\ systemRoutingApplied' = systemRoutingApplied
    BY <1>9 DEF DialFail, At, routing
  <2>2. r \in Locals /\ r.session = run.session
    BY <1>1 DEF Locals
  <2> HIDE DEF r
  <2>3. open' = {}
    BY <1>3, <2>1 DEF link
  <2>4. CASE BeginStop("failed", r)
    <3>1. "failed" \in Segments
      BY DEF Segments
    <3>2. /\ Continuation' = "failed" /\ at' = "stop" /\ ~SessionInHand'
          /\ queue' # <<>> /\ Same(Running', Running)
      BY <1>1, <2>2, <2>4, <3>1, StopFacts
    <3>3. DialOK' /\ SessionOK' /\ NoLeakedSession'
      BY <1>2, <2>1, <2>3, <3>2 DEF DialOK, SessionOK, NoLeakedSession, Same
    <3>4. QED
      BY <1>1, <1>2, <1>3, <2>1, <2>2, <2>4, <3>1, <3>3, StopsRouting DEF link
  <2>5. CASE at' = "failed" /\ run' = r /\ queue' = queue
             /\ systemRoutingApplied' = systemRoutingApplied
    <3>1. Continuation' = "failed" /\ ~SessionInHand' /\ Running' = Running
      BY <2>5 DEF Continuation, SessionInHand, ApplyPoints, Running
    <3>2. DialOK' /\ SessionOK' /\ NoLeakedSession'
      BY <1>2, <2>1, <2>3, <2>5, <3>1 DEF DialOK, SessionOK, NoLeakedSession
    <3>3. QED
      BY <1>1, <1>2, <1>3, <2>1, <2>5, <3>2, KeepsQueue DEF link, local
  <2>6. QED
    BY <2>1, <2>4, <2>5
<1>10. QED
  BY <1>4, <1>5, <1>6, <1>7, <1>8, <1>9

(* An attempt whose session is established *)
LEMMA SetupStep ==
  ASSUME SessionInv, TypeOK',
         \/ ListenOk \/ ListenFail
         \/ ProxyApplyFail /\ Running.kind = "connect"
         \/ Established \/ Apply \/ Applied
  PROVE  Held'
<1> USE DEF SessionInv, Held
<1>1. /\ queue # <<>> /\ run \in Locals /\ NoClient \notin open
      /\ client \in Clients \cup {NoClient}
  BY NextIsSegment
     DEF ListenOk, ListenFail, ProxyApplyFail, Established, Apply, Applied, At,
         IInv, TypeOK, LinkType
<1>2. SessionInHand
  BY <1>1 DEF ListenOk, ListenFail, ProxyApplyFail, Established, Apply, Applied, At,
              SessionInHand, Continuation, ApplyPoints, IInv, OneAttempt, RunsItsProgram
<1>3. /\ Running.kind = "connect" /\ status # "Connected" /\ run.session \in open
      /\ clientCurrent <=> IsCurrent
      /\ IsCurrent => client = run.session
  BY <1>2, InHand
<1>4. at \in {"listen", "established", "apply", "applied"} => Continuation = at
  BY DEF Continuation, ApplyPoints
<1>5. CASE ListenOk
  <2>1. /\ at = "listen" /\ at' = "established" /\ UNCHANGED <<queue, run>> /\ socksProxy'
        /\ UNCHANGED <<status, intent, client, clientCurrent, open, waiters>>
    BY <1>5 DEF ListenOk, At, GoTo, link
  <2>2. Continuation' = "established" /\ SessionInHand' /\ Running' = Running
    BY <2>1 DEF Continuation, SessionInHand, Running, ApplyPoints
  <2>3. DialOK' /\ SessionOK'
    BY <1>3, <2>1, <2>2 DEF DialOK, SessionOK
  <2>4. NoLeakedSession'
    BY <2>1 DEF NoLeakedSession
  <2>5. QED
    BY <1>1, <1>3, <2>1, <2>3, <2>4, KeepsQueue
<1>6. ASSUME SetupFails, UNCHANGED <<status, intent, local>> PROVE Held'
  <2>1. /\ at' = "close" /\ run'.session = run.session /\ Continuation' = "failed"
        /\ UNCHANGED <<open, queue, status, intent, socksProxy, waiters>>
        /\ client' = IF client = run.session THEN NoClient ELSE client
        /\ clientCurrent' => client # run.session
    BY <1>1, <1>6 DEF SetupFails, Continuation, Locals, local
  <2>2. ~SessionInHand' /\ Running' = Running
    BY <2>1 DEF SessionInHand, Running
  <2>3. DialOK' /\ SessionOK'
    BY <1>3, <2>1, <2>2 DEF DialOK, SessionOK
  <2>4. NoLeakedSession'
    BY <1>1, <2>1 DEF NoLeakedSession
  <2>5. QED
    BY <1>1, <1>3, <2>1, <2>3, <2>4, KeepsQueue
<1>7. CASE ListenFail
  BY <1>6, <1>7 DEF ListenFail
<1>8. CASE ProxyApplyFail /\ Running.kind = "connect"
  BY <1>6, <1>8 DEF ProxyApplyFail
<1>9. ASSUME Superseded, CloseSuperseded, at \in {"established", "applied"},
             UNCHANGED <<status, intent, link, local>>
      PROVE  Held'
  <2>1. /\ at' = "close" /\ run'.session = run.session /\ Continuation' = "done"
        /\ UNCHANGED <<client, clientCurrent, open, queue, socksProxy, waiters>>
    BY <1>1, <1>9 DEF CloseSuperseded, Continuation, Locals, local, link
  <2>2. ~SessionInHand' /\ Running' = Running
    BY <2>1 DEF SessionInHand, Running
  <2>3. ~clientCurrent
    BY <1>3, <1>9 DEF Superseded
  <2>4. DialOK' /\ SessionOK'
    BY <1>3, <2>1, <2>2, <2>3 DEF DialOK, SessionOK
  <2>5. NoLeakedSession'
    BY <1>1, <1>9, <2>1 DEF NoLeakedSession
  <2>6. QED
    BY <1>1, <1>3, <1>9, <2>1, <2>4, <2>5, KeepsQueue
<1>10. ASSUME ConnectApplies, at \in {"established", "apply"}, UNCHANGED <<status, intent, link, local>>
       PROVE  Held'
  <2>1. BeginApply("applied", run) /\ systemRoutingApplied'
    BY <1>10 DEF ConnectApplies
  <2>2. QED
    BY <1>1, <1>2, <1>4, <1>10, <2>1, AppliesRouting
<1>11. CASE Established
  <2>1. /\ at = "established" /\ UNCHANGED <<intent, link>>
        /\ \/ Superseded /\ CloseSuperseded /\ UNCHANGED <<status, local>>
           \/ ~Superseded /\ BecomeConnected
           \/ BeginStop("apply", run) /\ UNCHANGED <<status, local>>
           \/ ConnectApplies /\ UNCHANGED <<status, local>>
    BY <1>11 DEF Established, At
  <2>2. CASE Superseded /\ CloseSuperseded /\ UNCHANGED <<status, local>>
    BY <1>9, <2>1, <2>2
  <2>3. CASE ~Superseded /\ BecomeConnected
    BY <1>1, <2>1, <2>3, BecomesConnected
  <2>4. CASE BeginStop("apply", run) /\ UNCHANGED <<status, local>>
    <3>1. "apply" \in Segments
      BY DEF Segments
    <3>2. /\ Continuation' = "apply" /\ at' = "stop" /\ run'.session = run.session
          /\ queue' # <<>> /\ Same(Running', Running)
      BY <1>1, <2>4, <3>1, StopFacts
    <3>3. UNCHANGED <<client, clientCurrent, open, socksProxy>>
      BY <2>1, <2>4 DEF link, local
    <3>4. socksProxy
      BY <1>4, <2>1 DEF SessionOK
    <3>5. DialOK' /\ SessionOK'
      BY <1>3, <3>2, <3>3, <3>4 DEF DialOK, SessionOK, Same
    <3>6. NoLeakedSession'
      <4>1. ASSUME NEW c \in open, \E i \in 1..Len(queue) : queue[i].client = c
            PROVE  \E i \in 1..Len(queue') : queue'[i].client = c
        <5>1. Left(queue, queue', 0)
          BY <1>1, <2>4, <3>1, StopFacts
        <5>2. QED
          BY <4>1, <5>1, ClientsAreRemembered
      <4>2. QED
        BY <3>2, <3>3, <4>1 DEF NoLeakedSession
    <3>7. QED
      BY <1>1, <1>3, <2>1, <2>4, <3>1, <3>3, <3>5, <3>6, StopsRouting
  <2>5. CASE ConnectApplies /\ UNCHANGED <<status, local>>
    BY <1>10, <2>1, <2>5
  <2>6. QED
    BY <2>1, <2>2, <2>3, <2>4, <2>5
<1>12. CASE Apply
  <2>1. at = "apply" /\ ConnectApplies /\ UNCHANGED <<status, intent, link, local>>
    BY <1>12 DEF Apply, At
  <2>2. QED
    BY <1>10, <2>1
<1>13. CASE Applied
  <2>1. /\ at = "applied" /\ UNCHANGED <<intent, link>>
        /\ \/ Superseded /\ CloseSuperseded /\ UNCHANGED <<status, local>>
           \/ ~Superseded /\ BecomeConnected
    BY <1>13 DEF Applied, At
  <2>2. CASE Superseded /\ CloseSuperseded /\ UNCHANGED <<status, local>>
    BY <1>9, <2>1, <2>2
  <2>3. CASE ~Superseded /\ BecomeConnected
    BY <1>1, <2>1, <2>3, BecomesConnected
  <2>4. QED
    BY <2>1, <2>2, <2>3
<1>14. QED
  BY <1>5, <1>7, <1>8, <1>11, <1>12, <1>13

(* The mutations that apply new rules, and those that stop the routing *)
LEMMA StopStep ==
  ASSUME SessionInv,
         \/ (RoutingUpdate \/ Reapply \/ HoldStop) /\ ~Finish
         \/ DisconnectInternal \/ StopRouting \/ StopListener
  PROVE  Held'
<1> USE DEF SessionInv, Held
<1>1. /\ queue # <<>> /\ run \in Locals /\ NoClient \notin open
      /\ client \in Clients \cup {NoClient}
      /\ NoLocals \in Locals /\ NoLocals.session = NoClient
      /\ {"done", "stopListener"} \subseteq Segments
  BY NextIsSegment, NoLocalsType
     DEF RoutingUpdate, Reapply, HoldStop, DisconnectInternal, StopRouting, StopListener,
         Begins, At, IInv, TypeOK, LinkType, NoLocals, Segments
<1>2. CASE (RoutingUpdate \/ Reapply) /\ ~Finish
  <2>1. /\ at = "idle" /\ Running.kind \in {"routing", "reapply"} /\ BeginApply("done", NoLocals)
        /\ UNCHANGED <<status, intent, link, local, systemRoutingApplied>>
    BY <1>2 DEF RoutingUpdate, Reapply, Begins, At
  <2>2. QED
    BY <1>1, <2>1, ConnectedHasClient, AppliesRouting
<1>3. ASSUME NEW n \in {"done", "stopListener"}, NEW r \in Locals, BeginStop(n, r), at = "idle",
             status # "Connected", UNCHANGED <<status, intent, open, local>>,
             \/ UNCHANGED link /\ r.session = NoClient
             \/ /\ client' = NoClient /\ ~clientCurrent'
                /\ r.session = client /\ n = "stopListener",
             Running.kind # "cleanup",
             Running.kind = "stopRouting" => n = "stopListener" /\ r.session = NoClient,
             n = "stopListener" /\ Running.kind # "stopRouting" => client' = NoClient
      PROVE  Held'
  <2>1. n \in Segments
    BY <1>1
  <2>2. /\ Continuation' = n /\ at' = "stop" /\ run'.session = r.session /\ ~SessionInHand'
        /\ queue' # <<>> /\ Same(Running', Running) /\ Left(queue, queue', 0)
    BY <1>1, <1>3, <2>1, StopFacts
  <2>3. DialOK'
    BY <2>2 DEF DialOK
  <2>4. ASSUME NEW c, \E i \in 1..Len(queue) : queue[i].client = c
        PROVE  \E i \in 1..Len(queue') : queue'[i].client = c
    BY <2>2, <2>4, ClientsAreRemembered
  <2>5. CASE UNCHANGED link /\ r.session = NoClient
    <3>1. SessionOK'
      BY <1>1, <1>3, <2>2, <2>5 DEF SessionOK, Same, link
    <3>2. NoLeakedSession'
      BY <1>3, <2>2, <2>4, <2>5 DEF NoLeakedSession, link
    <3>3. QED
      BY <1>1, <1>3, <2>1, <2>3, <2>5, <3>1, <3>2, StopsRouting
  <2>6. CASE client' = NoClient /\ ~clientCurrent' /\ r.session = client /\ n = "stopListener"
    <3>1. SessionOK'
      BY <1>1, <1>3, <2>2, <2>6 DEF SessionOK, Same
    <3>2. NoLeakedSession'
      BY <1>3, <2>2, <2>4, <2>6 DEF NoLeakedSession
    <3>3. QED
      BY <1>1, <1>3, <2>1, <2>3, <2>6, <3>1, <3>2, StopsRouting
  <2>7. QED
    BY <1>3, <2>5, <2>6
<1>4. CASE HoldStop /\ ~Finish
  <2>1. /\ BeginStop("done", NoLocals) /\ UNCHANGED <<status, intent, link, open, local>>
        /\ at = "idle" /\ Running.kind = "holdStop" /\ client = NoClient
    BY <1>4 DEF HoldStop, Begins, At, link
  <2>2. QED
    BY <1>1, <1>3, <2>1, ConnectedHasClient
<1>5. CASE DisconnectInternal
  <2> DEFINE r == [NoLocals EXCEPT !.session = client]
  <2>1. /\ BeginStop("stopListener", r) /\ UNCHANGED <<status, intent, open, local>>
        /\ client' = NoClient /\ ~clientCurrent'
        /\ at = "idle" /\ Running.kind \in {"disconnect", "dispose"} /\ IsCurrent
    BY <1>5 DEF DisconnectInternal, Begins, At
  <2>2. r \in Locals /\ r.session = client
    BY <1>1 DEF Locals
  <2>3. status # "Connected"
    BY <1>1, <2>1, AttemptFacts, ConnectedHasClient
  <2> HIDE DEF r
  <2>4. QED
    BY <1>1, <1>3, <2>1, <2>2, <2>3
<1>6. CASE StopRouting
  <2>1. /\ BeginStop("stopListener", NoLocals) /\ UNCHANGED <<status, intent, link, open, local>>
        /\ at = "idle" /\ Running.kind = "stopRouting"
    BY <1>6 DEF StopRouting, Begins, At, link
  <2>2. status # "Connected"
    BY <1>1, <2>1, AttemptFacts DEF ConnectedOK
  <2>3. QED
    BY <1>1, <1>3, <2>1, <2>2
<1>7. CASE StopListener
  <2>1. /\ at = "stopListener" /\ Continuation = "stopListener"
        /\ UNCHANGED <<status, intent, client, clientCurrent, open, queue>>
        /\ ~socksProxy' /\ waiters' = {} /\ run'.session = run.session
        /\ at' \in {"done", "close", "ended"}
        /\ at' = "done" <=> Running.kind = "stopRouting"
        /\ at' = "close" <=> Running.kind # "stopRouting" /\ run.session # NoClient
        /\ Continuation' = IF at' = "done" THEN "done" ELSE "ended"
    BY <1>1, <1>7 DEF StopListener, At, Continuation, ApplyPoints, Locals, link
  <2>2. ~SessionInHand' /\ Running' = Running
    BY <2>1 DEF SessionInHand, Running
  <2>3. status # "Connected"
    BY <2>1 DEF ConnectedOK
  <2>4. Running.kind # "cleanup"
    BY <1>1, <2>1 DEF SessionOK
  <2>5. QueueOK' /\ DialOK'
    BY <2>1 DEF QueueOK, DialOK
  <2>6. SessionOK'
    BY <1>1, <2>1, <2>2, <2>4 DEF SessionOK
  <2>7. NoLeakedSession'
    BY <1>1, <2>1 DEF NoLeakedSession
  <2>8. ConnectedOK'
    BY <2>1, <2>3 DEF ConnectedOK, ConnectedIsServed
  <2>9. ParkedOK'
    BY <2>1, <2>2 DEF ParkedOK, ParkedIsAnswered
  <2>10. QED
    BY <2>5, <2>6, <2>7, <2>8, <2>9
<1>8. QED
  BY <1>2, <1>4, <1>5, <1>6, <1>7

(* Every step keeps what is held. *)
LEMMA SessionStep == SessionInv /\ [Next]_vars => SessionInv'
<1> SUFFICES ASSUME SessionInv, [Next]_vars PROVE SessionInv'
  OBVIOUS
<1>1. IInv'
  BY InvStep DEF SessionInv
<1>2. TypeOK'
  BY <1>1 DEF IInv
<1>3. CASE UserStep \/ Event \/ UNCHANGED vars
  BY <1>1, <1>2, <1>3, BesideStep DEF SessionInv
<1>4. CASE \/ FinishStop \/ Probe \/ TunStartOk \/ TunStartFail \/ TunRestore \/ TunStop
           \/ Proxy \/ ProxyApplyOk
  BY <1>1, <1>4, RoutingStep DEF SessionInv
<1>5. ASSUME \/ SkipOvertaken \/ Done \/ Ended \/ Failed \/ Cleaned
             \/ (Replace \/ DialStart) /\ ~IsCurrent
             \/ ProxyApplyFail /\ Running.kind # "connect"
             \/ (RoutingUpdate \/ Reapply \/ HoldStop) /\ Finish
      PROVE  SessionInv'
  BY <1>1, <1>2, <1>5, SettleStep DEF SessionInv
<1>6. ASSUME \/ BeginConnect
             \/ (Replace \/ DialStart) /\ IsCurrent
             \/ \E c \in Clients \ open : DialOk(c) \/ DialOvertaken(c)
             \/ \E e \in Failures : DialFail(e)
      PROVE  SessionInv'
  BY <1>1, <1>6, DialStep DEF SessionInv
<1>7. ASSUME \/ ListenOk \/ ListenFail
             \/ ProxyApplyFail /\ Running.kind = "connect"
             \/ Established \/ Apply \/ Applied
      PROVE  SessionInv'
  BY <1>1, <1>2, <1>7, SetupStep DEF SessionInv
<1>8. ASSUME \/ (RoutingUpdate \/ Reapply \/ HoldStop) /\ ~Finish
             \/ DisconnectInternal \/ StopRouting \/ StopListener
      PROVE  SessionInv'
  BY <1>1, <1>8, StopStep DEF SessionInv
<1>9. CASE FinishClose \/ BeginCleanup
  BY <1>1, <1>9, CloseStep DEF SessionInv
<1>10. CASE SkipOvertaken \/ Done \/ Ended \/ Failed \/ Cleaned
  BY <1>5, <1>10
<1>11. CASE Replace \/ DialStart
  BY <1>5, <1>6, <1>11
<1>12. CASE BeginConnect
  BY <1>6, <1>12
<1>13. ASSUME NEW c \in Clients \ open, DialOk(c) \/ DialOvertaken(c) PROVE SessionInv'
  BY <1>6, <1>13
<1>14. ASSUME NEW e \in Failures, DialFail(e) PROVE SessionInv'
  BY <1>6, <1>14
<1>15. CASE ListenOk \/ ListenFail \/ Established \/ Apply \/ Applied
  BY <1>7, <1>15
<1>16. CASE ProxyApplyFail
  BY <1>5, <1>7, <1>16
<1>17. CASE RoutingUpdate \/ Reapply \/ HoldStop
  BY <1>5, <1>8, <1>17
<1>18. CASE DisconnectInternal \/ StopRouting \/ StopListener
  BY <1>8, <1>18
<1>19. QED
  BY <1>3, <1>4, <1>9, <1>10, <1>11, <1>12, <1>13, <1>14, <1>15, <1>16, <1>17, <1>18
     DEF Next, QueueStep

LEMMA SessionInit == Init => SessionInv
<1> SUFFICES ASSUME Init PROVE SessionInv
  OBVIOUS
<1>1. IInv
  BY InvInit
<1>2. queue = <<>> /\ Len(queue) = 0 /\ at = "idle" /\ Continuation = "idle" /\ ~SessionInHand
  BY EmptySeq DEF Init, Continuation, SessionInHand, ApplyPoints
<1>3. QueueOK /\ DialOK /\ SessionOK
  BY <1>2 DEF QueueOK, DialOK, SessionOK
<1>4. NoLeakedSession /\ ConnectedOK /\ ParkedOK
  BY <1>2 DEF Init, NoLeakedSession, ConnectedOK, ConnectedIsServed, ParkedOK, ParkedIsAnswered
<1>5. QED
  BY <1>1, <1>3, <1>4 DEF SessionInv, Held

LEMMA SessionHolds == Spec => []SessionInv
  BY SessionInit, SessionStep, PTL DEF Spec

-----------------------------------------------------------------------------
(* What holds of every behaviour *)

(* Every SSH session that is open is the client in use, is in the hands of the
   running mutation or waits for its cleanup, whatever overtook the attempt that
   opened it; and none is left open when a new one is dialled. *)
THEOREM NoSessionIsLost == Spec => []NoLeakedSession
<1>1. SessionInv => NoLeakedSession
  BY DEF SessionInv, Held
<1>2. QED
  BY <1>1, SessionHolds, PTL

(* The status Connected is true: the session is open and its events are heard, the
   routing is in, the listener is up and nobody is kept waiting.  No late stop of
   an earlier outage takes any of it down. *)
THEOREM ConnectedIsTrue == Spec => []ConnectedIsServed
<1>1. SessionInv => ConnectedIsServed
  BY DEF SessionInv, Held, ConnectedOK
<1>2. QED
  BY <1>1, SessionHolds, PTL

(* A connection that waitForTunnel parked has the listener it came by, and somebody
   to answer it: a session that is still wanted, or the stop that refuses it. *)
THEOREM ParkedHasAnAnswer == Spec => []ParkedIsAnswered
<1>1. SessionInv => ParkedIsAnswered
  BY DEF SessionInv, Held, ParkedOK
<1>2. QED
  BY <1>1, SessionHolds, PTL

(* A counted rejection and a session that is wanted: how steps leave them *)
LEMMA RejectedStep ==
  IInv /\ RejectedCredentialsAreNotReplayed /\ [Next]_vars => RejectedCredentialsAreNotReplayed'
<1> SUFFICES ASSUME IInv, RejectedCredentialsAreNotReplayed, [Next]_vars,
                    consecutiveAuthFailures' > 0, Wanted'
             PROVE  sessionEstablished' /\ consecutiveAuthFailures' < MaxAuthFailures
  BY DEF RejectedCredentialsAreNotReplayed
<1>1. consecutiveAuthFailures \in Nat
  BY DEF IInv, TypeOK, RetryType
<1>2. ASSUME consecutiveAuthFailures' = consecutiveAuthFailures, Wanted,
             sessionEstablished' \/ sessionEstablished' = sessionEstablished
      PROVE  sessionEstablished' /\ consecutiveAuthFailures' < MaxAuthFailures
  <2>1. consecutiveAuthFailures > 0
    BY <1>2
  <2>2. sessionEstablished /\ consecutiveAuthFailures < MaxAuthFailures
    BY <1>2, <2>1, Zenon DEF RejectedCredentialsAreNotReplayed
  <2>3. sessionEstablished'
    BY <1>2, <2>2, Zenon
  <2>4. QED
    BY <1>2, <2>2, <2>3
<1>3. CASE Connect
  BY <1>3 DEF Connect
<1>4. CASE \E c \in Clients \ open : DialOk(c)
  BY <1>4 DEF DialOk
<1>5. CASE Failed
  <2>1. CASE ~IsCurrent
    BY <1>2, <1>5, <2>1 DEF Failed, retry, Wanted
  <2>2. CASE IsCurrent /\ MayRetry
    <3>1. /\ consecutiveAuthFailures' = AuthFailures /\ sessionEstablished' = sessionEstablished
          /\ Wanted
      BY <1>5, <2>2 DEF Failed, ScheduleReconnect, Wanted
    <3>2. CASE run.error = "lost"
      BY <1>2, <3>1, <3>2 DEF AuthFailures
    <3>3. CASE run.error # "lost"
      BY <2>2, <3>1, <3>3 DEF MayRetry
    <3>4. QED
      BY <3>2, <3>3
  <2>3. CASE IsCurrent /\ ~MayRetry
    BY <1>5, <2>3 DEF Failed, HaltReconnect, Wanted
  <2>4. QED
    BY <2>1, <2>2, <2>3
<1>6. CASE Cleaned
  <2>1. /\ UNCHANGED <<lastRequest, disconnectRequested, disposed, consecutiveAuthFailures,
                       sessionEstablished>>
        /\ reconnectHalted' = reconnectHalted \/ reconnectHalted'
    BY <1>6 DEF Cleaned, ScheduleReconnect, HaltReconnect
  <2>2. QED
    BY <1>2, <2>1 DEF Wanted
<1>7. CASE ReconnectTimerFires
  <2>1. /\ UNCHANGED <<reconnectHalted, disposed, consecutiveAuthFailures, sessionEstablished>>
        /\ \/ lastRequest /\ ~disconnectRequested /\ ~reconnectHalted
           \/ UNCHANGED <<lastRequest, disconnectRequested>>
    BY <1>7 DEF ReconnectTimerFires
  <2>2. QED
    BY <1>2, <2>1 DEF Wanted
<1>8. CASE BeginDisconnect \/ Disconnect \/ ClearError \/ Dispose
  BY <1>8 DEF BeginDisconnect, Disconnect, ClearError, Dispose, EndLifecycle, Wanted
<1>9. CASE Established \/ Applied
  <2>1. /\ UNCHANGED intent /\ consecutiveAuthFailures' = consecutiveAuthFailures
        /\ sessionEstablished' \/ sessionEstablished' = sessionEstablished
    BY <1>9 DEF Established, Applied, BecomeConnected
  <2>2. QED
    BY <1>2, <2>1 DEF Wanted, intent
<1>10. ASSUME UNCHANGED <<intent, consecutiveAuthFailures, sessionEstablished>>
       PROVE  sessionEstablished' /\ consecutiveAuthFailures' < MaxAuthFailures
  BY <1>2, <1>10 DEF Wanted, intent
<1>11. CASE \/ FinishStop \/ FinishClose \/ SkipOvertaken \/ Done
            \/ BeginConnect \/ Replace \/ DialStart
            \/ \E c \in Clients \ open : DialOvertaken(c)
            \/ \E e \in Failures : DialFail(e)
            \/ ListenOk \/ ListenFail \/ Apply
  BY <1>10, <1>11 DEF FinishStop, FinishClose, SkipOvertaken, Done, BeginConnect, Replace,
     DialStart, DialOvertaken, DialFail, ListenOk, ListenFail, Apply, retry
<1>12. CASE \/ Probe \/ TunStartOk \/ TunStartFail \/ TunRestore \/ TunStop
            \/ Proxy \/ ProxyApplyOk \/ ProxyApplyFail
            \/ RoutingUpdate \/ Reapply \/ BeginCleanup
  BY <1>10, <1>12 DEF Probe, TunStartOk, TunStartFail, TunRestore, TunStop, Proxy,
     ProxyApplyOk, ProxyApplyFail, RoutingUpdate, Reapply, BeginCleanup, retry
<1>13. CASE \/ DisconnectInternal \/ StopRouting \/ StopListener \/ Ended \/ HoldStop
            \/ UpdateRouting \/ HoldTimerFires \/ HelperDies
            \/ \E retryable \in BOOLEAN : ClientFails(retryable)
            \/ \E w \in Conns : Park(w) \/ Unpark(w)
            \/ UNCHANGED vars
  BY <1>10, <1>13 DEF DisconnectInternal, StopRouting, StopListener, Ended, HoldStop,
     UpdateRouting, HoldTimerFires, HelperDies, ClientFails, Park, Unpark, vars, retry
<1>14. QED
  BY <1>3, <1>4, <1>5, <1>6, <1>7, <1>8, <1>9, <1>11, <1>12, <1>13
     DEF Next, QueueStep, UserStep, Event

(* Credentials that the server rejected are presented again unasked only after they
   worked in this session, and fewer than MaxAuthFailures times running, for every
   order of rejections, drops, successes and calls of connect. *)
THEOREM RejectionsAreBounded == Spec => []RejectedCredentialsAreNotReplayed
<1>1. Init => RejectedCredentialsAreNotReplayed
  BY DEF Init, RejectedCredentialsAreNotReplayed
<1>2. QED
  BY <1>1, InvHolds, RejectedStep, PTL DEF Spec

(* The four together: the session of the service is accounted for, on every machine,
   for any number of clients, connections, queued mutations and rejections. *)
THEOREM SessionIsAlwaysAccounted == Spec => []SessionIsAccounted
<1>1. SessionInv /\ RejectedCredentialsAreNotReplayed => SessionIsAccounted
  BY DEF SessionInv, Held, ConnectedOK, ParkedOK, SessionIsAccounted
<1>2. QED
  BY <1>1, SessionHolds, RejectionsAreBounded, PTL

(***************************************************************************)
(* Where the machine's traffic goes.                                        *)
(***************************************************************************)

-----------------------------------------------------------------------------
(* The inductive invariant *)

(* Whatever the machine is pointed at belongs to routing that is applied, or is
   being taken down. *)
RoutingOwned ==
  /\ systemProxy = "listener" => systemRoutingApplied \/ at = "stop" \/ CleanupMayFail
  /\ tunRoutingActive \/ tunStartAttempted => systemRoutingApplied
  /\ at \in ApplyPoints => systemRoutingApplied
  /\ at \in {"stop", "tunStop"} => ~tunRoutingActive /\ ~tunStartAttempted
  /\ at = "stop" => ~systemRoutingApplied
  /\ active => AdapterInHand
  /\ adapter => AdapterInHand \/ forgotten \/ CleanupMayFail

(* A stop begins: what it has to take down is noted. *)
LEMMA OwnedByStop ==
  ASSUME RoutingOwned, at \notin {"tunRestore", "stop", "tunStop"},
         NEW n \in Segments, NEW r \in Locals, BeginStop(n, r)
  PROVE  RoutingOwned'
  BY DEF RoutingOwned, AdapterInHand, BeginStop, Locals, ApplyPoints

(* An apply begins, of routing that is in place already. *)
LEMMA OwnedByApply ==
  ASSUME RoutingOwned, at \notin {"tunRestore", "stop", "tunStop"}, systemRoutingApplied',
         UNCHANGED systemProxy,
         NEW n \in Segments, NEW r \in Locals, BeginApply(n, r)
  PROVE  RoutingOwned'
  BY DEF RoutingOwned, AdapterInHand, BeginApply, BeginTunStop, Locals, ApplyPoints, tun

(* A step beside the routing. *)
LEMMA OwnedBeside ==
  ASSUME RoutingOwned, UNCHANGED routing,
         \/ at' = at /\ (at \in {"stop", "tunStop"} => run'.stopsTun = run.stopsTun)
         \/ /\ at \notin {"tunRestore", "stop", "tunStop"}
            /\ at' \notin {"stop", "tunStop"} /\ (at' \in ApplyPoints => at \in ApplyPoints)
  PROVE  RoutingOwned'
  BY DEF RoutingOwned, AdapterInHand, routing, tun, ApplyPoints

(* What a stop noted is down when it is over, the proxy setting unless undoing failed. *)
LEMMA OwnedStep ==
  ASSUME SessionInv, RoutingOwned, [Next]_vars
  PROVE  RoutingOwned'
<1>1. /\ run \in Locals /\ run.next \in Segments /\ NoLocals \in Locals
      /\ run.next \notin Awaits \cup {"idle", "proxy"}
  BY NextIsSegment, NoLocalsType DEF SessionInv, IInv
<1>2. CASE FinishStop \/ TunStop
  <2>1. /\ at \in {"stop", "tunStop"}
        /\ at' = IF at = "stop" THEN run.next ELSE "proxy"
        /\ UNCHANGED <<tunRoutingActive, tunStartAttempted, systemRoutingApplied>>
        /\ systemProxy' = "direct" \/ CleanupMayFail \/ (at = "tunStop" /\ systemProxy' = systemProxy)
    BY <1>2 DEF FinishStop, TunStop, GoTo, At
  <2>2. ~active' /\ (adapter' => forgotten' \/ CleanupMayFail)
    <3>1. /\ active' = (active /\ ~run.stopsTun)
          /\ adapter' => adapter /\ (~run.stopsTun \/ CleanupMayFail)
          /\ forgotten' = (forgotten /\ adapter')
      BY <1>2 DEF FinishStop, TunStop, DataplaneStopped
    <3>2. active => run.stopsTun
      BY <2>1 DEF RoutingOwned, AdapterInHand
    <3>3. adapter => run.stopsTun \/ forgotten \/ CleanupMayFail
      BY <2>1 DEF RoutingOwned, AdapterInHand
    <3>4. QED
      BY <3>1, <3>2, <3>3
  <2>3. QED
    BY <1>1, <2>1, <2>2 DEF RoutingOwned, AdapterInHand, Segments, Awaits, ApplyPoints
<1>3. CASE FinishClose \/ SkipOvertaken \/ Done
  <2>1. at \in {"close", "idle", "done"} /\ at' \in {"idle", run.next} /\ UNCHANGED routing
    BY <1>3 DEF FinishClose, SkipOvertaken, Done, At, GoTo, Finish
  <2>2. QED
    BY <1>1, <2>1, OwnedBeside DEF Segments, Awaits, ApplyPoints
<1>4. CASE BeginConnect
  <2>1. at = "idle"
    BY <1>4 DEF BeginConnect, Begins, At
  <2>2. CASE UNCHANGED routing /\ \E r : TakeClient(r)
    BY <2>1, <2>2, OwnedBeside DEF TakeClient, ApplyPoints
  <2>3. CASE \E r \in Locals : BeginStop("replace", r)
    BY <2>1, <2>3, OwnedByStop DEF Segments
  <2>4. [NoLocals EXCEPT !.hold = HoldRouting, !.holdTun = HoldTunRouting] \in Locals
    BY <1>1 DEF Locals, HoldRouting, HoldTunRouting
  <2>5. QED
    BY <1>4, <2>2, <2>3, <2>4 DEF BeginConnect
<1>5. CASE Replace \/ DialStart
  BY <1>5, OwnedBeside DEF Replace, DialStart, TakeClient, Finish, GoTo, At, ApplyPoints
<1>6. CASE \E c \in Clients \ open : DialOk(c) \/ DialOvertaken(c)
  BY <1>6, OwnedBeside DEF DialOk, DialOvertaken, At, ApplyPoints
<1>7. CASE \E e \in Failures : DialFail(e)
  <2>1. PICK e \in Failures : DialFail(e)
    BY <1>7
  <2>2. at = "dial" /\ [run EXCEPT !.error = e] \in Locals
    BY <1>1, <2>1 DEF DialFail, At, Locals
  <2>3. CASE BeginStop("failed", [run EXCEPT !.error = e])
    BY <2>2, <2>3, OwnedByStop DEF Segments
  <2>4. CASE at' = "failed" /\ UNCHANGED routing
    BY <2>2, <2>4, OwnedBeside DEF ApplyPoints
  <2>5. QED
    BY <2>1, <2>3, <2>4 DEF DialFail
<1>8. CASE ListenOk \/ ListenFail
  BY <1>8, OwnedBeside DEF ListenOk, ListenFail, SetupFails, GoTo, At, ApplyPoints
<1>9. CASE Established
  <2>1. at = "established"
    BY <1>9 DEF Established, At
  <2>2. CASE CloseSuperseded /\ UNCHANGED routing
    BY <2>1, <2>2, OwnedBeside DEF CloseSuperseded, ApplyPoints
  <2>3. CASE BecomeConnected
    BY <2>1, <2>3 DEF BecomeConnected, RoutingOwned, AdapterInHand, tun, ApplyPoints
  <2>4. CASE BeginStop("apply", run)
    BY <1>1, <2>1, <2>4, OwnedByStop DEF Segments
  <2>5. CASE ConnectApplies
    BY <1>1, <2>1, <2>5, OwnedByApply DEF ConnectApplies, Segments
  <2>6. QED
    BY <1>9, <2>2, <2>3, <2>4, <2>5 DEF Established
<1>10. CASE Apply
  BY <1>1, <1>10, OwnedByApply DEF Apply, ConnectApplies, Segments, At
<1>11. CASE Applied
  <2>1. at = "applied"
    BY <1>11 DEF Applied, At
  <2>2. CASE CloseSuperseded /\ UNCHANGED routing
    BY <2>1, <2>2, OwnedBeside DEF CloseSuperseded, ApplyPoints
  <2>3. CASE BecomeConnected
    BY <2>1, <2>3 DEF BecomeConnected, RoutingOwned, AdapterInHand, tun, ApplyPoints
  <2>4. QED
    BY <1>11, <2>2, <2>3 DEF Applied
<1>12. CASE Probe \/ TunStartOk \/ TunStartFail
  <2>1. CASE Probe
    <3>1. at = "probe" /\ UNCHANGED <<systemRoutingApplied, systemProxy>>
      BY <2>1 DEF Probe, At
    <3>2. CASE GoTo("proxy") /\ UNCHANGED tun
      BY <1>1, <3>1, <3>2 DEF GoTo, RoutingOwned, AdapterInHand, ApplyPoints, tun
    <3>3. CASE BeginTunStop(run) /\ UNCHANGED <<adapter, forgotten>>
      <4>1. run'.stopsTun = (tunRoutingActive \/ tunStartAttempted)
        BY <1>1, <3>3 DEF BeginTunStop, Locals
      <4>2. at' = "tunStop" /\ ~tunRoutingActive' /\ ~tunStartAttempted'
        BY <3>3 DEF BeginTunStop
      <4>3. UNCHANGED <<active, adapter, forgotten>>
        BY <3>3 DEF BeginTunStop
      <4>4. AdapterInHand => AdapterInHand'
        BY <3>1, <4>1, <4>2 DEF AdapterInHand
      <4>5. QED
        BY <1>1, <3>1, <4>2, <4>3, <4>4 DEF RoutingOwned, ApplyPoints
    <3>4. CASE /\ tunStartAttempted'
               /\ ~forgotten'
               /\ GoTo("tunStart")
               /\ UNCHANGED <<tunRoutingActive, active, adapter>>
      BY <1>1, <3>1, <3>4 DEF GoTo, RoutingOwned, AdapterInHand, ApplyPoints
    <3>5. QED
      BY <2>1, <3>2, <3>3, <3>4 DEF Probe
  <2>2. CASE TunStartOk
    BY <1>1, <1>12, <2>2 DEF TunStartOk, GoTo, At, RoutingOwned, AdapterInHand, ApplyPoints,
                             Locals
  <2>3. CASE TunStartFail
    BY <1>1, <1>12, <2>3 DEF TunStartFail, BeginTunStop, GoTo, At, RoutingOwned,
                             AdapterInHand, ApplyPoints, Locals
  <2>4. QED
    BY <1>12, <2>1, <2>2, <2>3
<1>13. CASE TunRestore \/ Proxy \/ ProxyApplyOk \/ ProxyApplyFail
  BY <1>1, <1>13 DEF TunRestore, Proxy, ProxyApplyOk, ProxyApplyFail, SetupFails, Finish, GoTo, At,
                     RoutingOwned, AdapterInHand, ApplyPoints, routing, tun, Segments, Awaits
<1>14. CASE RoutingUpdate \/ Reapply
  <2>1. at = "idle" /\ UNCHANGED <<systemRoutingApplied, systemProxy>>
    BY <1>14 DEF RoutingUpdate, Reapply, Begins, At
  <2>2. CASE BeginApply("done", NoLocals)
    <3>1. systemRoutingApplied
      BY <1>14, <2>2 DEF RoutingUpdate, Reapply, BeginApply, BeginTunStop, Finish, Begins, At,
                         SessionInv, Held, ConnectedOK, ConnectedIsServed
    <3>2. QED
      BY <1>1, <2>1, <2>2, <3>1, OwnedByApply DEF Segments
  <2>3. CASE Finish /\ UNCHANGED tun
    BY <2>1, <2>3 DEF Finish, RoutingOwned, AdapterInHand, ApplyPoints, tun
  <2>4. QED
    BY <1>14, <2>2, <2>3 DEF RoutingUpdate, Reapply
<1>15. CASE Failed \/ BeginCleanup \/ Cleaned
  BY <1>15, OwnedBeside DEF Failed, BeginCleanup, Cleaned, Finish, At, ApplyPoints
<1>16. CASE DisconnectInternal \/ StopRouting
  <2>1. at = "idle" /\ \E r \in Locals : BeginStop("stopListener", r)
    <3>1. [NoLocals EXCEPT !.session = client] \in Locals
      BY <1>1 DEF Locals, SessionInv, IInv, TypeOK, LinkType
    <3>2. QED
      BY <1>1, <1>16, <3>1 DEF DisconnectInternal, StopRouting, Begins, At
  <2>2. QED
    BY <2>1, OwnedByStop DEF Segments
<1>17. CASE StopListener \/ Ended
  <2>1. CASE StopListener
    BY <2>1, OwnedBeside DEF StopListener, At, ApplyPoints
  <2>2. CASE Ended
    <3>1. /\ at = "ended" /\ at' = "idle"
          /\ active' => active
          /\ adapter' => adapter /\ (forgotten => forgotten')
          /\ UNCHANGED <<systemProxy, systemRoutingApplied, tunRoutingActive, tunStartAttempted>>
      BY <2>2 DEF Ended, Finish, At
    <3>2. QED
      BY <3>1 DEF RoutingOwned, AdapterInHand, ApplyPoints
  <2>3. QED
    BY <1>17, <2>1, <2>2
<1>18. CASE HoldStop
  <2>1. at = "idle"
    BY <1>18 DEF HoldStop, Begins, At
  <2>2. CASE BeginStop("done", NoLocals)
    BY <1>1, <2>1, <2>2, OwnedByStop DEF Segments
  <2>3. CASE Finish /\ UNCHANGED routing
    BY <2>1, <2>3, OwnedBeside DEF Finish, ApplyPoints
  <2>4. QED
    BY <1>18, <2>2, <2>3 DEF HoldStop
<1>19. CASE UserStep
  <2>1. CASE Connect
    BY <2>1 DEF Connect, RoutingOwned, AdapterInHand, ApplyPoints
  <2>2. CASE UpdateRouting
    BY <2>2, OwnedBeside DEF UpdateRouting
  <2>3. CASE \E state \in States : EndLifecycle(state)
    <3>1. UNCHANGED <<routing, at>> /\ run'.stopsTun = run.stopsTun
      BY <1>1, <2>3 DEF EndLifecycle, Locals
    <3>2. QED
      BY <3>1, OwnedBeside
  <2>4. QED
    BY <1>19, <2>1, <2>2, <2>3
       DEF UserStep, BeginDisconnect, Disconnect, ClearError, Dispose, States
<1>20. CASE ReconnectTimerFires \/ HoldTimerFires \/ \E retryable \in BOOLEAN : ClientFails(retryable)
  <2>1. UNCHANGED <<routing, at>> /\ run'.stopsTun = run.stopsTun
    BY <1>1, <1>20 DEF ReconnectTimerFires, HoldTimerFires, ClientFails, Locals
  <2>2. QED
    BY <2>1, OwnedBeside
<1>21. CASE HelperDies
  BY <1>21 DEF HelperDies, RoutingOwned, AdapterInHand, ApplyPoints
<1>22. CASE \E w \in Conns : Park(w) \/ Unpark(w)
  BY <1>22 DEF Park, Unpark, RoutingOwned, AdapterInHand, routing, tun, exec, ApplyPoints
<1>23. CASE UNCHANGED vars
  BY <1>23 DEF vars, RoutingOwned, AdapterInHand, routing, tun, exec, ApplyPoints
<1>24. QED
  BY <1>2, <1>3, <1>4, <1>5, <1>6, <1>7, <1>8, <1>9, <1>10, <1>11, <1>12, <1>13, <1>14, <1>15, <1>16,
     <1>17, <1>18, <1>19, <1>20, <1>21, <1>22, <1>23 DEF Next, QueueStep, Event

-----------------------------------------------------------------------------
(* Routing is applied over a listener, and the listener goes after it. *)
ListenerKept ==
  /\ RoutedHasListener \/ CleanupMayFail
  /\ at \in ApplyPoints => socksProxy
  /\ Continuation \in {"stopListener", "ended"} => ~systemRoutingApplied
  /\ at = "stopListener" => systemProxy = "direct" \/ CleanupMayFail
  /\ Continuation = "ended" => ~socksProxy /\ client = NoClient

(* The running mutation moves on, and not towards the end of a teardown. *)
LEMMA ListenerMoves ==
  ASSUME ListenerKept, socksProxy => socksProxy',
         at' \in ApplyPoints => at \in ApplyPoints \/ socksProxy,
         Continuation' \notin {"stopListener", "ended"}, at' # "stopListener",
         systemProxy' \in {systemProxy, "direct"} \/ socksProxy,
         tunRoutingActive' => tunRoutingActive \/ socksProxy
  PROVE  ListenerKept'
  BY DEF ListenerKept, RoutedHasListener

(* A step beside it *)
LEMMA ListenerBeside ==
  ASSUME ListenerKept, at' = at, run'.next = run.next,
         UNCHANGED <<systemProxy, systemRoutingApplied, socksProxy>>,
         tunRoutingActive' => tunRoutingActive,
         client' \in {client, NoClient}
  PROVE  ListenerKept'
<1>1. Continuation' = Continuation
  BY DEF Continuation
<1>2. QED
  BY <1>1 DEF ListenerKept, RoutedHasListener

(* The listener outlives the routing that points at it through every step. *)
LEMMA ListenerStep ==
  ASSUME SessionInv, RoutingOwned, ListenerKept, [Next]_vars
  PROVE  ListenerKept'
<1> USE DEF local, routing, tun, link
<1>1. /\ run \in Locals /\ run.next \in Segments /\ NoLocals \in Locals
      /\ run.next \notin Awaits \cup {"idle", "proxy"} \cup ApplyPoints
  BY NextIsSegment, NoLocalsType DEF SessionInv, IInv, Segments, Awaits, ApplyPoints
<1>2. CASE FinishStop
  <2>1. /\ at = "stop" /\ at' = run.next /\ run' = run /\ Continuation = run.next
        /\ systemProxy' = "direct" \/ CleanupMayFail
        /\ UNCHANGED <<tunRoutingActive, systemRoutingApplied, socksProxy, client>>
    BY <1>2 DEF FinishStop, GoTo, At, Continuation
  <2>2. Continuation' = Continuation
    BY <1>1, <2>1 DEF Continuation, Awaits
  <2>3. QED
    BY <1>1, <2>1, <2>2 DEF ListenerKept, RoutedHasListener
<1>3. CASE FinishClose
  <2>1. /\ at = "close" /\ at' = run.next /\ run' = run /\ Continuation = run.next
        /\ UNCHANGED <<systemProxy, tunRoutingActive, systemRoutingApplied, socksProxy, client>>
    BY <1>3 DEF FinishClose, GoTo, At, Continuation
  <2>2. Continuation' = Continuation /\ Continuation # "stopListener"
    BY <1>1, <2>1 DEF Continuation, Awaits, SessionInv, Held, SessionOK
  <2>3. QED
    BY <1>1, <2>1, <2>2 DEF ListenerKept, RoutedHasListener
<1>4. CASE BeginConnect \/ Replace \/ DialStart
  <2>1. /\ UNCHANGED <<socksProxy, systemProxy>>
        /\ tunRoutingActive' => tunRoutingActive
        /\ at' \notin ApplyPoints \cup {"stopListener"}
    BY <1>4 DEF BeginConnect, Replace, DialStart, BeginStop, TakeClient, Finish, GoTo, ApplyPoints
  <2>2. \/ at' \in {"idle", "dial"}
        \/ \E r \in Locals : BeginStop("replace", r) \/ TakeClient(r)
    <3>1. [NoLocals EXCEPT !.hold = HoldRouting, !.holdTun = HoldTunRouting] \in Locals
      BY <1>1 DEF Locals, HoldRouting, HoldTunRouting
    <3>2. QED
      BY <1>1, <1>4, <3>1 DEF BeginConnect, Replace, DialStart, Finish, GoTo
  <2>3. Continuation' \in {"idle", "dial", "replace", "dialStart"}
    BY <2>2 DEF Continuation, BeginStop, TakeClient, Locals, ApplyPoints
  <2>4. QED
    BY <2>1, <2>3, ListenerMoves
<1>5. CASE \E c \in Clients \ open : DialOk(c) \/ DialOvertaken(c)
  <2>1. /\ UNCHANGED <<socksProxy, systemProxy, tunRoutingActive>>
        /\ at' \in {"established", "listen", "close"} /\ (at' = "close" => run'.next = "done")
    BY <1>1, <1>5 DEF DialOk, DialOvertaken, Locals
  <2>2. QED
    BY <2>1, ListenerMoves DEF Continuation, ApplyPoints
<1>6. CASE \E e \in Failures : DialFail(e)
  <2>1. PICK e \in Failures : DialFail(e)
    BY <1>6
  <2>2. [run EXCEPT !.error = e] \in Locals
    BY <1>1, <2>1 DEF Locals
  <2>3. /\ UNCHANGED <<socksProxy, systemProxy>>
        /\ tunRoutingActive' => tunRoutingActive
        /\ at' \in {"failed", "stop"} /\ (at' = "stop" => run'.next = "failed")
    BY <2>1, <2>2 DEF DialFail, BeginStop, Locals
  <2>4. QED
    BY <2>3, ListenerMoves DEF Continuation, ApplyPoints
<1>7. CASE ListenOk \/ ListenFail
  <2>1. /\ UNCHANGED <<systemProxy, tunRoutingActive>> /\ (socksProxy => socksProxy')
        /\ at' \in {"established", "close"} /\ (at' = "close" => run'.next = "failed")
    <3>1. CASE ListenOk
      BY <3>1 DEF ListenOk, GoTo
    <3>2. CASE ListenFail
      BY <1>1, <3>2 DEF ListenFail, SetupFails, Locals
    <3>3. QED
      BY <1>7, <3>1, <3>2
  <2>2. QED
    BY <2>1, ListenerMoves DEF Continuation, ApplyPoints
<1>8. CASE Established \/ Apply \/ Applied
  <2>1. at \in {"established", "apply", "applied"} /\ Continuation = at /\ socksProxy /\ UNCHANGED <<socksProxy, systemProxy>>
    BY <1>8 DEF Established, Apply, Applied, ConnectApplies, BeginStop, BecomeConnected, At, Continuation,
                ApplyPoints, SessionInv, Held, SessionOK
  <2>2. CASE CloseSuperseded /\ UNCHANGED routing
    BY <1>1, <2>1, <2>2, ListenerMoves DEF CloseSuperseded, Continuation, ApplyPoints, Locals
  <2>3. CASE BecomeConnected
    BY <2>1, <2>3, ListenerMoves DEF BecomeConnected, Continuation, ApplyPoints
  <2>4. CASE BeginStop("apply", run)
    BY <1>1, <2>1, <2>4, ListenerMoves DEF BeginStop, Continuation, ApplyPoints, Locals
  <2>5. CASE ConnectApplies
    <3>1. /\ at' \in {"tunStop", "probe", "proxy"} /\ run'.next = "applied"
          /\ tunRoutingActive' => tunRoutingActive
      BY <1>1, <2>5 DEF ConnectApplies, BeginApply, BeginTunStop, Locals
    <3>2. QED
      BY <2>1, <3>1, ListenerMoves DEF Continuation, ApplyPoints
  <2>6. QED
    BY <1>8, <2>2, <2>3, <2>4, <2>5 DEF Established, Apply, Applied
<1>9. CASE Probe \/ TunStartOk \/ TunStartFail \/ TunStop \/ TunRestore \/ Proxy \/ ProxyApplyOk
  <2>1. /\ at \in ApplyPoints /\ run'.next = run.next
        /\ at' \in ApplyPoints \cup {run.next} /\ UNCHANGED <<socksProxy, systemRoutingApplied>>
    BY <1>1, <1>9 DEF Probe, TunStartOk, TunStartFail, TunStop, TunRestore, Proxy, ProxyApplyOk,
                      BeginTunStop, GoTo, At, ApplyPoints, Locals
  <2>2. socksProxy
    BY <2>1 DEF ListenerKept
  <2>3. Continuation' = run.next /\ run.next \in {"applied", "done"}
    <3>1. queue # <<>>
      BY <1>9 DEF Probe, TunStartOk, TunStartFail, TunStop, TunRestore, Proxy, ProxyApplyOk, At
    <3>2. run.next \in {"applied", "done"}
      BY <2>1 DEF SessionInv, IInv, OneAttempt, RunsItsProgram
    <3>3. QED
      BY <2>1, <3>2 DEF Continuation, ApplyPoints
  <2>4. QED
    BY <2>1, <2>2, <2>3 DEF ListenerKept, RoutedHasListener, ApplyPoints
<1>10. CASE ProxyApplyFail
  <2>1. /\ at = "proxyApply" /\ UNCHANGED <<socksProxy, tunRoutingActive>>
        /\ at' \in {"close", "idle"} /\ (at' = "close" => run'.next = "failed")
    BY <1>1, <1>10 DEF ProxyApplyFail, SetupFails, Finish, At, Locals
  <2>2. QED
    BY <2>1, ListenerMoves DEF ListenerKept, Continuation, ApplyPoints
<1>11. CASE RoutingUpdate \/ Reapply
  <2>1. UNCHANGED <<socksProxy, systemProxy>>
    BY <1>11 DEF RoutingUpdate, Reapply
  <2>2. CASE BeginApply("done", NoLocals)
    <3>1. socksProxy
      BY <1>11, <2>2 DEF RoutingUpdate, Reapply, BeginApply, BeginTunStop, Finish, Begins, At
    <3>2. /\ at' \in {"tunStop", "probe", "proxy"} /\ run'.next = "done"
          /\ tunRoutingActive' => tunRoutingActive
      BY <1>1, <2>2 DEF BeginApply, BeginTunStop, Locals
    <3>3. QED
      BY <2>1, <3>1, <3>2, ListenerMoves DEF Continuation, ApplyPoints
  <2>3. CASE Finish /\ UNCHANGED tun
    BY <2>1, <2>3, ListenerMoves DEF Finish, Continuation, ApplyPoints
  <2>4. QED
    BY <1>11, <2>2, <2>3 DEF RoutingUpdate, Reapply
<1>12. CASE SkipOvertaken \/ Done \/ Failed \/ Cleaned \/ BeginCleanup
  <2>1. /\ UNCHANGED <<socksProxy, systemProxy, tunRoutingActive>>
        /\ at' \in {"close", "idle"} /\ (at' = "close" => run'.next = "cleaned")
    BY <1>1, <1>12 DEF SkipOvertaken, Done, Failed, Cleaned, BeginCleanup, Finish, Locals
  <2>2. QED
    BY <2>1, ListenerMoves DEF Continuation, ApplyPoints
<1>13. CASE DisconnectInternal \/ StopRouting
  <2>1. \E r \in Locals : BeginStop("stopListener", r)
    <3>1. [NoLocals EXCEPT !.session = client] \in Locals
      BY <1>1 DEF Locals, SessionInv, IInv, TypeOK, LinkType
    <3>2. QED
      BY <1>1, <1>13, <3>1 DEF DisconnectInternal, StopRouting
  <2>2. at' = "stop" /\ Continuation' = "stopListener" /\ ~systemRoutingApplied' /\ ~tunRoutingActive'
    BY <2>1 DEF BeginStop, Continuation, Locals
  <2>3. UNCHANGED <<systemProxy, socksProxy>>
    BY <1>13 DEF DisconnectInternal, StopRouting, BeginStop
  <2>4. QED
    BY <2>2, <2>3 DEF ListenerKept, RoutedHasListener, ApplyPoints
<1>14. CASE StopListener
  <2>1. /\ at = "stopListener" /\ ~socksProxy' /\ run'.next = "ended"
        /\ at' \in {"done", "close", "ended"} /\ (Running.kind = "stopRouting" => at' = "done")
        /\ UNCHANGED <<systemProxy, tunRoutingActive, systemRoutingApplied, client>>
    BY <1>1, <1>14 DEF StopListener, At, Locals
  <2>2. /\ Continuation = "stopListener" /\ ~systemRoutingApplied /\ (systemProxy = "direct" \/ CleanupMayFail)
        /\ ~tunRoutingActive
    BY <2>1 DEF Continuation, ApplyPoints, ListenerKept, RoutingOwned
  <2>3. Running.kind # "stopRouting" => client = NoClient
    BY <2>2 DEF SessionInv, Held, SessionOK
  <2>4. QED
    BY <2>1, <2>2, <2>3 DEF ListenerKept, RoutedHasListener, Continuation, ApplyPoints
<1>15. CASE Ended
  <2>1. UNCHANGED <<socksProxy, systemProxy, tunRoutingActive>> /\ at' = "idle"
    BY <1>15 DEF Ended, Finish
  <2>2. QED
    BY <2>1, ListenerMoves DEF Continuation, ApplyPoints
<1>16. CASE HoldStop
  <2>1. /\ UNCHANGED <<socksProxy, systemProxy>>
        /\ tunRoutingActive' => tunRoutingActive
        /\ at' \in {"stop", "idle"} /\ (at' = "stop" => run'.next = "done")
    BY <1>1, <1>16 DEF HoldStop, BeginStop, Finish, Locals
  <2>2. QED
    BY <2>1, ListenerMoves DEF Continuation, ApplyPoints
<1>17. CASE UserStep
  <2>1. CASE Connect \/ UpdateRouting
    <3>1. UNCHANGED <<systemProxy, systemRoutingApplied, tunRoutingActive, socksProxy, client, at, run>>
      BY <2>1 DEF Connect, UpdateRouting
    <3>2. QED
      BY <3>1, ListenerBeside
  <2>2. CASE \E state \in States : EndLifecycle(state)
    <3>1. UNCHANGED <<routing, local, at, client>> /\ run'.next = run.next
      BY <1>1, <2>2 DEF EndLifecycle, Locals
    <3>2. QED
      BY <3>1, ListenerBeside
  <2>3. QED
    BY <1>17, <2>1, <2>2 DEF UserStep, BeginDisconnect, Disconnect, ClearError, Dispose, States
<1>18. CASE ReconnectTimerFires \/ HoldTimerFires \/ \E retryable \in BOOLEAN : ClientFails(retryable)
  <2>1. /\ UNCHANGED <<routing, local, at>> /\ run'.next = run.next
        /\ client' \in {client, NoClient}
    BY <1>1, <1>18 DEF ReconnectTimerFires, HoldTimerFires, ClientFails, Locals
  <2>2. QED
    BY <2>1, ListenerBeside
<1>19. CASE HelperDies \/ \E w \in Conns : Park(w) \/ Unpark(w)
  BY <1>19, ListenerBeside DEF HelperDies, Park, Unpark, exec
<1>20. CASE UNCHANGED vars
  BY <1>20, ListenerBeside DEF vars, exec
<1>21. QED
  BY <1>2, <1>3, <1>4, <1>5, <1>6, <1>7, <1>8, <1>9, <1>10, <1>11, <1>12, <1>13, <1>14, <1>15, <1>16,
     <1>17, <1>18, <1>19, <1>20 DEF Next, QueueStep, Event

-----------------------------------------------------------------------------
(* What a step does to the queue, for the invariants about who waits in it *)

(* What waits is as current as it was, but for the stop of an expired hold and an
   older routing update. *)
Firm(q, p, d) ==
  \A i \in 1..(Len(q) - d) : q[i + d].kind \notin {"holdStop", "routing"} => p[i] = q[i + d]

(* The running mutation goes on, or settles, with a stop behind the others where
   the loop is halted. *)
QueueGoesOn == /\ at' # "idle" /\ Left(queue, queue', 0) /\ Firm(queue, queue', 0)
               /\ UNCHANGED <<status, intent>>
QueueSettles == at' = "idle" /\ Left(queue, queue', 1) /\ Firm(queue, queue', 1)
QueueHalts == /\ at' = "idle" /\ Joined(queue, queue', 1, Mutation("stopRouting"))
              /\ Firm(queue, queue', 1)
              /\ HaltReconnect /\ IsCurrent /\ Running.kind \in Lifecycle

(* Appending, settling and every way of overtaking leave it so. *)
LEMMA FirmFacts ==
  ASSUME NEW q \in Seq(Mutations), NEW m \in Mutations
  PROVE  /\ Firm(q, q, 0) /\ Firm(q, OvertakeHold(q), 0) /\ Firm(q, OvertakeRouting(q), 0)
         /\ Firm(q, Append(q, m), 0) /\ Firm(q, Append(OvertakeRouting(q), m), 0)
         /\ q # <<>> => /\ Firm(q, Tail(q), 1) /\ Firm(q, OvertakeHold(Tail(q)), 1)
                        /\ Firm(q, Append(Tail(q), m), 1)
                        /\ Firm(q, OvertakeHold(Append(Tail(q), m)), 1)
<1>1. Len(q) \in Nat /\ Len(q) - 0 = Len(q) /\ \A i \in 1..Len(q) : i + 0 = i
  BY LenProperties
<1>2. Firm(q, q, 0) /\ Firm(q, OvertakeHold(q), 0) /\ Firm(q, OvertakeRouting(q), 0)
  BY <1>1, OvertakeHoldFacts, OvertakeRoutingFacts DEF Firm
<1>3. Firm(q, Append(q, m), 0)
  BY <1>1, AppendFacts DEF Firm
<1>4. Firm(q, Append(OvertakeRouting(q), m), 0)
  <2>1. OvertakeRouting(q) \in Seq(Mutations) /\ Len(OvertakeRouting(q)) = Len(q)
    BY OvertakeRoutingFacts
  <2>2. \A i \in 1..Len(q) : Append(OvertakeRouting(q), m)[i] = OvertakeRouting(q)[i]
    BY <2>1, AppendFacts
  <2>3. \A i \in 1..Len(q) : q[i].kind # "routing" => OvertakeRouting(q)[i] = q[i]
    BY OvertakeRoutingFacts
  <2>4. QED
    BY <1>1, <2>2, <2>3 DEF Firm
<1>5. ASSUME q # <<>>
      PROVE  /\ Firm(q, Tail(q), 1) /\ Firm(q, OvertakeHold(Tail(q)), 1)
             /\ Firm(q, Append(Tail(q), m), 1) /\ Firm(q, OvertakeHold(Append(Tail(q), m)), 1)
  <2>1. /\ Tail(q) \in Seq(Mutations) /\ Len(Tail(q)) = Len(q) - 1
        /\ \A i \in 1..(Len(q) - 1) : Tail(q)[i] = q[i + 1]
    BY <1>5, TailFacts
  <2>2. /\ Append(Tail(q), m) \in Seq(Mutations) /\ Len(Append(Tail(q), m)) = Len(q)
        /\ \A i \in 1..(Len(q) - 1) : Append(Tail(q), m)[i] = q[i + 1]
    BY <1>1, <2>1, AppendFacts
  <2>3. \A i \in 1..(Len(q) - 1) :
          q[i + 1].kind # "holdStop" => OvertakeHold(Tail(q))[i] = q[i + 1]
    <3> DEFINE p == Tail(q)
    <3> HIDE DEF p
    <3>1. /\ p \in Seq(Mutations) /\ Len(p) = Len(q) - 1
          /\ \A i \in 1..(Len(q) - 1) : p[i] = q[i + 1]
      BY <2>1 DEF p
    <3>2. \A i \in 1..(Len(q) - 1) : q[i + 1].kind # "holdStop" => OvertakeHold(p)[i] = q[i + 1]
      BY <1>1, <3>1, OvertakeHoldFacts
    <3>3. QED
      BY <3>2 DEF p
  <2>4. \A i \in 1..(Len(q) - 1) :
          q[i + 1].kind # "holdStop" => OvertakeHold(Append(Tail(q), m))[i] = q[i + 1]
    <3> DEFINE p == Append(Tail(q), m)
    <3> HIDE DEF p
    <3>1. /\ p \in Seq(Mutations) /\ Len(p) = Len(q) /\ \A i \in 1..(Len(q) - 1) : p[i] = q[i + 1]
      BY <2>2 DEF p
    <3>2. \A i \in 1..(Len(q) - 1) : q[i + 1].kind # "holdStop" => OvertakeHold(p)[i] = q[i + 1]
      BY <1>1, <3>1, OvertakeHoldFacts
    <3>3. QED
      BY <3>2 DEF p
  <2>5. QED
    BY <2>1, <2>2, <2>3, <2>4 DEF Firm
<1>6. QED
  BY <1>2, <1>3, <1>4, <1>5

(* Every step of the running mutation is one of the three. *)
LEMMA QueueForms ==
  ASSUME SessionInv, QueueStep
  PROVE  queue # <<>> /\ (QueueGoesOn \/ QueueSettles \/ QueueHalts)
<1>1. /\ run \in Locals /\ run.next \in Segments /\ run.next # "idle" /\ queue \in Seq(Mutations)
  BY NextIsSegment DEF SessionInv, IInv
<1>2. queue # <<>>
  BY DEF QueueStep, FinishStop, FinishClose, SkipOvertaken, Done, BeginConnect, Replace, DialStart,
         DialOk, DialOvertaken, DialFail, ListenOk, ListenFail, Established, Apply, Applied, Probe,
         TunStartOk, TunStartFail, TunRestore, TunStop, Proxy, ProxyApplyOk, ProxyApplyFail,
         RoutingUpdate, Reapply, Failed, BeginCleanup, Cleaned, DisconnectInternal, StopRouting,
         StopListener, Ended, HoldStop, Begins, At
<1> SUFFICES QueueGoesOn \/ QueueSettles \/ QueueHalts
  BY <1>2
<1>3. /\ Left(queue, queue, 0) /\ Left(queue, OvertakeHold(queue), 0)
      /\ Left(queue, Tail(queue), 1) /\ Tail(queue) \in Seq(Mutations)
      /\ Mutation("stopRouting") \in Mutations
  BY <1>1, <1>2, OvertakesLeave, TailLeaves, TailFacts, MutationType DEF Kinds
<1> DEFINE s == Mutation("stopRouting")
<1>0. /\ Firm(queue, queue, 0) /\ Firm(queue, OvertakeHold(queue), 0)
      /\ Firm(queue, Tail(queue), 1) /\ Firm(queue, OvertakeHold(Tail(queue)), 1)
      /\ Firm(queue, Append(Tail(queue), s), 1) /\ Firm(queue, OvertakeHold(Append(Tail(queue), s)), 1)
  <2> HIDE DEF s
  <2>1. s \in Mutations
    BY <1>3 DEF s
  <2>2. QED
    BY <1>1, <1>2, <2>1, FirmFacts
<1> HIDE DEF s
<1>4. Left(queue, OvertakeHold(Tail(queue)), 1)
  <2>1. Left(Tail(queue), OvertakeHold(Tail(queue)), 0)
    BY <1>3, OvertakesLeave
  <2>2. QED
    BY <1>3, <2>1, LeftOfLeft
<1>5. /\ Joined(queue, Append(Tail(queue), Mutation("stopRouting")), 1, Mutation("stopRouting"))
      /\ Joined(queue, OvertakeHold(Append(Tail(queue), Mutation("stopRouting"))), 1,
                Mutation("stopRouting"))
  <2>1. Mutation("stopRouting") \in Mutations /\ Mutation("stopRouting").kind = "stopRouting"
    BY MutationType DEF Kinds, Mutation
  <2>2. Joined(queue, Append(Tail(queue), Mutation("stopRouting")), 1, Mutation("stopRouting"))
    BY <1>3, <2>1, AppendJoins
  <2>3. QED
    BY <2>1, <2>2, LeftOfJoined
<1>6. ASSUME queue' \in {queue, OvertakeHold(queue)}, at' # "idle", UNCHANGED <<status, intent>>
      PROVE  QueueGoesOn
  BY <1>0, <1>3, <1>6 DEF QueueGoesOn
<1>7. ASSUME queue' \in {Tail(queue), OvertakeHold(Tail(queue))}, at' = "idle"
      PROVE  QueueSettles
  BY <1>0, <1>3, <1>4, <1>7 DEF QueueSettles
<1>8. CASE FinishStop \/ FinishClose \/ TunStartOk \/ TunRestore \/ TunStop \/ Proxy \/ ProxyApplyOk
  BY <1>1, <1>6, <1>8 DEF FinishStop, FinishClose, TunStartOk, TunRestore, TunStop, Proxy, ProxyApplyOk,
                          GoTo
<1>9. CASE SkipOvertaken \/ Done \/ Ended
  BY <1>7, <1>9 DEF SkipOvertaken, Done, Ended, Finish
<1>10. CASE BeginConnect \/ Replace \/ DialStart
  BY <1>6, <1>7, <1>10 DEF BeginConnect, Replace, DialStart, BeginStop, TakeClient, Finish, GoTo
<1>11. CASE \E c \in Clients \ open : DialOk(c) \/ DialOvertaken(c)
  BY <1>6, <1>11 DEF DialOk, DialOvertaken
<1>12. CASE \E e \in Failures : DialFail(e)
  BY <1>6, <1>12 DEF DialFail, BeginStop
<1>13. CASE ListenOk \/ ListenFail
  BY <1>6, <1>13 DEF ListenOk, ListenFail, SetupFails, GoTo
<1>14. CASE Established \/ Apply \/ Applied
  <2>1. CASE BecomeConnected
    BY <1>7, <2>1 DEF BecomeConnected
  <2>2. CASE CloseSuperseded /\ UNCHANGED <<status, intent>>
    BY <1>6, <2>2 DEF CloseSuperseded
  <2>3. CASE BeginStop("apply", run) /\ UNCHANGED <<status, intent>>
    BY <1>6, <2>3 DEF BeginStop
  <2>4. CASE ConnectApplies /\ UNCHANGED <<status, intent>>
    BY <1>6, <2>4 DEF ConnectApplies, BeginApply, BeginTunStop
  <2>5. QED
    BY <1>14, <2>1, <2>2, <2>3, <2>4 DEF Established, Apply, Applied
<1>15. CASE Probe \/ TunStartFail
  BY <1>6, <1>15 DEF Probe, TunStartFail, BeginTunStop, GoTo
<1>16. CASE ProxyApplyFail
  BY <1>6, <1>7, <1>16 DEF ProxyApplyFail, SetupFails, Finish
<1>17. CASE RoutingUpdate \/ Reapply
  BY <1>6, <1>7, <1>17 DEF RoutingUpdate, Reapply, BeginApply, BeginTunStop, Finish
<1>18. CASE BeginCleanup \/ StopListener
  BY <1>6, <1>18 DEF BeginCleanup, StopListener
<1>19. CASE DisconnectInternal \/ StopRouting
  BY <1>6, <1>19 DEF DisconnectInternal, StopRouting, BeginStop
<1>20. CASE HoldStop
  BY <1>6, <1>7, <1>20 DEF HoldStop, BeginStop, Finish
<1>21. CASE Failed
  <2>1. Running.kind \in Lifecycle
    BY <1>21 DEF Failed, At, Continuation, ApplyPoints, Lifecycle, SessionInv, IInv, OneAttempt,
                 RunsItsProgram
  <2>2. CASE ~IsCurrent \/ MayRetry
    BY <1>7, <1>21, <2>2 DEF Failed, Finish, SuspendTunnel
  <2>3. CASE IsCurrent /\ ~MayRetry
    BY <1>0, <1>5, <1>21, <2>1, <2>3 DEF Failed, SuspendTunnel, QueueHalts, s
  <2>4. QED
    BY <2>2, <2>3
<1>22. CASE Cleaned
  <2>1. Running.kind \in Lifecycle
    BY <1>22 DEF Cleaned, At, Continuation, ApplyPoints, Lifecycle, SessionInv, IInv, OneAttempt,
                 RunsItsProgram
  <2>2. QED
    BY <1>0, <1>5, <1>7, <1>22, <2>1 DEF Cleaned, QueueHalts, s
<1>23. QED
  BY <1>2, <1>8, <1>9, <1>10, <1>11, <1>12, <1>13, <1>14, <1>15, <1>16, <1>17, <1>18, <1>19, <1>20,
     <1>21, <1>22 DEF QueueStep

(* Beside it a call, a timer or an event adds a mutation at most; a new attempt, a
   teardown and a failed session overtake those of the lifecycle before. *)
QueueAsked ==
  /\ UNCHANGED <<status, intent, run, socksProxy, client, clientCurrent>>
  /\ holdTimer \/ holdStopQueued => holdTimer' \/ holdStopQueued' \/ HoldIsOver
  /\ UNCHANGED routing \/ (HelperDies /\ UNCHANGED <<systemProxy, systemRoutingApplied>>)
  /\ Firm(queue, queue', 0)
  /\ \/ Left(queue, queue', 0)
     \/ \E k \in {"routing", "holdStop", "reapply"} : Joined(queue, queue', 0, Mutation(k))

AllOvertaken ==
  \A i \in 1..Len(queue) : queue'[i].current => queue'[i].kind \in {"holdStop", "stopRouting"}

QueueConnects ==
  \E u \in BOOLEAN, s \in {"Connecting", "Reconnecting"}, m \in Mutations :
    /\ StartConnect(u, s) /\ m.kind = "connect" /\ m.current
    /\ Joined(queue, queue', 0, m) /\ AllOvertaken

QueueEnds ==
  \E s \in {"Disconnecting", "Disconnected"} :
    /\ EndLifecycle(s) /\ AllOvertaken /\ (s = "Disconnected" => ClearError)
    /\ \/ Left(queue, queue', 0)
       \/ \E k \in {"disconnect", "dispose", "stopRouting"} : Joined(queue, queue', 0, Mutation(k))

QueueCleans ==
  \E retryable \in BOOLEAN, m \in Mutations :
    /\ ClientFails(retryable) /\ m.kind = "cleanup" /\ m.current /\ m.retryable = retryable
    /\ Joined(queue, queue', 0, m) /\ AllOvertaken

(* Every call, timer and event is one of the four. *)
LEMMA BesideForms ==
  ASSUME SessionInv, UserStep \/ Event \/ UNCHANGED vars
  PROVE  /\ UNCHANGED <<at, open>> /\ run'.next = run.next /\ run'.holdTun = run.holdTun
         /\ client' \in {client, NoClient}
         /\ QueueAsked \/ QueueConnects \/ QueueEnds \/ QueueCleans
<1>1. /\ run \in Locals /\ queue \in Seq(Mutations) /\ NoClient \notin open
      /\ client \in Clients \cup {NoClient}
  BY NextIsSegment DEF SessionInv, IInv, TypeOK, LinkType
<1>2. \A k \in Kinds : Mutation(k) \in Mutations /\ Mutation(k).kind = k /\ Mutation(k).current
  BY MutationType DEF Mutation
<1>3. /\ Left(queue, queue, 0) /\ Left(queue, Overtake(queue), 0)
      /\ Left(queue, OvertakeRouting(queue), 0)
      /\ \A m \in Mutations : Joined(queue, Append(queue, m), 0, m)
      /\ \A m \in Mutations : Joined(queue, Append(OvertakeRouting(queue), m), 0, m)
      /\ \A m \in Mutations : Joined(queue, Append(Overtake(queue), m), 0, m)
  <2>1. Left(queue, queue, 0) /\ Left(queue, Overtake(queue), 0)
        /\ Left(queue, OvertakeRouting(queue), 0)
    BY <1>1, OvertakesLeave
  <2>2. ASSUME NEW m \in Mutations, NEW p, Left(queue, p, 0) PROVE Joined(queue, Append(p, m), 0, m)
    BY <2>2, AppendJoins
  <2>3. QED
    BY <2>1, <2>2
<1>0. ASSUME NEW k \in {"routing", "holdStop", "reapply"}
      PROVE  /\ Firm(queue, queue, 0) /\ Firm(queue, Append(queue, Mutation(k)), 0)
             /\ Firm(queue, Append(OvertakeRouting(queue), Mutation(k)), 0)
  <2>1. Mutation(k) \in Mutations
    BY <1>2 DEF Kinds
  <2>2. QED
    BY <1>1, <2>1, FirmFacts
<1>4. ASSUME NEW m \in Mutations, queue' = Append(Overtake(queue), m) \/ queue' = Overtake(queue)
      PROVE  AllOvertaken
  <2>1. /\ Overtake(queue) \in Seq(Mutations) /\ Len(Overtake(queue)) = Len(queue)
        /\ \A i \in 1..Len(queue) :
             Overtake(queue)[i].current => Overtake(queue)[i].kind \in {"holdStop", "stopRouting"}
    BY <1>1, OvertakeFacts
  <2>2. \A i \in 1..Len(queue) : queue'[i] = Overtake(queue)[i]
    BY <1>4, <2>1, AppendFacts
  <2>3. QED
    BY <2>1, <2>2 DEF AllOvertaken
<1>5. ASSUME NEW u \in BOOLEAN, NEW s \in {"Connecting", "Reconnecting"}, StartConnect(u, s)
      PROVE  QueueConnects
  <2> DEFINE m == [Mutation("connect") EXCEPT !.user = u]
  <2>1. m \in Mutations /\ m.kind = "connect" /\ m.current
    BY MutationType DEF Mutation
  <2>2. queue' = Append(Overtake(queue), m)
    BY <1>5 DEF StartConnect
  <2> HIDE DEF m
  <2>3. Joined(queue, queue', 0, m) /\ AllOvertaken
    BY <1>3, <1>4, <2>1, <2>2
  <2>4. QED
    BY <1>5, <2>1, <2>3 DEF QueueConnects
<1>6. CASE Connect
  BY <1>5, <1>6 DEF Connect
<1>7. CASE ReconnectTimerFires
  <2>1. UNCHANGED <<at, run, open, client, disposed, reconnectHalted>>
    BY <1>7 DEF ReconnectTimerFires
  <2>2. CASE lastRequest /\ ~disconnectRequested /\ ~reconnectHalted
    <3>1. StartConnect(FALSE, "Reconnecting")
      BY <1>7, <2>2, Zenon DEF ReconnectTimerFires
    <3>2. QED
      BY <1>5, <2>1, <3>1
  <2>3. CASE ~(lastRequest /\ ~disconnectRequested /\ ~reconnectHalted)
    <3>1. UNCHANGED <<lastRequest, disconnectRequested, status, queue, socksProxy, routing, clientCurrent, hold>>
      BY <1>7, <2>3 DEF ReconnectTimerFires, local
    <3>2. QED
      BY <1>0, <1>3, <2>1, <3>1 DEF QueueAsked, intent, hold
  <2>4. QED
    BY <2>2, <2>3
<1>8. ASSUME NEW s \in {"Disconnecting", "Disconnected"}, EndLifecycle(s),
             NEW k \in {"disconnect", "dispose", "stopRouting"},
             queue' = Overtake(queue) \/ queue' = Append(Overtake(queue), Mutation(k)),
             s = "Disconnected" => ClearError
      PROVE  /\ UNCHANGED <<at, open>> /\ run'.next = run.next /\ run'.holdTun = run.holdTun
               /\ client' \in {client, NoClient} /\ QueueEnds
  <2>1. UNCHANGED <<at, open, client>> /\ run'.next = run.next /\ run'.holdTun = run.holdTun
    BY <1>1, <1>8 DEF EndLifecycle, Locals
  <2>2. Mutation(k) \in Mutations
    BY <1>2 DEF Kinds
  <2>3. Left(queue, queue', 0) \/ Joined(queue, queue', 0, Mutation(k))
    BY <1>3, <1>8, <2>2
  <2>4. AllOvertaken
    BY <1>4, <1>8, <2>2
  <2>5. QED
    BY <1>8, <2>1, <2>3, <2>4 DEF QueueEnds
<1>9. CASE BeginDisconnect
  BY <1>8, <1>9 DEF BeginDisconnect
<1>10. CASE Disconnect
  BY <1>8, <1>10 DEF Disconnect
<1>11. CASE ClearError
  BY <1>8, <1>11 DEF ClearError
<1>12. CASE Dispose
  BY <1>8, <1>12 DEF Dispose
<1>13. CASE UpdateRouting
  BY <1>0, <1>2, <1>3, <1>13 DEF UpdateRouting, QueueAsked, link, local, Kinds, hold
<1>14. ASSUME NEW retryable \in BOOLEAN, ClientFails(retryable)
       PROVE  /\ UNCHANGED <<at, open>> /\ run'.next = run.next /\ run'.holdTun = run.holdTun
               /\ client' \in {client, NoClient} /\ QueueCleans
  <2> DEFINE m == [Mutation("cleanup") EXCEPT !.retryable = retryable, !.client = client]
             q == Append(Overtake(queue), m)
  <2>1. m \in Mutations /\ m.kind = "cleanup" /\ m.current /\ m.retryable = retryable
    BY <1>1, MutationType DEF Mutation
  <2>2. queue' = q \/ queue' = OvertakeHold(q)
    BY <1>14 DEF ClientFails, SuspendTunnel
  <2>3. /\ UNCHANGED <<at, open>> /\ run'.next = run.next /\ run'.holdTun = run.holdTun
        /\ client' = NoClient
    BY <1>1, <1>14 DEF ClientFails, Locals
  <2> HIDE DEF m
  <2>4. Joined(queue, q, 0, m)
    BY <1>3, <2>1
  <2>5. Joined(queue, queue', 0, m)
    <3> HIDE DEF q
    <3>1. m.kind # "holdStop" /\ 0 \in 0..1
      BY <2>1
    <3>2. Joined(queue, OvertakeHold(q), 0, m)
      BY <2>1, <2>4, <3>1, LeftOfJoined
    <3>3. QED
      BY <2>2, <2>4, <3>2
  <2>6. AllOvertaken
    <3>1. q \in Seq(Mutations) /\ Len(q) = Len(queue) + 1 /\ Len(queue) \in Nat
      BY <2>4 DEF Joined, Moved
    <3>2. /\ Overtake(queue) \in Seq(Mutations) /\ Len(Overtake(queue)) = Len(queue)
          /\ \A i \in 1..Len(queue) :
               Overtake(queue)[i].current => Overtake(queue)[i].kind \in {"holdStop", "stopRouting"}
      BY <1>1, OvertakeFacts
    <3>3. \A i \in 1..Len(queue) : q[i] = Overtake(queue)[i]
      BY <2>1, <3>2, AppendFacts
    <3> HIDE DEF q
    <3>4. Left(q, OvertakeHold(q), 0)
      BY <3>1, OvertakesLeave
    <3>5. \A i \in 1..Len(queue) : OvertakeHold(q)[i].current => q[i].current /\ OvertakeHold(q)[i].kind = q[i].kind
      BY <3>1, <3>4 DEF Left, Moved, Same
    <3>6. QED
      BY <2>2, <3>2, <3>3, <3>5 DEF AllOvertaken
  <2>7. QED
    BY <1>14, <2>1, <2>3, <2>5, <2>6 DEF QueueCleans
<1>15. CASE HoldTimerFires
  BY <1>0, <1>2, <1>3, <1>15 DEF HoldTimerFires, QueueAsked, link, local, Kinds, hold
<1>16. CASE HelperDies
  BY <1>0, <1>2, <1>3, <1>16 DEF HelperDies, QueueAsked, link, local, Kinds, hold
<1>17. CASE \E w \in Conns : Park(w) \/ Unpark(w)
  BY <1>0, <1>3, <1>17 DEF Park, Unpark, QueueAsked, link, exec, hold
<1>18. CASE UNCHANGED vars
  BY <1>0, <1>3, <1>18 DEF vars, QueueAsked, link, local, exec, hold
<1>19. QED
  BY <1>6, <1>7, <1>9, <1>10, <1>11, <1>12, <1>13, <1>14, <1>15, <1>16, <1>17, <1>18
     DEF UserStep, Event

(* What waits behind a step waited before it, as current as it was at most, or has
   joined the queue. *)
LEMMA WhoWaits ==
  ASSUME NEW d \in 0..1, NEW m, Left(queue, queue', d) \/ Joined(queue, queue', d, m)
  PROVE  \A i \in 1..Len(queue') :
           \/ i + d \in 1..Len(queue) /\ Same(queue'[i], queue[i + d])
           \/ i = Len(queue') /\ Joined(queue, queue', d, m) /\ Same(queue'[i], m)
  BY DEF Left, Joined, Moved

(* How a mutation that settles leaves the status *)
LEMMA SettlesAs ==
  ASSUME SessionInv, QueueStep, at' = "idle"
  PROVE  /\ UNCHANGED <<client, lastRequest, disconnectRequested, disposed>>
         /\ \/ UNCHANGED <<status, reconnectHalted>>
            \/ /\ BecomeConnected /\ UNCHANGED reconnectHalted
               /\ Running.kind = "connect" /\ IsCurrent
            \/ /\ ScheduleReconnect \/ HaltReconnect
               /\ at \in {"failed", "cleaned"} /\ Running.kind \in Lifecycle /\ IsCurrent
            \/ Ended /\ status' = "Disconnected" /\ UNCHANGED reconnectHalted /\ IsCurrent
<1> USE DEF intent, link
<1>1. /\ run \in Locals /\ run.next \in Segments /\ run.next # "idle"
  BY NextIsSegment DEF SessionInv, IInv
<1>2. CASE SkipOvertaken \/ Done
  BY <1>2 DEF SkipOvertaken, Done
<1>3. CASE Replace \/ DialStart
  BY <1>3 DEF Replace, DialStart, TakeClient, GoTo
<1>4. CASE Established \/ Applied
  <2>1. BecomeConnected /\ ~Superseded /\ UNCHANGED <<intent, link>> /\ at \in {"established", "applied"}
    BY <1>4 DEF Established, Applied, CloseSuperseded, BeginStop, ConnectApplies, BeginApply,
                BeginTunStop, At
  <2>2. Running.kind = "connect"
    BY <2>1, InHand DEF SessionInHand, Continuation, ApplyPoints
  <2>3. QED
    BY <2>1, <2>2 DEF Superseded
<1>5. CASE ProxyApplyFail
  BY <1>5 DEF ProxyApplyFail, SetupFails
<1>6. CASE RoutingUpdate \/ Reapply \/ HoldStop
  BY <1>6 DEF RoutingUpdate, Reapply, HoldStop, BeginStop
<1>7. CASE Failed
  <2>1. at = "failed" /\ Running.kind \in Lifecycle
    BY <1>7 DEF Failed, At, Continuation, ApplyPoints, Lifecycle, SessionInv, IInv, OneAttempt,
                RunsItsProgram
  <2>2. QED
    BY <1>7, <2>1 DEF Failed
<1>8. CASE Cleaned
  <2>1. at = "cleaned" /\ Running.kind \in Lifecycle
    BY <1>8 DEF Cleaned, At, Continuation, ApplyPoints, Lifecycle, SessionInv, IInv, OneAttempt,
                RunsItsProgram
  <2>2. QED
    BY <1>8, <2>1 DEF Cleaned
<1>9. CASE Ended
  BY <1>9 DEF Ended
<1>10. ~(FinishStop \/ FinishClose \/ TunStartOk \/ TunRestore \/ TunStop \/ Proxy \/ ProxyApplyOk)
  BY <1>1 DEF FinishStop, FinishClose, TunStartOk, TunRestore, TunStop, Proxy, ProxyApplyOk, GoTo
<1>11. ~(BeginConnect \/ (\E c \in Clients \ open : DialOk(c) \/ DialOvertaken(c))
         \/ (\E e \in Failures : DialFail(e)) \/ ListenOk \/ ListenFail)
  BY DEF BeginConnect, DialOk, DialOvertaken, DialFail, ListenOk, ListenFail, TakeClient, BeginStop,
         SetupFails, GoTo
<1>12. ~(Apply \/ Probe \/ TunStartFail \/ BeginCleanup \/ DisconnectInternal \/ StopRouting \/ StopListener)
  BY DEF Apply, ConnectApplies, BeginApply, Probe, TunStartFail, BeginTunStop, BeginCleanup,
         DisconnectInternal, StopRouting, StopListener, BeginStop, GoTo
<1>13. QED
  BY <1>2, <1>3, <1>4, <1>5, <1>6, <1>7, <1>8, <1>9, <1>10, <1>11, <1>12 DEF QueueStep

-----------------------------------------------------------------------------
(* A session that is over, or was given up, has no client, and neither has one
   whose attempt has failed or whose client awaits its cleanup; an attempt that is
   not overtaken is what the status shows. *)
GivenUp ==
  /\ status \in {"Error", "Disconnected"} => client = NoClient
  /\ Continuation = "failed" /\ IsCurrent => client = NoClient
  /\ \A i \in 1..Len(queue) : queue[i].current =>
       /\ queue[i].kind = "cleanup" => client = NoClient
       /\ queue[i].kind = "connect" => status \in {"Connecting", "Reconnecting"}
  /\ status = "Disconnected" => ~Wanted
  /\ Continuation = "stopListener" => Running.kind \in {"disconnect", "dispose", "stopRouting"}
  /\ Continuation = "ended" => Running.kind \in {"disconnect", "dispose"}

(* Where the running mutation is, once it goes on *)
LEMMA GivenUpGoesOn ==
  ASSUME SessionInv, GivenUp, QueueStep, QueueGoesOn
  PROVE  /\ client' \in {client, NoClient} \/ (Running.kind = "connect" /\ IsCurrent /\ Continuation' # "failed")
         /\ Continuation' = "failed" /\ IsCurrent => client' = NoClient
         /\ Continuation' \in {"stopListener", "ended"} =>
              \/ Continuation' = Continuation
              \/ /\ Running.kind \in {"disconnect", "dispose", "stopRouting"}
                 /\ Running.kind = "stopRouting" => Continuation' = "stopListener"
<1> USE DEF link
<1>1. /\ run \in Locals /\ NoLocals \in Locals /\ run.next \in Segments
      /\ run.next \notin Awaits \cup {"idle", "proxy"} \cup ApplyPoints
      /\ client \in Clients \cup {NoClient}
  BY NextIsSegment, NoLocalsType DEF SessionInv, IInv, TypeOK, LinkType, Segments, Awaits, ApplyPoints
<1>2. /\ queue # <<>> /\ at' # "idle" /\ RunsItsProgram /\ SessionOK /\ DialOK
  BY QueueForms DEF QueueGoesOn, SessionInv, IInv, OneAttempt, Held
<1>3. CASE FinishStop \/ FinishClose
  <2>1. Continuation' = Continuation /\ client' = client
    BY <1>1, <1>3 DEF FinishStop, FinishClose, GoTo, At, Continuation, Awaits
  <2>2. QED
    BY <2>1 DEF GivenUp
<1>4. CASE TunStartOk \/ TunRestore \/ TunStop \/ Proxy \/ ProxyApplyOk \/ Probe \/ TunStartFail
  <2>1. Continuation' = Continuation /\ client' = client
    <3>1. /\ at \in ApplyPoints /\ at' \in ApplyPoints \cup {run.next} /\ run'.next = run.next
      BY <1>1, <1>4 DEF TunStartOk, TunRestore, TunStop, Proxy, ProxyApplyOk, Probe, TunStartFail,
                        BeginTunStop, GoTo, At, ApplyPoints, Locals
    <3>2. QED
      BY <1>1, <1>4, <3>1 DEF TunStartOk, TunRestore, TunStop, Proxy, ProxyApplyOk, Probe,
                              TunStartFail, Continuation
  <2>2. QED
    BY <2>1 DEF GivenUp
<1>5. CASE BeginConnect \/ Replace \/ DialStart
  <2>1. Continuation' \in {"replace", "dialStart", "dial"} /\ client' \in {client, NoClient}
    <3>1. [NoLocals EXCEPT !.hold = HoldRouting, !.holdTun = HoldTunRouting] \in Locals
      BY <1>1 DEF Locals, HoldRouting, HoldTunRouting
    <3>2. \/ at' = "dial" /\ client' = client
          \/ \E r \in Locals : TakeClient(r) \/ (BeginStop("replace", r) /\ client' = client)
      BY <1>1, <1>2, <1>5, <3>1 DEF BeginConnect, Replace, DialStart, Finish, GoTo
    <3>3. QED
      BY <3>2 DEF TakeClient, BeginStop, Continuation, ApplyPoints, Locals
  <2>2. QED
    BY <2>1
<1>6. CASE \E c \in Clients \ open : DialOk(c) \/ DialOvertaken(c)
  <2>1. \/ at' \in {"established", "listen"} /\ IsCurrent
        \/ at' = "close" /\ run'.next = "done" /\ client' = client
    BY <1>1, <1>6 DEF DialOk, DialOvertaken, Locals
  <2>2. Running.kind = "connect"
    BY <1>2, <1>6 DEF DialOk, DialOvertaken, At, Continuation, ApplyPoints, RunsItsProgram
  <2>3. QED
    BY <2>1, <2>2 DEF Continuation, ApplyPoints
<1>7. CASE \E e \in Failures : DialFail(e)
  <2>1. PICK e \in Failures : DialFail(e)
    BY <1>7
  <2>2. [run EXCEPT !.error = e] \in Locals /\ client = NoClient /\ client' = client
    BY <1>1, <1>2, <2>1 DEF DialFail, At, DialOK, Continuation, ApplyPoints, Locals
  <2>3. at' = "failed" \/ (at' = "stop" /\ run'.next = "failed")
    BY <2>1, <2>2 DEF DialFail, BeginStop, Locals
  <2>4. QED
    BY <2>2, <2>3 DEF Continuation, ApplyPoints
<1>8. CASE ListenOk
  BY <1>8 DEF ListenOk, GoTo, Continuation, ApplyPoints
<1>9. CASE ListenFail \/ ProxyApplyFail
  <2>1. SetupFails /\ SessionInHand
    <3>1. CASE ListenFail
      BY <3>1 DEF ListenFail, SessionInHand, Continuation, ApplyPoints, At
    <3>2. CASE ProxyApplyFail
      <4>1. SetupFails /\ at = "proxyApply" /\ Running.kind = "connect"
        BY <1>2, <3>2 DEF ProxyApplyFail, Finish, At
      <4>2. run.next = "applied"
        BY <1>2, <4>1 DEF RunsItsProgram, ApplyPoints
      <4>3. QED
        BY <4>1, <4>2 DEF SessionInHand, Continuation, ApplyPoints
    <3>3. QED
      BY <1>9, <3>1, <3>2
  <2>2. IsCurrent => client = run.session
    BY <2>1, InHand
  <2>3. /\ Continuation' = "failed" /\ client' \in {client, NoClient}
        /\ client = run.session => client' = NoClient
    BY <1>1, <2>1 DEF SetupFails, Continuation, ApplyPoints, Locals
  <2>4. QED
    BY <2>2, <2>3
<1>10. CASE Established \/ Apply \/ Applied
  <2>1. client' = client /\ Continuation' \in {"done", "apply", "applied"}
    <3>1. UNCHANGED link
      BY <1>10 DEF Established, Apply, Applied
    <3>2. \/ CloseSuperseded \/ BeginStop("apply", run) \/ BeginApply("applied", run)
      BY <1>2, <1>10 DEF Established, Apply, Applied, BecomeConnected, ConnectApplies
    <3>3. QED
      BY <1>1, <3>1, <3>2 DEF CloseSuperseded, BeginStop, BeginApply, BeginTunStop, Continuation,
                              ApplyPoints, Locals
  <2>2. QED
    BY <2>1
<1>11. CASE RoutingUpdate \/ Reapply \/ HoldStop
  <2>1. client' = client /\ Continuation' = "done"
    <3>1. UNCHANGED link
      BY <1>11 DEF RoutingUpdate, Reapply, HoldStop
    <3>2. BeginApply("done", NoLocals) \/ BeginStop("done", NoLocals)
      BY <1>2, <1>11 DEF RoutingUpdate, Reapply, HoldStop, Finish
    <3>3. QED
      BY <1>1, <3>1, <3>2 DEF BeginStop, BeginApply, BeginTunStop, Continuation, ApplyPoints, Locals
  <2>2. QED
    BY <2>1
<1>12. CASE BeginCleanup
  <2>1. client' = client /\ at' = "close" /\ run'.next = "cleaned"
    BY <1>1, <1>12 DEF BeginCleanup, Locals
  <2>2. QED
    BY <2>1 DEF Continuation
<1>13. CASE DisconnectInternal \/ StopRouting
  <2>1. /\ client' \in {client, NoClient}
        /\ Running.kind \in {"disconnect", "dispose", "stopRouting"}
    BY <1>13 DEF DisconnectInternal, StopRouting, Begins
  <2>2. Continuation' = "stopListener"
    <3>1. [NoLocals EXCEPT !.session = client] \in Locals
      BY <1>1 DEF Locals
    <3>2. \E r \in Locals : BeginStop("stopListener", r)
      BY <1>1, <1>13, <3>1 DEF DisconnectInternal, StopRouting
    <3>3. QED
      BY <3>2 DEF BeginStop, Continuation, Locals
  <2>3. QED
    BY <2>1, <2>2
<1>14. CASE StopListener
  <2>1. Continuation = "stopListener" /\ client' = client
    BY <1>14 DEF StopListener, At, Continuation, ApplyPoints
  <2>2. Running.kind \in {"disconnect", "dispose", "stopRouting"}
    BY <2>1 DEF GivenUp
  <2>3. /\ run'.next = "ended" /\ at' \in {"done", "close", "ended"}
        /\ Running.kind = "stopRouting" => at' = "done"
    BY <1>1, <1>14 DEF StopListener, Locals
  <2>4. QED
    BY <2>1, <2>2, <2>3 DEF Continuation, ApplyPoints
<1>15. ~(SkipOvertaken \/ Done \/ Failed \/ Cleaned \/ Ended)
  BY <1>2 DEF SkipOvertaken, Done, Failed, Cleaned, Ended, Finish
<1>16. QED
  BY <1>3, <1>4, <1>5, <1>6, <1>7, <1>8, <1>9, <1>10, <1>11, <1>12, <1>13, <1>14, <1>15 DEF QueueStep

(* A session that is over stays without a client through every step. *)
LEMMA GivenUpStep ==
  ASSUME SessionInv, ListenerKept, GivenUp, [Next]_vars
  PROVE  GivenUp'
<1>1. /\ queue \in Seq(Mutations) /\ Len(queue) \in Nat
      /\ queue # <<>> => Running = queue[1] /\ 1 \in 1..Len(queue)
      /\ at # "idle" => queue # <<>>
  BY AttemptFacts, LenProperties, NextIsSegment DEF SessionInv, IInv, OneAttempt, RunsItsProgram
<1>2. CASE QueueStep /\ QueueGoesOn
  <2>1. /\ Left(queue, queue', 0) /\ UNCHANGED <<status, intent>> /\ queue # <<>>
        /\ queue' # <<>> /\ Same(Running', Running)
    BY <1>1, <1>2, QueueForms, RunningStays, EmptySeq DEF QueueGoesOn, Left, Moved
  <2>2. \A i \in 1..Len(queue') : i \in 1..Len(queue) /\ Same(queue'[i], queue[i])
    BY <2>1 DEF Left, Moved
  <2>3. Wanted' = Wanted
    BY <2>1 DEF Wanted, intent
  <2>4. client' \in {client, NoClient} \/ (Running.kind = "connect" /\ IsCurrent)
    BY <1>2, GivenUpGoesOn
  <2>5. status' \in {"Error", "Disconnected"} => client' = NoClient
    BY <1>1, <2>1, <2>4 DEF GivenUp, IsCurrent
  <2>6. Continuation' = "failed" /\ IsCurrent' => client' = NoClient
    <3>1. IsCurrent' => IsCurrent
      BY <2>1 DEF Same, IsCurrent
    <3>2. QED
      BY <1>2, <3>1, GivenUpGoesOn
  <2>7. ASSUME NEW i \in 1..Len(queue'), queue'[i].current
        PROVE  /\ queue'[i].kind = "cleanup" => client' = NoClient
               /\ queue'[i].kind = "connect" => status' \in {"Connecting", "Reconnecting"}
    <3>1. i \in 1..Len(queue) /\ queue[i].current /\ queue[i].kind = queue'[i].kind
      BY <2>2, <2>7 DEF Same
    <3>2. queue[i].kind = "cleanup" => client' = NoClient
      <4>1. CASE client' \in {client, NoClient}
        BY <3>1, <4>1 DEF GivenUp
      <4>2. CASE Running.kind = "connect" /\ IsCurrent
        BY <1>1, <2>1, <3>1, <4>2 DEF SessionInv, IInv, OneAttempt, Lifecycle, IsCurrent
      <4>3. QED
        BY <2>4, <4>1, <4>2
    <3>3. queue[i].kind = "connect" => status' \in {"Connecting", "Reconnecting"}
      BY <2>1, <3>1 DEF GivenUp
    <3>4. QED
      BY <3>1, <3>2, <3>3
  <2>8. /\ Continuation' = "stopListener" => Running'.kind \in {"disconnect", "dispose", "stopRouting"}
        /\ Continuation' = "ended" => Running'.kind \in {"disconnect", "dispose"}
    BY <1>2, <2>1, GivenUpGoesOn DEF Same, GivenUp
  <2>9. QED
    BY <2>1, <2>3, <2>5, <2>6, <2>7, <2>8 DEF GivenUp
<1>3. CASE QueueStep /\ ~QueueGoesOn
  <2>1. /\ at' = "idle" /\ queue # <<>>
        /\ Left(queue, queue', 1) \/ Joined(queue, queue', 1, Mutation("stopRouting"))
        /\ UNCHANGED <<client, lastRequest, disconnectRequested, disposed>>
    BY <1>3, QueueForms, SettlesAs DEF QueueSettles, QueueHalts
  <2>2. Continuation' = "idle"
    BY <2>1 DEF Continuation, ApplyPoints
  <2>3. ASSUME NEW i \in 1..Len(queue'), queue'[i].current, queue'[i].kind # "stopRouting"
        PROVE  /\ i + 1 \in 2..Len(queue) /\ queue[i + 1].current
               /\ queue[i + 1].kind = queue'[i].kind
    BY <2>1, <2>3, WhoWaits DEF Same, Mutation
  <2>4. \A i \in 1..Len(queue') : queue'[i].current => (queue'[i].kind = "cleanup" => client' = NoClient)
    BY <2>1, <2>3 DEF GivenUp
  <2>5. CASE UNCHANGED <<status, reconnectHalted>>
    <3>1. Wanted' = Wanted
      BY <2>1, <2>5 DEF Wanted
    <3>2. QED
      BY <2>1, <2>2, <2>3, <2>4, <2>5, <3>1 DEF GivenUp
  <2>6. CASE /\ BecomeConnected \/ ScheduleReconnect \/ HaltReconnect
             /\ Running.kind \in Lifecycle /\ IsCurrent
    <3>1. \A i \in 1..Len(queue') : ~(queue'[i].kind \in Lifecycle /\ queue'[i].current)
      <4>1. \A i \in 2..Len(queue) : ~(queue[i].kind \in Lifecycle /\ queue[i].current)
        BY <1>1, <2>1, <2>6 DEF SessionInv, IInv, OneAttempt, IsCurrent
      <4>2. QED
        BY <2>3, <4>1 DEF Lifecycle
    <3>2. status' = "Error" => client' = NoClient
      <4>1. CASE BecomeConnected
        BY <4>1 DEF BecomeConnected
      <4>2. CASE Running.kind = "cleanup"
        BY <1>1, <2>1, <2>6, <4>2 DEF GivenUp, IsCurrent
      <4>3. CASE status' = status
        BY <2>1, <4>3 DEF GivenUp
      <4>4. CASE at = "failed"
        <5>1. Continuation = "failed"
          BY <4>4 DEF Continuation, ApplyPoints
        <5>2. QED
          BY <2>1, <2>6, <5>1 DEF GivenUp
      <4>5. CASE at = "cleaned"
        <5>1. Running.kind = "cleanup"
          BY <2>1, <4>5 DEF Continuation, ApplyPoints, SessionInv, IInv, OneAttempt, RunsItsProgram
        <5>2. QED
          BY <4>2, <5>1
      <4>6. at \in {"failed", "cleaned"} \/ status' = status \/ BecomeConnected \/ status' = "Disconnected"
        BY <1>3, <2>1, SettlesAs
      <4>7. QED
        BY <4>1, <4>2, <4>3, <4>4, <4>5, <4>6
    <3>3. status' # "Disconnected" \/ (status' = status /\ reconnectHalted' = reconnectHalted)
      BY <2>6 DEF BecomeConnected, ScheduleReconnect, HaltReconnect
    <3>4. status' = "Disconnected" => client' = NoClient /\ ~Wanted'
      BY <2>1, <3>3 DEF GivenUp, Wanted
    <3>5. QED
      BY <2>2, <2>4, <3>1, <3>2, <3>4 DEF GivenUp, Lifecycle
  <2>7. CASE Ended /\ status' = "Disconnected" /\ UNCHANGED reconnectHalted /\ IsCurrent
    <3>1. Continuation = "ended" /\ at = "ended"
      BY <2>7 DEF Ended, At, Continuation, ApplyPoints
    <3>2. Running.kind \in {"disconnect", "dispose"} /\ client = NoClient
      BY <3>1 DEF GivenUp, ListenerKept
    <3>3. ~Wanted /\ ~Wanted'
      BY <1>1, <2>1, <2>7, <3>2 DEF SessionInv, IInv, OneAttempt, IsCurrent, Wanted
    <3>4. \A i \in 1..Len(queue') : ~(queue'[i].kind \in Lifecycle /\ queue'[i].current)
      <4>1. \A i \in 1..Len(queue) : ~(queue[i].kind \in Lifecycle /\ queue[i].current)
        BY <3>3 DEF SessionInv, IInv, UnwantedIsQuiet, Pending, Lifecycle
      <4>2. QED
        BY <2>3, <4>1 DEF Lifecycle
    <3>5. QED
      BY <2>1, <2>2, <2>4, <2>7, <3>2, <3>3, <3>4 DEF GivenUp, Lifecycle
  <2>8. QED
    BY <1>3, <2>1, <2>5, <2>6, <2>7, SettlesAs DEF Lifecycle
<1>4. CASE UserStep \/ Event \/ UNCHANGED vars
  <2>1. /\ UNCHANGED at /\ run'.next = run.next /\ client' \in {client, NoClient}
        /\ QueueAsked \/ QueueConnects \/ QueueEnds \/ QueueCleans
    BY <1>4, BesideForms
  <2>2. Continuation' = Continuation
    BY <2>1 DEF Continuation
  <2>3. PICK m \in Mutations : Left(queue, queue', 0) \/ Joined(queue, queue', 0, m)
    BY <2>1, MutationType DEF QueueAsked, QueueConnects, QueueEnds, QueueCleans, Kinds
  <2>4. \A i \in 1..Len(queue) : Same(queue'[i], queue[i])
    BY <2>3 DEF Left, Joined, Moved
  <2>5. queue # <<>> => queue' # <<>> /\ Same(Running', Running)
    BY <1>1, <2>3, RunningStays, EmptySeq DEF Left, Joined, Moved
  <2>6. Continuation' = "failed" /\ IsCurrent' => client' = NoClient
    <3>1. Continuation = "failed" => queue # <<>>
      BY <1>1 DEF Continuation, ApplyPoints
    <3>2. QED
      BY <2>1, <2>2, <2>5, <3>1 DEF GivenUp, Same, IsCurrent
  <2>7. /\ Continuation' = "stopListener" => Running'.kind \in {"disconnect", "dispose", "stopRouting"}
        /\ Continuation' = "ended" => Running'.kind \in {"disconnect", "dispose"}
    <3>1. Continuation \in {"stopListener", "ended"} => queue # <<>>
      BY <1>1 DEF Continuation, ApplyPoints
    <3>2. QED
      BY <2>2, <2>5, <3>1 DEF GivenUp, Same
  <2> DEFINE Waits == \A i \in 1..Len(queue') : queue'[i].current =>
                        /\ queue'[i].kind = "cleanup" => client' = NoClient
                        /\ queue'[i].kind = "connect" => status' \in {"Connecting", "Reconnecting"}
  <2> SUFFICES /\ status' \in {"Error", "Disconnected"} => client' = NoClient
               /\ Waits
               /\ status' = "Disconnected" => ~Wanted'
    BY <2>6, <2>7 DEF GivenUp
  <2>8. CASE QueueAsked
    <3>1. UNCHANGED <<status, intent>> /\ Wanted' = Wanted
      BY <2>8 DEF QueueAsked, intent, Wanted
    <3>2. ASSUME NEW i \in 1..Len(queue'), queue'[i].current, queue'[i].kind \in Lifecycle
          PROVE  i \in 1..Len(queue) /\ queue[i].current /\ queue[i].kind = queue'[i].kind
      <4>1. \/ Left(queue, queue', 0)
            \/ \E k \in {"routing", "holdStop", "reapply"} : Joined(queue, queue', 0, Mutation(k))
        BY <2>8 DEF QueueAsked
      <4>2. QED
        BY <3>2, <4>1, WhoWaits DEF Same, Mutation, Lifecycle
    <3>3. Waits
      BY <2>1, <3>1, <3>2 DEF GivenUp, Lifecycle
    <3>4. QED
      BY <2>1, <3>1, <3>3 DEF GivenUp
  <2>9. CASE QueueConnects
    <3>1. PICK u \in BOOLEAN, s \in {"Connecting", "Reconnecting"}, n \in Mutations :
            /\ StartConnect(u, s) /\ n.kind = "connect" /\ n.current
            /\ Joined(queue, queue', 0, n) /\ AllOvertaken
      BY <2>9 DEF QueueConnects
    <3>2. status' \in {"Connecting", "Reconnecting"}
      BY <3>1 DEF StartConnect
    <3>3. \A i \in 1..Len(queue') : queue'[i].current => queue'[i].kind # "cleanup"
      BY <3>1, WhoWaits DEF AllOvertaken, Same
    <3>4. QED
      BY <3>2, <3>3
  <2>10. CASE QueueEnds
    <3>1. PICK s \in {"Disconnecting", "Disconnected"} :
            /\ EndLifecycle(s) /\ AllOvertaken /\ (s = "Disconnected" => ClearError)
            /\ \/ Left(queue, queue', 0)
               \/ \E k \in {"disconnect", "dispose", "stopRouting"} :
                    Joined(queue, queue', 0, Mutation(k))
      BY <2>10 DEF QueueEnds
    <3>2. status' = s /\ ~Wanted' /\ client' = client
      BY <3>1 DEF EndLifecycle, Wanted
    <3>3. s = "Disconnected" => client = NoClient
      BY <3>1 DEF ClearError, GivenUp
    <3>4. \A i \in 1..Len(queue') : queue'[i].current => queue'[i].kind \notin {"cleanup", "connect"}
      BY <3>1, WhoWaits DEF AllOvertaken, Same, Mutation
    <3>5. QED
      BY <3>2, <3>3, <3>4
  <2>11. CASE QueueCleans
    <3>1. PICK b \in BOOLEAN, n \in Mutations :
            /\ ClientFails(b) /\ n.kind = "cleanup" /\ n.current /\ n.retryable = b
            /\ Joined(queue, queue', 0, n) /\ AllOvertaken
      BY <2>11 DEF QueueCleans
    <3>2. client' = NoClient /\ status' \in {"Reconnecting", "Error"}
      BY <3>1 DEF ClientFails
    <3>3. \A i \in 1..Len(queue') : queue'[i].current => queue'[i].kind # "connect"
      BY <3>1, WhoWaits DEF AllOvertaken, Same
    <3>4. QED
      BY <3>2, <3>3
  <2>12. QED
    BY <2>1, <2>8, <2>9, <2>10, <2>11
<1>5. QED
  BY <1>2, <1>3, <1>4 DEF Next

-----------------------------------------------------------------------------
(* A stop of the routing has its turn yet. *)
StopWaits ==
  \E i \in 1..Len(queue) :
    queue[i].kind = "stopRouting" /\ queue[i].current /\ (i = 1 => at # "done")

(* A stop of the routing takes it down first; once the session is over, nothing of
   it is left or such a stop is on its way. *)
StopsFirst ==
  /\ queue # <<>> /\ Running.kind = "stopRouting" /\ at # "idle" => ~systemRoutingApplied
  /\ status = "Disconnected" =>
       StopWaits \/ (/\ ~systemRoutingApplied /\ waiters = {} /\ Continuation # "apply"
                     /\ socksProxy => unwatched)

InAttempt == Running.kind = "connect" /\ IsCurrent

(* Routing is applied for an attempt that is not overtaken, or by a rebuild that goes
   on, which begins where an adapter is up; and no mutation parks a connection. *)
LEMMA AppliesForAttempt ==
  ASSUME SessionInv, QueueStep
  PROVE  /\ waiters' \subseteq waiters
         /\ systemRoutingApplied' => systemRoutingApplied \/ Continuation = "apply" \/ InAttempt
         /\ at' # "idle" /\ Continuation' = "apply" =>
              Continuation = "apply" \/ (InAttempt /\ tunRoutingActive)
<1> USE DEF local, routing
<1>1. /\ run \in Locals /\ NoLocals \in Locals /\ run.next \in Segments
      /\ run.next \notin Awaits \cup {"idle", "proxy"} \cup ApplyPoints
  BY NextIsSegment, NoLocalsType DEF SessionInv, IInv, Segments, Awaits, ApplyPoints
<1>2. /\ RunsItsProgram /\ client \in Clients \cup {NoClient}
  BY DEF SessionInv, IInv, OneAttempt, TypeOK, LinkType
<1>3. CASE FinishStop \/ FinishClose
  <2>1. Continuation' = Continuation
    BY <1>1, <1>3 DEF FinishStop, FinishClose, GoTo, At, Continuation, Awaits
  <2>2. UNCHANGED <<waiters, systemRoutingApplied>>
    BY <1>3 DEF FinishStop, FinishClose
  <2>3. QED
    BY <2>1, <2>2
<1>4. CASE TunStartOk \/ TunRestore \/ TunStop \/ Proxy \/ ProxyApplyOk \/ Probe \/ TunStartFail
  <2>1. /\ at \in ApplyPoints /\ at' \in ApplyPoints \cup {run.next} /\ run'.next = run.next
        /\ UNCHANGED <<waiters, systemRoutingApplied>>
    BY <1>1, <1>4 DEF TunStartOk, TunRestore, TunStop, Proxy, ProxyApplyOk, Probe, TunStartFail,
                      BeginTunStop, GoTo, At, ApplyPoints, Locals
  <2>2. Continuation' = Continuation
    BY <1>1, <2>1 DEF Continuation, ApplyPoints, Segments
  <2>3. QED
    BY <2>1, <2>2
<1>5. CASE BeginConnect \/ Replace \/ DialStart
  <2>1. waiters' = waiters /\ (systemRoutingApplied' => systemRoutingApplied)
    BY <1>5 DEF BeginConnect, Replace, DialStart, BeginStop
  <2>2. Continuation' \in {"idle", "replace", "dialStart", "dial"}
    <3>1. [NoLocals EXCEPT !.hold = HoldRouting, !.holdTun = HoldTunRouting] \in Locals
      BY <1>1 DEF Locals, HoldRouting, HoldTunRouting
    <3>2. at' \in {"dial", "idle"} \/ \E r \in Locals : TakeClient(r) \/ BeginStop("replace", r)
      BY <1>1, <1>5, <3>1 DEF BeginConnect, Replace, DialStart, Finish, GoTo
    <3>3. QED
      BY <3>2 DEF TakeClient, BeginStop, Continuation, ApplyPoints, Locals
  <2>3. QED
    BY <2>1, <2>2
<1>6. CASE \E c \in Clients \ open : DialOk(c) \/ DialOvertaken(c)
  <2>1. at' \in {"established", "listen"} \/ (at' = "close" /\ run'.next = "done")
    BY <1>1, <1>6 DEF DialOk, DialOvertaken, Locals
  <2>2. UNCHANGED <<waiters, systemRoutingApplied>>
    BY <1>6 DEF DialOk, DialOvertaken
  <2>3. QED
    BY <2>1, <2>2 DEF Continuation, ApplyPoints
<1>7. CASE \E e \in Failures : DialFail(e)
  <2>1. PICK e \in Failures : DialFail(e)
    BY <1>7
  <2>2. [run EXCEPT !.error = e] \in Locals
    BY <1>1, <2>1 DEF Locals
  <2>3. /\ at' = "failed" \/ (at' = "stop" /\ run'.next = "failed")
        /\ waiters' = waiters /\ (systemRoutingApplied' => systemRoutingApplied)
    BY <2>1, <2>2 DEF DialFail, BeginStop, Locals
  <2>4. QED
    BY <2>3 DEF Continuation, ApplyPoints
<1>8. CASE ListenOk \/ ListenFail
  <2>1. /\ at' = "established" \/ (at' = "close" /\ run'.next = "failed")
        /\ UNCHANGED <<waiters, systemRoutingApplied>>
    BY <1>1, <1>8 DEF ListenOk, ListenFail, SetupFails, GoTo, Locals
  <2>2. QED
    BY <2>1 DEF Continuation, ApplyPoints
<1>9. CASE ProxyApplyFail
  <2>1. /\ at' = "idle" \/ (at' = "close" /\ run'.next = "failed")
        /\ UNCHANGED <<waiters, systemRoutingApplied>>
    BY <1>1, <1>9 DEF ProxyApplyFail, SetupFails, Finish, Locals
  <2>2. QED
    BY <2>1 DEF Continuation, ApplyPoints
<1>10. CASE Established \/ Applied
  <2>1. at \in {"established", "applied"} /\ SessionInHand
    BY <1>10 DEF Established, Applied, At, SessionInHand, Continuation, ApplyPoints
  <2>2. Running.kind = "connect"
    BY <2>1, InHand
  <2>3. CASE ~Superseded
    <3>1. waiters' \subseteq waiters
      BY <1>10, <2>3 DEF Established, Applied, BecomeConnected
    <3>2. InAttempt
      BY <2>2, <2>3 DEF InAttempt, Superseded
    <3>3. at' # "idle" /\ Continuation' = "apply" => tunRoutingActive
      <4>1. \/ at' = "idle" \/ ConnectApplies \/ tunRoutingActive
        BY <1>10, <2>3 DEF Established, Applied, BecomeConnected
      <4>2. ConnectApplies => Continuation' = "applied"
        BY <1>1 DEF ConnectApplies, BeginApply, BeginTunStop, Continuation, ApplyPoints, Locals
      <4>3. QED
        BY <4>1, <4>2
    <3>4. QED
      BY <3>1, <3>2, <3>3
  <2>4. CASE Superseded
    <3>1. CloseSuperseded /\ UNCHANGED <<waiters, systemRoutingApplied>>
      BY <1>10, <2>4 DEF Established, Applied
    <3>2. QED
      BY <1>1, <3>1 DEF CloseSuperseded, Continuation, ApplyPoints, Locals
  <2>5. QED
    BY <2>3, <2>4
<1>11. CASE Apply
  BY <1>11 DEF Apply, At, Continuation, ApplyPoints
<1>12. CASE RoutingUpdate \/ Reapply \/ HoldStop
  <2>1. /\ waiters' = waiters /\ (systemRoutingApplied' => systemRoutingApplied)
        /\ at' = "idle" \/ BeginApply("done", NoLocals) \/ BeginStop("done", NoLocals)
    BY <1>12 DEF RoutingUpdate, Reapply, HoldStop, Finish, BeginStop
  <2>2. Continuation' \in {"idle", "done"}
    BY <1>1, <2>1 DEF BeginStop, BeginApply, BeginTunStop, Continuation, ApplyPoints, Locals
  <2>3. QED
    BY <2>1, <2>2
<1>13. CASE SkipOvertaken \/ Done \/ Failed \/ Cleaned \/ Ended
  <2>1. at' = "idle" /\ UNCHANGED <<waiters, systemRoutingApplied>>
    BY <1>13 DEF SkipOvertaken, Done, Failed, Cleaned, Ended, Finish
  <2>2. QED
    BY <2>1
<1>14. CASE BeginCleanup
  <2>1. at' = "close" /\ run'.next = "cleaned" /\ UNCHANGED <<waiters, systemRoutingApplied>>
    BY <1>1, <1>14 DEF BeginCleanup, Locals
  <2>2. QED
    BY <2>1 DEF Continuation
<1>15. CASE DisconnectInternal \/ StopRouting
  <2>1. \E r \in Locals : BeginStop("stopListener", r)
    <3>1. [NoLocals EXCEPT !.session = client] \in Locals
      BY <1>1, <1>2 DEF Locals
    <3>2. QED
      BY <1>1, <1>15, <3>1 DEF DisconnectInternal, StopRouting
  <2>2. waiters' = waiters
    BY <1>15 DEF DisconnectInternal, StopRouting
  <2>3. QED
    BY <2>1, <2>2 DEF BeginStop, Continuation, Locals
<1>16. CASE StopListener
  <2>1. /\ waiters' = {} /\ systemRoutingApplied' = systemRoutingApplied
        /\ at' \in {"done", "ended", "close"} /\ run'.next = "ended"
    BY <1>1, <1>16 DEF StopListener, Locals
  <2>2. QED
    BY <2>1 DEF Continuation, ApplyPoints
<1>17. QED
  BY <1>3, <1>4, <1>5, <1>6, <1>7, <1>8, <1>9, <1>10, <1>11, <1>12, <1>13, <1>14, <1>15, <1>16
     DEF QueueStep

(* A stop of the routing settles once it is done, and begins by taking it down. *)
LEMMA StopRuns ==
  ASSUME SessionInv, QueueStep, Running.kind = "stopRouting", IsCurrent
  PROVE  IF at = "idle" THEN at' = "stop" /\ ~systemRoutingApplied' ELSE at' = "idle" => at = "done"
<1>1. queue # <<>> /\ Continuation \in {"idle", "stopListener", "done"}
  BY QueueForms DEF SessionInv, Held, ParkedOK, Continuation, ApplyPoints
<1>2. at \notin ApplyPoints
  <2>1. at \in ApplyPoints => Continuation = "done" /\ at # "done"
    BY <1>1 DEF SessionInv, IInv, OneAttempt, RunsItsProgram, Continuation, ApplyPoints
  <2>2. QED
    BY <1>1, <2>1 DEF SessionInv, Held, ParkedOK
<1>3. CASE at = "idle"
  <2>1. StopRouting
    BY <1>3 DEF QueueStep, FinishStop, FinishClose, SkipOvertaken, Done, BeginConnect, Replace, DialStart,
         DialOk, DialOvertaken, DialFail, ListenOk, ListenFail, Established, Apply, Applied, Probe,
         TunStartOk, TunStartFail, TunRestore, TunStop, Proxy, ProxyApplyOk, ProxyApplyFail,
         RoutingUpdate, Reapply, Failed, BeginCleanup, Cleaned, DisconnectInternal,
         StopListener, Ended, HoldStop, Begins, At
  <2>2. QED
    BY <1>3, <2>1 DEF StopRouting, BeginStop
<1>4. CASE at # "idle" /\ at' = "idle"
  <2>1. at \in {"stop", "close", "stopListener", "done"}
    BY <1>1, <1>2, <1>4 DEF Continuation
  <2>2. run \in Locals /\ run.next \in Segments /\ run.next # "idle"
    BY NextIsSegment DEF SessionInv, IInv
  <2>3. FinishStop \/ FinishClose \/ StopListener \/ Done
    BY <2>1 DEF QueueStep, SkipOvertaken, BeginConnect, Replace, DialStart,
         DialOk, DialOvertaken, DialFail, ListenOk, ListenFail, Established, Apply, Applied, Probe,
         TunStartOk, TunStartFail, TunRestore, TunStop, Proxy, ProxyApplyOk, ProxyApplyFail,
         RoutingUpdate, Reapply, Failed, BeginCleanup, Cleaned, DisconnectInternal, StopRouting,
         Ended, HoldStop, Begins, At
  <2>4. ~(FinishStop \/ FinishClose \/ StopListener)
    BY <1>4, <2>2 DEF FinishStop, FinishClose, StopListener, GoTo
  <2>5. QED
    BY <1>4, <2>3, <2>4 DEF Done, At
<1>5. QED
  BY <1>3, <1>4

(* Once the session is over, a listener that comes up is one nobody watches for. *)
LEMMA ListenerComes ==
  ASSUME QueueStep, status = "Disconnected", socksProxy => unwatched
  PROVE  socksProxy' => unwatched'
<1> USE DEF local
<1>1. CASE ListenOk
  BY <1>1 DEF ListenOk
<1>2. CASE StopListener
  BY <1>2 DEF StopListener
<1>3. CASE Established \/ Applied
  BY <1>3 DEF Established, Applied, BecomeConnected
<1>4. CASE \/ FinishStop \/ FinishClose \/ SkipOvertaken \/ Done
           \/ BeginConnect \/ Replace \/ DialStart
           \/ \E c \in Clients \ open : DialOk(c) \/ DialOvertaken(c)
           \/ \E e \in Failures : DialFail(e)
           \/ ListenFail \/ Apply
  BY <1>4 DEF FinishStop, FinishClose, SkipOvertaken, Done, BeginConnect, Replace, DialStart,
     DialOk, DialOvertaken, DialFail, ListenFail, Apply
<1>5. CASE \/ Probe \/ TunStartOk \/ TunStartFail \/ TunRestore \/ TunStop
           \/ Proxy \/ ProxyApplyOk \/ ProxyApplyFail \/ RoutingUpdate \/ Reapply
  BY <1>5 DEF Probe, TunStartOk, TunStartFail, TunRestore, TunStop, Proxy, ProxyApplyOk,
     ProxyApplyFail, RoutingUpdate, Reapply
<1>6. CASE \/ Failed \/ BeginCleanup \/ Cleaned
           \/ DisconnectInternal \/ StopRouting \/ Ended \/ HoldStop
  BY <1>6 DEF Failed, BeginCleanup, Cleaned, DisconnectInternal, StopRouting, Ended, HoldStop
<1>7. QED
  BY <1>1, <1>2, <1>3, <1>4, <1>5, <1>6 DEF QueueStep

(* A stop that has its turn is not overtaken, and settles with nothing left to stop. *)
LEMMA StopsFirstStep ==
  ASSUME SessionInv, SessionInv', ListenerKept, GivenUp, StopsFirst, [Next]_vars
  PROVE  StopsFirst'
<1>1. /\ queue \in Seq(Mutations) /\ Len(queue) \in Nat
      /\ queue # <<>> => Running = queue[1] /\ 1 \in 1..Len(queue)
      /\ at # "idle" => queue # <<>>
      /\ Continuation # "idle" => at # "idle"
  BY AttemptFacts, LenProperties, NextIsSegment DEF SessionInv, IInv, OneAttempt, RunsItsProgram,
     Continuation, ApplyPoints
<1>2. status = "Disconnected" => ~InAttempt \/ queue = <<>>
  BY <1>1 DEF GivenUp, InAttempt, IsCurrent
<1>3. CASE QueueStep /\ QueueGoesOn
  <2>1. /\ Left(queue, queue', 0) /\ UNCHANGED status /\ queue # <<>> /\ at' # "idle"
        /\ queue' # <<>> /\ Same(Running', Running)
    BY <1>1, <1>3, QueueForms, RunningStays, EmptySeq DEF QueueGoesOn, Left, Moved
  <2>2. queue' # <<>> /\ Running'.kind = "stopRouting" /\ at' # "idle" => ~systemRoutingApplied'
    <3>1. SUFFICES ASSUME Running.kind = "stopRouting", systemRoutingApplied' PROVE FALSE
      BY <2>1 DEF Same
    <3>2. at # "idle" => ~systemRoutingApplied
      BY <2>1, <3>1 DEF StopsFirst
    <3>3. Continuation # "apply" /\ ~InAttempt
      BY <3>1 DEF SessionInv, IInv, OneAttempt, RunsItsProgram, SessionInHand, InAttempt
    <3>4. at = "idle"
      BY <1>3, <3>1, <3>2, <3>3, AppliesForAttempt
    <3>5. CASE IsCurrent
      BY <1>3, <3>1, <3>4, <3>5, StopRuns
    <3>6. CASE ~IsCurrent
      <4>1. SkipOvertaken
        BY <1>3, <3>1, <3>4, <3>6
           DEF QueueStep, FinishStop, FinishClose, Done, BeginConnect, Replace, DialStart,
               DialOk, DialOvertaken, DialFail, ListenOk, ListenFail, Established, Apply, Applied, Probe,
               TunStartOk, TunStartFail, TunRestore, TunStop, Proxy, ProxyApplyOk, ProxyApplyFail,
               RoutingUpdate, Reapply, Failed, BeginCleanup, Cleaned, DisconnectInternal, StopRouting,
               StopListener, Ended, HoldStop, Begins, At
      <4>2. QED
        BY <2>1, <4>1 DEF SkipOvertaken, Finish
    <3>7. QED
      BY <3>5, <3>6
  <2>3. ASSUME status' = "Disconnected"
        PROVE  StopWaits' \/ (/\ ~systemRoutingApplied' /\ waiters' = {} /\ Continuation' # "apply"
                              /\ socksProxy' => unwatched')
    <3>1. status = "Disconnected" /\ ~InAttempt
      BY <1>2, <2>1, <2>3
    <3>2. CASE StopWaits
      <4>1. PICK i \in 1..Len(queue) :
              queue[i].kind = "stopRouting" /\ queue[i].current /\ (i = 1 => at # "done")
        BY <3>2 DEF StopWaits
      <4>2. i \in 1..Len(queue') /\ queue'[i].kind = "stopRouting" /\ queue'[i].current
        BY <2>1, <4>1 DEF Left, Moved, Same
      <4>3. CASE i = 1 => at' # "done"
        BY <4>2, <4>3 DEF StopWaits
      <4>4. CASE i = 1 /\ at' = "done"
        <5>1. Running'.kind = "stopRouting"
          BY <1>1, <2>1, <4>1, <4>4 DEF Same
        <5>2. ~socksProxy' /\ waiters' = {}
          BY <2>1, <4>4, <5>1 DEF SessionInv, Held, ParkedOK, ParkedIsAnswered, Continuation, ApplyPoints
        <5>3. QED
          BY <2>1, <2>2, <4>4, <5>1, <5>2 DEF Continuation, ApplyPoints
      <4>5. QED
        BY <4>3, <4>4
    <3>3. CASE /\ ~systemRoutingApplied /\ waiters = {} /\ Continuation # "apply"
               /\ socksProxy => unwatched
      <4>1. socksProxy' => unwatched'
        BY <1>3, <3>1, <3>3, ListenerComes
      <4>2. QED
        BY <1>3, <2>1, <3>1, <3>3, <4>1, AppliesForAttempt
    <3>4. QED
      BY <3>1, <3>2, <3>3 DEF StopsFirst
  <2>4. QED
    BY <2>2, <2>3 DEF StopsFirst
<1>4. CASE QueueStep /\ ~QueueGoesOn
  <2>1. /\ at' = "idle" /\ queue # <<>>
        /\ Left(queue, queue', 1) \/ Joined(queue, queue', 1, Mutation("stopRouting"))
    BY <1>4, QueueForms DEF QueueSettles, QueueHalts
  <2>2. Continuation' = "idle"
    BY <2>1 DEF Continuation, ApplyPoints
  <2>3. ASSUME status' = "Disconnected"
        PROVE  StopWaits' \/ (~systemRoutingApplied' /\ waiters' = {} /\ (socksProxy' => unwatched'))
    <3>1. CASE Ended /\ IsCurrent
      <4>1. Continuation = "ended" /\ UNCHANGED <<systemRoutingApplied, waiters, socksProxy>>
        BY <3>1 DEF Ended, At, Continuation, ApplyPoints, local
      <4>2. ~systemRoutingApplied /\ waiters = {} /\ ~socksProxy
        BY <4>1 DEF ListenerKept, SessionInv, Held, ParkedOK, ParkedIsAnswered
      <4>3. QED
        BY <4>1, <4>2
    <3>2. CASE status = "Disconnected"
      <4>1. CASE StopWaits
        <5>1. PICK i \in 1..Len(queue) :
                queue[i].kind = "stopRouting" /\ queue[i].current /\ (i = 1 => at # "done")
          BY <4>1 DEF StopWaits
        <5>2. i # 1
          BY <1>1, <1>4, <2>1, <5>1, StopRuns DEF IsCurrent
        <5>3. /\ i - 1 \in 1..(Len(queue) - 1) /\ (i - 1) + 1 = i
              /\ i - 1 \in 1..Len(queue')
          BY <1>1, <2>1, <5>1, <5>2 DEF Left, Joined, Moved
        <5>4. Same(queue'[i - 1], queue[i])
          BY <2>1, <5>3 DEF Left, Joined, Moved
        <5>5. QED
          BY <2>1, <5>1, <5>3, <5>4 DEF StopWaits, Same
      <4>2. CASE /\ ~systemRoutingApplied /\ waiters = {} /\ Continuation # "apply"
                 /\ socksProxy => unwatched
        <5>1. socksProxy' => unwatched'
          BY <1>4, <3>2, <4>2, ListenerComes
        <5>2. QED
          BY <1>2, <1>4, <2>1, <3>2, <4>2, <5>1, AppliesForAttempt
      <4>3. QED
        BY <3>2, <4>1, <4>2 DEF StopsFirst
    <3>3. status = "Disconnected" \/ (Ended /\ IsCurrent)
      BY <1>4, <2>1, <2>3, SettlesAs DEF BecomeConnected, ScheduleReconnect, HaltReconnect
    <3>4. QED
      BY <3>1, <3>2, <3>3
  <2>4. QED
    BY <2>1, <2>2, <2>3 DEF StopsFirst
<1>5. CASE UserStep \/ Event \/ UNCHANGED vars
  <2>1. /\ UNCHANGED at /\ run'.next = run.next
        /\ QueueAsked \/ QueueConnects \/ QueueEnds \/ QueueCleans
    BY <1>5, BesideForms
  <2>2. Continuation' = Continuation
    BY <2>1 DEF Continuation
  <2>3. PICK m \in Mutations : Left(queue, queue', 0) \/ Joined(queue, queue', 0, m)
    BY <2>1, MutationType DEF QueueAsked, QueueConnects, QueueEnds, QueueCleans, Kinds
  <2>4. \A i \in 1..Len(queue) : i \in 1..Len(queue') /\ Same(queue'[i], queue[i])
    BY <2>3 DEF Left, Joined, Moved
  <2>5. queue # <<>> => queue' # <<>> /\ Same(Running', Running)
    BY <1>1, <2>3, RunningStays, EmptySeq DEF Left, Joined, Moved
  <2>6. systemRoutingApplied' = systemRoutingApplied
    BY <1>5 DEF UserStep, Event, Connect, BeginDisconnect, Disconnect, ClearError, Dispose, UpdateRouting,
                EndLifecycle, ReconnectTimerFires, HoldTimerFires, ClientFails, HelperDies, Park, Unpark,
                vars, routing
  <2>7. queue' # <<>> /\ Running'.kind = "stopRouting" /\ at' # "idle" => ~systemRoutingApplied'
    BY <1>1, <2>1, <2>5, <2>6 DEF StopsFirst, Same
  <2>8. StopWaits => StopWaits'
    BY <2>1, <2>4 DEF StopWaits, Same
  <2>9. ASSUME status' = "Disconnected"
        PROVE  StopWaits' \/ (/\ ~systemRoutingApplied' /\ waiters' = {} /\ Continuation' # "apply"
                              /\ socksProxy' => unwatched')
    <3>1. CASE QueueAsked
      <4>1. status = "Disconnected" /\ ~Wanted
        BY <2>9, <3>1 DEF QueueAsked, GivenUp
      <4>2. /\ waiters = {} => waiters' = {}
            /\ UNCHANGED <<socksProxy, unwatched>>
        BY <1>5, <4>1 DEF UserStep, Event, Connect, BeginDisconnect, Disconnect, ClearError, Dispose,
           UpdateRouting, EndLifecycle, ReconnectTimerFires, HoldTimerFires, ClientFails, HelperDies, Park,
           Unpark, vars, local
      <4>3. QED
        BY <2>2, <2>6, <2>8, <4>1, <4>2 DEF StopsFirst
    <3>2. CASE ClearError
      <4>1. /\ waiters' = waiters /\ (waiters # {} => socksProxy) /\ (Continuation = "apply" => socksProxy)
            /\ socksProxy' = socksProxy
        BY <3>2 DEF ClearError, EndLifecycle, local, SessionInv, Held, ParkedOK, ParkedIsAnswered, SessionOK
      <4>2. CASE ~systemRoutingApplied /\ ~socksProxy
        BY <2>2, <2>6, <4>1, <4>2
      <4>3. CASE systemRoutingApplied \/ socksProxy
        <5>1. queue' = Append(Overtake(queue), Mutation("stopRouting"))
          BY <3>2, <4>3 DEF ClearError
        <5>2. /\ Len(queue') = Len(queue) + 1
              /\ queue'[Len(queue')] = Mutation("stopRouting")
          <6>1. /\ Overtake(queue) \in Seq(Mutations) /\ Len(Overtake(queue)) = Len(queue)
                /\ Mutation("stopRouting") \in Mutations
            BY <1>1, OvertakeFacts, MutationType DEF Kinds
          <6>2. QED
            BY <5>1, <6>1, AppendFacts
        <5>3. Len(queue) = 0 => at' # "done"
          BY <1>1, <2>1, EmptySeq
        <5>4. QED
          BY <1>1, <5>2, <5>3 DEF StopWaits, Mutation
      <4>4. QED
        BY <4>2, <4>3
    <3>3. QED
      BY <2>1, <2>9, <3>1, <3>2
         DEF QueueConnects, QueueEnds, QueueCleans, StartConnect, EndLifecycle, ClientFails
  <2>10. QED
    BY <2>7, <2>9 DEF StopsFirst
<1>6. QED
  BY <1>3, <1>4, <1>5 DEF Next

-----------------------------------------------------------------------------
(* The machine's traffic is routed. *)
Routed == systemProxy = "listener" \/ (tunRoutingActive /\ active)

(* The adapter died, and the routing that replaces it has its turn yet. *)
RouteComes ==
  \E i \in 1..Len(queue) : queue[i].kind = "reapply" /\ queue[i].current /\ (i = 1 => at = "idle")

(* The running mutation works for the session in use or for the attempt. *)
InEarnest == queue # <<>> /\ (status = "Connected" \/ InAttempt)

(* An apply in earnest gets somewhere, an attempt that keeps the adapter has it, and
   Connected traffic is routed, about to be, or its routing is replaced. *)
BypassOK ==
  /\ at \in ApplyPoints /\ InEarnest => run.live /\ ~run.aborted
  /\ at = "tunStart" /\ InEarnest => tunStartAttempted \/ RouteComes
  /\ at = "tunRestore" /\ InEarnest => RouteComes \/ (active /\ tunStartAttempted)
  /\ status = "Connected" => Routed \/ at \in ApplyPoints \/ RouteComes
  /\ at = "applied" /\ InAttempt => Routed \/ RouteComes
  /\ run.holdTun /\ Continuation \in {"dialStart", "dial", "listen", "established"} /\ InAttempt =>
       (tunRoutingActive /\ active) \/ RouteComes
  /\ at = "stop" => run.next \in {"replace", "failed", "apply", "stopListener", "done"}
  /\ Continuation = "replace" => ~run.holdTun

(* The replacement waits until its turn comes. *)
LEMMA RouteStillComes ==
  ASSUME SessionInv, QueueStep, RouteComes
  PROVE  RouteComes' \/ Reapply
<1>1. /\ queue \in Seq(Mutations) /\ Len(queue) \in Nat
      /\ queue # <<>> => Running = queue[1] /\ 1 \in 1..Len(queue)
  BY AttemptFacts, LenProperties, NextIsSegment DEF SessionInv, IInv
<1>2. PICK i \in 1..Len(queue) :
        queue[i].kind = "reapply" /\ queue[i].current /\ (i = 1 => at = "idle")
  BY DEF RouteComes
<1>3. queue # <<>> /\ (QueueGoesOn \/ QueueSettles \/ QueueHalts)
  BY QueueForms
<1>4. CASE i = 1
  <2>1. at = "idle" /\ Running.kind = "reapply" /\ IsCurrent
    BY <1>1, <1>2, <1>3, <1>4 DEF IsCurrent
  <2>2. Reapply
    BY <2>1 DEF QueueStep, FinishStop, FinishClose, SkipOvertaken, Done, BeginConnect, Replace, DialStart,
         DialOk, DialOvertaken, DialFail, ListenOk, ListenFail, Established, Apply, Applied, Probe,
         TunStartOk, TunStartFail, TunRestore, TunStop, Proxy, ProxyApplyOk, ProxyApplyFail,
         RoutingUpdate, Failed, BeginCleanup, Cleaned, DisconnectInternal, StopRouting,
         StopListener, Ended, HoldStop, Begins, At
  <2>3. QED
    BY <2>2
<1>5. CASE i # 1 /\ QueueGoesOn
  <2>1. i \in 1..Len(queue') /\ queue'[i] = queue[i]
    BY <1>1, <1>2, <1>5 DEF QueueGoesOn, Left, Moved, Firm
  <2>2. QED
    BY <1>2, <1>5, <2>1 DEF RouteComes
<1>6. CASE i # 1 /\ (QueueSettles \/ QueueHalts)
  <2>1. /\ i - 1 \in 1..(Len(queue) - 1) /\ (i - 1) + 1 = i
        /\ i - 1 \in 1..Len(queue')
    BY <1>1, <1>2, <1>6 DEF QueueSettles, QueueHalts, Left, Joined, Moved
  <2>2. queue'[i - 1] = queue[i] /\ at' = "idle"
    BY <1>2, <1>6, <2>1 DEF QueueSettles, QueueHalts, Firm
  <2>3. QED
    BY <1>2, <2>1, <2>2 DEF RouteComes
<1>7. QED
  BY <1>3, <1>4, <1>5, <1>6

(* Beside the running mutation it waits on, or joins the queue. *)
LEMMA RouteComesBeside ==
  ASSUME SessionInv, QueueAsked, at' = at
  PROVE  /\ RouteComes => RouteComes'
         /\ Joined(queue, queue', 0, Mutation("reapply")) => RouteComes'
<1>1. /\ Len(queue) \in Nat /\ (at # "idle" => queue # <<>>) /\ queue \in Seq(Mutations)
  BY LenProperties, NextIsSegment DEF SessionInv, IInv, OneAttempt, RunsItsProgram
<1>2. RouteComes => RouteComes'
  BY <1>1 DEF QueueAsked, RouteComes, Firm, Left, Joined, Moved
<1>3. ASSUME Joined(queue, queue', 0, Mutation("reapply"))
      PROVE  RouteComes'
  <2>1. /\ Len(queue') = Len(queue) + 1 /\ queue'[Len(queue')].kind = "reapply"
        /\ queue'[Len(queue')].current
    BY <1>1, <1>3 DEF Joined, Moved, Same, Mutation
  <2>2. Len(queue) = 0 => at' = "idle"
    BY <1>1, EmptySeq
  <2>3. QED
    BY <1>1, <2>1, <2>2 DEF RouteComes
<1>4. QED
  BY <1>2, <1>3

(* Work in earnest is for a session that is wanted, and its checks pass. *)
LEMMA EarnestFacts ==
  ASSUME SessionInv, GivenUp, queue # <<>>
  PROVE  /\ InAttempt => status \in {"Connecting", "Reconnecting"}
         /\ InEarnest => Wanted /\ RoutingStateActive
<1>1. /\ queue \in Seq(Mutations) /\ Len(queue) \in Nat /\ Running = queue[1] /\ 1 \in 1..Len(queue)
  BY AttemptFacts, LenProperties, NextIsSegment DEF SessionInv, IInv
<1>2. InAttempt => status \in {"Connecting", "Reconnecting"}
  BY <1>1 DEF GivenUp, InAttempt, IsCurrent
<1>3. InAttempt => Wanted
  BY <1>1 DEF InAttempt, IsCurrent, SessionInv, IInv, UnwantedIsQuiet, Pending
<1>4. status = "Connected" => Wanted
  BY DEF SessionInv, IInv, UnwantedIsQuiet, Held, ConnectedOK, ConnectedIsServed
<1>5. QED
  BY <1>2, <1>3, <1>4 DEF InEarnest, RoutingStateActive, InAttempt

(* What is overtaken, and has lost its session, promises nothing. *)
LEMMA BypassOvertaken ==
  ASSUME SessionInv, BypassOK, UNCHANGED at, run'.next = run.next, run'.holdTun = run.holdTun,
         status' # "Connected", AllOvertaken, queue # <<>> => queue' # <<>> /\ Running' = queue'[1]
  PROVE  BypassOK'
<1>1. /\ at # "idle" => queue # <<>>
      /\ queue # <<>> => 1 \in 1..Len(queue)
      /\ Continuation # "idle" => at # "idle"
  BY AttemptFacts, LenProperties, NextIsSegment
     DEF SessionInv, IInv, OneAttempt, RunsItsProgram, Continuation, ApplyPoints
<1>2. at # "idle" => ~InAttempt' /\ ~InEarnest'
  BY <1>1 DEF AllOvertaken, InAttempt, InEarnest, IsCurrent
<1>3. Continuation' = Continuation
  BY DEF Continuation
<1>4. QED
  BY <1>1, <1>2, <1>3 DEF BypassOK, ApplyPoints

(* Calls, timers and events leave the routing to the mutations; the helper's death
   queues a replacement. *)
LEMMA BypassBeside ==
  ASSUME SessionInv, GivenUp, BypassOK, UserStep \/ Event \/ UNCHANGED vars
  PROVE  BypassOK'
<1>1. /\ queue \in Seq(Mutations) /\ Len(queue) \in Nat
      /\ queue # <<>> => Running = queue[1] /\ 1 \in 1..Len(queue)
      /\ at # "idle" => queue # <<>>
      /\ Continuation # "idle" => at # "idle"
  BY AttemptFacts, LenProperties, NextIsSegment DEF SessionInv, IInv, OneAttempt, RunsItsProgram,
     Continuation, ApplyPoints
<1>2. /\ UNCHANGED at /\ run'.next = run.next /\ run'.holdTun = run.holdTun
      /\ QueueAsked \/ QueueConnects \/ QueueEnds \/ QueueCleans
  BY BesideForms
<1>3. PICK m \in Mutations : Left(queue, queue', 0) \/ Joined(queue, queue', 0, m)
  BY <1>2, MutationType DEF QueueAsked, QueueConnects, QueueEnds, QueueCleans, Kinds
<1>4. queue # <<>> => queue' # <<>> /\ Running' = queue'[1] /\ Same(Running', Running)
  <2>1. queue' \in Seq(Mutations) /\ Len(queue') \in Nat
    BY <1>3 DEF Left, Joined, Moved
  <2>2. queue' # <<>> => Running' = queue'[1]
    BY <2>1, TailFacts DEF Running
  <2>3. QED
    BY <1>1, <1>3, <2>2, RunningStays, EmptySeq DEF Left, Joined, Moved
<1>5. CASE QueueConnects \/ QueueEnds \/ QueueCleans
  <2>1. AllOvertaken /\ status' # "Connected"
    BY <1>5 DEF QueueConnects, QueueEnds, QueueCleans, StartConnect, EndLifecycle, ClientFails
  <2>2. QED
    BY <1>2, <1>4, <2>1, BypassOvertaken
<1>6. CASE QueueAsked
  <2>1. /\ Continuation' = Continuation /\ status' = status /\ run' = run
        /\ RouteComes => RouteComes'
    BY <1>2, <1>6, RouteComesBeside DEF QueueAsked, Continuation
  <2>2. at # "idle" => (InAttempt' => InAttempt) /\ (InEarnest' => InEarnest)
    BY <1>1, <1>4, <2>1 DEF InAttempt, InEarnest, IsCurrent, Same
  <2>3. CASE UNCHANGED routing
    BY <1>1, <1>2, <2>1, <2>2, <2>3 DEF BypassOK, Routed, routing, tun, ApplyPoints
  <2>4. CASE HelperDies /\ systemProxy' = systemProxy
    <3>1. InEarnest => ~disposed
      BY EarnestFacts DEF InEarnest, Wanted
    <3>2. status = "Connected" => ~disposed
      BY DEF SessionInv, IInv, UnwantedIsQuiet, Held, ConnectedOK, ConnectedIsServed, Wanted
    <3>3. CASE active /\ ~disposed /\ (tunRoutingActive \/ tunStartAttempted)
      <4>1. queue' = Append(queue, Mutation("reapply"))
        BY <2>4, <3>3 DEF HelperDies
      <4>2. Joined(queue, queue', 0, Mutation("reapply"))
        <5>1. Left(queue, queue, 0) /\ Mutation("reapply") \in Mutations
          BY <1>1, OvertakesLeave, MutationType DEF Kinds
        <5>2. QED
          BY <4>1, <5>1, AppendJoins
      <4>3. RouteComes'
        BY <1>2, <1>6, <4>2, RouteComesBeside
      <4>4. QED
        BY <1>1, <1>2, <2>1, <2>2, <4>3 DEF BypassOK, ApplyPoints
    <3>4. CASE ~(active /\ ~disposed /\ (tunRoutingActive \/ tunStartAttempted))
      <4>1. UNCHANGED <<tunRoutingActive, tunStartAttempted>>
        BY <2>4, <3>4 DEF HelperDies
      <4>2. at = "tunRestore" /\ InEarnest => RouteComes
        BY <3>1, <3>4 DEF BypassOK
      <4>3. status = "Connected" => systemProxy = "listener" \/ at \in ApplyPoints \/ RouteComes
        BY <3>2, <3>4 DEF BypassOK, Routed
      <4>4. InAttempt /\ queue # <<>> => ~disposed
        BY <3>1 DEF InEarnest
      <4>5. at = "applied" /\ InAttempt => systemProxy = "listener" \/ RouteComes
        BY <1>1, <3>4, <4>4 DEF BypassOK, Routed
      <4>6. run.holdTun /\ Continuation \in {"dialStart", "dial", "listen", "established"} /\ InAttempt =>
              RouteComes
        BY <1>1, <3>4, <4>4 DEF BypassOK
      <4>7. /\ (at = "tunRestore" /\ InEarnest => RouteComes)'
            /\ (status = "Connected" => Routed \/ at \in ApplyPoints \/ RouteComes)'
            /\ (at = "applied" /\ InAttempt => Routed \/ RouteComes)'
            /\ (run.holdTun /\ Continuation \in {"dialStart", "dial", "listen", "established"} /\ InAttempt =>
                  (tunRoutingActive /\ active) \/ RouteComes)'
        BY <1>1, <1>2, <2>1, <2>2, <2>4, <4>2, <4>3, <4>5, <4>6 DEF Routed
      <4>8. QED
        BY <1>1, <1>2, <2>1, <2>2, <4>1, <4>7 DEF BypassOK, ApplyPoints
    <3>5. QED
      BY <3>3, <3>4
  <2>5. QED
    BY <1>6, <2>3, <2>4 DEF QueueAsked
<1>7. QED
  BY <1>2, <1>5, <1>6

(* The turn that goes on works for the same end. *)
LEMMA EarnestGoesOn ==
  ASSUME SessionInv, QueueStep, QueueGoesOn
  PROVE  /\ queue # <<>> /\ queue' # <<>> /\ UNCHANGED status
         /\ InAttempt' => InAttempt
         /\ InEarnest' => InEarnest
<1>1. queue # <<>> /\ Left(queue, queue', 0) /\ UNCHANGED status
  BY QueueForms DEF QueueGoesOn
<1>2. queue' # <<>> /\ Same(Running', Running)
  <2>1. Len(queue) # 0 /\ Len(queue') = Len(queue)
    BY <1>1, AttemptFacts, EmptySeq DEF SessionInv, Left, Moved
  <2>2. queue' # <<>>
    BY <2>1
  <2>3. QED
    BY <1>1, <2>2, RunningStays DEF Left
<1>3. QED
  BY <1>1, <1>2 DEF InAttempt, InEarnest, IsCurrent, Same

(* A stop is never begun beside a session in use. *)
LEMMA BypassByStop ==
  ASSUME SessionInv, SessionInv', NEW n \in {"replace", "failed", "apply", "stopListener", "done"},
         NEW r \in Locals, BeginStop(n, r), n = "replace" => ~r.holdTun
  PROVE  BypassOK'
<1>1. /\ at' = "stop" /\ Continuation' = n /\ run'.next = n /\ run'.holdTun = r.holdTun
      /\ ~systemRoutingApplied'
  BY DEF BeginStop, Locals, Continuation
<1>2. status' # "Connected"
  BY <1>1 DEF SessionInv, Held, ConnectedOK, ConnectedIsServed
<1>3. QED
  BY <1>1, <1>2 DEF BypassOK, ApplyPoints

(* An apply begins in earnest. *)
LEMMA BypassByApply ==
  ASSUME NEW n \in {"applied", "done"}, NEW r \in Locals, BeginApply(n, r)
  PROVE  BypassOK'
<1>1. /\ at' \in {"tunStop", "probe", "proxy"} /\ Continuation' = n
      /\ run'.live /\ ~run'.aborted
  BY DEF BeginApply, BeginTunStop, Locals, Continuation, ApplyPoints
<1>2. QED
  BY <1>1 DEF BypassOK, ApplyPoints

(* Between the routing's own steps nothing is lost. *)
LEMMA BypassAway ==
  ASSUME SessionInv, GivenUp, BypassOK, QueueStep, ~Reapply,
         UNCHANGED <<systemProxy, tunRoutingActive, active>>,
         at \notin ApplyPoints, at' \notin ApplyPoints \cup {"stop", "applied"},
         status' = "Connected" => status = "Connected",
         Continuation' # "replace",
         /\ run'.holdTun /\ InAttempt'
         /\ Continuation' \in {"dialStart", "dial", "listen", "established"}
         => /\ run.holdTun /\ InAttempt
            /\ Continuation \in {"dialStart", "dial", "listen", "established"}
  PROVE  BypassOK'
<1>1. RouteComes => RouteComes'
  BY RouteStillComes
<1>2. QED
  BY <1>1 DEF BypassOK, Routed, ApplyPoints

(* Connected traffic stays routed, or on its way to be, through every step. *)
LEMMA BypassStep ==
  ASSUME ~ProxyMayRefuse, SessionInv, SessionInv', RoutingOwned, ListenerKept, GivenUp, BypassOK, [Next]_vars
  PROVE  BypassOK'
<1> USE DEF routing, tun, local
<1>1. /\ run \in Locals /\ NoLocals \in Locals /\ run.next \in Segments
      /\ run.next \notin Awaits \cup {"idle", "proxy"} \cup ApplyPoints
  BY NextIsSegment, NoLocalsType DEF SessionInv, IInv, Segments, Awaits, ApplyPoints
<1>2. client \in Clients \cup {NoClient} /\ RunsItsProgram /\ ~NoLocals.holdTun
  BY DEF SessionInv, IInv, OneAttempt, TypeOK, LinkType, NoLocals
<1>3. ASSUME QueueStep, ~Reapply, RouteComes PROVE RouteComes'
  BY <1>3, RouteStillComes
<1>4. ASSUME queue # <<>>, InEarnest, at \in ApplyPoints PROVE ApplyLive /\ ~run.aborted
  BY <1>4, EarnestFacts DEF BypassOK, ApplyLive
<1>5. CASE FinishStop
  <2>1. /\ QueueStep /\ ~Reapply /\ at = "stop" /\ at' = run.next /\ run' = run /\ status' = status
        /\ Continuation = run.next
    BY <1>5 DEF QueueStep, FinishStop, Reapply, GoTo, At, Begins, Continuation
  <2>2. /\ Continuation' = Continuation
        /\ Continuation \notin {"applied", "dialStart", "dial", "listen", "established"}
    BY <1>1, <2>1 DEF Continuation, BypassOK, Awaits
  <2>3. status # "Connected"
    BY <2>1 DEF RoutingOwned, SessionInv, Held, ConnectedOK, ConnectedIsServed
  <2>4. QED
    BY <1>1, <2>1, <2>2, <2>3 DEF BypassOK, Awaits
<1>6. CASE FinishClose
  <2>1. /\ QueueStep /\ ~Reapply /\ at = "close" /\ at' = run.next /\ run' = run /\ status' = status
        /\ Continuation = run.next /\ at' # "idle" /\ UNCHANGED <<systemProxy, tunRoutingActive, active>>
    BY <1>1, <1>6 DEF QueueStep, FinishClose, Reapply, GoTo, At, Begins, Continuation
  <2>2. /\ Continuation' = Continuation /\ at' # "applied" /\ Continuation # "replace"
    BY <1>1, <2>1 DEF Continuation, Awaits, SessionInv, Held, SessionOK
  <2>3. QueueGoesOn
    BY <2>1, QueueForms DEF QueueSettles, QueueHalts
  <2>4. InAttempt' => InAttempt
    BY <2>1, <2>3, EarnestGoesOn
  <2>5. QED
    BY <1>1, <2>1, <2>2, <2>4, BypassAway DEF Awaits, ApplyPoints
<1>7. CASE SkipOvertaken \/ Done \/ Failed \/ Cleaned
  <2>1. /\ QueueStep /\ ~Reapply /\ at' = "idle" /\ at \notin ApplyPoints
        /\ UNCHANGED <<systemProxy, tunRoutingActive, active>>
        /\ status' = "Connected" => status = "Connected"
    BY <1>7 DEF QueueStep, SkipOvertaken, Done, Failed, Cleaned, Reapply, Finish, At, Begins, ApplyPoints,
                ScheduleReconnect, HaltReconnect
  <2>2. QED
    BY <2>1, BypassAway DEF Continuation, ApplyPoints
<1>8. CASE BeginConnect
  <2> DEFINE r == [NoLocals EXCEPT !.hold = HoldRouting, !.holdTun = HoldTunRouting]
  <2>1. /\ r \in Locals /\ r.holdTun = HoldTunRouting /\ status # "Connected" /\ status' = status
    <3>1. queue # <<>> /\ Running.kind = "connect" /\ IsCurrent /\ status' = status
      BY <1>8 DEF BeginConnect, Begins, At
    <3>2. QED
      BY <1>1, <3>1, CurrentAttempt DEF Locals, HoldRouting, HoldTunRouting
  <2>2. HoldTunRouting => tunRoutingActive /\ active /\ HoldRouting
    BY DEF HoldTunRouting
  <2>3. \/ TakeClient(r) /\ UNCHANGED <<tunRoutingActive, active>>
        \/ ~HoldRouting /\ BeginStop("replace", r)
    BY <1>8 DEF BeginConnect
  <2> HIDE DEF r
  <2>4. CASE TakeClient(r) /\ UNCHANGED <<tunRoutingActive, active>>
    <3>1. /\ at' \in {"dial", "close"} /\ Continuation' \in {"dial", "dialStart"}
          /\ run'.holdTun = r.holdTun
      BY <2>1, <2>4 DEF TakeClient, Locals, Continuation, ApplyPoints
    <3>2. QED
      BY <2>1, <2>2, <2>4, <3>1 DEF BypassOK, ApplyPoints
  <2>5. CASE ~HoldRouting /\ BeginStop("replace", r)
    BY <2>1, <2>2, <2>5, BypassByStop
  <2>6. QED
    BY <2>3, <2>4, <2>5
<1>9. CASE Replace
  <2>1. /\ QueueStep /\ ~Reapply /\ at = "replace" /\ Continuation = "replace" /\ ~run.holdTun
        /\ status' = status /\ UNCHANGED <<systemProxy, tunRoutingActive, active>>
    BY <1>9 DEF QueueStep, Replace, Reapply, At, Begins, Continuation, ApplyPoints, BypassOK
  <2>2. CASE TakeClient(run)
    <3>1. /\ at' \in {"dial", "close"} /\ Continuation' \in {"dial", "dialStart"}
          /\ ~run'.holdTun
      BY <1>1, <2>1, <2>2 DEF TakeClient, Locals, Continuation, ApplyPoints
    <3>2. QED
      BY <2>1, <3>1, BypassAway DEF ApplyPoints
  <2>3. CASE Finish
    BY <2>1, <2>3, BypassAway DEF Finish, Continuation, ApplyPoints
  <2>4. QED
    BY <1>9, <2>2, <2>3 DEF Replace
<1>10. CASE DialStart
  <2>1. /\ QueueStep /\ ~Reapply /\ at = "dialStart" /\ Continuation = "dialStart"
        /\ status' = status /\ UNCHANGED <<systemProxy, tunRoutingActive, active>>
    BY <1>10 DEF QueueStep, DialStart, Reapply, At, Begins, Continuation, ApplyPoints
  <2>2. CASE GoTo("dial")
    BY <2>1, <2>2, BypassAway DEF GoTo, Continuation, ApplyPoints, InAttempt, IsCurrent, Running
  <2>3. CASE Finish
    BY <2>1, <2>3, BypassAway DEF Finish, Continuation, ApplyPoints
  <2>4. QED
    BY <1>10, <2>2, <2>3 DEF DialStart
<1>11. CASE \E c \in Clients \ open : DialOk(c) \/ DialOvertaken(c)
  <2>1. /\ QueueStep /\ ~Reapply /\ at = "dial" /\ Continuation = "dial" /\ queue' = queue
        /\ status' = status /\ UNCHANGED <<systemProxy, tunRoutingActive, active>>
    BY <1>11 DEF QueueStep, DialOk, DialOvertaken, Reapply, At, Begins, Continuation, ApplyPoints
  <2>2. /\ at' \in {"established", "listen", "close"} /\ (at' = "close" => run'.next = "done")
        /\ run'.holdTun = run.holdTun
    BY <1>1, <1>11 DEF DialOk, DialOvertaken, Locals
  <2>3. Continuation' # "replace"
    BY <2>2 DEF Continuation, ApplyPoints
  <2>4. QED
    BY <2>1, <2>2, <2>3, BypassAway DEF ApplyPoints, InAttempt, IsCurrent, Running
<1>12. CASE \E e \in Failures : DialFail(e)
  <2>1. PICK e \in Failures : DialFail(e)
    BY <1>12
  <2>2. [run EXCEPT !.error = e] \in Locals
    BY <1>1, <2>1 DEF Locals
  <2>3. CASE BeginStop("failed", [run EXCEPT !.error = e])
    BY <2>2, <2>3, BypassByStop
  <2>4. CASE at' = "failed" /\ UNCHANGED <<systemProxy, tunRoutingActive, active>>
    <3>1. QueueStep /\ ~Reapply /\ at = "dial" /\ status' = status
      BY <2>1 DEF QueueStep, DialFail, Reapply, At, Begins
    <3>2. QED
      BY <2>4, <3>1, BypassAway DEF Continuation, ApplyPoints
  <2>5. QED
    BY <2>1, <2>3, <2>4 DEF DialFail
<1>13. CASE ListenOk \/ ListenFail
  <2>1. /\ QueueStep /\ ~Reapply /\ at = "listen" /\ Continuation = "listen" /\ queue' = queue
        /\ status' = status /\ UNCHANGED <<systemProxy, tunRoutingActive, active>>
        /\ at' \in {"established", "close"} /\ (at' = "close" => run'.next = "failed")
        /\ run'.holdTun = run.holdTun
    BY <1>1, <1>13 DEF QueueStep, ListenOk, ListenFail, SetupFails, GoTo, Reapply, At, Begins,
                       Continuation, ApplyPoints, Locals
  <2>2. Continuation' # "replace"
    BY <2>1 DEF Continuation, ApplyPoints
  <2>3. QED
    BY <2>1, <2>2, BypassAway DEF ApplyPoints, InAttempt, IsCurrent, Running
<1>14. CASE Established \/ Applied
  <2>1. /\ QueueStep /\ ~Reapply /\ SessionInHand /\ at \in {"established", "applied"} /\ Continuation = at
    BY <1>14 DEF QueueStep, Established, Applied, Reapply, At, Begins, SessionInHand, Continuation,
                 ApplyPoints
  <2>2. /\ Running.kind = "connect" /\ status # "Connected"
    BY <2>1, InHand
  <2>3. CASE CloseSuperseded /\ UNCHANGED <<systemProxy, tunRoutingActive, active, status>>
    BY <1>1, <2>1, <2>3, BypassAway DEF CloseSuperseded, Continuation, ApplyPoints, Locals
  <2>4. CASE BecomeConnected /\ ~Superseded /\ (at = "established" => run.holdTun)
    <3>1. InAttempt
      BY <2>2, <2>4 DEF InAttempt, Superseded
    <3>2. Routed \/ RouteComes
      BY <2>1, <2>4, <3>1 DEF BypassOK, Routed
    <3>3. Routed' \/ RouteComes'
      BY <1>3, <2>1, <2>4, <3>2 DEF BecomeConnected, Routed
    <3>4. at' = "idle"
      BY <2>4 DEF BecomeConnected
    <3>5. QED
      BY <3>3, <3>4 DEF BypassOK, Continuation, ApplyPoints
  <2>5. CASE BeginStop("apply", run)
    BY <1>1, <2>5, BypassByStop
  <2>6. CASE ConnectApplies
    BY <1>1, <2>6, BypassByApply DEF ConnectApplies
  <2>7. QED
    BY <1>14, <2>3, <2>4, <2>5, <2>6 DEF Established, Applied, At
<1>15. CASE Apply
  BY <1>1, <1>15, BypassByApply DEF Apply, ConnectApplies
<1>16. CASE Probe \/ TunStartOk \/ TunStartFail \/ TunRestore \/ TunStop \/ Proxy \/ ProxyApplyOk
  <2>1. /\ QueueStep /\ ~Reapply /\ at \in ApplyPoints /\ at' # "idle" /\ queue # <<>>
        /\ at' \in ApplyPoints \cup {run.next} /\ run'.next = run.next
        /\ run'.live = run.live /\ run'.aborted = run.aborted /\ run.next \in {"applied", "done"}
    <3>1. /\ QueueStep /\ ~Reapply /\ at \in ApplyPoints /\ at' # "idle" /\ queue # <<>>
          /\ at' \in ApplyPoints \cup {run.next} /\ run'.next = run.next
          /\ run'.live = run.live /\ run'.aborted = run.aborted
      BY <1>1, <1>16 DEF QueueStep, Probe, TunStartOk, TunStartFail, TunRestore, TunStop, Proxy,
                         ProxyApplyOk, BeginTunStop, GoTo, Reapply, At, Begins, ApplyPoints, Locals
    <3>2. QED
      BY <1>2, <3>1 DEF RunsItsProgram
  <2>2. Continuation' \in {"applied", "done"} /\ Continuation' = run.next
    BY <1>1, <2>1 DEF Continuation, ApplyPoints
  <2>3. QueueGoesOn
    BY <2>1, QueueForms DEF QueueSettles, QueueHalts
  <2>4. UNCHANGED status /\ (InAttempt' => InAttempt) /\ (InEarnest' => InEarnest)
    BY <2>1, <2>3, EarnestGoesOn
  <2>5. InEarnest => ApplyLive /\ ~run.aborted
    BY <1>4, <2>1
  <2>6. RouteComes => RouteComes'
    BY <1>3, <2>1
  <2>7. at' # "stop"
    BY <1>1, <2>1 DEF ApplyPoints, Awaits
  <2> SUFFICES /\ at' = "tunStart" /\ InEarnest => tunStartAttempted' \/ RouteComes'
               /\ at' = "tunRestore" /\ InEarnest => RouteComes' \/ (active' /\ tunStartAttempted')
               /\ at' \notin ApplyPoints /\ InEarnest => Routed' \/ RouteComes'
    <3>1. at' \in ApplyPoints /\ InEarnest' => run'.live /\ ~run'.aborted
      BY <2>1, <2>4, <2>5 DEF ApplyLive
    <3>2. status' = "Connected" \/ InAttempt' => InEarnest
      BY <2>1, <2>4 DEF InEarnest
    <3>3. at' = "applied" => at' \notin ApplyPoints
      BY DEF ApplyPoints
    <3>4. QED
      BY <2>2, <2>4, <2>7, <3>1, <3>2, <3>3 DEF BypassOK
  <2>8. CASE Probe
    BY <2>8 DEF Probe, BeginTunStop, GoTo, ApplyPoints
  <2>9. CASE TunStartOk
    BY <1>1, <2>6, <2>9 DEF TunStartOk, GoTo, ApplyPoints, BypassOK, At
  <2>10. CASE TunStartFail
    BY <2>10 DEF TunStartFail, BeginTunStop, GoTo, ApplyPoints
  <2>11. CASE TunRestore
    BY <1>1, <2>6, <2>11 DEF TunRestore, GoTo, ApplyPoints, BypassOK, At, Routed
  <2>12. CASE TunStop
    BY <2>12 DEF TunStop, GoTo, ApplyPoints
  <2>13. CASE Proxy
    <3>1. InEarnest => at' = "proxyApply"
      BY <2>5, <2>13 DEF Proxy, GoTo
    <3>2. QED
      BY <3>1 DEF ApplyPoints
  <2>14. CASE ProxyApplyOk
    <3>1. systemProxy' = "listener" /\ at' = run.next
      BY <2>14 DEF ProxyApplyOk, GoTo
    <3>2. QED
      BY <1>1, <3>1 DEF Routed, ApplyPoints
  <2>15. QED
    BY <1>16, <2>8, <2>9, <2>10, <2>11, <2>12, <2>13, <2>14
<1>17. CASE ProxyApplyFail
  BY <1>17 DEF ProxyApplyFail
<1>18. CASE RoutingUpdate \/ Reapply
  <2>1. CASE BeginApply("done", NoLocals)
    BY <1>1, <2>1, BypassByApply
  <2>2. CASE /\ Finish /\ UNCHANGED status
             /\ \/ status # "Connected" \/ ~lastRequest \/ ~socksProxy \/ ~systemRoutingApplied
    <3>1. at' = "idle"
      BY <2>2 DEF Finish
    <3>2. status' # "Connected"
      BY <2>2 DEF SessionInv, IInv, UnwantedIsQuiet, Wanted, Held, ConnectedOK, ConnectedIsServed
    <3>3. QED
      BY <3>1, <3>2 DEF BypassOK, Continuation, ApplyPoints
  <2>3. QED
    BY <1>18, <2>1, <2>2 DEF RoutingUpdate, Reapply
<1>19. CASE BeginCleanup
  <2>1. /\ QueueStep /\ ~Reapply /\ at = "idle" /\ at' = "close" /\ run'.next = "cleaned"
        /\ status' = status /\ UNCHANGED <<systemProxy, tunRoutingActive, active>>
    BY <1>1, <1>19 DEF QueueStep, BeginCleanup, Reapply, At, Begins, Locals
  <2>2. QED
    BY <2>1, BypassAway DEF Continuation, ApplyPoints
<1>20. CASE DisconnectInternal \/ StopRouting
  <2>1. \E r \in Locals : BeginStop("stopListener", r)
    <3>1. [NoLocals EXCEPT !.session = client] \in Locals
      BY <1>1, <1>2 DEF Locals
    <3>2. QED
      BY <1>1, <1>20, <3>1 DEF DisconnectInternal, StopRouting
  <2>2. QED
    BY <2>1, BypassByStop
<1>21. CASE StopListener
  <2>1. /\ QueueStep /\ ~Reapply /\ at = "stopListener" /\ run'.next = "ended"
        /\ at' \in {"done", "close", "ended"}
        /\ status' = status /\ UNCHANGED <<systemProxy, tunRoutingActive, active>>
    BY <1>1, <1>21 DEF QueueStep, StopListener, Reapply, At, Begins, Locals
  <2>2. QED
    BY <2>1, BypassAway DEF Continuation, ApplyPoints
<1>22. CASE Ended
  <2>1. at = "ended" /\ Continuation = "ended" /\ at' = "idle"
    BY <1>22 DEF Ended, At, Finish, Continuation, ApplyPoints
  <2>2. status' # "Connected"
    <3>1. socksProxy' = socksProxy /\ ~socksProxy
      BY <1>22, <2>1 DEF Ended, ListenerKept
    <3>2. QED
      BY <3>1 DEF SessionInv, Held, ConnectedOK, ConnectedIsServed
  <2>3. QED
    BY <2>1, <2>2 DEF BypassOK, Continuation, ApplyPoints
<1>23. CASE HoldStop
  <2>1. CASE BeginStop("done", NoLocals)
    BY <1>1, <2>1, BypassByStop
  <2>2. CASE Finish /\ UNCHANGED routing
    <3>1. /\ QueueStep /\ ~Reapply /\ at = "idle" /\ at' = "idle" /\ status' = status
      BY <1>23, <2>2 DEF QueueStep, HoldStop, Reapply, At, Begins, Finish
    <3>2. QED
      BY <2>2, <3>1, BypassAway DEF Continuation, ApplyPoints
  <2>3. QED
    BY <1>23, <2>1, <2>2 DEF HoldStop
<1>24. CASE UserStep \/ Event \/ UNCHANGED vars
  BY <1>24, BypassBeside
<1>25. QED
  BY <1>5, <1>6, <1>7, <1>8, <1>9, <1>10, <1>11, <1>12, <1>13, <1>14, <1>15, <1>16, <1>17, <1>18, <1>19,
     <1>20, <1>21, <1>22, <1>23, <1>24 DEF Next, QueueStep

-----------------------------------------------------------------------------
(* Without an adapter no rebuild of one goes on behind a session that has gone. *)
NoAdapter ==
  /\ ~tunRoutingActive
  /\ at \notin {"probe", "tunStart", "tunRestore"}
  /\ Continuation # "apply"

(* No step starts an adapter where there is none to start. *)
LEMMA NoAdapterStep ==
  ASSUME ~TunEnabled, SessionInv, NoAdapter, [Next]_vars
  PROVE  NoAdapter'
<1> USE DEF routing, tun
<1>1. /\ run \in Locals /\ run.next \in Segments /\ NoLocals \in Locals
      /\ run.next \notin Awaits \cup {"idle", "proxy"}
  BY NextIsSegment, NoLocalsType DEF SessionInv, IInv
<1>2. CASE QueueStep
  <2>1. ~tunRoutingActive' /\ at' \notin {"probe", "tunStart", "tunRestore"}
    <3>1. CASE FinishStop \/ FinishClose \/ SkipOvertaken \/ Done \/ BeginConnect \/ Replace \/ DialStart
      BY <1>1, <3>1 DEF FinishStop, FinishClose, SkipOvertaken, Done, BeginConnect, Replace, DialStart,
                        BeginStop, TakeClient, Finish, GoTo, NoAdapter, Awaits
    <3>2. CASE \E c \in Clients \ open : DialOk(c) \/ DialOvertaken(c)
      BY <3>2 DEF DialOk, DialOvertaken, NoAdapter
    <3>3. CASE \E e \in Failures : DialFail(e)
      BY <3>3 DEF DialFail, BeginStop, NoAdapter
    <3>4. CASE ListenOk \/ ListenFail
      BY <3>4 DEF ListenOk, ListenFail, SetupFails, GoTo, NoAdapter
    <3>5. CASE Established \/ Apply \/ Applied
      BY <3>5 DEF Established, Apply, Applied, CloseSuperseded, BecomeConnected, ConnectApplies,
                  BeginApply, BeginStop, NoAdapter
    <3>6. CASE Probe \/ TunStartOk \/ TunStartFail \/ TunRestore
      BY <3>6 DEF Probe, TunStartOk, TunStartFail, TunRestore, At, NoAdapter
    <3>7. CASE TunStop \/ Proxy \/ ProxyApplyOk \/ ProxyApplyFail
      BY <1>1, <3>7 DEF TunStop, Proxy, ProxyApplyOk, ProxyApplyFail, SetupFails, Finish, GoTo, NoAdapter,
                        Awaits, Segments
    <3>8. CASE RoutingUpdate \/ Reapply
      BY <3>8 DEF RoutingUpdate, Reapply, BeginApply, Finish, NoAdapter
    <3>9. CASE Failed \/ BeginCleanup \/ Cleaned \/ DisconnectInternal \/ StopRouting \/ StopListener
      BY <3>9 DEF Failed, BeginCleanup, Cleaned, DisconnectInternal, StopRouting, StopListener, Finish,
                  BeginStop, NoAdapter
    <3>10. CASE Ended \/ HoldStop
      BY <3>10 DEF Ended, HoldStop, Finish, BeginStop, NoAdapter
    <3>11. QED
      BY <1>2, <3>1, <3>2, <3>3, <3>4, <3>5, <3>6, <3>7, <3>8, <3>9, <3>10 DEF QueueStep
  <2>2. Continuation' # "apply"
    <3>1. at' = "idle" => Continuation' = "idle"
      BY DEF Continuation, ApplyPoints
    <3>2. QED
      BY <1>2, <3>1, AppliesForAttempt DEF NoAdapter
  <2>3. QED
    BY <2>1, <2>2 DEF NoAdapter
<1>3. CASE UserStep \/ Event \/ UNCHANGED vars
  <2>1. UNCHANGED at /\ run'.next = run.next
    BY <1>3, BesideForms
  <2>2. tunRoutingActive' => tunRoutingActive
    BY <1>3 DEF UserStep, Event, Connect, BeginDisconnect, Disconnect, ClearError, Dispose, UpdateRouting,
                EndLifecycle, ReconnectTimerFires, HoldTimerFires, ClientFails, HelperDies, Park, Unpark,
                vars
  <2>3. QED
    BY <2>1, <2>2 DEF NoAdapter, Continuation
<1>4. QED
  BY <1>2, <1>3 DEF Next

-----------------------------------------------------------------------------
(* The mutation m ends in a stop of the routing, or goes through an attempt. *)
Leaves(m) ==
  /\ m.current
  /\ m.kind \in {"connect", "stopRouting"} \/ (m.kind = "cleanup" /\ ~m.retryable)

LeaveTime == holdTimer \/ holdStopQueued \/ \E i \in 1..Len(queue) : Leaves(queue[i])

(* Held routing has its clock, the stop of the expired hold is waiting and is not the
   one that runs, and a client that is not heard is about to be replaced. *)
HeldOK ==
  /\ holdStopQueued => Pending({"holdStop"})
  /\ systemRoutingApplied /\ client = NoClient /\ ~disconnectRequested => LeaveTime
  /\ queue # <<>> /\ Running.kind = "holdStop" /\ at # "idle" => ~IsCurrent
  /\ client # NoClient /\ ~clientCurrent => disconnectRequested \/ Pending({"connect"})
  /\ disposed => disconnectRequested

(* Whatever waits is still there after a step of the running mutation. *)
LEMMA WaitsOn ==
  ASSUME SessionInv, QueueStep, NEW i \in 1..Len(queue),
         queue[i].kind \notin {"holdStop", "routing"}, i # 1 \/ at' # "idle"
  PROVE  \E j \in 1..Len(queue') : queue'[j] = queue[i]
<1>1. Len(queue) \in Nat /\ (QueueGoesOn \/ QueueSettles \/ QueueHalts)
  BY QueueForms, AttemptFacts DEF SessionInv
<1>2. CASE QueueGoesOn
  BY <1>1, <1>2 DEF QueueGoesOn, Firm, Left, Moved
<1>3. CASE QueueSettles \/ QueueHalts
  <2>1. i - 1 \in 1..(Len(queue) - 1) /\ (i - 1) + 1 = i /\ i - 1 \in 1..Len(queue')
    BY <1>1, <1>3 DEF QueueSettles, QueueHalts, Left, Joined, Moved
  <2>2. queue'[i - 1] = queue[i]
    BY <1>3, <2>1 DEF QueueSettles, QueueHalts, Firm
  <2>3. QED
    BY <2>1, <2>2
<1>4. QED
  BY <1>1, <1>2, <1>3

(* How an attempt or a cleanup that is not overtaken settles *)
LEMMA AttemptSettles ==
  ASSUME SessionInv, QueueStep, at' = "idle", Running.kind \in Lifecycle, IsCurrent
  PROVE  Failed \/ Cleaned \/ (BecomeConnected /\ SessionInHand /\ UNCHANGED link)
<1>1. /\ run \in Locals /\ run.next \in Segments /\ run.next # "idle" /\ RunsItsProgram /\ queue # <<>>
  BY NextIsSegment, QueueForms DEF SessionInv, IInv, OneAttempt
<1>2. ~(Done \/ Ended \/ SkipOvertaken \/ HoldStop \/ RoutingUpdate \/ Reapply)
  <2>1. ~(Done \/ Ended)
    BY <1>1 DEF Done, Ended, At, Continuation, ApplyPoints, RunsItsProgram
  <2>2. QED
    BY <2>1 DEF SkipOvertaken, HoldStop, RoutingUpdate, Reapply, Begins, Lifecycle
<1>3. ~(FinishStop \/ FinishClose \/ TunStartOk \/ TunRestore \/ TunStop \/ Proxy \/ ProxyApplyOk)
  BY <1>1 DEF FinishStop, FinishClose, TunStartOk, TunRestore, TunStop, Proxy, ProxyApplyOk, GoTo
<1>4. ~(BeginConnect \/ Replace \/ DialStart \/ ListenOk \/ ListenFail)
  BY DEF BeginConnect, Replace, DialStart, ListenOk, ListenFail, TakeClient, BeginStop, SetupFails, GoTo
<1>5. ~(\E c \in Clients \ open : DialOk(c) \/ DialOvertaken(c)) /\ ~(\E e \in Failures : DialFail(e))
  BY DEF DialOk, DialOvertaken, DialFail, BeginStop
<1>6. ~(Apply \/ Probe \/ TunStartFail \/ BeginCleanup \/ DisconnectInternal \/ StopRouting \/ StopListener)
  BY DEF Apply, ConnectApplies, BeginApply, Probe, TunStartFail, BeginTunStop, BeginCleanup,
         DisconnectInternal, StopRouting, StopListener, BeginStop, GoTo
<1>7. CASE ProxyApplyFail
  <2>1. at = "proxyApply" /\ Running.kind # "connect"
    BY <1>7 DEF ProxyApplyFail, SetupFails, At
  <2>2. QED
    BY <1>1, <2>1 DEF RunsItsProgram, Continuation, ApplyPoints
<1>8. CASE Established \/ Applied
  BY <1>8 DEF Established, Applied, CloseSuperseded, BeginStop, ConnectApplies, BeginApply, BeginTunStop,
              At, SessionInHand, Continuation, ApplyPoints
<1>9. QED
  BY <1>2, <1>3, <1>4, <1>5, <1>6, <1>7, <1>8 DEF QueueStep

(* What the running mutation does to the client *)
LEMMA LinkForms ==
  ASSUME SessionInv, QueueStep
  PROVE  \/ UNCHANGED <<client, clientCurrent>>
         \/ client' \in Clients /\ clientCurrent'
         \/ /\ client' = NoClient /\ at' # "idle"
            /\ InAttempt \/ (SessionInHand /\ ~IsCurrent) \/ ~systemRoutingApplied'
<1> USE DEF link
<1>1. /\ queue # <<>> /\ RunsItsProgram /\ run \in Locals
  BY QueueForms, NextIsSegment DEF SessionInv, IInv, OneAttempt
<1>2. CASE BeginConnect
  BY <1>2 DEF BeginConnect, Begins, InAttempt, TakeClient
<1>3. CASE Replace
  <2>1. Running.kind = "connect"
    BY <1>1, <1>3 DEF Replace, At, Continuation, ApplyPoints, RunsItsProgram
  <2>2. QED
    BY <1>3, <2>1 DEF Replace, InAttempt, TakeClient
<1>4. CASE \E c \in Clients \ open : DialOk(c) \/ DialOvertaken(c)
  BY <1>4 DEF DialOk, DialOvertaken
<1>5. CASE ListenFail \/ ProxyApplyFail
  <2>1. CASE SetupFails /\ SessionInHand
    <3>1. Running.kind = "connect"
      BY <2>1, InHand
    <3>2. CASE client = run.session
      BY <2>1, <3>1, <3>2 DEF SetupFails, InAttempt
    <3>3. CASE client # run.session
      <4>1. client' = client /\ clientCurrent' = clientCurrent
        <5>1. clientCurrent \in BOOLEAN
          BY DEF SessionInv, IInv, TypeOK, LinkType
        <5>2. QED
          BY <2>1, <3>3, <5>1 DEF SetupFails
      <4>2. QED
        BY <4>1
    <3>4. QED
      BY <3>2, <3>3
  <2>2. CASE UNCHANGED link
    BY <2>2
  <2>3. CASE ListenFail
    BY <2>1, <2>3 DEF ListenFail, At, SessionInHand, Continuation, ApplyPoints
  <2>4. CASE ProxyApplyFail /\ Running.kind = "connect"
    <3>1. SetupFails /\ at = "proxyApply"
      BY <2>4 DEF ProxyApplyFail, At
    <3>2. SessionInHand
      BY <1>1, <2>4, <3>1 DEF RunsItsProgram, SessionInHand, Continuation, ApplyPoints
    <3>3. QED
      BY <2>1, <3>1, <3>2
  <2>5. CASE ProxyApplyFail /\ Running.kind # "connect"
    BY <2>2, <2>5 DEF ProxyApplyFail
  <2>6. QED
    BY <1>5, <2>3, <2>4, <2>5
<1>6. CASE DisconnectInternal
  BY <1>6 DEF DisconnectInternal, BeginStop
<1>7. CASE \/ FinishStop \/ FinishClose \/ SkipOvertaken \/ Done \/ DialStart
           \/ ListenOk \/ Established \/ Apply \/ Applied
  BY <1>7 DEF FinishStop, FinishClose, SkipOvertaken, Done, DialStart, ListenOk, Established, Apply, Applied
<1>8. CASE \/ Probe \/ TunStartOk \/ TunStartFail \/ TunRestore \/ TunStop
           \/ Proxy \/ ProxyApplyOk \/ RoutingUpdate \/ Reapply
  BY <1>8 DEF Probe, TunStartOk, TunStartFail, TunRestore, TunStop, Proxy, ProxyApplyOk, RoutingUpdate,
              Reapply
<1>9. CASE Failed \/ BeginCleanup \/ Cleaned \/ StopRouting \/ StopListener \/ Ended \/ HoldStop
  BY <1>9 DEF Failed, BeginCleanup, Cleaned, StopRouting, StopListener, Ended, HoldStop
<1>10. CASE \E e \in Failures : DialFail(e)
  BY <1>10 DEF DialFail
<1>11. QED
  BY <1>2, <1>3, <1>4, <1>5, <1>6, <1>7, <1>8, <1>9, <1>10 DEF QueueStep

(* What the running mutation does to the clock of a hold *)
LEMMA HoldForms ==
  ASSUME SessionInv, QueueStep
  PROVE  /\ holdStopQueued' =>
              /\ holdStopQueued
              /\ queue' \in {queue, Tail(queue), Append(Tail(queue), Mutation("stopRouting"))}
              /\ ~HoldStop
         /\ holdTimer \/ holdStopQueued =>
              \/ holdTimer' \/ holdStopQueued' \/ ~systemRoutingApplied'
              \/ client' # NoClient
              \/ HoldStop /\ (client # NoClient \/ disposed \/ disconnectRequested)
         /\ Failed /\ IsCurrent /\ systemRoutingApplied => holdTimer' \/ holdStopQueued'
<1> USE DEF hold
<1>1. CASE \/ FinishStop \/ FinishClose \/ SkipOvertaken \/ Done \/ Replace \/ DialStart
           \/ ListenOk \/ ListenFail
  BY <1>1 DEF FinishStop, FinishClose, SkipOvertaken, Done, Replace, DialStart, ListenOk, ListenFail,
              TakeClient, SetupFails, Finish, GoTo, HoldStop, Failed, Begins, At
<1>2. CASE BeginConnect
  BY <1>2 DEF BeginConnect, TakeClient, BeginStop, Begins, HoldStop, Failed, At
<1>3. CASE \E c \in Clients \ open : DialOk(c) \/ DialOvertaken(c)
  BY <1>3 DEF DialOk, DialOvertaken, HoldStop, Begins, Failed, At
<1>4. CASE \E e \in Failures : DialFail(e)
  BY <1>4 DEF DialFail, BeginStop, HoldStop, Begins, Failed, At
<1>5. CASE Established \/ Apply \/ Applied
  <2>1. ~HoldStop /\ ~Failed
    BY <1>5 DEF Established, Apply, Applied, HoldStop, Begins, Failed, At
  <2>2. CASE BecomeConnected /\ ~Superseded /\ UNCHANGED client
    <3>1. SessionInHand
      BY <1>5, <2>2 DEF Established, Apply, Applied, At, BecomeConnected, BeginStop, SessionInHand,
                        Continuation, ApplyPoints
    <3>2. client = run.session /\ run.session # NoClient
      BY <2>2, <3>1, InHand DEF Superseded
    <3>3. QED
      BY <2>1, <2>2, <3>2 DEF BecomeConnected
  <2>3. CASE BeginStop("apply", run)
    BY <2>1, <2>3 DEF BeginStop
  <2>4. CASE UNCHANGED <<queue, hold>>
    BY <2>1, <2>4
  <2>5. QED
    BY <1>5, <2>2, <2>3, <2>4 DEF Established, Apply, Applied, CloseSuperseded, ConnectApplies, BeginApply,
       BeginTunStop, link
<1>6. CASE Probe \/ TunStartOk \/ TunStartFail \/ TunRestore \/ TunStop \/ Proxy \/ ProxyApplyOk \/ ProxyApplyFail
  BY <1>6 DEF Probe, TunStartOk, TunStartFail, TunRestore, TunStop, Proxy, ProxyApplyOk, ProxyApplyFail,
              BeginTunStop, SetupFails, Finish, GoTo, HoldStop, Begins, Failed, At
<1>7. CASE RoutingUpdate \/ Reapply
  BY <1>7 DEF RoutingUpdate, Reapply, BeginApply, BeginTunStop, Finish, HoldStop, Begins, Failed, At
<1>8. CASE Failed
  <2>1. ~HoldStop /\ systemRoutingApplied' = systemRoutingApplied
    BY <1>8 DEF Failed, HoldStop, Begins, At, routing
  <2>2. CASE ~IsCurrent
    BY <1>8, <2>1, <2>2 DEF Failed, Finish
  <2>3. CASE IsCurrent
    <3>1. PICK q \in {Tail(queue), Append(Tail(queue), Mutation("stopRouting"))} : SuspendTunnel(q)
      BY <1>8, <2>3 DEF Failed
    <3>2. QED
      BY <2>1, <3>1 DEF SuspendTunnel, ArmsHold
  <2>4. QED
    BY <2>2, <2>3
<1>9. CASE BeginCleanup \/ Cleaned \/ StopListener \/ Ended
  <2>1. ~HoldStop /\ ~Failed
    BY <1>9 DEF BeginCleanup, Cleaned, StopListener, Ended, HoldStop, Begins, Failed, At
  <2>2. UNCHANGED hold
    BY <1>9 DEF BeginCleanup, Cleaned, StopListener, Ended
  <2>3. queue' \in {queue, Tail(queue), Append(Tail(queue), Mutation("stopRouting"))}
    BY <1>9 DEF BeginCleanup, Cleaned, StopListener, Ended, Finish
  <2>4. QED
    BY <2>1, <2>2, <2>3
<1>10. CASE DisconnectInternal \/ StopRouting
  BY <1>10 DEF DisconnectInternal, StopRouting, BeginStop, Failed, Begins, At
<1>11. CASE HoldStop
  BY <1>11 DEF HoldStop, BeginStop, Failed, Begins, At
<1>12. QED
  BY <1>1, <1>2, <1>3, <1>4, <1>5, <1>6, <1>7, <1>8, <1>9, <1>10, <1>11 DEF QueueStep

(* The stop of an expired hold, once it has its turn, takes the routing down. *)
LEMMA HoldStopRuns ==
  ASSUME SessionInv, QueueStep, Running.kind = "holdStop", IsCurrent, at = "idle"
  PROVE  HoldStop
  BY DEF QueueStep, FinishStop, FinishClose, SkipOvertaken, Done, BeginConnect, Replace, DialStart,
         DialOk, DialOvertaken, DialFail, ListenOk, ListenFail, Established, Apply, Applied, Probe,
         TunStartOk, TunStartFail, TunRestore, TunStop, Proxy, ProxyApplyOk, ProxyApplyFail,
         RoutingUpdate, Reapply, Failed, BeginCleanup, Cleaned, DisconnectInternal, StopRouting,
         StopListener, Ended, Begins, At

(* What overtakes a lifecycle or an older routing update leaves the hold's stop. *)
LEMMA HoldStopStays ==
  ASSUME NEW q \in Seq(Mutations), NEW m \in Mutations,
         NEW i \in 1..Len(q), q[i].kind = "holdStop"
  PROVE  \A p \in {q, Overtake(q), OvertakeRouting(q), Append(q, m), Append(Overtake(q), m),
                   Append(OvertakeRouting(q), m)} : i \in 1..Len(p) /\ p[i] = q[i]
<1>1. Len(q) \in Nat
  BY LenProperties
<1>2. Overtake(q) \in Seq(Mutations) /\ Len(Overtake(q)) = Len(q) /\ Overtake(q)[i] = q[i]
  BY OvertakeFacts DEF Overtake
<1>3. /\ OvertakeRouting(q) \in Seq(Mutations) /\ Len(OvertakeRouting(q)) = Len(q)
      /\ OvertakeRouting(q)[i] = q[i]
  BY OvertakeRoutingFacts
<1>4. ASSUME NEW p \in Seq(Mutations), Len(p) = Len(q), p[i] = q[i]
      PROVE  i \in 1..Len(Append(p, m)) /\ Append(p, m)[i] = q[i]
  BY <1>1, <1>4, AppendFacts
<1>5. QED
  BY <1>1, <1>2, <1>3, <1>4

(* The running mutation leaves a deadline behind for the routing it leaves held. *)
LEMMA HeldByQueue ==
  ASSUME ~TunEnabled, SessionInv, GivenUp, StopsFirst, NoAdapter, HeldOK, QueueStep
  PROVE  HeldOK'
<1>1. /\ queue \in Seq(Mutations) /\ Len(queue) \in Nat
      /\ queue # <<>> /\ Running = queue[1] /\ 1 \in 1..Len(queue) /\ RunsItsProgram
      /\ QueueGoesOn \/ QueueSettles \/ QueueHalts
  BY AttemptFacts, LenProperties, NextIsSegment, QueueForms DEF SessionInv, IInv, OneAttempt
<1>2. UNCHANGED <<disconnectRequested, disposed>>
  <2>1. CASE QueueGoesOn
    BY <2>1 DEF QueueGoesOn, intent
  <2>2. CASE at' = "idle"
    BY <2>2, SettlesAs
  <2>3. QED
    BY <1>1, <2>1, <2>2 DEF QueueSettles, QueueHalts
<1>3. ASSUME holdStopQueued' PROVE Pending({"holdStop"})'
  <2>1. /\ holdStopQueued /\ ~HoldStop
        /\ queue' \in {queue, Tail(queue), Append(Tail(queue), Mutation("stopRouting"))}
    BY <1>3, HoldForms
  <2>2. PICK i \in 1..Len(queue) : queue[i].kind = "holdStop" /\ queue[i].current
    BY <2>1 DEF HeldOK, Pending
  <2>3. CASE queue' = queue
    BY <2>2, <2>3 DEF Pending
  <2>4. CASE i = 1
    <3>1. Running.kind = "holdStop" /\ IsCurrent
      BY <1>1, <2>2, <2>4 DEF IsCurrent
    <3>2. at = "idle"
      BY <1>1, <3>1 DEF HeldOK
    <3>3. QED
      BY <2>1, <3>1, <3>2, HoldStopRuns
  <2>5. CASE i # 1 /\ queue' # queue
    <3>1. /\ i - 1 \in 1..(Len(queue) - 1) /\ (i - 1) + 1 = i
          /\ Tail(queue) \in Seq(Mutations) /\ Len(Tail(queue)) = Len(queue) - 1
          /\ Tail(queue)[i - 1] = queue[i]
      BY <1>1, <2>2, <2>5, TailFacts
    <3>2. Mutation("stopRouting") \in Mutations
      BY MutationType DEF Kinds
    <3> DEFINE t == Tail(queue)
    <3>3. i - 1 \in 1..Len(queue') /\ queue'[i - 1] = queue[i]
      <4>1. t \in Seq(Mutations) /\ i - 1 \in 1..Len(t) /\ t[i - 1] = queue[i] /\ Len(t) \in Nat
        BY <1>1, <3>1
      <4>2. queue' = t \/ queue' = Append(t, Mutation("stopRouting"))
        BY <2>1, <2>5
      <4> HIDE DEF t
      <4>3. QED
        BY <3>2, <4>1, <4>2, AppendFacts
    <3>4. QED
      BY <2>2, <3>3 DEF Pending
  <2>6. QED
    BY <2>3, <2>4, <2>5
<1>4. ASSUME queue' # <<>>, Running'.kind = "holdStop", at' # "idle" PROVE ~IsCurrent'
  <2>1. QueueGoesOn
    BY <1>1, <1>4 DEF QueueSettles, QueueHalts
  <2>2. Same(Running', Running) /\ Running' = queue'[1]
    <3>1. Left(queue, queue', 0) /\ queue' \in Seq(Mutations)
      BY <2>1 DEF QueueGoesOn, Left, Moved
    <3>2. Running' = queue'[1]
      BY <1>4, <3>1, TailFacts DEF Running
    <3>3. QED
      BY <1>1, <3>1, <3>2, RunningStays DEF Left, Moved
  <2>3. SUFFICES ASSUME IsCurrent' PROVE FALSE
    OBVIOUS
  <2>4. Running.kind = "holdStop" /\ IsCurrent
    BY <1>4, <2>2, <2>3 DEF Same, IsCurrent
  <2>5. at = "idle"
    BY <1>1, <2>4 DEF HeldOK
  <2>6. HoldStop
    BY <2>4, <2>5, HoldStopRuns
  <2>7. queue' = OvertakeHold(queue)
    BY <1>4, <2>6 DEF HoldStop, Finish, BeginStop
  <2>8. ~queue'[1].current
    BY <1>1, <2>4, <2>7, OvertakeHoldFacts DEF OvertakeHold, Mutations
  <2>9. QED
    BY <2>2, <2>3, <2>8 DEF IsCurrent
<1>5. \A i \in 1..Len(queue) :
        queue[i].current /\ queue[i].kind = "connect" /\ (i # 1 \/ at' # "idle") =>
          Pending({"connect"})' /\ LeaveTime'
  BY WaitsOn DEF Pending, LeaveTime, Leaves
<1>6. ASSUME client' # NoClient, ~clientCurrent'
      PROVE  disconnectRequested' \/ Pending({"connect"})'
  <2>1. UNCHANGED <<client, clientCurrent>>
    BY <1>6, LinkForms
  <2>2. CASE disconnectRequested
    BY <1>2, <2>2
  <2>3. CASE ~disconnectRequested
    <3>1. PICK i \in 1..Len(queue) : queue[i].kind = "connect" /\ queue[i].current
      BY <1>6, <2>1, <2>3 DEF HeldOK, Pending
    <3>2. CASE i # 1 \/ at' # "idle"
      BY <1>5, <3>1, <3>2
    <3>3. CASE i = 1 /\ at' = "idle"
      <4>1. Running.kind = "connect" /\ IsCurrent
        BY <1>1, <3>1, <3>3 DEF IsCurrent
      <4>2. Failed \/ Cleaned \/ (BecomeConnected /\ SessionInHand)
        BY <3>3, <4>1, AttemptSettles DEF Lifecycle
      <4>3. CASE Failed
        <5>1. Continuation = "failed"
          BY <4>3 DEF Failed, At, Continuation, ApplyPoints
        <5>2. QED
          BY <1>6, <2>1, <4>1, <5>1 DEF GivenUp
      <4>4. CASE Cleaned
        BY <1>1, <4>1, <4>4 DEF Cleaned, At, Continuation, ApplyPoints, RunsItsProgram
      <4>5. CASE SessionInHand
        BY <1>6, <2>1, <4>1, <4>5, InHand
      <4>6. QED
        BY <4>2, <4>3, <4>4, <4>5
    <3>4. QED
      BY <3>2, <3>3
  <2>4. QED
    BY <2>2, <2>3
<1>7. ASSUME systemRoutingApplied', client' = NoClient, ~disconnectRequested'
      PROVE  LeaveTime'
  <2>1. ~disconnectRequested /\ ~disposed
    BY <1>2, <1>7 DEF HeldOK
  <2>2. CASE client # NoClient
    <3>1. /\ at' # "idle"
          /\ InAttempt \/ (SessionInHand /\ ~IsCurrent)
      BY <1>7, <2>2, LinkForms, LiveSshAssumption
    <3>2. CASE InAttempt
      BY <1>1, <1>5, <3>1, <3>2 DEF InAttempt, IsCurrent
    <3>3. CASE SessionInHand /\ ~IsCurrent
      <4>1. ~clientCurrent
        BY <3>3, InHand
      <4>2. PICK i \in 1..Len(queue) : queue[i].kind = "connect" /\ queue[i].current
        BY <2>1, <2>2, <4>1 DEF HeldOK, Pending
      <4>3. QED
        BY <1>5, <3>1, <4>2
    <3>4. QED
      BY <3>1, <3>2, <3>3
  <2>3. CASE InAttempt
    <3>1. CASE at' # "idle"
      BY <1>1, <1>5, <2>3, <3>1 DEF InAttempt, IsCurrent
    <3>2. CASE at' = "idle"
      <4>1. Failed \/ Cleaned \/ (BecomeConnected /\ SessionInHand /\ UNCHANGED link)
        BY <2>3, <3>2, AttemptSettles DEF InAttempt, Lifecycle
      <4>2. CASE Failed
        <5>1. systemRoutingApplied
          BY <1>7, <4>2 DEF Failed, routing
        <5>2. QED
          BY <2>3, <4>2, <5>1, HoldForms DEF LeaveTime, InAttempt
      <4>3. CASE Cleaned
        BY <1>1, <2>3, <4>3 DEF Cleaned, At, Continuation, ApplyPoints, RunsItsProgram, InAttempt
      <4>4. CASE SessionInHand /\ UNCHANGED link
        BY <1>7, <2>3, <4>4, InHand DEF InAttempt, link
      <4>5. QED
        BY <4>1, <4>2, <4>3, <4>4
    <3>3. QED
      BY <3>1, <3>2
  <2>4. CASE client = NoClient /\ ~InAttempt
    <3>1. systemRoutingApplied
      BY <1>7, <2>4, AppliesForAttempt DEF NoAdapter
    <3>2. LeaveTime
      BY <2>1, <2>4, <3>1 DEF HeldOK
    <3>3. CASE holdTimer \/ holdStopQueued
      BY <1>7, <2>1, <2>4, <3>3, HoldForms DEF LeaveTime
    <3>4. CASE \E i \in 1..Len(queue) : Leaves(queue[i])
      <4>1. PICK i \in 1..Len(queue) : Leaves(queue[i])
        BY <3>4
      <4>2. CASE i # 1 \/ at' # "idle"
        <5>1. queue[i].kind \notin {"holdStop", "routing"}
          BY <4>1 DEF Leaves
        <5>2. \E j \in 1..Len(queue') : queue'[j] = queue[i]
          BY <4>2, <5>1, WaitsOn
        <5>3. QED
          BY <4>1, <5>2 DEF LeaveTime, Leaves
      <4>3. CASE i = 1 /\ at' = "idle"
        <5>1. IsCurrent /\ (Running.kind = "stopRouting" \/ (Running.kind = "cleanup" /\ ~Running.retryable))
          BY <1>1, <2>4, <4>1, <4>3 DEF Leaves, IsCurrent, InAttempt
        <5>2. CASE Running.kind = "stopRouting"
          BY <1>1, <3>1, <4>3, <5>1, <5>2, StopRuns DEF StopsFirst
        <5>3. CASE Running.kind = "cleanup" /\ ~Running.retryable
          <6>1. Failed \/ Cleaned \/ (BecomeConnected /\ SessionInHand)
            BY <4>3, <5>1, <5>3, AttemptSettles DEF Lifecycle
          <6>2. CASE Failed
            BY <3>1, <5>1, <6>2, HoldForms DEF LeaveTime
          <6>3. CASE Cleaned
            <7>1. queue' = Append(Tail(queue), Mutation("stopRouting"))
              BY <5>1, <5>3, <6>3 DEF Cleaned
            <7>2. Mutation("stopRouting") \in Mutations
              BY MutationType DEF Kinds
            <7>3. Joined(queue, queue', 1, Mutation("stopRouting"))
              <8> DEFINE s == Mutation("stopRouting")
              <8>1. Left(queue, Tail(queue), 1)
                BY <1>1, TailLeaves
              <8> HIDE DEF s
              <8>2. Joined(queue, Append(Tail(queue), s), 1, s)
                BY <7>2, <8>1, AppendJoins DEF s
              <8>3. QED
                BY <7>1, <8>2 DEF s
            <7>4. Pending({"stopRouting"})'
              BY <7>3, StopIsPending
            <7>5. QED
              BY <7>4 DEF Pending, LeaveTime, Leaves
          <6>4. CASE SessionInHand
            BY <5>3, <6>4, InHand
          <6>5. QED
            BY <6>1, <6>2, <6>3, <6>4
        <5>4. QED
          BY <5>1, <5>2, <5>3
      <4>4. QED
        BY <4>2, <4>3
    <3>5. QED
      BY <3>2, <3>3, <3>4 DEF LeaveTime
  <2>5. QED
    BY <2>2, <2>3, <2>4
<1>8. disposed' => disconnectRequested'
  BY <1>2 DEF HeldOK
<1>9. QED
  BY <1>3, <1>4, <1>6, <1>7, <1>8 DEF HeldOK

(* A call, a timer or an event leaves the deadline, gives one, or makes the attempt
   that replaces a client nobody hears. *)
LEMMA HeldBeside ==
  ASSUME SessionInv, HeldOK, UserStep \/ Event \/ UNCHANGED vars
  PROVE  HeldOK'
<1> USE DEF hold
<1>1. /\ queue \in Seq(Mutations) /\ Len(queue) \in Nat
      /\ queue # <<>> => Running = queue[1] /\ 1 \in 1..Len(queue)
      /\ at # "idle" => queue # <<>>
      /\ \A k \in Kinds : Mutation(k) \in Mutations
  BY AttemptFacts, LenProperties, NextIsSegment, MutationType DEF SessionInv, IInv, OneAttempt,
     RunsItsProgram
<1>2. /\ UNCHANGED at
      /\ QueueAsked \/ QueueConnects \/ QueueEnds \/ QueueCleans
  BY BesideForms
<1>3. PICK m \in Mutations : Left(queue, queue', 0) \/ Joined(queue, queue', 0, m)
  BY <1>2, MutationType DEF QueueAsked, QueueConnects, QueueEnds, QueueCleans, Kinds
<1>4. queue' # <<>> /\ Running'.kind = "holdStop" /\ at' # "idle" => ~IsCurrent'
  <2>1. queue # <<>> => queue' # <<>> /\ Same(Running', Running)
    BY <1>1, <1>3, RunningStays, EmptySeq DEF Left, Joined, Moved
  <2>2. QED
    BY <1>1, <1>2, <2>1 DEF HeldOK, Same, IsCurrent
<1>5. ASSUME NEW w \in Mutations, Joined(queue, queue', 0, w), w.current
      PROVE  /\ Pending({w.kind})'
             /\ w.kind \in {"connect", "stopRouting"} => LeaveTime'
  <2>1. /\ Len(queue') \in 1..Len(queue') /\ queue'[Len(queue')].kind = w.kind
        /\ queue'[Len(queue')].current
    BY <1>1, <1>5 DEF Joined, Moved, Same
  <2>2. QED
    BY <2>1 DEF Pending, LeaveTime, Leaves
<1>6. ASSUME NEW k \in Kinds, queue' = Append(queue, Mutation(k)) PROVE Pending({k})'
  <2> DEFINE w == Mutation(k)
  <2>1. w \in Mutations /\ w.kind = k /\ w.current /\ queue' = Append(queue, w)
    BY <1>1, <1>6 DEF Mutation
  <2> HIDE DEF w
  <2>2. Joined(queue, queue', 0, w)
    BY <1>1, <2>1, OvertakesLeave, AppendJoins
  <2>3. QED
    BY <1>5, <2>1, <2>2
<1>7. ASSUME holdStopQueued, NEW w \in Mutations,
             queue' \in {queue, Overtake(queue), OvertakeRouting(queue), Append(queue, w),
                        Append(Overtake(queue), w), Append(OvertakeRouting(queue), w)}
      PROVE  Pending({"holdStop"})'
  <2>1. PICK i \in 1..Len(queue) : queue[i].kind = "holdStop" /\ queue[i].current
    BY <1>7 DEF HeldOK, Pending
  <2>2. i \in 1..Len(queue') /\ queue'[i] = queue[i]
    BY <1>1, <1>7, <2>1, HoldStopStays
  <2>3. QED
    BY <2>1, <2>2 DEF Pending
<1>8. holdStopQueued' => Pending({"holdStop"})'
  <2>1. CASE HoldTimerFires
    BY <1>1, <1>6, <1>7, <2>1 DEF HoldTimerFires, Kinds
  <2>2. ASSUME NEW u \in BOOLEAN, NEW s, StartConnect(u, s), UNCHANGED hold
        PROVE  holdStopQueued' => Pending({"holdStop"})'
    <3>1. [Mutation("connect") EXCEPT !.user = u] \in Mutations
      BY MutationType DEF Mutation
    <3>2. QED
      BY <1>7, <2>2, <3>1 DEF StartConnect
  <2>3. CASE Connect
    BY <2>2, <2>3 DEF Connect
  <2>4. CASE ReconnectTimerFires
    BY <1>1, <1>7, <2>2, <2>4 DEF ReconnectTimerFires, Kinds
  <2>5. CASE BeginDisconnect \/ Disconnect \/ ClearError \/ Dispose
    <3>1. UNCHANGED hold
      BY <2>5 DEF BeginDisconnect, Disconnect, ClearError, Dispose, EndLifecycle
    <3>2. \E k \in Kinds : queue' \in {Overtake(queue), Append(Overtake(queue), Mutation(k))}
      BY <2>5 DEF BeginDisconnect, Disconnect, ClearError, Dispose, Kinds
    <3>3. QED
      BY <1>1, <1>7, <3>1, <3>2
  <2>6. CASE UpdateRouting
    BY <1>1, <1>7, <2>6 DEF UpdateRouting, Kinds
  <2>7. CASE HelperDies
    BY <1>1, <1>7, <2>7 DEF HelperDies, Kinds
  <2>8. ASSUME NEW retryable \in BOOLEAN, ClientFails(retryable)
        PROVE  holdStopQueued' => Pending({"holdStop"})'
    <3> DEFINE w == [Mutation("cleanup") EXCEPT !.retryable = retryable, !.client = client]
    <3>1. w \in Mutations
      BY MutationType DEF Mutation, SessionInv, IInv, TypeOK, LinkType
    <3>2. holdStopQueued' => holdStopQueued /\ queue' = Append(Overtake(queue), w)
      BY <2>8 DEF ClientFails, SuspendTunnel, ArmsHold
    <3> HIDE DEF w
    <3>3. QED
      BY <1>7, <3>1, <3>2
  <2>9. CASE (\E w \in Conns : Park(w) \/ Unpark(w)) \/ UNCHANGED vars
    BY <1>1, <1>7, <2>9 DEF Park, Unpark, exec, vars, Kinds
  <2>10. QED
    BY <2>1, <2>3, <2>4, <2>5, <2>6, <2>7, <2>8, <2>9 DEF UserStep, Event
<1>14. disposed' => disconnectRequested'
  <2>1. CASE Connect \/ ReconnectTimerFires
    BY <2>1 DEF Connect, ReconnectTimerFires, StartConnect, HeldOK
  <2>2. CASE BeginDisconnect \/ Disconnect \/ ClearError \/ Dispose
    BY <2>2 DEF BeginDisconnect, Disconnect, ClearError, Dispose, EndLifecycle
  <2>3. CASE UNCHANGED intent
    BY <2>3 DEF intent, HeldOK
  <2>4. QED
    BY <2>1, <2>2, <2>3 DEF UserStep, Event, UpdateRouting, HoldTimerFires, ClientFails, HelperDies, Park,
       Unpark, vars
<1> SUFFICES /\ systemRoutingApplied' /\ client' = NoClient /\ ~disconnectRequested' => LeaveTime'
             /\ client' # NoClient /\ ~clientCurrent' => disconnectRequested' \/ Pending({"connect"})'
  BY <1>4, <1>8, <1>14 DEF HeldOK
<1>9. CASE QueueConnects
  <2>1. PICK u \in BOOLEAN, s \in {"Connecting", "Reconnecting"}, w \in Mutations :
          StartConnect(u, s) /\ w.kind = "connect" /\ w.current /\ Joined(queue, queue', 0, w)
    BY <1>9 DEF QueueConnects
  <2>2. Pending({"connect"})' /\ LeaveTime'
    BY <1>5, <2>1
  <2>3. QED
    BY <2>2
<1>10. CASE QueueEnds
  BY <1>10 DEF QueueEnds, EndLifecycle
<1>11. CASE QueueCleans
  <2>1. PICK retryable \in BOOLEAN : ClientFails(retryable)
    BY <1>11 DEF QueueCleans
  <2>2. client' = NoClient /\ UNCHANGED <<disposed, disconnectRequested, systemRoutingApplied>>
    BY <2>1 DEF ClientFails, intent, routing
  <2>3. systemRoutingApplied' => LeaveTime'
    <3>1. CASE retryable
      <4>1. holdTimer' = (holdTimer \/ ArmsHold) /\ UNCHANGED holdStopQueued
        BY <2>1, <3>1 DEF ClientFails, SuspendTunnel
      <4>2. QED
        BY <2>2, <4>1 DEF ArmsHold, LeaveTime
    <3>2. CASE ~retryable
      <4> DEFINE w == [Mutation("cleanup") EXCEPT !.retryable = retryable, !.client = client]
      <4>1. w \in Mutations /\ w.kind = "cleanup" /\ w.current /\ ~w.retryable
        BY <3>2, MutationType DEF Mutation, SessionInv, IInv, TypeOK, LinkType
      <4>2. queue' = Append(Overtake(queue), w)
        BY <2>1, <3>2 DEF ClientFails
      <4> HIDE DEF w
      <4>3. Len(queue') \in 1..Len(queue') /\ queue'[Len(queue')] = w
        <5>1. Overtake(queue) \in Seq(Mutations) /\ Len(Overtake(queue)) = Len(queue)
          BY <1>1, OvertakeFacts
        <5>2. QED
          BY <1>1, <4>1, <4>2, <5>1, AppendFacts
      <4>4. QED
        BY <4>1, <4>3 DEF LeaveTime, Leaves
    <3>3. QED
      BY <3>1, <3>2
  <2>4. QED
    BY <2>2, <2>3 DEF HeldOK
<1>12. CASE QueueAsked
  <2>1. \A i \in 1..Len(queue) : queue[i].kind \notin {"holdStop", "routing"} =>
          i \in 1..Len(queue') /\ queue'[i] = queue[i]
    BY <1>1, <1>3, <1>12 DEF QueueAsked, Firm, Left, Joined, Moved
  <2>2. /\ Pending({"connect"}) => Pending({"connect"})'
        /\ (\E i \in 1..Len(queue) : Leaves(queue[i])) => \E i \in 1..Len(queue') : Leaves(queue'[i])
    BY <2>1 DEF Pending, Leaves
  <2>3. /\ UNCHANGED <<status, disposed, disconnectRequested, systemRoutingApplied>>
    BY <1>12 DEF QueueAsked, intent, routing
  <2>4. QED
    BY <1>12, <2>2, <2>3 DEF QueueAsked, HeldOK, LeaveTime, HoldIsOver
<1>13. QED
  BY <1>2, <1>9, <1>10, <1>11, <1>12

(* Held routing keeps its clock through every step. *)
LEMMA HeldOKStep ==
  ASSUME ~TunEnabled, SessionInv, GivenUp, StopsFirst, NoAdapter, HeldOK, [Next]_vars
  PROVE  HeldOK'
  BY HeldByQueue, HeldBeside DEF Next

-----------------------------------------------------------------------------
(* What holds of every behaviour *)

(* Nothing is routed, queued or given up to begin with. *)
LEMMA TrafficInit ==
  Init => RoutingOwned /\ ListenerKept /\ GivenUp /\ StopsFirst /\ BypassOK /\ NoAdapter /\ HeldOK
<1> SUFFICES ASSUME Init
             PROVE  RoutingOwned /\ ListenerKept /\ GivenUp /\ StopsFirst /\ BypassOK /\ NoAdapter /\ HeldOK
  OBVIOUS
<1>1. /\ queue = <<>> /\ Len(queue) = 0 /\ at = "idle" /\ Continuation = "idle" /\ ~run.holdTun
      /\ at \notin ApplyPoints
  BY EmptySeq DEF Init, Continuation, ApplyPoints, NoLocals
<1>2. RoutingOwned /\ ListenerKept
  BY <1>1 DEF Init, RoutingOwned, AdapterInHand, ListenerKept, RoutedHasListener
<1>3. GivenUp /\ StopsFirst
  BY <1>1 DEF Init, GivenUp, StopsFirst, Wanted
<1>4. BypassOK
  BY <1>1 DEF Init, BypassOK
<1>5. NoAdapter /\ HeldOK
  BY <1>1 DEF Init, NoAdapter, HeldOK
<1>6. QED
  BY <1>2, <1>3, <1>4, <1>5

(* The parts hold of every behaviour, each with those before it. *)
LEMMA RoutingIsOwned == Spec => []RoutingOwned
  BY TrafficInit, SessionHolds, OwnedStep, PTL DEF Spec

LEMMA ListenerIsKept == Spec => []ListenerKept
  BY TrafficInit, SessionHolds, RoutingIsOwned, ListenerStep, PTL DEF Spec

LEMMA OverIsGivenUp == Spec => []GivenUp
  BY TrafficInit, SessionHolds, ListenerIsKept, GivenUpStep, PTL DEF Spec

LEMMA StopsComeFirst == Spec => []StopsFirst
  BY TrafficInit, SessionHolds, ListenerIsKept, OverIsGivenUp, StopsFirstStep, PTL DEF Spec

(* On a machine where undoing works, what points it at the listener is known to be in
   place: the proxy setting by systemRoutingApplied, an adapter that is up by its flags
   or by the mutation that has it in hand, so whoever ends the session takes it down, for
   every interleaving of attempts, stops, updates and failures.  The exception is the
   adapter that the successor of a dead helper brings up after its start was given up. *)
THEOREM RoutingIsAlwaysOwned ==
  ASSUME ~CleanupMayFail
  PROVE  Spec => []MachineRoutingIsOwned
<1>1. RoutingOwned => MachineRoutingIsOwned
  BY DEF RoutingOwned, MachineRoutingIsOwned
<1>2. QED
  BY <1>1, RoutingIsOwned, PTL

(* There the machine is never pointed at a listener that is gone: stopListener comes
   after stopSystemRouting in every teardown, and an apply finds the listener up. *)
THEOREM ListenerIsAlwaysThere ==
  ASSUME ~CleanupMayFail
  PROVE  Spec => []RoutedHasListener
<1>1. ListenerKept => RoutedHasListener
  BY DEF ListenerKept
<1>2. QED
  BY <1>1, ListenerIsKept, PTL

(* Disconnected at rest leaves nothing behind: no session, no proxy setting, no adapter
   but a forgotten one, no parked connection and no listener but one that was still
   binding when clearError dismissed the error, whatever that or a disconnect interrupted. *)
THEOREM DisconnectedLeavesNothing ==
  ASSUME ~CleanupMayFail
  PROVE  Spec => []DisconnectedIsDirect
<1>1. SessionInv /\ RoutingOwned /\ GivenUp /\ StopsFirst => DisconnectedIsDirect
  <2> SUFFICES ASSUME SessionInv, RoutingOwned, GivenUp, StopsFirst,
                      status = "Disconnected", queue = <<>>
               PROVE  /\ open = {} /\ client = NoClient
                      /\ systemProxy = "direct" /\ ~systemRoutingApplied
                      /\ ~tunRoutingActive /\ ~active /\ (adapter => forgotten)
                      /\ waiters = {} /\ (socksProxy => unwatched)
    BY DEF DisconnectedIsDirect
  <2>1. at = "idle" /\ client = NoClient /\ Len(queue) = 0
    BY EmptySeq DEF GivenUp, SessionInv, IInv, OneAttempt, RunsItsProgram
  <2>2. open = {}
    BY <2>1, NextIsSegment DEF SessionInv, IInv, Held, NoLeakedSession
  <2>3. ~systemRoutingApplied /\ waiters = {} /\ (socksProxy => unwatched)
    BY <2>1 DEF StopsFirst, StopWaits
  <2>4. systemProxy = "direct" /\ ~tunRoutingActive /\ ~active /\ (adapter => forgotten)
    <3>1. systemProxy \in {"direct", "listener"}
      BY DEF SessionInv, IInv, TypeOK, RoutingType
    <3>2. QED
      BY <2>1, <2>3, <3>1 DEF RoutingOwned, AdapterInHand
  <2>5. QED
    BY <2>1, <2>2, <2>3, <2>4
<1>2. QED
  BY <1>1, SessionHolds, RoutingIsOwned, OverIsGivenUp, StopsComeFirst, PTL

(* Where the proxy setting is not refused, Connected at rest is routed, by the proxy
   setting or by a live adapter: a helper that dies under a session has the reapply
   that replaces its routing queued until the machine is routed again. *)
THEOREM NothingBypassesSilently ==
  ASSUME ~ProxyMayRefuse
  PROVE  Spec => []NoSilentBypass
<1>1. Spec => []BypassOK
  BY TrafficInit, SessionHolds, RoutingIsOwned, ListenerIsKept, OverIsGivenUp, BypassStep, PTL DEF Spec
<1>2. SessionInv /\ BypassOK => NoSilentBypass
  <2> SUFFICES ASSUME SessionInv, BypassOK, status = "Connected", queue = <<>>
               PROVE  systemProxy = "listener" \/ (tunRoutingActive /\ active)
    BY DEF NoSilentBypass
  <2>1. at = "idle" /\ Len(queue) = 0
    BY EmptySeq DEF SessionInv, IInv, OneAttempt, RunsItsProgram
  <2>2. ~RouteComes /\ at \notin ApplyPoints
    BY <2>1 DEF RouteComes, ApplyPoints
  <2>3. QED
    BY <2>2 DEF BypassOK, Routed
<1>3. QED
  BY <1>1, <1>2, SessionHolds, PTL

(* The four together: the machine's traffic is where the status says, for any number of
   clients, connections, queued mutations and failures of the adapter. *)
THEOREM TrafficIsAlwaysWhereItSays ==
  ASSUME ~CleanupMayFail, ~ProxyMayRefuse
  PROVE  Spec => []TrafficIsWhereItSays
<1>1. /\ MachineRoutingIsOwned /\ RoutedHasListener /\ NoSilentBypass /\ DisconnectedIsDirect
        => TrafficIsWhereItSays
  BY DEF TrafficIsWhereItSays
<1>2. QED
  BY <1>1, RoutingIsAlwaysOwned, ListenerIsAlwaysThere, NothingBypassesSilently,
     DisconnectedLeavesNothing, PTL

(* Without the adapter, routing that is held over an outage has its deadline: the clock
   of suspendTunnel, the stop of the expired hold, or a mutation that ends in either or
   takes the routing down, even on a machine where undoing fails or the proxy setting
   is refused. *)
THEOREM HeldRoutingIsReleased ==
  ASSUME ~TunEnabled
  PROVE  Spec => []HeldRoutingHasDeadline
<1>1. Spec => []NoAdapter
  BY TrafficInit, SessionHolds, NoAdapterStep, PTL DEF Spec
<1>2. Spec => []HeldOK
  BY <1>1, TrafficInit, SessionHolds, OverIsGivenUp, StopsComeFirst, HeldOKStep, PTL DEF Spec
<1>3. HeldOK => HeldRoutingHasDeadline
  <2> SUFFICES ASSUME HeldOK, systemRoutingApplied, client = NoClient, ~disconnectRequested
               PROVE  \/ holdTimer
                      \/ Pending({"holdStop", "stopRouting", "connect"})
                      \/ \E i \in 1..Len(queue) :
                           queue[i].kind = "cleanup" /\ queue[i].current /\ ~queue[i].retryable
    BY DEF HeldRoutingHasDeadline
  <2>1. holdStopQueued => Pending({"holdStop"})
    BY DEF HeldOK
  <2>2. LeaveTime
    BY DEF HeldOK
  <2>3. QED
    BY <2>1, <2>2 DEF LeaveTime, Leaves, Pending
<1>4. QED
  BY <1>2, <1>3, PTL
=============================================================================
