--------------------- MODULE TransportCoordinatorProofs ---------------------
(***************************************************************************)
(* Proofs about TransportCoordinator for queues of every length: there is  *)
(* only ever one tunnel, a session told to end is not forgotten, main      *)
(* implements LatestIntent, and a queue at rest leaves what was asked.     *)
(***************************************************************************)
EXTENDS TransportCoordinator, SequenceTheorems, TLAPS

-----------------------------------------------------------------------------
(* The inductive invariant *)

(* A Connect that is still current is the latest intent. *)
Latest(o) == o.current /\ o.op = "connect" => o.to = want /\ ~stopping

LatestOK ==
  /\ stopping <=> want = "quit"
  /\ Latest(run)
  /\ \A i \in 1..Len(queue) : Latest(queue[i])

(* A beginDisconnect was told to the service that is active; the Connect that has
   called disconnect since, and is still the latest, owes nothing. *)
AnnouncedOK ==
  /\ owed \subseteq {active}
  /\ at = "replace" /\ run.current => owed = {}
  /\ at = "replace" => run.op = "connect"

(* An intent that is current waits in the queue. *)
Waits(q) ==
  \E i \in DOMAIN q : q[i].current /\ q[i].op \in {"connect", "disconnect"}

IInv == TypeOK /\ OneTunnel /\ LatestOK /\ AnnouncedOK /\ AnnouncedIsQueued

-----------------------------------------------------------------------------
(* Lemmas about the queue *)

(* Overtaken operations are the same operations, none of them current. *)
LEMMA OvertakeFacts ==
  ASSUME NEW q \in Seq(Operations)
  PROVE  /\ Overtake(q) \in Seq(Operations) /\ Len(Overtake(q)) = Len(q)
         /\ \A i \in 1..Len(q) : /\ ~Overtake(q)[i].current
                                 /\ Overtake(q)[i].op = q[i].op
                                 /\ Overtake(q)[i].fresh = q[i].fresh
<1>1. Len(q) \in Nat /\ DOMAIN q = 1..Len(q) /\ \A i \in 1..Len(q) : q[i] \in Operations
  BY ElementOfSeq, LenProperties
<1>2. \A i \in 1..Len(q) : [q[i] EXCEPT !.current = FALSE] \in Operations
  BY <1>1 DEF Operations
<1>3. Overtake(q) \in [1..Len(q) -> Operations]
  BY <1>1, <1>2 DEF Overtake
<1>4. Overtake(q) \in Seq(Operations) /\ Len(Overtake(q)) = Len(q)
  BY <1>1, <1>3, SeqDef, LenProperties
<1>5. QED
  BY <1>1, <1>4 DEF Overtake, Operations

(* What is saved leaves the operations as they are but for what they captured. *)
LEMMA StaleFacts ==
  ASSUME NEW q \in Seq(Operations), NEW s,
         s = [i \in DOMAIN q |-> [q[i] EXCEPT !.fresh = FALSE]]
  PROVE  /\ s \in Seq(Operations) /\ Len(s) = Len(q)
         /\ \A i \in 1..Len(q) : /\ s[i].op = q[i].op /\ s[i].to = q[i].to
                                 /\ s[i].current = q[i].current /\ ~s[i].fresh
<1>1. Len(q) \in Nat /\ DOMAIN q = 1..Len(q) /\ \A i \in 1..Len(q) : q[i] \in Operations
  BY ElementOfSeq, LenProperties
<1>2. \A i \in 1..Len(q) : [q[i] EXCEPT !.fresh = FALSE] \in Operations
  BY <1>1 DEF Operations
<1>3. s \in [1..Len(q) -> Operations]
  BY <1>1, <1>2
<1>4. s \in Seq(Operations) /\ Len(s) = Len(q)
  BY <1>1, <1>3, SeqDef, LenProperties
<1>5. QED
  BY <1>1, <1>4 DEF Operations

(* An operation that enters goes behind the others. *)
LEMMA AppendFacts ==
  ASSUME NEW q \in Seq(Operations), NEW o \in Operations
  PROVE  /\ Append(q, o) \in Seq(Operations) /\ Len(Append(q, o)) = Len(q) + 1
         /\ Len(q) \in Nat /\ Append(q, o)[Len(q) + 1] = o
         /\ \A i \in 1..Len(q) : Append(q, o)[i] = q[i]
  BY AppendProperties, LenProperties

(* The first operation leaves, the others move up. *)
LEMMA TailFacts ==
  ASSUME NEW q \in Seq(Operations), q # <<>>
  PROVE  /\ Head(q) \in Operations /\ Head(q) = q[1]
         /\ Tail(q) \in Seq(Operations) /\ Len(q) \in Nat \ {0} /\ Len(Tail(q)) = Len(q) - 1
         /\ \A i \in 1..Len(Tail(q)) : Tail(q)[i] = q[i + 1]
<1>1. Len(q) \in Nat \ {0}
  BY LenProperties, EmptySeq
<1>2. QED
  BY <1>1, HeadTailProperties

(* An operation in the place of none is not current. *)
LEMMA NoOperationFacts == NoOperation \in Operations /\ ~NoOperation.current
  BY DEF NoOperation, Operation, Operations, Tunnels

(* The running operation goes on or returns, the queue stays. *)
LEMMA QueueKept ==
  ASSUME ExecOK, LatestOK, UNCHANGED <<queue, want, stopping>>,
         run' = run \/ run' = NoOperation, at' \in Awaits
  PROVE  ExecOK' /\ LatestOK'
<1>1. ExecOK'
  BY NoOperationFacts DEF ExecOK
<1>2. Latest(run)' /\ \A i \in 1..Len(queue') : Latest(queue[i])'
  BY NoOperationFacts DEF LatestOK, Latest
<1>3. QED
  BY <1>1, <1>2 DEF LatestOK

(* The first operation leaves the queue and runs, or is done with. *)
LEMMA QueueTaken ==
  ASSUME ExecOK, LatestOK, queue # <<>>, queue' = Tail(queue), UNCHANGED <<want, stopping>>,
         run' = run \/ run' = Head(queue), at' \in Awaits
  PROVE  /\ ExecOK' /\ LatestOK'
         /\ Waits(queue) =>
              Waits(queue') \/ (Head(queue).current /\ Head(queue).op \in {"connect", "disconnect"})
<1>1. /\ Head(queue) \in Operations /\ Head(queue) = queue[1]
      /\ Tail(queue) \in Seq(Operations)
      /\ Len(queue) \in Nat \ {0} /\ Len(Tail(queue)) = Len(queue) - 1
      /\ \A i \in 1..Len(Tail(queue)) : Tail(queue)[i] = queue[i + 1]
  BY TailFacts DEF ExecOK
<1>2. ExecOK'
  BY <1>1 DEF ExecOK
<1>3. Latest(Head(queue))
  <2>1. 1 \in 1..Len(queue)
    BY <1>1
  <2>2. Latest(queue[1])
    BY <2>1 DEF LatestOK
  <2>3. QED
    BY <1>1, <2>2
<1>4. Latest(run)'
  BY <1>3 DEF LatestOK, Latest
<1>5. \A i \in 1..Len(queue') : Latest(queue[i])'
  <2>1. SUFFICES ASSUME NEW i \in 1..Len(queue') PROVE Latest(queue[i])'
    OBVIOUS
  <2>2. i + 1 \in 1..Len(queue) /\ queue'[i] = queue[i + 1]
    BY <1>1
  <2>3. QED
    BY <2>2 DEF LatestOK, Latest
<1>6. ASSUME Waits(queue)
      PROVE  Waits(queue') \/ (Head(queue).current /\ Head(queue).op \in {"connect", "disconnect"})
  <2>1. DOMAIN queue = 1..Len(queue) /\ DOMAIN queue' = 1..(Len(queue) - 1)
    BY <1>1, LenProperties DEF ExecOK
  <2>2. PICK i \in 1..Len(queue) : queue[i].current /\ queue[i].op \in {"connect", "disconnect"}
    BY <1>6, <2>1 DEF Waits
  <2>3. CASE i = 1
    BY <1>1, <2>2, <2>3
  <2>4. CASE i # 1
    <3>1. i - 1 \in DOMAIN queue' /\ queue'[i - 1] = queue[i]
      BY <1>1, <2>1, <2>4
    <3>2. QED
      BY <2>2, <3>1 DEF Waits
  <2>5. QED
    BY <2>3, <2>4
<1>7. QED
  BY <1>2, <1>4, <1>5, <1>6 DEF LatestOK

(* An operation that is no intent enters the queue. *)
LEMMA QueueJoined ==
  ASSUME ExecOK, LatestOK, NEW o \in Operations, o.op # "connect",
         queue' = Append(queue, o), UNCHANGED <<want, stopping, run, at>>
  PROVE  ExecOK' /\ LatestOK' /\ (Waits(queue) => Waits(queue'))
<1>1. /\ queue' \in Seq(Operations) /\ Len(queue') = Len(queue) + 1
      /\ Len(queue) \in Nat /\ queue'[Len(queue) + 1] = o
      /\ \A i \in 1..Len(queue) : queue'[i] = queue[i]
  BY AppendFacts DEF ExecOK
<1>2. DOMAIN queue = 1..Len(queue) /\ DOMAIN queue' = 1..(Len(queue) + 1)
  BY <1>1, LenProperties DEF ExecOK
<1>3. ExecOK'
  BY <1>1 DEF ExecOK
<1>4. \A i \in 1..Len(queue') : Latest(queue[i])'
  <2>1. SUFFICES ASSUME NEW i \in 1..Len(queue') PROVE Latest(queue[i])'
    OBVIOUS
  <2>2. CASE i \in 1..Len(queue)
    BY <1>1, <2>2 DEF LatestOK, Latest
  <2>3. CASE i = Len(queue) + 1
    BY <1>1, <2>3 DEF Latest
  <2>4. QED
    BY <1>1, <2>2, <2>3
<1>5. Latest(run)'
  BY DEF LatestOK, Latest
<1>6. Waits(queue) => Waits(queue')
  BY <1>1, <1>2 DEF Waits
<1>7. QED
  BY <1>3, <1>4, <1>5, <1>6 DEF LatestOK

(* An intent, or the cleanup, overtakes what is queued and running. *)
LEMMA QueueOvertaken ==
  ASSUME ExecOK, NEW o \in Operations, queue' = Append(Overtake(queue), o),
         run' = [run EXCEPT !.current = FALSE], UNCHANGED at,
         stopping' <=> want' = "quit",
         o.op = "connect" => o.to = want' /\ ~stopping'
  PROVE  /\ ExecOK' /\ LatestOK' /\ ~run'.current
         /\ o.current /\ o.op \in {"connect", "disconnect"} => Waits(queue')
<1>0. Overtake(queue) \in Seq(Operations)
  BY OvertakeFacts DEF ExecOK
<1>1. /\ queue' \in Seq(Operations) /\ Len(queue') = Len(Overtake(queue)) + 1
      /\ Len(Overtake(queue)) \in Nat /\ queue'[Len(Overtake(queue)) + 1] = o
      /\ \A i \in 1..Len(Overtake(queue)) : queue'[i] = Overtake(queue)[i]
  BY <1>0, AppendFacts
<1>2. Len(Overtake(queue)) = Len(queue) /\ \A i \in 1..Len(queue) : ~Overtake(queue)[i].current
  BY OvertakeFacts DEF ExecOK
<1>3. DOMAIN queue' = 1..(Len(queue) + 1)
  BY <1>1, <1>2, LenProperties
<1>4. run' \in Operations /\ ~run'.current
  BY DEF ExecOK, Operations
<1>5. ExecOK'
  BY <1>1, <1>4 DEF ExecOK
<1>6. \A i \in 1..Len(queue') : Latest(queue[i])'
  <2>1. SUFFICES ASSUME NEW i \in 1..Len(queue') PROVE Latest(queue[i])'
    OBVIOUS
  <2>2. CASE i \in 1..Len(queue)
    BY <1>1, <1>2, <2>2 DEF Latest
  <2>3. CASE i = Len(queue) + 1
    BY <1>1, <1>2, <2>3 DEF Latest
  <2>4. QED
    BY <1>1, <1>2, <2>2, <2>3
<1>7. Latest(run)'
  BY <1>4 DEF Latest
<1>8. o.current /\ o.op \in {"connect", "disconnect"} => Waits(queue')
  BY <1>1, <1>2, <1>3 DEF Waits
<1>9. QED
  BY <1>4, <1>5, <1>6, <1>7, <1>8 DEF LatestOK

(* A saved change leaves every operation its place and its intent. *)
LEMMA QueueStale ==
  ASSUME ExecOK, LatestOK, UNCHANGED <<want, stopping, at>>,
         queue' = [i \in DOMAIN queue |-> [queue[i] EXCEPT !.fresh = FALSE]],
         run' = [run EXCEPT !.fresh = FALSE]
  PROVE  /\ ExecOK' /\ LatestOK' /\ run'.op = run.op /\ run'.current = run.current
         /\ Waits(queue) => Waits(queue')
<1>1. /\ queue' \in Seq(Operations) /\ Len(queue') = Len(queue)
      /\ \A i \in 1..Len(queue) : /\ queue'[i].op = queue[i].op /\ queue'[i].to = queue[i].to
                                   /\ queue'[i].current = queue[i].current
  BY StaleFacts DEF ExecOK
<1>2. DOMAIN queue = 1..Len(queue) /\ DOMAIN queue' = 1..Len(queue)
  BY <1>1, LenProperties DEF ExecOK
<1>3. /\ run' \in Operations /\ run'.op = run.op /\ run'.to = run.to
      /\ run'.current = run.current
  BY DEF ExecOK, Operations
<1>4. ExecOK'
  BY <1>1, <1>3 DEF ExecOK
<1>5. Latest(run)' /\ \A i \in 1..Len(queue') : Latest(queue[i])'
  BY <1>1, <1>3 DEF LatestOK, Latest
<1>6. Waits(queue) => Waits(queue')
  BY <1>1, <1>2 DEF Waits
<1>7. QED
  BY <1>3, <1>4, <1>5, <1>6 DEF LatestOK

-----------------------------------------------------------------------------
(* Lemmas about the services *)

States == [Tunnels -> {"off", "on", "ending", "error"}]

(* Where sessions only end, there is still only one. *)
LEMMA OneTunnelKept ==
  ASSUME ServicesOK, OneTunnel, active' = active, svc' \in States,
         \A t \in Tunnels : svc'[t] \in Live => svc[t] \in Live,
         owed' \in SUBSET Tunnels
  PROVE  ServicesOK' /\ OneTunnel'
<1>1. Other(active) \in Tunnels
  BY DEF ServicesOK, Other, Tunnels
<1>2. QED
  BY <1>1 DEF ServicesOK, States, OneTunnel, Other

(* No call of a service but connect, and no answer, makes a session. *)
LEMMA CallFacts ==
  ASSUME ServicesOK, svc' = svc \/ svc' = Ending \/ svc' = Ended \/ svc' = NotConnected
  PROVE  svc' \in States /\ \A t \in Tunnels : svc'[t] \in Live => svc[t] \in Live
<1>1. CASE svc' = svc
  BY <1>1 DEF ServicesOK, States
<1>2. CASE svc' = Ending
  BY <1>2 DEF Ending, ServicesOK, States, Live, Tunnels
<1>3. CASE svc' = Ended
  BY <1>3 DEF Ended, ServicesOK, States, Live, Tunnels
<1>4. CASE svc' = NotConnected
  BY <1>4 DEF NotConnected, ServicesOK, States, Live, Tunnels
<1>5. QED
  BY <1>1, <1>2, <1>3, <1>4

(* A session that ends, or fails, by itself. *)
LEMMA SessionEnds ==
  ASSUME ServicesOK, NEW t \in Tunnels, NEW x \in {"off", "error"}
  PROVE  /\ [svc EXCEPT ![t] = x] \in States
         /\ \A u \in Tunnels : [svc EXCEPT ![t] = x][u] \in Live => svc[u] \in Live
  BY DEF ServicesOK, States, Live

-----------------------------------------------------------------------------
(* The invariant is inductive *)

(* The parts of the invariant that tie the variables of different actors. *)
Core == ExecOK /\ ServicesOK /\ OneTunnel /\ LatestOK /\ AnnouncedOK /\ AnnouncedIsQueued

(* The intent stays, and a session there is was there before. *)
Ends == UNCHANGED <<want, by>> /\ \A t \in Tunnels : svc'[t] \in Live => svc[t] \in Live

(* A step that takes nothing from the queue and starts no session: the operation
   running goes on or returns, sessions only end, and what was announced is called
   for by the intent that was to call for it. *)
LEMMA SessionsOnlyEnd ==
  ASSUME IInv, UNCHANGED <<queue, want, stopping, active>>,
         run' = run \/ run' = NoOperation, at' \in Awaits,
         owed' \subseteq owed, svc' \in States,
         \A t \in Tunnels : svc'[t] \in Live => svc[t] \in Live,
         at' = "replace" => run'.op = "connect" /\ (run'.current => owed' = {}),
         at = "ready" /\ run.current /\ run.op # "routing" =>
           owed' = {} \/ stopping \/ (at' = at /\ run' = run)
  PROVE  Core'
<1>1. ExecOK' /\ LatestOK'
  BY QueueKept DEF IInv, TypeOK
<1>2. ServicesOK' /\ OneTunnel'
  <2>1. owed' \in SUBSET Tunnels
    BY DEF IInv, TypeOK, ServicesOK
  <2>2. QED
    BY <2>1, OneTunnelKept DEF IInv, TypeOK
<1>3. AnnouncedOK'
  BY DEF IInv, AnnouncedOK
<1>4. AnnouncedIsQueued'
  BY DEF IInv, AnnouncedIsQueued
<1>5. QED
  BY <1>1, <1>2, <1>3, <1>4 DEF Core

(* An overtaken intent is given up before it has done anything. *)
LEMMA GiveUpStep == IInv /\ GiveUp => IInv' /\ Ends
<1> SUFFICES ASSUME IInv, GiveUp PROVE IInv' /\ Ends
  OBVIOUS
<1>1. UNCHANGED <<queue, want, stopping, active>> /\ at' \in Awaits
  BY
     DEF IInv, TypeOK, ExecOK, Awaits, GiveUp, Return, intent, startup, routing,
         quit
<1>2. run' = run \/ run' = NoOperation
  BY DEF GiveUp, Return, intent, startup, routing, quit
<1>3. svc' \in States /\ \A t \in Tunnels : svc'[t] \in Live => svc[t] \in Live
  BY CallFacts DEF IInv, TypeOK, GiveUp, Return, intent, startup, routing, quit
<1>4. owed' \subseteq owed
  BY DEF GiveUp, Return, intent, startup, routing, quit
<1>5. at' = "replace" => run'.op = "connect" /\ (run'.current => owed' = {})
  BY DEF IInv, AnnouncedOK, GiveUp, Return, intent, startup, routing, quit
<1>6. at = "ready" /\ run.current /\ run.op # "routing" =>
        owed' = {} \/ stopping \/ (at' = at /\ run' = run)
  BY DEF IInv, AnnouncedOK, GiveUp, Return, intent, startup, routing, quit
<1>7. Core'
  BY <1>1, <1>2, <1>3, <1>4, <1>5, <1>6, SessionsOnlyEnd
<1>8. IntentOK' /\ RestOK'
  BY
     DEF IInv, TypeOK, IntentOK, RestOK, intent, startup, routing, quit, GiveUp,
         Return
<1>9. Ends
  BY <1>3 DEF Ends, GiveUp, Return, intent, startup, routing, quit
<1> QED
  BY <1>7, <1>8, <1>9 DEF IInv, TypeOK, Core

(* A Connect ends the session it replaces. *)
LEMMA ConnectReplacesStep == IInv /\ ConnectReplaces => IInv' /\ Ends
<1> SUFFICES ASSUME IInv, ConnectReplaces PROVE IInv' /\ Ends
  OBVIOUS
<1>1. UNCHANGED <<queue, want, stopping, active>> /\ at' \in Awaits
  BY
     DEF IInv, TypeOK, ExecOK, Awaits, ConnectReplaces, Proceeds, CallDisconnect,
         intent, startup, routing, quit
<1>2. run' = run \/ run' = NoOperation
  BY DEF ConnectReplaces, Proceeds, CallDisconnect, intent, startup, routing, quit
<1>3. svc' \in States /\ \A t \in Tunnels : svc'[t] \in Live => svc[t] \in Live
  <2>1. svc' = svc \/ svc' = Ending \/ svc' = Ended \/ svc' = NotConnected
    BY DEF ConnectReplaces, Proceeds, CallDisconnect, intent, startup, routing, quit
  <2>2. QED
    BY <2>1, CallFacts DEF IInv, TypeOK
<1>4. owed' \subseteq owed
  BY DEF ConnectReplaces, Proceeds, CallDisconnect, intent, startup, routing, quit
<1>5. at' = "replace" => run'.op = "connect" /\ (run'.current => owed' = {})
  BY
     DEF IInv, AnnouncedOK, ConnectReplaces, Proceeds, CallDisconnect, intent,
         startup, routing, quit
<1>6. at = "ready" /\ run.current /\ run.op # "routing" =>
        owed' = {} \/ stopping \/ (at' = at /\ run' = run)
  BY
     DEF IInv, AnnouncedOK, ConnectReplaces, Proceeds, CallDisconnect, intent,
         startup, routing, quit
<1>7. Core'
  BY <1>1, <1>2, <1>3, <1>4, <1>5, <1>6, SessionsOnlyEnd
<1>8. IntentOK' /\ RestOK'
  BY
     DEF IInv, TypeOK, IntentOK, RestOK, intent, startup, routing, quit,
         ConnectReplaces, Proceeds, CallDisconnect
<1>9. Ends
  BY <1>3
     DEF Ends, ConnectReplaces, Proceeds, CallDisconnect, intent, startup,
         routing, quit
<1> QED
  BY <1>7, <1>8, <1>9 DEF IInv, TypeOK, Core

(* A Disconnect calls the service. *)
LEMMA DisconnectStep == IInv /\ Disconnect => IInv' /\ Ends
<1> SUFFICES ASSUME IInv, Disconnect PROVE IInv' /\ Ends
  OBVIOUS
<1>1. UNCHANGED <<queue, want, stopping, active>> /\ at' \in Awaits
  BY
     DEF IInv, TypeOK, ExecOK, Awaits, Disconnect, Proceeds, CallDisconnect,
         intent, startup, routing, quit
<1>2. run' = run \/ run' = NoOperation
  BY DEF Disconnect, Proceeds, CallDisconnect, intent, startup, routing, quit
<1>3. svc' \in States /\ \A t \in Tunnels : svc'[t] \in Live => svc[t] \in Live
  <2>1. svc' = svc \/ svc' = Ending \/ svc' = Ended \/ svc' = NotConnected
    BY DEF Disconnect, Proceeds, CallDisconnect, intent, startup, routing, quit
  <2>2. QED
    BY <2>1, CallFacts DEF IInv, TypeOK
<1>4. owed' \subseteq owed
  BY DEF Disconnect, Proceeds, CallDisconnect, intent, startup, routing, quit
<1>5. at' = "replace" => run'.op = "connect" /\ (run'.current => owed' = {})
  BY
     DEF IInv, AnnouncedOK, Disconnect, Proceeds, CallDisconnect, intent,
         startup, routing, quit
<1>6. at = "ready" /\ run.current /\ run.op # "routing" =>
        owed' = {} \/ stopping \/ (at' = at /\ run' = run)
  BY
     DEF IInv, AnnouncedOK, Disconnect, Proceeds, CallDisconnect, intent,
         startup, routing, quit
<1>7. Core'
  BY <1>1, <1>2, <1>3, <1>4, <1>5, <1>6, SessionsOnlyEnd
<1>8. IntentOK' /\ RestOK'
  BY
     DEF IInv, TypeOK, IntentOK, RestOK, intent, startup, routing, quit,
         Disconnect, Proceeds, CallDisconnect
<1>9. Ends
  BY <1>3
     DEF Ends, Disconnect, Proceeds, CallDisconnect, intent, startup, routing, quit
<1> QED
  BY <1>7, <1>8, <1>9 DEF IInv, TypeOK, Core

(* A routing change is applied. *)
LEMMA ApplyRoutingStep == IInv /\ ApplyRouting => IInv' /\ Ends
<1> SUFFICES ASSUME IInv, ApplyRouting PROVE IInv' /\ Ends
  OBVIOUS
<1>1. UNCHANGED <<queue, want, stopping, active>> /\ at' \in Awaits
  BY
     DEF IInv, TypeOK, ExecOK, Awaits, ApplyRouting, AppliesRouting, intent,
         startup, routing, quit
<1>2. run' = run \/ run' = NoOperation
  BY DEF ApplyRouting, AppliesRouting, intent, startup, routing, quit
<1>3. svc' \in States /\ \A t \in Tunnels : svc'[t] \in Live => svc[t] \in Live
  BY CallFacts
     DEF IInv, TypeOK, ApplyRouting, AppliesRouting, intent, startup, routing, quit
<1>4. owed' \subseteq owed
  BY DEF ApplyRouting, AppliesRouting, intent, startup, routing, quit
<1>5. at' = "replace" => run'.op = "connect" /\ (run'.current => owed' = {})
  BY
     DEF IInv, AnnouncedOK, ApplyRouting, AppliesRouting, intent, startup,
         routing, quit
<1>6. at = "ready" /\ run.current /\ run.op # "routing" =>
        owed' = {} \/ stopping \/ (at' = at /\ run' = run)
  BY
     DEF IInv, AnnouncedOK, ApplyRouting, AppliesRouting, intent, startup,
         routing, quit
<1>7. Core'
  BY <1>1, <1>2, <1>3, <1>4, <1>5, <1>6, SessionsOnlyEnd
<1>8. IntentOK' /\ RestOK'
  BY
     DEF IInv, TypeOK, IntentOK, RestOK, intent, startup, routing, quit,
         ApplyRouting, AppliesRouting
<1>9. Ends
  BY <1>3 DEF Ends, ApplyRouting, AppliesRouting, intent, startup, routing, quit
<1> QED
  BY <1>7, <1>8, <1>9 DEF IInv, TypeOK, Core

(* A session with nothing left to route is ended. *)
LEMMA DropSessionStep == IInv /\ DropSession => IInv' /\ Ends
<1> SUFFICES ASSUME IInv, DropSession PROVE IInv' /\ Ends
  OBVIOUS
<1>1. UNCHANGED <<queue, want, stopping, active>> /\ at' \in Awaits
  BY
     DEF IInv, TypeOK, ExecOK, Awaits, DropSession, AppliesRouting,
         CallDisconnect, intent, startup, routing, quit
<1>2. run' = run \/ run' = NoOperation
  BY DEF DropSession, AppliesRouting, CallDisconnect, intent, startup, routing, quit
<1>3. svc' \in States /\ \A t \in Tunnels : svc'[t] \in Live => svc[t] \in Live
  <2>1. svc' = svc \/ svc' = Ending \/ svc' = Ended \/ svc' = NotConnected
    BY
       DEF DropSession, AppliesRouting, CallDisconnect, intent, startup, routing,
           quit
  <2>2. QED
    BY <2>1, CallFacts DEF IInv, TypeOK
<1>4. owed' \subseteq owed
  BY DEF DropSession, AppliesRouting, CallDisconnect, intent, startup, routing, quit
<1>5. at' = "replace" => run'.op = "connect" /\ (run'.current => owed' = {})
  BY
     DEF IInv, AnnouncedOK, DropSession, AppliesRouting, CallDisconnect, intent,
         startup, routing, quit
<1>6. at = "ready" /\ run.current /\ run.op # "routing" =>
        owed' = {} \/ stopping \/ (at' = at /\ run' = run)
  BY
     DEF IInv, AnnouncedOK, DropSession, AppliesRouting, CallDisconnect, intent,
         startup, routing, quit
<1>7. Core'
  BY <1>1, <1>2, <1>3, <1>4, <1>5, <1>6, SessionsOnlyEnd
<1>8. IntentOK' /\ RestOK'
  BY
     DEF IInv, TypeOK, IntentOK, RestOK, intent, startup, routing, quit,
         DropSession, AppliesRouting, CallDisconnect
<1>9. Ends
  BY <1>3
     DEF Ends, DropSession, AppliesRouting, CallDisconnect, intent, startup,
         routing, quit
<1> QED
  BY <1>7, <1>8, <1>9 DEF IInv, TypeOK, Core

(* There is no session to end. *)
LEMMA NothingToDropStep == IInv /\ NothingToDrop => IInv' /\ Ends
<1> SUFFICES ASSUME IInv, NothingToDrop PROVE IInv' /\ Ends
  OBVIOUS
<1>1. UNCHANGED <<queue, want, stopping, active>> /\ at' \in Awaits
  BY
     DEF IInv, TypeOK, ExecOK, Awaits, NothingToDrop, AppliesRouting, Return,
         intent, startup, routing, quit
<1>2. run' = run \/ run' = NoOperation
  BY DEF NothingToDrop, AppliesRouting, Return, intent, startup, routing, quit
<1>3. svc' \in States /\ \A t \in Tunnels : svc'[t] \in Live => svc[t] \in Live
  BY CallFacts
     DEF IInv, TypeOK, NothingToDrop, AppliesRouting, Return, intent, startup,
         routing, quit
<1>4. owed' \subseteq owed
  BY DEF NothingToDrop, AppliesRouting, Return, intent, startup, routing, quit
<1>5. at' = "replace" => run'.op = "connect" /\ (run'.current => owed' = {})
  BY
     DEF IInv, AnnouncedOK, NothingToDrop, AppliesRouting, Return, intent,
         startup, routing, quit
<1>6. at = "ready" /\ run.current /\ run.op # "routing" =>
        owed' = {} \/ stopping \/ (at' = at /\ run' = run)
  BY
     DEF IInv, AnnouncedOK, NothingToDrop, AppliesRouting, Return, intent,
         startup, routing, quit
<1>7. Core'
  BY <1>1, <1>2, <1>3, <1>4, <1>5, <1>6, SessionsOnlyEnd
<1>8. IntentOK' /\ RestOK'
  BY
     DEF IInv, TypeOK, IntentOK, RestOK, intent, startup, routing, quit,
         NothingToDrop, AppliesRouting, Return
<1>9. Ends
  BY <1>3
     DEF Ends, NothingToDrop, AppliesRouting, Return, intent, startup, routing, quit
<1> QED
  BY <1>7, <1>8, <1>9 DEF IInv, TypeOK, Core

(* The cleanup ends. *)
LEMMA CleanupEndsStep == IInv /\ CleanupEnds => IInv' /\ Ends
<1> SUFFICES ASSUME IInv, CleanupEnds PROVE IInv' /\ Ends
  OBVIOUS
<1>1. UNCHANGED <<queue, want, stopping, active>> /\ at' \in Awaits
  BY
     DEF IInv, TypeOK, ExecOK, Awaits, CleanupEnds, Return, intent, startup,
         routing, quit
<1>2. run' = run \/ run' = NoOperation
  BY DEF CleanupEnds, Return, intent, startup, routing, quit
<1>3. svc' \in States /\ \A t \in Tunnels : svc'[t] \in Live => svc[t] \in Live
  BY CallFacts DEF IInv, TypeOK, CleanupEnds, Return, intent, startup, routing, quit
<1>4. owed' \subseteq owed
  BY DEF CleanupEnds, Return, intent, startup, routing, quit
<1>5. at' = "replace" => run'.op = "connect" /\ (run'.current => owed' = {})
  BY DEF IInv, AnnouncedOK, CleanupEnds, Return, intent, startup, routing, quit
<1>6. at = "ready" /\ run.current /\ run.op # "routing" =>
        owed' = {} \/ stopping \/ (at' = at /\ run' = run)
  BY DEF IInv, AnnouncedOK, CleanupEnds, Return, intent, startup, routing, quit
<1>7. Core'
  BY <1>1, <1>2, <1>3, <1>4, <1>5, <1>6, SessionsOnlyEnd
<1>8. IntentOK' /\ RestOK'
  BY
     DEF IInv, TypeOK, IntentOK, RestOK, intent, startup, routing, quit,
         CleanupEnds, Return
<1>9. Ends
  BY <1>3 DEF Ends, CleanupEnds, Return, intent, startup, routing, quit
<1> QED
  BY <1>7, <1>8, <1>9 DEF IInv, TypeOK, Core

(* A connect resolves. *)
LEMMA ConnectedStep == IInv /\ Connected => IInv' /\ Ends
<1> SUFFICES ASSUME IInv, Connected PROVE IInv' /\ Ends
  OBVIOUS
<1>1. UNCHANGED <<queue, want, stopping, active>> /\ at' \in Awaits
  BY
     DEF IInv, TypeOK, ExecOK, Awaits, Connected, CallDisconnect, intent,
         startup, routing, quit
<1>2. run' = run \/ run' = NoOperation
  BY DEF Connected, CallDisconnect, intent, startup, routing, quit
<1>3. svc' \in States /\ \A t \in Tunnels : svc'[t] \in Live => svc[t] \in Live
  <2>1. svc' = svc \/ svc' = Ending \/ svc' = Ended \/ svc' = NotConnected
    BY DEF Connected, CallDisconnect, intent, startup, routing, quit
  <2>2. QED
    BY <2>1, CallFacts DEF IInv, TypeOK
<1>4. owed' \subseteq owed
  BY DEF Connected, CallDisconnect, intent, startup, routing, quit
<1>5. at' = "replace" => run'.op = "connect" /\ (run'.current => owed' = {})
  BY
     DEF IInv, AnnouncedOK, Connected, CallDisconnect, intent, startup, routing,
         quit
<1>6. at = "ready" /\ run.current /\ run.op # "routing" =>
        owed' = {} \/ stopping \/ (at' = at /\ run' = run)
  BY
     DEF IInv, AnnouncedOK, Connected, CallDisconnect, intent, startup, routing,
         quit
<1>7. Core'
  BY <1>1, <1>2, <1>3, <1>4, <1>5, <1>6, SessionsOnlyEnd
<1>8. IntentOK' /\ RestOK'
  BY
     DEF IInv, TypeOK, IntentOK, RestOK, intent, startup, routing, quit,
         Connected, CallDisconnect
<1>9. Ends
  BY <1>3 DEF Ends, Connected, CallDisconnect, intent, startup, routing, quit
<1> QED
  BY <1>7, <1>8, <1>9 DEF IInv, TypeOK, Core

(* A connect rejects. *)
LEMMA ConnectRejectsStep == IInv /\ ConnectRejects => IInv' /\ Ends
<1> SUFFICES ASSUME IInv, ConnectRejects PROVE IInv' /\ Ends
  OBVIOUS
<1>1. UNCHANGED <<queue, want, stopping, active>> /\ at' \in Awaits
  BY
     DEF IInv, TypeOK, ExecOK, Awaits, ConnectRejects, Reject, Return, intent,
         startup, routing, quit
<1>2. run' = run \/ run' = NoOperation
  BY DEF ConnectRejects, Reject, Return, intent, startup, routing, quit
<1>3. svc' \in States /\ \A t \in Tunnels : svc'[t] \in Live => svc[t] \in Live
  <2>1. svc' = svc \/ svc' = Ending \/ svc' = Ended \/ svc' = NotConnected
    BY DEF ConnectRejects, Reject, Return, intent, startup, routing, quit
  <2>2. QED
    BY <2>1, CallFacts DEF IInv, TypeOK
<1>4. owed' \subseteq owed
  BY DEF ConnectRejects, Reject, Return, intent, startup, routing, quit
<1>5. at' = "replace" => run'.op = "connect" /\ (run'.current => owed' = {})
  BY
     DEF IInv, AnnouncedOK, ConnectRejects, Reject, Return, intent, startup,
         routing, quit
<1>6. at = "ready" /\ run.current /\ run.op # "routing" =>
        owed' = {} \/ stopping \/ (at' = at /\ run' = run)
  BY
     DEF IInv, AnnouncedOK, ConnectRejects, Reject, Return, intent, startup,
         routing, quit
<1>7. Core'
  BY <1>1, <1>2, <1>3, <1>4, <1>5, <1>6, SessionsOnlyEnd
<1>8. IntentOK' /\ RestOK'
  BY
     DEF IInv, TypeOK, IntentOK, RestOK, intent, startup, routing, quit,
         ConnectRejects, Reject, Return
<1>9. Ends
  BY <1>3 DEF Ends, ConnectRejects, Reject, Return, intent, startup, routing, quit
<1> QED
  BY <1>7, <1>8, <1>9 DEF IInv, TypeOK, Core

(* The transport has been remembered. *)
LEMMA RememberedStep == IInv /\ Remembered => IInv' /\ Ends
<1> SUFFICES ASSUME IInv, Remembered PROVE IInv' /\ Ends
  OBVIOUS
<1>1. UNCHANGED <<queue, want, stopping, active>> /\ at' \in Awaits
  BY
     DEF IInv, TypeOK, ExecOK, Awaits, Remembered, Return, intent, startup,
         routing, quit
<1>2. run' = run \/ run' = NoOperation
  BY DEF Remembered, Return, intent, startup, routing, quit
<1>3. svc' \in States /\ \A t \in Tunnels : svc'[t] \in Live => svc[t] \in Live
  BY CallFacts DEF IInv, TypeOK, Remembered, Return, intent, startup, routing, quit
<1>4. owed' \subseteq owed
  BY DEF Remembered, Return, intent, startup, routing, quit
<1>5. at' = "replace" => run'.op = "connect" /\ (run'.current => owed' = {})
  BY DEF IInv, AnnouncedOK, Remembered, Return, intent, startup, routing, quit
<1>6. at = "ready" /\ run.current /\ run.op # "routing" =>
        owed' = {} \/ stopping \/ (at' = at /\ run' = run)
  BY DEF IInv, AnnouncedOK, Remembered, Return, intent, startup, routing, quit
<1>7. Core'
  BY <1>1, <1>2, <1>3, <1>4, <1>5, <1>6, SessionsOnlyEnd
<1>8. IntentOK' /\ RestOK'
  BY
     DEF IInv, TypeOK, IntentOK, RestOK, intent, startup, routing, quit,
         Remembered, Return
<1>9. Ends
  BY <1>3 DEF Ends, Remembered, Return, intent, startup, routing, quit
<1> QED
  BY <1>7, <1>8, <1>9 DEF IInv, TypeOK, Core

(* A disconnect resolves. *)
LEMMA DisconnectedStep == IInv /\ Disconnected => IInv' /\ Ends
<1> SUFFICES ASSUME IInv, Disconnected PROVE IInv' /\ Ends
  OBVIOUS
<1>1. UNCHANGED <<queue, want, stopping, active>> /\ at' \in Awaits
  BY
     DEF IInv, TypeOK, ExecOK, Awaits, Disconnected, Return, intent, startup,
         routing, quit
<1>2. run' = run \/ run' = NoOperation
  BY DEF Disconnected, Return, intent, startup, routing, quit
<1>3. svc' \in States /\ \A t \in Tunnels : svc'[t] \in Live => svc[t] \in Live
  <2>1. svc' = svc \/ svc' = Ending \/ svc' = Ended \/ svc' = NotConnected
    BY DEF Disconnected, Return, intent, startup, routing, quit
  <2>2. QED
    BY <2>1, CallFacts DEF IInv, TypeOK
<1>4. owed' \subseteq owed
  BY DEF Disconnected, Return, intent, startup, routing, quit
<1>5. at' = "replace" => run'.op = "connect" /\ (run'.current => owed' = {})
  BY DEF IInv, AnnouncedOK, Disconnected, Return, intent, startup, routing, quit
<1>6. at = "ready" /\ run.current /\ run.op # "routing" =>
        owed' = {} \/ stopping \/ (at' = at /\ run' = run)
  BY DEF IInv, AnnouncedOK, Disconnected, Return, intent, startup, routing, quit
<1>7. Core'
  BY <1>1, <1>2, <1>3, <1>4, <1>5, <1>6, SessionsOnlyEnd
<1>8. IntentOK' /\ RestOK'
  BY
     DEF IInv, TypeOK, IntentOK, RestOK, intent, startup, routing, quit,
         Disconnected, Return
<1>9. Ends
  BY <1>3 DEF Ends, Disconnected, Return, intent, startup, routing, quit
<1> QED
  BY <1>7, <1>8, <1>9 DEF IInv, TypeOK, Core

(* A disconnect rejects. *)
LEMMA DisconnectRejectsStep == IInv /\ DisconnectRejects => IInv' /\ Ends
<1> SUFFICES ASSUME IInv, DisconnectRejects PROVE IInv' /\ Ends
  OBVIOUS
<1>1. UNCHANGED <<queue, want, stopping, active>> /\ at' \in Awaits
  BY
     DEF IInv, TypeOK, ExecOK, Awaits, DisconnectRejects, Reject, Return, intent,
         startup, routing, quit
<1>2. run' = run \/ run' = NoOperation
  BY DEF DisconnectRejects, Reject, Return, intent, startup, routing, quit
<1>3. svc' \in States /\ \A t \in Tunnels : svc'[t] \in Live => svc[t] \in Live
  <2>1. svc' = svc \/ svc' = Ending \/ svc' = Ended \/ svc' = NotConnected
    BY DEF DisconnectRejects, Reject, Return, intent, startup, routing, quit
  <2>2. QED
    BY <2>1, CallFacts DEF IInv, TypeOK
<1>4. owed' \subseteq owed
  BY DEF DisconnectRejects, Reject, Return, intent, startup, routing, quit
<1>5. at' = "replace" => run'.op = "connect" /\ (run'.current => owed' = {})
  BY
     DEF IInv, AnnouncedOK, DisconnectRejects, Reject, Return, intent, startup,
         routing, quit
<1>6. at = "ready" /\ run.current /\ run.op # "routing" =>
        owed' = {} \/ stopping \/ (at' = at /\ run' = run)
  BY
     DEF IInv, AnnouncedOK, DisconnectRejects, Reject, Return, intent, startup,
         routing, quit
<1>7. Core'
  BY <1>1, <1>2, <1>3, <1>4, <1>5, <1>6, SessionsOnlyEnd
<1>8. IntentOK' /\ RestOK'
  BY
     DEF IInv, TypeOK, IntentOK, RestOK, intent, startup, routing, quit,
         DisconnectRejects, Reject, Return
<1>9. Ends
  BY <1>3
     DEF Ends, DisconnectRejects, Reject, Return, intent, startup, routing, quit
<1> QED
  BY <1>7, <1>8, <1>9 DEF IInv, TypeOK, Core

(* updateRouting has an answer. *)
LEMMA RoutingUpdatedStep == IInv /\ RoutingUpdated => IInv' /\ Ends
<1> SUFFICES ASSUME IInv, RoutingUpdated PROVE IInv' /\ Ends
  OBVIOUS
<1>1. UNCHANGED <<queue, want, stopping, active>> /\ at' \in Awaits
  BY
     DEF IInv, TypeOK, ExecOK, Awaits, RoutingUpdated, Return, intent, startup,
         routing, quit
<1>2. run' = run \/ run' = NoOperation
  BY DEF RoutingUpdated, Return, intent, startup, routing, quit
<1>3. svc' \in States /\ \A t \in Tunnels : svc'[t] \in Live => svc[t] \in Live
  BY CallFacts
     DEF IInv, TypeOK, RoutingUpdated, Return, intent, startup, routing, quit
<1>4. owed' \subseteq owed
  BY DEF RoutingUpdated, Return, intent, startup, routing, quit
<1>5. at' = "replace" => run'.op = "connect" /\ (run'.current => owed' = {})
  BY DEF IInv, AnnouncedOK, RoutingUpdated, Return, intent, startup, routing, quit
<1>6. at = "ready" /\ run.current /\ run.op # "routing" =>
        owed' = {} \/ stopping \/ (at' = at /\ run' = run)
  BY DEF IInv, AnnouncedOK, RoutingUpdated, Return, intent, startup, routing, quit
<1>7. Core'
  BY <1>1, <1>2, <1>3, <1>4, <1>5, <1>6, SessionsOnlyEnd
<1>8. IntentOK' /\ RestOK'
  BY
     DEF IInv, TypeOK, IntentOK, RestOK, intent, startup, routing, quit,
         RoutingUpdated, Return
<1>9. Ends
  BY <1>3 DEF Ends, RoutingUpdated, Return, intent, startup, routing, quit
<1> QED
  BY <1>7, <1>8, <1>9 DEF IInv, TypeOK, Core

(* clearError has an answer. *)
LEMMA ClearedStep == IInv /\ Cleared => IInv' /\ Ends
<1> SUFFICES ASSUME IInv, Cleared PROVE IInv' /\ Ends
  OBVIOUS
<1>1. UNCHANGED <<queue, want, stopping, active>> /\ at' \in Awaits
  BY
     DEF IInv, TypeOK, ExecOK, Awaits, Cleared, Return, intent, startup, routing,
         quit
<1>2. run' = run \/ run' = NoOperation
  BY DEF Cleared, Return, intent, startup, routing, quit
<1>3. svc' \in States /\ \A t \in Tunnels : svc'[t] \in Live => svc[t] \in Live
  BY CallFacts DEF IInv, TypeOK, Cleared, Return, intent, startup, routing, quit
<1>4. owed' \subseteq owed
  BY DEF Cleared, Return, intent, startup, routing, quit
<1>5. at' = "replace" => run'.op = "connect" /\ (run'.current => owed' = {})
  BY DEF IInv, AnnouncedOK, Cleared, Return, intent, startup, routing, quit
<1>6. at = "ready" /\ run.current /\ run.op # "routing" =>
        owed' = {} \/ stopping \/ (at' = at /\ run' = run)
  BY DEF IInv, AnnouncedOK, Cleared, Return, intent, startup, routing, quit
<1>7. Core'
  BY <1>1, <1>2, <1>3, <1>4, <1>5, <1>6, SessionsOnlyEnd
<1>8. IntentOK' /\ RestOK'
  BY
     DEF IInv, TypeOK, IntentOK, RestOK, intent, startup, routing, quit, Cleared,
         Return
<1>9. Ends
  BY <1>3 DEF Ends, Cleared, Return, intent, startup, routing, quit
<1> QED
  BY <1>7, <1>8, <1>9 DEF IInv, TypeOK, Core

(* Both services are disposed. *)
LEMMA DisposedStep == IInv /\ Disposed => IInv' /\ Ends
<1> SUFFICES ASSUME IInv, Disposed PROVE IInv' /\ Ends
  OBVIOUS
<1>1. UNCHANGED <<queue, want, stopping, active>> /\ at' \in Awaits
  BY DEF IInv, TypeOK, ExecOK, Awaits, Disposed, intent, startup, routing, quit
<1>2. run' = run \/ run' = NoOperation
  BY DEF Disposed, intent, startup, routing, quit
<1>3. svc' \in States /\ \A t \in Tunnels : svc'[t] \in Live => svc[t] \in Live
  BY DEF Disposed, States, Live
<1>4. owed' \subseteq owed
  BY DEF Disposed, intent, startup, routing, quit
<1>5. at' = "replace" => run'.op = "connect" /\ (run'.current => owed' = {})
  BY DEF IInv, AnnouncedOK, Disposed, intent, startup, routing, quit
<1>6. at = "ready" /\ run.current /\ run.op # "routing" =>
        owed' = {} \/ stopping \/ (at' = at /\ run' = run)
  BY DEF IInv, AnnouncedOK, Disposed, intent, startup, routing, quit
<1>7. Core'
  BY <1>1, <1>2, <1>3, <1>4, <1>5, <1>6, SessionsOnlyEnd
<1>8. IntentOK' /\ RestOK'
  BY DEF IInv, TypeOK, IntentOK, RestOK, intent, startup, routing, quit, Disposed
<1>9. Ends
  BY <1>3 DEF Ends, Disposed, intent, startup, routing, quit
<1> QED
  BY <1>7, <1>8, <1>9 DEF IInv, TypeOK, Core

(* There is no automatic Connect. *)
LEMMA SkipAutoConnectStep == IInv /\ SkipAutoConnect => IInv' /\ Ends
<1> SUFFICES ASSUME IInv, SkipAutoConnect PROVE IInv' /\ Ends
  OBVIOUS
<1>1. UNCHANGED <<queue, want, stopping, active>> /\ at' \in Awaits
  BY
     DEF IInv, TypeOK, ExecOK, Awaits, SkipAutoConnect, intent, startup, routing,
         quit
<1>2. run' = run \/ run' = NoOperation
  BY DEF SkipAutoConnect, intent, startup, routing, quit
<1>3. svc' \in States /\ \A t \in Tunnels : svc'[t] \in Live => svc[t] \in Live
  BY CallFacts DEF IInv, TypeOK, SkipAutoConnect, intent, startup, routing, quit
<1>4. owed' \subseteq owed
  BY DEF SkipAutoConnect, intent, startup, routing, quit
<1>5. at' = "replace" => run'.op = "connect" /\ (run'.current => owed' = {})
  BY DEF IInv, AnnouncedOK, SkipAutoConnect, intent, startup, routing, quit
<1>6. at = "ready" /\ run.current /\ run.op # "routing" =>
        owed' = {} \/ stopping \/ (at' = at /\ run' = run)
  BY DEF IInv, AnnouncedOK, SkipAutoConnect, intent, startup, routing, quit
<1>7. Core'
  BY <1>1, <1>2, <1>3, <1>4, <1>5, <1>6, SessionsOnlyEnd
<1>8. IntentOK' /\ RestOK'
  BY
     DEF IInv, TypeOK, IntentOK, RestOK, intent, startup, routing, quit,
         SkipAutoConnect
<1>9. Ends
  BY <1>3 DEF Ends, SkipAutoConnect, intent, startup, routing, quit
<1> QED
  BY <1>7, <1>8, <1>9 DEF IInv, TypeOK, Core

(* The services are there. *)
LEMMA ServicesCreatedStep == IInv /\ ServicesCreated => IInv' /\ Ends
<1> SUFFICES ASSUME IInv, ServicesCreated PROVE IInv' /\ Ends
  OBVIOUS
<1>1. UNCHANGED <<queue, want, stopping, active>> /\ at' \in Awaits
  BY
     DEF IInv, TypeOK, ExecOK, Awaits, ServicesCreated, intent, startup, routing,
         quit
<1>2. run' = run \/ run' = NoOperation
  BY DEF ServicesCreated, intent, startup, routing, quit
<1>3. svc' \in States /\ \A t \in Tunnels : svc'[t] \in Live => svc[t] \in Live
  <2>1. "ssh" \in Tunnels
    BY DEF Tunnels
  <2>2. svc' = svc \/ svc' = [svc EXCEPT !["ssh"] = "error"]
    BY DEF ServicesCreated
  <2>3. QED
    BY <2>1, <2>2, CallFacts, SessionEnds DEF IInv, TypeOK
<1>4. owed' \subseteq owed
  BY DEF ServicesCreated, intent, startup, routing, quit
<1>5. at' = "replace" => run'.op = "connect" /\ (run'.current => owed' = {})
  BY DEF IInv, AnnouncedOK, ServicesCreated, intent, startup, routing, quit
<1>6. at = "ready" /\ run.current /\ run.op # "routing" =>
        owed' = {} \/ stopping \/ (at' = at /\ run' = run)
  BY DEF IInv, AnnouncedOK, ServicesCreated, intent, startup, routing, quit
<1>7. Core'
  BY <1>1, <1>2, <1>3, <1>4, <1>5, <1>6, SessionsOnlyEnd
<1>8. IntentOK' /\ RestOK'
  BY
     DEF IInv, TypeOK, IntentOK, RestOK, intent, startup, routing, quit,
         ServicesCreated
<1>9. Ends
  BY <1>3 DEF Ends, ServicesCreated, intent, startup, routing, quit
<1> QED
  BY <1>7, <1>8, <1>9 DEF IInv, TypeOK, Core

(* A session fails. *)
LEMMA ServiceFailsStep == IInv /\ ServiceFails => IInv' /\ Ends
<1> SUFFICES ASSUME IInv, ServiceFails PROVE IInv' /\ Ends
  OBVIOUS
<1>1. UNCHANGED <<queue, want, stopping, active>> /\ at' \in Awaits
  BY DEF IInv, TypeOK, ExecOK, Awaits, ServiceFails, intent, startup, routing, quit
<1>2. run' = run \/ run' = NoOperation
  BY DEF ServiceFails, intent, startup, routing, quit
<1>3. svc' \in States /\ \A t \in Tunnels : svc'[t] \in Live => svc[t] \in Live
  <2>1. PICK t \in Tunnels : svc' = [svc EXCEPT ![t] = "error"]
    BY DEF ServiceFails
  <2>2. QED
    BY <2>1, SessionEnds DEF IInv, TypeOK
<1>4. owed' \subseteq owed
  BY DEF ServiceFails, intent, startup, routing, quit
<1>5. at' = "replace" => run'.op = "connect" /\ (run'.current => owed' = {})
  BY DEF IInv, AnnouncedOK, ServiceFails, intent, startup, routing, quit
<1>6. at = "ready" /\ run.current /\ run.op # "routing" =>
        owed' = {} \/ stopping \/ (at' = at /\ run' = run)
  BY DEF IInv, AnnouncedOK, ServiceFails, intent, startup, routing, quit
<1>7. Core'
  BY <1>1, <1>2, <1>3, <1>4, <1>5, <1>6, SessionsOnlyEnd
<1>8. IntentOK' /\ RestOK'
  BY
     DEF IInv, TypeOK, IntentOK, RestOK, intent, startup, routing, quit,
         ServiceFails
<1>9. Ends
  BY <1>3 DEF Ends, ServiceFails, intent, startup, routing, quit
<1> QED
  BY <1>7, <1>8, <1>9 DEF IInv, TypeOK, Core

(* The deadline of the quit. *)
LEMMA DeadlineStep == IInv /\ Deadline => IInv' /\ Ends
<1> SUFFICES ASSUME IInv, Deadline PROVE IInv' /\ Ends
  OBVIOUS
<1>1. UNCHANGED <<queue, want, stopping, active>> /\ at' \in Awaits
  BY DEF IInv, TypeOK, ExecOK, Awaits, Deadline, intent, startup, routing, quit
<1>2. run' = run \/ run' = NoOperation
  BY DEF Deadline, intent, startup, routing, quit
<1>3. svc' \in States /\ \A t \in Tunnels : svc'[t] \in Live => svc[t] \in Live
  <2>1. "xray" \in Tunnels
    BY DEF Tunnels
  <2>2. svc' = [svc EXCEPT !["xray"] = "off"]
    BY DEF Deadline
  <2>3. QED
    BY <2>1, <2>2, SessionEnds DEF IInv, TypeOK
<1>4. owed' \subseteq owed
  BY DEF Deadline, intent, startup, routing, quit
<1>5. at' = "replace" => run'.op = "connect" /\ (run'.current => owed' = {})
  BY DEF IInv, AnnouncedOK, Deadline, intent, startup, routing, quit
<1>6. at = "ready" /\ run.current /\ run.op # "routing" =>
        owed' = {} \/ stopping \/ (at' = at /\ run' = run)
  BY DEF IInv, AnnouncedOK, Deadline, intent, startup, routing, quit
<1>7. Core'
  BY <1>1, <1>2, <1>3, <1>4, <1>5, <1>6, SessionsOnlyEnd
<1>8. IntentOK' /\ RestOK'
  BY DEF IInv, TypeOK, IntentOK, RestOK, intent, startup, routing, quit, Deadline
<1>9. Ends
  BY <1>3 DEF Ends, Deadline, intent, startup, routing, quit
<1> QED
  BY <1>7, <1>8, <1>9 DEF IInv, TypeOK, Core

(* The application exits. *)
LEMMA ExitStep == IInv /\ Exit => IInv' /\ Ends
<1> SUFFICES ASSUME IInv, Exit PROVE IInv' /\ Ends
  OBVIOUS
<1>1. UNCHANGED <<queue, want, stopping, active>> /\ at' \in Awaits
  BY DEF IInv, TypeOK, ExecOK, Awaits, Exit, intent, startup, routing, quit
<1>2. run' = run \/ run' = NoOperation
  BY DEF Exit, intent, startup, routing, quit
<1>3. svc' \in States /\ \A t \in Tunnels : svc'[t] \in Live => svc[t] \in Live
  BY CallFacts DEF IInv, TypeOK, Exit, intent, startup, routing, quit
<1>4. owed' \subseteq owed
  BY DEF Exit, intent, startup, routing, quit
<1>5. at' = "replace" => run'.op = "connect" /\ (run'.current => owed' = {})
  BY DEF IInv, AnnouncedOK, Exit, intent, startup, routing, quit
<1>6. at = "ready" /\ run.current /\ run.op # "routing" =>
        owed' = {} \/ stopping \/ (at' = at /\ run' = run)
  BY DEF IInv, AnnouncedOK, Exit, intent, startup, routing, quit
<1>7. Core'
  BY <1>1, <1>2, <1>3, <1>4, <1>5, <1>6, SessionsOnlyEnd
<1>8. IntentOK' /\ RestOK'
  BY DEF IInv, TypeOK, IntentOK, RestOK, intent, startup, routing, quit, Exit
<1>9. Ends
  BY <1>3 DEF Ends, Exit, intent, startup, routing, quit
<1> QED
  BY <1>7, <1>8, <1>9 DEF IInv, TypeOK, Core

(* No step at all. *)
LEMMA StutterStep == IInv /\ UNCHANGED vars => IInv' /\ Ends
<1> SUFFICES ASSUME IInv, UNCHANGED vars PROVE IInv' /\ Ends
  OBVIOUS
<1>1. UNCHANGED <<queue, want, stopping, active>> /\ at' \in Awaits
  BY DEF IInv, TypeOK, ExecOK, Awaits, vars, intent, startup, routing, quit
<1>2. run' = run \/ run' = NoOperation
  BY DEF vars, intent, startup, routing, quit
<1>3. svc' \in States /\ \A t \in Tunnels : svc'[t] \in Live => svc[t] \in Live
  BY CallFacts DEF IInv, TypeOK, vars, intent, startup, routing, quit
<1>4. owed' \subseteq owed
  BY DEF vars, intent, startup, routing, quit
<1>5. at' = "replace" => run'.op = "connect" /\ (run'.current => owed' = {})
  BY DEF IInv, AnnouncedOK, vars, intent, startup, routing, quit
<1>6. at = "ready" /\ run.current /\ run.op # "routing" =>
        owed' = {} \/ stopping \/ (at' = at /\ run' = run)
  BY DEF IInv, AnnouncedOK, vars, intent, startup, routing, quit
<1>7. Core'
  BY <1>1, <1>2, <1>3, <1>4, <1>5, <1>6, SessionsOnlyEnd
<1>8. IntentOK' /\ RestOK'
  BY DEF IInv, TypeOK, IntentOK, RestOK, intent, startup, routing, quit, vars
<1>9. Ends
  BY <1>3 DEF Ends, vars, intent, startup, routing, quit
<1> QED
  BY <1>7, <1>8, <1>9 DEF IInv, TypeOK, Core

(* The next operation starts. *)
LEMMA BeginStep == IInv /\ Begin => IInv' /\ Ends
<1> SUFFICES ASSUME IInv, Begin PROVE IInv' /\ Ends
  OBVIOUS
<1>1. ExecOK' /\ LatestOK' /\ (Waits(queue) => Waits(queue')
         \/ (Head(queue).current /\ Head(queue).op \in {"connect", "disconnect"}))
  <2>1. /\ queue # <<>> /\ queue' = Tail(queue) /\ UNCHANGED <<want, stopping>>
        /\ run' = run \/ run' = Head(queue)
    BY DEF Begin, intent
  <2>2. at' \in Awaits
    BY DEF IInv, TypeOK, ExecOK, Awaits, Begin
  <2>3. QED
    BY <2>1, <2>2, QueueTaken DEF IInv, TypeOK
<1>2. ServicesOK' /\ OneTunnel'
  BY DEF IInv, TypeOK, ServicesOK, OneTunnel, Other, Begin
<1>3. AnnouncedOK'
  BY DEF IInv, AnnouncedOK, Begin
<1>4. AnnouncedIsQueued'
  BY <1>1 DEF IInv, AnnouncedIsQueued, Waits, Begin, intent
<1>7. Core'
  BY <1>1, <1>2, <1>3, <1>4 DEF Core
<1>8. IntentOK' /\ RestOK'
  BY DEF IInv, TypeOK, IntentOK, RestOK, intent, startup, routing, quit, Begin
<1>9. Ends
  BY DEF Ends, Begin, intent
<1> QED
  BY <1>7, <1>8, <1>9 DEF IInv, TypeOK, Core

(* An error is dismissed. *)
LEMMA DismissStep == IInv /\ Dismiss => IInv' /\ Ends
<1> SUFFICES ASSUME IInv, Dismiss PROVE IInv' /\ Ends
  OBVIOUS
<1>1. ExecOK' /\ LatestOK' /\ (Waits(queue) => Waits(queue')
         \/ (Head(queue).current /\ Head(queue).op \in {"connect", "disconnect"}))
  <2>1. /\ queue # <<>> /\ queue' = Tail(queue) /\ UNCHANGED <<want, stopping>>
        /\ run' = run \/ run' = Head(queue)
    BY DEF Dismiss, intent
  <2>2. at' \in Awaits
    BY DEF IInv, TypeOK, ExecOK, Awaits, Dismiss
  <2>3. QED
    BY <2>1, <2>2, QueueTaken DEF IInv, TypeOK
<1>2. ServicesOK' /\ OneTunnel'
  <2>1. svc' \in States /\ \A t \in Tunnels : svc'[t] \in Live => svc[t] \in Live
    BY CallFacts DEF IInv, TypeOK, Dismiss
  <2>2. QED
    BY <2>1, OneTunnelKept DEF IInv, TypeOK, ServicesOK, Dismiss
<1>3. AnnouncedOK'
  BY DEF IInv, AnnouncedOK, Dismiss
<1>4. AnnouncedIsQueued'
  BY <1>1 DEF IInv, AnnouncedIsQueued, Waits, Dismiss, intent
<1>7. Core'
  BY <1>1, <1>2, <1>3, <1>4 DEF Core
<1>8. IntentOK' /\ RestOK'
  BY DEF IInv, TypeOK, IntentOK, RestOK, intent, startup, routing, quit, Dismiss
<1>9. Ends
  BY CallFacts DEF IInv, TypeOK, Ends, Dismiss, intent
<1> QED
  BY <1>7, <1>8, <1>9 DEF IInv, TypeOK, Core

(* The cleanup starts. *)
LEMMA DisposeStep == IInv /\ Dispose => IInv' /\ Ends
<1> SUFFICES ASSUME IInv, Dispose PROVE IInv' /\ Ends
  OBVIOUS
<1>1. ExecOK' /\ LatestOK' /\ (Waits(queue) => Waits(queue')
         \/ (Head(queue).current /\ Head(queue).op \in {"connect", "disconnect"}))
  <2>1. /\ queue # <<>> /\ queue' = Tail(queue) /\ UNCHANGED <<want, stopping>>
        /\ run' = run \/ run' = Head(queue)
    BY DEF Dispose, intent
  <2>2. at' \in Awaits
    BY DEF IInv, TypeOK, ExecOK, Awaits, Dispose
  <2>3. QED
    BY <2>1, <2>2, QueueTaken DEF IInv, TypeOK
<1>2. ServicesOK' /\ OneTunnel'
  <2>1. svc' \in States /\ \A t \in Tunnels : svc'[t] \in Live => svc[t] \in Live
    BY DEF IInv, TypeOK, ServicesOK, States, Live, Dispose
  <2>2. QED
    BY <2>1, OneTunnelKept DEF IInv, TypeOK, ServicesOK, Dispose
<1>3. AnnouncedOK'
  BY DEF IInv, AnnouncedOK, Dispose
<1>4. AnnouncedIsQueued'
  BY <1>1 DEF IInv, AnnouncedIsQueued, Waits, Dispose, intent
<1>7. Core'
  BY <1>1, <1>2, <1>3, <1>4 DEF Core
<1>8. IntentOK' /\ RestOK'
  BY DEF IInv, TypeOK, IntentOK, RestOK, intent, startup, routing, quit, Dispose
<1>9. Ends
  BY DEF IInv, TypeOK, ServicesOK, Live, Ends, Dispose, intent
<1> QED
  BY <1>7, <1>8, <1>9 DEF IInv, TypeOK, Core

(* A Connect starts a session where none has to be replaced. *)
LEMMA ConnectStartsStep == IInv /\ ConnectStarts => IInv'
<1> SUFFICES ASSUME IInv, ConnectStarts PROVE IInv'
  OBVIOUS
<1>1. ExecOK' /\ LatestOK'
  <2>1. UNCHANGED <<queue, want, stopping, run>> /\ at' \in Awaits
    BY DEF ConnectStarts, CallConnect, Awaits, intent
  <2>2. QED
    BY <2>1, QueueKept DEF IInv, TypeOK
<1>2. ServicesOK' /\ OneTunnel'
  <2>1. active = run.to /\ active' = active
    BY DEF ConnectStarts, CallConnect, NeedsReplacing
  <2>2. svc' = [svc EXCEPT ![active] = "on"] /\ owed' \subseteq owed
    BY <2>1 DEF ConnectStarts, CallConnect
  <2>3. QED
    BY <2>1, <2>2 DEF IInv, TypeOK, ServicesOK, OneTunnel, Other, Tunnels
<1>3. AnnouncedOK'
  BY DEF IInv, AnnouncedOK, ConnectStarts, CallConnect, NeedsReplacing
<1>4. AnnouncedIsQueued'
  <2>1. owed' = {}
    BY DEF IInv, AnnouncedOK, ConnectStarts, CallConnect, NeedsReplacing
  <2>2. QED
    BY <2>1 DEF AnnouncedIsQueued
<1>7. Core'
  BY <1>1, <1>2, <1>3, <1>4 DEF Core
<1>5. run.fresh \in BOOLEAN
  BY DEF IInv, TypeOK, ExecOK, Operations
<1>6. applied' \in BOOLEAN /\ applyFailed' \in BOOLEAN
  BY <1>5 DEF IInv, TypeOK, RestOK, ConnectStarts, CallConnect
<1>8. IntentOK' /\ RestOK'
  BY <1>6
     DEF IInv, TypeOK, IntentOK, RestOK, intent, startup, routing, quit,
         ConnectStarts, CallConnect
<1>9. QED
  BY <1>7, <1>8 DEF IInv, TypeOK, Core

(* A session has been replaced: the new one starts, or the intent was overtaken. *)
LEMMA ReplacedStep == IInv /\ Replaced => IInv'
<1> SUFFICES ASSUME IInv, Replaced PROVE IInv'
  OBVIOUS
<1>1. ExecOK' /\ LatestOK'
  <2>1. UNCHANGED <<queue, want, stopping>> /\ (run' = run \/ run' = NoOperation)
    BY DEF Replaced, Return, intent
  <2>2. at' \in Awaits
    BY DEF Replaced, CallConnect, Return, Awaits
  <2>3. QED
    BY <2>1, <2>2, QueueKept DEF IInv, TypeOK
<1>2. ServicesOK' /\ OneTunnel'
  <2>1. CASE run.current
    <3>1. /\ active' = run.to /\ svc' = [Ended EXCEPT ![run.to] = "on"]
          /\ owed' = owed \ {run.to}
      BY <2>1 DEF Replaced, CallConnect
    <3>2. run.to \in Tunnels
      BY DEF IInv, TypeOK, ExecOK, Operations
    <3>3. Ended \in States /\ \A t \in Tunnels : Ended[t] \notin Live
      BY
         DEF IInv, TypeOK, ServicesOK, States, OneTunnel, Other, Tunnels, Ended,
             Live
    <3>4. svc' \in States
      BY <3>1, <3>2, <3>3 DEF States
    <3>5. svc'[Other(run.to)] = Ended[Other(run.to)] /\ Other(run.to) \in Tunnels
      BY <3>1, <3>2, <3>3 DEF States, Other, Tunnels
    <3>6. OneTunnel'
      BY <3>1, <3>3, <3>5 DEF OneTunnel, Other
    <3>7. ServicesOK'
      BY <3>1, <3>2, <3>4 DEF ServicesOK, States, IInv, TypeOK
    <3>8. QED
      BY <3>6, <3>7
  <2>2. CASE ~run.current
    <3>1. svc' = Ended /\ UNCHANGED <<active, owed>>
      BY <2>2 DEF Replaced
    <3>2. svc' \in States /\ \A t \in Tunnels : svc'[t] \in Live => svc[t] \in Live
      BY <3>1, CallFacts DEF IInv, TypeOK
    <3>3. QED
      BY <3>1, <3>2, OneTunnelKept DEF IInv, TypeOK, ServicesOK
  <2>3. QED
    BY <2>1, <2>2
<1>3. AnnouncedOK'
  BY DEF IInv, AnnouncedOK, Replaced, CallConnect, Return
<1>4. AnnouncedIsQueued'
  BY DEF IInv, AnnouncedIsQueued, AnnouncedOK, Replaced, CallConnect, Return, intent
<1>7. Core'
  BY <1>1, <1>2, <1>3, <1>4 DEF Core
<1>5. run.fresh \in BOOLEAN
  BY DEF IInv, TypeOK, ExecOK, Operations
<1>6. applied' \in BOOLEAN /\ applyFailed' \in BOOLEAN
  BY <1>5 DEF IInv, TypeOK, RestOK, Replaced, CallConnect, Return
<1>8. IntentOK' /\ RestOK'
  BY <1>6
     DEF IInv, TypeOK, IntentOK, RestOK, intent, startup, routing, quit,
         Replaced, CallConnect, Return
<1>9. QED
  BY <1>7, <1>8 DEF IInv, TypeOK, Core

(* A Connect is asked for. *)
LEMMA RequestConnectStep == IInv /\ (\E t \in Tunnels, r \in BOOLEAN : RequestConnect(t, r)) => IInv'
<1> SUFFICES ASSUME IInv, NEW t \in Tunnels, NEW r \in BOOLEAN, RequestConnect(t, r) PROVE IInv'
  OBVIOUS
<1>1. ExecOK' /\ LatestOK' /\ ~run'.current /\ (Waits(queue') \/ stopping')
  <2> DEFINE o == [Operation("connect") EXCEPT !.to = t, !.restart = r]
  <2>1. o \in Operations /\ o.current
    BY DEF Operation, Operations, Tunnels
  <2>2. /\ queue' = Append(Overtake(queue), o)
        /\ run' = [run EXCEPT !.current = FALSE] /\ UNCHANGED at
    BY DEF RequestConnect, Accept
  <2>3. /\ stopping' <=> want' = "quit"
        /\ o.op = "connect" => o.to = want' /\ ~stopping'
    BY DEF IInv, LatestOK, Operation, Tunnels, RequestConnect, Accept
  <2> HIDE DEF o
  <2>4. ExecOK' /\ LatestOK' /\ ~run'.current /\ (o.op \in {"connect", "disconnect"} => Waits(queue'))
    BY <2>1, <2>2, <2>3, QueueOvertaken DEF IInv, TypeOK
  <2>5. o.op \in {"connect", "disconnect"} \/ stopping'
    BY DEF o, Operation, RequestConnect, Accept
  <2>6. QED
    BY <2>4, <2>5
<1>2. ServicesOK' /\ OneTunnel'
  BY DEF IInv, TypeOK, ServicesOK, OneTunnel, Other, RequestConnect, Accept
<1>3. AnnouncedOK'
  <2>1. UNCHANGED <<owed, active, at>>
    BY DEF RequestConnect, Accept
  <2>2. run'.op = run.op
    BY DEF IInv, TypeOK, ExecOK, Operations, RequestConnect, Accept
  <2>3. QED
    BY <1>1, <2>1, <2>2 DEF IInv, AnnouncedOK
<1>4. AnnouncedIsQueued'
  BY <1>1 DEF AnnouncedIsQueued, Waits
<1>7. Core'
  BY <1>1, <1>2, <1>3, <1>4 DEF Core
<1>8. IntentOK' /\ RestOK'
  BY
     DEF IInv, TypeOK, IntentOK, RestOK, intent, startup, routing, quit,
         RequestConnect, Accept
<1>9. QED
  BY <1>7, <1>8 DEF IInv, TypeOK, Core

(* The automatic Connect. *)
LEMMA AutoConnectStep == IInv /\ (\E t \in Tunnels : AutoConnect(t)) => IInv'
<1> SUFFICES ASSUME IInv, NEW t \in Tunnels, AutoConnect(t) PROVE IInv'
  OBVIOUS
<1>1. ExecOK' /\ LatestOK' /\ ~run'.current /\ (Waits(queue') \/ stopping')
  <2> DEFINE o == [Operation("connect") EXCEPT !.to = t, !.auto = TRUE]
  <2>1. o \in Operations /\ o.current
    BY DEF Operation, Operations, Tunnels
  <2>2. /\ queue' = Append(Overtake(queue), o)
        /\ run' = [run EXCEPT !.current = FALSE] /\ UNCHANGED at
    BY DEF AutoConnect, Accept
  <2>3. /\ stopping' <=> want' = "quit"
        /\ o.op = "connect" => o.to = want' /\ ~stopping'
    BY DEF IInv, LatestOK, Operation, Tunnels, AutoConnect, Accept
  <2> HIDE DEF o
  <2>4. ExecOK' /\ LatestOK' /\ ~run'.current /\ (o.op \in {"connect", "disconnect"} => Waits(queue'))
    BY <2>1, <2>2, <2>3, QueueOvertaken DEF IInv, TypeOK
  <2>5. o.op \in {"connect", "disconnect"} \/ stopping'
    BY DEF o, Operation, AutoConnect, Accept
  <2>6. QED
    BY <2>4, <2>5
<1>2. ServicesOK' /\ OneTunnel'
  BY DEF IInv, TypeOK, ServicesOK, OneTunnel, Other, AutoConnect, Accept
<1>3. AnnouncedOK'
  <2>1. UNCHANGED <<owed, active, at>>
    BY DEF AutoConnect, Accept
  <2>2. run'.op = run.op
    BY DEF IInv, TypeOK, ExecOK, Operations, AutoConnect, Accept
  <2>3. QED
    BY <1>1, <2>1, <2>2 DEF IInv, AnnouncedOK
<1>4. AnnouncedIsQueued'
  BY <1>1 DEF AnnouncedIsQueued, Waits
<1>7. Core'
  BY <1>1, <1>2, <1>3, <1>4 DEF Core
<1>8. IntentOK' /\ RestOK'
  BY
     DEF IInv, TypeOK, IntentOK, RestOK, intent, startup, routing, quit,
         AutoConnect, Accept
<1>9. QED
  BY <1>7, <1>8 DEF IInv, TypeOK, Core

(* A Disconnect is asked for: the session that is active is told at once. *)
LEMMA RequestDisconnectStep == IInv /\ RequestDisconnect => IInv'
<1> SUFFICES ASSUME IInv, RequestDisconnect PROVE IInv'
  OBVIOUS
<1>1. ExecOK' /\ LatestOK' /\ ~run'.current /\ (Waits(queue') \/ stopping')
  <2> DEFINE o == Operation("disconnect")
  <2>1. o \in Operations /\ o.current
    BY DEF Operation, Operations, Tunnels
  <2>2. /\ queue' = Append(Overtake(queue), o)
        /\ run' = [run EXCEPT !.current = FALSE] /\ UNCHANGED at
    BY DEF RequestDisconnect, Accept
  <2>3. /\ stopping' <=> want' = "quit"
        /\ o.op = "connect" => o.to = want' /\ ~stopping'
    BY DEF IInv, LatestOK, Operation, Tunnels, RequestDisconnect, Accept
  <2> HIDE DEF o
  <2>4. ExecOK' /\ LatestOK' /\ ~run'.current /\ (o.op \in {"connect", "disconnect"} => Waits(queue'))
    BY <2>1, <2>2, <2>3, QueueOvertaken DEF IInv, TypeOK
  <2>5. o.op \in {"connect", "disconnect"} \/ stopping'
    BY DEF o, Operation, RequestDisconnect, Accept
  <2>6. QED
    BY <2>4, <2>5
<1>2. ServicesOK' /\ OneTunnel'
  <2>1. svc' = svc \/ svc' = Ending
    BY DEF RequestDisconnect
  <2>2. svc' \in States /\ \A t \in Tunnels : svc'[t] \in Live => svc[t] \in Live
    BY <2>1, CallFacts DEF IInv, TypeOK
  <2>3. active' = active /\ owed' \in SUBSET Tunnels
    BY DEF IInv, TypeOK, ServicesOK, RequestDisconnect
  <2>4. QED
    BY <2>2, <2>3, OneTunnelKept DEF IInv, TypeOK
<1>3. AnnouncedOK'
  <2>1. UNCHANGED <<active, at>> /\ owed' \subseteq owed \cup {active}
    BY DEF RequestDisconnect
  <2>2. run'.op = run.op
    BY DEF IInv, TypeOK, ExecOK, Operations, RequestDisconnect, Accept
  <2>3. QED
    BY <1>1, <2>1, <2>2 DEF IInv, AnnouncedOK
<1>4. AnnouncedIsQueued'
  BY <1>1 DEF AnnouncedIsQueued, Waits
<1>7. Core'
  BY <1>1, <1>2, <1>3, <1>4 DEF Core
<1>8. IntentOK' /\ RestOK'
  BY
     DEF IInv, TypeOK, IntentOK, RestOK, intent, startup, routing, quit,
         RequestDisconnect, Accept
<1>9. QED
  BY <1>7, <1>8 DEF IInv, TypeOK, Core

(* The application quits. *)
LEMMA QuitStep == IInv /\ Quit => IInv'
<1> SUFFICES ASSUME IInv, Quit PROVE IInv'
  OBVIOUS
<1>1. ExecOK' /\ LatestOK' /\ ~run'.current /\ (Waits(queue') \/ stopping')
  <2> DEFINE o == Operation("cleanup")
  <2>1. o \in Operations /\ o.current
    BY DEF Operation, Operations, Tunnels
  <2>2. /\ queue' = Append(Overtake(queue), o)
        /\ run' = [run EXCEPT !.current = FALSE] /\ UNCHANGED at
    BY DEF Quit
  <2>3. /\ stopping' <=> want' = "quit"
        /\ o.op = "connect" => o.to = want' /\ ~stopping'
    BY DEF IInv, LatestOK, Operation, Tunnels, Quit
  <2> HIDE DEF o
  <2>4. ExecOK' /\ LatestOK' /\ ~run'.current /\ (o.op \in {"connect", "disconnect"} => Waits(queue'))
    BY <2>1, <2>2, <2>3, QueueOvertaken DEF IInv, TypeOK
  <2>5. o.op \in {"connect", "disconnect"} \/ stopping'
    BY DEF o, Operation, Quit
  <2>6. QED
    BY <2>4, <2>5
<1>2. ServicesOK' /\ OneTunnel'
  BY DEF IInv, TypeOK, ServicesOK, OneTunnel, Other, Quit
<1>3. AnnouncedOK'
  <2>1. UNCHANGED <<owed, active, at>>
    BY DEF Quit
  <2>2. run'.op = run.op
    BY DEF IInv, TypeOK, ExecOK, Operations, Quit
  <2>3. QED
    BY <1>1, <2>1, <2>2 DEF IInv, AnnouncedOK
<1>4. AnnouncedIsQueued'
  BY <1>1 DEF AnnouncedIsQueued, Waits
<1>7. Core'
  BY <1>1, <1>2, <1>3, <1>4 DEF Core
<1>8. IntentOK' /\ RestOK'
  BY DEF IInv, TypeOK, IntentOK, RestOK, intent, startup, routing, quit, Quit
<1>9. QED
  BY <1>7, <1>8 DEF IInv, TypeOK, Core

(* An error is to be dismissed. *)
LEMMA RequestDismissStep == IInv /\ RequestDismiss => IInv' /\ Ends
<1> SUFFICES ASSUME IInv, RequestDismiss PROVE IInv' /\ Ends
  OBVIOUS
<1>1. ExecOK' /\ LatestOK' /\ (Waits(queue) => Waits(queue'))
  <2>1. Operation("dismiss") \in Operations /\ Operation("dismiss").op # "connect"
    BY DEF Operation, Operations, Tunnels
  <2>2. queue' = Append(queue, Operation("dismiss")) /\ UNCHANGED <<want, stopping, run, at>>
    BY DEF RequestDismiss, intent
  <2>3. QED
    BY <2>1, <2>2, QueueJoined DEF IInv, TypeOK
<1>2. ServicesOK' /\ OneTunnel'
  BY DEF IInv, TypeOK, ServicesOK, OneTunnel, Other, RequestDismiss
<1>3. AnnouncedOK'
  BY DEF IInv, AnnouncedOK, RequestDismiss
<1>4. AnnouncedIsQueued'
  BY <1>1 DEF IInv, AnnouncedIsQueued, Waits, RequestDismiss, intent
<1>7. Core'
  BY <1>1, <1>2, <1>3, <1>4 DEF Core
<1>8. IntentOK' /\ RestOK'
  BY
     DEF IInv, TypeOK, IntentOK, RestOK, intent, startup, routing, quit,
         RequestDismiss
<1>9. Ends
  BY DEF Ends, RequestDismiss, intent
<1> QED
  BY <1>7, <1>8, <1>9 DEF IInv, TypeOK, Core

(* A routing change is queued. *)
LEMMA QueueRoutingStep == IInv /\ QueueRouting => IInv' /\ Ends
<1> SUFFICES ASSUME IInv, QueueRouting PROVE IInv' /\ Ends
  OBVIOUS
<1>1. ExecOK' /\ LatestOK' /\ (Waits(queue) => Waits(queue'))
  <2>1. Operation("routing") \in Operations /\ Operation("routing").op # "connect"
    BY DEF Operation, Operations, Tunnels
  <2>2. queue' = Append(queue, Operation("routing")) /\ UNCHANGED <<want, stopping, run, at>>
    BY DEF QueueRouting, intent
  <2>3. QED
    BY <2>1, <2>2, QueueJoined DEF IInv, TypeOK
<1>2. ServicesOK' /\ OneTunnel'
  BY DEF IInv, TypeOK, ServicesOK, OneTunnel, Other, QueueRouting
<1>3. AnnouncedOK'
  BY DEF IInv, AnnouncedOK, QueueRouting
<1>4. AnnouncedIsQueued'
  BY <1>1 DEF IInv, AnnouncedIsQueued, Waits, QueueRouting, intent
<1>7. Core'
  BY <1>1, <1>2, <1>3, <1>4 DEF Core
<1>8. IntentOK' /\ RestOK'
  BY CoordinatorAssumption
     DEF IInv, TypeOK, IntentOK, RestOK, intent, startup, routing, quit,
         QueueRouting
<1>9. Ends
  BY DEF Ends, QueueRouting, intent
<1> QED
  BY <1>7, <1>8, <1>9 DEF IInv, TypeOK, Core

(* A routing change is saved. *)
LEMMA SaveStep == IInv /\ Save => IInv' /\ Ends
<1> SUFFICES ASSUME IInv, Save PROVE IInv' /\ Ends
  OBVIOUS
<1>1. /\ ExecOK' /\ LatestOK'
      /\ run'.op = run.op /\ run'.current = run.current /\ (Waits(queue) => Waits(queue'))
  BY QueueStale DEF IInv, TypeOK, Save, intent
<1>2. ServicesOK' /\ OneTunnel'
  BY DEF IInv, TypeOK, ServicesOK, OneTunnel, Other, Save
<1>3. AnnouncedOK'
  BY <1>1 DEF IInv, AnnouncedOK, Save
<1>4. AnnouncedIsQueued'
  BY <1>1 DEF IInv, AnnouncedIsQueued, Waits, Save, intent
<1>7. Core'
  BY <1>1, <1>2, <1>3, <1>4 DEF Core
<1>6. saves' \in 0..MaxSaves
  BY CoordinatorAssumption DEF IInv, TypeOK, RestOK, Save
<1>8. IntentOK' /\ RestOK'
  BY <1>6 DEF IInv, TypeOK, IntentOK, RestOK, intent, startup, routing, quit, Save
<1>9. Ends
  BY DEF Ends, Save, intent
<1> QED
  BY <1>7, <1>8, <1>9 DEF IInv, TypeOK, Core

(* The invariant holds at the start. *)
LEMMA InvInit == Init => IInv
<1> SUFFICES ASSUME Init PROVE IInv
  OBVIOUS
<1>1. queue \in Seq(Operations) /\ Len(queue) = 0
  BY EmptySeq DEF Init
<1>2. TypeOK
  <2>1. ExecOK
    BY <1>1, NoOperationFacts DEF Init, ExecOK, Awaits
  <2>2. IntentOK /\ ServicesOK
    BY DEF Init, IntentOK, ServicesOK, Tunnels
  <2>3. saves \in 0..MaxSaves
    BY CoordinatorAssumption DEF Init
  <2>4. RestOK
    BY <2>3 DEF Init, RestOK
  <2>5. QED
    BY <2>1, <2>2, <2>4 DEF TypeOK
<1>3. OneTunnel
  BY DEF Init, OneTunnel, Other, Tunnels, Live
<1>4. LatestOK
  BY <1>1, NoOperationFacts DEF Init, LatestOK, Latest
<1>5. AnnouncedOK /\ AnnouncedIsQueued
  BY DEF Init, AnnouncedOK, AnnouncedIsQueued
<1>6. QED
  BY <1>2, <1>3, <1>4, <1>5 DEF IInv

(* Every step keeps it. *)
LEMMA InvStep == IInv /\ [Next]_vars => IInv'
  BY BeginStep, GiveUpStep, ConnectReplacesStep, ConnectStartsStep, DisconnectStep,
     DismissStep, ApplyRoutingStep, DropSessionStep, NothingToDropStep, DisposeStep,
     CleanupEndsStep, ReplacedStep, ConnectedStep, ConnectRejectsStep,
     RememberedStep,
     DisconnectedStep, DisconnectRejectsStep, RoutingUpdatedStep, ClearedStep,
     DisposedStep, RequestConnectStep, RequestDisconnectStep, RequestDismissStep,
     SaveStep, QuitStep, QueueRoutingStep, ServicesCreatedStep, SkipAutoConnectStep,
     AutoConnectStep, ServiceFailsStep, DeadlineStep, ExitStep, StutterStep
  DEF Next, Runs, Answered, User, Startup

(* The invariant always holds. *)
LEMMA Invariant == Spec => []IInv
  BY InvInit, InvStep, PTL DEF Spec

-----------------------------------------------------------------------------
(* The theorems *)

(* TypeOK: every variable of the coordinator, of main and of its services keeps to
   its values, with as many operations queued as there may be. *)
THEOREM TypeCorrect == Spec => []TypeOK
<1>1. IInv => TypeOK
  BY DEF IInv
<1>2. QED
  BY <1>1, Invariant, PTL

(* OneTunnel: only the active service has a session, whichever intents overtake
   which and whichever calls reject. *)
THEOREM OnlyOneTunnel == Spec => []OneTunnel
<1>1. IInv => OneTunnel
  BY DEF IInv
<1>2. QED
  BY <1>1, Invariant, PTL

(* AnnouncedIsQueued: a session that beginDisconnect told to end ahead of the queue
   always has an operation to come that calls its service. *)
THEOREM AnnouncedIsNotForgotten == Spec => []AnnouncedIsQueued
<1>1. IInv => AnnouncedIsQueued
  BY DEF IInv
<1>2. QED
  BY <1>1, Invariant, PTL

(* Both: whatever is queued, overtaken or rejected. *)
THEOREM IntentsAreNeverMixedUp == Spec => []IntentsAreKept
<1>1. IInv => IntentsAreKept
  BY DEF IInv, IntentsAreKept
<1>2. QED
  BY <1>1, Invariant, PTL

-----------------------------------------------------------------------------
(* Main implements LatestIntent *)

Running == {t \in Tunnels : svc[t] \in Live}

(* Steps that keep the intent and in which sessions only end. *)
EndingNext ==
  \/ Begin \/ GiveUp \/ ConnectReplaces \/ Disconnect \/ Dismiss
  \/ ApplyRouting \/ DropSession \/ NothingToDrop \/ Dispose \/ CleanupEnds
  \/ Connected \/ ConnectRejects \/ Remembered \/ Disconnected
  \/ DisconnectRejects \/ RoutingUpdated \/ Cleared \/ Disposed
  \/ RequestDismiss \/ Save \/ QueueRouting \/ ServicesCreated \/ SkipAutoConnect
  \/ ServiceFails \/ Deadline \/ Exit \/ UNCHANGED vars

(* They are a Stop of LatestIntent. *)
LEMMA EndsIsStop == Ends => Intents!Next
<1> SUFFICES ASSUME Ends PROVE Intents!Next
  OBVIOUS
<1> DEFINE s == {t \in Tunnels : svc'[t] \notin Live}
<1>1. s \in SUBSET Tunnels /\ Running' = Running \ s
  BY DEF Running, Ends
<1>2. \E d \in SUBSET Tunnels : Running' = Running \ d
  BY <1>1
<1>3. \E d \in SUBSET Tunnels : Intents!Stop(d)
  BY <1>2 DEF Intents!Stop, Running, Ends
<1>4. QED
  BY <1>3 DEF Intents!Next

(* A session starts in the place of every other, for the latest intent. *)
LEMMA ConnectIsStart ==
  ASSUME UNCHANGED <<want, by>>, want \in Tunnels, Running' = {want}
  PROVE  Intents!Next
<1>1. \E t \in Tunnels : want = t /\ Running' = {t}
  OBVIOUS
<1>2. \E t \in Tunnels : Intents!Start(t)
  BY <1>1 DEF Intents!Start, Running
<1>3. QED
  BY <1>2 DEF Intents!Next

(* An intent is accepted; the sessions there are go on, or have begun to end. *)
LEMMA AcceptIsAsk ==
  ASSUME Running' = Running, want # "quit", by' = "user",
         want' \in Tunnels \cup {"nothing", "quit"}
  PROVE  Intents!Next
<1>1. \E w \in Tunnels \cup {"nothing", "quit"} : want' = w
  OBVIOUS
<1>2. \E w \in Tunnels \cup {"nothing", "quit"} : Intents!Ask(w)
  BY <1>1 DEF Intents!Ask, Running
<1>3. QED
  BY <1>2 DEF Intents!Next

(* Every step is a step of LatestIntent or leaves its variables alone. *)
LEMMA IntentStep == IInv /\ [Next]_vars => [Intents!Next]_(Intents!vars)
<1> SUFFICES ASSUME IInv, [Next]_vars PROVE Intents!Next
  OBVIOUS
<1>1. CASE EndingNext
  <2>1. Ends
    BY <1>1, BeginStep, GiveUpStep, ConnectReplacesStep, DisconnectStep,
       DismissStep, ApplyRoutingStep, DropSessionStep, NothingToDropStep,
       DisposeStep,
       CleanupEndsStep, ConnectedStep, ConnectRejectsStep, RememberedStep,
       DisconnectedStep, DisconnectRejectsStep, RoutingUpdatedStep, ClearedStep,
       DisposedStep, RequestDismissStep, SaveStep, QueueRoutingStep,
       ServicesCreatedStep,
       SkipAutoConnectStep, ServiceFailsStep, DeadlineStep, ExitStep, StutterStep
    DEF EndingNext
  <2>2. QED
    BY <2>1, EndsIsStop
<1>2. CASE ConnectStarts
  <2>1. UNCHANGED <<want, by>> /\ active = run.to /\ svc' = [svc EXCEPT ![active] = "on"]
    BY <1>2 DEF ConnectStarts, CallConnect, NeedsReplacing, intent
  <2>2. want = run.to
    BY <1>2 DEF IInv, LatestOK, Latest, ConnectStarts, Proceeds
  <2>3. active \in Tunnels /\ Running' = {active}
    BY <2>1 DEF IInv, TypeOK, ServicesOK, OneTunnel, Other, Tunnels, Live, Running
  <2>4. QED
    BY <2>1, <2>2, <2>3, ConnectIsStart
<1>3. CASE Replaced /\ run.current
  <2>1. UNCHANGED <<want, by>> /\ svc' = [Ended EXCEPT ![run.to] = "on"]
    BY <1>3 DEF Replaced, CallConnect, intent
  <2>2. want = run.to
    BY <1>3 DEF IInv, LatestOK, Latest, AnnouncedOK, Replaced
  <2>3. run.to \in Tunnels
    BY DEF IInv, TypeOK, ExecOK, Operations
  <2>4. Running' = {run.to}
    BY <2>1, <2>3
       DEF IInv, TypeOK, ServicesOK, OneTunnel, Other, Tunnels, Live, Running, Ended
  <2>5. QED
    BY <2>1, <2>2, <2>3, <2>4, ConnectIsStart
<1>4. CASE Replaced /\ ~run.current
  <2>1. Ends
    BY <1>4, CallFacts DEF IInv, TypeOK, Replaced, Ends, intent
  <2>2. QED
    BY <2>1, EndsIsStop
<1>5. CASE \E t \in Tunnels, r \in BOOLEAN : RequestConnect(t, r)
  <2>1. Running' = Running /\ want # "quit" /\ by' = "user" /\ want' \in Tunnels
    BY <1>5 DEF IInv, LatestOK, RequestConnect, Running
  <2>2. QED
    BY <2>1, AcceptIsAsk
<1>6. CASE \E t \in Tunnels : AutoConnect(t)
  <2>1. PICK t \in Tunnels : AutoConnect(t)
    BY <1>6
  <2>2. Intents!AskAtLaunch(t)
    BY <2>1 DEF AutoConnect, Intents!AskAtLaunch
  <2>3. QED
    BY <2>2 DEF Intents!Next
<1>7. CASE RequestDisconnect
  <2>1. want # "quit" /\ by' = "user" /\ want' = "nothing"
    BY <1>7 DEF IInv, LatestOK, RequestDisconnect
  <2>2. svc' = svc \/ svc' = Ending
    BY <1>7 DEF RequestDisconnect
  <2>3. Running' = Running
    BY <2>2 DEF IInv, TypeOK, ServicesOK, Ending, Live, Running
  <2>4. QED
    BY <2>1, <2>3, AcceptIsAsk
<1>8. CASE Quit
  <2>1. Running' = Running /\ want # "quit" /\ by' = "user" /\ want' = "quit"
    BY <1>8 DEF IInv, LatestOK, Quit, Running
  <2>2. QED
    BY <2>1, AcceptIsAsk
<1>9. QED
  BY <1>1, <1>2, <1>3, <1>4, <1>5, <1>6, <1>7, <1>8
  DEF Next, Runs, Answered, User, Startup, EndingNext

(* LatestIntentWins: main implements LatestIntent, for queues of every length.  A
   session starts only for the latest intent, in the place of every other, and the
   automatic Connect of a launch never overrides a user or a quit. *)
THEOREM ImplementsLatestIntent == Spec => LatestIntentWins
<1>1. Init => Intents!Init
  BY DEF Init, Intents!Init, Live, Tunnels
<1>2. QED
  BY <1>1, Invariant, IntentStep, PTL DEF Spec, LatestIntentWins, Intents!Spec

(***************************************************************************)
(* At rest: once the queue is empty the machine is as the last intent asked *)
(* and runs on the routing that is saved, and a quit that completed leaves  *)
(* nothing.  The three parts have an inductive invariant each, which rests  *)
(* on IInv.                                                                 *)
(***************************************************************************)
-----------------------------------------------------------------------------
(* The inductive invariants *)

(* An intent that is still the latest waits, or runs and has not come further than
   its call of disconnect. *)
Awaited(op) == \E i \in 1..Len(queue) : queue[i].current /\ queue[i].op = op

Coming(op, call) ==
  \/ Awaited(op)
  \/ run.current /\ run.op = op /\ at \in {"ready", call}

(* What was last asked has been done, has rejected or is still to be done. *)
IntentServed ==
  ~failed =>
    /\ want = "nothing" => svc[active] \notin Live \/ Coming("disconnect", "disconnect")
    /\ want \in Tunnels => active = want \/ Coming("connect", "replace")

(* A change of the routing waits to be queued, or is queued behind place n. *)
ChangeBehind(n) ==
  \/ saves > 0
  \/ \E j \in 1..Len(queue) : j > n /\ queue[j].op = "routing"

ChangeComes == ChangeBehind(0) \/ (at = "ready" /\ run.op = "routing")

(* A Connect that captured the routing saved now has something to route; one that
   captured another has the change behind it. *)
Captured(o, n) == o.op = "connect" => IF o.fresh THEN targets ELSE ChangeBehind(n)

(* The session runs on the routing that is saved, or a change is to come. *)
RoutingServed ==
  /\ ~stopping /\ svc[active] = "on" => ChangeComes \/ ((applied \/ applyFailed) /\ targets)
  /\ at = "update" => ~applyFailed
  /\ Captured(run, 0)
  /\ \A i \in 1..Len(queue) : Captured(queue[i], i)

AllOff == \A t \in Tunnels : svc[t] = "off"

(* The cleanup of a quit has disposed what there is, and nothing starts after it. *)
CleanupServed ==
  /\ \A i \in 1..Len(queue) : queue[i].op = "cleanup" => stopping
  /\ at \in {"dispose", "initialized"} => stopping /\ acquired # "used"
  /\ acquired = "no" => init = "creating"
  /\ at = "initialized" => AllOff
  /\ outcome = "completed" =>
       /\ stopping /\ init = "done" /\ acquired = "disposed" /\ AllOff
       /\ at \in {"idle", "ready", "dispose", "initialized"}

-----------------------------------------------------------------------------
(* The steps that leave the queue as it is *)

KeepsQueue ==
  \/ GiveUp \/ ConnectReplaces \/ ConnectStarts \/ Disconnect
  \/ ApplyRouting \/ DropSession \/ NothingToDrop \/ CleanupEnds
  \/ Answered \/ ServicesCreated \/ SkipAutoConnect \/ ServiceFails \/ Deadline \/ Exit
  \/ UNCHANGED vars

(* IntentServed, by the steps that leave the queue as it is. *)
LEMMA IntentKept ==
  ASSUME IInv, IntentServed, KeepsQueue
  PROVE  IntentServed'
<1> USE DEF IntentServed, Coming, Awaited, Live, IInv, TypeOK, ExecOK, Operations, ServicesOK,
           Tunnels, LatestOK, Latest, AnnouncedOK, NoOperation, Operation, intent
<1>1. CASE GiveUp
  BY <1>1 DEF GiveUp, Return
<1>2. CASE ConnectReplaces
  BY <1>2 DEF ConnectReplaces, Proceeds, NeedsReplacing, CallDisconnect, Ending
<1>3. CASE ConnectStarts
  BY <1>3 DEF ConnectStarts, Proceeds, NeedsReplacing, CallConnect
<1>4. CASE Disconnect
  BY <1>4 DEF Disconnect, Proceeds, CallDisconnect, Ending
<1>5. CASE ApplyRouting
  BY <1>5 DEF ApplyRouting, AppliesRouting
<1>6. CASE DropSession
  BY <1>6 DEF DropSession, AppliesRouting, CallDisconnect, Ending
<1>7. CASE NothingToDrop
  BY <1>7 DEF NothingToDrop, AppliesRouting, Return
<1>8. CASE CleanupEnds
  BY <1>8 DEF CleanupEnds, Return
<1>9. CASE Replaced
  BY <1>9 DEF Replaced, CallConnect, Ended, Return
<1>10. CASE Connected
  BY <1>10 DEF Connected, CallDisconnect, Ending, NotConnected
<1>11. CASE ConnectRejects
  BY <1>11 DEF ConnectRejects, NotConnected, Reject, Return
<1>12. CASE Remembered
  BY <1>12 DEF Remembered, Return
<1>13. CASE Disconnected
  BY <1>13 DEF Disconnected, Ended, Return
<1>14. CASE DisconnectRejects
  BY <1>14 DEF DisconnectRejects, Ended, Reject, Return
<1>15. CASE RoutingUpdated
  BY <1>15 DEF RoutingUpdated, Return
<1>16. CASE Cleared
  BY <1>16 DEF Cleared, Return
<1>17. CASE Disposed
  BY <1>17 DEF Disposed
<1>18. CASE ServicesCreated
  BY <1>18 DEF ServicesCreated
<1>19. CASE SkipAutoConnect
  BY <1>19 DEF SkipAutoConnect
<1>20. CASE ServiceFails
  BY <1>20 DEF ServiceFails
<1>21. CASE Deadline
  BY <1>21 DEF Deadline
<1>22. CASE Exit
  BY <1>22 DEF Exit
<1>23. CASE UNCHANGED vars
  BY <1>23 DEF vars, routing, startup, quit
<1>24. QED
  BY <1>1, <1>2, <1>3, <1>4, <1>5, <1>6, <1>7, <1>8, <1>9, <1>10, <1>11, <1>12,
     <1>13, <1>14, <1>15, <1>16, <1>17, <1>18, <1>19, <1>20, <1>21, <1>22, <1>23 DEF KeepsQueue, Answered

(* RoutingServed, by the steps that leave the queue as it is. *)
LEMMA RoutingKept ==
  ASSUME IInv, RoutingServed, KeepsQueue
  PROVE  RoutingServed'
<1> USE DEF RoutingServed, ChangeComes, ChangeBehind, Captured, IInv, TypeOK, ExecOK, Operations,
           ServicesOK, RestOK, Tunnels, AnnouncedOK, NoOperation, Operation, intent, routing
<1>1. CASE GiveUp
  BY <1>1 DEF GiveUp, Return
<1>2. CASE ConnectReplaces
  BY <1>2 DEF ConnectReplaces, Proceeds, NeedsReplacing, CallDisconnect, Ending
<1>3. CASE ConnectStarts
  BY <1>3 DEF ConnectStarts, Proceeds, NeedsReplacing, CallConnect
<1>4. CASE Disconnect
  BY <1>4 DEF Disconnect, Proceeds, CallDisconnect, Ending
<1>5. CASE ApplyRouting
  BY <1>5 DEF ApplyRouting, AppliesRouting
<1>6. CASE DropSession
  BY <1>6 DEF DropSession, AppliesRouting, CallDisconnect, Ending
<1>7. CASE NothingToDrop
  BY <1>7 DEF NothingToDrop, AppliesRouting, Return
<1>8. CASE CleanupEnds
  BY <1>8 DEF CleanupEnds, Return
<1>9. CASE Replaced /\ run.current
  BY <1>9 DEF Replaced, CallConnect, Ended
<1>10. CASE Replaced /\ ~run.current
  <2>1. svc'[active'] = "off"
    BY <1>10 DEF Replaced, Ended
  <2>2. UNCHANGED <<queue, saves, targets, stopping>> /\ at' = "idle" /\ run' = NoOperation
    BY <1>10 DEF Replaced, Return
  <2>3. QED
    BY <2>1, <2>2
<1>11. CASE Connected
  BY <1>11 DEF Connected, CallDisconnect, Ending, NotConnected
<1>12. CASE ConnectRejects
  BY <1>12 DEF ConnectRejects, NotConnected, Reject, Return
<1>13. CASE Remembered
  BY <1>13 DEF Remembered, Return
<1>14. CASE Disconnected
  BY <1>14 DEF Disconnected, Ended, Return
<1>15. CASE DisconnectRejects
  BY <1>15 DEF DisconnectRejects, Ended, Reject, Return
<1>16. CASE RoutingUpdated
  BY <1>16 DEF RoutingUpdated, Return
<1>17. CASE Cleared
  BY <1>17 DEF Cleared, Return
<1>18. CASE Disposed
  BY <1>18 DEF Disposed
<1>19. CASE ServicesCreated
  BY <1>19 DEF ServicesCreated
<1>20. CASE SkipAutoConnect
  BY <1>20 DEF SkipAutoConnect
<1>21. CASE ServiceFails
  BY <1>21 DEF ServiceFails
<1>22. CASE Deadline
  BY <1>22 DEF Deadline
<1>23. CASE Exit
  BY <1>23 DEF Exit
<1>24. CASE UNCHANGED vars
  BY <1>24 DEF vars, routing, startup, quit
<1>25. QED
  BY <1>1, <1>2, <1>3, <1>4, <1>5, <1>6, <1>7, <1>8, <1>9, <1>10, <1>11, <1>12,
     <1>13, <1>14, <1>15, <1>16, <1>17, <1>18, <1>19, <1>20, <1>21, <1>22, <1>23,
     <1>24 DEF KeepsQueue, Answered

(* CleanupServed, by the steps that leave the queue as it is. *)
LEMMA CleanupKept ==
  ASSUME IInv, CleanupServed, KeepsQueue
  PROVE  CleanupServed'
<1> USE DEF CleanupServed, AllOff, IInv, TypeOK, ExecOK, ServicesOK, RestOK, Tunnels, startup,
           quit, intent
<1>1. CASE GiveUp
  BY <1>1 DEF GiveUp, Return
<1>2. CASE ConnectReplaces
  BY <1>2 DEF ConnectReplaces, Proceeds, NeedsReplacing, CallDisconnect, Ending
<1>3. CASE ConnectStarts
  BY <1>3 DEF ConnectStarts, Proceeds, NeedsReplacing, CallConnect
<1>4. CASE Disconnect
  BY <1>4 DEF Disconnect, Proceeds, CallDisconnect, Ending
<1>5. CASE ApplyRouting
  BY <1>5 DEF ApplyRouting, AppliesRouting
<1>6. CASE DropSession
  BY <1>6 DEF DropSession, AppliesRouting, CallDisconnect, Ending
<1>7. CASE NothingToDrop
  BY <1>7 DEF NothingToDrop, AppliesRouting, Return
<1>8. CASE CleanupEnds
  BY <1>8 DEF CleanupEnds, Return
<1>9. CASE Replaced
  BY <1>9 DEF Replaced, CallConnect, Ended, Return
<1>10. CASE Connected
  BY <1>10 DEF Connected, CallDisconnect, Ending, NotConnected
<1>11. CASE ConnectRejects
  BY <1>11 DEF ConnectRejects, NotConnected, Reject, Return
<1>12. CASE Remembered
  BY <1>12 DEF Remembered, Return
<1>13. CASE Disconnected
  BY <1>13 DEF Disconnected, Ended, Return
<1>14. CASE DisconnectRejects
  BY <1>14 DEF DisconnectRejects, Ended, Reject, Return
<1>15. CASE RoutingUpdated
  BY <1>15 DEF RoutingUpdated, Return
<1>16. CASE Cleared
  BY <1>16 DEF Cleared, Return
<1>17. CASE Disposed
  BY <1>17 DEF Disposed
<1>18. CASE ServicesCreated
  BY <1>18 DEF ServicesCreated
<1>19. CASE SkipAutoConnect
  BY <1>19 DEF SkipAutoConnect
<1>20. CASE ServiceFails
  BY <1>20 DEF ServiceFails
<1>21. CASE Deadline
  BY <1>21 DEF Deadline
<1>22. CASE Exit
  BY <1>22 DEF Exit
<1>23. CASE UNCHANGED vars
  BY <1>23 DEF vars, routing, startup, quit
<1>24. QED
  BY <1>1, <1>2, <1>3, <1>4, <1>5, <1>6, <1>7, <1>8, <1>9, <1>10, <1>11, <1>12,
     <1>13, <1>14, <1>15, <1>16, <1>17, <1>18, <1>19, <1>20, <1>21, <1>22, <1>23 DEF KeepsQueue, Answered

-----------------------------------------------------------------------------
(* The steps that change the queue *)

(* The first operation leaves: the others move up by one place. *)
LEMMA Taken ==
  ASSUME ExecOK, queue # <<>>, queue' = Tail(queue)
  PROVE  /\ Head(queue) = queue[1] /\ Head(queue) \in Operations
         /\ Len(queue) \in Nat \ {0} /\ Len(queue') = Len(queue) - 1
         /\ \A i \in 1..Len(queue') : i + 1 \in 1..Len(queue) /\ queue'[i] = queue[i + 1]
         /\ \A i \in 1..Len(queue) : i = 1 \/ (i - 1 \in 1..Len(queue') /\ queue[i] = queue'[i - 1])
  BY TailFacts DEF ExecOK

(* A routing change that is behind place n of the queue is behind place n - 1 of
   what is left. *)
LEMMA ChangeMovesUp ==
  ASSUME ExecOK, queue # <<>>, queue' = Tail(queue), saves' = saves, saves \in Nat,
         NEW n \in Nat, n > 0, ChangeBehind(n)
  PROVE  ChangeBehind(n - 1)'
<1>1. CASE saves > 0
  BY <1>1 DEF ChangeBehind
<1>2. CASE \E j \in 1..Len(queue) : j > n /\ queue[j].op = "routing"
  <2>1. PICK j \in 1..Len(queue) : j > n /\ queue[j].op = "routing"
    BY <1>2
  <2>2. j - 1 \in 1..Len(queue') /\ queue'[j - 1].op = "routing"
    BY <2>1, Taken
  <2>3. j - 1 > n - 1
    BY <2>1, Taken
  <2>4. QED
    BY <2>2, <2>3 DEF ChangeBehind
<1>3. QED
  BY <1>1, <1>2 DEF ChangeBehind

(* A change is still to come once the first operation has left, unless it was the
   first. *)
LEMMA ChangeStays ==
  ASSUME ExecOK, queue # <<>>, queue' = Tail(queue), saves' = saves, saves \in Nat,
         ChangeBehind(0)
  PROVE  ChangeBehind(0)' \/ Head(queue).op = "routing"
<1>1. CASE saves > 0
  BY <1>1 DEF ChangeBehind
<1>2. CASE \E j \in 1..Len(queue) : j > 0 /\ queue[j].op = "routing"
  <2>1. PICK j \in 1..Len(queue) : queue[j].op = "routing"
    BY <1>2
  <2>2. CASE j = 1
    BY <2>1, <2>2, Taken
  <2>3. CASE j # 1
    <3>1. j - 1 \in 1..Len(queue') /\ queue'[j - 1].op = "routing" /\ j - 1 > 0
      BY <2>1, <2>3, Taken
    <3>2. QED
      BY <3>1 DEF ChangeBehind
  <2>4. QED
    BY <2>2, <2>3
<1>3. QED
  BY <1>1, <1>2 DEF ChangeBehind

(* What the operations that are left captured still holds, and what the first one
   captured holds of it when it runs. *)
LEMMA CapturedMovesUp ==
  ASSUME ExecOK, queue # <<>>, queue' = Tail(queue), UNCHANGED <<saves, targets>>,
         saves \in Nat, \A i \in 1..Len(queue) : Captured(queue[i], i)
  PROVE  /\ \A i \in 1..Len(queue') : Captured(queue[i], i)'
         /\ Head(queue).op = "connect" =>
              IF Head(queue).fresh THEN targets' ELSE ChangeBehind(0)'
<1>1. ASSUME NEW i \in 1..Len(queue') PROVE Captured(queue[i], i)'
  <2>1. i + 1 \in 1..Len(queue) /\ queue'[i] = queue[i + 1] /\ i \in Nat
    BY Taken
  <2>2. Captured(queue[i + 1], i + 1)
    BY <2>1
  <2>3. ChangeBehind(i + 1) => ChangeBehind(i)'
    <3>1. i + 1 \in Nat /\ i + 1 > 0 /\ (i + 1) - 1 = i
      BY <2>1
    <3>2. ChangeBehind(i + 1) => ChangeBehind((i + 1) - 1)'
      BY <3>1, ChangeMovesUp
    <3>3. QED
      BY <3>1, <3>2
  <2>4. QED
    BY <2>1, <2>2, <2>3 DEF Captured
<1>2. Captured(Head(queue), 1)
  BY Taken
<1>3. ChangeBehind(1) => ChangeBehind(0)'
  <2>1. ChangeBehind(1) => ChangeBehind(1 - 1)'
    BY ChangeMovesUp
  <2>2. QED
    BY <2>1
<1>4. QED
  BY <1>1, <1>2, <1>3 DEF Captured

(* An intent that waits is still there once the first operation has left, unless
   it was the first. *)
LEMMA AwaitedMovesUp ==
  ASSUME ExecOK, queue # <<>>, queue' = Tail(queue), NEW op, Awaited(op)
  PROVE  Awaited(op)' \/ (Head(queue).current /\ Head(queue).op = op)
<1>1. PICK i \in 1..Len(queue) : queue[i].current /\ queue[i].op = op
  BY DEF Awaited
<1>2. CASE i = 1
  BY <1>1, <1>2, Taken
<1>3. CASE i # 1
  <2>1. i - 1 \in 1..Len(queue') /\ queue'[i - 1] = queue[i]
    BY <1>3, Taken
  <2>2. QED
    BY <1>1, <2>1 DEF Awaited
<1>4. QED
  BY <1>2, <1>3

(* An operation enters behind the others, which may be overtaken by it or lose
   what they captured. *)
Entered(q, o) ==
  /\ Len(q) = Len(queue) /\ o \in Operations /\ queue' = Append(q, o)
  /\ q \in Seq(Operations)
  /\ \A i \in 1..Len(queue) : q[i].op = queue[i].op /\ q[i].fresh = queue[i].fresh

LEMMA EnteredFacts ==
  ASSUME ExecOK, NEW q, NEW o, Entered(q, o)
  PROVE  /\ Len(queue) \in Nat /\ Len(queue') = Len(queue) + 1
         /\ queue'[Len(queue) + 1] = o
         /\ \A i \in 1..Len(queue) : queue'[i] = q[i]
  BY AppendFacts DEF Entered, ExecOK

(* Nothing a waiting Connect captured is lost when an operation enters. *)
LEMMA CapturedStays ==
  ASSUME ExecOK, saves \in Nat, NEW q, NEW o, Entered(q, o), targets' = targets,
         saves' = saves \/ o.op = "routing",
         o.op = "connect" => o.fresh /\ targets,
         \A i \in 1..Len(queue) : Captured(queue[i], i)
  PROVE  /\ \A i \in 1..Len(queue') : Captured(queue[i], i)'
         /\ ChangeBehind(0) => ChangeBehind(0)'
<1>1. ASSUME NEW n \in 0..Len(queue), ChangeBehind(n)
      PROVE  ChangeBehind(n)'
  <2>1. CASE saves > 0 /\ saves' = saves
    BY <2>1 DEF ChangeBehind
  <2>2. CASE o.op = "routing"
    <3>1. Len(queue) + 1 \in 1..Len(queue') /\ Len(queue) + 1 > n
      BY EnteredFacts
    <3>2. QED
      BY <2>2, <3>1, EnteredFacts DEF ChangeBehind
  <2>3. CASE \E j \in 1..Len(queue) : j > n /\ queue[j].op = "routing"
    BY <2>3, EnteredFacts DEF ChangeBehind, Entered
  <2>4. QED
    BY <1>1, <2>1, <2>2, <2>3 DEF ChangeBehind
<1>2. ASSUME NEW i \in 1..Len(queue') PROVE Captured(queue[i], i)'
  <2>1. CASE i \in 1..Len(queue)
    <3>1. queue'[i].op = queue[i].op /\ queue'[i].fresh = queue[i].fresh
      BY <2>1, EnteredFacts DEF Entered
    <3>2. Captured(queue[i], i) /\ i \in 0..Len(queue)
      BY <2>1, EnteredFacts
    <3>3. QED
      BY <1>1, <3>1, <3>2 DEF Captured
  <2>2. CASE i = Len(queue) + 1
    BY <2>2, EnteredFacts DEF Captured
  <2>3. QED
    BY <2>1, <2>2, EnteredFacts
<1>3. ChangeBehind(0) => ChangeBehind(0)'
  <2>1. 0 \in 0..Len(queue)
    BY EnteredFacts
  <2>2. QED
    BY <1>1, <2>1
<1>4. QED
  BY <1>2, <1>3

(* The first operation begins, or returns at once when it is an overtaken intent. *)
LEMMA BeginServes ==
  ASSUME IInv, IntentServed, RoutingServed, CleanupServed, Begin
  PROVE  IntentServed' /\ RoutingServed' /\ CleanupServed'
<1>1. /\ ExecOK /\ queue # <<>> /\ queue' = Tail(queue) /\ saves \in Nat
      /\ UNCHANGED <<want, stopping, failed, active, svc, saves, targets, applied,
                     applyFailed, acquired, outcome>>
      /\ at = "idle" /\ at' \in {"idle", "ready"}
  BY DEF Begin, IInv, TypeOK, RestOK, intent, routing, quit
<1>2. \/ run' = run /\ at' = at /\ Head(queue).op # "routing" /\ ~Head(queue).current
      \/ run' = Head(queue) /\ at' = "ready"
  BY DEF Begin
<1>3. IntentServed'
  <2>1. ASSUME NEW op, NEW call, Coming(op, call) PROVE Coming(op, call)' \/ call = "idle"
    <3>1. CASE Awaited(op)
      BY <1>1, <1>2, <3>1, AwaitedMovesUp DEF Coming
    <3>2. CASE ~Awaited(op)
      BY <1>1, <2>1, <3>2 DEF Coming
    <3>3. QED
      BY <3>1, <3>2
  <2>2. /\ Coming("disconnect", "disconnect") => Coming("disconnect", "disconnect")'
        /\ Coming("connect", "replace") => Coming("connect", "replace")'
    BY <2>1
  <2>3. QED
    BY <1>1, <2>2 DEF IntentServed
<1>4. RoutingServed'
  <2>1. /\ \A i \in 1..Len(queue') : Captured(queue[i], i)'
        /\ Head(queue).op = "connect" =>
             IF Head(queue).fresh THEN targets' ELSE ChangeBehind(0)'
    BY <1>1, CapturedMovesUp DEF RoutingServed
  <2>2. ASSUME ChangeBehind(0)
        PROVE  ChangeComes'
    BY <1>1, <1>2, <2>2, ChangeStays DEF ChangeComes
  <2>3. Captured(run, 0)'
    <3>1. CASE run' = run
      <4>1. Captured(run, 0) /\ (run.op = "connect" => run.fresh \/ ChangeBehind(0))
        BY DEF RoutingServed, Captured
      <4>2. QED
        BY <1>1, <1>2, <3>1, <4>1, <2>2 DEF Captured, ChangeComes
    <3>2. CASE run' = Head(queue)
      BY <2>1, <3>2 DEF Captured
    <3>3. QED
      BY <1>2, <3>1, <3>2
  <2>4. QED
    BY <1>1, <2>1, <2>2, <2>3 DEF RoutingServed, ChangeComes
<1>5. CleanupServed'
  <2>1. \A i \in 1..Len(queue') : queue'[i].op = "cleanup" => stopping'
    BY <1>1, Taken DEF CleanupServed
  <2>2. init = "creating" => init' = "creating"
    BY DEF Begin
  <2>3. init = "done" => init' = "done"
    BY DEF Begin
  <2>4. QED
    BY <1>1, <2>1, <2>2, <2>3 DEF CleanupServed, AllOff
<1>6. QED
  BY <1>3, <1>4, <1>5

(* The dismissal of an error begins: no session ends or begins by it. *)
LEMMA DismissServes ==
  ASSUME IInv, IntentServed, RoutingServed, CleanupServed, Dismiss
  PROVE  IntentServed' /\ RoutingServed' /\ CleanupServed'
<1>1. /\ ExecOK /\ queue # <<>> /\ queue' = Tail(queue) /\ saves \in Nat
      /\ UNCHANGED <<run, want, stopping, failed, active, saves, targets, applied,
                     applyFailed, acquired, init, outcome>>
      /\ at = "idle" /\ at' \in {"idle", "clear"} /\ Head(queue).op = "dismiss"
  BY DEF Dismiss, IInv, TypeOK, RestOK, intent, routing, quit, startup
<1>2. /\ svc'[active] = svc[active] \/ svc'[active] = "off"
      /\ AllOff => svc' = svc /\ at' = at
  BY DEF Dismiss, Ended, IInv, TypeOK, ServicesOK, Tunnels, AllOff
<1>3. IntentServed'
  <2>1. Awaited("disconnect") => Awaited("disconnect")'
    BY <1>1, AwaitedMovesUp
  <2>2. Awaited("connect") => Awaited("connect")'
    BY <1>1, AwaitedMovesUp
  <2>3. QED
    BY <1>1, <1>2, <2>1, <2>2 DEF IntentServed, Coming, Live
<1>4. RoutingServed'
  <2>1. \A i \in 1..Len(queue') : Captured(queue[i], i)'
    BY <1>1, CapturedMovesUp DEF RoutingServed
  <2>2. ChangeBehind(0) => ChangeBehind(0)'
    BY <1>1, ChangeStays
  <2>3. Captured(run, 0)'
    BY <1>1, <2>2 DEF RoutingServed, Captured
  <2>4. QED
    BY <1>1, <1>2, <2>1, <2>2, <2>3 DEF RoutingServed, ChangeComes
<1>5. CleanupServed'
  <2>1. \A i \in 1..Len(queue') : queue'[i].op = "cleanup" => stopping'
    BY <1>1, Taken DEF CleanupServed
  <2>2. QED
    BY <1>1, <1>2, <2>1 DEF CleanupServed, AllOff
<1>6. QED
  BY <1>3, <1>4, <1>5

(* The cleanup of the quit: no intent is awaited any more. *)
LEMMA DisposeServes ==
  ASSUME IInv, IntentServed, RoutingServed, CleanupServed, Dispose
  PROVE  IntentServed' /\ RoutingServed' /\ CleanupServed'
<1>1. /\ ExecOK /\ queue # <<>> /\ queue' = Tail(queue) /\ saves \in Nat
      /\ run' = Head(queue) /\ Head(queue).op = "cleanup" /\ at' = "dispose"
      /\ UNCHANGED <<want, stopping, failed, active, saves, targets, applied,
                     applyFailed, init, outcome>>
      /\ acquired' = IF acquired = "used" THEN "disposed" ELSE acquired
  BY DEF Dispose, IInv, TypeOK, RestOK, intent, routing, quit
<1>2. stopping /\ want = "quit"
  BY <1>1, Taken DEF CleanupServed, IInv, LatestOK
<1>3. IntentServed'
  BY <1>1, <1>2 DEF IntentServed, Tunnels
<1>4. RoutingServed'
  <2>1. \A i \in 1..Len(queue') : Captured(queue[i], i)'
    BY <1>1, CapturedMovesUp DEF RoutingServed
  <2>2. QED
    BY <1>1, <1>2, <2>1 DEF RoutingServed, Captured
<1>5. CleanupServed'
  <2>1. \A i \in 1..Len(queue') : queue'[i].op = "cleanup" => stopping'
    BY <1>1, <1>2
  <2>2. AllOff => AllOff'
    BY DEF Dispose, AllOff
  <2>3. QED
    BY <1>1, <1>2, <2>1, <2>2 DEF CleanupServed
<1>6. QED
  BY <1>3, <1>4, <1>5

(* An operation that enters leaves what the services do alone. *)
LEMMA EnteringServes ==
  ASSUME IInv, IntentServed, RoutingServed, CleanupServed,
         NEW q, NEW o, Entered(q, o), o.op = "connect" => o.fresh /\ targets,
         run' = run \/ run' = [run EXCEPT !.current = FALSE],
         UNCHANGED <<at, active, targets, applied, applyFailed, acquired, outcome>>,
         saves' = saves \/ o.op = "routing",
         svc' = svc \/ svc' = Ending,
         stopping => stopping', o.op = "cleanup" => stopping',
         init' = init \/ (init = "auto" /\ init' = "waiting")
  PROVE  RoutingServed' /\ CleanupServed'
<1>1. ExecOK /\ saves \in Nat /\ run \in Operations
  BY DEF IInv, TypeOK, RestOK, ExecOK
<1>2. run'.op = run.op /\ run'.fresh = run.fresh
  BY <1>1 DEF Operations
<1>3. svc'[active] = "on" => svc[active] = "on"
  BY DEF Ending, IInv, TypeOK, ServicesOK
<1>4. AllOff => AllOff'
  BY DEF Ending, AllOff, IInv, TypeOK, ServicesOK
<1>5. RoutingServed'
  <2>1. /\ \A i \in 1..Len(queue') : Captured(queue[i], i)'
        /\ ChangeBehind(0) => ChangeBehind(0)'
    BY <1>1, CapturedStays DEF RoutingServed
  <2>2. Captured(run, 0)'
    BY <1>2, <2>1 DEF RoutingServed, Captured
  <2>3. QED
    BY <1>2, <1>3, <2>1, <2>2 DEF RoutingServed, ChangeComes
<1>6. CleanupServed'
  <2>1. \A i \in 1..Len(queue') : queue'[i].op = "cleanup" => stopping'
    <3>1. ASSUME NEW i \in 1..Len(queue'), queue'[i].op = "cleanup" PROVE stopping'
      <4>1. CASE i \in 1..Len(queue)
        BY <1>1, <3>1, <4>1, EnteredFacts DEF Entered, CleanupServed
      <4>2. CASE i = Len(queue) + 1
        BY <1>1, <3>1, <4>2, EnteredFacts
      <4>3. QED
        BY <1>1, <4>1, <4>2, EnteredFacts
    <3>2. QED
      BY <3>1
  <2>2. QED
    BY <1>4, <2>1 DEF CleanupServed
<1>7. QED
  BY <1>5, <1>6

(* An intent overtakes the others and is the one that is awaited. *)
LEMMA OvertakingServes ==
  ASSUME IInv, NEW o \in Operations, queue' = Append(Overtake(queue), o)
  PROVE  Entered(Overtake(queue), o) /\ (o.current => Awaited(o.op)')
<1>1. Entered(Overtake(queue), o)
  BY OvertakeFacts DEF Entered, IInv, TypeOK, ExecOK
<1>2. o.current => Awaited(o.op)'
  BY <1>1, EnteredFacts DEF Awaited, IInv, TypeOK
<1>3. QED
  BY <1>1, <1>2

(* An intent is accepted, or the application quits: nothing but it is awaited now. *)
LEMMA RequestServes ==
  ASSUME IInv, IntentServed, RoutingServed, CleanupServed,
         \/ \E t \in Tunnels, r \in BOOLEAN : RequestConnect(t, r)
         \/ \E t \in Tunnels : AutoConnect(t)
         \/ RequestDisconnect
         \/ Quit
  PROVE  IntentServed' /\ RoutingServed' /\ CleanupServed'
<1>1. PICK o \in Operations :
        /\ queue' = Append(Overtake(queue), o) /\ run' = [run EXCEPT !.current = FALSE]
        /\ o.op = "connect" => o.fresh /\ targets
        /\ o.current
        /\ \/ want' \in Tunnels /\ o.op = "connect" /\ stopping' = stopping
           \/ want' = "nothing" /\ o.op = "disconnect" /\ stopping' = stopping
           \/ want' = "quit" /\ o.op = "cleanup" /\ stopping'
        /\ UNCHANGED <<at, active, targets, saves, applied, applyFailed, acquired, outcome>>
        /\ svc' = svc \/ svc' = Ending
        /\ init' = init \/ (init = "auto" /\ init' = "waiting")
  <2>1. CASE \E t \in Tunnels, r \in BOOLEAN : RequestConnect(t, r)
    <3>1. PICK t \in Tunnels, r \in BOOLEAN : RequestConnect(t, r)
      BY <2>1
    <3>2. [Operation("connect") EXCEPT !.to = t, !.restart = r] \in Operations
      BY DEF Operation, Operations, Tunnels
    <3>3. QED
      BY <3>1, <3>2 DEF RequestConnect, Accept, Operation, startup, routing, quit
  <2>2. CASE \E t \in Tunnels : AutoConnect(t)
    <3>1. PICK t \in Tunnels : AutoConnect(t)
      BY <2>2
    <3>2. [Operation("connect") EXCEPT !.to = t, !.auto = TRUE] \in Operations
      BY DEF Operation, Operations, Tunnels
    <3>3. QED
      BY <3>1, <3>2 DEF AutoConnect, Accept, Operation, routing, quit
  <2>3. CASE RequestDisconnect
    <3>1. Operation("disconnect") \in Operations
      BY DEF Operation, Operations, Tunnels
    <3>2. QED
      BY <2>3, <3>1 DEF RequestDisconnect, Accept, Operation, startup, routing, quit
  <2>4. CASE Quit
    <3>1. Operation("cleanup") \in Operations
      BY DEF Operation, Operations, Tunnels
    <3>2. QED
      BY <2>4, <3>1 DEF Quit, Operation, routing, quit
  <2>5. QED
    BY <2>1, <2>2, <2>3, <2>4
<1>2. Entered(Overtake(queue), o) /\ Awaited(o.op)'
  BY <1>1, OvertakingServes
<1>3. IntentServed'
  BY <1>1, <1>2 DEF IntentServed, Coming, Tunnels
<1>4. RoutingServed' /\ CleanupServed'
  BY <1>1, <1>2, EnteringServes
<1>5. QED
  BY <1>3, <1>4

(* The dismissal of an error and a saved change enter behind the others. *)
LEMMA JoiningServes ==
  ASSUME IInv, IntentServed, RoutingServed, CleanupServed, RequestDismiss \/ QueueRouting
  PROVE  IntentServed' /\ RoutingServed' /\ CleanupServed'
<1>1. PICK o \in Operations :
        /\ queue' = Append(queue, o) /\ o.op \in {"dismiss", "routing"}
        /\ saves' = saves \/ o.op = "routing"
        /\ UNCHANGED <<run, at, want, stopping, failed, active, svc, init, targets, applied,
                       applyFailed, acquired, outcome>>
  <2>1. Operation("dismiss") \in Operations /\ Operation("routing") \in Operations
    BY DEF Operation, Operations, Tunnels
  <2>2. CASE RequestDismiss
    BY <2>1, <2>2 DEF RequestDismiss, Operation, intent, startup, routing, quit
  <2>3. CASE QueueRouting
    BY <2>1, <2>3 DEF QueueRouting, Operation, intent, startup, quit
  <2>4. QED
    BY <2>2, <2>3
<1>2. Entered(queue, o)
  BY <1>1 DEF Entered, IInv, TypeOK, ExecOK
<1>3. IntentServed'
  <2>1. ASSUME NEW op, Awaited(op) PROVE Awaited(op)'
    BY <1>2, <2>1, EnteredFacts DEF Awaited, IInv, TypeOK
  <2>2. QED
    BY <1>1, <2>1 DEF IntentServed, Coming
<1>4. RoutingServed' /\ CleanupServed'
  BY <1>1, <1>2, EnteringServes
<1>5. QED
  BY <1>3, <1>4

(* A change is saved: it is to come, behind every operation there is. *)
LEMMA SaveServes ==
  ASSUME IInv, IntentServed, RoutingServed, CleanupServed, Save
  PROVE  IntentServed' /\ RoutingServed' /\ CleanupServed'
<1>1. /\ queue' = [i \in DOMAIN queue |-> [queue[i] EXCEPT !.fresh = FALSE]]
      /\ run' = [run EXCEPT !.fresh = FALSE] /\ saves' > 0
      /\ UNCHANGED <<at, want, stopping, failed, active, svc, init, acquired, outcome,
                     applyFailed>>
  BY DEF Save, IInv, TypeOK, RestOK, intent, startup, quit
<1>2. /\ Len(queue') = Len(queue)
      /\ \A i \in 1..Len(queue) :
           queue'[i].op = queue[i].op /\ queue'[i].current = queue[i].current /\ ~queue'[i].fresh
  BY <1>1, StaleFacts DEF IInv, TypeOK, ExecOK
<1>3. run'.op = run.op /\ run'.current = run.current /\ ~run'.fresh
  BY <1>1 DEF IInv, TypeOK, ExecOK, Operations
<1>4. IntentServed'
  BY <1>1, <1>2, <1>3 DEF IntentServed, Coming, Awaited
<1>5. RoutingServed'
  BY <1>1, <1>2, <1>3 DEF RoutingServed, ChangeComes, ChangeBehind, Captured
<1>6. CleanupServed'
  BY <1>1, <1>2 DEF CleanupServed, AllOff
<1>7. QED
  BY <1>4, <1>5, <1>6

-----------------------------------------------------------------------------
(* The theorem *)

RestInv == IInv /\ IntentServed /\ RoutingServed /\ CleanupServed

LEMMA RestInit == Init => RestInv
<1> SUFFICES ASSUME Init PROVE RestInv
  OBVIOUS
<1>1. IInv
  BY InvInit
<1>2. Len(queue) = 0
  BY DEF Init
<1>3. IntentServed
  BY DEF Init, IntentServed, Tunnels, Live
<1>4. RoutingServed
  BY <1>2 DEF Init, RoutingServed, Captured, NoOperation, Operation, Tunnels
<1>5. CleanupServed
  BY <1>2 DEF Init, CleanupServed
<1>6. QED
  BY <1>1, <1>3, <1>4, <1>5 DEF RestInv

LEMMA RestStep == RestInv /\ [Next]_vars => RestInv'
<1> SUFFICES ASSUME RestInv, [Next]_vars PROVE RestInv'
  OBVIOUS
<1>1. IInv'
  BY InvStep DEF RestInv
<1>2. CASE KeepsQueue
  BY <1>1, <1>2, IntentKept, RoutingKept, CleanupKept DEF RestInv
<1>3. CASE Begin
  BY <1>1, <1>3, BeginServes DEF RestInv
<1>4. CASE Dismiss
  BY <1>1, <1>4, DismissServes DEF RestInv
<1>5. CASE Dispose
  BY <1>1, <1>5, DisposeServes DEF RestInv
<1>6. CASE \/ \E t \in Tunnels, r \in BOOLEAN : RequestConnect(t, r)
           \/ \E t \in Tunnels : AutoConnect(t)
           \/ RequestDisconnect
           \/ Quit
  BY <1>1, <1>6, RequestServes DEF RestInv
<1>7. CASE RequestDismiss \/ QueueRouting
  BY <1>1, <1>7, JoiningServes DEF RestInv
<1>8. CASE Save
  BY <1>1, <1>8, SaveServes DEF RestInv
<1>9. QED
  BY <1>2, <1>3, <1>4, <1>5, <1>6, <1>7, <1>8
  DEF KeepsQueue, Next, Runs, Answered, User, Startup

LEMMA RestInvariant == Spec => []RestInv
  BY RestInit, RestStep, PTL DEF Spec

(* RestIsAsAsked: intents that come faster than main serves them leave the machine
   as the last one asked, for queues of every length: nothing is queued or running,
   so what was asked last has been done or has rejected. *)
THEOREM LastIntentIsDone == Spec => []RestIsAsAsked
<1>1. RestInv => RestIsAsAsked
  <2> SUFFICES ASSUME RestInv, Idle PROVE RestIsAsAsked
    BY DEF RestIsAsAsked
  <2>1. Len(queue) = 0 /\ at = "idle"
    BY DEF Idle
  <2>2. ~Coming("disconnect", "disconnect") /\ ~Coming("connect", "replace")
    BY <2>1 DEF Coming, Awaited
  <2>3. QED
    BY <2>2 DEF RestInv, IntentServed, RestIsAsAsked
<1>2. QED
  BY <1>1, RestInvariant, PTL

(* RoutingIsLatest: a session that is left alone runs on the routing that is saved
   and has something to route, however many changes were saved while it was
   connecting or being replaced. *)
THEOREM SessionHasSavedRouting == Spec => []RoutingIsLatest
<1>1. RestInv => RoutingIsLatest
  <2> SUFFICES ASSUME RestInv, Idle, saves = 0 PROVE RoutingIsLatest
    BY DEF RoutingIsLatest
  <2>1. Len(queue) = 0 /\ at = "idle" /\ ~stopping
    BY DEF Idle
  <2>2. ~ChangeComes
    BY <2>1 DEF ChangeComes, ChangeBehind
  <2>3. QED
    BY <2>1, <2>2 DEF RestInv, RoutingServed, RoutingIsLatest
<1>2. QED
  BY <1>1, RestInvariant, PTL

(* ExitIsClean: a quit whose cleanup completed leaves no session, and no service
   created behind its back, wherever it met the start of the application. *)
THEOREM CompletedQuitLeavesNothing == Spec => []ExitIsClean
<1>1. RestInv => ExitIsClean
  BY DEF RestInv, CleanupServed, AllOff, ExitIsClean
<1>2. QED
  BY <1>1, RestInvariant, PTL

(* RestsAsAsked: once the queue is empty, or the application has quit, everything is
   as it was last asked. *)
THEOREM EverythingRestsAsAsked == Spec => []RestsAsAsked
  BY LastIntentIsDone, SessionHasSavedRouting, CompletedQuitLeavesNothing, PTL
  DEF RestsAsAsked

=============================================================================
