--------------------------- MODULE MCHelperProofs ---------------------------
(***************************************************************************)
(* MCHelper's specification chooses one component and is a behaviour of it, *)
(* so what is proved of a component for every value of its constants holds  *)
(* of the composed specification wherever that component is the one chosen. *)
(***************************************************************************)
EXTENDS MCHelper, Sequences, FiniteSetTheorems, TLAPS

-----------------------------------------------------------------------------
(* The choice is made once *)

(* No step of the composed specification changes the component. *)
LEMMA ChosenOnce ==
  ASSUME NEW c, [Next]_vars
  PROVE  (which = c) <=> (which' = c)
BY DEF Next, vars

(* Where the adapter is chosen, the behaviour is one of TunAdapter. *)
LEMMA AdapterIsChosen ==
  which = "adapter" => (Init => Adapter!Init) /\ ([Next]_vars => [Adapter!Next]_Adapter!vars)
<1>1. ASSUME which = "adapter", Init PROVE Adapter!Init
  BY <1>1 DEF Init
<1>2. ASSUME which = "adapter", [Next]_vars PROVE [Adapter!Next]_Adapter!vars
  BY <1>2 DEF Next, vars, adapterVars, Adapter!vars, Adapter!loading, Adapter!locks, Adapter!pumps,
              Adapter!fate, Adapter!budget
<1>3. QED
  BY <1>1, <1>2

(* Where the owner table is chosen, the behaviour is one of OwnerTable. *)
LEMMA OwnerIsChosen ==
  which = "owner" => (Init => Owner!Init) /\ ([Next]_vars => [Owner!Next]_Owner!vars)
<1>1. ASSUME which = "owner", Init PROVE Owner!Init
  BY <1>1 DEF Init
<1>2. ASSUME which = "owner", [Next]_vars PROVE [Owner!Next]_Owner!vars
  BY <1>2 DEF Next, vars, ownerVars, Owner!vars
<1>3. QED
  BY <1>1, <1>2

(* Where the controller is chosen, the behaviour is one of NativeDataplane. *)
LEMMA HelperIsChosen ==
  which = "helper" => (Init => Helper!Init) /\ ([Next]_vars => [Helper!Next]_Helper!vars)
<1>1. ASSUME which = "helper", Init PROVE Helper!Init
  BY <1>1 DEF Init
<1>2. ASSUME which = "helper", [Next]_vars PROVE [Helper!Next]_Helper!vars
  BY <1>2 DEF Next, vars, helperVars, Helper!vars
<1>3. QED
  BY <1>1, <1>2

(* Where the service is chosen, the behaviour is one of ServiceIpc. *)
LEMMA ServiceIsChosen ==
  which = "service" => (Init => Service!Init) /\ ([Next]_vars => [Service!Next]_Service!vars)
<1>1. ASSUME which = "service", Init PROVE Service!Init
  BY <1>1 DEF Init
<1>2. ASSUME which = "service", [Next]_vars PROVE [Service!Next]_Service!vars
  BY <1>2 DEF Next, vars, serviceVars, Service!vars, Service!serviceVars, Service!mainVars,
              Service!connVars, Service!bridgeVars
<1>3. QED
  BY <1>1, <1>2

-----------------------------------------------------------------------------
(* The owner table by itself: a socket that was open when its flow came is found, for
   every number of lookups that share the snapshots, of snapshots and of failures. *)

(* The snapshots that have returned, of those begun *)
Returned == IF inflight THEN ownerAttempts - 1 ELSE ownerAttempts

(* What a snapshot owes a lookup that began before it was begun: while it is taken
   it sees the socket, and once one has returned the socket is in the table. *)
LookupInv(l) ==
  ownerPc[l] # "idle" =>
    /\ l \in ownerOpen
    /\ noted[l] <= ownerAttempts
    /\ inflight /\ noted[l] < ownerAttempts => l \in captured
    /\ noted[l] < Returned /\ ownerFaults = 0 => l \in ownerTable
    /\ ownerPc[l] = "mine" => noted[l] < waits[l] /\ waits[l] <= ownerAttempts
    /\ ownerPc[l] = "last" => noted[l] < Returned
    /\ ownerPc[l] = "unknown" => ownerFaults > 0

OwnerCounted == inflight => ownerAttempts > 0

OwnerInv == Owner!TypeOK /\ OwnerCounted /\ \A l \in Lookups : LookupInv(l)

OwnerBounds == Snapshots \in Nat /\ SnapshotFaults \in Nat

-----------------------------------------------------------------------------
(* Types *)

(* TypeOK, one variable at a time *)
OwnerPlaces == {"idle", "enter", "first", "refresh", "look", "after", "sleep", "mine", "await", "last",
                "found", "unknown"}

OwnerShapes ==
  /\ ownerPc \in [Lookups -> OwnerPlaces]
  /\ ownerOpen \subseteq Lookups
  /\ ownerTable \subseteq Lookups
  /\ captured \subseteq Lookups
  /\ noted \in [Lookups -> 0..Snapshots]
  /\ waits \in [Lookups -> 0..Snapshots]
  /\ cooled \in [Lookups -> BOOLEAN]
  /\ stale \in BOOLEAN
  /\ cooling \in BOOLEAN
  /\ inflight \in BOOLEAN
  /\ ownerAttempts \in 0..Snapshots
  /\ ownerFaults \in 0..SnapshotFaults

LEMMA OwnerShapesAre == Owner!TypeOK <=> OwnerShapes
<1>1. {ownerOpen, ownerTable, captured} \subseteq SUBSET Lookups
        <=> ownerOpen \subseteq Lookups /\ ownerTable \subseteq Lookups /\ captured \subseteq Lookups
  OBVIOUS
<1>2. {stale, cooling, inflight} \subseteq BOOLEAN
        <=> stale \in BOOLEAN /\ cooling \in BOOLEAN /\ inflight \in BOOLEAN
  OBVIOUS
<1>3. QED
  BY <1>1, <1>2, Zenon DEF Owner!TypeOK, OwnerShapes, OwnerPlaces

LEMMA OwnerShapesAreNext == Owner!TypeOK' <=> OwnerShapes'
<1>1. {ownerOpen', ownerTable', captured'} \subseteq SUBSET Lookups
        <=> ownerOpen' \subseteq Lookups /\ ownerTable' \subseteq Lookups /\ captured' \subseteq Lookups
  OBVIOUS
<1>2. {stale', cooling', inflight'} \subseteq BOOLEAN
        <=> stale' \in BOOLEAN /\ cooling' \in BOOLEAN /\ inflight' \in BOOLEAN
  OBVIOUS
<1>3. QED
  BY <1>1, <1>2, Zenon DEF Owner!TypeOK, OwnerShapes, OwnerPlaces

LEMMA OwnerTypeStep ==
  ASSUME OwnerBounds, Owner!TypeOK, [Owner!Next]_Owner!vars
  PROVE  Owner!TypeOK'
<1>t. OwnerShapes
  BY OwnerShapesAre
<1> SUFFICES OwnerShapes'
  BY OwnerShapesAreNext
<1> USE <1>t DEF OwnerBounds, OwnerShapes, OwnerPlaces
<1>1. CASE Owner!capture
  <2>1. ownerTable' \subseteq Lookups /\ stale' \in BOOLEAN
    BY <1>1 DEF Owner!capture
  <2>2. ownerFaults' \in 0..SnapshotFaults
    BY <1>1 DEF Owner!capture
  <2>3. /\ inflight' \in BOOLEAN
        /\ UNCHANGED <<ownerPc, ownerOpen, noted, cooled, waits, cooling, ownerAttempts, captured>>
    BY <1>1 DEF Owner!capture
  <2>4. QED
    BY <2>1, <2>2, <2>3
<1>2. CASE Owner!Age
  BY <1>2 DEF Owner!Age
<1>3. ASSUME NEW l \in Lookups, Owner!Process(l) PROVE OwnerShapes'
  BY <1>3 DEF Owner!Process, Owner!Go
<1>4. ASSUME NEW l \in Lookups, Owner!refresh(l) \/ Owner!refreshAfter(l) PROVE OwnerShapes'
  <2>1. UNCHANGED <<cooling, ownerAttempts, inflight, captured>> \/ Owner!beginLocked
    BY <1>4 DEF Owner!refresh, Owner!refreshAfter
  <2>2. /\ ownerAttempts' \in 0..Snapshots
        /\ cooling' \in BOOLEAN
        /\ inflight' \in BOOLEAN
        /\ captured' \subseteq Lookups
    <3>1. CASE UNCHANGED <<cooling, ownerAttempts, inflight, captured>>
      BY <3>1
    <3>2. CASE Owner!beginLocked
      BY <3>2 DEF Owner!beginLocked
    <3>3. QED
      BY <2>1, <3>1, <3>2
  <2>3. waits' \in [Lookups -> 0..Snapshots]
    BY <1>4, <2>2 DEF Owner!refresh, Owner!refreshAfter, Owner!WaitFor
  <2>4. ownerPc' \in [Lookups -> OwnerPlaces]
    BY <1>4 DEF Owner!refresh, Owner!refreshAfter, Owner!Go
  <2>5. UNCHANGED <<ownerOpen, noted, cooled, ownerTable, stale, ownerFaults>>
    BY <1>4 DEF Owner!refresh, Owner!refreshAfter
  <2>6. QED
    BY <2>2, <2>3, <2>4, <2>5
<1>5. ASSUME NEW l \in Lookups,
             \/ Owner!LookFirst(l) \/ Owner!Refreshed(l) \/ Owner!Look(l) \/ Owner!Awaited(l)
             \/ Owner!Captured(l)
             \/ Owner!Slept(l) \/ Owner!LookLast(l)
      PROVE  OwnerShapes'
  BY <1>5 DEF Owner!LookFirst, Owner!Refreshed, Owner!Look, Owner!Awaited, Owner!Captured,
                  Owner!Slept, Owner!LookLast, Owner!Go
<1>6. CASE UNCHANGED Owner!vars
  BY <1>6 DEF Owner!vars
<1>7. QED
  BY <1>1, <1>2, <1>3, <1>4, <1>5, <1>6 DEF Owner!Next, Owner!Step

-----------------------------------------------------------------------------
(* Steps *)

(* A lookup moves on and no snapshot is begun. *)
LEMMA LookupMovesOn ==
  ASSUME Owner!TypeOK, Owner!TypeOK', OwnerCounted, \A l \in Lookups : LookupInv(l), NEW k \in Lookups,
         UNCHANGED <<ownerOpen, noted, ownerTable, ownerAttempts, inflight, captured, ownerFaults>>,
         ownerPc[k] # "idle", \A l \in Lookups \ {k} : ownerPc'[l] = ownerPc[l] /\ waits'[l] = waits[l],
         ownerPc'[k] = "mine" => noted[k] < waits'[k] /\ waits'[k] <= ownerAttempts,
         ownerPc'[k] = "last" => noted[k] < Returned,
         ownerPc'[k] = "unknown" => ownerFaults > 0
  PROVE  OwnerCounted' /\ \A l \in Lookups : LookupInv(l)'
<1>1. Returned' = Returned
  BY DEF Returned
<1>2. ASSUME NEW l \in Lookups PROVE LookupInv(l)'
  BY <1>1, <1>2 DEF LookupInv
<1>3. QED
  BY <1>2 DEF OwnerCounted

(* A lookup begins the next snapshot and waits for it. *)
LEMMA LookupBegins ==
  ASSUME Owner!TypeOK, Owner!TypeOK', OwnerCounted, \A l \in Lookups : LookupInv(l), NEW k \in Lookups,
         Owner!beginLocked, Owner!WaitFor(k),
         UNCHANGED <<ownerOpen, noted, ownerTable, ownerFaults>>,
         ownerPc[k] # "idle", ownerPc'[k] \in {"enter", "mine"}, \A l \in Lookups \ {k} : ownerPc'[l] = ownerPc[l]
  PROVE  OwnerCounted' /\ \A l \in Lookups : LookupInv(l)'
<1>1. /\ ~inflight /\ inflight' /\ ownerAttempts' = ownerAttempts + 1 /\ captured' = ownerOpen
      /\ ownerAttempts \in Nat
  BY DEF Owner!beginLocked, Owner!TypeOK
<1>2. Returned' = Returned
  BY <1>1 DEF Returned
<1>3. waits'[k] = ownerAttempts + 1 /\ \A l \in Lookups \ {k} : waits'[l] = waits[l]
  BY <1>1 DEF Owner!WaitFor, Owner!TypeOK
<1>4. ASSUME NEW l \in Lookups PROVE LookupInv(l)'
  <2>1. noted[l] \in Nat /\ waits[l] \in Nat
    BY DEF Owner!TypeOK
  <2>2. QED
    BY <1>1, <1>2, <1>3, <2>1 DEF LookupInv
<1>5. QED
  BY <1>1, <1>4 DEF OwnerCounted

LEMMA OwnerStep ==
  ASSUME OwnerBounds, OwnerInv, [Owner!Next]_Owner!vars
  PROVE  OwnerInv'
<1> USE DEF OwnerInv
<1>1. Owner!TypeOK'
  BY OwnerTypeStep
<1>2. /\ ownerAttempts \in Nat /\ ownerFaults \in Nat /\ ownerAttempts' \in Nat
      /\ ownerFaults' \in Nat
      /\ \A l \in Lookups : noted[l] \in Nat /\ waits[l] \in Nat
      /\ ownerPc \in [Lookups -> {"idle", "enter", "first", "refresh", "look", "after", "sleep", "mine",
                            "await", "last", "found", "unknown"}]
      /\ waits \in [Lookups -> 0..Snapshots] /\ noted \in [Lookups -> 0..Snapshots]
  BY <1>1 DEF Owner!TypeOK, OwnerBounds
<1>3. CASE Owner!capture
  <2>1. /\ inflight /\ ~inflight'
        /\ UNCHANGED <<ownerPc, ownerOpen, noted, waits, ownerAttempts, captured>>
        /\ \/ captured \subseteq ownerTable' /\ ownerFaults' = ownerFaults
           \/ ownerFaults' > 0 /\ ownerTable' = ownerTable
    BY <1>2, <1>3 DEF Owner!capture
  <2>2. Returned' = ownerAttempts
    BY <2>1 DEF Returned
  <2>3. ownerFaults' = 0 => ownerFaults = 0
    BY <1>2, <2>1
  <2>4. ASSUME NEW l \in Lookups PROVE LookupInv(l)'
    <3>1. noted[l] < Returned => noted[l] < ownerAttempts
      BY <1>2, <2>1 DEF Returned
    <3>2. QED
      BY <1>2, <2>1, <2>2, <2>3, <3>1 DEF LookupInv
  <2>5. QED
    BY <1>1, <2>1, <2>4 DEF OwnerCounted
<1>4. CASE Owner!Age
  <2>1. UNCHANGED <<ownerPc, ownerOpen, noted, waits, ownerTable, ownerAttempts, inflight, captured, ownerFaults>>
    BY <1>4 DEF Owner!Age
  <2>2. QED
    BY <1>1, <2>1 DEF OwnerCounted, LookupInv, Returned
<1>5. ASSUME NEW k \in Lookups, Owner!Process(k) PROVE OwnerInv'
  <2>1. /\ ownerOpen' = ownerOpen \cup {k} /\ noted' = [noted EXCEPT ![k] = ownerAttempts]
        /\ ownerPc' = [ownerPc EXCEPT ![k] = "first"]
        /\ UNCHANGED <<waits, ownerTable, ownerAttempts, inflight, captured, ownerFaults>>
    BY <1>5 DEF Owner!Process, Owner!Go
  <2>2. Returned' = Returned /\ ~(ownerAttempts < Returned)
    BY <1>2, <2>1 DEF Returned
  <2>3. ASSUME NEW l \in Lookups PROVE LookupInv(l)'
    <3>1. CASE l = k
      BY <1>2, <2>1, <2>2, <3>1 DEF LookupInv
    <3>2. CASE l # k
      BY <1>2, <2>1, <2>2, <3>2 DEF LookupInv
    <3>3. QED
      BY <3>1, <3>2
  <2>4. QED
    BY <1>1, <2>1, <2>3 DEF OwnerCounted
<1>6. ASSUME NEW k \in Lookups, Owner!refresh(k) PROVE OwnerInv'
  <2>1. /\ ownerPc[k] = "refresh" /\ Owner!WaitFor(k)
        /\ UNCHANGED <<ownerOpen, noted, ownerTable, ownerFaults>>
    BY <1>6 DEF Owner!refresh
  <2>2. CASE UNCHANGED <<cooling, ownerAttempts, inflight, captured>>
    <3>1. ownerPc'[k] \in {"enter", "look"} /\ \A l \in Lookups \ {k} : ownerPc'[l] = ownerPc[l] /\ waits'[l] = waits[l]
      BY <1>2, <1>6, <2>2 DEF Owner!refresh, Owner!Go, Owner!WaitFor, Owner!beginLocked
    <3>2. QED
      BY <1>1, <2>1, <2>2, <3>1, LookupMovesOn
  <2>3. CASE Owner!beginLocked /\ Owner!Go(k, "enter")
    <3>1. ownerPc'[k] = "enter" /\ \A l \in Lookups \ {k} : ownerPc'[l] = ownerPc[l]
      BY <1>2, <2>3 DEF Owner!Go
    <3>2. QED
      BY <1>1, <2>1, <2>3, <3>1, LookupBegins
  <2>4. QED
    BY <1>6, <2>2, <2>3 DEF Owner!refresh
<1>7. ASSUME NEW k \in Lookups, Owner!refreshAfter(k) PROVE OwnerInv'
  <2>1. /\ ownerPc[k] = "after" /\ Owner!WaitFor(k)
        /\ UNCHANGED <<ownerOpen, noted, ownerTable, ownerFaults>>
    BY <1>7 DEF Owner!refreshAfter
  <2>2. CASE UNCHANGED <<cooling, ownerAttempts, inflight, captured>>
    <3>1. /\ waits'[k] = ownerAttempts
          /\ \A l \in Lookups \ {k} : ownerPc'[l] = ownerPc[l] /\ waits'[l] = waits[l]
      BY <1>2, <1>7, <2>1, <2>2 DEF Owner!refreshAfter, Owner!Go, Owner!WaitFor
    <3>2. /\ ownerPc'[k] \in {"mine", "await", "last", "sleep"}
          /\ ownerPc'[k] = "mine" => noted[k] < ownerAttempts
          /\ ownerPc'[k] = "last" => ~inflight /\ noted[k] < ownerAttempts
      BY <1>2, <1>7, <2>2 DEF Owner!refreshAfter, Owner!Go, Owner!beginLocked
    <3>3. ownerPc'[k] = "last" => noted[k] < Returned
      BY <3>2 DEF Returned
    <3>4. QED
      BY <1>1, <1>2, <2>1, <2>2, <3>1, <3>2, <3>3, LookupMovesOn
  <2>3. CASE Owner!beginLocked /\ Owner!Go(k, "mine")
    <3>1. ownerPc'[k] = "mine" /\ \A l \in Lookups \ {k} : ownerPc'[l] = ownerPc[l]
      BY <1>2, <2>3 DEF Owner!Go
    <3>2. QED
      BY <1>1, <2>1, <2>3, <3>1, LookupBegins
  <2>4. QED
    BY <1>7, <2>2, <2>3 DEF Owner!refreshAfter
<1>8. ASSUME NEW k \in Lookups,
             Owner!LookFirst(k) \/ Owner!Refreshed(k) \/ Owner!Look(k) \/ Owner!Awaited(k) \/ Owner!Slept(k)
      PROVE  OwnerInv'
  <2>1. /\ UNCHANGED <<ownerOpen, noted, waits, ownerTable, ownerAttempts, inflight, captured, ownerFaults>>
        /\ ownerPc[k] # "idle" /\ ownerPc'[k] \in {"refresh", "look", "found", "after"}
        /\ \A l \in Lookups \ {k} : ownerPc'[l] = ownerPc[l]
    BY <1>2, <1>8 DEF Owner!LookFirst, Owner!Refreshed, Owner!Look, Owner!Awaited, Owner!Slept, Owner!Go
  <2>2. QED
    BY <1>1, <2>1, LookupMovesOn
<1>9. ASSUME NEW k \in Lookups, Owner!Captured(k) PROVE OwnerInv'
  <2>1. /\ UNCHANGED <<ownerOpen, noted, waits, ownerTable, ownerAttempts, inflight, captured, ownerFaults>>
        /\ ownerPc[k] = "mine" /\ ownerPc'[k] = "last" /\ ~Owner!Waiting(k)
        /\ \A l \in Lookups \ {k} : ownerPc'[l] = ownerPc[l]
    BY <1>2, <1>9 DEF Owner!Captured, Owner!Go
  <2>2. noted[k] < Returned
    BY <1>2, <2>1 DEF LookupInv, Returned, Owner!Waiting
  <2>3. QED
    BY <1>1, <2>1, <2>2, LookupMovesOn
<1>10. ASSUME NEW k \in Lookups, Owner!LookLast(k) PROVE OwnerInv'
  <2>1. /\ UNCHANGED <<ownerOpen, noted, waits, ownerTable, ownerAttempts, inflight, captured, ownerFaults>>
        /\ ownerPc[k] = "last" /\ ownerPc'[k] = IF k \in ownerTable THEN "found" ELSE "unknown"
        /\ \A l \in Lookups \ {k} : ownerPc'[l] = ownerPc[l]
    BY <1>2, <1>10 DEF Owner!LookLast, Owner!Go
  <2>2. k \notin ownerTable => ownerFaults > 0
    BY <1>2, <2>1 DEF LookupInv
  <2>3. QED
    BY <1>1, <2>1, <2>2, LookupMovesOn
<1>11. CASE UNCHANGED Owner!vars
  BY <1>1, <1>11 DEF Owner!vars, OwnerCounted, LookupInv, Returned
<1>12. QED
  BY <1>3, <1>4, <1>5, <1>6, <1>7, <1>8, <1>9, <1>10, <1>11 DEF Owner!Next, Owner!Step

LEMMA OwnerInvHolds ==
  ASSUME OwnerBounds
  PROVE  Owner!Spec => []OwnerInv
<1>1. Owner!Init => OwnerInv
  <2> SUFFICES ASSUME Owner!Init PROVE OwnerInv
    OBVIOUS
  <2>1. OwnerShapes
    <3>1. Snapshots \in Nat /\ SnapshotFaults \in Nat
      BY DEF OwnerBounds
    <3>2. ownerPc \in [Lookups -> OwnerPlaces] /\ cooled \in [Lookups -> BOOLEAN]
      BY DEF Owner!Init, OwnerPlaces
    <3>3. stale \in BOOLEAN /\ cooling \in BOOLEAN /\ inflight \in BOOLEAN
      BY Zenon DEF Owner!Init
    <3>4. /\ ownerOpen \subseteq Lookups /\ ownerTable \subseteq Lookups
          /\ captured \subseteq Lookups
          /\ ownerAttempts \in 0..Snapshots /\ ownerFaults \in 0..SnapshotFaults
      BY <3>1 DEF Owner!Init
    <3>5. noted \in [Lookups -> 0..Snapshots] /\ waits \in [Lookups -> 0..Snapshots]
      BY <3>1 DEF Owner!Init
    <3>6. QED
      BY <3>2, <3>3, <3>4, <3>5, Zenon DEF OwnerShapes
  <2>2. OwnerCounted /\ \A l \in Lookups : LookupInv(l)
    BY DEF Owner!Init, OwnerCounted, LookupInv
  <2>3. QED
    BY <2>1, <2>2, OwnerShapesAre DEF OwnerInv
<1>2. OwnerInv /\ [Owner!Next]_Owner!vars => OwnerInv'
  BY OwnerStep
<1>3. QED
  BY <1>1, <1>2, PTL DEF Owner!Spec

(* The lookups, the shared snapshot and its counters keep their shapes. *)
THEOREM OwnerTypes ==
  ASSUME OwnerBounds
  PROVE  Owner!Spec => []Owner!TypeOK
<1>1. OwnerInv => Owner!TypeOK
  BY DEF OwnerInv
<1>2. QED
  BY <1>1, OwnerInvHolds, PTL

(* OwnerTable never answers "unknown" for a socket that existed when its lookup began,
   however the lookups share, wait for and begin snapshots, unless the kernel failed
   to list the sockets: refreshAfter waits for a snapshot that was begun late enough. *)
THEOREM SocketsAreFound ==
  ASSUME OwnerBounds
  PROVE  Owner!Spec => []Owner!OpenSocketIsFound
<1>1. OwnerInv => Owner!OpenSocketIsFound
  <2> SUFFICES ASSUME OwnerInv, ownerFaults = 0, NEW l \in Lookups, ownerPc[l] = "unknown" PROVE FALSE
    BY DEF Owner!OpenSocketIsFound
  <2>1. QED
    BY DEF OwnerInv, LookupInv
<1>2. QED
  BY <1>1, OwnerInvHolds, PTL

-----------------------------------------------------------------------------
(* The adapter by itself: its session is taken down once, under no driver call and after
   no failure was dropped, for every number of search paths, of attempts, of packets, of
   failures and of changes to the files. *)

(* Shapes of the fields TypeOK leaves out *)
AdapterShapes ==
  /\ load \in [at: {"idle", "verify", "load"}, candidate: SearchPaths]
  /\ cancelled \in BOOLEAN
  /\ failure \in BOOLEAN
  /\ adapterTold \in BOOLEAN
  /\ ends \in {0, 1}
  /\ tries \in Nat
  /\ supervisor \in {"select", "claim", "closes", "ended"}
  /\ owner \in {"idle", "closes", "closed"}
  /\ closer \in {"nobody", "owner", "runner"}

(* A library is loaded only from a file that is held open since its digest was right,
   and an adapter is created only with a library loaded. *)
AdapterLoading ==
  /\ load.at # "idle" <=> adapterOpen = "loading"
  /\ load.at = "load" => file[load.candidate] = "right"
  /\ loaded \in {"nothing", "right"}
  /\ adapterOpen \in {"loading", "create"} => tries < CreateTries

(* The device node follows Open, Start and Close. *)
AdapterDevice ==
  /\ adapterOpen = "start" => device = "up"
  /\ device = "up" => adapterOpen = "start" \/ (adapterOpen = "up" /\ session = "open")

(* The adapter's lock: each pump shares it exactly during its call, and Close asks for it
   exactly while it has the session to end. *)
AdapterLocking ==
  /\ "in" \in readers <=> inbound \in Adapter!InCall
  /\ "out" \in readers <=> outbound = "send"
  /\ writer = "waits" <=> teardown = "adapter"

(* Before Start and after the owner let the runner go there is nothing of a session. *)
AdapterQuiet == adapterOpen # "up" => Adapter!Idle

(* How far the session is down *)
AdapterEnding ==
  adapterOpen = "up" =>
    /\ cancelled <=> teardown # "none"
    /\ session = "open" <=> teardown \in {"none", "adapter"}
    /\ session = "ended" <=> teardown \in {"pumps", "done"}
    /\ ends = 1 <=> session = "ended"
    /\ inbound = "parked" => session = "open"
    /\ inbound = "done" => cancelled \/ failure \/ supervisor \in {"claim", "closes"} \/ claimed = "owner"
    /\ teardown = "done" => inbound = "done" /\ outbound = "done"

(* Who asked, who claimed the teardown and who is in it *)
AdapterFated ==
  adapterOpen = "up" =>
    /\ closer = "nobody" <=> teardown \in {"none", "done"}
    /\ closer = "owner" => owner = "closes"
    /\ closer = "runner" => supervisor = "closes"
    /\ owner = "closed" => teardown = "done"
    /\ owner # "idle" => claimed # "nobody"
    /\ claimed = "owner" => owner # "idle"
    /\ claimed = "runner" <=> supervisor = "closes" \/ adapterTold
    /\ supervisor = "ended" => claimed # "nobody"
    /\ adapterTold => supervisor = "ended" /\ teardown = "done"

AdapterInv == Adapter!TypeOK /\ AdapterShapes /\ AdapterLoading /\ AdapterDevice /\ AdapterLocking /\ AdapterQuiet /\ AdapterEnding /\ AdapterFated

(* Candidates are searched from the first, and the adapter is tried for at least once. *)
AdapterBounds == 1 \in SearchPaths /\ SearchPaths \subseteq Nat /\ CreateTries \in Nat \ {0}

-----------------------------------------------------------------------------
(* Frames *)

(* Loading a library and creating an adapter touch nothing of a session. *)
LEMMA SessionKept ==
  ASSUME AdapterLocking, AdapterQuiet, AdapterEnding, AdapterFated,
         UNCHANGED <<session, Adapter!locks, Adapter!pumps, cancelled, Adapter!fate, ends>>,
         adapterOpen' = "up" <=> adapterOpen = "up"
  PROVE  AdapterLocking' /\ AdapterQuiet' /\ AdapterEnding' /\ AdapterFated'
<1> USE DEF Adapter!locks, Adapter!pumps, Adapter!fate
<1>1. AdapterLocking'
  BY DEF AdapterLocking
<1>2. AdapterQuiet'
  BY DEF AdapterQuiet, Adapter!Idle
<1>3. AdapterEnding'
  BY DEF AdapterEnding
<1>4. AdapterFated'
  BY DEF AdapterFated
<1>5. QED
  BY <1>1, <1>2, <1>3, <1>4

(* The pumps and those who take the adapter down touch nothing of the library. *)
LEMMA LibraryKept ==
  ASSUME AdapterLoading, UNCHANGED <<Adapter!loading, adapterOpen, tries>>
  PROVE  AdapterLoading'
BY DEF AdapterLoading, Adapter!loading

-----------------------------------------------------------------------------
(* Steps *)

LEMMA SwapStep ==
  ASSUME AdapterBounds, AdapterInv, Adapter!Swap
  PROVE  AdapterInv'
<1> USE DEF AdapterBounds, AdapterInv, Adapter!Swap, Adapter!loading, Adapter!held
<1>1. UNCHANGED <<session, Adapter!locks, Adapter!pumps, cancelled, Adapter!fate, ends>>
  OBVIOUS
<1>2. adapterOpen' = "up" <=> adapterOpen = "up"
  BY DEF AdapterLoading
<1>3. AdapterLocking' /\ AdapterQuiet' /\ AdapterEnding' /\ AdapterFated'
  BY <1>1, <1>2, SessionKept
<1>4. Adapter!TypeOK'
  BY <1>1 DEF Adapter!TypeOK, AdapterShapes, AdapterLoading, Adapter!locks, Adapter!pumps, Adapter!fate
<1>5. AdapterShapes'
  BY <1>1 DEF Adapter!TypeOK, AdapterShapes, AdapterLoading, Adapter!fate
<1>6. AdapterLoading'
  BY DEF Adapter!TypeOK, AdapterShapes, AdapterLoading
<1>7. AdapterDevice'
  BY <1>1 DEF Adapter!TypeOK, AdapterShapes, AdapterLoading, AdapterDevice, AdapterQuiet, Adapter!Idle
<1>8. QED
  BY <1>3, <1>4, <1>5, <1>6, <1>7

LEMMA BeginStep ==
  ASSUME AdapterBounds, AdapterInv, Adapter!Begin
  PROVE  AdapterInv'
<1> USE DEF AdapterBounds, AdapterInv, Adapter!Begin, Adapter!loading
<1>1. UNCHANGED <<session, Adapter!locks, Adapter!pumps, cancelled, Adapter!fate, ends>>
  OBVIOUS
<1>2. adapterOpen' = "up" <=> adapterOpen = "up"
  BY DEF AdapterLoading
<1>3. AdapterLocking' /\ AdapterQuiet' /\ AdapterEnding' /\ AdapterFated'
  BY <1>1, <1>2, SessionKept
<1>4. Adapter!TypeOK'
  BY <1>1 DEF Adapter!TypeOK, AdapterShapes, AdapterLoading, Adapter!locks, Adapter!pumps, Adapter!fate
<1>5. AdapterShapes'
  BY <1>1 DEF Adapter!TypeOK, AdapterShapes, AdapterLoading, Adapter!fate
<1>6. AdapterLoading'
  BY DEF Adapter!TypeOK, AdapterShapes, AdapterLoading
<1>7. AdapterDevice'
  BY <1>1 DEF Adapter!TypeOK, AdapterShapes, AdapterLoading, AdapterDevice, AdapterQuiet, Adapter!Idle
<1>8. QED
  BY <1>3, <1>4, <1>5, <1>6, <1>7

LEMMA VerifyStep ==
  ASSUME AdapterBounds, AdapterInv, Adapter!Verify
  PROVE  AdapterInv'
<1> USE DEF AdapterBounds, AdapterInv, Adapter!Verify, Adapter!loading, Adapter!verified
<1>1. UNCHANGED <<session, Adapter!locks, Adapter!pumps, cancelled, Adapter!fate, ends>>
  OBVIOUS
<1>2. adapterOpen' = "up" <=> adapterOpen = "up"
  BY DEF AdapterLoading
<1>3. AdapterLocking' /\ AdapterQuiet' /\ AdapterEnding' /\ AdapterFated'
  BY <1>1, <1>2, SessionKept
<1>4. Adapter!TypeOK'
  BY <1>1 DEF Adapter!TypeOK, AdapterShapes, AdapterLoading, Adapter!locks, Adapter!pumps, Adapter!fate
<1>5. AdapterShapes'
  BY <1>1 DEF Adapter!TypeOK, AdapterShapes, AdapterLoading, Adapter!fate
<1>6. AdapterLoading'
  BY DEF Adapter!TypeOK, AdapterShapes, AdapterLoading
<1>7. AdapterDevice'
  BY <1>1 DEF Adapter!TypeOK, AdapterShapes, AdapterLoading, AdapterDevice, AdapterQuiet, Adapter!Idle
<1>8. QED
  BY <1>3, <1>4, <1>5, <1>6, <1>7

LEMMA LoadStep ==
  ASSUME AdapterBounds, AdapterInv, Adapter!Load
  PROVE  AdapterInv'
<1> USE DEF AdapterBounds, AdapterInv, Adapter!Load, Adapter!loading
<1>1. UNCHANGED <<session, Adapter!locks, Adapter!pumps, cancelled, Adapter!fate, ends>>
  OBVIOUS
<1>2. adapterOpen' = "up" <=> adapterOpen = "up"
  BY DEF AdapterLoading
<1>3. AdapterLocking' /\ AdapterQuiet' /\ AdapterEnding' /\ AdapterFated'
  BY <1>1, <1>2, SessionKept
<1>4. Adapter!TypeOK'
  BY <1>1 DEF Adapter!TypeOK, AdapterShapes, AdapterLoading, Adapter!locks, Adapter!pumps, Adapter!fate
<1>5. AdapterShapes'
  BY <1>1 DEF Adapter!TypeOK, AdapterShapes, AdapterLoading, Adapter!fate
<1>6. AdapterLoading'
  BY DEF Adapter!TypeOK, AdapterShapes, AdapterLoading
<1>7. AdapterDevice'
  BY <1>1 DEF Adapter!TypeOK, AdapterShapes, AdapterLoading, AdapterDevice, AdapterQuiet, Adapter!Idle
<1>8. QED
  BY <1>3, <1>4, <1>5, <1>6, <1>7

LEMMA CreateStep ==
  ASSUME AdapterBounds, AdapterInv, Adapter!Create
  PROVE  AdapterInv'
<1> USE DEF AdapterBounds, AdapterInv, Adapter!Create, Adapter!loading
<1>1. UNCHANGED <<session, Adapter!locks, Adapter!pumps, cancelled, Adapter!fate, ends>>
  OBVIOUS
<1>2. adapterOpen' = "up" <=> adapterOpen = "up"
  BY DEF AdapterLoading
<1>3. AdapterLocking' /\ AdapterQuiet' /\ AdapterEnding' /\ AdapterFated'
  BY <1>1, <1>2, SessionKept
<1>4. Adapter!TypeOK'
  BY <1>1 DEF Adapter!TypeOK, AdapterShapes, AdapterLoading, Adapter!locks, Adapter!pumps, Adapter!fate
<1>5. AdapterShapes'
  BY <1>1 DEF Adapter!TypeOK, AdapterShapes, AdapterLoading, Adapter!fate
<1>6. AdapterLoading'
  BY DEF Adapter!TypeOK, AdapterShapes, AdapterLoading
<1>7. AdapterDevice'
  BY <1>1 DEF Adapter!TypeOK, AdapterShapes, AdapterLoading, AdapterDevice, AdapterQuiet, Adapter!Idle
<1>8. QED
  BY <1>3, <1>4, <1>5, <1>6, <1>7

LEMMA RemovedStep ==
  ASSUME AdapterBounds, AdapterInv, Adapter!Removed
  PROVE  AdapterInv'
<1> USE DEF AdapterBounds, AdapterInv, Adapter!Removed, Adapter!loading
<1>1. UNCHANGED <<session, Adapter!locks, Adapter!pumps, cancelled, Adapter!fate, ends>>
  OBVIOUS
<1>2. adapterOpen' = "up" <=> adapterOpen = "up"
  BY DEF AdapterLoading
<1>3. AdapterLocking' /\ AdapterQuiet' /\ AdapterEnding' /\ AdapterFated'
  BY <1>1, <1>2, SessionKept
<1>4. Adapter!TypeOK'
  BY <1>1 DEF Adapter!TypeOK, AdapterShapes, AdapterLoading, Adapter!locks, Adapter!pumps, Adapter!fate
<1>5. AdapterShapes'
  BY <1>1 DEF Adapter!TypeOK, AdapterShapes, AdapterLoading, Adapter!fate
<1>6. AdapterLoading'
  BY DEF Adapter!TypeOK, AdapterShapes, AdapterLoading
<1>7. AdapterDevice'
  BY <1>1 DEF Adapter!TypeOK, AdapterShapes, AdapterLoading, AdapterDevice, AdapterQuiet, Adapter!Idle
<1>8. QED
  BY <1>3, <1>4, <1>5, <1>6, <1>7

LEMMA StartSessionStep ==
  ASSUME AdapterBounds, AdapterInv, Adapter!StartSession
  PROVE  AdapterInv'
<1> USE DEF AdapterBounds, AdapterInv, Adapter!StartSession, Adapter!startFailed, Adapter!loading, Adapter!locks, Adapter!pumps, Adapter!fate
<1>0. /\ UNCHANGED <<file, load, loaded, tries>>
      /\ adapterOpen' \in {"up", "idle"}
      /\ device' \in {device, "lingering"}
  OBVIOUS
<1>a. \/ /\ UNCHANGED <<session, readers, writer, inbound, outbound, cancelled, failure, claimed>>
         /\ UNCHANGED <<supervisor, owner, closer, teardown, adapterTold, ends>>
      \/ /\ session' = "open" /\ readers' = {} /\ writer' = "none" /\ inbound' = "check" /\ outbound' = "read"
         /\ cancelled' = FALSE /\ failure' = FALSE /\ claimed' = "nobody" /\ supervisor' = "select"
         /\ owner' = "idle" /\ closer' = "nobody" /\ teardown' = "none" /\ adapterTold' = FALSE
         /\ ends' = 0
  OBVIOUS
<1> HIDE DEF Adapter!StartSession
<1>1. Adapter!TypeOK'
  <2>0. /\ ends' \in {ends, 0}
        /\ session' \in {session, "open"}
        /\ readers' \in {readers, {}}
        /\ writer' \in {writer, "none"}
    BY <1>a
  <2>1. /\ session' \in {"none", "open", "ended"}
        /\ ends' \in 0..1
        /\ readers' \subseteq {"in", "out"}
        /\ writer' \in {"none", "waits"}
    BY <2>0 DEF Adapter!TypeOK
  <2>2. /\ inbound' \in {"check", "lock", "failed", "done"} \cup Adapter!InCall
        /\ outbound' \in {"read", "lock", "send", "done"}
    BY <1>a DEF Adapter!TypeOK
  <2>3. /\ claimed' \in {"nobody", "owner", "runner"}
        /\ teardown' \in {"none", "adapter", "pumps", "done"}
    BY <1>a DEF Adapter!TypeOK
  <2>4. QED
    BY <1>0, <2>1, <2>2, <2>3 DEF Adapter!TypeOK
<1>2. AdapterShapes'
  <2>1. cancelled' \in BOOLEAN /\ failure' \in BOOLEAN /\ adapterTold' \in BOOLEAN
    BY <1>a, Zenon DEF AdapterShapes
  <2>2. load' = load /\ tries' = tries
    BY <1>0
  <2>3. /\ ends' \in {0, 1}
        /\ supervisor' \in {"select", "claim", "closes", "ended"}
        /\ owner' \in {"idle", "closes", "closed"}
        /\ closer' \in {"nobody", "owner", "runner"}
    BY <1>a DEF AdapterShapes
  <2>4. QED
    BY <2>1, <2>2, <2>3 DEF AdapterShapes
<1> USE DEF Adapter!StartSession
<1>3. AdapterLoading'
  BY DEF AdapterLoading
<1>4. AdapterDevice'
  BY DEF AdapterDevice, AdapterQuiet, Adapter!Idle
<1>5. AdapterLocking'
  BY DEF AdapterLocking, AdapterQuiet, Adapter!Idle, Adapter!InCall
<1>6. AdapterQuiet'
  BY DEF AdapterQuiet, Adapter!Idle
<1>7. AdapterEnding'
  BY DEF AdapterEnding
<1>8. AdapterFated'
  BY DEF AdapterFated
<1>9. QED
  BY <1>1, <1>2, <1>3, <1>4, <1>5, <1>6, <1>7, <1>8

LEMMA InboundCheckStep ==
  ASSUME AdapterBounds, AdapterInv, Adapter!InboundCheck
  PROVE  AdapterInv'
<1> USE DEF AdapterBounds, AdapterInv, Adapter!InboundCheck, Adapter!pumps, Adapter!fate, Adapter!locks
<1>1. UNCHANGED <<Adapter!loading, adapterOpen, tries>>
  OBVIOUS
<1>2. adapterOpen = "up"
  BY DEF AdapterQuiet, Adapter!Idle
<1>3. Adapter!TypeOK'
  BY <1>1, <1>2 DEF Adapter!TypeOK, AdapterEnding, AdapterShapes, Adapter!InCall, Adapter!loading
<1>4. AdapterShapes'
  BY <1>1, <1>2 DEF Adapter!TypeOK, AdapterShapes, AdapterEnding, Adapter!loading
<1>5. AdapterLoading'
  BY <1>1, LibraryKept
<1>6. AdapterDevice'
  BY <1>1, <1>2 DEF AdapterDevice, AdapterEnding
<1>7. AdapterLocking'
  BY <1>2 DEF Adapter!TypeOK, AdapterLocking, Adapter!InCall, AdapterEnding
<1>8. AdapterQuiet'
  BY <1>1, <1>2 DEF AdapterQuiet
<1>9. AdapterEnding'
  BY <1>1, <1>2 DEF Adapter!TypeOK, AdapterShapes, AdapterEnding, AdapterFated, AdapterLocking, Adapter!InCall
<1>10. AdapterFated'
  BY <1>1, <1>2 DEF Adapter!TypeOK, AdapterShapes, AdapterEnding, AdapterFated
<1>11. QED
  BY <1>3, <1>4, <1>5, <1>6, <1>7, <1>8, <1>9, <1>10

LEMMA InboundLockStep ==
  ASSUME AdapterBounds, AdapterInv, Adapter!InboundLock
  PROVE  AdapterInv'
<1> USE DEF AdapterBounds, AdapterInv, Adapter!InboundLock, Adapter!pumps, Adapter!fate, Adapter!locks, Adapter!shares
<1>1. UNCHANGED <<Adapter!loading, adapterOpen, tries>>
  OBVIOUS
<1>2. adapterOpen = "up"
  BY DEF AdapterQuiet, Adapter!Idle
<1>3. Adapter!TypeOK'
  BY <1>1, <1>2 DEF Adapter!TypeOK, AdapterEnding, AdapterShapes, Adapter!InCall, Adapter!loading
<1>4. AdapterShapes'
  BY <1>1, <1>2 DEF Adapter!TypeOK, AdapterShapes, AdapterEnding, Adapter!loading
<1>5. AdapterLoading'
  BY <1>1, LibraryKept
<1>6. AdapterDevice'
  BY <1>1, <1>2 DEF AdapterDevice, AdapterEnding
<1>7. AdapterLocking'
  BY <1>2 DEF Adapter!TypeOK, AdapterLocking, Adapter!InCall, AdapterEnding
<1>8. AdapterQuiet'
  BY <1>1, <1>2 DEF AdapterQuiet
<1>9. AdapterEnding'
  BY <1>1, <1>2 DEF Adapter!TypeOK, AdapterShapes, AdapterEnding, AdapterFated, AdapterLocking, Adapter!InCall
<1>10. AdapterFated'
  BY <1>1, <1>2 DEF Adapter!TypeOK, AdapterShapes, AdapterEnding, AdapterFated
<1>11. QED
  BY <1>3, <1>4, <1>5, <1>6, <1>7, <1>8, <1>9, <1>10

LEMMA InboundPollStep ==
  ASSUME AdapterBounds, AdapterInv, Adapter!InboundPoll
  PROVE  AdapterInv'
<1> USE DEF AdapterBounds, AdapterInv, Adapter!InboundPoll, Adapter!pumps, Adapter!fate, Adapter!locks, Adapter!returns, Adapter!parks
<1>1. UNCHANGED <<Adapter!loading, adapterOpen, tries>>
  OBVIOUS
<1>2. adapterOpen = "up"
  BY DEF AdapterQuiet, Adapter!Idle
<1>3. Adapter!TypeOK'
  BY <1>1, <1>2 DEF Adapter!TypeOK, AdapterEnding, AdapterShapes, Adapter!InCall, Adapter!loading
<1>4. AdapterShapes'
  BY <1>1, <1>2 DEF Adapter!TypeOK, AdapterShapes, AdapterEnding, Adapter!loading
<1>5. AdapterLoading'
  BY <1>1, LibraryKept
<1>6. AdapterDevice'
  BY <1>1, <1>2 DEF AdapterDevice, AdapterEnding
<1>7. AdapterLocking'
  BY <1>2 DEF Adapter!TypeOK, AdapterLocking, Adapter!InCall, AdapterEnding
<1>8. AdapterQuiet'
  BY <1>1, <1>2 DEF AdapterQuiet
<1>9. AdapterEnding'
  BY <1>1, <1>2 DEF Adapter!TypeOK, AdapterShapes, AdapterEnding, AdapterFated, AdapterLocking, Adapter!InCall
<1>10. AdapterFated'
  BY <1>1, <1>2 DEF Adapter!TypeOK, AdapterShapes, AdapterEnding, AdapterFated
<1>11. QED
  BY <1>3, <1>4, <1>5, <1>6, <1>7, <1>8, <1>9, <1>10

LEMMA InboundWakeStep ==
  ASSUME AdapterBounds, AdapterInv, Adapter!InboundWake
  PROVE  AdapterInv'
<1> USE DEF AdapterBounds, AdapterInv, Adapter!InboundWake, Adapter!pumps, Adapter!fate, Adapter!locks, Adapter!returns
<1>1. UNCHANGED <<Adapter!loading, adapterOpen, tries>>
  OBVIOUS
<1>2. adapterOpen = "up"
  BY DEF AdapterQuiet, Adapter!Idle
<1>3. Adapter!TypeOK'
  BY <1>1, <1>2 DEF Adapter!TypeOK, AdapterEnding, AdapterShapes, Adapter!InCall, Adapter!loading
<1>4. AdapterShapes'
  BY <1>1, <1>2 DEF Adapter!TypeOK, AdapterShapes, AdapterEnding, Adapter!loading
<1>5. AdapterLoading'
  BY <1>1, LibraryKept
<1>6. AdapterDevice'
  BY <1>1, <1>2 DEF AdapterDevice, AdapterEnding
<1>7. AdapterLocking'
  BY <1>2 DEF Adapter!TypeOK, AdapterLocking, Adapter!InCall, AdapterEnding
<1>8. AdapterQuiet'
  BY <1>1, <1>2 DEF AdapterQuiet
<1>9. AdapterEnding'
  BY <1>1, <1>2 DEF Adapter!TypeOK, AdapterShapes, AdapterEnding, AdapterFated, AdapterLocking, Adapter!InCall
<1>10. AdapterFated'
  BY <1>1, <1>2 DEF Adapter!TypeOK, AdapterShapes, AdapterEnding, AdapterFated
<1>11. QED
  BY <1>3, <1>4, <1>5, <1>6, <1>7, <1>8, <1>9, <1>10

LEMMA InboundFailsStep ==
  ASSUME AdapterBounds, AdapterInv, Adapter!InboundFails
  PROVE  AdapterInv'
<1> USE DEF AdapterBounds, AdapterInv, Adapter!InboundFails, Adapter!pumps, Adapter!fate, Adapter!locks
<1>1. UNCHANGED <<Adapter!loading, adapterOpen, tries>>
  OBVIOUS
<1>2. adapterOpen = "up"
  BY DEF AdapterQuiet, Adapter!Idle
<1>3. Adapter!TypeOK'
  BY <1>1, <1>2 DEF Adapter!TypeOK, AdapterEnding, AdapterShapes, Adapter!InCall, Adapter!loading
<1>4. AdapterShapes'
  BY <1>1, <1>2 DEF Adapter!TypeOK, AdapterShapes, AdapterEnding, Adapter!loading
<1>5. AdapterLoading'
  BY <1>1, LibraryKept
<1>6. AdapterDevice'
  BY <1>1, <1>2 DEF AdapterDevice, AdapterEnding
<1>7. AdapterLocking'
  BY <1>2 DEF Adapter!TypeOK, AdapterLocking, Adapter!InCall, AdapterEnding
<1>8. AdapterQuiet'
  BY <1>1, <1>2 DEF AdapterQuiet
<1>9. AdapterEnding'
  BY <1>1, <1>2 DEF Adapter!TypeOK, AdapterShapes, AdapterEnding, AdapterFated, AdapterLocking, Adapter!InCall
<1>10. AdapterFated'
  BY <1>1, <1>2 DEF Adapter!TypeOK, AdapterShapes, AdapterEnding, AdapterFated
<1>11. QED
  BY <1>3, <1>4, <1>5, <1>6, <1>7, <1>8, <1>9, <1>10

LEMMA OutboundReadStep ==
  ASSUME AdapterBounds, AdapterInv, Adapter!OutboundRead
  PROVE  AdapterInv'
<1> USE DEF AdapterBounds, AdapterInv, Adapter!OutboundRead, Adapter!pumps, Adapter!fate, Adapter!locks
<1>1. UNCHANGED <<Adapter!loading, adapterOpen, tries>>
  OBVIOUS
<1>2. adapterOpen = "up"
  BY DEF AdapterQuiet, Adapter!Idle
<1>3. Adapter!TypeOK'
  BY <1>1, <1>2 DEF Adapter!TypeOK, AdapterEnding, AdapterShapes, Adapter!InCall, Adapter!loading
<1>4. AdapterShapes'
  BY <1>1, <1>2 DEF Adapter!TypeOK, AdapterShapes, AdapterEnding, Adapter!loading
<1>5. AdapterLoading'
  BY <1>1, LibraryKept
<1>6. AdapterDevice'
  BY <1>1, <1>2 DEF AdapterDevice, AdapterEnding
<1>7. AdapterLocking'
  BY <1>2 DEF Adapter!TypeOK, AdapterLocking, Adapter!InCall, AdapterEnding
<1>8. AdapterQuiet'
  BY <1>1, <1>2 DEF AdapterQuiet
<1>9. AdapterEnding'
  BY <1>1, <1>2 DEF Adapter!TypeOK, AdapterShapes, AdapterEnding, AdapterFated, AdapterLocking, Adapter!InCall
<1>10. AdapterFated'
  BY <1>1, <1>2 DEF Adapter!TypeOK, AdapterShapes, AdapterEnding, AdapterFated
<1>11. QED
  BY <1>3, <1>4, <1>5, <1>6, <1>7, <1>8, <1>9, <1>10

LEMMA OutboundLockStep ==
  ASSUME AdapterBounds, AdapterInv, Adapter!OutboundLock
  PROVE  AdapterInv'
<1> USE DEF AdapterBounds, AdapterInv, Adapter!OutboundLock, Adapter!pumps, Adapter!fate, Adapter!locks, Adapter!shares
<1>1. UNCHANGED <<Adapter!loading, adapterOpen, tries>>
  OBVIOUS
<1>2. adapterOpen = "up"
  BY DEF AdapterQuiet, Adapter!Idle
<1>3. Adapter!TypeOK'
  BY <1>1, <1>2 DEF Adapter!TypeOK, AdapterEnding, AdapterShapes, Adapter!InCall, Adapter!loading
<1>4. AdapterShapes'
  BY <1>1, <1>2 DEF Adapter!TypeOK, AdapterShapes, AdapterEnding, Adapter!loading
<1>5. AdapterLoading'
  BY <1>1, LibraryKept
<1>6. AdapterDevice'
  BY <1>1, <1>2 DEF AdapterDevice, AdapterEnding
<1>7. AdapterLocking'
  BY <1>2 DEF Adapter!TypeOK, AdapterLocking, Adapter!InCall, AdapterEnding
<1>8. AdapterQuiet'
  BY <1>1, <1>2 DEF AdapterQuiet
<1>9. AdapterEnding'
  BY <1>1, <1>2 DEF Adapter!TypeOK, AdapterShapes, AdapterEnding, AdapterFated, AdapterLocking, Adapter!InCall
<1>10. AdapterFated'
  BY <1>1, <1>2 DEF Adapter!TypeOK, AdapterShapes, AdapterEnding, AdapterFated
<1>11. QED
  BY <1>3, <1>4, <1>5, <1>6, <1>7, <1>8, <1>9, <1>10

LEMMA OutboundSendStep ==
  ASSUME AdapterBounds, AdapterInv, Adapter!OutboundSend
  PROVE  AdapterInv'
<1> USE DEF AdapterBounds, AdapterInv, Adapter!OutboundSend, Adapter!pumps, Adapter!fate, Adapter!locks, Adapter!returns
<1>1. UNCHANGED <<Adapter!loading, adapterOpen, tries>>
  OBVIOUS
<1>2. adapterOpen = "up"
  BY DEF AdapterQuiet, Adapter!Idle
<1>3. Adapter!TypeOK'
  BY <1>1, <1>2 DEF Adapter!TypeOK, AdapterEnding, AdapterShapes, Adapter!InCall, Adapter!loading
<1>4. AdapterShapes'
  BY <1>1, <1>2 DEF Adapter!TypeOK, AdapterShapes, AdapterEnding, Adapter!loading
<1>5. AdapterLoading'
  BY <1>1, LibraryKept
<1>6. AdapterDevice'
  BY <1>1, <1>2 DEF AdapterDevice, AdapterEnding
<1>7. AdapterLocking'
  BY <1>2 DEF Adapter!TypeOK, AdapterLocking, Adapter!InCall, AdapterEnding
<1>8. AdapterQuiet'
  BY <1>1, <1>2 DEF AdapterQuiet
<1>9. AdapterEnding'
  BY <1>1, <1>2 DEF Adapter!TypeOK, AdapterShapes, AdapterEnding, AdapterFated, AdapterLocking, Adapter!InCall
<1>10. AdapterFated'
  BY <1>1, <1>2 DEF Adapter!TypeOK, AdapterShapes, AdapterEnding, AdapterFated
<1>11. QED
  BY <1>3, <1>4, <1>5, <1>6, <1>7, <1>8, <1>9, <1>10

LEMMA OwnerClosesStep ==
  ASSUME AdapterBounds, AdapterInv, Adapter!OwnerCloses
  PROVE  AdapterInv'
<1> USE DEF AdapterBounds, AdapterInv, Adapter!OwnerCloses, Adapter!pumps, Adapter!fate, Adapter!locks
<1>1. UNCHANGED <<Adapter!loading, adapterOpen, tries>>
  OBVIOUS
<1>2. adapterOpen = "up"
  BY DEF AdapterQuiet, Adapter!Idle
<1>3. Adapter!TypeOK'
  BY <1>1, <1>2 DEF Adapter!TypeOK, AdapterEnding, AdapterShapes, Adapter!InCall, Adapter!loading
<1>4. AdapterShapes'
  BY <1>1, <1>2 DEF Adapter!TypeOK, AdapterShapes, AdapterEnding, Adapter!loading
<1>5. AdapterLoading'
  BY <1>1, LibraryKept
<1>6. AdapterDevice'
  BY <1>1, <1>2 DEF AdapterDevice, AdapterEnding
<1>7. AdapterLocking'
  BY <1>2 DEF Adapter!TypeOK, AdapterLocking, Adapter!InCall, AdapterEnding
<1>8. AdapterQuiet'
  BY <1>1, <1>2 DEF AdapterQuiet
<1>9. AdapterEnding'
  BY <1>1, <1>2 DEF Adapter!TypeOK, AdapterShapes, AdapterEnding, AdapterFated, AdapterLocking, Adapter!InCall
<1>10. AdapterFated'
  BY <1>1, <1>2 DEF Adapter!TypeOK, AdapterShapes, AdapterEnding, AdapterFated
<1>11. QED
  BY <1>3, <1>4, <1>5, <1>6, <1>7, <1>8, <1>9, <1>10

LEMMA SuperviseStep ==
  ASSUME AdapterBounds, AdapterInv, Adapter!Supervise
  PROVE  AdapterInv'
<1> USE DEF AdapterBounds, AdapterInv, Adapter!Supervise, Adapter!pumps, Adapter!fate, Adapter!locks
<1>1. UNCHANGED <<Adapter!loading, adapterOpen, tries>>
  OBVIOUS
<1>2. adapterOpen = "up"
  BY DEF AdapterQuiet, Adapter!Idle
<1>3. Adapter!TypeOK'
  BY <1>1, <1>2 DEF Adapter!TypeOK, AdapterEnding, AdapterShapes, Adapter!InCall, Adapter!loading
<1>4. AdapterShapes'
  BY <1>1, <1>2 DEF Adapter!TypeOK, AdapterShapes, AdapterEnding, Adapter!loading
<1>5. AdapterLoading'
  BY <1>1, LibraryKept
<1>6. AdapterDevice'
  BY <1>1, <1>2 DEF AdapterDevice, AdapterEnding
<1>7. AdapterLocking'
  BY <1>2 DEF Adapter!TypeOK, AdapterLocking, Adapter!InCall, AdapterEnding
<1>8. AdapterQuiet'
  BY <1>1, <1>2 DEF AdapterQuiet
<1>9. AdapterEnding'
  BY <1>1, <1>2 DEF Adapter!TypeOK, AdapterShapes, AdapterEnding, AdapterFated, AdapterLocking, Adapter!InCall
<1>10. AdapterFated'
  BY <1>1, <1>2 DEF Adapter!TypeOK, AdapterShapes, AdapterEnding, AdapterFated
<1>11. QED
  BY <1>3, <1>4, <1>5, <1>6, <1>7, <1>8, <1>9, <1>10

LEMMA ClaimStep ==
  ASSUME AdapterBounds, AdapterInv, Adapter!Claim
  PROVE  AdapterInv'
<1> USE DEF AdapterBounds, AdapterInv, Adapter!Claim, Adapter!pumps, Adapter!fate, Adapter!locks
<1>1. UNCHANGED <<Adapter!loading, adapterOpen, tries>>
  OBVIOUS
<1>2. adapterOpen = "up"
  BY DEF AdapterQuiet, Adapter!Idle
<1>3. Adapter!TypeOK'
  BY <1>1, <1>2 DEF Adapter!TypeOK, AdapterEnding, AdapterShapes, Adapter!InCall, Adapter!loading
<1>4. AdapterShapes'
  BY <1>1, <1>2 DEF Adapter!TypeOK, AdapterShapes, AdapterEnding, Adapter!loading
<1>5. AdapterLoading'
  BY <1>1, LibraryKept
<1>6. AdapterDevice'
  BY <1>1, <1>2 DEF AdapterDevice, AdapterEnding
<1>7. AdapterLocking'
  BY <1>2 DEF Adapter!TypeOK, AdapterLocking, Adapter!InCall, AdapterEnding
<1>8. AdapterQuiet'
  BY <1>1, <1>2 DEF AdapterQuiet
<1>9. AdapterEnding'
  BY <1>1, <1>2 DEF Adapter!TypeOK, AdapterShapes, AdapterEnding, AdapterFated, AdapterLocking, Adapter!InCall
<1>10. AdapterFated'
  BY <1>1, <1>2 DEF Adapter!TypeOK, AdapterShapes, AdapterEnding, AdapterFated
<1>11. QED
  BY <1>3, <1>4, <1>5, <1>6, <1>7, <1>8, <1>9, <1>10

LEMMA EnterStep ==
  ASSUME AdapterBounds, AdapterInv, NEW who \in {"owner", "runner"}, Adapter!Enter(who)
  PROVE  AdapterInv'
<1> USE DEF AdapterBounds, AdapterInv, Adapter!Enter, Adapter!pumps, Adapter!fate, Adapter!locks
<1>1. UNCHANGED <<Adapter!loading, adapterOpen, tries>>
  OBVIOUS
<1>2. adapterOpen = "up"
  BY DEF AdapterQuiet, Adapter!Idle
<1>3. Adapter!TypeOK'
  BY <1>1, <1>2 DEF Adapter!TypeOK, AdapterEnding, AdapterShapes, Adapter!InCall, Adapter!loading
<1>4. AdapterShapes'
  BY <1>1, <1>2 DEF Adapter!TypeOK, AdapterShapes, AdapterEnding, Adapter!loading
<1>5. AdapterLoading'
  BY <1>1, LibraryKept
<1>6. AdapterDevice'
  BY <1>1, <1>2 DEF AdapterDevice, AdapterEnding
<1>7. AdapterLocking'
  BY <1>2 DEF Adapter!TypeOK, AdapterLocking, Adapter!InCall, AdapterEnding
<1>8. AdapterQuiet'
  BY <1>1, <1>2 DEF AdapterQuiet
<1>9. AdapterEnding'
  BY <1>1, <1>2 DEF Adapter!TypeOK, AdapterShapes, AdapterEnding, AdapterFated, AdapterLocking, Adapter!InCall
<1>10. AdapterFated'
  BY <1>1, <1>2 DEF Adapter!TypeOK, AdapterShapes, AdapterEnding, AdapterFated
<1>11. QED
  BY <1>3, <1>4, <1>5, <1>6, <1>7, <1>8, <1>9, <1>10

LEMMA EndSessionStep ==
  ASSUME AdapterBounds, AdapterInv, Adapter!EndSession
  PROVE  AdapterInv'
<1> USE DEF AdapterBounds, AdapterInv, Adapter!EndSession, Adapter!pumps, Adapter!fate, Adapter!locks
<1>1. UNCHANGED <<Adapter!loading, adapterOpen, tries>>
  OBVIOUS
<1>2. adapterOpen = "up"
  BY DEF AdapterQuiet, Adapter!Idle
<1>3. Adapter!TypeOK'
  BY <1>1, <1>2 DEF Adapter!TypeOK, AdapterEnding, AdapterShapes, Adapter!InCall, Adapter!loading
<1>4. AdapterShapes'
  BY <1>1, <1>2 DEF Adapter!TypeOK, AdapterShapes, AdapterEnding, Adapter!loading
<1>5. AdapterLoading'
  BY <1>1, LibraryKept
<1>6. AdapterDevice'
  BY <1>1, <1>2 DEF AdapterDevice, AdapterEnding
<1>7. AdapterLocking'
  BY <1>2 DEF Adapter!TypeOK, AdapterLocking, Adapter!InCall, AdapterEnding
<1>8. AdapterQuiet'
  BY <1>1, <1>2 DEF AdapterQuiet
<1>9. AdapterEnding'
  BY <1>1, <1>2 DEF Adapter!TypeOK, AdapterShapes, AdapterEnding, AdapterFated, AdapterLocking, Adapter!InCall
<1>10. AdapterFated'
  BY <1>1, <1>2 DEF Adapter!TypeOK, AdapterShapes, AdapterEnding, AdapterFated
<1>11. QED
  BY <1>3, <1>4, <1>5, <1>6, <1>7, <1>8, <1>9, <1>10

LEMMA FinishStep ==
  ASSUME AdapterBounds, AdapterInv, Adapter!Finish
  PROVE  AdapterInv'
<1> USE DEF AdapterBounds, AdapterInv, Adapter!Finish, Adapter!pumps, Adapter!fate, Adapter!locks
<1>1. UNCHANGED <<Adapter!loading, adapterOpen, tries>>
  OBVIOUS
<1>2. adapterOpen = "up"
  BY DEF AdapterQuiet, Adapter!Idle
<1>3. Adapter!TypeOK'
  BY <1>1, <1>2 DEF Adapter!TypeOK, AdapterEnding, AdapterShapes, Adapter!InCall, Adapter!loading
<1>4. AdapterShapes'
  BY <1>1, <1>2 DEF Adapter!TypeOK, AdapterShapes, AdapterEnding, Adapter!loading
<1>5. AdapterLoading'
  BY <1>1, LibraryKept
<1>6. AdapterDevice'
  BY <1>1, <1>2 DEF AdapterDevice, AdapterEnding
<1>7. AdapterLocking'
  BY <1>2 DEF Adapter!TypeOK, AdapterLocking, Adapter!InCall, AdapterEnding
<1>8. AdapterQuiet'
  BY <1>1, <1>2 DEF AdapterQuiet
<1>9. AdapterEnding'
  BY <1>1, <1>2 DEF Adapter!TypeOK, AdapterShapes, AdapterEnding, AdapterFated, AdapterLocking, Adapter!InCall
<1>10. AdapterFated'
  BY <1>1, <1>2 DEF Adapter!TypeOK, AdapterShapes, AdapterEnding, AdapterFated
<1>11. QED
  BY <1>3, <1>4, <1>5, <1>6, <1>7, <1>8, <1>9, <1>10

LEMMA FindClosedStep ==
  ASSUME AdapterBounds, AdapterInv, Adapter!FindClosed
  PROVE  AdapterInv'
<1> USE DEF AdapterBounds, AdapterInv, Adapter!FindClosed, Adapter!pumps, Adapter!fate, Adapter!locks
<1>1. UNCHANGED <<Adapter!loading, adapterOpen, tries>>
  OBVIOUS
<1>2. adapterOpen = "up"
  BY DEF AdapterQuiet, Adapter!Idle
<1>3. Adapter!TypeOK'
  BY <1>1, <1>2 DEF Adapter!TypeOK, AdapterEnding, AdapterShapes, Adapter!InCall, Adapter!loading
<1>4. AdapterShapes'
  BY <1>1, <1>2 DEF Adapter!TypeOK, AdapterShapes, AdapterEnding, Adapter!loading
<1>5. AdapterLoading'
  BY <1>1, LibraryKept
<1>6. AdapterDevice'
  BY <1>1, <1>2 DEF AdapterDevice, AdapterEnding
<1>7. AdapterLocking'
  BY <1>2 DEF Adapter!TypeOK, AdapterLocking, Adapter!InCall, AdapterEnding
<1>8. AdapterQuiet'
  BY <1>1, <1>2 DEF AdapterQuiet
<1>9. AdapterEnding'
  BY <1>1, <1>2 DEF Adapter!TypeOK, AdapterShapes, AdapterEnding, AdapterFated, AdapterLocking, Adapter!InCall
<1>10. AdapterFated'
  BY <1>1, <1>2 DEF Adapter!TypeOK, AdapterShapes, AdapterEnding, AdapterFated
<1>11. QED
  BY <1>3, <1>4, <1>5, <1>6, <1>7, <1>8, <1>9, <1>10

LEMMA LetGoStep ==
  ASSUME AdapterBounds, AdapterInv, Adapter!LetGo
  PROVE  AdapterInv'
<1> USE DEF AdapterBounds, AdapterInv, Adapter!LetGo, Adapter!loading, Adapter!locks, Adapter!pumps
<1>1. Adapter!TypeOK'
  BY DEF Adapter!TypeOK
<1>2. AdapterShapes'
  BY DEF AdapterShapes
<1>3. AdapterLoading'
  BY DEF AdapterLoading
<1>4. session = "ended" /\ inbound = "done" /\ outbound = "done"
  BY DEF AdapterEnding
<1>5. AdapterDevice'
  BY <1>4 DEF AdapterDevice, Adapter!TypeOK
<1>6. AdapterLocking'
  BY DEF AdapterLocking
<1>7. AdapterQuiet'
  BY <1>4 DEF AdapterQuiet, Adapter!Idle, AdapterLocking, Adapter!TypeOK, AdapterFated, Adapter!InCall
<1>8. AdapterEnding' /\ AdapterFated'
  BY DEF AdapterEnding, AdapterFated
<1>9. QED
  BY <1>1, <1>2, <1>3, <1>5, <1>6, <1>7, <1>8

LEMMA AdapterInvStep ==
  ASSUME AdapterBounds, AdapterInv, [Adapter!Next]_Adapter!vars
  PROVE  AdapterInv'
<1>1. CASE Adapter!Swap \/ Adapter!Begin \/ Adapter!Verify \/ Adapter!Load \/ Adapter!Create \/ Adapter!Removed \/ Adapter!StartSession \/ Adapter!LetGo
  BY <1>1, SwapStep, BeginStep, VerifyStep, LoadStep, CreateStep, RemovedStep, StartSessionStep, LetGoStep
<1>2. CASE Adapter!Pumps
  BY <1>2, InboundCheckStep, InboundLockStep, InboundPollStep, InboundWakeStep, InboundFailsStep,
     OutboundReadStep, OutboundLockStep, OutboundSendStep DEF Adapter!Pumps
<1>3. CASE Adapter!OwnerCloses \/ Adapter!Fate
  BY <1>3, OwnerClosesStep, SuperviseStep, ClaimStep, EnterStep, EndSessionStep, FinishStep, FindClosedStep DEF Adapter!Fate
<1>4. CASE UNCHANGED Adapter!vars
  <2> USE <1>4 DEF Adapter!vars, Adapter!loading, Adapter!locks, Adapter!pumps, Adapter!fate, AdapterInv
  <2>1. Adapter!TypeOK' /\ AdapterShapes'
    BY DEF Adapter!TypeOK, AdapterShapes
  <2>2. AdapterLoading' /\ AdapterDevice'
    BY DEF AdapterLoading, AdapterDevice
  <2>3. AdapterLocking' /\ AdapterQuiet' /\ AdapterEnding' /\ AdapterFated'
    BY SessionKept
  <2>4. QED
    BY <2>1, <2>2, <2>3
<1>5. QED
  BY <1>1, <1>2, <1>3, <1>4 DEF Adapter!Next

LEMMA AdapterInvHolds ==
  ASSUME AdapterBounds
  PROVE  Adapter!Spec => []AdapterInv
<1>1. Adapter!Init => AdapterInv
  <2> SUFFICES ASSUME Adapter!Init PROVE AdapterInv
    OBVIOUS
  <2> USE DEF Adapter!Init, Adapter!Idle
  <2>1. Adapter!TypeOK
    BY DEF Adapter!TypeOK, AdapterBounds
  <2>2. AdapterShapes
    BY DEF AdapterShapes, AdapterBounds
  <2>3. AdapterLoading /\ AdapterDevice
    BY DEF AdapterLoading, AdapterDevice, AdapterBounds
  <2>4. AdapterLocking /\ AdapterQuiet /\ AdapterEnding /\ AdapterFated
    BY DEF AdapterLocking, AdapterQuiet, AdapterEnding, AdapterFated, Adapter!InCall
  <2>5. QED
    BY <2>1, <2>2, <2>3, <2>4 DEF AdapterInv
<1>2. AdapterInv /\ [Adapter!Next]_Adapter!vars => AdapterInv'
  BY AdapterInvStep
<1>3. QED
  BY <1>1, <1>2, PTL DEF Adapter!Spec

-----------------------------------------------------------------------------
(* What holds of every behaviour *)

(* The fields of the adapter, the runner and the loader keep their shapes. *)
THEOREM AdapterTypes ==
  ASSUME AdapterBounds
  PROVE  Adapter!Spec => []Adapter!TypeOK
<1>1. AdapterInv => Adapter!TypeOK
  BY DEF AdapterInv
<1>2. QED
  BY <1>1, AdapterInvHolds, PTL

(* WintunEndSession runs under no driver call: a pump parked in the bounded wait of
   receiveOnce, or inside any call when Close asks for the lock, is in an open session. *)
THEOREM CallsEndWithinTheSession ==
  ASSUME AdapterBounds
  PROVE  Adapter!Spec => []Adapter!NoCallOutlivesTheSession
<1>1. AdapterInv => Adapter!NoCallOutlivesTheSession
  BY DEF AdapterInv, AdapterQuiet, Adapter!Idle, AdapterEnding, Adapter!NoCallOutlivesTheSession
<1>2. QED
  BY <1>1, AdapterInvHolds, PTL

(* A failed ring that runnerFate was told of before anybody asked for the end is in its
   channel, being acted on, or overtaken by the owner's own Close. *)
THEOREM FailuresAreKept ==
  ASSUME AdapterBounds
  PROVE  Adapter!Spec => []Adapter!FailureIsNotLost
<1>1. AdapterInv => Adapter!FailureIsNotLost
  BY DEF AdapterInv, AdapterEnding, Adapter!FailureIsNotLost
<1>2. QED
  BY <1>1, AdapterInvHolds, PTL

(* Whatever files a user puts in the search paths and whenever, the only library loaded is
   the pinned one, one of the owner and the runner ends the session, once, and OnFatal is
   called only by a runner that claimed the teardown and after both pumps are gone. *)
THEOREM AdapterTakenDown ==
  ASSUME AdapterBounds
  PROVE  Adapter!Spec => []Adapter!AdapterIsTakenDownOnce
<1>1. AdapterInv => Adapter!NoCallOutlivesTheSession /\ Adapter!FailureIsNotLost
  BY DEF AdapterInv, AdapterQuiet, Adapter!Idle, AdapterEnding, Adapter!NoCallOutlivesTheSession, Adapter!FailureIsNotLost
<1>2. AdapterInv => Adapter!OneTakesItDown
  BY DEF AdapterInv, AdapterShapes, AdapterQuiet, Adapter!Idle, AdapterEnding, AdapterFated, Adapter!OneTakesItDown
<1>3. AdapterInv => Adapter!DriverIsVerified
  BY DEF AdapterInv, AdapterLoading, AdapterDevice, Adapter!DriverIsVerified
<1>4. AdapterInv => Adapter!AdapterIsTakenDownOnce
  BY <1>1, <1>2, <1>3 DEF Adapter!AdapterIsTakenDownOnce
<1>5. QED
  BY <1>4, AdapterInvHolds, PTL

-----------------------------------------------------------------------------
(* The service and its bridges by themselves, for every number of bridges, connections,
   requests and failures *)

(* There are finitely many bridges, and the end of an input has the number of a request. *)
ServiceBounds ==
  /\ IsFiniteSet(Bridges)
  /\ EndpointConnections \in Nat /\ PendingRequests \in Nat /\ ServiceRequests \in Nat \ {0}
  /\ TeardownFaults \in Nat

(* What TypeOK says of everything but the requests that wait *)
ServiceShapes ==
  /\ mode \in {"stdio", "endpoint", "service"}
  /\ main \in {"serving", "stopping", "cleanup", "deferred", "exited", "killed"}
  /\ serviceAttempts \in 0..2 /\ completed \in BOOLEAN /\ code \in 0..1
  /\ dataplane \in BOOLEAN /\ shuttingDown \in BOOLEAN /\ teardownErr \in BOOLEAN
  /\ unfinished \in BOOLEAN /\ state \in {"Disconnected", "Error"}
  /\ conn \in [Bridges -> {"none", "waiting", "served", "closed"}]
  /\ partial \in [Bridges -> BOOLEAN] /\ timer \in [Bridges -> BOOLEAN]
  /\ bridge \in [Bridges -> {"none", "handshake", "ready", "failed", "disposing", "ending", "disposed"}]
  /\ bstatus \in [Bridges -> {"Disconnected", "Error"}]
  /\ requests \in 0..ServiceRequests /\ serviceFaults \in 0..TeardownFaults

(* Answers that do not hide what their command left behind *)
Told == {a \in Service!Answers : a.left => ~a.ok}

(* Commands and answers on their way *)
Carried ==
  /\ serviceInbox \in [Bridges -> Seq(Service!Cmd)] /\ outbox \in [Bridges -> Seq(Told)]
  /\ writing \in [Bridges -> Seq(Told)]

(* Requests that wait *)
Waiting ==
  /\ pending \in [Bridges -> SUBSET (1..ServiceRequests)]
  /\ \A b \in Bridges : Cardinality(pending[b]) <= PendingRequests

(* A cleanup that completed was a shutdown, which leaves no adapter and nothing to report. *)
CompletedIsShutdown == completed => shuttingDown /\ ~teardownErr

(* Only the cleanups of the way out are remembered, and each of them is. *)
ServingIsClean ==
  /\ main \in {"serving", "stopping"} => ~teardownErr
  /\ unfinished = teardownErr

(* A bridge that has not opened has no connection, and a connection that is not served has
   neither frame nor answer under way. *)
OpensOnce ==
  \A b \in Bridges :
    /\ bridge[b] = "none" => conn[b] = "none"
    /\ conn[b] \in {"none", "waiting"} => ~partial[b] /\ writing[b] = << >>

Teardown == Service!EndsWithoutAdapter /\ Service!ExitTells /\ CompletedIsShutdown /\ ServingIsClean

ServiceInv == ServiceShapes /\ Carried /\ Waiting /\ Teardown /\ OpensOnce /\ Service!RequestsAreSettled /\ Service!SlotsAreReturned

-----------------------------------------------------------------------------
(* The commands *)

LEMMA CommandStep ==
  ASSUME ServiceBounds, ServiceShapes, Teardown, main \in {"serving", "stopping"},
         NEW type, NEW ok \in BOOLEAN, NEW left \in BOOLEAN, Service!HandleCommand(type, ok, left),
         completed' = (completed \/ (type = "shutdown" /\ ok)), UNCHANGED <<main, code>>
  PROVE  /\ dataplane' \in BOOLEAN /\ shuttingDown' \in BOOLEAN /\ teardownErr' \in BOOLEAN
         /\ unfinished' \in BOOLEAN /\ completed' \in BOOLEAN /\ state' \in {"Disconnected", "Error"}
         /\ serviceFaults' \in 0..TeardownFaults
         /\ Teardown'
<1> USE DEF ServiceBounds, ServiceShapes, Teardown, Service!EndsWithoutAdapter, Service!ExitTells,
            CompletedIsShutdown, ServingIsClean
<1>1. CASE Service!Refused /\ type # "shutdown"
  BY <1>1 DEF Service!Refused, Service!serviceVars
<1>2. CASE Service!handleStartDataplane(ok) /\ ~shuttingDown /\ type # "shutdown"
  <2>1. dataplane' \in BOOLEAN /\ serviceFaults' \in 0..TeardownFaults
    <3>1. CASE dataplane' \in BOOLEAN /\ UNCHANGED serviceFaults
      BY <3>1
    <3>2. CASE serviceFaults < TeardownFaults /\ serviceFaults' = serviceFaults + 1
      <4>1. dataplane' = TRUE \/ dataplane' = FALSE \/ dataplane' \in BOOLEAN
        BY <1>2 DEF Service!handleStartDataplane, Service!CloseRunner
      <4>2. serviceFaults \in Nat /\ TeardownFaults \in Nat
        OBVIOUS
      <4>3. serviceFaults' \in 0..TeardownFaults
        BY <3>2, <4>2
      <4>4. QED
        BY <4>1, <4>3
    <3>3. QED
      BY <1>2, <3>1, <3>2 DEF Service!handleStartDataplane, Service!CloseRunner
  <2>2. UNCHANGED <<state, shuttingDown, teardownErr, unfinished, completed>>
    BY <1>2 DEF Service!handleStartDataplane
  <2>3. Teardown'
    BY <1>2, <2>1, <2>2
  <2>4. QED
    BY <2>1, <2>2, <2>3
<1>3. CASE Service!handleStopDataplane(ok, left) /\ type # "shutdown"
  <2>1. dataplane' = FALSE /\ serviceFaults' \in 0..TeardownFaults
    BY <1>3 DEF Service!handleStopDataplane, Service!CloseRunner
  <2>2. UNCHANGED <<state, shuttingDown, teardownErr, unfinished, completed>>
    BY <1>3 DEF Service!handleStopDataplane
  <2>3. Teardown'
    BY <2>1, <2>2
  <2>4. QED
    BY <2>1, <2>2, <2>3
<1>4. CASE Service!handleConnect(ok) /\ type # "shutdown"
  BY <1>4 DEF Service!handleConnect
<1>5. CASE Service!handleDisconnect(ok, left) /\ type # "shutdown"
  <2>1. /\ dataplane' = FALSE /\ serviceFaults' \in 0..TeardownFaults
        /\ state' \in {"Disconnected", "Error"}
    BY <1>5 DEF Service!handleDisconnect, Service!Cleanup, Service!CloseRunner
  <2>2. UNCHANGED <<shuttingDown, teardownErr, unfinished, completed>>
    BY <1>5 DEF Service!handleDisconnect
  <2>3. Teardown'
    BY <2>1, <2>2
  <2>4. QED
    BY <2>1, <2>2, <2>3
<1>6. CASE Service!handleShutdown(ok, left) /\ type = "shutdown"
  <2>1. /\ dataplane' = FALSE /\ teardownErr' = teardownErr /\ shuttingDown' = (shuttingDown \/ ok)
        /\ unfinished' = unfinished
        /\ state' \in {"Disconnected", "Error"} /\ serviceFaults' \in 0..TeardownFaults
    BY <1>6 DEF Service!handleShutdown, Service!Cleanup, Service!CloseRunner
  <2>2. shuttingDown' \in BOOLEAN /\ completed' \in BOOLEAN
    BY <2>1
  <2>3. QED
    BY <2>1, <2>2, <1>6
<1>7. QED
  BY <1>1, <1>2, <1>3, <1>4, <1>5, <1>6 DEF Service!HandleCommand, Service!Asks

LEMMA ShutdownRunStep ==
  ASSUME ServiceBounds, ServiceShapes, Teardown, NEW ok \in BOOLEAN, Service!ShutdownRun(ok)
  PROVE  /\ dataplane' = FALSE /\ shuttingDown' = (shuttingDown \/ ok) /\ shuttingDown' \in BOOLEAN
         /\ teardownErr' \in BOOLEAN /\ unfinished' = teardownErr' /\ state' \in {"Disconnected", "Error"}
         /\ serviceFaults' \in 0..TeardownFaults
         /\ ok => ~teardownErr'
<1>1. PICK left \in BOOLEAN, stuck \in BOOLEAN :
        /\ Service!CloseRunner(left) /\ teardownErr' = (teardownErr \/ left)
        /\ unfinished' = (unfinished \/ left)
        /\ stuck => ~teardownErr' /\ serviceFaults < TeardownFaults
        /\ serviceFaults' = IF left \/ stuck THEN serviceFaults + 1 ELSE serviceFaults
        /\ ok = ~(teardownErr' \/ stuck)
  BY DEF Service!ShutdownRun
<1>2. dataplane' = FALSE /\ serviceFaults' \in 0..TeardownFaults
  BY <1>1 DEF Service!CloseRunner, ServiceBounds, ServiceShapes
<1>3. shuttingDown' = (shuttingDown \/ ok) /\ shuttingDown' \in BOOLEAN /\ teardownErr' \in BOOLEAN
  BY <1>1 DEF Service!ShutdownRun, ServiceShapes
<1>4. state' \in {"Disconnected", "Error"} /\ (ok => ~teardownErr')
  BY <1>1 DEF Service!ShutdownRun
<1>5. unfinished' = teardownErr'
  BY <1>1 DEF Teardown, ServingIsClean
<1>6. QED
  BY <1>2, <1>3, <1>4, <1>5

-----------------------------------------------------------------------------
(* The service's own steps *)

LEMMA ServiceShapesStep ==
  ASSUME ServiceBounds, ServiceInv, [Service!Next]_Service!vars
  PROVE  ServiceShapes' /\ Teardown'
<1> USE DEF ServiceBounds, ServiceInv
<1>1. CASE Service!Signal
  BY <1>1 DEF Service!Signal, Service!serviceVars, Service!connVars, Service!bridgeVars, ServiceShapes, Teardown, Service!EndsWithoutAdapter, Service!ExitTells,
              CompletedIsShutdown, ServingIsClean
<1>2. CASE Service!Drained
  BY <1>2 DEF Service!Drained, Service!serviceVars, Service!connVars, Service!bridgeVars, ServiceShapes, Teardown, Service!EndsWithoutAdapter, Service!ExitTells,
              CompletedIsShutdown, ServingIsClean
<1>3. CASE Service!CleanupBeforeStopped
  <2>1. PICK ok \in BOOLEAN :
          /\ Service!ShutdownRun(ok) /\ completed' = ok /\ serviceAttempts' = serviceAttempts + 1
          /\ main' = IF ok \/ serviceAttempts' = 2 THEN "deferred" ELSE "cleanup"
          /\ code' = IF ~ok /\ serviceAttempts' = 2 THEN 1 ELSE code
    BY <1>3 DEF Service!CleanupBeforeStopped
  <2>2. /\ dataplane' = FALSE /\ shuttingDown' = (shuttingDown \/ ok) /\ shuttingDown' \in BOOLEAN
        /\ teardownErr' \in BOOLEAN /\ unfinished' = teardownErr' /\ state' \in {"Disconnected", "Error"}
        /\ serviceFaults' \in 0..TeardownFaults
        /\ ok => ~teardownErr'
    BY <2>1, ShutdownRunStep
  <2>3. serviceAttempts < 2 /\ UNCHANGED <<mode, Service!connVars, Service!bridgeVars>>
    BY <1>3 DEF Service!CleanupBeforeStopped
  <2>4. ServiceShapes'
    <3>1. code' \in 0..1 /\ serviceAttempts' \in 0..2 /\ main' \in {"cleanup", "deferred"}
      BY <2>1, <2>3 DEF ServiceShapes
    <3>2. QED
      BY <2>1, <2>2, <2>3, <3>1 DEF ServiceShapes, Service!connVars, Service!bridgeVars
  <2>5. Teardown'
    BY <2>1, <2>2 DEF Teardown, Service!EndsWithoutAdapter, Service!ExitTells, CompletedIsShutdown, ServingIsClean
  <2>6. QED
    BY <2>4, <2>5
<1>4. CASE Service!Deferred
  <2>1. /\ main' = "exited"
        /\ UNCHANGED <<mode, serviceAttempts, completed, Service!connVars, Service!bridgeVars>>
    BY <1>4 DEF Service!Deferred
  <2>2. CASE completed
    <3>1. UNCHANGED <<code, Service!serviceVars, serviceFaults>>
      BY <1>4, <2>2 DEF Service!Deferred
    <3>2. QED
      BY <2>1, <2>2, <3>1 DEF Service!serviceVars, Service!connVars, Service!bridgeVars, ServiceShapes, Teardown, Service!EndsWithoutAdapter,
              Service!ExitTells, CompletedIsShutdown, ServingIsClean
  <2>3. CASE ~completed
    <3>1. PICK ok \in BOOLEAN : Service!ShutdownRun(ok) /\ code' = IF ok THEN code ELSE 1
      BY <1>4, <2>3 DEF Service!Deferred
    <3>2. /\ dataplane' = FALSE /\ shuttingDown' = (shuttingDown \/ ok) /\ shuttingDown' \in BOOLEAN
          /\ teardownErr' \in BOOLEAN /\ unfinished' = teardownErr' /\ state' \in {"Disconnected", "Error"}
          /\ serviceFaults' \in 0..TeardownFaults
          /\ ok => ~teardownErr'
      BY <3>1, ShutdownRunStep
    <3>3. ServiceShapes'
      <4>1. code' \in 0..1
        BY <3>1 DEF ServiceShapes
      <4>2. QED
        BY <2>1, <3>2, <4>1 DEF ServiceShapes, Service!connVars, Service!bridgeVars
    <3>4. Teardown'
      BY <2>1, <2>3, <3>1, <3>2 DEF Teardown, Service!EndsWithoutAdapter, Service!ExitTells, CompletedIsShutdown, ServingIsClean
    <3>5. QED
      BY <3>3, <3>4
  <2>4. QED
    BY <2>2, <2>3
<1>5. ASSUME NEW b \in Bridges,
             Service!Accept(b) \/ Service!ReadPart(b) \/ Service!Deadline(b) \/ Service!Drain(b)
      PROVE  ServiceShapes' /\ Teardown'
  <2>1. UNCHANGED <<mode, Service!mainVars, Service!serviceVars, bridge, bstatus, requests, serviceFaults>>
    BY <1>5 DEF Service!Accept, Service!ReadPart, Service!Deadline, Service!Drain, Service!bridgeVars
  <2>2. /\ conn' \in [Bridges -> {"none", "waiting", "served", "closed"}]
        /\ partial' \in [Bridges -> BOOLEAN] /\ timer' \in [Bridges -> BOOLEAN]
    BY <1>5 DEF Service!Accept, Service!ReadPart, Service!Deadline, Service!Drain, Service!closing, Service!timed, ServiceShapes
  <2>3. QED
    BY <2>1, <2>2 DEF ServiceShapes, Teardown, Service!EndsWithoutAdapter, Service!ExitTells, CompletedIsShutdown, ServingIsClean, Service!mainVars, Service!serviceVars
<1>6. ASSUME NEW b \in Bridges, Service!Serve(b) PROVE ServiceShapes' /\ Teardown'
  <2>1. PICK ok \in BOOLEAN, left \in BOOLEAN :
          /\ Service!HandleCommand(Head(serviceInbox[b]).type, ok, left)
          /\ completed' = (completed \/ (Head(serviceInbox[b]).type = "shutdown" /\ ok))
    BY <1>6 DEF Service!Serve
  <2>2. /\ main \in {"serving", "stopping"}
        /\ UNCHANGED <<mode, main, serviceAttempts, code, conn, bridge, bstatus, requests>>
    BY <1>6 DEF Service!Serve, Service!bridgeVars
  <2>3. /\ dataplane' \in BOOLEAN /\ shuttingDown' \in BOOLEAN /\ teardownErr' \in BOOLEAN
        /\ unfinished' \in BOOLEAN /\ completed' \in BOOLEAN /\ state' \in {"Disconnected", "Error"}
        /\ serviceFaults' \in 0..TeardownFaults
        /\ Teardown'
    BY <2>1, <2>2, CommandStep
  <2>4. partial' \in [Bridges -> BOOLEAN] /\ timer' \in [Bridges -> BOOLEAN]
    BY <1>6 DEF Service!Serve, Service!timed, ServiceShapes
  <2>5. QED
    BY <2>2, <2>3, <2>4 DEF ServiceShapes
<1>7. ASSUME NEW b \in Bridges, Service!Written(b) \/ Service!InputEnds(b) PROVE ServiceShapes' /\ Teardown'
  <2>1. UNCHANGED <<mode, serviceAttempts, completed, code, Service!serviceVars, bridge, bstatus, requests, serviceFaults>>
    BY <1>7 DEF Service!Written, Service!InputEnds, Service!bridgeVars
  <2>2. main' = main \/ (main \in {"serving", "stopping"} /\ main' = "stopping")
    BY <1>7 DEF Service!Written, Service!InputEnds
  <2>3. conn' \in [Bridges -> {"none", "waiting", "served", "closed"}]
    BY <1>7 DEF Service!Written, Service!InputEnds, Service!closing, ServiceShapes
  <2>4. partial' \in [Bridges -> BOOLEAN] /\ timer' \in [Bridges -> BOOLEAN]
    BY <1>7 DEF Service!Written, Service!InputEnds, Service!timed, ServiceShapes, Service!watched
  <2>5. QED
    BY <2>1, <2>2, <2>3, <2>4 DEF ServiceShapes, Teardown, Service!EndsWithoutAdapter, Service!ExitTells, CompletedIsShutdown, ServingIsClean, Service!serviceVars
<1>8. ASSUME NEW b \in Bridges,
             \/ Service!Open(b) \/ Service!Receive(b) \/ Service!RequestTimeout(b) \/ Service!Lost(b) \/ Service!Dispose(b) \/ Service!EndInput(b)
             \/ Service!EndDispose(b)
             \/ \E type \in Service!Asks \cup {"shutdown"} : Service!Ask(b, type)
      PROVE  ServiceShapes' /\ Teardown'
  <2>1. UNCHANGED <<mode, serviceAttempts, completed, code, Service!serviceVars, serviceFaults>>
    BY <1>8 DEF Service!Open, Service!Receive, Service!RequestTimeout, Service!Lost, Service!Dispose, Service!EndInput, Service!EndDispose, Service!Ask, Service!mainVars
  <2>2. main' = main \/ main' = "killed"
    BY <1>8 DEF Service!Open, Service!Receive, Service!RequestTimeout, Service!Lost, Service!Dispose, Service!EndInput, Service!EndDispose, Service!Ask, Service!mainVars, Service!handleFailure
  <2>3. conn' \in [Bridges -> {"none", "waiting", "served", "closed"}]
    BY <1>8 DEF Service!Open, Service!Receive, Service!RequestTimeout, Service!Lost, Service!Dispose, Service!EndInput, Service!EndDispose, Service!Ask, Service!connVars, Service!handleFailure, Service!closing, ServiceShapes
  <2>4. partial' \in [Bridges -> BOOLEAN] /\ timer' \in [Bridges -> BOOLEAN]
    BY <1>8 DEF Service!Open, Service!Receive, Service!RequestTimeout, Service!Lost, Service!Dispose, Service!EndInput, Service!EndDispose, Service!Ask, Service!connVars, Service!handleFailure, ServiceShapes
  <2>5. bridge' \in [Bridges -> {"none", "handshake", "ready", "failed", "disposing", "ending", "disposed"}]
    BY <1>8 DEF Service!Open, Service!Receive, Service!RequestTimeout, Service!Lost, Service!Dispose, Service!EndInput, Service!EndDispose, Service!Ask, Service!handleFailure, ServiceShapes
  <2>6. requests' \in 0..ServiceRequests
    <3>1. requests' = requests \/ (requests < ServiceRequests /\ requests' = requests + 1)
      BY <1>8 DEF Service!Open, Service!Receive, Service!RequestTimeout, Service!Lost, Service!Dispose, Service!EndInput, Service!EndDispose, Service!Ask, Service!send
    <3>2. QED
      BY <3>1 DEF ServiceShapes
  <2>7. bstatus' \in [Bridges -> {"Disconnected", "Error"}]
    <3>1. CASE Service!Receive(b)
      <4>1. Head(outbox[b]).status \in {"none", "Disconnected", "Error"}
        <5>1. Head(outbox[b]) \in Told
          BY <3>1 DEF Service!Receive, Carried
        <5>2. QED
          BY <5>1 DEF Service!Answers, Told
      <4>2. QED
        BY <3>1, <4>1 DEF Service!Receive, ServiceShapes
    <3>2. CASE ~Service!Receive(b)
      BY <1>8, <3>2 DEF Service!Open, Service!RequestTimeout, Service!Lost, Service!Dispose, Service!EndInput, Service!EndDispose, Service!Ask, Service!handleFailure, ServiceShapes
    <3>3. QED
      BY <3>1, <3>2
  <2>8. QED
    BY <2>1, <2>2, <2>3, <2>4, <2>5, <2>6, <2>7 DEF ServiceShapes, Teardown, Service!EndsWithoutAdapter, Service!ExitTells, CompletedIsShutdown, ServingIsClean, Service!serviceVars
<1>9. CASE UNCHANGED Service!vars
  BY <1>9 DEF Service!vars, Service!serviceVars, Service!mainVars, Service!connVars, Service!bridgeVars, ServiceShapes, Teardown, Service!EndsWithoutAdapter, Service!ExitTells, CompletedIsShutdown, ServingIsClean
<1>10. QED
  BY <1>1, <1>2, <1>3, <1>4, <1>5, <1>6, <1>7, <1>8, <1>9 DEF Service!Next

-----------------------------------------------------------------------------
(* What is on its way *)

LEMMA CarriedStep ==
  ASSUME ServiceBounds, ServiceInv, ServiceShapes', [Service!Next]_Service!vars
  PROVE  Carried'
<1>c. Carried
  BY DEF ServiceInv
<1>e. << >> \in Seq(Service!Cmd) /\ << >> \in Seq(Told)
  OBVIOUS
<1>1. CASE Service!Signal \/ Service!Drained \/ Service!CleanupBeforeStopped \/ Service!Deferred
  BY <1>c, <1>1 DEF Service!Signal, Service!Drained, Service!CleanupBeforeStopped, Service!Deferred, Service!connVars, Carried
<1>0. ASSUME NEW b \in Bridges, UNCHANGED outbox,
             serviceInbox' = serviceInbox \/ serviceInbox' = [serviceInbox EXCEPT ![b] = << >>],
             writing' = writing \/ writing' = [writing EXCEPT ![b] = << >>]
      PROVE  Carried'
  <2>1. serviceInbox' \in [Bridges -> Seq(Service!Cmd)]
    BY <1>c, <1>e, <1>0 DEF Carried
  <2>2. writing' \in [Bridges -> Seq(Told)]
    BY <1>c, <1>e, <1>0 DEF Carried
  <2>3. QED
    BY <1>c, <1>0, <2>1, <2>2 DEF Carried
<1>2. ASSUME NEW b \in Bridges, Service!Accept(b) \/ Service!ReadPart(b) \/ Service!Deadline(b) \/ Service!Drain(b) \/ Service!InputEnds(b) PROVE Carried'
  BY <1>0, <1>2 DEF Service!Accept, Service!ReadPart, Service!Deadline, Service!Drain, Service!InputEnds
<1>3. ASSUME NEW b \in Bridges, Service!Serve(b) PROVE Carried'
  <2> DEFINE m == Head(serviceInbox[b])
  <2>1. serviceInbox[b] \in Seq(Service!Cmd) /\ serviceInbox[b] # << >> /\ m \in Service!Cmd
    BY <1>c, <1>3 DEF Service!Serve, Carried
  <2>2. PICK ok \in BOOLEAN, left \in BOOLEAN :
          /\ Service!HandleCommand(m.type, ok, left)
          /\ writing' = [writing EXCEPT ![b] =
               <<[id |-> m.id, ok |-> ok, last |-> m.type = "shutdown" /\ ok, left |-> left,
                  status |-> IF m.type \in {"get-status", "connect", "disconnect", "shutdown"} THEN state' ELSE "none"]>>]
    BY <1>3 DEF Service!Serve
  <2>3. (m.type = "shutdown" /\ ok) \in BOOLEAN
    OBVIOUS
  <2>4. m.id \in 1..ServiceRequests
    BY <2>1 DEF Service!Cmd
  <2>5. left => ~ok
    BY <2>2 DEF Service!HandleCommand, Service!handleStopDataplane, Service!handleDisconnect, Service!handleShutdown
  <2>6. (IF m.type \in {"get-status", "connect", "disconnect", "shutdown"} THEN state' ELSE "none") \in {"none", "Disconnected", "Error"}
    BY DEF ServiceShapes
  <2>7. \A l \in BOOLEAN, s \in {"none", "Disconnected", "Error"} :
          [id |-> m.id, ok |-> ok, last |-> l, left |-> left, status |-> s] \in Told
    BY <2>4, <2>5 DEF Service!Answers, Told
  <2> DEFINE answer == [id |-> m.id, ok |-> ok, last |-> m.type = "shutdown" /\ ok, left |-> left,
         status |-> IF m.type \in {"get-status", "connect", "disconnect", "shutdown"} THEN state' ELSE "none"]
  <2>14. answer \in Told
    BY <2>3, <2>6, <2>7, Zenon
  <2>8. answer \in Told /\ writing' = [writing EXCEPT ![b] = <<answer>>]
    BY <2>2, <2>14
  <2> HIDE DEF answer
  <2>9. writing' \in [Bridges -> Seq(Told)]
    BY <1>c, <2>8 DEF Carried
  <2>10. serviceInbox' = [serviceInbox EXCEPT ![b] = Tail(@)] /\ UNCHANGED outbox
    BY <1>3 DEF Service!Serve
  <2>11. Tail(serviceInbox[b]) \in Seq(Service!Cmd)
    BY <2>1
  <2>12. serviceInbox' \in [Bridges -> Seq(Service!Cmd)]
    BY <1>c, <2>10, <2>11 DEF Carried
  <2>13. QED
    BY <1>c, <2>9, <2>10, <2>12 DEF Carried
<1>4. ASSUME NEW b \in Bridges, Service!Written(b) PROVE Carried'
  <2>1. /\ outbox' = [outbox EXCEPT ![b] = Append(@, Head(writing[b]))]
        /\ writing' = [writing EXCEPT ![b] = << >>] /\ UNCHANGED serviceInbox /\ writing[b] # << >>
    BY <1>4 DEF Service!Written
  <2>2. Head(writing[b]) \in Told
    BY <1>c, <2>1 DEF Carried
  <2>3. Append(outbox[b], Head(writing[b])) \in Seq(Told)
    BY <1>c, <2>2 DEF Carried
  <2>4. QED
    BY <1>c, <1>e, <2>1, <2>3 DEF Carried
<1>5. ASSUME NEW b \in Bridges, NEW type \in Service!Types, Service!send(b, type), UNCHANGED <<outbox, writing>> PROVE Carried'
  <2> DEFINE m == [id |-> requests + 1, type |-> type]
  <2>1. m \in Service!Cmd
    BY <1>5 DEF Service!send, Service!Cmd, ServiceShapes, ServiceInv, ServiceBounds
  <2>2. serviceInbox' = [serviceInbox EXCEPT ![b] = Append(@, m)]
    BY <1>5 DEF Service!send
  <2> HIDE DEF m
  <2>3. Append(serviceInbox[b], m) \in Seq(Service!Cmd)
    BY <1>c, <2>1 DEF Carried
  <2>4. QED
    BY <1>c, <1>5, <2>2, <2>3 DEF Carried
<1>6. ASSUME NEW b \in Bridges, Service!Open(b) \/ \E type \in Service!Asks \cup {"shutdown"} : Service!Ask(b, type) PROVE Carried'
  <2>1. \E type \in Service!Types : Service!send(b, type) /\ UNCHANGED <<outbox, writing>>
    BY <1>6 DEF Service!Open, Service!Ask, Service!Types
  <2>2. QED
    BY <2>1, <1>5
<1>7. ASSUME NEW b \in Bridges, Service!Receive(b) PROVE Carried'
  <2>1. /\ outbox' = [outbox EXCEPT ![b] = Tail(@)] /\ outbox[b] # << >>
        /\ UNCHANGED <<serviceInbox, writing>>
    BY <1>7 DEF Service!Receive
  <2>2. Tail(outbox[b]) \in Seq(Told)
    BY <1>c, <2>1 DEF Carried
  <2>3. QED
    BY <1>c, <2>1, <2>2 DEF Carried
<1>8. ASSUME NEW b \in Bridges, Service!RequestTimeout(b) \/ Service!Lost(b) PROVE Carried'
  BY <1>0, <1>8 DEF Service!RequestTimeout, Service!Lost, Service!handleFailure
<1>9. ASSUME NEW b \in Bridges, Service!Dispose(b) PROVE Carried'
  <2>1. CASE Service!send(b, "shutdown") /\ UNCHANGED <<outbox, writing>>
    BY <2>1, <1>5 DEF Service!Types
  <2>2. CASE UNCHANGED <<serviceInbox, outbox>> /\ (UNCHANGED writing \/ writing' = [writing EXCEPT ![b] = << >>])
    BY <1>0, <2>2
  <2>3. QED
    BY <1>9, <2>1, <2>2 DEF Service!Dispose
<1>10. ASSUME NEW b \in Bridges, Service!EndInput(b) PROVE Carried'
  <2> DEFINE m == [id |-> ServiceRequests, type |-> "end"]
  <2>1. m \in Service!Cmd
    BY DEF Service!Cmd, ServiceBounds
  <2>2. serviceInbox' = [serviceInbox EXCEPT ![b] = Append(@, m)] /\ UNCHANGED <<outbox, writing>>
    BY <1>10 DEF Service!EndInput
  <2> HIDE DEF m
  <2>3. Append(serviceInbox[b], m) \in Seq(Service!Cmd)
    BY <1>c, <2>1 DEF Carried
  <2>4. QED
    BY <1>c, <2>2, <2>3 DEF Carried
<1>11. ASSUME NEW b \in Bridges, Service!EndDispose(b) PROVE Carried'
  BY <1>c, <1>11 DEF Service!EndDispose, Service!connVars, Carried
<1>12. CASE UNCHANGED Service!vars
  BY <1>c, <1>12 DEF Service!vars, Service!connVars, Carried
<1>13. QED
  BY <1>1, <1>2, <1>3, <1>4, <1>6, <1>7, <1>8, <1>9, <1>10, <1>11, <1>12 DEF Service!Next

-----------------------------------------------------------------------------
(* Requests that wait *)

LEMMA ServiceCounts == \A S : Service!Cardinality(S) = Cardinality(S)
BY DEF Service!Cardinality, Cardinality

LEMMA FewerWait ==
  ASSUME NEW s \in SUBSET (1..ServiceRequests), NEW r \in SUBSET s, ServiceRequests \in Nat
  PROVE  Cardinality(r) <= Cardinality(s) /\ Cardinality(r) \in Nat /\ Cardinality(s) \in Nat
<1>1. IsFiniteSet(1..ServiceRequests)
  BY FS_Interval
<1>2. IsFiniteSet(s)
  BY <1>1, FS_Subset
<1>3. QED
  BY <1>2, FS_Subset, FS_CardinalityType

LEMMA OneMoreWaits ==
  ASSUME NEW s \in SUBSET (1..ServiceRequests), NEW r \in 1..ServiceRequests,
         ServiceRequests \in Nat
  PROVE  Cardinality(s \cup {r}) <= Cardinality(s) + 1 /\ Cardinality(s) \in Nat /\ Cardinality(s \cup {r}) \in Nat
<1>1. IsFiniteSet(1..ServiceRequests)
  BY FS_Interval
<1>2. IsFiniteSet(s)
  BY <1>1, FS_Subset
<1>3. Cardinality(s) \in Nat
  BY <1>2, FS_CardinalityType
<1>4. Cardinality(s \cup {r}) = IF r \in s THEN Cardinality(s) ELSE Cardinality(s) + 1
  BY <1>2, FS_AddElement
<1>5. QED
  BY <1>3, <1>4

LEMMA WaitingStep ==
  ASSUME ServiceBounds, ServiceInv, [Service!Next]_Service!vars
  PROVE  Waiting'
<1>0. ServiceBounds /\ Waiting /\ requests \in 0..ServiceRequests
  BY DEF ServiceInv, ServiceShapes
<1>1. CASE pending' = pending
  BY <1>0, <1>1 DEF Waiting
<1>2. ASSUME NEW b \in Bridges, NEW r \in SUBSET pending[b], pending' = [pending EXCEPT ![b] = r] PROVE Waiting'
  <2>1. r \in SUBSET (1..ServiceRequests) /\ Cardinality(r) <= PendingRequests
    BY <1>0, FewerWait DEF Waiting, ServiceBounds
  <2>2. QED
    BY <1>0, <1>2, <2>1 DEF Waiting
<1>3. ASSUME NEW b \in Bridges, NEW type, Service!send(b, type) PROVE Waiting'
  <2>1. /\ requests + 1 \in 1..ServiceRequests /\ Cardinality(pending[b]) < PendingRequests
        /\ pending' = [pending EXCEPT ![b] = @ \cup {requests + 1}]
    BY <1>0, <1>3, ServiceCounts DEF Service!send, ServiceBounds
  <2>2. Cardinality(pending[b] \cup {requests + 1}) <= PendingRequests
    BY <1>0, <2>1, OneMoreWaits DEF Waiting, ServiceBounds
  <2>3. QED
    BY <1>0, <2>1, <2>2 DEF Waiting
<1>4. CASE Service!Signal \/ Service!Drained \/ Service!CleanupBeforeStopped \/ Service!Deferred
  BY <1>4, <1>1 DEF Service!Signal, Service!Drained, Service!CleanupBeforeStopped, Service!Deferred, Service!bridgeVars
<1>5. ASSUME NEW b \in Bridges,
             \/ Service!Accept(b) \/ Service!ReadPart(b) \/ Service!Serve(b) \/ Service!Written(b) \/ Service!Deadline(b) \/ Service!InputEnds(b) \/ Service!Drain(b)
             \/ Service!EndInput(b)
      PROVE  pending' = pending
  BY <1>5 DEF Service!Accept, Service!ReadPart, Service!Serve, Service!Written, Service!Deadline, Service!InputEnds, Service!Drain, Service!EndInput, Service!bridgeVars
<1>6. ASSUME NEW b \in Bridges, Service!Receive(b) PROVE Waiting'
  <2>1. pending' = [pending EXCEPT ![b] = pending[b] \ {Head(outbox[b]).id}]
    BY <1>6 DEF Service!Receive
  <2>2. QED
    BY <2>1, <1>2
<1>7. ASSUME NEW b \in Bridges, Service!RequestTimeout(b) \/ Service!Lost(b) \/ Service!EndDispose(b) PROVE Waiting'
  <2>1. pending' = [pending EXCEPT ![b] = {}]
    BY <1>7 DEF Service!RequestTimeout, Service!Lost, Service!EndDispose, Service!handleFailure
  <2>2. QED
    BY <2>1, <1>2
<1>8. ASSUME NEW b \in Bridges, Service!Dispose(b) PROVE Waiting'
  <2>1. Service!send(b, "shutdown") \/ pending' = pending \/ pending' = [pending EXCEPT ![b] = {}]
    BY <1>8 DEF Service!Dispose
  <2>2. QED
    BY <2>1, <1>1, <1>2, <1>3
<1>9. ASSUME NEW b \in Bridges, Service!Open(b) \/ \E type \in Service!Asks \cup {"shutdown"} : Service!Ask(b, type) PROVE Waiting'
  BY <1>9, <1>3 DEF Service!Open, Service!Ask
<1>10. CASE UNCHANGED Service!vars
  BY <1>10, <1>1 DEF Service!vars, Service!bridgeVars
<1>11. QED
  BY <1>1, <1>4, <1>5, <1>6, <1>7, <1>8, <1>9, <1>10 DEF Service!Next

-----------------------------------------------------------------------------
(* Bridges and connections *)

LEMMA SettledStep ==
  ASSUME ServiceBounds, ServiceInv, [Service!Next]_Service!vars
  PROVE  Service!RequestsAreSettled' /\ OpensOnce'
<1>0. /\ ServiceShapes /\ Service!RequestsAreSettled /\ OpensOnce /\ Waiting
      /\ writing \in [Bridges -> Seq(Told)]
  BY DEF ServiceInv, Carried
<1> USE DEF Service!RequestsAreSettled, OpensOnce
<1>1. CASE Service!Signal \/ Service!Drained \/ Service!CleanupBeforeStopped \/ Service!Deferred
  BY <1>0, <1>1 DEF Service!Signal, Service!Drained, Service!CleanupBeforeStopped, Service!Deferred, Service!bridgeVars, Service!connVars
<1>2. ASSUME NEW b \in Bridges,
             Service!Accept(b) \/ Service!ReadPart(b) \/ Service!Serve(b) \/ Service!Written(b) \/ Service!Deadline(b) \/ Service!InputEnds(b) \/ Service!Drain(b)
      PROVE  Service!RequestsAreSettled' /\ OpensOnce'
  <2>1. UNCHANGED <<mode, bridge, pending, bstatus>>
    BY <1>2 DEF Service!Accept, Service!ReadPart, Service!Serve, Service!Written, Service!Deadline, Service!InputEnds, Service!Drain, Service!bridgeVars
  <2>2. conn[b] \in {"waiting", "served"} /\ conn'[b] \in {"served", "closed"}
    BY <1>0, <1>2 DEF Service!Accept, Service!ReadPart, Service!Serve, Service!Written, Service!Deadline, Service!InputEnds, Service!Drain, Service!closing, ServiceShapes
  <2>3. \A a \in Bridges \ {b} : conn'[a] = conn[a] /\ partial'[a] = partial[a] /\ writing'[a] = writing[a]
    BY <1>0, <1>2 DEF Service!Accept, Service!ReadPart, Service!Serve, Service!Written, Service!Deadline, Service!InputEnds, Service!Drain, Service!closing, ServiceShapes
  <2>4. QED
    BY <1>0, <2>1, <2>2, <2>3
<1>3. ASSUME NEW b \in Bridges, Service!Open(b) PROVE Service!RequestsAreSettled' /\ OpensOnce'
  <2>1. /\ bridge' = [bridge EXCEPT ![b] = "handshake"]
        /\ UNCHANGED <<mode, partial, writing, bstatus>>
        /\ \E s \in {"served", "waiting"} : conn' = [conn EXCEPT ![b] = s]
        /\ \E r : pending' = [pending EXCEPT ![b] = r]
        /\ bridge[b] = "none"
    BY <1>3 DEF Service!Open, Service!send
  <2>2. QED
    BY <1>0, <2>1 DEF ServiceShapes, Waiting
<1>4. ASSUME NEW b \in Bridges, \E type \in Service!Asks \cup {"shutdown"} : Service!Ask(b, type) PROVE Service!RequestsAreSettled' /\ OpensOnce'
  <2>1. /\ UNCHANGED <<mode, conn, partial, writing, bstatus, bridge>> /\ bridge[b] = "ready"
        /\ \E r : pending' = [pending EXCEPT ![b] = r]
    BY <1>4 DEF Service!Ask, Service!send
  <2>2. QED
    BY <1>0, <2>1 DEF ServiceShapes, Waiting
<1>5. ASSUME NEW b \in Bridges, Service!Receive(b) PROVE Service!RequestsAreSettled' /\ OpensOnce'
  <2> DEFINE m == Head(outbox[b])
  <2>1. /\ UNCHANGED <<mode, conn, partial, writing>>
        /\ bridge[b] \in {"handshake", "ready", "disposing", "ending"} \/ (mode = "stdio" /\ bridge[b] = "failed")
        /\ pending' = [pending EXCEPT ![b] = @ \ {m.id}]
        /\ bridge' = [bridge EXCEPT ![b] = IF @ = "handshake" /\ m.id \in pending[b] THEN "ready" ELSE @]
        /\ bstatus' = [bstatus EXCEPT ![b] = IF m.status = "none" THEN @ ELSE m.status]
    BY <1>5 DEF Service!Receive
  <2> HIDE DEF m
  <2>2. QED
    BY <1>0, <2>1 DEF ServiceShapes, Waiting
<1>6. ASSUME NEW b \in Bridges, NEW id, Service!handleFailure(b, id), UNCHANGED mode PROVE Service!RequestsAreSettled' /\ OpensOnce'
  <2>1. /\ pending' = [pending EXCEPT ![b] = {}]
        /\ bridge' = [bridge EXCEPT ![b] = IF @ \in {"handshake", "ready"} THEN "failed" ELSE @]
        /\ bstatus' = [bstatus EXCEPT ![b] = IF bridge[b] \in {"handshake", "ready"} THEN "Error" ELSE @]
        /\ conn' = conn \/ (conn' = [conn EXCEPT ![b] = "closed"] /\ bridge[b] \in {"handshake", "ready"})
        /\ writing' = [writing EXCEPT ![b] = << >>] /\ partial' = [partial EXCEPT ![b] = FALSE]
    BY <1>6 DEF Service!handleFailure, Service!closing
  <2>2. Service!RequestsAreSettled'
    BY <1>0, <1>6, <2>1 DEF ServiceShapes, Waiting
  <2>3. OpensOnce'
    BY <1>0, <2>1 DEF ServiceShapes
  <2>4. QED
    BY <2>2, <2>3
<1>7. ASSUME NEW b \in Bridges, Service!RequestTimeout(b) \/ Service!Lost(b) PROVE Service!RequestsAreSettled' /\ OpensOnce'
  BY <1>7, <1>6 DEF Service!RequestTimeout, Service!Lost
<1>8. ASSUME NEW b \in Bridges, Service!Dispose(b) PROVE Service!RequestsAreSettled' /\ OpensOnce'
  <2>1. bridge[b] \in {"ready", "failed"} /\ UNCHANGED <<mode, bstatus>>
    BY <1>8 DEF Service!Dispose
  <2>2. CASE bridge' = [bridge EXCEPT ![b] = "disposing"] /\ (\E r : pending' = [pending EXCEPT ![b] = r])
             /\ UNCHANGED <<conn, partial, writing>>
    BY <1>0, <2>1, <2>2 DEF ServiceShapes, Waiting
  <2>3. CASE /\ bridge' = [bridge EXCEPT ![b] = "disposing"]
             /\ UNCHANGED <<pending, conn, partial, writing>>
    BY <1>0, <2>1, <2>3 DEF ServiceShapes, Waiting
  <2>4. CASE /\ bridge' = [bridge EXCEPT ![b] = "disposed"] /\ pending' = [pending EXCEPT ![b] = {}]
             /\ conn' = [conn EXCEPT ![b] = "closed"] /\ partial' = [partial EXCEPT ![b] = FALSE]
             /\ writing' = [writing EXCEPT ![b] = << >>]
    BY <1>0, <2>1, <2>4 DEF ServiceShapes, Waiting
  <2>5. QED
    BY <1>8, <2>2, <2>3, <2>4 DEF Service!Dispose, Service!send, Service!closing
<1>9. ASSUME NEW b \in Bridges, Service!EndInput(b) PROVE Service!RequestsAreSettled' /\ OpensOnce'
  BY <1>0, <1>9 DEF Service!EndInput, ServiceShapes
<1>10. ASSUME NEW b \in Bridges, Service!EndDispose(b) PROVE Service!RequestsAreSettled' /\ OpensOnce'
  BY <1>0, <1>10 DEF Service!EndDispose, Service!connVars, ServiceShapes, Waiting
<1>11. CASE UNCHANGED Service!vars
  BY <1>0, <1>11 DEF Service!vars, Service!bridgeVars
<1>12. QED
  BY <1>1, <1>2, <1>3, <1>4, <1>5, <1>7, <1>8, <1>9, <1>10, <1>11 DEF Service!Next

LEMMA FewerServed ==
  ASSUME ServiceBounds, conn \in [Bridges -> {"none", "waiting", "served", "closed"}],
         \A b \in Bridges : conn'[b] = "served" => conn[b] = "served"
  PROVE  Service!slots' <= Service!slots /\ Service!slots \in Nat /\ Service!slots' \in Nat
<1> DEFINE before == {c \in Bridges : conn[c] = "served"}
           after == {c \in Bridges : conn'[c] = "served"}
<1>1. after \subseteq before /\ IsFiniteSet(before)
  BY FS_Subset DEF ServiceBounds
<1>2. /\ Cardinality(after) <= Cardinality(before) /\ Cardinality(before) \in Nat
      /\ Cardinality(after) \in Nat
  BY <1>1, FS_Subset, FS_CardinalityType
<1>3. QED
  BY <1>2, ServiceCounts DEF Service!slots

LEMMA OneMoreServed ==
  ASSUME ServiceBounds, conn \in [Bridges -> {"none", "waiting", "served", "closed"}],
         NEW b \in Bridges,
         conn' = [conn EXCEPT ![b] = "served"]
  PROVE  Service!slots' <= Service!slots + 1 /\ Service!slots \in Nat /\ Service!slots' \in Nat
<1> DEFINE before == {c \in Bridges : conn[c] = "served"}
           after == {c \in Bridges : conn'[c] = "served"}
<1>1. after = before \cup {b} /\ IsFiniteSet(before)
  BY FS_Subset DEF ServiceBounds
<1> HIDE DEF before, after
<1>2. Cardinality(before) \in Nat
  BY <1>1, FS_CardinalityType
<1>3. Cardinality(before \cup {b}) = IF b \in before THEN Cardinality(before) ELSE Cardinality(before) + 1
  BY <1>1, FS_AddElement
<1>4. Cardinality(after) <= Cardinality(before) + 1 /\ Cardinality(after) \in Nat
  BY <1>1, <1>2, <1>3
<1>5. QED
  BY <1>2, <1>4, ServiceCounts DEF Service!slots, before, after

LEMMA SlotsStep ==
  ASSUME ServiceBounds, ServiceInv, [Service!Next]_Service!vars
  PROVE  mode' # "stdio" => Service!slots' <= EndpointConnections
<1>0. ServiceShapes /\ (mode # "stdio" => Service!slots <= EndpointConnections)
      /\ conn \in [Bridges -> {"none", "waiting", "served", "closed"}]
      /\ EndpointConnections \in Nat
  BY DEF ServiceInv, Service!SlotsAreReturned, ServiceShapes, ServiceBounds
<1>1. ASSUME UNCHANGED mode, \A b \in Bridges : conn'[b] = "served" => conn[b] = "served"
      PROVE  mode' # "stdio" => Service!slots' <= EndpointConnections
  BY <1>0, <1>1, FewerServed
<1>2. CASE UNCHANGED <<mode, conn>>
  BY <1>1, <1>2
<1>3. ASSUME NEW b \in Bridges, UNCHANGED mode, conn' = [conn EXCEPT ![b] = "closed"]
      PROVE  mode' # "stdio" => Service!slots' <= EndpointConnections
  BY <1>0, <1>1, <1>3
<1>4. CASE Service!Signal \/ Service!Drained \/ Service!CleanupBeforeStopped \/ Service!Deferred
  BY <1>2, <1>4 DEF Service!Signal, Service!Drained, Service!CleanupBeforeStopped, Service!Deferred, Service!connVars
<1>5. ASSUME NEW b \in Bridges, Service!Accept(b) PROVE mode' # "stdio" => Service!slots' <= EndpointConnections
  <2>1. CASE Service!slots < EndpointConnections
    <3>1. conn' = [conn EXCEPT ![b] = "served"] /\ UNCHANGED mode
      BY <1>5, <2>1 DEF Service!Accept
    <3>2. Service!slots' <= Service!slots + 1 /\ Service!slots \in Nat /\ Service!slots' \in Nat
      BY <1>0, <3>1, OneMoreServed
    <3>3. QED
      BY <1>0, <2>1, <3>2
  <2>2. CASE ~(Service!slots < EndpointConnections)
    BY <1>3, <1>5, <2>2 DEF Service!Accept
  <2>3. QED
    BY <2>1, <2>2
<1>6. ASSUME NEW b \in Bridges,
             \/ Service!ReadPart(b) \/ Service!Serve(b) \/ Service!Written(b) \/ Service!Deadline(b) \/ Service!InputEnds(b) \/ Service!Drain(b)
             \/ Service!Receive(b) \/ Service!RequestTimeout(b) \/ Service!Lost(b) \/ Service!Dispose(b) \/ Service!EndInput(b) \/ Service!EndDispose(b)
             \/ \E type \in Service!Asks \cup {"shutdown"} : Service!Ask(b, type)
      PROVE  mode' # "stdio" => Service!slots' <= EndpointConnections
  <2>1. UNCHANGED mode /\ (UNCHANGED conn \/ conn' = [conn EXCEPT ![b] = "closed"])
    BY <1>6 DEF Service!ReadPart, Service!Serve, Service!Written, Service!Deadline, Service!InputEnds, Service!Drain, Service!Receive, Service!RequestTimeout, Service!Lost, Service!Dispose,
                Service!EndInput, Service!EndDispose, Service!Ask, Service!handleFailure, Service!closing, Service!connVars
  <2>2. QED
    BY <2>1, <1>2, <1>3
<1>7. ASSUME NEW b \in Bridges, Service!Open(b) PROVE mode' # "stdio" => Service!slots' <= EndpointConnections
  <2>1. CASE mode = "stdio"
    BY <1>7, <2>1 DEF Service!Open
  <2>2. CASE mode # "stdio"
    <3>1. conn' = [conn EXCEPT ![b] = "waiting"] /\ UNCHANGED mode
      BY <1>7, <2>2 DEF Service!Open
    <3>2. QED
      BY <1>0, <1>1, <3>1
  <2>3. QED
    BY <2>1, <2>2
<1>8. CASE UNCHANGED Service!vars
  BY <1>8, <1>2 DEF Service!vars
<1>9. QED
  BY <1>4, <1>5, <1>6, <1>7, <1>8 DEF Service!Next

(* Whatever keeps a slot of the endpoint busy is timed. *)
Timed ==
  \A b \in Bridges : mode # "stdio" /\ conn[b] = "served" /\ (partial[b] \/ writing[b] # << >>) => timer[b]

LEMMA TimedStep ==
  ASSUME ServiceBounds, ServiceInv, [Service!Next]_Service!vars
  PROVE  Timed'
<1>0. /\ ServiceShapes /\ Timed /\ OpensOnce /\ writing \in [Bridges -> Seq(Told)]
  BY DEF ServiceInv, Carried, Service!SlotsAreReturned, Timed
<1> USE DEF Timed
<1>1. CASE UNCHANGED <<mode, conn, partial, writing, timer>>
  BY <1>0, <1>1
<1>2. ASSUME NEW b \in Bridges, UNCHANGED mode,
             \A a \in Bridges \ {b} : /\ conn'[a] = conn[a] /\ timer'[a] = timer[a]
                                      /\ partial'[a] = partial[a] /\ writing'[a] = writing[a],
             conn'[b] = "closed" \/ conn'[b] = "waiting" \/ (mode # "stdio" => timer'[b])
             \/ (~partial'[b] /\ writing'[b] = << >>)
      PROVE  Timed'
  BY <1>0, <1>2
<1>3. CASE Service!Signal \/ Service!Drained \/ Service!CleanupBeforeStopped \/ Service!Deferred
  BY <1>1, <1>3 DEF Service!Signal, Service!Drained, Service!CleanupBeforeStopped, Service!Deferred, Service!connVars
<1>4. ASSUME NEW b \in Bridges, Service!Accept(b) PROVE Timed'
  <2>1. conn[b] = "waiting" /\ UNCHANGED <<mode, partial, writing, timer>> /\ \E s \in {"served", "closed"} : conn' = [conn EXCEPT ![b] = s]
    BY <1>4 DEF Service!Accept
  <2>2. ~partial[b] /\ writing[b] = << >>
    BY <1>0, <2>1 DEF OpensOnce
  <2>3. QED
    BY <1>0, <1>2, <2>1, <2>2 DEF ServiceShapes
<1>5. ASSUME NEW b \in Bridges, Service!ReadPart(b) PROVE Timed'
  BY <1>0, <1>2, <1>5 DEF Service!ReadPart, Service!timed, Service!watched, ServiceShapes
<1>6. ASSUME NEW b \in Bridges, Service!Serve(b) PROVE Timed'
  <2>1. UNCHANGED <<mode, conn>> /\ (\E w : writing' = [writing EXCEPT ![b] = w])
        /\ partial' = [partial EXCEPT ![b] = FALSE] /\ timer' = [timer EXCEPT ![b] = mode # "stdio"]
    BY <1>6 DEF Service!Serve, Service!timed, Service!watched
  <2>2. QED
    BY <1>0, <1>2, <2>1 DEF ServiceShapes
<1>7. ASSUME NEW b \in Bridges, Service!Written(b) PROVE Timed'
  <2>1. UNCHANGED <<mode, partial>> /\ (UNCHANGED conn \/ conn' = [conn EXCEPT ![b] = "closed"])
        /\ writing' = [writing EXCEPT ![b] = << >>]
        /\ timer' = [timer EXCEPT ![b] = mode # "stdio" /\ partial[b]]
    BY <1>7 DEF Service!Written, Service!timed, Service!watched, Service!closing
  <2>2. \A a \in Bridges \ {b} : conn'[a] = conn[a] /\ writing'[a] = writing[a]
    BY <1>0, <2>1 DEF ServiceShapes
  <2>3. \A a \in Bridges \ {b} : timer'[a] = timer[a]
    BY <1>0, <2>1 DEF ServiceShapes
  <2>4. writing'[b] = << >>
    BY <1>0, <2>1
  <2>5. mode # "stdio" /\ partial[b] => timer'[b]
    BY <1>0, <2>1 DEF ServiceShapes
  <2>6. partial'[b] => mode = "stdio" \/ timer'[b]
    BY <2>1, <2>5
  <2>7. QED
    BY <1>0, <2>1, <2>2, <2>3, <2>4, <2>6
<1>8. ASSUME NEW b \in Bridges, Service!Deadline(b) \/ Service!InputEnds(b) \/ Service!Drain(b) PROVE Timed'
  BY <1>0, <1>2, <1>8 DEF Service!Deadline, Service!InputEnds, Service!Drain, Service!closing, ServiceShapes
<1>9. ASSUME NEW b \in Bridges, Service!Open(b) PROVE Timed'
  <2>1. bridge[b] = "none" /\ UNCHANGED <<mode, partial, writing, timer>> /\ \E s \in {"served", "waiting"} : conn' = [conn EXCEPT ![b] = s]
    BY <1>9 DEF Service!Open
  <2>2. ~partial[b] /\ writing[b] = << >>
    BY <1>0, <2>1 DEF OpensOnce
  <2>3. QED
    BY <1>0, <1>2, <2>1, <2>2 DEF ServiceShapes
<1>10. ASSUME NEW b \in Bridges,
              \/ Service!Receive(b) \/ Service!EndInput(b) \/ Service!EndDispose(b)
              \/ \E type \in Service!Asks \cup {"shutdown"} : Service!Ask(b, type)
       PROVE  Timed'
  BY <1>1, <1>10 DEF Service!Receive, Service!EndInput, Service!EndDispose, Service!Ask, Service!connVars
<1>11. ASSUME NEW b \in Bridges, Service!RequestTimeout(b) \/ Service!Lost(b) \/ Service!Dispose(b) PROVE Timed'
  <2>1. CASE UNCHANGED <<mode, conn, partial, writing, timer>>
    BY <2>1, <1>1
  <2>2. CASE /\ UNCHANGED mode /\ (UNCHANGED conn \/ conn' = [conn EXCEPT ![b] = "closed"])
             /\ writing' = [writing EXCEPT ![b] = << >>] /\ partial' = [partial EXCEPT ![b] = FALSE]
             /\ timer' = [timer EXCEPT ![b] = FALSE]
    BY <1>0, <1>2, <2>2 DEF ServiceShapes
  <2>3. QED
    BY <1>11, <2>1, <2>2 DEF Service!RequestTimeout, Service!Lost, Service!Dispose, Service!handleFailure, Service!closing
<1>12. CASE UNCHANGED Service!vars
  BY <1>1, <1>12 DEF Service!vars, Service!connVars
<1>13. QED
  BY <1>3, <1>4, <1>5, <1>6, <1>7, <1>8, <1>9, <1>10, <1>11, <1>12 DEF Service!Next

LEMMA ServiceInvHolds ==
  ASSUME ServiceBounds
  PROVE  Service!Spec => []ServiceInv
<1>1. Service!Init => ServiceInv
  <2> SUFFICES ASSUME Service!Init PROVE ServiceInv
    OBVIOUS
  <2>1. ServiceShapes
    <3>1. 0 \in 0..ServiceRequests /\ 0 \in 0..TeardownFaults
      BY DEF ServiceBounds
    <3>2. conn \in [Bridges -> {"none", "waiting", "served", "closed"}]
      BY DEF Service!Init
    <3>3. partial \in [Bridges -> BOOLEAN] /\ timer \in [Bridges -> BOOLEAN]
      BY DEF Service!Init
    <3>4. bridge \in [Bridges -> {"none", "handshake", "ready", "failed", "disposing", "ending", "disposed"}]
      BY DEF Service!Init
    <3>5. bstatus \in [Bridges -> {"Disconnected", "Error"}]
      BY DEF Service!Init
    <3>6. /\ serviceAttempts \in 0..2 /\ code \in 0..1 /\ requests \in 0..ServiceRequests
          /\ serviceFaults \in 0..TeardownFaults
      BY <3>1 DEF Service!Init
    <3>7. /\ mode \in {"stdio", "endpoint", "service"} /\ main = "serving" /\ state = "Disconnected"
          /\ completed = FALSE /\ dataplane = FALSE /\ shuttingDown = FALSE /\ teardownErr = FALSE
          /\ unfinished = FALSE
      BY DEF Service!Init
    <3>8. QED
      BY <3>2, <3>3, <3>4, <3>5, <3>6, <3>7 DEF ServiceShapes
  <2>6. Teardown
    BY DEF Service!Init, Teardown, Service!EndsWithoutAdapter, Service!ExitTells, CompletedIsShutdown, ServingIsClean
  <2>2. Carried /\ OpensOnce /\ Service!RequestsAreSettled
    BY DEF Service!Init, Carried, OpensOnce, Service!RequestsAreSettled
  <2>3. Waiting
    <3>1. pending = [c \in Bridges |-> {}] /\ Cardinality({}) = 0
      BY FS_EmptySet DEF Service!Init
    <3>2. QED
      BY <3>1 DEF Waiting, ServiceBounds
  <2>4. Service!SlotsAreReturned
    <3>1. {c \in Bridges : conn[c] = "served"} = {}
      BY DEF Service!Init
    <3>2. Service!slots = 0
      BY <3>1, FS_EmptySet, ServiceCounts DEF Service!slots
    <3>3. QED
      BY <3>2 DEF Service!Init, Service!SlotsAreReturned, ServiceBounds
  <2>5. QED
    BY <2>1, <2>2, <2>3, <2>4, <2>6 DEF ServiceInv
<1>2. ServiceInv /\ [Service!Next]_Service!vars => ServiceInv'
  <2> SUFFICES ASSUME ServiceInv, [Service!Next]_Service!vars PROVE ServiceInv'
    OBVIOUS
  <2>1. ServiceShapes' /\ Teardown'
    BY ServiceShapesStep
  <2>2. Carried'
    BY <2>1, CarriedStep
  <2>3. Service!SlotsAreReturned'
    BY SlotsStep, TimedStep DEF Service!SlotsAreReturned, Timed
  <2>4. QED
    BY <2>1, <2>2, <2>3, WaitingStep, SettledStep DEF ServiceInv
<1>3. QED
  BY <1>1, <1>2, PTL DEF Service!Spec

(* The end of the service, the reports of its teardowns, the requests of its bridges and the
   slots of its connections. *)
THEOREM ServiceIsSound ==
  ASSUME ServiceBounds
  PROVE  Service!Spec => [](Service!TypeOK /\ Service!ServiceAnswers)
<1>1. ServiceInv => Service!ServiceAnswers
  <2> SUFFICES ASSUME ServiceInv PROVE Service!ServiceAnswers
    OBVIOUS
  <2>1. Service!AnswersTell
    <3>1. ASSUME NEW q \in Seq(Told), NEW i \in DOMAIN q PROVE q[i].left => ~q[i].ok
      <4>1. q[i] \in Told
        BY <3>1
      <4>2. QED
        BY <4>1 DEF Told
    <3>2. \A c \in Bridges : writing[c] \in Seq(Told) /\ outbox[c] \in Seq(Told)
      BY DEF ServiceInv, Carried
    <3>3. QED
      BY <3>1, <3>2 DEF Service!AnswersTell
  <2>2. QED
    BY <2>1 DEF ServiceInv, Teardown, Service!ServiceAnswers, Service!IncompleteIsReported
<1>2. ServiceInv => Service!TypeOK
  <2> SUFFICES ASSUME ServiceInv PROVE Service!TypeOK
    OBVIOUS
  <2>1. ServiceShapes
    BY DEF ServiceInv
  <2>2. \A c \in Bridges :
          /\ serviceInbox[c] \in Seq(Service!Cmd) /\ outbox[c] \in Seq(Service!Answers)
          /\ writing[c] \in Seq(Service!Answers)
          /\ pending[c] \subseteq 1..ServiceRequests
          /\ Service!Cardinality(pending[c]) <= PendingRequests
    <3>1. \A q \in Seq(Told) : q \in Seq(Service!Answers)
      BY DEF Told
    <3>2. QED
      BY <3>1, ServiceCounts DEF ServiceInv, Carried, Waiting
  <2>3. {dataplane, shuttingDown, teardownErr, unfinished} \subseteq BOOLEAN
    BY <2>1 DEF ServiceShapes
  <2>4. QED
    BY <2>1, <2>2, <2>3, Zenon DEF Service!TypeOK, ServiceShapes
<1>3. QED
  BY <1>1, <1>2, ServiceInvHolds, PTL

-----------------------------------------------------------------------------
(* What holds of every behaviour *)

(* The Wintun session ends once and under no driver call of a pump, a failure the runner was
   told of before the end is not lost, and only the pinned library is loaded, for every
   number of search paths, creation attempts, packets, failures and swapped files. *)
THEOREM TakenDownOnce ==
  ASSUME AdapterBounds
  PROVE  Spec => []AdapterIsTakenDownOnce
<1>1. Adapter!Spec => []Adapter!TypeOK
  BY AdapterTypes
<1>2. Adapter!Spec => []Adapter!AdapterIsTakenDownOnce
  BY AdapterTakenDown
<1>3. [Next]_vars => (which = "adapter" <=> (which = "adapter")')
  BY ChosenOnce
<1>4. QED
  BY <1>1, <1>2, <1>3, AdapterIsChosen, PTL DEF Spec, Adapter!Spec, AdapterIsTakenDownOnce

(* A socket that was open when its lookup began is attributed to its process, for any
   number of lookups that share, wait for and refresh the snapshot of attribution.go. *)
THEOREM OpenSocketsAreFound ==
  ASSUME OwnerBounds
  PROVE  Spec => []OpenSocketIsFound
<1>1. [Next]_vars => (which = "owner" <=> (which = "owner")')
  BY ChosenOnce
<1>2. QED
  BY <1>1, SocketsAreFound, OwnerTypes, OwnerIsChosen, PTL DEF Spec, Owner!Spec, OpenSocketIsFound

(* A helper service that ends or is told to leaves no adapter.  A teardown left incomplete is
   an error in the answer to the command that ran it, and a failing exit status where the
   service ran it on its way out, also when a second cleanup finds nothing to close; no more
   than that is claimed of the exit status.  A bridge that failed or was disposed of leaves
   no request waiting, and a connection that keeps a slot busy has a deadline, for any number
   of bridges, connections, requests and failures. *)
THEOREM ServiceAlwaysAnswers ==
  ASSUME ServiceBounds
  PROVE  Spec => []ServiceAnswers
<1>1. [Next]_vars => (which = "service" <=> (which = "service")')
  BY ChosenOnce
<1>2. QED
  BY <1>1, ServiceIsSound, ServiceIsChosen, PTL DEF Spec, Service!Spec, ServiceAnswers

(* The controller of native-dataplane.ts, its helpers and the adapter stay in step and no
   step of the controller ends a helper that carries traffic, for any number of helpers,
   starts and failures. *)
THEOREM AdapterIsAlwaysHeld ==
  ASSUME Helper!Bounds
  PROVE  Spec => AdapterIsHeld
<1>1. Helper!Spec => []Helper!TypeOK
  BY Helper!ControllerTypes
<1>2. Helper!Spec => []Helper!AdapterIsHeld
  BY Helper!AdapterIsAlwaysHeld
<1>3. Helper!Spec => [][Helper!ActiveIsNotKilled]_Helper!vars
  BY Helper!ActiveIsNeverKilled
<1>4. [Next]_vars => (which = "helper" <=> (which = "helper")')
  BY ChosenOnce
<1>5. [Helper!ActiveIsNotKilled]_Helper!vars /\ [Next]_vars
        => [which = "helper" => Helper!ActiveIsNotKilled]_vars
  BY DEF Helper!vars, Helper!ActiveIsNotKilled
<1>6. QED
  BY <1>1, <1>2, <1>3, <1>4, <1>5, HelperIsChosen, PTL DEF Spec, Helper!Spec, AdapterIsHeld
=============================================================================
