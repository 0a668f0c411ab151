-------------------------- MODULE NativeDataplaneProofs --------------------------
(***************************************************************************)
(* Proofs about NativeDataplane: an adapter that captures traffic is owed  *)
(* a stop, an active one is carried, a disposed controller holds no helper *)
(* and none that carries traffic is killed, for every number of helpers,   *)
(* of starts and of failures.                                              *)
(*                                                                         *)
(* The properties speak of the last command of a helper; what makes them   *)
(* inductive is who waits for which command (Awaited), that a helper being *)
(* started has been told nothing else (Connecting) and that a stop under   *)
(* way is the last its helper was told (Stopping).  Every step changes the *)
(* inboxes in one of five ways: a command is sent (Grows), taken (Takes),  *)
(* no longer waited for (Hushes), the client lets its helper go (Ends), or *)
(* a helper is started or gone.                                            *)
(***************************************************************************)
EXTENDS NativeDataplane, SequenceTheorems, TLAPS

(* A command in the inbox of g whose answer somebody waits for *)
Live(g, i, c) == i \in DOMAIN inbox[g] /\ inbox[g][i].cmd = c /\ inbox[g][i].live

(* A helper is started when a number is given to it, and only the last one started can be
   the one the controller talks to or waits for. *)
Numbered ==
  /\ client <= helperGeneration
  /\ dataplaneGeneration <= helperGeneration
  /\ \A g \in Gens : g > helperGeneration => ~up[g] /\ ~ended[g] /\ inbox[g] = << >> /\ proc[g] = "none"
  /\ running(client) => client = helperGeneration

(* The helper whose handshake is waited for has been told nothing else. *)
Connecting ==
  /\ connecting # 0 <=> op \in {"probing", "startWaits"}
  /\ connecting # 0 =>
       /\ connecting = helperGeneration
       /\ connecting # client
       /\ connecting # dataplaneGeneration
       /\ inbox[connecting] = <<Command("get-capabilities")>>
       /\ ~up[connecting]
       /\ ~ended[connecting]

(* A stop under way is the last command of the client and is awaited. *)
Stopping ==
  /\ op = "stopping" => stopping
  /\ stopping =>
       /\ disposed = "no" => op = "stopping"
       /\ client # 0
       /\ client = helperGeneration
       /\ connecting = 0
       /\ ~ended[client]
       /\ active \/ startAttempted
       /\ inbox[client] # << >>
       /\ Last(inbox[client]) = Command("stop-dataplane")

(* Who waits for which command *)
Awaited ==
  \A g \in Gens :
    /\ \A i \in DOMAIN inbox[g] : ended[g] /\ inbox[g][i].live => inbox[g][i].cmd = "end"
    /\ \A i \in DOMAIN inbox[g] : Live(g, i, "stop-dataplane") => stopping /\ g = client /\ i = Len(inbox[g])
    /\ \A i \in DOMAIN inbox[g] :
         Live(g, i, "start-dataplane") => op = "started" /\ g = client /\ (disposed = "no" => i = Len(inbox[g]))
    /\ \A i \in DOMAIN inbox[g] : Live(g, i, "get-capabilities") => g = connecting \/ (op = "asked" /\ g = client)
    /\ \A i, j \in DOMAIN inbox[g] :
         inbox[g][i].live /\ inbox[g][j].live /\ inbox[g][i].cmd = inbox[g][j].cmd => i = j

(* A helper that was let go finds the end of its input behind everything else. *)
LetGoEnds ==
  \A g \in Gens : ended[g] /\ proc[g] = "run" => inbox[g] # << >> /\ Last(inbox[g]).cmd = "end"

HasStart(g) == \E i \in DOMAIN inbox[g] : inbox[g][i].cmd = "start-dataplane"

(* Only the client of a controller that knows of a start has an adapter or will have one. *)
Owed ==
  \A g \in Gens :
    proc[g] = "run" /\ ~ended[g] /\ (up[g] \/ HasStart(g)) => g = client /\ startAttempted

(* Unless a call that may change it is under way, an active dataplane is carried by its
   helper, which has been told nothing that could end it. *)
Carried ==
  /\ active => dataplaneGeneration # 0
  /\ op = "again" => ~active /\ ~startAttempted
  /\ active /\ op \in {"idle", "asked", "probing"} /\ ~stopping /\ disposed = "no" =>
       \/ proc[dataplaneGeneration] \in {"dead", "exited"}
       \/ /\ proc[dataplaneGeneration] = "run"
          /\ up[dataplaneGeneration]
          /\ \A i \in DOMAIN inbox[dataplaneGeneration] :
               inbox[dataplaneGeneration][i].cmd = "get-capabilities"

(* A helper that runs is let go, waited for or the client, and a disposed controller has none. *)
Known ==
  /\ \A g \in Gens : proc[g] = "run" => ended[g] \/ g = connecting \/ g = client
  /\ disposed \in {"grace", "done"} => client = 0

(* The end of a helper is reported once, when nothing is left of it. *)
Reported == \A g \in Gens : heard[g] # 0 => proc[g] = "closed"

IInv == TypeOK /\ Numbered /\ Connecting /\ Stopping /\ Awaited /\ LetGoEnds /\ Owed /\ Carried /\ Known /\ Reported

Bounds == MaxHelpers \in Nat /\ MaxStarts \in Nat /\ MaxFaults \in Nat

-----------------------------------------------------------------------------
(* Types, one variable at a time *)

Procs == {"none", "run", "dead", "exited", "closed"}
Ops == {"idle", "probing", "asked", "startWaits", "started", "owes", "stopping", "again"}

Types ==
  /\ proc \in [Gens -> Procs]
  /\ up \in [Gens -> BOOLEAN]
  /\ ended \in [Gens -> BOOLEAN]
  /\ inbox \in [Gens -> Seq(Commands)]
  /\ heard \in [Gens -> 0..1]
  /\ helperGeneration \in 0..MaxHelpers
  /\ client \in 0..MaxHelpers
  /\ dataplaneGeneration \in 0..MaxHelpers
  /\ connecting \in 0..MaxHelpers
  /\ active \in BOOLEAN
  /\ startAttempted \in BOOLEAN
  /\ stopping \in BOOLEAN
  /\ attached \in BOOLEAN
  /\ signal \in BOOLEAN
  /\ legacy \in BOOLEAN
  /\ disposed \in {"no", "stopping", "grace", "done"}
  /\ op \in Ops
  /\ starts \in 0..MaxStarts
  /\ faults \in 0..MaxFaults

LEMMA TypesAre == TypeOK <=> Types
<1>1. {helperGeneration, client, dataplaneGeneration, connecting} \subseteq 0..MaxHelpers
        <=> /\ helperGeneration \in 0..MaxHelpers
            /\ client \in 0..MaxHelpers
            /\ dataplaneGeneration \in 0..MaxHelpers
            /\ connecting \in 0..MaxHelpers
  OBVIOUS
<1>2. {active, startAttempted, stopping, attached, signal, legacy} \subseteq BOOLEAN
        <=> /\ active \in BOOLEAN /\ startAttempted \in BOOLEAN /\ stopping \in BOOLEAN
            /\ attached \in BOOLEAN /\ signal \in BOOLEAN /\ legacy \in BOOLEAN
  BY Zenon
<1>3. QED
  BY <1>1, <1>2, Zenon DEF TypeOK, Types, Procs, Ops

LEMMA TypesAreNext == TypeOK' <=> Types'
<1>1. {helperGeneration', client', dataplaneGeneration', connecting'} \subseteq 0..MaxHelpers
        <=> /\ helperGeneration' \in 0..MaxHelpers
            /\ client' \in 0..MaxHelpers
            /\ dataplaneGeneration' \in 0..MaxHelpers
            /\ connecting' \in 0..MaxHelpers
  OBVIOUS
<1>2. {active', startAttempted', stopping', attached', signal', legacy'} \subseteq BOOLEAN
        <=> /\ active' \in BOOLEAN /\ startAttempted' \in BOOLEAN /\ stopping' \in BOOLEAN
            /\ attached' \in BOOLEAN /\ signal' \in BOOLEAN /\ legacy' \in BOOLEAN
  BY Zenon
<1>3. QED
  BY <1>1, <1>2, Zenon DEF TypeOK, Types, Procs, Ops

-----------------------------------------------------------------------------
(* The commands of one helper *)

LEMMA CommandIs ==
  ASSUME NEW c \in {"get-capabilities", "start-dataplane", "stop-dataplane", "end"}
  PROVE  /\ Command(c) \in Commands
         /\ Command(c).cmd = c
         /\ Command(c).live
BY DEF Command, Commands

LEMMA SentIs ==
  ASSUME NEW s \in Seq(Commands), NEW e \in Commands
  PROVE  /\ Append(s, e) \in Seq(Commands)
         /\ Len(Append(s, e)) = Len(s) + 1
         /\ DOMAIN Append(s, e) = 1..(Len(s) + 1)
         /\ \A i \in 1..Len(s) : Append(s, e)[i] = s[i]
         /\ Append(s, e)[Len(s) + 1] = e
         /\ Append(s, e) # << >>
         /\ Last(Append(s, e)) = e
<1>1. Len(Append(s, e)) = Len(s) + 1 /\ Append(s, e) \in Seq(Commands)
  OBVIOUS
<1>2. Append(s, e)[Len(s) + 1] = e
  OBVIOUS
<1>3. QED
  BY <1>1, <1>2 DEF Last

LEMMA TakenIs ==
  ASSUME NEW s \in Seq(Commands), s # << >>
  PROVE  /\ Tail(s) \in Seq(Commands)
         /\ Len(Tail(s)) = Len(s) - 1
         /\ Head(s) = s[1]
         /\ 1 \in DOMAIN s
         /\ Len(s) \in Nat
         /\ DOMAIN Tail(s) = 1..(Len(s) - 1)
         /\ \A i \in 1..(Len(s) - 1) : Tail(s)[i] = s[i + 1] /\ i + 1 \in DOMAIN s
         /\ Tail(s) # << >> => Last(Tail(s)) = Last(s)
         /\ Len(s) = 1 => Tail(s) = << >>
<1>1. Len(Tail(s)) = Len(s) - 1 /\ Tail(s) \in Seq(Commands) /\ Len(s) \in Nat \ {0}
  OBVIOUS
<1>2. \A i \in 1..(Len(s) - 1) : Tail(s)[i] = s[i + 1] /\ i + 1 \in DOMAIN s
  OBVIOUS
<1>3. Tail(s) # << >> => Last(Tail(s)) = Last(s)
  BY <1>1, <1>2 DEF Last
<1>4. QED
  BY <1>1, <1>2, <1>3

(* Commands nobody waits for any more: t is s, with fewer of them awaited. *)
Fades(s, t) ==
  /\ t \in Seq(Commands)
  /\ Len(t) = Len(s)
  /\ DOMAIN t = DOMAIN s
  /\ \A i \in DOMAIN s : t[i].cmd = s[i].cmd /\ (t[i].live => s[i].live)
  /\ s # << >> => t # << >> /\ Last(t).cmd = Last(s).cmd

LEMMA MapIs ==
  ASSUME NEW s \in Seq(Commands), NEW t, DOMAIN t = DOMAIN s, t = [i \in DOMAIN s |-> t[i]],
         \A i \in DOMAIN s : t[i] \in Commands /\ t[i].cmd = s[i].cmd /\ (t[i].live => s[i].live)
  PROVE  Fades(s, t)
<1>1. Len(s) \in Nat /\ DOMAIN s = 1..Len(s)
  OBVIOUS
<1>2. t \in Seq(Commands)
  BY <1>1, IsASeq
<1>3. Len(t) = Len(s)
  BY <1>1, <1>2, LenProperties
<1>4. ASSUME s # << >> PROVE t # << >> /\ Last(t).cmd = Last(s).cmd
  <2>1. Len(s) \in DOMAIN s
    BY <1>1, <1>4
  <2>2. QED
    BY <1>1, <1>2, <1>3, <2>1 DEF Last
<1>5. QED
  BY <1>2, <1>3, <1>4 DEF Fades

LEMMA QuietIs ==
  ASSUME NEW s \in Seq(Commands), NEW k \in DOMAIN s
  PROVE  /\ Fades(s, [s EXCEPT ![k].live = FALSE])
         /\ ~[s EXCEPT ![k].live = FALSE][k].live
         /\ \A i \in DOMAIN s : i # k => [s EXCEPT ![k].live = FALSE][i] = s[i]
<1> DEFINE t == [s EXCEPT ![k].live = FALSE]
<1>1. DOMAIN t = DOMAIN s /\ t = [i \in DOMAIN s |-> t[i]]
  OBVIOUS
<1>2. t[k] = [s[k] EXCEPT !.live = FALSE] /\ \A i \in DOMAIN s : i # k => t[i] = s[i]
  OBVIOUS
<1>3. \A i \in DOMAIN s : s[i] \in Commands
  BY ElementOfSeq
<1>4. \A i \in DOMAIN s : t[i] \in Commands /\ t[i].cmd = s[i].cmd /\ (t[i].live => s[i].live)
  BY <1>2, <1>3 DEF Commands
<1>5. ~t[k].live
  BY <1>2, <1>3 DEF Commands
<1> HIDE DEF t
<1>6. Fades(s, t)
  BY <1>1, <1>4, MapIs
<1>7. QED
  BY <1>2, <1>5, <1>6 DEF t

LEMMA DroppedIs ==
  ASSUME Types, NEW g \in Gens
  PROVE  Fades(inbox[g], dropped(g)) /\ \A i \in DOMAIN dropped(g) : ~dropped(g)[i].live
<1> DEFINE s == inbox[g]
<1>1. s \in Seq(Commands)
  BY DEF Types
<1>2. DOMAIN dropped(g) = DOMAIN s /\ dropped(g) = [i \in DOMAIN s |-> dropped(g)[i]]
  BY DEF dropped
<1>3. \A i \in DOMAIN s : dropped(g)[i] = [s[i] EXCEPT !.live = FALSE] /\ s[i] \in Commands
  BY <1>1, ElementOfSeq DEF dropped
<1>4. \A i \in DOMAIN s : /\ dropped(g)[i] \in Commands
                          /\ dropped(g)[i].cmd = s[i].cmd
                          /\ ~dropped(g)[i].live
  BY <1>3 DEF Commands
<1> HIDE DEF s
<1>5. Fades(s, dropped(g))
  BY <1>1, <1>2, <1>4, MapIs
<1>6. QED
  BY <1>2, <1>4, <1>5 DEF s

-----------------------------------------------------------------------------
(* What a step does to the inboxes *)

Others(g) == \A k \in Gens \ {g} : inbox'[k] = inbox[k]

(* g is sent c. *)
Grows(g, c) ==
  /\ inbox' \in [Gens -> Seq(Commands)]
  /\ Others(g)
  /\ Len(inbox[g]) \in Nat
  /\ DOMAIN inbox[g] = 1..Len(inbox[g])
  /\ Len(inbox'[g]) = Len(inbox[g]) + 1
  /\ DOMAIN inbox'[g] = 1..(Len(inbox[g]) + 1)
  /\ \A i \in DOMAIN inbox[g] : inbox'[g][i] = inbox[g][i]
  /\ inbox'[g][Len(inbox[g]) + 1] = Command(c)
  /\ inbox'[g] # << >>
  /\ Last(inbox'[g]) = Command(c)

(* g takes its next command. *)
Takes(g) ==
  /\ inbox' \in [Gens -> Seq(Commands)]
  /\ Others(g)
  /\ inbox[g] # << >>
  /\ Head(inbox[g]) = inbox[g][1]
  /\ 1 \in DOMAIN inbox[g]
  /\ Len(inbox[g]) \in Nat
  /\ Len(inbox'[g]) = Len(inbox[g]) - 1
  /\ DOMAIN inbox'[g] = 1..(Len(inbox[g]) - 1)
  /\ \A i \in DOMAIN inbox'[g] : inbox'[g][i] = inbox[g][i + 1] /\ i + 1 \in DOMAIN inbox[g]
  /\ inbox'[g] # << >> => Last(inbox'[g]) = Last(inbox[g])
  /\ Len(inbox[g]) = 1 => inbox'[g] = << >>

(* Nobody waits for anything of g any more, and its input ends. *)
Ends(g) ==
  /\ inbox' \in [Gens -> Seq(Commands)]
  /\ Others(g)
  /\ Len(inbox[g]) \in Nat
  /\ DOMAIN inbox[g] = 1..Len(inbox[g])
  /\ DOMAIN inbox'[g] = 1..(Len(inbox[g]) + 1)
  /\ \A i \in DOMAIN inbox[g] : inbox'[g][i].cmd = inbox[g][i].cmd /\ ~inbox'[g][i].live
  /\ inbox'[g][Len(inbox[g]) + 1].cmd = "end"
  /\ inbox'[g] # << >>
  /\ Last(inbox'[g]).cmd = "end"

LEMMA SendGrows ==
  ASSUME Types, NEW g \in Gens, NEW c \in {"get-capabilities", "start-dataplane", "stop-dataplane", "end"},
         inbox' = [inbox EXCEPT ![g] = Append(inbox[g], Command(c))]
  PROVE  Grows(g, c)
<1>1. inbox[g] \in Seq(Commands) /\ Command(c) \in Commands
  BY CommandIs DEF Types
<1>2. inbox'[g] = Append(inbox[g], Command(c)) /\ Others(g)
  BY DEF Types, Others
<1>3. inbox'[g] \in Seq(Commands)
  BY <1>1, <1>2, SentIs
<1>4. inbox' \in [Gens -> Seq(Commands)]
  BY <1>1, <1>3 DEF Types
<1>5. Len(inbox[g]) \in Nat /\ DOMAIN inbox[g] = 1..Len(inbox[g])
  BY <1>1
<1>6. QED
  BY <1>1, <1>2, <1>4, <1>5, SentIs DEF Grows

LEMMA RestTakes ==
  ASSUME Types, NEW g \in Gens, inbox[g] # << >>, inbox' = Rest(g)
  PROVE  Takes(g)
<1>1. inbox[g] \in Seq(Commands)
  BY DEF Types
<1>2. inbox'[g] = Tail(inbox[g]) /\ Others(g)
  BY DEF Types, Others, Rest
<1>3. inbox'[g] \in Seq(Commands)
  BY <1>1, <1>2, TakenIs
<1>4. inbox' \in [Gens -> Seq(Commands)]
  BY <1>1, <1>3 DEF Types, Rest
<1>5. QED
  BY <1>1, <1>2, <1>4, TakenIs DEF Takes

LEMMA ReleaseEnds ==
  ASSUME Types, NEW g \in Gens,
         inbox' = [inbox EXCEPT ![g] = Append(dropped(g), Command("end"))]
  PROVE  Ends(g)
<1> DEFINE s == inbox[g]
           t == dropped(g)
<1>1. Fades(s, t) /\ \A i \in DOMAIN t : ~t[i].live
  BY DroppedIs
<1>2. inbox'[g] = Append(t, Command("end")) /\ Others(g)
  BY DEF Types, Others
<1>3. s \in Seq(Commands) /\ Command("end") \in Commands /\ Command("end").cmd = "end"
  BY CommandIs DEF Types
<1>4. Len(s) \in Nat /\ DOMAIN s = 1..Len(s)
  BY <1>3
<1> HIDE DEF s, t
<1>5. t \in Seq(Commands) /\ Len(t) = Len(s) /\ DOMAIN t = DOMAIN s
      /\ \A i \in DOMAIN s : t[i].cmd = s[i].cmd
  BY <1>1 DEF Fades
<1> DEFINE u == Append(t, Command("end"))
<1>6. /\ u \in Seq(Commands)
      /\ DOMAIN u = 1..(Len(s) + 1)
      /\ \A i \in 1..Len(s) : u[i] = t[i]
      /\ u[Len(s) + 1] = Command("end")
      /\ u # << >>
      /\ Last(u) = Command("end")
  BY <1>3, <1>5, SentIs
<1>7. inbox' \in [Gens -> Seq(Commands)]
  BY <1>2, <1>6 DEF Types, t
<1> HIDE DEF u
<1>8. inbox'[g] = u
  BY <1>2 DEF u
<1>9. QED
  BY <1>1, <1>2, <1>3, <1>4, <1>5, <1>6, <1>7, <1>8 DEF Ends, s
(* Who waits for what, after a command was taken *)
LEMMA TakenAwaited ==
  ASSUME Types, Awaited, NEW g \in Gens, Takes(g), UNCHANGED <<client, disposed, ended, connecting>>,
         \/ stopping' = stopping
         \/ Live(g, 1, "stop-dataplane"),
         \/ op' = op
         \/ op \notin {"started", "asked"}
         \/ op = "started" /\ Live(g, 1, "start-dataplane")
         \/ op = "asked" /\ Live(g, 1, "get-capabilities") /\ g # connecting
  PROVE  Awaited'
<1>0. /\ DOMAIN inbox[g] = 1..Len(inbox[g])
      /\ Len(inbox[g]) \in Nat
      /\ DOMAIN inbox'[g] = 1..(Len(inbox[g]) - 1)
      /\ Len(inbox'[g]) = Len(inbox[g]) - 1
      /\ 1 \in DOMAIN inbox[g]
      /\ \A i \in DOMAIN inbox'[g] : inbox'[g][i] = inbox[g][i + 1] /\ i + 1 \in DOMAIN inbox[g] /\ i \in Nat /\ i + 1 # 1
      /\ \A k \in Gens \ {g} : inbox'[k] = inbox[k]
  BY DEF Takes, Others, Types
<1>1. ASSUME NEW k \in Gens, NEW i \in DOMAIN inbox'[k], ended'[k], inbox'[k][i].live
      PROVE  inbox'[k][i].cmd = "end"
  BY <1>0, <1>1 DEF Awaited
<1>2. ASSUME NEW k \in Gens, NEW i \in DOMAIN inbox'[k], inbox'[k][i].cmd = "stop-dataplane", inbox'[k][i].live
      PROVE  stopping' /\ k = client' /\ i = Len(inbox'[k])
  <2>1. CASE k = g
    BY <1>0, <1>2, <2>1 DEF Awaited, Live
  <2>2. CASE k # g
    BY <1>0, <1>2, <2>2 DEF Awaited, Live
  <2>3. QED
    BY <2>1, <2>2
<1>3. ASSUME NEW k \in Gens, NEW i \in DOMAIN inbox'[k], inbox'[k][i].cmd = "start-dataplane", inbox'[k][i].live
      PROVE  op' = "started" /\ k = client' /\ (disposed' = "no" => i = Len(inbox'[k]))
  <2>1. CASE k = g
    <3>1. Live(g, i + 1, "start-dataplane")
      BY <1>0, <1>3, <2>1 DEF Live
    <3>2. op = "started" /\ g = client /\ (disposed = "no" => i + 1 = Len(inbox[g]))
      BY <1>0, <2>1, <3>1 DEF Awaited, Live
    <3>3. ~Live(g, 1, "start-dataplane")
      BY <1>0, <2>1, <3>1 DEF Awaited, Live
    <3>4. op' = "started"
      BY <3>2, <3>3
    <3>5. QED
      BY <1>0, <2>1, <3>2, <3>4
  <2>2. CASE k # g
    <3>1. Live(k, i, "start-dataplane") /\ inbox'[k] = inbox[k]
      BY <1>0, <1>3, <2>2 DEF Live
    <3>2. op = "started" /\ k = client /\ (disposed = "no" => i = Len(inbox[k]))
      BY <1>3, <3>1 DEF Awaited, Live
    <3>3. ~Live(g, 1, "start-dataplane")
      BY <1>0, <2>2, <3>2 DEF Awaited
    <3>4. QED
      BY <3>1, <3>2, <3>3
  <2>3. QED
    BY <2>1, <2>2
<1>4. ASSUME NEW k \in Gens, NEW i \in DOMAIN inbox'[k], inbox'[k][i].cmd = "get-capabilities", inbox'[k][i].live
      PROVE  k = connecting' \/ (op' = "asked" /\ k = client')
  <2> SUFFICES ASSUME k # connecting PROVE op' = "asked" /\ k = client
    OBVIOUS
  <2>1. CASE k = g
    <3>1. Live(g, i + 1, "get-capabilities")
      BY <1>0, <1>4, <2>1 DEF Live
    <3>2. op = "asked" /\ g = client
      BY <1>0, <2>1, <3>1 DEF Awaited, Live
    <3>3. ~Live(g, 1, "get-capabilities")
      BY <1>0, <2>1, <3>1 DEF Awaited, Live
    <3>4. QED
      BY <2>1, <3>2, <3>3
  <2>2. CASE k # g
    <3>1. Live(k, i, "get-capabilities") /\ inbox'[k] = inbox[k]
      BY <1>0, <1>4, <2>2 DEF Live
    <3>2. op = "asked" /\ k = client
      BY <1>4, <3>1 DEF Awaited, Live
    <3>3. ~(Live(g, 1, "get-capabilities") /\ g # connecting)
      BY <1>0, <2>2, <3>2 DEF Awaited
    <3>4. QED
      BY <3>2, <3>3
  <2>3. QED
    BY <2>1, <2>2
<1>5. ASSUME NEW k \in Gens, NEW i \in DOMAIN inbox'[k], NEW j \in DOMAIN inbox'[k],
             inbox'[k][i].live, inbox'[k][j].live, inbox'[k][i].cmd = inbox'[k][j].cmd
      PROVE  i = j
  <2>1. CASE k = g
    <3>1. i + 1 \in DOMAIN inbox[g] /\ j + 1 \in DOMAIN inbox[g] /\ i \in Nat /\ j \in Nat
      BY <1>0, <1>5, <2>1
    <3>2. /\ inbox[g][i + 1].live /\ inbox[g][j + 1].live
          /\ inbox[g][i + 1].cmd = inbox[g][j + 1].cmd
      BY <1>0, <1>5, <2>1
    <3>3. i + 1 = j + 1
      BY <3>1, <3>2 DEF Awaited
    <3>4. QED
      BY <3>1, <3>3
  <2>2. CASE k # g
    BY <1>0, <1>5, <2>2 DEF Awaited
  <2>3. QED
    BY <2>1, <2>2
<1>6. QED
  BY <1>1, <1>2, <1>3, <1>4, <1>5 DEF Awaited, Live

(* A stop under way is still there when another command was taken. *)
LEMMA TakenStopping ==
  ASSUME Types, Stopping, NEW g \in Gens, Takes(g), Head(inbox[g]) # Command("stop-dataplane"),
         UNCHANGED <<stopping, client, helperGeneration, connecting, ended>>,
         op' = "stopping" => op = "stopping",
         op = "stopping" => op' = "stopping",
         disposed' = "no" => disposed = "no",
         active \/ startAttempted => active' \/ startAttempted'
  PROVE  Stopping'
<1>1. ASSUME stopping PROVE inbox'[client] # << >> /\ Last(inbox'[client]) = Command("stop-dataplane")
  <2>1. client \in Gens /\ inbox[client] # << >> /\ Last(inbox[client]) = Command("stop-dataplane")
    BY <1>1 DEF Stopping, Types, Gens
  <2>2. CASE client = g
    <3>1. Last(inbox[g]) = inbox[g][Len(inbox[g])] /\ Head(inbox[g]) = inbox[g][1]
      BY DEF Last, Takes
    <3>2. Len(inbox[g]) # 1
      BY <2>1, <2>2, <3>1
    <3>3. inbox'[g] # << >>
      <4>1. Len(inbox[g]) \in Nat /\ Len(inbox[g]) # 0
        BY DEF Takes, Types
      <4>2. Len(inbox'[g]) = Len(inbox[g]) - 1
        BY DEF Takes
      <4>3. Len(inbox'[g]) # 0
        BY <3>2, <4>1, <4>2
      <4>4. QED
        BY <4>3
    <3>4. QED
      BY <2>1, <2>2, <3>3 DEF Takes
  <2>3. CASE client # g
    BY <2>1, <2>3 DEF Takes, Others
  <2>4. QED
    BY <2>2, <2>3
<1>2. QED
  BY <1>1 DEF Stopping

(* The end of its input is still the last a helper finds. *)
LEMMA TakenLetGoEnds ==
  ASSUME Types, LetGoEnds, NEW g \in Gens, Takes(g), Head(inbox[g]).cmd # "end", UNCHANGED <<ended, proc>>
  PROVE  LetGoEnds'
<1> SUFFICES ASSUME NEW k \in Gens, ended[k], proc[k] = "run"
             PROVE  inbox'[k] # << >> /\ Last(inbox'[k]).cmd = "end"
  BY DEF LetGoEnds
<1>1. inbox[k] # << >> /\ Last(inbox[k]).cmd = "end"
  BY DEF LetGoEnds
<1>2. CASE k = g
  <2>1. Last(inbox[g]) = inbox[g][Len(inbox[g])] /\ Head(inbox[g]) = inbox[g][1]
    BY DEF Last, Takes
  <2>2. Len(inbox[g]) # 1
    BY <1>1, <1>2, <2>1
  <2>3. Len(inbox[g]) \in Nat /\ Len(inbox[g]) # 0 /\ Len(inbox'[g]) = Len(inbox[g]) - 1
    BY DEF Takes, Types
  <2>4. Len(inbox'[g]) # 0
    BY <2>2, <2>3
  <2>5. inbox'[g] # << >>
    BY <2>4
  <2>6. QED
    BY <1>1, <1>2, <2>5 DEF Takes
<1>3. CASE k # g
  BY <1>1, <1>3 DEF Takes, Others
<1>4. QED
  BY <1>2, <1>3

(* What is left in an inbox was in it. *)
LEMMA TakenWas ==
  ASSUME NEW g \in Gens, Takes(g), NEW k \in Gens, NEW i \in DOMAIN inbox'[k]
  PROVE  \E j \in DOMAIN inbox[k] : inbox'[k][i] = inbox[k][j]
<1>1. CASE k = g
  BY <1>1 DEF Takes
<1>2. CASE k # g
  BY <1>2 DEF Takes, Others
<1>3. QED
  BY <1>1, <1>2

LEMMA TakenStarts ==
  ASSUME NEW g \in Gens, Takes(g), NEW k \in Gens, HasStart(k)'
  PROVE  HasStart(k) /\ (k = g => Len(inbox[g]) # 1)
<1>1. PICK i \in DOMAIN inbox'[k] : inbox'[k][i].cmd = "start-dataplane"
  BY DEF HasStart
<1>2. HasStart(k)
  BY <1>1, TakenWas DEF HasStart
<1>3. ASSUME k = g, Len(inbox[g]) = 1 PROVE FALSE
  BY <1>1, <1>3 DEF Takes
<1>4. QED
  BY <1>2, <1>3

(* The helper that is waited for is another. *)
LEMMA TakenConnecting ==
  ASSUME Types, Connecting, NEW g \in Gens, Takes(g), g # connecting,
         UNCHANGED <<connecting, client, helperGeneration, ended>>,
         op' \in {"probing", "startWaits"} <=> op \in {"probing", "startWaits"},
         dataplaneGeneration' \in {dataplaneGeneration, g},
         \A k \in Gens \ {g} : up'[k] = up[k]
  PROVE  Connecting'
<1>1. ASSUME connecting # 0
      PROVE  connecting \in Gens /\ inbox'[connecting] = inbox[connecting] /\ up'[connecting] = up[connecting]
  BY <1>1 DEF Types, Gens, Takes, Others
<1>2. QED
  BY <1>1 DEF Connecting

LEMMA ConnectingIs ==
  ASSUME Connecting, NEW g \in Gens, g = connecting
  PROVE  /\ inbox[g] = <<Command("get-capabilities")>>
         /\ Head(inbox[g]) = Command("get-capabilities")
         /\ Head(inbox[g]).cmd = "get-capabilities"
         /\ Head(inbox[g]).live
         /\ ~ended[g]
         /\ ~up[g]
<1>1. inbox[g] = <<Command("get-capabilities")>> /\ ~ended[g] /\ ~up[g]
  BY DEF Connecting, Gens
<1>2. Head(inbox[g]) = Command("get-capabilities")
  BY <1>1
<1>3. QED
  BY <1>1, <1>2, CommandIs

(* The dataplane is carried on when something else than its stop is served. *)
LEMMA TakenCarried ==
  ASSUME Types, Carried, NEW g \in Gens, Takes(g), Head(inbox[g]).cmd # "get-capabilities",
         proc[g] = "run", \A k \in Gens \ {g} : up'[k] = up[k],
         UNCHANGED <<proc, dataplaneGeneration, active, startAttempted, op, stopping, disposed>>
  PROVE  Carried'
<1> SUFFICES ASSUME active, op \in {"idle", "asked", "probing"}, ~stopping, disposed = "no"
             PROVE  \/ proc[dataplaneGeneration] \in {"dead", "exited"}
                    \/ /\ proc[dataplaneGeneration] = "run"
                       /\ up'[dataplaneGeneration]
                       /\ \A i \in DOMAIN inbox'[dataplaneGeneration] :
                            inbox'[dataplaneGeneration][i].cmd = "get-capabilities"
  BY DEF Carried
<1> DEFINE d == dataplaneGeneration
<1>1. d \in Gens
  BY DEF Carried, Types, Gens
<1>2. CASE d = g
  BY <1>2 DEF Carried, Takes
<1>3. CASE d # g
  <2>1. inbox'[d] = inbox[d] /\ up'[d] = up[d]
    BY <1>1, <1>3 DEF Takes, Others
  <2>2. QED
    BY <2>1 DEF Carried
<1>4. QED
  BY <1>2, <1>3

-----------------------------------------------------------------------------
(* Steps *)

LEMMA ExitStep ==
  ASSUME Bounds, IInv, NEW g \in Gens, Exit(g)
  PROVE  IInv'
<1>t. Types
  BY TypesAre DEF IInv
<1> USE <1>t DEF IInv
<1>1. /\ proc[g] = "run" /\ proc' = [proc EXCEPT ![g] = "dead"] /\ up' = [up EXCEPT ![g] = FALSE]
      /\ faults' \in 0..MaxFaults
      /\ UNCHANGED <<inbox, ended, heard, helperGeneration, client, dataplaneGeneration, connecting, attached>>
      /\ UNCHANGED <<active, startAttempted, stopping, disposed, op, signal, legacy, starts>>
  BY DEF Exit, controllerVars, Types, Bounds
<1>2. Types'
  BY <1>1 DEF Types, Bounds, Gens, Ops, Procs
<1>3. Numbered'
  BY <1>1 DEF Types, Gens, Numbered, running, Connecting
<1>4. Connecting'
  BY <1>1 DEF Types, Gens, Connecting, Numbered, running
<1>5. Stopping'
  BY <1>1 DEF Types, Gens, Stopping, Connecting, Awaited, Live
<1>6. Awaited'
  BY <1>1 DEF Types, Gens, Awaited, Live, Connecting, Stopping
<1>7. LetGoEnds'
  BY <1>1 DEF Types, Gens, LetGoEnds, Awaited, Live
<1>8. Owed'
  BY <1>1 DEF Types, Gens, Owed, HasStart, Numbered, Connecting, running, Awaited, Live
<1>9. Carried'
  BY <1>1 DEF Types, Gens, Carried, Connecting, Awaited, Live, Stopping, Numbered
<1>10. Known'
  BY <1>1 DEF Types, Gens, Known, Connecting, Numbered, running
<1>11. Reported'
  BY <1>1 DEF Types, Gens, Reported
<1>12. QED
  BY <1>2, <1>3, <1>4, <1>5, <1>6, <1>7, <1>8, <1>9, <1>10, <1>11, TypesAreNext

LEMMA NoticedStep ==
  ASSUME Bounds, IInv, NEW g \in Gens, Noticed(g)
  PROVE  IInv'
<1>t. Types
  BY TypesAre DEF IInv
<1> USE <1>t DEF IInv
<1>1. /\ proc[g] = "dead" /\ proc' = [proc EXCEPT ![g] = "exited"]
      /\ UNCHANGED <<up, inbox, ended, heard, helperGeneration, client, dataplaneGeneration, connecting, attached>>
      /\ UNCHANGED <<active, startAttempted, stopping, disposed, op, signal, legacy, starts, faults>>
  BY DEF Noticed, controllerVars
<1>2. Types'
  BY <1>1 DEF Types, Bounds, Gens, Ops, Procs
<1>3. Numbered'
  BY <1>1 DEF Types, Gens, Numbered, running, Connecting
<1>4. Connecting'
  BY <1>1 DEF Types, Gens, Connecting, Numbered, running
<1>5. Stopping'
  BY <1>1 DEF Types, Gens, Stopping, Connecting, Awaited, Live
<1>6. Awaited'
  BY <1>1 DEF Types, Gens, Awaited, Live, Connecting, Stopping
<1>7. LetGoEnds'
  BY <1>1 DEF Types, Gens, LetGoEnds, Awaited, Live
<1>8. Owed'
  BY <1>1 DEF Types, Gens, Owed, HasStart, Numbered, Connecting, running, Awaited, Live
<1>9. Carried'
  BY <1>1 DEF Types, Gens, Carried, Connecting, Awaited, Live, Stopping, Numbered
<1>10. Known'
  BY <1>1 DEF Types, Gens, Known, Connecting, Numbered, running
<1>11. Reported'
  BY <1>1 DEF Types, Gens, Reported
<1>12. QED
  BY <1>2, <1>3, <1>4, <1>5, <1>6, <1>7, <1>8, <1>9, <1>10, <1>11, TypesAreNext

LEMMA GraceEndsStep ==
  ASSUME Bounds, IInv, GraceEnds
  PROVE  IInv'
<1>t. Types
  BY TypesAre DEF IInv
<1> USE <1>t DEF IInv
<1>1. /\ disposed = "grace" /\ disposed' = "done"
      /\ proc' = [g \in Gens |-> IF ended[g] /\ proc[g] = "run" THEN "dead" ELSE proc[g]]
      /\ up' = [g \in Gens |-> up[g] /\ ~ended[g]]
      /\ UNCHANGED <<inbox, ended, heard, helperGeneration, client, dataplaneGeneration, connecting, attached>>
      /\ UNCHANGED <<active, startAttempted, stopping, op, signal, legacy, starts, faults>>
  BY DEF GraceEnds
<1>2. Types'
  BY <1>1 DEF Types, Bounds, Gens, Ops, Procs
<1>3. Numbered'
  BY <1>1 DEF Types, Gens, Numbered, running, Connecting
<1>4. Connecting'
  BY <1>1 DEF Types, Gens, Connecting, Numbered, running
<1>5. Stopping'
  BY <1>1 DEF Types, Gens, Stopping, Connecting, Awaited, Live
<1>6. Awaited'
  BY <1>1 DEF Types, Gens, Awaited, Live, Connecting, Stopping
<1>7. LetGoEnds'
  BY <1>1 DEF Types, Gens, LetGoEnds, Awaited, Live
<1>8. Owed'
  BY <1>1 DEF Types, Gens, Owed, HasStart, Numbered, Connecting, running, Awaited, Live
<1>9. Carried'
  BY <1>1 DEF Types, Gens, Carried, Connecting, Awaited, Live, Stopping, Numbered
<1>10. Known'
  BY <1>1 DEF Types, Gens, Known, Connecting, Numbered, running
<1>11. Reported'
  BY <1>1 DEF Types, Gens, Reported
<1>12. QED
  BY <1>2, <1>3, <1>4, <1>5, <1>6, <1>7, <1>8, <1>9, <1>10, <1>11, TypesAreNext

LEMMA ServeEndStep ==
  ASSUME Bounds, IInv, NEW g \in Gens, ServeEnd(g)
  PROVE  IInv'
<1>t. Types
  BY TypesAre DEF IInv
<1> USE <1>t DEF IInv
<1>1. /\ proc[g] = "run" /\ inbox[g] # << >> /\ Head(inbox[g]).cmd = "end"
      /\ proc' = [proc EXCEPT ![g] = "dead"] /\ up' = [up EXCEPT ![g] = FALSE]
      /\ UNCHANGED <<ended, heard, helperGeneration, client, dataplaneGeneration, connecting, attached>>
      /\ UNCHANGED <<active, startAttempted, stopping, disposed, op, signal, legacy, starts, faults>>
  BY DEF ServeEnd, Serve, controllerVars
<1>2. Takes(g)
  BY <1>1, RestTakes DEF ServeEnd
<1>3. Types'
  BY <1>1, <1>2 DEF Types, Bounds, Gens, Ops, Procs, Takes, Others, Command
<1>4. Numbered'
  BY <1>1, <1>2 DEF Types, Gens, Numbered, running, Connecting, Takes, Others, Command
<1>5. Connecting'
  BY <1>1, <1>2 DEF Types, Gens, Connecting, Numbered, running, Takes, Others, Command
<1>6. Stopping'
  BY <1>1, <1>2, CommandIs, TakenStopping
<1>7. Awaited'
  BY <1>1, <1>2, TakenAwaited
<1>8. LetGoEnds'
  BY <1>1, <1>2 DEF Types, Gens, LetGoEnds, Awaited, Live, Takes, Others, Command
<1>9. Owed'
  BY <1>1, <1>2 DEF Types, Gens, Owed, HasStart, Numbered, Connecting, running, Awaited, Live, Takes, Others, Command
<1>10. Carried'
  BY <1>1, <1>2 DEF Types, Gens, Carried, Connecting, Awaited, Live, Stopping, Numbered, Takes, Others, Command
<1>11. Known'
  BY <1>1, <1>2 DEF Types, Gens, Known, Connecting, Numbered, running, Takes, Others, Command
<1>12. Reported'
  BY <1>1, <1>2 DEF Types, Gens, Reported, Takes, Others, Command
<1>13. QED
  BY <1>3, <1>4, <1>5, <1>6, <1>7, <1>8, <1>9, <1>10, <1>11, <1>12, TypesAreNext

LEMMA AnsweredStep ==
  ASSUME Bounds, IInv, NEW g \in Gens, Serve(g, "get-capabilities"), ~(heardBy(g) /\ g = connecting), ServeCapabilities(g)
  PROVE  IInv'
<1>t. Types
  BY TypesAre DEF IInv
<1> USE <1>t DEF IInv
<1>1. /\ proc[g] = "run" /\ inbox[g] # << >> /\ Head(inbox[g]).cmd = "get-capabilities"
      /\ op' = (IF heardBy(g) /\ op = "asked" THEN "idle" ELSE op)
      /\ UNCHANGED <<proc, up, ended, heard, helperGeneration, client, dataplaneGeneration, connecting, attached>>
      /\ UNCHANGED <<active, startAttempted, stopping, disposed, signal, legacy, starts, faults>>
  BY DEF ServeCapabilities, Serve, controllerVars
<1>2. Takes(g)
  BY <1>1, RestTakes DEF ServeCapabilities
<1>3. op' = op \/ (op = "asked" /\ op' = "idle" /\ Live(g, 1, "get-capabilities") /\ g # connecting)
  BY <1>1, <1>2 DEF heardBy, Live, Takes
<1>4. g # connecting
  BY <1>1, ConnectingIs DEF heardBy
<1>5. inbox' \in [Gens -> Seq(Commands)] /\ op' \in Ops
  BY <1>2, <1>3 DEF Takes, Types, Ops
<1>6. Types'
  BY <1>1, <1>5 DEF Types
<1>7. Numbered'
  BY <1>1, <1>2, <1>3 DEF Types, Gens, Numbered, running, Connecting, Takes, Others
<1>8. Connecting'
  BY <1>1, <1>2, <1>3, <1>4, TakenConnecting
<1>9. Stopping'
  BY <1>1, <1>2, <1>3, CommandIs, TakenStopping
<1>10. Awaited'
  BY <1>1, <1>2, <1>3, TakenAwaited
<1>11. LetGoEnds'
  BY <1>1, <1>2, TakenLetGoEnds
<1>12. Owed'
  BY <1>1, <1>2, TakenStarts DEF Owed
<1>13. Carried'
  BY <1>1, <1>2, <1>3, TakenWas DEF Carried, Types, Gens
<1>14. Known'
  BY <1>1 DEF Known
<1>15. Reported'
  BY <1>1, <1>2, <1>3 DEF Types, Gens, Reported
<1>16. QED
  BY <1>6, <1>7, <1>8, <1>9, <1>10, <1>11, <1>12, <1>13, <1>14, <1>15, TypesAreNext

LEMMA ServeStartStep ==
  ASSUME Bounds, IInv, NEW g \in Gens, ServeStart(g)
  PROVE  IInv'
<1>t. Types
  BY TypesAre DEF IInv
<1> USE <1>t DEF IInv
<1>1. /\ proc[g] = "run" /\ inbox[g] # << >> /\ Head(inbox[g]).cmd = "start-dataplane"
      /\ UNCHANGED <<proc, ended, heard, helperGeneration, client, connecting, attached>>
      /\ UNCHANGED <<startAttempted, stopping, disposed, signal, legacy, starts>>
  BY DEF ServeStart, Serve
<1>2. Takes(g)
  BY <1>1, RestTakes DEF ServeStart
<1>3. faults' \in 0..MaxFaults
  BY DEF ServeStart, Types, Bounds
<1>4. heardBy(g) => Live(g, 1, "start-dataplane") /\ op = "started" /\ g = client /\ ~ended[g] /\ (disposed = "no" => Len(inbox[g]) = 1)
  BY <1>1, <1>2 DEF heardBy, Live, Takes, Awaited
<1>5. \/ UNCHANGED <<op, dataplaneGeneration, active>>
      \/ heardBy(g) /\ op' = "idle" /\ dataplaneGeneration' = g /\ active' = TRUE /\ up'[g]
      \/ heardBy(g) /\ op' = "owes" /\ dataplaneGeneration' = dataplaneGeneration /\ active' = active
  BY Zenon DEF ServeStart, Types
<1>6. up' \in [Gens -> BOOLEAN] /\ \A k \in Gens \ {g} : up'[k] = up[k]
  BY DEF ServeStart, Types
<1>7. inbox' \in [Gens -> Seq(Commands)] /\ op' \in Ops /\ dataplaneGeneration' \in 0..MaxHelpers
  BY <1>2, <1>5 DEF Takes, Types, Ops, Gens
<1>8. active' \in BOOLEAN
  BY <1>5, Zenon DEF Types
<1>9. g # connecting
  BY <1>1, ConnectingIs
<1>10. Types'
  BY <1>1, <1>3, <1>6, <1>7, <1>8 DEF Types
<1>11. Numbered'
  BY <1>1, <1>2, <1>4, <1>5, <1>6 DEF Types, Gens, Numbered, running, Connecting, Takes, Others
<1>12. Connecting'
  BY <1>1, <1>2, <1>4, <1>5, <1>6, <1>9, TakenConnecting
<1>13. Stopping'
  BY <1>1, <1>2, <1>4, <1>5, CommandIs, TakenStopping
<1>14. Awaited'
  BY <1>1, <1>2, <1>4, <1>5, TakenAwaited
<1>15. LetGoEnds'
  BY <1>1, <1>2, TakenLetGoEnds
<1>16. Owed'
  <2>1. HasStart(g)
    BY <1>1, <1>2 DEF HasStart, Takes
  <2>2. QED
    BY <1>1, <1>2, <1>6, <2>1, TakenStarts DEF Owed
<1>17. Carried'
  <2>1. CASE UNCHANGED <<op, dataplaneGeneration, active>>
    BY <1>1, <1>2, <1>6, <2>1, TakenCarried
  <2>2. CASE heardBy(g) /\ op' = "idle" /\ dataplaneGeneration' = g /\ active' = TRUE /\ up'[g]
    <3>1. disposed = "no" => inbox'[g] = << >>
      BY <1>2, <1>4, <2>2 DEF Takes
    <3>2. DOMAIN << >> = {}
      OBVIOUS
    <3>3. g # 0
      BY DEF Gens
    <3>4. QED
      BY <1>1, <2>2, <3>1, <3>2, <3>3 DEF Carried
  <2>3. CASE heardBy(g) /\ op' = "owes" /\ dataplaneGeneration' = dataplaneGeneration /\ active' = active
    BY <1>1, <2>3 DEF Carried
  <2>4. QED
    BY <1>5, <2>1, <2>2, <2>3
<1>18. Known'
  BY <1>1 DEF Known
<1>19. Reported'
  BY <1>1, <1>2, <1>4, <1>5, <1>6 DEF Types, Gens, Reported
<1>20. QED
  BY <1>10, <1>11, <1>12, <1>13, <1>14, <1>15, <1>16, <1>17, <1>18, <1>19, TypesAreNext

LEMMA ServeStopStep ==
  ASSUME Bounds, IInv, NEW g \in Gens, ServeStop(g)
  PROVE  IInv'
<1>t. Types
  BY TypesAre DEF IInv
<1> USE <1>t DEF IInv
<1>1. /\ proc[g] = "run" /\ inbox[g] # << >> /\ Head(inbox[g]).cmd = "stop-dataplane"
      /\ up' = [up EXCEPT ![g] = FALSE]
      /\ UNCHANGED <<proc, ended, heard, helperGeneration, client, dataplaneGeneration, connecting, attached>>
      /\ UNCHANGED <<disposed, legacy, starts>>
  BY DEF ServeStop, Serve
<1>2. Takes(g)
  BY <1>1, RestTakes DEF ServeStop
<1>3. faults' \in 0..MaxFaults
  BY DEF ServeStop, Types, Bounds
<1>4. heardBy(g) => Live(g, 1, "stop-dataplane") /\ stopping /\ g = client /\ ~ended[g] /\ Len(inbox[g]) = 1
  BY <1>1, <1>2 DEF heardBy, Live, Takes, Awaited
<1>5. \/ ~heardBy(g) /\ UNCHANGED <<stopping, active, startAttempted, op, signal>>
      \/ /\ heardBy(g)
         /\ stopping' = FALSE
         /\ active' = FALSE
         /\ startAttempted' \in {startAttempted, FALSE}
         /\ signal' \in {signal, FALSE}
         /\ op' = IF op = "stopping" THEN "idle" ELSE op
  BY DEF ServeStop, Stopped, Types
<1>6. inbox' \in [Gens -> Seq(Commands)] /\ op' \in Ops /\ up' \in [Gens -> BOOLEAN]
  BY <1>1, <1>2, <1>5 DEF Takes, Types, Ops, Gens
<1>7. active' \in BOOLEAN /\ stopping' \in BOOLEAN /\ startAttempted' \in BOOLEAN /\ signal' \in BOOLEAN
  BY <1>5, Zenon DEF Types
<1>8. g # connecting
  BY <1>1, ConnectingIs
<1>9. \A k \in Gens : up'[k] => up[k] /\ k # g
  BY <1>1 DEF Types
<1>10. ~heardBy(g) => UNCHANGED <<stopping, active, startAttempted, op, signal>>
  BY <1>5, Zenon
<1>11. heardBy(g) => (startAttempted' => startAttempted)
  BY <1>5, <1>7, Zenon DEF Types
<1>12. Types'
  BY <1>1, <1>3, <1>6, <1>7 DEF Types
<1>13. Numbered'
  BY <1>1, <1>2, <1>4, <1>5, <1>6 DEF Types, Gens, Numbered, running, Connecting, Takes, Others
<1>14. Connecting'
  <2>1. \A k \in Gens \ {g} : up'[k] = up[k]
    BY <1>1 DEF Types
  <2>2. QED
    BY <1>1, <1>2, <1>4, <1>5, <1>8, <2>1, TakenConnecting
<1>15. Stopping'
  <2>1. CASE heardBy(g)
    BY <1>4, <1>5, <2>1 DEF Stopping
  <2>2. CASE ~heardBy(g)
    <3>1. Head(inbox[g]) # Command("stop-dataplane")
      BY <1>1, <1>2, <2>2, CommandIs DEF heardBy, Awaited, Takes
    <3>2. QED
      BY <1>1, <1>2, <1>10, <2>2, <3>1, TakenStopping
  <2>3. QED
    BY <2>1, <2>2
<1>16. Awaited'
  BY <1>1, <1>2, <1>4, <1>5, TakenAwaited DEF Stopping
<1>17. LetGoEnds'
  BY <1>1, <1>2, TakenLetGoEnds
<1>18. Owed'
  <2>1. CASE heardBy(g)
    BY <1>1, <1>2, <1>4, <1>9, <2>1, TakenStarts DEF Owed
  <2>2. CASE ~heardBy(g)
    BY <1>1, <1>2, <1>10, <1>9, <2>2, TakenStarts DEF Owed
  <2>3. QED
    BY <2>1, <2>2
<1>19. Carried'
  <2>1. \A k \in Gens \ {g} : up'[k] = up[k]
    BY <1>1 DEF Types
  <2>2. CASE heardBy(g)
    BY <1>5, <1>11, <2>2 DEF Carried
  <2>3. CASE ~heardBy(g)
    BY <1>1, <1>2, <1>10, <2>1, <2>3, TakenCarried
  <2>4. QED
    BY <2>2, <2>3
<1>20. Known'
  BY <1>1 DEF Known
<1>21. Reported'
  BY <1>1, <1>2, <1>4, <1>5, <1>6 DEF Types, Gens, Reported
<1>22. QED
  BY <1>12, <1>13, <1>14, <1>15, <1>16, <1>17, <1>18, <1>19, <1>20, <1>21, TypesAreNext

(* Nobody but the client runs unended with an adapter, and nothing is awaited of it between the calls. *)
LEMMA NothingAwaited ==
  ASSUME Types, Awaited, Connecting, op \in {"idle", "owes", "again"}, ~stopping,
         NEW g \in Gens, NEW i \in DOMAIN inbox[g], inbox[g][i].live
  PROVE  inbox[g][i].cmd = "end"
<1>1. connecting = 0 /\ g # 0
  BY DEF Connecting, Gens
<1>2. inbox[g][i] \in Commands
  BY ElementOfSeq DEF Types
<1>3. inbox[g][i].cmd \in {"get-capabilities", "start-dataplane", "stop-dataplane", "end"}
  BY <1>2 DEF Commands
<1>4. QED
  BY <1>1, <1>3 DEF Awaited, Live

(* connect: a helper is started. *)
LEMMA JoinStep ==
  ASSUME Bounds, IInv, NEW w \in {"probing", "startWaits"}, Join(w),
         op \in {"idle", "owes", "again"}, w = "probing" => op # "owes", ~stopping, ~running(client), starts' \in 0..MaxStarts,
         UNCHANGED <<up, ended, heard, client, dataplaneGeneration, active, stopping, disposed, signal, legacy, faults>>
  PROVE  IInv'
<1>t. Types
  BY TypesAre DEF IInv
<1> USE <1>t DEF IInv
<1>1. connecting = 0 /\ Spawn(FALSE) /\ op' = w
  BY DEF Join, Connecting
<1>2. /\ helperGeneration' = helperGeneration + 1
      /\ helperGeneration + 1 \in Gens
      /\ connecting' = helperGeneration + 1
      /\ attached' = FALSE
      /\ startAttempted' = FALSE
      /\ proc' = [proc EXCEPT ![helperGeneration + 1] = "run"]
      /\ inbox' = [inbox EXCEPT ![helperGeneration + 1] = <<Command("get-capabilities")>>]
  BY <1>1 DEF Spawn
<1>3. /\ helperGeneration \in Nat /\ client \in Nat /\ dataplaneGeneration \in Nat
      /\ client <= helperGeneration /\ dataplaneGeneration <= helperGeneration
  BY DEF Types, Numbered, Bounds
<1>4. /\ ~up[helperGeneration + 1] /\ ~ended[helperGeneration + 1]
      /\ inbox[helperGeneration + 1] = << >> /\ proc[helperGeneration + 1] = "none"
  BY <1>2, <1>3 DEF Numbered
<1>5. /\ inbox'[helperGeneration + 1] = <<Command("get-capabilities")>>
      /\ proc'[helperGeneration + 1] = "run"
      /\ \A k \in Gens \ {helperGeneration + 1} : inbox'[k] = inbox[k] /\ proc'[k] = proc[k]
      /\ client # 0 => client \in Gens /\ client # helperGeneration + 1
      /\ dataplaneGeneration # 0 => dataplaneGeneration \in Gens /\ dataplaneGeneration # helperGeneration + 1
  BY <1>2, <1>3 DEF Types, Gens
<1>6. <<Command("get-capabilities")>> \in Seq(Commands) /\ DOMAIN <<Command("get-capabilities")>> = {1}
      /\ <<Command("get-capabilities")>>[1] = Command("get-capabilities")
  BY CommandIs
<1>7. Types'
  <2>1. inbox' \in [Gens -> Seq(Commands)] /\ proc' \in [Gens -> Procs]
    BY <1>2, <1>6 DEF Types, Procs
  <2>2. attached' \in BOOLEAN /\ startAttempted' \in BOOLEAN /\ op' \in Ops
    BY <1>1, <1>2 DEF Ops
  <2>3. helperGeneration' \in 0..MaxHelpers /\ connecting' \in 0..MaxHelpers
    BY <1>2 DEF Gens
  <2>4. QED
    BY <2>1, <2>2, <2>3 DEF Types
<1>8. Numbered'
  <2>1. ~running(client)'
    BY <1>5 DEF running
  <2>2. client' <= helperGeneration' /\ dataplaneGeneration' <= helperGeneration'
    BY <1>2, <1>3
  <2>3. ASSUME NEW k \in Gens, k > helperGeneration'
        PROVE  ~up'[k] /\ ~ended'[k] /\ inbox'[k] = << >> /\ proc'[k] = "none"
    BY <1>2, <1>3, <1>5, <2>3 DEF Numbered, Gens
  <2>4. QED
    BY <2>1, <2>2, <2>3 DEF Numbered
<1>9. Connecting'
  BY <1>1, <1>2, <1>3, <1>4, <1>5 DEF Connecting, Gens
<1>10. Stopping'
  BY <1>1 DEF Stopping
<1>11. Awaited'
  <2>1. ASSUME NEW k \in Gens, NEW i \in DOMAIN inbox'[k], inbox'[k][i].live
        PROVE  \/ k # helperGeneration + 1 /\ inbox'[k] = inbox[k] /\ inbox'[k][i].cmd = "end"
               \/ k = connecting' /\ i = 1 /\ DOMAIN inbox'[k] = {1} /\ inbox'[k][i].cmd = "get-capabilities" /\ ~ended'[k]
    <3>1. CASE k = helperGeneration + 1
      BY <1>2, <1>4, <1>5, <1>6, <3>1, CommandIs
    <3>2. CASE k # helperGeneration + 1
      BY <1>5, <2>1, <3>2, NothingAwaited
    <3>3. QED
      BY <3>1, <3>2
  <2>2. ASSUME NEW k \in Gens, NEW i \in DOMAIN inbox'[k], NEW j \in DOMAIN inbox'[k],
               inbox'[k][i].live, inbox'[k][j].live, inbox'[k][i].cmd = inbox'[k][j].cmd
        PROVE  i = j
    BY <2>1, <2>2 DEF Awaited
  <2>3. QED
    BY <2>1, <2>2 DEF Awaited, Live
<1>12. LetGoEnds'
  BY <1>4, <1>5 DEF LetGoEnds
<1>13. Owed'
  <2>1. \A k \in Gens : HasStart(k)' => k # helperGeneration + 1 /\ HasStart(k)
    BY <1>5, <1>6, CommandIs DEF HasStart
  <2>2. ~(proc[client] = "run" /\ ~ended[client] /\ client \in Gens)
    BY DEF running, Gens
  <2>3. QED
    BY <1>4, <1>5, <2>1, <2>2 DEF Owed
<1>14. Carried'
  BY <1>1, <1>2, <1>5 DEF Carried
<1>15. Known'
  BY <1>1, <1>2, <1>5 DEF Known, Gens
<1>16. Reported'
  BY <1>1, <1>2, <1>3, <1>4, <1>5, <1>6 DEF Types, Gens, Reported
<1>17. QED
  BY <1>7, <1>8, <1>9, <1>10, <1>11, <1>12, <1>13, <1>14, <1>15, <1>16, TypesAreNext

(* probe: a running helper is asked again. *)
LEMMA AskStep ==
  ASSUME Bounds, IInv, Probe, running(client)
  PROVE  IInv'
<1>t. Types
  BY TypesAre DEF IInv
<1> USE <1>t DEF IInv
<1>1. /\ op = "idle" /\ disposed = "no" /\ send(client, "get-capabilities") /\ op' = "asked"
      /\ UNCHANGED <<helperGeneration, connecting, attached, startAttempted, proc>>
      /\ UNCHANGED <<up, ended, heard, client, dataplaneGeneration, active, stopping, disposed, signal, legacy, starts, faults>>
  BY DEF Probe
<1>2. client \in Gens /\ client = helperGeneration /\ ~ended[client] /\ proc[client] \in {"run", "dead"}
  BY DEF Types, Gens, running, Numbered
<1>3. connecting = 0 /\ ~stopping
  BY <1>1 DEF Connecting, Stopping
<1>4. Grows(client, "get-capabilities")
  BY <1>1, <1>2, SendGrows DEF send
<1>5. \A i \in DOMAIN inbox'[client] : i # Len(inbox[client]) + 1 => i \in DOMAIN inbox[client] /\ inbox'[client][i] = inbox[client][i]
  BY <1>4 DEF Grows
<1>6. Types'
  BY <1>1, <1>4 DEF Types, Ops, Grows
<1>7. Numbered'
  BY <1>1, <1>2, <1>4 DEF Numbered, Grows, Others, running, Gens, Types
<1>8. Connecting'
  BY <1>1, <1>3 DEF Connecting
<1>9. Stopping'
  BY <1>1, <1>3 DEF Stopping
<1>10. Awaited'
  <2>1. ASSUME NEW k \in Gens, NEW i \in DOMAIN inbox'[k], inbox'[k][i].live, inbox'[k][i].cmd # "end"
        PROVE  k = client /\ i = Len(inbox[client]) + 1 /\ inbox'[k][i].cmd = "get-capabilities"
    <3>1. CASE k = client
      BY <1>1, <1>3, <1>4, <1>5, <2>1, <3>1, NothingAwaited, CommandIs DEF Grows
    <3>2. CASE k # client
      BY <1>1, <1>3, <1>4, <2>1, <3>2, NothingAwaited DEF Grows, Others
    <3>3. QED
      BY <3>1, <3>2
  <2>2. ASSUME NEW k \in Gens, NEW i \in DOMAIN inbox'[k], NEW j \in DOMAIN inbox'[k],
               inbox'[k][i].live, inbox'[k][j].live, inbox'[k][i].cmd = inbox'[k][j].cmd
        PROVE  i = j
    <3>1. CASE inbox'[k][i].cmd # "end"
      BY <2>1, <2>2, <3>1
    <3>2. CASE inbox'[k][i].cmd = "end"
      <4>1. i \in DOMAIN inbox[k] /\ j \in DOMAIN inbox[k] /\ inbox'[k][i] = inbox[k][i] /\ inbox'[k][j] = inbox[k][j]
        BY <1>4, <1>5, <2>2, <3>2, CommandIs DEF Grows, Others
      <4>2. QED
        BY <2>2, <4>1 DEF Awaited
    <3>3. QED
      BY <3>1, <3>2
  <2>3. QED
    BY <1>1, <1>2, <2>1, <2>2 DEF Awaited, Live
<1>11. LetGoEnds'
  BY <1>1, <1>2, <1>4 DEF LetGoEnds, Grows, Others
<1>12. Owed'
  <2>1. \A k \in Gens : HasStart(k)' => HasStart(k)
    BY <1>4, <1>5, CommandIs DEF HasStart, Grows, Others
  <2>2. QED
    BY <1>1, <2>1 DEF Owed
<1>13. Carried'
  <2>1. \A k \in Gens : \A i \in DOMAIN inbox'[k] : inbox'[k][i].cmd = "get-capabilities" \/ (i \in DOMAIN inbox[k] /\ inbox'[k][i] = inbox[k][i])
    BY <1>4, <1>5, CommandIs DEF Grows, Others
  <2>2. active => dataplaneGeneration \in Gens
    BY DEF Carried, Types, Gens
  <2>3. QED
    BY <1>1, <2>1, <2>2 DEF Carried
<1>14. Known'
  BY <1>1 DEF Known
<1>15. Reported'
  BY <1>1, <1>2, <1>3, <1>4 DEF Types, Gens, Reported
<1>16. QED
  BY <1>6, <1>7, <1>8, <1>9, <1>10, <1>11, <1>12, <1>13, <1>14, <1>15, TypesAreNext

(* start: the command is sent to a running helper. *)
LEMMA StartSentStep ==
  ASSUME Bounds, IInv, Start, running(client)
  PROVE  IInv'
<1>t. Types
  BY TypesAre DEF IInv
<1> USE <1>t DEF IInv
<1>1. /\ op \in {"idle", "owes"} /\ disposed = "no" /\ ~stopping /\ starts' = starts + 1 /\ starts < MaxStarts
      /\ startAttempted' = TRUE /\ op' = "started"
      /\ inbox' = [inbox EXCEPT ![client] = Append(inbox[client], Command("start-dataplane"))]
      /\ UNCHANGED <<helperGeneration, connecting, attached, proc>>
      /\ UNCHANGED <<up, ended, heard, client, dataplaneGeneration, active, stopping, disposed, signal, legacy, faults>>
  BY DEF Start, SendStart
<1>2. client \in Gens /\ client = helperGeneration /\ ~ended[client] /\ proc[client] \in {"run", "dead"}
  BY DEF Types, Gens, running, Numbered
<1>3. connecting = 0 /\ ~stopping
  BY <1>1 DEF Connecting, Stopping
<1>4. Grows(client, "start-dataplane")
  BY <1>1, <1>2, SendGrows
<1>5. \A i \in DOMAIN inbox'[client] : i # Len(inbox[client]) + 1 => i \in DOMAIN inbox[client] /\ inbox'[client][i] = inbox[client][i]
  BY <1>4 DEF Grows
<1>6. Types'
  <2>1. starts' \in 0..MaxStarts
    BY <1>1 DEF Types, Bounds
  <2>2. startAttempted' \in BOOLEAN
    BY <1>1
  <2>3. inbox' \in [Gens -> Seq(Commands)] /\ op' \in Ops
    BY <1>1, <1>4 DEF Ops, Grows
  <2>4. QED
    BY <1>1, <2>1, <2>2, <2>3 DEF Types
<1>7. Numbered'
  BY <1>1, <1>2, <1>4 DEF Numbered, Grows, Others, running, Gens, Types
<1>8. Connecting'
  BY <1>1, <1>3 DEF Connecting
<1>9. Stopping'
  BY <1>1, <1>3 DEF Stopping
<1>10. Awaited'
  <2>1. ASSUME NEW k \in Gens, NEW i \in DOMAIN inbox'[k], inbox'[k][i].live, inbox'[k][i].cmd # "end"
        PROVE  k = client /\ i = Len(inbox[client]) + 1 /\ inbox'[k][i].cmd = "start-dataplane"
    <3>1. CASE k = client
      BY <1>1, <1>3, <1>4, <1>5, <2>1, <3>1, NothingAwaited, CommandIs DEF Grows
    <3>2. CASE k # client
      BY <1>1, <1>3, <1>4, <2>1, <3>2, NothingAwaited DEF Grows, Others
    <3>3. QED
      BY <3>1, <3>2
  <2>2. ASSUME NEW k \in Gens, NEW i \in DOMAIN inbox'[k], NEW j \in DOMAIN inbox'[k],
               inbox'[k][i].live, inbox'[k][j].live, inbox'[k][i].cmd = inbox'[k][j].cmd
        PROVE  i = j
    <3>1. CASE inbox'[k][i].cmd # "end"
      BY <2>1, <2>2, <3>1
    <3>2. CASE inbox'[k][i].cmd = "end"
      <4>1. i \in DOMAIN inbox[k] /\ j \in DOMAIN inbox[k] /\ inbox'[k][i] = inbox[k][i] /\ inbox'[k][j] = inbox[k][j]
        BY <1>4, <1>5, <2>2, <3>2, CommandIs DEF Grows, Others
      <4>2. QED
        BY <2>2, <4>1 DEF Awaited
    <3>3. QED
      BY <3>1, <3>2
  <2>3. Len(inbox'[client]) = Len(inbox[client]) + 1
    BY <1>4 DEF Grows
  <2>4. QED
    BY <1>1, <1>2, <2>1, <2>2, <2>3 DEF Awaited, Live
<1>11. LetGoEnds'
  BY <1>1, <1>2, <1>4 DEF LetGoEnds, Grows, Others
<1>12. Owed'
  <2>1. \A k \in Gens : HasStart(k)' => HasStart(k) \/ k = client
    BY <1>4 DEF HasStart, Grows, Others
  <2>2. QED
    BY <1>1, <2>1 DEF Owed
<1>13. Carried'
  BY <1>1 DEF Carried
<1>14. Known'
  BY <1>1 DEF Known
<1>15. Reported'
  BY <1>1, <1>2, <1>3, <1>4 DEF Types, Gens, Reported
<1>16. QED
  BY <1>6, <1>7, <1>8, <1>9, <1>10, <1>11, <1>12, <1>13, <1>14, <1>15, TypesAreNext

(* stop, by its caller or by dispose: joined, not owed, or sent *)
LEMMA StopJoinedStep ==
  ASSUME Bounds, IInv, NEW then, stopping, op' = then,
         UNCHANGED <<stopping, active, startAttempted, inbox, signal>>,
         UNCHANGED <<proc, up, ended, heard, helperGeneration, client, dataplaneGeneration, connecting, attached, legacy, starts, faults>>,
         \/ op \in {"idle", "owes"} /\ then = "stopping" /\ disposed' = disposed
         \/ then = op /\ disposed = "no" /\ disposed' = "stopping"
  PROVE  IInv'
<1>t. Types
  BY TypesAre DEF IInv
<1> USE <1>t DEF IInv
<1>1. disposed = "no" => op = "stopping" /\ then = "stopping" /\ disposed' = "stopping"
  BY DEF Stopping
<1>2. connecting = 0 /\ op \notin {"probing", "startWaits"}
  BY DEF Stopping, Connecting
<1>3. Types'
  <2>1. op' \in Ops /\ disposed' \in {"no", "stopping", "grace", "done"}
    BY DEF Types, Ops
  <2>2. QED
    BY <2>1 DEF Types
<1>4. Numbered'
  BY DEF Numbered, running
<1>5. Connecting'
  BY <1>2 DEF Connecting
<1>6. Stopping'
  BY <1>1 DEF Stopping
<1>7. Awaited'
  BY <1>1, <1>2 DEF Awaited, Live
<1>8. LetGoEnds'
  BY DEF LetGoEnds
<1>9. Owed'
  BY DEF Owed, HasStart
<1>10. Carried'
  BY DEF Carried
<1>11. Known'
  BY DEF Known
<1>12. Reported'
  BY <1>1, <1>2 DEF Types, Gens, Reported
<1>13. QED
  BY <1>3, <1>4, <1>5, <1>6, <1>7, <1>8, <1>9, <1>10, <1>11, <1>12, TypesAreNext

LEMMA StopNotOwedStep ==
  ASSUME Bounds, IInv, NEW then, ~stopping, ~running(client) \/ (~active /\ ~startAttempted),
         ~startAttempted', ~active', startAttempted' \in BOOLEAN, active' \in BOOLEAN,
         op' = (IF then = "stopping" THEN "idle" ELSE op),
         signal' = (IF then = "stopping" THEN FALSE ELSE signal),
         UNCHANGED <<stopping, inbox>>,
         UNCHANGED <<proc, up, ended, heard, helperGeneration, client, dataplaneGeneration, connecting, attached, legacy, starts, faults>>,
         \/ op \in {"idle", "owes"} /\ then = "stopping" /\ disposed' = disposed
         \/ then = op /\ disposed = "no" /\ disposed' = "stopping"
  PROVE  IInv'
<1>t. Types
  BY TypesAre DEF IInv
<1> USE <1>t DEF IInv
<1>1. op' = op \/ (op \in {"idle", "owes"} /\ op' = "idle")
  <2>1. op # "stopping"
    BY DEF Stopping
  <2>2. CASE then = op
    BY <2>1, <2>2
  <2>3. CASE op \in {"idle", "owes"} /\ then = "stopping"
    BY <2>3
  <2>4. QED
    BY <2>2, <2>3
<1>2. disposed' = "no" => disposed = "no"
  OBVIOUS
<1>3. Types'
  <2>1. op' \in Ops /\ disposed' \in {"no", "stopping", "grace", "done"}
    BY <1>1 DEF Types, Ops
  <2>2. signal' \in BOOLEAN
    BY DEF Types
  <2>3. QED
    BY <2>1, <2>2 DEF Types
<1>4. Numbered'
  BY DEF Numbered, running
<1>5. Connecting'
  BY <1>1 DEF Connecting
<1>6. Stopping'
  BY <1>1 DEF Stopping
<1>7. Awaited'
  BY <1>1, <1>2 DEF Awaited, Live
<1>8. LetGoEnds'
  BY DEF LetGoEnds
<1>9. Owed'
  <2>1. ASSUME NEW k \in Gens, proc[k] = "run", ~ended[k], up[k] \/ HasStart(k) PROVE FALSE
    BY <2>1 DEF Owed, running, Gens
  <2>2. QED
    BY <2>1 DEF Owed, HasStart
<1>10. Carried'
  BY <1>1 DEF Carried
<1>11. Known'
  BY DEF Known
<1>12. Reported'
  BY <1>1, <1>2 DEF Types, Gens, Reported
<1>13. QED
  BY <1>3, <1>4, <1>5, <1>6, <1>7, <1>8, <1>9, <1>10, <1>11, <1>12, TypesAreNext

LEMMA StopSentStep ==
  ASSUME Bounds, IInv, NEW then, ~stopping, running(client), active \/ startAttempted,
         stopping' = TRUE, op' = then, send(client, "stop-dataplane"),
         UNCHANGED <<active, startAttempted, signal>>,
         UNCHANGED <<proc, up, ended, heard, helperGeneration, client, dataplaneGeneration, connecting, attached, legacy, starts, faults>>,
         \/ op \in {"idle", "owes"} /\ then = "stopping" /\ disposed' = disposed
         \/ then = op /\ disposed = "no" /\ disposed' = "stopping"
  PROVE  IInv'
<1>t. Types
  BY TypesAre DEF IInv
<1> USE <1>t DEF IInv
<1>1. client \in Gens /\ client = helperGeneration /\ ~ended[client] /\ proc[client] \in {"run", "dead"}
  BY DEF Types, Gens, running, Numbered
<1>2. connecting = 0
  BY <1>1 DEF Connecting, Gens, Types
<1>3. op # "stopping" /\ op \notin {"probing", "startWaits"}
  BY <1>2 DEF Stopping, Connecting
<1>4. Grows(client, "stop-dataplane")
  BY <1>1, SendGrows DEF send
<1>5. \A i \in DOMAIN inbox'[client] : i # Len(inbox[client]) + 1 => i \in DOMAIN inbox[client] /\ inbox'[client][i] = inbox[client][i]
  BY <1>4 DEF Grows
<1>6. disposed # "no" \/ disposed' # "no" \/ (op \in {"idle", "owes"} /\ op' = "stopping")
  OBVIOUS
<1>7. op' = op \/ (op \in {"idle", "owes"} /\ op' = "stopping")
  OBVIOUS
<1>8. Len(inbox'[client]) = Len(inbox[client]) + 1 /\ Len(inbox[client]) \in Nat
  BY <1>4 DEF Grows
<1>9. Types'
  <2>1. op' \in Ops /\ disposed' \in {"no", "stopping", "grace", "done"}
    BY DEF Types, Ops
  <2>2. stopping' \in BOOLEAN
    OBVIOUS
  <2>3. inbox' \in [Gens -> Seq(Commands)]
    BY <1>4 DEF Grows
  <2>4. QED
    BY <2>1, <2>2, <2>3 DEF Types
<1>10. Numbered'
  BY <1>1, <1>4 DEF Numbered, running, Grows, Others, Types, Gens
<1>11. Connecting'
  BY <1>2, <1>3, <1>7 DEF Connecting
<1>12. Stopping'
  <2>1. inbox'[client] # << >> /\ Last(inbox'[client]) = Command("stop-dataplane")
    BY <1>4 DEF Grows
  <2>2. client # 0 /\ (disposed' = "no" => op' = "stopping")
    BY <1>1, <1>6 DEF Gens
  <2>3. QED
    BY <1>1, <1>2, <2>1, <2>2 DEF Stopping
<1>13. Awaited'
  <2>1. ASSUME NEW k \in Gens, NEW i \in DOMAIN inbox'[k]
        PROVE  \/ i \in DOMAIN inbox[k] /\ inbox'[k][i] = inbox[k][i]
               \/ k = client /\ i = Len(inbox'[k]) /\ inbox'[k][i].cmd = "stop-dataplane" /\ i = Len(inbox[k]) + 1
    BY <1>4, <1>5, <1>8, <2>1, CommandIs DEF Grows, Others
  <2>2. \A k \in Gens : \A i \in DOMAIN inbox[k] : ~Live(k, i, "stop-dataplane")
    BY DEF Awaited
  <2>3. ASSUME NEW k \in Gens, NEW i \in DOMAIN inbox'[k], inbox'[k][i].live, inbox'[k][i].cmd = "stop-dataplane"
        PROVE  k = client /\ i = Len(inbox'[k]) /\ i = Len(inbox[k]) + 1
    BY <2>1, <2>2, <2>3 DEF Live
  <2>4. ASSUME NEW k \in Gens, NEW i \in DOMAIN inbox'[k], inbox'[k][i].live, inbox'[k][i].cmd # "stop-dataplane"
        PROVE  i \in DOMAIN inbox[k] /\ inbox'[k][i] = inbox[k][i]
    BY <2>1, <2>4
  <2>5. ASSUME NEW k \in Gens, NEW i \in DOMAIN inbox'[k], inbox'[k][i].live, inbox'[k][i].cmd = "start-dataplane"
        PROVE  op' = "started" /\ k = client /\ disposed' # "no"
    BY <1>6, <1>7, <2>4, <2>5 DEF Awaited, Live
  <2>6. ASSUME NEW k \in Gens, NEW i \in DOMAIN inbox'[k], inbox'[k][i].live, inbox'[k][i].cmd = "get-capabilities"
        PROVE  op' = "asked" /\ k = client
    BY <1>2, <1>7, <2>4, <2>6 DEF Awaited, Live, Gens
  <2>7. ASSUME NEW k \in Gens, NEW i \in DOMAIN inbox'[k], NEW j \in DOMAIN inbox'[k],
               inbox'[k][i].live, inbox'[k][j].live, inbox'[k][i].cmd = inbox'[k][j].cmd
        PROVE  i = j
    <3>1. CASE inbox'[k][i].cmd = "stop-dataplane"
      BY <2>3, <2>7, <3>1
    <3>2. CASE inbox'[k][i].cmd # "stop-dataplane"
      BY <2>4, <2>7, <3>2 DEF Awaited
    <3>3. QED
      BY <3>1, <3>2
  <2>8. ASSUME NEW k \in Gens, NEW i \in DOMAIN inbox'[k], ended'[k], inbox'[k][i].live
        PROVE  inbox'[k][i].cmd = "end"
    BY <1>1, <2>1, <2>8 DEF Awaited
  <2>9. QED
    BY <2>3, <2>5, <2>6, <2>7, <2>8 DEF Awaited, Live
<1>14. LetGoEnds'
  BY <1>1, <1>4 DEF LetGoEnds, Grows, Others
<1>15. Owed'
  <2>1. \A k \in Gens : HasStart(k)' => HasStart(k)
    BY <1>4, <1>5, CommandIs DEF HasStart, Grows, Others
  <2>2. QED
    BY <2>1 DEF Owed
<1>16. Carried'
  <2>1. op' # "again" \/ (op = "again" /\ UNCHANGED <<active, startAttempted>>)
    BY <1>7
  <2>2. QED
    BY <2>1 DEF Carried
<1>17. Known'
  BY DEF Known
<1>18. Reported'
  BY <1>1, <1>2 DEF Types, Gens, Reported
<1>19. QED
  BY <1>9, <1>10, <1>11, <1>12, <1>13, <1>14, <1>15, <1>16, <1>17, <1>18, TypesAreNext

LEMMA SendStopStep ==
  ASSUME Bounds, IInv, NEW then, SendStop(then),
         UNCHANGED <<proc, up, ended, heard, helperGeneration, client, dataplaneGeneration, connecting, attached, legacy, starts, faults>>,
         \/ op \in {"idle", "owes"} /\ then = "stopping" /\ disposed' = disposed
         \/ then = op /\ disposed = "no" /\ disposed' = "stopping"
  PROVE  IInv'
<1>1. CASE stopping
  BY <1>1, StopJoinedStep DEF SendStop
<1>2. CASE ~stopping /\ (~running(client) \/ (~active /\ ~startAttempted))
  <2>1. startAttempted' = FALSE /\ active' = FALSE /\ UNCHANGED <<stopping, inbox>>
        /\ op' = (IF then = "stopping" THEN "idle" ELSE op)
        /\ signal' = (IF then = "stopping" THEN FALSE ELSE signal)
    BY <1>2 DEF SendStop
  <2>2. ~startAttempted' /\ ~active' /\ startAttempted' \in BOOLEAN /\ active' \in BOOLEAN
    BY <2>1
  <2>3. QED
    BY <1>2, <2>1, <2>2, StopNotOwedStep
<1>3. CASE ~stopping /\ running(client) /\ (active \/ startAttempted)
  BY <1>3, StopSentStep DEF SendStop
<1>4. QED
  BY <1>1, <1>2, <1>3

(* Of what is left after the client let g go, only the end of its input is not answered. *)
LEMMA EndsLive ==
  ASSUME NEW g \in Gens, Ends(g), NEW k \in Gens, NEW i \in DOMAIN inbox'[k], inbox'[k][i].live
  PROVE  \/ k # g /\ inbox'[k] = inbox[k] /\ i \in DOMAIN inbox[k] /\ inbox'[k][i] = inbox[k][i]
         \/ k = g /\ i = Len(inbox[g]) + 1 /\ inbox'[k][i].cmd = "end"
<1>1. CASE k = g
  <2>1. i \in DOMAIN inbox[g] => ~inbox'[g][i].live
    BY DEF Ends
  <2>2. DOMAIN inbox'[g] = 1..(Len(inbox[g]) + 1) /\ DOMAIN inbox[g] = 1..Len(inbox[g]) /\ Len(inbox[g]) \in Nat
        /\ inbox'[g][Len(inbox[g]) + 1].cmd = "end"
    BY DEF Ends
  <2>3. i = Len(inbox[g]) + 1
    BY <1>1, <2>1, <2>2
  <2>4. QED
    BY <1>1, <2>2, <2>3
<1>2. CASE k # g
  BY <1>2 DEF Ends, Others
<1>3. QED
  BY <1>1, <1>2

LEMMA EndsStarts ==
  ASSUME NEW g \in Gens, Ends(g), NEW k \in Gens, HasStart(k)'
  PROVE  HasStart(k)
<1>1. PICK i \in DOMAIN inbox'[k] : inbox'[k][i].cmd = "start-dataplane"
  BY DEF HasStart
<1>2. CASE k = g
  BY <1>1, <1>2 DEF HasStart, Ends
<1>3. CASE k # g
  BY <1>1, <1>3 DEF HasStart, Ends, Others
<1>4. QED
  BY <1>2, <1>3

LEMMA EndsOnce ==
  ASSUME Awaited, NEW g \in Gens, Ends(g), NEW k \in Gens, NEW i \in DOMAIN inbox'[k], NEW j \in DOMAIN inbox'[k],
         inbox'[k][i].live, inbox'[k][j].live, inbox'[k][i].cmd = inbox'[k][j].cmd
  PROVE  i = j
<1>1. CASE k = g
  BY <1>1, EndsLive
<1>2. CASE k # g
  BY <1>2, EndsLive DEF Awaited
<1>3. QED
  BY <1>1, <1>2

(* The handshake has failed, or comes after the controller was disposed. *)
LEMMA ConnectGivenUpStep ==
  ASSUME Bounds, IInv, NEW g \in Gens, g = connecting, ConnectFails, Released(g, FALSE), faults' \in 0..MaxFaults,
         UNCHANGED <<heard, helperGeneration, client, dataplaneGeneration, attached, active, startAttempted, stopping>>,
         UNCHANGED <<disposed, signal, legacy, starts>>
  PROVE  IInv'
<1>t. Types
  BY TypesAre DEF IInv
<1> USE <1>t DEF IInv
<1>1. g # 0 /\ connecting' = 0 /\ op \in {"probing", "startWaits"} /\ op' = "owes"
  BY DEF ConnectFails, Connecting, Gens
<1>2. /\ ended' = [ended EXCEPT ![g] = TRUE]
      /\ proc' \in [Gens -> Procs]
      /\ up' \in [Gens -> BOOLEAN]
      /\ \A k \in Gens : proc'[k] = "run" => proc[k] = "run" /\ k # g
      /\ \A k \in Gens \ {g} : proc'[k] = proc[k] /\ up'[k] = up[k]
      /\ up'[g] => up[g]
  BY DEF Released, Types, Procs
<1>3. Ends(g)
  BY ReleaseEnds DEF Released
<1>4. g = helperGeneration /\ g # client /\ g # dataplaneGeneration /\ ~up[g] /\ ~stopping
  BY <1>1 DEF Connecting, Stopping
<1>5. Types'
  <2>1. ended' \in [Gens -> BOOLEAN] /\ inbox' \in [Gens -> Seq(Commands)]
    BY <1>2, <1>3 DEF Types, Ends
  <2>2. op' \in Ops /\ connecting' \in 0..MaxHelpers
    BY <1>1 DEF Ops, Bounds
  <2>3. QED
    BY <1>2, <2>1, <2>2 DEF Types
<1>6. Numbered'
  <2>1. running(client)' => running(client)
    BY <1>2, <1>4 DEF running, Types, Gens
  <2>2. ASSUME NEW k \in Gens, k > helperGeneration' PROVE k # g
    BY <1>4, <2>2 DEF Types, Gens
  <2>3. QED
    BY <1>2, <1>3, <2>1, <2>2 DEF Numbered, Ends, Others, Types
<1>7. Connecting'
  BY <1>1 DEF Connecting
<1>8. Stopping'
  BY <1>1, <1>4 DEF Stopping
<1>9. Awaited'
  <2>1. ASSUME NEW k \in Gens, NEW i \in DOMAIN inbox'[k], inbox'[k][i].live, inbox'[k][i].cmd # "end"
        PROVE  k # g /\ inbox'[k] = inbox[k] /\ i \in DOMAIN inbox[k] /\ inbox'[k][i] = inbox[k][i]
    BY <1>3, <2>1, EndsLive
  <2>2. ASSUME NEW k \in Gens, NEW i \in DOMAIN inbox'[k], NEW j \in DOMAIN inbox'[k],
               inbox'[k][i].live, inbox'[k][j].live, inbox'[k][i].cmd = inbox'[k][j].cmd
        PROVE  i = j
    BY <1>3, <2>2, EndsOnce
  <2>3. ASSUME NEW k \in Gens, NEW i \in DOMAIN inbox'[k], ended'[k], inbox'[k][i].live
        PROVE  inbox'[k][i].cmd = "end"
    <3>1. CASE k = g
      BY <2>1, <2>3, <3>1
    <3>2. CASE k # g
      BY <1>1, <1>2, <1>4, <2>1, <2>3, <3>2 DEF Awaited, Types
    <3>3. QED
      BY <3>1, <3>2
  <2>4. QED
    BY <1>1, <1>2, <1>4, <2>1, <2>2, <2>3 DEF Awaited, Live
<1>10. LetGoEnds'
  BY <1>2, <1>3 DEF LetGoEnds, Ends, Others, Types
<1>11. Owed'
  <2>1. ASSUME NEW k \in Gens, proc'[k] = "run", ~ended'[k] PROVE k # g /\ proc[k] = "run" /\ ~ended[k] /\ up'[k] = up[k]
    BY <1>2, <2>1 DEF Types
  <2>2. QED
    BY <1>3, <2>1, EndsStarts DEF Owed
<1>12. Carried'
  BY <1>1 DEF Carried
<1>13. Known'
  <2>1. ASSUME NEW k \in Gens, proc'[k] = "run" PROVE k # g /\ proc[k] = "run" /\ ended'[k] = ended[k]
    BY <1>2, <2>1 DEF Types
  <2>2. QED
    BY <1>1, <2>1 DEF Known
<1>14. Reported'
  BY DEF Released, Types, Reported
<1>15. QED
  BY <1>5, <1>6, <1>7, <1>8, <1>9, <1>10, <1>11, <1>12, <1>13, <1>14, TypesAreNext

(* An idle helper that does not answer is let go, to be connected to again. *)
LEMMA RefreshGivenUpStep ==
  ASSUME Bounds, IInv, NEW g \in Gens, g = client, op = "asked", ~active, ~startAttempted, op' = "again", Released(g, FALSE), client' = 0,
         faults' \in 0..MaxFaults,
         UNCHANGED <<heard, helperGeneration, dataplaneGeneration, connecting, attached, active, startAttempted, stopping>>,
         UNCHANGED <<disposed, signal, legacy, starts>>
  PROVE  IInv'
<1>t. Types
  BY TypesAre DEF IInv
<1> USE <1>t DEF IInv
<1>1. connecting = 0 /\ ~stopping /\ g # 0
  BY DEF Connecting, Stopping, Gens
<1>2. /\ ended' = [ended EXCEPT ![g] = TRUE]
      /\ proc' \in [Gens -> Procs]
      /\ up' \in [Gens -> BOOLEAN]
      /\ \A k \in Gens : proc'[k] = "run" => proc[k] = "run" /\ k # g
      /\ \A k \in Gens \ {g} : proc'[k] = proc[k] /\ up'[k] = up[k]
      /\ up'[g] => up[g]
  BY DEF Released, Types, Procs
<1>3. Ends(g)
  BY ReleaseEnds DEF Released
<1>4. Types'
  <2>1. ended' \in [Gens -> BOOLEAN] /\ inbox' \in [Gens -> Seq(Commands)]
    BY <1>2, <1>3 DEF Types, Ends
  <2>2. op' \in Ops /\ client' \in 0..MaxHelpers
    BY <1>1 DEF Ops, Bounds
  <2>3. QED
    BY <1>2, <2>1, <2>2 DEF Types
<1>5. Numbered'
  <2>1. ~running(client)' /\ client' <= helperGeneration'
    BY DEF running, Types
  <2>2. ASSUME NEW k \in Gens, k > helperGeneration' PROVE k # g
    BY <2>2 DEF Types, Gens, Numbered
  <2>3. QED
    BY <1>2, <1>3, <2>1, <2>2 DEF Numbered, Ends, Others, Types
<1>6. Connecting'
  BY <1>1 DEF Connecting
<1>7. Stopping'
  BY <1>1 DEF Stopping
<1>8. Awaited'
  <2>1. ASSUME NEW k \in Gens, NEW i \in DOMAIN inbox'[k], inbox'[k][i].live, inbox'[k][i].cmd # "end"
        PROVE  k # g /\ inbox'[k] = inbox[k] /\ i \in DOMAIN inbox[k] /\ inbox'[k][i] = inbox[k][i]
    BY <1>3, <2>1, EndsLive
  <2>2. ASSUME NEW k \in Gens, NEW i \in DOMAIN inbox'[k], NEW j \in DOMAIN inbox'[k],
               inbox'[k][i].live, inbox'[k][j].live, inbox'[k][i].cmd = inbox'[k][j].cmd
        PROVE  i = j
    BY <1>3, <2>2, EndsOnce
  <2>3. ASSUME NEW k \in Gens, NEW i \in DOMAIN inbox'[k], ended'[k], inbox'[k][i].live
        PROVE  inbox'[k][i].cmd = "end"
    <3>1. CASE k = g
      BY <2>1, <2>3, <3>1
    <3>2. CASE k # g
      BY <1>1, <1>2, <2>1, <2>3, <3>2 DEF Awaited, Types
    <3>3. QED
      BY <3>1, <3>2
  <2>4. QED
    BY <1>1, <1>2, <2>1, <2>2, <2>3 DEF Awaited, Live, Gens
<1>9. LetGoEnds'
  BY <1>2, <1>3 DEF LetGoEnds, Ends, Others, Types
<1>10. Owed'
  <2>1. ASSUME NEW k \in Gens, proc'[k] = "run", ~ended'[k] PROVE k # g /\ proc[k] = "run" /\ ~ended[k] /\ up'[k] = up[k]
    BY <1>2, <2>1 DEF Types
  <2>2. QED
    BY <1>3, <2>1, EndsStarts DEF Owed
<1>11. Carried'
  BY DEF Carried
<1>12. Known'
  <2>1. ASSUME NEW k \in Gens, proc'[k] = "run" PROVE k # g /\ proc[k] = "run" /\ ended'[k] = ended[k]
    BY <1>2, <2>1 DEF Types
  <2>2. QED
    BY <1>1, <2>1 DEF Known
<1>13. Reported'
  BY DEF Released, Types, Reported
<1>14. QED
  BY <1>4, <1>5, <1>6, <1>7, <1>8, <1>9, <1>10, <1>11, <1>12, <1>13, TypesAreNext

(* dispose lets a helper go that is not gone. *)
LEMMA LetGoStep ==
  ASSUME Bounds, IInv, NEW g \in Gens, g = client, ~ended[g], disposed = "stopping", ~stopping, client' = 0, disposed' = "grace",
         Released(g, TRUE), op' = (IF op = "started" THEN "owes" ELSE IF op = "asked" THEN "idle" ELSE op),
         UNCHANGED <<heard, helperGeneration, dataplaneGeneration, connecting, attached, active, startAttempted, stopping>>,
         UNCHANGED <<signal, legacy, starts, faults>>
  PROVE  IInv'
<1>t. Types
  BY TypesAre DEF IInv
<1> USE <1>t DEF IInv
<1>1. g # 0 /\ (op \in {"probing", "startWaits"} <=> op' \in {"probing", "startWaits"}) /\ g # connecting
  BY DEF Gens, Connecting
<1>2. /\ ended' = [ended EXCEPT ![g] = TRUE] /\ proc' = proc /\ up' = up
  BY DEF Released
<1>3. Ends(g)
  BY ReleaseEnds DEF Released
<1>4. op # "stopping" /\ op' # "stopping" /\ (op' = "again" => op = "again")
  BY DEF Stopping
<1>5. Types'
  <2>1. ended' \in [Gens -> BOOLEAN] /\ inbox' \in [Gens -> Seq(Commands)]
    BY <1>2, <1>3 DEF Types, Ends
  <2>2. op' \in Ops /\ client' \in 0..MaxHelpers /\ disposed' \in {"no", "stopping", "grace", "done"}
    BY <1>1 DEF Ops, Types, Bounds
  <2>3. QED
    BY <1>2, <2>1, <2>2 DEF Types
<1>6. Numbered'
  <2>1. ~running(client)' /\ client' <= helperGeneration'
    BY DEF running, Types
  <2>2. ASSUME NEW k \in Gens, k > helperGeneration' PROVE k # g
    BY <2>2 DEF Types, Gens, Numbered
  <2>3. QED
    BY <1>2, <1>3, <2>1, <2>2 DEF Numbered, Ends, Others, Types
<1>7. Connecting'
  <2>0. connecting # 0 => connecting \in Gens \ {g}
    BY <1>1 DEF Types, Gens
  <2>1. connecting # 0 => connecting \in Gens /\ inbox'[connecting] = inbox[connecting] /\ ended'[connecting] = ended[connecting]
    BY <1>2, <1>3, <2>0 DEF Types, Ends, Others
  <2>2. QED
    BY <1>1, <1>2, <2>1 DEF Connecting
<1>8. Stopping'
  BY <1>1, <1>4 DEF Stopping
<1>9. Awaited'
  <2>1. ASSUME NEW k \in Gens, NEW i \in DOMAIN inbox'[k], inbox'[k][i].live, inbox'[k][i].cmd # "end"
        PROVE  k # g /\ inbox'[k] = inbox[k] /\ i \in DOMAIN inbox[k] /\ inbox'[k][i] = inbox[k][i]
    BY <1>3, <2>1, EndsLive
  <2>2. ASSUME NEW k \in Gens, NEW i \in DOMAIN inbox'[k], NEW j \in DOMAIN inbox'[k],
               inbox'[k][i].live, inbox'[k][j].live, inbox'[k][i].cmd = inbox'[k][j].cmd
        PROVE  i = j
    BY <1>3, <2>2, EndsOnce
  <2>3. ASSUME NEW k \in Gens, NEW i \in DOMAIN inbox'[k], ended'[k], inbox'[k][i].live
        PROVE  inbox'[k][i].cmd = "end"
    <3>1. CASE k = g
      BY <2>1, <2>3, <3>1
    <3>2. CASE k # g
      BY <1>1, <1>2, <2>1, <2>3, <3>2 DEF Awaited, Types
    <3>3. QED
      BY <3>1, <3>2
  <2>4. QED
    BY <1>1, <1>2, <2>1, <2>2, <2>3 DEF Awaited, Live, Gens
<1>10. LetGoEnds'
  BY <1>2, <1>3 DEF LetGoEnds, Ends, Others, Types
<1>11. Owed'
  <2>1. ASSUME NEW k \in Gens, proc'[k] = "run", ~ended'[k] PROVE k # g /\ proc[k] = "run" /\ ~ended[k] /\ up'[k] = up[k]
    BY <1>2, <2>1 DEF Types
  <2>2. QED
    BY <1>3, <2>1, EndsStarts DEF Owed
<1>12. Carried'
  BY <1>4 DEF Carried
<1>13. Known'
  <2>1. ASSUME NEW k \in Gens, proc'[k] = "run" PROVE proc[k] = "run" /\ (k = g => ended'[k]) /\ (ended[k] => ended'[k])
    BY <1>2, <2>1 DEF Types
  <2>2. QED
    BY <1>1, <2>1 DEF Known
<1>14. Reported'
  BY DEF Released, Types, Reported
<1>15. QED
  BY <1>5, <1>6, <1>7, <1>8, <1>9, <1>10, <1>11, <1>12, <1>13, <1>14, TypesAreNext

(* dispose finds no helper, or one that is gone. *)
LEMMA NothingToLetGoStep ==
  ASSUME Bounds, IInv, client = 0 \/ ended[client], disposed = "stopping", ~stopping, client' = 0, disposed' = "done",
         UNCHANGED <<heard, helperGeneration, dataplaneGeneration, connecting, attached, active, startAttempted, stopping>>,
         UNCHANGED <<signal, legacy, starts, faults, proc, up, ended, inbox, op>>
  PROVE  IInv'
<1>t. Types
  BY TypesAre DEF IInv
<1> USE <1>t DEF IInv
<1>1. Types'
  <2>1. client' \in 0..MaxHelpers
    BY DEF Bounds
  <2>2. QED
    BY <2>1 DEF Types
<1>2. Numbered'
  BY DEF Numbered, running, Types
<1>3. Connecting'
  BY DEF Connecting
<1>4. Stopping'
  BY DEF Stopping
<1>5. Awaited'
  <2>1. ASSUME NEW k \in Gens, k = client, NEW i \in DOMAIN inbox[k], inbox[k][i].live PROVE inbox[k][i].cmd = "end"
    BY <2>1 DEF Awaited, Gens
  <2>2. ASSUME NEW k \in Gens, NEW i \in DOMAIN inbox[k], Live(k, i, "start-dataplane") PROVE FALSE
    BY <2>1, <2>2 DEF Awaited, Live
  <2>3. ASSUME NEW k \in Gens, NEW i \in DOMAIN inbox[k], Live(k, i, "get-capabilities") PROVE k = connecting
    BY <2>1, <2>3 DEF Awaited, Live
  <2>4. QED
    BY <2>2, <2>3 DEF Awaited, Live
<1>6. LetGoEnds'
  BY DEF LetGoEnds
<1>7. Owed'
  BY DEF Owed, HasStart, Gens
<1>8. Carried'
  BY DEF Carried
<1>9. Known'
  BY DEF Known, Gens
<1>10. Reported'
  BY DEF Types, Gens, Reported
<1>11. QED
  BY <1>1, <1>2, <1>3, <1>4, <1>5, <1>6, <1>7, <1>8, <1>9, <1>10, TypesAreNext

-----------------------------------------------------------------------------
(* Calls that are given up on while the helper carries them out *)

(* Nobody waits for a command c of g any more. *)
Hushes(g, c) ==
  /\ inbox' \in [Gens -> Seq(Commands)]
  /\ Others(g)
  /\ inbox[g] # << >>
  /\ inbox'[g] # << >>
  /\ DOMAIN inbox'[g] = DOMAIN inbox[g]
  /\ Len(inbox'[g]) = Len(inbox[g])
  /\ Last(inbox'[g]).cmd = Last(inbox[g]).cmd
  /\ Last(inbox[g]).cmd # c => Last(inbox'[g]) = Last(inbox[g])
  /\ \A i \in DOMAIN inbox[g] : inbox'[g][i].cmd = inbox[g][i].cmd
  /\ \A i \in DOMAIN inbox[g] : inbox'[g][i].live => inbox'[g][i] = inbox[g][i] /\ inbox[g][i].cmd # c

LEMMA FadesHushes ==
  ASSUME Types, NEW g \in Gens, NEW c, inbox[g] # << >>, Others(g), inbox' = [inbox EXCEPT ![g] = inbox'[g]],
         Fades(inbox[g], inbox'[g]),
         \A i \in DOMAIN inbox[g] : inbox[g][i].cmd # c => inbox'[g][i] = inbox[g][i],
         \A i \in DOMAIN inbox[g] : inbox'[g][i].live => inbox'[g][i] = inbox[g][i] /\ inbox[g][i].cmd # c
  PROVE  Hushes(g, c)
<1>1. inbox' \in [Gens -> Seq(Commands)] /\ inbox[g] \in Seq(Commands)
  BY DEF Types, Fades
<1>2. Len(inbox[g]) \in DOMAIN inbox[g] /\ Len(inbox'[g]) = Len(inbox[g])
  BY <1>1 DEF Fades
<1>3. Last(inbox[g]).cmd # c => Last(inbox'[g]) = Last(inbox[g])
  BY <1>2 DEF Last
<1>4. QED
  BY <1>1, <1>3 DEF Fades, Hushes

LEMMA SilentHushes ==
  ASSUME Types, Awaited, NEW g \in Gens, NEW k \in DOMAIN inbox[g], inbox[g][k].live,
         inbox' = [inbox EXCEPT ![g][k].live = FALSE]
  PROVE  Hushes(g, inbox[g][k].cmd)
<1> DEFINE s == inbox[g]
           t == [s EXCEPT ![k].live = FALSE]
<1>1. s \in Seq(Commands) /\ inbox'[g] = t /\ Others(g) /\ inbox' = [inbox EXCEPT ![g] = inbox'[g]]
  BY DEF Types, Others
<1>2. Fades(s, t) /\ ~t[k].live /\ \A i \in DOMAIN s : i # k => t[i] = s[i]
  BY <1>1, QuietIs
<1>3. s # << >>
  OBVIOUS
<1> HIDE DEF t
<1>4. \A i \in DOMAIN s : s[i].cmd # s[k].cmd => t[i] = s[i]
  BY <1>2
<1>5. \A i \in DOMAIN s : t[i].live => t[i] = s[i] /\ s[i].cmd # s[k].cmd
  BY <1>2 DEF Awaited
<1>6. QED
  BY <1>1, <1>2, <1>3, <1>4, <1>5, FadesHushes

LEMMA AbortHushes ==
  ASSUME Types, NEW g \in Gens, inbox[g] # << >>,
         inbox' = [inbox EXCEPT ![g] =
           [i \in DOMAIN @ |-> IF @[i].cmd = "start-dataplane" THEN [@[i] EXCEPT !.live = FALSE] ELSE @[i]]]
  PROVE  Hushes(g, "start-dataplane")
<1> DEFINE s == inbox[g]
           t == [i \in DOMAIN s |-> IF s[i].cmd = "start-dataplane" THEN [s[i] EXCEPT !.live = FALSE] ELSE s[i]]
<1>1. s \in Seq(Commands) /\ inbox'[g] = t /\ Others(g) /\ inbox' = [inbox EXCEPT ![g] = inbox'[g]]
  BY DEF Types, Others
<1>2. \A i \in DOMAIN s : s[i] \in Commands
  BY <1>1, ElementOfSeq
<1>3. DOMAIN t = DOMAIN s /\ t = [i \in DOMAIN s |-> t[i]]
  OBVIOUS
<1>4. \A i \in DOMAIN s : s[i].cmd # "start-dataplane" => t[i] = s[i]
  OBVIOUS
<1>5. \A i \in DOMAIN s : s[i].cmd = "start-dataplane" => t[i] = [s[i] EXCEPT !.live = FALSE]
  OBVIOUS
<1> HIDE DEF t
<1>6. \A i \in DOMAIN s : t[i] \in Commands /\ t[i].cmd = s[i].cmd /\ (t[i].live => s[i].live /\ s[i].cmd # "start-dataplane")
  BY <1>2, <1>4, <1>5 DEF Commands
<1> HIDE DEF s
<1>7. Fades(s, t)
  BY <1>1, <1>3, <1>6, MapIs
<1>8. QED
  BY <1>1, <1>4, <1>6, <1>7, FadesHushes DEF s

LEMMA HushStep ==
  ASSUME Bounds, IInv, NEW g \in Gens, NEW c, Hushes(g, c), g = client, faults' \in 0..MaxFaults, signal' \in BOOLEAN,
         UNCHANGED <<proc, up, ended, heard, helperGeneration, client, dataplaneGeneration, connecting, attached, disposed>>,
         UNCHANGED <<startAttempted, legacy, starts>>,
         \/ c = "get-capabilities" /\ op = "asked" /\ op' = "idle" /\ UNCHANGED <<stopping, active>>
         \/ c = "start-dataplane" /\ op = "started" /\ op' = "owes" /\ UNCHANGED <<stopping, active>>
         \/ /\ c = "stop-dataplane" /\ stopping /\ stopping' = FALSE /\ active' = FALSE
            /\ op' = IF op = "stopping" THEN "idle" ELSE op
  PROVE  IInv'
<1>t. Types
  BY TypesAre DEF IInv
<1> USE <1>t DEF IInv
<1>1. g # 0 /\ g # connecting /\ (op' \in {"probing", "startWaits"} <=> op \in {"probing", "startWaits"})
  <2>1. g # 0
    BY DEF Gens
  <2>2. stopping \/ op \in {"asked", "started"}
    OBVIOUS
  <2>3. QED
    BY <2>1, <2>2 DEF Connecting, Stopping
<1>2. op' \in Ops
  BY DEF Types, Ops
<1>3. stopping' \in BOOLEAN /\ active' \in BOOLEAN
  BY Zenon DEF Types
<1>4. \A k \in Gens : \A i \in DOMAIN inbox'[k] :
        /\ i \in DOMAIN inbox[k] /\ inbox'[k][i].cmd = inbox[k][i].cmd
        /\ inbox'[k][i].live => inbox'[k][i] = inbox[k][i] /\ (k = g => inbox[k][i].cmd # c)
  BY DEF Hushes, Others
<1>5. \A k \in Gens : HasStart(k)' <=> HasStart(k)
  <2>1. ASSUME NEW k \in Gens PROVE HasStart(k)' <=> HasStart(k)
    <3>1. CASE k = g
      BY <3>1 DEF Hushes, HasStart
    <3>2. CASE k # g
      BY <3>2 DEF Hushes, Others, HasStart
    <3>3. QED
      BY <3>1, <3>2
  <2>2. QED
    BY <2>1
<1>6. \A k \in Gens : inbox[k] # << >> => inbox'[k] # << >> /\ Last(inbox'[k]).cmd = Last(inbox[k]).cmd
  BY DEF Hushes, Others
<1>7. (active' => active) /\ (stopping' => stopping)
  <2>1. (active' = active \/ active' = FALSE) /\ (stopping' = stopping \/ stopping' = FALSE)
    OBVIOUS
  <2>2. active' => active
    BY <2>1, Zenon
  <2>3. stopping' => stopping
    BY <2>1, Zenon
  <2>4. QED
    BY <2>2, <2>3
<1>8. Types'
  BY <1>2, <1>3 DEF Types, Hushes
<1>9. Numbered'
  <2>1. ASSUME NEW k \in Gens, k > helperGeneration PROVE inbox'[k] = << >> /\ k # g
    BY <2>1 DEF Numbered, Hushes, Others
  <2>2. QED
    BY <2>1 DEF Numbered, running
<1>10. Connecting'
  <2>1. connecting # 0 => connecting \in Gens \ {g}
    BY <1>1 DEF Types, Gens
  <2>2. QED
    BY <1>1, <2>1 DEF Connecting, Hushes, Others
<1>11. Stopping'
  <2>1. CASE c = "stop-dataplane"
    BY <2>1 DEF Stopping
  <2>2. CASE c # "stop-dataplane" /\ stopping
    <3>1. Last(inbox[g]) = Command("stop-dataplane") /\ Command("stop-dataplane").cmd = "stop-dataplane"
      BY <2>2, CommandIs DEF Stopping
    <3>2. Last(inbox'[g]) = Command("stop-dataplane") /\ inbox'[g] # << >>
      BY <2>2, <3>1 DEF Hushes
    <3>3. QED
      BY <2>2, <3>2 DEF Stopping
  <2>3. CASE c # "stop-dataplane" /\ ~stopping
    BY <2>3 DEF Stopping
  <2>4. QED
    BY <2>1, <2>2, <2>3
<1>12. Awaited'
  <2>1. ASSUME NEW k \in Gens, NEW i \in DOMAIN inbox'[k], inbox'[k][i].live
        PROVE  /\ i \in DOMAIN inbox[k] /\ inbox'[k][i] = inbox[k][i] /\ inbox[k][i].live
               /\ k = g => inbox[k][i].cmd # c
               /\ Len(inbox'[k]) = Len(inbox[k])
    BY <1>4, <2>1 DEF Hushes, Others
  <2>2. ASSUME NEW k \in Gens, NEW i \in DOMAIN inbox'[k], NEW j \in DOMAIN inbox'[k],
               inbox'[k][i].live, inbox'[k][j].live, inbox'[k][i].cmd = inbox'[k][j].cmd
        PROVE  i = j
    BY <2>1, <2>2 DEF Awaited
  <2>3. ASSUME NEW k \in Gens, NEW i \in DOMAIN inbox'[k], Live(k, i, "stop-dataplane")'
        PROVE  stopping' /\ k = client /\ i = Len(inbox'[k])
    BY <2>1, <2>3 DEF Awaited, Live
  <2>4. ASSUME NEW k \in Gens, NEW i \in DOMAIN inbox'[k], Live(k, i, "start-dataplane")'
        PROVE  op' = "started" /\ k = client /\ (disposed = "no" => i = Len(inbox'[k]))
    BY <2>1, <2>4 DEF Awaited, Live
  <2>5. ASSUME NEW k \in Gens, NEW i \in DOMAIN inbox'[k], Live(k, i, "get-capabilities")'
        PROVE  k = connecting \/ (op' = "asked" /\ k = client)
    BY <2>1, <2>5 DEF Awaited, Live
  <2>6. ASSUME NEW k \in Gens, NEW i \in DOMAIN inbox'[k], ended[k], inbox'[k][i].live PROVE inbox'[k][i].cmd = "end"
    BY <2>1, <2>6 DEF Awaited
  <2>7. QED
    BY <2>2, <2>3, <2>4, <2>5, <2>6 DEF Awaited
<1>13. LetGoEnds'
  BY <1>6 DEF LetGoEnds
<1>14. Owed'
  BY <1>5 DEF Owed
<1>15. Carried'
  <2>1. op' = "again" => op = "again"
    BY DEF Ops
  <2>2. active' /\ op' \in {"idle", "asked", "probing"} => op \in {"idle", "asked", "probing"} /\ active /\ stopping' = stopping
    BY <1>7, Zenon
  <2>3. active' => dataplaneGeneration \in Gens
    BY <1>7 DEF Carried, Types, Gens
  <2>4. QED
    BY <1>4, <1>7, <2>1, <2>2, <2>3 DEF Carried
<1>16. Known'
  BY DEF Known
<1>17. Reported'
  BY DEF Types, Gens, Reported
<1>18. QED
  BY <1>8, <1>9, <1>10, <1>11, <1>12, <1>13, <1>14, <1>15, <1>16, <1>17, TypesAreNext

(* The call moves on, and nobody waits for what it asked for. *)
LEMMA MovesOnStep ==
  ASSUME Bounds, IInv, signal' \in BOOLEAN, UNCHANGED inbox,
         UNCHANGED <<proc, up, ended, heard, helperGeneration, client, dataplaneGeneration, connecting, attached, active>>,
         UNCHANGED <<startAttempted, stopping, disposed, legacy, starts, faults>>,
         \/ op' = op
         \/ op = "again" /\ op' = "idle"
         \/ op = "started" /\ op' = "owes" /\ \A g \in Gens : \A i \in DOMAIN inbox[g] : ~Live(g, i, "start-dataplane")
  PROVE  IInv'
<1>t. Types
  BY TypesAre DEF IInv
<1> USE <1>t DEF IInv
<1>1. op' \in Ops /\ (op' \in {"probing", "startWaits"} <=> op \in {"probing", "startWaits"}) /\ (op' = "stopping" => op = "stopping")
      /\ (op = "stopping" => op' = "stopping") /\ (op' = "again" => op = "again") /\ (op = "asked" => op' = "asked")
  BY DEF Types, Ops
<1>2. Types'
  BY <1>1 DEF Types
<1>3. Numbered'
  BY DEF Numbered, running
<1>4. Connecting'
  BY <1>1 DEF Connecting
<1>5. Stopping'
  BY <1>1 DEF Stopping
<1>6. Awaited'
  BY <1>1 DEF Awaited, Live
<1>7. LetGoEnds'
  BY DEF LetGoEnds
<1>8. Owed'
  BY DEF Owed, HasStart
<1>9. Carried'
  BY <1>1 DEF Carried
<1>10. Known'
  BY DEF Known
<1>11. Reported'
  BY DEF Reported
<1>12. QED
  BY <1>2, <1>3, <1>4, <1>5, <1>6, <1>7, <1>8, <1>9, <1>10, <1>11, TypesAreNext

-----------------------------------------------------------------------------
(* The end of a helper is reported, and the calls that waited for it end. *)

LEMMA AwaitedIs ==
  ASSUME Types, Awaited, Stopping, Connecting, NEW g \in Gens
  PROVE  /\ awaited(g, "stop-dataplane") <=> stopping /\ g = client
         /\ awaited(g, "start-dataplane") => op = "started" /\ g = client
         /\ awaited(g, "get-capabilities") => g = connecting \/ (op = "asked" /\ g = client)
<1>1. ASSUME NEW c \in {"get-capabilities", "start-dataplane", "stop-dataplane"}, awaited(g, c)
      PROVE  \E i \in DOMAIN inbox[g] : Live(g, i, c)
  BY <1>1, CommandIs DEF awaited, Live
<1>2. ASSUME stopping, g = client PROVE awaited(g, "stop-dataplane")
  <2>1. inbox[g] \in Seq(Commands) /\ inbox[g] # << >> /\ Last(inbox[g]) = Command("stop-dataplane")
    BY <1>2 DEF Types, Stopping
  <2>2. Len(inbox[g]) \in DOMAIN inbox[g] /\ inbox[g][Len(inbox[g])] = Command("stop-dataplane")
    BY <2>1 DEF Last
  <2>3. QED
    BY <2>2 DEF awaited
<1>3. awaited(g, "stop-dataplane") => stopping /\ g = client
  BY <1>1 DEF Awaited
<1>4. awaited(g, "start-dataplane") => op = "started" /\ g = client
  BY <1>1 DEF Awaited
<1>5. awaited(g, "get-capabilities") => (g = connecting \/ (op = "asked" /\ g = client))
  BY <1>1 DEF Awaited
<1>6. QED
  BY <1>2, <1>3, <1>4, <1>5

LEMMA ClosedStep ==
  ASSUME Bounds, IInv, NEW g \in Gens, Closed(g)
  PROVE  IInv'
<1>t. Types
  BY TypesAre DEF IInv
<1> USE <1>t DEF IInv
<1>1. /\ proc[g] \in {"dead", "exited"}
      /\ proc' = [proc EXCEPT ![g] = "closed"] /\ ended' = [ended EXCEPT ![g] = TRUE]
      /\ inbox' = [inbox EXCEPT ![g] = << >>]
      /\ heard' = [heard EXCEPT ![g] = IF unexpected(g) THEN @ + 1 ELSE @]
      /\ connecting' = IF g = connecting THEN 0 ELSE connecting
      /\ UNCHANGED <<up, helperGeneration, client, dataplaneGeneration, attached, disposed, legacy, starts, faults>>
  BY DEF Closed
<1>2. g # 0 /\ g <= helperGeneration
  BY <1>1 DEF Numbered, Types, Gens
<1>3. (awaited(g, "stop-dataplane") <=> stopping /\ g = client)
      /\ (awaited(g, "start-dataplane") => op = "started" /\ g = client)
      /\ (awaited(g, "get-capabilities") => (g = connecting \/ (op = "asked" /\ g = client)))
  BY AwaitedIs
<1>4. (stopping' <=> stopping /\ g # client) /\ stopping' \in BOOLEAN
  BY <1>3, Zenon DEF Closed
<1>5. (startAttempted' <=> startAttempted /\ g # helperGeneration) /\ startAttempted' \in BOOLEAN
  BY Zenon DEF Closed
<1>6. (active' <=> active /\ ~unexpected(g) /\ ~(stopping /\ g = client)) /\ active' \in BOOLEAN
  BY <1>3, Zenon DEF Closed
<1>7. signal' \in BOOLEAN
  BY Zenon DEF Closed
<1>8. \/ op' = op /\ ~(g = connecting /\ op \in {"probing", "startWaits"}) /\ ~(stopping /\ g = client /\ op = "stopping")
      \/ g = connecting /\ op \in {"probing", "startWaits"} /\ op' = "owes"
      \/ g = client /\ op = "started" /\ op' = "owes"
      \/ g = client /\ stopping /\ op = "stopping" /\ op' = "idle"
      \/ /\ op = "asked" /\ g \in {connecting, client}
         /\ \/ op' = "idle"
            \/ op' = "again" /\ ~active' /\ ~startAttempted'
  <2>1. \/ op' = op /\ ~(g = connecting /\ op \in {"probing", "startWaits"}) /\ ~(awaited(g, "stop-dataplane") /\ op = "stopping")
        \/ g = connecting /\ op \in {"probing", "startWaits"} /\ op' = "owes"
        \/ awaited(g, "start-dataplane") /\ op = "started" /\ op' = "owes"
        \/ awaited(g, "stop-dataplane") /\ op = "stopping" /\ op' = "idle"
        \/ /\ awaited(g, "get-capabilities") /\ op = "asked"
           /\ \/ op' = "idle"
              \/ op' = "again" /\ ~active' /\ ~startAttempted'
    BY DEF Closed
  <2>2. QED
    BY <1>3, <2>1
<1>9. \A k \in Gens \ {g} : proc'[k] = proc[k] /\ ended'[k] = ended[k] /\ inbox'[k] = inbox[k] /\ heard'[k] = heard[k]
  BY <1>1 DEF Types
<1>10. proc'[g] = "closed" /\ ended'[g] /\ inbox'[g] = << >>
  BY <1>1 DEF Types
<1>11. op # "again" /\ op' = "again" => op = "asked" /\ ~active' /\ ~startAttempted'
  BY <1>8
<1>12. Types'
  <2>1. heard' \in [Gens -> 0..1]
    <3>1. heard[g] = 0
      BY <1>1 DEF Reported, Types
    <3>2. QED
      BY <1>1, <3>1 DEF Types
  <2>2. op' \in Ops
    BY <1>8 DEF Types, Ops
  <2>3. connecting' \in 0..MaxHelpers
    BY <1>1 DEF Types, Bounds
  <2>4. proc' \in [Gens -> Procs] /\ ended' \in [Gens -> BOOLEAN] /\ inbox' \in [Gens -> Seq(Commands)]
    BY <1>1 DEF Types, Procs
  <2>5. QED
    BY <1>1, <1>4, <1>5, <1>6, <1>7, <2>1, <2>2, <2>3, <2>4 DEF Types
<1>13. Numbered'
  <2>1. running(client)' => running(client)
    BY <1>1, <1>9, <1>10 DEF running, Types, Gens
  <2>2. ASSUME NEW k \in Gens, k > helperGeneration PROVE k # g
    BY <1>2, <2>2 DEF Types, Gens
  <2>3. QED
    BY <1>1, <1>9, <2>1, <2>2 DEF Numbered
<1>14. Connecting'
  <2>1. CASE g = connecting
    BY <1>1, <1>2, <1>8, <2>1 DEF Connecting
  <2>2. CASE g # connecting
    <3>1. op' \in {"probing", "startWaits"} <=> op \in {"probing", "startWaits"}
      BY <1>8, <2>2
    <3>2. connecting # 0 => connecting \in Gens \ {g}
      BY <2>2 DEF Types, Gens
    <3>3. QED
      BY <1>1, <1>9, <2>2, <3>1, <3>2 DEF Connecting
  <2>3. QED
    BY <2>1, <2>2
<1>15. Stopping'
  <2>1. op' = "stopping" => stopping'
    BY <1>4, <1>8 DEF Stopping
  <2>2. ASSUME stopping'
        PROVE  /\ stopping /\ g # client /\ client \in Gens /\ g # helperGeneration
               /\ op' = op /\ (active \/ startAttempted => active' \/ startAttempted')
    <3>1. stopping /\ g # client /\ client \in Gens /\ g # helperGeneration /\ connecting = 0
      BY <1>4, <2>2 DEF Stopping, Types, Gens
    <3>2. op' = op
      BY <1>2, <1>8, <3>1
    <3>3. ~unexpected(g)
      BY <3>1 DEF unexpected
    <3>4. QED
      BY <1>5, <1>6, <3>1, <3>2, <3>3
  <2>3. ASSUME stopping' PROVE connecting' = 0 /\ ~ended'[client] /\ inbox'[client] = inbox[client]
    BY <1>1, <1>9, <2>2, <2>3 DEF Stopping
  <2>4. QED
    BY <1>1, <2>1, <2>2, <2>3 DEF Stopping
<1>16. Awaited'
  <2>1. ASSUME NEW k \in Gens, NEW i \in DOMAIN inbox'[k] PROVE k # g /\ inbox'[k] = inbox[k] /\ ended'[k] = ended[k]
    BY <1>9, <1>10, <2>1
  <2>2. ASSUME NEW k \in Gens, NEW i \in DOMAIN inbox'[k], Live(k, i, "stop-dataplane")'
        PROVE  stopping' /\ k = client /\ i = Len(inbox'[k])
    BY <1>4, <2>1, <2>2 DEF Awaited, Live
  <2>3. ASSUME NEW k \in Gens, NEW i \in DOMAIN inbox'[k], Live(k, i, "start-dataplane")'
        PROVE  op' = "started" /\ k = client /\ (disposed = "no" => i = Len(inbox'[k]))
    <3>1. k # g /\ op = "started" /\ k = client /\ (disposed = "no" => i = Len(inbox[k]))
      BY <2>1, <2>3 DEF Awaited, Live
    <3>2. op' = "started"
      BY <1>8, <3>1
    <3>3. QED
      BY <2>1, <3>1, <3>2
  <2>4. ASSUME NEW k \in Gens, NEW i \in DOMAIN inbox'[k], Live(k, i, "get-capabilities")'
        PROVE  k = connecting' \/ (op' = "asked" /\ k = client)
    <3>1. k # g /\ (k = connecting \/ (op = "asked" /\ k = client))
      BY <2>1, <2>4 DEF Awaited, Live
    <3>2. CASE k = connecting
      BY <1>1, <3>1, <3>2
    <3>3. CASE op = "asked" /\ k = client
      <4>1. connecting = 0
        BY <3>3 DEF Connecting
      <4>2. op' = "asked"
        BY <1>2, <1>8, <3>1, <3>3, <4>1
      <4>3. QED
        BY <3>3, <4>2
    <3>4. QED
      BY <3>1, <3>2, <3>3
  <2>5. ASSUME NEW k \in Gens, NEW i \in DOMAIN inbox'[k], NEW j \in DOMAIN inbox'[k],
               inbox'[k][i].live, inbox'[k][j].live, inbox'[k][i].cmd = inbox'[k][j].cmd
        PROVE  i = j
    BY <2>1, <2>5 DEF Awaited
  <2>6. ASSUME NEW k \in Gens, NEW i \in DOMAIN inbox'[k], ended'[k], inbox'[k][i].live PROVE inbox'[k][i].cmd = "end"
    BY <2>1, <2>6 DEF Awaited
  <2>7. QED
    BY <1>1, <2>2, <2>3, <2>4, <2>5, <2>6 DEF Awaited
<1>17. LetGoEnds'
  <2>1. ASSUME NEW k \in Gens, proc'[k] = "run" PROVE k # g
    BY <1>10, <2>1
  <2>2. QED
    BY <1>9, <2>1 DEF LetGoEnds
<1>18. Owed'
  <2>1. ASSUME NEW k \in Gens, proc'[k] = "run", ~ended'[k], up[k] \/ HasStart(k)'
        PROVE  k = client /\ startAttempted'
    <3>1. k # g /\ proc[k] = "run" /\ ~ended[k] /\ (up[k] \/ HasStart(k))
      BY <1>9, <1>10, <2>1 DEF HasStart
    <3>2. k = client /\ startAttempted
      BY <3>1 DEF Owed
    <3>3. client = helperGeneration
      BY <3>1, <3>2 DEF Numbered, running, Gens
    <3>4. QED
      BY <1>5, <3>1, <3>2, <3>3
  <2>2. QED
    BY <1>1, <2>1 DEF Owed
<1>19. Carried'
  <2>1. active' => active /\ dataplaneGeneration # 0
    BY <1>6 DEF Carried
  <2>2. op' = "again" => ~active' /\ ~startAttempted'
    <3>1. CASE op = "again"
      BY <1>5, <1>6, <3>1 DEF Carried
    <3>2. CASE op # "again"
      BY <1>11, <3>2
    <3>3. QED
      BY <3>1, <3>2
  <2>3. ASSUME active', op' \in {"idle", "asked", "probing"}, ~stopping', disposed = "no"
        PROVE  dataplaneGeneration # g /\ dataplaneGeneration \in Gens /\ op \in {"idle", "asked", "probing"} /\ ~stopping
    <3>1. active /\ ~unexpected(g) /\ ~(stopping /\ g = client)
      BY <1>6, <2>3
    <3>2. ~stopping
      BY <1>4, <2>3, <3>1
    <3>3. g # dataplaneGeneration
      BY <2>3, <3>1, <3>2 DEF unexpected
    <3>4. op \in {"idle", "asked", "probing"}
      BY <1>8, <2>3, <3>2
    <3>5. dataplaneGeneration \in Gens
      BY <2>1, <2>3 DEF Types, Gens
    <3>6. QED
      BY <3>2, <3>3, <3>4, <3>5
  <2>4. QED
    BY <1>1, <1>9, <2>1, <2>2, <2>3 DEF Carried
<1>20. Known'
  <2>1. ASSUME NEW k \in Gens, proc'[k] = "run" PROVE k # g
    BY <1>10, <2>1
  <2>2. QED
    BY <1>1, <1>9, <2>1 DEF Known
<1>21. Reported'
  BY <1>9, <1>10 DEF Reported
<1>22. QED
  BY <1>12, <1>13, <1>14, <1>15, <1>16, <1>17, <1>18, <1>19, <1>20, <1>21, TypesAreNext

-----------------------------------------------------------------------------
(* The handshake of the helper being started is answered. *)

LEMMA HandshakeIs ==
  ASSUME Types, Numbered, Connecting, Stopping, Awaited, Owed, Reported, NEW g \in Gens, g = connecting, proc[g] = "run"
  PROVE  /\ inbox[g] = <<Command("get-capabilities")>>
         /\ g # 0 /\ g = helperGeneration /\ g # client /\ g # dataplaneGeneration
         /\ ~up[g] /\ ~ended[g] /\ ~stopping /\ op \in {"probing", "startWaits"} /\ heard[g] = 0
         /\ ~running(client)
         /\ \A k \in Gens : proc[k] = "run" /\ ~ended[k] => ~up[k] /\ ~HasStart(k)
         /\ \A k \in Gens \ {g} : \A i \in DOMAIN inbox[k] : inbox[k][i].live => inbox[k][i].cmd = "end"
<1>1. /\ inbox[g] = <<Command("get-capabilities")>>
      /\ g # 0 /\ g = helperGeneration /\ g # client /\ g # dataplaneGeneration
      /\ ~up[g] /\ ~ended[g] /\ op \in {"probing", "startWaits"}
  BY DEF Connecting, Gens
<1>2. ~stopping
  BY <1>1 DEF Stopping
<1>3. heard[g] = 0
  BY DEF Reported, Types
<1>4. ~running(client)
  BY <1>1 DEF Numbered
<1>5. ~HasStart(g)
  BY <1>1, CommandIs DEF HasStart
<1>6. ASSUME NEW k \in Gens, proc[k] = "run", ~ended[k] PROVE ~up[k] /\ ~HasStart(k)
  BY <1>1, <1>4, <1>5, <1>6 DEF Owed, running, Gens
<1>7. ASSUME NEW k \in Gens \ {g}, NEW i \in DOMAIN inbox[k], inbox[k][i].live PROVE inbox[k][i].cmd = "end"
  <2>1. inbox[k][i] \in Commands
    BY ElementOfSeq DEF Types
  <2>2. inbox[k][i].cmd \in {"get-capabilities", "start-dataplane", "stop-dataplane", "end"}
    BY <2>1 DEF Commands
  <2>3. QED
    BY <1>1, <1>2, <1>7, <2>2 DEF Awaited, Live
<1>8. QED
  BY <1>1, <1>2, <1>3, <1>4, <1>6, <1>7

(* One that cannot restore the routes is started again, attached. *)

Restarts(g) ==
  /\ g + 1 \in Gens
  /\ proc' \in [Gens -> Procs]
  /\ ended' \in [Gens -> BOOLEAN]
  /\ inbox' \in [Gens -> Seq(Commands)]
  /\ proc'[g] = "dead" /\ ended'[g] /\ inbox'[g] = << >>
  /\ proc'[g + 1] = "run" /\ ended'[g + 1] = ended[g + 1]
  /\ inbox'[g + 1] # << >> /\ DOMAIN inbox'[g + 1] = {1} /\ inbox'[g + 1][1] = Command("get-capabilities")
  /\ inbox'[g + 1] = <<Command("get-capabilities")>>
  /\ \A k \in Gens \ {g, g + 1} : proc'[k] = proc[k] /\ ended'[k] = ended[k] /\ inbox'[k] = inbox[k]

LEMMA RestartIs ==
  ASSUME Types, NEW g \in Gens, g + 1 \in Gens,
         proc' = [proc EXCEPT ![g] = "dead", ![g + 1] = "run"], ended' = [ended EXCEPT ![g] = TRUE],
         inbox' = [inbox EXCEPT ![g] = << >>, ![g + 1] = <<Command("get-capabilities")>>]
  PROVE  Restarts(g)
<1>1. g + 1 # g
  BY DEF Gens
<1>2. proc' \in [Gens -> Procs] /\ proc'[g] = "dead" /\ proc'[g + 1] = "run"
      /\ \A k \in Gens \ {g, g + 1} : proc'[k] = proc[k]
  BY <1>1 DEF Types, Procs
<1>3. ended' \in [Gens -> BOOLEAN] /\ ended'[g] /\ \A k \in Gens \ {g} : ended'[k] = ended[k]
  BY DEF Types
<1>4. <<Command("get-capabilities")>> \in Seq(Commands) /\ << >> \in Seq(Commands)
  BY CommandIs
<1>5. inbox' \in [Gens -> Seq(Commands)] /\ inbox'[g] = << >> /\ inbox'[g + 1] = <<Command("get-capabilities")>>
      /\ \A k \in Gens \ {g, g + 1} : inbox'[k] = inbox[k]
  BY <1>1, <1>4 DEF Types
<1>6. /\ <<Command("get-capabilities")>> # << >>
      /\ DOMAIN <<Command("get-capabilities")>> = {1}
      /\ <<Command("get-capabilities")>>[1] = Command("get-capabilities")
  OBVIOUS
<1>7. QED
  BY <1>1, <1>2, <1>3, <1>5, <1>6 DEF Restarts

LEMMA RestartedStep ==
  ASSUME Bounds, IInv, NEW g \in Gens, g = connecting, proc[g] = "run", disposed = "no", g < MaxHelpers,
         helperGeneration' = g + 1, connecting' = g + 1, attached' = TRUE, startAttempted' = FALSE, Restarts(g),
         UNCHANGED <<heard, dataplaneGeneration, active, stopping, disposed, signal, legacy, starts, faults, up, client, op>>
  PROVE  IInv'
<1>t. Types
  BY TypesAre DEF IInv
<1> USE <1>t DEF IInv
<1>1. /\ inbox[g] = <<Command("get-capabilities")>>
      /\ g # 0 /\ g = helperGeneration /\ g # client /\ g # dataplaneGeneration
      /\ ~up[g] /\ ~ended[g] /\ ~stopping /\ op \in {"probing", "startWaits"} /\ heard[g] = 0
      /\ ~running(client)
  BY HandshakeIs
<1>2. /\ \A k \in Gens : proc[k] = "run" /\ ~ended[k] => ~up[k] /\ ~HasStart(k)
      /\ \A k \in Gens \ {g} : \A i \in DOMAIN inbox[k] : inbox[k][i].live => inbox[k][i].cmd = "end"
  BY HandshakeIs
<1>3. g \in Nat /\ g + 1 \in Gens /\ g + 1 # g /\ client \in Nat /\ dataplaneGeneration \in Nat
      /\ client <= g /\ dataplaneGeneration <= g
  BY <1>1 DEF Types, Gens, Bounds, Numbered
<1>4. ~up[g + 1] /\ ~ended[g + 1] /\ inbox[g + 1] = << >> /\ proc[g + 1] = "none"
  BY <1>1, <1>3 DEF Numbered
<1>5. /\ proc'[g] = "dead" /\ ended'[g] /\ inbox'[g] = << >>
      /\ proc'[g + 1] = "run" /\ ended'[g + 1] = ended[g + 1]
      /\ inbox'[g + 1] # << >> /\ DOMAIN inbox'[g + 1] = {1} /\ inbox'[g + 1][1] = Command("get-capabilities")
      /\ \A k \in Gens \ {g, g + 1} : proc'[k] = proc[k] /\ ended'[k] = ended[k] /\ inbox'[k] = inbox[k]
  BY DEF Restarts
<1>6. \A k \in Gens : inbox'[k] \in Seq(Commands)
  BY DEF Restarts
<1>7. \A k \in Gens : proc'[k] = "run" /\ k # g + 1 => k # g /\ proc[k] = "run" /\ ended'[k] = ended[k] /\ inbox'[k] = inbox[k]
  BY <1>5
<1>8. Types'
  <2>1. proc' \in [Gens -> Procs] /\ ended' \in [Gens -> BOOLEAN] /\ inbox' \in [Gens -> Seq(Commands)]
    BY DEF Restarts
  <2>2. helperGeneration' \in 0..MaxHelpers /\ connecting' \in 0..MaxHelpers
    BY <1>3 DEF Gens
  <2>3. attached' \in BOOLEAN /\ startAttempted' \in BOOLEAN
    OBVIOUS
  <2>4. QED
    BY <2>1, <2>2, <2>3 DEF Types
<1>9. Numbered'
  <2>1. ~running(client)'
    BY <1>1, <1>3, <1>5 DEF running, Gens, Types
  <2>2. ASSUME NEW k \in Gens, k > helperGeneration' PROVE k # g /\ k # g + 1 /\ k > helperGeneration
    BY <1>1, <1>3, <2>2 DEF Gens
  <2>3. QED
    BY <1>3, <1>5, <2>1, <2>2 DEF Numbered
<1>10. Connecting'
  <2>1. inbox'[g + 1] = <<Command("get-capabilities")>>
    BY DEF Restarts
  <2>2. QED
    BY <1>1, <1>3, <1>4, <1>5, <2>1 DEF Connecting
<1>11. Stopping'
  BY <1>1 DEF Stopping
<1>12. Awaited'
  <2>1. ASSUME NEW k \in Gens, NEW i \in DOMAIN inbox'[k], inbox'[k][i].live
        PROVE  \/ k \notin {g, g + 1} /\ inbox'[k] = inbox[k] /\ inbox'[k][i].cmd = "end"
               \/ k = connecting' /\ i = 1 /\ DOMAIN inbox'[k] = {1} /\ inbox'[k][i].cmd = "get-capabilities" /\ ~ended'[k]
    <3>1. CASE k = g
      BY <1>5, <2>1, <3>1
    <3>2. CASE k = g + 1
      BY <1>4, <1>5, <1>6, <2>1, <3>2, CommandIs
    <3>3. CASE k \notin {g, g + 1}
      BY <1>2, <1>5, <2>1, <3>3
    <3>4. QED
      BY <3>1, <3>2, <3>3
  <2>2. ASSUME NEW k \in Gens, NEW i \in DOMAIN inbox'[k], NEW j \in DOMAIN inbox'[k],
               inbox'[k][i].live, inbox'[k][j].live, inbox'[k][i].cmd = inbox'[k][j].cmd
        PROVE  i = j
    BY <2>1, <2>2 DEF Awaited
  <2>3. QED
    BY <2>1, <2>2 DEF Awaited, Live
<1>13. LetGoEnds'
  BY <1>4, <1>5, <1>7 DEF LetGoEnds
<1>14. Owed'
  <2>1. ASSUME NEW k \in Gens, proc'[k] = "run", ~ended'[k] PROVE ~up[k] /\ ~HasStart(k)'
    <3>1. CASE k = g + 1
      BY <1>4, <1>5, <1>6, <3>1, CommandIs DEF HasStart
    <3>2. CASE k # g + 1
      BY <1>2, <1>7, <2>1, <3>2 DEF HasStart
    <3>3. QED
      BY <3>1, <3>2
  <2>2. QED
    BY <2>1 DEF Owed
<1>15. Carried'
  <2>1. active => dataplaneGeneration \in Gens \ {g, g + 1}
    BY <1>1, <1>3 DEF Carried, Types, Gens
  <2>2. QED
    BY <1>1, <1>5, <2>1 DEF Carried
<1>16. Known'
  <2>1. ASSUME NEW k \in Gens, proc'[k] = "run", k # g + 1 PROVE ended'[k] \/ k = client
    BY <1>7, <2>1 DEF Known
  <2>2. QED
    BY <2>1 DEF Known
<1>17. Reported'
  <2>1. heard[g + 1] = 0
    BY <1>3, <1>4 DEF Reported, Types
  <2>2. QED
    BY <1>1, <1>5, <2>1 DEF Reported
<1>18. QED
  BY <1>8, <1>9, <1>10, <1>11, <1>12, <1>13, <1>14, <1>15, <1>16, <1>17, TypesAreNext

(* It becomes the client, and a start that waited for it is sent. *)
LEMMA ReadyStep ==
  ASSUME Bounds, IInv, NEW g \in Gens, g = connecting, proc[g] = "run", disposed = "no", client' = g, connecting' = 0,
         UNCHANGED <<heard, dataplaneGeneration, active, stopping, disposed, signal, legacy, starts, faults>>,
         UNCHANGED <<proc, up, ended, helperGeneration, attached>>,
         inbox' \in [Gens -> Seq(Commands)], Others(g), startAttempted' \in BOOLEAN, startAttempted => startAttempted',
         \/ op' = "idle" /\ op = "probing" /\ inbox'[g] = << >>
         \/ op' = "owes" /\ inbox'[g] = << >>
         \/ op' = "started" /\ startAttempted' /\ inbox'[g] = <<Command("start-dataplane")>>
  PROVE  IInv'
<1>t. Types
  BY TypesAre DEF IInv
<1> USE <1>t DEF IInv
<1>1. /\ inbox[g] = <<Command("get-capabilities")>>
      /\ g # 0 /\ g = helperGeneration /\ g # client /\ g # dataplaneGeneration
      /\ ~up[g] /\ ~ended[g] /\ ~stopping /\ op \in {"probing", "startWaits"} /\ heard[g] = 0
      /\ ~running(client)
  BY HandshakeIs
<1>2. /\ \A k \in Gens : proc[k] = "run" /\ ~ended[k] => ~up[k] /\ ~HasStart(k)
      /\ \A k \in Gens \ {g} : \A i \in DOMAIN inbox[k] : inbox[k][i].live => inbox[k][i].cmd = "end"
  BY HandshakeIs
<1>3. <<Command("start-dataplane")>> \in Seq(Commands) /\ DOMAIN <<Command("start-dataplane")>> = {1}
      /\ Len(<<Command("start-dataplane")>>) = 1
      /\ <<Command("start-dataplane")>>[1] = Command("start-dataplane")
  BY CommandIs
<1>4. op' \in {"idle", "owes", "started"} /\ (op' = "idle" => op = "probing")
  OBVIOUS
<1>5. \A i \in DOMAIN inbox'[g] : /\ i = 1 /\ inbox'[g][i].cmd = "start-dataplane" /\ Len(inbox'[g]) = 1
                                  /\ op' = "started" /\ startAttempted'
  <2>1. CASE inbox'[g] = << >>
    BY <2>1
  <2>2. CASE op' = "started" /\ startAttempted' /\ inbox'[g] = <<Command("start-dataplane")>>
    BY <1>3, <2>2, CommandIs
  <2>3. QED
    BY <2>1, <2>2
<1>6. Types'
  <2>1. op' \in Ops
    BY <1>4 DEF Ops
  <2>2. client' \in 0..MaxHelpers /\ connecting' \in 0..MaxHelpers
    BY <1>1 DEF Types, Bounds
  <2>3. QED
    BY <2>1, <2>2 DEF Types
<1>7. Numbered'
  <2>1. client' = helperGeneration' /\ helperGeneration \in Nat
    BY <1>1 DEF Types
  <2>2. ASSUME NEW k \in Gens, k > helperGeneration PROVE k # g
    BY <1>1, <2>1, <2>2
  <2>3. ASSUME NEW k \in Gens, k > helperGeneration' PROVE ~up'[k] /\ ~ended'[k] /\ inbox'[k] = << >> /\ proc'[k] = "none"
    BY <2>2, <2>3 DEF Numbered, Others
  <2>4. client' <= helperGeneration' /\ dataplaneGeneration' <= helperGeneration'
    BY <2>1 DEF Numbered
  <2>5. QED
    BY <2>1, <2>3, <2>4 DEF Numbered
<1>8. Connecting'
  BY <1>4 DEF Connecting
<1>9. Stopping'
  BY <1>1, <1>4 DEF Stopping
<1>10. Awaited'
  <2>1. ASSUME NEW k \in Gens, NEW i \in DOMAIN inbox'[k], inbox'[k][i].live
        PROVE  \/ k # g /\ inbox'[k] = inbox[k] /\ inbox'[k][i].cmd = "end"
               \/ k = g /\ i = 1 /\ inbox'[k][i].cmd = "start-dataplane" /\ op' = "started" /\ Len(inbox'[k]) = 1
    BY <1>2, <1>5, <2>1 DEF Others
  <2>2. ASSUME NEW k \in Gens, NEW i \in DOMAIN inbox'[k], NEW j \in DOMAIN inbox'[k],
               inbox'[k][i].live, inbox'[k][j].live, inbox'[k][i].cmd = inbox'[k][j].cmd
        PROVE  i = j
    BY <2>1, <2>2 DEF Awaited
  <2>3. QED
    BY <1>1, <2>1, <2>2 DEF Awaited, Live
<1>11. LetGoEnds'
  BY <1>1 DEF LetGoEnds, Others
<1>12. Owed'
  <2>1. ASSUME NEW k \in Gens, k # g, proc[k] = "run", ~ended[k] PROVE ~up[k] /\ ~HasStart(k)'
    BY <1>2, <2>1 DEF HasStart, Others
  <2>2. HasStart(g)' => startAttempted'
    BY <1>5 DEF HasStart
  <2>3. QED
    BY <1>1, <2>1, <2>2 DEF Owed
<1>13. Carried'
  <2>1. active => dataplaneGeneration \in Gens \ {g}
    BY <1>1 DEF Carried, Types, Gens
  <2>2. QED
    BY <1>1, <1>4, <2>1 DEF Carried, Others
<1>14. Known'
  <2>1. ASSUME NEW k \in Gens, proc[k] = "run" PROVE ended[k] \/ k = g
    BY <1>1, <2>1 DEF Known, running, Gens
  <2>2. QED
    BY <2>1 DEF Known
<1>15. Reported'
  BY DEF Reported
<1>16. QED
  BY <1>6, <1>7, <1>8, <1>9, <1>10, <1>11, <1>12, <1>13, <1>14, <1>15, TypesAreNext

LEMMA HandshakenStep ==
  ASSUME Bounds, IInv, NEW g \in Gens, Serve(g, "get-capabilities"), heardBy(g), g = connecting, ServeCapabilities(g)
  PROVE  IInv'
<1>t. Types
  BY TypesAre DEF IInv
<1>1. Handshaken(g, Rest(g)) /\ proc[g] = "run"
  BY DEF ServeCapabilities, Serve
<1>2. /\ inbox[g] = <<Command("get-capabilities")>> /\ op \in {"probing", "startWaits"}
  BY <1>t, <1>1, HandshakeIs DEF IInv
<1>3. Rest(g) = [inbox EXCEPT ![g] = << >>] /\ Rest(g) \in [Gens -> Seq(Commands)] /\ Rest(g)[g] = << >>
  BY <1>t, <1>2 DEF Rest, Types
<1>4. CASE /\ disposed # "no"
           /\ ConnectFails /\ Released(g, FALSE)
           /\ UNCHANGED <<helperGeneration, client, attached, startAttempted>>
  <2>1. faults' \in 0..MaxFaults
           /\ UNCHANGED <<heard, dataplaneGeneration, active, stopping, disposed, signal, legacy, starts>>
    BY <1>t, <1>1 DEF Handshaken, Types
  <2>2. QED
    BY <1>4, <2>1, ConnectGivenUpStep
<1>5. CASE /\ disposed = "no" /\ legacy /\ ~attached /\ g < MaxHelpers
           /\ helperGeneration' = g + 1 /\ connecting' = g + 1 /\ attached' = TRUE /\ startAttempted' = FALSE
           /\ proc' = [proc EXCEPT ![g] = "dead", ![g + 1] = "run"]
           /\ ended' = [ended EXCEPT ![g] = TRUE]
           /\ inbox' = [inbox EXCEPT ![g] = << >>, ![g + 1] = <<Command("get-capabilities")>>]
           /\ UNCHANGED <<up, client, op>>
  <2>1. UNCHANGED <<heard, dataplaneGeneration, active, stopping, disposed, signal, legacy, starts, faults, up, client, op>>
    BY <1>1, <1>5 DEF Handshaken
  <2>2. g + 1 \in Gens
    BY <1>5 DEF Gens, Bounds
  <2>3. Restarts(g)
    BY <1>t, <1>5, <2>2, RestartIs
  <2>4. QED
    BY <1>1, <1>5, <2>1, <2>3, RestartedStep
<1>6. CASE /\ disposed = "no" /\ (legacy => attached)
           /\ client' = g /\ connecting' = 0
           /\ IF op = "startWaits"
                THEN SendStart(g, Rest(g))
                ELSE op' = "idle" /\ inbox' = Rest(g) /\ UNCHANGED startAttempted
           /\ UNCHANGED <<proc, up, ended, helperGeneration, attached>>
  <2>1. UNCHANGED <<heard, dataplaneGeneration, active, stopping, disposed, signal, legacy, starts, faults>>
    BY <1>1 DEF Handshaken
  <2>2. CASE op # "startWaits"
    <3>1. op' = "idle" /\ op = "probing" /\ inbox' = Rest(g) /\ startAttempted' = startAttempted
      BY <1>2, <1>6, <2>2
    <3>2. inbox' \in [Gens -> Seq(Commands)] /\ Others(g) /\ inbox'[g] = << >>
      BY <1>t, <1>3, <3>1 DEF Others, Types
    <3>3. startAttempted' \in BOOLEAN /\ (startAttempted => startAttempted')
      BY <1>t, <3>1 DEF Types
    <3>4. QED
      BY <1>1, <1>6, <2>1, <3>1, <3>2, <3>3, ReadyStep
  <2>3. CASE op = "startWaits" /\ signal
    <3>1. op' = "owes" /\ inbox' = Rest(g) /\ startAttempted' = TRUE
      BY <1>6, <2>3 DEF SendStart
    <3>2. inbox' \in [Gens -> Seq(Commands)] /\ Others(g) /\ inbox'[g] = << >>
      BY <1>t, <1>3, <3>1 DEF Others, Types
    <3>3. QED
      BY <1>1, <1>6, <2>1, <3>1, <3>2, ReadyStep
  <2>4. CASE op = "startWaits" /\ ~signal
    <3>1. op' = "started" /\ startAttempted' = TRUE /\ inbox' = [Rest(g) EXCEPT ![g] = Append(@, Command("start-dataplane"))]
      BY <1>6, <2>4 DEF SendStart
    <3>2. Append(<< >>, Command("start-dataplane")) = <<Command("start-dataplane")>>
          /\ <<Command("start-dataplane")>> \in Seq(Commands)
      BY CommandIs
    <3>3. inbox' \in [Gens -> Seq(Commands)] /\ Others(g) /\ inbox'[g] = <<Command("start-dataplane")>>
      BY <1>t, <1>3, <3>1, <3>2 DEF Others, Types
    <3>4. QED
      BY <1>1, <1>6, <2>1, <3>1, <3>3, ReadyStep
  <2>5. QED
    BY <1>2, <2>2, <2>3, <2>4
<1>7. QED
  BY <1>1, <1>4, <1>5, <1>6 DEF Handshaken

-----------------------------------------------------------------------------
(* The actions *)

LEMMA ServeCapabilitiesStep ==
  ASSUME Bounds, IInv, NEW g \in Gens, ServeCapabilities(g)
  PROVE  IInv'
<1>1. Serve(g, "get-capabilities")
  BY DEF ServeCapabilities
<1>2. QED
  BY <1>1, AnsweredStep, HandshakenStep

LEMMA ProbeStep ==
  ASSUME Bounds, IInv, Probe
  PROVE  IInv'
<1>1. CASE running(client)
  BY <1>1, AskStep
<1>2. CASE ~running(client)
  <2>1. Join("probing") /\ op = "idle" /\ disposed = "no"
        /\ UNCHANGED <<up, ended, heard, client, dataplaneGeneration, active, stopping, disposed, signal, legacy, starts, faults>>
    BY <1>2 DEF Probe
  <2>2. ~stopping /\ starts' \in 0..MaxStarts
    BY <2>1, TypesAre DEF IInv, Stopping, Types
  <2>3. QED
    BY <1>2, <2>1, <2>2, JoinStep
<1>3. QED
  BY <1>1, <1>2

LEMMA ReconnectStep ==
  ASSUME Bounds, IInv, Reconnect
  PROVE  IInv'
<1>1. op = "again"
      /\ UNCHANGED <<up, ended, heard, client, dataplaneGeneration, active, stopping, disposed, signal, legacy, starts, faults>>
  BY DEF Reconnect
<1>2. ~stopping
  BY <1>1 DEF IInv, Carried, Stopping
<1>3. starts' \in 0..MaxStarts /\ signal' \in BOOLEAN
  BY <1>1, TypesAre DEF IInv, Types
<1>4. CASE running(client)
  <2>1. op' = "idle" /\ UNCHANGED <<helperGeneration, connecting, attached, startAttempted, proc, inbox>>
    BY <1>4 DEF Reconnect
  <2>2. QED
    BY <1>1, <1>3, <2>1, MovesOnStep
<1>5. CASE ~running(client)
  <2>1. Join("probing")
    BY <1>5 DEF Reconnect
  <2>2. QED
    BY <1>1, <1>2, <1>3, <1>5, <2>1, JoinStep
<1>6. QED
  BY <1>4, <1>5

LEMMA StartStep ==
  ASSUME Bounds, IInv, Start
  PROVE  IInv'
<1>1. CASE running(client)
  BY <1>1, StartSentStep
<1>2. CASE ~running(client)
  <2>1. Join("startWaits") /\ op \in {"idle", "owes"} /\ ~stopping /\ starts < MaxStarts /\ starts' = starts + 1
        /\ UNCHANGED <<up, ended, heard, client, dataplaneGeneration, active, stopping, disposed, signal, legacy, faults>>
    BY <1>2 DEF Start
  <2>2. starts' \in 0..MaxStarts
    BY <2>1, TypesAre DEF IInv, Types, Bounds
  <2>3. QED
    BY <1>2, <2>1, <2>2, JoinStep
<1>3. QED
  BY <1>1, <1>2

LEMMA AbortStep ==
  ASSUME Bounds, IInv, Abort
  PROVE  IInv'
<1>t. Types
  BY TypesAre DEF IInv
<1>1. /\ op \in {"startWaits", "started"} /\ signal' = TRUE
      /\ UNCHANGED <<proc, up, ended, heard, helperGeneration, client, dataplaneGeneration, connecting, attached, active>>
      /\ UNCHANGED <<startAttempted, stopping, disposed, legacy, starts, faults>>
  BY DEF Abort, controllerVars
<1>2. CASE op = "startWaits"
  <2>1. UNCHANGED <<op, inbox>>
    BY <1>2 DEF Abort
  <2>2. QED
    BY <1>1, <2>1, MovesOnStep
<1>3. CASE op = "started"
  <2>1. /\ op' = "owes"
        /\ inbox' = [inbox EXCEPT ![client] =
             [i \in DOMAIN @ |-> IF @[i].cmd = "start-dataplane" THEN [@[i] EXCEPT !.live = FALSE] ELSE @[i]]]
    BY <1>3 DEF Abort
  <2>2. CASE client \in Gens /\ inbox[client] # << >>
    <3>1. Hushes(client, "start-dataplane")
      BY <1>t, <2>1, <2>2, AbortHushes
    <3>2. faults' \in 0..MaxFaults
      BY <1>t, <1>1 DEF Types
    <3>3. QED
      BY <1>1, <1>3, <2>1, <2>2, <3>1, <3>2, HushStep
  <2>3. CASE client \in Gens /\ inbox[client] = << >>
    <3>1. [i \in DOMAIN inbox[client] |->
             IF inbox[client][i].cmd = "start-dataplane" THEN [inbox[client][i] EXCEPT !.live = FALSE] ELSE inbox[client][i]] = << >>
      BY <2>3
    <3>2. inbox' = inbox
      BY <1>t, <2>1, <2>3, <3>1 DEF Types
    <3>3. \A g \in Gens : \A i \in DOMAIN inbox[g] : ~Live(g, i, "start-dataplane")
      BY <2>3 DEF IInv, Awaited
    <3>4. QED
      BY <1>1, <1>3, <2>1, <3>2, <3>3, MovesOnStep
  <2>4. CASE client \notin Gens
    <3>1. inbox' = inbox
      BY <1>t, <2>1, <2>4 DEF Types
    <3>2. \A g \in Gens : \A i \in DOMAIN inbox[g] : ~Live(g, i, "start-dataplane")
      BY <2>4 DEF IInv, Awaited
    <3>3. QED
      BY <1>1, <1>3, <2>1, <3>1, <3>2, MovesOnStep
  <2>5. QED
    BY <2>2, <2>3, <2>4
<1>4. QED
  BY <1>1, <1>2, <1>3

LEMMA StopStep ==
  ASSUME Bounds, IInv, Stop
  PROVE  IInv'
<1>1. /\ SendStop("stopping") /\ op \in {"idle", "owes"} /\ disposed' = disposed
      /\ UNCHANGED <<proc, up, ended, heard, helperGeneration, client, dataplaneGeneration, connecting, attached, legacy, starts, faults>>
  BY DEF Stop
<1>2. QED
  BY <1>1, SendStopStep

LEMMA DisposeStep ==
  ASSUME Bounds, IInv, Dispose
  PROVE  IInv'
<1>1. /\ SendStop(op) /\ disposed = "no" /\ disposed' = "stopping"
      /\ UNCHANGED <<proc, up, ended, heard, helperGeneration, client, dataplaneGeneration, connecting, attached, legacy, starts, faults>>
  BY DEF Dispose
<1>2. QED
  BY <1>1, SendStopStep

LEMMA DisposedStep ==
  ASSUME Bounds, IInv, LetGo
  PROVE  IInv'
<1>1. /\ disposed = "stopping" /\ ~stopping /\ client' = 0
      /\ UNCHANGED <<heard, helperGeneration, dataplaneGeneration, connecting, attached, active, startAttempted, stopping>>
      /\ UNCHANGED <<signal, legacy, starts, faults>>
  BY DEF LetGo
<1>2. CASE client = 0 \/ ended[client]
  <2>1. disposed' = "done" /\ UNCHANGED <<proc, up, ended, inbox, op>>
    BY <1>2 DEF LetGo
  <2>2. QED
    BY <1>1, <1>2, <2>1, NothingToLetGoStep
<1>3. CASE ~(client = 0 \/ ended[client])
  <2>1. disposed' = "grace" /\ Released(client, TRUE)
        /\ op' = IF op = "started" THEN "owes" ELSE IF op = "asked" THEN "idle" ELSE op
    BY <1>3 DEF LetGo
  <2>2. client \in Gens
    BY <1>3, TypesAre DEF IInv, Types, Gens
  <2>3. QED
    BY <1>1, <1>3, <2>1, <2>2, LetGoStep
<1>4. QED
  BY <1>2, <1>3

LEMMA TimeoutStep ==
  ASSUME Bounds, IInv, NEW g \in Gens, NEW i \in DOMAIN inbox[g], Timeout(g, i)
  PROVE  IInv'
<1>t. Types
  BY TypesAre DEF IInv
<1> DEFINE silent == [inbox EXCEPT ![g][i].live = FALSE]
           c == inbox[g][i].cmd
<1>1. /\ ~ended[g] /\ inbox[g][i].live /\ Live(g, i, c)
      /\ UNCHANGED <<legacy, starts>>
  BY DEF Timeout, Live
<1>2. faults' \in 0..MaxFaults
  BY <1>t DEF Timeout, Types, Bounds
<1>3. inbox' = silent => Hushes(g, c)
  BY <1>t, <1>1, SilentHushes DEF IInv
<1>4. signal \in BOOLEAN
  BY <1>t DEF Types
<1>5. CASE /\ c = "get-capabilities" /\ g = connecting
           /\ ConnectFails /\ Released(g, FALSE)
           /\ UNCHANGED <<heard, helperGeneration, client, dataplaneGeneration, attached, active, startAttempted, stopping,
                          disposed, signal>>
  BY <1>1, <1>2, <1>5, ConnectGivenUpStep
<1>6. CASE /\ c = "get-capabilities" /\ g # connecting
           /\ RefreshFails(g, silent)
           /\ UNCHANGED <<heard, helperGeneration, dataplaneGeneration, connecting, attached, active, startAttempted, stopping,
                          disposed, signal>>
  <2>1. op = "asked" /\ g = client
    BY <1>1, <1>6 DEF IInv, Awaited
  <2>2. CASE active \/ startAttempted
    <3>1. op' = "idle" /\ inbox' = silent /\ UNCHANGED <<proc, up, ended, client>>
      BY <1>6, <2>2 DEF RefreshFails
    <3>2. Hushes(g, "get-capabilities")
      BY <1>3, <1>6, <3>1
    <3>3. signal' \in BOOLEAN
      BY <1>4, <1>6
    <3>4. QED
      BY <1>1, <1>2, <1>6, <2>1, <3>1, <3>2, <3>3, HushStep
  <2>3. CASE ~(active \/ startAttempted)
    <3>1. op' = "again" /\ Released(g, FALSE) /\ client' = 0
      BY <1>6, <2>1, <2>3 DEF RefreshFails
    <3>2. QED
      BY <1>1, <1>2, <1>6, <2>1, <2>3, <3>1, RefreshGivenUpStep
  <2>4. QED
    BY <2>2, <2>3
<1>7. CASE /\ c = "start-dataplane"
           /\ op' = "owes" /\ inbox' = silent
           /\ UNCHANGED <<proc, up, ended, heard, controllerVars, signal>>
  <2>1. op = "started" /\ g = client
    BY <1>1, <1>7 DEF IInv, Awaited
  <2>2. Hushes(g, "start-dataplane")
    BY <1>3, <1>7
  <2>3. signal' \in BOOLEAN
    BY <1>4, <1>7
  <2>4. UNCHANGED <<proc, up, ended, heard, helperGeneration, client, dataplaneGeneration, connecting, attached, disposed>>
        /\ UNCHANGED <<startAttempted, stopping, active>>
    BY <1>7 DEF controllerVars
  <2>5. QED
    BY <1>1, <1>2, <1>7, <2>1, <2>2, <2>3, <2>4, HushStep
<1>8. CASE /\ c = "stop-dataplane"
           /\ Stopped(FALSE) /\ inbox' = silent
           /\ UNCHANGED <<proc, up, ended, heard, helperGeneration, client, dataplaneGeneration, connecting, attached, disposed>>
  <2>1. stopping /\ g = client
    BY <1>1, <1>8 DEF IInv, Awaited
  <2>2. Hushes(g, "stop-dataplane")
    BY <1>3, <1>8
  <2>3. /\ stopping' = FALSE /\ active' = FALSE
        /\ op' = IF op = "stopping" THEN "idle" ELSE op
    BY <1>8 DEF Stopped
  <2>4. startAttempted \in BOOLEAN /\ startAttempted' = (startAttempted /\ ~FALSE)
    BY <1>t, <1>8 DEF Stopped, Types
  <2>5. startAttempted' = startAttempted
    BY <2>4
  <2>6. signal' \in BOOLEAN
    BY <1>4, <1>8 DEF Stopped
  <2>7. QED
    BY <1>1, <1>2, <1>8, <2>1, <2>2, <2>3, <2>5, <2>6, HushStep
<1>9. QED
  BY <1>5, <1>6, <1>7, <1>8 DEF Timeout

LEMMA InvStep ==
  ASSUME Bounds
  PROVE  IInv /\ [Next]_vars => IInv'
<1> SUFFICES ASSUME IInv, [Next]_vars PROVE IInv'
  OBVIOUS
<1>1. CASE UNCHANGED vars
  <2>1. /\ UNCHANGED <<proc, up, ended, heard, helperGeneration, client, dataplaneGeneration, connecting, attached, active>>
        /\ UNCHANGED <<startAttempted, stopping, disposed, legacy, starts, faults>>
        /\ UNCHANGED inbox /\ op' = op /\ signal' = signal
    BY <1>1 DEF vars
  <2>2. signal' \in BOOLEAN
    BY <2>1, TypesAre DEF IInv, Types
  <2>3. QED
    BY <2>1, <2>2, MovesOnStep
<1>2. CASE Probe \/ Reconnect \/ Start \/ Abort \/ Stop \/ Dispose \/ LetGo \/ GraceEnds
  BY <1>2, ProbeStep, ReconnectStep, StartStep, AbortStep, StopStep, DisposeStep, DisposedStep, GraceEndsStep
<1>3. ASSUME NEW g \in Gens,
             \/ ServeCapabilities(g) \/ ServeStart(g) \/ ServeStop(g) \/ ServeEnd(g)
             \/ Exit(g) \/ Noticed(g) \/ Closed(g)
             \/ \E i \in DOMAIN inbox[g] : Timeout(g, i)
      PROVE  IInv'
  BY <1>3, ServeCapabilitiesStep, ServeStartStep, ServeStopStep, ServeEndStep, ExitStep, NoticedStep, ClosedStep, TimeoutStep
<1>4. QED
  BY <1>1, <1>2, <1>3 DEF Next

LEMMA InvInit ==
  ASSUME Bounds
  PROVE  Init => IInv
<1> SUFFICES ASSUME Init PROVE IInv
  OBVIOUS
<1>1. active \in BOOLEAN /\ startAttempted \in BOOLEAN /\ stopping \in BOOLEAN /\ attached \in BOOLEAN
      /\ signal \in BOOLEAN /\ legacy \in BOOLEAN /\ ~active /\ ~startAttempted /\ ~stopping
  BY DEF Init
<1>2. << >> \in Seq(Commands) /\ DOMAIN << >> = {}
  OBVIOUS
<1>3. /\ proc = [g \in Gens |-> "none"] /\ up = [g \in Gens |-> FALSE] /\ ended = [g \in Gens |-> FALSE]
      /\ inbox = [g \in Gens |-> << >>] /\ heard = [g \in Gens |-> 0]
      /\ helperGeneration = 0 /\ client = 0 /\ dataplaneGeneration = 0 /\ connecting = 0
      /\ disposed = "no" /\ op = "idle" /\ starts = 0 /\ faults = 0
  BY DEF Init
<1>4. /\ proc \in [Gens -> Procs] /\ up \in [Gens -> BOOLEAN] /\ ended \in [Gens -> BOOLEAN]
      /\ inbox \in [Gens -> Seq(Commands)] /\ heard \in [Gens -> 0..1]
  BY <1>2, <1>3 DEF Procs
<1>5. Types
  BY <1>1, <1>3, <1>4 DEF Types, Ops, Bounds
<1>6. \A g \in Gens : proc[g] = "none" /\ ~up[g] /\ ~ended[g] /\ inbox[g] = << >> /\ DOMAIN inbox[g] = {} /\ heard[g] = 0
  BY <1>2, <1>3
<1>7. Numbered /\ Connecting /\ Stopping
  BY <1>1, <1>3, <1>6 DEF Numbered, Connecting, Stopping, running
<1>8. Awaited /\ LetGoEnds /\ Owed /\ Carried /\ Known /\ Reported
  BY <1>1, <1>3, <1>6 DEF Awaited, LetGoEnds, Owed, HasStart, Carried, Known, Reported
<1>9. QED
  BY <1>5, <1>7, <1>8, TypesAre DEF IInv

LEMMA InvHolds ==
  ASSUME Bounds
  PROVE  Spec => []IInv
<1>1. Init => IInv
  BY InvInit
<1>2. IInv /\ [Next]_vars => IInv'
  BY InvStep
<1>3. QED
  BY <1>1, <1>2, PTL DEF Spec

LEMMA NotKilledStep ==
  ASSUME Bounds
  PROVE  IInv /\ [Next]_vars => ActiveIsNotKilled
<1> SUFFICES ASSUME IInv, [Next]_vars, NEW g \in Gens, up[g], ~up'[g], active, g = dataplaneGeneration, ~ended[g], ended'[g]
             PROVE  FALSE
  BY DEF ActiveIsNotKilled
<1>t. Types
  BY TypesAre DEF IInv
<1>1. ended' # ended /\ up' # up
  OBVIOUS
<1>2. ASSUME NEW h \in Gens, ended' = [ended EXCEPT ![h] = TRUE] PROVE h = g
  BY <1>t, <1>2 DEF Types
<1>3. g # connecting
  BY DEF IInv, Connecting, Gens
<1>4. CASE Probe \/ Reconnect \/ Start \/ Abort \/ Stop \/ Dispose \/ LetGo \/ GraceEnds
  BY <1>1, <1>4 DEF Probe, Reconnect, Start, Abort, Stop, Dispose, LetGo, GraceEnds, Released
<1>5. ASSUME NEW h \in Gens,
             \/ ServeCapabilities(h) \/ ServeStart(h) \/ ServeStop(h) \/ ServeEnd(h)
             \/ Exit(h) \/ Noticed(h) \/ Closed(h)
      PROVE  FALSE
  <2>1. CASE ServeCapabilities(h)
    <3>1. h = connecting /\ Handshaken(h, Rest(h))
      BY <1>1, <2>1 DEF ServeCapabilities
    <3>2. ended' = [ended EXCEPT ![h] = TRUE]
      BY <1>1, <3>1 DEF Handshaken, Released
    <3>3. QED
      BY <1>2, <1>3, <3>1, <3>2
  <2>2. CASE ServeStart(h) \/ ServeStop(h) \/ ServeEnd(h) \/ Exit(h) \/ Noticed(h) \/ Closed(h)
    BY <1>1, <2>2 DEF ServeStart, ServeStop, ServeEnd, Exit, Noticed, Closed
  <2>3. QED
    BY <1>5, <2>1, <2>2
<1>6. ASSUME NEW h \in Gens, NEW i \in DOMAIN inbox[h], Timeout(h, i)
      PROVE  FALSE
  <2>1. CASE h = connecting /\ Released(h, FALSE)
    BY <1>2, <1>3, <2>1 DEF Released
  <2>2. CASE ~active
    BY <2>2
  <2>3. CASE UNCHANGED ended
    BY <1>1, <2>3
  <2>4. QED
    BY <1>6, <2>1, <2>2, <2>3 DEF Timeout, RefreshFails
<1>7. CASE UNCHANGED vars
  BY <1>1, <1>7 DEF vars
<1>8. QED
  BY <1>4, <1>5, <1>6, <1>7 DEF Next

-----------------------------------------------------------------------------
(* What holds of every behaviour *)

(* The helpers, the commands on their way and the controller's fields keep their shapes; in
   particular the end of a helper reaches the listeners of handleHelperClosed at most once. *)
THEOREM ControllerTypes ==
  ASSUME Bounds
  PROVE  Spec => []TypeOK
<1>1. IInv => TypeOK
  BY DEF IInv
<1>2. QED
  BY <1>1, InvHolds, PTL

(* Whatever was given up on, refused or answered late: a helper that captures traffic, or has
   a start left to carry out, is the one stop() would address, has the stop behind the start,
   or finds the end of its input there. *)
THEOREM AdapterIsAlwaysOwed ==
  ASSUME Bounds
  PROVE  Spec => []AdapterIsOwed
<1>1. IInv => AdapterIsOwed
  BY DEF IInv, LetGoEnds, Owed, HasStart, AdapterIsOwed
<1>2. QED
  BY <1>1, InvHolds, PTL

(* The controller, the helper that holds the adapter and what is left of both after dispose
   stay in step: an adapter is owed its stop, isActive names a helper that carries it or whose
   end has yet to be reported, and a disposed controller has let every helper go. *)
THEOREM AdapterIsAlwaysHeld ==
  ASSUME Bounds
  PROVE  Spec => []AdapterIsHeld
<1>1. IInv => AdapterIsOwed
  BY DEF IInv, LetGoEnds, Owed, HasStart, AdapterIsOwed
<1>2. IInv => ActiveIsCarried
  BY DEF IInv, Carried, ActiveIsCarried
<1>3. IInv => DisposedReleases
  BY DEF IInv, Known, DisposedReleases, Gens
<1>4. IInv => AdapterIsHeld
  BY <1>1, <1>2, <1>3 DEF AdapterIsHeld
<1>5. QED
  BY <1>4, InvHolds, PTL

(* No step of the controller kills a running helper that carries the active dataplane: the
   refresh that fails, the handshake that fails and dispose all spare it. *)
THEOREM ActiveIsNeverKilled ==
  ASSUME Bounds
  PROVE  Spec => [][ActiveIsNotKilled]_vars
<1>1. IInv /\ [Next]_vars => ActiveIsNotKilled
  BY NotKilledStep
<1>2. QED
  BY <1>1, InvHolds, PTL DEF Spec

=============================================================================
