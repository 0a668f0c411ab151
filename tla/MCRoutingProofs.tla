-------------------------- MODULE MCRoutingProofs ---------------------------
(***************************************************************************)
(* Proofs about what sends the traffic of applications into the tunnel.    *)
(*                                                                         *)
(* WindowsSystemProxy, which MCRouting extends: the user's own proxy       *)
(* settings are never lost between the registry and the journals, Shadow's *)
(* leftovers are never taken for them, and a recovery that ends without a  *)
(* failure has put them back, from every start, for every number of failed *)
(* steps, ends of the process and spoilt journals, and all PAC texts,      *)
(* endpoints, ports and forms.  The exceptions are a journal with the      *)
(* user's settings that was spoilt (lost), and one of the routing          *)
(* directory that was removed while a later one stayed (outlived), which   *)
(* takes a failed recovery first.                                          *)
(*                                                                         *)
(* ProcessAttribution, which it instantiates: a lookup is answered from a  *)
(* snapshot that is new enough, for any number of lookups and failures.    *)
(*                                                                         *)
(* ProcessRouteLearner, another instance: what is published is learned for *)
(* the rules it is published with, for all applications, addresses, names  *)
(* and routings, and every number of updates, cycles, failures and ends of *)
(* the session.                                                            *)
(***************************************************************************)
EXTENDS MCRouting, SequenceTheorems, FiniteSetTheorems, TLAPS

-----------------------------------------------------------------------------
(* The inductive invariant *)

Dirs == {"routing", "xray"}
Journals == [state : {"absent", "usable", "spoiled"}, snap : [Names -> Values]]
Held == [some : BOOLEAN, snap : [Names -> Values]]

MemFields ==
  {"pac", "retained", "fallback", "content", "published", "versions", "registryUrl", "registeredUrl",
   "pendingUrl", "static", "dirty"}

(* What the manager remembers, as far as the registry and TypeOK depend on it. *)
MemOK(m) ==
  /\ DOMAIN m = MemFields /\ m = [f \in MemFields |-> m[f]]
  /\ m.pac \in {0} \cup Endpoints /\ m.content \in {0} \cup Pacs /\ m.pendingUrl \in Values

TurnOK ==
  /\ turn.server \in {0} \cup Endpoints /\ turn.previous \in {0} \cup Endpoints
  /\ turn.content \in {0} \cup Pacs

(* A request is one of Requests, with the notes publish makes on it. *)
Requested ==
  /\ DOMAIN req = {"mode", "port", "form", "pac", "rotate", "changed", "force"}
  /\ req.mode = "static" => req.port \in Ports /\ req.form \in Forms
  /\ req.mode = "pac" => req.pac \in Pacs
  /\ req.pac \in {0} \cup Pacs

MachineOK ==
  /\ reg \in [Names -> Values] /\ told \subseteq Values
  /\ journal \in [Dirs -> Journals]
  /\ legacyFirst \in BOOLEAN /\ lost \in BOOLEAN /\ outlived \in BOOLEAN

ProgressOK ==
  /\ life \in {"down", "recovering", "up"} /\ leaving \in {"no", "session", "deadline"}
  /\ op \in {"none", "recover", "restore", "apply"}
  /\ todo \in Seq(Steps) /\ aim \in [Names -> Values] /\ dir \in Dirs

HeldOK == held \in Held /\ open \subseteq Endpoints /\ stale \subseteq Endpoints

Counted == troubles \in 0..MaxTroubles /\ faults \in 0..MaxFaults

Types == MachineOK /\ ProgressOK /\ HeldOK /\ MemOK(mem) /\ TurnOK /\ Requested /\ Counted

HasJournal(d) == journal[d].state = "usable"

(* The user's settings are in the journal that the next start reads; where there is none,
   in the registry. *)
Kept == ~lost /\ ~outlived => IF Candidates = {} THEN reg = user ELSE journal[Oldest].snap = user

(* What is held in memory is on disk as well, and is nothing of Shadow's. *)
Holding ==
  held.some => /\ HasJournal("routing") /\ journal["routing"].snap = held.snap
               /\ NotShadows(held.snap)

(* Where the older journal is that of the routing directory, an application that is up has
   both only after a recovery that failed, and only then is the older one removed alone. *)
Aged ==
  troubles = 0 =>
    /\ ~outlived
    /\ life = "up" /\ HasJournal("routing") /\ HasJournal("xray") => legacyFirst

(* A process that is down holds nothing, and one that recovers does not either. *)
Living ==
  /\ op = "none" <=> todo = <<>>
  /\ life = "down" => op = "none" /\ ~held.some
  /\ op = "recover" <=> life = "recovering"
  /\ op = "recover" => ~held.some
  /\ op \in {"restore", "apply"} => dir = "routing"

(* Whether what is being put back are the user's own settings: they are, unless the older
   journal stands in the other directory. *)
Decisive == ~lost /\ ~outlived /\ dir = Oldest

(* The steps that undo, and the place of each value among them. *)
Undo ==
  <<"dropNewer", "enable", "server", "override", "url", "forget", "detect", "notify", "stop", "rmJournal">>

Place == [enable |-> 2, server |-> 3, override |-> 4, url |-> 5, detect |-> 7]

(* The steps from the ith are left, and an apply captures and publishes after them. *)
UndoLeft(i) ==
  /\ Len(todo) = 11 - i + (IF op = "apply" THEN 2 ELSE 0)
  /\ \A j \in 1..(11 - i) : todo[j] = Undo[i + j - 1]
  /\ op = "apply" => todo[12 - i] = "capture" /\ todo[13 - i] = "publish"

(* They write what the journal says that is removed last; and the values already written
   are the user's own where they have to be. *)
Undone(i) ==
  /\ HasJournal(dir) /\ aim = journal[dir].snap
  /\ i = 1 => op = "recover"
  /\ i = 10 => ~held.some
  /\ op = "recover" => dir = Oldest /\ (i = 1 \/ Candidates = {dir})
  /\ Decisive => \A n \in Names : Place[n] < i => reg[n] = user[n]

Undoing(i) == op # "none" /\ UndoLeft(i) /\ Undone(i)

Surveying == op = "recover" /\ Len(todo) = 1 /\ todo[1] = "survey"

Looking ==
  /\ todo[1] = "lookup"
  /\ \/ op = "restore" /\ Len(todo) = 1
     \/ op = "apply" /\ Len(todo) = 3 /\ todo[2] = "capture" /\ todo[3] = "publish"

Capturing ==
  /\ op = "apply" /\ Len(todo) = 2 /\ todo[1] = "capture" /\ todo[2] = "publish"
  /\ held.some \/ ~HasJournal("routing")

(* What is about to be saved are the user's own settings, or a journal of the xray directory
   has them. *)
Persisting ==
  /\ op = "apply" /\ Len(todo) = 2 /\ todo[1] = "persist" /\ todo[2] = "publish"
  /\ NotShadows(aim) /\ ~HasJournal("routing")
  /\ ~lost /\ ~outlived /\ ~HasJournal("xray") => aim = user

PublishSteps ==
  {"publish", "enable", "server", "url", "override", "forget", "detect", "notify", "settle", "writePac",
   "republish", "serve", "registerPac"}

(* The registry is written only while the settings it had are in a journal. *)
Publishing ==
  /\ op = "apply" /\ held.some /\ todo # <<>>
  /\ \A j \in 1..Len(todo) : todo[j] \in PublishSteps

Running ==
  \/ op = "none"
  \/ Surveying \/ Looking \/ Capturing \/ Persisting \/ Publishing
  \/ \E i \in 1..10 : Undoing(i)

IInv == Types /\ Kept /\ Holding /\ Living /\ Running /\ Aged

-----------------------------------------------------------------------------
(* Values and the operators on them *)

LEMMA ValueFacts ==
  /\ {None, Off, On, Own} \subseteq Values
  /\ \A p \in Ports : <<"listener", p>> \in Values
  /\ \A f \in Forms : <<"local", f>> \in Values
  /\ \A e \in Endpoints, v \in {0} \cup Pacs : <<"pac", e, v>> \in Values
BY DEF Values

LEMMA AimFacts ==
  /\ Blank \in [Names -> Values] /\ user \in [Names -> Values]
  /\ \A u \in Values : PacAim(u) \in [Names -> Values]
<1>1. Blank \in [Names -> Values]
  BY ValueFacts DEF Blank
<1>2. user \in [Names -> Values]
  BY ValueFacts DEF user, Names
<1>3. ASSUME NEW u \in Values PROVE PacAim(u) \in [Names -> Values]
  BY ValueFacts DEF PacAim, Names
<1>4. QED
  BY <1>1, <1>2, <1>3

LEMMA StaticAimType ==
  ASSUME NEW r, r.port \in Ports, r.form \in Forms
  PROVE  StaticAim(r) \in [Names -> Values]
BY ValueFacts DEF StaticAim, Names

LEMMA WithoutAppOwnedType ==
  ASSUME NEW s \in [Names -> Values], NEW port
  PROVE  WithoutAppOwned(s, port) \in [Names -> Values]
BY ValueFacts DEF WithoutAppOwned, Names

LEMMA ClearedType ==
  ASSUME NEW r \in [Names -> Values]
  PROVE  Cleared(r) \in [Names -> Values]
BY ValueFacts DEF Cleared, Names

(* Nothing of Shadow's is left in what is captured. *)
LEMMA CapturedIsClean ==
  ASSUME NEW s \in [Names -> Values], NEW port
  PROVE  LET w == WithoutAppOwned(s, port)
         IN ~IsShadowPac(w.url) /\ ~IsShadowStatic(w.server, w.override)
<1> DEFINE w == WithoutAppOwned(s, port)
<1>1. w.url = IF IsShadowPac(s.url) THEN None ELSE s.url
  BY DEF WithoutAppOwned, Names
<1>2. ~IsShadowPac(None)
  BY DEF IsShadowPac, None
<1>3. ~IsShadowPac(w.url)
  BY <1>1, <1>2
<1>4. CASE IsShadowStatic(s.server, s.override)
  <2>1. w.server = None
    BY <1>4 DEF WithoutAppOwned, Names
  <2>2. QED
    BY <2>1, <1>3 DEF IsShadowStatic, None
<1>5. CASE ~IsShadowStatic(s.server, s.override)
  <2>1. w.override = s.override /\ w.server \in {None, s.server}
    BY <1>5 DEF WithoutAppOwned, Names
  <2>2. QED
    BY <2>1, <1>3, <1>5 DEF IsShadowStatic, None
<1>6. QED
  BY <1>4, <1>5

(* The user's own settings are neither captured nor cleared away. *)
LEMMA UserIsNotShadows ==
  /\ \A p : WithoutAppOwned(user, p) = user
  /\ Cleared(user) = user
<1>1. ~IsShadowPac(user.url) /\ ~IsShadowStatic(user.server, user.override)
  BY DEF user, Own, IsShadowPac, IsShadowStatic
<1>2. \A p : user.server # <<"listener", p>>
  BY DEF user, Own
<1>3. user = [n \in Names |-> user[n]]
  BY DEF user, Names
<1>4. QED
  BY <1>1, <1>2, <1>3 DEF WithoutAppOwned, Cleared, Names

LEMMA OldestFacts ==
  ASSUME journal \in [Dirs -> Journals], legacyFirst \in BOOLEAN
  PROVE  /\ Candidates \subseteq Dirs /\ \A d \in Dirs : d \in Candidates <=> HasJournal(d)
         /\ Candidates # {} => Oldest \in Candidates
         /\ HasJournal("routing") /\ HasJournal("xray") =>
              Oldest = IF legacyFirst THEN "xray" ELSE "routing"
<1>1. Candidates \subseteq Dirs /\ \A d \in Dirs : d \in Candidates <=> HasJournal(d)
  BY DEF Candidates, HasJournal, Dirs
<1>2. Oldest = IF ~HasJournal("routing") \/ (legacyFirst /\ HasJournal("xray")) THEN "xray" ELSE "routing"
  BY <1>1 DEF Oldest, Dirs
<1>3. QED
  BY <1>1, <1>2 DEF Dirs

(* The same after a step. *)
LEMMA OldestFactsNext ==
  ASSUME journal' \in [Dirs -> Journals], legacyFirst' \in BOOLEAN
  PROVE  /\ Candidates' \subseteq Dirs /\ \A d \in Dirs : d \in Candidates' <=> HasJournal(d)'
         /\ Candidates' # {} => Oldest' \in Candidates'
         /\ HasJournal("routing")' /\ HasJournal("xray")' =>
              Oldest' = IF legacyFirst' THEN "xray" ELSE "routing"
<1>1. Candidates' \subseteq Dirs /\ \A d \in Dirs : d \in Candidates' <=> HasJournal(d)'
  BY DEF Candidates, HasJournal, Dirs
<1>2. Oldest' = IF ~HasJournal("routing")' \/ (legacyFirst' /\ HasJournal("xray")') THEN "xray" ELSE "routing"
  BY <1>1 DEF Oldest, Dirs
<1>3. QED
  BY <1>1, <1>2 DEF Dirs

(* A step that leaves the same journals usable leaves the same one the oldest. *)
LEMMA SameOldest ==
  ASSUME journal \in [Dirs -> Journals], journal' \in [Dirs -> Journals], legacyFirst' = legacyFirst,
         \A d \in Dirs : HasJournal(d)' <=> HasJournal(d)
  PROVE  Candidates' = Candidates /\ Oldest' = Oldest
<1>1. Candidates' = Candidates
  BY DEF Candidates, HasJournal, Dirs
<1>2. QED
  BY <1>1 DEF Oldest

-----------------------------------------------------------------------------
(* The manager's memory *)

LEMMA StoppedType ==
  ASSUME NEW m, MemOK(m)
  PROVE  MemOK(Stopped(m))
BY ValueFacts DEF MemOK, MemFields, Stopped

LEMMA CleanType ==
  ASSUME NEW m, MemOK(m)
  PROVE  MemOK(Clean(m))
BY DEF MemOK, MemFields, Clean

LEMMA PublishRetainedType ==
  ASSUME NEW m, NEW live, MemOK(m)
  PROVE  MemOK(PublishRetained(m, live))
BY DEF MemOK, MemFields, PublishRetained

LEMMA AddRetainedType ==
  ASSUME NEW m, NEW e, MemOK(m)
  PROVE  MemOK(AddRetained(m, e))
BY DEF MemOK, MemFields, AddRetained

LEMMA RotatedType ==
  ASSUME MemOK(mem), TurnOK, aim \in [Names -> Values]
  PROVE  MemOK(Rotated(mem))
<1> DEFINE named == mem.registryUrl = aim.url
           m1 == [mem EXCEPT !.pendingUrl = IF req.rotate /\ named THEN aim.url ELSE @]
<1>1. MemOK(m1)
  BY DEF MemOK, MemFields, Names
<1>2. MemOK(AddRetained(m1, turn.previous))
  BY <1>1, AddRetainedType
<1>3. MemOK([m1 EXCEPT !.pac = turn.previous, !.content = turn.content])
  BY <1>1 DEF MemOK, MemFields, TurnOK
<1>4. QED
  BY <1>1, <1>2, <1>3 DEF Rotated

-----------------------------------------------------------------------------
(* Programs of steps *)

LEMMA StepsAre ==
  Steps = {"enable", "server", "override", "url", "forget", "detect", "notify", "stop", "rmJournal",
           "survey", "dropNewer", "lookup", "capture", "persist", "publish", "settle", "writePac",
           "republish", "serve", "registerPac"}
<1>1. Range(RestoreSteps) = {RestoreSteps[i] : i \in 1..9}
  BY DEF Range, RestoreSteps
<1>2. {RestoreSteps[i] : i \in 1..9}
        = {"enable", "server", "override", "url", "forget", "detect", "notify", "stop", "rmJournal"}
  BY DEF RestoreSteps
<1>3. QED
  BY <1>1, <1>2 DEF Steps

LEMMA ProgramTypes ==
  /\ RestoreSteps \in Seq(Steps) /\ StaticSteps \in Seq(Steps) /\ PacSteps \in Seq(Steps)
  /\ \A s \in Steps : <<s>> \in Seq(Steps)
  /\ <<>> \in Seq(Steps)
  /\ <<"lookup", "capture", "publish">> \in Seq(Steps) /\ <<"url", "notify">> \in Seq(Steps)
  /\ \A s, t \in Seq(Steps) : s \o t \in Seq(Steps)
<1>1. RestoreSteps \in Seq(Steps)
  BY StepsAre DEF RestoreSteps
<1>2. StaticSteps \in Seq(Steps)
  BY StepsAre DEF StaticSteps
<1>3. PacSteps \in Seq(Steps)
  BY StepsAre DEF PacSteps
<1>4. <<"lookup", "capture", "publish">> \in Seq(Steps) /\ <<"url", "notify">> \in Seq(Steps)
  BY StepsAre
<1>5. QED
  BY <1>1, <1>2, <1>3, <1>4

LEMMA SomeLeft ==
  ASSUME NEW s, Len(s) # 0
  PROVE  s # <<>>
<1>1. Len(<<>>) = 0
  OBVIOUS
<1>2. QED
  BY <1>1, Zenon

LEMMA TailType ==
  ASSUME todo \in Seq(Steps), todo # <<>>
  PROVE  Tail(todo) \in Seq(Steps) /\ Head(todo) \in Steps
OBVIOUS

LEMMA ContinueType ==
  ASSUME ProgressOK, NEW rest \in Seq(Steps), NEW values \in [Names -> Values],
         Continue(rest, values),
         dir' \in Dirs
  PROVE  ProgressOK'
BY AimFacts, ProgramTypes DEF ProgressOK, Continue

-----------------------------------------------------------------------------
(* Types *)

LEMMA NamedType ==
  ASSUME reg \in [Names -> Values], told \subseteq Values
  PROVE  Named \subseteq Endpoints
<1>1. \A u \in Values : IsShadowPac(u) => u[2] \in Endpoints
  BY DEF Values, IsShadowPac, None, Off, On, Own
<1>2. reg.url \in Values
  BY DEF Names
<1>3. QED
  BY <1>1, <1>2 DEF Named

LEMMA RestoredNowType ==
  ASSUME MachineOK
  PROVE  \A failed : RestoredNow(failed) \in [Names -> Values]
<1>1. Candidates # {} => journal[Oldest].snap \in [Names -> Values]
  <2>1. Candidates # {} => Oldest \in Dirs
    BY OldestFacts DEF MachineOK
  <2>2. QED
    BY <2>1 DEF MachineOK, Journals
<1>2. QED
  BY <1>1 DEF RestoredNow, MachineOK

LEMMA WriteValueTypes ==
  ASSUME Types, NEW n \in Names, WriteValue(n)
  PROVE  Types'
<1>0. MachineOK /\ ProgressOK /\ HeldOK /\ MemOK(mem) /\ TurnOK /\ Requested /\ Counted
  BY DEF Types
<1>1. MachineOK'
  <2>1. reg' \in [Names -> Values]
    BY <1>0 DEF WriteValue, MachineOK, ProgressOK
  <2>2. QED
    BY <1>0, <2>1 DEF WriteValue, MachineOK
<1>2. ProgressOK'
  <2>1. todo # <<>> /\ Tail(todo) \in Seq(Steps)
    BY <1>0, TailType DEF ProgressOK, WriteValue, Doing
  <2>2. Continue(Tail(todo), aim) /\ dir' \in Dirs /\ aim \in [Names -> Values]
    BY <1>0 DEF ProgressOK, WriteValue
  <2>3. QED
    BY <1>0, <2>1, <2>2, ContinueType
<1>3. HeldOK'
  BY <1>0 DEF WriteValue, manager, HeldOK
<1>4. MemOK(mem)'
  BY <1>0 DEF WriteValue, MemOK, MemFields
<1>5. TurnOK'
  BY <1>0 DEF WriteValue, manager, TurnOK
<1>6. Requested'
  BY <1>0 DEF WriteValue, Requested
<1>7. Counted'
  BY <1>0 DEF WriteValue, bounds, Counted
<1>8. QED
  BY <1>1, <1>2, <1>3, <1>4, <1>5, <1>6, <1>7 DEF Types

LEMMA ForgetTypes ==
  ASSUME Types, Forget
  PROVE  Types'
<1>0. MachineOK /\ ProgressOK /\ HeldOK /\ MemOK(mem) /\ TurnOK /\ Requested /\ Counted
  BY DEF Types
<1>1. MachineOK'
  BY <1>0 DEF Forget, machine, MachineOK
<1>2. ProgressOK'
  <2>1. todo # <<>> /\ Tail(todo) \in Seq(Steps)
    BY <1>0, TailType DEF ProgressOK, Forget, Doing
  <2>2. Continue(Tail(todo), aim) /\ dir' \in Dirs /\ aim \in [Names -> Values]
    BY <1>0 DEF ProgressOK, Forget
  <2>3. QED
    BY <1>0, <2>1, <2>2, ContinueType
<1>3. HeldOK'
  BY <1>0 DEF Forget, manager, HeldOK
<1>4. MemOK(mem)'
  BY <1>0, ValueFacts DEF Forget, MemOK, MemFields
<1>5. TurnOK'
  BY <1>0 DEF Forget, manager, TurnOK
<1>6. Requested'
  BY <1>0 DEF Forget, Requested
<1>7. Counted'
  BY <1>0 DEF Forget, bounds, Counted
<1>8. QED
  BY <1>1, <1>2, <1>3, <1>4, <1>5, <1>6, <1>7 DEF Types

LEMMA NotifyTypes ==
  ASSUME Types, Notify
  PROVE  Types'
<1>0. MachineOK /\ ProgressOK /\ HeldOK /\ MemOK(mem) /\ TurnOK /\ Requested /\ Counted
  BY DEF Types
<1>1. MachineOK'
  BY <1>0 DEF Notify, MachineOK, Names
<1>2. ProgressOK'
  <2>1. todo # <<>> /\ Tail(todo) \in Seq(Steps)
    BY <1>0, TailType DEF ProgressOK, Notify, Doing
  <2>2. Continue(Tail(todo), aim) /\ dir' \in Dirs /\ aim \in [Names -> Values]
    BY <1>0 DEF ProgressOK, Notify
  <2>3. QED
    BY <1>0, <2>1, <2>2, ContinueType
<1>3. HeldOK'
  BY <1>0 DEF Notify, manager, HeldOK
<1>4. MemOK(mem)'
  BY <1>0 DEF Notify, manager, MemOK
<1>5. TurnOK'
  BY <1>0 DEF Notify, manager, TurnOK
<1>6. Requested'
  BY <1>0 DEF Notify, Requested
<1>7. Counted'
  BY <1>0 DEF Notify, bounds, Counted
<1>8. QED
  BY <1>1, <1>2, <1>3, <1>4, <1>5, <1>6, <1>7 DEF Types

LEMMA LookupTypes ==
  ASSUME Types, Lookup
  PROVE  Types'
<1>0. MachineOK /\ ProgressOK /\ HeldOK /\ MemOK(mem) /\ TurnOK /\ Requested /\ Counted
  BY DEF Types
<1>1. MachineOK'
  <2>a. Absent \in Journals /\ journal["routing"] \in Journals
    BY <1>0, AimFacts DEF MachineOK, Dirs, Journals, Absent
  <2>b. journal' = journal \/ \E j \in {Absent, journal["routing"]} : journal' = [journal EXCEPT !["routing"] = j]
    BY DEF Lookup
  <2>1. journal' \in [Dirs -> Journals]
    BY <1>0, <2>a, <2>b DEF MachineOK
  <2>2. QED
    BY <1>0, <2>1 DEF Lookup, MachineOK
<1>2. ProgressOK'
  <2>1. todo # <<>> /\ Tail(todo) \in Seq(Steps)
    BY <1>0, TailType DEF ProgressOK, Lookup, Doing
  <2>2. RestoreSteps \o Tail(todo) \in Seq(Steps)
    BY <2>1, ProgramTypes
  <2> DEFINE snap == IF held.some THEN held.snap ELSE journal["routing"].snap
  <2>3. snap \in [Names -> Values] /\ aim \in [Names -> Values] /\ dir' \in Dirs
    BY <1>0 DEF MachineOK, Dirs, Journals, HeldOK, Held, ProgressOK, Lookup
  <2>4. Continue(RestoreSteps \o Tail(todo), snap) \/ Continue(Tail(todo), aim)
    BY DEF Lookup
  <2>5. QED
    BY <1>0, <2>1, <2>2, <2>3, <2>4, ContinueType
<1>3. HeldOK'
  BY <1>0 DEF Lookup, HeldOK, StopClosed
<1>4. MemOK(mem)'
  BY <1>0, StoppedType, CleanType DEF Lookup
<1>5. TurnOK'
  BY <1>0 DEF Lookup, manager, TurnOK
<1>6. Requested'
  BY <1>0 DEF Lookup, Requested
<1>7. Counted'
  BY <1>0 DEF Lookup, bounds, Counted
<1>8. QED
  BY <1>1, <1>2, <1>3, <1>4, <1>5, <1>6, <1>7 DEF Types

LEMMA StopPacTypes ==
  ASSUME Types, StopPac
  PROVE  Types'
<1>0. MachineOK /\ ProgressOK /\ HeldOK /\ MemOK(mem) /\ TurnOK /\ Requested /\ Counted
  BY DEF Types
<1>1. MachineOK'
  BY <1>0 DEF StopPac, machine, MachineOK
<1>2. ProgressOK'
  <2>1. todo # <<>> /\ Tail(todo) \in Seq(Steps)
    BY <1>0, TailType DEF ProgressOK, StopPac, Doing
  <2>2. Continue(Tail(todo), aim) /\ dir' \in Dirs /\ aim \in [Names -> Values]
    BY <1>0 DEF ProgressOK, StopPac
  <2>3. QED
    BY <1>0, <2>1, <2>2, ContinueType
<1>3. HeldOK'
  BY <1>0, AimFacts DEF StopPac, HeldOK, StopClosed, Held, Nothing
<1>4. MemOK(mem)'
  <2>1. MemOK(Stopped(mem))
    BY <1>0, StoppedType
  <2>2. QED
    BY <2>1, ValueFacts DEF StopPac, MemOK, MemFields
<1>5. TurnOK'
  BY <1>0 DEF StopPac, manager, TurnOK
<1>6. Requested'
  BY <1>0 DEF StopPac, Requested
<1>7. Counted'
  BY <1>0 DEF StopPac, bounds, Counted
<1>8. QED
  BY <1>1, <1>2, <1>3, <1>4, <1>5, <1>6, <1>7 DEF Types

LEMMA RmJournalTypes ==
  ASSUME Types, RmJournal
  PROVE  Types'
<1>0. MachineOK /\ ProgressOK /\ HeldOK /\ MemOK(mem) /\ TurnOK /\ Requested /\ Counted
  BY DEF Types
<1>1. MachineOK'
  <2>1. journal' \in [Dirs -> Journals]
    BY <1>0, AimFacts DEF RmJournal, MachineOK, Journals, Absent
  <2>2. outlived' \in BOOLEAN
    BY <1>0 DEF RmJournal, MachineOK
  <2>3. QED
    BY <1>0, <2>1, <2>2 DEF RmJournal, MachineOK
<1>2. ProgressOK'
  <2>1. todo # <<>> /\ Tail(todo) \in Seq(Steps)
    BY <1>0, TailType DEF ProgressOK, RmJournal, Doing
  <2>2. Continue(Tail(todo), aim) /\ dir' \in Dirs /\ aim \in [Names -> Values]
    BY <1>0 DEF ProgressOK, RmJournal
  <2>3. QED
    BY <1>0, <2>1, <2>2, ContinueType
<1>3. HeldOK'
  BY <1>0 DEF RmJournal, manager, HeldOK
<1>4. MemOK(mem)'
  BY <1>0, CleanType DEF RmJournal
<1>5. TurnOK'
  BY <1>0 DEF RmJournal, manager, TurnOK
<1>6. Requested'
  BY <1>0 DEF RmJournal, Requested
<1>7. Counted'
  BY <1>0 DEF RmJournal, bounds, Counted
<1>8. QED
  BY <1>1, <1>2, <1>3, <1>4, <1>5, <1>6, <1>7 DEF Types

LEMMA BeginRestoreTypes ==
  ASSUME Types, BeginRestore
  PROVE  Types'
<1>0. MachineOK /\ ProgressOK /\ HeldOK /\ MemOK(mem) /\ TurnOK /\ Requested /\ Counted
  BY DEF Types
<1>1. MachineOK'
  BY <1>0 DEF BeginRestore, machine, MachineOK
<1>2. ProgressOK'
  BY <1>0, ProgramTypes, StepsAre DEF BeginRestore, ProgressOK, Dirs
<1>3. HeldOK'
  BY <1>0 DEF BeginRestore, manager, HeldOK
<1>4. MemOK(mem)'
  BY <1>0 DEF BeginRestore, manager, MemOK
<1>5. TurnOK'
  BY <1>0 DEF BeginRestore, manager, TurnOK
<1>6. Requested'
  BY DEF BeginRestore, Requested, NoRequest
<1>7. Counted'
  BY <1>0 DEF BeginRestore, bounds, Counted
<1>8. QED
  BY <1>1, <1>2, <1>3, <1>4, <1>5, <1>6, <1>7 DEF Types

LEMMA BeginApplyTypes ==
  ASSUME Types, NEW r \in Requests, BeginApply(r)
  PROVE  Types'
<1>0. MachineOK /\ ProgressOK /\ HeldOK /\ MemOK(mem) /\ TurnOK /\ Requested /\ Counted
  BY DEF Types
<1>1. MachineOK'
  BY <1>0 DEF BeginApply, machine, MachineOK
<1>2. ProgressOK'
  BY <1>0, ProgramTypes DEF BeginApply, ProgressOK, Dirs
<1>3. HeldOK'
  BY <1>0 DEF BeginApply, manager, HeldOK
<1>4. MemOK(mem)'
  BY <1>0 DEF BeginApply, manager, MemOK
<1>5. TurnOK'
  BY <1>0 DEF BeginApply, manager, TurnOK
<1>6. Requested'
  BY DEF BeginApply, Requested, Requests
<1>7. Counted'
  BY <1>0 DEF BeginApply, bounds, Counted
<1>8. QED
  BY <1>1, <1>2, <1>3, <1>4, <1>5, <1>6, <1>7 DEF Types

LEMMA CaptureTypes ==
  ASSUME Types, Capture
  PROVE  Types'
<1>0. MachineOK /\ ProgressOK /\ HeldOK /\ MemOK(mem) /\ TurnOK /\ Requested /\ Counted
  BY DEF Types
<1>1. MachineOK'
  BY <1>0 DEF Capture, machine, MachineOK
<1>2. ProgressOK'
  <2>1. todo # <<>> /\ Tail(todo) \in Seq(Steps) /\ "persist" \in Steps
    BY <1>0, TailType, StepsAre DEF ProgressOK, Capture, Doing
  <2>2. <<"persist">> \o Tail(todo) \in Seq(Steps)
    BY <2>1, ProgramTypes
  <2>3. WithoutAppOwned(reg, req.port) \in [Names -> Values]
    BY <1>0, WithoutAppOwnedType DEF MachineOK
  <2>4. QED
    BY <1>0, <2>1, <2>2, <2>3, ContinueType DEF Capture, ProgressOK
<1>3. HeldOK'
  BY <1>0 DEF Capture, manager, HeldOK
<1>4. MemOK(mem)'
  BY <1>0 DEF Capture, manager, MemOK
<1>5. TurnOK'
  BY <1>0 DEF Capture, manager, TurnOK
<1>6. Requested'
  BY <1>0 DEF Capture, Requested
<1>7. Counted'
  BY <1>0 DEF Capture, bounds, Counted
<1>8. QED
  BY <1>1, <1>2, <1>3, <1>4, <1>5, <1>6, <1>7 DEF Types

LEMMA PersistTypes ==
  ASSUME Types, Persist
  PROVE  Types'
<1>0. MachineOK /\ ProgressOK /\ HeldOK /\ MemOK(mem) /\ TurnOK /\ Requested /\ Counted
  BY DEF Types
<1>1. MachineOK'
  <2>1. journal' \in [Dirs -> Journals]
    BY <1>0 DEF Persist, MachineOK, ProgressOK, Journals, Usable
  <2>2. QED
    BY <1>0, <2>1 DEF Persist, MachineOK
<1>2. ProgressOK'
  <2>1. todo # <<>> /\ Tail(todo) \in Seq(Steps)
    BY <1>0, TailType DEF ProgressOK, Persist, Doing
  <2>2. Continue(Tail(todo), aim) /\ dir' \in Dirs /\ aim \in [Names -> Values]
    BY <1>0 DEF ProgressOK, Persist
  <2>3. QED
    BY <1>0, <2>1, <2>2, ContinueType
<1>3. HeldOK'
  BY <1>0 DEF Persist, HeldOK, Held, Some, ProgressOK
<1>4. MemOK(mem)'
  BY <1>0 DEF Persist, manager, MemOK
<1>5. TurnOK'
  BY <1>0 DEF Persist, manager, TurnOK
<1>6. Requested'
  BY <1>0 DEF Persist, Requested
<1>7. Counted'
  BY <1>0 DEF Persist, bounds, Counted
<1>8. QED
  BY <1>1, <1>2, <1>3, <1>4, <1>5, <1>6, <1>7 DEF Types

LEMMA PublishStaticTypes ==
  ASSUME Types, PublishStatic
  PROVE  Types'
<1>0. MachineOK /\ ProgressOK /\ HeldOK /\ MemOK(mem) /\ TurnOK /\ Requested /\ Counted
  BY DEF Types
<1>1. MachineOK'
  BY <1>0 DEF PublishStatic, machine, MachineOK
<1>2. ProgressOK'
  <2> DEFINE write == mem.dirty \/ mem.static # <<"static", req.port, req.form>> \/ mem.pac # 0
             program == (IF write THEN StaticSteps ELSE <<>>) \o <<"settle">>
  <2>1. program \in Seq(Steps)
    BY ProgramTypes, StepsAre
  <2>2. StaticAim(req) \in [Names -> Values]
    BY <1>0, StaticAimType DEF PublishStatic, Requested
  <2>3. Continue(program, StaticAim(req)) /\ dir' \in Dirs
    BY <1>0 DEF PublishStatic, ProgressOK
  <2>4. QED
    BY <1>0, <2>1, <2>2, <2>3, ContinueType
<1>3. HeldOK'
  BY <1>0 DEF PublishStatic, manager, HeldOK
<1>4. MemOK(mem)'
  BY <1>0 DEF PublishStatic, MemOK, MemFields
<1>5. TurnOK'
  BY <1>0 DEF PublishStatic, manager, TurnOK
<1>6. Requested'
  BY <1>0 DEF PublishStatic, Requested
<1>7. Counted'
  BY <1>0 DEF PublishStatic, bounds, Counted
<1>8. QED
  BY <1>1, <1>2, <1>3, <1>4, <1>5, <1>6, <1>7 DEF Types

LEMMA SettleTypes ==
  ASSUME Types, Settle
  PROVE  Types'
<1>0. MachineOK /\ ProgressOK /\ HeldOK /\ MemOK(mem) /\ TurnOK /\ Requested /\ Counted
  BY DEF Types
<1>1. MachineOK'
  BY <1>0 DEF Settle, machine, MachineOK
<1>2. ProgressOK'
  <2>1. todo # <<>> /\ Tail(todo) \in Seq(Steps)
    BY <1>0, TailType DEF ProgressOK, Settle, Doing
  <2>2. Continue(Tail(todo), aim) /\ dir' \in Dirs /\ aim \in [Names -> Values]
    BY <1>0 DEF ProgressOK, Settle
  <2>3. QED
    BY <1>0, <2>1, <2>2, ContinueType
<1>3. HeldOK'
  BY <1>0 DEF Settle, HeldOK, StopClosed
<1>4. MemOK(mem)'
  <2> DEFINE m == [Stopped(mem) EXCEPT !.static = <<"static", req.port, req.form>>]
  <2>1. MemOK(Stopped(mem))
    BY <1>0, StoppedType
  <2>2. MemOK(m)
    BY <2>1 DEF MemOK, MemFields
  <2>3. QED
    BY <2>2, CleanType DEF Settle
<1>5. TurnOK'
  BY <1>0 DEF Settle, manager, TurnOK
<1>6. Requested'
  BY <1>0 DEF Settle, Requested
<1>7. Counted'
  BY <1>0 DEF Settle, bounds, Counted
<1>8. QED
  BY <1>1, <1>2, <1>3, <1>4, <1>5, <1>6, <1>7 DEF Types

LEMMA PublishPacTypes ==
  ASSUME Types, PublishPac
  PROVE  Types'
<1>0. MachineOK /\ ProgressOK /\ HeldOK /\ MemOK(mem) /\ TurnOK /\ Requested /\ Counted
  BY DEF Types
<1>1. MachineOK'
  BY <1>0 DEF PublishPac, machine, MachineOK
<1>2. ProgressOK'
  <2> DEFINE changed == req.pac # mem.content
             retry == /\ req.rotate /\ mem.pac # 0
                      /\ mem.pendingUrl # None /\ mem.pendingUrl = mem.registryUrl
             program == (IF changed THEN <<"writePac">> ELSE <<>>)
                          \o (IF retry THEN PacSteps \o <<"republish">> ELSE <<>>) \o <<"serve">>
  <2>1. program \in Seq(Steps)
    BY ProgramTypes, StepsAre
  <2>2. PacAim(mem.pendingUrl) \in [Names -> Values]
    BY <1>0, AimFacts DEF MemOK
  <2>3. Continue(program, PacAim(mem.pendingUrl)) /\ dir' \in Dirs
    BY <1>0 DEF PublishPac, ProgressOK
  <2>4. QED
    BY <1>0, <2>1, <2>2, <2>3, ContinueType
<1>3. HeldOK'
  BY <1>0 DEF PublishPac, manager, HeldOK
<1>4. MemOK(mem)'
  BY <1>0 DEF PublishPac, manager, MemOK
<1>5. TurnOK'
  BY <1>0 DEF PublishPac, manager, TurnOK
<1>6. Requested'
  BY <1>0 DEF PublishPac, Requested
<1>7. Counted'
  BY <1>0 DEF PublishPac, bounds, Counted
<1>8. QED
  BY <1>1, <1>2, <1>3, <1>4, <1>5, <1>6, <1>7 DEF Types

LEMMA WritePacTypes ==
  ASSUME Types, WritePac
  PROVE  Types'
<1>0. MachineOK /\ ProgressOK /\ HeldOK /\ MemOK(mem) /\ TurnOK /\ Requested /\ Counted
  BY DEF Types
<1>1. MachineOK'
  BY <1>0 DEF WritePac, machine, MachineOK
<1>2. ProgressOK'
  <2>1. todo # <<>> /\ Tail(todo) \in Seq(Steps)
    BY <1>0, TailType DEF ProgressOK, WritePac, Doing
  <2>2. Continue(Tail(todo), aim) /\ dir' \in Dirs /\ aim \in [Names -> Values]
    BY <1>0 DEF ProgressOK, WritePac
  <2>3. QED
    BY <1>0, <2>1, <2>2, ContinueType
<1>3. HeldOK'
  BY <1>0 DEF WritePac, manager, HeldOK
<1>4. MemOK(mem)'
  BY <1>0 DEF WritePac, manager, MemOK
<1>5. TurnOK'
  BY <1>0 DEF WritePac, manager, TurnOK
<1>6. Requested'
  BY <1>0 DEF WritePac, Requested
<1>7. Counted'
  BY <1>0 DEF WritePac, bounds, Counted
<1>8. QED
  BY <1>1, <1>2, <1>3, <1>4, <1>5, <1>6, <1>7 DEF Types

LEMMA RepublishTypes ==
  ASSUME Types, Republish
  PROVE  Types'
<1>0. MachineOK /\ ProgressOK /\ HeldOK /\ MemOK(mem) /\ TurnOK /\ Requested /\ Counted
  BY DEF Types
<1>1. MachineOK'
  BY <1>0 DEF Republish, machine, MachineOK
<1>2. ProgressOK'
  <2>1. todo # <<>> /\ Tail(todo) \in Seq(Steps)
    BY <1>0, TailType DEF ProgressOK, Republish, Doing
  <2>2. Continue(Tail(todo), aim) /\ dir' \in Dirs /\ aim \in [Names -> Values]
    BY <1>0 DEF ProgressOK, Republish
  <2>3. QED
    BY <1>0, <2>1, <2>2, ContinueType
<1>3. HeldOK'
  BY <1>0 DEF Republish, HeldOK
<1>4. MemOK(mem)'
  <2> DEFINE m == [mem EXCEPT !.static = None, !.registeredUrl = mem.pendingUrl, !.pendingUrl = None,
                              !.dirty = FALSE, !.published = mem.content]
  <2>1. MemOK(m)
    BY <1>0, ValueFacts DEF MemOK, MemFields
  <2>2. QED
    BY <2>1, PublishRetainedType DEF Republish
<1>5. TurnOK'
  BY <1>0 DEF Republish, manager, TurnOK
<1>6. Requested'
  BY <1>0 DEF Republish, Requested
<1>7. Counted'
  BY <1>0 DEF Republish, bounds, Counted
<1>8. QED
  BY <1>1, <1>2, <1>3, <1>4, <1>5, <1>6, <1>7 DEF Types

LEMMA ServeTypes ==
  ASSUME Types, Serve
  PROVE  Types'
<1>0. MachineOK /\ ProgressOK /\ HeldOK /\ MemOK(mem) /\ TurnOK /\ Requested /\ Counted
  BY DEF Types
<1>a. \E e \in Endpoints, program \in {PacSteps, <<"url", "notify">>, <<"notify">>, <<>>} :
        /\ mem' = [mem EXCEPT !.content = req.pac, !.versions = Remembered(mem, req.pac), !.pac = e]
        /\ open' = open \cup {e} /\ stale' = stale \ {e}
        /\ turn' = [server |-> e, previous |-> IF req.force THEN mem.pac ELSE 0, content |-> mem.content]
        /\ Continue(program \o <<"registerPac">>, PacAim(<<"pac", e, IF req.rotate THEN 0 ELSE req.pac>>))
  <2>1. PICK e \in IF mem.pac = 0 \/ req.force THEN FreePort ELSE {mem.pac} : TRUE
    BY DEF Serve
  <2> QED
    BY <1>0 DEF Serve, FreePort, MemOK
<1>1. MachineOK'
  BY <1>0 DEF Serve, machine, MachineOK
<1>2. ProgressOK'
  <2>1. PICK e \in Endpoints, v \in {0} \cup Pacs, program \in Seq(Steps) :
                   Continue(program \o <<"registerPac">>, PacAim(<<"pac", e, v>>))
    <3>1. PICK e \in Endpoints, program \in {PacSteps, <<"url", "notify">>, <<"notify">>, <<>>} :
            Continue(program \o <<"registerPac">>, PacAim(<<"pac", e, IF req.rotate THEN 0 ELSE req.pac>>))
      BY <1>a
    <3>2. (IF req.rotate THEN 0 ELSE req.pac) \in {0} \cup Pacs
      BY <1>0 DEF Requested
    <3>3. program \in Seq(Steps)
      BY ProgramTypes, StepsAre
    <3>4. QED
      BY <3>1, <3>2, <3>3
  <2>2. program \o <<"registerPac">> \in Seq(Steps) /\ PacAim(<<"pac", e, v>>) \in [Names -> Values]
    BY ProgramTypes, StepsAre, ValueFacts, AimFacts
  <2>3. dir' \in Dirs
    BY <1>0 DEF Serve, ProgressOK
  <2>4. QED
    BY <1>0, <2>1, <2>2, <2>3, ContinueType
<1>3. HeldOK'
  BY <1>a, <1>0 DEF Serve, HeldOK
<1>4. MemOK(mem)'
  BY <1>a, <1>0 DEF MemOK, MemFields, Requested
<1>5. TurnOK'
  BY <1>a, <1>0 DEF TurnOK, MemOK
<1>6. Requested'
  BY <1>0 DEF Serve, Requested
<1>7. Counted'
  BY <1>0 DEF Serve, bounds, Counted
<1>8. QED
  BY <1>1, <1>2, <1>3, <1>4, <1>5, <1>6, <1>7 DEF Types

LEMMA RegisterPacTypes ==
  ASSUME Types, RegisterPac
  PROVE  Types'
<1>0. MachineOK /\ ProgressOK /\ HeldOK /\ MemOK(mem) /\ TurnOK /\ Requested /\ Counted
  BY DEF Types
<1>1. MachineOK'
  BY <1>0 DEF RegisterPac, machine, MachineOK
<1>2. ProgressOK'
  <2>1. todo # <<>> /\ Tail(todo) \in Seq(Steps)
    BY <1>0, TailType DEF ProgressOK, RegisterPac, Doing
  <2>2. Continue(Tail(todo), aim) /\ dir' \in Dirs /\ aim \in [Names -> Values]
    BY <1>0 DEF ProgressOK, RegisterPac
  <2>3. QED
    BY <1>0, <2>1, <2>2, ContinueType
<1>3. HeldOK'
  BY <1>0 DEF RegisterPac, HeldOK
<1>4. MemOK(mem)'
  <2> DEFINE m0 == [mem EXCEPT !.static = None, !.registeredUrl = aim.url, !.pendingUrl = None,
                               !.published = req.pac]
  <2>1. MemOK(m0)
    BY <1>0, ValueFacts DEF MemOK, MemFields
  <2>2. MemOK(AddRetained(m0, turn.previous))
    BY <2>1, AddRetainedType
  <2>3. MemOK(PublishRetained(AddRetained(m0, turn.previous), turn.server))
    BY <2>2, PublishRetainedType
  <2>4. QED
    BY <2>3, CleanType DEF RegisterPac
<1>5. TurnOK'
  BY DEF RegisterPac, TurnOK, NoTurn
<1>6. Requested'
  BY <1>0 DEF RegisterPac, Requested
<1>7. Counted'
  BY <1>0 DEF RegisterPac, bounds, Counted
<1>8. QED
  BY <1>1, <1>2, <1>3, <1>4, <1>5, <1>6, <1>7 DEF Types

LEMMA StepFailsTypes ==
  ASSUME Types, StepFails
  PROVE  Types'
<1>0. MachineOK /\ ProgressOK /\ HeldOK /\ MemOK(mem) /\ TurnOK /\ Requested /\ Counted
  BY DEF Types
<1>1. MachineOK'
  <2>1. reg.url \in Values
    BY <1>0 DEF MachineOK, Names
  <2>2. QED
    BY <1>0, <2>1 DEF StepFails, MachineOK
<1>2. ProgressOK'
  <2>1. Continue(<<>>, Blank) /\ <<>> \in Seq(Steps) /\ Blank \in [Names -> Values] /\ dir' \in Dirs
    BY <1>0, ProgramTypes, AimFacts DEF StepFails, ProgressOK
  <2>2. QED
    BY <1>0, <2>1, ContinueType
<1>3. HeldOK'
  BY <1>0 DEF StepFails, HeldOK
<1>4. MemOK(mem)'
  <2>1. MemOK(Rotated(mem))
    BY <1>0, RotatedType DEF ProgressOK
  <2>2. MemOK([mem EXCEPT !.versions = Remembered(mem, req.pac)])
    BY <1>0 DEF MemOK, MemFields
  <2>3. PICK m : MemOK(m) /\ mem' = [m EXCEPT !.dirty = @ \/ op # "recover"]
    BY <1>0, <2>1, <2>2 DEF StepFails
  <2>4. QED
    BY <2>3 DEF MemOK, MemFields
<1>5. TurnOK'
  BY DEF StepFails, TurnOK, NoTurn
<1>6. Requested'
  BY <1>0 DEF StepFails, Requested
<1>7. Counted'
  BY <1>0, WindowsSystemProxyAssumption DEF StepFails, Counted
<1>8. QED
  BY <1>1, <1>2, <1>3, <1>4, <1>5, <1>6, <1>7 DEF Types

LEMMA ProcessEndsTypes ==
  ASSUME Types, ProcessEnds
  PROVE  Types'
<1>0. MachineOK /\ ProgressOK /\ HeldOK /\ MemOK(mem) /\ TurnOK /\ Requested /\ Counted
  BY DEF Types
<1>1. MachineOK'
  BY <1>0 DEF ProcessEnds, machine, MachineOK
<1>2. ProgressOK'
  BY <1>0, ProgramTypes, AimFacts DEF ProcessEnds, ProgressOK
<1>3. HeldOK'
  <2>1. Named \subseteq Endpoints
    BY <1>0, NamedType DEF MachineOK
  <2>2. QED
    BY <2>1, AimFacts DEF ProcessEnds, HeldOK, Held, Nothing
<1>4. MemOK(mem)'
  BY ValueFacts DEF ProcessEnds, FreshMem, MemOK, MemFields
<1>5. TurnOK'
  BY DEF ProcessEnds, TurnOK, NoTurn
<1>6. Requested'
  BY DEF ProcessEnds, Requested, NoRequest
<1>7. Counted'
  BY <1>0, WindowsSystemProxyAssumption DEF ProcessEnds, Counted
<1>8. QED
  BY <1>1, <1>2, <1>3, <1>4, <1>5, <1>6, <1>7 DEF Types

LEMMA SpoilJournalTypes ==
  ASSUME Types, NEW d \in Dirs, SpoilJournal(d)
  PROVE  Types'
<1>0. MachineOK /\ ProgressOK /\ HeldOK /\ MemOK(mem) /\ TurnOK /\ Requested /\ Counted
  BY DEF Types
<1>1. MachineOK'
  <2>1. journal' \in [Dirs -> Journals]
    BY <1>0, AimFacts DEF SpoilJournal, MachineOK, Journals, Spoiled
  <2>2. lost' \in BOOLEAN
    BY <1>0 DEF SpoilJournal, MachineOK
  <2>3. QED
    BY <1>0, <2>1, <2>2 DEF SpoilJournal, MachineOK
<1>2. ProgressOK'
  BY <1>0 DEF SpoilJournal, running, ProgressOK
<1>3. HeldOK'
  BY <1>0 DEF SpoilJournal, manager, HeldOK
<1>4. MemOK(mem)'
  BY <1>0 DEF SpoilJournal, manager, MemOK
<1>5. TurnOK'
  BY <1>0 DEF SpoilJournal, manager, TurnOK
<1>6. Requested'
  BY <1>0 DEF SpoilJournal, running, Requested
<1>7. Counted'
  BY <1>0, WindowsSystemProxyAssumption DEF SpoilJournal, Counted
<1>8. QED
  BY <1>1, <1>2, <1>3, <1>4, <1>5, <1>6, <1>7 DEF Types

LEMMA StartTypes ==
  ASSUME Types, Start
  PROVE  Types'
<1>0. MachineOK /\ ProgressOK /\ HeldOK /\ MemOK(mem) /\ TurnOK /\ Requested /\ Counted
  BY DEF Types
<1>1. MachineOK'
  BY <1>0 DEF Start, machine, MachineOK
<1>2. ProgressOK'
  BY <1>0, ProgramTypes, StepsAre DEF Start, ProgressOK
<1>3. HeldOK'
  BY <1>0 DEF Start, manager, HeldOK
<1>4. MemOK(mem)'
  BY <1>0 DEF Start, manager, MemOK
<1>5. TurnOK'
  BY <1>0 DEF Start, manager, TurnOK
<1>6. Requested'
  BY <1>0 DEF Start, Requested
<1>7. Counted'
  BY <1>0 DEF Start, bounds, Counted
<1>8. QED
  BY <1>1, <1>2, <1>3, <1>4, <1>5, <1>6, <1>7 DEF Types

LEMMA SurveyTypes ==
  ASSUME Types, Survey
  PROVE  Types'
<1>0. MachineOK /\ ProgressOK /\ HeldOK /\ MemOK(mem) /\ TurnOK /\ Requested /\ Counted
  BY DEF Types
<1>1. MachineOK'
  <2>1. journal' \in [Dirs -> Journals]
    BY <1>0, AimFacts DEF Survey, MachineOK, Journals, Absent
  <2>2. reg' \in [Names -> Values]
    BY <1>0, ClearedType DEF Survey, MachineOK
  <2>3. told' \subseteq Values
    BY <1>0, <2>2 DEF Survey, MachineOK, Names
  <2>4. QED
    BY <1>0, <2>1, <2>2, <2>3 DEF Survey, MachineOK
<1>2. ProgressOK'
  <2>1. CASE Candidates = {}
    <3>1. Continue(<<>>, Blank) /\ dir' \in Dirs
      BY <1>0, <2>1 DEF Survey, ProgressOK
    <3>2. QED
      BY <1>0, <3>1, ProgramTypes, AimFacts, ContinueType
  <2>2. CASE Candidates # {}
    <3> DEFINE program == (IF Candidates # {Oldest} THEN <<"dropNewer">> ELSE <<>>) \o RestoreSteps
    <3>1. Continue(program, journal[Oldest].snap) /\ dir' = Oldest
      BY <2>2 DEF Survey
    <3>2. program \in Seq(Steps)
      BY ProgramTypes, StepsAre
    <3>3. Oldest \in Dirs /\ journal[Oldest].snap \in [Names -> Values]
      <4>1. Oldest \in Dirs
        BY <1>0, <2>2, OldestFacts DEF MachineOK
      <4>2. QED
        BY <1>0, <4>1 DEF MachineOK, Journals
    <3>4. QED
      BY <1>0, <3>1, <3>2, <3>3, ContinueType
  <2>3. QED
    BY <2>1, <2>2
<1>3. HeldOK'
  BY <1>0 DEF Survey, manager, HeldOK
<1>4. MemOK(mem)'
  BY <1>0 DEF Survey, manager, MemOK
<1>5. TurnOK'
  BY <1>0 DEF Survey, manager, TurnOK
<1>6. Requested'
  BY <1>0 DEF Survey, Requested
<1>7. Counted'
  BY <1>0 DEF Survey, bounds, Counted
<1>8. QED
  BY <1>1, <1>2, <1>3, <1>4, <1>5, <1>6, <1>7 DEF Types

LEMMA DropNewerTypes ==
  ASSUME Types, DropNewer
  PROVE  Types'
<1>0. MachineOK /\ ProgressOK /\ HeldOK /\ MemOK(mem) /\ TurnOK /\ Requested /\ Counted
  BY DEF Types
<1>1. MachineOK'
  <2>1. journal' \in [Dirs -> Journals]
    BY <1>0, AimFacts DEF DropNewer, MachineOK, Journals, Absent
  <2>2. QED
    BY <1>0, <2>1 DEF DropNewer, MachineOK
<1>2. ProgressOK'
  <2>1. todo # <<>> /\ Tail(todo) \in Seq(Steps)
    BY <1>0, TailType DEF ProgressOK, DropNewer, Doing
  <2>2. Continue(Tail(todo), aim) /\ dir' \in Dirs /\ aim \in [Names -> Values]
    BY <1>0 DEF ProgressOK, DropNewer
  <2>3. QED
    BY <1>0, <2>1, <2>2, ContinueType
<1>3. HeldOK'
  BY <1>0 DEF DropNewer, manager, HeldOK
<1>4. MemOK(mem)'
  BY <1>0 DEF DropNewer, manager, MemOK
<1>5. TurnOK'
  BY <1>0 DEF DropNewer, manager, TurnOK
<1>6. Requested'
  BY <1>0 DEF DropNewer, Requested
<1>7. Counted'
  BY <1>0 DEF DropNewer, bounds, Counted
<1>8. QED
  BY <1>1, <1>2, <1>3, <1>4, <1>5, <1>6, <1>7 DEF Types

LEMMA SessionEndingTypes ==
  ASSUME Types, SessionEnding
  PROVE  Types'
<1>0. MachineOK /\ ProgressOK /\ HeldOK /\ MemOK(mem) /\ TurnOK /\ Requested /\ Counted
  BY DEF Types
<1>1. MachineOK'
  <2>1. reg' \in [Names -> Values]
    BY <1>0, RestoredNowType DEF SessionEnding
  <2>2. QED
    BY <1>0, <2>1 DEF SessionEnding, MachineOK
<1>2. ProgressOK'
  BY <1>0 DEF SessionEnding, running, ProgressOK
<1>3. HeldOK'
  BY <1>0 DEF SessionEnding, manager, HeldOK
<1>4. MemOK(mem)'
  BY <1>0 DEF SessionEnding, manager, MemOK
<1>5. TurnOK'
  BY <1>0 DEF SessionEnding, manager, TurnOK
<1>6. Requested'
  BY <1>0 DEF SessionEnding, running, Requested
<1>7. Counted'
  BY <1>0, WindowsSystemProxyAssumption DEF SessionEnding, Counted
<1>8. QED
  BY <1>1, <1>2, <1>3, <1>4, <1>5, <1>6, <1>7 DEF Types

LEMMA QuitDeadlineTypes ==
  ASSUME Types, QuitDeadline
  PROVE  Types'
<1>0. MachineOK /\ ProgressOK /\ HeldOK /\ MemOK(mem) /\ TurnOK /\ Requested /\ Counted
  BY DEF Types
<1>1. MachineOK'
  <2>1. reg' \in [Names -> Values]
    BY <1>0, RestoredNowType, ClearedType DEF QuitDeadline
  <2>2. told' \subseteq Values
    BY <1>0, <2>1 DEF QuitDeadline, MachineOK, Names
  <2>3. QED
    BY <1>0, <2>1, <2>2 DEF QuitDeadline, MachineOK
<1>2. ProgressOK'
  BY <1>0 DEF QuitDeadline, running, ProgressOK
<1>3. HeldOK'
  BY <1>0 DEF QuitDeadline, manager, HeldOK
<1>4. MemOK(mem)'
  BY <1>0 DEF QuitDeadline, manager, MemOK
<1>5. TurnOK'
  BY <1>0 DEF QuitDeadline, manager, TurnOK
<1>6. Requested'
  BY <1>0 DEF QuitDeadline, running, Requested
<1>7. Counted'
  BY <1>0, WindowsSystemProxyAssumption DEF QuitDeadline, Counted
<1>8. QED
  BY <1>1, <1>2, <1>3, <1>4, <1>5, <1>6, <1>7 DEF Types

-----------------------------------------------------------------------------
(* Where an operation stands *)

LEMMA UndoHead ==
  ASSUME ProgressOK, NEW i \in 1..10, UndoLeft(i)
  PROVE  /\ todo # <<>> /\ Head(todo) = Undo[i]
         /\ i < 10 => Tail(todo) # <<>>
<1>1. Len(todo) \in Nat /\ Len(todo) >= 11 - i /\ todo[1] = Undo[i]
  BY DEF UndoLeft
<1>2. todo \in Seq(Steps)
  BY DEF ProgressOK
<1>3. todo # <<>> /\ Head(todo) = todo[1] /\ Len(Tail(todo)) = Len(todo) - 1
  BY <1>1, <1>2
<1>4. i < 10 => Len(Tail(todo)) > 0
  BY <1>1, <1>3
<1>5. i < 10 => Tail(todo) # <<>>
  <2>1. i < 10 => Len(Tail(todo)) # 0
    BY <1>1, <1>3, <1>4
  <2>2. QED
    BY <2>1, SomeLeft, Zenon
<1>6. QED
  BY <1>1, <1>3, <1>5

LEMMA UndoTail ==
  ASSUME ProgressOK, NEW i \in 1..9, UndoLeft(i), todo' = Tail(todo), op' = op
  PROVE  UndoLeft(i + 1)'
<1> DEFINE after == IF op = "apply" THEN 2 ELSE 0
<1>1. todo \in Seq(Steps) /\ Len(todo) = 11 - i + after /\ after \in {0, 2}
  BY DEF ProgressOK, UndoLeft
<1>2. Len(todo') = 11 - (i + 1) + after /\ \A j \in 1..(10 - i + after) : todo'[j] = todo[j + 1]
  BY <1>1
<1>3. \A j \in 1..(11 - (i + 1)) : todo'[j] = Undo[i + 1 + j - 1]
  <2> TAKE j \in 1..(11 - (i + 1))
  <2>1. j + 1 \in 1..(11 - i) /\ j \in 1..(10 - i + after)
    BY <1>1
  <2>2. todo[j + 1] = Undo[i + (j + 1) - 1] /\ i + (j + 1) - 1 = i + 1 + j - 1
    BY <2>1 DEF UndoLeft
  <2>3. QED
    BY <1>2, <2>1, <2>2
<1>4. op = "apply" => todo'[12 - (i + 1)] = "capture" /\ todo'[13 - (i + 1)] = "publish"
  BY <1>1, <1>2 DEF UndoLeft
<1>5. QED
  BY <1>2, <1>3, <1>4 DEF UndoLeft

(* The last step of an undo ends the operation, or an apply goes on to capture. *)
LEMMA UndoEnds ==
  ASSUME ProgressOK, UndoLeft(10)
  PROVE  IF op = "apply" THEN Len(Tail(todo)) = 2 /\ Tail(todo)[1] = "capture" /\ Tail(todo)[2] = "publish"
                         ELSE Tail(todo) = <<>>
<1>1. todo \in Seq(Steps) /\ Len(todo) = IF op = "apply" THEN 3 ELSE 1
  BY DEF ProgressOK, UndoLeft
<1>2. CASE op = "apply"
  <2>1. todo[2] = "capture" /\ todo[3] = "publish"
    BY <1>2 DEF UndoLeft
  <2>2. QED
    BY <1>1, <1>2, <2>1
<1>3. CASE op # "apply"
  <2>1. Tail(todo) \in Seq(Steps) /\ Len(Tail(todo)) = 0
    BY <1>1, <1>3
  <2>2. QED
    BY <1>3, <2>1, EmptySeq
<1>4. QED
  BY <1>2, <1>3

(* The undo as it begins, before an apply's capture or alone. *)
LEMMA RestoreStepsThen ==
  ASSUME NEW rest \in Seq(Steps)
  PROVE  /\ Len(RestoreSteps \o rest) = 9 + Len(rest)
         /\ \A j \in 1..9 : (RestoreSteps \o rest)[j] = Undo[2 + j - 1]
         /\ \A j \in 1..Len(rest) : (RestoreSteps \o rest)[9 + j] = rest[j]
<1>1. RestoreSteps \in Seq(Steps) /\ Len(RestoreSteps) = 9 /\ Len(rest) \in Nat
  BY ProgramTypes DEF RestoreSteps
<1>2. /\ Len(RestoreSteps \o rest) = Len(RestoreSteps) + Len(rest)
      /\ \A j \in 1..(Len(RestoreSteps) + Len(rest)) : (RestoreSteps \o rest)[j]
            = IF j <= Len(RestoreSteps) THEN RestoreSteps[j] ELSE rest[j - Len(RestoreSteps)]
  BY <1>1, ConcatProperties
<1>3. ASSUME NEW j \in 1..9 PROVE RestoreSteps[j] = Undo[2 + j - 1]
  BY DEF RestoreSteps, Undo
<1>4. ASSUME NEW j \in 1..9 PROVE (RestoreSteps \o rest)[j] = RestoreSteps[j]
  BY <1>1, <1>2
<1>5. ASSUME NEW j \in 1..Len(rest) PROVE (RestoreSteps \o rest)[9 + j] = rest[j]
  BY <1>1, <1>2
<1>6. QED
  BY <1>1, <1>2, <1>3, <1>4, <1>5

LEMMA UndoBegins ==
  ASSUME NEW rest \in Seq(Steps), todo' = RestoreSteps \o rest,
         op' = "apply" => Len(rest) = 2 /\ rest[1] = "capture" /\ rest[2] = "publish",
         op' # "apply" => Len(rest) = 0
  PROVE  UndoLeft(2)'
<1>1. /\ Len(todo') = 9 + Len(rest)
      /\ \A j \in 1..9 : todo'[j] = Undo[2 + j - 1]
      /\ \A j \in 1..Len(rest) : todo'[9 + j] = rest[j]
  BY RestoreStepsThen
<1>2. CASE op' = "apply"
  <2>a. Len(rest) = 2
    BY <1>2, Zenon
  <2>b. 1 \in 1..Len(rest) /\ 2 \in 1..Len(rest)
    BY <2>a
  <2>c. Len(todo') = 9 + Len(rest)
    BY <1>1, Zenon
  <2>1. Len(todo') = 11 /\ 1 \in 1..Len(rest) /\ 2 \in 1..Len(rest)
    BY <2>a, <2>b, <2>c
  <2>2. todo'[10] = "capture" /\ todo'[11] = "publish"
    BY <1>1, <1>2, <2>1
  <2>3. QED
    BY <1>1, <1>2, <2>1, <2>2 DEF UndoLeft
<1>3. CASE op' # "apply"
  <2>1. Len(rest) = 0
    BY <1>3, Zenon
  <2>2. Len(todo') = 9
    BY <1>1, <2>1
  <2>3. \A j \in 1..(11 - 2) : todo'[j] = Undo[2 + j - 1]
    BY <1>1
  <2>4. Len(todo') = 11 - 2 + (IF op' = "apply" THEN 2 ELSE 0)
    BY <1>3, <2>2
  <2>5. QED
    BY <1>3, <2>3, <2>4 DEF UndoLeft
<1>4. QED
  BY <1>2, <1>3

(* What the next step says of where the operation stands. *)
LEMMA NextStep ==
  ASSUME ProgressOK, Living, Running, NEW s, Doing(s)
  PROVE  /\ op # "none"
         /\ \/ /\ s \in PublishSteps /\ Publishing
            \/ s = "survey" /\ Surveying
            \/ s = "lookup" /\ Looking
            \/ s = "capture" /\ Capturing
            \/ s = "persist" /\ Persisting
            \/ \E i \in 1..10 : Undo[i] = s /\ Undoing(i)
<1>1. todo \in Seq(Steps) /\ todo # <<>> /\ Head(todo) = s /\ s = todo[1] /\ 1 \in 1..Len(todo)
  BY DEF ProgressOK, Doing
<1>2. op # "none"
  BY <1>1 DEF Living
<1>3. CASE Publishing
  BY <1>1, <1>2, <1>3 DEF Publishing
<1>4. CASE Surveying
  BY <1>1, <1>2, <1>4 DEF Surveying
<1>5. CASE Looking
  BY <1>1, <1>2, <1>5 DEF Looking
<1>6. CASE Capturing
  BY <1>1, <1>2, <1>6 DEF Capturing
<1>7. CASE Persisting
  BY <1>1, <1>2, <1>7 DEF Persisting
<1>8. ASSUME NEW i \in 1..10, Undoing(i)
      PROVE  Undo[i] = s /\ Undoing(i)
  BY <1>1, <1>8, UndoHead DEF Undoing
<1>9. QED
  BY <1>2, <1>3, <1>4, <1>5, <1>6, <1>7, <1>8 DEF Running

LEMMA LivingContinue ==
  ASSUME Living, op # "none", NEW rest, NEW values, Continue(rest, values),
         op = "recover" => ~held'.some, op \in {"restore", "apply"} => dir' = dir
  PROVE  Living'
BY DEF Living, Continue

(* An operation that goes on undoing, or publishing. *)
LEMMA UndoGoesOn ==
  ASSUME ProgressOK, Living, NEW i \in 1..9, Undoing(i), Continue(Tail(todo), aim), dir' = dir,
         op = "recover" => ~held'.some, Undone(i + 1)'
  PROVE  Living' /\ Running' /\ op' = op /\ life' = life
<1>1. op # "none" /\ Tail(todo) # <<>>
  BY UndoHead DEF Undoing
<1>2. Living'
  BY <1>1, LivingContinue
<1>3. todo' = Tail(todo) /\ op' = op /\ life' = life
  BY <1>1 DEF Continue
<1>4. UndoLeft(i + 1)'
  BY <1>3, UndoTail DEF Undoing
<1>5. Undoing(i + 1)' /\ i + 1 \in 1..10
  BY <1>1, <1>3, <1>4 DEF Undoing
<1>6. QED
  BY <1>2, <1>3, <1>5 DEF Running

LEMMA PublishGoesOn ==
  ASSUME ProgressOK, Living, Publishing, NEW rest \in Seq(PublishSteps), NEW values,
         Continue(rest, values),
         dir' = dir, held' = held
  PROVE  Living' /\ Running'
<1>1. op = "apply" /\ held.some
  BY DEF Publishing
<1>2. Living'
  BY <1>1, LivingContinue
<1>3. CASE rest = <<>>
  BY <1>2, <1>3 DEF Continue, Running
<1>4. CASE rest # <<>>
  <2>1. todo' = rest /\ op' = op
    BY <1>4 DEF Continue
  <2>2. Publishing'
    BY <1>1, <1>4, <2>1 DEF Publishing
  <2>3. QED
    BY <1>2, <2>2 DEF Running
<1>5. QED
  BY <1>3, <1>4

LEMMA PublishTail ==
  ASSUME ProgressOK, Publishing
  PROVE  Tail(todo) \in Seq(PublishSteps)
<1>1. todo \in Seq(PublishSteps) /\ todo # <<>>
  BY DEF ProgressOK, Publishing
<1>2. QED
  BY <1>1

-----------------------------------------------------------------------------
(* The invariant, one step at a time *)

LEMMA UndoDistinct ==
  /\ \A i, j \in 1..10 : Undo[i] = Undo[j] => i = j
  /\ \A n \in Names : Place[n] \in 2..7 /\ Undo[Place[n]] = n
  /\ Undo[1] = "dropNewer" /\ Undo[6] = "forget" /\ Undo[8] = "notify"
  /\ Undo[9] = "stop" /\ Undo[10] = "rmJournal"
<1>1. \A i, j \in 1..10 : Undo[i] = Undo[j] => i = j
  <2>1. \A i \in 1..10 : i = 1 \/ i = 2 \/ i = 3 \/ i = 4 \/ i = 5 \/ i = 6 \/ i = 7 \/ i = 8 \/ i = 9 \/ i = 10
    OBVIOUS
  <2>2. /\ Undo[1] = "dropNewer" /\ Undo[2] = "enable" /\ Undo[3] = "server" /\ Undo[4] = "override"
        /\ Undo[5] = "url" /\ Undo[6] = "forget" /\ Undo[7] = "detect" /\ Undo[8] = "notify"
        /\ Undo[9] = "stop" /\ Undo[10] = "rmJournal"
    BY DEF Undo
  <2>3. QED
    BY <2>1, <2>2
<1>2. QED
  BY <1>1 DEF Undo, Place, Names

(* While something decisive is put back, it is what the user had. *)
LEMMA DecisiveIsTheirs ==
  ASSUME Types, Kept, NEW i \in 1..10, Undoing(i), Decisive
  PROVE  aim = user
<1>1. Candidates # {} /\ Oldest = dir
  BY OldestFacts DEF Types, MachineOK, ProgressOK, Undoing, Undone, Decisive
<1>2. journal[dir].snap = user
  BY <1>1 DEF Kept, Decisive
<1>3. QED
  BY <1>2 DEF Undoing, Undone

LEMMA NothingHeldIsClean ==
  ASSUME held' = Nothing
  PROVE  Holding'
BY DEF Holding, Nothing

LEMMA SameJournals ==
  ASSUME UNCHANGED <<journal, legacyFirst, held>>, Holding
  PROVE  /\ Holding' /\ Candidates' = Candidates /\ Oldest' = Oldest
         /\ \A d : HasJournal(d)' <=> HasJournal(d)
<1>1. Holding' /\ \A d : HasJournal(d)' <=> HasJournal(d)
  BY DEF Holding, HasJournal, NotShadows
<1>2. Candidates' = Candidates /\ Oldest' = Oldest
  BY DEF Candidates, Oldest
<1>3. QED
  BY <1>1, <1>2

Good == Kept /\ Holding /\ Living /\ Running

LEMMA WriteValueStep ==
  ASSUME IInv, NEW n \in Names, WriteValue(n)
  PROVE  Good'
<1>0. /\ Types /\ ProgressOK /\ Kept /\ Holding /\ Living /\ Running
      /\ Doing(n) /\ Continue(Tail(todo), aim) /\ reg' = [reg EXCEPT ![n] = aim[n]]
      /\ UNCHANGED <<journal, legacyFirst, lost, outlived, dir, held>>
  BY DEF IInv, Types, WriteValue
<1>1. /\ Holding' /\ Candidates' = Candidates /\ Oldest' = Oldest
      /\ \A d : HasJournal(d)' <=> HasJournal(d)
  BY <1>0, SameJournals
<1>2. reg \in [Names -> Values]
  BY <1>0 DEF Types, MachineOK
<1>3. CASE Publishing
  <2>0. Candidates # {}
    <3>1. HasJournal("routing")
      BY <1>0, <1>3 DEF Publishing, Holding
    <3>2. QED
      BY <1>0, <3>1, OldestFacts DEF Types, MachineOK, Dirs
  <2>1. Kept'
    BY <1>0, <1>1, <2>0 DEF Kept
  <2>2. Living' /\ Running'
    BY <1>0, <1>3, PublishGoesOn, PublishTail
  <2>3. QED
    BY <1>1, <2>1, <2>2 DEF Good
<1>4. ASSUME NEW i \in 1..10, Undo[i] = n, Undoing(i)
      PROVE  Good'
  <2>1. i = Place[n] /\ i \in 2..7
    BY <1>4, UndoDistinct
  <2>0. Candidates # {}
    BY <1>0, <1>4, OldestFacts DEF Undoing, Undone, Types, MachineOK, ProgressOK
  <2>2. Kept'
    BY <1>0, <1>1, <2>0 DEF Kept
  <2>3. op = "recover" => ~held'.some
    BY <1>0 DEF Living
  <2>4. op # "none" /\ Tail(todo) # <<>>
    BY <1>0, <1>4, <2>1, UndoHead DEF Undoing
  <2>5. aim' = aim /\ op' = op
    BY <1>0, <2>4 DEF Continue
  <2>6. Decisive' <=> Decisive
    BY <1>0, <1>1 DEF Decisive
  <2>7. ASSUME Decisive, NEW m \in Names, Place[m] < i + 1
        PROVE  reg'[m] = user[m]
    <3>1. aim = user
      BY <1>0, <1>4, <2>7, DecisiveIsTheirs
    <3>2. CASE m = n
      BY <1>0, <1>2, <3>1, <3>2
    <3>3. CASE m # n
      <4>1. Place[m] # Place[n] /\ Place[m] \in 2..7
        BY <3>3, UndoDistinct
      <4>2. Place[m] < i
        BY <2>1, <2>7, <4>1
      <4>3. reg[m] = user[m]
        BY <1>4, <2>7, <4>2 DEF Undoing, Undone
      <4>4. QED
        BY <1>0, <1>2, <3>3, <4>3
    <3>4. QED
      BY <3>2, <3>3
  <2>8. Undone(i + 1)'
    BY <1>0, <1>1, <1>4, <2>1, <2>5, <2>6, <2>7 DEF Undoing, Undone
  <2>9. Living' /\ Running'
    BY <1>0, <1>4, <2>1, <2>3, <2>8, UndoGoesOn
  <2>10. QED
    BY <1>1, <2>2, <2>9 DEF Good
<1>5. QED
  <2>1. n \notin {"survey", "lookup", "capture", "persist"}
    BY DEF Names
  <2>2. QED
    BY <1>0, <1>3, <1>4, <2>1, NextStep

(* A step that touches neither the registry nor a journal, and holds what was held. *)
LEMMA PlainStep ==
  ASSUME IInv, NEW s \in {"forget", "notify"}, Doing(s), Continue(Tail(todo), aim),
         UNCHANGED <<reg, journal, legacyFirst, lost, outlived, dir, held>>
  PROVE  Good'
<1>0. Types /\ ProgressOK /\ Kept /\ Holding /\ Living /\ Running
  BY DEF IInv, Types
<1>1. /\ Holding' /\ Candidates' = Candidates /\ Oldest' = Oldest
      /\ \A d : HasJournal(d)' <=> HasJournal(d)
  BY <1>0, SameJournals
<1>2. Kept'
  BY <1>0, <1>1 DEF Kept
<1>3. CASE Publishing
  BY <1>0, <1>1, <1>2, <1>3, PublishGoesOn, PublishTail DEF Good
<1>4. ASSUME NEW i \in 1..10, Undo[i] = s, Undoing(i)
      PROVE  Good'
  <2>1. i \in {6, 8}
    BY <1>4, UndoDistinct
  <2>2. op # "none" /\ Tail(todo) # <<>>
    BY <1>0, <1>4, <2>1, UndoHead DEF Undoing
  <2>3. aim' = aim /\ op' = op
    BY <1>0, <2>2 DEF Continue
  <2>4. op = "recover" => ~held'.some
    BY <1>0 DEF Living
  <2>5. \A m \in Names : Place[m] < i + 1 => Place[m] < i
    <3> TAKE m \in Names
    <3>1. Undo[Place[m]] = m /\ m # s /\ Place[m] \in 2..7
      BY UndoDistinct DEF Names
    <3>2. Place[m] # i
      BY <1>4, <3>1
    <3>3. QED
      BY <2>1, <3>1, <3>2
  <2>6. Undone(i + 1)'
    BY <1>1, <1>4, <2>1, <2>3, <2>5 DEF Undoing, Undone, Decisive
  <2>7. Living' /\ Running'
    BY <1>0, <1>4, <2>1, <2>4, <2>6, UndoGoesOn
  <2>8. QED
    BY <1>1, <1>2, <2>7 DEF Good
<1>5. QED
  BY <1>0, <1>3, <1>4, NextStep

LEMMA StopPacStep ==
  ASSUME IInv, StopPac
  PROVE  Good'
<1>0. /\ Types /\ ProgressOK /\ Kept /\ Holding /\ Living /\ Running
      /\ Doing("stop") /\ Continue(Tail(todo), aim) /\ held' = Nothing
      /\ UNCHANGED <<reg, journal, legacyFirst, lost, outlived, dir>>
  BY DEF IInv, Types, StopPac, machine
<1>1. /\ Holding' /\ Candidates' = Candidates /\ Oldest' = Oldest
      /\ \A d : HasJournal(d)' <=> HasJournal(d)
  <2>1. Candidates' = Candidates
    BY <1>0 DEF Candidates
  <2>2. Oldest' = Oldest
    BY <1>0, <2>1 DEF Oldest
  <2>3. QED
    BY <1>0, <2>1, <2>2, NothingHeldIsClean DEF HasJournal
<1>2. Kept'
  BY <1>0, <1>1 DEF Kept
<1>3. PICK i \in 1..10 : Undo[i] = "stop" /\ Undoing(i)
  <2>1. "stop" \notin PublishSteps \cup {"survey", "lookup", "capture", "persist"}
    BY DEF PublishSteps
  <2>2. QED
    BY <1>0, <2>1, NextStep
<1>4. i = 9
  BY <1>3, UndoDistinct
<1>5. op # "none" /\ Tail(todo) # <<>>
  BY <1>0, <1>3, <1>4, UndoHead DEF Undoing
<1>6. aim' = aim /\ op' = op /\ ~held'.some
  BY <1>0, <1>5 DEF Continue, Nothing
<1>7. \A m \in Names : Place[m] < i
  BY <1>4, UndoDistinct
<1>8. Undone(i + 1)'
  BY <1>0, <1>1, <1>3, <1>4, <1>6, <1>7 DEF Undoing, Undone, Decisive
<1>9. Living' /\ Running'
  BY <1>0, <1>3, <1>4, <1>6, <1>8, UndoGoesOn
<1>10. QED
  BY <1>1, <1>2, <1>9 DEF Good

(* What is written has been written when the journal goes. *)
LEMMA UndoneIsTheirs ==
  ASSUME Types, Undoing(10), Decisive
  PROVE  reg = user
<1>1. \A n \in Names : reg[n] = user[n]
  BY UndoDistinct DEF Undoing, Undone
<1>2. reg = [n \in Names |-> reg[n]] /\ user = [n \in Names |-> user[n]]
  BY AimFacts DEF Types, MachineOK
<1>3. QED
  BY <1>1, <1>2

LEMMA AtJournal ==
  ASSUME IInv, Doing("rmJournal")
  PROVE  Undoing(10)
<1>1. Types /\ ProgressOK /\ Kept /\ Holding /\ Living /\ Running
  BY DEF IInv, Types
<1>2. "rmJournal" \notin PublishSteps \cup {"survey", "lookup", "capture", "persist"}
  BY DEF PublishSteps
<1>3. PICK i \in 1..10 : Undo[i] = "rmJournal" /\ Undoing(i)
  BY <1>1, <1>2, NextStep
<1>4. i = 10
  BY <1>3, UndoDistinct
<1>5. QED
  BY <1>3, <1>4

LEMMA RmJournalStep ==
  ASSUME IInv, RmJournal
  PROVE  Good'
<1>0. /\ Types /\ ProgressOK /\ Kept /\ Holding /\ Living /\ Running
      /\ Continue(Tail(todo), aim) /\ journal' = [journal EXCEPT ![dir] = Absent]
      /\ UNCHANGED <<reg, legacyFirst, lost, dir, held>>
  BY DEF IInv, Types, RmJournal
<1>1. Undoing(10)
  BY AtJournal DEF RmJournal
<1>2. journal \in [Dirs -> Journals] /\ dir \in Dirs
  BY <1>0 DEF Types, MachineOK, ProgressOK
<1>3. ~HasJournal(dir)' /\ \A d \in Dirs : d # dir => journal'[d] = journal[d]
  BY <1>0, <1>2 DEF HasJournal, Absent
<1>4. Holding'
  BY <1>0, <1>1 DEF Holding, Undoing, Undone
<1>a. /\ \A d \in Dirs : d \in Candidates <=> HasJournal(d)
      /\ Candidates \subseteq Dirs
      /\ Candidates # {} => Oldest \in Candidates
  BY <1>0, OldestFacts DEF Types, MachineOK
<1>b. /\ \A d \in Dirs : d \in Candidates' <=> HasJournal(d)'
      /\ Candidates' \subseteq Dirs
      /\ Candidates' # {} => Oldest' \in Candidates'
  BY <1>0, RmJournalTypes, OldestFactsNext DEF Types, MachineOK
<1>c. HasJournal(dir) /\ Candidates' = Candidates \ {dir}
  <2>1. HasJournal(dir)
    BY <1>1 DEF Undoing, Undone
  <2>2. \A d \in Dirs : d # dir => (HasJournal(d)' <=> HasJournal(d))
    BY <1>3 DEF HasJournal
  <2>3. \A d : d \in Candidates' <=> d \in Candidates \ {dir}
    <3>1. ASSUME NEW d \in Dirs
          PROVE  d \in Candidates' <=> (d \in Candidates /\ d # dir)
      <4>1. d \in Candidates' <=> HasJournal(d)'
        BY <1>b
      <4>2. d \in Candidates <=> HasJournal(d)
        BY <1>a
      <4>3. CASE d = dir
        BY <1>0, <1>3, <4>1, <4>3 DEF HasJournal
      <4>4. CASE d # dir
        BY <2>2, <4>1, <4>2, <4>4
      <4>5. QED
        BY <4>3, <4>4
    <3>2. QED
      BY <1>a, <1>b, <3>1
  <2>4. QED
    BY <2>1, <2>3
<1>5. Kept'
  <2>0. ~outlived' => ~outlived /\ ~(dir = Oldest /\ Candidates # {dir})
    BY DEF RmJournal
  <2> SUFFICES ASSUME ~lost, ~outlived, ~(dir = Oldest /\ Candidates # {dir})
               PROVE  IF Candidates' = {} THEN reg' = user ELSE journal'[Oldest'].snap = user
    BY <1>0, <2>0 DEF Kept
  <2>1. CASE Candidates = {dir}
    <3>1. Oldest = dir
      BY <1>a, <2>1
    <3>2. reg = user
      BY <1>0, <1>1, <3>1, UndoneIsTheirs DEF Decisive
    <3>3. QED
      BY <1>0, <1>c, <2>1, <3>2
  <2>2. CASE Candidates # {dir}
    <3>1. Oldest # dir /\ Oldest \in Candidates
      BY <1>2, <1>a, <1>c, <2>2
    <3>2. Candidates' = {Oldest}
      <4>1. \A d \in Dirs : d # dir => d = Oldest
        BY <1>2, <1>a, <3>1 DEF Dirs
      <4>2. \A d : d \in Candidates' <=> d = Oldest
        BY <1>a, <1>c, <3>1, <4>1
      <4>3. QED
        BY <4>2
    <3>3. Oldest' = Oldest /\ Oldest \in Dirs
      BY <1>a, <1>b, <3>1, <3>2
    <3>4. journal'[Oldest'].snap = user
      BY <1>0, <1>3, <3>1, <3>3 DEF Kept
    <3>5. QED
      BY <3>2, <3>4
  <2>3. QED
    BY <2>1, <2>2
<1>6. op # "none" /\ ~held'.some
  BY <1>0, <1>1 DEF Undoing, Undone
<1>7. Living'
  BY <1>0, <1>6, LivingContinue
<1>8. Running'
  <2>1. CASE op = "apply"
    <3>1. Len(Tail(todo)) = 2 /\ Tail(todo)[1] = "capture" /\ Tail(todo)[2] = "publish"
      BY <1>0, <1>1, <2>1, UndoEnds DEF Undoing
    <3>2. Tail(todo) # <<>>
      <4>1. Len(Tail(todo)) # 0
        BY <3>1
      <4>2. QED
        BY <4>1, SomeLeft, Zenon
    <3>3. todo' = Tail(todo) /\ op' = op
      BY <1>0, <3>2 DEF Continue
    <3>4. ~HasJournal("routing")'
      BY <1>0, <1>3, <2>1 DEF Living
    <3>5. QED
      BY <2>1, <3>1, <3>3, <3>4 DEF Running, Capturing
  <2>2. CASE op # "apply"
    <3>1. Tail(todo) = <<>>
      BY <1>0, <1>1, <2>2, UndoEnds DEF Undoing
    <3>2. QED
      BY <1>0, <3>1 DEF Continue, Running
  <2>3. QED
    BY <2>1, <2>2
<1>9. QED
  BY <1>4, <1>5, <1>7, <1>8 DEF Good

LEMMA LookupStep ==
  ASSUME IInv, Lookup
  PROVE  Good'
<1>0. /\ Types /\ ProgressOK /\ Kept /\ Holding /\ Living /\ Running
      /\ Doing("lookup") /\ UNCHANGED <<reg, legacyFirst, lost, outlived, dir, held>>
  BY DEF IInv, Types, Lookup
<1>1. Looking /\ op \in {"restore", "apply"} /\ dir = "routing"
  <2>1. "lookup" \notin PublishSteps \cup {"survey", "capture", "persist"}
    BY DEF PublishSteps
  <2>2. \A i \in 1..10 : Undo[i] # "lookup"
    BY DEF Undo
  <2>3. Looking
    BY <1>0, <2>1, <2>2, NextStep
  <2>4. QED
    BY <1>0, <2>3 DEF Looking, Living
<1>2. journal \in [Dirs -> Journals] /\ todo \in Seq(Steps) /\ todo # <<>>
  BY <1>0 DEF Types, MachineOK, ProgressOK, Doing
<1>3. /\ Tail(todo) \in Seq(Steps)
      /\ op = "apply" => Len(Tail(todo)) = 2 /\ Tail(todo)[1] = "capture" /\ Tail(todo)[2] = "publish"
      /\ op = "restore" => Len(Tail(todo)) = 0
  BY <1>1, <1>2 DEF Looking
<1> DEFINE back == IF held.some THEN op = "restore" ELSE journal["routing"].state = "usable"
           snap == IF held.some THEN held.snap ELSE journal["routing"].snap
<1>4. CASE back
  <2>1. Continue(RestoreSteps \o Tail(todo), snap) /\ journal' = journal
    BY <1>4 DEF Lookup
  <2>2. Len(RestoreSteps \o Tail(todo)) = 9 + Len(Tail(todo)) /\ Len(Tail(todo)) \in Nat
    BY <1>3, RestoreStepsThen
  <2>3. RestoreSteps \o Tail(todo) # <<>>
    <3>1. Len(RestoreSteps \o Tail(todo)) # 0
      BY <2>2
    <3>2. QED
      BY <3>1, SomeLeft, Zenon
  <2>4. todo' = RestoreSteps \o Tail(todo) /\ aim' = snap /\ op' = op
    BY <2>1, <2>3 DEF Continue
  <2>5. /\ Holding' /\ Candidates' = Candidates /\ Oldest' = Oldest
        /\ \A d : HasJournal(d)' <=> HasJournal(d)
    BY <1>0, <2>1, SameJournals
  <2>6. Kept'
    BY <1>0, <2>1, <2>5 DEF Kept
  <2>7. Living'
    BY <1>0, <1>1, <2>1, LivingContinue
  <2>8. UndoLeft(2)'
    BY <1>1, <1>3, <2>4, UndoBegins
  <2>9. HasJournal("routing") /\ snap = journal["routing"].snap
    BY <1>0, <1>4 DEF Holding, HasJournal
  <2>10. Undone(2)'
    <3>1. \A n \in Names : ~(Place[n] < 2)
      BY UndoDistinct
    <3>2. QED
      BY <1>0, <1>1, <2>1, <2>4, <2>5, <2>9, <3>1 DEF Undone
  <2>11. Undoing(2)'
    BY <1>1, <2>4, <2>8, <2>10 DEF Undoing
  <2>12. QED
    BY <2>5, <2>6, <2>7, <2>11 DEF Good, Running
<1>5. CASE ~back
  <2>1. /\ Continue(Tail(todo), aim)
        /\ journal' = [journal EXCEPT !["routing"] = IF held.some THEN @ ELSE Absent]
    BY <1>5 DEF Lookup
  <2>2. \A d : HasJournal(d)' <=> HasJournal(d)
    BY <1>2, <1>5, <2>1 DEF HasJournal, Dirs, Absent
  <2>3. /\ \A d \in Dirs : journal'[d].state # "spoiled" \/ journal'[d] = journal[d]
        /\ \A d \in Dirs : HasJournal(d) => journal'[d] = journal[d]
    BY <1>2, <1>5, <2>1 DEF HasJournal, Dirs, Absent
  <2>a. journal' \in [Dirs -> Journals] /\ legacyFirst' = legacyFirst
    BY <1>0, LookupTypes DEF Types, MachineOK
  <2>b. Candidates' = Candidates /\ Oldest' = Oldest
    BY <1>2, <2>2, <2>a, SameOldest
  <2>4. Kept'
    <3>1. Candidates # {} => journal'[Oldest] = journal[Oldest]
      BY <1>0, <1>2, <2>3, OldestFacts DEF Types, MachineOK
    <3>2. QED
      BY <1>0, <2>b, <3>1 DEF Kept
  <2>5. Holding'
    BY <1>0, <2>2, <2>3 DEF Holding, Dirs
  <2>6. Living'
    BY <1>0, <1>1, <2>1, LivingContinue
  <2>7. Running'
    <3>1. CASE op = "restore"
      <4>1. Tail(todo) = <<>>
        BY <1>3, <3>1, EmptySeq
      <4>2. QED
        BY <2>1, <4>1 DEF Continue, Running
    <3>2. CASE op = "apply"
      <4>0. Len(Tail(todo)) = 2 /\ 2 # 0
        BY <1>3, <3>2
      <4>1. Tail(todo) # <<>>
        BY <4>0, SomeLeft, Zenon
      <4>2. todo' = Tail(todo) /\ op' = op
        BY <2>1, <4>1 DEF Continue
      <4>3. held'.some \/ ~HasJournal("routing")'
        BY <1>0, <1>5, <2>2 DEF HasJournal
      <4>4. QED
        BY <1>3, <3>2, <4>2, <4>3 DEF Running, Capturing
    <3>3. QED
      BY <1>1, <3>1, <3>2
  <2>8. QED
    BY <2>4, <2>5, <2>6, <2>7 DEF Good
<1>6. QED
  BY <1>4, <1>5

(* Before a step that is followed by the publication. *)
LEMMA PublishIsLeft ==
  ASSUME todo \in Seq(Steps), Len(todo) = 2, todo[2] = "publish"
  PROVE  /\ Tail(todo) # <<>> /\ Len(Tail(todo)) = 1 /\ Tail(todo)[1] = "publish"
         /\ LET program == <<"persist">> \o Tail(todo)
            IN program # <<>> /\ Len(program) = 2 /\ program[1] = "persist" /\ program[2] = "publish"
<1>1. todo # <<>>
  BY EmptySeq
<1>2. Tail(todo) \in Seq(Steps) /\ Len(Tail(todo)) = 1 /\ Tail(todo)[1] = todo[1 + 1]
  BY <1>1, HeadTailProperties
<1>3. Tail(todo) # <<>>
  <2>1. Len(Tail(todo)) # 0
    BY <1>2
  <2>2. QED
    BY <2>1, SomeLeft, Zenon
<1>4. <<"persist">> \in Seq(Steps) /\ Len(<<"persist">>) = 1
  BY StepsAre
<1> DEFINE program == <<"persist">> \o Tail(todo)
<1>5. /\ Len(program) = 1 + 1
      /\ \A i \in 1..(1 + 1) : program[i] = IF i <= 1 THEN <<"persist">>[i] ELSE Tail(todo)[i - 1]
  BY <1>2, <1>4, ConcatProperties
<1>6. program[1] = "persist" /\ program[2] = Tail(todo)[1]
  BY <1>5
<1>7. program # <<>>
  <2>1. Len(program) # 0
    BY <1>5
  <2>2. QED
    BY <2>1, SomeLeft, Zenon
<1>8. QED
  BY <1>2, <1>3, <1>5, <1>6, <1>7

LEMMA CaptureStep ==
  ASSUME IInv, Capture
  PROVE  Good'
<1>0. /\ Types /\ ProgressOK /\ Kept /\ Holding /\ Living /\ Running
      /\ Doing("capture") /\ UNCHANGED <<reg, journal, legacyFirst, lost, outlived, dir, held>>
  BY DEF IInv, Types, Capture, machine, manager
<1>1. Capturing
  <2>1. "capture" \notin PublishSteps \cup {"survey", "lookup", "persist"}
    BY DEF PublishSteps
  <2>2. \A i \in 1..10 : Undo[i] # "capture"
    BY DEF Undo
  <2>3. QED
    BY <1>0, <2>1, <2>2, NextStep
<1>2. op = "apply" /\ todo \in Seq(Steps) /\ Len(todo) = 2 /\ todo[2] = "publish"
  BY <1>0, <1>1 DEF Capturing, ProgressOK
<1>3. Tail(todo) # <<>> /\ Len(Tail(todo)) = 1 /\ Tail(todo)[1] = "publish"
  BY <1>2, PublishIsLeft
<1>4. /\ Holding' /\ Candidates' = Candidates /\ Oldest' = Oldest
      /\ \A d : HasJournal(d)' <=> HasJournal(d)
  BY <1>0, SameJournals
<1>5. Kept'
  BY <1>0, <1>4 DEF Kept
<1>6. CASE held.some
  <2>1. Continue(Tail(todo), aim)
    BY <1>6 DEF Capture
  <2>2. Living'
    BY <1>0, <1>2, <2>1, LivingContinue
  <2>3. todo' = Tail(todo) /\ op' = op
    BY <1>3, <2>1 DEF Continue
  <2>4. Publishing'
    BY <1>0, <1>2, <1>3, <1>6, <2>3 DEF Publishing, PublishSteps
  <2>5. QED
    BY <1>4, <1>5, <2>2, <2>4 DEF Good, Running
<1>7. CASE ~held.some
  <2> DEFINE program == <<"persist">> \o Tail(todo)
  <2>1. Continue(program, WithoutAppOwned(reg, req.port))
    BY <1>7 DEF Capture
  <2>2. program # <<>> /\ Len(program) = 2 /\ program[1] = "persist" /\ program[2] = "publish"
    BY <1>2, PublishIsLeft
  <2>3. Living'
    BY <1>0, <1>2, <2>1, LivingContinue
  <2>4. todo' = program /\ op' = op /\ aim' = WithoutAppOwned(reg, req.port)
    BY <2>1, <2>2 DEF Continue
  <2>5. NotShadows(aim)' /\ ~HasJournal("routing")'
    <3>1. ~IsShadowPac(aim'.url) /\ ~IsShadowStatic(aim'.server, aim'.override)
      BY <1>0, <2>4, CapturedIsClean DEF Types, MachineOK
    <3>2. QED
      BY <1>1, <1>4, <1>7, <3>1 DEF NotShadows, Capturing
  <2>6. ~lost' /\ ~outlived' /\ ~HasJournal("xray")' => aim' = user
    <3>1. SUFFICES ASSUME ~lost, ~outlived, ~HasJournal("xray") PROVE aim' = user
      BY <1>0, <1>4
    <3>2. reg = user
      <4>1. Candidates = {}
        BY <1>0, <1>1, <1>7, <3>1, OldestFacts DEF Capturing, Types, MachineOK, Dirs
      <4>2. QED
        BY <1>0, <3>1, <4>1 DEF Kept
    <3>3. QED
      BY <2>4, <3>2, UserIsNotShadows
  <2>7. Persisting'
    BY <1>2, <2>2, <2>4, <2>5, <2>6 DEF Persisting
  <2>8. QED
    BY <1>4, <1>5, <2>3, <2>7 DEF Good, Running
<1>8. QED
  BY <1>6, <1>7

LEMMA PersistStep ==
  ASSUME IInv, Persist
  PROVE  Good'
<1>0. /\ Types /\ ProgressOK /\ Kept /\ Holding /\ Living /\ Running
      /\ Doing("persist") /\ Continue(Tail(todo), aim) /\ held' = Some(aim)
      /\ journal' = [journal EXCEPT !["routing"] = Usable(aim)]
      /\ UNCHANGED <<reg, lost, outlived, dir>> /\ legacyFirst' = TRUE
  BY DEF IInv, Types, Persist
<1>1. Persisting
  <2>1. "persist" \notin PublishSteps \cup {"survey", "lookup", "capture"}
    BY DEF PublishSteps
  <2>2. \A i \in 1..10 : Undo[i] # "persist"
    BY DEF Undo
  <2>3. QED
    BY <1>0, <2>1, <2>2, NextStep
<1>2. op = "apply" /\ todo \in Seq(Steps) /\ Len(todo) = 2 /\ todo[2] = "publish"
  BY <1>0, <1>1 DEF Persisting, ProgressOK
<1>3. Tail(todo) # <<>> /\ Len(Tail(todo)) = 1 /\ Tail(todo)[1] = "publish"
  BY <1>2, PublishIsLeft
<1>4. /\ HasJournal("routing")' /\ journal'["routing"].snap = aim
      /\ journal'["xray"] = journal["xray"]
      /\ journal'["routing"].state = "usable"
  BY <1>0 DEF Types, MachineOK, Dirs, HasJournal, Usable
<1>5. Kept'
  <2> SUFFICES ASSUME ~lost, ~outlived
               PROVE  Candidates' # {} /\ journal'[Oldest'].snap = user
    BY <1>0 DEF Kept
  <2>1. /\ \A d \in Dirs : d \in Candidates <=> HasJournal(d)
        /\ Candidates \subseteq Dirs
        /\ Candidates # {} => Oldest \in Candidates
    BY <1>0, OldestFacts DEF Types, MachineOK
  <2>2. /\ \A d \in Dirs : d \in Candidates' <=> HasJournal(d)'
        /\ Candidates' \subseteq Dirs
        /\ Candidates' # {} => Oldest' \in Candidates'
        /\ HasJournal("routing")' /\ HasJournal("xray")' => Oldest' = "xray"
    BY <1>0, PersistTypes, OldestFactsNext DEF Types, MachineOK
  <2>3. HasJournal("xray")' <=> HasJournal("xray")
    BY <1>4 DEF HasJournal
  <2>4. CASE HasJournal("xray")
    <3>1. Oldest = "xray"
      BY <1>1, <2>1, <2>4 DEF Persisting, Dirs
    <3>2. Oldest' = "xray" /\ Candidates' # {}
      BY <1>4, <2>2, <2>3, <2>4 DEF Dirs
    <3>3. journal["xray"].snap = user
      BY <1>0, <2>1, <2>4, <3>1 DEF Kept, Dirs
    <3>4. QED
      BY <1>4, <3>2, <3>3
  <2>5. CASE ~HasJournal("xray")
    <3>1. Oldest' = "routing" /\ Candidates' # {}
      BY <1>4, <2>2, <2>3, <2>5 DEF Dirs
    <3>2. aim = user
      BY <1>1, <2>5 DEF Persisting
    <3>3. QED
      BY <1>4, <3>1, <3>2
  <2>6. QED
    BY <2>4, <2>5
<1>6. held'.some /\ held'.snap = aim
  BY <1>0 DEF Some
<1>7. Holding'
  BY <1>1, <1>4, <1>6 DEF Holding, NotShadows, Persisting
<1>8. Living'
  BY <1>0, <1>2, LivingContinue
<1>9. todo' = Tail(todo) /\ op' = op
  BY <1>0, <1>3 DEF Continue
<1>10. Publishing'
  BY <1>2, <1>3, <1>6, <1>9 DEF Publishing, PublishSteps
<1>11. QED
  BY <1>5, <1>7, <1>8, <1>10 DEF Good, Running

LEMMA AtPublish ==
  ASSUME ProgressOK, Living, Running,
         NEW s \in {"publish", "settle", "writePac", "republish", "serve", "registerPac"}, Doing(s)
  PROVE  Publishing
<1>1. s \notin {"survey", "lookup", "capture", "persist"}
  OBVIOUS
<1>2. \A i \in 1..10 : Undo[i] # s
  BY DEF Undo
<1>3. QED
  BY <1>1, <1>2, NextStep

(* A step of a publication goes on with what is left, or with other steps of it. *)
LEMMA PublishStep ==
  ASSUME IInv, NEW s \in {"publish", "settle", "writePac", "republish", "serve", "registerPac"},
         Doing(s),
         NEW rest, rest = Tail(todo) \/ rest \in Seq(PublishSteps), NEW values,
         Continue(rest, values),
         UNCHANGED <<machine, dir, held>>
  PROVE  Good'
<1>0. Types /\ ProgressOK /\ Kept /\ Holding /\ Living /\ Running
  BY DEF IInv, Types
<1>1. Publishing
  BY <1>0, AtPublish
<1>2. /\ Holding' /\ Candidates' = Candidates /\ Oldest' = Oldest
      /\ \A d : HasJournal(d)' <=> HasJournal(d)
  BY <1>0, SameJournals DEF machine
<1>3. Kept'
  BY <1>0, <1>2 DEF Kept, machine
<1>4. rest \in Seq(PublishSteps)
  BY <1>0, <1>1, PublishTail
<1>5. Living' /\ Running'
  BY <1>0, <1>1, <1>4, PublishGoesOn
<1>6. QED
  BY <1>2, <1>3, <1>5 DEF Good

LEMMA PublishPrograms ==
  /\ StaticSteps \in Seq(PublishSteps) /\ PacSteps \in Seq(PublishSteps)
  /\ <<>> \in Seq(PublishSteps)
  /\ \A s \in PublishSteps : <<s>> \in Seq(PublishSteps)
  /\ {"settle", "writePac", "republish", "serve", "registerPac", "notify"} \subseteq PublishSteps
  /\ <<"url", "notify">> \in Seq(PublishSteps)
  /\ \A s, t \in Seq(PublishSteps) : s \o t \in Seq(PublishSteps)
<1>1. StaticSteps \in Seq(PublishSteps)
  BY DEF StaticSteps, PublishSteps
<1>2. PacSteps \in Seq(PublishSteps) /\ <<"url", "notify">> \in Seq(PublishSteps)
  BY DEF PacSteps, PublishSteps
<1>3. {"settle", "writePac", "republish", "serve", "registerPac", "notify"} \subseteq PublishSteps
  BY DEF PublishSteps
<1>4. QED
  BY <1>1, <1>2, <1>3

LEMMA PublishStaticStep ==
  ASSUME IInv, PublishStatic
  PROVE  Good'
<1> DEFINE write == mem.dirty \/ mem.static # <<"static", req.port, req.form>> \/ mem.pac # 0
           program == (IF write THEN StaticSteps ELSE <<>>) \o <<"settle">>
<1>1. program \in Seq(PublishSteps)
  BY PublishPrograms
<1>2. Continue(program, StaticAim(req)) /\ Doing("publish") /\ UNCHANGED <<machine, dir, held>>
  BY DEF PublishStatic
<1>3. QED
  BY <1>1, <1>2, PublishStep

LEMMA PublishPacStep ==
  ASSUME IInv, PublishPac
  PROVE  Good'
<1> DEFINE changed == req.pac # mem.content
           retry == /\ req.rotate /\ mem.pac # 0
                    /\ mem.pendingUrl # None /\ mem.pendingUrl = mem.registryUrl
           program == (IF changed THEN <<"writePac">> ELSE <<>>)
                        \o (IF retry THEN PacSteps \o <<"republish">> ELSE <<>>) \o <<"serve">>
<1>1. program \in Seq(PublishSteps)
  BY PublishPrograms
<1>2. /\ Continue(program, PacAim(mem.pendingUrl)) /\ Doing("publish")
      /\ UNCHANGED <<machine, dir, held>>
  BY DEF PublishPac, manager
<1>3. QED
  BY <1>1, <1>2, PublishStep

LEMMA ServeStep ==
  ASSUME IInv, Serve
  PROVE  Good'
<1>1. PICK program \in {PacSteps, <<"url", "notify">>, <<"notify">>, <<>>} :
        \E url : Continue(program \o <<"registerPac">>, PacAim(url))
  BY DEF Serve
<1>2. program \o <<"registerPac">> \in Seq(PublishSteps)
  BY PublishPrograms
<1>3. Doing("serve") /\ UNCHANGED <<machine, dir, held>>
  BY DEF Serve
<1>4. QED
  BY <1>1, <1>2, <1>3, PublishStep

LEMMA LaterSteps ==
  ASSUME IInv, Settle \/ WritePac \/ Republish \/ RegisterPac
  PROVE  Good'
<1>1. Continue(Tail(todo), aim) /\ UNCHANGED <<machine, dir, held>>
  BY DEF Settle, WritePac, Republish, RegisterPac, manager
<1>2. PICK s \in {"settle", "writePac", "republish", "registerPac"} : Doing(s)
  BY DEF Settle, WritePac, Republish, RegisterPac
<1>3. QED
  BY <1>1, <1>2, PublishStep

-----------------------------------------------------------------------------
(* The recovery, the ends and the requests *)

LEMMA RecoverySteps ==
  /\ LET program == <<"dropNewer">> \o RestoreSteps
     IN Len(program) = 10 /\ \A j \in 1..10 : program[j] = Undo[j]
  /\ LET program == <<>> \o RestoreSteps
     IN Len(program) = 9 /\ \A j \in 1..9 : program[j] = Undo[j + 1]
<1>1. <<"dropNewer">> \in Seq(Steps) /\ RestoreSteps \in Seq(Steps)
  BY StepsAre, ProgramTypes
<1>2. Len(<<"dropNewer">>) = 1 /\ Len(RestoreSteps) = 9
  BY DEF RestoreSteps
<1> DEFINE program == <<"dropNewer">> \o RestoreSteps
<1>3. /\ Len(program) = 1 + 9
      /\ \A j \in 1..(1 + 9) : program[j] = IF j <= 1 THEN <<"dropNewer">>[j] ELSE RestoreSteps[j - 1]
  <2>1. /\ Len(program) = Len(<<"dropNewer">>) + Len(RestoreSteps)
        /\ \A j \in 1..(Len(<<"dropNewer">>) + Len(RestoreSteps)) : program[j]
              = IF j <= Len(<<"dropNewer">>) THEN <<"dropNewer">>[j] ELSE RestoreSteps[j - Len(<<"dropNewer">>)]
    BY <1>1, ConcatProperties
  <2>2. QED
    BY <1>2, <2>1
<1>4. \A j \in 1..9 : RestoreSteps[j] = Undo[j + 1]
  BY DEF RestoreSteps, Undo
<1>5. Undo[1] = "dropNewer"
  BY DEF Undo
<1>6. ASSUME NEW j \in 1..10
      PROVE  program[j] = Undo[j]
  <2>1. CASE j = 1
    BY <1>3, <1>5, <2>1
  <2>2. CASE j # 1
    <3>1. j - 1 \in 1..9 /\ (j - 1) + 1 = j /\ ~(j <= 1)
      BY <2>2
    <3>2. program[j] = RestoreSteps[j - 1]
      BY <1>3, <3>1
    <3>3. RestoreSteps[j - 1] = Undo[(j - 1) + 1]
      BY <1>4, <3>1
    <3>4. QED
      BY <3>1, <3>2, <3>3
  <2>3. QED
    BY <2>1, <2>2
<1>7. <<>> \o RestoreSteps = RestoreSteps
  BY <1>1, ConcatEmptySeq
<1>8. QED
  BY <1>2, <1>3, <1>4, <1>6, <1>7

LEMMA SurveyStep ==
  ASSUME IInv, Survey
  PROVE  Good'
<1>0. /\ Types /\ ProgressOK /\ Kept /\ Holding /\ Living /\ Running
      /\ Doing("survey") /\ UNCHANGED <<legacyFirst, lost, outlived, held>>
  BY DEF IInv, Types, Survey, manager
<1>1. op = "recover" /\ ~held.some
  <2>1. "survey" \notin PublishSteps \cup {"lookup", "capture", "persist"}
    BY DEF PublishSteps
  <2>2. \A i \in 1..10 : Undo[i] # "survey"
    BY DEF Undo
  <2>3. Surveying
    BY <1>0, <2>1, <2>2, NextStep
  <2>4. QED
    BY <1>0, <2>3 DEF Surveying, Living
<1>2. journal \in [Dirs -> Journals]
  BY <1>0 DEF Types, MachineOK
<1>3. journal' = [d \in Dirs |-> IF journal[d].state = "spoiled" THEN Absent ELSE journal[d]]
  BY <1>2 DEF Survey
<1>4. \A d \in Dirs : HasJournal(d)' = HasJournal(d) /\ (HasJournal(d) => journal'[d] = journal[d])
  BY <1>2, <1>3 DEF HasJournal, Absent
<1>5. Candidates' = Candidates /\ Oldest' = Oldest
  <2>1. journal' \in [Dirs -> Journals]
    BY <1>0, SurveyTypes DEF Types, MachineOK
  <2>2. QED
    BY <1>0, <1>2, <1>4, <2>1, SameOldest
<1>6. Holding'
  BY <1>0, <1>1 DEF Holding
<1>a. /\ \A d \in Dirs : d \in Candidates <=> HasJournal(d)
      /\ Candidates \subseteq Dirs
      /\ Candidates # {} => Oldest \in Candidates
  BY <1>0, OldestFacts DEF Types, MachineOK
<1>7. CASE Candidates = {}
  <2>1. Continue(<<>>, Blank) /\ reg' \in {reg, Cleared(reg)}
    BY <1>7 DEF Survey
  <2>2. Kept'
    BY <1>0, <1>5, <1>7, <2>1, UserIsNotShadows DEF Kept
  <2>3. Living'
    BY <1>0, <1>1, <2>1, LivingContinue
  <2>4. QED
    BY <1>6, <2>1, <2>2, <2>3 DEF Good, Continue, Running
<1>8. CASE Candidates # {}
  <2> DEFINE program == (IF Candidates # {Oldest} THEN <<"dropNewer">> ELSE <<>>) \o RestoreSteps
  <2>1. Continue(program, journal[Oldest].snap) /\ dir' = Oldest /\ reg' = reg
    BY <1>8 DEF Survey
  <2>2. Oldest \in Dirs /\ HasJournal(Oldest)
    BY <1>8, <1>a
  <2>3. Kept'
    BY <1>0, <1>4, <1>5, <1>8, <2>2 DEF Kept
  <2>4. Living'
    BY <1>0, <1>1, <2>1, LivingContinue
  <2>5. /\ Candidates # {Oldest} => Len(program) = 10 /\ \A j \in 1..10 : program[j] = Undo[j]
        /\ Candidates = {Oldest} => Len(program) = 9 /\ \A j \in 1..9 : program[j] = Undo[j + 1]
    BY RecoverySteps
  <2>6. program # <<>>
    <3>1. Len(program) # 0
      BY <2>5
    <3>2. QED
      BY <3>1, SomeLeft, Zenon
  <2>7. todo' = program /\ aim' = journal[Oldest].snap /\ op' = "recover"
    BY <1>1, <2>1, <2>6 DEF Continue
  <2>8. ~held'.some
    BY <1>0, <1>1
  <2>9. ASSUME NEW i \in {1, 2}, i = 2 => Candidates = {Oldest}
        PROVE  Undone(i)'
    <3>1. HasJournal(dir)' /\ aim' = journal'[dir'].snap
      BY <1>4, <2>1, <2>2, <2>7
    <3>2. dir' = Oldest' /\ (i = 1 \/ Candidates' = {dir'})
      BY <1>5, <2>1, <2>9
    <3>3. \A n \in Names : ~(Place[n] < i)
      BY UndoDistinct
    <3>4. QED
      BY <2>7, <2>8, <3>1, <3>2, <3>3 DEF Undone
  <2>10. CASE Candidates # {Oldest}
    <3>1. UndoLeft(1)'
      BY <2>5, <2>7, <2>10 DEF UndoLeft
    <3>2. QED
      BY <1>6, <2>3, <2>4, <2>7, <2>9, <2>10, <3>1 DEF Good, Running, Undoing
  <2>11. CASE Candidates = {Oldest}
    <3>1. UndoLeft(2)'
      BY <2>5, <2>7, <2>11 DEF UndoLeft
    <3>2. QED
      BY <1>6, <2>3, <2>4, <2>7, <2>9, <2>11, <3>1 DEF Good, Running, Undoing
  <2>12. QED
    BY <2>10, <2>11
<1>9. QED
  BY <1>7, <1>8

LEMMA DropNewerStep ==
  ASSUME IInv, DropNewer
  PROVE  Good'
<1>0. /\ Types /\ ProgressOK /\ Kept /\ Holding /\ Living /\ Running
      /\ Doing("dropNewer") /\ Continue(Tail(todo), aim)
      /\ UNCHANGED <<reg, legacyFirst, lost, outlived, dir, held>>
  BY DEF IInv, Types, DropNewer, manager
<1>1. Undoing(1)
  <2>1. "dropNewer" \notin PublishSteps \cup {"survey", "lookup", "capture", "persist"}
    BY DEF PublishSteps
  <2>2. PICK i \in 1..10 : Undo[i] = "dropNewer" /\ Undoing(i)
    BY <1>0, <2>1, NextStep
  <2>3. i = 1
    BY <2>2, UndoDistinct
  <2>4. QED
    BY <2>2, <2>3
<1>2. op = "recover" /\ ~held.some /\ HasJournal(dir) /\ dir \in Dirs /\ aim = journal[dir].snap
  BY <1>0, <1>1 DEF Undoing, Undone, Living, ProgressOK
<1>3. journal \in [Dirs -> Journals]
  BY <1>0 DEF Types, MachineOK
<1>4. journal' = [d \in Dirs |-> IF d = dir THEN journal[d] ELSE Absent]
  BY <1>3 DEF DropNewer
<1>5. \A d \in Dirs : IF d = dir THEN journal'[d] = journal[d] /\ HasJournal(d)'
                                 ELSE ~HasJournal(d)' /\ journal'[d].state = "absent"
  BY <1>2, <1>4 DEF HasJournal, Absent
<1>6. Holding'
  BY <1>0, <1>2 DEF Holding
<1>a. Candidates' = {dir} /\ Oldest' = dir
  <2>1. /\ \A d \in Dirs : d \in Candidates' <=> HasJournal(d)'
        /\ Candidates' \subseteq Dirs
        /\ Candidates' # {} => Oldest' \in Candidates'
    BY <1>0, DropNewerTypes, OldestFactsNext DEF Types, MachineOK
  <2>2. Candidates' = {dir}
    BY <1>2, <1>5, <2>1
  <2>3. QED
    BY <2>1, <2>2
<1>b. Candidates # {} /\ dir = Oldest
  BY <1>0, <1>1, <1>2, OldestFacts DEF Undoing, Undone, Types, MachineOK
<1>7. Kept'
  BY <1>0, <1>2, <1>5, <1>a, <1>b DEF Kept
<1>8. aim' = aim /\ op' = op
  <2>1. Tail(todo) # <<>>
    BY <1>0, <1>1, UndoHead DEF Undoing
  <2>2. QED
    BY <1>0, <2>1 DEF Continue
<1>9. Undone(1 + 1)'
  <2>1. \A n \in Names : ~(Place[n] < 1 + 1)
    BY UndoDistinct
  <2>2. QED
    BY <1>0, <1>2, <1>5, <1>8, <1>a, <2>1 DEF Undone
<1>10. Living' /\ Running'
  BY <1>0, <1>1, <1>2, <1>9, UndoGoesOn
<1>11. QED
  BY <1>6, <1>7, <1>10 DEF Good

(* A step that ends the operation where it stands, or begins one. *)
LEMMA AsideStep ==
  ASSUME IInv, UNCHANGED <<reg, journal, legacyFirst, lost, outlived>>, held' = held \/ held' = Nothing
  PROVE  Kept' /\ Holding'
<1>1. Kept /\ Holding
  BY DEF IInv
<1>2. Candidates' = Candidates /\ Oldest' = Oldest
  <2>1. Candidates' = Candidates
    BY DEF Candidates
  <2>2. QED
    BY <2>1 DEF Oldest
<1>3. Kept'
  BY <1>1, <1>2 DEF Kept
<1>4. CASE held' = held
  <2>1. UNCHANGED <<journal, legacyFirst, held>>
    BY <1>4
  <2>2. QED
    BY <1>1, <1>3, <2>1, SameJournals
<1>5. CASE held' = Nothing
  BY <1>3, <1>5, NothingHeldIsClean
<1>6. QED
  BY <1>3, <1>4, <1>5

LEMMA StepFailsStep ==
  ASSUME IInv, StepFails
  PROVE  Good'
<1>1. Living /\ op # "none" /\ Continue(<<>>, Blank) /\ UNCHANGED <<reg, journal, legacyFirst, lost, outlived, dir, held>>
  BY DEF IInv, StepFails, Living
<1>2. Kept' /\ Holding'
  BY <1>1, AsideStep
<1>3. op = "recover" => ~held'.some
  BY <1>1 DEF Living
<1>4. Living'
  BY <1>1, <1>3, LivingContinue
<1>5. Running'
  BY <1>1 DEF Continue, Running
<1>6. QED
  BY <1>2, <1>4, <1>5 DEF Good

LEMMA ProcessEndsStep ==
  ASSUME IInv, ProcessEnds
  PROVE  Good'
<1>1. Kept' /\ Holding'
  BY AsideStep DEF ProcessEnds, machine
<1>2. Living' /\ Running'
  BY DEF ProcessEnds, Living, Running, Nothing
<1>3. QED
  BY <1>1, <1>2 DEF Good

LEMMA StartStep ==
  ASSUME IInv, Start
  PROVE  Good'
<1>1. Kept' /\ Holding'
  BY AsideStep DEF Start, machine, manager
<1>2. Living' /\ Running'
  BY DEF IInv, Start, manager, Living, Running, Surveying
<1>3. QED
  BY <1>1, <1>2 DEF Good

LEMMA BeginStep ==
  ASSUME IInv, BeginRestore \/ \E r \in Requests : BeginApply(r)
  PROVE  Good'
<1>1. /\ life = "up" /\ life' = life /\ held' = held /\ dir' = "routing"
      /\ \/ op' = "restore" /\ todo' = <<"lookup">>
         \/ op' = "apply" /\ todo' = <<"lookup", "capture", "publish">>
  BY DEF BeginRestore, BeginApply, manager
<1>2. Kept' /\ Holding'
  BY <1>1, AsideStep DEF BeginRestore, BeginApply, machine
<1>3. Living' /\ Running'
  BY <1>1 DEF Living, Running, Looking
<1>4. QED
  BY <1>2, <1>3 DEF Good

LEMMA SpoilJournalStep ==
  ASSUME IInv, NEW d \in Dirs, SpoilJournal(d)
  PROVE  Good'
<1>0. /\ Types /\ Kept /\ Living /\ ~held.some /\ op = "none"
      /\ HasJournal(d) /\ journal' = [journal EXCEPT ![d] = Spoiled]
      /\ UNCHANGED <<reg, outlived, life, op, todo, dir, held>>
  BY DEF IInv, SpoilJournal, Living, HasJournal, running, manager
<1>1. Holding'
  BY <1>0 DEF Holding
<1>2. /\ \A e \in Dirs : e \in Candidates <=> HasJournal(e)
      /\ Candidates \subseteq Dirs
      /\ Candidates # {} => Oldest \in Candidates
  BY <1>0, OldestFacts DEF Types, MachineOK
<1>3. /\ \A e \in Dirs : e \in Candidates' <=> HasJournal(e)'
      /\ Candidates' \subseteq Dirs
      /\ Candidates' # {} => Oldest' \in Candidates'
  BY <1>0, SpoilJournalTypes, OldestFactsNext DEF Types, MachineOK
<1>4. ~HasJournal(d)' /\ \A e \in Dirs : e # d => journal'[e] = journal[e]
  BY <1>0 DEF Types, MachineOK, HasJournal, Spoiled
<1>5. Kept'
  <2>0. ~lost' => ~lost /\ d # Oldest
    BY DEF SpoilJournal
  <2> SUFFICES ASSUME ~lost, ~outlived, d # Oldest
               PROVE  Candidates' # {} /\ journal'[Oldest'].snap = user
    BY <1>0, <2>0 DEF Kept
  <2>1. Oldest \in Candidates /\ journal[Oldest].snap = user
    BY <1>0, <1>2 DEF Kept
  <2>2. Candidates' = {Oldest}
    BY <1>2, <1>3, <1>4, <2>1 DEF Dirs, HasJournal
  <2>3. QED
    BY <1>2, <1>3, <1>4, <2>1, <2>2
<1>6. Living' /\ Running'
  BY <1>0 DEF Living, Running
<1>7. QED
  BY <1>1, <1>5, <1>6 DEF Good

(* Values that differ from the user's in one name at most are not taken for Shadow's. *)
LEMMA ClearedKeeps ==
  ASSUME NEW r \in [Names -> Values], NEW m, \A n \in Names : n # m => r[n] = user[n]
  PROVE  \A n \in Names : r[n] = user[n] => Cleared(r)[n] = user[n]
<1>1. ~IsShadowStatic(r.server, r.override)
  <2>1. r.server = Own \/ r.override = Own
    BY DEF Names, user
  <2>2. QED
    BY <2>1 DEF IsShadowStatic, Own
<1>2. r.url = user.url => ~IsShadowPac(r.url)
  BY DEF user, Own, IsShadowPac
<1>3. QED
  BY <1>1, <1>2 DEF Cleared, Names

(* The restore that quits the application, out of the queue, takes nothing back that an
   operation has already put in its place. *)
LEMMA RestoredAside ==
  ASSUME IInv, NEW failed, failed = {} \/ \E m \in Names : failed = {m}, NEW r,
         r = RestoredNow(failed) \/ r = Cleared(RestoredNow(failed))
  PROVE  /\ ~lost /\ ~outlived /\ Candidates = {} => r = user
         /\ Decisive /\ HasJournal(dir) => \A n \in Names : reg[n] = user[n] => r[n] = user[n]
<1>0. /\ Kept /\ reg \in [Names -> Values] /\ journal \in [Dirs -> Journals] /\ legacyFirst \in BOOLEAN
      /\ dir \in Dirs /\ MachineOK
  BY DEF IInv, Types, MachineOK, ProgressOK
<1>1. ASSUME ~lost, ~outlived, Candidates = {}
      PROVE  r = user
  <2>1. reg = user
    BY <1>0, <1>1 DEF Kept
  <2>2. QED
    BY <1>1, <2>1, UserIsNotShadows DEF RestoredNow
<1>2. ASSUME Decisive, HasJournal(dir), NEW n \in Names, reg[n] = user[n]
      PROVE  r[n] = user[n]
  <2> DEFINE now == RestoredNow(failed)
  <2>1. Candidates # {} /\ journal[Oldest].snap = user
    BY <1>0, <1>2, OldestFacts DEF Decisive, Kept
  <2>2. now = [x \in Names |-> IF x \in failed THEN reg[x] ELSE user[x]]
    BY <2>1 DEF RestoredNow
  <2>3. now \in [Names -> Values]
    BY <1>0, <2>2, AimFacts
  <2>4. PICK m : \A x \in Names : x # m => now[x] = user[x]
    BY <2>2
  <2>5. now[n] = user[n]
    BY <1>2, <2>2
  <2>6. Cleared(now)[n] = user[n]
    BY <2>3, <2>4, <2>5, ClearedKeeps
  <2>7. QED
    BY <2>5, <2>6
<1>3. QED
  BY <1>1, <1>2

LEMMA LeavingStep ==
  ASSUME IInv, SessionEnding \/ QuitDeadline
  PROVE  Good'
<1>0. /\ Types /\ Kept /\ Holding /\ Living /\ Running
      /\ UNCHANGED <<journal, legacyFirst, lost, outlived, life, op, todo, aim, dir, held>>
  BY DEF IInv, SessionEnding, QuitDeadline, running, manager
<1>1. PICK failed : /\ failed = {} \/ \E m \in Names : failed = {m}
                    /\ reg' = RestoredNow(failed) \/ reg' = Cleared(RestoredNow(failed))
  BY DEF SessionEnding, QuitDeadline
<1>2. /\ ~lost /\ ~outlived /\ Candidates = {} => reg' = user
      /\ Decisive /\ HasJournal(dir) => \A n \in Names : reg[n] = user[n] => reg'[n] = user[n]
  BY <1>1, RestoredAside
<1>3. /\ Holding' /\ Candidates' = Candidates /\ Oldest' = Oldest
      /\ \A d : HasJournal(d)' <=> HasJournal(d)
  BY <1>0, SameJournals
<1>4. Kept'
  BY <1>0, <1>2, <1>3 DEF Kept
<1>5. Living'
  BY <1>0 DEF Living
<1>6. ASSUME NEW i \in 1..10, Undoing(i)
      PROVE  Undoing(i)'
  <2>1. Decisive' <=> Decisive
    BY <1>0, <1>3 DEF Decisive
  <2>2. Undone(i)'
    BY <1>0, <1>2, <1>3, <1>6, <2>1 DEF Undoing, Undone
  <2>3. UndoLeft(i)'
    BY <1>0, <1>6 DEF Undoing, UndoLeft
  <2>4. QED
    BY <1>0, <1>6, <2>2, <2>3 DEF Undoing
<1>7. CASE \E i \in 1..10 : Undoing(i)
  BY <1>6, <1>7, <1>3, <1>4, <1>5 DEF Good, Running
<1>8. CASE op = "none" \/ Surveying \/ Looking \/ Capturing \/ Persisting \/ Publishing
  <2>1. op' = "none" \/ Surveying' \/ Looking' \/ Capturing' \/ Persisting' \/ Publishing'
    BY <1>0, <1>3, <1>8 DEF Surveying, Looking, Capturing, Persisting, Publishing
  <2>2. QED
    BY <2>1, <1>3, <1>4, <1>5 DEF Good, Running
<1>9. QED
  BY <1>0, <1>7, <1>8 DEF Running

-----------------------------------------------------------------------------
(* The invariant holds *)

LEMMA InitInvariant ==
  ASSUME Init
  PROVE  IInv
<1>1. reg \in [Names -> Values]
  <2>1. user \in [Names -> Values] /\ Modified \in [Names -> Values]
    BY AimFacts, StaticAimType, WindowsSystemProxyAssumption DEF Modified
  <2>2. \A e \in Endpoints, v \in Pacs : [PacAim(<<"pac", e, v>>) EXCEPT !.override = Own] \in [Names -> Values]
    BY AimFacts, ValueFacts DEF Names
  <2>3. [user EXCEPT !.server = Modified.server] \in [Names -> Values]
    BY <2>1 DEF Names
  <2>4. \/ reg \in {user, Modified, [user EXCEPT !.server = Modified.server]}
        \/ \E e \in Endpoints, v \in Pacs : reg = [PacAim(<<"pac", e, v>>) EXCEPT !.override = Own]
    BY DEF Init
  <2>5. CASE reg \in {user, Modified, [user EXCEPT !.server = Modified.server]}
    BY <2>1, <2>3, <2>5
  <2>6. ASSUME NEW e \in Endpoints, NEW v \in Pacs,
               reg = [PacAim(<<"pac", e, v>>) EXCEPT !.override = Own]
        PROVE  reg \in [Names -> Values]
    BY <2>2, <2>6
  <2>7. QED
    BY <2>4, <2>5, <2>6
<1>2. /\ journal \in [Dirs -> Journals] /\ legacyFirst \in BOOLEAN
      /\ IF Candidates = {} THEN reg = user ELSE journal[Oldest].snap = user
  <2>1. Absent \in Journals /\ \A s \in [Names -> Values] : Usable(s) \in Journals
    BY AimFacts DEF Absent, Usable, Journals
  <2>2. user \in [Names -> Values] /\ Modified \in [Names -> Values]
    BY AimFacts, StaticAimType, WindowsSystemProxyAssumption DEF Modified
  <2>3. CASE reg = user /\ journal = [d \in {"routing", "xray"} |-> Absent] /\ legacyFirst = TRUE
    <3>1. Candidates = {}
      BY <2>3 DEF Candidates, Absent
    <3>2. QED
      BY <2>1, <2>3, <3>1 DEF Dirs
  <2>4. CASE journal = [routing |-> Usable(user), xray |-> Absent] /\ legacyFirst = TRUE
    <3>1. journal["routing"] = Usable(user) /\ journal["xray"] = Absent /\ DOMAIN journal = Dirs
      BY <2>4 DEF Dirs
    <3>2. Candidates = {"routing"} /\ Usable(user).snap = user
      BY <3>1 DEF Candidates, Absent, Usable, Dirs
    <3>3. Oldest = "routing"
      BY <3>2 DEF Oldest
    <3>4. QED
      BY <2>1, <2>2, <2>4, <3>1, <3>2, <3>3 DEF Dirs
  <2>5. ASSUME NEW j \in {Absent, Usable(Modified)}, legacyFirst = TRUE,
               journal = [routing |-> j, xray |-> Usable(user)]
        PROVE  /\ journal \in [Dirs -> Journals]
               /\ Candidates # {} /\ journal[Oldest].snap = user
    <3>1. journal["routing"] = j /\ journal["xray"] = Usable(user) /\ DOMAIN journal = Dirs
      BY <2>5 DEF Dirs
    <3>2. "xray" \in Candidates /\ Usable(user).snap = user
      BY <3>1 DEF Candidates, Usable, Dirs
    <3>3. Oldest = "xray"
      BY <2>5, <3>2 DEF Oldest
    <3>4. QED
      BY <2>1, <2>2, <2>5, <3>1, <3>2, <3>3 DEF Dirs
  <2>6. CASE legacyFirst = FALSE /\ journal = [routing |-> Usable(user), xray |-> Usable(Modified)]
    <3>1. journal["routing"] = Usable(user) /\ journal["xray"] = Usable(Modified) /\ DOMAIN journal = Dirs
      BY <2>6 DEF Dirs
    <3>2. "routing" \in Candidates /\ Usable(user).snap = user
      BY <3>1 DEF Candidates, Usable, Dirs
    <3>3. Oldest = "routing"
      BY <2>6, <3>2 DEF Oldest
    <3>4. QED
      BY <2>1, <2>2, <2>6, <3>1, <3>2, <3>3 DEF Dirs
  <2>7. QED
    BY <2>3, <2>4, <2>5, <2>6 DEF Init
<1>3. MachineOK
  <2>1. told = {reg.url} /\ reg.url \in Values /\ lost \in BOOLEAN /\ outlived \in BOOLEAN
    BY <1>1 DEF Init, Names
  <2>2. QED
    BY <1>1, <1>2, <2>1 DEF MachineOK
<1>4. ProgressOK
  BY AimFacts, ProgramTypes DEF Init, ProgressOK, Dirs
<1>5. HeldOK
  <2>1. Named \subseteq Endpoints
    BY <1>3, NamedType DEF MachineOK
  <2>2. QED
    BY <2>1, AimFacts DEF Init, HeldOK, Held, Nothing
<1>6. MemOK(mem)
  BY ValueFacts DEF Init, MemOK, MemFields, FreshMem
<1>7. TurnOK /\ Requested
  BY DEF Init, TurnOK, NoTurn, Requested, NoRequest
<1>8. Counted
  BY WindowsSystemProxyAssumption DEF Init, Counted
<1>9. Kept
  BY <1>2 DEF Init, Kept
<1>10. Holding
  BY DEF Init, Holding, Nothing
<1>11. Living /\ Running /\ Aged
  BY DEF Init, Living, Running, Aged, Nothing
<1>12. QED
  BY <1>3, <1>4, <1>5, <1>6, <1>7, <1>8, <1>9, <1>10, <1>11 DEF IInv, Types

LEMMA StepInvariant ==
  ASSUME IInv, Step
  PROVE  Types' /\ Good'
<1>0. Types
  BY DEF IInv
<1>1. Types'
  BY <1>0, WriteValueTypes, ForgetTypes, NotifyTypes, LookupTypes, StopPacTypes, RmJournalTypes, CaptureTypes,
     PersistTypes, PublishStaticTypes, SettleTypes, PublishPacTypes, WritePacTypes, RepublishTypes, ServeTypes,
     RegisterPacTypes, SurveyTypes, DropNewerTypes DEF Step
<1>2. Good'
  <2>1. CASE Forget \/ Notify
    <3>1. \E s \in {"forget", "notify"} : Doing(s)
      BY <2>1 DEF Forget, Notify
    <3>2. Continue(Tail(todo), aim) /\ UNCHANGED <<reg, journal, legacyFirst, lost, outlived, dir, held>>
      BY <2>1 DEF Forget, Notify, machine, manager
    <3>3. QED
      BY <3>1, <3>2, PlainStep
  <2>2. QED
    BY <2>1, WriteValueStep, LookupStep, StopPacStep, RmJournalStep, CaptureStep, PersistStep, PublishStaticStep,
       PublishPacStep, ServeStep, LaterSteps, SurveyStep, DropNewerStep DEF Step
<1>3. QED
  BY <1>1, <1>2

(* The steps of a recovery. *)
LEMMA RecoversBy ==
  ASSUME IInv, life = "recovering", NEW s, Doing(s)
  PROVE  op = "recover" /\ (s = "survey" \/ \E i \in 1..10 : Undo[i] = s /\ Undoing(i))
<1>1. ProgressOK /\ Living /\ Running
  BY DEF IInv, Types
<1>2. op = "recover"
  BY <1>1 DEF Living
<1>3. ~Publishing /\ ~Looking /\ ~Capturing /\ ~Persisting
  BY <1>2 DEF Publishing, Looking, Capturing, Persisting
<1>4. QED
  BY <1>1, <1>2, <1>3, NextStep

LEMMA RecoveryGoesOn ==
  ASSUME IInv, life = "recovering", NEW s, Doing(s), s \notin {"survey", "rmJournal"},
         Continue(Tail(todo), aim)
  PROVE  life' = life
<1>1. ProgressOK
  BY DEF IInv, Types
<1>2. PICK i \in 1..10 : Undo[i] = s /\ Undoing(i)
  BY RecoversBy
<1>3. i # 10
  BY <1>2, UndoDistinct
<1>4. Tail(todo) # <<>>
  BY <1>1, <1>2, <1>3, UndoHead DEF Undoing
<1>5. QED
  BY <1>4 DEF Continue

(* A recovery ends with the journal it removes, where there is none, or in a failure. *)
LEMMA RecoveryEndsBy ==
  ASSUME IInv, [Next]_vars, life = "recovering", life' = "up"
  PROVE  \/ StepFails
         \/ Survey /\ Candidates = {}
         \/ RmJournal /\ op = "recover" /\ Undoing(10)
<1>0. Living
  BY DEF IInv
<1>1. ASSUME NEW s, Doing(s), Continue(Tail(todo), aim)
      PROVE  s \in {"survey", "rmJournal"}
  BY <1>1, RecoveryGoesOn
<1>2. ASSUME Survey, Candidates # {}
      PROVE  FALSE
  <2> DEFINE program == (IF Candidates # {Oldest} THEN <<"dropNewer">> ELSE <<>>) \o RestoreSteps
  <2>1. Continue(program, journal[Oldest].snap)
    BY <1>2 DEF Survey
  <2>2. Len(program) # 0
    BY RecoverySteps
  <2>3. program # <<>>
    BY <2>2, SomeLeft, Zenon
  <2>4. QED
    BY <2>1, <2>3 DEF Continue
<1>3. CASE RmJournal
  BY <1>0, <1>3, AtJournal DEF RmJournal, Living
<1>4. CASE Step /\ ~Survey /\ ~RmJournal
  <2>1. \A s : Doing(s) => s = "survey" \/ \E i \in 1..10 : Undo[i] = s
    BY RecoversBy
  <2>2. \A s \in {"lookup", "capture", "persist", "publish", "settle", "writePac", "republish", "serve", "registerPac"} :
          ~Doing(s)
    BY <2>1 DEF Undo
  <2>3. \E s \in Names \cup {"forget", "notify", "stop", "dropNewer"} : Doing(s) /\ Continue(Tail(todo), aim)
    <3>0. /\ ~Lookup /\ ~Capture /\ ~Persist /\ ~PublishStatic /\ ~Settle /\ ~PublishPac /\ ~WritePac
          /\ ~Republish /\ ~Serve /\ ~RegisterPac
      <4>1. ~Lookup /\ ~Capture /\ ~Persist
        BY <2>2 DEF Lookup, Capture, Persist
      <4>2. ~PublishStatic /\ ~Settle /\ ~PublishPac
        BY <2>2 DEF PublishStatic, Settle, PublishPac
      <4>3. ~WritePac /\ ~Republish /\ ~RegisterPac
        BY <2>2 DEF WritePac, Republish, RegisterPac
      <4>4. ~Serve
        <5>1. Serve => Doing("serve")
          BY Zenon DEF Serve
        <5>2. QED
          BY <2>2, <5>1
      <4>5. QED
        BY <4>1, <4>2, <4>3, <4>4
    <3>1. \/ \E n \in Names : WriteValue(n)
          \/ Forget \/ Notify \/ StopPac \/ DropNewer
      BY <1>4, <3>0 DEF Step
    <3>2. QED
      BY <3>1 DEF WriteValue, Forget, Notify, StopPac, DropNewer
  <2>4. QED
    BY <1>1, <2>3 DEF Names
<1>5. CASE \/ Start \/ BeginRestore \/ \E r \in Requests : BeginApply(r)
           \/ SessionEnding \/ QuitDeadline \/ ProcessEnds
           \/ (\E d \in {"routing", "xray"} : SpoilJournal(d)) \/ UNCHANGED vars
  BY <1>5 DEF Start, BeginRestore, BeginApply, SessionEnding, QuitDeadline, ProcessEnds,
         SpoilJournal, vars
<1>6. QED
  BY <1>2, <1>3, <1>4, <1>5 DEF Next

(* Who changes what the order of the journals depends on. *)
LEMMA OrderKept ==
  ASSUME IInv, [Next]_vars
  PROVE  /\ RmJournal \/ outlived' = outlived
         /\ Persist \/ (legacyFirst' = legacyFirst /\ \A d \in Dirs : HasJournal(d)' => HasJournal(d))
         /\ troubles' \in {troubles, troubles + 1}
         /\ life' = "up" => life \in {"up", "recovering"}
<1>0. Living /\ journal \in [Dirs -> Journals] /\ dir \in Dirs /\ life \in {"down", "recovering", "up"}
  BY DEF IInv, Types, MachineOK, ProgressOK
<1>1. todo # <<>> => life \in {"up", "recovering"}
  BY <1>0 DEF Living
<1>2. CASE \/ \E n \in Names : WriteValue(n)
           \/ Forget \/ Notify \/ StopPac \/ Capture \/ PublishStatic \/ Settle
           \/ PublishPac \/ WritePac \/ Republish \/ Serve \/ RegisterPac
  <2>1. UNCHANGED <<journal, legacyFirst, outlived, troubles>> /\ todo # <<>>
    <3>1. CASE \E n \in Names : WriteValue(n)
      BY <3>1 DEF WriteValue, Doing, bounds
    <3>2. CASE Forget \/ Notify \/ StopPac
      BY <3>2 DEF Forget, Notify, StopPac, Doing, machine, bounds
    <3>3. CASE Capture \/ PublishStatic \/ Settle
      BY <3>3 DEF Capture, PublishStatic, Settle, Doing, machine, bounds
    <3>4. CASE PublishPac
      BY <3>4 DEF PublishPac, Doing, machine, bounds
    <3>5. CASE WritePac \/ Republish
      BY <3>5 DEF WritePac, Republish, Doing, machine, bounds
    <3>6. CASE Serve
      BY <3>6 DEF Serve, Doing, machine, bounds
    <3>7. CASE RegisterPac
      BY <3>7 DEF RegisterPac, Doing, machine, bounds
    <3>8. QED
      BY <1>2, <3>1, <3>2, <3>3, <3>4, <3>5, <3>6, <3>7
  <2>2. QED
    BY <1>1, <2>1 DEF HasJournal
<1>3. CASE Lookup \/ RmJournal \/ Survey \/ DropNewer
  <2>1. /\ \A d \in Dirs : journal'[d] = journal[d] \/ journal'[d] = Absent
        /\ legacyFirst' = legacyFirst /\ troubles' = troubles /\ (RmJournal \/ outlived' = outlived)
        /\ todo # <<>>
    <3>1. CASE Lookup
      BY <1>0, <3>1 DEF Lookup, Doing, bounds, Dirs
    <3>2. CASE RmJournal
      BY <1>0, <3>2 DEF RmJournal, Doing, bounds
    <3>3. CASE Survey
      BY <1>0, <3>3 DEF Survey, Doing, bounds
    <3>4. CASE DropNewer
      BY <1>0, <3>4 DEF DropNewer, Doing, bounds
    <3>5. QED
      BY <1>3, <3>1, <3>2, <3>3, <3>4
  <2>2. \A d \in Dirs : HasJournal(d)' => HasJournal(d)
    BY <2>1 DEF HasJournal, Absent
  <2>3. QED
    BY <1>1, <2>1, <2>2
<1>4. CASE Persist
  <2>1. outlived' = outlived /\ troubles' = troubles /\ todo # <<>>
    BY <1>4 DEF Persist, Doing, bounds
  <2>2. QED
    BY <1>1, <1>4, <2>1
<1>5. CASE Start \/ BeginRestore \/ \E r \in Requests : BeginApply(r)
  <2>1. /\ UNCHANGED <<journal, legacyFirst, outlived, troubles>>
        /\ life' = "up" => life = "up"
    BY <1>5 DEF Start, BeginRestore, BeginApply, machine, bounds
  <2>2. QED
    BY <2>1 DEF HasJournal
<1>6. CASE StepFails \/ SessionEnding \/ QuitDeadline \/ ProcessEnds
  <2>1. life' = "up" => (life = "up" \/ todo # <<>>)
    BY <1>6 DEF StepFails, SessionEnding, QuitDeadline, ProcessEnds, machine
  <2>2. UNCHANGED <<journal, legacyFirst, outlived>>
    BY <1>6 DEF StepFails, SessionEnding, QuitDeadline, ProcessEnds, machine
  <2>3. CASE StepFails \/ ProcessEnds
    BY <1>1, <2>1, <2>2, <2>3 DEF StepFails, ProcessEnds, HasJournal
  <2>4. CASE SessionEnding \/ QuitDeadline
    <3>1. troubles' \in {troubles + 0, troubles + 1}
      BY <2>4 DEF SessionEnding, QuitDeadline
    <3>2. troubles \in Nat
      BY DEF IInv, Types, Counted
    <3>3. QED
      BY <1>1, <2>1, <2>2, <3>1, <3>2 DEF HasJournal
  <2>5. QED
    BY <1>6, <2>3, <2>4
<1>7. ASSUME NEW e \in Dirs, SpoilJournal(e)
      PROVE  /\ outlived' = outlived /\ legacyFirst' = legacyFirst /\ troubles' = troubles + 1 /\ life' # "up"
             /\ \A d \in Dirs : HasJournal(d)' => HasJournal(d)
  BY <1>0, <1>7 DEF SpoilJournal, HasJournal, Spoiled
<1>8. CASE UNCHANGED vars
  <2>1. UNCHANGED <<journal, legacyFirst, outlived, troubles, life>>
    BY <1>8 DEF vars, machine, bounds
  <2>2. QED
    BY <1>0, <2>1 DEF HasJournal
<1>9. QED
  BY <1>2, <1>3, <1>4, <1>5, <1>6, <1>7, <1>8 DEF Next, Step, Dirs

(* Without a failure or an end of the process, no later journal outlives an older one. *)
LEMMA AgedStep ==
  ASSUME IInv, [Next]_vars
  PROVE  Aged'
<1> SUFFICES ASSUME troubles' = 0
             PROVE  /\ ~outlived'
                    /\ life' = "up" /\ HasJournal("routing")' /\ HasJournal("xray")' => legacyFirst'
  BY DEF Aged
<1>0. Types /\ Kept /\ Living /\ Aged /\ MachineOK /\ ProgressOK /\ troubles \in Nat
  BY DEF IInv, Types, Counted
<1>1. troubles = 0 /\ ~StepFails
  BY <1>0, OrderKept DEF StepFails
<1>2. /\ \A d \in Dirs : d \in Candidates <=> HasJournal(d)
      /\ Candidates \subseteq Dirs
      /\ HasJournal("routing") /\ HasJournal("xray") => Oldest = IF legacyFirst THEN "xray" ELSE "routing"
  BY <1>0, OldestFacts DEF MachineOK
<1>3. ~outlived'
  <2>1. CASE RmJournal
    <3>1. Undoing(10)
      BY <2>1, AtJournal DEF RmJournal
    <3>2. HasJournal(dir) /\ op # "none" /\ (op = "recover" => Candidates = {dir})
      BY <3>1 DEF Undoing, Undone
    <3>3. ASSUME dir = Oldest, Candidates # {dir}
          PROVE  FALSE
      <4>1. dir = "routing" /\ life = "up"
        BY <1>0, <3>2, <3>3 DEF Living, ProgressOK
      <4>2. HasJournal("routing") /\ HasJournal("xray")
        BY <1>2, <3>2, <3>3, <4>1 DEF Dirs
      <4>3. QED
        BY <1>0, <1>1, <1>2, <3>3, <4>1, <4>2 DEF Aged
    <3>4. QED
      BY <1>0, <1>1, <2>1, <3>3 DEF Aged, RmJournal
  <2>2. CASE ~RmJournal
    BY <1>0, <1>1, <2>2, OrderKept DEF Aged
  <2>3. QED
    BY <2>1, <2>2
<1>4. ASSUME life' = "up", HasJournal("routing")', HasJournal("xray")'
      PROVE  legacyFirst'
  <2>1. CASE Persist
    BY <2>1 DEF Persist
  <2>2. CASE ~Persist
    <3>1. HasJournal("routing") /\ HasJournal("xray") /\ legacyFirst' = legacyFirst
      BY <1>4, <2>2, OrderKept DEF Dirs
    <3>2. CASE life = "up"
      BY <1>0, <1>1, <3>1, <3>2 DEF Aged
    <3>3. CASE life = "recovering"
      <4>1. Candidates # {}
        BY <1>2, <3>1 DEF Dirs
      <4>2. RmJournal /\ op = "recover" /\ Undoing(10)
        BY <1>1, <1>4, <3>3, <4>1, RecoveryEndsBy
      <4>3. Candidates = {dir}
        BY <4>2 DEF Undoing, Undone
      <4>4. QED
        BY <1>2, <3>1, <4>3 DEF Dirs
    <3>4. QED
      BY <1>4, <3>2, <3>3, OrderKept
  <2>3. QED
    BY <2>1, <2>2
<1>5. QED
  BY <1>3, <1>4

LEMMA NextInvariant ==
  ASSUME IInv, [Next]_vars
  PROVE  IInv'
<1>0. Types /\ Aged'
  BY AgedStep DEF IInv
<1>1. CASE Step
  BY <1>0, <1>1, StepInvariant DEF Good, IInv
<1>2. CASE Start
  BY <1>0, <1>2, StartTypes, StartStep DEF Good, IInv
<1>3. CASE StepFails
  BY <1>0, <1>3, StepFailsTypes, StepFailsStep DEF Good, IInv
<1>4. CASE BeginRestore \/ \E r \in Requests : BeginApply(r)
  BY <1>0, <1>4, BeginRestoreTypes, BeginApplyTypes, BeginStep DEF Good, IInv
<1>5. CASE SessionEnding \/ QuitDeadline
  BY <1>0, <1>5, SessionEndingTypes, QuitDeadlineTypes, LeavingStep DEF Good, IInv
<1>6. CASE ProcessEnds
  BY <1>0, <1>6, ProcessEndsTypes, ProcessEndsStep DEF Good, IInv
<1>7. ASSUME NEW d \in {"routing", "xray"}, SpoilJournal(d)
      PROVE  IInv'
  BY <1>0, <1>7, SpoilJournalTypes, SpoilJournalStep DEF Good, IInv, Dirs
<1>8. CASE UNCHANGED vars
  <2>1. Types'
    BY <1>0, <1>8 DEF vars, machine, running, manager, bounds, Types, MachineOK, ProgressOK, HeldOK, MemOK,
         TurnOK, Requested, Counted
  <2>2. Candidates' = Candidates /\ Oldest' = Oldest
    <3>1. Candidates' = Candidates
      BY <1>8 DEF vars, machine, Candidates
    <3>2. QED
      BY <1>8, <3>1 DEF vars, machine, Oldest
  <2>3. Good'
    BY <1>8, <2>2 DEF vars, machine, running, manager, IInv, Good, Kept, HasJournal, Holding, NotShadows, Living,
         Running, Surveying, Looking, Capturing, Persisting, Publishing, Undoing, UndoLeft, Undone, Decisive
  <2>4. QED
    BY <1>0, <2>1, <2>3 DEF Good, IInv
<1>9. QED
  BY <1>1, <1>2, <1>3, <1>4, <1>5, <1>6, <1>7, <1>8 DEF Next

-----------------------------------------------------------------------------
(* What the invariant says, and what a recovery does *)

LEMMA InvariantGivesTypes ==
  ASSUME IInv
  PROVE  TypeOK
<1>1. MachineOK /\ ProgressOK /\ HeldOK /\ MemOK(mem) /\ Counted
  BY DEF IInv, Types
<1>2. \A d \in {"routing", "xray"} :
        journal[d].state \in {"absent", "usable", "spoiled"} /\ journal[d].snap \in [Names -> Values]
  BY <1>1 DEF MachineOK, Dirs, Journals
<1>3. /\ held.some \in BOOLEAN /\ held.snap \in [Names -> Values] /\ open \subseteq Endpoints
      /\ stale \subseteq Endpoints
  BY <1>1 DEF HeldOK, Held
<1>4. mem.pac \in {0} \cup Endpoints /\ mem.content \in {0} \cup Pacs
  BY <1>1 DEF MemOK
<1>5. /\ reg \in [Names -> Values] /\ told \subseteq Values
      /\ {legacyFirst, lost, outlived} \subseteq BOOLEAN
  BY <1>1 DEF MachineOK
<1>6. QED
  BY <1>1, <1>2, <1>3, <1>4, <1>5 DEF TypeOK, ProgressOK, Counted, Dirs

(* What is being put back has a journal that goes in the end. *)
LEMMA GivingBackUndoes ==
  ASSUME IInv, GivingBack
  PROVE  \E i \in 1..10 : Undoing(i)
<1>1. ProgressOK /\ Living /\ Running
  BY DEF IInv, Types
<1>2. PICK k \in 1..Len(todo) : todo[k] = "rmJournal"
  BY DEF GivingBack
<1>3. op # "none"
  <2>1. CASE todo = <<>>
    BY <1>2, <2>1
  <2>2. QED
    BY <1>1, <2>1 DEF Living
<1>4. ~Publishing
  BY <1>2 DEF Publishing, PublishSteps
<1>5. ~Surveying /\ ~Looking /\ ~Capturing /\ ~Persisting
  <2>1. ASSUME Len(todo) = 1, todo[1] # "rmJournal"
        PROVE  FALSE
    BY <1>2, <2>1
  <2>2. ASSUME Len(todo) = 2, todo[1] # "rmJournal", todo[2] # "rmJournal"
        PROVE  FALSE
    BY <1>2, <2>2
  <2>3. ASSUME Len(todo) = 3, todo[1] # "rmJournal", todo[2] # "rmJournal", todo[3] # "rmJournal"
        PROVE  FALSE
    BY <1>2, <2>3
  <2>4. QED
    BY <2>1, <2>2, <2>3 DEF Surveying, Looking, Capturing, Persisting
<1>6. QED
  BY <1>1, <1>3, <1>4, <1>5 DEF Running

LEMMA InvariantKeepsSettings ==
  ASSUME IInv
  PROVE  UserSettingsAreKept /\ LeftoversAreNotAdopted
<1>1. Types /\ Kept /\ Holding /\ Aged
  BY DEF IInv
<1>2. UserSettingsAreKept
  BY <1>1 DEF Kept, Aged, UserSettingsAreKept
<1>3. ASSUME GivingBack, ~lost, ~outlived, ~(op # "recover" /\ dir # Oldest)
      PROVE  NotShadows(aim)
  <2>1. PICK i \in 1..10 : Undoing(i)
    BY <1>3, GivingBackUndoes
  <2>2. Decisive
    BY <1>3, <2>1 DEF Undoing, Undone, Decisive
  <2>3. aim = user
    BY <1>1, <2>1, <2>2, DecisiveIsTheirs
  <2>4. QED
    BY <2>3 DEF NotShadows, user, Own, IsShadowPac, IsShadowStatic
<1>4. QED
  BY <1>1, <1>2, <1>3 DEF Holding, LeftoversAreNotAdopted

(* The journal a recovery removes last had the settings it has written. *)
LEMMA RecoveryStep ==
  ASSUME IInv, [Next]_vars
  PROVE  RecoveryGivesBack
<1> SUFFICES ASSUME life = "recovering", life' = "up", faults' = 0, ~lost, ~outlived
             PROVE  reg' = user
  BY DEF RecoveryGivesBack
<1>0. Types /\ Kept /\ Counted
  BY DEF IInv, Types
<1>1. ~StepFails
  BY <1>0, WindowsSystemProxyAssumption DEF StepFails, Counted
<1>2. CASE Survey /\ Candidates = {}
  <2>1. reg = user /\ reg' \in {reg, Cleared(reg)}
    BY <1>0, <1>2 DEF Survey, Kept
  <2>2. QED
    BY <2>1, UserIsNotShadows
<1>3. CASE RmJournal /\ op = "recover" /\ Undoing(10)
  <2>1. Decisive
    BY <1>3 DEF Undoing, Undone, Decisive
  <2>2. reg = user
    BY <1>0, <1>3, <2>1, UndoneIsTheirs
  <2>3. QED
    BY <1>3, <2>2 DEF RmJournal
<1>4. QED
  BY <1>1, <1>2, <1>3, RecoveryEndsBy

-----------------------------------------------------------------------------
(* Theorems *)

(* The invariant: every step of apply, restore and recoverWindowsSystemProxy leaves the  *)
(* user's settings in the journal that the next start reads, or in the registry.        *)
THEOREM InvariantHolds == Spec => []IInv
<1>1. Init => IInv
  BY InitInvariant
<1>2. IInv /\ [Next]_vars => IInv'
  BY NextInvariant
<1>3. QED
  BY <1>1, <1>2, PTL DEF Spec

(* The registry, the journals and the proxy manager hold values of their kinds. *)
THEOREM ProxyTypes == Spec => []TypeOK
<1>1. IInv => TypeOK
  BY InvariantGivesTypes
<1>2. QED
  BY <1>1, InvariantHolds, PTL

(* Whatever step of apply, restore or the recovery fails, and wherever the process ends, *)
(* the settings the user had are in the oldest usable journal, or in the registry where  *)
(* there is none, until that journal is spoilt or is removed while a later one stays;    *)
(* and it is removed so only after a step has failed.                                    *)
THEOREM SettingsAreKept == Spec => []UserSettingsAreKept
<1>1. IInv => UserSettingsAreKept
  BY InvariantKeepsSettings
<1>2. QED
  BY <1>1, InvariantHolds, PTL

(* What the manager captured to put back is never a PAC URL or a listener of Shadow's own *)
(* that an earlier run left in the registry; nor is what a restore or a recovery puts     *)
(* back, from whichever journal, but where an older journal stands beside the one it reads. *)
THEOREM LeftoversStayOut == Spec => []LeftoversAreNotAdopted
<1>1. IInv => LeftoversAreNotAdopted
  BY InvariantKeepsSettings
<1>2. QED
  BY <1>1, InvariantHolds, PTL

(* A recovery at the start that ends without a failure has put the user's settings back, *)
(* however many runs were cut short before it, in a recovery as well, and whichever of   *)
(* two journals is the older, with the two exceptions of SettingsAreKept.                *)
THEOREM RecoveryHasGivenBack == Spec => [][RecoveryGivesBack]_vars
<1>1. IInv /\ [Next]_vars => [RecoveryGivesBack]_vars
  BY RecoveryStep
<1>2. QED
  BY <1>1, InvariantHolds, PTL DEF Spec

(* The four together: the proxy settings of the user survive every operation, failure, end *)
(* of the process and quit, and are given back by the first recovery that does not fail,   *)
(* unless the journal that has them was spoilt or outlived by a later one.                 *)
THEOREM SettingsAreAlwaysGivenBack == Spec => SettingsAreGivenBack
BY ProxyTypes, SettingsAreKept, LeftoversStayOut, RecoveryHasGivenBack, PTL DEF SettingsAreGivenBack

-----------------------------------------------------------------------------
(* What is learned of the selected applications *)

(* The cardinality that the learner's module uses is the library's. *)
LEMMA OneCardinality == \A S : Learner!Cardinality(S) = Cardinality(S)
BY DEF Learner!Cardinality, Cardinality

(* The routings name applications and a direct list of names, and no address is called like
   the absence of one. *)
LearnerBounds ==
  /\ "none" \notin RemoteAddresses
  /\ Routings \subseteq [targets : SUBSET LearnedApps, direct : SUBSET CachedNames]

(* The signatures, what is learned, and the mutations, field by field *)
Sigs == [ips : SUBSET (RemoteAddresses \cup {"none"}), domains : SUBSET (CachedNames \cup FamilyNames)]
Leases == [address : RemoteAddresses, domain : CachedNames]
Learnt == [ips : [RemoteAddresses -> 0..Learner!Absent], domains : [CachedNames -> 0..Learner!Absent],
           leases : SUBSET Leases, covered : SUBSET RemoteAddresses]
Learners == [target : SUBSET LearnedApps, learned : Learnt, waiting : SUBSET RemoteAddresses,
             last : Sigs, applied : Sigs, pending : BOOLEAN]
Mutations == [kind : {"apply", "refresh", "stop"}, gen : Nat, req : Routings]
IdleJobs == [kind : {"none"}, gen : {0}, req : Routings, pc : {"idle"}]
RunningJobs == [kind : {"apply", "refresh"}, gen : Nat, req : Routings,
                pc : {"learn", "conns", "literal", "dns", "after", "final"},
                lit : {"no", "done", "failed"}, litSig : Sigs, k : Learnt,
                known : SUBSET RemoteAddresses, conns : SUBSET (LearnedApps \X RemoteAddresses)]
LearnedPacs == [kind : {"pac"}, targets : SUBSET LearnedApps, direct : SUBSET CachedNames,
         ips : SUBSET RemoteAddresses, domains : SUBSET (CachedNames \cup FamilyNames)]

LearnerShapes ==
  /\ learnerActive \in BOOLEAN /\ learnerRequest \in Routings /\ generation \in Nat
  /\ learnerTimer \in 0..generation
  /\ learnerQueue \in Seq(Mutations) /\ learnerJob \in IdleJobs \cup RunningJobs
  /\ learner \in Learners /\ pac \in [kind : {"direct", "other"}] \cup LearnedPacs
  /\ seen \in [RemoteAddresses -> SUBSET LearnedApps] /\ since \in 0..Learner!TTL

(* An apply waits. *)
Owed == \E i \in 1..Len(learnerQueue) : learnerQueue[i].kind = "apply"

(* The last apply that waits is for the routing in use, and so is a refresh of this generation;
   none is of a generation to come. *)
Queued ==
  /\ \A i \in 1..Len(learnerQueue) :
       learnerQueue[i].kind = "apply" /\ (\A j \in (i + 1)..Len(learnerQueue) : learnerQueue[j].kind # "apply")
         => learnerQueue[i].req = learnerRequest
  /\ \A i \in 1..Len(learnerQueue) : learnerQueue[i].kind = "refresh" =>
       learnerQueue[i].gen <= generation /\ (learnerQueue[i].gen = generation => learnerQueue[i].req = learnerRequest)

(* A mutation that was overtaken is followed by the apply that overtook it. *)
Overtaken ==
  ~Learner!Idle =>
    /\ learnerJob.gen <= generation
    /\ learnerJob.kind = "refresh" /\ Learner!current(learnerJob.gen) => learnerJob.req = learnerRequest
    /\ learnerActive /\ (learnerJob.kind = "apply" \/ learnerJob.pc # "learn")
         => (Learner!current(learnerJob.gen) /\ learnerJob.req = learnerRequest) \/ Owed

(* A cycle that learns does it for the applications it serves. *)
Serves ==
  /\ learnerJob.pc \in {"conns", "literal", "dns", "after", "final"} => learner.target = learnerJob.req.targets
  /\ learnerJob.pc \in {"conns", "literal", "dns"} => learnerJob.req.targets # {}
  /\ learnerJob.pc \in {"literal", "dns"} => learnerJob.k = learner.learned
  /\ learnerJob.pc \in {"learn", "conns", "literal"} => learnerJob.lit = "no"
  /\ ~Learner!Idle /\ learnerJob.lit # "no" => learnerJob.req.targets # {}

(* Nothing is learned for nobody. *)
NobodyLearnsNothing ==
  learner.target = {} => /\ learner.learned = Learner!NothingLearned /\ learner.applied = Learner!NoSig

(* What was learned was seen with an application it is learned for. *)
LearnedWasSeen ==
  \A a \in RemoteAddresses : learner.learned.ips[a] # Learner!Absent => seen[a] \cap learner.target # {}

(* No learned name is older than the last cycle that learned. *)
AgesAreKnown ==
  \A d \in CachedNames : learner.learned.domains[d] # Learner!Absent => learner.learned.domains[d] <= since

Committed == learnerJob.pc \in {"literal", "dns", "final"} \/ (learnerJob.pc = "after" /\ Learner!current(learnerJob.gen))

(* What a cycle has learned keeps clear of the direct list it serves. *)
KeepsClear ==
  Committed =>
    /\ \A d \in CachedNames : d \in learnerJob.req.direct => learner.learned.domains[d] = Learner!Absent
    /\ \A e \in learner.learned.leases : e.domain \notin learnerJob.req.direct

(* The last signature is of what is learned. *)
SignatureIsTrue ==
  Committed /\ learnerJob.req.targets # {} =>
    learner.last = Learner!buildProcessRouteSignature(learner.target, learner.learned)

(* The pac is of a signature. *)
InForce(sig) == pac.ips = sig.ips /\ pac.domains = sig.domains

(* What became of the literal addresses is what the cycle remembers of it. *)
LiteralIsRemembered ==
  learnerJob.pc \in {"dns", "after"} =>
    /\ learnerJob.lit = "done" => pac.kind = "pac" /\ InForce(learnerJob.litSig)
    /\ learnerJob.lit = "failed" => learner.pending

(* What was applied is in force, unless a publication is owed. *)
AppliedIsInForce ==
  pac.kind = "pac" /\ ~learner.pending /\ learner.applied # Learner!NoSig => InForce(learner.applied)

ApplyOwes == learnerJob.pc = "final" /\ learnerJob.kind = "apply" /\ learnerJob.req.targets # {} => learner.pending

(* Once the applies are through the monitor goes on, and something was learned or is owed. *)
Settled ==
  learnerActive /\ ~Owed /\ (Learner!Idle \/ learnerJob.kind = "refresh") /\ pac.kind = "pac" /\ learnerRequest.targets # {} =>
    /\ \/ learnerTimer = generation
       \/ \E i \in 1..Len(learnerQueue) : learnerQueue[i].kind = "refresh" /\ learnerQueue[i].gen = generation
       \/ ~Learner!Idle /\ Learner!current(learnerJob.gen)
    /\ \/ learner.pending \/ learner.last # Learner!NoSig \/ learner.applied # Learner!NoSig
       \/ learnerJob.pc = "conns"

LearnerInv ==
  /\ LearnerShapes /\ Queued /\ Overtaken /\ Serves /\ NobodyLearnsNothing /\ LearnedWasSeen
  /\ AgesAreKnown /\ KeepsClear /\ SignatureIsTrue /\ LiteralIsRemembered /\ AppliedIsInForce
  /\ ApplyOwes /\ Settled /\ Learner!PacIsForItsRules /\ Learner!DirectListIsKept

-----------------------------------------------------------------------------
(* The operators *)

(* A signature that was built is one, and is not the signature of nothing. *)
LEMMA SignatureIsOne ==
  ASSUME LearnerBounds, NEW t, NEW k \in Learnt
  PROVE  /\ Learner!buildProcessRouteSignature(t, k) \in Sigs
         /\ Learner!buildProcessRouteSignature(t, k) # Learner!NoSig
         /\ Learner!buildProcessRouteSignature(t, k).ips = Learner!currentIps(k)
         /\ Learner!buildProcessRouteSignature(t, k).domains = Learner!currentDomains(t, k)
<1>1. Learner!currentIps(k) \subseteq RemoteAddresses
  BY DEF Learner!currentIps, Learner!Present, Learnt
<1>2. Learner!Present(k.domains) \subseteq CachedNames
  BY DEF Learner!Present, Learnt
<1>3. {l.domain : l \in k.leases} \subseteq CachedNames
  BY DEF Learnt, Leases
<1>4. Learner!Hints(t) \subseteq FamilyNames
  BY DEF Learner!Hints
<1>5. Learner!currentDomains(t, k) \subseteq CachedNames \cup FamilyNames
  BY <1>2, <1>3, <1>4 DEF Learner!currentDomains
<1>6. QED
  BY <1>1, <1>5 DEF Learner!buildProcessRouteSignature, Sigs, Learner!NoSig, LearnerBounds

LEMMA NoSigIsOne == Learner!NoSig \in Sigs
BY DEF Learner!NoSig, Sigs

LEMMA ClearedIsOne ==
  /\ Learner!Cleared \in Learners /\ Learner!NothingLearned \in Learnt
  /\ Learner!Cleared.target = {} /\ Learner!Cleared.learned = Learner!NothingLearned
  /\ Learner!Cleared.applied = Learner!NoSig /\ ~Learner!Cleared.pending
<1>1. Learner!NothingLearned \in Learnt
  BY DEF Learner!NothingLearned, Learnt, Learner!Absent
<1>2. QED
  BY <1>1, NoSigIsOne DEF Learner!Cleared, Learners

(* What a commit changes *)
LEMMA Commits ==
  ASSUME LearnerBounds, NEW l \in Learners, NEW k \in Learnt
  PROVE  /\ Learner!commit(l, k) \in Learners
         /\ Learner!commit(l, k).target = l.target /\ Learner!commit(l, k).learned = k
         /\ Learner!commit(l, k).last = Learner!buildProcessRouteSignature(l.target, k)
         /\ Learner!commit(l, k).applied = l.applied /\ Learner!commit(l, k).pending = l.pending
<1>1. Learner!buildProcessRouteSignature(l.target, k) \in Sigs
  BY SignatureIsOne
<1>2. QED
  BY <1>1 DEF Learner!commit, Learners

(* What the first phase keeps and adds *)
LEMMA Observes ==
  ASSUME NEW l \in Learners, NEW direct, NEW conns
  PROVE  LET k == Learner!observed(l, direct, conns) IN
         /\ k \in Learnt
         /\ \A a \in RemoteAddresses : k.ips[a] # Learner!Absent =>
              (\E c \in conns : c[2] = a) \/ l.learned.ips[a] # Learner!Absent
         /\ \A d \in CachedNames : k.domains[d] =
              IF l.learned.domains[d] >= Learner!TTL \/ d \in direct THEN Learner!Absent ELSE 0
         /\ k.leases \subseteq l.learned.leases
         /\ \A e \in k.leases : e.domain \notin direct
<1> DEFINE k == Learner!observed(l, direct, conns)
<1>1. l.learned \in Learnt
  BY DEF Learners
<1>2. Learner!renew(l.learned.ips, {}) \in [RemoteAddresses -> 0..Learner!Absent]
  BY <1>1 DEF Learner!renew, Learnt, Learner!Absent
<1>3. \A a \in RemoteAddresses : Learner!renew(l.learned.ips, {})[a] # Learner!Absent => l.learned.ips[a] # Learner!Absent
  BY <1>1 DEF Learner!renew, Learnt, Learner!Absent, Learner!TTL
<1>4. Learner!renew(l.learned.domains, direct) \in [CachedNames -> 0..Learner!Absent]
  BY <1>1 DEF Learner!renew, Learnt, Learner!Absent
<1>5. \A d \in CachedNames : Learner!renew(l.learned.domains, direct)[d] =
        IF l.learned.domains[d] >= Learner!TTL \/ d \in direct THEN Learner!Absent ELSE 0
  BY <1>1 DEF Learner!renew, Learnt
<1>6. /\ k.ips \in [RemoteAddresses -> 0..Learner!Absent]
      /\ \A a \in RemoteAddresses : k.ips[a] # Learner!Absent => (\E c \in conns : c[2] = a) \/ l.learned.ips[a] # Learner!Absent
  BY <1>2, <1>3 DEF Learner!observed, Learner!Absent
<1>7. k.domains = Learner!renew(l.learned.domains, direct)
  BY DEF Learner!observed
<1>8. /\ k.leases \subseteq l.learned.leases /\ \A e \in k.leases : e.domain \notin direct
      /\ k.covered \subseteq l.learned.covered
  BY DEF Learner!observed
<1>9. k = [ips |-> k.ips, domains |-> k.domains, leases |-> k.leases, covered |-> k.covered]
  BY DEF Learner!observed
<1>10. k \in Learnt
  BY <1>1, <1>4, <1>6, <1>7, <1>8, <1>9 DEF Learnt
<1>11. QED
  BY <1>5, <1>6, <1>7, <1>8, <1>10

(* What the second phase keeps and adds *)
LEMMA Enriches ==
  ASSUME NEW k \in Learnt, NEW known, NEW direct, NEW targets, NEW conns, NEW lookups,
         NEW entries, entries \subseteq RemoteAddresses \X CachedNames
  PROVE  LET r == Learner!enriched(k, known, direct, targets, conns, lookups, entries) IN
         /\ r \in Learnt
         /\ \A a \in RemoteAddresses : r.ips[a] # Learner!Absent => k.ips[a] # Learner!Absent
         /\ \A d \in CachedNames : r.domains[d] = k.domains[d] \/ (d \notin direct /\ r.domains[d] = 0)
         /\ \A x \in r.leases : x \in k.leases \/ x.domain \notin direct
<1> DEFINE r == Learner!enriched(k, known, direct, targets, conns, lookups, entries)
           names(a) == {e[2] : e \in {x \in entries : x[1] = a}}
           owners(a) == {c[1] : c \in {x \in conns : x[2] = a}}
           newCovered == {a \in RemoteAddresses : owners(a) \cap ProfiledApps # {} /\ names(a) \cap FamilyNames # {}}
           restricted(a) == a \in newCovered \cup k.covered /\ owners(a) \subseteq ProfiledApps
           all == UNION {IF restricted(a) THEN names(a) \cap FamilyNames ELSE names(a) : a \in RemoteAddresses}
           fromDns == all \ (Learner!Hints(targets) \cup direct)
<1>1. \A a : names(a) \subseteq CachedNames
  OBVIOUS
<1>2. r = [ips |-> r.ips, domains |-> r.domains, leases |-> r.leases, covered |-> r.covered]
  BY DEF Learner!enriched
<1>3. r.ips \in [RemoteAddresses -> 0..Learner!Absent] /\ \A a \in RemoteAddresses : r.ips[a] # Learner!Absent => k.ips[a] # Learner!Absent
  BY DEF Learner!enriched, Learnt, Learner!Absent
<1>4. /\ r.domains \in [CachedNames -> 0..Learner!Absent]
      /\ \A d \in CachedNames : r.domains[d] = k.domains[d] \/ (d \notin direct /\ r.domains[d] = 0)
  <2> DEFINE domains == [d \in CachedNames |-> IF d \in fromDns THEN 0 ELSE k.domains[d]]
  <2>a. \E i, l, c : r = [ips |-> i, domains |-> domains, leases |-> l, covered |-> c]
    <3> DEFINE sure(a) == /\ a \in lookups \ known /\ a \notin newCovered \cup k.covered
                          /\ Learner!Cardinality(owners(a)) = 1 /\ owners(a) \cap ProfiledApps = {}
                          /\ Learner!Cardinality(names(a)) = 1 /\ names(a) \cap direct = {}
               ips == [a \in RemoteAddresses |-> IF a \in newCovered /\ owners(a) \subseteq ProfiledApps
                                        THEN Learner!Absent ELSE k.ips[a]]
               leases == k.leases \cup {[address |-> a, domain |-> CHOOSE d \in names(a) : TRUE] :
                                          a \in {x \in RemoteAddresses : sure(x)}}
    <3>1. r = [ips |-> ips, domains |-> domains, leases |-> leases, covered |-> k.covered \cup newCovered]
      BY DEF Learner!enriched
    <3>2. QED
      <4> HIDE DEF ips, leases, domains, r
      <4>1. QED
        BY <3>1
  <2>1. r.domains = domains
    <3> HIDE DEF domains, r
    <3>1. QED
      BY <2>a
  <2>2. fromDns \cap direct = {}
    <3> HIDE DEF all
    <3>1. QED
      OBVIOUS
  <2> HIDE DEF fromDns, r
  <2>3. k.domains \in [CachedNames -> 0..Learner!Absent]
    BY DEF Learnt
  <2>4. QED
    BY <2>1, <2>2, <2>3 DEF Learner!Absent
<1>5. r.covered \subseteq RemoteAddresses
  BY DEF Learner!enriched, Learnt
<1>6. \A x \in r.leases : x \in k.leases
          \/ \E a \in RemoteAddresses : /\ x = [address |-> a, domain |-> CHOOSE d \in names(a) : TRUE]
                                        /\ Learner!Cardinality(names(a)) = 1
                                        /\ names(a) \cap direct = {}
  BY DEF Learner!enriched
<1>7. ASSUME NEW a \in RemoteAddresses, Learner!Cardinality(names(a)) = 1, names(a) \cap direct = {}
      PROVE  (CHOOSE d \in names(a) : TRUE) \in CachedNames \ direct
  <2>1. names(a) # {}
    <3> HIDE DEF names
    <3>1. QED
      BY <1>7, FS_EmptySet, OneCardinality
  <2>2. QED
    BY <2>1, <1>1, <1>7
<1>8. \A x \in r.leases : x \in k.leases \/ (x \in Leases /\ x.domain \notin direct)
  <2> HIDE DEF names, r
  <2>1. QED
    BY <1>6, <1>7 DEF Leases
<1>9. r.leases \subseteq Leases
  <2> HIDE DEF r
  <2>1. QED
    BY <1>8 DEF Learnt
<1>10. r \in Learnt
  <2> HIDE DEF r
  <2>1. QED
    BY <1>2, <1>3, <1>4, <1>5, <1>9 DEF Learnt
<1>11. QED
  BY <1>3, <1>4, <1>8, <1>10

(* What a failed cycle keeps *)
LEMMA Prunes ==
  ASSUME LearnerBounds, NEW l \in Learners, NEW direct
  PROVE  LET p == Learner!pruned(l, direct) IN
         /\ p \in Learners /\ p.target = l.target
         /\ p.applied = l.applied /\ p.pending = l.pending
         /\ p.last = Learner!buildProcessRouteSignature(p.target, p.learned)
         /\ \A a \in RemoteAddresses : p.learned.ips[a] # Learner!Absent => l.learned.ips[a] # Learner!Absent
         /\ \A d \in CachedNames : p.learned.domains[d] =
              IF l.learned.domains[d] >= Learner!TTL \/ d \in direct THEN Learner!Absent ELSE l.learned.domains[d]
         /\ \A e \in p.learned.leases : e.domain \notin direct
<1> DEFINE old == l.learned
           keep(age, drop) == [x \in DOMAIN age |-> IF age[x] >= Learner!TTL \/ x \in drop THEN Learner!Absent ELSE age[x]]
           k == [old EXCEPT !.ips = keep(@, {}), !.domains = keep(@, direct),
                            !.leases = {e \in @ : e.domain \notin direct},
                            !.covered = IF since >= Learner!TTL THEN {} ELSE @]
<1>1. old \in Learnt
  BY DEF Learners
<1>2. /\ keep(old.ips, {}) \in [RemoteAddresses -> 0..Learner!Absent]
      /\ \A a \in RemoteAddresses : keep(old.ips, {})[a] # Learner!Absent => old.ips[a] # Learner!Absent
  BY <1>1 DEF Learnt, Learner!Absent, Learner!TTL
<1>3. /\ keep(old.domains, direct) \in [CachedNames -> 0..Learner!Absent]
      /\ \A d \in CachedNames : keep(old.domains, direct)[d] =
           IF old.domains[d] >= Learner!TTL \/ d \in direct THEN Learner!Absent ELSE old.domains[d]
  BY <1>1 DEF Learnt, Learner!Absent, Learner!TTL
<1>4. /\ k.ips = keep(old.ips, {}) /\ k.domains = keep(old.domains, direct)
      /\ k.leases = {e \in old.leases : e.domain \notin direct}
  <2> HIDE DEF keep, old
  <2>1. QED
    BY <1>1 DEF Learnt
<1>5. k \in Learnt
  <2> HIDE DEF keep, old
  <2>1. QED
    BY <1>1, <1>2, <1>3 DEF Learnt
<1>6. Learner!pruned(l, direct) = Learner!commit(l, k)
  BY DEF Learner!pruned
<1>7. /\ Learner!commit(l, k) \in Learners
      /\ Learner!commit(l, k).target = l.target /\ Learner!commit(l, k).learned = k
      /\ Learner!commit(l, k).last = Learner!buildProcessRouteSignature(l.target, k)
      /\ Learner!commit(l, k).applied = l.applied /\ Learner!commit(l, k).pending = l.pending
  BY <1>5, Commits
<1>8. QED
  <2> HIDE DEF k, keep
  <2>1. QED
    BY <1>2, <1>3, <1>4, <1>6, <1>7

(* The addresses the learner knows *)
LEMMA KnowsAddresses ==
  ASSUME NEW k \in Learnt
  PROVE  Learner!Known(k) \subseteq RemoteAddresses /\ Learner!currentIps(k) \subseteq RemoteAddresses
<1>1. Learner!currentIps(k) \subseteq RemoteAddresses
  BY DEF Learner!currentIps, Learner!Present, Learnt
<1>2. {e.address : e \in k.leases} \subseteq RemoteAddresses
  BY DEF Learnt, Leases
<1>3. QED
  BY <1>1, <1>2 DEF Learner!Known, Learnt

-----------------------------------------------------------------------------
(* The queue of mutations *)

(* What waits *)
LEMMA Waits ==
  ASSUME LearnerShapes
  PROVE  \A i \in 1..Len(learnerQueue) : learnerQueue[i] \in Mutations /\ learnerQueue[i].gen \in Nat
<1>1. \A i \in 1..Len(learnerQueue) : learnerQueue[i] \in Mutations
  BY DEF LearnerShapes
<1>2. \A m \in Mutations : m.gen \in Nat
  BY DEF Mutations
<1>3. QED
  BY <1>1, <1>2

(* What is appended *)
LEMMA Appends ==
  ASSUME LearnerShapes, NEW m \in Mutations, learnerQueue' = Append(learnerQueue, m)
  PROVE  /\ learnerQueue' \in Seq(Mutations) /\ Len(learnerQueue') = Len(learnerQueue) + 1
         /\ learnerQueue'[Len(learnerQueue) + 1] = m
         /\ \A i \in 1..Len(learnerQueue) : learnerQueue'[i] = learnerQueue[i]
         /\ Owed' <=> (Owed \/ m.kind = "apply")
<1>1. /\ learnerQueue' \in Seq(Mutations) /\ Len(learnerQueue') = Len(learnerQueue) + 1
      /\ learnerQueue'[Len(learnerQueue) + 1] = m
      /\ \A i \in 1..Len(learnerQueue) : learnerQueue'[i] = learnerQueue[i]
  BY DEF LearnerShapes
<1>2. Len(learnerQueue) \in Nat
  BY DEF LearnerShapes
<1>3. QED
  BY <1>1, <1>2 DEF Owed

(* What is taken *)
LEMMA Takes ==
  ASSUME LearnerShapes, learnerQueue # <<>>, learnerQueue' = Tail(learnerQueue)
  PROVE  /\ learnerQueue' \in Seq(Mutations) /\ Head(learnerQueue) \in Mutations
         /\ Head(learnerQueue) = learnerQueue[1]
         /\ Len(learnerQueue') = Len(learnerQueue) - 1 /\ Len(learnerQueue) \in Nat
         /\ Len(learnerQueue) >= 1
         /\ \A i \in 1..Len(learnerQueue') : learnerQueue'[i] = learnerQueue[i + 1]
         /\ Owed <=> (Owed' \/ Head(learnerQueue).kind = "apply")
<1>1. /\ learnerQueue' \in Seq(Mutations) /\ Head(learnerQueue) \in Mutations
      /\ Head(learnerQueue) = learnerQueue[1]
      /\ Len(learnerQueue') = Len(learnerQueue) - 1 /\ Len(learnerQueue) \in Nat
      /\ Len(learnerQueue) >= 1
      /\ \A i \in 1..Len(learnerQueue') : learnerQueue'[i] = learnerQueue[i + 1]
  BY DEF LearnerShapes
<1>2. Owed' => Owed
  BY <1>1 DEF Owed
<1>3. Head(learnerQueue).kind = "apply" => Owed
  BY <1>1 DEF Owed
<1>4. ASSUME Owed, Head(learnerQueue).kind # "apply" PROVE Owed'
  <2>1. PICK i \in 1..Len(learnerQueue) : learnerQueue[i].kind = "apply"
    BY <1>4 DEF Owed
  <2>2. i - 1 \in 1..Len(learnerQueue')
    BY <2>1, <1>1, <1>4
  <2>3. learnerQueue'[i - 1].kind = "apply"
    BY <2>1, <2>2, <1>1
  <2>4. QED
    BY <2>2, <2>3 DEF Owed
<1>5. QED
  BY <1>1, <1>2, <1>3, <1>4

(* What is taken leaves what waits as it was. *)
LEMMA TakingKeepsQueued ==
  ASSUME LearnerShapes,
         Queued, learnerQueue # <<>>, learnerQueue' = Tail(learnerQueue),
         learnerRequest' = learnerRequest,
         generation' \in Nat, generation <= generation'
  PROVE  Queued'
<1>1. /\ \A i \in 1..Len(learnerQueue') : learnerQueue'[i] = learnerQueue[i + 1]
      /\ Len(learnerQueue') = Len(learnerQueue) - 1 /\ Len(learnerQueue) \in Nat
      /\ learnerQueue' \in Seq(Mutations)
  BY Takes
<1>2. \A i \in 1..Len(learnerQueue') : i + 1 \in 1..Len(learnerQueue)
  BY <1>1
<1>3. ASSUME NEW i \in 1..Len(learnerQueue'), learnerQueue'[i].kind = "apply",
             \A j \in (i + 1)..Len(learnerQueue') : learnerQueue'[j].kind # "apply"
      PROVE  learnerQueue'[i].req = learnerRequest'
  <2>1. ASSUME NEW j \in (i + 2)..Len(learnerQueue) PROVE learnerQueue[j].kind # "apply"
    <3>1. /\ j - 1 \in (i + 1)..Len(learnerQueue') /\ j - 1 \in 1..Len(learnerQueue')
          /\ learnerQueue[j] = learnerQueue'[j - 1]
      BY <1>1
    <3>2. QED
      BY <3>1, <1>3
  <2>2. learnerQueue[i + 1].req = learnerRequest
    <3> DEFINE n == i + 1
    <3>1. n \in 1..Len(learnerQueue) /\ learnerQueue[n].kind = "apply"
      BY <1>1, <1>2, <1>3
    <3>2. (n + 1)..Len(learnerQueue) = (i + 2)..Len(learnerQueue)
      BY <1>1
    <3>3. \A j \in (n + 1)..Len(learnerQueue) : learnerQueue[j].kind # "apply"
      BY <2>1, <3>2
    <3> HIDE DEF n
    <3>4. learnerQueue[n].req = learnerRequest
      BY <3>1, <3>3 DEF Queued
    <3>5. QED
      BY <3>4 DEF n
  <2>3. QED
    BY <2>2, <1>1
<1>4. ASSUME NEW i \in 1..Len(learnerQueue'), learnerQueue'[i].kind = "refresh"
      PROVE  learnerQueue'[i].gen <= generation' /\ (learnerQueue'[i].gen = generation' => learnerQueue'[i].req = learnerRequest')
  <2>1. learnerQueue[i + 1].gen <= generation /\ (learnerQueue[i + 1].gen = generation => learnerQueue[i + 1].req = learnerRequest)
    BY <1>1, <1>2, <1>4 DEF Queued
  <2>2. learnerQueue[i + 1].gen \in Nat
    BY <1>2, Waits
  <2>3. QED
    BY <2>1, <2>2, <1>1 DEF LearnerShapes
<1>5. QED
  BY <1>3, <1>4 DEF Queued

(* What is appended for the routing in use leaves it in order. *)
LEMMA AppendingKeepsQueued ==
  ASSUME LearnerShapes, Queued, NEW m \in Mutations, learnerQueue' = Append(learnerQueue, m),
         generation' \in Nat, generation <= generation',
         m.kind = "apply" => m.req = learnerRequest',
         m.kind # "apply" => learnerRequest' = learnerRequest,
         m.kind = "refresh" => m.gen <= generation' /\ (m.gen = generation' => m.req = learnerRequest'),
         generation' = generation => learnerRequest' = learnerRequest
  PROVE  Queued'
<1>1. /\ learnerQueue' \in Seq(Mutations) /\ Len(learnerQueue') = Len(learnerQueue) + 1
      /\ learnerQueue'[Len(learnerQueue) + 1] = m
      /\ \A i \in 1..Len(learnerQueue) : learnerQueue'[i] = learnerQueue[i]
      /\ Len(learnerQueue) \in Nat
  BY Appends DEF LearnerShapes
<1>2. ASSUME NEW i \in 1..Len(learnerQueue'), learnerQueue'[i].kind = "apply",
             \A j \in (i + 1)..Len(learnerQueue') : learnerQueue'[j].kind # "apply"
      PROVE  learnerQueue'[i].req = learnerRequest'
  <2>1. CASE i = Len(learnerQueue) + 1
    BY <2>1, <1>1, <1>2
  <2>2. CASE i \in 1..Len(learnerQueue)
    <3>1. m.kind # "apply"
      BY <2>2, <1>1, <1>2
    <3>2. \A j \in (i + 1)..Len(learnerQueue) : learnerQueue[j].kind # "apply"
      BY <2>2, <1>1, <1>2
    <3>3. learnerQueue[i].req = learnerRequest
      BY <2>2, <3>2, <1>1, <1>2 DEF Queued
    <3>4. QED
      BY <2>2, <3>1, <3>3, <1>1
  <2>3. QED
    BY <2>1, <2>2, <1>1
<1>3. ASSUME NEW i \in 1..Len(learnerQueue'), learnerQueue'[i].kind = "refresh"
      PROVE  learnerQueue'[i].gen <= generation' /\ (learnerQueue'[i].gen = generation' => learnerQueue'[i].req = learnerRequest')
  <2>1. CASE i = Len(learnerQueue) + 1
    BY <2>1, <1>1, <1>3
  <2>2. CASE i \in 1..Len(learnerQueue)
    <3>1. learnerQueue[i].gen <= generation /\ (learnerQueue[i].gen = generation => learnerQueue[i].req = learnerRequest)
      BY <2>2, <1>1, <1>3 DEF Queued
    <3>2. learnerQueue[i].gen \in Nat /\ generation \in Nat
      BY <2>2, Waits DEF LearnerShapes
    <3>3. QED
      BY <2>2, <3>1, <3>2, <1>1
  <2>3. QED
    BY <2>1, <2>2, <1>1
<1>4. QED
  BY <1>2, <1>3 DEF Queued

-----------------------------------------------------------------------------
(* The mutation that runs *)

LEMMA Runs ==
  ASSUME LearnerShapes
  PROVE  /\ ~Learner!Idle <=> learnerJob \in RunningJobs
         /\ Learner!Idle => learnerJob.kind = "none"
BY DEF LearnerShapes, Learner!Idle, IdleJobs, RunningJobs

(* What is known of the cycle, of what it learned and of the pac *)
Learning ==
  /\ Serves /\ NobodyLearnsNothing /\ LearnedWasSeen /\ AgesAreKnown /\ KeepsClear
  /\ SignatureIsTrue /\ LiteralIsRemembered /\ AppliedIsInForce /\ ApplyOwes
  /\ Learner!PacIsForItsRules /\ Learner!DirectListIsKept

(* ... stays where neither changes and the generation moves on. *)
LEMMA LearningKept ==
  ASSUME LearnerInv,
         UNCHANGED <<learnerJob, learner, pac, seen, since>>, generation' = generation \/ generation' > generation
  PROVE  Learning'
<1>1. Committed' => Committed
  <2>1. ~Learner!Idle => learnerJob.gen \in Nat /\ learnerJob.gen <= generation
    BY Runs DEF LearnerInv, Overtaken, RunningJobs
  <2>2. QED
    BY <2>1 DEF Committed, Learner!current, Learner!Idle, LearnerInv, LearnerShapes
<1>2. Serves' /\ ApplyOwes' /\ LiteralIsRemembered'
  BY DEF LearnerInv, Serves, ApplyOwes, LiteralIsRemembered, InForce, Learner!Idle
<1>3. NobodyLearnsNothing' /\ LearnedWasSeen' /\ AgesAreKnown'
  BY DEF LearnerInv, NobodyLearnsNothing, LearnedWasSeen, AgesAreKnown
<1>4. KeepsClear' /\ SignatureIsTrue'
  BY <1>1 DEF LearnerInv, KeepsClear, SignatureIsTrue, Learner!buildProcessRouteSignature,
         Learner!currentIps, Learner!currentDomains
<1>5. AppliedIsInForce' /\ Learner!PacIsForItsRules' /\ Learner!DirectListIsKept'
  BY DEF LearnerInv, AppliedIsInForce, InForce, Learner!PacIsForItsRules, Learner!DirectListIsKept
<1>6. QED
  BY <1>2, <1>3, <1>4, <1>5 DEF Learning

(* An end of a mutation leaves what is learned to be looked at. *)
LEMMA LearningEnds ==
  ASSUME learnerJob'.pc = "idle", NobodyLearnsNothing', LearnedWasSeen', AgesAreKnown',
         AppliedIsInForce',
         Learner!PacIsForItsRules', Learner!DirectListIsKept'
  PROVE  Learning'
BY DEF Learning, Learner!Idle, Serves, Committed, KeepsClear, SignatureIsTrue,
       LiteralIsRemembered, ApplyOwes

(* Something was learned, or is owed. *)
Remembers == learner.pending \/ learner.last # Learner!NoSig \/ learner.applied # Learner!NoSig

(* The mutation goes on. *)
LEMMA GoesOn ==
  ASSUME LearnerInv,
         ~Learner!Idle, learnerJob' \in RunningJobs, learnerJob'.kind = learnerJob.kind,
         learnerJob'.gen = learnerJob.gen, learnerJob'.req = learnerJob.req,
         UNCHANGED <<learnerActive, learnerRequest, generation, learnerQueue, learnerTimer>>,
         learnerJob.pc = "learn" => Learner!current(learnerJob.gen),
         learnerJob.kind = "refresh" /\ learnerActive /\ Learner!current(learnerJob.gen) /\ pac'.kind = "pac" /\ learnerRequest.targets # {}
           => Remembers' \/ learnerJob'.pc = "conns"
  PROVE  Queued' /\ Overtaken' /\ Settled'
<1>1. Queued' /\ (Owed' <=> Owed)
  BY DEF LearnerInv, Queued, Owed
<1>2. learnerJob'.pc # "idle" /\ learnerJob \in RunningJobs /\ (Learner!current(learnerJob.gen)' <=> Learner!current(learnerJob.gen))
  BY Runs DEF RunningJobs, LearnerInv, Learner!current
<1>3. /\ learnerJob.kind = "refresh" /\ Learner!current(learnerJob.gen) => learnerJob.req = learnerRequest
      /\ learnerActive => (Learner!current(learnerJob.gen) /\ learnerJob.req = learnerRequest) \/ Owed
  BY <1>2 DEF LearnerInv, Overtaken, RunningJobs
<1>4. Overtaken'
  BY <1>1, <1>2, <1>3 DEF LearnerInv, Overtaken, Learner!current
<1>5. Settled'
  BY <1>1, <1>2, <1>3 DEF Settled, Remembers, Learner!current, Learner!Idle
<1>6. QED
  BY <1>1, <1>4, <1>5

(* The mutation is over. *)
LEMMA IsOver ==
  ASSUME LearnerInv, ~Learner!Idle, Learner!Ends(generation),
         UNCHANGED <<learnerActive, learnerRequest, learnerQueue>>,
         learnerJob.kind = "apply" /\ Learner!current(learnerJob.gen) /\ learnerActive => pac'.kind # "pac" \/ learnerJob.req.targets = {},
         learnerJob.kind = "refresh" /\ learnerJob.pc = "learn" => ~(Learner!current(learnerJob.gen) /\ learnerActive) /\ UNCHANGED <<learner, pac>>,
         learnerJob.kind = "refresh" /\ learnerActive /\ Learner!current(learnerJob.gen) /\ pac'.kind = "pac" /\ learnerRequest.targets # {}
           => Remembers'
  PROVE  Queued' /\ Overtaken' /\ Settled'
<1>1. Queued' /\ (Owed' <=> Owed) /\ generation' = generation
  BY DEF LearnerInv, Queued, Owed, Learner!Ends
<1>2. /\ learnerJob'.pc = "idle" /\ learnerJob'.kind = "none" /\ Learner!Idle'
      /\ learnerJob \in RunningJobs
  BY Runs DEF Learner!Ends, Learner!NoJob, Learner!Idle, LearnerInv
<1>3. Overtaken'
  BY <1>2 DEF Overtaken
<1>4. ASSUME learnerActive, ~Owed, pac'.kind = "pac", learnerRequest.targets # {}
      PROVE  /\ \/ learnerTimer' = generation
                \/ \E i \in 1..Len(learnerQueue) : learnerQueue[i].kind = "refresh" /\ learnerQueue[i].gen = generation
             /\ Remembers'
  <2>1. learnerJob.kind = "refresh"
    <3>1. CASE learnerJob.kind = "apply"
      BY <3>1, <1>4 DEF LearnerInv, Overtaken
    <3>2. QED
      BY <3>1, <1>2 DEF RunningJobs
  <2>2. CASE learnerJob.pc = "learn"
    <3>1. /\ ~Learner!current(learnerJob.gen) /\ UNCHANGED <<learner, pac>>
          /\ learnerTimer' = learnerTimer
      BY <2>1, <2>2, <1>4 DEF Learner!Ends, Learner!current
    <3>2. QED
      BY <2>1, <2>2, <3>1, <1>4 DEF LearnerInv, Settled, Remembers
  <2>3. CASE learnerJob.pc # "learn"
    <3>1. Learner!current(learnerJob.gen)
      BY <2>3, <1>4 DEF LearnerInv, Overtaken
    <3>2. learnerTimer' = generation
      BY <2>1, <3>1, <1>4 DEF Learner!Ends, Learner!current
    <3>3. QED
      BY <2>1, <3>1, <3>2, <1>4
  <2>4. QED
    BY <2>2, <2>3
<1>5. Settled'
  BY <1>1, <1>2, <1>4 DEF Settled, Remembers
<1>6. QED
  BY <1>1, <1>3, <1>5

(* An apply of rules that name applications starts the monitor. *)
LEMMA IsMonitored ==
  ASSUME LearnerInv, ~Learner!Idle, Learner!Monitored,
         UNCHANGED <<learnerActive, learnerRequest, learnerQueue>>, Remembers'
  PROVE  Queued' /\ Overtaken' /\ Settled'
<1>1. /\ learnerJob'.pc = "idle" /\ learnerJob'.kind = "none" /\ Learner!Idle'
      /\ generation' = generation + 1 /\ learnerTimer' = generation' /\ generation \in Nat
  BY DEF Learner!Monitored, Learner!NoJob, Learner!Idle, LearnerInv, LearnerShapes
<1>2. Queued'
  <2>1. ASSUME NEW i \in 1..Len(learnerQueue), learnerQueue[i].kind = "refresh"
        PROVE learnerQueue[i].gen < generation'
    <3>1. learnerQueue[i].gen \in Nat /\ learnerQueue[i].gen <= generation
      BY <2>1, Waits DEF LearnerInv, Queued
    <3>2. QED
      BY <3>1, <1>1
  <2>2. \A i \in 1..Len(learnerQueue) : learnerQueue[i].kind = "refresh" => learnerQueue[i].gen \in Nat
    BY Waits DEF LearnerInv
  <2>3. \A i \in 1..Len(learnerQueue) : learnerQueue[i].kind = "refresh" =>
          learnerQueue[i].gen <= generation' /\ learnerQueue[i].gen # generation'
    <3>1. generation' \in Nat
      BY <1>1
    <3>2. QED
      BY <2>1, <2>2, <3>1
  <2>4. \A i \in 1..Len(learnerQueue) :
          learnerQueue[i].kind = "apply" /\ (\A j \in (i + 1)..Len(learnerQueue) : learnerQueue[j].kind # "apply")
            => learnerQueue[i].req = learnerRequest
    BY DEF LearnerInv, Queued
  <2>5. QED
    BY <2>3, <2>4 DEF Queued
<1>3. Overtaken' /\ Settled'
  BY <1>1 DEF Overtaken, Settled, Remembers
<1>4. QED
  BY <1>2, <1>3

-----------------------------------------------------------------------------
(* The steps outside a cycle *)

LEMMA UpdateRoutingStep ==
  ASSUME LearnerBounds, LearnerInv, NEW r \in Routings, Learner!updateRouting(r)
  PROVE  LearnerInv'
<1> DEFINE m == [kind |-> "apply", gen |-> 0, req |-> r]
<1>1. m \in Mutations /\ m.kind = "apply" /\ m.req = r
  BY DEF Mutations
<1>2. /\ learnerQueue' = Append(learnerQueue, m) /\ learnerRequest' = r
      /\ generation' = generation + 1 /\ learnerTimer' = 0
      /\ UNCHANGED <<learnerActive, learnerJob, learner, pac, seen, since>>
  BY DEF Learner!updateRouting
<1> HIDE DEF m
<1>3. generation \in Nat /\ generation' \in Nat /\ generation' > generation /\ LearnerShapes
  BY <1>2 DEF LearnerInv, LearnerShapes
<1>4. learnerQueue' \in Seq(Mutations) /\ Owed'
  BY <1>1, <1>2, <1>3, Appends
<1>5. LearnerShapes'
  BY <1>2, <1>3, <1>4 DEF LearnerShapes
<1>6. Queued'
  BY <1>1, <1>2, <1>3, AppendingKeepsQueued DEF LearnerInv
<1>7. Overtaken'
  <2>1. ~Learner!Idle => learnerJob.gen \in Nat /\ learnerJob.gen <= generation
    BY Runs DEF LearnerInv, Overtaken, RunningJobs
  <2>2. QED
    BY <2>1, <1>2, <1>3, <1>4 DEF Overtaken, Learner!Idle, Learner!current
<1>8. Settled'
  BY <1>4 DEF Settled
<1>9. Learning'
  BY <1>2, <1>3, LearningKept
<1>10. QED
  BY <1>5, <1>6, <1>7, <1>8, <1>9 DEF LearnerInv, Learning

LEMMA DropStep ==
  ASSUME LearnerBounds, LearnerInv, Learner!Drop
  PROVE  LearnerInv'
<1> DEFINE m == [kind |-> "stop", gen |-> 0, req |-> learnerRequest]
<1>1. m \in Mutations /\ m.kind = "stop"
  BY DEF Mutations, LearnerInv, LearnerShapes
<1>2. /\ learnerQueue' = Append(learnerQueue, m) /\ learnerActive' = FALSE
      /\ UNCHANGED <<learnerRequest, generation, learnerJob, learnerTimer, learner, pac, seen, since>>
  BY DEF Learner!Drop
<1> HIDE DEF m
<1>3. generation \in Nat /\ LearnerShapes
  BY DEF LearnerInv, LearnerShapes
<1>4. learnerQueue' \in Seq(Mutations)
  BY <1>1, <1>2, <1>3, Appends
<1>5. LearnerShapes'
  BY <1>2, <1>3, <1>4 DEF LearnerShapes
<1>6. Queued'
  BY <1>1, <1>2, <1>3, AppendingKeepsQueued DEF LearnerInv
<1>7. Overtaken' /\ Settled'
  BY <1>2 DEF LearnerInv, Overtaken, Settled, Learner!Idle, Learner!current
<1>8. Learning'
  BY <1>2, LearningKept
<1>9. QED
  BY <1>5, <1>6, <1>7, <1>8 DEF LearnerInv, Learning

LEMMA ReturnStep ==
  ASSUME LearnerBounds, LearnerInv, Learner!Return
  PROVE  LearnerInv'
<1> DEFINE m == [kind |-> "apply", gen |-> 0, req |-> learnerRequest]
<1>1. m \in Mutations /\ m.kind = "apply" /\ m.req = learnerRequest
  BY DEF Mutations, LearnerInv, LearnerShapes
<1>2. /\ learnerQueue' = <<m>> /\ learnerActive' = TRUE /\ Learner!Idle
      /\ UNCHANGED <<learnerRequest, generation, learnerJob, learnerTimer, learner, pac, seen, since>>
  BY DEF Learner!Return
<1> HIDE DEF m
<1>3. /\ learnerQueue' \in Seq(Mutations) /\ Len(learnerQueue') = 1 /\ learnerQueue'[1] = m
  BY <1>1, <1>2
<1>4. Owed'
  BY <1>1, <1>3 DEF Owed
<1>5. LearnerShapes'
  BY <1>2, <1>3 DEF LearnerInv, LearnerShapes
<1>6. Queued'
  BY <1>1, <1>2, <1>3 DEF Queued
<1>7. Overtaken' /\ Settled'
  BY <1>2, <1>4 DEF Overtaken, Settled, Learner!Idle
<1>8. Learning'
  BY <1>2, LearningKept
<1>9. QED
  BY <1>5, <1>6, <1>7, <1>8 DEF LearnerInv, Learning

LEMMA TimerFiresStep ==
  ASSUME LearnerBounds, LearnerInv, Learner!TimerFires
  PROVE  LearnerInv'
<1> DEFINE m == [kind |-> "refresh", gen |-> learnerTimer, req |-> learnerRequest]
<1>1. /\ m \in Mutations /\ m.kind = "refresh" /\ m.req = learnerRequest /\ m.gen = learnerTimer
      /\ learnerTimer \in Nat /\ learnerTimer <= generation
  BY DEF Mutations, LearnerInv, LearnerShapes
<1>2. /\ learnerTimer' = 0
      /\ UNCHANGED <<learnerActive, learnerRequest, generation, learnerJob, learner, pac, seen, since>>
      /\ \/ learnerTimer = generation /\ learnerActive /\ learnerQueue' = Append(learnerQueue, m)
         \/ ~(learnerTimer = generation /\ learnerActive) /\ learnerQueue' = learnerQueue
  BY DEF Learner!TimerFires, Learner!current
<1> HIDE DEF m
<1>3. generation \in Nat /\ LearnerShapes
  BY DEF LearnerInv, LearnerShapes
<1>4. Learning'
  BY <1>2, LearningKept
<1>5. CASE learnerQueue' = learnerQueue /\ ~(learnerTimer = generation /\ learnerActive)
  <2>1. LearnerShapes' /\ Queued' /\ Overtaken'
    BY <1>2, <1>5 DEF LearnerInv, LearnerShapes, Queued, Overtaken, Owed, Learner!Idle,
           Learner!current
  <2>2. Settled'
    BY <1>2, <1>5 DEF LearnerInv, Settled, Owed, Learner!Idle, Learner!current
  <2>3. QED
    BY <2>1, <2>2, <1>4 DEF LearnerInv, Learning
<1>6. CASE learnerQueue' = Append(learnerQueue, m) /\ learnerTimer = generation
  <2>1. /\ learnerQueue' \in Seq(Mutations) /\ (Owed' <=> Owed)
        /\ Len(learnerQueue') = Len(learnerQueue) + 1 /\ learnerQueue'[Len(learnerQueue) + 1] = m
        /\ Len(learnerQueue) \in Nat
    BY <1>1, <1>3, <1>6, Appends DEF LearnerShapes
  <2>2. LearnerShapes'
    BY <1>2, <1>3, <2>1 DEF LearnerShapes
  <2>3. Queued'
    BY <1>1, <1>2, <1>3, <1>6, AppendingKeepsQueued DEF LearnerInv
  <2>4. Overtaken'
    BY <1>2, <2>1 DEF LearnerInv, Overtaken, Learner!Idle, Learner!current
  <2>5. \E i \in 1..Len(learnerQueue') : learnerQueue'[i].kind = "refresh" /\ learnerQueue'[i].gen = generation'
    BY <1>1, <1>2, <1>6, <2>1
  <2>6. Settled'
    BY <1>2, <2>1, <2>5 DEF LearnerInv, Settled, Learner!Idle
  <2>7. QED
    BY <2>2, <2>3, <2>4, <2>6, <1>4 DEF LearnerInv, Learning
<1>7. QED
  BY <1>2, <1>5, <1>6

LEMMA StopStep ==
  ASSUME LearnerBounds, LearnerInv, Learner!stopSystemRouting
  PROVE  LearnerInv'
<1>1. /\ learnerQueue # <<>> /\ learnerQueue' = Tail(learnerQueue) /\ generation' = generation + 1
      /\ learnerTimer' = 0 /\ Learner!Idle
      /\ learner' = Learner!Cleared /\ pac' = [kind |-> "direct"]
      /\ UNCHANGED <<learnerActive, learnerRequest, learnerJob, seen, since>>
  BY DEF Learner!stopSystemRouting
<1>2. generation \in Nat /\ generation' \in Nat /\ generation <= generation' /\ LearnerShapes
  BY <1>1 DEF LearnerInv, LearnerShapes
<1>3. learnerQueue' \in Seq(Mutations)
  BY <1>1, <1>2, Takes
<1>4. LearnerShapes'
  BY <1>1, <1>2, <1>3, ClearedIsOne DEF LearnerShapes
<1>5. Queued'
  BY <1>1, <1>2, TakingKeepsQueued DEF LearnerInv
<1>6. Overtaken' /\ Settled'
  BY <1>1 DEF Overtaken, Settled, Learner!Idle
<1>7. /\ NobodyLearnsNothing' /\ LearnedWasSeen' /\ AgesAreKnown' /\ AppliedIsInForce'
      /\ Learner!PacIsForItsRules' /\ Learner!DirectListIsKept'
  BY <1>1, ClearedIsOne DEF NobodyLearnsNothing, LearnedWasSeen, AgesAreKnown, AppliedIsInForce,
     Learner!PacIsForItsRules, Learner!DirectListIsKept, Learner!NothingLearned
<1>8. Learning'
  BY <1>1, <1>7, LearningEnds DEF Learner!Idle
<1>9. QED
  BY <1>4, <1>5, <1>6, <1>8 DEF LearnerInv, Learning

(* A mutation begins, and is the last apply unless another waits. *)
LEMMA MutationBeginsStep ==
  ASSUME LearnerBounds, LearnerInv, Learner!Begin
  PROVE  LearnerInv'
<1> DEFINE m == Head(learnerQueue)
<1>1. /\ learnerQueue # <<>> /\ learnerQueue' = Tail(learnerQueue) /\ Learner!Idle
      /\ m.kind # "stop"
      /\ generation' = IF m.kind = "apply" THEN generation + 1 ELSE generation
      /\ learnerTimer' = IF m.kind = "apply" THEN 0 ELSE learnerTimer
      /\ UNCHANGED <<learnerActive, learnerRequest, learner, pac, seen, since>>
      /\ learnerJob' = [kind |-> m.kind, gen |-> IF m.kind = "apply" THEN generation + 1 ELSE m.gen, req |-> m.req,
                 pc |-> "learn", lit |-> "no", litSig |-> Learner!NoSig, k |-> Learner!NothingLearned, known |-> {}, conns |-> {}]
  BY DEF Learner!Begin
<1>2. generation \in Nat /\ generation' \in Nat /\ generation <= generation' /\ LearnerShapes
  BY <1>1 DEF LearnerInv, LearnerShapes
<1>3. /\ learnerQueue' \in Seq(Mutations) /\ m \in Mutations /\ m = learnerQueue[1]
      /\ Len(learnerQueue') = Len(learnerQueue) - 1 /\ Len(learnerQueue) \in Nat
      /\ Len(learnerQueue) >= 1
      /\ \A i \in 1..Len(learnerQueue') : learnerQueue'[i] = learnerQueue[i + 1]
      /\ Owed <=> (Owed' \/ m.kind = "apply")
  BY <1>1, <1>2, Takes
<1>4. Queued'
  BY <1>1, <1>2, TakingKeepsQueued DEF LearnerInv
<1> HIDE DEF m
<1>5. /\ m.kind \in {"apply", "refresh"} /\ m.gen \in Nat /\ m.req \in Routings
  BY <1>1, <1>3 DEF Mutations
<1>6. /\ learnerJob'.kind = m.kind /\ learnerJob'.req = m.req /\ learnerJob'.pc = "learn"
      /\ learnerJob'.lit = "no"
      /\ learnerJob'.gen = (IF m.kind = "apply" THEN generation + 1 ELSE m.gen) /\ ~Learner!Idle'
  BY <1>1 DEF Learner!Idle
<1>7. learnerJob' \in RunningJobs
  BY <1>1, <1>2, <1>5, NoSigIsOne, ClearedIsOne DEF RunningJobs
<1>8. learnerTimer' \in 0..generation'
  BY <1>1, <1>2 DEF LearnerInv, LearnerShapes
<1>9. LearnerShapes'
  BY <1>1, <1>2, <1>3, <1>7, <1>8 DEF LearnerShapes
<1>10. m.kind = "refresh" => m.gen <= generation /\ (m.gen = generation => m.req = learnerRequest)
  BY <1>3 DEF LearnerInv, Queued
<1>11. m.kind = "apply" => m.req = learnerRequest \/ Owed'
  <2>1. ASSUME m.kind = "apply", ~Owed' PROVE m.req = learnerRequest
    <3>1. ASSUME NEW j \in 2..Len(learnerQueue) PROVE learnerQueue[j].kind # "apply"
      <4>1. j - 1 \in 1..Len(learnerQueue') /\ learnerQueue'[j - 1] = learnerQueue[j]
        BY <1>3
      <4>2. QED
        BY <4>1, <2>1 DEF Owed
    <3>2. QED
      BY <3>1, <2>1, <1>3 DEF LearnerInv, Queued
  <2>2. QED
    BY <2>1
<1>12. Overtaken'
  BY <1>1, <1>2, <1>5, <1>6, <1>10, <1>11 DEF Overtaken, Learner!current
<1>13. Settled'
  <2> SUFFICES ASSUME learnerActive, ~Owed', m.kind = "refresh", pac.kind = "pac", learnerRequest.targets # {}
               PROVE  /\ \/ learnerTimer' = generation'
                         \/ \E i \in 1..Len(learnerQueue') : learnerQueue'[i].kind = "refresh" /\ learnerQueue'[i].gen = generation'
                         \/ m.gen = generation'
                      /\ Remembers
    BY <1>1, <1>6 DEF Settled, Remembers, Learner!current
  <2>1. generation' = generation /\ learnerTimer' = learnerTimer /\ ~Owed
    BY <1>1, <1>3
  <2>2. /\ \/ learnerTimer = generation
           \/ \E i \in 1..Len(learnerQueue) : learnerQueue[i].kind = "refresh" /\ learnerQueue[i].gen = generation
        /\ Remembers
    BY <2>1, <1>1 DEF LearnerInv, Settled, Remembers, Learner!Idle
  <2>3. CASE learnerTimer = generation
    BY <2>1, <2>2, <2>3
  <2>4. ASSUME NEW i \in 1..Len(learnerQueue), learnerQueue[i].kind = "refresh",
               learnerQueue[i].gen = generation
        PROVE  \/ m.gen = generation
               \/ \E n \in 1..Len(learnerQueue') : learnerQueue'[n].kind = "refresh" /\ learnerQueue'[n].gen = generation
    <3>1. CASE i = 1
      BY <3>1, <2>4, <1>3
    <3>2. CASE i # 1
      <4>1. i - 1 \in 1..Len(learnerQueue') /\ learnerQueue'[i - 1] = learnerQueue[i]
        BY <3>2, <1>3
      <4>2. QED
        BY <4>1, <2>4
    <3>3. QED
      BY <3>1, <3>2
  <2>5. QED
    BY <2>1, <2>2, <2>3, <2>4
<1>14. Serves' /\ KeepsClear' /\ SignatureIsTrue' /\ LiteralIsRemembered' /\ ApplyOwes'
  BY <1>6 DEF Serves, KeepsClear, SignatureIsTrue, LiteralIsRemembered, ApplyOwes, Committed
<1>15. /\ NobodyLearnsNothing' /\ LearnedWasSeen' /\ AgesAreKnown' /\ AppliedIsInForce'
       /\ Learner!PacIsForItsRules' /\ Learner!DirectListIsKept'
  BY <1>1 DEF LearnerInv, NobodyLearnsNothing, LearnedWasSeen, AgesAreKnown, AppliedIsInForce,
         InForce,
     Learner!PacIsForItsRules, Learner!DirectListIsKept
<1>16. Learning'
  BY <1>14, <1>15 DEF Learning
<1>17. QED
  BY <1>4, <1>9, <1>12, <1>13, <1>16 DEF LearnerInv, Learning

LEMMA TickStep ==
  ASSUME LearnerBounds, LearnerInv, Learner!Tick
  PROVE  LearnerInv'
<1> DEFINE older(age) == [x \in DOMAIN age |-> IF age[x] < Learner!TTL THEN age[x] + 1 ELSE age[x]]
<1>1. /\ Learner!Idle /\ since < Learner!TTL /\ since' = since + 1
      /\ learner' = [learner EXCEPT !.learned.ips = older(@), !.learned.domains = older(@), !.waiting = {}]
      /\ UNCHANGED <<learnerActive, learnerRequest, generation, learnerQueue, learnerJob, learnerTimer, pac, seen>>
  BY DEF Learner!Tick
<1>2. learner \in Learners /\ learner.learned \in Learnt
  BY DEF LearnerInv, LearnerShapes, Learners
<1>3. /\ older(learner.learned.ips) \in [RemoteAddresses -> 0..Learner!Absent]
      /\ \A a \in RemoteAddresses : older(learner.learned.ips)[a] = Learner!Absent <=> learner.learned.ips[a] = Learner!Absent
  BY <1>2 DEF Learnt, Learner!TTL, Learner!Absent
<1>4. /\ older(learner.learned.domains) \in [CachedNames -> 0..Learner!Absent]
      /\ \A d \in CachedNames : older(learner.learned.domains)[d] = Learner!Absent <=> learner.learned.domains[d] = Learner!Absent
      /\ \A d \in CachedNames : \/ older(learner.learned.domains)[d] = learner.learned.domains[d]
                                \/ older(learner.learned.domains)[d] = learner.learned.domains[d] + 1
  BY <1>2 DEF Learnt, Learner!TTL, Learner!Absent
<1> HIDE DEF older
<1>5. /\ learner' \in Learners
      /\ learner'.learned.ips = older(learner.learned.ips)
      /\ learner'.learned.domains = older(learner.learned.domains)
      /\ learner'.target = learner.target /\ learner'.last = learner.last
      /\ learner'.applied = learner.applied /\ learner'.pending = learner.pending
      /\ learner'.learned.leases = learner.learned.leases
      /\ learner'.learned.covered = learner.learned.covered
      /\ learner'.learned \in Learnt
  BY <1>1, <1>2, <1>3, <1>4 DEF Learners, Learnt
<1>6. since' \in 0..Learner!TTL
  BY <1>1 DEF LearnerInv, LearnerShapes, Learner!TTL
<1>7. LearnerShapes'
  BY <1>1, <1>5, <1>6 DEF LearnerInv, LearnerShapes
<1>8. Queued' /\ Overtaken'
  BY <1>1 DEF LearnerInv, Queued, Overtaken, Owed, Learner!Idle
<1>9. Settled'
  BY <1>1, <1>5 DEF LearnerInv, Settled, Owed, Learner!Idle, Learner!current
<1>10. NobodyLearnsNothing'
  <2>1. ASSUME learner.learned = Learner!NothingLearned
        PROVE learner'.learned = Learner!NothingLearned
    <3>1. older(learner.learned.ips) = [a \in RemoteAddresses |-> Learner!Absent]
      BY <2>1, <1>3 DEF Learner!NothingLearned
    <3>2. older(learner.learned.domains) = [d \in CachedNames |-> Learner!Absent]
      BY <2>1, <1>4 DEF Learner!NothingLearned
    <3>3. /\ learner'.learned.ips = [a \in RemoteAddresses |-> Learner!Absent]
          /\ learner'.learned.domains = [d \in CachedNames |-> Learner!Absent]
      BY <3>1, <3>2, <1>5
    <3>4. learner'.learned.leases = {} /\ learner'.learned.covered = {}
      BY <2>1, <1>5 DEF Learner!NothingLearned
    <3>5. learner'.learned = [ips |-> learner'.learned.ips, domains |-> learner'.learned.domains,
                              leases |-> learner'.learned.leases, covered |-> learner'.learned.covered]
      BY <1>5 DEF Learnt
    <3>6. QED
      BY <3>3, <3>4, <3>5 DEF Learner!NothingLearned
  <2>2. QED
    BY <2>1, <1>5 DEF LearnerInv, NobodyLearnsNothing
<1>11. LearnedWasSeen'
  BY <1>1, <1>3, <1>5 DEF LearnerInv, LearnedWasSeen
<1>12. AgesAreKnown'
  <2>1. \A d \in CachedNames : learner.learned.domains[d] \in Nat /\ since \in Nat
    BY <1>2 DEF Learnt, Learner!Absent, LearnerInv, LearnerShapes, Learner!TTL
  <2>2. QED
    BY <2>1, <1>1, <1>4, <1>5 DEF LearnerInv, AgesAreKnown
<1>13. AppliedIsInForce' /\ Learner!PacIsForItsRules' /\ Learner!DirectListIsKept'
  BY <1>1, <1>5 DEF LearnerInv, AppliedIsInForce, InForce, Learner!PacIsForItsRules,
         Learner!DirectListIsKept
<1>14. Learning'
  BY <1>1, <1>10, <1>11, <1>12, <1>13, LearningEnds DEF Learner!Idle
<1>15. QED
  BY <1>7, <1>8, <1>9, <1>14 DEF LearnerInv, Learning

-----------------------------------------------------------------------------
(* The steps of a cycle *)

(* A mutation that moves on keeps its fields. *)
LEMMA Moves ==
  ASSUME NEW j \in RunningJobs, NEW pc \in {"learn", "conns", "literal", "dns", "after", "final"}
  PROVE  LET n == [j EXCEPT !.pc = pc] IN
         /\ n \in RunningJobs /\ n.pc = pc /\ n.kind = j.kind /\ n.gen = j.gen /\ n.req = j.req
         /\ n.lit = j.lit /\ n.litSig = j.litSig /\ n.k = j.k /\ n.conns = j.conns
BY DEF RunningJobs

(* What has run its course leaves the shapes in order. *)
LEMMA ShapesAtEnd ==
  ASSUME LearnerInv, ~Learner!Idle,
         UNCHANGED <<learnerActive, learnerRequest, learnerQueue, seen, since>>,
         learner' \in Learners, pac' \in [kind : {"direct", "other"}] \cup LearnedPacs,
         Learner!Ends(generation) \/ Learner!Monitored
  PROVE  LearnerShapes' /\ learnerJob'.pc = "idle"
<1>1. learnerJob' \in IdleJobs /\ learnerJob'.pc = "idle"
  BY DEF Learner!Ends, Learner!Monitored, Learner!NoJob, IdleJobs, LearnerInv, LearnerShapes
<1>2. learnerJob \in RunningJobs
  BY Runs DEF LearnerInv
<1>3. generation' \in Nat /\ learnerTimer' \in 0..generation'
  <2>1. CASE Learner!Monitored
    BY <2>1 DEF Learner!Monitored, LearnerInv, LearnerShapes
  <2>2. CASE Learner!Ends(generation)
    BY <2>2, <1>2 DEF Learner!Ends, LearnerInv, LearnerShapes, RunningJobs
  <2>3. QED
    BY <2>1, <2>2
<1>4. QED
  BY <1>1, <1>3 DEF LearnerInv, LearnerShapes

(* Everything but the mutation's own fields is as it was. *)
LEMMA ShapesOnTheWay ==
  ASSUME LearnerInv,
         UNCHANGED <<learnerActive, learnerRequest, generation, learnerTimer, learnerQueue, seen, since>>,
         learner' \in Learners, pac' \in [kind : {"direct", "other"}] \cup LearnedPacs, learnerJob' \in RunningJobs
  PROVE  LearnerShapes'
BY DEF LearnerInv, LearnerShapes

LEMMA ResetsTarget ==
  ASSUME NEW l \in Learners, NEW t \in SUBSET LearnedApps
  PROVE  /\ Learner!resetForTargets(l, t) \in Learners /\ Learner!resetForTargets(l, t).target = t
         /\ \/ Learner!resetForTargets(l, t) = l
            \/ /\ Learner!resetForTargets(l, t).learned = Learner!NothingLearned /\ Learner!resetForTargets(l, t).applied = Learner!NoSig
               /\ l.target # t
BY ClearedIsOne DEF Learner!resetForTargets, Learners

LEMMA StartLearnStep ==
  ASSUME LearnerBounds, LearnerInv, Learner!StartLearn
  PROVE  LearnerInv'
<1>1. /\ learnerJob.pc = "learn" /\ ~Learner!Idle /\ learnerJob \in RunningJobs
      /\ learnerJob.req \in Routings /\ learnerJob.lit = "no"
      /\ UNCHANGED <<learnerActive, learnerRequest, learnerQueue, seen, since>>
  <2>1. /\ learnerJob.pc = "learn" /\ ~Learner!Idle
        /\ UNCHANGED <<learnerActive, learnerRequest, learnerQueue, seen, since>>
    BY DEF Learner!StartLearn, Learner!Idle
  <2>2. learnerJob \in RunningJobs
    BY <2>1, Runs DEF LearnerInv
  <2>3. QED
    BY <2>1, <2>2 DEF RunningJobs, LearnerInv, Serves
<1>2. learnerJob.req.targets \in SUBSET LearnedApps
  BY <1>1 DEF LearnerBounds
<1>3. LearnerShapes /\ learner \in Learners /\ pac \in [kind : {"direct", "other"}] \cup LearnedPacs
  BY DEF LearnerInv, LearnerShapes
<1>a. CASE ~(Learner!current(learnerJob.gen) /\ learnerActive) /\ Learner!Ends(generation) /\ UNCHANGED <<learner, pac>>
  <2>1. LearnerShapes' /\ learnerJob'.pc = "idle"
    BY <1>1, <1>3, <1>a, ShapesAtEnd
  <2>2. Queued' /\ Overtaken' /\ Settled'
    BY <1>1, <1>a, IsOver
  <2>3. Learning'
    BY <2>1, <1>1, <1>a, LearningEnds DEF LearnerInv, NobodyLearnsNothing, LearnedWasSeen,
           AgesAreKnown,
       AppliedIsInForce, InForce, Learner!PacIsForItsRules, Learner!DirectListIsKept
  <2>4. QED
    BY <2>1, <2>2, <2>3 DEF LearnerInv, Learning
<1>b. CASE /\ learnerJob.kind = "apply" /\ Learner!current(learnerJob.gen) /\ learnerActive
           /\ learner' = Learner!Cleared /\ pac' = [kind |-> "other"] /\ Learner!Ends(generation)
  <2>1. LearnerShapes' /\ learnerJob'.pc = "idle"
    BY <1>1, <1>b, ClearedIsOne, ShapesAtEnd
  <2>2. Queued' /\ Overtaken' /\ Settled'
    BY <1>1, <1>b, IsOver
  <2>3. /\ NobodyLearnsNothing' /\ LearnedWasSeen' /\ AgesAreKnown' /\ AppliedIsInForce'
        /\ Learner!PacIsForItsRules' /\ Learner!DirectListIsKept'
    BY <1>b, ClearedIsOne DEF NobodyLearnsNothing, LearnedWasSeen, AgesAreKnown, AppliedIsInForce,
       Learner!PacIsForItsRules, Learner!DirectListIsKept, Learner!NothingLearned
  <2>4. Learning'
    BY <2>1, <2>3, LearningEnds
  <2>5. QED
    BY <2>1, <2>2, <2>4 DEF LearnerInv, Learning
<1>c. CASE /\ Learner!current(learnerJob.gen) /\ learnerActive /\ learnerJob.req.targets # {}
           /\ learner' = Learner!resetForTargets(learner, learnerJob.req.targets)
           /\ learnerJob' = [learnerJob EXCEPT !.pc = "conns", !.known = Learner!currentIps(learner.learned)]
           /\ UNCHANGED <<generation, learnerTimer, pac>>
  <2>1. Learner!currentIps(learner.learned) \subseteq RemoteAddresses
    BY <1>3, KnowsAddresses DEF Learners
  <2>2. /\ learnerJob' \in RunningJobs /\ learnerJob'.pc = "conns"
        /\ learnerJob'.kind = learnerJob.kind /\ learnerJob'.gen = learnerJob.gen
        /\ learnerJob'.req = learnerJob.req /\ learnerJob'.lit = "no"
    BY <1>1, <1>c, <2>1 DEF RunningJobs
  <2>3. /\ learner' \in Learners /\ learner'.target = learnerJob.req.targets
        /\ learner' = learner \/ (learner'.learned = Learner!NothingLearned /\ learner'.applied = Learner!NoSig)
    BY <1>2, <1>3, <1>c, ResetsTarget
  <2>4. LearnerShapes'
    BY <1>1, <1>3, <1>c, <2>2, <2>3, ShapesOnTheWay
  <2>5. Queued' /\ Overtaken' /\ Settled'
    BY <1>1, <1>c, <2>2, GoesOn
  <2>6. Serves' /\ KeepsClear' /\ SignatureIsTrue' /\ LiteralIsRemembered' /\ ApplyOwes'
    BY <1>c, <2>2, <2>3 DEF Serves, KeepsClear, SignatureIsTrue, LiteralIsRemembered, ApplyOwes,
           Committed, Learner!Idle
  <2>7. NobodyLearnsNothing'
    BY <1>c, <2>3 DEF NobodyLearnsNothing
  <2>8. LearnedWasSeen' /\ AgesAreKnown' /\ AppliedIsInForce'
    BY <1>1, <1>c, <2>3 DEF LearnerInv, LearnedWasSeen, AgesAreKnown, AppliedIsInForce, InForce,
           Learner!NothingLearned
  <2>9. Learner!PacIsForItsRules' /\ Learner!DirectListIsKept'
    BY <1>1, <1>c DEF LearnerInv, Learner!PacIsForItsRules, Learner!DirectListIsKept
  <2>10. QED
    BY <2>4, <2>5, <2>6, <2>7, <2>8, <2>9 DEF LearnerInv, Learning
<1>d. CASE /\ Learner!current(learnerJob.gen) /\ learnerActive /\ learnerJob.req.targets = {}
           /\ learner' = Learner!Cleared /\ Learner!At("after") /\ UNCHANGED pac
  <2>1. /\ learnerJob' \in RunningJobs /\ learnerJob'.pc = "after"
        /\ learnerJob'.kind = learnerJob.kind /\ learnerJob'.gen = learnerJob.gen
        /\ learnerJob'.req = learnerJob.req /\ learnerJob'.lit = "no"
        /\ UNCHANGED <<generation, learnerTimer>>
    BY <1>1, <1>d, Moves DEF Learner!At
  <2>2. LearnerShapes'
    BY <1>1, <1>3, <1>d, <2>1, ClearedIsOne, ShapesOnTheWay
  <2>3. learnerJob.kind = "refresh" => learnerJob.req = learnerRequest
    BY <1>1, <1>d DEF LearnerInv, Overtaken
  <2>4. Queued' /\ Overtaken' /\ Settled'
    BY <1>1, <1>d, <2>1, <2>3, GoesOn
  <2>5. Serves' /\ SignatureIsTrue' /\ LiteralIsRemembered' /\ ApplyOwes'
    BY <1>d, <2>1, ClearedIsOne DEF Serves, SignatureIsTrue, LiteralIsRemembered, ApplyOwes,
           Learner!Idle
  <2>6. KeepsClear'
    BY <1>d, <2>1, ClearedIsOne DEF KeepsClear, Learner!NothingLearned
  <2>7. /\ NobodyLearnsNothing' /\ LearnedWasSeen' /\ AgesAreKnown' /\ AppliedIsInForce'
    BY <1>d, ClearedIsOne DEF NobodyLearnsNothing, LearnedWasSeen, AgesAreKnown,
           AppliedIsInForce, Learner!NothingLearned
  <2>8. Learner!PacIsForItsRules' /\ Learner!DirectListIsKept'
    BY <1>1, <1>d DEF LearnerInv, Learner!PacIsForItsRules, Learner!DirectListIsKept
  <2>9. QED
    BY <2>2, <2>4, <2>5, <2>6, <2>7, <2>8 DEF LearnerInv, Learning
<1>e. QED
  BY <1>1, <1>a, <1>b, <1>c, <1>d DEF Learner!StartLearn

(* The connections of an overtaken cycle teach it nothing. *)
LEMMA ConnectionsStep ==
  ASSUME LearnerBounds, LearnerInv, NEW conns, Learner!Connections(conns)
  PROVE  LearnerInv'
<1> DEFINE k == Learner!observed(learner, learnerJob.req.direct, conns)
           l == Learner!commit(learner, k)
<1>1. /\ learnerJob.pc = "conns" /\ ~Learner!Idle
      /\ conns \subseteq learnerJob.req.targets \X RemoteAddresses
      /\ seen' = [a \in RemoteAddresses |-> seen[a] \cup {c[1] : c \in {x \in conns : x[2] = a}}]
      /\ UNCHANGED <<learnerActive, learnerRequest, learnerQueue, pac>>
  BY DEF Learner!Connections, Learner!Idle
<1>2. /\ learnerJob \in RunningJobs /\ learnerJob.req \in Routings /\ learnerJob.lit = "no"
      /\ learnerJob.kind \in {"apply", "refresh"}
  <2>1. learnerJob \in RunningJobs
    BY <1>1, Runs DEF LearnerInv
  <2>2. QED
    BY <1>1, <2>1 DEF RunningJobs, LearnerInv, Serves
<1>3. /\ learnerJob.req.targets \in SUBSET LearnedApps /\ learnerJob.req.targets # {}
      /\ learner.target = learnerJob.req.targets
  BY <1>1, <1>2 DEF LearnerBounds, LearnerInv, Serves
<1>4. LearnerShapes /\ learner \in Learners /\ learner.learned \in Learnt
  BY DEF LearnerInv, LearnerShapes, Learners
<1>5. /\ seen' \in [RemoteAddresses -> SUBSET LearnedApps] /\ \A a \in RemoteAddresses : seen[a] \subseteq seen'[a]
      /\ \A c \in conns : c[2] \in RemoteAddresses /\ c[1] \in seen'[c[2]] /\ c[1] \in learnerJob.req.targets
  <2>1. \A c \in conns : c[1] \in learnerJob.req.targets /\ c[2] \in RemoteAddresses
    BY <1>1
  <2>2. \A a \in RemoteAddresses : seen'[a] \subseteq LearnedApps /\ seen[a] \subseteq seen'[a]
    BY <2>1, <1>1, <1>3, <1>4 DEF LearnerShapes
  <2>3. QED
    BY <2>1, <2>2, <1>1
<1>6. Learner!PacIsForItsRules' /\ Learner!DirectListIsKept'
  <2>1. Learner!PacIsForItsRules'
    <3> SUFFICES ASSUME pac.kind = "pac", NEW a \in pac.ips PROVE seen'[a] \cap pac.targets # {}
      BY <1>1 DEF Learner!PacIsForItsRules
    <3>1. seen[a] \cap pac.targets # {} /\ a \in RemoteAddresses
      BY <1>4 DEF LearnerInv, Learner!PacIsForItsRules, LearnerShapes, LearnedPacs
    <3>2. QED
      BY <3>1, <1>5
  <2>2. QED
    BY <2>1, <1>1 DEF LearnerInv, Learner!DirectListIsKept
<1>a. CASE ~Learner!current(learnerJob.gen) /\ Learner!At("after") /\ UNCHANGED <<learner, since>>
  <2>1. /\ learnerJob' \in RunningJobs /\ learnerJob'.pc = "after"
        /\ learnerJob'.kind = learnerJob.kind /\ learnerJob'.gen = learnerJob.gen
        /\ learnerJob'.req = learnerJob.req /\ learnerJob'.lit = "no"
        /\ UNCHANGED <<generation, learnerTimer>>
    BY <1>2, <1>a, Moves DEF Learner!At
  <2>2. LearnerShapes'
    BY <1>1, <1>4, <1>5, <1>a, <2>1 DEF LearnerShapes
  <2>3. Queued' /\ Overtaken' /\ Settled'
    BY <1>1, <1>a, <2>1, GoesOn
  <2>4. ~Committed'
    BY <1>a, <2>1 DEF Committed, Learner!current
  <2>5. Serves' /\ KeepsClear' /\ SignatureIsTrue' /\ LiteralIsRemembered' /\ ApplyOwes'
    BY <1>3, <1>a, <2>1, <2>4 DEF Serves, KeepsClear, SignatureIsTrue, LiteralIsRemembered,
           ApplyOwes, Learner!Idle
  <2>6. NobodyLearnsNothing' /\ AgesAreKnown' /\ AppliedIsInForce'
    BY <1>1, <1>a DEF LearnerInv, NobodyLearnsNothing, AgesAreKnown, AppliedIsInForce, InForce
  <2>7. LearnedWasSeen'
    <3>1. ASSUME NEW a \in RemoteAddresses, learner.learned.ips[a] # Learner!Absent
          PROVE seen'[a] \cap learner.target # {}
      BY <3>1, <1>5 DEF LearnerInv, LearnedWasSeen
    <3>2. QED
      BY <3>1, <1>a DEF LearnedWasSeen
  <2>8. QED
    BY <2>2, <2>3, <2>5, <2>6, <2>7, <1>6 DEF LearnerInv, Learning
<1>b. CASE Learner!current(learnerJob.gen) /\ learner' = l /\ since' = 0 /\ UNCHANGED <<generation, learnerTimer>>
  <2>1. /\ k \in Learnt
        /\ \A a \in RemoteAddresses : k.ips[a] # Learner!Absent => (\E c \in conns : c[2] = a) \/ learner.learned.ips[a] # Learner!Absent
        /\ \A d \in CachedNames : k.domains[d] =
             IF learner.learned.domains[d] >= Learner!TTL \/ d \in learnerJob.req.direct THEN Learner!Absent ELSE 0
        /\ \A e \in k.leases : e.domain \notin learnerJob.req.direct
    BY <1>4, Observes
  <2>2. /\ l \in Learners /\ l.target = learner.target /\ l.learned = k
        /\ l.last = Learner!buildProcessRouteSignature(l.target, k)
        /\ l.applied = learner.applied /\ l.pending = learner.pending
    BY <1>4, <2>1, Commits
  <2>3. l.last # Learner!NoSig
    BY <2>1, <2>2, SignatureIsOne
  <2>4. Learner!observed(learner, learnerJob.req.direct, {}) \in Learnt
    BY <1>4, Observes
  <2>5. [Learner!observed(learner, learnerJob.req.direct, {}) EXCEPT !.leases = learner.learned.leases] \in Learnt
    BY <1>4, <2>4 DEF Learnt
  <2>6. /\ learnerJob' \in RunningJobs /\ learnerJob'.pc \in {"literal", "dns"}
        /\ learnerJob'.kind = learnerJob.kind /\ learnerJob'.gen = learnerJob.gen
        /\ learnerJob'.req = learnerJob.req /\ learnerJob'.lit = "no" /\ learnerJob'.k = k
    <3> DEFINE known == Learner!Known([Learner!observed(learner, learnerJob.req.direct, {}) EXCEPT !.leases = learner.learned.leases])
    <3>1. known \subseteq RemoteAddresses
      BY <2>5, KnowsAddresses
    <3>2. conns \subseteq LearnedApps \X RemoteAddresses
      BY <1>1, <1>3
    <3>3. \E pc \in {"literal", "dns"} :
            learnerJob' = [learnerJob EXCEPT !.pc = pc, !.k = l.learned, !.conns = conns, !.known = known]
      BY <1>1, <1>b DEF Learner!Connections
    <3>4. PICK pc \in {"literal", "dns"} :
            learnerJob' = [learnerJob EXCEPT !.pc = pc, !.k = l.learned, !.conns = conns, !.known = known]
      BY <3>3
    <3> HIDE DEF known, k, l
    <3>5. /\ conns \in SUBSET (LearnedApps \X RemoteAddresses) /\ known \in SUBSET RemoteAddresses
          /\ l.learned \in Learnt
      BY <2>1, <2>2, <3>1, <3>2
    <3>6. learnerJob' \in RunningJobs
      BY <1>2, <3>4, <3>5 DEF RunningJobs
    <3>7. /\ learnerJob'.pc = pc /\ learnerJob'.kind = learnerJob.kind
          /\ learnerJob'.gen = learnerJob.gen
          /\ learnerJob'.req = learnerJob.req /\ learnerJob'.lit = learnerJob.lit
          /\ learnerJob'.k = l.learned
      BY <1>2, <3>4 DEF RunningJobs
    <3>8. QED
      BY <1>2, <2>2, <3>4, <3>6, <3>7
  <2> HIDE DEF k, l
  <2>7. LearnerShapes'
    BY <1>1, <1>4, <1>5, <1>b, <2>2, <2>6 DEF LearnerShapes, Learner!TTL
  <2>8. Queued' /\ Overtaken' /\ Settled'
    BY <1>1, <1>b, <2>2, <2>3, <2>6, GoesOn DEF Remembers
  <2>9. Serves' /\ LiteralIsRemembered' /\ ApplyOwes'
    BY <1>3, <1>b, <2>2, <2>6 DEF Serves, LiteralIsRemembered, ApplyOwes, Learner!Idle
  <2>10. KeepsClear'
    BY <1>b, <2>1, <2>2, <2>6 DEF KeepsClear
  <2>11. SignatureIsTrue'
    BY <1>b, <2>2 DEF SignatureIsTrue
  <2>12. NobodyLearnsNothing'
    BY <1>3, <1>b, <2>2 DEF NobodyLearnsNothing
  <2>13. AgesAreKnown'
    BY <1>b, <2>1, <2>2 DEF AgesAreKnown
  <2>14. LearnedWasSeen'
    <3> SUFFICES ASSUME NEW a \in RemoteAddresses, k.ips[a] # Learner!Absent PROVE seen'[a] \cap learner.target # {}
      BY <1>b, <2>2 DEF LearnedWasSeen
    <3>1. CASE learner.learned.ips[a] # Learner!Absent
      BY <3>1, <1>5 DEF LearnerInv, LearnedWasSeen
    <3>2. CASE \E c \in conns : c[2] = a
      BY <3>2, <1>3, <1>5
    <3>3. QED
      BY <3>1, <3>2, <2>1
  <2>15. AppliedIsInForce'
    BY <1>1, <1>b, <2>2 DEF LearnerInv, AppliedIsInForce, InForce
  <2>16. QED
    BY <2>7, <2>8, <2>9, <2>10, <2>11, <2>12, <2>13, <2>14, <2>15, <1>6 DEF LearnerInv, Learning
<1>c. QED
  BY <1>a, <1>b DEF Learner!Connections

(* A cycle that runs, and what it is known to be *)
LEMMA CycleRuns ==
  ASSUME LearnerInv,
         LearnerBounds, learnerJob.pc \in {"learn", "conns", "literal", "dns", "after", "final"}
  PROVE  /\ ~Learner!Idle /\ learnerJob \in RunningJobs /\ learnerJob.req \in Routings
         /\ learnerJob.kind \in {"apply", "refresh"}
         /\ learnerJob.req.targets \in SUBSET LearnedApps
         /\ learnerJob.req.direct \in SUBSET CachedNames
         /\ learner \in Learners /\ learner.learned \in Learnt
<1>1. ~Learner!Idle /\ learnerJob \in RunningJobs
  BY Runs DEF LearnerInv, Learner!Idle
<1>2. learnerJob.req \in Routings /\ learnerJob.kind \in {"apply", "refresh"}
  BY <1>1 DEF RunningJobs
<1>3. learner \in Learners
  BY DEF LearnerInv, LearnerShapes
<1>4. learner.learned \in Learnt
  BY <1>3 DEF Learners
<1>5. QED
  BY <1>1, <1>2, <1>3, <1>4 DEF LearnerBounds

(* A failed query leaves what is not out of date. *)
LEMMA ConnectionsFailStep ==
  ASSUME LearnerBounds, LearnerInv, Learner!ConnectionsFail
  PROVE  LearnerInv'
<1> DEFINE p == Learner!pruned(learner, learnerJob.req.direct)
<1>1. /\ learnerJob.pc = "conns" /\ learner' = p /\ Learner!At("after")
      /\ UNCHANGED <<learnerActive, learnerRequest, learnerQueue, pac, seen, since>>
  BY DEF Learner!ConnectionsFail
<1>2. /\ ~Learner!Idle /\ learnerJob \in RunningJobs /\ learner \in Learners
      /\ learner.learned \in Learnt
  BY <1>1, CycleRuns
<1>3. /\ p \in Learners /\ p.target = learner.target
      /\ p.applied = learner.applied /\ p.pending = learner.pending
      /\ p.last = Learner!buildProcessRouteSignature(p.target, p.learned)
      /\ \A a \in RemoteAddresses : p.learned.ips[a] # Learner!Absent => learner.learned.ips[a] # Learner!Absent
      /\ \A d \in CachedNames : p.learned.domains[d] =
           IF learner.learned.domains[d] >= Learner!TTL \/ d \in learnerJob.req.direct THEN Learner!Absent ELSE learner.learned.domains[d]
      /\ \A e \in p.learned.leases : e.domain \notin learnerJob.req.direct
  BY <1>2, Prunes
<1>4. p.learned \in Learnt
  BY <1>3 DEF Learners
<1>5. p.last # Learner!NoSig
  BY <1>3, <1>4, SignatureIsOne
<1> HIDE DEF p
<1>6. /\ learnerJob' \in RunningJobs /\ learnerJob'.pc = "after"
      /\ learnerJob'.kind = learnerJob.kind /\ learnerJob'.gen = learnerJob.gen
      /\ learnerJob'.req = learnerJob.req /\ learnerJob'.lit = learnerJob.lit
      /\ UNCHANGED <<generation, learnerTimer>>
  BY <1>1, <1>2, Moves DEF Learner!At
<1>7. /\ learner.target = learnerJob.req.targets /\ learnerJob.req.targets # {}
      /\ learnerJob.lit = "no"
  BY <1>1 DEF LearnerInv, Serves
<1>8. LearnerShapes'
  BY <1>1, <1>3, <1>6 DEF LearnerInv, LearnerShapes
<1>9. Queued' /\ Overtaken' /\ Settled'
  BY <1>1, <1>2, <1>5, <1>6, GoesOn DEF Remembers
<1>10. Serves' /\ LiteralIsRemembered' /\ ApplyOwes'
  BY <1>1, <1>3, <1>6, <1>7 DEF Serves, LiteralIsRemembered, ApplyOwes, Learner!Idle
<1>11. KeepsClear' /\ SignatureIsTrue'
  BY <1>1, <1>3, <1>6 DEF KeepsClear, SignatureIsTrue
<1>12. NobodyLearnsNothing' /\ LearnedWasSeen' /\ AppliedIsInForce'
  BY <1>1, <1>3, <1>7 DEF LearnerInv, NobodyLearnsNothing, LearnedWasSeen, AppliedIsInForce, InForce
<1>13. AgesAreKnown'
  BY <1>1, <1>3 DEF LearnerInv, AgesAreKnown
<1>14. Learner!PacIsForItsRules' /\ Learner!DirectListIsKept'
  BY <1>1 DEF LearnerInv, Learner!PacIsForItsRules, Learner!DirectListIsKept
<1>15. QED
  BY <1>8, <1>9, <1>10, <1>11, <1>12, <1>13, <1>14 DEF LearnerInv, Learning

(* The second phase only adds names, and none of the direct list. *)
LEMMA PhaseEnds ==
  ASSUME LearnerBounds, LearnerInv, learnerJob.pc = "dns", Learner!At("after"),
         UNCHANGED <<learnerActive, learnerRequest, learnerQueue, pac, seen, since>>,
         learner' \in Learners, learner'.target = learner.target,
         learner'.applied = learner.applied,
         learner'.pending = learner.pending,
         learner'.last = Learner!buildProcessRouteSignature(learner'.target, learner'.learned),
         \A a \in RemoteAddresses : learner'.learned.ips[a] # Learner!Absent => learner.learned.ips[a] # Learner!Absent,
         \A d \in CachedNames : \/ learner'.learned.domains[d] = learner.learned.domains[d]
                                \/ d \notin learnerJob.req.direct /\ learner'.learned.domains[d] = 0,
         \A e \in learner'.learned.leases : e \in learner.learned.leases \/ e.domain \notin learnerJob.req.direct
  PROVE  LearnerInv'
<1>1. ~Learner!Idle /\ learnerJob \in RunningJobs
  BY CycleRuns
<1>2. /\ learnerJob' \in RunningJobs /\ learnerJob'.pc = "after"
      /\ learnerJob'.kind = learnerJob.kind /\ learnerJob'.gen = learnerJob.gen
      /\ learnerJob'.req = learnerJob.req /\ learnerJob'.lit = learnerJob.lit
      /\ learnerJob'.litSig = learnerJob.litSig /\ UNCHANGED <<generation, learnerTimer>>
  BY <1>1, Moves DEF Learner!At
<1>3. learner'.last # Learner!NoSig
  <2>1. learner'.learned \in Learnt
    BY DEF Learners
  <2>2. QED
    BY <2>1, SignatureIsOne
<1>4. /\ learner.target = learnerJob.req.targets /\ learnerJob.req.targets # {}
  BY DEF LearnerInv, Serves
<1>5. LearnerShapes'
  BY <1>2 DEF LearnerInv, LearnerShapes
<1>6. Queued' /\ Overtaken' /\ Settled'
  BY <1>1, <1>2, <1>3, GoesOn DEF Remembers
<1>7. Serves' /\ ApplyOwes'
  BY <1>2, <1>4 DEF Serves, ApplyOwes, Learner!Idle
<1>8. LiteralIsRemembered'
  BY <1>2 DEF LearnerInv, LiteralIsRemembered, InForce
<1>9. KeepsClear' /\ SignatureIsTrue'
  <2>1. /\ \A d \in CachedNames : d \in learnerJob.req.direct => learner.learned.domains[d] = Learner!Absent
        /\ \A e \in learner.learned.leases : e.domain \notin learnerJob.req.direct
    BY DEF LearnerInv, KeepsClear, Committed
  <2>2. QED
    BY <2>1, <1>2 DEF KeepsClear, SignatureIsTrue
<1>10. NobodyLearnsNothing' /\ LearnedWasSeen' /\ AppliedIsInForce'
  BY <1>4 DEF LearnerInv, NobodyLearnsNothing, LearnedWasSeen, AppliedIsInForce, InForce
<1>11. AgesAreKnown'
  <2>1. since \in Nat
    BY DEF LearnerInv, LearnerShapes, Learner!TTL
  <2>2. QED
    BY <2>1 DEF LearnerInv, AgesAreKnown
<1>12. Learner!PacIsForItsRules' /\ Learner!DirectListIsKept'
  BY DEF LearnerInv, Learner!PacIsForItsRules, Learner!DirectListIsKept
<1>13. QED
  BY <1>5, <1>6, <1>7, <1>8, <1>9, <1>10, <1>11, <1>12 DEF LearnerInv, Learning

(* What a look at the DNS cache adds *)
LEMMA LooksUp ==
  ASSUME LearnerBounds, LearnerInv, NEW entries, Learner!Dns(entries)
  PROVE  /\ learner' \in Learners /\ learner'.target = learner.target
         /\ learner'.applied = learner.applied
         /\ learner'.pending = learner.pending
         /\ learner'.last = Learner!buildProcessRouteSignature(learner'.target, learner'.learned)
         /\ \A a \in RemoteAddresses : learner'.learned.ips[a] # Learner!Absent => learner.learned.ips[a] # Learner!Absent
         /\ \A d \in CachedNames : \/ learner'.learned.domains[d] = learner.learned.domains[d]
                                   \/ d \notin learnerJob.req.direct /\ learner'.learned.domains[d] = 0
         /\ \A e \in learner'.learned.leases : e \in learner.learned.leases \/ e.domain \notin learnerJob.req.direct
<1> DEFINE k == Learner!enriched(learnerJob.k, learnerJob.known, learnerJob.req.direct, learnerJob.req.targets, learnerJob.conns, Learner!Lookups, entries)
           l == [learner EXCEPT !.waiting = @ \cup Learner!Lookups]
<1>1. /\ learnerJob.pc = "dns" /\ entries \subseteq Learner!Lookups \X CachedNames
      /\ learner' = IF Learner!current(learnerJob.gen) \/ Learner!Lookups = {} THEN Learner!commit(l, IF Learner!Lookups = {} THEN learnerJob.k ELSE k) ELSE l
  BY DEF Learner!Dns
<1>2. learner \in Learners /\ learner.learned \in Learnt
  BY <1>1, CycleRuns
<1>3. Learner!Lookups \subseteq RemoteAddresses
  BY DEF Learner!Lookups
<1>4. /\ learnerJob.k = learner.learned /\ learner.target = learnerJob.req.targets
      /\ learnerJob.req.targets # {}
  BY <1>1 DEF LearnerInv, Serves
<1>5. /\ l \in Learners /\ l.target = learner.target /\ l.applied = learner.applied
      /\ l.pending = learner.pending /\ l.last = learner.last /\ l.learned = learner.learned
  BY <1>2, <1>3 DEF Learners
<1>6. entries \subseteq RemoteAddresses \X CachedNames
  BY <1>1, <1>3
<1>7. /\ k \in Learnt
      /\ \A a \in RemoteAddresses : k.ips[a] # Learner!Absent => learner.learned.ips[a] # Learner!Absent
      /\ \A d \in CachedNames : \/ k.domains[d] = learner.learned.domains[d]
                                \/ d \notin learnerJob.req.direct /\ k.domains[d] = 0
      /\ \A e \in k.leases : e \in learner.learned.leases \/ e.domain \notin learnerJob.req.direct
  BY <1>2, <1>4, <1>6, Enriches
<1> HIDE DEF k, l
<1>8. CASE ~(Learner!current(learnerJob.gen) \/ Learner!Lookups = {})
  <2>1. learner' = l
    BY <1>1, <1>8
  <2>2. l.last = Learner!buildProcessRouteSignature(l.target, l.learned)
    BY <1>1, <1>4, <1>5 DEF LearnerInv, SignatureIsTrue, Committed
  <2>3. QED
    BY <2>1, <2>2, <1>5
<1>9. CASE Learner!current(learnerJob.gen) \/ Learner!Lookups = {}
  <2>1. PICK n \in {k, learner.learned} : learner' = Learner!commit(l, n)
    BY <1>1, <1>4, <1>9
  <2>2. n \in Learnt
    BY <1>2, <1>7
  <2>3. /\ learner' \in Learners /\ learner'.target = learner.target /\ learner'.learned = n
        /\ learner'.last = Learner!buildProcessRouteSignature(learner'.target, n)
        /\ learner'.applied = learner.applied /\ learner'.pending = learner.pending
    BY <2>1, <2>2, <1>5, Commits
  <2>4. QED
    BY <2>3, <1>7
<1>10. QED
  BY <1>8, <1>9

LEMMA DnsStep ==
  ASSUME LearnerBounds, LearnerInv, NEW entries, Learner!Dns(entries)
  PROVE  LearnerInv'
<1>1. /\ learnerJob.pc = "dns" /\ Learner!At("after")
      /\ UNCHANGED <<learnerActive, learnerRequest, learnerQueue, pac, seen, since>>
  BY DEF Learner!Dns
<1>2. QED
  BY <1>1, LooksUp, PhaseEnds

(* A failed look at the cache leaves what the first phase learned. *)
LEMMA LooksInVain ==
  ASSUME LearnerBounds, LearnerInv, Learner!DnsFails
  PROVE  /\ learner' \in Learners /\ learner'.target = learner.target
         /\ learner'.applied = learner.applied
         /\ learner'.pending = learner.pending
         /\ learner'.last = Learner!buildProcessRouteSignature(learner'.target, learner'.learned)
         /\ learner'.learned = learner.learned
<1> DEFINE l == [learner EXCEPT !.waiting = @ \cup Learner!Lookups]
<1>1. learnerJob.pc = "dns" /\ learner' = Learner!commit(l, learnerJob.k)
  BY DEF Learner!DnsFails
<1>2. learner \in Learners /\ learner.learned \in Learnt
  BY <1>1, CycleRuns
<1>3. /\ l \in Learners /\ l.target = learner.target /\ l.applied = learner.applied
      /\ l.pending = learner.pending
  BY <1>2 DEF Learners, Learner!Lookups
<1>4. learnerJob.k = learner.learned
  BY <1>1 DEF LearnerInv, Serves
<1> HIDE DEF l
<1>5. QED
  BY <1>1, <1>2, <1>3, <1>4, Commits

LEMMA DnsFailsStep ==
  ASSUME LearnerBounds, LearnerInv, Learner!DnsFails
  PROVE  LearnerInv'
<1>1. /\ learnerJob.pc = "dns" /\ Learner!At("after")
      /\ UNCHANGED <<learnerActive, learnerRequest, learnerQueue, pac, seen, since>>
  BY DEF Learner!DnsFails
<1>2. QED
  BY <1>1, LooksInVain, PhaseEnds

(* What is published is for its rules, and the signature of what is learned. *)
LEMMA Publishes ==
  ASSUME LearnerBounds, LearnerInv, Committed, learnerJob.pc # "idle"
  PROVE  /\ Learner!Published \in LearnedPacs /\ Learner!Published.kind = "pac"
         /\ \A a \in Learner!Published.ips : seen[a] \cap Learner!Published.targets # {}
         /\ Learner!Published.domains \cap Learner!Published.direct \subseteq Learner!Hints(Learner!Published.targets)
         /\ learnerJob.req.targets # {} => /\ Learner!Published.ips = learner.last.ips
                                           /\ Learner!Published.domains = learner.last.domains
<1>1. /\ learner \in Learners /\ learner.learned \in Learnt
      /\ learnerJob.req.targets \in SUBSET LearnedApps
      /\ learnerJob.req.direct \in SUBSET CachedNames
  BY CycleRuns DEF Committed
<1>2. learner.target = learnerJob.req.targets
  BY DEF Committed, LearnerInv, Serves
<1>3. /\ Learner!Published.kind = "pac" /\ Learner!Published.targets = learnerJob.req.targets
      /\ Learner!Published.direct = learnerJob.req.direct
      /\ Learner!Published.ips = Learner!currentIps(learner.learned)
      /\ Learner!Published.domains = Learner!currentDomains(learner.target, learner.learned)
  BY DEF Learner!Published
<1>4. /\ Learner!currentIps(learner.learned) \subseteq RemoteAddresses
      /\ Learner!currentDomains(learner.target, learner.learned) \subseteq CachedNames \cup FamilyNames
  <2>1. Learner!buildProcessRouteSignature(learner.target, learner.learned) \in Sigs
    BY <1>1, SignatureIsOne
  <2>2. Learner!currentIps(learner.learned) \subseteq RemoteAddresses
    BY <1>1, KnowsAddresses
  <2>3. QED
    BY <2>1, <2>2 DEF Learner!buildProcessRouteSignature, Sigs
<1>5. Learner!Published \in LearnedPacs
  BY <1>1, <1>3, <1>4 DEF Learner!Published, LearnedPacs
<1>6. ASSUME NEW a \in Learner!Published.ips PROVE seen[a] \cap Learner!Published.targets # {}
  <2>1. a \in RemoteAddresses /\ learner.learned.ips[a] # Learner!Absent
    BY <1>1, <1>3 DEF Learner!currentIps, Learner!Present, Learnt
  <2>2. QED
    BY <2>1, <1>2, <1>3 DEF LearnerInv, LearnedWasSeen
<1>7. ASSUME NEW d \in Learner!Published.domains, d \in Learner!Published.direct
      PROVE d \in Learner!Hints(Learner!Published.targets)
  <2>1. /\ \A x \in CachedNames : x \in learnerJob.req.direct => learner.learned.domains[x] = Learner!Absent
        /\ \A e \in learner.learned.leases : e.domain \notin learnerJob.req.direct
    BY DEF LearnerInv, KeepsClear
  <2>2. d \notin Learner!Present(learner.learned.domains)
    BY <2>1, <1>1, <1>3, <1>7 DEF Learner!Present, Learnt
  <2>3. d \notin {e.domain : e \in learner.learned.leases}
    BY <2>1, <1>3, <1>7
  <2>4. QED
    BY <2>2, <2>3, <1>2, <1>3, <1>7 DEF Learner!currentDomains
<1>8. learnerJob.req.targets # {} => /\ Learner!Published.ips = learner.last.ips
                                     /\ Learner!Published.domains = learner.last.domains
  BY <1>3 DEF LearnerInv, SignatureIsTrue, Learner!buildProcessRouteSignature
<1>9. QED
  BY <1>3, <1>5, <1>6, <1>7, <1>8

(* Whoever has learned for somebody has a signature to show. *)
LEMMA HasSignature ==
  ASSUME LearnerBounds, LearnerInv, Committed, learnerJob.pc # "idle", learnerJob.req.targets # {}
  PROVE  learner.last # Learner!NoSig
<1>1. learner.learned \in Learnt
  BY CycleRuns DEF Committed
<1>2. QED
  BY <1>1, SignatureIsOne DEF LearnerInv, SignatureIsTrue

(* A learner of which only the account of publications changes *)
LEMMA Accounts ==
  ASSUME NEW l \in Learners, NEW b \in BOOLEAN
  PROVE  /\ LET n == [l EXCEPT !.pending = b] IN
            /\ n \in Learners /\ n.pending = b /\ n.target = l.target /\ n.learned = l.learned
            /\ n.last = l.last /\ n.applied = l.applied
         /\ LET n == [l EXCEPT !.applied = l.last, !.pending = b] IN
            /\ n \in Learners /\ n.pending = b /\ n.target = l.target /\ n.learned = l.learned
            /\ n.last = l.last /\ n.applied = l.last
         /\ LET n == [l EXCEPT !.pending = b, !.applied = l.last] IN
            /\ n \in Learners /\ n.pending = b /\ n.target = l.target /\ n.learned = l.learned
            /\ n.last = l.last /\ n.applied = l.last
BY DEF Learners

(* What a published pac says is true of its rules, and one that stays says what it said. *)
LEMMA PacIsTrue ==
  ASSUME LearnerBounds, LearnerInv, Committed, learnerJob.pc # "idle",
         UNCHANGED seen, pac' = Learner!Published \/ pac' = pac
  PROVE  pac' \in [kind : {"direct", "other"}] \cup LearnedPacs /\ Learner!PacIsForItsRules' /\ Learner!DirectListIsKept'
<1>1. CASE pac' = Learner!Published
  BY <1>1, Publishes DEF Learner!PacIsForItsRules, Learner!DirectListIsKept
<1>2. CASE pac' = pac
  BY <1>2 DEF LearnerInv, LearnerShapes, Learner!PacIsForItsRules, Learner!DirectListIsKept
<1>3. QED
  BY <1>1, <1>2

(* What a publication accounts for *)
LEMMA AccountIsKept ==
  ASSUME LearnerBounds, LearnerInv, UNCHANGED <<seen, since>>, learner'.target = learner.target,
         learner'.learned = learner.learned,
         learner.target = {} => learner'.applied = Learner!NoSig
  PROVE  NobodyLearnsNothing' /\ LearnedWasSeen' /\ AgesAreKnown'
BY DEF LearnerInv, NobodyLearnsNothing, LearnedWasSeen, AgesAreKnown

(* The literal addresses are published first, or their publication is owed. *)
LEMMA LiteralStep ==
  ASSUME LearnerBounds, LearnerInv, Learner!Literal
  PROVE  LearnerInv'
<1>1. /\ learnerJob.pc = "literal"
      /\ UNCHANGED <<learnerActive, learnerRequest, generation, learnerQueue, learnerTimer, seen, since>>
  BY DEF Learner!Literal
<1>2. /\ ~Learner!Idle /\ learnerJob \in RunningJobs /\ learner \in Learners
      /\ learner.learned \in Learnt
      /\ learner.last \in Sigs /\ Committed
  BY <1>1, CycleRuns DEF Learners, Committed
<1>3. /\ learner.target = learnerJob.req.targets /\ learnerJob.req.targets # {}
      /\ learnerJob.k = learner.learned /\ learnerJob.lit = "no"
  BY <1>1 DEF LearnerInv, Serves
<1>4. learner.last # Learner!NoSig /\ LearnerShapes
  BY <1>1, <1>2, <1>3, HasSignature DEF LearnerInv
<1>5. ASSUME learner' \in Learners, learner'.target = learner.target,
             learner'.learned = learner.learned,
             learner'.last = learner.last, pac' = Learner!Published \/ pac' = pac,
             learnerJob' \in RunningJobs, learnerJob'.pc \in {"dns", "after"},
         learnerJob'.kind = learnerJob.kind, learnerJob'.gen = learnerJob.gen,
             learnerJob'.req = learnerJob.req, learnerJob'.k = learnerJob.k,
             LiteralIsRemembered', AppliedIsInForce'
      PROVE  LearnerInv'
  <2>1. /\ pac' \in [kind : {"direct", "other"}] \cup LearnedPacs /\ Learner!PacIsForItsRules'
        /\ Learner!DirectListIsKept'
    BY <1>1, <1>2, <1>5, PacIsTrue
  <2>2. LearnerShapes'
    BY <1>1, <1>5, <2>1, ShapesOnTheWay
  <2>3. Queued' /\ Overtaken' /\ Settled'
    BY <1>1, <1>2, <1>4, <1>5, GoesOn DEF Remembers
  <2>4. Serves' /\ ApplyOwes'
    BY <1>3, <1>5 DEF Serves, ApplyOwes, Learner!Idle
  <2>5. KeepsClear' /\ SignatureIsTrue'
    BY <1>2, <1>3, <1>5 DEF LearnerInv, KeepsClear, SignatureIsTrue
  <2>6. NobodyLearnsNothing' /\ LearnedWasSeen' /\ AgesAreKnown'
    BY <1>1, <1>3, <1>5, AccountIsKept
  <2>7. QED
    BY <1>5, <2>1, <2>2, <2>3, <2>4, <2>5, <2>6 DEF LearnerInv, Learning
<1>a. CASE /\ pac' = Learner!Published
           /\ learner' = [learner EXCEPT !.applied = learner.last, !.pending = FALSE]
           /\ learnerJob' = [learnerJob EXCEPT !.pc = "dns", !.lit = "done", !.litSig = learner.last]
  <2>1. /\ learner' \in Learners /\ learner'.target = learner.target
        /\ learner'.learned = learner.learned
        /\ learner'.last = learner.last /\ learner'.applied = learner.last
    BY <1>2, <1>a, Accounts
  <2>2. /\ learnerJob' \in RunningJobs /\ learnerJob'.pc = "dns"
        /\ learnerJob'.kind = learnerJob.kind /\ learnerJob'.gen = learnerJob.gen
        /\ learnerJob'.req = learnerJob.req /\ learnerJob'.k = learnerJob.k
        /\ learnerJob'.lit = "done" /\ learnerJob'.litSig = learner.last
    BY <1>2, <1>a DEF RunningJobs
  <2>3. pac'.kind = "pac" /\ pac'.ips = learner.last.ips /\ pac'.domains = learner.last.domains
    BY <1>1, <1>2, <1>3, <1>a, Publishes
  <2>4. LiteralIsRemembered' /\ AppliedIsInForce'
    BY <2>1, <2>2, <2>3 DEF LiteralIsRemembered, AppliedIsInForce, InForce
  <2>5. QED
    BY <1>5, <1>a, <2>1, <2>2, <2>4
<1>b. CASE /\ learner' = Learner!stillOwed(learner) /\ UNCHANGED pac
           /\ learnerJob' = [learnerJob EXCEPT !.pc = "dns", !.lit = "failed", !.litSig = learner.last]
  <2>1. /\ learner' \in Learners /\ learner'.target = learner.target
        /\ learner'.learned = learner.learned
        /\ learner'.last = learner.last /\ learner'.pending
    BY <1>2, <1>b, Accounts DEF Learner!stillOwed
  <2>2. /\ learnerJob' \in RunningJobs /\ learnerJob'.pc = "dns"
        /\ learnerJob'.kind = learnerJob.kind /\ learnerJob'.gen = learnerJob.gen
        /\ learnerJob'.req = learnerJob.req /\ learnerJob'.k = learnerJob.k
        /\ learnerJob'.lit = "failed"
    BY <1>2, <1>b DEF RunningJobs
  <2>3. LiteralIsRemembered' /\ AppliedIsInForce'
    BY <2>1, <2>2 DEF LiteralIsRemembered, AppliedIsInForce
  <2>4. QED
    BY <1>5, <1>b, <2>1, <2>2, <2>3
<1>c. CASE /\ learnerJob' = [learnerJob EXCEPT !.pc = IF Learner!current(learnerJob.gen) THEN "dns" ELSE "after", !.litSig = learner.last]
           /\ UNCHANGED <<learner, pac>>
  <2>1. /\ learnerJob' \in RunningJobs /\ learnerJob'.pc \in {"dns", "after"}
        /\ learnerJob'.kind = learnerJob.kind /\ learnerJob'.gen = learnerJob.gen
        /\ learnerJob'.req = learnerJob.req /\ learnerJob'.k = learnerJob.k
        /\ learnerJob'.lit = "no"
    BY <1>2, <1>3, <1>c DEF RunningJobs
  <2>2. LiteralIsRemembered' /\ AppliedIsInForce'
    BY <1>c, <2>1 DEF LearnerInv, LiteralIsRemembered, AppliedIsInForce, InForce
  <2>3. QED
    BY <1>2, <1>5, <1>c, <2>1, <2>2
<1>d. QED
  BY <1>a, <1>b, <1>c DEF Learner!Literal

(* What follows learn, when the mutation is over *)
LEMMA LearningIsDone ==
  ASSUME LearnerBounds, LearnerInv, ~Learner!Idle, Learner!Ends(generation) \/ Learner!Monitored,
         UNCHANGED <<learnerActive, learnerRequest, learnerQueue, seen, since>>,
         learner' \in Learners, learner'.target = learner.target,
         learner'.learned = learner.learned,
         learner.target = {} => learner'.applied = Learner!NoSig,
         pac' \in [kind : {"direct", "other"}] \cup LearnedPacs, Learner!PacIsForItsRules',
         Learner!DirectListIsKept',
         AppliedIsInForce', Queued', Overtaken', Settled'
  PROVE  LearnerInv'
<1>1. LearnerShapes' /\ learnerJob'.pc = "idle"
  BY ShapesAtEnd
<1>2. NobodyLearnsNothing' /\ LearnedWasSeen' /\ AgesAreKnown'
  BY AccountIsKept
<1>3. Learning'
  BY <1>1, <1>2, LearningEnds
<1>4. QED
  BY <1>1, <1>3 DEF LearnerInv, Learning

LEMMA AfterLearnStep ==
  ASSUME LearnerBounds, LearnerInv, Learner!AfterLearn
  PROVE  LearnerInv'
<1>1. /\ learnerJob.pc = "after"
      /\ UNCHANGED <<learnerActive, learnerRequest, learnerQueue, pac, seen, since>>
  BY DEF Learner!AfterLearn
<1>2. /\ ~Learner!Idle /\ learnerJob \in RunningJobs /\ learner \in Learners
      /\ learner.learned \in Learnt
      /\ learner.last \in Sigs /\ learnerJob.kind \in {"apply", "refresh"}
  BY <1>1, CycleRuns DEF Learners
<1>3. /\ learner.target = learnerJob.req.targets
      /\ learnerJob.lit # "no" => learnerJob.req.targets # {}
  BY <1>1, <1>2 DEF LearnerInv, Serves
<1>4. /\ LearnerShapes /\ pac \in [kind : {"direct", "other"}] \cup LearnedPacs
      /\ Learner!PacIsForItsRules' /\ Learner!DirectListIsKept'
  BY <1>1 DEF LearnerInv, LearnerShapes, Learner!PacIsForItsRules, Learner!DirectListIsKept
<1>5. learner.target = {} => learner.applied = Learner!NoSig
  BY DEF LearnerInv, NobodyLearnsNothing
<1>6. Learner!current(learnerJob.gen) => Committed
  BY <1>1 DEF Committed
<1>7. Learner!current(learnerJob.gen) /\ learnerJob.req.targets # {} => learner.last # Learner!NoSig
  BY <1>1, <1>6, HasSignature
<1>8. /\ learnerJob.lit = "done" => pac.kind = "pac" /\ InForce(learnerJob.litSig)
      /\ learnerJob.lit = "failed" => learner.pending
  BY <1>1 DEF LearnerInv, LiteralIsRemembered
<1>9. learnerJob.kind = "refresh" /\ Learner!current(learnerJob.gen) => learnerJob.req = learnerRequest
  BY <1>2 DEF LearnerInv, Overtaken
<1>10. ASSUME Learner!current(learnerJob.gen), Learner!At("final"), learner' \in Learners,
              learner'.target = learner.target,
              learner'.learned = learner.learned, learner'.last = learner.last,
         learner'.applied = learner.applied,
              learnerJob.kind = "apply" /\ learnerJob.req.targets # {} => learner'.pending,
              learner'.pending = learner.pending \/ learnerJob.kind = "apply"
       PROVE  LearnerInv'
  <2>1. /\ learnerJob' \in RunningJobs /\ learnerJob'.pc = "final"
        /\ learnerJob'.kind = learnerJob.kind /\ learnerJob'.gen = learnerJob.gen
        /\ learnerJob'.req = learnerJob.req /\ learnerJob'.lit = learnerJob.lit
        /\ UNCHANGED <<generation, learnerTimer>>
    BY <1>2, <1>10, Moves DEF Learner!At
  <2>2. LearnerShapes'
    BY <1>1, <1>4, <1>10, <2>1, ShapesOnTheWay
  <2>3. Queued' /\ Overtaken' /\ Settled'
    BY <1>1, <1>2, <1>7, <1>9, <1>10, <2>1, GoesOn DEF Remembers
  <2>4. Serves' /\ ApplyOwes' /\ LiteralIsRemembered'
    BY <1>3, <1>10, <2>1 DEF Serves, ApplyOwes, LiteralIsRemembered, Learner!Idle
  <2>5. KeepsClear' /\ SignatureIsTrue'
    BY <1>6, <1>10, <2>1 DEF LearnerInv, KeepsClear, SignatureIsTrue
  <2>6. NobodyLearnsNothing' /\ LearnedWasSeen' /\ AgesAreKnown'
    BY <1>1, <1>5, <1>10, AccountIsKept
  <2>7. AppliedIsInForce'
    <3>1. CASE learner'.pending = learner.pending
      BY <1>1, <1>10, <3>1 DEF LearnerInv, AppliedIsInForce, InForce
    <3>2. CASE learnerJob.kind = "apply"
      BY <1>3, <1>5, <1>10, <3>2 DEF AppliedIsInForce
    <3>3. QED
      BY <3>1, <3>2, <1>10
  <2>8. QED
    BY <1>4, <2>2, <2>3, <2>4, <2>5, <2>6, <2>7 DEF LearnerInv, Learning
<1>11. UNCHANGED learner => AppliedIsInForce'
  BY <1>1 DEF LearnerInv, AppliedIsInForce, InForce
<1>a. CASE ~(Learner!current(learnerJob.gen) /\ learnerActive) /\ Learner!Ends(generation) /\ UNCHANGED learner
  <2>1. Queued' /\ Overtaken' /\ Settled'
    BY <1>1, <1>2, <1>a, IsOver
  <2>2. QED
    BY <1>1, <1>2, <1>4, <1>5, <1>11, <1>a, <2>1, LearningIsDone
<1>b. CASE /\ Learner!current(learnerJob.gen) /\ learnerActive /\ learnerJob.lit = "failed"
           /\ UNCHANGED learner
           /\ IF learnerJob.kind = "apply" THEN Learner!Monitored ELSE Learner!Ends(generation)
  <2>1. Remembers'
    BY <1>8, <1>b DEF Remembers
  <2>2. Queued' /\ Overtaken' /\ Settled'
    <3>1. CASE learnerJob.kind = "apply"
      BY <1>1, <1>2, <1>b, <2>1, <3>1, IsMonitored
    <3>2. CASE learnerJob.kind # "apply"
      BY <1>1, <1>2, <1>b, <2>1, <3>2, IsOver
    <3>3. QED
      BY <3>1, <3>2
  <2>3. QED
    BY <1>1, <1>2, <1>4, <1>5, <1>11, <1>b, <2>2, LearningIsDone
<1>c. CASE /\ Learner!current(learnerJob.gen) /\ learnerActive /\ learnerJob.lit = "done"
           /\ learnerJob.litSig = learner.last
           /\ learner' = [learner EXCEPT !.pending = FALSE, !.applied = learner.last]
           /\ IF learnerJob.kind = "apply" THEN Learner!Monitored ELSE Learner!Ends(generation)
  <2>1. /\ learner' \in Learners /\ learner'.target = learner.target
        /\ learner'.learned = learner.learned
        /\ learner'.last = learner.last /\ learner'.applied = learner.last
    BY <1>2, <1>c, Accounts
  <2>2. Remembers' /\ learnerJob.req.targets # {}
    BY <1>3, <1>7, <1>c, <2>1 DEF Remembers
  <2>3. Queued' /\ Overtaken' /\ Settled'
    <3>1. CASE learnerJob.kind = "apply"
      BY <1>1, <1>2, <1>c, <2>2, <3>1, IsMonitored
    <3>2. CASE learnerJob.kind # "apply"
      BY <1>1, <1>2, <1>c, <2>2, <3>2, IsOver
    <3>3. QED
      BY <3>1, <3>2
  <2>4. AppliedIsInForce'
    BY <1>1, <1>8, <1>c, <2>1 DEF AppliedIsInForce, InForce
  <2>5. QED
    BY <1>1, <1>2, <1>3, <1>4, <1>c, <2>1, <2>2, <2>3, <2>4, LearningIsDone
<1>d. CASE /\ Learner!current(learnerJob.gen) /\ learnerActive /\ learnerJob.kind = "refresh"
           /\ UNCHANGED learner
           /\ IF learner.pending \/ learner.last # learner.applied THEN Learner!At("final") ELSE Learner!Ends(generation)
  <2>1. CASE Learner!At("final")
    BY <1>2, <1>10, <1>d, <2>1
  <2>2. CASE Learner!Ends(generation)
    <3>1. learnerRequest.targets # {} => Remembers'
      BY <1>7, <1>9, <1>d DEF Remembers
    <3>2. Queued' /\ Overtaken' /\ Settled'
      BY <1>1, <1>2, <1>d, <2>2, <3>1, IsOver
    <3>3. QED
      BY <1>1, <1>2, <1>4, <1>5, <1>11, <1>d, <2>2, <3>2, LearningIsDone
  <2>3. QED
    BY <2>1, <2>2, <1>d
<1>e. CASE /\ Learner!current(learnerJob.gen) /\ learnerActive /\ learnerJob.kind = "apply"
           /\ learner' = [learner EXCEPT !.pending = learnerJob.req.targets # {}]
           /\ Learner!At("final")
  <2>1. /\ learner' \in Learners /\ learner'.target = learner.target
        /\ learner'.learned = learner.learned
        /\ learner'.last = learner.last /\ learner'.applied = learner.applied
        /\ learnerJob.req.targets # {} => learner'.pending
    <3>1. CASE learnerJob.req.targets = {}
      <4>1. learner' = [learner EXCEPT !.pending = FALSE]
        BY <1>e, <3>1
      <4>2. QED
        BY <1>2, <3>1, <4>1, Accounts
    <3>2. CASE learnerJob.req.targets # {}
      <4>1. learner' = [learner EXCEPT !.pending = TRUE]
        BY <1>e, <3>2
      <4>2. QED
        BY <1>2, <4>1, Accounts
    <3>3. QED
      BY <3>1, <3>2
  <2>2. QED
    BY <1>10, <1>e, <2>1
<1>f. QED
  BY <1>1, <1>a, <1>b, <1>c, <1>d, <1>e DEF Learner!AfterLearn

(* The final publication is of what was learned, or is owed. *)
LEMMA FinalStep ==
  ASSUME LearnerBounds, LearnerInv, Learner!Final
  PROVE  LearnerInv'
<1>1. /\ learnerJob.pc = "final"
      /\ UNCHANGED <<learnerActive, learnerRequest, learnerQueue, seen, since>>
  BY DEF Learner!Final
<1>2. /\ ~Learner!Idle /\ learnerJob \in RunningJobs /\ learner \in Learners
      /\ learner.learned \in Learnt
      /\ learner.last \in Sigs /\ learnerJob.kind \in {"apply", "refresh"} /\ Committed
  BY <1>1, CycleRuns DEF Learners, Committed
<1>3. learner.target = learnerJob.req.targets
  BY <1>1 DEF LearnerInv, Serves
<1>4. learner.target = {} => learner.applied = Learner!NoSig
  BY DEF LearnerInv, NobodyLearnsNothing
<1>5. learnerJob.req.targets # {} => learner.last # Learner!NoSig
  BY <1>1, <1>2, HasSignature
<1>6. learnerJob.kind = "refresh" /\ Learner!current(learnerJob.gen) => learnerJob.req = learnerRequest
  BY <1>2 DEF LearnerInv, Overtaken
<1>7. ASSUME pac' = Learner!Published \/ pac' = pac
      PROVE  pac' \in [kind : {"direct", "other"}] \cup LearnedPacs /\ Learner!PacIsForItsRules' /\ Learner!DirectListIsKept'
  BY <1>1, <1>2, <1>7, PacIsTrue
<1>8. ASSUME UNCHANGED <<learner, pac>> PROVE AppliedIsInForce'
  BY <1>8 DEF LearnerInv, AppliedIsInForce, InForce
<1>9. learnerJob.kind = "apply" /\ learnerJob.req.targets # {} => learner.pending
  BY <1>1 DEF LearnerInv, ApplyOwes
<1>a. CASE /\ learnerJob.kind = "refresh" /\ ~(Learner!current(learnerJob.gen) /\ learnerActive)
           /\ Learner!Ends(generation)
           /\ UNCHANGED <<learner, pac>>
  <2>1. Queued' /\ Overtaken' /\ Settled'
    BY <1>1, <1>2, <1>a, IsOver
  <2>2. QED
    BY <1>1, <1>2, <1>4, <1>7, <1>8, <1>a, <2>1, LearningIsDone
<1>b. CASE /\ pac' = Learner!Published /\ Learner!current(learnerJob.gen) /\ learnerActive
           /\ learner' = IF learnerJob.req.targets # {}
                         THEN [learner EXCEPT !.applied = learner.last, !.pending = FALSE] ELSE learner
           /\ IF learnerJob.kind = "apply" /\ learnerJob.req.targets # {} THEN Learner!Monitored ELSE Learner!Ends(generation)
  <2>1. CASE learnerJob.req.targets # {}
    <3>1. /\ learner' \in Learners /\ learner'.target = learner.target
          /\ learner'.learned = learner.learned
          /\ learner'.last = learner.last /\ learner'.applied = learner.last
      BY <1>2, <1>b, <2>1, Accounts
    <3>2. pac'.ips = learner.last.ips /\ pac'.domains = learner.last.domains
      BY <1>1, <1>2, <1>b, <2>1, Publishes
    <3>3. AppliedIsInForce' /\ Remembers'
      BY <1>5, <2>1, <3>1, <3>2 DEF AppliedIsInForce, InForce, Remembers
    <3>4. Queued' /\ Overtaken' /\ Settled'
      <4>1. CASE learnerJob.kind = "apply"
        BY <1>1, <1>2, <1>b, <2>1, <3>3, <4>1, IsMonitored
      <4>2. CASE learnerJob.kind # "apply"
        BY <1>1, <1>2, <1>b, <3>3, <4>2, IsOver
      <4>3. QED
        BY <4>1, <4>2
    <3>5. QED
      BY <1>1, <1>2, <1>3, <1>7, <1>b, <2>1, <3>1, <3>3, <3>4, LearningIsDone
  <2>2. CASE learnerJob.req.targets = {}
    <3>1. learner' = learner /\ Learner!Ends(generation)
      BY <1>b, <2>2
    <3>2. AppliedIsInForce'
      BY <1>3, <1>4, <2>2, <3>1 DEF AppliedIsInForce
    <3>3. Queued' /\ Overtaken' /\ Settled'
      BY <1>1, <1>2, <1>6, <2>2, <3>1, IsOver
    <3>4. QED
      BY <1>1, <1>2, <1>4, <1>7, <1>b, <3>1, <3>2, <3>3, LearningIsDone
  <2>3. QED
    BY <2>1, <2>2
<1>c. CASE /\ learnerJob.kind = "apply" /\ pac' = Learner!Published
           /\ ~(Learner!current(learnerJob.gen) /\ learnerActive)
           /\ UNCHANGED learner /\ Learner!Ends(generation)
  <2>1. AppliedIsInForce'
    BY <1>3, <1>4, <1>9, <1>c DEF AppliedIsInForce
  <2>2. Queued' /\ Overtaken' /\ Settled'
    BY <1>1, <1>2, <1>c, IsOver
  <2>3. QED
    BY <1>1, <1>2, <1>4, <1>7, <1>c, <2>1, <2>2, LearningIsDone
<1>d. CASE /\ learnerJob.kind = "apply" \/ (Learner!current(learnerJob.gen) /\ learnerActive)
           /\ learner' = (IF learnerJob.req.targets # {} THEN Learner!stillOwed(learner) ELSE learner) /\ UNCHANGED pac
           /\ IF learnerJob.kind = "apply" /\ learnerJob.req.targets # {} /\ Learner!current(learnerJob.gen) /\ learnerActive
              THEN Learner!Monitored ELSE Learner!Ends(generation)
  <2>1. /\ learner' \in Learners /\ learner'.target = learner.target
        /\ learner'.learned = learner.learned
        /\ learner'.applied = learner.applied
        /\ learnerJob.req.targets # {} => learner'.pending
        /\ learnerJob.req.targets = {} => learner' = learner
    <3>1. CASE learnerJob.req.targets # {}
      <4>1. learner' = [learner EXCEPT !.pending = TRUE]
        BY <1>d, <3>1 DEF Learner!stillOwed
      <4>2. QED
        BY <1>2, <3>1, <4>1, Accounts
    <3>2. CASE learnerJob.req.targets = {}
      BY <1>2, <1>d, <3>2
    <3>3. QED
      BY <3>1, <3>2
  <2>2. AppliedIsInForce'
    <3>1. CASE learnerJob.req.targets # {}
      BY <2>1, <3>1 DEF AppliedIsInForce
    <3>2. CASE learnerJob.req.targets = {}
      BY <1>8, <1>d, <2>1, <3>2
    <3>3. QED
      BY <3>1, <3>2
  <2>3. learnerJob.req.targets # {} => Remembers'
    BY <2>1 DEF Remembers
  <2>4. Queued' /\ Overtaken' /\ Settled'
    <3>1. CASE learnerJob.kind = "apply" /\ learnerJob.req.targets # {} /\ Learner!current(learnerJob.gen) /\ learnerActive
      BY <1>1, <1>2, <1>d, <2>3, <3>1, IsMonitored
    <3>2. CASE learnerJob.kind = "apply" /\ ~(learnerJob.req.targets # {} /\ Learner!current(learnerJob.gen) /\ learnerActive)
      BY <1>1, <1>2, <1>d, <3>2, IsOver
    <3>3. CASE learnerJob.kind = "refresh"
      BY <1>1, <1>2, <1>6, <1>d, <2>3, <3>3, IsOver
    <3>4. QED
      BY <3>1, <3>2, <3>3, <1>2
  <2>5. Learner!Ends(generation) \/ Learner!Monitored
    BY <1>d
  <2>6. QED
    BY <1>1, <1>2, <1>4, <1>7, <1>d, <2>1, <2>2, <2>4, <2>5, LearningIsDone
<1>e. QED
  BY <1>1, <1>2, <1>a, <1>b, <1>c, <1>d DEF Learner!Final

-----------------------------------------------------------------------------
(* The invariant *)

LEMMA LearnerInvBegins ==
  ASSUME LearnerBounds, Learner!Init
  PROVE  LearnerInv
<1> DEFINE m == [kind |-> "apply", gen |-> 1, req |-> learnerRequest]
<1>1. /\ learnerJob.pc = "idle" /\ learnerJob \in IdleJobs /\ Learner!Idle
      /\ learner = Learner!Cleared /\ pac = [kind |-> "direct"]
      /\ learnerRequest \in Routings /\ learnerQueue = <<m>> /\ m \in Mutations
  BY DEF Learner!Init, IdleJobs, Learner!Idle, Mutations
<1>2. LearnerShapes
  BY <1>1, ClearedIsOne DEF Learner!Init, LearnerShapes, Learner!TTL
<1>3. Queued
  BY <1>1 DEF Queued
<1>4. Overtaken /\ Serves /\ ApplyOwes /\ LiteralIsRemembered /\ KeepsClear /\ SignatureIsTrue
  BY <1>1 DEF Overtaken, Serves, ApplyOwes, LiteralIsRemembered, KeepsClear, SignatureIsTrue,
         Committed
<1>5. NobodyLearnsNothing /\ LearnedWasSeen /\ AgesAreKnown
  BY <1>1, ClearedIsOne DEF NobodyLearnsNothing, LearnedWasSeen, AgesAreKnown,
         Learner!NothingLearned
<1>6. AppliedIsInForce /\ Settled /\ Learner!PacIsForItsRules /\ Learner!DirectListIsKept
  BY <1>1 DEF AppliedIsInForce, Settled, Learner!PacIsForItsRules, Learner!DirectListIsKept
<1>7. QED
  BY <1>2, <1>3, <1>4, <1>5, <1>6 DEF LearnerInv

LEMMA LearnerInvStays ==
  ASSUME LearnerInv, UNCHANGED Learner!vars
  PROVE  LearnerInv'
<1>1. Learning'
  BY LearningKept DEF Learner!vars
<1>2. LearnerShapes' /\ Queued'
  BY DEF Learner!vars, LearnerInv, LearnerShapes, Queued
<1>3. Overtaken' /\ Settled'
  BY DEF Learner!vars, LearnerInv, Overtaken, Settled, Owed, Learner!Idle, Learner!current
<1>4. QED
  BY <1>1, <1>2, <1>3 DEF LearnerInv, Learning

LEMMA LearnerInvStep ==
  ASSUME LearnerBounds, LearnerInv, [Learner!Next]_Learner!vars
  PROVE  LearnerInv'
<1>1. CASE UNCHANGED Learner!vars
  BY <1>1, LearnerInvStays
<1>2. CASE Learner!Next
  BY <1>2, UpdateRoutingStep, DropStep, ReturnStep, TimerFiresStep, StopStep, MutationBeginsStep, StartLearnStep,
     ConnectionsStep, ConnectionsFailStep, LiteralStep, DnsStep, DnsFailsStep, AfterLearnStep, FinalStep,
     TickStep DEF Learner!Next
<1>3. QED
  BY <1>1, <1>2

LEMMA LearnerInvHolds ==
  ASSUME LearnerBounds
  PROVE  Learner!Spec => []LearnerInv
<1>1. Learner!Init => LearnerInv
  BY LearnerInvBegins
<1>2. LearnerInv /\ [Learner!Next]_Learner!vars => LearnerInv'
  BY LearnerInvStep
<1>3. QED
  BY <1>1, <1>2, PTL DEF Learner!Spec

-----------------------------------------------------------------------------
(* A name that goes was learned for somebody, and not for nobody. *)
LEMMA NamesStay ==
  ASSUME LearnerBounds, LearnerInv, [Learner!Next]_Learner!vars
  PROVE  Learner!LearnedNamesStay
<1>1. /\ learner \in Learners /\ learner' \in Learners /\ learner.learned \in Learnt
      /\ learner'.learned \in Learnt
  <2>1. LearnerInv'
    BY LearnerInvStep
  <2>2. learner \in Learners /\ learner' \in Learners
    BY <2>1 DEF LearnerInv, LearnerShapes
  <2>3. QED
    BY <2>2 DEF Learners
<1>2. SUFFICES ASSUME NEW d \in CachedNames, learner.learned.domains[d] # Learner!Absent,
                      learner'.learned.domains[d] = Learner!Absent, learner'.target = learner.target
               PROVE  since >= Learner!TTL \/ d \in learnerJob.req.direct
  BY <1>1 DEF Learner!LearnedNamesStay, Learner!Present, Learnt
<1>3. learner.target # {} /\ learner'.learned # learner.learned
  BY <1>2 DEF LearnerInv, NobodyLearnsNothing, Learner!NothingLearned
<1>4. learner' # Learner!Cleared
  BY <1>2, <1>3, ClearedIsOne
<1>5. learner.learned.domains[d] <= since /\ learner.learned.domains[d] \in Nat /\ since \in Nat
  <2>1. learner.learned.domains[d] \in Nat /\ since \in Nat
    BY <1>1 DEF Learnt, Learner!Absent, LearnerInv, LearnerShapes, Learner!TTL
  <2>2. QED
    BY <2>1, <1>2 DEF LearnerInv, AgesAreKnown
<1>6. Learner!Next /\ learner' # learner
  BY <1>3 DEF Learner!vars
<1>7. ~(\E r \in Routings : Learner!updateRouting(r)) /\ ~Learner!Drop /\ ~Learner!Return /\ ~Learner!TimerFires /\ ~Learner!stopSystemRouting /\ ~Learner!Begin
  BY <1>4, <1>6 DEF Learner!updateRouting, Learner!Drop, Learner!Return, Learner!TimerFires,
         Learner!stopSystemRouting, Learner!Begin
<1>8. CASE Learner!StartLearn
  <2>1. /\ learner' = Learner!resetForTargets(learner, learnerJob.req.targets)
        /\ learnerJob.pc = "learn"
    BY <1>4, <1>6, <1>8 DEF Learner!StartLearn
  <2>2. learnerJob.req.targets \in SUBSET LearnedApps
    BY <2>1, CycleRuns
  <2>3. learner' = learner
    BY <1>1, <1>2, <2>1, <2>2, ResetsTarget
  <2>4. QED
    BY <2>3, <1>6
<1>9. CASE \E conns \in SUBSET (LearnedApps \X RemoteAddresses) : Learner!Connections(conns)
  <2>1. PICK conns : Learner!Connections(conns)
    BY <1>9
  <2>2. learner' = Learner!commit(learner, Learner!observed(learner, learnerJob.req.direct, conns))
    BY <1>6, <2>1 DEF Learner!Connections
  <2>3. /\ Learner!observed(learner, learnerJob.req.direct, conns) \in Learnt
        /\ Learner!observed(learner, learnerJob.req.direct, conns).domains[d] =
             IF learner.learned.domains[d] >= Learner!TTL \/ d \in learnerJob.req.direct THEN Learner!Absent ELSE 0
    BY <1>1, Observes
  <2>4. learner'.learned = Learner!observed(learner, learnerJob.req.direct, conns)
    BY <1>1, <2>2, <2>3, Commits
  <2>5. QED
    BY <1>2, <1>5, <2>3, <2>4 DEF Learner!TTL, Learner!Absent
<1>10. CASE Learner!ConnectionsFail
  <2>1. learner' = Learner!pruned(learner, learnerJob.req.direct)
    BY <1>10 DEF Learner!ConnectionsFail
  <2>2. learner'.learned.domains[d] =
          IF learner.learned.domains[d] >= Learner!TTL \/ d \in learnerJob.req.direct THEN Learner!Absent
          ELSE learner.learned.domains[d]
    BY <1>1, <2>1, Prunes
  <2>3. QED
    BY <1>2, <1>5, <2>2 DEF Learner!TTL, Learner!Absent
<1>11. CASE \E entries \in SUBSET (RemoteAddresses \X CachedNames) : Learner!Dns(entries)
  <2>1. PICK entries : Learner!Dns(entries)
    BY <1>11
  <2>2. learner'.learned.domains[d] = learner.learned.domains[d] \/ learner'.learned.domains[d] = 0
    BY <2>1, LooksUp
  <2>3. QED
    BY <1>2, <2>2 DEF Learner!Absent
<1>12. ~Learner!DnsFails
  BY <1>3, LooksInVain
<1>13. ~Learner!Literal /\ ~Learner!AfterLearn /\ ~Learner!Final
  <2>1. \A b \in BOOLEAN : /\ [learner EXCEPT !.pending = b].learned = learner.learned
                           /\ [learner EXCEPT !.applied = learner.last, !.pending = b].learned = learner.learned
                           /\ [learner EXCEPT !.pending = b, !.applied = learner.last].learned = learner.learned
    BY <1>1, Accounts
  <2>2. ~Learner!Literal
    BY <1>3, <2>1 DEF Learner!Literal, Learner!stillOwed
  <2>3. ~Learner!AfterLearn
    BY <1>3, <2>1 DEF Learner!AfterLearn
  <2>4. ~Learner!Final
    BY <1>3, <2>1 DEF Learner!Final, Learner!stillOwed
  <2>5. QED
    BY <2>2, <2>3, <2>4
<1>14. CASE Learner!Tick
  <2>1. learner'.learned.domains[d] =
          IF learner.learned.domains[d] < Learner!TTL THEN learner.learned.domains[d] + 1
          ELSE learner.learned.domains[d]
    BY <1>1, <1>14 DEF Learner!Tick, Learners, Learnt
  <2>2. QED
    BY <1>2, <1>5, <2>1 DEF Learner!TTL, Learner!Absent
<1>15. QED
  BY <1>6, <1>7, <1>8, <1>9, <1>10, <1>11, <1>12, <1>13, <1>14 DEF Learner!Next

-----------------------------------------------------------------------------

(* What the monitor knows keeps its kinds, and what it publishes is learned for the rules it is
   published with, keeps clear of their direct list, and with nothing queued or running is all in
   the PAC or known to be owed, with the monitor armed to go on. *)
THEOREM WhatIsLearnedIsTrue ==
  ASSUME LearnerBounds
  PROVE  Learner!Spec => [](Learner!TypeOK /\ Learner!LearnedRoutesAreTrue)
<1>1. LearnerInv => Learner!TypeOK
  <2> SUFFICES ASSUME LearnerInv PROVE Learner!TypeOK
    OBVIOUS
  <2>1. learnerJob.pc \in {"idle", "learn", "conns", "literal", "dns", "after", "final"}
    BY DEF LearnerInv, LearnerShapes, IdleJobs, RunningJobs
  <2>2. learner \in Learners
    BY DEF LearnerInv, LearnerShapes
  <2>3. /\ learner.learned \in Learnt /\ learner.pending \in BOOLEAN
        /\ learner.target \subseteq LearnedApps
    BY <2>2 DEF Learners
  <2>4. QED
    BY <2>1, <2>3 DEF LearnerInv, LearnerShapes, Learner!TypeOK, Learnt
<1>2. LearnerInv => Learner!LearnedIsPublished
  <2> SUFFICES ASSUME LearnerInv, Learner!Idle, learnerQueue = <<>>, learnerActive, pac.kind = "pac", learnerRequest.targets # {}
               PROVE  /\ learnerTimer = generation
                      /\ \/ learner.pending \/ learner.last # learner.applied
                         \/ pac.ips = learner.last.ips /\ pac.domains = learner.last.domains
    BY DEF Learner!LearnedIsPublished
  <2>1. ~Owed /\ learnerJob.pc # "conns" /\ 1..Len(learnerQueue) = {}
    BY DEF Owed, Learner!Idle
  <2>2. learnerTimer = generation /\ (learner.pending \/ learner.last # Learner!NoSig \/ learner.applied # Learner!NoSig)
    BY <2>1 DEF LearnerInv, Settled
  <2>3. QED
    BY <2>2 DEF LearnerInv, AppliedIsInForce, InForce
<1>3. LearnerInv => Learner!LearnedRoutesAreTrue
  BY <1>2 DEF LearnerInv, Learner!LearnedRoutesAreTrue
<1>4. QED
  BY <1>1, <1>3, LearnerInvHolds, PTL

(* While discovery works a learned name stays: it goes only with the applications it was learned
   for, by the direct list of the cycle, or after a whole TTL without one that learned. *)
THEOREM LearnedNamesAlwaysStay ==
  ASSUME LearnerBounds
  PROVE  Learner!Spec => [][Learner!LearnedNamesStay]_Learner!vars
<1>1. LearnerInv /\ [Learner!Next]_Learner!vars => [Learner!LearnedNamesStay]_Learner!vars
  BY NamesStay
<1>2. QED
  BY <1>1, LearnerInvHolds, PTL DEF Learner!Spec

-----------------------------------------------------------------------------
(* Whose process answers a lookup *)

(* A lookup may ask for a snapshot once at least. *)
LookupBounds == SnapshotAttempts \in Nat \ {0}

(* What TypeOK says, with what a lookup that was not made yet has not done *)
LookupShapes ==
  /\ call \in [AcceptedSockets -> {"new", "waiting", "again", "done"}]
  /\ awaits \in [AcceptedSockets -> {"running", "queued"}]
  /\ answer \in [AcceptedSockets -> {"none", "right", "stale", "undefined"}]
  /\ attributionRunning \subseteq AcceptedSockets /\ covered \subseteq AcceptedSockets
  /\ holds \subseteq AcceptedSockets
  /\ misled \subseteq AcceptedSockets
  /\ active \in BOOLEAN /\ queued \in BOOLEAN /\ paused \in BOOLEAN /\ disposed \in BOOLEAN
  /\ failures \in Nat /\ tries \in [AcceptedSockets -> 0..SnapshotAttempts]
  /\ helper \in {"none", "starting", "ready"}
  /\ \A l \in AcceptedSockets : call[l] = "new" => tries[l] = 0
  /\ \A l \in AcceptedSockets : answer[l] = "stale" => call[l] = "done"

(* A capture is for lookups that were made, and for all that an earlier one was for. *)
Later ==
  /\ attributionRunning \subseteq Attribution!Made /\ covered \subseteq Attribution!Made
  /\ active => covered \subseteq attributionRunning

(* A lookup awaits a capture that began after it, or that will. *)
AwaitsLater ==
  \A k \in AcceptedSockets : call[k] = "waiting" =>
    /\ active
    /\ awaits[k] = "running" => k \in attributionRunning
    /\ awaits[k] = "queued" => queued

(* Who was waited for is covered, and who is covered is in the snapshot, unless it has its
   answer or its last capture failed. *)
Covered ==
  /\ \A l \in AcceptedSockets : call[l] = "again" => l \in covered
  /\ disposed \/ \A l \in covered : call[l] = "done" \/ l \in holds \/ l \in misled

LookupInv == LookupShapes /\ Later /\ AwaitsLater /\ Covered /\ Attribution!AnswersAreFresh

-----------------------------------------------------------------------------
(* A lookup asks for a capture that is new enough for it. *)
LEMMA AsksStep ==
  ASSUME LookupBounds, LookupInv, NEW l \in AcceptedSockets, call[l] \in {"new", "again"},
         tries[l] # SnapshotAttempts, NEW made, made = Attribution!Made \cup {l},
         Attribution!refreshAfter(l, made), UNCHANGED <<answer, Attribution!table, disposed, misled>>
  PROVE  LookupInv'
<1>1. /\ call' = [call EXCEPT ![l] = "waiting"]
      /\ tries' = [tries EXCEPT ![l] = @ + 1]
      /\ awaits' = [awaits EXCEPT ![l] = IF active /\ ~Attribution!joins(l) THEN "queued" ELSE "running"]
      /\ UNCHANGED <<answer, covered, holds, failures, paused, disposed, misled>>
  BY DEF Attribution!refreshAfter, Attribution!table
<1>2. Attribution!Made' = Attribution!Made \cup {l}
  BY <1>1 DEF LookupInv, LookupShapes, Attribution!Made
<1>3. \/ active /\ queued' = (queued \/ ~Attribution!joins(l)) /\ UNCHANGED <<active, attributionRunning, helper>>
      \/ ~active /\ active' = TRUE /\ attributionRunning' = made /\ queued' = queued
         /\ helper' \in {helper, "starting"}
  BY DEF Attribution!refreshAfter, Attribution!startRefresh
<1>4. made \subseteq AcceptedSockets
  BY DEF Attribution!Made
<1>5. LookupShapes'
  <2>1. tries' \in [AcceptedSockets -> 0..SnapshotAttempts]
    BY <1>1 DEF LookupInv, LookupShapes, LookupBounds
  <2>2. call' \in [AcceptedSockets -> {"new", "waiting", "again", "done"}]
    BY <1>1 DEF LookupInv, LookupShapes
  <2>3. awaits' \in [AcceptedSockets -> {"running", "queued"}]
    BY <1>1 DEF LookupInv, LookupShapes
  <2>4. attributionRunning' \subseteq AcceptedSockets /\ helper' \in {"none", "starting", "ready"}
    BY <1>3, <1>4 DEF LookupInv, LookupShapes
  <2>5. active' \in BOOLEAN /\ queued' \in BOOLEAN
    BY <1>3 DEF LookupInv, LookupShapes, Attribution!joins
  <2>6. \A k \in AcceptedSockets : call'[k] = "new" => tries'[k] = 0
    BY <1>1 DEF LookupInv, LookupShapes
  <2>7. \A k \in AcceptedSockets : answer'[k] = "stale" => call'[k] = "done"
    BY <1>1 DEF LookupInv, LookupShapes
  <2>8. QED
    BY <1>1, <2>1, <2>2, <2>3, <2>4, <2>5, <2>6, <2>7 DEF LookupInv, LookupShapes
<1>6. Later'
  BY <1>1, <1>2, <1>3 DEF LookupInv, Later
<1>7. AwaitsLater'
  <2> SUFFICES ASSUME NEW k \in AcceptedSockets, call'[k] = "waiting"
               PROVE  /\ active'
                      /\ awaits'[k] = "running" => k \in attributionRunning'
                      /\ awaits'[k] = "queued" => queued'
    BY DEF AwaitsLater
  <2>1. CASE k = l
    <3>1. awaits'[l] = IF active /\ ~Attribution!joins(l) THEN "queued" ELSE "running"
      BY <1>1 DEF LookupInv, LookupShapes
    <3>2. CASE active
      <4>1. active' /\ attributionRunning' = attributionRunning /\ queued' = (queued \/ ~Attribution!joins(l))
        BY <3>2, <1>3
      <4>2. CASE Attribution!joins(l)
        <5>1. l \in attributionRunning' /\ awaits'[l] = "running"
          BY <4>1, <4>2, <3>1 DEF Attribution!joins
        <5>2. QED
          BY <2>1, <4>1, <5>1
      <4>3. CASE ~Attribution!joins(l)
        <5>1. queued' /\ awaits'[l] = "queued"
          BY <3>2, <4>1, <4>3, <3>1
        <5>2. QED
          BY <2>1, <4>1, <5>1
      <4>4. QED
        BY <4>2, <4>3
    <3>3. CASE ~active
      <4>1. active' /\ l \in attributionRunning' /\ awaits'[l] = "running"
        BY <3>1, <3>3, <1>3
      <4>2. QED
        BY <2>1, <4>1
    <3>4. QED
      BY <3>2, <3>3
  <2>2. CASE k # l
    <3>1. call[k] = "waiting" /\ awaits'[k] = awaits[k]
      BY <2>2, <1>1 DEF LookupInv, LookupShapes
    <3>2. active /\ (awaits[k] = "running" => k \in attributionRunning) /\ (awaits[k] = "queued" => queued)
      BY <3>1 DEF LookupInv, AwaitsLater
    <3>3. active' /\ attributionRunning' = attributionRunning /\ (queued => queued')
      BY <3>2, <1>3
    <3>4. QED
      BY <3>1, <3>2, <3>3
  <2>3. QED
    BY <2>1, <2>2
<1>8. Covered'
  BY <1>1 DEF LookupInv, LookupShapes, Covered
<1>9. Attribution!AnswersAreFresh'
  BY <1>1 DEF LookupInv, Attribution!AnswersAreFresh
<1>10. QED
  BY <1>5, <1>6, <1>7, <1>8, <1>9 DEF LookupInv

(* A capture ends: whoever awaited it is covered, and the one that follows is for everybody. *)
LEMMA OverStep ==
  ASSUME LookupInv, active, NEW h \in {"none", "starting", "ready"}, Attribution!over(h),
         failures' \in Nat, paused' \in BOOLEAN, disposed' = disposed,
         misled' \subseteq AcceptedSockets, \A l \in misled : call[l] = "done" => l \in misled',
         holds' \subseteq AcceptedSockets,
         disposed \/ \A l \in covered' : call[l] = "done" \/ l \in holds' \/ l \in misled'
  PROVE  LookupInv'
<1>1. /\ covered' = covered \cup attributionRunning
      /\ call' = [l \in AcceptedSockets |-> IF call[l] = "waiting" /\ awaits[l] = "running"
                                   THEN "again" ELSE call[l]]
      /\ awaits' = [l \in AcceptedSockets |-> "running"]
      /\ queued' = FALSE
      /\ tries' = tries /\ answer' = answer
  BY DEF Attribution!over
<1>2. \/ queued /\ active' = TRUE /\ attributionRunning' = Attribution!Made /\ helper' \in {h, "starting"}
      \/ ~queued /\ active' = FALSE /\ attributionRunning' = {} /\ helper' = h
  BY DEF Attribution!over, Attribution!follows, Attribution!startRefresh
<1>3. Attribution!Made' = Attribution!Made
  BY <1>1 DEF LookupInv, LookupShapes, Attribution!Made
<1>4. LookupShapes'
  <2>1. call' \in [AcceptedSockets -> {"new", "waiting", "again", "done"}]
    BY <1>1 DEF LookupInv, LookupShapes
  <2>2. attributionRunning' \subseteq AcceptedSockets /\ helper' \in {"none", "starting", "ready"}
    BY <1>2 DEF Attribution!Made
  <2>3. covered' \subseteq AcceptedSockets /\ active' \in BOOLEAN
    BY <1>1, <1>2 DEF LookupInv, LookupShapes
  <2>4. \A l \in AcceptedSockets : call'[l] = "new" => tries'[l] = 0
    BY <1>1 DEF LookupInv, LookupShapes
  <2>5. \A l \in AcceptedSockets : answer'[l] = "stale" => call'[l] = "done"
    BY <1>1 DEF LookupInv, LookupShapes
  <2>6. QED
    BY <1>1, <2>1, <2>2, <2>3, <2>4, <2>5 DEF LookupInv, LookupShapes
<1>5. Later'
  BY <1>1, <1>2, <1>3 DEF LookupInv, Later
<1>6. AwaitsLater'
  <2> SUFFICES ASSUME NEW l \in AcceptedSockets, call'[l] = "waiting" PROVE active' /\ l \in attributionRunning'
    BY <1>1 DEF AwaitsLater
  <2>1. call[l] = "waiting" /\ awaits[l] # "running"
    BY <1>1
  <2>2. queued
    BY <2>1 DEF LookupInv, LookupShapes, AwaitsLater
  <2>3. QED
    BY <2>1, <2>2, <1>2 DEF Attribution!Made
<1>7. Covered'
  <2>1. \A l \in AcceptedSockets : call'[l] = "again" => l \in covered'
    BY <1>1 DEF LookupInv, AwaitsLater, Covered
  <2>2. \A l \in covered' : l \in AcceptedSockets /\ (call[l] = "done" => call'[l] = "done")
    BY <1>1 DEF LookupInv, LookupShapes
  <2>3. QED
    BY <2>1, <2>2 DEF Covered
<1>8. Attribution!AnswersAreFresh'
  BY <1>1 DEF LookupInv, LookupShapes, Attribution!AnswersAreFresh
<1>9. QED
  BY <1>4, <1>5, <1>6, <1>7, <1>8 DEF LookupInv

(* A lookup that is done asks nothing any more. *)
LEMMA DoneStep ==
  ASSUME LookupInv, NEW l \in AcceptedSockets, call' = [call EXCEPT ![l] = "done"],
         UNCHANGED <<awaits, tries, Attribution!capture, Attribution!table, disposed, misled>>,
         answer' \in [AcceptedSockets -> {"none", "right", "stale", "undefined"}],
         \A k \in AcceptedSockets : answer'[k] = "stale" => k \in misled /\ (k = l \/ answer[k] = "stale")
  PROVE  LookupInv'
<1>1. UNCHANGED <<awaits, tries, active, attributionRunning, queued, helper, covered, holds, failures,
                  paused, disposed, misled>>
  BY DEF Attribution!capture, Attribution!table
<1>2. LookupShapes'
  <2>1. call' \in [AcceptedSockets -> {"new", "waiting", "again", "done"}]
    BY DEF LookupInv, LookupShapes
  <2>2. \A k \in AcceptedSockets : call'[k] = "new" => call[k] = "new"
    BY DEF LookupInv, LookupShapes
  <2>3. \A k \in AcceptedSockets : answer'[k] = "stale" => call'[k] = "done"
    BY DEF LookupInv, LookupShapes
  <2>4. QED
    BY <1>1, <2>1, <2>2, <2>3 DEF LookupInv, LookupShapes
<1>3. Attribution!Made \subseteq Attribution!Made'
  BY DEF LookupInv, LookupShapes, Attribution!Made
<1>4. Later'
  BY <1>1, <1>3 DEF LookupInv, Later
<1>5. AwaitsLater' /\ Covered'
  BY <1>1 DEF LookupInv, LookupShapes, AwaitsLater, Covered
<1>6. Attribution!AnswersAreFresh'
  BY <1>1 DEF Attribution!AnswersAreFresh
<1>7. QED
  BY <1>2, <1>4, <1>5, <1>6 DEF LookupInv

LEMMA AttributionStep ==
  ASSUME LookupBounds, LookupInv, [Attribution!Next]_Attribution!vars
  PROVE  LookupInv'
<1>1. ASSUME NEW l \in AcceptedSockets, Attribution!Resolve(l) PROVE LookupInv'
  <2>1. CASE /\ call' = [call EXCEPT ![l] = "done"]
             /\ answer' = [answer EXCEPT ![l] = "undefined"]
             /\ UNCHANGED <<awaits, tries, Attribution!capture>>
    <3>1. answer' \in [AcceptedSockets -> {"none", "right", "stale", "undefined"}]
      BY <2>1 DEF LookupInv, LookupShapes
    <3>2. \A k \in AcceptedSockets : answer'[k] = "stale" => answer[k] = "stale"
      BY <2>1 DEF LookupInv, LookupShapes
    <3>3. UNCHANGED <<Attribution!table, disposed, misled>>
      BY <1>1 DEF Attribution!Resolve
    <3>4. QED
      BY <2>1, <3>1, <3>2, <3>3, DoneStep DEF LookupInv, Attribution!AnswersAreFresh
  <2>2. CASE Attribution!refreshAfter(l, Attribution!Made \cup {l}) /\ UNCHANGED answer
    <3>1. call[l] = "new" /\ UNCHANGED <<Attribution!table, disposed, misled>>
      BY <1>1 DEF Attribution!Resolve
    <3>2. tries[l] # SnapshotAttempts
      BY <3>1 DEF LookupInv, LookupShapes, LookupBounds
    <3>3. QED
      BY <2>2, <3>1, <3>2, AsksStep
  <2>3. QED
    BY <1>1, <2>1, <2>2 DEF Attribution!Resolve
<1>2. ASSUME NEW l \in AcceptedSockets, Attribution!Continue(l) PROVE LookupInv'
  <2>1. call[l] = "again" /\ UNCHANGED <<Attribution!table, disposed, misled>>
    BY <1>2 DEF Attribution!Continue
  <2>2. CASE /\ call' = [call EXCEPT ![l] = "done"] /\ answer' = Attribution!Answered(l)
             /\ UNCHANGED <<awaits, tries, Attribution!capture>>
    <3>1. answer' \in [AcceptedSockets -> {"none", "right", "stale", "undefined"}]
      BY <2>2 DEF LookupInv, LookupShapes, Attribution!Answered
    <3>2. \A k \in AcceptedSockets : answer'[k] = "stale" => \/ answer[k] = "stale"
                                                             \/ k = l /\ ~disposed /\ l \notin holds
      BY <2>2 DEF LookupInv, LookupShapes, Attribution!Answered
    <3>3. disposed \/ l \in holds \/ l \in misled
      BY <2>1 DEF LookupInv, Covered
    <3>4. QED
      BY <2>1, <2>2, <3>1, <3>2, <3>3, DoneStep DEF LookupInv, Attribution!AnswersAreFresh
  <2>3. CASE /\ tries[l] # SnapshotAttempts /\ Attribution!refreshAfter(l, Attribution!Made)
             /\ UNCHANGED answer
    <3>1. Attribution!Made = Attribution!Made \cup {l}
      BY <2>1 DEF Attribution!Made
    <3>2. QED
      BY <2>1, <2>3, <3>1, AsksStep
  <2>4. QED
    BY <1>2, <2>2, <2>3 DEF Attribution!Continue
<1>3. ASSUME Attribution!HelperReady PROVE LookupInv'
  <2>1. /\ helper' = "ready"
        /\ UNCHANGED <<call, awaits, tries, answer, active, attributionRunning, queued, covered, holds,
                       failures, paused, disposed, misled>>
    BY <1>3 DEF Attribution!HelperReady, Attribution!calls, Attribution!table
  <2>2. QED
    BY <2>1 DEF LookupInv, LookupShapes, Later, AwaitsLater, Covered, Attribution!AnswersAreFresh, Attribution!Made
<1>4. ASSUME Attribution!CaptureSucceeds PROVE LookupInv'
  <2>1. active /\ Attribution!over(helper) /\ UNCHANGED <<paused, disposed>>
    BY <1>4 DEF Attribution!CaptureSucceeds
  <2>2. failures' \in Nat /\ holds' \subseteq AcceptedSockets
    BY <1>4 DEF Attribution!CaptureSucceeds, LookupInv, LookupShapes
  <2>3. disposed \/ \A l \in covered' : l \in holds'
    BY <1>4, <2>1 DEF Attribution!CaptureSucceeds, Attribution!over, LookupInv, Later
  <2>4. misled' \subseteq AcceptedSockets /\ \A l \in misled : call[l] = "done" => l \in misled'
    BY <1>4 DEF Attribution!CaptureSucceeds, Attribution!pending, LookupInv, LookupShapes
  <2>5. QED
    BY <2>1, <2>2, <2>3, <2>4, OverStep DEF LookupInv, LookupShapes
<1>5. ASSUME Attribution!CaptureFails PROVE LookupInv'
  <2>1. /\ active /\ Attribution!over("none") /\ UNCHANGED <<holds, disposed>>
        /\ misled' = misled \cup Attribution!pending
    BY <1>5 DEF Attribution!CaptureFails
  <2>2. failures' \in Nat /\ paused' \in BOOLEAN
    BY <1>5 DEF Attribution!CaptureFails, LookupInv, LookupShapes
  <2>3. disposed \/ \A l \in covered' : call[l] = "done" \/ l \in holds' \/ l \in misled'
    BY <2>1 DEF Attribution!over, Attribution!pending, LookupInv, Covered
  <2>4. misled' \subseteq AcceptedSockets /\ \A l \in misled : call[l] = "done" => l \in misled'
    BY <2>1 DEF Attribution!pending, LookupInv, LookupShapes
  <2>5. QED
    BY <2>1, <2>2, <2>3, <2>4, OverStep DEF LookupInv, LookupShapes
<1>6. ASSUME Attribution!PauseLapses PROVE LookupInv'
  <2>1. /\ failures' = 0 /\ paused' = FALSE
        /\ UNCHANGED <<call, awaits, tries, answer, active, attributionRunning, queued, helper, covered,
                       holds, disposed, misled>>
    BY <1>6 DEF Attribution!PauseLapses, Attribution!calls, Attribution!capture
  <2>2. QED
    BY <2>1 DEF LookupInv, LookupShapes, Later, AwaitsLater, Covered, Attribution!AnswersAreFresh, Attribution!Made
<1>7. ASSUME Attribution!Dispose PROVE LookupInv'
  <2>1. /\ disposed' = TRUE /\ holds' = {} /\ helper' \in {helper, "none"}
        /\ UNCHANGED <<call, awaits, tries, answer, active, attributionRunning, queued, covered,
                       failures, paused, misled>>
    BY <1>7 DEF Attribution!Dispose, Attribution!calls
  <2>2. QED
    BY <2>1 DEF LookupInv, LookupShapes, Later, AwaitsLater, Covered, Attribution!AnswersAreFresh, Attribution!Made
<1>8. ASSUME UNCHANGED Attribution!vars PROVE LookupInv'
  <2>1. UNCHANGED <<call, awaits, tries, answer, active, attributionRunning, queued, helper, covered,
                    holds, failures, paused, disposed, misled>>
    BY <1>8 DEF Attribution!vars, Attribution!calls, Attribution!capture, Attribution!table
  <2>2. QED
    BY <2>1 DEF LookupInv, LookupShapes, Later, AwaitsLater, Covered, Attribution!AnswersAreFresh, Attribution!Made
<1>9. QED
  BY <1>1, <1>2, <1>3, <1>4, <1>5, <1>6, <1>7, <1>8 DEF Attribution!Next

(* Accepted sockets are attributed to their process: an answer is stale only where the last
   capture that should have held the socket failed, and a lookup that waits waits for a
   capture that is running or follows. *)
THEOREM SocketsAreAttributed ==
  ASSUME LookupBounds
  PROVE  Attribution!Spec => [](Attribution!TypeOK /\ Attribution!LookupsAreAnswered)
<1>1. Attribution!Init => LookupInv
  <2> SUFFICES ASSUME Attribution!Init PROVE LookupInv
    OBVIOUS
  <2>1. LookupShapes
    <3>1. /\ call \in [AcceptedSockets -> {"new", "waiting", "again", "done"}]
          /\ awaits \in [AcceptedSockets -> {"running", "queued"}]
          /\ answer \in [AcceptedSockets -> {"none", "right", "stale", "undefined"}]
      BY DEF Attribution!Init
    <3>2. 0 \in 0..SnapshotAttempts /\ tries = [l \in AcceptedSockets |-> 0] /\ failures \in Nat
      BY DEF Attribution!Init, LookupBounds
    <3>3. /\ tries \in [AcceptedSockets -> 0..SnapshotAttempts]
          /\ \A l \in AcceptedSockets : call[l] = "new" => tries[l] = 0
      BY <3>2
    <3>4. /\ active \in BOOLEAN /\ queued \in BOOLEAN /\ paused \in BOOLEAN
          /\ disposed \in BOOLEAN
      BY DEF Attribution!Init
    <3>5. /\ attributionRunning \subseteq AcceptedSockets /\ covered \subseteq AcceptedSockets
          /\ holds \subseteq AcceptedSockets
          /\ misled \subseteq AcceptedSockets /\ helper \in {"none", "starting", "ready"}
      BY DEF Attribution!Init
    <3>6. \A l \in AcceptedSockets : answer[l] = "stale" => call[l] = "done"
      BY DEF Attribution!Init
    <3>7. QED
      BY <3>1, <3>2, <3>3, <3>4, <3>5, <3>6 DEF LookupShapes
  <2>2. Later /\ AwaitsLater /\ Covered
    BY DEF Attribution!Init, Later, AwaitsLater, Covered
  <2>3. Attribution!AnswersAreFresh
    BY DEF Attribution!Init, Attribution!AnswersAreFresh
  <2>4. QED
    BY <2>1, <2>2, <2>3 DEF LookupInv
<1>2. LookupInv /\ [Attribution!Next]_Attribution!vars => LookupInv'
  BY AttributionStep
<1>3. LookupInv => Attribution!TypeOK
  BY DEF LookupInv, LookupShapes, Attribution!TypeOK
<1>4. LookupInv => Attribution!LookupsAreAnswered
  BY DEF LookupInv, AwaitsLater, Attribution!LookupsAreAnswered, Attribution!NobodyWaitsForNothing
<1>5. QED
  BY <1>1, <1>2, <1>3, <1>4, PTL DEF Attribution!Spec

-----------------------------------------------------------------------------
(* What holds of every behaviour *)

(* The component explored is chosen once. *)
LEMMA ChosenOnce ==
  ASSUME NEW c \in {"proxy", "routing", "attribution", "learner"}, [AllNext]_allVars
  PROVE  (which = c) <=> (which = c)'
BY DEF AllNext, allVars

(* A behaviour that explores what is learned is one of ProcessRouteLearner. *)
LEMMA LearnerIsChosen ==
  /\ AllInit => (which = "learner" => Learner!Init)
  /\ [AllNext]_allVars => (which = "learner" => [Learner!Next]_Learner!vars)
<1>1. AllInit => (which = "learner" => Learner!Init)
  BY DEF AllInit
<1>2. [AllNext]_allVars => (which = "learner" => [Learner!Next]_Learner!vars)
  BY DEF AllNext, allVars, learnerVars, Learner!vars
<1>3. QED
  BY <1>1, <1>2

(* A behaviour that explores the lookups is one of ProcessAttribution. *)
LEMMA AttributionIsChosen ==
  /\ AllInit => (which = "attribution" => Attribution!Init)
  /\ [AllNext]_allVars => (which = "attribution" => [Attribution!Next]_Attribution!vars)
<1>1. AllInit => (which = "attribution" => Attribution!Init)
  BY DEF AllInit
<1>2. [AllNext]_allVars => (which = "attribution" => [Attribution!Next]_Attribution!vars)
  BY DEF AllNext, allVars, attributionVars, Attribution!vars, Attribution!calls,
         Attribution!capture, Attribution!table
<1>3. QED
  BY <1>1, <1>2

(* A lookup of process-attribution.ts is answered from a snapshot taken after its socket was
   accepted, unless the capture that was to take it failed or attribution was shut down, and
   none waits for nothing: for any number of lookups, failed captures, pauses and retries. *)
THEOREM LookupsAreAlwaysAnswered ==
  ASSUME LookupBounds
  PROVE  AllSpec => []LookupsAreAnswered
<1>1. Attribution!Spec => [](Attribution!TypeOK /\ Attribution!LookupsAreAnswered)
  BY SocketsAreAttributed
<1>2. [AllNext]_allVars => (which = "attribution" <=> (which = "attribution")')
  BY ChosenOnce
<1>3. QED
  BY <1>1, <1>2, AttributionIsChosen, PTL DEF AllSpec, Attribution!Spec, LookupsAreAnswered

(* What the process monitor learns is published only for the rules it was learned for and
   within their direct list, is in the PAC or known to be owed, and a learned name stays while
   discovery works. *)
THEOREM LearnedRoutesAreAlwaysTrue ==
  ASSUME LearnerBounds
  PROVE  AllSpec => LearnedRoutesAreTrue
<1>1. Learner!Spec => [](Learner!TypeOK /\ Learner!LearnedRoutesAreTrue)
  BY WhatIsLearnedIsTrue
<1>2. Learner!Spec => [][Learner!LearnedNamesStay]_Learner!vars
  BY LearnedNamesAlwaysStay
<1>3. [AllNext]_allVars => (which = "learner" <=> (which = "learner")')
  BY ChosenOnce
<1>4. UNCHANGED Learner!vars => Learner!LearnedNamesStay
  BY DEF Learner!vars, Learner!LearnedNamesStay
<1>5. QED
  BY <1>1, <1>2, <1>3, <1>4, LearnerIsChosen, PTL DEF AllSpec, Learner!Spec, LearnedRoutesAreTrue
=============================================================================
