------------------------------ MODULE TunAdapter ------------------------------
(***************************************************************************)
(* The virtual adapter of the Windows dataplane and who takes it down      *)
(* (internal/tun, and Dataplane.Close, the packet pumps and runnerFate of  *)
(* internal/dataplane, native/service-go).                                 *)
(*                                                                         *)
(* Two pumps call the driver for as long as the session is open.  They     *)
(* hold the adapter's lock shared through every call, its bounded wait     *)
(* included, and Close takes it exclusively: a session must not end under  *)
(* a call.  A ring that fails is reported by the pump that Close waits     *)
(* for; the runner then takes itself down unless its owner has asked       *)
(* first, and exactly one of the two does.                                 *)
(***************************************************************************)
EXTENDS Naturals, FiniteSets

CONSTANTS
  Paths,          \* searchPaths, in order: 1..n
  createAttempts, \* tries to create the adapter while an earlier one lingers
  MaxOpens,       \* adapters opened
  MaxPackets,     \* packets that arrive at either pump
  MaxFaults,      \* driver calls and file operations that fail
  MaxSwaps        \* times somebody changes a file

VARIABLES
  file,           \* each path: "missing" | "wrong" | "right", the file there
  load,           \* loadWintun: [at, candidate]; the file it verified is held open
  loaded,         \* what was loaded
  device,         \* the device node of an adapter: "none" | "up" | "lingering"
  open,           \* Open and Start: where it stands
  tries,          \* createAdapter's attempts
  session,        \* "none" | "open" | "ended"
  readers, writer,\* the adapter's lock: who shares it; Close: "none" | "waits" | "holds"
  inbound, outbound, \* where the pumps stand
  cancelled,      \* the dataplane's context
  failure,        \* runnerFate: a failure is in the channel
  claimed,        \* runnerFate: "nobody" | "owner" | "runner"
  supervisor,     \* "select" | "claim" | "closes" | "ended"
  owner,          \* "idle" | "closes" | "closed"
  closer,         \* who holds closeMu
  teardown,       \* the teardown: "none" | "adapter" | "pumps" | "done"
  told,           \* OnFatal has been called
  ends,           \* sessions of this adapter ended
  opens, packets, faults, swaps

locks == <<readers, writer>>
loading == <<file, load, loaded>>
pumps == <<inbound, outbound>>
fate == <<failure, claimed, supervisor, owner, closer, teardown, told>>
budget == <<opens, packets, faults, swaps>>
vars == <<loading, device, open, tries, session, locks, pumps, cancelled, fate, ends, budget>>

InCall == {"poll", "parked"}
-----------------------------------------------------------------------------
Idle ==
  /\ session = "none" /\ readers = {} /\ writer = "none" /\ inbound = "done" /\ outbound = "done"
  /\ cancelled = TRUE /\ failure = FALSE /\ claimed = "nobody" /\ supervisor = "ended" /\ owner = "idle"
  /\ closer = "nobody" /\ teardown = "none" /\ told = FALSE /\ ends = 0

Init ==
  /\ file \in [Paths -> {"missing", "wrong", "right"}]
  /\ load = [at |-> "idle", candidate |-> 1] /\ loaded = "nothing"
  /\ device = "none" /\ open = "idle" /\ tries = 0
  /\ Idle
  /\ opens = 0 /\ packets = 0 /\ faults = 0 /\ swaps = 0
-----------------------------------------------------------------------------
(* The driver's library *)

held == IF load.at = "load" THEN {load.candidate} ELSE {}

\* A user adds the library or replaces it; a file that is open for verification cannot be.
Swap ==
  /\ swaps < MaxSwaps
  /\ \E p \in Paths \ held, f \in {"missing", "wrong", "right"} : f # file[p] /\ file' = [file EXCEPT ![p] = f]
  /\ swaps' = swaps + 1
  /\ UNCHANGED <<load, loaded, device, open, tries, session, locks, pumps, cancelled, fate, ends, opens, packets, faults>>

\* Open, and the handshake's available: a library loaded stays so, one that was not found is looked for again.
Begin ==
  /\ open = "idle" /\ opens < MaxOpens
  /\ opens' = opens + 1
  /\ IF loaded # "nothing" THEN open' = "create" /\ UNCHANGED load
     ELSE open' = "loading" /\ load' = [at |-> "verify", candidate |-> 1]
  /\ tries' = 0
  /\ UNCHANGED <<file, loaded, device, session, locks, pumps, cancelled, fate, ends, packets, faults, swaps>>

\* verifyWintun: the digest of the pinned build.
verified == file[load.candidate] = "right"

\* loadVerifiedWintun, up to the load: a candidate that is missing or fails is passed over.
Verify ==
  /\ load.at = "verify"
  /\ IF verified THEN load' = [load EXCEPT !.at = "load"] /\ UNCHANGED open
     ELSE IF load.candidate + 1 \in Paths THEN load' = [load EXCEPT !.candidate = @ + 1] /\ UNCHANGED open
     ELSE load' = [load EXCEPT !.at = "idle"] /\ open' = "idle"
  /\ UNCHANGED <<file, loaded, device, tries, session, locks, pumps, cancelled, fate, ends, budget>>

\* The file is loaded under its final path while it is still held; a library without its entry points is released.
Load ==
  /\ load.at = "load"
  /\ load' = [load EXCEPT !.at = "idle"]
  /\ \/ loaded' = file[load.candidate] /\ open' = "create" /\ UNCHANGED faults
     \/ faults < MaxFaults /\ faults' = faults + 1 /\ open' = "idle" /\ UNCHANGED loaded
  /\ UNCHANGED <<file, device, tries, session, locks, pumps, cancelled, fate, ends, opens, packets, swaps>>
-----------------------------------------------------------------------------
(* The adapter *)

\* createAdapter: the device node of the adapter closed before may still be there.
Create ==
  /\ open = "create"
  /\ IF device = "none"
     THEN device' = "up" /\ open' = "start" /\ UNCHANGED tries
     ELSE /\ tries' = tries + 1 /\ UNCHANGED device
          /\ open' = IF tries + 1 >= createAttempts THEN "idle" ELSE "create"
  /\ UNCHANGED <<loading, session, locks, pumps, cancelled, fate, ends, budget>>

\* Windows finishes removing an adapter.
Removed ==
  /\ device = "lingering"
  /\ device' = "none"
  /\ UNCHANGED <<loading, open, tries, session, locks, pumps, cancelled, fate, ends, budget>>

startFailed == device' = "lingering"

\* The session starts and the dataplane with it, or the adapter goes again.
StartSession ==
  /\ open = "start"
  /\ \/ /\ open' = "up" /\ session' = "open" /\ readers' = {} /\ writer' = "none"
        /\ inbound' = "check" /\ outbound' = "read" /\ cancelled' = FALSE
        /\ failure' = FALSE /\ claimed' = "nobody" /\ supervisor' = "select" /\ owner' = "idle"
        /\ closer' = "nobody" /\ teardown' = "none" /\ told' = FALSE /\ ends' = 0
        /\ UNCHANGED <<device, faults>>
     \/ /\ faults < MaxFaults /\ faults' = faults + 1 /\ open' = "idle"
        /\ startFailed
        /\ UNCHANGED <<session, locks, pumps, cancelled, fate, ends>>
  /\ UNCHANGED <<loading, tries, opens, packets, swaps>>
-----------------------------------------------------------------------------
(* The pumps *)

\* RLock: a writer that waits goes first.
shares(p) == writer = "none" /\ readers' = readers \cup {p} /\ UNCHANGED writer

returns(p) == readers' = readers \ {p} /\ UNCHANGED writer

\* The bounded wait is inside the lock.
parks == inbound' = "parked" /\ UNCHANGED locks

\* pumpInbound's loop.
InboundCheck ==
  /\ inbound = "check"
  /\ inbound' = IF cancelled THEN "done" ELSE "lock"
  /\ UNCHANGED <<loading, device, open, tries, session, locks, outbound, cancelled, fate, ends, budget>>

\* receiveOnce.
InboundLock ==
  /\ inbound = "lock" /\ shares("in")
  /\ inbound' = "poll"
  /\ UNCHANGED <<loading, device, open, tries, session, outbound, cancelled, fate, ends, budget>>

\* Closed, a packet (copied and released before the lock is), an empty ring, or a ring that failed.
InboundPoll ==
  /\ inbound = "poll"
  /\ IF session # "open"
     THEN inbound' = "failed" /\ returns("in") /\ UNCHANGED <<packets, faults>>
     ELSE \/ parks /\ UNCHANGED <<packets, faults>>
          \/ packets < MaxPackets /\ packets' = packets + 1 /\ inbound' = "check" /\ returns("in") /\ UNCHANGED faults
          \/ faults < MaxFaults /\ faults' = faults + 1 /\ inbound' = "failed" /\ returns("in") /\ UNCHANGED packets
  /\ UNCHANGED <<loading, device, open, tries, session, outbound, cancelled, fate, ends, opens, swaps>>

\* Mutant: the wait has no bound and ends only when the driver signals.
InboundWakeOnPacket ==
  /\ inbound = "parked" /\ packets < MaxPackets
  /\ inbound' = "lock" /\ returns("in")
  /\ UNCHANGED <<loading, device, open, tries, session, outbound, cancelled, fate, ends, budget>>

\* The wait ends by the driver's event or by readWaitMs, or fails, and the lock is let go.
InboundWake ==
  /\ inbound = "parked" /\ returns("in")
  /\ \/ inbound' = "lock" /\ UNCHANGED faults
     \/ faults < MaxFaults /\ faults' = faults + 1 /\ inbound' = "failed"
  /\ UNCHANGED <<loading, device, open, tries, session, outbound, cancelled, fate, ends, opens, packets, swaps>>

\* A read that failed while nobody asked for the end is reported, and never waits for whoever takes the report.
InboundFails ==
  /\ inbound = "failed"
  /\ inbound' = "done"
  /\ failure' = (failure \/ ~cancelled)
  /\ UNCHANGED <<loading, device, open, tries, session, locks, outbound, cancelled, claimed, supervisor, owner, closer, teardown,
                 told, ends, budget>>

\* pumpOutbound: the endpoint gives packets until the context ends.
OutboundRead ==
  /\ outbound = "read"
  /\ \/ cancelled /\ outbound' = "done" /\ UNCHANGED packets
     \/ packets < MaxPackets /\ packets' = packets + 1 /\ outbound' = "lock"
  /\ UNCHANGED <<loading, device, open, tries, session, locks, inbound, cancelled, fate, ends, opens, faults, swaps>>

\* SendPacket takes the lock; what it could not write is only logged.
OutboundLock ==
  /\ outbound = "lock" /\ shares("out")
  /\ outbound' = "send"
  /\ UNCHANGED <<loading, device, open, tries, session, inbound, cancelled, fate, ends, budget>>

OutboundSend ==
  /\ outbound = "send"
  /\ outbound' = "read" /\ returns("out")
  /\ UNCHANGED <<loading, device, open, tries, session, inbound, cancelled, fate, ends, budget>>
-----------------------------------------------------------------------------
(* Who takes it down *)

\* Runner.Close by its owner: it claims the teardown unless the runner has.
OwnerCloses ==
  /\ open = "up" /\ owner = "idle"
  /\ owner' = "closes"
  /\ claimed' = IF claimed = "nobody" THEN "owner" ELSE claimed
  /\ UNCHANGED <<loading, device, open, tries, session, locks, pumps, cancelled, failure, supervisor, closer, teardown, told, ends, budget>>

\* supervise: the owner asked, or a failure was reported; when both, either.
Supervise ==
  /\ supervisor = "select"
  /\ \/ claimed = "owner" /\ supervisor' = "ended" /\ UNCHANGED failure
     \/ failure /\ failure' = FALSE /\ supervisor' = "claim"
  /\ UNCHANGED <<loading, device, open, tries, session, locks, pumps, cancelled, claimed, owner, closer, teardown, told, ends, budget>>

\* Mutant: a failure takes the runner down whoever has claimed it.
ClaimAlways ==
  /\ supervisor = "claim"
  /\ supervisor' = "closes" /\ claimed' = IF claimed = "nobody" THEN "runner" ELSE claimed
  /\ UNCHANGED <<loading, device, open, tries, session, locks, pumps, cancelled, failure, owner, closer, teardown, told, ends, budget>>

Claim ==
  /\ supervisor = "claim"
  /\ IF claimed = "nobody" THEN supervisor' = "closes" /\ claimed' = "runner"
     ELSE supervisor' = "ended" /\ UNCHANGED claimed
  /\ UNCHANGED <<loading, device, open, tries, session, locks, pumps, cancelled, failure, owner, closer, teardown, told, ends, budget>>

\* closeMu, then Dataplane.Close: the context ends and the adapter's Close asks for the lock.
Enter(who) ==
  /\ closer = "nobody" /\ teardown = "none"
  /\ IF who = "owner" THEN owner = "closes" ELSE supervisor = "closes"
  /\ closer' = who /\ teardown' = "adapter"
  /\ cancelled' = TRUE /\ writer' = "waits"
  /\ UNCHANGED <<loading, device, open, tries, session, readers, pumps, failure, claimed, supervisor, owner, told, ends, budget>>

\* Close has the lock to itself: it ends the session and removes the adapter.
EndSession ==
  /\ teardown = "adapter" /\ writer = "waits" /\ readers = {}
  /\ session' = "ended" /\ ends' = ends + 1
  /\ device' = "lingering"
  /\ writer' = "none" /\ teardown' = "pumps"
  /\ UNCHANGED <<loading, open, tries, readers, pumps, cancelled, failure, claimed, supervisor, owner, closer, told, budget>>

\* Close waits for both pumps, then the stack goes and closeMu is let go; a runner that took itself down reports why.
Finish ==
  /\ teardown = "pumps" /\ inbound = "done" /\ outbound = "done"
  /\ teardown' = "done" /\ closer' = "nobody"
  /\ IF closer = "owner" THEN owner' = "closed" /\ UNCHANGED <<supervisor, told>>
     ELSE supervisor' = "ended" /\ told' = TRUE /\ UNCHANGED owner
  /\ UNCHANGED <<loading, device, open, tries, session, locks, pumps, cancelled, failure, claimed, ends, budget>>

\* A Close that comes second finds the runner closed; a runner that had claimed the teardown reports all the same.
FindClosed ==
  /\ teardown = "done"
  /\ \/ owner = "closes" /\ owner' = "closed" /\ UNCHANGED <<supervisor, told>>
     \/ supervisor = "closes" /\ supervisor' = "ended" /\ told' = TRUE /\ UNCHANGED owner
  /\ UNCHANGED <<loading, device, open, tries, session, locks, pumps, cancelled, failure, claimed, closer, teardown, ends, budget>>

\* Its owner lets the runner go, and may start another.
LetGo ==
  /\ open = "up" /\ teardown = "done" /\ supervisor = "ended" /\ owner \in {"idle", "closed"}
  /\ open' = "idle" /\ session' = "none" /\ cancelled' = TRUE /\ failure' = FALSE /\ claimed' = "nobody"
  /\ owner' = "idle" /\ teardown' = "none" /\ told' = FALSE /\ ends' = 0
  /\ UNCHANGED <<loading, device, tries, locks, pumps, supervisor, closer, budget>>

Pumps ==
  \/ InboundCheck \/ InboundLock \/ InboundPoll \/ InboundWake \/ InboundFails
  \/ OutboundRead \/ OutboundLock \/ OutboundSend

Fate == Supervise \/ Claim \/ Enter("owner") \/ Enter("runner") \/ EndSession \/ Finish \/ FindClosed

Next ==
  \/ Swap \/ Begin \/ Verify \/ Load \/ Create \/ Removed \/ StartSession
  \/ Pumps \/ OwnerCloses \/ Fate \/ LetGo

\* The goroutines run; nobody has to swap a file, open an adapter or close one.
Fairness ==
  /\ WF_vars(InboundCheck) /\ WF_vars(InboundLock) /\ WF_vars(InboundPoll) /\ WF_vars(InboundWake) /\ WF_vars(InboundFails)
  /\ WF_vars(OutboundRead) /\ WF_vars(OutboundLock) /\ WF_vars(OutboundSend) /\ WF_vars(Fate)

Spec == Init /\ [][Next]_vars
FairSpec == Spec /\ Fairness
-----------------------------------------------------------------------------
(* What has to hold *)

\* The fields of the adapter, the runner and the loader have the shapes the code gives them.
TypeOK ==
  /\ file \in [Paths -> {"missing", "wrong", "right"}] /\ load.at \in {"idle", "verify", "load"} /\ load.candidate \in Paths
  /\ device \in {"none", "up", "lingering"} /\ open \in {"idle", "loading", "create", "start", "up"}
  /\ tries \in 0..createAttempts /\ session \in {"none", "open", "ended"} /\ ends \in 0..1
  /\ readers \subseteq {"in", "out"} /\ writer \in {"none", "waits"}
  /\ inbound \in {"check", "lock", "failed", "done"} \cup InCall /\ outbound \in {"read", "lock", "send", "done"}
  /\ claimed \in {"nobody", "owner", "runner"} /\ teardown \in {"none", "adapter", "pumps", "done"}

\* The session does not end under a call: a pump inside the driver is inside an open session, unless it came after the end
\* and has yet to see that it did.
NoCallOutlivesTheSession == (inbound = "parked" \/ (teardown = "adapter" /\ "in" \in readers)) => session = "open"

\* A session is ended once, by one of the two who may, and whoever was told of a failure was told after everything was down
\* and had not asked for the end himself.
OneTakesItDown ==
  /\ ends <= 1
  /\ told => claimed = "runner" /\ session = "ended" /\ inbound = "done" /\ outbound = "done"
  /\ (teardown = "done" /\ claimed = "runner") => (told \/ supervisor = "closes")

\* A failure that was reported before anybody asked for the end is never dropped: it is in the channel, being acted on, or
\* acted on.
FailureIsNotLost ==
  (open = "up" /\ inbound = "done" /\ ~cancelled) => failure \/ supervisor \in {"claim", "closes"} \/ claimed = "owner"

\* Only the verified library is ever loaded, although a user may change the file at any time, and an adapter exists only
\* while somebody is opening it, using it or has closed it.
DriverIsVerified == loaded \in {"nothing", "right"} /\ (device = "up" => open \in {"start", "up"})

\* The group a run checks.
AdapterIsTakenDownOnce == NoCallOutlivesTheSession /\ OneTakesItDown /\ FailureIsNotLost /\ DriverIsVerified

\* Who asks for the end gets it, and a ring that failed brings the runner down: Close never waits for a pump that waits for it.
ClosingEnds ==
  /\ (owner = "closes") ~> (owner # "closes")
  /\ (open = "up" /\ failure) ~> (session # "open")
=============================================================================
