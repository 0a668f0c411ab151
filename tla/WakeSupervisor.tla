--------------------------- MODULE WakeSupervisor ---------------------------
(***************************************************************************)
(* How the SSH bridge learns that the machine slept or changed networks     *)
(* (SystemWakeDetector, the system's resume event) and what a wake does to   *)
(* the session, the attempt or the wait it finds.  What the attempts do to   *)
(* the machine is LiveSshService; how a probe ends a silent session is       *)
(* SshKeepalive.                                                             *)
(***************************************************************************)
EXTENDS Naturals, FiniteSetsExt

CONSTANTS
    MaxWorld,  \* sleeps and changes of the network
    MaxStep,   \* the last of RECONNECT_BACKOFF_STEPS_MS
    MaxConnects,
    MaxFaults  \* failed enumerations of the interfaces

VARIABLES
    want,     \* a session is wanted and reconnecting is not halted
    phase,    \* "idle", "queued", "dial", "up", "teardown", "timer"
    ticking,  \* the detector's timer is armed
    late,     \* the process was not running when that timer was due
    signature,\* networkSignature
    network,  \* the interfaces as they are
    step,     \* reconnectBackoffStep
    quick,    \* the wait is the spacing floor, not a backoff
    pending,  \* pendingWakeReason
    recent,   \* less than WAKE_BACKOFF_RESET_INTERVAL_MS since the last reset
    probing,  \* a probe of the session is in flight
    world,    \* ghost: what the machine's connectivity is
    base,     \* ghost: the world the attempt or session was dialled in
    heard,    \* ghost: the world of the last wake
    early,    \* ghost: waits a wake cut short since the last reset was allowed
    missed,   \* ghost: a wake was not acted on, for it came too soon after another
              \* or before its attempt succeeded
    connects, faults

detector == <<ticking, late, signature>>
waits == <<step, quick, pending, recent>>
vars == <<want, phase, detector, network, waits, probing, world, base, heard, early, missed,
          connects, faults>>

\* Every variable holds a value of its kind.
TypeOK ==
    /\ {want, ticking, late, quick, pending, recent, probing, missed, network, signature}
           \subseteq BOOLEAN
    /\ phase \in {"idle", "queued", "dial", "up", "teardown", "timer"}
    /\ step \in 0..MaxStep
    /\ {world, base, heard} \subseteq 0..MaxWorld /\ early \in Nat

\* start(): an armed detector keeps what it saw.
started == ticking' = TRUE /\ late' = (late /\ ticking)
           /\ signature' = IF ticking THEN signature ELSE network
stopped == ticking' = FALSE /\ UNCHANGED <<late, signature>>

\* Mutant: a wake that found an attempt running is forgotten with it.
cutShortNever == FALSE
cutShort == pending /\ ~recent

\* scheduleReconnect after a failure: a wake noted meanwhile cuts the wait short
\* and starts the backoff over, but not within half a minute of the last time.
scheduleReconnect ==
    /\ phase' = "timer"
    /\ quick' = cutShort
    /\ recent' = (recent \/ cutShort)
    /\ early' = early + (IF cutShort THEN 1 ELSE 0)
    /\ step' = IF cutShort THEN 0 ELSE Min({step + 1, MaxStep})
    /\ pending' = FALSE
    /\ missed' = (pending /\ recent)
    /\ started

\* wake(): a waiting reconnect runs now, a live session is probed, and a running
\* attempt is told by the schedule that follows its failure.
wake ==
    /\ heard' = world
    /\ CASE ~want -> UNCHANGED <<waits, probing, early, missed>>
         [] want /\ phase = "timer" /\ recent ->
              missed' = TRUE /\ UNCHANGED <<waits, probing, early>>
         [] want /\ phase = "timer" /\ ~recent ->
              /\ quick' = TRUE /\ step' = 0 /\ pending' = FALSE /\ recent' = TRUE
              /\ early' = early + 1 /\ UNCHANGED <<probing, missed>>
         [] want /\ phase = "up" -> probing' = TRUE /\ UNCHANGED <<waits, early, missed>>
         [] OTHER -> pending' = TRUE /\ UNCHANGED <<step, quick, recent, probing, early, missed>>

Connect ==
    /\ connects < MaxConnects /\ connects' = connects + 1
    /\ want' = TRUE /\ phase' = "queued" /\ pending' = FALSE /\ step' = 0 /\ quick' = FALSE
    /\ probing' = FALSE /\ missed' = FALSE
    /\ started
    /\ UNCHANGED <<network, recent, world, base, heard, early, faults>>

TimerFires ==
    /\ phase = "timer" /\ phase' = "queued" /\ quick' = FALSE
    /\ started
    /\ UNCHANGED <<want, network, step, pending, recent, probing, world, base, heard, early,
                   missed, connects, faults>>

Dial ==
    /\ phase = "queued" /\ phase' = "dial" /\ base' = world /\ missed' = FALSE
    /\ UNCHANGED <<want, detector, network, waits, probing, world, heard, early,
                   connects, faults>>

\* Connected: a wake noted during the attempt is dropped.
Established ==
    /\ phase = "dial" /\ phase' = "up"
    /\ step' = 0 /\ pending' = FALSE
    /\ missed' = (heard > base)
    /\ UNCHANGED <<want, detector, network, quick, recent, probing, world, base, heard, early,
                   connects, faults>>

AttemptFails ==
    /\ phase = "dial" /\ scheduleReconnect
    /\ UNCHANGED <<want, network, probing, world, base, heard, connects, faults>>

\* The session is lost: its client is released before the next attempt is
\* scheduled.
Lost ==
    /\ phase = "up" /\ phase' = "teardown" /\ probing' = FALSE /\ missed' = FALSE
    /\ UNCHANGED <<want, detector, network, waits, world, base, heard, early, connects, faults>>

TeardownEnds ==
    /\ phase = "teardown" /\ scheduleReconnect
    /\ UNCHANGED <<want, network, probing, world, base, heard, connects, faults>>

\* A probe is answered only by a session of the world as it is.
ProbeAnswered ==
    /\ probing /\ base = world /\ probing' = FALSE
    /\ UNCHANGED <<want, phase, detector, network, waits, world, base, heard, early, missed,
                   connects, faults>>

ends ==
    /\ want /\ want' = FALSE /\ phase' = "idle" /\ quick' = FALSE /\ probing' = FALSE
    /\ stopped
    /\ UNCHANGED <<network, step, recent, world, base, heard, early, missed, connects, faults>>

Disconnect == ends /\ UNCHANGED pending

\* haltReconnect: an attempt fails for good.
Halts == phase = "dial" /\ ends /\ pending' = FALSE

\* tick(): a gap in the process's own running is one wake, whatever the
\* interfaces did; else a changed signature is.
Tick ==
    /\ ticking
    /\ late' = FALSE /\ ticking' = TRUE
    /\ \E read \in BOOLEAN :
          /\ read \/ faults < MaxFaults
          /\ faults' = faults + (IF read THEN 0 ELSE 1)
          /\ signature' = IF read THEN network ELSE signature
          /\ IF late \/ signature' # signature THEN wake
             ELSE UNCHANGED <<waits, probing, heard, early, missed>>
    /\ UNCHANGED <<want, phase, network, world, base, connects>>

\* The system reports its resume by itself.
Resume == wake /\ heard < world
          /\ UNCHANGED <<want, phase, detector, network, world, base, connects, faults>>

WindowLapses ==
    /\ recent /\ recent' = FALSE /\ early' = 0
    /\ UNCHANGED <<want, phase, detector, network, step, quick, pending, probing, world, base,
                   heard, missed, connects, faults>>

\* The machine sleeps, or its addresses change.
Sleeps ==
    /\ world < MaxWorld /\ world' = world + 1 /\ late' = TRUE
    /\ UNCHANGED <<want, phase, ticking, signature, network, waits, probing, base, heard, early,
                   missed, connects, faults>>
Roams ==
    /\ world < MaxWorld /\ world' = world + 1 /\ network' = ~network
    /\ UNCHANGED <<want, phase, detector, waits, probing, base, heard, early, missed,
                   connects, faults>>

Init ==
    /\ want = FALSE /\ phase = "idle" /\ ticking = FALSE /\ late = FALSE
    /\ signature = FALSE /\ network = FALSE
    /\ step = 0 /\ quick = FALSE /\ pending = FALSE /\ recent = FALSE /\ probing = FALSE
    /\ world = 0 /\ base = 0 /\ heard = 0 /\ early = 0 /\ missed = FALSE
    /\ connects = 0 /\ faults = 0

Next ==
    \/ Connect \/ TimerFires \/ Dial \/ Established \/ AttemptFails \/ Lost \/ TeardownEnds
    \/ ProbeAnswered \/ Disconnect \/ Halts \/ Tick \/ Resume \/ WindowLapses \/ Sleeps \/ Roams

Spec == Init /\ [][Next]_vars

(***************************************************************************)
(* Properties                                                               *)
(***************************************************************************)
\* A wake is acted on: a session dialled before it is being probed, and a wait
\* that began before it is cut short - unless it is the first after a session,
\* which is short anyway, a wake cut one short in the half minute before it, or
\* the attempt it found then succeeded.
WakeIsAnswered ==
    want /\ heard > base =>
        \/ phase = "up" /\ (probing \/ missed)
        \/ phase = "timer" /\ (quick \/ missed \/ step = 1)
        \/ phase = "dial" /\ pending
        \/ phase \in {"queued", "teardown"}

\* While a session is wanted someone watches for the next wake.
WantedIsWatched == want => ticking

\* Wakes that come in a burst cut at most one wait short.
EarlyAttemptsAreSpaced == early <= 1

\* The three together: what a wake does to the session.
WakesAreServed == WakeIsAnswered /\ WantedIsWatched /\ EarlyAttemptsAreSpaced
=============================================================================
