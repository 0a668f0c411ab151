--------------------------- MODULE NativeDataplane ---------------------------
(***************************************************************************)
(* The controller of the TUN adapter and the helper processes it drives:   *)
(* NativeDataplaneController (src/src/service/native-dataplane.ts), the    *)
(* client of one helper (native-helper-client.ts) and the helper's own     *)
(* loop over its commands (internal/app of native/service-go).             *)
(*                                                                         *)
(* The adapter captures the machine's traffic, so one that is up must      *)
(* always be owed a stop, and a transport that relies on one must hear of  *)
(* its end.  What makes that hard: a start is given up on while the helper *)
(* still carries it out, an exit is reported after a replacement started,  *)
(* a handshake completes after the controller was disposed.                *)
(*                                                                         *)
(* The caller is a transport bridge: it probes, starts (with a retry) and  *)
(* stops one after the other, stops after a start that failed, and may     *)
(* abandon the start it waits for.                                         *)
(***************************************************************************)
EXTENDS Naturals, Sequences, SequencesExt

CONSTANTS
  MaxHelpers,    \* helper processes started
  MaxStarts,     \* starts the caller asks for, retries included
  MaxFaults      \* exits, requests that time out and commands that fail

VARIABLES
  proc,          \* each helper: "none", "run", "dead", "exited" (the exit is known), "closed" (reported)
  up,            \* each helper: its adapter captures traffic
  inbox,         \* each helper: the commands written to it, and whether their answer is awaited
  ended,         \* each helper: its client is disposed or failed, or its process was killed
  helperGeneration, client, dataplaneGeneration, connecting, attached,
  active, startAttempted, stopping, disposed,
  op,            \* where the caller's call stands
  signal,        \* the caller abandoned its start
  heard,         \* each helper: how often its end was reported to the listeners
  legacy,        \* the helper on disk predates recover-routes
  starts, faults

helperVars == <<proc, up, inbox, ended, heard>>
controllerVars == <<helperGeneration, client, dataplaneGeneration, connecting, attached, active, startAttempted, stopping, disposed>>
vars == <<proc, up, inbox, ended, heard, helperGeneration, client, dataplaneGeneration, connecting, attached, active,
          startAttempted, stopping, disposed, op, signal, legacy, starts, faults>>

Gens == 1..MaxHelpers
Command(c) == [cmd |-> c, live |-> TRUE]
Commands == [cmd : {"get-capabilities", "start-dataplane", "stop-dataplane", "end"}, live : BOOLEAN]

\* The helpers, the commands on their way and the controller's fields have the
\* shapes the code gives them.
TypeOK ==
  /\ proc \in [Gens -> {"none", "run", "dead", "exited", "closed"}]
  /\ up \in [Gens -> BOOLEAN] /\ ended \in [Gens -> BOOLEAN]
  /\ inbox \in [Gens -> Seq(Commands)]
  /\ heard \in [Gens -> 0..1]
  /\ {helperGeneration, client, dataplaneGeneration, connecting} \subseteq 0..MaxHelpers
  /\ {active, startAttempted, stopping, attached, signal, legacy} \subseteq BOOLEAN
  /\ disposed \in {"no", "stopping", "grace", "done"}
  /\ op \in {"idle", "probing", "asked", "startWaits", "started", "owes", "stopping", "again"}
  /\ starts \in 0..MaxStarts /\ faults \in 0..MaxFaults

Init ==
  /\ proc = [g \in Gens |-> "none"] /\ up = [g \in Gens |-> FALSE] /\ ended = [g \in Gens |-> FALSE]
  /\ inbox = [g \in Gens |-> << >>] /\ heard = [g \in Gens |-> 0]
  /\ helperGeneration = 0 /\ client = 0 /\ dataplaneGeneration = 0 /\ connecting = 0 /\ attached = FALSE
  /\ active = FALSE /\ startAttempted = FALSE /\ stopping = FALSE /\ disposed = "no"
  /\ op = "idle" /\ signal = FALSE /\ legacy \in BOOLEAN /\ starts = 0 /\ faults = 0

(***************************************************************************)
(* The client of one helper.                                               *)
(***************************************************************************)

\* NativeHelperClient.running: a process that died still counts as running
\* until its exit has been noticed.
running(g) == g # 0 /\ ~ended[g] /\ proc[g] \in {"run", "dead"}

\* The commands of g, none of them awaited any more (rejectAll).
dropped(g) == [i \in DOMAIN inbox[g] |-> [inbox[g][i] EXCEPT !.live = FALSE]]

awaited(g, c) == \E i \in DOMAIN inbox[g] : inbox[g][i] = Command(c)

\* NativeHelperClient.dispose: nothing is awaited any more, the input ends,
\* and without a grace the process is killed, its adapter with it.
Released(g, grace) ==
  /\ ended' = [ended EXCEPT ![g] = TRUE]
  /\ inbox' = [inbox EXCEPT ![g] = Append(dropped(g), Command("end"))]
  /\ IF ~grace /\ proc[g] = "run"
       THEN proc' = [proc EXCEPT ![g] = "dead"] /\ up' = [up EXCEPT ![g] = FALSE]
       ELSE UNCHANGED <<proc, up>>

send(g, c) == inbox' = [inbox EXCEPT ![g] = Append(@, Command(c))]

(***************************************************************************)
(* Connecting: spawnHelper and who waits for it.                           *)
(***************************************************************************)

\* spawnHelper up to the handshake it waits for.  A fresh helper owes no stop.
Spawn(isAttached) ==
  LET g == helperGeneration + 1 IN
  /\ g \in Gens
  /\ helperGeneration' = g /\ connecting' = g /\ attached' = isAttached
  /\ startAttempted' = FALSE
  /\ proc' = [proc EXCEPT ![g] = "run"]
  /\ inbox' = [inbox EXCEPT ![g] = <<Command("get-capabilities")>>]

\* connect() by a caller that then waits as `waiting`: an attempt under way
\* is joined.
Join(waiting) ==
  /\ op' = waiting
  /\ IF connecting # 0
       THEN UNCHANGED <<helperGeneration, connecting, attached, startAttempted, proc, inbox>>
       ELSE Spawn(FALSE)

\* probe: a running helper is asked again what it can do.
Probe ==
  /\ op = "idle" /\ disposed = "no" /\ starts < MaxStarts
  /\ IF running(client)
       THEN /\ send(client, "get-capabilities") /\ op' = "asked"
            /\ UNCHANGED <<helperGeneration, connecting, attached, startAttempted, proc>>
       ELSE Join("probing")
  /\ UNCHANGED <<up, ended, heard, client, dataplaneGeneration, active, stopping, disposed, signal, legacy, starts, faults>>

\* The start is sent, unless its signal aborted meanwhile; a stop is owed
\* from here on in both cases.
SendStart(g, box) ==
  /\ startAttempted' = TRUE
  /\ IF signal
       THEN op' = "owes" /\ inbox' = box
       ELSE op' = "started" /\ inbox' = [box EXCEPT ![g] = Append(@, Command("start-dataplane"))]

Start ==
  /\ op \in {"idle", "owes"} /\ disposed = "no" /\ ~signal /\ ~stopping /\ starts < MaxStarts
  /\ starts' = starts + 1
  /\ IF running(client)
       THEN SendStart(client, inbox) /\ UNCHANGED <<helperGeneration, connecting, attached, proc>>
       ELSE Join("startWaits")
  /\ UNCHANGED <<up, ended, heard, client, dataplaneGeneration, active, stopping, disposed, signal, legacy, faults>>

\* The caller gives up on its start; the helper is not told.
Abort ==
  /\ op \in {"startWaits", "started"} /\ ~signal
  /\ signal' = TRUE
  /\ IF op = "started"
       THEN /\ op' = "owes"
            /\ inbox' = [inbox EXCEPT ![client] =
                 [i \in DOMAIN @ |-> IF @[i].cmd = "start-dataplane" THEN [@[i] EXCEPT !.live = FALSE] ELSE @[i]]]
       ELSE UNCHANGED <<op, inbox>>
  /\ UNCHANGED <<proc, up, ended, heard, controllerVars, legacy, starts, faults>>

\* Whoever waits for the helper learns that there will be none.
ConnectFails ==
  /\ connecting' = 0
  /\ op' = IF op \in {"probing", "startWaits"} THEN "owes" ELSE op

\* The handshake of the helper being started is answered; `box` is inbox
\* without that command.  A controller disposed meanwhile lets the helper go,
\* and one that must not outlive the application is started again attached.
Handshaken(g, box) ==
  /\ UNCHANGED <<heard, dataplaneGeneration, active, stopping, disposed, signal, legacy, starts, faults>>
  /\ \/ /\ disposed # "no"
        /\ ConnectFails /\ Released(g, FALSE)
        /\ UNCHANGED <<helperGeneration, client, attached, startAttempted>>
     \/ /\ disposed = "no" /\ legacy /\ ~attached /\ g < MaxHelpers
        /\ helperGeneration' = g + 1 /\ connecting' = g + 1 /\ attached' = TRUE /\ startAttempted' = FALSE
        /\ proc' = [proc EXCEPT ![g] = "dead", ![g + 1] = "run"]
        /\ ended' = [ended EXCEPT ![g] = TRUE]
        /\ inbox' = [inbox EXCEPT ![g] = << >>, ![g + 1] = <<Command("get-capabilities")>>]
        /\ UNCHANGED <<up, client, op>>
     \/ /\ disposed = "no" /\ (legacy => attached)
        /\ client' = g /\ connecting' = 0
        /\ IF op = "startWaits"
             THEN SendStart(g, box)
             ELSE op' = "idle" /\ inbox' = box /\ UNCHANGED startAttempted
        /\ UNCHANGED <<proc, up, ended, helperGeneration, attached>>

(***************************************************************************)
(* What an answer, or its absence, does to the call that waits for it.     *)
(***************************************************************************)

\* stop() got its answer: a failed stop is still owed.
Stopped(ok) ==
  /\ stopping' = FALSE /\ active' = FALSE
  /\ startAttempted' = (startAttempted /\ ~ok)
  /\ op' = IF op = "stopping" THEN "idle" ELSE op
  /\ signal' = IF op = "stopping" THEN FALSE ELSE signal

\* refreshCapabilities failed: an idle helper is let go and connected to
\* again, one that may hold an adapter is kept.
RefreshFails(g, silent) ==
  IF active \/ startAttempted
  THEN op' = "idle" /\ inbox' = silent /\ UNCHANGED <<proc, up, ended, client>>
  ELSE op' = "again" /\ Released(g, FALSE) /\ client' = IF client = g THEN 0 ELSE client

Reconnect ==
  /\ op = "again"
  /\ IF running(client)
       THEN op' = "idle" /\ UNCHANGED <<helperGeneration, connecting, attached, startAttempted, proc, inbox>>
       ELSE Join("probing")
  /\ UNCHANGED <<up, ended, heard, client, dataplaneGeneration, active, stopping, disposed, signal, legacy, starts, faults>>

\* The helper takes the next command: serveLines handles one at a time.
Serve(g, c) ==
  /\ proc[g] = "run" /\ inbox[g] # << >> /\ Head(inbox[g]).cmd = c

Rest(g) == [inbox EXCEPT ![g] = Tail(@)]
heardBy(g) == Head(inbox[g]).live /\ ~ended[g]

ServeCapabilities(g) ==
  /\ Serve(g, "get-capabilities")
  /\ IF ~heardBy(g) \/ g # connecting
       THEN /\ inbox' = Rest(g) /\ op' = (IF heardBy(g) /\ op = "asked" THEN "idle" ELSE op)
            /\ UNCHANGED <<proc, up, ended, heard, controllerVars, signal, legacy, starts, faults>>
       ELSE Handshaken(g, Rest(g))

\* handleStartDataplane: the adapter comes up, or only its policy is swapped.
\* A request that does not compile leaves it alone, and one whose adapter
\* cannot be started has taken the old one down first.
ServeStart(g) ==
  /\ Serve(g, "start-dataplane")
  /\ inbox' = Rest(g)
  /\ \E ok \in BOOLEAN, left \in BOOLEAN :
       /\ ok => left
       /\ ok \/ faults < MaxFaults
       /\ faults' = IF ok THEN faults ELSE faults + 1
       /\ up' = [up EXCEPT ![g] = IF ok THEN TRUE ELSE left /\ @]
       /\ IF heardBy(g)
            THEN /\ op' = IF ok THEN "idle" ELSE "owes"
                 /\ dataplaneGeneration' = IF ok THEN g ELSE dataplaneGeneration
                 /\ active' = (ok \/ active)
            ELSE UNCHANGED <<op, dataplaneGeneration, active>>
  /\ UNCHANGED <<proc, ended, heard, helperGeneration, client, connecting, attached, startAttempted, stopping, disposed,
                 signal, legacy, starts>>

\* handleStopDataplane: the runner is closed once, whatever it reports.
ServeStop(g) ==
  /\ Serve(g, "stop-dataplane")
  /\ inbox' = Rest(g)
  /\ up' = [up EXCEPT ![g] = FALSE]
  /\ \E ok \in BOOLEAN :
       /\ ok \/ faults < MaxFaults
       /\ faults' = IF ok THEN faults ELSE faults + 1
       /\ IF heardBy(g) THEN Stopped(ok) ELSE UNCHANGED <<stopping, active, startAttempted, op, signal>>
  /\ UNCHANGED <<proc, ended, heard, helperGeneration, client, dataplaneGeneration, connecting, attached, disposed, legacy, starts>>

\* The end of its input makes the helper tear down what it holds and exit.
ServeEnd(g) ==
  /\ Serve(g, "end")
  /\ proc' = [proc EXCEPT ![g] = "dead"] /\ up' = [up EXCEPT ![g] = FALSE]
  /\ inbox' = Rest(g)
  /\ UNCHANGED <<ended, heard, controllerVars, op, signal, legacy, starts, faults>>

\* A request is not answered in time; the helper is not told.
Timeout(g, i) ==
  /\ faults < MaxFaults /\ faults' = faults + 1
  /\ ~ended[g] /\ i \in DOMAIN inbox[g] /\ inbox[g][i].live
  /\ LET silent == [inbox EXCEPT ![g][i].live = FALSE]
         c == inbox[g][i].cmd IN
     \/ /\ c = "get-capabilities" /\ g = connecting
        /\ ConnectFails /\ Released(g, FALSE)
        /\ UNCHANGED <<heard, helperGeneration, client, dataplaneGeneration, attached, active, startAttempted, stopping,
                       disposed, signal>>
     \/ /\ c = "get-capabilities" /\ g # connecting
        /\ RefreshFails(g, silent)
        /\ UNCHANGED <<heard, helperGeneration, dataplaneGeneration, connecting, attached, active, startAttempted, stopping,
                       disposed, signal>>
     \/ /\ c = "start-dataplane"
        /\ op' = "owes" /\ inbox' = silent
        /\ UNCHANGED <<proc, up, ended, heard, controllerVars, signal>>
     \/ /\ c = "stop-dataplane"
        /\ Stopped(FALSE) /\ inbox' = silent
        /\ UNCHANGED <<proc, up, ended, heard, helperGeneration, client, dataplaneGeneration, connecting, attached, disposed>>
  /\ UNCHANGED <<legacy, starts>>

(***************************************************************************)
(* Stopping and disposing.                                                 *)
(***************************************************************************)

\* Mutant: no stop for a start that was given up on.
SendStopIfActive(then) ==
  IF stopping
  THEN op' = then /\ UNCHANGED <<stopping, active, startAttempted, inbox, signal>>
  ELSE IF ~running(client) \/ ~active
  THEN /\ startAttempted' = FALSE /\ active' = FALSE
       /\ op' = (IF then = "stopping" THEN "idle" ELSE op)
       /\ signal' = (IF then = "stopping" THEN FALSE ELSE signal)
       /\ UNCHANGED <<stopping, inbox>>
  ELSE /\ stopping' = TRUE /\ op' = then
       /\ send(client, "stop-dataplane")
       /\ UNCHANGED <<active, startAttempted, signal>>

\* stop(): joined when one is running, sent whenever a start was.
SendStop(then) ==
  IF stopping
  THEN op' = then /\ UNCHANGED <<stopping, active, startAttempted, inbox, signal>>
  ELSE IF ~running(client) \/ (~active /\ ~startAttempted)
  THEN /\ startAttempted' = FALSE /\ active' = FALSE
       /\ op' = (IF then = "stopping" THEN "idle" ELSE op)
       /\ signal' = (IF then = "stopping" THEN FALSE ELSE signal)
       /\ UNCHANGED <<stopping, inbox>>
  ELSE /\ stopping' = TRUE /\ op' = then
       /\ send(client, "stop-dataplane")
       /\ UNCHANGED <<active, startAttempted, signal>>

Stop ==
  /\ op \in {"idle", "owes"}
  /\ op = "idle" => active \/ startAttempted
  /\ SendStop("stopping")
  /\ UNCHANGED <<proc, up, ended, heard, helperGeneration, client, dataplaneGeneration, connecting, attached, disposed, legacy,
                 starts, faults>>

\* dispose(): the stop comes first, at any moment of the caller's own calls.
Dispose ==
  /\ disposed = "no" /\ disposed' = "stopping"
  /\ SendStop(op)
  /\ UNCHANGED <<proc, up, ended, heard, helperGeneration, client, dataplaneGeneration, connecting, attached, legacy, starts, faults>>

\* ... then the helper is let go: its input ends, and it may finish alone.
LetGo ==
  /\ disposed = "stopping" /\ ~stopping
  /\ client' = 0
  /\ IF client = 0 \/ ended[client]
       THEN disposed' = "done" /\ UNCHANGED <<proc, up, ended, inbox, op>>
       ELSE /\ disposed' = "grace" /\ Released(client, TRUE)
            /\ op' = IF op = "started" THEN "owes" ELSE IF op = "asked" THEN "idle" ELSE op
  /\ UNCHANGED <<heard, helperGeneration, dataplaneGeneration, connecting, attached, active, startAttempted, stopping, signal,
                 legacy, starts, faults>>

\* The grace is over: whatever is left of the helpers let go is killed.
GraceEnds ==
  /\ disposed = "grace" /\ disposed' = "done"
  /\ proc' = [g \in Gens |-> IF ended[g] /\ proc[g] = "run" THEN "dead" ELSE proc[g]]
  /\ up' = [g \in Gens |-> up[g] /\ ~ended[g]]
  /\ UNCHANGED <<inbox, ended, heard, helperGeneration, client, dataplaneGeneration, connecting, attached, active, startAttempted,
                 stopping, op, signal, legacy, starts, faults>>

(***************************************************************************)
(* A helper ends.                                                          *)
(***************************************************************************)

\* It crashes, is killed, or reports its dataplane dead and exits; its
\* adapter goes with it.
Exit(g) ==
  /\ proc[g] = "run" /\ faults < MaxFaults /\ faults' = faults + 1
  /\ proc' = [proc EXCEPT ![g] = "dead"] /\ up' = [up EXCEPT ![g] = FALSE]
  /\ UNCHANGED <<inbox, ended, heard, controllerVars, op, signal, legacy, starts>>

\* The exit is noticed; reporting it waits for the helper's last words.
Noticed(g) ==
  /\ proc[g] = "dead" /\ proc' = [proc EXCEPT ![g] = "exited"]
  /\ UNCHANGED <<up, inbox, ended, heard, controllerVars, op, signal, legacy, starts, faults>>

\* handleHelperClosed: what counts is whether g ran the active dataplane.
unexpected(g) == g = dataplaneGeneration /\ active /\ disposed = "no" /\ ~stopping

\* fail(): the end of g reaches the controller, then the calls that waited
\* for it.
Closed(g) ==
  /\ proc[g] \in {"dead", "exited"}
  /\ proc' = [proc EXCEPT ![g] = "closed"] /\ ended' = [ended EXCEPT ![g] = TRUE]
  /\ inbox' = [inbox EXCEPT ![g] = << >>]
  /\ heard' = [heard EXCEPT ![g] = IF unexpected(g) THEN @ + 1 ELSE @]
  /\ startAttempted' = (startAttempted /\ g # helperGeneration)
  /\ stopping' = (stopping /\ ~awaited(g, "stop-dataplane"))
  /\ active' = (active /\ ~unexpected(g) /\ ~awaited(g, "stop-dataplane"))
  /\ connecting' = IF g = connecting THEN 0 ELSE connecting
  /\ op' = IF \/ g = connecting /\ op \in {"probing", "startWaits"}
              \/ awaited(g, "start-dataplane") /\ op = "started" THEN "owes"
           ELSE IF awaited(g, "stop-dataplane") /\ op = "stopping" THEN "idle"
           ELSE IF awaited(g, "get-capabilities") /\ op = "asked"
             THEN IF active' \/ startAttempted' THEN "idle" ELSE "again"
           ELSE op
  /\ signal' = (signal /\ ~(awaited(g, "stop-dataplane") /\ op = "stopping"))
  /\ UNCHANGED <<up, helperGeneration, client, dataplaneGeneration, attached, disposed, legacy, starts, faults>>

Next ==
  \/ Probe \/ Reconnect \/ Start \/ Abort \/ Stop \/ Dispose \/ LetGo \/ GraceEnds
  \/ \E g \in Gens :
       \/ ServeCapabilities(g) \/ ServeStart(g) \/ ServeStop(g) \/ ServeEnd(g)
       \/ Exit(g) \/ Noticed(g) \/ Closed(g)
       \/ \E i \in DOMAIN inbox[g] : Timeout(g, i)

Spec == Init /\ [][Next]_vars

(***************************************************************************)
(* Properties.                                                             *)
(***************************************************************************)

\* An adapter that captures traffic, or a start the helper has yet to carry
\* out, is owed a stop: the controller would send one, has sent it behind the
\* start, or has ended the helper's input.
AdapterIsOwed ==
  \A g \in Gens :
    proc[g] = "run" /\ (up[g] \/ \E i \in DOMAIN inbox[g] : inbox[g][i].cmd = "start-dataplane")
      => \/ g = client /\ (active \/ startAttempted)
         \/ inbox[g] # << >> /\ Last(inbox[g]).cmd \in {"stop-dataplane", "end"}

\* Between the caller's calls, isActive means that the helper it names holds
\* the adapter, or that its end has yet to be reported.
ActiveIsCarried ==
  active /\ op = "idle" /\ ~stopping /\ disposed = "no" =>
    \/ proc[dataplaneGeneration] = "run" /\ up[dataplaneGeneration]
    \/ proc[dataplaneGeneration] \in {"dead", "exited"}

\* Once disposed, every helper is gone or on its way out, except the one whose
\* handshake is still waited for.
DisposedReleases ==
  disposed = "done" => \A g \in Gens : proc[g] = "run" => ended[g] \/ g = connecting

\* The adapter of a helper comes to no harm from this side without a stop: a
\* running helper is never killed, only let go, while its dataplane is active.
\* (A helper that stopped answering keeps carrying traffic.)
ActiveIsNotKilled ==
  \A g \in Gens : up[g] /\ ~up'[g] /\ active /\ g = dataplaneGeneration /\ ~ended[g] => ~ended'[g]

\* The adapter, the helper that holds it and the controller's idea of both
\* stay in step.
AdapterIsHeld == AdapterIsOwed /\ ActiveIsCarried /\ DisposedReleases
=============================================================================
