------------------------------ MODULE ServiceIpc ------------------------------
(***************************************************************************)
(* The native service as a process of its own, and the bridges that talk   *)
(* to it: NativeProcessServiceBridge over the standard streams             *)
(* (src/src/service/native-process-client.ts), LocalIpcServiceBridge over  *)
(* a named pipe (local-ipc-client.ts), the service's connections           *)
(* (internal/protocol), its commands (internal/app/app.go) and the way its *)
(* main function ends (cmd/shadow-ssh-service/main.go).                    *)
(*                                                                         *)
(* Two questions are asked.  Does the service ever end, saying that it     *)
(* ended well, with the adapter it started still capturing traffic?  And   *)
(* is every request of a bridge settled, and every connection slot         *)
(* returned, whatever the other side does?                                 *)
(***************************************************************************)
EXTENDS Naturals, Sequences, SequencesExt, FiniteSets

CONSTANTS
  Clients,         \* the bridges
  MaxConnections,  \* MaxEndpointConnections
  MaxPending,      \* MAX_SERVICE_PENDING_REQUESTS
  MaxRequests,     \* requests in all
  MaxFaults        \* teardowns left incomplete, routing cleanups that fail, signals

VARIABLES
  mode,            \* "stdio", "endpoint" or "service" (under the service control manager)
  main,            \* "serving", "stopping", "cleanup", "deferred", "exited", "killed"
  attempts,        \* cleanups tried before the service control manager is told
  completed,       \* routingCleanupCompleted
  code,            \* the exit status
  dataplane,       \* an adapter is up
  state,           \* the status the service reports
  shuttingDown, teardownErr,
  unfinished,      \* history: a teardown that Shutdown ran left changes to the journal
  conn,            \* each client: "none", "waiting", "served", "closed"
  partial,         \* each client: the service has read part of a frame
  writing,         \* each client: the answer the service is writing, if any
  timer,           \* each client: the deadline of its connection runs
  inbox, outbox,   \* each client: the commands and the answers on their way
  bridge,          \* each client: "none", "handshake", "ready", "failed", "disposing", "ending", "disposed"
  pending, bstatus, requests, faults

serviceVars == <<dataplane, state, shuttingDown, teardownErr, unfinished>>
mainVars == <<main, attempts, completed, code>>
connVars == <<conn, partial, writing, timer, inbox, outbox>>
bridgeVars == <<bridge, pending, bstatus, requests>>
vars == <<mode, main, attempts, completed, code, dataplane, state, shuttingDown, teardownErr, unfinished, conn, partial, writing, timer, inbox,
          outbox, bridge, pending, bstatus, requests, faults>>

Asks == {"get-status", "connect", "disconnect", "start-dataplane", "stop-dataplane"}
Types == Asks \cup {"get-capabilities", "shutdown"}
Cmd == [id : 1..MaxRequests, type : Types \cup {"end"}]
\* `left` is history: the command's own teardown was left incomplete.
Answers == [id : 1..MaxRequests, ok : BOOLEAN, status : {"none", "Disconnected", "Error"}, last : BOOLEAN,
            left : BOOLEAN]

\* The service's fields, its connections and the bridges' requests have the
\* shapes the code gives them.
TypeOK ==
  /\ mode \in {"stdio", "endpoint", "service"}
  /\ main \in {"serving", "stopping", "cleanup", "deferred", "exited", "killed"}
  /\ attempts \in 0..2 /\ completed \in BOOLEAN /\ code \in 0..1
  /\ {dataplane, shuttingDown, teardownErr, unfinished} \subseteq BOOLEAN /\ state \in {"Disconnected", "Error"}
  /\ conn \in [Clients -> {"none", "waiting", "served", "closed"}]
  /\ partial \in [Clients -> BOOLEAN] /\ timer \in [Clients -> BOOLEAN]
  /\ \A c \in Clients :
       /\ inbox[c] \in Seq(Cmd) /\ outbox[c] \in Seq(Answers) /\ writing[c] \in Seq(Answers)
       /\ pending[c] \subseteq 1..MaxRequests /\ Cardinality(pending[c]) <= MaxPending
  /\ bridge \in [Clients -> {"none", "handshake", "ready", "failed", "disposing", "ending", "disposed"}]
  /\ bstatus \in [Clients -> {"Disconnected", "Error"}]
  /\ requests \in 0..MaxRequests /\ faults \in 0..MaxFaults

\* Over the standard streams the service has one client only.
theirs == IF mode = "stdio" THEN {CHOOSE c \in Clients : TRUE} ELSE Clients

Init ==
  /\ mode \in {"stdio", "endpoint", "service"}
  /\ main = "serving" /\ attempts = 0 /\ completed = FALSE /\ code = 0
  /\ dataplane = FALSE /\ state = "Disconnected" /\ shuttingDown = FALSE /\ teardownErr = FALSE
  /\ unfinished = FALSE
  /\ conn = [c \in Clients |-> "none"] /\ partial = [c \in Clients |-> FALSE] /\ timer = [c \in Clients |-> FALSE]
  /\ writing = [c \in Clients |-> << >>] /\ inbox = [c \in Clients |-> << >>] /\ outbox = [c \in Clients |-> << >>]
  /\ bridge = [c \in Clients |-> "none"] /\ pending = [c \in Clients |-> {}]
  /\ bstatus = [c \in Clients |-> "Disconnected"] /\ requests = 0 /\ faults = 0

(***************************************************************************)
(* The commands: HandleCommand and its handlers, one at a time under       *)
(* mutationMu.  Each leaves its outcome in (ok, status).                   *)
(***************************************************************************)

\* stopDataplane: the runner is closed once and let go, whatever it reports.
\* `left`: it left routing changes to the journal.
CloseRunner(left) ==
  /\ left => dataplane /\ faults < MaxFaults
  /\ dataplane' = FALSE

\* stopDataplane and clearRoutingAndSetDisconnected, in that order; what a
\* failed step leaves is an error to report.
Cleanup(left, stuck) ==
  /\ CloseRunner(left)
  /\ stuck => ~left /\ faults < MaxFaults
  /\ faults' = IF left \/ stuck THEN faults + 1 ELSE faults
  /\ state' = IF left \/ stuck THEN "Error" ELSE "Disconnected"

Refused == UNCHANGED <<serviceVars, faults>>

\* A start for another transport closes the dataplane that runs, and only logs
\* what that leaves behind; one for the same transport changes the policy of the
\* dataplane.  A start that is refused first changes nothing.
handleStartDataplane(ok) ==
  /\ \/ /\ dataplane' \in BOOLEAN /\ UNCHANGED faults
        /\ (ok => dataplane') /\ (dataplane' => ok \/ dataplane)
     \/ CloseRunner(TRUE) /\ ~ok /\ faults' = faults + 1
     \/ dataplane /\ faults < MaxFaults /\ ok /\ dataplane' = TRUE /\ faults' = faults + 1
  /\ UNCHANGED <<state, shuttingDown, teardownErr, unfinished>>

handleStopDataplane(ok, left) ==
  /\ CloseRunner(left) /\ ok = ~left /\ faults' = (IF left THEN faults + 1 ELSE faults)
  /\ UNCHANGED <<state, shuttingDown, teardownErr, unfinished>>

\* The binary has no SSH engine: a connect always ends in an error.
handleConnect(ok) ==
  ~ok /\ state' = "Error" /\ UNCHANGED <<dataplane, shuttingDown, teardownErr, unfinished, faults>>

handleDisconnect(ok, left) ==
  /\ \E stuck \in BOOLEAN : ok = ~(left \/ stuck) /\ Cleanup(left, stuck)
  /\ UNCHANGED <<shuttingDown, teardownErr, unfinished>>

handleShutdown(ok, left) ==
  /\ \E stuck \in BOOLEAN : ok = ~(left \/ stuck) /\ Cleanup(left, stuck)
  /\ shuttingDown' = (shuttingDown \/ ok)
  /\ UNCHANGED <<teardownErr, unfinished>>

\* HandleCommand: a service that shuts down changes nothing any more.
\* `left`: the command leaves changes of a dataplane it closes to the journal.
HandleCommand(type, ok, left) ==
  \/ type \in {"get-status", "get-capabilities"} /\ ok /\ ~left /\ Refused
  \/ shuttingDown /\ type \in Asks \ {"get-status"} /\ ~ok /\ ~left /\ Refused
  \/ /\ ~shuttingDown
     /\ \/ type = "start-dataplane" /\ ~left /\ handleStartDataplane(ok)
        \/ type = "stop-dataplane" /\ handleStopDataplane(ok, left)
        \/ type = "connect" /\ ~left /\ handleConnect(ok)
        \/ type = "disconnect" /\ handleDisconnect(ok, left)
  \/ type = "shutdown" /\ handleShutdown(ok, left)

\* Mutant: a second cleanup forgets what the first one left behind.
ShutdownRunAgain(ok) ==
  /\ \E left \in BOOLEAN, stuck \in BOOLEAN :
       /\ CloseRunner(left)
       /\ teardownErr' = left
       /\ unfinished' = (unfinished \/ left)
       /\ stuck => ~teardownErr' /\ faults < MaxFaults
       /\ faults' = IF left \/ stuck THEN faults + 1 ELSE faults
       /\ ok = ~(teardownErr' \/ stuck)
  /\ state' = IF ok THEN "Disconnected" ELSE "Error"
  /\ shuttingDown' = (shuttingDown \/ ok)

\* Shutdown: an incomplete teardown is remembered, and reported again.
ShutdownRun(ok) ==
  /\ \E left \in BOOLEAN, stuck \in BOOLEAN :
       /\ CloseRunner(left)
       /\ teardownErr' = (teardownErr \/ left)
       /\ unfinished' = (unfinished \/ left)
       /\ stuck => ~teardownErr' /\ faults < MaxFaults
       /\ faults' = IF left \/ stuck THEN faults + 1 ELSE faults
       /\ ok = ~(teardownErr' \/ stuck)
  /\ state' = IF ok THEN "Disconnected" ELSE "Error"
  /\ shuttingDown' = (shuttingDown \/ ok)

(***************************************************************************)
(* Connections: a slot per connection, a deadline for every frame.         *)
(***************************************************************************)

slots == Cardinality({c \in Clients : conn[c] = "served"})

\* A connection ends; its slot is free and its client will hear of it.
closing(c) == [conn EXCEPT ![c] = "closed"]

\* ServeEndpoint accepts a connection, or refuses one too many.
Accept(c) ==
  /\ main = "serving" /\ conn[c] = "waiting"
  /\ conn' = [conn EXCEPT ![c] = IF slots < MaxConnections THEN "served" ELSE "closed"]
  /\ UNCHANGED <<mode, mainVars, serviceVars, partial, writing, timer, inbox, outbox, bridgeVars, faults>>

\* watchEndpointDeadline: the timer runs while a frame is half read or an
\* answer is being written, and stops between frames.
watched(c, p, w) == p \/ w

timed(c, p, w) == timer' = [timer EXCEPT ![c] = mode # "stdio" /\ watched(c, p, w)]

\* Part of a frame arrives.
ReadPart(c) ==
  /\ conn[c] = "served" /\ ~partial[c] /\ writing[c] = << >> /\ inbox[c] # << >> /\ mode # "stdio"
  /\ partial' = [partial EXCEPT ![c] = TRUE] /\ timed(c, TRUE, FALSE)
  /\ UNCHANGED <<mode, mainVars, serviceVars, conn, writing, inbox, outbox, bridgeVars, faults>>

\* serveLines handles a command and begins to write its answer.
Serve(c) ==
  /\ conn[c] = "served" /\ main \in {"serving", "stopping"} /\ writing[c] = << >> /\ inbox[c] # << >>
  /\ LET m == Head(inbox[c]) IN
     /\ m.type # "end"
     /\ \E ok \in BOOLEAN, left \in BOOLEAN :
          /\ HandleCommand(m.type, ok, left)
          /\ writing' = [writing EXCEPT ![c] =
               <<[id |-> m.id, ok |-> ok, last |-> m.type = "shutdown" /\ ok, left |-> left,
                  status |-> IF m.type \in {"get-status", "connect", "disconnect", "shutdown"} THEN state' ELSE "none"]>>]
          /\ completed' = (completed \/ (m.type = "shutdown" /\ ok))
     /\ inbox' = [inbox EXCEPT ![c] = Tail(@)]
  /\ partial' = [partial EXCEPT ![c] = FALSE] /\ timed(c, FALSE, TRUE)
  /\ UNCHANGED <<mode, main, attempts, code, conn, outbox, bridgeVars>>

\* The answer and its events are written; the answer to a shutdown ends the
\* service's other connections too.
Written(c) ==
  /\ conn[c] = "served" /\ main \in {"serving", "stopping"} /\ writing[c] # << >>
  /\ LET m == Head(writing[c]) IN
     /\ outbox' = [outbox EXCEPT ![c] = Append(@, m)]
     /\ main' = IF m.last THEN "stopping" ELSE main
     /\ conn' = IF m.last THEN closing(c) ELSE conn
  /\ writing' = [writing EXCEPT ![c] = << >>] /\ timed(c, partial[c], FALSE)
  /\ UNCHANGED <<mode, attempts, completed, code, serviceVars, partial, inbox, bridgeVars, faults>>

\* The deadline of a connection passes.
Deadline(c) ==
  /\ conn[c] = "served" /\ timer[c]
  /\ conn' = closing(c) /\ timer' = [timer EXCEPT ![c] = FALSE]
  /\ writing' = [writing EXCEPT ![c] = << >>] /\ partial' = [partial EXCEPT ![c] = FALSE]
  /\ UNCHANGED <<mode, mainVars, serviceVars, inbox, outbox, bridgeVars, faults>>

\* The client's end of the input: over the standard streams the service ends.
InputEnds(c) ==
  /\ conn[c] = "served" /\ writing[c] = << >> /\ inbox[c] # << >> /\ Head(inbox[c]).type = "end"
  /\ conn' = closing(c) /\ inbox' = [inbox EXCEPT ![c] = << >>]
  /\ main' = IF mode = "stdio" /\ main = "serving" THEN "stopping" ELSE main
  /\ UNCHANGED <<mode, attempts, completed, code, serviceVars, partial, writing, timer, outbox, bridgeVars, faults>>

(***************************************************************************)
(* The end of the process.                                                 *)
(***************************************************************************)

\* A signal, or the service control manager's stop.
Signal ==
  /\ main = "serving" /\ faults < MaxFaults
  /\ main' = "stopping" /\ faults' = faults + 1
  /\ UNCHANGED <<mode, attempts, completed, code, serviceVars, connVars, bridgeVars>>

\* ServeEndpoint cancels its connections and waits for them.
Drain(c) ==
  /\ main = "stopping" /\ conn[c] \in {"waiting", "served"} /\ writing[c] = << >>
  /\ conn' = closing(c) /\ partial' = [partial EXCEPT ![c] = FALSE] /\ timer' = [timer EXCEPT ![c] = FALSE]
  /\ UNCHANGED <<mode, mainVars, serviceVars, writing, inbox, outbox, bridgeVars, faults>>

Drained ==
  /\ main = "stopping" /\ \A c \in Clients : conn[c] \notin {"waiting", "served"}
  /\ main' = IF mode = "service" /\ ~completed THEN "cleanup" ELSE "deferred"
  /\ UNCHANGED <<mode, attempts, completed, code, serviceVars, connVars, bridgeVars, faults>>

\* Under the service control manager the cleanup is tried twice before the
\* service is reported stopped.
CleanupBeforeStopped ==
  /\ main = "cleanup" /\ attempts < 2
  /\ \E ok \in BOOLEAN :
       /\ ShutdownRun(ok)
       /\ completed' = ok
       /\ attempts' = attempts + 1
       /\ main' = IF ok \/ attempts' = 2 THEN "deferred" ELSE "cleanup"
       /\ code' = IF ~ok /\ attempts' = 2 THEN 1 ELSE code
  /\ UNCHANGED <<mode, connVars, bridgeVars>>

\* main's deferred cleanup, unless a shutdown already ran it.
Deferred ==
  /\ main = "deferred" /\ main' = "exited"
  /\ IF completed
       THEN UNCHANGED <<code, serviceVars, faults>>
       ELSE \E ok \in BOOLEAN : ShutdownRun(ok) /\ code' = IF ok THEN code ELSE 1
  /\ UNCHANGED <<mode, attempts, completed, connVars, bridgeVars>>

(***************************************************************************)
(* The bridges.                                                            *)
(***************************************************************************)

alive == main \notin {"exited", "killed"}

\* send(): the request waits for its answer, up to the limit.
send(c, type) ==
  /\ requests < MaxRequests /\ Cardinality(pending[c]) < MaxPending
  /\ requests' = requests + 1
  /\ pending' = [pending EXCEPT ![c] = @ \cup {requests + 1}]
  /\ inbox' = [inbox EXCEPT ![c] = Append(@, [id |-> requests + 1, type |-> type])]

\* start / connect: the bridge opens and asks what the service can do.
Open(c) ==
  /\ c \in theirs /\ bridge[c] = "none" /\ main = "serving"
  /\ bridge' = [bridge EXCEPT ![c] = "handshake"]
  /\ conn' = [conn EXCEPT ![c] = IF mode = "stdio" THEN "served" ELSE "waiting"]
  /\ send(c, "get-capabilities")
  /\ UNCHANGED <<mode, mainVars, serviceVars, partial, writing, timer, outbox, bstatus, faults>>

Ask(c, type) ==
  /\ bridge[c] = "ready" /\ send(c, type)
  /\ UNCHANGED <<mode, mainVars, serviceVars, conn, partial, writing, timer, outbox, bridge, bstatus, faults>>

\* handleMessage: an answer settles its own request; a late one is dropped,
\* but not its status.  A destroyed socket delivers nothing more, while what a
\* killed process wrote is still read.
Receive(c) ==
  /\ outbox[c] # << >>
  /\ bridge[c] \in {"handshake", "ready", "disposing", "ending"} \/ (mode = "stdio" /\ bridge[c] = "failed")
  /\ LET m == Head(outbox[c]) IN
     /\ pending' = [pending EXCEPT ![c] = @ \ {m.id}]
     /\ bridge' = [bridge EXCEPT ![c] = IF @ = "handshake" /\ m.id \in pending[c] THEN "ready" ELSE @]
     /\ bstatus' = [bstatus EXCEPT ![c] = IF m.status = "none" THEN @ ELSE m.status]
  /\ outbox' = [outbox EXCEPT ![c] = Tail(@)]
  /\ UNCHANGED <<mode, mainVars, serviceVars, conn, partial, writing, timer, inbox, requests, faults>>

\* Mutant: only the request that timed out is rejected.
handleFailureOne(c, id) ==
  /\ pending' = [pending EXCEPT ![c] = @ \ {id}]
  /\ bridge' = [bridge EXCEPT ![c] = IF @ \in {"handshake", "ready"} THEN "failed" ELSE @]
  /\ bstatus' = [bstatus EXCEPT ![c] = IF bridge[c] \in {"handshake", "ready"} THEN "Error" ELSE @]
  /\ IF bridge[c] \in {"handshake", "ready"}
       THEN /\ conn' = closing(c)
            /\ main' = IF mode = "stdio" /\ alive THEN "killed" ELSE main
       ELSE UNCHANGED <<conn, main>>
  /\ writing' = [writing EXCEPT ![c] = << >>] /\ timer' = [timer EXCEPT ![c] = FALSE] /\ partial' = [partial EXCEPT ![c] = FALSE]

\* handleFailure: every request is rejected, the service is let go of and the
\* status says so.  A bridge that is being disposed only rejects; one that
\* had not shaken hands is given up on (abortStart).
handleFailure(c, id) ==
  /\ pending' = [pending EXCEPT ![c] = {}]
  /\ bridge' = [bridge EXCEPT ![c] = IF @ \in {"handshake", "ready"} THEN "failed" ELSE @]
  /\ bstatus' = [bstatus EXCEPT ![c] = IF bridge[c] \in {"handshake", "ready"} THEN "Error" ELSE @]
  /\ IF bridge[c] \in {"handshake", "ready"}
       THEN /\ conn' = closing(c)
            /\ main' = IF mode = "stdio" /\ alive THEN "killed" ELSE main
       ELSE UNCHANGED <<conn, main>>
  /\ writing' = [writing EXCEPT ![c] = << >>] /\ timer' = [timer EXCEPT ![c] = FALSE] /\ partial' = [partial EXCEPT ![c] = FALSE]

\* A request is not answered in time, or the connection is found closed.
RequestTimeout(c) ==
  /\ \E id \in pending[c] : handleFailure(c, id)
  /\ UNCHANGED <<mode, attempts, completed, code, serviceVars, inbox, outbox, requests, faults>>

Lost(c) ==
  /\ bridge[c] \in {"handshake", "ready", "disposing", "ending"} /\ outbox[c] = << >>
  /\ conn[c] = "closed" \/ ~alive
  /\ handleFailure(c, 0)
  /\ UNCHANGED <<mode, attempts, completed, code, serviceVars, inbox, outbox, requests, faults>>

\* dispose(): the process is asked to shut down first; a socket is closed.
Dispose(c) ==
  /\ bridge[c] \in {"ready", "failed"}
  /\ IF mode = "stdio" /\ bridge[c] = "ready" /\ alive /\ requests < MaxRequests /\ Cardinality(pending[c]) < MaxPending
       THEN /\ bridge' = [bridge EXCEPT ![c] = "disposing"] /\ send(c, "shutdown")
            /\ UNCHANGED <<conn, partial, writing, timer>>
       ELSE IF mode = "stdio" /\ alive
       THEN /\ bridge' = [bridge EXCEPT ![c] = "disposing"]
            /\ UNCHANGED <<requests, pending, inbox, conn, partial, writing, timer>>
       ELSE /\ bridge' = [bridge EXCEPT ![c] = "disposed"] /\ pending' = [pending EXCEPT ![c] = {}]
            /\ conn' = closing(c) /\ timer' = [timer EXCEPT ![c] = FALSE] /\ partial' = [partial EXCEPT ![c] = FALSE]
            /\ writing' = [writing EXCEPT ![c] = << >>]
            /\ UNCHANGED <<requests, inbox>>
  /\ UNCHANGED <<mode, mainVars, serviceVars, outbox, bstatus, faults>>

\* The shutdown was answered or its grace passed: the input is closed, which
\* makes the service clean up and end.
EndInput(c) ==
  /\ bridge[c] = "disposing"
  /\ bridge' = [bridge EXCEPT ![c] = "ending"]
  /\ inbox' = [inbox EXCEPT ![c] = Append(@, [id |-> MaxRequests, type |-> "end"])]
  /\ UNCHANGED <<mode, mainVars, serviceVars, conn, partial, writing, timer, outbox, pending, bstatus, requests, faults>>

\* It ended, or its grace did.
EndDispose(c) ==
  /\ bridge[c] = "ending"
  /\ main' = IF alive THEN "killed" ELSE main
  /\ bridge' = [bridge EXCEPT ![c] = "disposed"] /\ pending' = [pending EXCEPT ![c] = {}]
  /\ UNCHANGED <<mode, attempts, completed, code, serviceVars, connVars, bstatus, requests, faults>>

Next ==
  \/ Signal \/ Drained \/ CleanupBeforeStopped \/ Deferred
  \/ \E c \in Clients :
       \/ Accept(c) \/ ReadPart(c) \/ Serve(c) \/ Written(c) \/ Deadline(c) \/ InputEnds(c) \/ Drain(c)
       \/ Open(c) \/ Receive(c) \/ RequestTimeout(c) \/ Lost(c) \/ Dispose(c) \/ EndInput(c) \/ EndDispose(c)
       \/ \E type \in Asks \cup {"shutdown"} : Ask(c, type)

Spec == Init /\ [][Next]_vars

(***************************************************************************)
(* Properties.                                                             *)
(***************************************************************************)

\* A service that ended by itself, or that has told a client it is shutting
\* down, holds no adapter, and no later command brings one up.
EndsWithoutAdapter == main = "exited" \/ shuttingDown => ~dataplane

\* The exit status of a service that left changes behind on its way out.
ExitTells == main = "exited" /\ unfinished => code = 1

\* The answer to a command that left changes behind, written or on its way.
AnswersTell ==
  \A c \in Clients :
    /\ \A i \in DOMAIN writing[c] : writing[c][i].left => ~writing[c][i].ok
    /\ \A i \in DOMAIN outbox[c] : outbox[c][i].left => ~outbox[c][i].ok

\* A teardown that was left incomplete is told by whoever ran it: the command it
\* belongs to is answered with an error, and a service that ran it on its way out
\* ends with a failing exit status, also when the cleanup is tried again and
\* finds nothing left to close (app.go 163-181).  That is all: the exit status
\* does not repeat what a command was told before, so that a service which left
\* changes to the journal under a disconnect, a stop or a refused shutdown ends
\* with 0, and a dataplane that a start replaces is only mentioned in the log.
IncompleteIsReported == ExitTells /\ AnswersTell

\* A bridge that failed or was disposed of leaves no request waiting, and one
\* that failed over a socket never shows another status than Error.
RequestsAreSettled ==
  \A c \in Clients :
    /\ bridge[c] \in {"none", "failed", "disposed"} => pending[c] = {}
    /\ bridge[c] = "failed" /\ mode # "stdio" => bstatus[c] = "Error"

\* A connection of the endpoint that keeps a slot without the service waiting
\* for a new command has a deadline.
SlotsAreReturned ==
  /\ mode # "stdio" => slots <= MaxConnections
  /\ \A c \in Clients :
       mode # "stdio" /\ conn[c] = "served" /\ (partial[c] \/ writing[c] # << >>) => timer[c]

\* What the service and its bridges promise each other.
ServiceAnswers ==
  EndsWithoutAdapter /\ IncompleteIsReported /\ RequestsAreSettled /\ SlotsAreReturned
===============================================================================
