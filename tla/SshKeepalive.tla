---------------------------- MODULE SshKeepalive ----------------------------
(***************************************************************************)
(* How SshLiveClient finds out that its server is gone: the maintenance     *)
(* timer, keepalive requests and the waits for evidence that share them,    *)
(* the silent-send check, the probe after a wake, the suspicion after a     *)
(* channel open timed out, and the key exchange that holds them all back.   *)
(*                                                                         *)
(* Time is an order of events: a wait remembers whether anything was heard  *)
(* since its clock was set, and a timer that is set may fire at any time.   *)
(***************************************************************************)
EXTENDS Naturals, FiniteSets

CONSTANTS
    Requests,  \* names of keepalive requests, used again once settled
    Waits,     \* names of waits for evidence, used again once finished
    RekeyTimer \* rekeyIntervalMs > 0: the maintenance timer has that deadline too

None == 0

VARIABLES
    closed,    \* SshLiveClient.closed
    rekey,     \* rekeyPromise is set
    armed,     \* maintenanceTimer is set
    silent,    \* silentSendProbeTimer is set
    request,   \* keepaliveRequest
    listens,   \* requests that listen for a reply
    unwritten, \* requests not on the wire yet
    wait,      \* the waits
    asked,     \* a reply of the server's is due
    dead       \* the server is gone: nothing more is heard of it

vars == <<closed, rekey, armed, silent, request, listens, unwritten, wait, asked, dead>>

Idle == [clock |-> "none", first |-> None, on |-> None, heard |-> FALSE]
Waiting == {w \in Waits : wait[w].clock # "none"}
Free == {r \in Requests : r \notin listens \cup unwritten
                            /\ \A w \in Waiting : r \notin {wait[w].first, wait[w].on}}

\* The timers, the requests and the waits have the shapes the code gives them.
TypeOK ==
    /\ {closed, rekey, armed, silent, asked, dead} \subseteq BOOLEAN
    /\ request \in Requests \cup {None}
    /\ listens \subseteq Requests /\ unwritten \subseteq Requests
    /\ wait \in [Waits -> [clock : {"none", "unset", "set", "late"},
                           first : Requests \cup {None}, on : Requests \cup {None},
                           heard : BOOLEAN]]

Init ==
    /\ closed = FALSE /\ rekey = FALSE /\ armed = TRUE /\ silent = FALSE
    /\ request = None /\ listens = {} /\ unwritten = {}
    /\ wait = [w \in Waits |-> Idle]
    /\ asked = FALSE /\ dead = FALSE

-----------------------------------------------------------------------------

\* The timer is set unless the keys are being exchanged or nothing is due: a
\* keepalive is due only when none is pending.
rescheduleMaintenance(req) == armed' = (~rekey /\ (req = None \/ RekeyTimer))

\* The client is destroyed: every request and every wait fails.
Destroyed ==
    /\ closed' = TRUE /\ armed' = FALSE /\ silent' = FALSE /\ rekey' = FALSE
    /\ request' = None /\ listens' = {} /\ unwritten' = {}
    /\ wait' = [w \in Waits |-> Idle] /\ asked' = FALSE

failFromKeepalive == Destroyed /\ UNCHANGED dead

\* A wait on request r; its clock is set when the request it began with is on
\* the wire, which may be long ago.
awaitKeepaliveEvidence(r, isUnwritten) ==
    [clock |-> IF isUnwritten THEN "unset" ELSE "set", first |-> r, on |-> r, heard |-> FALSE]

\* A request of its own.
startKeepaliveRequest(r) ==
    /\ r \in Free
    /\ request' = r
    /\ listens' = listens \cup {r} /\ unwritten' = unwritten \cup {r}

\* sendKeepalive joins the pending request.  All three of its callers call it
\* only when there is none.
sendKeepalive ==
    \E r \in Free, w \in Waits \ Waiting :
       /\ startKeepaliveRequest(r)
       /\ wait' = [wait EXCEPT ![w] = awaitKeepaliveEvidence(r, TRUE)]

\* A wake or a change of network: always a fresh request.
probeLiveness == ~closed /\ sendKeepalive /\ UNCHANGED <<closed, rekey, armed, silent, asked, dead>>

\* The maintenance timer fires: a key exchange is started if one is due,
\* otherwise a keepalive if the server was silent for the interval.
runMaintenance ==
    /\ armed /\ ~closed
    /\ \/ /\ rekey' = TRUE /\ armed' = FALSE
          /\ UNCHANGED <<request, listens, unwritten, wait>>
       \/ /\ request = None
          /\ sendKeepalive
          /\ rescheduleMaintenance(request')
          /\ UNCHANGED rekey
       \/ /\ rescheduleMaintenance(request)
          /\ ~dead \/ request # None
          /\ UNCHANGED <<rekey, request, listens, unwritten, wait>>
    /\ UNCHANGED <<closed, silent, asked, dead>>

\* A key exchange the traffic or the server starts.
beginRuntimeRekey ==
    /\ ~closed /\ ~rekey /\ ~dead
    /\ rekey' = TRUE /\ armed' = FALSE
    /\ UNCHANGED <<closed, silent, request, listens, unwritten, wait, asked, dead>>

\* A key exchange ends, or fails within its time.
RekeyDone ==
    /\ rekey /\ ~dead
    /\ rekey' = FALSE /\ armed' = (request = None \/ RekeyTimer)
    /\ UNCHANGED <<closed, silent, request, listens, unwritten, wait, asked, dead>>
RekeyFails == rekey /\ failFromKeepalive

\* A write of the client's own arms the silent-send check.
noteOutbound ==
    /\ ~closed /\ ~silent /\ request = None
    /\ silent' = TRUE
    /\ UNCHANGED <<closed, rekey, armed, request, listens, unwritten, wait, asked, dead>>

\* The check fires: nothing was heard for its time and there was a write, or not.
checkSilentSend ==
    /\ silent /\ silent' = FALSE
    /\ \/ request = None /\ sendKeepalive
       \/ (~dead \/ request # None) /\ UNCHANGED <<request, listens, unwritten, wait>>
    /\ UNCHANGED <<closed, rekey, armed, asked, dead>>

\* A channel open timed out while the server said nothing at all.
suspectTransportAfterChannelTimeout ==
    /\ ~closed /\ request = None
    /\ sendKeepalive
    /\ UNCHANGED <<closed, rekey, armed, silent, asked, dead>>

\* A request leaves for the wire once no keys are exchanged; the waits that
\* began with it set their clocks, and what was heard before does not count.
Written(r) ==
    /\ r \in unwritten /\ ~rekey
    /\ unwritten' = unwritten \ {r}
    /\ asked' = TRUE
    /\ wait' = [w \in Waits |-> IF wait[w].clock = "unset" /\ wait[w].first = r
                                THEN [wait[w] EXCEPT !.clock = "set", !.heard = FALSE]
                                ELSE wait[w]]
    /\ UNCHANGED <<closed, rekey, armed, silent, request, listens, dead>>

Hear(ws) == [w \in Waits |-> IF ws[w].clock = "none" THEN Idle ELSE [ws[w] EXCEPT !.heard = TRUE]]

\* Any packet of the server's.
Inbound ==
    /\ ~closed /\ ~dead
    /\ wait' = Hear(wait)
    /\ UNCHANGED <<closed, rekey, armed, silent, request, listens, unwritten, asked, dead>>

\* A reply to a request answers every request that listens, and with them every
\* wait: a wait is always on a request that listens.
Response ==
    /\ ~closed /\ ~dead /\ asked
    /\ asked' \in BOOLEAN
    /\ wait' = [w \in Waits |-> IF wait[w].on \in listens THEN Idle ELSE Hear(wait)[w]]
    /\ listens' = {} /\ request' = None
    /\ IF request # None THEN rescheduleMaintenance(None) ELSE UNCHANGED armed
    /\ UNCHANGED <<closed, rekey, silent, unwritten, dead>>

\* abandonKeepaliveRequest by wait w, which is done.  Other waits on the same
\* request would be handed to the next one; there are none (WaitsAreTheirOwn).
abandonKeepaliveRequest(w) ==
    LET r == wait[w].on IN
    /\ wait' = [wait EXCEPT ![w] = Idle]
    /\ listens' = listens \ {r}
    /\ request' = IF request = r THEN None ELSE request
    /\ IF request = r THEN rescheduleMaintenance(None) ELSE UNCHANGED armed
    /\ UNCHANGED unwritten

\* The deadline of a wait.  Without evidence it looks once more after this
\* turn's reads, and then gives the session up.
timedOut(w) ==
    \/ /\ wait[w].clock \in {"set", "late"} /\ wait[w].heard
       /\ abandonKeepaliveRequest(w)
       /\ UNCHANGED <<closed, rekey, silent, asked, dead>>
    \/ /\ wait[w].clock = "set" /\ ~wait[w].heard
       /\ wait' = [wait EXCEPT ![w].clock = "late"]
       /\ UNCHANGED <<closed, rekey, armed, silent, request, listens, unwritten, asked, dead>>
    \/ /\ wait[w].clock = "late" /\ ~wait[w].heard
       /\ failFromKeepalive

\* The session ends for a reason of its own.
Close == ~closed /\ failFromKeepalive

\* The server, or the network, is gone.
Dies == ~dead /\ dead' = TRUE /\ UNCHANGED <<closed, rekey, armed, silent, request,
                                               listens, unwritten, wait, asked>>

Next ==
    \/ runMaintenance \/ beginRuntimeRekey \/ RekeyDone \/ RekeyFails
    \/ noteOutbound \/ checkSilentSend \/ suspectTransportAfterChannelTimeout \/ probeLiveness
    \/ \E r \in Requests : Written(r)
    \/ Inbound \/ Response
    \/ \E w \in Waits : timedOut(w)
    \/ Close \/ Dies

\* Timers fire, writes end, and a key exchange ends or times out.
Fairness ==
    /\ WF_vars(runMaintenance) /\ WF_vars(checkSilentSend)
    /\ WF_vars(RekeyFails \/ RekeyDone)
    /\ \A r \in Requests : WF_vars(Written(r))
    /\ \A w \in Waits : WF_vars(timedOut(w))

Spec == Init /\ [][Next]_vars
FairSpec == Spec /\ Fairness

-----------------------------------------------------------------------------
(* Properties.                                                              *)

\* Somebody always watches a session: the timer runs, the keys are being
\* exchanged under their own deadline, or the pending request has a wait with a
\* deadline, without which no timer and no check would ever ask again.
WatchIsKept ==
    ~closed /\ ~rekey =>
        \/ armed
        \/ request # None /\ \E w \in Waiting : wait[w].on = request

\* Every wait is on a request that still listens for its answer, so that an
\* answer, an abandonment or the end of the session always reaches it; and the
\* pending request listens.
WaitsAreHeard ==
    /\ \A w \in Waiting : wait[w].on \in listens
    /\ request # None => request \in listens

\* No two waits share a request, so none is settled by evidence of another's.
WaitsAreTheirOwn == \A v, w \in Waiting : v # w => wait[v].on # wait[w].on

\* A session is watched, and who watches it hears of the answer.
SessionIsWatched == WatchIsKept /\ WaitsAreHeard /\ WaitsAreTheirOwn

\* A session whose server is gone ends, whatever is being sent and probed.
SilenceIsNoticed == dead ~> closed

=============================================================================
