--------------------------------- MODULE MCProgress ---------------------------------
(***************************************************************************)
(* What must come to an end in the components where somebody waits, for TLC *)
(* under the fairness each of them states.  They share no state: a behaviour*)
(* chooses one of them and is a fair behaviour of that one, while the others*)
(* stay as they began.                                                      *)
(***************************************************************************)
EXTENDS Naturals

VARIABLES
  which, \* the component explored
  keepaliveClosed, rekey, armed, silent, request, listens, unwritten, wait, asked, dead,
  q, frame, burst, barrier, unusable, outKey, inKey, pendIn, pause, phase, given, written,
  payloads, gated, transportClosed, sent, wire, inwire, srv,
  pc, ownerOpen, noted, cooled, waits, table, stale, cooling, attempts, inflight, captured,
  ownerFaults,
  file, load, loaded, device, adapterOpen, tries, session, readers, writer, inbound, outbound,
  cancelled, failure, claimed, supervisor, owner, closer, teardown, told, ends, opens, packets,
  adapterFaults, swaps

Keepalive == INSTANCE SshKeepalive WITH
  Requests <- 1..3, Waits <- 11..12, RekeyTimer <- FALSE, closed <- keepaliveClosed

Transport == INSTANCE SshTransport WITH
  MaxBurst <- 1, MaxData <- 1, MaxOpens <- 1, MaxAdjusts <- 1, MaxServed <- 1, MaxKeys <- 1,
  closed <- transportClosed

Owner == INSTANCE OwnerTable WITH
  Lookup <- 1..2, MaxAttempts <- 8, MaxFaults <- 1, open <- ownerOpen, faults <- ownerFaults

Adapter == INSTANCE TunAdapter WITH
  Paths <- {1}, createAttempts <- 2, MaxOpens <- 1, MaxPackets <- 1, MaxFaults <- 1, MaxSwaps <- 1,
  open <- adapterOpen, faults <- adapterFaults

-----------------------------------------------------------------------------
keepaliveVars ==
  <<keepaliveClosed, rekey, armed, silent, request, listens, unwritten, wait, asked, dead>>
transportVars ==
  <<q, frame, burst, barrier, unusable, outKey, inKey, pendIn, pause, phase, given, written,
    payloads, gated, transportClosed, sent, wire, inwire, srv>>
ownerVars ==
  <<pc, ownerOpen, noted, cooled, waits, table, stale, cooling, attempts, inflight, captured,
    ownerFaults>>
adapterVars ==
  <<file, load, loaded, device, adapterOpen, tries, session, readers, writer, inbound, outbound,
    cancelled, failure, claimed, supervisor, owner, closer, teardown, told, ends, opens, packets,
    adapterFaults, swaps>>

vars == <<which, keepaliveVars, transportVars, ownerVars, adapterVars>>

Init ==
  /\ which \in {"keepalive", "transport", "owner", "adapter"}
  /\ Keepalive!Init
  /\ Transport!Init
  /\ Owner!Init
  /\ Adapter!Init /\ (which # "adapter" => file[1] = "right")

\* A step of the component with this name leaves the others alone.
OnlyKeepalive == which = "keepalive" /\ UNCHANGED <<which, transportVars, ownerVars, adapterVars>>
OnlyTransport == which = "transport" /\ UNCHANGED <<which, keepaliveVars, ownerVars, adapterVars>>
OnlyOwner == which = "owner" /\ UNCHANGED <<which, keepaliveVars, transportVars, adapterVars>>
OnlyAdapter == which = "adapter" /\ UNCHANGED <<which, keepaliveVars, transportVars, ownerVars>>

Next ==
  \/ OnlyKeepalive /\ Keepalive!Next
  \/ OnlyTransport /\ Transport!Next
  \/ OnlyOwner /\ Owner!Next
  \/ OnlyAdapter /\ Adapter!Next

\* The fairness of each component, as its own FairSpec states and explains it.
Fairness ==
  /\ WF_keepaliveVars(OnlyKeepalive /\ Keepalive!runMaintenance)
  /\ WF_keepaliveVars(OnlyKeepalive /\ Keepalive!checkSilentSend)
  /\ WF_keepaliveVars(OnlyKeepalive /\ (Keepalive!RekeyFails \/ Keepalive!RekeyDone))
  /\ \A r \in 1..3 : WF_keepaliveVars(OnlyKeepalive /\ Keepalive!Written(r))
  /\ \A w \in 11..12 : WF_keepaliveVars(OnlyKeepalive /\ Keepalive!timedOut(w))
  /\ WF_transportVars(OnlyTransport /\ (Transport!FrameDone \/ Transport!WriteFails))
  /\ WF_transportVars(OnlyTransport /\ Transport!Kex)
  /\ WF_transportVars(OnlyTransport /\ Transport!Timeout)
  /\ WF_ownerVars(OnlyOwner /\ Owner!capture)
  /\ \A l \in 1..2 : WF_ownerVars(OnlyOwner /\ Owner!Step(l))
  /\ WF_adapterVars(OnlyAdapter /\ Adapter!InboundCheck)
  /\ WF_adapterVars(OnlyAdapter /\ Adapter!InboundLock)
  /\ WF_adapterVars(OnlyAdapter /\ Adapter!InboundPoll)
  /\ WF_adapterVars(OnlyAdapter /\ Adapter!InboundWake)
  /\ WF_adapterVars(OnlyAdapter /\ Adapter!InboundFails)
  /\ WF_adapterVars(OnlyAdapter /\ Adapter!OutboundRead)
  /\ WF_adapterVars(OnlyAdapter /\ Adapter!OutboundLock)
  /\ WF_adapterVars(OnlyAdapter /\ Adapter!OutboundSend)
  /\ WF_adapterVars(OnlyAdapter /\ Adapter!Fate)

FairSpec == Init /\ [][Next]_vars /\ Fairness

-----------------------------------------------------------------------------
(* Properties. *)

\* Nobody waits for ever.  A session whose server has fallen silent is closed, and
\* while it is open some timer or answer that will look at it is still to come,
\* whatever a rekey or a probe held up (live-client.ts); a channel held back by a key
\* exchange is released or learns of its end (socket-transport.ts); a lookup of a
\* socket's owner is answered (attribution.go); the adapter's pumps let go of a
\* session that is closed (runner_windows.go).
NobodyWaitsForEver ==
  /\ [](which = "keepalive" => Keepalive!TypeOK /\ Keepalive!SessionIsWatched)
  /\ which = "keepalive" => Keepalive!SilenceIsNoticed
  /\ which = "transport" => Transport!GateOpens
  /\ which = "owner" => Owner!LookupEnds
  /\ which = "adapter" => Adapter!ClosingEnds

=====================================================================================
