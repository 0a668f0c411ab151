-------------------------- MODULE MCLiveSshPaths --------------------------
(* The ways LiveSshService routes a machine, for TLC: with the Windows proxy
   setting, where sessions overlap and connections are parked; with the adapter;
   and with the adapter on a machine where undoing fails and the proxy setting may
   be refused.  A behaviour chooses one and is a behaviour of that instance.  The
   constants of the module itself bound all three. *)
EXTENDS LiveSshService

VARIABLE path  \* "proxy", "adapter" or "failing"

One(S) == {CHOOSE x \in S : TRUE}

(* There is a client for the instances that have one *)
ASSUME PathAssumption == Clients # {}

WithProxy == INSTANCE LiveSshServiceProofs WITH
  TunEnabled <- FALSE, CleanupMayFail <- FALSE, ProxyMayRefuse <- FALSE

WithAdapter == INSTANCE LiveSshServiceProofs WITH
  Clients <- One(Clients), Conns <- {}, TunEnabled <- TRUE, CleanupMayFail <- FALSE,
  ProxyMayRefuse <- FALSE

WithFailures == INSTANCE LiveSshServiceProofs WITH
  Clients <- One(Clients), Conns <- One(Conns), MaxQueue <- 2, TunEnabled <- TRUE,
  CleanupMayFail <- TRUE, ProxyMayRefuse <- TRUE

PathInit == \/ path = "proxy" /\ WithProxy!Init
            \/ path = "adapter" /\ WithAdapter!Init
            \/ path = "failing" /\ WithFailures!Init

PathNext == \/ path = "proxy" /\ WithProxy!Next /\ UNCHANGED path
            \/ path = "adapter" /\ WithAdapter!Next /\ UNCHANGED path
            \/ path = "failing" /\ WithFailures!Next /\ UNCHANGED path

PathSpec == PathInit /\ [][PathNext]_<<path, vars>>

(* The machine's traffic is where the status says: routed to a listener that is up,
   never beside the tunnel unnoticed, and direct once Disconnected; and routing that
   is held over an outage has its deadline (applySystemRouting, stopSystemRouting,
   suspendTunnel).  With the adapter the clock of a hold is the exception; an adapter
   that its dead helper's successor brings up, and a listener that binds after
   clearError, are the two things the service loses track of (forgotten, unwatched);
   and a machine where undoing fails promises none of it. *)
TrafficIsRight ==
  /\ path = "proxy" => WithProxy!TrafficIsWhereItSays /\ WithProxy!HeldRoutingHasDeadline
  /\ path = "adapter" => WithAdapter!TrafficIsWhereItSays
===========================================================================
