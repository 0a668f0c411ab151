---------------------------- MODULE LatestIntent ----------------------------
(***************************************************************************)
(* What main promises of Connect and Disconnect, whatever is queued behind *)
(* whatever: a tunnel starts only for the latest thing asked for, it takes *)
(* the place of any other, and the automatic Connect of a launch counts    *)
(* only if nobody has asked for anything before.                           *)
(***************************************************************************)
CONSTANT Tunnels      \* the transports

VARIABLES want,       \* the latest intent: a tunnel, "nothing" or "quit"
          by,         \* whose it is: "nobody", "user" or "launch"
          running     \* tunnels with a session

vars == <<want, by, running>>

Init == want = "nothing" /\ by = "nobody" /\ running = {}

Ask(w) ==
  /\ want # "quit"
  /\ want' = w /\ by' = "user"
  /\ running' = running

AskAtLaunch(t) ==
  /\ by = "nobody"
  /\ want' = t /\ by' = "launch"
  /\ running' = running

Start(t) ==
  /\ want = t
  /\ running' = {t}
  /\ UNCHANGED <<want, by>>

(* Sessions end: they were asked to, they failed, or their rules are gone. *)
Stop(s) ==
  /\ running' = running \ s
  /\ UNCHANGED <<want, by>>

Next ==
  \/ \E w \in Tunnels \cup {"nothing", "quit"} : Ask(w)
  \/ \E t \in Tunnels : AskAtLaunch(t) \/ Start(t)
  \/ \E s \in SUBSET Tunnels : Stop(s)

Spec == Init /\ [][Next]_vars
=============================================================================
