-------------------------- MODULE MCSessionProofs --------------------------
(***************************************************************************)
(* Proofs about what watches over a session of the SSH bridge.             *)
(*                                                                         *)
(* ServerIdentity: which server credentials are sent to, for any number of *)
(* saved servers, addresses, moves of the network, connects, restarts and  *)
(* failed saves.                                                           *)
(*                                                                         *)
(* WakeSupervisor: what a wake does to the session, for any number of      *)
(* sleeps, changes of network, backoff steps, connects and failed reads.   *)
(*                                                                         *)
(* MCSession instantiates both; the last part carries the results over to  *)
(* the properties its run checks.                                          *)
(***************************************************************************)
EXTENDS MCSession, TLAPS

(* The component explored is chosen once. *)
LEMMA ChosenOnce ==
  ASSUME NEW c \in {"xray", "transport", "connect", "identity", "wake", "listener"},
         [Next]_vars
  PROVE  (which = c) <=> (which = c)'
BY DEF Next, vars

(* A behaviour that explores the host-key trust is a behaviour of ServerIdentity. *)
LEMMA IdentityIsChosen ==
  /\ Init => (which = "identity" => Identity!Init)
  /\ [Next]_vars => (which = "identity" => [Identity!Next]_Identity!vars)
<1>1. Init => (which = "identity" => Identity!Init)
  BY DEF Init
<1>2. [Next]_vars => (which = "identity" => [Identity!Next]_Identity!vars)
  BY DEF Next, vars, identityVars, Identity!vars, Identity!saved, Identity!memory,
         Identity!attempt, Identity!network, Identity!ghosts, Identity!counts
<1>3. QED
  BY <1>1, <1>2

(* A behaviour that explores the wakes is one of WakeSupervisor. *)
LEMMA WakeIsChosen ==
  /\ Init => (which = "wake" => Wake!Init)
  /\ [Next]_vars => (which = "wake" => [Wake!Next]_Wake!vars)
<1>1. Init => (which = "wake" => Wake!Init)
  BY DEF Init
<1>2. [Next]_vars => (which = "wake" => [Wake!Next]_Wake!vars)
  BY DEF Next, vars, wakeVars, Wake!vars, Wake!detector, Wake!waits
<1>3. QED
  BY <1>1, <1>2

-----------------------------------------------------------------------------
(* Which server credentials reach *)

(* What is saved of a server, and the server of a request *)
SavedServers == [pin : Identity!Keys \cup {Identity!Nothing},
                 trusted : Identity!Keys \cup {Identity!Nothing}, typed : BOOLEAN]
ServerRequests == [host : Servers, pin : Identity!Keys \cup {Identity!Nothing},
                   trusted : Identity!Keys \cup {Identity!Nothing}, typed : BOOLEAN]
USE DEF SavedServers, ServerRequests

(* What each field holds, those TypeOK leaves out included *)
IdentityShapes ==
  /\ store \in [Servers -> SavedServers]
  /\ asked \in [host : Servers, key : Identity!Keys] \cup {Identity!NoSession}
  /\ identityRequest \in ServerRequests
                   \cup {Identity!NoRequest}
  /\ session \in [host : Servers, key : Identity!Keys] \cup {Identity!NoSession}
  /\ last \in [host : Servers, address : ServerAddresses] \cup {Identity!NoAddress}
  /\ types \subseteq Identity!Keys /\ stale \subseteq ServerAddresses
  /\ identityHeld \in BOOLEAN /\ answers \in BOOLEAN
  /\ identityPhase \in {"idle", "resolve", "dial", "up", "waiting", "halted"}
  /\ via \in {"name", "protected", "cached"} /\ at \in ServerAddresses \cup {Identity!Nothing}
  /\ resolver \in [Servers -> ServerAddresses]
  /\ identityOwner \in [ServerAddresses -> Servers \cup {"stranger", Identity!Nothing}]
  /\ key \in [Servers -> Identity!Keys]

(* A session under way is one of a saved server, and dials an address. *)
UnderWay ==
  /\ identityPhase \in {"resolve", "dial", "up", "waiting"} => identityRequest.host \in Servers
  /\ identityPhase = "resolve" => via = "name"
  /\ identityPhase = "dial" => at \in ServerAddresses

(* The session expects the key it owes. *)
Expects ==
  identityPhase \in {"resolve", "dial", "up", "waiting"} =>
    Identity!expectedHostKey(identityRequest) = due

(* An adapter is held only for a server whose key a session has verified. *)
HeldIsKnown ==
  identityHeld => session.host = identityRequest.host /\ session.key # Identity!Nothing

(* A remembered address is dialled only where a key is known, and is the one that is
   remembered. *)
DialsRemembered ==
  identityPhase = "dial" /\ via # "name" =>
    /\ Identity!expectedHostKey(identityRequest) # Identity!Nothing
    /\ last.host = identityRequest.host /\ at = last.address

(* What is remembered was not found to be another server's since. *)
NotStale == last # Identity!NoAddress => last.address \notin stale

(* A changed key has halted the session and nothing but the user goes on from there. *)
HaltedByKey == halt = "key" => via = "name" /\ identityPhase \in {"halted", "idle"}

(* The type of every key this run knows is known. *)
TypesKnown == proved \subseteq types

IdentityInv ==
  /\ IdentityShapes /\ UnderWay /\ Expects /\ HeldIsKnown /\ DialsRemembered /\ NotStale
  /\ HaltedByKey /\ TypesKnown /\ Identity!CredentialsReachTheirServer

(* No server is called like the absence of one. *)
IdentityBounds == Identity!Nothing \notin Servers

-----------------------------------------------------------------------------
(* The key a server presents is one. *)
LEMMA PresentsKey ==
  ASSUME IdentityBounds, IdentityShapes, at \in ServerAddresses,
         identityOwner[at] # Identity!Nothing
  PROVE  Identity!Presented \in Identity!Keys /\ Identity!Presented # Identity!Nothing
<1>1. identityOwner[at] \in Servers \cup {"stranger"}
  BY DEF IdentityShapes
<1>2. key \in [Servers -> Identity!Keys]
  BY DEF IdentityShapes
<1>3. QED
  BY <1>1, <1>2 DEF Identity!Presented, Identity!Keys, IdentityBounds, Identity!Nothing

(* What is known of a key's type are keys. *)
LEMMA RemembersKeys ==
  ASSUME IdentityShapes, NEW r \in ServerRequests
  PROVE  /\ Identity!rememberHostKeyType(r) \subseteq Identity!Keys
         /\ types \subseteq Identity!rememberHostKeyType(r)
BY DEF IdentityShapes, Identity!rememberHostKeyType

LEMMA ConnectStep ==
  ASSUME IdentityBounds, IdentityInv, NEW h \in Servers, Identity!Connect(h)
  PROVE  IdentityInv'
<1> USE DEF Identity!saved, Identity!network
<1>1. identityRequest' \in ServerRequests
  BY DEF IdentityInv, IdentityShapes, Identity!Connect
<1>2. /\ last' \in [host : Servers, address : ServerAddresses] \cup {Identity!NoAddress}
      /\ last' # Identity!NoAddress => last' = last
  BY DEF IdentityInv, IdentityShapes, Identity!Connect
<1>3. /\ types' = Identity!rememberHostKeyType(identityRequest')
      /\ identityHeld' = FALSE /\ identityPhase' = "resolve"
      /\ via' = "name" /\ at' = Identity!Nothing
  BY DEF Identity!Connect, Identity!Begin
<1>4. session' = Identity!NoSession /\ identityRequest'.host = h
  BY DEF Identity!Connect
<1>5. types' \subseteq Identity!Keys /\ types \subseteq types'
  BY <1>1, <1>3, RemembersKeys DEF IdentityInv
<1>6. IdentityShapes'
  BY <1>1, <1>2, <1>3, <1>4, <1>5 DEF IdentityInv, IdentityShapes, Identity!Connect
<1>7. Expects'
  BY <1>3, <1>4 DEF Identity!Connect, Expects, Identity!expectedHostKey, Identity!NoSession
<1>8. NotStale'
  BY <1>2 DEF IdentityInv, NotStale, Identity!Connect
<1>9. HaltedByKey'
  BY DEF Identity!Connect, HaltedByKey, Identity!Nothing
<1>10. TypesKnown'
  BY <1>3, <1>5 DEF IdentityInv, TypesKnown, Identity!Connect, Identity!rememberHostKeyType
<1>11. Identity!CredentialsReachTheirServer'
  BY DEF IdentityInv, Identity!CredentialsReachTheirServer, Identity!Connect
<1>12. UnderWay' /\ HeldIsKnown' /\ DialsRemembered'
  BY <1>3, <1>4 DEF UnderWay, HeldIsKnown, DialsRemembered
<1>13. QED
  BY <1>6, <1>7, <1>8, <1>9, <1>10, <1>11, <1>12 DEF IdentityInv

LEMMA RetryStep ==
  ASSUME IdentityBounds, IdentityInv, Identity!Retry
  PROVE  IdentityInv'
<1> USE DEF Identity!saved, Identity!network, Identity!ghosts, Identity!counts
<1>1. identityRequest \in ServerRequests
  BY DEF IdentityInv, IdentityShapes, UnderWay, Identity!Retry, Identity!NoRequest,
         IdentityBounds
<1>2. types' \subseteq Identity!Keys /\ types \subseteq types'
  BY <1>1, RemembersKeys DEF IdentityInv, Identity!Retry, Identity!Begin
<1>3. /\ identityHeld' = identityHeld /\ identityRequest' = identityRequest
      /\ session' = session /\ last' = last
      /\ \/ /\ identityHeld /\ last.host = identityRequest.host
            /\ identityPhase' = "dial" /\ via' = "protected" /\ at' = last.address
         \/ identityPhase' = "resolve" /\ via' = "name" /\ at' = Identity!Nothing
  BY DEF Identity!Retry, Identity!Begin
<1>4. last.host = identityRequest.host => /\ last \in [host : Servers, address : ServerAddresses]
                                          /\ last # Identity!NoAddress
  BY <1>1 DEF IdentityInv, IdentityShapes, Identity!NoAddress, IdentityBounds
<1>5. IdentityShapes'
  BY <1>2, <1>3, <1>4 DEF IdentityInv, IdentityShapes, Identity!Retry
<1>6. Identity!expectedHostKey(identityRequest)' = Identity!expectedHostKey(identityRequest)
  BY <1>3 DEF Identity!expectedHostKey
<1>7. UnderWay'
  BY <1>1, <1>3, <1>4 DEF UnderWay
<1>8. Expects'
  BY <1>3, <1>6 DEF IdentityInv, Expects, Identity!Retry
<1>9. HeldIsKnown'
  BY <1>3 DEF IdentityInv, HeldIsKnown
<1>10. identityHeld => Identity!expectedHostKey(identityRequest) # Identity!Nothing
  BY DEF IdentityInv, HeldIsKnown, Identity!expectedHostKey
<1>11. DialsRemembered'
  BY <1>3, <1>6, <1>10 DEF DialsRemembered
<1>12. HaltedByKey'
  BY DEF IdentityInv, HaltedByKey, Identity!Retry
<1>13. NotStale' /\ TypesKnown' /\ Identity!CredentialsReachTheirServer'
  BY <1>2, <1>3 DEF IdentityInv, NotStale, TypesKnown, Identity!CredentialsReachTheirServer,
         Identity!Retry
<1>14. QED
  BY <1>5, <1>7, <1>8, <1>9, <1>11, <1>12, <1>13 DEF IdentityInv

(* What is kept where only the attempt moves on, to a phase that is not a dial. *)
LEMMA AttemptEnds ==
  ASSUME IdentityInv,
         \/ identityPhase' = "waiting" /\ identityPhase \in {"resolve", "dial", "up"}
         \/ identityPhase' = "idle",
         identityHeld' \in BOOLEAN, identityHeld' => identityHeld, via' = via, at' = at,
         UNCHANGED <<Identity!saved, Identity!memory, Identity!network, Identity!ghosts>>
  PROVE  IdentityInv'
<1> USE DEF Identity!saved, Identity!memory, Identity!network, Identity!ghosts
<1>1. IdentityShapes'
  BY DEF IdentityInv, IdentityShapes
<1>2. Identity!expectedHostKey(identityRequest)' = Identity!expectedHostKey(identityRequest)
  BY DEF Identity!expectedHostKey
<1>3. UnderWay' /\ DialsRemembered'
  BY DEF IdentityInv, UnderWay, DialsRemembered
<1>4. Expects'
  BY <1>2 DEF IdentityInv, Expects
<1>5. HeldIsKnown'
  BY DEF IdentityInv, HeldIsKnown
<1>6. NotStale' /\ TypesKnown' /\ Identity!CredentialsReachTheirServer'
  BY DEF IdentityInv, NotStale, TypesKnown, Identity!CredentialsReachTheirServer
<1>7. HaltedByKey'
  BY DEF IdentityInv, HaltedByKey
<1>8. QED
  BY <1>1, <1>3, <1>4, <1>5, <1>6, <1>7 DEF IdentityInv

LEMMA ResolveStep ==
  ASSUME IdentityBounds, IdentityInv, Identity!Resolve
  PROVE  IdentityInv'
<1>1. CASE ~answers /\ ~Identity!mayFallBack
  <2>1. /\ identityPhase' = "waiting" /\ identityPhase = "resolve" /\ via' = via /\ at' = at
        /\ UNCHANGED <<Identity!saved, Identity!memory, Identity!network, Identity!ghosts>>
    BY <1>1 DEF Identity!Resolve, Identity!failed
  <2>2. identityHeld' \in BOOLEAN /\ (identityHeld' => identityHeld)
    BY <1>1 DEF Identity!Resolve, Identity!failed, IdentityInv, IdentityShapes
  <2>3. QED
    BY <2>1, <2>2, AttemptEnds
<1>2. CASE answers \/ Identity!mayFallBack
  <2> USE DEF Identity!saved, Identity!memory, Identity!network, Identity!ghosts, Identity!counts
  <2>1. /\ identityPhase' = "dial" /\ identityHeld' = identityHeld
        /\ UNCHANGED <<Identity!saved, Identity!memory, Identity!network, Identity!ghosts>>
        /\ \/ at' = resolver[identityRequest.host] /\ via' = "name"
           \/ Identity!mayFallBack /\ via' = "cached" /\ at' = last.address
    BY <1>2 DEF Identity!Resolve, IdentityInv, UnderWay
  <2>2. identityPhase = "resolve" /\ identityRequest.host \in Servers
    BY DEF IdentityInv, UnderWay, Identity!Resolve
  <2>3. Identity!expectedHostKey(identityRequest)' = Identity!expectedHostKey(identityRequest)
    BY <2>1 DEF Identity!expectedHostKey
  <2>4. Identity!mayFallBack => /\ last.host = identityRequest.host
                               /\ Identity!expectedHostKey(identityRequest) # Identity!Nothing
                               /\ last.address \in ServerAddresses
    BY <2>2 DEF Identity!mayFallBack, IdentityInv, IdentityShapes, Identity!NoAddress,
           IdentityBounds
  <2>5. at' \in ServerAddresses
    BY <2>1, <2>2, <2>4 DEF IdentityInv, IdentityShapes
  <2>6. IdentityShapes'
    BY <2>1, <2>5 DEF IdentityInv, IdentityShapes
  <2>7. UnderWay' /\ Expects' /\ HeldIsKnown'
    BY <2>1, <2>2, <2>3, <2>5 DEF IdentityInv, UnderWay, Expects, HeldIsKnown
  <2>8. DialsRemembered'
    BY <2>1, <2>3, <2>4 DEF DialsRemembered
  <2>9. NotStale' /\ TypesKnown' /\ Identity!CredentialsReachTheirServer' /\ HaltedByKey'
    BY <2>1, <2>2 DEF IdentityInv, NotStale, TypesKnown,
           Identity!CredentialsReachTheirServer, HaltedByKey
  <2>10. QED
    BY <2>6, <2>7, <2>8, <2>9 DEF IdentityInv
<1>3. QED
  BY <1>1, <1>2

LEMMA EndsStep ==
  ASSUME IdentityInv, Identity!Unreachable \/ Identity!MismatchIsDodged \/ Identity!Disconnect
  PROVE  IdentityInv'
<1>1. /\ \/ identityPhase' = "waiting" /\ identityPhase \in {"resolve", "dial", "up"}
         \/ identityPhase' = "idle"
      /\ via' = via /\ at' = at
      /\ UNCHANGED <<Identity!saved, Identity!memory, Identity!network, Identity!ghosts>>
  BY DEF Identity!Unreachable, Identity!MismatchIsDodged, Identity!Mismatch,
         Identity!Disconnect, Identity!failed
<1>2. identityHeld' \in BOOLEAN /\ (identityHeld' => identityHeld)
  BY DEF Identity!Unreachable, Identity!MismatchIsDodged, Identity!Disconnect,
         Identity!failed, IdentityInv, IdentityShapes
<1>3. QED
  BY <1>1, <1>2, AttemptEnds

LEMMA DropStep ==
  ASSUME IdentityInv, Identity!Drop
  PROVE  IdentityInv'
<1>1. /\ identityPhase' = "waiting" /\ identityPhase = "up"
      /\ via' = via /\ at' = at /\ identityHeld' = identityHeld
      /\ UNCHANGED <<Identity!saved, Identity!memory, Identity!network, Identity!ghosts>>
  BY DEF Identity!Drop
<1>2. identityHeld' \in BOOLEAN /\ (identityHeld' => identityHeld)
  BY <1>1 DEF IdentityInv, IdentityShapes
<1>3. QED
  BY <1>1, <1>2, AttemptEnds

LEMMA HoldEndsStep ==
  ASSUME IdentityInv, Identity!HoldEnds
  PROVE  IdentityInv'
<1> USE DEF Identity!saved, Identity!memory, Identity!network, Identity!ghosts
<1>1. /\ identityHeld' = FALSE
      /\ UNCHANGED <<Identity!saved, Identity!memory, identityPhase, via, at, Identity!network,
                     Identity!ghosts>>
  BY DEF Identity!HoldEnds
<1>2. identityHeld' \in BOOLEAN
  BY <1>1
<1>3. IdentityShapes'
  BY <1>1, <1>2 DEF IdentityInv, IdentityShapes
<1>4. Identity!expectedHostKey(identityRequest)' = Identity!expectedHostKey(identityRequest)
  BY <1>1 DEF Identity!expectedHostKey
<1>5. UnderWay' /\ Expects' /\ HeldIsKnown' /\ DialsRemembered'
  BY <1>1, <1>4 DEF IdentityInv, UnderWay, Expects, HeldIsKnown, DialsRemembered
<1>6. NotStale' /\ TypesKnown' /\ Identity!CredentialsReachTheirServer' /\ HaltedByKey'
  BY <1>1 DEF IdentityInv, NotStale, TypesKnown, Identity!CredentialsReachTheirServer,
         HaltedByKey
<1>7. QED
  BY <1>3, <1>5, <1>6 DEF IdentityInv

(* At a remembered address the session forgets it; at the name it halts. *)
LEMMA MismatchStep ==
  ASSUME IdentityBounds, IdentityInv, Identity!MismatchIsFinal
  PROVE  IdentityInv'
<1> USE DEF Identity!saved, Identity!network, Identity!MismatchIsFinal, Identity!Mismatch
<1>1. /\ identityPhase = "dial" /\ at \in ServerAddresses
      /\ identityHeld' \in BOOLEAN /\ (identityHeld' => identityHeld)
      /\ via' = via /\ at' = at
  BY DEF Identity!mismatch, Identity!haltReconnect, Identity!failed, IdentityInv,
         IdentityShapes, UnderWay
<1>2. \/ /\ via = "name" /\ identityPhase' = "halted" /\ halt' = "key"
         /\ last' = last /\ stale' = stale
      \/ /\ via # "name" /\ identityPhase' = "waiting" /\ halt' = halt
         /\ last' = Identity!NoAddress /\ stale' = stale \cup {at}
  BY DEF Identity!mismatch, Identity!haltReconnect, Identity!failed
<1>3. IdentityShapes'
  BY <1>1, <1>2 DEF IdentityInv, IdentityShapes
<1>4. Identity!expectedHostKey(identityRequest)' = Identity!expectedHostKey(identityRequest)
  BY DEF Identity!expectedHostKey
<1>5. UnderWay' /\ DialsRemembered'
  BY <1>1, <1>2 DEF IdentityInv, UnderWay, DialsRemembered
<1>6. Expects'
  BY <1>1, <1>2, <1>4 DEF IdentityInv, Expects
<1>7. HeldIsKnown'
  BY <1>1 DEF IdentityInv, HeldIsKnown
<1>8. NotStale'
  BY <1>2 DEF IdentityInv, NotStale
<1>9. HaltedByKey'
  BY <1>1, <1>2 DEF IdentityInv, HaltedByKey
<1>10. TypesKnown' /\ Identity!CredentialsReachTheirServer'
  BY DEF IdentityInv, TypesKnown, Identity!CredentialsReachTheirServer
<1>11. QED
  BY <1>3, <1>5, <1>6, <1>7, <1>8, <1>9, <1>10 DEF IdentityInv

(* Credentials are sent to the key the session owes, or by name while it owes none. *)
LEMMA SendsToOwed ==
  ASSUME IdentityBounds, IdentityInv, Identity!Authenticates
  PROVE  Identity!CredentialsReachTheirServer'
<1>1. identityPhase = "dial" /\ Identity!expectedHostKey(identityRequest) = due
  BY DEF IdentityInv, Expects, Identity!Authenticates
<1>2. due \in {Identity!Nothing, Identity!Presented}
  BY <1>1 DEF Identity!Authenticates
<1>3. due = Identity!Nothing => via = "name"
  BY <1>1 DEF IdentityInv, DialsRemembered
<1>4. identitySent' = [key |-> Identity!Presented, due |-> due, via |-> via]
  BY DEF Identity!Authenticates
<1>5. QED
  BY <1>2, <1>3, <1>4 DEF Identity!CredentialsReachTheirServer

LEMMA RejectedStep ==
  ASSUME IdentityBounds, IdentityInv, Identity!Rejected
  PROVE  IdentityInv'
<1> USE DEF Identity!saved, Identity!memory, Identity!network, Identity!Rejected
<1>1. Identity!CredentialsReachTheirServer'
  BY SendsToOwed
<1>2. /\ identityPhase = "dial" /\ via' = via /\ at' = at
      /\ identityHeld' \in BOOLEAN /\ (identityHeld' => identityHeld)
      /\ \/ identityPhase' = "waiting" /\ halt' = halt
         \/ identityPhase' = "halted" /\ halt' = "credentials"
  BY DEF Identity!Authenticates, Identity!haltReconnect, Identity!failed, IdentityInv,
         IdentityShapes
<1>3. IdentityShapes'
  BY <1>2 DEF IdentityInv, IdentityShapes
<1>4. Identity!expectedHostKey(identityRequest)' = Identity!expectedHostKey(identityRequest)
  BY DEF Identity!expectedHostKey
<1>5. UnderWay' /\ Expects' /\ DialsRemembered'
  BY <1>2, <1>4 DEF IdentityInv, UnderWay, Expects, DialsRemembered
<1>6. HeldIsKnown'
  BY <1>2 DEF IdentityInv, HeldIsKnown
<1>7. HaltedByKey'
  BY <1>2 DEF IdentityInv, HaltedByKey
<1>8. NotStale' /\ TypesKnown'
  BY DEF IdentityInv, NotStale, TypesKnown
<1>9. QED
  BY <1>1, <1>3, <1>5, <1>6, <1>7, <1>8 DEF IdentityInv

(* The session that is up owes the key it has verified from now on. *)
LEMMA AcceptedStep ==
  ASSUME IdentityBounds, IdentityInv, Identity!Accepted
  PROVE  IdentityInv'
<1> USE DEF Identity!network
<1>1. Identity!CredentialsReachTheirServer'
  BY SendsToOwed DEF Identity!Accepted
<1>2. /\ identityPhase = "dial" /\ identityRequest.host \in Servers
      /\ at \in ServerAddresses /\ identityOwner[at] # Identity!Nothing
      /\ Identity!expectedHostKey(identityRequest) \in {Identity!Nothing, Identity!Presented}
  BY DEF Identity!Accepted, Identity!Authenticates, IdentityInv, UnderWay
<1>3. Identity!Presented \in Identity!Keys /\ Identity!Presented # Identity!Nothing
  BY <1>2, PresentsKey DEF IdentityInv
<1>4. /\ Identity!sessionHeld \in [host : Servers, key : Identity!Keys]
      /\ Identity!sessionHeld.host = identityRequest.host
      /\ Identity!sessionHeld.key = Identity!Presented
  BY <1>2, <1>3 DEF Identity!sessionHeld
<1>5. identityHeld' \in BOOLEAN
  BY DEF Identity!Accepted, IdentityInv, IdentityShapes
<1>6. IdentityShapes'
  BY <1>2, <1>3, <1>4, <1>5 DEF IdentityInv, IdentityShapes, Identity!Accepted
<1>7. /\ session' = Identity!sessionHeld /\ identityRequest' = identityRequest
      /\ due' = Identity!Presented /\ identityPhase' = "up"
  BY DEF Identity!Accepted
<1>8. Identity!expectedHostKey(identityRequest)' = Identity!Presented
  BY <1>2, <1>3, <1>4, <1>7 DEF Identity!expectedHostKey
<1>9. Expects'
  BY <1>7, <1>8 DEF Expects
<1>10. UnderWay' /\ HeldIsKnown' /\ DialsRemembered'
  BY <1>2, <1>3, <1>4, <1>7 DEF UnderWay, HeldIsKnown, DialsRemembered
<1>11. NotStale'
  BY DEF NotStale, Identity!Accepted
<1>12. HaltedByKey'
  BY <1>2 DEF IdentityInv, HaltedByKey, Identity!Accepted
<1>13. TypesKnown'
  BY DEF IdentityInv, TypesKnown, Identity!Accepted
<1>14. QED
  BY <1>1, <1>6, <1>9, <1>10, <1>11, <1>12, <1>13 DEF IdentityInv

(* What main saves is a key or nothing. *)
LEMMA SavesKey ==
  ASSUME IdentityShapes, asked # Identity!NoSession,
         NEW s \in SavedServers
  PROVE  Identity!trusted(s) \in SavedServers
<1>1. asked.key \in Identity!Keys
  BY DEF IdentityShapes
<1>2. QED
  BY <1>1 DEF Identity!trusted

(* What main saves and the network does change nothing of the session. *)
LEMMA SessionKept ==
  ASSUME IdentityInv, IdentityShapes',
         UNCHANGED <<Identity!memory, Identity!attempt, Identity!ghosts>>
  PROVE  IdentityInv'
<1> USE DEF Identity!memory, Identity!attempt, Identity!ghosts
<1>1. Identity!expectedHostKey(identityRequest)' = Identity!expectedHostKey(identityRequest)
  BY DEF Identity!expectedHostKey
<1>2. UnderWay' /\ Expects' /\ HeldIsKnown' /\ DialsRemembered'
  BY <1>1 DEF IdentityInv, UnderWay, Expects, HeldIsKnown, DialsRemembered
<1>3. NotStale' /\ TypesKnown' /\ Identity!CredentialsReachTheirServer' /\ HaltedByKey'
  BY DEF IdentityInv, NotStale, TypesKnown, Identity!CredentialsReachTheirServer, HaltedByKey
<1>4. QED
  BY <1>2, <1>3 DEF IdentityInv

LEMMA TrustHostKeyStep ==
  ASSUME IdentityInv, Identity!TrustHostKey
  PROVE  IdentityInv'
<1>1. /\ UNCHANGED <<Identity!memory, Identity!attempt, Identity!network, Identity!ghosts>>
      /\ asked' = Identity!NoSession /\ asked # Identity!NoSession
  BY DEF Identity!TrustHostKey
<1>2. store' = store \/ store' = [store EXCEPT ![asked.host] = Identity!trusted(@)]
  BY DEF Identity!TrustHostKey
<1>3. asked.host \in Servers
  BY <1>1 DEF IdentityInv, IdentityShapes
<1>4. Identity!trusted(store[asked.host]) \in SavedServers
  BY <1>1, <1>3, SavesKey DEF IdentityInv, IdentityShapes
<1>5. store' \in [Servers -> SavedServers]
  BY <1>2, <1>3, <1>4 DEF IdentityInv, IdentityShapes
<1>6. IdentityShapes'
  BY <1>1, <1>5 DEF IdentityInv, IdentityShapes, Identity!memory, Identity!attempt,
         Identity!network, Identity!ghosts
<1>7. QED
  BY <1>1, <1>6, SessionKept

LEMMA EditStep ==
  ASSUME IdentityInv, NEW h \in Servers, Identity!Edit(h)
  PROVE  IdentityInv'
<1>1. UNCHANGED <<asked, Identity!memory, Identity!attempt, Identity!network, Identity!ghosts>>
  BY DEF Identity!Edit
<1>2. PICK k \in {h, "renewed", Identity!Nothing} :
        store' = [store EXCEPT ![h] = Identity!kept(@, k)]
  BY DEF Identity!Edit
<1>3. Identity!kept(store[h], k) \in SavedServers
  <2>1. store[h] \in SavedServers
    BY DEF IdentityInv, IdentityShapes
  <2>2. k \in Identity!Keys \cup {Identity!Nothing}
    BY DEF Identity!Keys
  <2>3. (/\ k # Identity!Nothing
         /\ (store[h].trusted = k \/ (store[h].pin = k /\ store[h].typed)))
        \in BOOLEAN
    BY Zenon
  <2>4. QED
    BY <2>1, <2>2, <2>3 DEF Identity!kept
<1>4. IdentityShapes'
  BY <1>1, <1>2, <1>3 DEF IdentityInv, IdentityShapes, Identity!memory, Identity!attempt,
         Identity!network, Identity!ghosts
<1>5. QED
  BY <1>1, <1>4, SessionKept

LEMMA MovesStep ==
  ASSUME IdentityInv, Identity!Moves
  PROVE  IdentityInv'
<1>1. UNCHANGED <<Identity!saved, Identity!memory, Identity!attempt, Identity!ghosts>>
  BY DEF Identity!Moves
<1>2. answers' \in BOOLEAN
  BY DEF Identity!Moves, IdentityInv, IdentityShapes
<1>3. resolver' \in [Servers -> ServerAddresses]
  BY DEF Identity!Moves, IdentityInv, IdentityShapes
<1>4. identityOwner' \in [ServerAddresses -> Servers \cup {"stranger", Identity!Nothing}]
  BY DEF Identity!Moves, IdentityInv, IdentityShapes
<1>5. key' \in [Servers -> Identity!Keys]
  BY DEF Identity!Moves, IdentityInv, IdentityShapes, Identity!Keys
<1>6. IdentityShapes'
  BY <1>1, <1>2, <1>3, <1>4, <1>5 DEF IdentityInv, IdentityShapes, Identity!saved,
         Identity!memory, Identity!attempt, Identity!ghosts
<1>7. QED
  BY <1>1, <1>6, SessionKept

(* A new run of the application remembers nothing and has nothing under way. *)
LEMMA RestartStep ==
  ASSUME IdentityInv, Identity!Restart
  PROVE  IdentityInv'
<1> USE DEF Identity!network, Identity!Restart
<1>1. IdentityShapes'
  BY DEF IdentityInv, IdentityShapes
<1>2. UnderWay' /\ Expects' /\ HeldIsKnown' /\ DialsRemembered'
  BY DEF UnderWay, Expects, HeldIsKnown, DialsRemembered
<1>3. NotStale' /\ TypesKnown' /\ Identity!CredentialsReachTheirServer' /\ HaltedByKey'
  BY DEF IdentityInv, NotStale, TypesKnown, Identity!CredentialsReachTheirServer, HaltedByKey
<1>4. QED
  BY <1>1, <1>2, <1>3 DEF IdentityInv

-----------------------------------------------------------------------------
(* The invariant *)

LEMMA IdentityInvStep ==
  ASSUME IdentityBounds, IdentityInv, [Identity!Next]_Identity!vars
  PROVE  IdentityInv'
<1>1. CASE UNCHANGED Identity!vars
  <2>1. IdentityShapes'
    BY <1>1 DEF Identity!vars, Identity!saved, Identity!memory, Identity!attempt,
           Identity!network, Identity!ghosts, Identity!counts, IdentityInv, IdentityShapes
  <2>2. QED
    BY <1>1, <2>1, SessionKept DEF Identity!vars
<1>2. CASE Identity!Next
  BY <1>2, ConnectStep, EditStep, RetryStep, ResolveStep, EndsStep, MismatchStep, RejectedStep,
     AcceptedStep, DropStep, HoldEndsStep, TrustHostKeyStep, RestartStep, MovesStep
  DEF Identity!Next
<1>3. QED
  BY <1>1, <1>2

LEMMA IdentityInvHolds ==
  ASSUME IdentityBounds
  PROVE  Identity!Spec => []IdentityInv
<1>1. ASSUME Identity!Init PROVE IdentityInv
  <2>1. IdentityShapes
    <3>1. store \in [Servers -> SavedServers]
      <4>1. ASSUME NEW s \in [pin : Servers, trusted : {Identity!Nothing}, typed : {FALSE}]
            PROVE  s \in SavedServers
        <5>1. /\ s = [pin |-> s.pin, trusted |-> Identity!Nothing, typed |-> FALSE]
             /\ s.pin \in Identity!Keys
          BY DEF Identity!Keys
        <5>2. QED
          BY <5>1
      <4>2. store \in [Servers ->
               {[pin |-> Identity!Nothing, trusted |-> Identity!Nothing, typed |-> FALSE]}
                 \cup [pin : Servers, trusted : {Identity!Nothing}, typed : {FALSE}]]
        BY <1>1 DEF Identity!Init
      <4>3. [pin |-> Identity!Nothing, trusted |-> Identity!Nothing, typed |-> FALSE]
              \in SavedServers
        OBVIOUS
      <4>4. \A h \in Servers : store[h] \in SavedServers
        <5> HIDE DEF SavedServers
        <5>1. QED
          BY <4>1, <4>2, <4>3
      <4>5. QED
        <5> HIDE DEF SavedServers
        <5>1. store \in [Servers -> SavedServers]
          BY <4>2, <4>4
        <5>2. QED
          BY <5>1
    <3>2. key \in [Servers -> Identity!Keys]
      BY <1>1 DEF Identity!Init, Identity!Keys
    <3>3. identityOwner \in [ServerAddresses -> Servers \cup {"stranger", Identity!Nothing}]
      BY <1>1 DEF Identity!Init
    <3>4. QED
      BY <1>1, <3>1, <3>2, <3>3 DEF Identity!Init, IdentityShapes
  <2>2. UnderWay /\ Expects /\ HeldIsKnown /\ DialsRemembered /\ NotStale
    BY <1>1 DEF Identity!Init, UnderWay, Expects, HeldIsKnown, DialsRemembered, NotStale
  <2>3. HaltedByKey /\ TypesKnown /\ Identity!CredentialsReachTheirServer
    BY <1>1 DEF Identity!Init, HaltedByKey, TypesKnown,
           Identity!CredentialsReachTheirServer, Identity!Nothing
  <2>4. QED
    BY <2>1, <2>2, <2>3 DEF IdentityInv
<1>2. IdentityInv /\ [Identity!Next]_Identity!vars => IdentityInv'
  BY IdentityInvStep
<1>3. QED
  BY <1>1, <1>2, PTL DEF Identity!Spec

-----------------------------------------------------------------------------

(* The saved servers, what the bridge remembers of its session and what the network answers
   keep their shapes. *)
THEOREM IdentityTypes ==
  ASSUME IdentityBounds
  PROVE  Identity!Spec => []Identity!TypeOK
<1>1. IdentityInv => Identity!TypeOK
  BY DEF IdentityInv, IdentityShapes, Identity!TypeOK, Identity!NoSession, Identity!NoAddress
<1>2. QED
  BY <1>1, IdentityInvHolds, PTL

(* Credentials go to the key the session owes, or by name while it owes none; a remembered
   address found to be another server's is not dialled; only the name itself halts a session;
   and no mismatch with a key whose type this run knows is retried. *)
THEOREM ServerStaysItself ==
  ASSUME IdentityBounds
  PROVE  Identity!Spec => []Identity!ServerIsItself
<1>1. IdentityInv => Identity!CredentialsReachTheirServer /\ Identity!OnlyTheNameHalts
  BY DEF IdentityInv, Identity!OnlyTheNameHalts, HaltedByKey
<1>2. IdentityInv => Identity!StaleAddressIsForgotten
  <2> SUFFICES ASSUME IdentityInv, identityPhase = "dial", via # "name" PROVE at \notin stale
    BY DEF Identity!StaleAddressIsForgotten
  <2>1. last.host = identityRequest.host /\ at = last.address /\ identityRequest.host \in Servers
    BY DEF IdentityInv, DialsRemembered, UnderWay
  <2>2. last # Identity!NoAddress
    BY <2>1 DEF Identity!NoAddress, IdentityBounds
  <2>3. QED
    BY <2>1, <2>2 DEF IdentityInv, NotStale
<1>3. IdentityInv => Identity!ImpostorIsFinal
  BY DEF IdentityInv, TypesKnown, Identity!ImpostorIsFinal
<1>4. IdentityInv => Identity!ServerIsItself
  BY <1>1, <1>2, <1>3 DEF Identity!ServerIsItself
<1>5. QED
  BY <1>4, IdentityInvHolds, PTL

-----------------------------------------------------------------------------
(* What a wake does to the session *)

(* The last backoff step is at least the first, and the machine may sleep any number of
   times. *)
WakeBounds == BackoffSteps \in Nat \ {0} /\ NetworkChanges \in Nat

(* What TypeOK says, switch by switch *)
WakeShapes ==
  /\ want \in BOOLEAN /\ ticking \in BOOLEAN /\ late \in BOOLEAN /\ quick \in BOOLEAN
  /\ pending \in BOOLEAN /\ recent \in BOOLEAN /\ probing \in BOOLEAN /\ missed \in BOOLEAN
  /\ network \in BOOLEAN /\ signature \in BOOLEAN
  /\ wakePhase \in {"idle", "queued", "dial", "up", "teardown", "timer"}
  /\ step \in 0..BackoffSteps
  /\ world \in 0..NetworkChanges /\ base \in 0..NetworkChanges /\ heard \in 0..NetworkChanges
  /\ early \in Nat

(* Nothing is heard of, or dialled in, a world that is still to come. *)
PastIsPast == heard <= world /\ base <= world

(* What is wanted is under way, and only the session that is up is probed. *)
WantedIsUnderWay == (want => wakePhase # "idle") /\ (probing => wakePhase = "up")

(* A session that was up has started the backoff over. *)
UpStartsOver == wakePhase \in {"up", "teardown"} => step = 0

(* A wait was cut short in the half minute that remembers it. *)
CutIsRecent == early = 0 \/ (early = 1 /\ recent)

WakeInv ==
  /\ WakeShapes /\ PastIsPast /\ WantedIsUnderWay /\ UpStartsOver /\ CutIsRecent
  /\ Wake!WakeIsAnswered /\ Wake!WantedIsWatched

-----------------------------------------------------------------------------
(* Backoff steps stay within their table. *)
LEMMA StepIsBounded ==
  ASSUME WakeBounds, step \in 0..BackoffSteps
  PROVE  Wake!Min({step + 1, BackoffSteps}) \in 0..BackoffSteps /\ (step = 0 => Wake!Min({step + 1, BackoffSteps}) = 1)
<1>1. step + 1 <= BackoffSteps => Wake!Min({step + 1, BackoffSteps}) = step + 1
  BY DEF WakeBounds, Wake!Min
<1>2. BackoffSteps <= step + 1 => Wake!Min({step + 1, BackoffSteps}) = BackoffSteps
  BY DEF WakeBounds, Wake!Min
<1>3. QED
  BY <1>1, <1>2 DEF WakeBounds

(* The schedule that follows a failure, after an attempt or a session. *)
LEMMA ScheduleStep ==
  ASSUME WakeBounds, WakeInv, Wake!scheduleReconnect,
         wakePhase = "dial" \/ wakePhase = "teardown",
         UNCHANGED <<want, network, probing, world, base, heard, wakeConnects, wakeFaults>>
  PROVE  WakeInv'
<1> USE DEF Wake!scheduleReconnect
<1>1. Wake!cutShort \in BOOLEAN /\ (Wake!cutShort <=> (pending /\ ~recent))
  BY DEF Wake!cutShort, WakeInv, WakeShapes
<1>2. step' \in 0..BackoffSteps /\ (step = 0 /\ ~Wake!cutShort => step' = 1)
  BY StepIsBounded DEF WakeInv, WakeShapes, WakeBounds
<1>3. early' \in Nat /\ (early' = 0 \/ (early' = 1 /\ recent'))
  BY <1>1 DEF WakeInv, WakeShapes, CutIsRecent
<1>4. ticking' \in BOOLEAN /\ late' \in BOOLEAN /\ signature' \in BOOLEAN /\ ticking' = TRUE
  BY DEF Wake!started, WakeInv, WakeShapes
<1>5. quick' \in BOOLEAN /\ recent' \in BOOLEAN /\ pending' \in BOOLEAN /\ missed' \in BOOLEAN
  BY <1>1 DEF WakeInv, WakeShapes
<1>6. WakeShapes'
  BY <1>2, <1>3, <1>4, <1>5 DEF WakeInv, WakeShapes
<1>7. PastIsPast' /\ WantedIsUnderWay' /\ UpStartsOver'
  BY DEF WakeInv, PastIsPast, WantedIsUnderWay, UpStartsOver
<1>8. CutIsRecent' /\ Wake!WantedIsWatched'
  BY <1>3, <1>4 DEF CutIsRecent, Wake!WantedIsWatched
<1>9. Wake!WakeIsAnswered'
  <2> SUFFICES ASSUME want, heard > base PROVE quick' \/ missed' \/ step' = 1
    BY DEF Wake!WakeIsAnswered
  <2>1. CASE pending
    BY <1>1, <2>1
  <2>2. CASE ~pending
    <3>1. wakePhase = "teardown"
      BY <2>2 DEF WakeInv, Wake!WakeIsAnswered
    <3>2. QED
      BY <3>1, <2>2, <1>1, <1>2 DEF WakeInv, UpStartsOver
  <2>3. QED
    BY <2>1, <2>2
<1>10. QED
  BY <1>6, <1>7, <1>8, <1>9 DEF WakeInv

(* A wake is acted on where it finds the session. *)
LEMMA WakeStep ==
  ASSUME WakeBounds, WakeInv, Wake!wake,
         UNCHANGED <<want, wakePhase, network, world, base, wakeConnects>>,
         ticking' = ticking, late' \in BOOLEAN /\ signature' \in BOOLEAN
  PROVE  WakeInv'
<1>1. /\ heard' = world /\ step' \in 0..BackoffSteps
      /\ quick' \in BOOLEAN /\ pending' \in BOOLEAN /\ recent' \in BOOLEAN
      /\ probing' \in BOOLEAN /\ missed' \in BOOLEAN
  <2>1. heard' = world
    BY DEF Wake!wake
  <2>2. step' \in 0..BackoffSteps
    BY DEF Wake!wake, WakeInv, WakeShapes, Wake!waits, WakeBounds
  <2>3. quick' \in BOOLEAN
    BY DEF Wake!wake, WakeInv, WakeShapes, Wake!waits
  <2>4. pending' \in BOOLEAN
    BY DEF Wake!wake, WakeInv, WakeShapes, Wake!waits
  <2>5. recent' \in BOOLEAN
    BY DEF Wake!wake, WakeInv, WakeShapes, Wake!waits
  <2>6. probing' \in BOOLEAN
    BY DEF Wake!wake, WakeInv, WakeShapes, Wake!waits
  <2>7. missed' \in BOOLEAN
    BY DEF Wake!wake, WakeInv, WakeShapes, Wake!waits
  <2>8. QED
    BY <2>1, <2>2, <2>3, <2>4, <2>5, <2>6, <2>7
<1>2. early' \in Nat /\ (early' = 0 \/ (early' = 1 /\ recent'))
  BY DEF Wake!wake, WakeInv, WakeShapes, Wake!waits, CutIsRecent
<1>3. WakeShapes'
  BY <1>1, <1>2 DEF WakeInv, WakeShapes
<1>4. WantedIsUnderWay'
  BY DEF Wake!wake, WakeInv, WantedIsUnderWay, Wake!waits
<1>5. UpStartsOver'
  BY DEF Wake!wake, WakeInv, UpStartsOver, Wake!waits
<1>6. Wake!WakeIsAnswered'
  <2> SUFFICES ASSUME want
               PROVE  \/ wakePhase = "up" /\ probing'
                      \/ wakePhase = "timer" /\ (quick' \/ missed')
                      \/ wakePhase = "dial" /\ pending'
                      \/ wakePhase \in {"queued", "teardown"}
    BY DEF Wake!WakeIsAnswered
  <2>1. wakePhase \in {"queued", "dial", "up", "teardown", "timer"}
    BY DEF WakeInv, WakeShapes, WantedIsUnderWay
  <2>2. CASE wakePhase = "up"
    BY <2>2 DEF Wake!wake
  <2>3. CASE wakePhase = "timer"
    BY <2>3 DEF Wake!wake, WakeInv, WakeShapes
  <2>4. CASE wakePhase = "dial"
    BY <2>4 DEF Wake!wake
  <2>5. QED
    BY <2>1, <2>2, <2>3, <2>4
<1>7. PastIsPast' /\ CutIsRecent' /\ Wake!WantedIsWatched'
  BY <1>1, <1>2 DEF WakeInv, WakeShapes, PastIsPast, CutIsRecent, Wake!WantedIsWatched
<1>8. QED
  BY <1>3, <1>4, <1>5, <1>6, <1>7 DEF WakeInv

LEMMA DetectorTickStep ==
  ASSUME WakeBounds, WakeInv, Wake!Tick
  PROVE  WakeInv'
<1>1. /\ UNCHANGED <<want, wakePhase, network, world, base, wakeConnects>> /\ ticking' = ticking
      /\ late' \in BOOLEAN /\ signature' \in BOOLEAN
      /\ Wake!wake \/ UNCHANGED <<Wake!waits, probing, heard, early, missed>>
  BY DEF Wake!Tick, WakeInv, WakeShapes
<1>2. CASE Wake!wake
  BY <1>1, <1>2, WakeStep
<1>3. CASE UNCHANGED <<Wake!waits, probing, heard, early, missed>>
  <2> USE DEF Wake!waits
  <2>1. WakeShapes'
    BY <1>1, <1>3 DEF WakeInv, WakeShapes
  <2>2. PastIsPast' /\ WantedIsUnderWay' /\ UpStartsOver' /\ CutIsRecent' /\ Wake!WantedIsWatched'
    BY <1>1, <1>3 DEF WakeInv, PastIsPast, WantedIsUnderWay, UpStartsOver, CutIsRecent,
           Wake!WantedIsWatched
  <2>3. Wake!WakeIsAnswered'
    BY <1>1, <1>3 DEF WakeInv, Wake!WakeIsAnswered
  <2>4. QED
    BY <2>1, <2>2, <2>3 DEF WakeInv
<1>4. QED
  BY <1>1, <1>2, <1>3

LEMMA ResumeStep ==
  ASSUME WakeBounds, WakeInv, Wake!Resume
  PROVE  WakeInv'
BY WakeStep DEF Wake!Resume, Wake!detector, WakeInv, WakeShapes

(* The user connects, and a wait ends. *)
LEMMA StartsStep ==
  ASSUME WakeBounds, WakeInv, Wake!Connect \/ Wake!TimerFires
  PROVE  WakeInv'
<1>1. /\ wakePhase' = "queued" /\ quick' = FALSE /\ Wake!started
      /\ UNCHANGED <<network, recent, world, base, heard, early>>
  BY DEF Wake!Connect, Wake!TimerFires
<1>a. step' \in 0..BackoffSteps
  BY DEF Wake!Connect, Wake!TimerFires, WakeInv, WakeShapes, WakeBounds
<1>b. probing' = FALSE
  <2>1. CASE Wake!Connect
    BY <2>1 DEF Wake!Connect
  <2>2. CASE Wake!TimerFires
    BY <2>2 DEF Wake!TimerFires, WakeInv, WakeShapes, WantedIsUnderWay
  <2>3. QED
    BY <2>1, <2>2
<1>c. want' \in BOOLEAN /\ pending' \in BOOLEAN /\ missed' \in BOOLEAN
  <2>1. CASE Wake!Connect
    BY <2>1 DEF Wake!Connect
  <2>2. CASE Wake!TimerFires
    BY <2>2 DEF Wake!TimerFires, WakeInv, WakeShapes
  <2>3. QED
    BY <2>1, <2>2
<1>2. ticking' = TRUE /\ late' \in BOOLEAN /\ signature' \in BOOLEAN
  BY <1>1 DEF Wake!started, WakeInv, WakeShapes
<1>3. WakeShapes'
  BY <1>1, <1>a, <1>b, <1>c, <1>2 DEF WakeInv, WakeShapes
<1>4. /\ PastIsPast' /\ WantedIsUnderWay' /\ UpStartsOver' /\ CutIsRecent'
      /\ Wake!WantedIsWatched' /\ Wake!WakeIsAnswered'
  BY <1>1, <1>b, <1>2 DEF WakeInv, PastIsPast, WantedIsUnderWay, UpStartsOver, CutIsRecent,
         Wake!WantedIsWatched, Wake!WakeIsAnswered
<1>5. QED
  BY <1>3, <1>4 DEF WakeInv

(* An attempt begins and connects; the session is lost or answers its probe. *)
LEMMA SessionStep ==
  ASSUME WakeBounds, WakeInv, Wake!Dial \/ Wake!Established \/ Wake!Lost \/ Wake!ProbeAnswered
  PROVE  WakeInv'
<1> USE DEF Wake!detector, Wake!waits
<1>1. /\ UNCHANGED <<want, ticking, late, signature, network, quick, recent, world, heard, early>>
      /\ wakePhase' \in {"dial", "up", "teardown"} \/ wakePhase' = wakePhase
      /\ base' \in {base, world}
  BY DEF Wake!Dial, Wake!Established, Wake!Lost, Wake!ProbeAnswered
<1>a. step' \in 0..BackoffSteps
  BY DEF Wake!Dial, Wake!Established, Wake!Lost, Wake!ProbeAnswered, WakeInv, WakeShapes, WakeBounds
<1>b. probing' \in BOOLEAN
  BY DEF Wake!Dial, Wake!Established, Wake!Lost, Wake!ProbeAnswered, WakeInv, WakeShapes
<1>c. pending' \in BOOLEAN
  BY DEF Wake!Dial, Wake!Established, Wake!Lost, Wake!ProbeAnswered, WakeInv, WakeShapes
<1>d. missed' \in BOOLEAN
  <2>1. CASE Wake!Established
    BY <2>1 DEF Wake!Established
  <2>2. CASE Wake!Dial \/ Wake!Lost \/ Wake!ProbeAnswered
    BY <2>2 DEF Wake!Dial, Wake!Lost, Wake!ProbeAnswered, WakeInv, WakeShapes
  <2>3. QED
    BY <2>1, <2>2
<1>2. WakeShapes'
  BY <1>1, <1>a, <1>b, <1>c, <1>d DEF WakeInv, WakeShapes
<1>3. PastIsPast' /\ CutIsRecent' /\ Wake!WantedIsWatched'
  BY <1>1, <1>2 DEF WakeInv, WakeShapes, PastIsPast, CutIsRecent, Wake!WantedIsWatched
<1>4. WantedIsUnderWay'
  BY DEF Wake!Dial, Wake!Established, Wake!Lost, Wake!ProbeAnswered, WakeInv, WantedIsUnderWay
<1>5. UpStartsOver'
  BY DEF Wake!Dial, Wake!Established, Wake!Lost, Wake!ProbeAnswered, WakeInv, UpStartsOver
<1>6. Wake!WakeIsAnswered'
  <2>1. CASE Wake!Dial
    BY <2>1 DEF Wake!Dial, WakeInv, WakeShapes, PastIsPast, Wake!WakeIsAnswered
  <2>2. CASE Wake!Established
    BY <2>2 DEF Wake!Established, Wake!WakeIsAnswered
  <2>3. CASE Wake!Lost
    BY <2>3 DEF Wake!Lost, Wake!WakeIsAnswered
  <2>4. CASE Wake!ProbeAnswered
    BY <2>4 DEF Wake!ProbeAnswered, WakeInv, WakeShapes, PastIsPast, Wake!WakeIsAnswered
  <2>5. QED
    BY <2>1, <2>2, <2>3, <2>4
<1>7. QED
  BY <1>2, <1>3, <1>4, <1>5, <1>6 DEF WakeInv

(* The user ends the session, an attempt fails for good. *)
LEMMA WantEndsStep ==
  ASSUME WakeInv, Wake!Disconnect \/ Wake!Halts
  PROVE  WakeInv'
<1>1. Wake!ends /\ pending' \in BOOLEAN
  BY DEF Wake!Disconnect, Wake!Halts, WakeInv, WakeShapes
<1>2. WakeShapes'
  BY <1>1 DEF Wake!ends, Wake!stopped, WakeInv, WakeShapes
<1>3. /\ PastIsPast' /\ WantedIsUnderWay' /\ UpStartsOver' /\ CutIsRecent'
      /\ Wake!WantedIsWatched' /\ Wake!WakeIsAnswered'
  BY <1>1 DEF Wake!ends, WakeInv, PastIsPast, WantedIsUnderWay, UpStartsOver, CutIsRecent,
         Wake!WantedIsWatched, Wake!WakeIsAnswered
<1>4. QED
  BY <1>2, <1>3 DEF WakeInv

(* Time passes, and the machine does what it likes. *)
LEMMA WorldStep ==
  ASSUME WakeBounds, WakeInv, Wake!WindowLapses \/ Wake!Sleeps \/ Wake!Roams
  PROVE  WakeInv'
<1> USE DEF Wake!detector, Wake!waits
<1>1. /\ UNCHANGED <<want, wakePhase, ticking, signature, step, quick, pending, probing, base, heard, missed>>
      /\ \/ recent' = recent /\ early' = early
         \/ recent' = FALSE /\ early' = 0
  BY DEF Wake!WindowLapses, Wake!Sleeps, Wake!Roams
<1>a. world' \in 0..NetworkChanges /\ world <= world'
  BY DEF Wake!WindowLapses, Wake!Sleeps, Wake!Roams, WakeInv, WakeShapes, WakeBounds
<1>b. late' \in BOOLEAN
  BY DEF Wake!WindowLapses, Wake!Sleeps, Wake!Roams, WakeInv, WakeShapes
<1>c. network' \in BOOLEAN
  BY DEF Wake!WindowLapses, Wake!Sleeps, Wake!Roams, WakeInv, WakeShapes
<1>d. recent' \in BOOLEAN
  BY DEF Wake!WindowLapses, Wake!Sleeps, Wake!Roams, WakeInv, WakeShapes
<1>e. early' \in Nat
  BY <1>1 DEF WakeInv, WakeShapes
<1>2. WakeShapes'
  BY <1>1, <1>a, <1>b, <1>c, <1>d, <1>e DEF WakeInv, WakeShapes
<1>3. PastIsPast'
  BY <1>1, <1>a DEF WakeInv, WakeShapes, PastIsPast
<1>4. /\ WantedIsUnderWay' /\ UpStartsOver' /\ CutIsRecent' /\ Wake!WantedIsWatched'
      /\ Wake!WakeIsAnswered'
  BY <1>1 DEF WakeInv, WantedIsUnderWay, UpStartsOver, CutIsRecent, Wake!WantedIsWatched,
         Wake!WakeIsAnswered
<1>5. QED
  BY <1>2, <1>3, <1>4 DEF WakeInv

LEMMA WakeInvStep ==
  ASSUME WakeBounds, WakeInv, [Wake!Next]_Wake!vars
  PROVE  WakeInv'
<1>1. CASE UNCHANGED Wake!vars
  <2> USE DEF Wake!vars, Wake!detector, Wake!waits
  <2>a. /\ want' \in BOOLEAN /\ ticking' \in BOOLEAN /\ late' \in BOOLEAN /\ quick' \in BOOLEAN
        /\ pending' \in BOOLEAN /\ recent' \in BOOLEAN /\ probing' \in BOOLEAN
        /\ missed' \in BOOLEAN /\ network' \in BOOLEAN /\ signature' \in BOOLEAN
    BY <1>1 DEF WakeInv, WakeShapes
  <2>b. UNCHANGED <<wakePhase, step, world, base, heard, early>>
    BY <1>1
  <2>1. WakeShapes'
    BY <2>a, <2>b DEF WakeInv, WakeShapes
  <2>2. /\ PastIsPast' /\ WantedIsUnderWay' /\ UpStartsOver' /\ CutIsRecent'
        /\ Wake!WantedIsWatched' /\ Wake!WakeIsAnswered'
    BY <1>1 DEF WakeInv, PastIsPast, WantedIsUnderWay, UpStartsOver, CutIsRecent,
           Wake!WantedIsWatched, Wake!WakeIsAnswered
  <2>3. QED
    BY <2>1, <2>2 DEF WakeInv
<1>2. CASE Wake!AttemptFails \/ Wake!TeardownEnds
  BY <1>2, ScheduleStep DEF Wake!AttemptFails, Wake!TeardownEnds
<1>3. CASE Wake!Next
  BY <1>2, <1>3, StartsStep, SessionStep, WantEndsStep, DetectorTickStep, ResumeStep, WorldStep DEF
         Wake!Next
<1>4. QED
  BY <1>1, <1>3

LEMMA WakeInvHolds ==
  ASSUME WakeBounds
  PROVE  Wake!Spec => []WakeInv
<1>1. ASSUME Wake!Init PROVE WakeInv
  <2>a. /\ want \in BOOLEAN /\ ticking \in BOOLEAN /\ late \in BOOLEAN /\ quick \in BOOLEAN
        /\ pending \in BOOLEAN /\ recent \in BOOLEAN /\ probing \in BOOLEAN
        /\ missed \in BOOLEAN /\ network \in BOOLEAN /\ signature \in BOOLEAN
    BY <1>1 DEF Wake!Init
  <2>b. /\ wakePhase = "idle" /\ step \in 0..BackoffSteps /\ world \in 0..NetworkChanges
        /\ base \in 0..NetworkChanges /\ heard \in 0..NetworkChanges /\ early \in Nat
    BY <1>1 DEF Wake!Init, WakeBounds
  <2>1. WakeShapes
    BY <2>a, <2>b DEF WakeShapes
  <2>2. PastIsPast /\ WantedIsUnderWay /\ UpStartsOver /\ CutIsRecent
    BY <1>1 DEF Wake!Init, PastIsPast, WantedIsUnderWay, UpStartsOver, CutIsRecent
  <2>3. Wake!WantedIsWatched /\ Wake!WakeIsAnswered
    BY <1>1 DEF Wake!Init, Wake!WantedIsWatched, Wake!WakeIsAnswered
  <2>4. QED
    BY <2>1, <2>2, <2>3 DEF WakeInv
<1>2. WakeInv /\ [Wake!Next]_Wake!vars => WakeInv'
  BY WakeInvStep
<1>3. QED
  BY <1>1, <1>2, PTL DEF Wake!Spec

(* The detector, the session and its waits keep their kinds; a wake that was heard has the
   session probed, a wait cut short or an attempt under way; a wanted session is watched; and
   wakes in a burst cut at most one wait short. *)
THEOREM WakesStayServed ==
  ASSUME WakeBounds
  PROVE  Wake!Spec => [](Wake!TypeOK /\ Wake!WakesAreServed)
<1>1. WakeInv => Wake!TypeOK /\ Wake!WakesAreServed
  BY DEF WakeInv, WakeShapes, Wake!TypeOK, CutIsRecent, Wake!WakesAreServed,
         Wake!EarlyAttemptsAreSpaced
<1>2. QED
  BY <1>1, WakeInvHolds, PTL

-----------------------------------------------------------------------------
(* What holds of every behaviour *)

(* Whichever way a session reconnects (by name, by the address kept outside the tunnel, by a
   cached one), its credentials reach the server it began with, a remembered address that is
   somebody else's is forgotten, and only the name halts a session, for any number of saved
   servers, moves of the network, connects, restarts and failed saves. *)
THEOREM ServerIsAlwaysItself ==
  ASSUME IdentityBounds
  PROVE  Spec => []ServerIsItself
<1>1. Identity!Spec => []Identity!TypeOK
  BY IdentityTypes
<1>2. Identity!Spec => []Identity!ServerIsItself
  BY ServerStaysItself
<1>3. [Next]_vars => (which = "identity" <=> (which = "identity")')
  BY ChosenOnce
<1>4. QED
  BY <1>1, <1>2, <1>3, IdentityIsChosen, PTL DEF Spec, Identity!Spec, ServerIsItself

(* A wake or roaming that the detector hears is acted on wherever it finds the session, someone
   watches for the next one, and a burst cuts one wait at most, for any number of sleeps and
   changes of network, backoff steps, connects and failed reads of the interfaces. *)
THEOREM WakesAreAlwaysServed ==
  ASSUME WakeBounds
  PROVE  Spec => []WakesAreServed
<1>1. Wake!Spec => [](Wake!TypeOK /\ Wake!WakesAreServed)
  BY WakesStayServed
<1>2. [Next]_vars => (which = "wake" <=> (which = "wake")')
  BY ChosenOnce
<1>3. QED
  BY <1>1, <1>2, WakeIsChosen, PTL DEF Spec, Wake!Spec, WakesAreServed
=============================================================================
