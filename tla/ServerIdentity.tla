--------------------------- MODULE ServerIdentity ---------------------------
(***************************************************************************)
(* Which server the SSH bridge sends credentials to: the key it expects     *)
(* (pinned, trusted on first use, or verified earlier in this session), the *)
(* addresses it remembers, and what a key that does not match means at each *)
(* of them.  The connection itself is SshConnect; when retries happen and   *)
(* how many rejections they survive is LiveSshService.                      *)
(***************************************************************************)
EXTENDS Naturals

CONSTANTS
    Host,         \* the saved servers, by host name
    Address,
    MaxMoves,     \* changes of the network and of what the user saved
    MaxConnects,  \* times the user connects
    MaxRestarts,  \* restarts of the application
    MaxFaults     \* failed saves

Nothing == "none"
Keys == Host \cup {"renewed", "stranger"}
NoRequest == [host |-> Nothing, pin |-> Nothing, trusted |-> Nothing, typed |-> FALSE]
NoSession == [host |-> Nothing, key |-> Nothing]
NoAddress == [host |-> Nothing, address |-> Nothing]
NoSending == [key |-> Nothing, due |-> Nothing, via |-> Nothing]

VARIABLES
    store,    \* the saved servers: pin, trusted key, pinnedHostKeyType known
    asked,    \* a Connected status whose key main is saving, or NoSession
    request,  \* lastRequest's server, as it was saved at the user's Connect
    session,  \* sessionHostKey
    last,     \* lastServerAddress
    types,    \* keys of hostKeyTypes
    held,     \* the adapter is up and would be held across a reconnect
    phase,    \* of the bridge
    via, at,  \* the attempt's target: by name, protected or cached address
    resolver, \* the address of each name
    answers,  \* the resolver answers at all
    owner,    \* who is at each address
    key,      \* the key each server presents
    due,      \* ghost: the key this session owes, once one is known
    sent,     \* ghost: the last credentials that were sent
    halt,     \* ghost: why reconnecting was halted
    proved,   \* ghost: keys of whose type this run knew before
    stale,    \* ghost: remembered addresses found to be another server's
    moves, connects, restarts, faults

saved == <<store, asked>>
memory == <<request, session, last, types>>
attempt == <<held, phase, via, at>>
network == <<resolver, answers, owner, key>>
ghosts == <<due, sent, halt, proved, stale>>
counts == <<moves, connects, restarts, faults>>
vars == <<saved, memory, attempt, network, ghosts, counts>>

\* Every variable holds a value of its kind.
TypeOK ==
    /\ store \in [Host -> [pin : Keys \cup {Nothing}, trusted : Keys \cup {Nothing},
                           typed : BOOLEAN]]
    /\ session.host \in Host \cup {Nothing} /\ last.address \in Address \cup {Nothing}
    /\ types \subseteq Keys /\ stale \subseteq Address
    /\ phase \in {"idle", "resolve", "dial", "up", "waiting", "halted"}
    /\ via \in {"name", "protected", "cached"} /\ at \in Address \cup {Nothing}
    /\ resolver \in [Host -> Address]
    /\ owner \in [Address -> Host \cup {"stranger", Nothing}]
    /\ key \in [Host -> Keys] /\ {held, answers} \subseteq BOOLEAN

\* The key this server must present, in order of authority.
expectedHostKey(r) ==
    IF r.pin # Nothing THEN r.pin
    ELSE IF r.trusted # Nothing THEN r.trusted
    ELSE IF session.host = r.host THEN session.key
    ELSE Nothing

\* The key type connectClient knows before it dials: saved with a trusted key,
\* or with a pin a session verified.
rememberHostKeyType(r) ==
    types \cup (IF r.pin # Nothing THEN (IF r.typed THEN {r.pin} ELSE {})
                ELSE {r.trusted} \ {Nothing})

\* connectInternal up to the dial.  A held adapter's own server address is the
\* only way out, so it is dialled without a lookup.
Begin(r, holdTun) ==
    /\ types' = rememberHostKeyType(r)
    /\ held' = holdTun
    /\ IF holdTun /\ last'.host = r.host
       THEN phase' = "dial" /\ via' = "protected" /\ at' = last'.address
       ELSE phase' = "resolve" /\ via' = "name" /\ at' = Nothing

\* A user's Connect is a new session: its key is learned or read anew.
Connect(h) ==
    /\ connects < MaxConnects
    /\ connects' = connects + 1
    /\ request' = [host |-> h, pin |-> store[h].pin, trusted |-> store[h].trusted,
                   typed |-> store[h].typed]
    /\ session' = NoSession
    /\ last' = IF last.host = h THEN last ELSE NoAddress
    /\ Begin(request', FALSE)
    /\ due' = IF store[h].pin # Nothing THEN store[h].pin ELSE store[h].trusted
    /\ halt' = Nothing
    /\ proved' = proved \cup rememberHostKeyType(request')
    /\ UNCHANGED <<saved, network, sent, stale, moves, restarts, faults>>

Retry ==
    /\ phase = "waiting"
    /\ UNCHANGED <<request, session, last>>
    /\ Begin(request, held)
    /\ UNCHANGED <<saved, network, ghosts, counts>>

\* A retryable failure.  An adapter held for the protected address comes down.
failed ==
    /\ phase' = "waiting"
    /\ held' = (held /\ via # "protected")
    /\ UNCHANGED <<via, at>>

\* Mutant: the cached address is dialled whether or not a key is known.
fallbackAlways == last.host = request.host
mayFallBack == last.host = request.host /\ expectedHostKey(request) # Nothing

\* The lookup of SshLiveClient.connect, and openSshSession's second dial when
\* it fails.
Resolve ==
    /\ phase = "resolve"
    /\ \/ answers /\ phase' = "dial" /\ at' = resolver[request.host] /\ UNCHANGED <<held, via>>
       \/ ~answers /\ mayFallBack
          /\ phase' = "dial" /\ via' = "cached" /\ at' = last.address /\ UNCHANGED held
       \/ ~answers /\ ~mayFallBack /\ failed
    /\ UNCHANGED <<saved, memory, network, ghosts, counts>>

Presented == IF owner[at] \in Host THEN key[owner[at]] ELSE owner[at]

Unreachable ==
    /\ phase = "dial" /\ owner[at] = Nothing
    /\ failed
    /\ UNCHANGED <<saved, memory, network, ghosts, counts>>

Mismatch ==
    /\ phase = "dial" /\ owner[at] # Nothing
    /\ expectedHostKey(request) \notin {Nothing, Presented}

\* haltReconnect: nothing happens until the user acts.
haltReconnect(why) ==
    /\ phase' = "halted" /\ halt' = why /\ held' = FALSE
    /\ UNCHANGED <<via, at>>

\* What a mismatch means: at a remembered address that the address is stale,
\* so it is forgotten and the retry resolves the name; at the name that the
\* server's key changed.
mismatch ==
    IF via = "name" THEN haltReconnect("key") /\ UNCHANGED <<last, stale>>
    ELSE failed /\ last' = NoAddress /\ stale' = stale \cup {at} /\ UNCHANGED halt

MismatchIsFinal ==
    /\ Mismatch
    /\ mismatch
    /\ UNCHANGED <<saved, request, session, types, network, due, sent, proved, counts>>

\* The host drops the connection that asks for its other key type.  That is
\* only asked for while the type of the expected key is not known; the failure
\* is a retryable one.
MismatchIsDodged ==
    /\ Mismatch
    /\ expectedHostKey(request) \notin types
    /\ failed
    /\ UNCHANGED <<saved, memory, network, ghosts, counts>>

Authenticates ==
    /\ phase = "dial" /\ owner[at] # Nothing
    /\ expectedHostKey(request) \in {Nothing, Presented}
    /\ sent' = [key |-> Presented, due |-> due, via |-> via]

\* How many rejections an automatic reconnect survives is LiveSshService's.
Rejected ==
    /\ Authenticates
    /\ \/ haltReconnect("credentials")
       \/ failed /\ UNCHANGED halt
    /\ UNCHANGED <<saved, memory, network, due, proved, stale, counts>>

sessionHeld == [host |-> request.host, key |-> Presented]

\* The session is up: its address and key are kept for the reconnects, and the
\* Connected status tells main.
Accepted ==
    /\ Authenticates
    /\ phase' = "up"
    /\ last' = [host |-> request.host, address |-> at]
    /\ session' = sessionHeld
    /\ types' = types \cup {Presented}
    /\ held' \in {held, TRUE}
    /\ asked' = sessionHeld
    /\ due' = Presented
    /\ proved' = proved \cup {Presented}
    /\ stale' = stale \ {at}
    /\ UNCHANGED <<store, request, via, at, network, halt, counts>>

Drop ==
    /\ phase = "up" /\ phase' = "waiting"
    /\ UNCHANGED <<saved, memory, held, via, at, network, ghosts, counts>>

\* The hold expires, the adapter dies or the rules change while it is held.
HoldEnds ==
    /\ held /\ phase # "up" /\ ~(phase = "dial" /\ via = "protected")
    /\ held' = FALSE
    /\ UNCHANGED <<saved, memory, phase, via, at, network, ghosts, counts>>

Disconnect ==
    /\ phase # "idle"
    /\ phase' = "idle" /\ held' = FALSE
    /\ UNCHANGED <<saved, memory, via, at, network, ghosts, counts>>

\* Main saves the key of a first use, or the type of a pin that was verified;
\* only for the server as it is saved now.
trusted(s) ==
    IF s.pin = asked.key THEN [s EXCEPT !.typed = TRUE]
    ELSE IF s.pin = Nothing /\ s.trusted = Nothing THEN [s EXCEPT !.trusted = asked.key]
    ELSE s

TrustHostKey ==
    /\ asked # NoSession
    /\ asked' = NoSession
    /\ \/ store' = [store EXCEPT ![asked.host] = trusted(@)] /\ UNCHANGED faults
       \/ faults < MaxFaults /\ faults' = faults + 1 /\ UNCHANGED store
    /\ UNCHANGED <<memory, attempt, network, ghosts, moves, connects, restarts>>

\* The user pins a key or clears a pin, which forgets the trusted one; a pin of
\* the key trusted so far keeps its type.
kept(s, k) ==
    [pin |-> k,
     trusted |-> IF s.pin = Nothing /\ k = Nothing THEN s.trusted ELSE Nothing,
     typed |-> k # Nothing /\ (s.trusted = k \/ (s.pin = k /\ s.typed))]

Edit(h) ==
    /\ moves < MaxMoves /\ moves' = moves + 1
    /\ \E k \in {h, "renewed", Nothing} : store' = [store EXCEPT ![h] = kept(@, k)]
    /\ UNCHANGED <<asked, memory, attempt, network, ghosts, connects, restarts, faults>>

\* The application is restarted; what it kept in memory is gone.
Restart ==
    /\ restarts < MaxRestarts /\ restarts' = restarts + 1
    /\ request' = NoRequest /\ session' = NoSession /\ last' = NoAddress /\ types' = {}
    /\ phase' = "idle" /\ held' = FALSE /\ via' = "name" /\ at' = Nothing
    /\ asked' = NoSession
    /\ proved' = {} /\ stale' = {}
    /\ UNCHANGED <<store, network, due, sent, halt, moves, connects, faults>>

\* The network: the resolver fails and comes back, a name moves, an address
\* changes hands, a server's key is renewed.
Moves ==
    /\ moves < MaxMoves /\ moves' = moves + 1
    /\ \/ answers' = ~answers /\ UNCHANGED <<resolver, owner, key>>
       \/ \E h \in Host, a \in Address :
              resolver' = [resolver EXCEPT ![h] = a] /\ UNCHANGED <<answers, owner, key>>
       \/ \E a \in Address, o \in Host \cup {"stranger", Nothing} :
              owner' = [owner EXCEPT ![a] = o] /\ UNCHANGED <<answers, resolver, key>>
       \/ \E h \in Host : key' = [key EXCEPT ![h] = "renewed"]
              /\ UNCHANGED <<answers, resolver, owner>>
    /\ UNCHANGED <<saved, memory, attempt, ghosts, connects, restarts, faults>>

Init ==
    /\ store \in [Host -> {[pin |-> Nothing, trusted |-> Nothing, typed |-> FALSE]}
                            \cup [pin : Host, trusted : {Nothing}, typed : {FALSE}]]
    /\ \A h \in Host : store[h].pin \in {h, Nothing}
    /\ asked = NoSession /\ request = NoRequest /\ session = NoSession
    /\ last = NoAddress /\ types = {}
    /\ held = FALSE /\ phase = "idle" /\ via = "name" /\ at = Nothing
    /\ resolver \in [Host -> Address] /\ answers = TRUE
    /\ owner \in [Address -> Host \cup {"stranger"}]
    /\ key = [h \in Host |-> h]
    /\ due = Nothing /\ sent = NoSending /\ halt = Nothing
    /\ proved = {} /\ stale = {}
    /\ moves = 0 /\ connects = 0 /\ restarts = 0 /\ faults = 0

Next ==
    \/ \E h \in Host : Connect(h) \/ Edit(h)
    \/ Retry \/ Resolve \/ Unreachable \/ MismatchIsFinal \/ MismatchIsDodged
    \/ Rejected \/ Accepted \/ Drop \/ HoldEnds \/ Disconnect
    \/ TrustHostKey \/ Restart \/ Moves

Spec == Init /\ [][Next]_vars

(***************************************************************************)
(* Properties                                                               *)
(***************************************************************************)
\* Credentials go to the key this session owes: the pinned or trusted one, or
\* the one it verified before.  While none is known they go only where the
\* resolver points, never to a remembered address.
CredentialsReachTheirServer ==
    sent # NoSending => IF sent.due = Nothing THEN sent.via = "name" ELSE sent.key = sent.due

\* Only a changed key at the name itself stops reconnecting; a server that
\* moved from the address kept for it does not.
OnlyTheNameHalts == halt = "key" => via = "name"

\* A remembered address that turned out to be another server's is not dialled
\* again before a session has verified it.
StaleAddressIsForgotten == phase = "dial" /\ via # "name" => at \notin stale

\* A key this run has verified, or whose type was saved, cannot be replaced by
\* a host that drops the second connection: its mismatch is never retried.
ImpostorIsFinal ==
    Mismatch => expectedHostKey(request) \notin proved \ types

\* The server a session talks to stays the one it began with.
ServerIsItself ==
    /\ CredentialsReachTheirServer
    /\ OnlyTheNameHalts
    /\ StaleAddressIsForgotten
    /\ ImpostorIsFinal
=============================================================================
