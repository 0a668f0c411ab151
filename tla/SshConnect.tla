----------------------------- MODULE SshConnect -----------------------------
(***************************************************************************)
(* SshLiveClient.connect: the attempts of one connection up to the          *)
(* authenticated session, the pinned host key and the retry that asks a     *)
(* server for its other key type, under an abort signal and one deadline.   *)
(*                                                                         *)
(* A host key is its type and which of two keys it is; "good" stands for    *)
(* the key a pin was made of.  The peer decides anew at every attempt what  *)
(* it offers and presents, unless it is steady.                             *)
(***************************************************************************)
EXTENDS Naturals, Sequences, FiniteSets, SequencesExt

\* DEFAULT_KEX_INIT.serverHostKeyAlgorithms
Algorithms == <<"ssh-ed25519", "rsa-sha2-512", "rsa-sha2-256">>
Types == {"ssh-ed25519", "ssh-rsa"}
Keys == [type : Types, id : {"good", "other"}]
Nothing == "none"
NoKey == [type |-> Nothing, id |-> Nothing]
Unagreed == [algorithm |-> Nothing, server |-> {}]

VARIABLES
    pin,       \* the key whose fingerprint is expected, or NoKey
    preferred, \* options.preferredHostKeyType, or Nothing
    steady,    \* the keys of a server that never changes them; {}: it may
    stage,     \* of the attempt, or how connect ended
    offer,     \* the host-key algorithms this attempt offers
    agreed,    \* the negotiated host-key algorithm and the server's own list
    tried,     \* triedKeyTypes
    presented, \* presentedHostKeys of the attempts before
    retrying,  \* a deadline is set for this attempt
    stopped,   \* state.stopped of the attempt: Nothing, "abort", "deadline"
    aborted,   \* the caller's signal
    verified,  \* the key the exchange was completed with
    carried,   \* the keys the error of a failed connect tells of
    attempts   \* connections made

vars == <<pin, preferred, steady, stage, offer, agreed, tried, presented, retrying,
          stopped, aborted, verified, carried, attempts>>

Live == {"start", "tcp", "ident", "kexinit", "reply", "auth", "authKey", "authPassword"}
Ended == {"client", "mismatch", "failed", "denied", "cancelled"}

\* The attempt's fields and what connect remembers of the ones before have the
\* shapes the code gives them.
TypeOK ==
    /\ pin \in Keys \cup {NoKey}
    /\ preferred \in Types \cup {Nothing}
    /\ steady \subseteq Keys
    /\ stage \in Live \cup Ended
    /\ offer \in Seq(Range(Algorithms))
    /\ tried \subseteq Types /\ presented \subseteq Keys /\ carried \subseteq Keys
    /\ {retrying, aborted} \subseteq BOOLEAN
    /\ stopped \in {Nothing, "abort", "deadline"}
    /\ verified \in Keys \cup {NoKey}
    /\ attempts \in Nat

hostKeyTypeOf(a) == IF a = "ssh-ed25519" THEN a ELSE "ssh-rsa"
Of(t, as) == SelectSeq(as, LAMBDA a : hostKeyTypeOf(a) = t)

\* The algorithms of one key type moved to the front; the list as it was when
\* there is nothing to move.
preferHostKeyType(as, t) ==
    IF t = Nothing THEN as
    ELSE Of(t, as) \o SelectSeq(as, LAMBDA a : hostKeyTypeOf(a) # t)

\* Mutant: a type is asked for again under its other algorithm.
nextUntriedAlgorithm(as, offered, done) ==
    SelectSeq(as, LAMBDA a : a \in offered /\ a \notin done)

\* Every algorithm of the next key type both offer and none has tried; none left
\* is the empty sequence.
nextHostKeyAlgorithms(as, offered, done) ==
    LET left == SelectSeq(as, LAMBDA a : a \in offered /\ hostKeyTypeOf(a) \notin done) IN
    IF left = <<>> THEN <<>> ELSE Of(hostKeyTypeOf(left[1]), left)

\* The first of the client's algorithms the server has too.
chooseAlgorithm(as, offered) ==
    LET both == SelectSeq(as, LAMBDA a : a \in offered) IN
    IF both = <<>> THEN Nothing ELSE both[1]

\* A caller that knows a pin's type has it from an earlier session with that key.
Init ==
    /\ pin \in [type : Types, id : {"good"}] \cup {NoKey}
    /\ preferred \in IF pin = NoKey THEN {Nothing} ELSE {Nothing, pin.type}
    /\ steady \in {{k \in Keys : k.id = id[k.type]} : id \in [Types -> {"good", "other", Nothing}]}
    /\ stage = "start"
    /\ offer = preferHostKeyType(Algorithms, preferred)
    /\ agreed = Unagreed
    /\ tried = {} /\ presented = {} /\ carried = {}
    /\ retrying = FALSE /\ aborted = FALSE /\ stopped = Nothing
    /\ verified = NoKey /\ attempts = 0

-----------------------------------------------------------------------------

\* An attempt ends for another reason than its key: what did not match before
\* it goes with the error.
failedAfterMismatch(how) ==
    /\ stage' = how
    /\ carried' = presented
    /\ UNCHANGED <<pin, preferred, steady, offer, agreed, tried, presented, retrying,
                   stopped, aborted, verified, attempts>>

\* A stop destroys the transport; the attempt then ends with the stop's reason.
Stop(reason) ==
    /\ stopped = Nothing
    /\ stopped' = reason
    /\ UNCHANGED <<pin, preferred, steady, stage, offer, agreed, tried, presented,
                   retrying, verified, carried, attempts>>

Abort ==
    /\ ~aborted /\ stage \in Live
    /\ aborted' = TRUE
    /\ IF stage = "start" THEN UNCHANGED <<pin, preferred, steady, stage, offer, agreed,
                tried, presented, retrying, stopped, verified, carried, attempts>>
       ELSE Stop("abort")

\* The deadline of a retry covers everything up to the end of its key exchange.
Deadline ==
    /\ retrying /\ stage \in {"tcp", "ident", "kexinit", "reply"}
    /\ Stop("deadline")
    /\ UNCHANGED aborted

Stopped ==
    /\ stage \in Live \ {"start"} /\ stopped # Nothing
    /\ failedAfterMismatch(IF stopped = "abort" THEN "cancelled" ELSE "failed")

Step(from, to) ==
    /\ stage = from /\ stopped = Nothing
    /\ stage' = to

\* connectAttempt, unless it was cancelled or the retries' time is up before it.
connectAttempt ==
    /\ stage = "start"
    /\ IF aborted THEN failedAfterMismatch("cancelled")
       ELSE \/ retrying /\ failedAfterMismatch("failed")
            \/ /\ stage' = "tcp"
               /\ attempts' = attempts + 1
               /\ stopped' = Nothing /\ agreed' = Unagreed
               /\ UNCHANGED <<pin, preferred, steady, offer, tried, presented, retrying,
                              aborted, verified, carried>>

rest == <<pin, preferred, steady, offer, tried, presented, retrying, stopped, aborted,
          carried, attempts>>

Connected == Step("tcp", "ident") /\ UNCHANGED <<rest, agreed, verified>>
Identified == Step("ident", "kexinit") /\ UNCHANGED <<rest, agreed, verified>>

\* A refused, reset, silent or nonsensical peer, at any stage; an answer that
\* does not come in time.
PeerFails ==
    /\ stage \in Live \ {"start"} /\ stopped = Nothing
    /\ failedAfterMismatch("failed")

\* The server's KEXINIT: what it offers, and so what is negotiated.
negotiateAlgorithms(offered) ==
    /\ stage = "kexinit" /\ stopped = Nothing
    /\ steady # {} => offered = {a \in Range(Algorithms) :
                                        \E k \in steady : k.type = hostKeyTypeOf(a)}
    /\ LET a == chooseAlgorithm(offer, offered) IN
       IF a = Nothing THEN failedAfterMismatch("failed")
       ELSE /\ stage' = "reply"
            /\ agreed' = [algorithm |-> a, server |-> offered]
            /\ UNCHANGED <<rest, verified>>

\* What the next attempt offers; none when the key of the type that was known
\* to be pinned did not match.
NextOffer(key) ==
    LET type == hostKeyTypeOf(agreed.algorithm) IN
    IF type = preferred THEN <<>>
    ELSE nextHostKeyAlgorithms(Algorithms, agreed.server, tried \cup {type})

\* The fingerprint the session expects.
Expected == pin

\* completeKex: the fingerprint is compared before the signature; a key of
\* another type than was negotiated does not pass the second check.
completeKex(key) ==
    /\ stage = "reply" /\ stopped = Nothing
    /\ steady # {} => key \in steady /\ key.type = hostKeyTypeOf(agreed.algorithm)
    /\ LET next == NextOffer(key)
           seen == presented \cup {key} IN
       CASE Expected # NoKey /\ key # Expected /\ next = <<>> ->
              /\ stage' = "mismatch" /\ carried' = seen
              /\ UNCHANGED <<pin, preferred, steady, offer, agreed, tried, presented,
                             retrying, stopped, aborted, verified, attempts>>
         [] Expected # NoKey /\ key # Expected /\ next # <<>> ->
              /\ stage' = "start"
              /\ retrying' = TRUE
              /\ tried' = tried \cup {hostKeyTypeOf(agreed.algorithm)}
              /\ presented' = seen
              /\ offer' = next
              /\ UNCHANGED <<pin, preferred, steady, agreed, stopped, aborted, verified,
                             carried, attempts>>
         [] (Expected = NoKey \/ key = Expected) /\ key.type # hostKeyTypeOf(agreed.algorithm) ->
              failedAfterMismatch("failed")
         [] OTHER -> /\ stage' = "auth" /\ verified' = key
                     /\ UNCHANGED <<rest, agreed>>

\* The service is accepted; the private key is offered, if there is one that
\* loads, and then the password, if there is one.
SendKey == Step("auth", "authKey") /\ UNCHANGED <<rest, agreed, verified>>
SendPassword ==
    /\ Step("auth", "authPassword") \/ Step("authKey", "authPassword")
    /\ UNCHANGED <<rest, agreed, verified>>
Denied ==
    /\ stage \in {"auth", "authKey", "authPassword"} /\ stopped = Nothing
    /\ failedAfterMismatch("denied")
Accepted ==
    /\ Step("authKey", "client") \/ Step("authPassword", "client")
    /\ UNCHANGED <<rest, agreed, verified>>

Next ==
    \/ Abort \/ Deadline \/ Stopped \/ connectAttempt \/ Connected \/ Identified
    \/ PeerFails
    \/ \E offered \in SUBSET Range(Algorithms) : negotiateAlgorithms(offered)
    \/ \E key \in Keys : completeKex(key)
    \/ SendKey \/ SendPassword \/ Denied \/ Accepted

Spec == Init /\ [][Next]_vars

-----------------------------------------------------------------------------
(* Properties.                                                              *)

\* Nothing is authenticated to a server whose key is not the pinned one,
\* whatever it offers at which attempt.
CredentialsGoToPinned ==
    pin # NoKey /\ stage \in {"auth", "authKey", "authPassword", "client", "denied"} =>
        verified = pin

\* A server that has the pinned key and keeps its keys is never called a stranger.
PinnedIsFound ==
    stage = "mismatch" /\ steady # {} => pin \notin steady

\* However connect ends after a key that did not match, its error tells of every
\* key that was presented, and a caller that gave up gets no session.
MismatchIsTold ==
    /\ stage \in Ended \ {"client"} => presented \subseteq carried
    /\ stage = "mismatch" => carried # {}

\* Asking for another key type ends: each type is asked for at most once, and a
\* key of the known type ends it at once.
RetriesAreBounded ==
    /\ attempts <= Cardinality(Types)
    /\ preferred # Nothing /\ preferred \in tried => stage = "mismatch"

\* What a pin promises.
PinHolds == CredentialsGoToPinned /\ PinnedIsFound /\ MismatchIsTold /\ RetriesAreBounded

=============================================================================
