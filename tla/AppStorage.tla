----------------------------- MODULE AppStorage -----------------------------
(***************************************************************************)
(* The saved data of the application: main/storage/app-storage.ts.         *)
(*                                                                         *)
(* Two files, written one after the other, hold what belongs together: the *)
(* store (servers, keys, profiles, settings) and the secrets its entries   *)
(* name.  A mutation changes memory, writes one or both files, and takes   *)
(* its change back when a write fails; the process may die between any two *)
(* writes; at the next start a file may be missing or unreadable.          *)
(*                                                                         *)
(* One server, one private key and one proxy profile stand for the lists:  *)
(* each names one record of the secrets file.  A value of the key is also  *)
(* its fingerprint, which the store keeps beside the reference.  A trusted *)
(* host key is the address that proved it; whether a pin is set is enough. *)
(***************************************************************************)
EXTENDS Naturals, Sequences, FiniteSets

CONSTANTS Hosts,      \* addresses a server can be saved with
          Values,     \* secret values
          MaxTroubles \* bound: writes and renames that fail, processes that die, and files
                      \* damaged or moved by hand, together

None == "none"
Ids == {"password", "key", "uri"}

\* An entry is None when it does not exist.
NoStore == [host |-> None, pin |-> FALSE, trust |-> None, password |-> FALSE,
            usesKey |-> FALSE, key |-> None, profile |-> FALSE]
NoSecrets == [i \in Ids |-> None]
NoPoint == [store |-> NoStore, secrets |-> NoSecrets, storeSecrets |-> NoSecrets]

VARIABLES
    store, secrets,         \* memory
    storeFile, secretsFile, \* [state, val]; state is "ok", "missing" or "bad"
    backups,                \* secret files moved aside
    stale,                  \* secretsFileStale
    phase,                  \* what the storage is doing
    point,                  \* rollbackPoint
    next,                   \* the store the running operation will save
    later,                  \* secrets removed once that store is saved
    dropping,               \* dropMissingSecretReferences
    learned,                \* a queued trustHostKeyOnFirstUse
    saved,                  \* history: the values whose saving was reported
    unsaved,                \* history: what load could not write back
    torn,                   \* history: the <<fingerprint, text>> of a key that a crash left
    leftBehind,             \* history: references the store kept to secrets startFresh moved
    faults, crashes, damage

memory == <<store, secrets>>
files == <<storeFile, secretsFile, backups>>
job == <<point, next, later, dropping>>
exceptions == <<torn, leftBehind>>
vars == <<memory, files, stale, phase, job, learned, saved, unsaved, exceptions, faults, crashes,
          damage>>

File(v) == [state |-> "ok", val |-> v]
Missing(v) == [state |-> "missing", val |-> v]

\* referencedSecretIds
Referenced(s) ==
    {i \in Ids : \/ i = "password" /\ s.password
                 \/ i = "key" /\ s.key # None
                 \/ i = "uri" /\ s.profile}

Only(sec, ids) == [i \in Ids |-> IF i \in ids THEN sec[i] ELSE None]
Kept(sec) == {i \in Ids : sec[i] # None}

\* Memory, the two files and the mutation under way have the shapes the code gives them.
TypeOK ==
    /\ store \in [host : Hosts \cup {None}, pin : BOOLEAN,
                  trust : Hosts \cup {None}, password : BOOLEAN,
                  usesKey : BOOLEAN, key : Values \cup {None}, profile : BOOLEAN]
    /\ secrets \in [Ids -> Values \cup {None}]
    /\ phase \in {"off", "load", "idle", "blocked", "aside", "secrets", "store", "restore",
                  "cleanup", "loadStore", "loadSecrets"}
    /\ store.host = None => ~store.password /\ ~store.usesKey /\ store.trust = None
    /\ store.usesKey => store.key # None

\* What an earlier process may have left.
Everything(host, v) ==
    [host |-> host, pin |-> FALSE, trust |-> host, password |-> TRUE,
     usesKey |-> TRUE, key |-> v, profile |-> TRUE]

\* The first start, or a start that finds everything saved.
Init ==
    /\ store = NoStore /\ secrets = NoSecrets
    /\ \/ /\ storeFile = Missing(NoStore) /\ secretsFile = Missing(NoSecrets)
          /\ saved = NoSecrets
       \/ \E host \in Hosts, v \in Values :
             /\ storeFile = File(Everything(host, v)) /\ secretsFile = File([i \in Ids |-> v])
             /\ saved = [i \in Ids |-> v]
    /\ backups = {} /\ stale = FALSE /\ phase = "off"
    /\ point = NoPoint
    /\ next = NoStore /\ later = {} /\ dropping = FALSE
    /\ learned = None
    /\ unsaved = {} /\ torn = <<>> /\ leftBehind = {}
    /\ faults = 0 /\ crashes = 0 /\ damage = 0

Trouble == faults + crashes + damage < MaxTroubles
Fault == Trouble /\ faults' = faults + 1
NoFault == UNCHANGED faults
World == UNCHANGED <<crashes, damage>>
Same == World /\ UNCHANGED exceptions

-----------------------------------------------------------------------------
(* Mutations.  mutate runs them one at a time; a rollback point is taken,   *)
(* the secrets are written first when they changed, then the store.         *)

\* sec is what memory's secrets become before the store is saved, gone what is
\* no longer referenced and is removed after it.
Begin(st, sec, gone) ==
    /\ phase = "idle"
    /\ point' = [store |-> store, secrets |-> secrets, storeSecrets |-> secrets]
    /\ secrets' = sec
    /\ next' = st
    /\ later' = gone
    /\ IF sec # secrets
       THEN phase' = "secrets" /\ UNCHANGED store
       ELSE phase' = "store" /\ store' = st
    /\ saved' = [i \in Ids |-> IF sec[i] # secrets[i] \/ i \in gone THEN None ELSE saved[i]]
    /\ UNCHANGED <<files, stale, dropping, unsaved, faults>> /\ Same

\* keptHostKeyTrust: a pin, a change of the pin or of the address forgets the
\* key that was trusted.
keptHostKeyTrust(host, pin) ==
    IF pin \/ store.pin \/ store.host # host THEN None ELSE store.trust

\* upsertConfig: a new password is saved over the record the server names.
upsertConfig ==
    \E host \in Hosts, pin \in BOOLEAN, password \in Values \cup {None}, uses \in BOOLEAN :
        /\ uses => store.key # None
        /\ Begin([store EXCEPT !.host = host, !.pin = pin,
                               !.trust = keptHostKeyTrust(host, pin),
                               !.password = @ \/ password # None,
                               !.usesKey = uses],
                 IF password = None THEN secrets ELSE [secrets EXCEPT !["password"] = password],
                 {})
        /\ UNCHANGED learned

\* A connection proved the key of the server it was opened to; the request is
\* queued behind the mutations before it.
Eligible(host) ==
    store.host = host /\ ~store.pin /\ store.trust = None

AskTrust ==
    /\ phase \notin {"off", "load", "blocked", "aside", "loadStore", "loadSecrets"}
    /\ learned = None
    /\ \E host \in Hosts : Eligible(host) /\ learned' = host
    /\ UNCHANGED <<memory, files, stale, phase, job, saved, unsaved, faults>> /\ Same

\* trustHostKeyOnFirstUse, when its turn comes.
trustHostKeyOnFirstUse ==
    /\ learned # None
    /\ learned' = None
    /\ \/ Eligible(learned) /\ Begin([store EXCEPT !.trust = learned], secrets, {})
       \/ /\ phase = "idle" /\ ~Eligible(learned)
          /\ UNCHANGED <<memory, files, stale, phase, job, saved, unsaved, faults>> /\ Same

\* deleteConfig
deleteConfig ==
    /\ store.host # None
    /\ Begin([store EXCEPT !.host = None, !.pin = FALSE, !.trust = None, !.password = FALSE,
                           !.usesKey = FALSE],
             secrets, {"password"})
    /\ UNCHANGED learned

\* upsertKey: the text and the fingerprint of the key change together.
upsertKey ==
    \E v \in Values :
        /\ Begin([store EXCEPT !.key = v], [secrets EXCEPT !["key"] = v], {})
        /\ UNCHANGED learned

\* deleteKey: refused while a server uses the key.
deleteKey ==
    /\ store.key # None /\ ~store.usesKey
    /\ Begin([store EXCEPT !.key = None], secrets, {"key"})
    /\ UNCHANGED learned

\* upsertProxyProfile and importProxyProfiles
upsertProxyProfile ==
    \E v \in Values :
        /\ Begin([store EXCEPT !.profile = TRUE], [secrets EXCEPT !["uri"] = v], {})
        /\ UNCHANGED learned

\* deleteProxyProfile and deleteUnpinnedProxyProfiles
deleteProxyProfile ==
    /\ store.profile
    /\ Begin([store EXCEPT !.profile = FALSE], secrets, {"uri"})
    /\ UNCHANGED learned

\* Settings, routing mode, rules and lists change the store alone, and nothing of
\* it that is kept here; the save is what matters.
updateSettings ==
    Begin(store, secrets, {}) /\ UNCHANGED learned

-----------------------------------------------------------------------------
(* The writes of a mutation.                                                *)

\* The caller is told: the values are the user's again, the old ones or the new.
Ends(st, sec) ==
    /\ phase' = "idle"
    /\ saved' = Only(sec, Referenced(st))
    /\ point' = NoPoint /\ next' = NoStore /\ later' = {}

SecretsWritten ==
    NoFault /\ secretsFile' = File(secrets) /\ stale' = FALSE /\ unsaved' = unsaved \ {"secrets"}
SecretsNotWritten == Fault /\ UNCHANGED <<secretsFile, unsaved>>
StoreWritten ==
    /\ NoFault /\ storeFile' = File(store) /\ unsaved' = unsaved \ {"store"}
    /\ torn' = IF store.key = secrets["key"] THEN <<>> ELSE torn
    /\ leftBehind' = (leftBehind \cap Referenced(store)) \ Kept(secrets)
StoreNotWritten == Fault /\ UNCHANGED <<storeFile, unsaved, exceptions>>

\* persistSecrets before the store is saved.
WriteSecrets ==
    /\ phase = "secrets"
    /\ \/ /\ SecretsWritten
          /\ point' = [point EXCEPT !.secrets = secrets]
          /\ store' = next
          /\ phase' = "store"
          /\ UNCHANGED <<secrets, saved, next, later>>
       \/ /\ SecretsNotWritten
          /\ secrets' = point.secrets
          /\ Ends(store, point.secrets)
          /\ UNCHANGED <<stale, store>>
    /\ UNCHANGED <<storeFile, backups, dropping, learned>> /\ Same

\* Mutant: memory keeps the secrets of the save that failed.
TakeBackStoreOnly ==
    /\ store' = point.store
    /\ UNCHANGED secrets
    /\ Ends(point.store, secrets)

\* After a failed save memory goes back to what the store on disk goes with, and
\* the secrets file is written again when it had changed.
TakeBack ==
    /\ store' = point.store
    /\ secrets' = point.storeSecrets
    /\ IF secrets # point.storeSecrets
       THEN phase' = "restore" /\ UNCHANGED <<saved, point, next, later>>
       ELSE Ends(point.store, secrets)

\* persistStore: a secrets file known to be stale is written first.
WriteStaleSecrets ==
    /\ phase = "store" /\ stale
    /\ \/ /\ SecretsWritten
          /\ point' = [point EXCEPT !.secrets = secrets]
          /\ UNCHANGED <<memory, phase, saved, next, later>>
       \/ SecretsNotWritten /\ TakeBack /\ UNCHANGED stale
    /\ UNCHANGED <<storeFile, backups, dropping, learned>> /\ Same

\* persistStore.  deleteSecretsIfUnreferenced follows a store that was saved.
WriteStore ==
    /\ phase = "store" /\ ~stale
    /\ \/ /\ StoreWritten
          /\ secrets' = Only(secrets, Ids \ (later \ Referenced(store)))
          /\ UNCHANGED store
          /\ IF secrets' # secrets
             THEN /\ phase' = "cleanup"
                  /\ point' = [point EXCEPT !.store = store, !.storeSecrets = secrets]
                  /\ UNCHANGED <<saved, next, later>>
             ELSE Ends(store, secrets)
       \/ StoreNotWritten /\ TakeBack
    /\ UNCHANGED <<secretsFile, backups, stale, dropping, learned>> /\ World

\* restoreStoreSecrets: best effort; a file that could not be written is stale.
RestoreStoreSecrets ==
    /\ phase = "restore"
    /\ SecretsWritten \/ (SecretsNotWritten /\ stale' = TRUE)
    /\ UNCHANGED memory
    /\ Ends(store, secrets)
    /\ UNCHANGED <<storeFile, backups, dropping, learned>> /\ Same

\* persistSecrets after the store was saved: a failure keeps the records.
WriteCleanup ==
    /\ phase = "cleanup"
    /\ \/ SecretsWritten /\ UNCHANGED secrets
       \/ SecretsNotWritten /\ secrets' = point.secrets /\ UNCHANGED stale
    /\ UNCHANGED store
    /\ Ends(store, secrets)
    /\ UNCHANGED <<storeFile, backups, dropping, learned>> /\ Same

-----------------------------------------------------------------------------
(* Starting: init, load and startFresh.                                     *)

\* The store is written back before the secrets.
LoadPhase(left) ==
    IF "store" \in left THEN "loadStore" ELSE IF left # {} THEN "loadSecrets" ELSE "idle"

\* init, or the load at the end of startFresh: a file that cannot be read blocks
\* every write.  dropMissingSecretReferences leaves no reference that points
\* nowhere; a key without its text is nothing.
Load ==
    /\ phase = "load"
    /\ IF "bad" \in {storeFile.state, secretsFile.state}
       THEN phase' = "blocked" /\ UNCHANGED <<memory, files, unsaved>>
       ELSE LET st == IF storeFile.state = "ok" THEN storeFile.val ELSE NoStore
                sec == IF secretsFile.state = "ok" THEN secretsFile.val ELSE NoSecrets
                key == IF dropping /\ sec["key"] = None THEN None ELSE st.key
                read == IF dropping
                        THEN [st EXCEPT !.password = @ /\ sec["password"] # None, !.key = key,
                                        !.usesKey = @ /\ key # None,
                                        !.profile = @ /\ sec["uri"] # None]
                        ELSE st
                orphaned == storeFile.state = "missing" /\ Kept(sec) # {}
            IN /\ store' = read
               /\ secrets' = IF orphaned THEN NoSecrets ELSE Only(sec, Referenced(read))
               /\ backups' = IF orphaned THEN backups \cup {sec} ELSE backups
               /\ secretsFile' = IF orphaned THEN Missing(NoSecrets) ELSE secretsFile
               /\ unsaved' = {f \in {"store", "secrets"} : IF f = "store" THEN storeFile # File(read)
                                                          ELSE secretsFile' # File(secrets')}
               /\ phase' = LoadPhase(unsaved')
               /\ UNCHANGED storeFile
    /\ dropping' = FALSE
    /\ UNCHANGED <<stale, point, next, later, learned, saved, faults>> /\ Same

\* What was read is written back, the store first.  A failure is reported and
\* the data is used as read.
WriteLoaded ==
    /\ phase \in {"loadStore", "loadSecrets"}
    /\ \/ /\ phase = "loadStore" /\ StoreWritten
          /\ phase' = LoadPhase(unsaved')
          /\ UNCHANGED <<secretsFile, stale>>
       \/ /\ phase = "loadSecrets" /\ SecretsWritten /\ phase' = "idle"
          /\ UNCHANGED <<storeFile, exceptions>>
       \/ /\ Fault /\ phase' = "idle"
          /\ UNCHANGED <<storeFile, secretsFile, stale, unsaved, exceptions>>
    /\ UNCHANGED <<memory, backups, job, learned, saved>> /\ World

\* startFresh moves the secrets aside first.  An unreadable secrets file alone
\* leaves the store in place.
startFresh ==
    /\ phase = "blocked"
    /\ dropping' = (storeFile.state # "bad")
    /\ \/ /\ NoFault
          /\ backups' = IF secretsFile.state = "missing" THEN backups
                        ELSE backups \cup {secretsFile.val}
          /\ secretsFile' = Missing(NoSecrets)
          /\ leftBehind' = IF dropping' THEN Referenced(storeFile.val) ELSE {}
          /\ phase' = IF storeFile.state = "bad" THEN "aside" ELSE "load"
       \/ Fault /\ UNCHANGED <<backups, secretsFile, phase, leftBehind>>
    /\ UNCHANGED <<memory, storeFile, stale, point, next, later, learned, saved, unsaved, torn>>
    /\ World

\* Then the store; a rename that fails brings the secrets back.
MoveStoreAside ==
    /\ phase = "aside"
    /\ \/ /\ NoFault
          /\ storeFile' = Missing(NoStore)
          /\ phase' = "load"
          /\ UNCHANGED <<secretsFile, backups>>
       \/ /\ Fault
          /\ phase' = "blocked"
          /\ \E b \in backups : secretsFile' = File(b) /\ backups' = backups \ {b}
          /\ UNCHANGED storeFile
    /\ UNCHANGED <<memory, stale, job, learned, saved, unsaved>> /\ Same

Start ==
    /\ phase = "off" /\ phase' = "load"
    /\ dropping' = FALSE
    /\ UNCHANGED <<memory, files, stale, point, next, later, learned, saved, unsaved, faults>>
    /\ Same

\* The files are those of a save that is between its two writes, or that failed and
\* could not put its secrets back.
HalfSaved == stale \/ phase \in {"store", "restore"}

\* The process ends.  A record that a failed save took back in memory alone is gone.
Crash ==
    /\ phase # "off" /\ Trouble /\ crashes' = crashes + 1
    /\ phase' = "off"
    /\ store' = NoStore /\ secrets' = NoSecrets /\ stale' = FALSE
    /\ point' = NoPoint
    /\ next' = NoStore /\ later' = {} /\ dropping' = FALSE /\ learned' = None
    /\ saved' = [i \in Ids |-> IF (stale \/ phase = "restore") /\ secretsFile.val[i] # saved[i]
                               THEN None ELSE saved[i]]
    /\ torn' = IF HalfSaved /\ storeFile.val.key # secretsFile.val["key"]
               THEN <<storeFile.val.key, secretsFile.val["key"]>> ELSE torn
    /\ UNCHANGED <<files, unsaved, leftBehind, faults, damage>>

\* While the application is not running a file is damaged, or the store is moved.
Damage ==
    /\ phase = "off" /\ Trouble /\ damage' = damage + 1
    /\ \/ /\ storeFile.state = "ok" /\ UNCHANGED secretsFile
          /\ \/ storeFile' = [storeFile EXCEPT !.state = "bad"]
             \/ storeFile' = Missing(NoStore)
       \/ /\ secretsFile.state = "ok" /\ UNCHANGED storeFile
          /\ secretsFile' = [secretsFile EXCEPT !.state = "bad"]
    /\ UNCHANGED <<memory, backups, stale, phase, job, learned, saved, unsaved, exceptions, faults,
                   crashes>>

Next ==
    \/ upsertConfig \/ AskTrust \/ trustHostKeyOnFirstUse \/ deleteConfig
    \/ upsertKey \/ deleteKey \/ upsertProxyProfile \/ deleteProxyProfile \/ updateSettings
    \/ WriteSecrets \/ WriteStaleSecrets \/ WriteStore \/ RestoreStoreSecrets \/ WriteCleanup
    \/ Start \/ Load \/ WriteLoaded \/ startFresh \/ MoveStoreAside \/ Crash \/ Damage

Spec == Init /\ [][Next]_vars

-----------------------------------------------------------------------------
(* Properties.                                                              *)

\* Between two mutations memory holds what the files hold: a failed save left
\* neither a change its file did not get nor, unless the secrets file is known
\* to be stale, a record its file still has.  (A file that load could not write
\* back is the exception until it is written.)
MemoryIsDurable ==
    phase = "idle" =>
        /\ "store" \notin unsaved => storeFile = File(store)
        /\ ~stale /\ "secrets" \notin unsaved => secretsFile = File(secrets)

\* Between two mutations the fingerprint shown for a key is that of the text
\* every connection signs with, although the two are in different files and writes
\* of either fail.  The exception is exact: the one pair that a process left which
\* died between the two writes of a save, or after a failed save that could not put
\* its secrets back.  No later start repairs it; the next save of the key does.
\* (A key whose text startFresh moved aside has none; see NoDanglingReference.)
KeyMatchesItsText ==
    phase = "idle" /\ store.key # None /\ store.key # secrets["key"] =>
        torn = <<store.key, secrets["key"]>> \/ (secrets["key"] = None /\ "key" \in leftBehind)

\* At every instant, so whenever the process dies, every secret the store file
\* names is in the secrets file, when both can be read.  The exception is exact: the
\* references a startFresh that moved the secrets aside could not drop, because its
\* save failed or the process died before it.
NoDanglingReference ==
    storeFile.state = "ok" /\ secretsFile.state = "ok" =>
        Referenced(storeFile.val) \subseteq Kept(secretsFile.val) \cup leftBehind

\* The trusted key of a server was proved by the server as it is saved now:
\* neither an edited address nor a pin keeps it, and an answer that comes after
\* the edit is not saved.
TrustIsForThisServer ==
    \A s \in {store, storeFile.val} :
        s.trust # None => s.trust = s.host /\ ~s.pin

\* A secret whose saving was reported, and that was not deleted since, is in the
\* secrets file, in a file moved aside, or in memory: no start, no recovery and
\* no interruption of one deletes it for good.  (What is lost is the old value of a
\* record that a save replaced, failed and could not put back, if the process then
\* dies: it was in memory alone.)
SavedSecretsSurvive ==
    \A i \in Ids : saved[i] # None =>
        \/ secretsFile.state # "missing" /\ secretsFile.val[i] = saved[i]
        \/ \E b \in backups : b[i] = saved[i]
        \/ phase \notin {"off", "load"} /\ secrets[i] = saved[i]

\* Memory and the two files stay in step, and neither trust nor a saved secret
\* ends up with another server or nowhere.
SavedIsKept ==
    /\ MemoryIsDurable /\ KeyMatchesItsText /\ NoDanglingReference
    /\ TrustIsForThisServer /\ SavedSecretsSurvive

=============================================================================
