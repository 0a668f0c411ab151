-------------------------- MODULE RotatingFileLog --------------------------
(***************************************************************************)
(* The application's log file and its archives: appends, rotation, clear    *)
(* and close on one queue, over files another program may hold open, and    *)
(* across a crash between two of their steps.                               *)
(*                                                                         *)
(* An entry is its number and takes one unit of space; a file that is not   *)
(* there is not told apart from an empty one.  A write that fails left      *)
(* nothing.                                                                 *)
(***************************************************************************)
EXTENDS Naturals, Sequences, SequencesExt

CONSTANTS
    Backups,    \* backupCount
    MaxSize,    \* maxFileBytes
    MaxEntries, MaxClears, MaxFaults, MaxCrashes

Unknown == 99
Jobs == {"append", "clear", "close"}

VARIABLES
    files,   \* 0: the log, n: its n-th archive
    size,    \* currentSize
    handle,  \* the append handle is open
    queue,   \* the operations waiting, in order; the first one runs
    at,      \* where the first one is
    turn,    \* the archive a rotation moves into next
    next,    \* history: the number of the next entry
    written, \* history: the entries written that no clear has removed, oldest first
    removals,\* history: how often a rotation has removed the oldest archive
    moved,   \* history: removals, when the entry left the log for an archive
    clears, faults, crashes

counts == <<clears, faults, crashes>>
past == <<written, removals, moved>>
vars == <<files, size, handle, queue, at, turn, next, past, counts>>

\* Every variable holds a value of its kind.
TypeOK ==
    /\ files \in [0..Backups -> Seq(0..MaxEntries)]
    /\ size \in 0..MaxEntries \cup {Unknown}
    /\ handle \in BOOLEAN
    /\ queue \in Seq(Jobs) /\ next \in 0..MaxEntries
    /\ written \in Seq(0..MaxEntries) /\ removals \in Nat /\ moved \in [0..MaxEntries -> Nat]
    /\ at \in {"begin", "main", "open", "write", "truncate", "remove", "shift"}
    /\ turn \in 0..Backups

Begun(job) == queue # <<>> /\ Head(queue) = job

\* An operation is enqueued behind the ones before it.
Ask(job) ==
    /\ Len(queue) < 2
    /\ job = "append" => next + Len(SelectSeq(queue, LAMBDA j : j = "append")) < MaxEntries
    /\ job = "clear" => clears < MaxClears
    /\ clears' = IF job = "clear" THEN clears + 1 ELSE clears
    /\ queue' = Append(queue, job)
    /\ UNCHANGED <<files, size, handle, at, turn, next, past, faults, crashes>>

\* The operation has ended, well or not: the queue goes on with the next one.
ended == queue' = Tail(queue) /\ at' = "begin"

\* Mutant: the entry about to be written is not counted.
fullAlready(now) == now > MaxSize
full(now) == now > 0 /\ now + 1 > MaxSize

\* append() up to its first change: the size is read once, a full log is
\* rotated, which begins by closing the handle.
AppendBegins ==
    /\ Begun("append") /\ at = "begin"
    /\ LET now == IF size = Unknown THEN Len(files[0]) ELSE size IN
       /\ size' = now
       /\ IF full(now)
          THEN /\ handle' = FALSE
               /\ at' = IF Backups >= 2 THEN "shift" ELSE "main"
               /\ turn' = Backups
          ELSE at' = "open" /\ UNCHANGED <<handle, turn>>
    /\ UNCHANGED <<files, queue, next, past, counts>>

shifted(n) == [files EXCEPT ![n] = files[n - 1], ![n - 1] = <<>>]

\* The step that takes the oldest archive away.
RemovesOldest == turn = Backups /\ at = IF Backups >= 2 THEN "shift" ELSE "main"

\* One archive takes the place of the next older one.
Shift ==
    /\ at = "shift"
    /\ files' = shifted(turn)
    /\ turn' = turn - 1
    /\ at' = IF turn > 2 THEN "shift" ELSE "main"
    /\ removals' = IF RemovesOldest THEN removals + 1 ELSE removals
    /\ UNCHANGED <<size, handle, queue, next, written, moved, counts>>

\* The log becomes the first archive; without archives it is emptied.
RotateLog ==
    /\ at = "main"
    /\ files' = IF Backups = 0 THEN [files EXCEPT ![0] = <<>>]
                ELSE [files EXCEPT ![1] = files[0], ![0] = <<>>]
    /\ size' = 0
    /\ at' = "open"
    /\ removals' = IF RemovesOldest THEN removals + 1 ELSE removals
    /\ moved' = [e \in 0..MaxEntries |-> IF Contains(files[0], e) THEN removals' ELSE moved[e]]
    /\ UNCHANGED <<turn, handle, queue, next, written, counts>>

OpenHandle ==
    /\ at = "open"
    /\ handle' = TRUE
    /\ at' = "write"
    /\ UNCHANGED <<files, turn, size, queue, next, past, counts>>

WriteEntry ==
    /\ at = "write"
    /\ files' = [files EXCEPT ![0] = Append(@, next)]
    /\ next' = next + 1 /\ written' = Append(written, next)
    /\ size' = size + 1
    /\ ended
    /\ UNCHANGED <<turn, handle, removals, moved, counts>>

\* What a step may leave that fails, or in which the process dies: the older
\* archive gone and its successor not in its place, or a clear done in part.
Partly ==
    {files} \cup
      CASE at = "shift"    -> {[files EXCEPT ![turn] = <<>>]}
        [] at = "main"     -> {[files EXCEPT ![IF Backups = 0 THEN 0 ELSE 1] = <<>>]}
        [] at = "truncate" -> {[files EXCEPT ![0] = <<>>]}
        [] at = "remove"   -> {[n \in 0..Backups |-> IF n \in gone THEN <<>> ELSE files[n]] :
                                gone \in SUBSET (1..Backups)}
        [] OTHER           -> {}

\* The entries that are left when a step of a clear leaves these files.
Uncleared(left) ==
  SelectSeq(written, LAMBDA e : \A n \in 0..Backups : Contains(files[n], e) => Contains(left[n], e))

StopsPartly ==
    /\ files' \in Partly
    /\ removals' = IF RemovesOldest /\ files' # files THEN removals + 1 ELSE removals
    /\ written' = IF at \in {"truncate", "remove"} THEN Uncleared(files') ELSE written
    /\ moved' = [e \in 0..MaxEntries |->
                   IF at = "main" /\ Contains(files[0], e) /\ files'[0] = <<>> THEN removals' ELSE moved[e]]

\* A step fails: the operation rejects and the next one runs.
StepFails ==
    /\ faults < MaxFaults /\ faults' = faults + 1
    /\ queue # <<>> /\ at # "begin"
    /\ StopsPartly
    /\ handle' = (handle /\ at # "write")
    /\ ended
    /\ UNCHANGED <<turn, size, next, clears, crashes>>

Clear ==
    /\ Begun("clear")
    /\ \/ /\ at = "begin" /\ at' = "truncate" /\ handle' = FALSE
          /\ UNCHANGED <<files, size, queue, written>>
       \/ /\ at = "truncate" /\ at' = "remove"
          /\ files' = [files EXCEPT ![0] = <<>>]
          /\ written' = Uncleared(files')
          /\ UNCHANGED <<size, handle, queue>>
       \/ /\ at = "remove"
          /\ files' = [n \in 0..Backups |-> IF n = 0 THEN files[0] ELSE <<>>]
          /\ written' = Uncleared(files')
          /\ size' = 0
          /\ ended
          /\ UNCHANGED handle
    /\ UNCHANGED <<turn, next, removals, moved, counts>>

Close ==
    /\ Begun("close") /\ at = "begin"
    /\ handle' = FALSE
    /\ ended
    /\ UNCHANGED <<turn, files, size, next, past, counts>>

\* The application ends, between two steps or in one, and is started again.
Crash ==
    /\ crashes < MaxCrashes /\ crashes' = crashes + 1
    /\ size' = Unknown /\ handle' = FALSE /\ queue' = <<>> /\ at' = "begin"
    /\ StopsPartly
    /\ UNCHANGED <<turn, next, clears, faults>>

Init ==
    /\ files = [n \in 0..Backups |-> <<>>]
    /\ size = Unknown /\ handle = FALSE /\ queue = <<>> /\ at = "begin" /\ turn = 0
    /\ next = 0 /\ written = <<>> /\ removals = 0 /\ moved = [e \in 0..MaxEntries |-> Unknown]
    /\ clears = 0 /\ faults = 0 /\ crashes = 0

Next ==
    \/ \E job \in Jobs : Ask(job)
    \/ AppendBegins \/ Shift \/ RotateLog \/ OpenHandle \/ WriteEntry \/ StepFails
    \/ Clear \/ Close \/ Crash

Spec == Init /\ [][Next]_vars

(***************************************************************************)
(* Properties                                                               *)
(***************************************************************************)
\* readTail(): the log and its archives, oldest first.
readTail == FoldLeft(LAMBDA text, n : files[n] \o text, <<>>, [i \in 1..Backups + 1 |-> i - 1])

\* What is read is the newest of what was written and not cleared, in order and
\* each entry once, whichever step of a rotation or a clear failed or was the
\* last before a crash.  Older entries are given up by rotations only, and no
\* sooner than the Backups-th removal of the oldest archive after the one that
\* made room for them.  A rotation that fails or crashes after that removal
\* counts in full although it made no room: its retry takes another archive.
NewestAreKept ==
    LET lost == Len(written) - Len(readTail)
    IN  /\ lost >= 0 /\ readTail = SubSeq(written, lost + 1, Len(written))
        /\ \A i \in 1..lost : removals >= moved[written[i]] + Backups

\* No file grows past its limit.
FilesAreBounded == \A n \in 0..Backups : Len(files[n]) <= MaxSize

\* The handle an append writes through is that of the log, never of an archive
\* or of a log that was cleared: no file is moved or emptied while it is open.
HandleIsOfTheLog == handle => at \in {"begin", "open", "write"}

\* The log a user reads is what was written to it.
LogIsKept == NewestAreKept /\ FilesAreBounded /\ HandleIsOfTheLog
=============================================================================
