------------------------------ MODULE FileLock ------------------------------
(***************************************************************************)
(* atomicFile.ts: the owner-aware lock every metadata transaction of the   *)
(* program runs under. A lock is a directory that holds one owner file; a  *)
(* process that finds the owner dead takes a second such lock, the reaper, *)
(* and removes the stale directory. Each step below is one file operation. *)
(*                                                                         *)
(*   mkdir, open, write, sync, undo   tryCreateDirectoryLock               *)
(*   list, read     readDirectoryLockSnapshot, then, by mode,              *)
(*     status, recheck   the two status tests of acquireFileLock           *)
(*     remove            the snapshot of removeStaleDirectoryLock          *)
(*   reread, unlinkStale, sweep   the rest of removeStaleDirectoryLock     *)
(*   held           the caller's operation                                 *)
(*   unlink, rmdir  releaseOwnedLock                                       *)
(*   wait           the retry delay                                        *)
(*                                                                         *)
(* The program counters are those of the path in "at": the lock or its     *)
(* reaper. Legacy lock files, EPERM and I/O errors are left out.           *)
(***************************************************************************)
EXTENDS Naturals

CONSTANTS
  Procs,       \* processes that use the lock
  Patient,     \* those whose wait timeout never elapses
  MaxCrashes,  \* bound on the processes that die
  Hazards,     \* "torn": an owner file may be read between its creation and its first write;
               \* "slow": a live process may pause for the stale time with its directory empty
  MaxHazards   \* bound on the hazards an instance explores

ASSUME LockAssumption ==
  /\ Patient \subseteq Procs
  /\ MaxCrashes \in Nat
  /\ Hazards \subseteq {"torn", "slow"}
  /\ MaxHazards \in Nat \ {0}

VARIABLES
  exists,   \* which of the two directories exist
  content,  \* content[d][p]: the owner file of p in directory d
  aged,     \* directory d has not changed for the stale time
  pc, at, mode,
  flag,     \* the reaper lock is tried for the second time; later, the stale lock is removed
  todo,     \* owner files listed and still to visit
  seen,     \* the content with which each owner file entered the snapshot
  old,      \* the listed directory was aged
  crashes,
  hazards   \* history: how many of the hazards below have occurred

disk == <<exists, content, aged>>
snapshot == <<todo, seen, old>>
history == <<crashes, hazards>>
vars == <<disk, pc, at, mode, flag, snapshot, history>>

Paths == {"lock", "reaper"}
Contents == {"none", "empty", "record"}
Phases == {"idle", "mkdir", "open", "write", "sync", "undo", "list", "read", "reread",
           "unlinkStale", "sweep", "held", "unlink", "rmdir", "wait", "dead"}

TypeOK ==
  /\ exists \in [Paths -> BOOLEAN]
  /\ content \in [Paths -> [Procs -> Contents]]
  /\ aged \in [Paths -> BOOLEAN]
  /\ pc \in [Procs -> Phases]
  /\ at \in [Procs -> Paths]
  /\ mode \in [Procs -> {"status", "recheck", "remove"}]
  /\ flag \in [Procs -> BOOLEAN]
  /\ todo \in [Procs -> SUBSET Procs]
  /\ seen \in [Procs -> [Procs -> Contents]]
  /\ old \in [Procs -> BOOLEAN]
  /\ crashes \in 0..MaxCrashes
  /\ hazards \in 0..MaxHazards

NoFiles == [q \in Procs |-> "none"]

Init ==
  /\ exists = [d \in Paths |-> FALSE]
  /\ content = [d \in Paths |-> NoFiles]
  /\ aged = [d \in Paths |-> FALSE]
  /\ pc = [p \in Procs |-> "idle"]
  /\ at = [p \in Procs |-> "lock"]
  /\ mode = [p \in Procs |-> "status"]
  /\ flag = [p \in Procs |-> FALSE]
  /\ todo = [p \in Procs |-> {}]
  /\ seen = [p \in Procs |-> NoFiles]
  /\ old = [p \in Procs |-> FALSE]
  /\ crashes = 0
  /\ hazards = 0

-----------------------------------------------------------------------------
(* The file system. *)

Empty(d) == content[d] = NoFiles

MakeDir(d) ==
  /\ exists' = [exists EXCEPT ![d] = TRUE]
  /\ aged' = [aged EXCEPT ![d] = FALSE]
  /\ UNCHANGED content

\* A directory is removed only while it is empty; otherwise the call has no effect.
RemoveDir(d) ==
  /\ exists' = [exists EXCEPT ![d] = exists[d] /\ ~Empty(d)]
  /\ UNCHANGED <<content, aged>>

SetFile(d, q, c) ==
  /\ content' = [content EXCEPT ![d][q] = c]
  /\ aged' = [aged EXCEPT ![d] = FALSE]
  /\ UNCHANGED exists

-----------------------------------------------------------------------------
(* The hazards on which exclusion depends. The code excludes none of them. *)

Alive(p) == pc[p] # "dead"
sound == (hazards = 0)
Count(hazard) == hazards' = IF hazard /\ hazards < MaxHazards THEN hazards + 1 ELSE hazards
May(kind) == kind \in Hazards /\ hazards < MaxHazards

\* A reader finds the owner file of a live process that has not written it yet.
TornRead(d, qs) == \E q \in qs : Alive(q) /\ content[d][q] = "empty"

\* A live process pauses for five minutes with its new or cleared directory empty.
Pausing(d) == \E p \in Procs : at[p] = d /\ pc[p] \in {"open", "rmdir", "sweep", "undo"}

\* A second process starts to remove the lock of a dead reaper: nothing guards that removal.
RemovingReaper(p) == at[p] = "reaper" /\ mode[p] = "remove" /\ pc[p] \in {"list", "read", "reread", "unlinkStale", "sweep"}
SecondRemover(p) == \E q \in Procs \ {p} : RemovingReaper(q)

\* Reads that the instance does not let fall between creation and write.
Readable(d, qs) == TornRead(d, qs) => May("torn")

\* An empty directory grows old.
Age(d) ==
  /\ exists[d] /\ Empty(d) /\ ~aged[d]
  /\ Pausing(d) => May("slow")
  /\ aged' = [aged EXCEPT ![d] = TRUE]
  /\ Count(Pausing(d))
  /\ UNCHANGED <<exists, content, pc, at, mode, flag, snapshot, crashes>>

-----------------------------------------------------------------------------
(* isStale, directoryLockIsStale *)

\* Mutant of StaleFile: a record is stale by its age alone.
StaleByAge(q, c) == c # "none"

\* A record is stale when its process is dead. An empty file parses as the timestamp 0
\* of a lock without an owner, which is as old as can be.
StaleFile(q, c) == c = "empty" \/ (c = "record" /\ pc[q] = "dead")

\* Mutant of StaleDir: an empty directory is always taken for a lock being created.
StaleByOwner(files, wasOld) ==
  LET owners == {q \in DOMAIN files : files[q] # "none"}
  IN  owners # {} /\ \A q \in owners : StaleFile(q, files[q])

\* files maps the listed owners to the contents read, "none" for those gone meanwhile.
StaleDir(files, wasOld) ==
  LET owners == {q \in DOMAIN files : files[q] # "none"}
  IN  IF owners = {} THEN wasOld ELSE \A q \in owners : StaleFile(q, files[q])

-----------------------------------------------------------------------------
(* Control. *)

GoTo(p, phase) == pc' = [pc EXCEPT ![p] = phase]

Move(p, phase, d, m, f) ==
  /\ GoTo(p, phase)
  /\ at' = [at EXCEPT ![p] = d]
  /\ mode' = [mode EXCEPT ![p] = m]
  /\ flag' = [flag EXCEPT ![p] = f]

Stay == UNCHANGED <<at, mode, flag>>
Forget(p) ==
  /\ todo' = [todo EXCEPT ![p] = {}]
  /\ seen' = [seen EXCEPT ![p] = NoFiles]
  /\ old' = [old EXCEPT ![p] = FALSE]

TryLock(p) == Move(p, "mkdir", "lock", "status", FALSE)
Recheck(p) == Move(p, "list", "lock", "recheck", FALSE)

\* Mutant of NotCreated: the stale lock is removed although another process is reaping.
ReapAnyway(p) ==
  IF at[p] = "lock" THEN Move(p, "list", "lock", "status", FALSE)
  ELSE Move(p, "list", "lock", "remove", FALSE)

\* tryCreateDirectoryLock returned null.
NotCreated(p) ==
  IF at[p] = "lock" THEN Move(p, "list", "lock", "status", FALSE)
  ELSE IF ~flag[p] THEN Move(p, "list", "reaper", "status", FALSE)
  ELSE Recheck(p)

\* tryCreateDirectoryLock returned a lease; a reaper turns to the stale lock.
Created(p) ==
  IF at[p] = "lock" THEN GoTo(p, "held") /\ Stay
  ELSE Move(p, "list", "lock", "remove", FALSE)

\* removeStaleLockArtifact returned result.
Removed(p, result) ==
  IF at[p] = "lock" THEN Move(p, "unlink", "reaper", "remove", result)
  ELSE IF result THEN Move(p, "mkdir", "reaper", "status", TRUE)
  ELSE Recheck(p)

\* releaseOwnedLock returned.
Released(p) ==
  IF at[p] = "lock" THEN GoTo(p, "idle") /\ Stay
  ELSE IF flag[p] THEN TryLock(p)
  ELSE Recheck(p)
-----------------------------------------------------------------------------
(* tryCreateDirectoryLock *)

Acquire(p) ==
  /\ pc[p] = "idle"
  /\ TryLock(p)
  /\ UNCHANGED <<disk, snapshot, history>>

\* Mutant of Mkdir: the directory is created with recursive set, which an existing one passes.
MkdirRecursive(p) ==
  /\ pc[p] = "mkdir"
  /\ MakeDir(at[p]) /\ GoTo(p, "open") /\ Stay
  /\ UNCHANGED <<snapshot, history>>

Mkdir(p) ==
  /\ pc[p] = "mkdir"
  /\ IF exists[at[p]] THEN NotCreated(p) /\ UNCHANGED disk
     ELSE MakeDir(at[p]) /\ GoTo(p, "open") /\ Stay
  /\ UNCHANGED <<snapshot, history>>

\* The owner file is created empty and then written.
OpenOwner(p) ==
  /\ pc[p] = "open"
  /\ \/ ~exists[at[p]] /\ GoTo(p, "undo") /\ UNCHANGED disk
     \/ /\ exists[at[p]]
        /\ SetFile(at[p], p, "empty")
        /\ GoTo(p, "write")
  /\ Stay
  /\ UNCHANGED <<snapshot, history>>

\* Mutant of WriteOwner: the record is written in the format of the old lock files.
WriteLegacy(p) ==
  /\ pc[p] = "write"
  /\ SetFile(at[p], p, "timestamp")
  /\ GoTo(p, "sync")
  /\ Stay
  /\ UNCHANGED <<snapshot, history>>

\* Through the open handle: a file unlinked meanwhile is written all the same, out of sight.
WriteOwner(p) ==
  /\ pc[p] = "write"
  /\ IF content[at[p]][p] = "empty" THEN SetFile(at[p], p, "record") ELSE UNCHANGED disk
  /\ GoTo(p, "sync")
  /\ Stay
  /\ UNCHANGED <<snapshot, history>>

SyncDir(p) ==
  /\ pc[p] = "sync"
  /\ IF exists[at[p]] THEN Created(p) ELSE GoTo(p, "undo") /\ Stay
  /\ UNCHANGED <<disk, snapshot, history>>

\* The unlink before the rmdir finds no file: the directory was gone.
Undo(p) ==
  /\ pc[p] = "undo"
  /\ RemoveDir(at[p])
  /\ NotCreated(p)
  /\ UNCHANGED <<snapshot, history>>

-----------------------------------------------------------------------------
(* getLockArtifactStatus, readDirectoryLockSnapshot *)

\* lstat and readdir in one step. A directory that is gone counts as removed when the first
\* look misses it and as not removed when a later one does.
ListDir(p) ==
  /\ pc[p] = "list"
  /\ \/ /\ ~exists[at[p]]
        /\ IF mode[p] = "remove" THEN \E result \in BOOLEAN : Removed(p, result)
           ELSE IF at[p] = "lock" THEN TryLock(p)
           ELSE Recheck(p)
        /\ UNCHANGED snapshot
     \/ /\ exists[at[p]]
        /\ todo' = [todo EXCEPT ![p] = {q \in Procs : content[at[p]][q] # "none"}]
        /\ old' = [old EXCEPT ![p] = aged[at[p]]]
        /\ GoTo(p, "read")
        /\ Stay
        /\ UNCHANGED seen
  /\ UNCHANGED <<disk, history>>

\* The listed owner files are read in one step; two are listed only after a fault.
ReadOwners(p) ==
  LET files == [q \in Procs |-> IF q \in todo[p] THEN content[at[p]][q] ELSE "none"]
      stale == StaleDir(files, old[p])
  IN  /\ pc[p] = "read"
      /\ Readable(at[p], todo[p])
      /\ LET second == mode[p] = "status" /\ at[p] = "reaper" /\ stale /\ SecondRemover(p)
         IN  Count(second \/ TornRead(at[p], todo[p]))
      /\ CASE mode[p] = "remove" /\ stale ->
                /\ todo' = [todo EXCEPT ![p] = {q \in Procs : files[q] # "none"}]
                /\ seen' = [seen EXCEPT ![p] = files]
                /\ old' = [old EXCEPT ![p] = FALSE]
                /\ GoTo(p, "reread")
                /\ Stay
           [] mode[p] = "remove" /\ ~stale -> Forget(p) /\ Removed(p, FALSE)
           [] mode[p] = "recheck" -> Forget(p) /\ GoTo(p, "wait") /\ Stay
           [] mode[p] = "status" /\ at[p] = "lock" ->
                /\ Forget(p)
                /\ IF stale THEN Move(p, "mkdir", "reaper", "status", FALSE)
                   ELSE GoTo(p, "wait") /\ Stay
           [] mode[p] = "status" /\ at[p] = "reaper" ->
                /\ Forget(p)
                /\ IF stale THEN Move(p, "list", "reaper", "remove", FALSE) ELSE Recheck(p)
      /\ UNCHANGED <<disk, crashes>>

-----------------------------------------------------------------------------
(* removeStaleDirectoryLock, under the reaper lock or, for the reaper lock itself, without *)

Visited(p) == CHOOSE q \in todo[p] : TRUE

Reread(p) ==
  LET q == Visited(p)
      now == content[at[p]][q]
  IN  /\ pc[p] = "reread"
      /\ todo[p] # {} => Readable(at[p], {q})
      /\ Count(todo[p] # {} /\ TornRead(at[p], {q}))
      /\ CASE todo[p] = {} -> Forget(p) /\ GoTo(p, "sweep") /\ Stay
           [] todo[p] # {} /\ now = "none" ->
                /\ todo' = [todo EXCEPT ![p] = @ \ {q}]
                /\ Stay
                /\ UNCHANGED <<pc, seen, old>>
           [] todo[p] # {} /\ now # "none" /\ (now # seen[p][q] \/ ~StaleFile(q, now)) ->
                Forget(p) /\ Removed(p, FALSE)
           [] OTHER -> GoTo(p, "unlinkStale") /\ Stay /\ UNCHANGED snapshot
      /\ UNCHANGED <<disk, crashes>>

UnlinkStale(p) ==
  LET q == Visited(p)
  IN  /\ pc[p] = "unlinkStale"
      /\ IF content[at[p]][q] # "none" THEN SetFile(at[p], q, "none") ELSE UNCHANGED disk
      /\ todo' = [todo EXCEPT ![p] = @ \ {q}]
      /\ GoTo(p, "reread")
      /\ Stay
      /\ UNCHANGED <<seen, old, history>>

Sweep(p) ==
  /\ pc[p] = "sweep"
  /\ RemoveDir(at[p])
  /\ Removed(p, Empty(at[p]))
  /\ UNCHANGED <<snapshot, history>>

-----------------------------------------------------------------------------
(* acquireFileLock's retry, the operation of withFileLock, releaseOwnedLock *)

Retry(p) ==
  /\ pc[p] = "wait"
  /\ TryLock(p)
  /\ UNCHANGED <<disk, snapshot, history>>

GiveUp(p) ==
  /\ pc[p] = "wait"
  /\ p \notin Patient
  /\ GoTo(p, "idle")
  /\ Stay
  /\ UNCHANGED <<disk, snapshot, history>>

Release(p) ==
  /\ pc[p] = "held"
  /\ GoTo(p, "unlink")
  /\ Stay
  /\ UNCHANGED <<disk, snapshot, history>>

\* An owner whose file is gone leaves the directory alone: it is a replacement's.
Unlink(p) ==
  /\ pc[p] = "unlink"
  /\ IF content[at[p]][p] = "none" THEN Released(p) /\ UNCHANGED disk
     ELSE SetFile(at[p], p, "none") /\ GoTo(p, "rmdir") /\ Stay
  /\ UNCHANGED <<snapshot, history>>

Rmdir(p) ==
  /\ pc[p] = "rmdir"
  /\ RemoveDir(at[p])
  /\ Released(p)
  /\ UNCHANGED <<snapshot, history>>

\* The process dies; what it wrote stays on disk. A restart is another process.
Crash(p) ==
  /\ pc[p] \notin {"idle", "dead"}
  /\ crashes < MaxCrashes
  /\ crashes' = crashes + 1
  /\ Move(p, "dead", "lock", "status", FALSE)
  /\ Forget(p)
  /\ UNCHANGED <<disk, hazards>>

Step(p) ==
  \/ Mkdir(p) \/ OpenOwner(p) \/ WriteOwner(p) \/ SyncDir(p) \/ Undo(p)
  \/ ListDir(p) \/ ReadOwners(p)
  \/ Reread(p) \/ UnlinkStale(p) \/ Sweep(p)
  \/ Retry(p) \/ GiveUp(p)
  \/ Release(p) \/ Unlink(p) \/ Rmdir(p)

Next ==
  \/ \E p \in Procs : Acquire(p) \/ Step(p) \/ Crash(p)
  \/ \E d \in Paths : Age(d)

Spec == Init /\ [][Next]_vars

\* The event loop of a live process goes on, the caller's operation ends, and time passes.
\* Nobody has to acquire, and nobody has to die.
FairSpec ==
  /\ Spec
  /\ \A p \in Procs : WF_vars(Step(p))
  /\ \A d \in Paths : WF_vars(Age(d))

-----------------------------------------------------------------------------
(* Properties. *)

\* At most one live process is between the success of acquireFileLock and its release,
\* as long as none of the hazards has occurred.
MutualExclusion == sound => \A p, q \in Procs : pc[p] = "held" /\ pc[q] = "held" => p = q

\* The stale check preserves locks held by live processes: the holder's directory and its
\* record stay on disk, so that no mkdir can succeed and no reaper can find the lock stale.
LiveLocksPreserved ==
  \A p \in Procs : pc[p] = "held" => exists["lock"] /\ content["lock"][p] = "record"

\* The same, as long as none of the hazards has occurred.
SoundLocksPreserved == sound => LiveLocksPreserved

\* A process that removes the stale lock holds the reaper lock, and does so alone.
Reaping(p) == at[p] = "lock" /\ mode[p] = "remove" /\ pc[p] \in {"list", "read", "reread", "unlinkStale", "sweep"}
OneReaper ==
  sound => \A p \in Procs : Reaping(p) =>
    /\ content["reaper"][p] = "record"
    /\ \A q \in Procs : Reaping(q) => p = q

\* The lock is a mutex: requests, timeouts, releases and deaths, and one holder at a time,
\* until one of the hazards occurs.
Trying(p) == pc[p] \notin {"idle", "dead", "held"} /\ ~(at[p] = "lock" /\ pc[p] \in {"unlink", "rmdir"})
Abstract == INSTANCE Mutex WITH
  trying <- {p \in Procs : Trying(p)},
  inside <- {p \in Procs : pc[p] = "held"},
  dead <- {p \in Procs : pc[p] = "dead"}
ImplementsMutex == Abstract!MutexSpec

\* Whatever dead processes left behind, at either path and after any step, a process that
\* keeps trying sees the lock pass on: it or another process gets it.
LockProgress ==
  \A p \in Patient : Trying(p) ~> (~sound \/ pc[p] = "dead" \/ \E q \in Procs : pc[q] = "held")
=============================================================================
