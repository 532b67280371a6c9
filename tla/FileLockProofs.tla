--------------------------- MODULE FileLockProofs ---------------------------
(***************************************************************************)
(* Proofs about FileLock: as long as none of the hazards has occurred, one *)
(* process holds the lock, its directory and record stay on disk, one      *)
(* process reaps, and the lock is a mutex.                                 *)
(*                                                                         *)
(* The argument treats the lock and the reaper lock alike. A directory has *)
(* an occupant, from the mkdir that created it to its rmdir, and a remover *)
(* that has found it stale: never both, and never two of either. The       *)
(* remover of the lock is the occupant of the reaper; the remover of the   *)
(* reaper is alone unless the hazard of a second one has occurred.         *)
(***************************************************************************)
EXTENDS FileLock, TLAPS

\* p has created the directory d and not yet given it back.
Occupies(d, p) ==
  \/ at[p] = d /\ pc[p] \in {"open", "write", "sync", "held", "unlink", "rmdir"}
  \/ d = "reaper" /\ Reaping(p)

\* p is on its way to remove the stale directory d; it has found it stale.
Removes(d, p) ==
  at[p] = d /\ mode[p] = "remove" /\ pc[p] \in {"list", "read", "reread", "unlinkStale", "sweep"}
Dooms(d, p) ==
  Removes(d, p) /\ (pc[p] \in {"reread", "unlinkStale", "sweep"} \/ (pc[p] = "read" /\ old[p]))

\* What holds with hazards too: a directory that is gone has no files, one that has grown old
\* is empty, and only the lock itself is held.
Shape ==
  /\ \A d \in Paths : ~exists[d] => Empty(d)
  /\ \A d \in Paths : aged[d] => Empty(d)
  /\ \A p \in Procs : pc[p] = "held" => at[p] = "lock"
  /\ \A p \in Procs : pc[p] \in {"reread", "unlinkStale", "sweep"} => mode[p] = "remove"

OneOccupant == \A d \in Paths, p, q \in Procs : Occupies(d, p) /\ Occupies(d, q) => p = q

\* The occupant's directory is there and shows how far it is.
MarkedBy(d, p) ==
  /\ exists[d]
  /\ at[p] = d /\ pc[p] \in {"open", "rmdir"} => Empty(d) /\ ~aged[d]
  /\ at[p] = d /\ pc[p] = "write" => content[d][p] = "empty"
  /\ ~(at[p] = d /\ pc[p] \in {"open", "rmdir", "write"}) => content[d][p] = "record"
Marked == \A d \in Paths, p \in Procs : Occupies(d, p) => MarkedBy(d, p)

OneFile ==
  \A d \in Paths, p, q \in Procs : content[d][p] # "none" /\ content[d][q] # "none" => p = q

OneRemover == \A p, q \in Procs : Removes("reaper", p) /\ Removes("reaper", q) => p = q

\* A directory that was found stale is still there and nobody's.
Doomed == \A d \in Paths, p, q \in Procs : Dooms(d, p) => exists[d] /\ ~Occupies(d, q)

NoUndo == \A p \in Procs : pc[p] # "undo"

SoundInv == OneOccupant /\ Marked /\ OneFile /\ OneRemover /\ Doomed /\ NoUndo

LockInv == TypeOK /\ Shape /\ (sound => SoundInv)

-----------------------------------------------------------------------------
(* Where a step leaves its process. *)

Lands(p, phase, d, m) ==
  /\ pc'[p] = phase /\ at'[p] = d /\ mode'[p] = m
  /\ \A q \in Procs \ {p} : pc'[q] = pc[q] /\ at'[q] = at[q] /\ mode'[q] = mode[q]

ControlTypes ==
  /\ pc \in [Procs -> Phases] /\ at \in [Procs -> Paths]
  /\ mode \in [Procs -> {"status", "recheck", "remove"}] /\ flag \in [Procs -> BOOLEAN]

\* A step that says where its process goes leaves the control of the others alone.
LEMMA MoveLands ==
  ASSUME ControlTypes, NEW p \in Procs, NEW phase \in Phases, NEW d \in Paths,
         NEW m \in {"status", "recheck", "remove"}, NEW f \in BOOLEAN
  PROVE  /\ Move(p, phase, d, m, f) => ControlTypes' /\ Lands(p, phase, d, m)
         /\ GoTo(p, phase) /\ Stay => ControlTypes' /\ Lands(p, phase, at[p], mode[p])
BY DEF ControlTypes, Move, GoTo, Stay, Lands

\* Where a process goes that has neither a directory nor one to remove.
Leaves(p) ==
  \E phase \in {"mkdir", "list", "read", "wait"}, d \in Paths, m \in {"status", "recheck"} :
    Lands(p, phase, d, m)

\* Where the returns of the code's functions lead.
LEMMA Returns ==
  ASSUME ControlTypes, NEW p \in Procs
  PROVE  /\ NotCreated(p) => ControlTypes' /\ Leaves(p)
         /\ TryLock(p) \/ Recheck(p) => ControlTypes' /\ Leaves(p)
         /\ Created(p) => /\ ControlTypes'
                          /\ at[p] = "lock" => Lands(p, "held", "lock", mode[p])
                          /\ at[p] = "reaper" => Lands(p, "list", "lock", "remove")
         /\ \A result \in BOOLEAN : Removed(p, result) =>
              /\ ControlTypes'
              /\ at[p] = "lock" => Lands(p, "unlink", "reaper", "remove")
              /\ at[p] = "reaper" => Leaves(p)
         /\ Released(p) => /\ ControlTypes'
                           /\ at[p] = "lock" => Lands(p, "idle", "lock", mode[p])
                           /\ at[p] = "reaper" => Leaves(p)
<1>1. TryLock(p) \/ Recheck(p) => ControlTypes' /\ Leaves(p)
  BY MoveLands DEF TryLock, Recheck, Leaves, Phases, Paths
<1>2. NotCreated(p) => ControlTypes' /\ Leaves(p)
  BY <1>1, MoveLands DEF NotCreated, Leaves, Phases, Paths
<1>3. at[p] \in Paths /\ mode[p] \in {"status", "recheck", "remove"} /\ "lock" # "reaper"
  BY DEF ControlTypes
<1>4. Created(p) => /\ ControlTypes'
                    /\ at[p] = "lock" => Lands(p, "held", "lock", mode[p])
                    /\ at[p] = "reaper" => Lands(p, "list", "lock", "remove")
  BY <1>3, MoveLands DEF Created, Phases, Paths
<1>5. ASSUME NEW result \in BOOLEAN, Removed(p, result)
      PROVE  /\ ControlTypes'
             /\ at[p] = "lock" => Lands(p, "unlink", "reaper", "remove")
             /\ at[p] = "reaper" => Leaves(p)
  BY <1>1, <1>3, <1>5, MoveLands DEF Removed, Leaves, Phases, Paths
<1>6. Released(p) => /\ ControlTypes'
                     /\ at[p] = "lock" => Lands(p, "idle", "lock", mode[p])
                     /\ at[p] = "reaper" => Leaves(p)
  BY <1>1, <1>3, MoveLands DEF Released, Phases, Paths
<1> QED BY <1>1, <1>2, <1>4, <1>5, <1>6

-----------------------------------------------------------------------------
(* Types. *)

DiskTypes ==
  /\ exists \in [Paths -> BOOLEAN] /\ aged \in [Paths -> BOOLEAN]
  /\ content \in [Paths -> [Procs -> Contents]]

ViewTypes ==
  /\ todo \in [Procs -> SUBSET Procs] /\ old \in [Procs -> BOOLEAN]
  /\ seen \in [Procs -> [Procs -> Contents]]
  /\ crashes \in 0..MaxCrashes /\ hazards \in 0..MaxHazards

LEMMA DiskSteps ==
  ASSUME DiskTypes, NEW d \in Paths, NEW q, NEW c \in Contents
  PROVE  MakeDir(d) \/ RemoveDir(d) \/ SetFile(d, q, c) => DiskTypes'
<1>1. MakeDir(d) => DiskTypes'
  BY DEF DiskTypes, MakeDir
<1>2. RemoveDir(d) => DiskTypes'
  <2>1. (exists[d] /\ ~Empty(d)) \in BOOLEAN
    OBVIOUS
  <2> QED BY <2>1 DEF DiskTypes, RemoveDir
<1>3. SetFile(d, q, c) => DiskTypes'
  <2>1. [content[d] EXCEPT ![q] = c] \in [Procs -> Contents]
    BY DEF DiskTypes
  <2> QED BY <2>1 DEF DiskTypes, SetFile
<1> QED BY <1>1, <1>2, <1>3

LEMMA Counting ==
  ASSUME hazards \in 0..MaxHazards, NEW hazard \in BOOLEAN, Count(hazard)
  PROVE  /\ hazards' \in 0..MaxHazards
         /\ hazards' = 0 => hazards = 0 /\ ~hazard
         /\ hazards # 0 => hazards' # 0
BY LockAssumption DEF Count

LEMMA TypesNext ==
  ASSUME TypeOK, Next
  PROVE  TypeOK'
<1>1. ControlTypes /\ DiskTypes /\ ViewTypes
  BY DEF TypeOK, ControlTypes, DiskTypes, ViewTypes
<1>2. SUFFICES ControlTypes' /\ DiskTypes' /\ ViewTypes'
  BY DEF TypeOK, ControlTypes, DiskTypes, ViewTypes
<1> USE <1>1
<1> DEFINE Goal == ControlTypes' /\ DiskTypes' /\ ViewTypes'
<1>a. NoFiles \in [Procs -> Contents] /\ "empty" \in Contents /\ "record" \in Contents /\ "none" \in Contents
  BY DEF NoFiles, Contents
<1>b. UNCHANGED disk => DiskTypes'
  BY DEF disk, DiskTypes
<1>c. UNCHANGED <<snapshot, history>> => ViewTypes'
  BY DEF snapshot, history, ViewTypes
<1>d. \A p \in Procs : /\ at[p] \in Paths /\ mode[p] \in {"status", "recheck", "remove"}
                       /\ todo[p] \subseteq Procs /\ (todo[p] # {} => Visited(p) \in todo[p])
  BY DEF ControlTypes, ViewTypes, Visited
<1>e. ASSUME NEW p \in Procs, Forget(p)
      PROVE  /\ todo' \in [Procs -> SUBSET Procs] /\ old' \in [Procs -> BOOLEAN]
             /\ seen' \in [Procs -> [Procs -> Contents]]
  BY <1>a, <1>e DEF Forget, ViewTypes
<1>f. ASSUME NEW p \in Procs, NEW phase \in Phases, GoTo(p, phase), Stay PROVE ControlTypes'
  BY <1>f, <1>d, MoveLands
<1>g. Phases = {"idle", "mkdir", "open", "write", "sync", "undo", "list", "read", "reread",
                "unlinkStale", "sweep", "held", "unlink", "rmdir", "wait", "dead"}
      /\ "lock" \in Paths /\ "reaper" \in Paths
  BY DEF Phases, Paths
<1>1a. ASSUME NEW p \in Procs, Acquire(p) PROVE Goal
  BY <1>1a, <1>b, <1>c, Returns DEF Acquire
<1>2a. ASSUME NEW p \in Procs, Mkdir(p) PROVE Goal
  BY <1>2a, <1>a, <1>b, <1>c, <1>d, <1>f, <1>g, Returns, DiskSteps DEF Mkdir
<1>3. ASSUME NEW p \in Procs, OpenOwner(p) PROVE Goal
  BY <1>3, <1>a, <1>b, <1>c, <1>d, <1>f, <1>g, DiskSteps DEF OpenOwner
<1>4. ASSUME NEW p \in Procs, WriteOwner(p) PROVE Goal
  BY <1>4, <1>a, <1>b, <1>c, <1>d, <1>f, <1>g, DiskSteps DEF WriteOwner
<1>5. ASSUME NEW p \in Procs, SyncDir(p) PROVE Goal
  BY <1>5, <1>a, <1>b, <1>c, <1>d, <1>f, <1>g, Returns DEF SyncDir
<1>6. ASSUME NEW p \in Procs, Undo(p) PROVE Goal
  BY <1>6, <1>a, <1>b, <1>c, <1>d, Returns, DiskSteps DEF Undo
<1>7. ASSUME NEW p \in Procs, ListDir(p) PROVE Goal
  <2>1. CASE ~exists[at[p]]
    BY <1>7, <2>1, <1>b, <1>c, <1>d, Returns DEF ListDir
  <2>2. CASE exists[at[p]]
    <3>1. ViewTypes'
      <4>1. {q \in Procs : content[at[p]][q] # "none"} \in SUBSET Procs /\ aged[at[p]] \in BOOLEAN
        BY <1>d DEF DiskTypes
      <4>2. /\ todo' = [todo EXCEPT ![p] = {q \in Procs : content[at[p]][q] # "none"}]
            /\ old' = [old EXCEPT ![p] = aged[at[p]]]
            /\ UNCHANGED <<seen, crashes, hazards>>
        BY <1>7, <2>2 DEF ListDir, history
      <4> QED BY <4>1, <4>2 DEF ViewTypes
    <3> QED BY <1>7, <2>2, <3>1, <1>b, <1>f, <1>g DEF ListDir
  <2> QED BY <2>1, <2>2
<1>8. ASSUME NEW p \in Procs, ReadOwners(p) PROVE Goal
  <2> DEFINE files == [q \in Procs |-> IF q \in todo[p] THEN content[at[p]][q] ELSE "none"]
             stale == StaleDir(files, old[p])
             owners == {q \in Procs : files[q] # "none"}
  <2>1. files \in [Procs -> Contents] /\ owners \in SUBSET Procs
    BY <1>a, <1>d DEF DiskTypes
  <2>2. hazards' \in 0..MaxHazards /\ crashes' = crashes
    BY <1>8, LockAssumption DEF ReadOwners, Count, ViewTypes
  <2>3. \/ /\ todo' = [todo EXCEPT ![p] = owners] /\ seen' = [seen EXCEPT ![p] = files]
           /\ old' = [old EXCEPT ![p] = FALSE]
           /\ GoTo(p, "reread") /\ Stay
        \/ /\ Forget(p)
           /\ \/ Removed(p, FALSE)
              \/ GoTo(p, "wait") /\ Stay
              \/ Move(p, "mkdir", "reaper", "status", FALSE)
              \/ Move(p, "list", "reaper", "remove", FALSE)
              \/ Recheck(p)
    <3> HIDE DEF stale
    <3>1. stale \in BOOLEAN /\ at[p] \in {"lock", "reaper"}
      BY <1>d DEF stale, StaleDir, ViewTypes, Paths
    <3> QED BY <1>8, <1>d, <3>1 DEF ReadOwners, stale
  <2> HIDE DEF files, owners
  <2>4. ControlTypes'
    BY <2>3, <1>f, <1>g, Returns, MoveLands
  <2>5. ViewTypes'
    BY <2>1, <2>2, <2>3, <1>e DEF ViewTypes
  <2> QED BY <1>8, <2>4, <2>5, <1>b DEF ReadOwners
<1>9. ASSUME NEW p \in Procs, Reread(p) PROVE Goal
  <2>1. hazards' \in 0..MaxHazards /\ crashes' = crashes
    BY <1>9, LockAssumption DEF Reread, Count, ViewTypes
  <2>2. \/ Forget(p) /\ (Removed(p, FALSE) \/ (GoTo(p, "sweep") /\ Stay))
        \/ /\ todo' = [todo EXCEPT ![p] = @ \ {Visited(p)}]
           /\ Stay /\ UNCHANGED <<pc, seen, old>>
        \/ GoTo(p, "unlinkStale") /\ Stay /\ UNCHANGED snapshot
    BY <1>9 DEF Reread
  <2>3. ControlTypes'
    <3>1. Stay /\ UNCHANGED pc => ControlTypes'
      BY DEF ControlTypes, Stay
    <3> QED BY <2>2, <3>1, <1>f, <1>g, Returns
  <2>4. ViewTypes'
    <3>1. CASE Forget(p)
      BY <2>1, <3>1, <1>e DEF ViewTypes
    <3>2. CASE todo' = [todo EXCEPT ![p] = @ \ {Visited(p)}] /\ UNCHANGED <<seen, old>>
      BY <2>1, <3>2 DEF ViewTypes
    <3>3. CASE UNCHANGED snapshot
      BY <2>1, <3>3 DEF ViewTypes, snapshot
    <3> QED BY <2>2, <3>1, <3>2, <3>3
  <2> QED BY <1>9, <2>3, <2>4, <1>b DEF Reread
<1>10. ASSUME NEW p \in Procs, UnlinkStale(p) PROVE Goal
  <2>2. DiskTypes'
    BY <1>10, <1>a, <1>b, <1>d, DiskSteps DEF UnlinkStale
  <2>3. ViewTypes'
    BY <1>10 DEF UnlinkStale, ViewTypes, history
  <2> QED BY <1>10, <2>2, <2>3, <1>f, <1>g DEF UnlinkStale
<1>11. ASSUME NEW p \in Procs, Sweep(p) PROVE Goal
  <2>1. Empty(at[p]) \in BOOLEAN
    BY DEF Empty
  <2> QED BY <1>11, <2>1, <1>a, <1>c, <1>d, Returns, DiskSteps DEF Sweep
<1>12. ASSUME NEW p \in Procs, Retry(p) \/ GiveUp(p) \/ Release(p) PROVE Goal
  BY <1>12, <1>b, <1>c, <1>f, <1>g, Returns DEF Retry, GiveUp, Release
<1>13. ASSUME NEW p \in Procs, Unlink(p) PROVE Goal
  BY <1>13, <1>a, <1>b, <1>c, <1>d, <1>f, <1>g, Returns, DiskSteps DEF Unlink
<1>14. ASSUME NEW p \in Procs, Rmdir(p) PROVE Goal
  BY <1>14, <1>a, <1>c, <1>d, Returns, DiskSteps DEF Rmdir
<1>15. ASSUME NEW p \in Procs, Crash(p) PROVE Goal
  <2>1. ViewTypes'
    BY <1>15, <1>e, LockAssumption DEF Crash, ViewTypes
  <2> QED BY <1>15, <2>1, <1>b, <1>g, MoveLands DEF Crash
<1>16. ASSUME NEW d \in Paths, Age(d) PROVE Goal
  <2>1. ViewTypes'
    BY <1>16, LockAssumption DEF Age, Count, ViewTypes, snapshot
  <2> QED BY <1>16, <2>1 DEF Age, ControlTypes, DiskTypes
<1> QED BY <1>1a, <1>2a, <1>3, <1>4, <1>5, <1>6, <1>7, <1>8, <1>9, <1>10, <1>11, <1>12, <1>13, <1>14, <1>15, <1>16
        DEF Next, Step

-----------------------------------------------------------------------------
(* The shape of the disk. *)

DiskShape == \A d \in Paths : (~exists[d] => Empty(d)) /\ (aged[d] => Empty(d))
ControlShape(p) ==
  /\ pc[p] = "held" => at[p] = "lock"
  /\ pc[p] \in {"reread", "unlinkStale", "sweep"} => mode[p] = "remove"

LEMMA DiskShapeKept ==
  ASSUME DiskTypes, DiskShape, NEW d \in Paths, NEW q, NEW c \in Contents
  PROVE  /\ UNCHANGED disk => DiskShape'
         /\ MakeDir(d) \/ RemoveDir(d) => DiskShape'
         /\ SetFile(d, q, c) /\ (exists[d] \/ c = "none") => DiskShape'
<1>1. UNCHANGED disk => DiskShape'
  BY DEF disk, DiskShape, Empty
<1>2. MakeDir(d) => DiskShape'
  BY DEF DiskTypes, DiskShape, MakeDir, Empty
<1>3. RemoveDir(d) => DiskShape'
  <2>1. (exists[d] /\ ~Empty(d)) \in BOOLEAN
    OBVIOUS
  <2>2. ASSUME RemoveDir(d)
        PROVE  /\ exists'[d] = (exists[d] /\ ~Empty(d)) /\ UNCHANGED <<content, aged>>
               /\ \A e \in Paths \ {d} : exists'[e] = exists[e]
    BY <2>1, <2>2 DEF DiskTypes, RemoveDir
  <2> QED BY <2>2 DEF DiskShape, Empty
<1>4. ASSUME SetFile(d, q, c), exists[d] \/ c = "none" PROVE DiskShape'
  <2>1. /\ content'[d] = [content[d] EXCEPT ![q] = c] /\ aged'[d] = FALSE /\ UNCHANGED exists
        /\ \A e \in Paths \ {d} : content'[e] = content[e] /\ aged'[e] = aged[e]
    BY <1>4 DEF DiskTypes, SetFile
  <2>2. content[d] = NoFiles /\ c = "none" => content'[d] = NoFiles
    BY <2>1 DEF NoFiles
  <2> QED BY <1>4, <2>1, <2>2 DEF DiskShape, Empty
<1> QED BY <1>1, <1>2, <1>3, <1>4

\* What the step of p does to the control.
LEMMA ControlShapeKept ==
  ASSUME \A p \in Procs : ControlShape(p), NEW p \in Procs, NEW phase, NEW d, NEW m, Lands(p, phase, d, m),
         phase = "held" => d = "lock", phase \in {"reread", "unlinkStale", "sweep"} => m = "remove"
  PROVE  \A q \in Procs : ControlShape(q)'
BY DEF Lands, ControlShape

LEMMA LeavesShape ==
  ASSUME \A p \in Procs : ControlShape(p), NEW p \in Procs, Leaves(p)
  PROVE  \A q \in Procs : ControlShape(q)'
BY ControlShapeKept DEF Leaves

LEMMA ShapeNext ==
  ASSUME TypeOK, Shape, Next
  PROVE  Shape'
<1>1. /\ ControlTypes /\ DiskTypes /\ DiskShape /\ \A p \in Procs : ControlShape(p)
      /\ \A p \in Procs : at[p] \in Paths /\ (at[p] = "lock" \/ at[p] = "reaper")
  BY DEF TypeOK, ControlTypes, DiskTypes, Shape, DiskShape, ControlShape, Paths
<1>2. SUFFICES DiskShape' /\ \A p \in Procs : ControlShape(p)'
  BY DEF Shape, DiskShape, ControlShape
<1> USE <1>1
<1> DEFINE Goal == DiskShape' /\ \A p \in Procs : ControlShape(p)'
<1>a. Phases = {"idle", "mkdir", "open", "write", "sync", "undo", "list", "read", "reread",
                "unlinkStale", "sweep", "held", "unlink", "rmdir", "wait", "dead"}
      /\ "lock" \in Paths /\ "reaper" \in Paths /\ \A p \in Procs : mode[p] \in {"status", "recheck", "remove"}
      /\ "empty" \in Contents /\ "record" \in Contents /\ "none" \in Contents
  BY DEF Phases, Paths, Contents, ControlTypes
<1>b. ASSUME NEW p \in Procs, NEW phase \in Phases \ {"held", "reread", "unlinkStale", "sweep"}, GoTo(p, phase), Stay
      PROVE  \A q \in Procs : ControlShape(q)'
  <2>1. Lands(p, phase, at[p], mode[p])
    BY <1>a, <1>b, MoveLands
  <2> QED BY <2>1, <1>a, <1>b, ControlShapeKept
<1>c. ASSUME NEW p \in Procs, NEW phase \in {"reread", "unlinkStale", "sweep"}, mode[p] = "remove", GoTo(p, phase), Stay
      PROVE  \A q \in Procs : ControlShape(q)'
  <2>1. Lands(p, phase, at[p], mode[p])
    BY <1>a, <1>c, MoveLands
  <2> QED BY <2>1, <1>a, <1>c, ControlShapeKept
<1>d. \A p \in Procs : NotCreated(p) \/ TryLock(p) \/ Recheck(p) => \A q \in Procs : ControlShape(q)'
  BY Returns, LeavesShape
<1>e. ASSUME NEW p \in Procs, Created(p) \/ Released(p) \/ \E result \in BOOLEAN : Removed(p, result)
      PROVE  \A q \in Procs : ControlShape(q)'
  BY <1>e, Returns, LeavesShape, ControlShapeKept
<1>f. UNCHANGED <<pc, at, mode>> => \A q \in Procs : ControlShape(q)'
  BY DEF ControlShape
<1>g. UNCHANGED disk => DiskShape'
  BY DEF disk, DiskShape, Empty
<1>3. ASSUME NEW p \in Procs, Acquire(p) \/ Retry(p) \/ GiveUp(p) \/ Release(p) \/ Crash(p) PROVE Goal
  <2>1. CASE Crash(p)
    <3>1. Lands(p, "dead", "lock", "status")
      BY <2>1, <1>a, MoveLands DEF Crash
    <3> QED BY <2>1, <3>1, <1>g, ControlShapeKept DEF Crash
  <2> QED BY <1>3, <2>1, <1>a, <1>b, <1>d, <1>g DEF Acquire, Retry, GiveUp, Release
<1>4. ASSUME NEW p \in Procs, Mkdir(p) PROVE Goal
  BY <1>4, <1>a, <1>b, <1>d, <1>g, DiskShapeKept DEF Mkdir
<1>5. ASSUME NEW p \in Procs, OpenOwner(p) PROVE Goal
  BY <1>5, <1>a, <1>b, <1>g, DiskShapeKept DEF OpenOwner
<1>6. ASSUME NEW p \in Procs, WriteOwner(p) PROVE Goal
  <2>1. content[at[p]][p] = "empty" => exists[at[p]]
    BY DEF DiskShape, Empty, NoFiles
  <2> QED BY <1>6, <2>1, <1>a, <1>b, <1>g, DiskShapeKept DEF WriteOwner
<1>7. ASSUME NEW p \in Procs, SyncDir(p) PROVE Goal
  BY <1>7, <1>a, <1>b, <1>e, <1>g DEF SyncDir
<1>8. ASSUME NEW p \in Procs, Undo(p) PROVE Goal
  BY <1>8, <1>a, <1>d, DiskShapeKept DEF Undo
<1>9. ASSUME NEW p \in Procs, ListDir(p) PROVE Goal
  BY <1>9, <1>a, <1>b, <1>d, <1>e, <1>g DEF ListDir
<1>10. ASSUME NEW p \in Procs, ReadOwners(p) PROVE Goal
  <2>1. \/ mode[p] = "remove" /\ GoTo(p, "reread") /\ Stay
        \/ Removed(p, FALSE)
        \/ GoTo(p, "wait") /\ Stay
        \/ Move(p, "mkdir", "reaper", "status", FALSE)
        \/ Move(p, "list", "reaper", "remove", FALSE)
        \/ Recheck(p)
    <3> DEFINE stale == StaleDir([q \in Procs |-> IF q \in todo[p] THEN content[at[p]][q] ELSE "none"], old[p])
    <3>1. stale \in BOOLEAN
      BY DEF StaleDir, TypeOK
    <3> HIDE DEF stale
    <3> QED BY <1>10, <1>a, <3>1 DEF ReadOwners, stale
  <2>2. Removed(p, FALSE) \/ Recheck(p) => \A q \in Procs : ControlShape(q)'
    BY <1>d, <1>e
  <2>3. GoTo(p, "wait") /\ Stay => \A q \in Procs : ControlShape(q)'
    BY <1>a, <1>b
  <2>4. mode[p] = "remove" /\ GoTo(p, "reread") /\ Stay => \A q \in Procs : ControlShape(q)'
    BY <1>c
  <2>5. Move(p, "mkdir", "reaper", "status", FALSE) => \A q \in Procs : ControlShape(q)'
    <3>1. Move(p, "mkdir", "reaper", "status", FALSE) => Lands(p, "mkdir", "reaper", "status")
      BY <1>a, MoveLands
    <3> QED BY <3>1, ControlShapeKept
  <2>6. Move(p, "list", "reaper", "remove", FALSE) => \A q \in Procs : ControlShape(q)'
    <3>1. Move(p, "list", "reaper", "remove", FALSE) => Lands(p, "list", "reaper", "remove")
      BY <1>a, MoveLands
    <3> QED BY <3>1, ControlShapeKept
  <2>7. UNCHANGED disk
    BY <1>10 DEF ReadOwners
  <2> QED BY <2>1, <2>2, <2>3, <2>4, <2>5, <2>6, <2>7, <1>g
<1>11. ASSUME NEW p \in Procs, Reread(p) PROVE Goal
  <2>1. mode[p] = "remove"
    BY <1>11 DEF Reread, ControlShape
  <2>2. \/ Removed(p, FALSE)
        \/ GoTo(p, "sweep") /\ Stay
        \/ GoTo(p, "unlinkStale") /\ Stay
        \/ UNCHANGED <<pc, at, mode>>
    BY <1>11 DEF Reread, Stay
  <2> QED BY <1>11, <2>1, <2>2, <1>c, <1>e, <1>f, <1>g DEF Reread
<1>12. ASSUME NEW p \in Procs, UnlinkStale(p) PROVE Goal
  <2>1. mode[p] = "remove"
    BY <1>12 DEF UnlinkStale, ControlShape
  <2> QED BY <1>12, <2>1, <1>a, <1>c, <1>g, DiskShapeKept DEF UnlinkStale
<1>13. ASSUME NEW p \in Procs, Sweep(p) PROVE Goal
  <2>1. Empty(at[p]) \in BOOLEAN
    BY DEF Empty
  <2> QED BY <1>13, <2>1, <1>a, <1>e, DiskShapeKept DEF Sweep
<1>14. ASSUME NEW p \in Procs, Unlink(p) \/ Rmdir(p) PROVE Goal
  BY <1>14, <1>a, <1>b, <1>e, <1>g, DiskShapeKept DEF Unlink, Rmdir
<1>15. ASSUME NEW d \in Paths, Age(d) PROVE Goal
  <2>1. DiskShape'
    BY <1>15 DEF Age, DiskShape, DiskTypes, Empty
  <2> QED BY <1>15, <2>1, <1>f DEF Age
<1> QED BY <1>3, <1>4, <1>5, <1>6, <1>7, <1>8, <1>9, <1>10, <1>11, <1>12, <1>13, <1>14, <1>15 DEF Next, Step

-----------------------------------------------------------------------------
(* While no hazard has occurred. *)

\* The step of p changes neither the control of another process nor what it saw.
Others(p) ==
  \A q \in Procs \ {p} : pc'[q] = pc[q] /\ at'[q] = at[q] /\ mode'[q] = mode[q] /\ old'[q] = old[q]

Same(d) == exists'[d] = exists[d] /\ content'[d] = content[d] /\ aged'[d] = aged[d]

\* A step that leaves the disk alone: p takes no directory it did not occupy, and dooms one
\* only when nobody occupies it.
LEMMA ControlStep ==
  ASSUME SoundInv, NEW p \in Procs, Others(p), UNCHANGED disk,
         \A d \in Paths : Occupies(d, p)' => Occupies(d, p) /\ MarkedBy(d, p)',
         Removes("reaper", p)' => \A q \in Procs \ {p} : ~Removes("reaper", q),
         \A d \in Paths : Dooms(d, p)' => exists[d] /\ \A q \in Procs : ~Occupies(d, q),
         pc'[p] # "undo"
  PROVE  SoundInv'
<1>1. /\ \A d \in Paths, q \in Procs \ {p} : /\ Occupies(d, q)' <=> Occupies(d, q)
                                             /\ Removes(d, q)' <=> Removes(d, q)
                                             /\ Dooms(d, q)' <=> Dooms(d, q)
                                             /\ MarkedBy(d, q)' <=> MarkedBy(d, q)
      /\ exists' = exists /\ content' = content /\ aged' = aged
  BY DEF Others, disk, Occupies, Reaping, Removes, Dooms, MarkedBy, Empty
<1>2. OneOccupant'
  BY <1>1 DEF SoundInv, OneOccupant
<1>3. Marked'
  BY <1>1 DEF SoundInv, Marked
<1>4. OneFile'
  BY <1>1 DEF SoundInv, OneFile
<1>5. OneRemover'
  BY <1>1 DEF SoundInv, OneRemover, Paths
<1>6. Doomed'
  BY <1>1 DEF SoundInv, Doomed
<1>7. NoUndo'
  BY DEF SoundInv, NoUndo, Others
<1> QED BY <1>2, <1>3, <1>4, <1>5, <1>6, <1>7 DEF SoundInv

\* A step that changes one directory, which nobody but p occupies.
LEMMA DirStep ==
  ASSUME SoundInv, NEW p \in Procs, NEW d \in Paths, Others(p),
         \A e \in Paths \ {d} : Same(e),
         \A q \in Procs \ {p} : ~Occupies(d, q),
         \A e \in Paths : Occupies(e, p)' => (e = d \/ Occupies(e, p)) /\ MarkedBy(e, p)',
         \A e \in Paths : Removes(e, p)' => Removes(e, p),
         \A e \in Paths : Dooms(e, p)' => Dooms(e, p),
         \A q \in Procs : Dooms(d, q)' => exists'[d] /\ ~Occupies(d, p)',
         \A q, r \in Procs : content'[d][q] # "none" /\ content'[d][r] # "none" => q = r,
         pc'[p] # "undo"
  PROVE  SoundInv'
<1>1. \A e \in Paths, q \in Procs \ {p} : /\ Occupies(e, q)' <=> Occupies(e, q)
                                          /\ Removes(e, q)' <=> Removes(e, q)
                                          /\ Dooms(e, q)' <=> Dooms(e, q)
  BY DEF Others, Occupies, Reaping, Removes, Dooms
<1>2. \A e \in Paths \ {d}, q \in Procs \ {p} : MarkedBy(e, q)' <=> MarkedBy(e, q)
  BY DEF Others, MarkedBy, Empty, Same
<1>3. OneOccupant'
  BY <1>1 DEF SoundInv, OneOccupant
<1>4. Marked'
  BY <1>1, <1>2 DEF SoundInv, Marked
<1>5. OneFile'
  BY DEF SoundInv, OneFile, Same
<1>6. OneRemover'
  BY <1>1 DEF SoundInv, OneRemover, Paths
<1>7. Doomed'
  <2> SUFFICES ASSUME NEW e \in Paths, NEW q \in Procs, NEW r \in Procs, Dooms(e, q)'
               PROVE  exists'[e] /\ ~Occupies(e, r)'
    BY DEF Doomed
  <2>1. CASE e = d
    BY <2>1, <1>1
  <2>2. CASE e # d
    BY <2>2, <1>1 DEF SoundInv, Doomed, Same
  <2> QED BY <2>1, <2>2
<1>8. NoUndo'
  BY DEF SoundInv, NoUndo, Others
<1> QED BY <1>3, <1>4, <1>5, <1>6, <1>7, <1>8 DEF SoundInv

\* p has nothing to give back or to remove.
Free(p) == \A d \in Paths : ~Occupies(d, p) /\ ~Removes(d, p) /\ ~Dooms(d, p)

LEMMA LeavesFree ==
  ASSUME NEW p \in Procs
  PROVE  /\ Leaves(p) => Free(p)' /\ pc'[p] # "undo"
         /\ pc'[p] \in {"idle", "mkdir", "wait", "dead"} => Free(p)' /\ pc'[p] # "undo"
BY DEF Leaves, Lands, Free, Occupies, Reaping, Removes, Dooms

LEMMA FreeStep ==
  ASSUME SoundInv, NEW p \in Procs, Others(p), UNCHANGED disk, Free(p)', pc'[p] # "undo"
  PROVE  SoundInv'
BY ControlStep DEF Free, Paths

\* The reaper that ends its removal of the lock turns to its own directory.
LEMMA ReaperReturns ==
  ASSUME SoundInv, NEW p \in Procs, Others(p), UNCHANGED disk, Reaping(p), Lands(p, "unlink", "reaper", "remove")
  PROVE  SoundInv'
<1>1. Occupies("reaper", p) /\ MarkedBy("reaper", p) /\ at[p] = "lock"
  BY DEF SoundInv, Marked, Occupies, Reaping, Paths
<1>2. exists["reaper"] /\ content["reaper"][p] = "record"
  BY <1>1 DEF MarkedBy
<1>3. \A d \in Paths : Occupies(d, p)' => d = "reaper"
  BY DEF Lands, Occupies, Reaping
<1>4. MarkedBy("reaper", p)'
  BY <1>2 DEF MarkedBy, Lands, disk
<1>5. \A d \in Paths : ~Removes(d, p)' /\ ~Dooms(d, p)'
  BY DEF Lands, Removes, Dooms
<1> QED BY <1>1, <1>3, <1>4, <1>5, ControlStep DEF Lands, Paths

\* A hazard that has occurred stays on record.
LEMMA SoundBefore ==
  ASSUME TypeOK, Next, sound'
  PROVE  sound
<1>1. UNCHANGED history => UNCHANGED hazards
  BY DEF history
<1>2. \A d \in Paths : Age(d) => \E hazard \in BOOLEAN : Count(hazard)
  <2>1. \A d \in Paths : Pausing(d) \in BOOLEAN
    BY DEF Pausing
  <2> QED BY <2>1 DEF Age
<1>3. \A p \in Procs : ReadOwners(p) \/ Reread(p) => \E hazard \in BOOLEAN : Count(hazard)
  BY DEF ReadOwners, Reread
<1>4. hazards' = hazards \/ \E hazard \in BOOLEAN : Count(hazard)
  BY <1>1, <1>2, <1>3 DEF Next, Step, Acquire, Mkdir, OpenOwner, WriteOwner, SyncDir, Undo, ListDir, UnlinkStale, Sweep,
     Retry, GiveUp, Release, Unlink, Rmdir, Crash
<1> QED BY <1>4, Counting DEF sound, TypeOK

LEMMA SoundNext ==
  ASSUME TypeOK, Shape, sound => SoundInv, Next, sound'
  PROVE  SoundInv'
<1>1. /\ ControlTypes /\ DiskTypes /\ DiskShape
      /\ \A p \in Procs : at[p] \in Paths /\ mode[p] \in {"status", "recheck", "remove"} /\ ControlShape(p)
      /\ todo \in [Procs -> SUBSET Procs] /\ old \in [Procs -> BOOLEAN] /\ seen \in [Procs -> [Procs -> Contents]]
      /\ hazards \in 0..MaxHazards
  BY DEF TypeOK, ControlTypes, DiskTypes, Shape, DiskShape, ControlShape
<1>2. sound
  BY SoundBefore
<1>3. SoundInv
  BY <1>2
<1> HIDE DEF sound
<1> USE <1>1, <1>3
<1>a. /\ Phases = {"idle", "mkdir", "open", "write", "sync", "undo", "list", "read", "reread",
                   "unlinkStale", "sweep", "held", "unlink", "rmdir", "wait", "dead"}
      /\ Paths = {"lock", "reaper"} /\ \A p \in Procs : pc[p] \in Phases
  BY DEF Phases, Paths, ControlTypes
<1>b. ASSUME NEW p \in Procs, NEW phase, NEW d, NEW m, Lands(p, phase, d, m),
             UNCHANGED old \/ \E o : old' = [old EXCEPT ![p] = o]
      PROVE  Others(p)
  BY <1>b DEF Lands, Others
<1>c. \A p \in Procs : /\ UNCHANGED snapshot => UNCHANGED old
                       /\ Forget(p) => \E o : old' = [old EXCEPT ![p] = o]
  BY DEF snapshot, Forget
<1>d. \A p \in Procs : Leaves(p) => \E phase, d, m : Lands(p, phase, d, m)
  BY DEF Leaves
\* A process that leaves the disk alone and ends up free.
<1>e. ASSUME NEW p \in Procs, UNCHANGED disk, UNCHANGED old \/ \E o : old' = [old EXCEPT ![p] = o],
             Leaves(p) \/ \E phase \in {"idle", "mkdir", "wait", "dead"} : \E d, m : Lands(p, phase, d, m)
      PROVE  SoundInv'
  <2>1. Others(p)
    BY <1>b, <1>d, <1>e
  <2>2. Free(p)' /\ pc'[p] # "undo"
    BY <1>e, LeavesFree DEF Lands
  <2> QED BY <1>e, <2>1, <2>2, FreeStep
<1>f. ASSUME NEW p \in Procs, NEW phase \in Phases, GoTo(p, phase), Stay
      PROVE  Lands(p, phase, at[p], mode[p])
  BY <1>f, MoveLands
<1>4. ASSUME NEW p \in Procs, Acquire(p) \/ Retry(p) PROVE SoundInv'
  <2>1. Leaves(p) /\ UNCHANGED <<disk, old>>
    BY <1>4, <1>c, Returns DEF Acquire, Retry
  <2> QED BY <2>1, <1>e
<1>5. ASSUME NEW p \in Procs, GiveUp(p) PROVE SoundInv'
  <2>1. Lands(p, "idle", at[p], mode[p]) /\ UNCHANGED <<disk, old>>
    BY <1>5, <1>a, <1>c, <1>f DEF GiveUp
  <2> QED BY <2>1, <1>e
<1>6. ASSUME NEW p \in Procs, Crash(p) PROVE SoundInv'
  <2>1. Lands(p, "dead", "lock", "status")
    BY <1>6, <1>a, MoveLands DEF Crash
  <2>2. UNCHANGED disk /\ \E o : old' = [old EXCEPT ![p] = o]
    BY <1>6, <1>c DEF Crash
  <2> QED BY <2>1, <2>2, <1>e
<1>7. ASSUME NEW p \in Procs, Release(p) PROVE SoundInv'
  <2>1. Lands(p, "unlink", "lock", mode[p]) /\ UNCHANGED <<disk, old>> /\ at[p] = "lock" /\ pc[p] = "held"
    BY <1>7, <1>a, <1>c, <1>f DEF Release, ControlShape
  <2>2. Others(p)
    BY <2>1, <1>b
  <2>3. Occupies("lock", p) /\ MarkedBy("lock", p)
    BY <2>1, <1>a DEF Occupies, SoundInv, Marked
  <2>4. \A d \in Paths : Occupies(d, p)' => d = "lock"
    BY <2>1 DEF Lands, Occupies, Reaping
  <2>5. MarkedBy("lock", p)'
    BY <2>1, <2>3 DEF MarkedBy, Lands, disk
  <2>6. \A d \in Paths : ~Removes(d, p)' /\ ~Dooms(d, p)'
    BY <2>1 DEF Lands, Removes, Dooms
  <2> QED BY <2>1, <2>2, <2>3, <2>4, <2>5, <2>6, <1>a, ControlStep DEF Lands
<1>8. ASSUME NEW p \in Procs, Mkdir(p) PROVE SoundInv'
  <2>1. CASE exists[at[p]]
    <3>1. Leaves(p) /\ UNCHANGED <<disk, old>>
      BY <1>8, <2>1, <1>c, Returns DEF Mkdir
    <3> QED BY <3>1, <1>e
  <2>2. CASE ~exists[at[p]]
    <3> SUFFICES ASSUME NEW d \in Paths, d = at[p] PROVE SoundInv'
      OBVIOUS
    <3>1. MakeDir(d) /\ Lands(p, "open", d, mode[p]) /\ UNCHANGED old /\ ~exists[d] /\ Empty(d)
      BY <1>8, <2>2, <1>a, <1>c, <1>f DEF Mkdir, DiskShape
    <3>2. /\ exists'[d] = TRUE /\ aged'[d] = FALSE /\ content' = content
          /\ \A e \in Paths \ {d} : Same(e)
      BY <3>1 DEF MakeDir, Same, DiskTypes
    <3>3. \A q \in Procs : ~Occupies(d, q)
      BY <3>1 DEF SoundInv, Marked, MarkedBy
    <3>4. \A q \in Procs : ~Dooms(d, q)
      BY <3>1 DEF SoundInv, Doomed
    <3>5. Others(p)
      BY <3>1, <1>b
    <3>6. \A e \in Paths : Occupies(e, p)' => e = d
      BY <3>1 DEF Occupies, Lands, Reaping
    <3>7. MarkedBy(d, p)'
      BY <3>1, <3>2 DEF MarkedBy, Lands, Empty
    <3>8. \A e \in Paths : ~Removes(e, p)' /\ ~Dooms(e, p)'
      BY <3>1 DEF Lands, Removes, Dooms
    <3>9. \A q \in Procs : ~Dooms(d, q)'
      BY <3>4, <3>5, <3>8 DEF Others, Dooms, Removes
    <3>10. \A q, r \in Procs : content'[d][q] # "none" /\ content'[d][r] # "none" => q = r
      BY <3>2 DEF SoundInv, OneFile
    <3> QED BY <3>1, <3>2, <3>3, <3>5, <3>6, <3>7, <3>8, <3>9, <3>10, DirStep DEF Lands
  <2> QED BY <2>1, <2>2
\* The occupant of a directory that changes its own directory.
<1>g. ASSUME NEW p \in Procs, NEW phase \in {"write", "sync", "rmdir"}, NEW c \in Contents,
             Occupies(at[p], p), SetFile(at[p], p, c), Lands(p, phase, at[p], mode[p]), UNCHANGED old,
             \A q \in Procs \ {p} : content[at[p]][q] = "none",
             phase = "write" => c = "empty", phase = "sync" => c = "record", phase = "rmdir" => c = "none"
      PROVE  SoundInv'
  <2> SUFFICES ASSUME NEW d \in Paths, d = at[p] PROVE SoundInv'
    OBVIOUS
  <2>1. /\ content'[d][p] = c /\ \A q \in Procs \ {p} : content'[d][q] = "none"
        /\ content'[d] \in [Procs -> Contents]
        /\ aged'[d] = FALSE /\ exists' = exists /\ exists[d]
        /\ \A e \in Paths \ {d} : Same(e)
    <3>1. exists[d]
      BY <1>g DEF SoundInv, Marked, MarkedBy
    <3>2. content'[d] = [content[d] EXCEPT ![p] = c] /\ content[d] \in [Procs -> Contents]
      BY <1>g DEF SetFile, DiskTypes
    <3> QED BY <1>g, <3>1, <3>2 DEF SetFile, DiskTypes, Same
  <2>2. \A q \in Procs \ {p} : ~Occupies(d, q)
    BY <1>g DEF SoundInv, OneOccupant
  <2>3. \A q \in Procs : ~Dooms(d, q)
    BY <1>g DEF SoundInv, Doomed
  <2>4. Others(p)
    BY <1>b, <1>g
  <2>5. \A e \in Paths : Occupies(e, p)' => e = d
    BY <1>g DEF Occupies, Lands, Reaping
  <2>6. MarkedBy(d, p)'
    <3>1. phase = "rmdir" => content'[d] = NoFiles
      BY <1>g, <2>1 DEF NoFiles
    <3> QED BY <1>g, <2>1, <3>1 DEF MarkedBy, Lands, Empty
  <2>7. \A e \in Paths : ~Removes(e, p)' /\ ~Dooms(e, p)'
    BY <1>g DEF Lands, Removes, Dooms
  <2>8. \A q \in Procs : ~Dooms(d, q)'
    BY <2>3, <2>4, <2>7 DEF Others, Dooms, Removes
  <2>9. \A q, r \in Procs : content'[d][q] # "none" /\ content'[d][r] # "none" => q = r
    BY <2>1
  <2>10. pc'[p] # "undo"
    BY <1>g DEF Lands
  <2> QED BY <2>1, <2>2, <2>4, <2>5, <2>6, <2>7, <2>8, <2>9, <2>10, DirStep
<1>h. \A p \in Procs : pc[p] \in {"open", "write", "sync", "unlink", "rmdir"} =>
        Occupies(at[p], p) /\ MarkedBy(at[p], p) /\ exists[at[p]]
  BY DEF Occupies, SoundInv, Marked, MarkedBy
<1>i. "none" \in Contents /\ "empty" \in Contents /\ "record" \in Contents
  BY DEF Contents
<1>9. ASSUME NEW p \in Procs, OpenOwner(p) PROVE SoundInv'
  <2>1. pc[p] = "open" /\ SetFile(at[p], p, "empty") /\ UNCHANGED old /\ Lands(p, "write", at[p], mode[p])
    BY <1>9, <1>a, <1>c, <1>f, <1>h DEF OpenOwner
  <2>2. \A q \in Procs : content[at[p]][q] = "none"
    BY <2>1, <1>h DEF MarkedBy, Empty, NoFiles
  <2> QED BY <2>1, <2>2, <1>g, <1>h, <1>i
<1>10. ASSUME NEW p \in Procs, WriteOwner(p) PROVE SoundInv'
  <2>1. pc[p] = "write" /\ content[at[p]][p] = "empty"
    BY <1>10, <1>h DEF WriteOwner, MarkedBy
  <2>2. SetFile(at[p], p, "record") /\ UNCHANGED old /\ Lands(p, "sync", at[p], mode[p])
    BY <1>10, <2>1, <1>a, <1>c, <1>f DEF WriteOwner
  <2>3. \A q \in Procs \ {p} : content[at[p]][q] = "none"
    BY <2>1 DEF SoundInv, OneFile
  <2> QED BY <2>1, <2>2, <2>3, <1>g, <1>h, <1>i
<1>11. ASSUME NEW p \in Procs, SyncDir(p) PROVE SoundInv'
  <2> SUFFICES ASSUME NEW d \in Paths, d = at[p] PROVE SoundInv'
    OBVIOUS
  <2>1. pc[p] = "sync" /\ Created(p) /\ UNCHANGED <<disk, old>>
    BY <1>11, <1>c, <1>h DEF SyncDir
  <2>2. Occupies(d, p) /\ exists[d] /\ content[d][p] = "record"
    BY <2>1, <1>h DEF MarkedBy
  <2>3. \/ d = "lock" /\ Lands(p, "held", "lock", mode[p])
        \/ d = "reaper" /\ Lands(p, "list", "lock", "remove")
    BY <2>1, <1>a, Returns
  <2>4. Others(p)
    BY <2>1, <2>3, <1>b
  <2>5. \A e \in Paths : Occupies(e, p)' => e = d
    BY <2>3 DEF Lands, Occupies, Reaping
  <2>6. MarkedBy(d, p)'
    BY <2>1, <2>2, <2>3 DEF MarkedBy, Lands, disk
  <2>7. ~Removes("reaper", p)' /\ \A e \in Paths : ~Dooms(e, p)'
    BY <2>3 DEF Lands, Removes, Dooms
  <2> QED BY <2>1, <2>2, <2>3, <2>4, <2>5, <2>6, <2>7, ControlStep DEF Lands
<1>12. ASSUME NEW p \in Procs, Undo(p) PROVE SoundInv'
  BY <1>12 DEF Undo, SoundInv, NoUndo
\* p keeps its way towards the removal of its directory.
<1>j. ASSUME NEW p \in Procs, NEW phase \in {"read", "reread", "unlinkStale", "sweep"}, Lands(p, phase, at[p], mode[p]),
             UNCHANGED disk, pc[p] \in {"list", "read", "reread", "unlinkStale", "sweep"}, mode[p] = "remove", Others(p),
             phase # "read" \/ old'[p] => exists[at[p]] /\ \A q \in Procs : ~Occupies(at[p], q)
      PROVE  SoundInv'
  <2> SUFFICES ASSUME NEW d \in Paths, d = at[p] PROVE SoundInv'
    OBVIOUS
  <2>1. \A e \in Paths : /\ Occupies(e, p)' <=> Occupies(e, p)
                         /\ Removes(e, p)' <=> Removes(e, p)
                         /\ MarkedBy(e, p)' <=> MarkedBy(e, p)
    BY <1>j DEF Lands, Occupies, Reaping, Removes, MarkedBy, disk, Empty
  <2>2. \A e \in Paths : Dooms(e, p)' => e = d /\ (phase # "read" \/ old'[p])
    BY <1>j DEF Lands, Dooms, Removes
  <2>3. \A e \in Paths : Occupies(e, p)' => Occupies(e, p) /\ MarkedBy(e, p)'
    BY <2>1 DEF SoundInv, Marked
  <2>4. Removes("reaper", p)' => \A q \in Procs \ {p} : ~Removes("reaper", q)
    BY <2>1, <1>a DEF SoundInv, OneRemover
  <2> QED BY <1>j, <2>2, <2>3, <2>4, ControlStep DEF Lands
\* A removal that ends.
<1>k. ASSUME NEW p \in Procs, NEW result \in BOOLEAN, Removed(p, result), mode[p] = "remove",
             pc[p] \in {"list", "read", "reread", "unlinkStale", "sweep"}, UNCHANGED disk,
             UNCHANGED old \/ \E o : old' = [old EXCEPT ![p] = o]
      PROVE  SoundInv'
  <2>1. CASE at[p] = "lock"
    <3>1. Lands(p, "unlink", "reaper", "remove")
      BY <1>k, <2>1, Returns
    <3> QED BY <1>k, <2>1, <3>1, <1>b, ReaperReturns DEF Reaping
  <2>2. CASE at[p] = "reaper"
    <3>1. Leaves(p)
      BY <1>k, <2>2, Returns
    <3> QED BY <1>k, <3>1, <1>e
  <2> QED BY <2>1, <2>2, <1>a
<1>13. ASSUME NEW p \in Procs, ListDir(p) PROVE SoundInv'
  <2>1. CASE ~exists[at[p]] /\ mode[p] = "remove"
    BY <1>13, <2>1, <1>c, <1>k DEF ListDir
  <2>2. CASE ~exists[at[p]] /\ mode[p] # "remove"
    <3>1. Leaves(p) /\ UNCHANGED <<disk, old>>
      BY <1>13, <2>2, <1>c, Returns DEF ListDir
    <3> QED BY <3>1, <1>e
  <2>3. CASE exists[at[p]]
    <3> SUFFICES ASSUME NEW d \in Paths, d = at[p] PROVE SoundInv'
      OBVIOUS
    <3>1. /\ Lands(p, "read", d, mode[p]) /\ UNCHANGED disk /\ pc[p] = "list"
          /\ old' = [old EXCEPT ![p] = aged[d]]
      BY <1>13, <2>3, <1>a, <1>f DEF ListDir
    <3>2. Others(p) /\ old'[p] = aged[d]
      BY <3>1, <1>b
    <3>3. aged[d] => \A q \in Procs : ~Occupies(d, q)
      <4> SUFFICES ASSUME aged[d], NEW q \in Procs, Occupies(d, q) PROVE FALSE
        OBVIOUS
      <4>1. \A r \in Procs : content[d][r] = "none"
        BY DEF DiskShape, Empty, NoFiles
      <4>2. MarkedBy(d, q)
        BY DEF SoundInv, Marked
      <4> QED BY <4>1, <4>2 DEF MarkedBy
    <3>4. CASE mode[p] = "remove"
      BY <3>1, <3>2, <3>3, <3>4, <2>3, <1>j
    <3>5. CASE mode[p] # "remove"
      <4>1. Leaves(p)
        BY <3>1, <3>5, <1>a DEF Leaves
      <4> QED BY <3>1, <4>1, <1>e
    <3> QED BY <3>4, <3>5
  <2> QED BY <2>1, <2>2, <2>3
<1>14. ASSUME NEW p \in Procs, ReadOwners(p) PROVE SoundInv'
  <2> SUFFICES ASSUME NEW d \in Paths, d = at[p] PROVE SoundInv'
    OBVIOUS
  <2> DEFINE files == [q \in Procs |-> IF q \in todo[p] THEN content[d][q] ELSE "none"]
             stale == StaleDir(files, old[p])
             owners == {q \in Procs : files[q] # "none"}
             second == mode[p] = "status" /\ d = "reaper" /\ stale /\ SecondRemover(p)
  <2>1. /\ pc[p] = "read" /\ UNCHANGED disk
        /\ ~second /\ ~TornRead(d, todo[p])
    <3>1. Count(second \/ TornRead(d, todo[p])) /\ pc[p] = "read" /\ UNCHANGED disk
      BY <1>14 DEF ReadOwners
    <3>2. (second \/ TornRead(d, todo[p])) \in BOOLEAN
      BY DEF TornRead
    <3> HIDE DEF second
    <3>3. ~(second \/ TornRead(d, todo[p]))
      BY <3>1, <3>2, Counting DEF sound
    <3> QED BY <3>1, <3>3
  <2>2. stale \in BOOLEAN
    BY DEF StaleDir
  <2>3. \/ /\ mode[p] = "remove" /\ stale
           /\ old' = [old EXCEPT ![p] = FALSE] /\ GoTo(p, "reread") /\ Stay
        \/ /\ Forget(p)
           /\ \/ mode[p] = "remove" /\ Removed(p, FALSE)
              \/ GoTo(p, "wait") /\ Stay
              \/ Move(p, "mkdir", "reaper", "status", FALSE)
              \/ mode[p] = "status" /\ d = "reaper" /\ stale /\ Move(p, "list", "reaper", "remove", FALSE)
              \/ Recheck(p)
    <3> HIDE DEF stale
    <3> QED BY <1>14, <1>a, <2>2 DEF ReadOwners, stale
  <2>4. CASE mode[p] = "remove" /\ stale /\ old' = [old EXCEPT ![p] = FALSE] /\ GoTo(p, "reread") /\ Stay
    <3>1. Lands(p, "reread", d, mode[p])
      BY <2>4, <1>a, <1>f
    <3>2. Others(p)
      BY <2>4, <3>1, <1>b
    <3>3. exists[d] /\ \A q \in Procs : ~Occupies(d, q)
      <4>1. CASE owners = {}
        <5>1. old[p]
          BY <2>4, <4>1 DEF StaleDir
        <5>2. Dooms(d, p)
          BY <2>1, <2>4, <5>1 DEF Dooms, Removes
        <5> QED BY <5>2 DEF SoundInv, Doomed
      <4>2. CASE owners # {}
        <5>1. PICK q \in Procs : files[q] # "none"
          BY <4>2
        <5>2. q \in todo[p] /\ content[d][q] # "none" /\ files[q] = content[d][q]
          BY <5>1
        <5>3. \A r \in owners : StaleFile(r, files[r])
          BY <2>4, <4>2 DEF StaleDir
        <5>4. StaleFile(q, content[d][q])
          BY <5>1, <5>2, <5>3
        <5>5. pc[q] = "dead"
          BY <5>2, <5>4, <2>1 DEF StaleFile, TornRead, Alive
        <5>6. exists[d]
          BY <5>2 DEF DiskShape, Empty, NoFiles
        <5>7. ASSUME NEW r \in Procs, Occupies(d, r) PROVE FALSE
          <6>1. MarkedBy(d, r) /\ r # q
            BY <5>5, <5>7 DEF SoundInv, Marked, Occupies, Reaping
          <6>2. content[d][r] = "none"
            BY <6>1, <5>2 DEF SoundInv, OneFile
          <6>3. ~Empty(d)
            BY <5>2 DEF Empty, NoFiles
          <6> QED BY <6>1, <6>2, <6>3 DEF MarkedBy
        <5> QED BY <5>6, <5>7
      <4> QED BY <4>1, <4>2
    <3> QED BY <2>1, <2>4, <3>1, <3>2, <3>3, <1>j
  <2>5. CASE Forget(p) /\ mode[p] = "remove" /\ Removed(p, FALSE)
    BY <2>1, <2>5, <1>c, <1>k
  <2>6. CASE Forget(p) /\ (Recheck(p) \/ Move(p, "mkdir", "reaper", "status", FALSE) \/ (GoTo(p, "wait") /\ Stay))
    <3>1. Recheck(p) => Leaves(p)
      BY Returns
    <3>2. Move(p, "mkdir", "reaper", "status", FALSE) => Lands(p, "mkdir", "reaper", "status")
      BY <1>a, MoveLands
    <3>3. GoTo(p, "wait") /\ Stay => Lands(p, "wait", d, mode[p])
      BY <1>a, <1>f
    <3> QED BY <2>1, <2>6, <3>1, <3>2, <3>3, <1>c, <1>e
  <2>7. CASE Forget(p) /\ mode[p] = "status" /\ d = "reaper" /\ stale /\ Move(p, "list", "reaper", "remove", FALSE)
    <3>1. Lands(p, "list", "reaper", "remove")
      BY <2>7, <1>a, MoveLands
    <3>2. Others(p)
      BY <2>7, <3>1, <1>b, <1>c
    <3>3. \A q \in Procs \ {p} : ~Removes("reaper", q)
      BY <2>1, <2>7 DEF SecondRemover, RemovingReaper, Removes
    <3>4. \A e \in Paths : ~Occupies(e, p)' /\ ~Dooms(e, p)'
      BY <3>1 DEF Lands, Occupies, Reaping, Dooms
    <3> QED BY <2>1, <3>1, <3>2, <3>3, <3>4, ControlStep DEF Lands
  <2> QED BY <2>3, <2>4, <2>5, <2>6, <2>7
\* What a process that unlinks or sweeps has found.
<1>l. \A p \in Procs : pc[p] \in {"reread", "unlinkStale", "sweep"} =>
        /\ mode[p] = "remove" /\ Removes(at[p], p) /\ Dooms(at[p], p)
        /\ exists[at[p]] /\ \A q \in Procs : ~Occupies(at[p], q)
  BY DEF ControlShape, Removes, Dooms, SoundInv, Doomed
<1>15. ASSUME NEW p \in Procs, Reread(p) PROVE SoundInv'
  <2>1. pc[p] = "reread" /\ mode[p] = "remove" /\ UNCHANGED disk
    BY <1>15, <1>l DEF Reread
  <2>2. \/ Forget(p) /\ (Removed(p, FALSE) \/ (GoTo(p, "sweep") /\ Stay))
        \/ Stay /\ UNCHANGED <<pc, old>>
        \/ GoTo(p, "unlinkStale") /\ Stay /\ UNCHANGED snapshot
    BY <1>15 DEF Reread
  <2>3. CASE Forget(p) /\ Removed(p, FALSE)
    BY <2>1, <2>3, <1>c, <1>k
  <2>4. CASE \E phase \in {"sweep", "unlinkStale"} :
               GoTo(p, phase) /\ Stay /\ (UNCHANGED old \/ \E o : old' = [old EXCEPT ![p] = o])
    <3>1. PICK phase \in {"sweep", "unlinkStale"} : Lands(p, phase, at[p], mode[p])
      BY <2>4, <1>a, <1>f
    <3>2. Others(p)
      BY <2>4, <3>1, <1>b
    <3> QED BY <2>1, <3>1, <3>2, <1>j, <1>l
  <2>5. CASE Stay /\ UNCHANGED <<pc, old>>
    <3>1. Lands(p, "reread", at[p], mode[p])
      BY <2>1, <2>5 DEF Lands, Stay
    <3>2. Others(p)
      BY <2>5, <3>1, <1>b
    <3> QED BY <2>1, <3>1, <3>2, <1>j, <1>l
  <2> QED BY <2>2, <2>3, <2>4, <2>5, <1>c
<1>16. ASSUME NEW p \in Procs, UnlinkStale(p) PROVE SoundInv'
  <2> SUFFICES ASSUME NEW d \in Paths, d = at[p] PROVE SoundInv'
    OBVIOUS
  <2>1. /\ pc[p] = "unlinkStale" /\ UNCHANGED old /\ Lands(p, "reread", d, mode[p])
        /\ SetFile(d, Visited(p), "none") \/ UNCHANGED disk
    BY <1>16, <1>a, <1>f DEF UnlinkStale
  <2>2. /\ exists' = exists /\ \A e \in Paths \ {d} : Same(e)
        /\ \A q \in Procs : content'[d][q] # "none" => content[d][q] # "none"
    <3>1. CASE UNCHANGED disk
      BY <3>1 DEF disk, Same
    <3>2. CASE SetFile(d, Visited(p), "none")
      <4>1. content'[d] = [content[d] EXCEPT ![Visited(p)] = "none"] /\ content[d] \in [Procs -> Contents]
        BY <3>2 DEF SetFile, DiskTypes
      <4> QED BY <3>2, <4>1 DEF SetFile, DiskTypes, Same
    <3> QED BY <2>1, <3>1, <3>2
  <2>3. Others(p)
    BY <2>1, <1>b
  <2>4. /\ mode[p] = "remove" /\ Dooms(d, p) /\ Removes(d, p)
        /\ exists[d] /\ \A q \in Procs : ~Occupies(d, q)
    BY <2>1, <1>l
  <2>5. \A e \in Paths : /\ Occupies(e, p)' <=> Occupies(e, p)
                         /\ Removes(e, p)' <=> Removes(e, p)
                         /\ Dooms(e, p)' <=> Dooms(e, p)
                         /\ e # d => (MarkedBy(e, p)' <=> MarkedBy(e, p))
    BY <2>1, <2>2 DEF Lands, Occupies, Reaping, Removes, Dooms, MarkedBy, Empty, Same
  <2>6. \A e \in Paths : Occupies(e, p)' => Occupies(e, p) /\ MarkedBy(e, p)'
    BY <2>4, <2>5 DEF SoundInv, Marked
  <2>7. \A q, r \in Procs : content'[d][q] # "none" /\ content'[d][r] # "none" => q = r
    BY <2>2 DEF SoundInv, OneFile
  <2>8. exists'[d] /\ ~Occupies(d, p)'
    BY <2>2, <2>4, <2>5
  <2>9. pc'[p] # "undo"
    BY <2>1 DEF Lands
  <2> QED BY <2>2, <2>3, <2>4, <2>5, <2>6, <2>7, <2>8, <2>9, DirStep
<1>17. ASSUME NEW p \in Procs, Sweep(p) PROVE SoundInv'
  <2> SUFFICES ASSUME NEW d \in Paths, d = at[p] PROVE SoundInv'
    OBVIOUS
  <2>1. pc[p] = "sweep" /\ UNCHANGED old /\ RemoveDir(d) /\ Removed(p, Empty(d)) /\ Empty(d) \in BOOLEAN
    BY <1>17, <1>c DEF Sweep, Empty
  <2>2. /\ content' = content /\ \A e \in Paths \ {d} : Same(e)
    <3>1. (exists[d] /\ ~Empty(d)) \in BOOLEAN
      OBVIOUS
    <3> QED BY <2>1, <3>1 DEF RemoveDir, Same, DiskTypes
  <2>3. /\ mode[p] = "remove" /\ Removes(d, p) /\ \A q \in Procs : ~Occupies(d, q)
    BY <2>1, <1>l
  <2>4. \A q \in Procs \ {p} : ~Dooms(d, q)
    <3>1. CASE d = "reaper"
      BY <2>3, <3>1, <1>a DEF SoundInv, OneRemover, Dooms
    <3>2. CASE d = "lock"
      <4>1. \A q \in Procs : Removes("lock", q) => Occupies("reaper", q)
        BY DEF Removes, Occupies, Reaping
      <4> QED BY <2>3, <3>2, <4>1, <1>a DEF SoundInv, OneOccupant, Dooms
    <3> QED BY <3>1, <3>2, <1>a
  <2>5. \A q, r \in Procs : content'[d][q] # "none" /\ content'[d][r] # "none" => q = r
    BY <2>2 DEF SoundInv, OneFile
  <2>6. CASE d = "lock"
    <3>1. Lands(p, "unlink", "reaper", "remove")
      BY <2>1, <2>6, Returns
    <3>2. Others(p)
      BY <2>1, <3>1, <1>b
    <3>3. Occupies("reaper", p) /\ exists["reaper"] /\ content["reaper"][p] = "record"
      <4>1. Occupies("reaper", p)
        BY <2>1, <2>3, <2>6 DEF Occupies, Reaping
      <4>2. MarkedBy("reaper", p)
        BY <4>1, <1>a DEF SoundInv, Marked
      <4> QED BY <4>1, <4>2, <2>6 DEF MarkedBy
    <3>4. MarkedBy("reaper", p)'
      BY <3>1, <3>3, <2>2, <2>6, <1>a DEF MarkedBy, Lands, Same
    <3>5. \A e \in Paths : (Occupies(e, p)' => e = "reaper") /\ ~Removes(e, p)' /\ ~Dooms(e, p)'
      BY <3>1 DEF Lands, Occupies, Reaping, Removes, Dooms
    <3>6. \A q \in Procs : ~Dooms(d, q)'
      BY <2>4, <3>2, <3>5 DEF Others, Dooms, Removes
    <3> QED BY <2>2, <2>3, <2>5, <3>1, <3>2, <3>3, <3>4, <3>5, <3>6, DirStep DEF Lands
  <2>7. CASE d = "reaper"
    <3>1. Leaves(p)
      BY <2>1, <2>7, Returns
    <3>2. Others(p)
      BY <2>1, <3>1, <1>b, <1>d
    <3>3. Free(p)' /\ pc'[p] # "undo"
      BY <3>1, LeavesFree
    <3>4. \A e \in Paths : ~Occupies(e, p)' /\ ~Removes(e, p)' /\ ~Dooms(e, p)'
      BY <3>3 DEF Free, Paths
    <3>5. \A q \in Procs : ~Dooms(d, q)'
      BY <2>4, <3>2, <3>4 DEF Others, Dooms, Removes
    <3> QED BY <2>2, <2>3, <2>5, <3>2, <3>3, <3>4, <3>5, DirStep
  <2> QED BY <2>6, <2>7, <1>a
<1>18. ASSUME NEW p \in Procs, Unlink(p) PROVE SoundInv'
  <2>1. pc[p] = "unlink" /\ content[at[p]][p] = "record"
    BY <1>18, <1>h DEF Unlink, MarkedBy
  <2>2. SetFile(at[p], p, "none") /\ UNCHANGED old /\ Lands(p, "rmdir", at[p], mode[p])
    BY <1>18, <2>1, <1>a, <1>c, <1>f DEF Unlink
  <2>3. \A q \in Procs \ {p} : content[at[p]][q] = "none"
    BY <2>1 DEF SoundInv, OneFile
  <2> QED BY <2>1, <2>2, <2>3, <1>g, <1>h, <1>i
<1>19. ASSUME NEW p \in Procs, Rmdir(p) PROVE SoundInv'
  <2> SUFFICES ASSUME NEW d \in Paths, d = at[p] PROVE SoundInv'
    OBVIOUS
  <2>1. pc[p] = "rmdir" /\ UNCHANGED old /\ RemoveDir(d) /\ Released(p)
    BY <1>19, <1>c DEF Rmdir
  <2>2. /\ content' = content /\ \A e \in Paths \ {d} : Same(e)
    <3>1. (exists[d] /\ ~Empty(d)) \in BOOLEAN
      OBVIOUS
    <3> QED BY <2>1, <3>1 DEF RemoveDir, Same, DiskTypes
  <2>3. Occupies(d, p) /\ (\A q \in Procs \ {p} : ~Occupies(d, q)) /\ \A q \in Procs : ~Dooms(d, q)
    BY <2>1, <1>h DEF SoundInv, OneOccupant, Doomed
  <2>4. Free(p)' /\ pc'[p] # "undo" /\ Others(p)
    <3>1. Leaves(p) \/ Lands(p, "idle", "lock", mode[p])
      BY <2>1, <1>a, Returns
    <3> QED BY <2>1, <3>1, <1>b, <1>d, LeavesFree DEF Lands
  <2>5. \A e \in Paths : ~Occupies(e, p)' /\ ~Removes(e, p)' /\ ~Dooms(e, p)'
    BY <2>4 DEF Free, Paths
  <2>6. \A q \in Procs : ~Dooms(d, q)'
    BY <2>3, <2>4, <2>5 DEF Others, Dooms, Removes
  <2>7. \A q, r \in Procs : content'[d][q] # "none" /\ content'[d][r] # "none" => q = r
    BY <2>2 DEF SoundInv, OneFile
  <2> QED BY <2>2, <2>3, <2>4, <2>5, <2>6, <2>7, DirStep
<1>20. ASSUME NEW d \in Paths, Age(d) PROVE SoundInv'
  <2>1. ~Pausing(d)
    <3>1. Pausing(d) \in BOOLEAN
      BY DEF Pausing
    <3> QED BY <1>20, <3>1, Counting DEF Age, sound
  <2>2. /\ UNCHANGED <<exists, content, pc, at, mode, old>>
        /\ \A e \in Paths \ {d} : aged'[e] = aged[e]
    BY <1>20 DEF Age, snapshot, DiskTypes
  <2>3. \A e \in Paths, p \in Procs : /\ Occupies(e, p)' <=> Occupies(e, p)
                                      /\ Removes(e, p)' <=> Removes(e, p)
                                      /\ Dooms(e, p)' <=> Dooms(e, p)
    BY <2>2 DEF Occupies, Reaping, Removes, Dooms
  <2>4. \A e \in Paths, p \in Procs : MarkedBy(e, p) => MarkedBy(e, p)'
    BY <2>1, <2>2 DEF MarkedBy, Pausing, Empty
  <2>5. OneOccupant' /\ Marked' /\ OneRemover'
    BY <2>3, <2>4, <1>a DEF SoundInv, OneOccupant, Marked, OneRemover
  <2>6. OneFile' /\ Doomed' /\ NoUndo'
    BY <2>2, <2>3 DEF SoundInv, OneFile, Doomed, NoUndo
  <2> QED BY <2>5, <2>6 DEF SoundInv
<1> QED BY <1>4, <1>5, <1>6, <1>7, <1>8, <1>9, <1>10, <1>11, <1>12, <1>13, <1>14, <1>15, <1>16, <1>17, <1>18, <1>19, <1>20
        DEF Next, Step

-----------------------------------------------------------------------------
(* The theorems. *)

LEMMA LockInit ==
  ASSUME Init
  PROVE  LockInv
<1>1. TypeOK
  BY LockAssumption DEF Init, TypeOK, NoFiles, Paths, Phases, Contents
<1>2. Shape
  BY DEF Init, Shape, Empty
<1>3. \A d \in Paths, p \in Procs : ~Occupies(d, p) /\ ~Removes(d, p) /\ ~Dooms(d, p)
  BY DEF Init, Occupies, Reaping, Removes, Dooms
<1>4. OneFile /\ NoUndo
  BY DEF Init, OneFile, NoUndo, NoFiles
<1>5. SoundInv
  BY <1>3, <1>4 DEF SoundInv, OneOccupant, Marked, OneRemover, Doomed, Paths
<1> QED BY <1>1, <1>2, <1>5 DEF LockInv

LEMMA LockNext ==
  ASSUME LockInv, [Next]_vars
  PROVE  LockInv'
<1>1. CASE Next
  BY <1>1, TypesNext, ShapeNext, SoundNext DEF LockInv
<1>2. CASE UNCHANGED vars
  BY <1>2 DEF LockInv, vars, disk, snapshot, history, TypeOK, Shape, sound, Empty, SoundInv, OneOccupant, Marked,
     MarkedBy, OneFile, OneRemover, Doomed, NoUndo, Occupies, Reaping, Removes, Dooms
<1> QED BY <1>1, <1>2

\* What the lock's operation rests on: as long as none of the hazards has occurred, each of
\* the two directories has one occupant, whose directory and record are there, one owner
\* file, one remover, and never an occupant while a remover has found it stale.
THEOREM LockInvariant == Spec => []LockInv
BY LockInit, LockNext, PTL DEF Spec

\* Every variable of the lock keeps its type, whatever hazards and deaths occur.
THEOREM LockTypes == Spec => []TypeOK
<1>1. LockInv => TypeOK
  BY DEF LockInv
<1> QED BY <1>1, LockInvariant, PTL

\* acquireFileLock returns to one process at a time: the next one returns only after the
\* release or the death of the holder, unless one of the hazards has occurred.
THEOREM LockExclusion == Spec => []MutualExclusion
<1>1. LockInv => MutualExclusion
  BY DEF LockInv, MutualExclusion, SoundInv, OneOccupant, Shape, Occupies, Paths
<1> QED BY <1>1, LockInvariant, PTL

\* No stale check of another process removes the directory or the record of a live holder.
THEOREM LocksPreserved == Spec => []SoundLocksPreserved
<1>1. LockInv => SoundLocksPreserved
  <2> SUFFICES ASSUME LockInv, sound, NEW p \in Procs, pc[p] = "held"
               PROVE  exists["lock"] /\ content["lock"][p] = "record"
    BY DEF SoundLocksPreserved, LiveLocksPreserved
  <2>1. Occupies("lock", p) /\ MarkedBy("lock", p)
    BY DEF LockInv, Shape, SoundInv, Marked, Occupies, Paths
  <2> QED BY <2>1 DEF MarkedBy
<1> QED BY <1>1, LockInvariant, PTL

\* A stale lock is removed by one process, which holds the reaper lock all the while.
THEOREM ReapersAlone == Spec => []OneReaper
<1>1. LockInv => OneReaper
  <2> SUFFICES ASSUME LockInv, sound, NEW p \in Procs, Reaping(p)
               PROVE  content["reaper"][p] = "record" /\ \A q \in Procs : Reaping(q) => p = q
    BY DEF OneReaper
  <2>1. \A q \in Procs : Reaping(q) => Occupies("reaper", q)
    BY DEF Occupies
  <2>2. MarkedBy("reaper", p) /\ at[p] = "lock"
    BY <2>1 DEF LockInv, SoundInv, Marked, Reaping, Paths
  <2>3. \A q \in Procs : Reaping(q) => p = q
    BY <2>1 DEF LockInv, SoundInv, OneOccupant, Paths
  <2> QED BY <2>2, <2>3 DEF MarkedBy
<1> QED BY <1>1, LockInvariant, PTL

-----------------------------------------------------------------------------
(* The lock is a mutex. *)

\* What a step of p shows of itself to the callers of the lock.
LEMMA Shows ==
  ASSUME NEW p \in Procs, NEW phase, NEW d, NEW m, Lands(p, phase, d, m)
  PROVE  LET T == {q \in Procs : Trying(q)}
             I == {q \in Procs : pc[q] = "held"}
             D == {q \in Procs : pc[q] = "dead"}
         IN  /\ T' = IF Trying(p)' THEN T \union {p} ELSE T \ {p}
             /\ I' = IF phase = "held" THEN I \union {p} ELSE I \ {p}
             /\ D' = IF phase = "dead" THEN D \union {p} ELSE D \ {p}
<1>1. \A q \in Procs \ {p} : Trying(q)' <=> Trying(q)
  BY DEF Lands, Trying
<1> QED BY <1>1 DEF Lands

LEMMA MutexInitOk ==
  ASSUME Init
  PROVE  Abstract!MutexInit
BY DEF Init, Abstract!MutexInit, Trying, sound

LEMMA MutexNextOk ==
  ASSUME LockInv, [Next]_vars
  PROVE  [Abstract!MutexNext]_(Abstract!mutexVars)
<1> DEFINE T == {q \in Procs : Trying(q)}
           I == {q \in Procs : pc[q] = "held"}
           D == {q \in Procs : pc[q] = "dead"}
           Goal == [Abstract!MutexNext]_(Abstract!mutexVars)
<1>1. CASE UNCHANGED vars
  BY <1>1 DEF vars, history, Abstract!mutexVars, Trying, sound
<1>2. CASE ~sound'
  <2>1. sound' = FALSE
    BY <1>2 DEF sound
  <2> QED BY <2>1 DEF Abstract!MutexNext
<1>3. CASE Next /\ sound'
  <2>1. /\ sound /\ (sound' = sound) /\ SoundInv /\ ControlTypes
        /\ \A p \in Procs : at[p] = "lock" \/ at[p] = "reaper"
    <3>1. sound
      BY <1>3, SoundBefore DEF LockInv
    <3> QED BY <1>3, <3>1 DEF sound, LockInv, TypeOK, ControlTypes, Paths
  <2>2. "lock" \in Paths /\ "reaper" \in Paths /\ \A p \in Procs : mode[p] \in {"status", "recheck", "remove"}
    BY <2>1 DEF Paths, ControlTypes
  <2>3. (UNCHANGED <<T, I, D>>) => Goal
    BY <2>1 DEF Abstract!mutexVars
  \* A process on its way to the lock shows nothing.
  <2>4. ASSUME NEW p \in Procs, NEW phase, NEW d, NEW m, Lands(p, phase, d, m), phase \notin {"held", "dead"},
               pc[p] \notin {"held", "dead"}, Trying(p) <=> Trying(p)'
        PROVE  Goal
    <3>1. UNCHANGED <<T, I, D>>
      BY <2>4, Shows
    <3> QED BY <3>1, <2>3
  <2>5. ASSUME NEW p \in Procs, Leaves(p), Trying(p)
        PROVE  Goal
    <3>1. PICK phase \in {"mkdir", "list", "read", "wait"}, d \in Paths, m \in {"status", "recheck"} : Lands(p, phase, d, m)
      BY <2>5 DEF Leaves
    <3>2. Trying(p)'
      BY <3>1 DEF Lands, Trying
    <3> QED BY <2>5, <3>1, <3>2, <2>4 DEF Trying
  <2>6. ASSUME NEW p \in Procs, Acquire(p) PROVE Goal
    <3>1. PICK phase \in {"mkdir", "list", "read", "wait"}, d \in Paths, m \in {"status", "recheck"} : Lands(p, phase, d, m)
      BY <2>6, <2>1, Returns DEF Acquire, Leaves
    <3>2. Trying(p)' /\ pc[p] = "idle" /\ ~Trying(p)
      BY <2>6, <3>1 DEF Acquire, Lands, Trying
    <3>3. T' = T \union {p} /\ I' = I /\ D' = D /\ p \notin T /\ p \notin I /\ p \notin D
      BY <3>1, <3>2, Shows
    <3>4. Abstract!Ask(p)
      BY <3>3 DEF Abstract!Ask
    <3> QED BY <3>4, <2>1 DEF Abstract!MutexNext
  <2>7. ASSUME NEW p \in Procs, GiveUp(p) PROVE Goal
    <3>1. Lands(p, "idle", at[p], mode[p]) /\ pc[p] = "wait"
      BY <2>7, <2>1, <2>2, MoveLands DEF GiveUp, Phases
    <3>2. ~Trying(p)' /\ Trying(p)
      BY <3>1 DEF Lands, Trying
    <3>3. T' = T \ {p} /\ I' = I /\ D' = D /\ p \in T
      BY <3>1, <3>2, Shows
    <3>4. Abstract!TimeOut(p)
      BY <3>3 DEF Abstract!TimeOut
    <3> QED BY <3>4, <2>1 DEF Abstract!MutexNext
  <2>8. ASSUME NEW p \in Procs, Release(p) PROVE Goal
    <3>1. Lands(p, "unlink", "lock", mode[p]) /\ pc[p] = "held"
      BY <2>8, <2>1, <2>2, MoveLands DEF Release, Phases, LockInv, Shape
    <3>2. ~Trying(p)' /\ ~Trying(p)
      BY <3>1 DEF Lands, Trying
    <3>3. T' = T /\ I' = I \ {p} /\ D' = D /\ p \in I
      BY <3>1, <3>2, Shows
    <3>4. Abstract!Leave(p)
      BY <3>3 DEF Abstract!Leave
    <3> QED BY <3>4, <2>1 DEF Abstract!MutexNext
  <2>9. ASSUME NEW p \in Procs, Crash(p) PROVE Goal
    <3>1. Lands(p, "dead", "lock", "status") /\ pc[p] # "dead"
      BY <2>9, <2>1, <2>2, MoveLands DEF Crash, Phases
    <3>2. ~Trying(p)'
      BY <3>1 DEF Lands, Trying
    <3>3. T' = T \ {p} /\ I' = I \ {p} /\ D' = D \union {p} /\ p \notin D
      BY <3>1, <3>2, Shows
    <3>4. Abstract!Die(p)
      BY <3>3 DEF Abstract!Die
    <3> QED BY <3>4, <2>1 DEF Abstract!MutexNext
  <2>10. ASSUME NEW p \in Procs, SyncDir(p) PROVE Goal
    <3>1. pc[p] = "sync" /\ Trying(p) /\ Occupies(at[p], p) /\ exists[at[p]]
      BY <2>1, <2>2, <2>10 DEF SyncDir, Occupies, SoundInv, Marked, MarkedBy, Trying
    <3>2. CASE at[p] = "lock"
      <4>1. Lands(p, "held", "lock", mode[p])
        BY <2>1, <2>10, <3>1, <3>2, Returns DEF SyncDir
      <4>2. ~Trying(p)'
        BY <4>1 DEF Lands, Trying
      <4>3. I = {}
        <5>1. ASSUME NEW q \in Procs, pc[q] = "held" PROVE FALSE
          <6>1. Occupies("lock", q) /\ Occupies("lock", p) /\ q # p
            BY <3>1, <3>2, <5>1 DEF Occupies, LockInv, Shape
          <6> QED BY <6>1, <2>1, <2>2 DEF SoundInv, OneOccupant
        <5> QED BY <5>1
      <4>4. T' = T \ {p} /\ I' = {p} /\ D' = D /\ p \in T
        BY <3>1, <4>1, <4>2, <4>3, Shows
      <4>5. Abstract!Enter(p)
        BY <4>3, <4>4 DEF Abstract!Enter
      <4> QED BY <4>5, <2>1 DEF Abstract!MutexNext
    <3>3. CASE at[p] = "reaper"
      <4>1. Lands(p, "list", "lock", "remove")
        BY <2>1, <2>10, <3>1, <3>3, Returns DEF SyncDir
      <4>2. Trying(p)'
        BY <4>1 DEF Lands, Trying
      <4> QED BY <3>1, <4>1, <4>2, <2>4
    <3> QED BY <3>2, <3>3, <2>1
  \* The steps by which a process tries for the lock, and those of its release.
  <2>11. ASSUME NEW p \in Procs, NEW phase \in Phases \ {"held", "dead", "idle", "unlink", "rmdir"},
                GoTo(p, phase), Stay, Trying(p)
         PROVE  Goal
    <3>1. Lands(p, phase, at[p], mode[p])
      BY <2>1, <2>2, <2>11, MoveLands
    <3>2. Trying(p)'
      BY <2>11, <3>1 DEF Lands, Trying
    <3> QED BY <2>11, <3>1, <3>2, <2>4 DEF Trying
  <2>12. ASSUME NEW p \in Procs, NEW result \in BOOLEAN, Removed(p, result), Trying(p)
         PROVE  Goal
    <3>1. CASE at[p] = "lock"
      <4>1. Lands(p, "unlink", "reaper", "remove")
        BY <2>1, <2>12, <3>1, Returns
      <4>2. Trying(p)'
        BY <4>1 DEF Lands, Trying
      <4> QED BY <2>12, <4>1, <4>2, <2>4 DEF Trying
    <3> QED BY <2>1, <2>5, <2>12, <3>1, Returns
  <2>13. ASSUME NEW p \in Procs, NotCreated(p) \/ TryLock(p) \/ Recheck(p), Trying(p)
         PROVE  Goal
    BY <2>1, <2>5, <2>13, Returns
  <2>14. \A p \in Procs : Trying(p) \/ pc[p] \notin {"mkdir", "open", "write", "undo", "list", "read", "reread",
                                                      "unlinkStale", "sweep", "wait"}
    BY DEF Trying
  <2>15. ASSUME NEW p \in Procs, Mkdir(p) \/ OpenOwner(p) \/ WriteOwner(p) \/ Undo(p) \/ Retry(p) PROVE Goal
    BY <2>11, <2>13, <2>14, <2>15 DEF Mkdir, OpenOwner, WriteOwner, Undo, Retry, Phases
  <2>16. ASSUME NEW p \in Procs, ListDir(p) PROVE Goal
    BY <2>11, <2>12, <2>13, <2>14, <2>16 DEF ListDir, Phases
  <2>17. ASSUME NEW p \in Procs, ReadOwners(p) PROVE Goal
    <3>1. \/ (GoTo(p, "reread") \/ GoTo(p, "wait")) /\ Stay
          \/ Removed(p, FALSE)
          \/ Recheck(p)
          \/ Move(p, "mkdir", "reaper", "status", FALSE)
          \/ Move(p, "list", "reaper", "remove", FALSE)
      <4> DEFINE stale == StaleDir([q \in Procs |-> IF q \in todo[p] THEN content[at[p]][q] ELSE "none"], old[p])
      <4>1. stale \in BOOLEAN
        BY DEF StaleDir, LockInv, TypeOK
      <4> HIDE DEF stale
      <4> QED BY <2>17, <2>1, <2>2, <4>1 DEF ReadOwners, stale
    <3>2. ASSUME NEW phase \in {"mkdir", "list"}, NEW m \in {"status", "remove"}, Move(p, phase, "reaper", m, FALSE)
          PROVE  Goal
      <4>1. Lands(p, phase, "reaper", m)
        BY <2>1, <2>2, <3>2, MoveLands DEF Phases
      <4>2. Trying(p)'
        BY <4>1 DEF Lands, Trying
      <4>3. Trying(p)
        BY <2>14, <2>17 DEF ReadOwners
      <4> QED BY <4>1, <4>2, <4>3, <2>4 DEF Trying
    <3>3. Trying(p)
      BY <2>14, <2>17 DEF ReadOwners
    <3>4. (GoTo(p, "reread") \/ GoTo(p, "wait")) /\ Stay => Goal
      BY <3>3, <2>11 DEF Phases
    <3>5. Removed(p, FALSE) \/ Recheck(p) => Goal
      BY <3>3, <2>12, <2>13
    <3> HIDE DEF Goal
    <3> QED BY <3>1, <3>2, <3>4, <3>5
  <2>18. ASSUME NEW p \in Procs, Reread(p) PROVE Goal
    <3>1. \/ Removed(p, FALSE)
          \/ (GoTo(p, "sweep") \/ GoTo(p, "unlinkStale")) /\ Stay
          \/ Stay /\ UNCHANGED pc
      BY <2>18 DEF Reread
    <3>2. Trying(p)
      BY <2>14, <2>18 DEF Reread
    <3>3. Stay /\ UNCHANGED pc => UNCHANGED <<T, I, D>>
      BY DEF Stay, Trying
    <3> QED BY <3>1, <3>2, <3>3, <2>3, <2>11, <2>12 DEF Phases
  <2>19. ASSUME NEW p \in Procs, UnlinkStale(p) \/ Sweep(p) PROVE Goal
    <3>1. Empty(at[p]) \in BOOLEAN
      BY DEF Empty
    <3> QED BY <3>1, <2>11, <2>12, <2>14, <2>19 DEF UnlinkStale, Sweep, Phases
  <2>20. ASSUME NEW p \in Procs, Unlink(p) \/ Rmdir(p) PROVE Goal
    <3>1. pc[p] = "unlink" \/ pc[p] = "rmdir"
      BY <2>20 DEF Unlink, Rmdir
    <3>2. CASE GoTo(p, "rmdir") /\ Stay
      <4>1. Lands(p, "rmdir", at[p], mode[p])
        BY <2>1, <2>2, <3>2, MoveLands DEF Phases
      <4>2. Trying(p) <=> Trying(p)'
        BY <3>1, <4>1 DEF Lands, Trying
      <4> QED BY <3>1, <4>1, <4>2, <2>4
    <3>3. CASE Released(p) /\ at[p] = "lock"
      <4>1. Lands(p, "idle", "lock", mode[p])
        BY <2>1, <3>3, Returns
      <4>2. ~Trying(p) /\ ~Trying(p)'
        BY <3>1, <3>3, <4>1 DEF Lands, Trying
      <4> QED BY <3>1, <4>1, <4>2, <2>4
    <3>4. CASE Released(p) /\ at[p] = "reaper"
      <4>1. Leaves(p) /\ Trying(p)
        BY <2>1, <3>1, <3>4, Returns DEF Trying
      <4> QED BY <4>1, <2>5
    <3> QED BY <2>1, <2>20, <3>2, <3>3, <3>4 DEF Unlink, Rmdir
  <2>21. ASSUME NEW d \in Paths, Age(d) PROVE Goal
    <3>1. UNCHANGED <<T, I, D>>
      BY <2>21 DEF Age, Trying
    <3> QED BY <3>1, <2>3
  <2>22. \/ \E p \in Procs :
              \/ Acquire(p) \/ GiveUp(p) \/ Release(p) \/ Crash(p) \/ SyncDir(p) \/ ListDir(p) \/ ReadOwners(p) \/ Reread(p)
              \/ Mkdir(p) \/ OpenOwner(p) \/ WriteOwner(p) \/ Undo(p) \/ Retry(p)
              \/ UnlinkStale(p) \/ Sweep(p) \/ Unlink(p) \/ Rmdir(p)
         \/ \E d \in Paths : Age(d)
    BY <1>3 DEF Next, Step
  <2> HIDE DEF Goal
  <2>23. Goal
    BY <2>6, <2>7, <2>8, <2>9, <2>10, <2>15, <2>16, <2>17, <2>18, <2>19, <2>20, <2>21, <2>22
  <2> QED BY <2>23 DEF Goal
<1> QED BY <1>1, <1>2, <1>3

\* For its callers the lock is a mutex: a process that asks enters alone and stays until it
\* leaves or dies, up to the first hazard.
THEOREM MutexRefinement == Spec => ImplementsMutex
BY MutexInitOk, MutexNextOk, LockInvariant, PTL DEF Spec, ImplementsMutex, Abstract!MutexSpec
=============================================================================
