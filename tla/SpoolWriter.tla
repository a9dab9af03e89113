---------------------------- MODULE SpoolWriter ----------------------------
(***************************************************************************)
(* internal/spool: the writer of one source's events file.                 *)
(*                                                                         *)
(* Writers are handles, of one process or of several, that Open the same   *)
(* source: take the single-writer guard, create and commit the directory   *)
(* entries, repair a torn tail, Append records, Close.  Around them are    *)
(* the things the code is written against: a process dies between any two  *)
(* system calls, a call fails, the kernel writes pages back in any order,  *)
(* and the host loses power, which leaves what had reached the disk.       *)
(*                                                                         *)
(* The file has two copies.  cache is what every process reads and writes, *)
(* disk what survives the host; they may differ at the positions in dirty  *)
(* only.                                                                   *)
(***************************************************************************)
EXTENDS SpoolFile, FiniteSets

CONSTANTS
  Writers,         \* the handles that may open the source
  Inputs,          \* what callers pass to Append: sequences of bytes
  Inodes,          \* the inodes a lock file may be created with
  None,            \* no inode: the lock file does not exist
  Root,            \* the spool root's absolute path
  Syncers,         \* the syncers callers pass to Open: [dir, device, mode]
  Devices,         \* the file systems a path may lead to
  Sites,           \* what the paths under Root lead to
  Barrier,         \* file systems whose full-barrier sync is one
  ExclusiveFlock,  \* file systems whose flock excludes
  KeepsDirty,      \* FALSE: a failed sync may mark unwritten pages clean
  MaxBytes,        \* bound on the size of the file
  MaxFaults        \* bound on the failures and crashes of a behaviour

\* What a path leads to when it is opened.  A path that does not exist yet is
\* created as a regular file.
Kinds == {"regular", "special", "symlink"}

SiteType ==
  [root : Devices, dir : Devices,
   lock : [kind : Kinds, device : Devices],
   events : [kind : Kinds, device : Devices]]

\* The zero Syncer has no mode.
NoMode == ""

SyncerVerified(s) == s.mode # NoMode

\* What a handle that is not open has for a syncer.
NoSyncer == [dir |-> None, device |-> None, mode |-> NoMode]

ASSUME SpoolAssumption ==
  /\ Inputs \subseteq Seq(Bytes \ {Hole})
  /\ Inodes # {} /\ None \notin Inodes
  /\ Sites \subseteq SiteType
  /\ Barrier \subseteq Devices
  /\ ExclusiveFlock \subseteq Devices
  /\ \A s \in Syncers : s.device \in Devices /\ s.mode \in Modes \cup {NoMode}
  /\ KeepsDirty \in BOOLEAN
  /\ MaxBytes \in Nat
  /\ MaxFaults \in Nat

\* What durability.Probe establishes before it returns a Syncer: the volume is
\* no network file system, whose locking is emulated, and host-loss mode is
\* given only where the full-barrier sync was executed on lasting storage.
ASSUME ProbeAssumption ==
  \A s \in Syncers : SyncerVerified(s) =>
    /\ s.device \in ExclusiveFlock
    /\ s.mode = HostLossMode => s.device \in Barrier

VARIABLES
  cache,       \* the events file as processes see it
  disk,        \* the events file as a host loss would leave it
  dirty,       \* the positions at which disk may differ from cache
  dropped,     \* the dirty positions the kernel has forgotten are dirty
  torn,        \* the positions of cache a host loss left to chance
  eventsDir,   \* the entry of the events directory in the root
  eventsFile,  \* the entry of the events file in the events directory
  lockFile,    \* the inode the lock file's path leads to, or None
  site,        \* what the paths lead to
  pc,          \* where each handle is in Open, Append or Close
  lockFd,      \* the inode each handle's lock descriptor is open on
  syncer,      \* the syncer each handle was opened with
  line,        \* the bytes Append is writing
  written,     \* how many of them the kernel has taken
  broken,      \* the handle's append stream has ended
  acked,       \* history: the lines Append reported durable
  faults,      \* how many failures there have been
  losses       \* history: how many of them were host losses

contentVars == <<cache, disk, dirty, dropped, torn>>
entryVars == <<eventsDir, eventsFile>>
fileVars == <<contentVars, entryVars, lockFile, site>>
appendVars == <<line, written, broken>>
vars == <<fileVars, pc, lockFd, syncer, appendVars, acked, faults, losses>>

\* A directory entry is absent, in memory only, or on the disk.
Entries == {"absent", "cached", "durable"}

\* The system calls of Open, in order, and the states of an open handle.
\*   closed        no descriptor
\*   lockOpened    the lock file is open and verified, not locked
\*   guarded       the guard is held
\*   dirMade       MkdirAll(events) done
\*   rootSynced    SyncDir(root) done
\*   eventsOpened  the events file is open and verified
\*   dirSynced     SyncDir(events) done: openEventsFile has returned
\*   truncated     repairTail has truncated, not synced
\*   ready         Open has returned, no Append under way
\*   writing       Append is in Write
\*   syncing       Append is in SyncFile
Pcs == {"closed", "lockOpened", "guarded", "dirMade", "rootSynced",
        "eventsOpened", "dirSynced", "truncated", "ready", "writing",
        "syncing"}

Opening(p) == pc[p] \in {"lockOpened", "guarded", "dirMade", "rootSynced",
                         "eventsOpened", "dirSynced", "truncated"}

\* The handle's descriptor holds the advisory lock.
Holding(p) == pc[p] \notin {"closed", "lockOpened"}

Init ==
  /\ cache = <<>> /\ disk = <<>>
  /\ dirty = {} /\ dropped = {} /\ torn = {}
  /\ eventsDir = "absent" /\ eventsFile = "absent"
  /\ lockFile = None
  /\ site \in Sites
  /\ pc = [p \in Writers |-> "closed"]
  /\ lockFd = [p \in Writers |-> None]
  /\ syncer = [p \in Writers |-> NoSyncer]
  /\ line = [p \in Writers |-> <<>>]
  /\ written = [p \in Writers |-> 0]
  /\ broken = [p \in Writers |-> FALSE]
  /\ acked = {}
  /\ faults = 0
  /\ losses = 0

Goto(p, label) == pc' = [pc EXCEPT ![p] = label]

\* Every descriptor of the handle is closed and its memory forgotten.
Release(p) ==
  /\ pc' = [pc EXCEPT ![p] = "closed"]
  /\ lockFd' = [lockFd EXCEPT ![p] = None]
  /\ syncer' = [syncer EXCEPT ![p] = NoSyncer]
  /\ line' = [line EXCEPT ![p] = <<>>]
  /\ written' = [written EXCEPT ![p] = 0]
  /\ broken' = [broken EXCEPT ![p] = FALSE]

\* One of the bounded failures: an I/O error, a crash, a power loss.
Fault == faults < MaxFaults /\ faults' = faults + 1

-----------------------------------------------------------------------------
(* The syncer *)

\* Syncer.VerifyFile: the handle is on the device that was probed.
VerifyFile(s, device) == SyncerVerified(s) /\ device = s.device

\* Syncer.sync returns without an error: what it has made durable is on the
\* disk only under the full-barrier primitive, on storage where it is one.
Persists(s, device) == s.mode = HostLossMode /\ device \in Barrier

\* Variant: nothing is synced.
SyncFileSkipped(p) == UNCHANGED contentVars

\* SyncFile on the events file.
SyncFile(p) ==
  IF Persists(syncer[p], site.events.device)
    THEN /\ disk' = Flush(disk, cache, (1..Len(cache)) \ dropped)
         /\ dirty' = dropped
         /\ UNCHANGED <<cache, dropped, torn>>
    ELSE UNCHANGED contentVars

\* A failed SyncFile: the pages stay dirty, or some are forgotten.
SyncFileFails ==
  /\ \E lost \in SUBSET {i \in dirty : i <= Len(cache) /\ ~KeepsDirty} :
       dropped' = dropped \cup lost
  /\ UNCHANGED <<cache, disk, dirty, torn>>

\* The entry after a successful SyncDir of the directory that holds it.
Committed(s, device, entry) ==
  IF Persists(s, device) /\ entry = "cached" THEN "durable" ELSE entry

\* checkSyncerRoot.
CheckSyncerRoot(s) == SyncerVerified(s) /\ s.dir = Root

\* verifyState, on what a path led to.
VerifyState(s, target) ==
  target.kind = "regular" /\ VerifyFile(s, target.device)

-----------------------------------------------------------------------------
(* Open *)

\* acquireWriterLock up to the lock call: O_NOFOLLOW refuses a symbolic link,
\* O_CREATE makes the file if there is none, verifyState may send it back.
OpenLockFile(p, s) ==
  /\ pc[p] = "closed"
  /\ CheckSyncerRoot(s)
  /\ site.lock.kind # "symlink"
  /\ \E inode \in Inodes :
       /\ IF lockFile # None
            THEN inode = lockFile
            ELSE \A q \in Writers : lockFd[q] # inode
       /\ lockFile' = inode
       /\ IF VerifyState(s, site.lock)
            THEN /\ Goto(p, "lockOpened")
                 /\ lockFd' = [lockFd EXCEPT ![p] = inode]
                 /\ syncer' = [syncer EXCEPT ![p] = s]
            ELSE UNCHANGED <<pc, lockFd, syncer>>
  /\ UNCHANGED <<contentVars, entryVars, site, appendVars, acked, faults, losses>>

\* Another descriptor holds the lock on the inode p has open.
LockedOut(p) ==
  \E q \in Writers \ {p} : Holding(q) /\ lockFd[q] = lockFd[p]

\* Variant: the lock is taken shared.
FlockShared(p) ==
  /\ pc[p] = "lockOpened"
  /\ Goto(p, "guarded")
  /\ UNCHANGED <<fileVars, lockFd, syncer, appendVars, acked, faults, losses>>

\* Flock(LOCK_EX|LOCK_NB).  Where locking is emulated it excludes nobody.
Flock(p) ==
  /\ pc[p] = "lockOpened"
  /\ site.lock.device \in ExclusiveFlock => ~LockedOut(p)
  /\ Goto(p, "guarded")
  /\ UNCHANGED <<fileVars, lockFd, syncer, appendVars, acked, faults, losses>>

\* EWOULDBLOCK: Open closes the lock file and returns ErrLocked.
FlockRefused(p) ==
  /\ pc[p] = "lockOpened"
  /\ LockedOut(p)
  /\ Release(p)
  /\ UNCHANGED <<fileVars, acked, faults, losses>>

\* Variant: the root is synced only by the open that creates the directory.
MakeEventsDirSyncOnce(p) ==
  /\ pc[p] = "guarded"
  /\ eventsDir' = IF eventsDir = "absent" THEN "cached" ELSE eventsDir
  /\ Goto(p, IF eventsDir = "absent" THEN "dirMade" ELSE "rootSynced")
  /\ UNCHANGED <<contentVars, eventsFile, lockFile, site, lockFd, syncer,
                 appendVars, acked, faults, losses>>

MakeEventsDir(p) ==
  /\ pc[p] = "guarded"
  /\ eventsDir' = IF eventsDir = "absent" THEN "cached" ELSE eventsDir
  /\ Goto(p, "dirMade")
  /\ UNCHANGED <<contentVars, eventsFile, lockFile, site, lockFd, syncer,
                 appendVars, acked, faults, losses>>

\* SyncDir(root), on every open.
SyncRootDir(p) ==
  /\ pc[p] = "dirMade"
  /\ VerifyFile(syncer[p], site.root)
  /\ eventsDir' = Committed(syncer[p], site.root, eventsDir)
  /\ Goto(p, "rootSynced")
  /\ UNCHANGED <<contentVars, eventsFile, lockFile, site, lockFd, syncer,
                 appendVars, acked, faults, losses>>

\* Variant: the directory is synced only by the open that creates the file.
OpenEventsFileSyncOnce(p) ==
  /\ pc[p] = "rootSynced"
  /\ site.events.kind # "symlink"
  /\ eventsFile' = IF eventsFile = "absent" THEN "cached" ELSE eventsFile
  /\ IF VerifyState(syncer[p], site.events)
       THEN /\ Goto(p, IF eventsFile = "absent" THEN "eventsOpened"
                                                ELSE "dirSynced")
            /\ UNCHANGED <<lockFd, syncer, appendVars>>
       ELSE Release(p)
  /\ UNCHANGED <<contentVars, eventsDir, lockFile, site, acked, faults, losses>>

\* The events file, with O_CREATE and O_NOFOLLOW, and its verifyState.
OpenEventsFile(p) ==
  /\ pc[p] = "rootSynced"
  /\ site.events.kind # "symlink"
  /\ eventsFile' = IF eventsFile = "absent" THEN "cached" ELSE eventsFile
  /\ IF VerifyState(syncer[p], site.events)
       THEN Goto(p, "eventsOpened") /\ UNCHANGED <<lockFd, syncer, appendVars>>
       ELSE Release(p)
  /\ UNCHANGED <<contentVars, eventsDir, lockFile, site, acked, faults, losses>>

\* SyncDir(events), on every open.
SyncEventsDir(p) ==
  /\ pc[p] = "eventsOpened"
  /\ VerifyFile(syncer[p], site.dir)
  /\ eventsFile' = Committed(syncer[p], site.dir, eventsFile)
  /\ Goto(p, "dirSynced")
  /\ UNCHANGED <<contentVars, eventsDir, lockFile, site, lockFd, syncer,
                 appendVars, acked, faults, losses>>

\* A step of Open the file system refuses whatever happens: the directory is
\* on another device, the events file is a symbolic link.
OpenRefused(p) ==
  /\ \/ pc[p] = "dirMade" /\ ~VerifyFile(syncer[p], site.root)
     \/ pc[p] = "rootSynced" /\ site.events.kind = "symlink"
     \/ pc[p] = "eventsOpened" /\ ~VerifyFile(syncer[p], site.dir)
  /\ Release(p)
  /\ UNCHANGED <<fileVars, acked, faults, losses>>

\* Variant: truncation to the newline instead of behind it.
RepairedLenShort ==
  IF CompleteLen(cache) = 0 THEN 0 ELSE CompleteLen(cache) - 1

\* The size the file is truncated to: newline + 1.
RepairedLen == CompleteLen(cache)

\* Variant: no repair.
RepairTailSkipped(p) ==
  /\ pc[p] = "dirSynced"
  /\ Goto(p, "ready")
  /\ UNCHANGED <<fileVars, lockFd, syncer, appendVars, acked, faults, losses>>

\* repairTail up to its sync.  A file at a record boundary is left alone.
RepairTail(p) ==
  /\ pc[p] = "dirSynced"
  /\ IF AtBoundary(cache)
       THEN Goto(p, "ready") /\ UNCHANGED contentVars
       ELSE LET n == RepairedLen IN
            /\ cache' = SubSeq(cache, 1, n)
            /\ dirty' = {i \in dirty : i <= n} \cup ((n + 1)..Len(disk))
            /\ dropped' = {i \in dropped : i <= n}
            /\ torn' = {i \in torn : i <= n}
            /\ disk' = disk
            /\ Goto(p, "truncated")
  /\ UNCHANGED <<entryVars, lockFile, site, lockFd, syncer, appendVars, acked,
                 faults, losses>>

\* The sync that makes the truncation durable, and Open returns.
SyncRepair(p) ==
  /\ pc[p] = "truncated"
  /\ SyncFile(p)
  /\ Goto(p, "ready")
  /\ UNCHANGED <<entryVars, lockFile, site, lockFd, syncer, appendVars, acked,
                 faults, losses>>

SyncRepairFails(p) ==
  /\ pc[p] = "truncated"
  /\ Fault
  /\ SyncFileFails
  /\ Release(p)
  /\ UNCHANGED <<entryVars, lockFile, site, acked, losses>>

\* Variant: Open returns its error and leaves the lock file open.
OpenFailsLeaking(p) ==
  /\ Opening(p) /\ pc[p] # "truncated"
  /\ Fault
  /\ Goto(p, "leaked")
  /\ UNCHANGED <<fileVars, lockFd, syncer, appendVars, acked, losses>>

\* Any other call of Open fails: what is open is closed, the guard included.
OpenFails(p) ==
  /\ Opening(p) /\ pc[p] # "truncated"
  /\ Fault
  /\ Release(p)
  /\ UNCHANGED <<fileVars, acked, losses>>

-----------------------------------------------------------------------------
(* Append and Close *)

\* Append up to its write: a record that cannot be framed, and every record
\* once the stream is broken, is refused and nothing changes.
AppendRecord(p, record) ==
  /\ pc[p] = "ready"
  /\ ~broken[p]
  /\ Framable(record)
  /\ Len(cache) + Len(Line(record)) <= MaxBytes
  /\ line' = [line EXCEPT ![p] = Line(record)]
  /\ written' = [written EXCEPT ![p] = 0]
  /\ Goto(p, "writing")
  /\ UNCHANGED <<fileVars, lockFd, syncer, broken, acked, faults, losses>>

\* One write system call takes n bytes of what is left of the line, at the end
\* of the file; os.File.Write calls again until none is left.
Write(p, n) ==
  /\ pc[p] = "writing"
  /\ n \in 1..(Len(line[p]) - written[p])
  /\ cache' = cache \o SubSeq(line[p], written[p] + 1, written[p] + n)
  /\ dirty' = dirty \cup ((Len(cache) + 1)..(Len(cache) + n))
  /\ written' = [written EXCEPT ![p] = @ + n]
  /\ Goto(p, IF written[p] + n = Len(line[p]) THEN "syncing" ELSE "writing")
  /\ UNCHANGED <<disk, dropped, torn, entryVars, lockFile, site, lockFd, syncer,
                 line, broken, acked, faults, losses>>

\* Variant: the line of the last Append stays in the handle.
ReturnStale(p, isBroken) ==
  /\ Goto(p, "ready")
  /\ broken' = [broken EXCEPT ![p] = isBroken]
  /\ UNCHANGED <<line, written>>

\* Append ends, with the stream broken or not.
Return(p, isBroken) ==
  /\ Goto(p, "ready")
  /\ line' = [line EXCEPT ![p] = <<>>]
  /\ written' = [written EXCEPT ![p] = 0]
  /\ broken' = [broken EXCEPT ![p] = isBroken]

\* Variant: a failed write leaves the stream usable.
WriteFailsUnbroken(p) ==
  /\ pc[p] = "writing"
  /\ Fault
  /\ Return(p, FALSE)
  /\ UNCHANGED <<fileVars, lockFd, syncer, acked, losses>>

\* The write failed, whatever it had put in the file.
WriteFails(p) ==
  /\ pc[p] = "writing"
  /\ Fault
  /\ Return(p, TRUE)
  /\ UNCHANGED <<fileVars, lockFd, syncer, acked, losses>>

\* SyncFile succeeded: the caller may report the event accepted.
AppendAccepted(p) ==
  /\ pc[p] = "syncing"
  /\ SyncFile(p)
  /\ acked' = acked \cup {[at |-> Len(cache) - Len(line[p]) + 1,
                           line |-> line[p],
                           mode |-> syncer[p].mode]}
  /\ Return(p, FALSE)
  /\ UNCHANGED <<entryVars, lockFile, site, lockFd, syncer, faults, losses>>

\* Variant: Append tries a failed sync again.
AppendSyncRetried(p) ==
  /\ pc[p] = "syncing"
  /\ Fault
  /\ SyncFileFails
  /\ UNCHANGED <<entryVars, lockFile, site, pc, lockFd, syncer, appendVars,
                 acked, losses>>

AppendSyncFails(p) ==
  /\ pc[p] = "syncing"
  /\ Fault
  /\ SyncFileFails
  /\ Return(p, TRUE)
  /\ UNCHANGED <<entryVars, lockFile, site, lockFd, syncer, acked, losses>>

\* Variant: Close unlinks the lock file.
CloseUnlinking(p) ==
  /\ pc[p] = "ready"
  /\ Release(p)
  /\ lockFile' = None
  /\ UNCHANGED <<contentVars, entryVars, site, acked, faults, losses>>

\* The lock file is never removed.
Close(p) ==
  /\ pc[p] = "ready"
  /\ Release(p)
  /\ UNCHANGED <<fileVars, acked, faults, losses>>

-----------------------------------------------------------------------------
(* The world around the writers *)

\* The process that owns the handle dies; the kernel closes its descriptors.
Crash(p) ==
  /\ pc[p] # "closed"
  /\ Fault
  /\ Release(p)
  /\ UNCHANGED <<fileVars, acked, losses>>

\* The kernel writes one dirty page back on its own, or commits a truncation.
KernelWriteback(i) ==
  /\ i \in dirty \ dropped
  /\ IF i <= Len(cache)
       THEN /\ disk' = WriteBack(disk, cache, i)
            /\ dirty' = dirty \ {i}
       ELSE /\ disk' = SubSeq(disk, 1, Len(cache))
            /\ dirty' = {j \in dirty : j <= Len(cache)}
  /\ UNCHANGED <<cache, dropped, torn, entryVars, lockFile, site, pc, lockFd,
                 syncer, appendVars, acked, faults, losses>>

\* What remains of a directory entry: one that is in memory only may be lost.
Remains(entry) == IF entry = "cached" THEN {"absent", "durable"} ELSE {entry}

\* The host stops.  Every process is gone and the file is what the disk holds,
\* if its entries are on it.  The promise of an append in process-crash mode
\* ends here.
HostLoss ==
  /\ Fault
  /\ eventsDir' \in Remains(eventsDir)
  /\ eventsFile' \in
       IF eventsDir' = "absent" THEN {"absent"} ELSE Remains(eventsFile)
  /\ lockFile' \in {lockFile, None}
  /\ disk' = IF eventsFile' = "absent" THEN <<>> ELSE disk
  /\ cache' = disk'
  /\ torn' = {i \in torn \cup dirty : i <= Len(disk')}
  /\ dirty' = {} /\ dropped' = {}
  /\ acked' = {a \in acked : a.mode = HostLossMode}
  /\ pc' = [p \in Writers |-> "closed"]
  /\ lockFd' = [p \in Writers |-> None]
  /\ syncer' = [p \in Writers |-> NoSyncer]
  /\ line' = [p \in Writers |-> <<>>]
  /\ written' = [p \in Writers |-> 0]
  /\ broken' = [p \in Writers |-> FALSE]
  /\ losses' = losses + 1
  /\ UNCHANGED site

-----------------------------------------------------------------------------
\* What a handle's program does: every step of Open and Append, and closing a
\* handle whose stream is broken.
OpenStep(p) ==
  \/ Flock(p) \/ FlockRefused(p)
  \/ MakeEventsDir(p) \/ SyncRootDir(p) \/ OpenEventsFile(p)
  \/ SyncEventsDir(p) \/ OpenRefused(p)
  \/ RepairTail(p) \/ SyncRepair(p)

AppendStep(p) ==
  \/ \E n \in 1..Len(line[p]) : Write(p, n)
  \/ AppendAccepted(p)

CallFails(p) ==
  \/ OpenFails(p) \/ SyncRepairFails(p) \/ WriteFails(p) \/ AppendSyncFails(p)

Next ==
  \/ \E p \in Writers :
       \/ \E s \in Syncers : OpenLockFile(p, s)
       \/ OpenStep(p)
       \/ \E record \in Inputs : AppendRecord(p, record)
       \/ AppendStep(p)
       \/ CallFails(p)
       \/ Close(p)
       \/ Crash(p)
  \/ \E i \in dirty : KernelWriteback(i)
  \/ HostLoss

Spec == Init /\ [][Next]_vars

\* The caller's retry loop: a handle that is not open is opened with a usable
\* syncer, a broken one is closed so that it can be reopened.
Retry(p) ==
  \/ \E s \in Syncers : OpenLockFile(p, s)
  \/ broken[p] /\ Close(p)

FairSpec ==
  Spec /\ \A p \in Writers :
            WF_vars(Retry(p) \/ OpenStep(p) \/ AppendStep(p))

-----------------------------------------------------------------------------
AckType == [at : Int, line : Seq(Bytes), mode : Modes]

\* The two copies.  A position is dirty in one of them, and dropped or torn in
\* the cache.
ContentTypeOK ==
  /\ cache \in Seq(Bytes) /\ disk \in Seq(Bytes)
  /\ dirty \subseteq Nat \ {0} /\ torn \subseteq Nat \ {0}
  /\ \A i \in dirty : i <= Len(cache) \/ i <= Len(disk)
  /\ \A i \in dropped : i \in dirty /\ i <= Len(cache)
  /\ \A i \in torn : i <= Len(cache)

\* The handles.  A line is under way only inside Append, and Append has left
\* its write exactly when the kernel has taken all of the line.
HandleTypeOK ==
  /\ pc \in [Writers -> Pcs]
  /\ lockFd \in [Writers -> Inodes \cup {None}]
  /\ syncer \in [Writers -> Syncers \cup {NoSyncer}]
  /\ line \in [Writers -> Seq(Bytes)]
  /\ written \in [Writers -> Nat]
  /\ broken \in [Writers -> BOOLEAN]
  /\ \A p \in Writers :
       /\ written[p] <= Len(line[p])
       /\ pc[p] = "syncing" <=> line[p] # <<>> /\ written[p] = Len(line[p])

\* The type invariant: the state keeps its shape whatever fails, whoever dies.
TypeOK ==
  /\ ContentTypeOK
  /\ eventsDir \in Entries /\ eventsFile \in Entries
  /\ lockFile \in Inodes \cup {None}
  /\ site \in Sites
  /\ HandleTypeOK
  /\ acked \subseteq AckType
  /\ faults \in 0..MaxFaults
  /\ losses \in Nat

\* The single-writer guard: whatever handles open, fail, close, crash and
\* reopen, and whatever the lock file's path leads to, no two of them are past
\* acquireWriterLock together.
SingleWriter ==
  \A p, q \in Writers : Holding(p) /\ Holding(q) => p = q

\* A reader never finds two records, or a record and a fragment, on one line,
\* nor one record on two: a complete line is one record some caller submitted,
\* unless a host loss left part of it to chance.
NoFusedRecords ==
  \A i, j \in 1..Len(cache) :
    IsLine(cache, i, j) /\ (i..j) \cap torn = {} =>
      \E record \in Inputs :
        Framable(record) /\ SubSeq(cache, i, j) = Line(record)

\* What Append reported accepted stays in the spool, as a line of its own, for
\* as long as the syncer's mode promises: over process crashes always, over a
\* host loss in host-loss mode.
AckedSurvives == \A a \in acked : FramedIn(a, cache)

\* In host-loss mode Append returns only after the line, the file's entry and
\* the directory's entry are on the disk, and nothing done later, by this or
\* by any other handle, takes them off it.
AckedDurable ==
  \A a \in acked : a.mode = HostLossMode =>
    FramedIn(a, disk) /\ eventsDir = "durable" /\ eventsFile = "durable"

\* The bytes of an accepted record are on the disk even where a failed sync
\* makes the kernel forget pages: a sync that failed is never tried again for
\* the same record.
AckedBytesDurable ==
  \A a \in acked : a.mode = HostLossMode =>
    /\ 1 <= a.at /\ a.at + Len(a.line) - 1 <= Len(disk)
    /\ SubSeq(disk, a.at, a.at + Len(a.line) - 1) = a.line

\* No step of any handle, the tail repair included, removes or changes a
\* complete line: only a host loss does.
RecordsKept ==
  [][HostLoss \/ /\ CompleteLen(cache) <= Len(cache')
                 /\ SubSeq(cache', 1, CompleteLen(cache)) = Complete(cache)]_vars

\* A source is never locked or broken for good: after any failure some handle
\* can again append.
Recovers == []<>(\E p \in Writers : pc[p] = "ready" /\ ~broken[p])
=============================================================================
