------------------------------- MODULE Probe -------------------------------
(***************************************************************************)
(* internal/durability: Probe, which decides what a spool root may promise.*)
(*                                                                         *)
(* Probers are processes that probe the same directory, together or one    *)
(* after the other.  Each inspects the volume, creates a probe file, runs  *)
(* the sync primitives on the file and on the directory, removes the file, *)
(* commits the removal and returns a Syncer.  Any call may fail, a prober  *)
(* may die between two calls, and the host may lose power.                 *)
(***************************************************************************)
EXTENDS Filesystems, Integers, FiniteSets

CONSTANTS
  Probers,   \* the processes that call Probe
  Names,     \* the names CreateTemp may draw
  None,      \* no probe file
  Volumes,   \* what the directory may be on
  MaxFaults  \* bound on the failures and crashes of a behaviour

HostLossMode == "host-loss"
ProcessCrashMode == "process-crash"
NoMode == ""

Targets == {"file", "dir"}

\* The primitives: syncFileData and fsync.
Primitives == {"full", "plain"}

\* A volume is what Filesystems says, and the facts the code cannot ask for:
\* whether it is served over a network, whether it outlives the host, and
\* which primitives it supports on a file and on a directory.
VolumeType ==
  [platform : {"linux", "darwin"}, type : STRING, inMountTable : BOOLEAN,
   localFlag : BOOLEAN, served : BOOLEAN, persistent : BOOLEAN,
   supports : SUBSET (Primitives \X Targets)]

ASSUME ProbeConstants ==
  /\ Volumes \subseteq VolumeType
  /\ None \notin Names
  /\ MaxFaults \in Nat

\* On Linux syncFileData is fsync.
ASSUME LinuxAssumption ==
  \A v \in Volumes, t \in Targets : v.platform = "linux" =>
    (<<"full", t>> \in v.supports <=> <<"plain", t>> \in v.supports)

\* What the code relies on the kernel to say: the types listed as local are
\* not served over a network, the macOS flag is true, and storage that does
\* not outlive the host has a type listed as volatile.  Two kinds of volume
\* are left out, which the code cannot tell apart either: without the mount
\* table, a network type the magic table does not list; and an ordinary file
\* system on a RAM-backed device, as the comment on HostLoss says.
ASSUME KernelAssumption ==
  \A v \in Volumes :
    /\ v.served =>
         IF v.platform = "darwin" THEN ~v.localFlag
         ELSE IF v.inMountTable THEN v.type \notin MountLocal \cup MountVolatile
         ELSE v.type \in MagicNetwork
    /\ ~v.persistent =>
         IF v.platform = "darwin" THEN v.type \in DarwinVolatile
         ELSE v.type \in MountVolatile \cap MagicVolatile

VARIABLES
  volume,  \* what the directory is on
  pc,      \* where each prober is
  file,    \* the name of its probe file
  mode,    \* what measureMode returned
  live,    \* the probe files in the directory
  stored,  \* the probe files a host loss would leave in it
  used,    \* the names drawn so far: CreateTemp's are random
  issued,  \* history: the mode and the probe file of every Syncer returned
  faults   \* how many failures there have been

vars == <<volume, pc, file, mode, live, stored, used, issued, faults>>
dirVars == <<live, stored>>

\* The steps of Probe.
\*   idle        not called        inspected   volume and device known
\*   created     CreateTemp done   written     handle open, probe written
\*   fileSynced  syncFileData(file) returned nil
\*   weak        in verifyProcessCrash
\*   weakFile    fsync(file) returned nil there
\*   measured    measureMode returned
\*   removed     the probe file is removed
\*   probed      the Syncer is returned
\*   failed      an error is returned
Pcs == {"idle", "inspected", "created", "written", "fileSynced", "weak",
        "weakFile", "measured", "removed", "probed", "failed"}

Init ==
  /\ volume \in Volumes
  /\ pc = [p \in Probers |-> "idle"]
  /\ file = [p \in Probers |-> None]
  /\ mode = [p \in Probers |-> NoMode]
  /\ live = {} /\ stored = {} /\ used = {} /\ issued = {}
  /\ faults = 0

Goto(p, label) == pc' = [pc EXCEPT ![p] = label]

Fault == faults < MaxFaults /\ faults' = faults + 1

\* The verdict Probe works with.
Inspected == InspectFilesystem(volume)

\* What the volume answers to a primitive, apart from I/O errors.
Supports(primitive, target) == <<primitive, target>> \in volume.supports

\* A primitive that returns nil on the directory puts its entries on the disk
\* if it is a barrier: syncFileData always, fsync where it is the same call.
Barrier(primitive) == primitive = "full" \/ volume.platform = "linux"
SyncDirectory(primitive) ==
  /\ live' = live
  /\ stored' = IF Barrier(primitive) THEN live ELSE stored

\* syncAt: the primitive of a mode.
Primitive(m) == IF m = HostLossMode THEN "full" ELSE "plain"

-----------------------------------------------------------------------------
(* Probe *)

\* inspectFilesystem, the network refusal, deviceOf.
Inspect(p) ==
  /\ pc[p] = "idle"
  /\ Goto(p, IF Inspected.refused \/ Inspected.network THEN "failed"
                                                       ELSE "inspected")
  /\ UNCHANGED <<volume, file, mode, dirVars, used, issued, faults>>

\* CreateTemp: O_EXCL on a random name.
CreateProbe(p) ==
  /\ pc[p] = "inspected"
  /\ \E name \in Names \ used :
       /\ file' = [file EXCEPT ![p] = name]
       /\ live' = live \cup {name}
       /\ used' = used \cup {name}
  /\ Goto(p, "created")
  /\ UNCHANGED <<volume, mode, stored, issued, faults>>

\* Variant: the full primitive's answer is believed on a volatile volume.
WriteProbeUncapped(p) ==
  /\ pc[p] = "created"
  /\ Goto(p, "written")
  /\ UNCHANGED <<volume, file, mode, dirVars, used, issued, faults>>

\* The directory handle and the write.  A volatile volume's ceiling is the
\* weaker mode, whatever the full primitive would answer.
WriteProbe(p) ==
  /\ pc[p] = "created"
  /\ Goto(p, IF Inspected.volatile THEN "weak" ELSE "written")
  /\ UNCHANGED <<volume, file, mode, dirVars, used, issued, faults>>

\* Variant: the mode is reported before it is measured on the directory.
SyncFullFileOnly(p) ==
  /\ pc[p] = "written"
  /\ mode' = [mode EXCEPT ![p] = HostLossMode]
  /\ Goto(p, "fileSynced")
  /\ UNCHANGED <<volume, file, dirVars, used, issued, faults>>

\* syncFileData on the file.
SyncFull(p) ==
  /\ pc[p] = "written"
  /\ Goto(p, IF Supports("full", "file") THEN "fileSynced" ELSE "weak")
  /\ UNCHANGED <<volume, file, mode, dirVars, used, issued, faults>>

\* syncFileData on the directory.
SyncFullDir(p) ==
  /\ pc[p] = "fileSynced"
  /\ IF Supports("full", "dir")
       THEN /\ SyncDirectory("full")
            /\ mode' = [mode EXCEPT ![p] = HostLossMode]
            /\ Goto(p, "measured")
       ELSE Goto(p, "weak") /\ UNCHANGED <<mode, dirVars>>
  /\ UNCHANGED <<volume, file, used, issued, faults>>

\* The deferred clean-up of an error: remove the probe file, best effort.
CleanUp(p) ==
  /\ live' \in {live, live \ {file[p]}}
  /\ stored' = stored
  /\ Goto(p, "failed")

\* verifyProcessCrash: fsync on the file.
SyncPlain(p) ==
  /\ pc[p] = "weak"
  /\ IF Supports("plain", "file")
       THEN Goto(p, "weakFile") /\ UNCHANGED dirVars
       ELSE CleanUp(p)
  /\ UNCHANGED <<volume, file, mode, used, issued, faults>>

\* verifyProcessCrash: fsync on the directory.
SyncPlainDir(p) ==
  /\ pc[p] = "weakFile"
  /\ IF Supports("plain", "dir")
       THEN /\ SyncDirectory("plain")
            /\ mode' = [mode EXCEPT ![p] = ProcessCrashMode]
            /\ Goto(p, "measured")
       ELSE CleanUp(p) /\ UNCHANGED mode
  /\ UNCHANGED <<volume, file, used, issued, faults>>

\* commitProbeRemoval: close and remove.
RemoveProbe(p) ==
  /\ pc[p] = "measured"
  /\ live' = live \ {file[p]}
  /\ Goto(p, "removed")
  /\ UNCHANGED <<volume, file, mode, stored, used, issued, faults>>

\* Variant: the removal is not committed.
CommitRemovalUnsynced(p) ==
  /\ pc[p] = "removed"
  /\ issued' = issued \cup {[mode |-> mode[p], file |-> file[p]]}
  /\ Goto(p, "probed")
  /\ UNCHANGED <<volume, file, mode, dirVars, used, faults>>

\* commitProbeRemoval: the directory sync, and Probe returns the Syncer.
CommitRemoval(p) ==
  /\ pc[p] = "removed"
  /\ Supports(Primitive(mode[p]), "dir")
  /\ SyncDirectory(Primitive(mode[p]))
  /\ issued' = issued \cup {[mode |-> mode[p], file |-> file[p]]}
  /\ Goto(p, "probed")
  /\ UNCHANGED <<volume, file, mode, used, faults>>

\* Variant: any error of the full primitive is taken for a refusal.
CallFailsDowngrading(p) ==
  /\ pc[p] \in {"written", "fileSynced"}
  /\ Fault
  /\ Goto(p, "weak")
  /\ UNCHANGED <<volume, file, mode, dirVars, used, issued>>

\* Any call fails with an error that is not a refusal of the primitive.  The
\* mode measured so far goes nowhere.
CallFails(p) ==
  /\ pc[p] \notin {"idle", "probed", "failed"}
  /\ Fault
  /\ CleanUp(p)
  /\ mode' = [mode EXCEPT ![p] = NoMode]
  /\ UNCHANGED <<volume, file, used, issued>>

-----------------------------------------------------------------------------
(* Around the probers *)

\* The prober's memory is gone; it may be started again.
Forget(p) ==
  /\ pc' = [pc EXCEPT ![p] = "idle"]
  /\ file' = [file EXCEPT ![p] = None]
  /\ mode' = [mode EXCEPT ![p] = NoMode]

\* Probe has returned and the process that called it ends.
Exit(p) ==
  /\ pc[p] \in {"probed", "failed"}
  /\ Forget(p)
  /\ UNCHANGED <<volume, dirVars, used, issued, faults>>

\* The prober dies inside Probe and its probe file stays.
Crash(p) ==
  /\ pc[p] \notin {"idle", "probed", "failed"}
  /\ Fault
  /\ Forget(p)
  /\ UNCHANGED <<volume, dirVars, used, issued>>

\* The kernel writes one directory entry back, or its removal.
KernelWriteback(name) ==
  /\ stored' = IF name \in live THEN stored \cup {name} ELSE stored \ {name}
  /\ UNCHANGED <<volume, pc, file, mode, live, used, issued, faults>>

\* The host stops: what is on the disk remains, nothing on a volatile volume.
HostLoss ==
  /\ Fault
  /\ stored' = IF volume.persistent THEN stored ELSE {}
  /\ live' = stored'
  /\ pc' = [p \in Probers |-> "idle"]
  /\ file' = [p \in Probers |-> None]
  /\ mode' = [p \in Probers |-> NoMode]
  /\ UNCHANGED <<volume, used, issued>>

ProbeStep(p) ==
  \/ Inspect(p) \/ CreateProbe(p) \/ WriteProbe(p)
  \/ SyncFull(p) \/ SyncFullDir(p) \/ SyncPlain(p) \/ SyncPlainDir(p)
  \/ RemoveProbe(p) \/ CommitRemoval(p)

Next ==
  \/ \E p \in Probers : ProbeStep(p) \/ CallFails(p) \/ Exit(p) \/ Crash(p)
  \/ \E name \in live \cup stored : KernelWriteback(name)
  \/ HostLoss

Spec == Init /\ [][Next]_vars

-----------------------------------------------------------------------------
\* The type invariant: a probe file is named while one may exist, and a mode
\* is known from measureMode's return on.
TypeOK ==
  /\ volume \in Volumes
  /\ pc \in [Probers -> Pcs]
  /\ file \in [Probers -> Names \cup {None}]
  /\ mode \in [Probers -> {HostLossMode, ProcessCrashMode, NoMode}]
  /\ \A p \in Probers :
       /\ pc[p] \notin {"idle", "inspected", "failed"} => file[p] \in used
       /\ pc[p] \in {"measured", "removed", "probed"} <=> mode[p] # NoMode
  /\ live \subseteq used /\ stored \subseteq used /\ used \subseteq Names
  /\ issued \subseteq [mode : {HostLossMode, ProcessCrashMode}, file : used]
  /\ faults \in 0..MaxFaults

\* What a Syncer promises it can do: its primitive works on files and on
\* directories, and host-loss durability is promised only of storage that
\* outlives the host, never of a volume served over a network.  This is what
\* the spool writer's Open takes on trust.
ModeHonest ==
  \A s \in issued :
    /\ ~volume.served
    /\ \A t \in Targets : Supports(Primitive(s.mode), t)
    /\ s.mode = HostLossMode => volume.persistent

\* No silent downgrade: the weaker mode is returned only where the full
\* primitive is refused on a file or on a directory, or the storage may not
\* outlive the host; an I/O error never turns into a weaker promise.
StrongestMode ==
  \A s \in issued : s.mode = ProcessCrashMode =>
    \/ Inspected.volatile
    \/ \E t \in Targets : ~Supports("full", t)

\* A probe that succeeds leaves nothing behind: its file is gone, and in
\* host-loss mode no power loss, and no sync by another prober of the same
\* directory, brings it back.
NoDrift ==
  \A s \in issued : s.mode = HostLossMode => s.file \notin live \cup stored
=============================================================================
