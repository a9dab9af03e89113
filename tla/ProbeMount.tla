----------------------------- MODULE ProbeMount -----------------------------
(***************************************************************************)
(* internal/durability: Probe on Linux while volumes are mounted over the  *)
(* directory it probes.  inspectFilesystem, deviceOf, CreateTemp, Open and *)
(* Remove each resolve the path again, so each may be answered by another  *)
(* volume.  What the primitives do is in Probe; here a volume supports     *)
(* fsync, which on Linux is both of them, or not.                          *)
(***************************************************************************)
EXTENDS Mountinfo, SequencesExt

CONSTANTS
  Settings, \* where Probe may run: [volumes, width, others], see below
  None      \* nothing yet

\* The device of a line of the mount table.
LineDevice(line) == MakeDev(line[3].major, line[3].minor)

\* A sequence of lines as the kernel writes them: the fields up to the dash and
\* behind it, and a device whose numbers have 32 bits.
MountLines(lines) ==
  /\ lines \in Seq(ToSet(lines))
  /\ \A l \in ToSet(lines) :
       Len(l) >= 8 /\ l[3] \in [major : SUBSET (0..31), minor : SUBSET (0..31)]

\* A volume is [device, type, magic, lines, fsync]: lines are those it has in
\* the mount table, where it is mounted and as often as it is.  The other lines
\* of the table are of other devices; width is that of Statfs_t.Type.  A device
\* is one volume, and its lines and its magic are those of its type.
ASSUME SettingAssumption ==
  \A s \in Settings :
    /\ None \notin s.volumes
    /\ \A v, w \in s.volumes : v.device = w.device => v = w
    /\ MountLines(s.others)
    /\ \A l \in ToSet(s.others) : LineDevice(l) \notin {v.device : v \in s.volumes}
    /\ \A v \in s.volumes :
         /\ v.device \subseteq 0..63 /\ v.type # ""
         /\ MountLines(v.lines)
         /\ \A l \in ToSet(v.lines) : LineDevice(l) = v.device /\ TypeField(l) = v.type
         /\ v.magic \subseteq 0..31
         /\ v.magic \in NetworkMagics <=> v.type \in MagicNetwork
         /\ v.magic \in VolatileMagics <=> v.type \in MagicVolatile

VARIABLES
  setting,   \* the volumes, the width and the other lines
  mounts,    \* the volumes mounted at the directory; the path leads to the last
  pc,        \* what Probe has done: "idle", "tableRead", "unlisted", "inspected",
             \* "identified", "created", "opened", "measured", "removed",
             \* "probed", "failed"
  table,     \* the mount table it read
  inspected, \* the verdict of inspectFilesystem: <<>> before
  asked,     \* history: the volume that answered inspectFilesystem
  device,    \* what deviceOf returned
  file,      \* the volume its probe file is on
  handle,    \* the volume its directory handle is on
  mode       \* what measureMode returned

vars == <<setting, mounts, pc, table, inspected, asked, device, file, handle, mode>>
world == <<setting, mounts>>
inspection == <<table, inspected, asked>>

\* Where the path leads now.
Here == Last(mounts)

Init ==
  /\ setting \in Settings
  /\ \E v \in setting.volumes : mounts = <<v>>
  /\ pc = "idle" /\ table = <<>> /\ inspected = <<>> /\ asked = None
  /\ device = None /\ file = None /\ handle = None /\ mode = None

\* os.ReadFile of the mount table, which may not be readable.
ReadTable ==
  /\ pc = "idle"
  /\ table' \in {<<>>, setting.others \o FlattenSeq([k \in DOMAIN mounts |-> mounts[k].lines])}
  /\ pc' = "tableRead"
  /\ UNCHANGED <<world, inspected, asked, device, file, handle, mode>>

\* What Probe does with a verdict: a network or unknown file system is refused.
Conclude(v) ==
  /\ inspected' = <<v>> /\ asked' = Here
  /\ pc' = IF v.network \/ v.refused THEN "failed" ELSE "inspected"
  /\ UNCHANGED <<world, table, device, file, handle, mode>>

\* The stat of inspectMountTable finds the device in the table that was read.
InspectByName ==
  /\ pc = "tableRead" /\ MountName(table, Here.device) # ""
  /\ Conclude(ByMountTable(MountName(table, Here.device)))

\* It does not: there is no table, or no line for the device.
Unlisted ==
  /\ pc = "tableRead" /\ MountName(table, Here.device) = ""
  /\ pc' = "unlisted"
  /\ UNCHANGED <<world, inspection, device, file, handle, mode>>

\* Statfs.
InspectByMagic ==
  pc = "unlisted" /\ Conclude(InspectMagic(Here.magic, setting.width))

\* deviceOf(absolute).
DeviceOf ==
  /\ pc = "inspected"
  /\ device' = Here.device /\ pc' = "identified"
  /\ UNCHANGED <<world, inspection, file, handle, mode>>

\* os.CreateTemp in the directory.
CreateTemp ==
  /\ pc = "identified"
  /\ file' = Here /\ pc' = "created"
  /\ UNCHANGED <<world, inspection, device, handle, mode>>

\* os.Open of the directory.
OpenDir ==
  /\ pc = "created"
  /\ handle' = Here /\ pc' = "opened"
  /\ UNCHANGED <<world, inspection, device, file, mode>>

\* measureMode and verifyProcessCrash.  Where fsync is refused the weaker
\* primitive, the same call again, is refused too, and Probe fails.
Measure ==
  /\ pc = "opened" /\ file.fsync /\ handle.fsync
  /\ mode' = IF inspected[1].volatile THEN "process-crash" ELSE "host-loss"
  /\ pc' = "measured"
  /\ UNCHANGED <<world, inspection, device, file, handle>>

\* os.Remove by path finds the probe file only where the path still leads to
\* it: elsewhere the call fails.
RemoveProbe ==
  /\ pc = "measured" /\ Here = file
  /\ pc' = "removed"
  /\ UNCHANGED <<world, inspection, device, file, handle, mode>>

\* Variant: the device is read when the Syncer is made.
SyncerDeviceReread == Here.device

SyncerDevice == device

\* The sync through the handle, and the Syncer.
CommitRemoval ==
  /\ pc = "removed"
  /\ device' = SyncerDevice /\ pc' = "probed"
  /\ UNCHANGED <<world, inspection, file, handle, mode>>

\* Any call fails, among them an fsync that is refused and the removal of a file
\* that is not there.
CallFails ==
  /\ pc \notin {"probed", "failed"}
  /\ pc' = "failed"
  /\ UNCHANGED <<world, inspection, device, file, handle, mode>>

\* Another volume is mounted over the directory.
Mount(v) ==
  /\ v \notin ToSet(mounts)
  /\ mounts' = Append(mounts, v)
  /\ UNCHANGED <<setting, pc, inspection, device, file, handle, mode>>

Next ==
  \/ ReadTable \/ InspectByName \/ Unlisted \/ InspectByMagic
  \/ DeviceOf \/ CreateTemp \/ OpenDir \/ Measure
  \/ RemoveProbe \/ CommitRemoval \/ CallFails
  \/ \E v \in setting.volumes : Mount(v)

Spec == Init /\ [][Next]_vars

-----------------------------------------------------------------------------
\* Whatever the numbers of the device, the fields of the lines, the width of the
\* magic and the volumes mounted meanwhile, the verdict is the one Filesystems
\* gives one volume: by the name of its type where the table lists its device,
\* else by the magic of its type, and never by those of another device.
ClassifiedByOwnType ==
  inspected # <<>> =>
    inspected = <<InspectLinux([type |-> asked.type,
                                inMountTable |-> Lists(table, asked.device)])>>

\* A Syncer is usable where the directory leads now only if the primitives ran
\* there: VerifyFile accepts no file of a volume whose mode was measured on
\* another one, whenever volumes are mounted over the directory.
MeasuredHere ==
  pc = "probed" /\ device = Here.device => file = Here /\ handle = Here

\* A volume that is in memory and says so is never advertised to survive the
\* host: the mode a Syncer gives to the files of its device is capped by what
\* that volume is.
VolatileCapped ==
  pc = "probed" /\ mode = "host-loss" =>
    \A v \in setting.volumes : v.device = device => v.type \notin MountVolatile
=============================================================================
