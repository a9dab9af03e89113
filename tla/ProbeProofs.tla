---------------------------- MODULE ProbeProofs ----------------------------
(***************************************************************************)
(* What Probe promises of a Syncer, for any volumes, any number of probers *)
(* and any number of failures.                                             *)
(***************************************************************************)
EXTENDS Probe, TLAPS

\* The full primitive is not the one to promise: the storage may not outlive
\* the host, or a file or a directory refuses the primitive.
Capped == Inspected.volatile \/ \E t \in Targets : ~Supports("full", t)

\* What the primitives a prober has run so far have established.
MeasureInv ==
  \A p \in Probers :
    /\ pc[p] \notin {"idle", "failed"} =>
         ~Inspected.refused /\ ~Inspected.network
    /\ pc[p] \in {"written", "fileSynced"} => ~Inspected.volatile
    /\ pc[p] = "fileSynced" => Supports("full", "file")
    /\ pc[p] \in {"weak", "weakFile"} => Capped
    /\ pc[p] = "weakFile" => Supports("plain", "file")
    /\ pc[p] \in {"measured", "removed", "probed"} =>
         /\ mode[p] \in {HostLossMode, ProcessCrashMode}
         /\ \A t \in Targets : Supports(Primitive(mode[p]), t)
         /\ mode[p] = HostLossMode => ~Inspected.volatile
         /\ mode[p] = ProcessCrashMode => Capped

\* What holds of every Syncer returned.
IssuedInv ==
  \A s \in issued :
    /\ ~Inspected.refused /\ ~Inspected.network
    /\ s.mode \in {HostLossMode, ProcessCrashMode}
    /\ \A t \in Targets : Supports(Primitive(s.mode), t)
    /\ s.mode = HostLossMode => ~Inspected.volatile
    /\ s.mode = ProcessCrashMode => Capped

\* A prober that has removed its file has not got it back.
RemovedInv == \A p \in Probers : pc[p] = "removed" => file[p] \notin live

ProbeInv == TypeOK /\ RemovedInv /\ MeasureInv /\ IssuedInv /\ NoDrift

-----------------------------------------------------------------------------
\* No step changes the volume, and with it any verdict on it.
LEMMA VolumeUnchanged ==
  ASSUME [Next]_vars PROVE volume' = volume
BY DEF Next, vars, ProbeStep, Inspect, CreateProbe, WriteProbe, SyncFull,
       SyncFullDir, SyncPlain, SyncPlainDir, RemoveProbe, CommitRemoval,
       CallFails, Exit, Crash, KernelWriteback, HostLoss

LEMMA FaultType ==
  ASSUME TypeOK, Fault PROVE faults' \in 0..MaxFaults
BY ProbeConstants DEF TypeOK, Fault

\* The type invariant, and the probe file's removal.
LEMMA TypeNext ==
  ASSUME TypeOK, RemovedInv, [Next]_vars PROVE TypeOK' /\ RemovedInv'
<1> USE ProbeConstants DEF TypeOK, RemovedInv, HostLossMode, ProcessCrashMode, NoMode
<1>1. CASE UNCHANGED vars
  BY <1>1 DEF vars
<1>2. ASSUME NEW p \in Probers, Inspect(p) \/ WriteProbe(p) \/ SyncFull(p)
      PROVE  TypeOK' /\ RemovedInv'
  BY <1>2 DEF Inspect, WriteProbe, SyncFull, Goto, Pcs, dirVars
<1>3. ASSUME NEW p \in Probers, CreateProbe(p) PROVE TypeOK' /\ RemovedInv'
  BY <1>3 DEF CreateProbe, Goto, Pcs
<1>4. ASSUME NEW p \in Probers,
             SyncFullDir(p) \/ SyncPlain(p) \/ SyncPlainDir(p)
      PROVE  TypeOK' /\ RemovedInv'
  BY <1>4 DEF SyncFullDir, SyncPlain, SyncPlainDir, SyncDirectory, CleanUp, Goto,
              Pcs, dirVars
<1>5. ASSUME NEW p \in Probers, RemoveProbe(p) PROVE TypeOK' /\ RemovedInv'
  BY <1>5 DEF RemoveProbe, Goto, Pcs
<1>6. ASSUME NEW p \in Probers, CommitRemoval(p) PROVE TypeOK' /\ RemovedInv'
  <2> DEFINE s0 == [mode |-> mode[p], file |-> file[p]]
  <2>1. /\ pc[p] = "removed" /\ pc' = [pc EXCEPT ![p] = "probed"]
        /\ issued' = issued \cup {s0}
        /\ live' = live /\ stored' \in {live, stored}
        /\ UNCHANGED <<volume, file, mode, used, faults>>
    BY <1>6 DEF CommitRemoval, SyncDirectory, Goto
  <2>2. mode[p] \in {HostLossMode, ProcessCrashMode} /\ file[p] \in used
    BY <2>1
  <2>3. s0 \in [mode : {HostLossMode, ProcessCrashMode}, file : used]
    BY <2>2
  <2> HIDE DEF s0
  <2> QED BY <2>1, <2>3 DEF Pcs
<1>7. ASSUME NEW p \in Probers, CallFails(p) \/ Crash(p)
      PROVE  TypeOK' /\ RemovedInv'
  <2>1. faults' \in 0..MaxFaults
    BY <1>7, FaultType DEF CallFails, Crash
  <2> QED BY <1>7, <2>1 DEF CallFails, Crash, CleanUp, Forget, Goto, Pcs, dirVars
<1>8. ASSUME NEW p \in Probers, Exit(p) PROVE TypeOK' /\ RemovedInv'
  BY <1>8 DEF Exit, Forget, Pcs, dirVars
<1>9. ASSUME NEW name, KernelWriteback(name) PROVE TypeOK' /\ RemovedInv'
  BY <1>9 DEF KernelWriteback
<1>10. ASSUME HostLoss PROVE TypeOK' /\ RemovedInv'
  <2>1. faults' \in 0..MaxFaults
    BY <1>10, FaultType DEF HostLoss
  <2> QED BY <1>10, <2>1 DEF HostLoss, Pcs
<1> QED BY <1>1, <1>2, <1>3, <1>4, <1>5, <1>6, <1>7, <1>8, <1>9, <1>10
        DEF Next, ProbeStep

\* What the primitives have established.  Only the prober that takes the step
\* changes, and the verdicts do not.
LEMMA MeasureNext ==
  ASSUME TypeOK, MeasureInv, [Next]_vars PROVE MeasureInv'
<1>1. volume' = volume
  BY VolumeUnchanged
<1>2. /\ Inspected' = Inspected /\ Capped' = Capped
      /\ \A primitive, t : Supports(primitive, t)' = Supports(primitive, t)
  BY <1>1 DEF Inspected, Capped, Supports
<1> USE DEF TypeOK, MeasureInv, HostLossMode, ProcessCrashMode, NoMode
<1>3. CASE UNCHANGED vars
  BY <1>2, <1>3 DEF vars
<1>4. ASSUME NEW p \in Probers, Inspect(p) PROVE MeasureInv'
  BY <1>2, <1>4 DEF Inspect, Goto
<1>5. ASSUME NEW p \in Probers, CreateProbe(p) PROVE MeasureInv'
  BY <1>2, <1>5 DEF CreateProbe, Goto
<1>6. ASSUME NEW p \in Probers, WriteProbe(p) PROVE MeasureInv'
  BY <1>2, <1>6 DEF WriteProbe, Goto, Capped
<1>7. ASSUME NEW p \in Probers, SyncFull(p) PROVE MeasureInv'
  BY <1>2, <1>7 DEF SyncFull, Goto, Capped, Targets
<1>8. ASSUME NEW p \in Probers, SyncFullDir(p) PROVE MeasureInv'
  BY <1>2, <1>8 DEF SyncFullDir, Goto, Capped, Targets, Primitive
<1>9. ASSUME NEW p \in Probers, SyncPlain(p) PROVE MeasureInv'
  BY <1>2, <1>9 DEF SyncPlain, CleanUp, Goto
<1>10. ASSUME NEW p \in Probers, SyncPlainDir(p) PROVE MeasureInv'
  BY <1>2, <1>10 DEF SyncPlainDir, CleanUp, Goto, Targets, Primitive
<1>11. ASSUME NEW p \in Probers, RemoveProbe(p) \/ CommitRemoval(p)
       PROVE  MeasureInv'
  BY <1>2, <1>11 DEF RemoveProbe, CommitRemoval, Goto
<1>12. ASSUME NEW p \in Probers, CallFails(p) \/ Exit(p) \/ Crash(p)
       PROVE  MeasureInv'
  BY <1>2, <1>12 DEF CallFails, Exit, Crash, CleanUp, Forget, Goto
<1>13. ASSUME NEW name, KernelWriteback(name) PROVE MeasureInv'
  BY <1>2, <1>13 DEF KernelWriteback
<1>14. ASSUME HostLoss PROVE MeasureInv'
  BY <1>14 DEF HostLoss
<1> QED BY <1>3, <1>4, <1>5, <1>6, <1>7, <1>8, <1>9, <1>10, <1>11, <1>12, <1>13,
           <1>14 DEF Next, ProbeStep

\* Only CommitRemoval returns a Syncer.
LEMMA IssuedUnchanged ==
  ASSUME [Next]_vars, \A p \in Probers : ~CommitRemoval(p)
  PROVE  issued' = issued
BY DEF Next, vars, ProbeStep, Inspect, CreateProbe, WriteProbe, SyncFull,
       SyncFullDir, SyncPlain, SyncPlainDir, RemoveProbe, CallFails, Exit,
       Crash, KernelWriteback, HostLoss

LEMMA IssuedNext ==
  ASSUME TypeOK, MeasureInv, IssuedInv, [Next]_vars PROVE IssuedInv'
<1>1. volume' = volume
  BY VolumeUnchanged
<1>2. /\ Inspected' = Inspected /\ Capped' = Capped
      /\ \A primitive, t : Supports(primitive, t)' = Supports(primitive, t)
  BY <1>1 DEF Inspected, Capped, Supports
<1>3. CASE \A p \in Probers : ~CommitRemoval(p)
  BY <1>2, <1>3, IssuedUnchanged DEF IssuedInv
<1>4. ASSUME NEW p \in Probers, CommitRemoval(p) PROVE IssuedInv'
  <2> DEFINE s0 == [mode |-> mode[p], file |-> file[p]]
  <2>1. issued' = issued \cup {s0} /\ pc[p] = "removed"
    BY <1>4 DEF CommitRemoval
  <2>2. s0.mode = mode[p]
    OBVIOUS
  <2> HIDE DEF s0
  <2> QED BY <1>2, <2>1, <2>2 DEF IssuedInv, MeasureInv
<1> QED BY <1>3, <1>4

\* A committed removal stays: a directory entry reaches the disk only while it
\* is in the directory, and no name is drawn twice.
LEMMA NoDriftNext ==
  ASSUME TypeOK, RemovedInv, NoDrift, [Next]_vars PROVE NoDrift'
<1> USE DEF TypeOK, NoDrift
<1>1. ASSUME NEW p \in Probers, CommitRemoval(p) PROVE NoDrift'
  <2> DEFINE s0 == [mode |-> mode[p], file |-> file[p]]
  <2>1. /\ issued' = issued \cup {s0} /\ pc[p] = "removed"
        /\ live' = live
        /\ stored' = IF Barrier(Primitive(mode[p])) THEN live ELSE stored
    BY <1>1 DEF CommitRemoval, SyncDirectory
  <2>2. s0.mode = mode[p] /\ s0.file = file[p]
    OBVIOUS
  <2>3. file[p] \notin live
    BY <2>1 DEF RemovedInv
  <2>4. mode[p] = HostLossMode => stored' = live
    BY <2>1 DEF Barrier, Primitive
  <2>5. \A s \in issued : s.mode = HostLossMode => s.file \notin live \cup stored'
    BY <2>1
  <2> HIDE DEF s0
  <2> QED BY <2>1, <2>2, <2>3, <2>4, <2>5
<1>2. CASE \A p \in Probers : ~CommitRemoval(p)
  <2>1. issued' = issued
    BY <1>2, IssuedUnchanged
  <2>2. \A s \in issued : s.file \in used
    OBVIOUS
  <2>3. /\ live' \subseteq live \cup stored \cup (Names \ used)
        /\ stored' \subseteq live \cup stored
    BY <1>2 DEF Next, vars, ProbeStep, Inspect, CreateProbe, WriteProbe, SyncFull,
         SyncFullDir, SyncPlain, SyncPlainDir, RemoveProbe, CallFails, Exit,
         Crash, KernelWriteback, HostLoss, SyncDirectory, CleanUp, dirVars
  <2> QED BY <2>1, <2>2, <2>3
<1> QED BY <1>1, <1>2

LEMMA ProbeInit ==
  ASSUME Init PROVE ProbeInv
<1>1. TypeOK
  BY ProbeConstants DEF Init, TypeOK, Pcs
<1>2. RemovedInv /\ MeasureInv
  BY DEF Init, RemovedInv, MeasureInv
<1>3. IssuedInv /\ NoDrift
  BY DEF Init, IssuedInv, NoDrift
<1> QED BY <1>1, <1>2, <1>3 DEF ProbeInv

\* The inductive invariant holds in every reachable state.
THEOREM ProbeInvariant == Spec => []ProbeInv
<1>1. Init => ProbeInv
  BY ProbeInit
<1>2. ProbeInv /\ [Next]_vars => ProbeInv'
  BY TypeNext, MeasureNext, IssuedNext, NoDriftNext DEF ProbeInv
<1> QED BY <1>1, <1>2, PTL DEF Spec

\* The state of a probe keeps its shape.
THEOREM ProbeTypeCorrect == Spec => []TypeOK
<1>1. ProbeInv => TypeOK
  BY DEF ProbeInv
<1> QED BY <1>1, ProbeInvariant, PTL

\* Every Syncer Probe returns is honest: not of a network volume, with a
\* primitive that works on files and directories, and host-loss mode only
\* where the storage outlives the host.  Together with what the kernel is
\* relied on to say, this is the assumption SpoolWriter makes of its syncers.
THEOREM SyncersHonest == Spec => []ModeHonest
<1>1. ProbeInv => ModeHonest
  <2> SUFFICES ASSUME ProbeInv, NEW s \in issued
               PROVE  /\ ~volume.served
                      /\ \A t \in Targets : Supports(Primitive(s.mode), t)
                      /\ s.mode = HostLossMode => volume.persistent
    BY DEF ModeHonest
  <2>1. /\ volume \in Volumes
        /\ ~Inspected.refused /\ ~Inspected.network
        /\ s.mode = HostLossMode => ~Inspected.volatile
        /\ \A t \in Targets : Supports(Primitive(s.mode), t)
    BY DEF ProbeInv, TypeOK, IssuedInv
  <2>2. volume.platform \in {"linux", "darwin"}
    BY <2>1, ProbeConstants DEF VolumeType
  <2>3. CASE volume.platform = "darwin"
    <3>1. /\ Inspected.network <=> (~volume.localFlag \/ volume.type \in DarwinNetwork)
          /\ Inspected.volatile <=> volume.type \in DarwinVolatile
      BY <2>3 DEF Inspected, InspectFilesystem, InspectDarwin, Verdict
    <3>2. /\ volume.served => ~volume.localFlag
          /\ ~volume.persistent => volume.type \in DarwinVolatile
      BY <2>1, <2>3, KernelAssumption
    <3>3. volume.served \in BOOLEAN /\ volume.persistent \in BOOLEAN
      BY <2>1, ProbeConstants DEF VolumeType
    <3> QED BY <2>1, <3>1, <3>2, <3>3
  <2>4. CASE volume.platform = "linux" /\ volume.inMountTable
    <3>1. /\ Inspected.network <=> volume.type \in FuseTypes \cup MountNetwork
          /\ Inspected.volatile <=> volume.type \in MountVolatile
          /\ Inspected.refused <=>
               volume.type \notin FuseTypes \cup MountNetwork \cup MountVolatile
                                            \cup MountLocal
      BY <2>4 DEF Inspected, InspectFilesystem, InspectLinux, ByMountTable, Verdict
    <3>2. /\ volume.served => volume.type \notin MountLocal \cup MountVolatile
          /\ ~volume.persistent => volume.type \in MountVolatile
      BY <2>1, <2>4, KernelAssumption
    <3> QED BY <2>1, <3>1, <3>2
  <2>5. CASE volume.platform = "linux" /\ ~volume.inMountTable
    <3>1. /\ Inspected.network <=> volume.type \in MagicNetwork
          /\ Inspected.volatile <=> volume.type \in MagicVolatile
      BY <2>5 DEF Inspected, InspectFilesystem, InspectLinux, ByMagic, Verdict
    <3>2. /\ volume.served => volume.type \in MagicNetwork
          /\ ~volume.persistent => volume.type \in MagicVolatile
      BY <2>1, <2>5, KernelAssumption
    <3> QED BY <2>1, <3>1, <3>2
  <2> QED BY <2>2, <2>3, <2>4, <2>5
<1> QED BY <1>1, ProbeInvariant, PTL

\* Probe never settles for the weaker mode because a call failed.
THEOREM NoSilentDowngrade == Spec => []StrongestMode
<1>1. ProbeInv => StrongestMode
  BY DEF ProbeInv, IssuedInv, StrongestMode, Capped
<1> QED BY <1>1, ProbeInvariant, PTL

\* The probe file of a successful host-loss probe never comes back.
THEOREM ProbesLeaveNothing == Spec => []NoDrift
<1>1. ProbeInv => NoDrift
  BY DEF ProbeInv
<1> QED BY <1>1, ProbeInvariant, PTL
=============================================================================
