------------------------------ MODULE MCProbe ------------------------------
(***************************************************************************)
(* The volumes and probers TLC checks Probe with.                          *)
(***************************************************************************)
EXTENDS Probe, TLC

Volume(platform, type, inMountTable, localFlag, served, persistent, supports) ==
  [platform |-> platform, type |-> type, inMountTable |-> inMountTable,
   localFlag |-> localFlag, served |-> served, persistent |-> persistent,
   supports |-> supports]

\* A type stands for its row of the tables: a local one, a volatile one, one
\* whose persistence is unknown, network ones listed in both tables and in the
\* mount table alone, a FUSE driver, and a type no table knows.
LinuxFacts ==
  {[type |-> "ext4", served |-> FALSE, persistent |-> TRUE],
   [type |-> "tmpfs", served |-> FALSE, persistent |-> FALSE],
   [type |-> "overlay", served |-> FALSE, persistent |-> TRUE],
   [type |-> "nfs4", served |-> TRUE, persistent |-> TRUE],
   [type |-> "glusterfs", served |-> TRUE, persistent |-> TRUE],
   [type |-> "fuse.sshfs", served |-> TRUE, persistent |-> TRUE],
   [type |-> "unlisted", served |-> TRUE, persistent |-> TRUE]}

LinuxVolumes ==
  {Volume("linux", f.type, inTable, FALSE, f.served, f.persistent,
          Primitives \X targets) :
     f \in LinuxFacts, inTable \in BOOLEAN, targets \in SUBSET Targets}

DarwinFacts ==
  {[type |-> "apfs", localFlag |-> TRUE, persistent |-> TRUE],
   [type |-> "tmpfs", localFlag |-> TRUE, persistent |-> FALSE],
   [type |-> "macfuse", localFlag |-> FALSE, persistent |-> TRUE]}

DarwinVolumes ==
  {Volume("darwin", f.type, FALSE, f.localFlag, ~f.localFlag, f.persistent,
          supports) :
     f \in DarwinFacts, supports \in SUBSET (Primitives \X Targets)}

\* The network types that pass for local without a mount table are left out.
MCVolumes ==
  DarwinVolumes \cup
  {v \in LinuxVolumes :
     v.type \in {"glusterfs", "unlisted"} => v.inMountTable}

MCSymmetry == Permutations(Probers) \cup Permutations(Names)
=============================================================================
