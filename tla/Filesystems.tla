---------------------------- MODULE Filesystems ----------------------------
(***************************************************************************)
(* internal/durability: what the platform says about the volume that holds *)
(* the spool, and what inspectFilesystem concludes from it.                *)
(*                                                                         *)
(* A volume is a record: its platform, the type name the kernel has for    *)
(* it, whether the mount table can be read and lists its device (Linux),   *)
(* and whether the mount flags say it is local (macOS).                    *)
(***************************************************************************)

\* classifyMountType: the FUSE names, which stand for every fuse.<driver>, and
\* the three groups of the table mountTypes.
FuseTypes == {"fuse", "fuseblk", "fuse.sshfs"}
MountNetwork == {"nfs", "nfs4", "cifs", "smb3", "smbfs", "9p", "ceph", "lustre",
                 "ocfs2", "afs", "glusterfs", "davfs", "beegfs", "orangefs"}
MountVolatile == {"tmpfs", "ramfs", "overlay"}
MountLocal == {"ext2", "ext3", "ext4", "xfs", "btrfs", "zfs", "f2fs", "bcachefs",
               "jfs", "nilfs2", "reiserfs", "erofs", "squashfs", "udf", "ubifs",
               "vfat", "exfat", "ntfs", "ntfs3", "hfsplus"}

\* filesystemMagics, by the types whose statfs magic it lists: nfs4 has the
\* magic of nfs, smb3 that of smb2, and every FUSE driver that of fuse.
MagicNetwork == FuseTypes \cup {"nfs", "nfs4", "cifs", "smb3", "smbfs", "afs",
                                "9p", "ceph", "lustre", "ocfs2"}
MagicVolatile == {"tmpfs", "ramfs", "overlay"}

\* The macOS lists.
DarwinNetwork == {"nfs", "smbfs", "afpfs", "webdav", "ftp"}
DarwinVolatile == {"tmpfs", "ramfs", "devfs"}

\* What is read off a volume: refused is ErrUnknownFilesystem.
Verdict(network, volatile, refused) ==
  [network |-> network, volatile |-> volatile, refused |-> refused]

\* inspectMountTable and classifyMountType.
ByMountTable(type) ==
  Verdict(type \in FuseTypes \cup MountNetwork,
          type \in MountVolatile,
          type \notin FuseTypes \cup MountNetwork \cup MountVolatile
                                \cup MountLocal)

\* filesystemForMagic: a magic the table does not list counts as local.
ByMagic(type) == Verdict(type \in MagicNetwork, type \in MagicVolatile, FALSE)

\* inspectFilesystem on Linux: the mount table, and the magic number where the
\* table cannot be read or does not list the device.
InspectLinux(v) == IF v.inMountTable THEN ByMountTable(v.type) ELSE ByMagic(v.type)

\* inspectFilesystem on macOS: the local flag is the authority.
InspectDarwin(v) ==
  Verdict(~v.localFlag \/ v.type \in DarwinNetwork,
          v.type \in DarwinVolatile, FALSE)

InspectFilesystem(v) ==
  IF v.platform = "linux" THEN InspectLinux(v) ELSE InspectDarwin(v)
=============================================================================
