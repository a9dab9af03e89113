---------------------------- MODULE MCProbeMount ----------------------------
(***************************************************************************)
(* Volumes that differ in everything a step can ask for, mounted over each *)
(* other; and one volume of each type, with the magic Linux gives it, on   *)
(* devices whose numbers differ in high bits only, in mount tables with    *)
(* and without optional fields, other devices and repeated lines.          *)
(***************************************************************************)
EXTENDS ProbeMount

MCMagics ==
  [nfs |-> Word(0, \h6969), nfs4 |-> Word(0, \h6969), cifs |-> Word(\hff53, \h4d42),
   smb3 |-> Word(\hfe53, \h4d42), ceph |-> Word(\hc3, \h6400),
   ocfs2 |-> Word(\h7461, \h636f), fuse |-> Word(\h6573, \h5546),
   tmpfs |-> Word(\h102, \h1994), ramfs |-> Word(\h8584, \h58f6),
   overlay |-> Word(\h794c, \h7630), btrfs |-> Word(\h9123, \h683e),
   ext4 |-> Word(0, \hef53), xfs |-> Word(\h5846, \h5342), vfat |-> Word(0, \h4d44),
   f2fs |-> Word(\hf2f5, \h2010), unlisted |-> Word(\hde5e, \h81e4)]

Numbers(major, minor) == [major |-> major, minor |-> minor]
MCDevices ==
  {Numbers({3}, {0}), Numbers({3}, {0, 8}), Numbers({3, 8}, {0}),
   Numbers({3, 12}, {0}), Numbers({3}, {0, 20}), Numbers({3, 31}, {0, 31})}

MCLine(dev, optional, type) ==
  <<"36", "35", dev, "/", "/mnt", "rw">> \o optional \o <<"-", type, "dev", "rw">>
MCOptional == {<<>>, <<"shared:1">>, <<"shared:1", "master:2">>}

Volume(dev, type, lines, fsync) ==
  [device |-> MakeDev(dev.major, dev.minor), type |-> type, magic |-> MCMagics[type],
   lines |-> lines, fsync |-> fsync]

\* The lines for a device: none, one, or one for each of two bind mounts.
OwnLines(dev, type) ==
  {<<>>} \cup {<<MCLine(dev, o, type)>> : o \in MCOptional}
  \cup {<<MCLine(dev, <<>>, type), MCLine(dev, <<"shared:1">>, type)>>}

\* A line of another device.
OtherLines(dev) ==
  {<<>>} \cup {<<MCLine(other, <<"shared:1">>, type)>> :
                  other \in MCDevices \ {dev}, type \in {"ext4", "nfs"}}

MCSettled ==
  UNION {{[volumes |-> {Volume(dev, type, own, TRUE)}, width |-> w, others |-> o] :
            w \in {32, 64}, own \in OwnLines(dev, type), o \in OtherLines(dev)} :
           type \in DOMAIN MCMagics, dev \in MCDevices}

Listed(dev, type, fsync) == Volume(dev, type, <<MCLine(dev, <<>>, type)>>, fsync)
MCMoving ==
  {[volumes |-> {Listed(Numbers({}, {0}), "ext4", TRUE), Listed(Numbers({}, {1}), "vfat", FALSE),
                 Listed(Numbers({}, {2}), "tmpfs", TRUE), Listed(Numbers({}, {3}), "nfs", TRUE),
                 Volume(Numbers({}, {4}), "btrfs", <<>>, TRUE)},
    width |-> 64, others |-> <<>>]}

MCSettings == MCSettled \cup MCMoving
=============================================================================
