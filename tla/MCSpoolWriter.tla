--------------------------- MODULE MCSpoolWriter ---------------------------
(***************************************************************************)
(* The instances of SpoolWriter that TLC checks.                           *)
(***************************************************************************)
EXTENDS SpoolPromise, TLC

\* Two bytes of record data, the newline, another line break, the hole.
MCBytes == {"a", "b", "nl", "ls", "hole"}
MCNL == "nl"
MCLineBreaks == {"nl", "ls"}
MCHole == "hole"

\* Two records that differ at every position, one of one byte, and what Append
\* must refuse: an empty record, one with a newline, one with another break.
MCRecords == {<<"a", "a">>, <<"b">>}
MCInputs == MCRecords \cup {<<>>, <<"a", "nl", "b">>, <<"b", "ls">>}

MCRoot == "root"
MCDevices == {"local", "remote"}
MCLocal == {"local"}

MCSyncer(dir, mode) == [dir |-> dir, device |-> "local", mode |-> mode]

\* The syncer of the root, one probed on another directory, the zero one.
MCSyncers(mode) ==
  {MCSyncer("root", mode), MCSyncer("elsewhere", mode), MCSyncer("root", NoMode)}
MCHostLossSyncers == MCSyncers(HostLossMode)
MCProcessCrashSyncers == MCSyncers(ProcessCrashMode)

File(kind, device) == [kind |-> kind, device |-> device]
MCGoodSite == [root |-> "local", dir |-> "local",
               lock |-> File("regular", "local"),
               events |-> File("regular", "local")]
MCGoodSites == {MCGoodSite}

\* Every way one path can lead elsewhere.
MCSites == MCGoodSites \cup
  {[MCGoodSite EXCEPT !.root = "remote"],
   [MCGoodSite EXCEPT !.dir = "remote"],
   [MCGoodSite EXCEPT !.dir = "remote", !.events.device = "remote"]} \cup
  {[MCGoodSite EXCEPT !.lock = f] :
     f \in {File("regular", "remote"), File("special", "local"),
            File("symlink", "local")}} \cup
  {[MCGoodSite EXCEPT !.events = f] :
     f \in {File("regular", "remote"), File("special", "local"),
            File("symlink", "local")}}

MCSymmetry == Permutations(Writers) \cup Permutations(Inodes)
=============================================================================
