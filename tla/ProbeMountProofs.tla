-------------------------- MODULE ProbeMountProofs --------------------------
(***************************************************************************)
(* Probe on Linux, whatever is mounted over the directory and in any       *)
(* order, for every device number, mount table, width of the magic and     *)
(* number of volumes.                                                      *)
(***************************************************************************)
EXTENDS ProbeMount, SequenceLemmas

-----------------------------------------------------------------------------
(* Words *)

\* The bits of a shifted word.
LEMMA ShiftedBits ==
  ASSUME NEW w \in SUBSET Int, NEW n \in Nat
  PROVE  /\ ShiftLeft(w, n) \subseteq Int /\ ShiftRight(w, n) \subseteq Int
         /\ Low(w, n) \subseteq Int /\ High(w, n) \subseteq Int
         /\ \A b \in Int : b \in ShiftLeft(w, n) <=> b - n \in w
         /\ \A b \in Int : b \in ShiftRight(w, n) <=> b >= 0 /\ b + n \in w
<1>1. ShiftLeft(w, n) \subseteq Int
  BY DEF ShiftLeft
<1>2. ShiftRight(w, n) \subseteq Int
  BY DEF ShiftRight
<1>3. Low(w, n) \subseteq Int /\ High(w, n) \subseteq Int
  BY DEF Low, High
<1>4. ASSUME NEW b \in Int PROVE b \in ShiftLeft(w, n) <=> b - n \in w
  BY DEF ShiftLeft
<1>5. ASSUME NEW b \in Int PROVE b \in ShiftRight(w, n) <=> b >= 0 /\ b + n \in w
  BY DEF ShiftRight
<1> QED BY <1>1, <1>2, <1>3, <1>4, <1>5

\* The bits of a device number.
LEMMA MakeDevBits ==
  ASSUME NEW major \in SUBSET Int, NEW minor \in SUBSET Int
  PROVE  /\ MakeDev(major, minor) \subseteq Int
         /\ \A b \in Int : b \in MakeDev(major, minor) <=>
              \/ b - 8 \in major /\ b - 8 < 12
              \/ b - 32 \in major /\ b - 32 >= 12
              \/ b \in minor /\ b < 8
              \/ b - 12 \in minor /\ b - 12 >= 8
<1> DEFINE a == ShiftLeft(Low(major, 12), 8)
           c == ShiftLeft(High(major, 12), 32)
           e == ShiftLeft(High(minor, 8), 12)
<1>1. /\ Low(major, 12) \in SUBSET Int /\ High(major, 12) \in SUBSET Int
      /\ Low(minor, 8) \in SUBSET Int /\ High(minor, 8) \in SUBSET Int
  BY DEF Low, High
<1>2. a \subseteq Int /\ \A b \in Int : b \in a <=> b - 8 \in Low(major, 12)
  BY <1>1, ShiftedBits
<1>3. c \subseteq Int /\ \A b \in Int : b \in c <=> b - 32 \in High(major, 12)
  BY <1>1, ShiftedBits
<1>4. e \subseteq Int /\ \A b \in Int : b \in e <=> b - 12 \in High(minor, 8)
  BY <1>1, ShiftedBits
<1>5. MakeDev(major, minor) = a \cup c \cup Low(minor, 8) \cup e
  BY DEF MakeDev
<1> HIDE DEF a, c, e
<1>6. MakeDev(major, minor) \subseteq Int
  BY <1>1, <1>2, <1>3, <1>4, <1>5
<1>7. ASSUME NEW b \in Int
      PROVE  b \in MakeDev(major, minor) <=>
               \/ b - 8 \in major /\ b - 8 < 12
               \/ b - 32 \in major /\ b - 32 >= 12
               \/ b \in minor /\ b < 8
               \/ b - 12 \in minor /\ b - 12 >= 8
  <2>1. b \in MakeDev(major, minor) <=>
          b \in a \/ b \in c \/ b \in Low(minor, 8) \/ b \in e
    BY <1>5
  <2>2. b \in a <=> b - 8 \in major /\ b - 8 < 12
    BY <1>2 DEF Low
  <2>3. b \in c <=> b - 32 \in major /\ b - 32 >= 12
    BY <1>3 DEF High
  <2>4. b \in e <=> b - 12 \in minor /\ b - 12 >= 8
    BY <1>4 DEF High
  <2>5. b \in Low(minor, 8) <=> b \in minor /\ b < 8
    BY DEF Low
  <2> QED BY <2>1, <2>2, <2>3, <2>4, <2>5
<1> QED BY <1>6, <1>7

\* The numbers linuxDeviceNumbers reads off a device number are those makedev
\* put there: none of the 64 bits is lost or taken twice.
LEMMA DeviceNumbersRoundTrip ==
  ASSUME NEW major \in SUBSET (0..31), NEW minor \in SUBSET (0..31)
  PROVE  linuxDeviceNumbers(MakeDev(major, minor)) = [major |-> major, minor |-> minor]
<1> DEFINE dev == MakeDev(major, minor)
<1>1. \A b \in Int : b \in dev <=>
        \/ b - 8 \in major /\ b - 8 < 12
        \/ b - 32 \in major /\ b - 32 >= 12
        \/ b \in minor /\ b < 8
        \/ b - 12 \in minor /\ b - 12 >= 8
  <2>1. major \in SUBSET Int /\ minor \in SUBSET Int
    OBVIOUS
  <2> QED BY <2>1, MakeDevBits
<1>2. dev \in SUBSET Int
  <2>1. major \in SUBSET Int /\ minor \in SUBSET Int
    OBVIOUS
  <2> QED BY <2>1, MakeDevBits
<1> HIDE DEF dev
<1>3. \A n \in Nat, b \in Int : b \in ShiftRight(dev, n) <=> b >= 0 /\ b + n \in dev
  BY <1>2, ShiftedBits
<1>4. ASSUME NEW b
      PROVE  b \in Low(ShiftRight(dev, 8), 12) \cup Uint32(High(ShiftRight(dev, 32), 12))
               <=> b \in major
  <2>1. b \in major => b \in 0..31
    OBVIOUS
  <2>2. b \in ShiftRight(dev, 8) \cup ShiftRight(dev, 32) => b \in Int
    BY <1>2 DEF ShiftRight
  <2>3. CASE b \in Int
    <3>1. b \in ShiftRight(dev, 8) /\ b < 12 <=> b \in major /\ b < 12
      <4>1. b \in ShiftRight(dev, 8) <=> b >= 0 /\ b + 8 \in dev
        BY <1>3, <2>3
      <4>2. b + 8 \in Int /\ (b + 8) - 8 = b
        BY <2>3
      <4> QED BY <1>1, <2>1, <2>3, <4>1, <4>2
    <3>2. b \in ShiftRight(dev, 32) /\ b >= 12 /\ b \in 0..31 <=> b \in major /\ b >= 12
      <4>1. b \in ShiftRight(dev, 32) <=> b >= 0 /\ b + 32 \in dev
        BY <1>3, <2>3
      <4> QED BY <1>1, <2>1, <2>3, <4>1
    <3> QED BY <2>3, <3>1, <3>2 DEF Low, High, Uint32
  <2>4. CASE b \notin Int
    BY <2>1, <2>2, <2>4 DEF Low, High, Uint32
  <2> QED BY <2>3, <2>4
<1>5. ASSUME NEW b
      PROVE  b \in Low(dev, 8) \cup Uint32(High(ShiftRight(dev, 12), 8)) <=> b \in minor
  <2>1. b \in minor => b \in 0..31
    OBVIOUS
  <2>2. b \in dev \cup ShiftRight(dev, 12) => b \in Int
    BY <1>2 DEF ShiftRight
  <2>3. CASE b \in Int
    <3>1. b \in dev /\ b < 8 <=> b \in minor /\ b < 8
      BY <1>1, <2>1, <2>3
    <3>2. b \in ShiftRight(dev, 12) /\ b >= 8 /\ b \in 0..31 <=> b \in minor /\ b >= 8
      <4>1. b \in ShiftRight(dev, 12) <=> b >= 0 /\ b + 12 \in dev
        BY <1>3, <2>3
      <4> QED BY <1>1, <2>1, <2>3, <4>1
    <3> QED BY <2>3, <3>1, <3>2 DEF Low, High, Uint32
  <2>4. CASE b \notin Int
    BY <2>1, <2>2, <2>4 DEF Low, High, Uint32
  <2> QED BY <2>3, <2>4
<1>6. Low(ShiftRight(dev, 8), 12) \cup Uint32(High(ShiftRight(dev, 32), 12)) = major
  BY <1>4
<1>7. Low(dev, 8) \cup Uint32(High(ShiftRight(dev, 12), 8)) = minor
  BY <1>5
<1> QED BY <1>6, <1>7 DEF linuxDeviceNumbers, dev

\* And makedev of them is the device number.
LEMMA MakeDevRoundTrip ==
  ASSUME NEW dev \in SUBSET (0..63)
  PROVE  MakeDev(linuxDeviceNumbers(dev).major, linuxDeviceNumbers(dev).minor) = dev
<1> DEFINE major == Low(ShiftRight(dev, 8), 12) \cup Uint32(High(ShiftRight(dev, 32), 12))
           minor == Low(dev, 8) \cup Uint32(High(ShiftRight(dev, 12), 8))
<1>1. \A n \in Nat, b \in Int : b \in ShiftRight(dev, n) <=> b >= 0 /\ b + n \in dev
  <2>1. dev \in SUBSET Int
    OBVIOUS
  <2> QED BY <2>1, ShiftedBits
<1>2. \A b \in Int : b \in major <=>
        \/ b >= 0 /\ b + 8 \in dev /\ b < 12
        \/ b >= 0 /\ b + 32 \in dev /\ b >= 12 /\ b \in 0..31
  BY <1>1 DEF Low, High, Uint32
<1>3. \A b \in Int : b \in minor <=>
        \/ b \in dev /\ b < 8
        \/ b >= 0 /\ b + 12 \in dev /\ b >= 8 /\ b \in 0..31
  BY <1>1 DEF Low, High, Uint32
<1>4. major \in SUBSET Int /\ minor \in SUBSET Int
  <2>1. dev \in SUBSET Int
    OBVIOUS
  <2>2. ShiftRight(dev, 8) \subseteq Int
    BY <2>1, ShiftedBits
  <2>3. Uint32(High(ShiftRight(dev, 32), 12)) \subseteq Int
        /\ Uint32(High(ShiftRight(dev, 12), 8)) \subseteq Int
    BY DEF Uint32
  <2>4. Low(ShiftRight(dev, 8), 12) \subseteq Int /\ Low(dev, 8) \subseteq Int
    BY <2>1, <2>2 DEF Low
  <2> QED BY <2>3, <2>4
<1> HIDE DEF major, minor
<1>5. ASSUME NEW b PROVE b \in MakeDev(major, minor) => b \in Int
  BY <1>4, MakeDevBits
<1>6. ASSUME NEW b \in Int
      PROVE  b \in MakeDev(major, minor) <=>
               \/ b - 8 \in major /\ b - 8 < 12
               \/ b - 32 \in major /\ b - 32 >= 12
               \/ b \in minor /\ b < 8
               \/ b - 12 \in minor /\ b - 12 >= 8
  BY <1>4, MakeDevBits
<1>7. ASSUME NEW b \in Int PROVE b \in MakeDev(major, minor) <=> b \in dev
  <2>1. b \in dev => b \in 0..63
    OBVIOUS
  <2>2. b - 8 \in major /\ b - 8 < 12 <=> b \in dev /\ b \in 8..19
    BY <1>2, <2>1
  <2>3. b - 32 \in major /\ b - 32 >= 12 <=> b \in dev /\ b \in 44..63
    BY <1>2, <2>1
  <2>4. b \in minor /\ b < 8 <=> b \in dev /\ b \in 0..7
    BY <1>3, <2>1
  <2>5. b - 12 \in minor /\ b - 12 >= 8 <=> b \in dev /\ b \in 20..43
    BY <1>3, <2>1
  <2> QED BY <1>6, <2>1, <2>2, <2>3, <2>4, <2>5
<1>8. MakeDev(major, minor) = dev
  <2>1. ASSUME NEW b PROVE b \in MakeDev(major, minor) <=> b \in dev
    <3>1. b \in dev => b \in Int
      OBVIOUS
    <3> QED BY <1>5, <1>7, <3>1
  <2> QED BY <2>1
<1>9. linuxDeviceNumbers(dev).major = major /\ linuxDeviceNumbers(dev).minor = minor
  BY DEF linuxDeviceNumbers, major, minor
<1> QED BY <1>8, <1>9

\* The conversion to uint32 gives the magic back, whatever the width.
LEMMA NarrowRoundTrip ==
  ASSUME NEW magic \in SUBSET (0..31), NEW width
  PROVE  Narrow(StatfsType(magic, width)) = magic
<1>1. magic \cap (0..31) = magic
  OBVIOUS
<1>2. (magic \cup (32..63)) \cap (0..31) = magic
  <2>1. \A b \in 32..63 : b \notin 0..31
    OBVIOUS
  <2> QED BY <1>1, <2>1, Zenon
<1> QED BY <1>1, <1>2 DEF Narrow, StatfsType, Uint32

-----------------------------------------------------------------------------
(* The inductive invariant *)

\* The path has led to the volumes of mounts one after the other, each once.
MountsInv ==
  /\ setting \in Settings
  /\ mounts \in Seq(setting.volumes) /\ Len(mounts) > 0
  /\ \A i, j \in 1..Len(mounts) : mounts[i] = mounts[j] => i = j

\* The lines a table read now or earlier may have.
TableLines == ToSet(setting.others) \cup UNION {ToSet(v.lines) : v \in ToSet(mounts)}
TableInv == table \in Seq(TableLines)

\* What was found about a volume is still so when another is asked: what is
\* mounted later has no line in the table that was read.
VerdictInv ==
  /\ pc \in {"idle", "tableRead", "unlisted"} => inspected = <<>>
  /\ pc = "unlisted" => ~Lists(table, Here.device)
  /\ ClassifiedByOwnType

\* The device, the probe file and the handle are those of volumes that became
\* the directory in this order, and the removal found the last two the same.
OrderInv ==
  \E d, f, h \in 1..Len(mounts) :
    /\ d <= f /\ f <= h
    /\ pc \in {"identified", "created", "opened", "measured", "removed", "probed"} =>
         device = mounts[d].device
    /\ pc \in {"created", "opened", "measured", "removed", "probed"} => file = mounts[f]
    /\ pc \in {"opened", "measured", "removed", "probed"} => handle = mounts[h]
    /\ pc \in {"removed", "probed"} => f = h

ProbeInv == MountsInv /\ TableInv /\ VerdictInv /\ OrderInv

-----------------------------------------------------------------------------
(* The mount table *)

\* The directory is the volume mounted last.
LEMMA HereIsLast ==
  ASSUME MountsInv
  PROVE  /\ Len(mounts) \in Nat \ {0} /\ DOMAIN mounts = 1..Len(mounts)
         /\ Here = mounts[Len(mounts)] /\ Here \in setting.volumes
         /\ Here \in ToSet(mounts) /\ ToSet(mounts) \subseteq setting.volumes
<1>1. Len(mounts) \in Nat \ {0} /\ DOMAIN mounts = 1..Len(mounts)
  BY LenProperties DEF MountsInv
<1>2. \A k \in 1..Len(mounts) : mounts[k] \in setting.volumes
  BY ElementOfSeq DEF MountsInv
<1>3. Len(mounts) \in 1..Len(mounts)
  BY <1>1
<1>4. Here = mounts[Len(mounts)]
  BY DEF Here, Last
<1> QED BY <1>1, <1>2, <1>3, <1>4 DEF ToSet

\* A line the table may have is well-formed, and one for the device of a volume
\* that can be mounted is a line of that volume, which is mounted.
LEMMA LineProperties ==
  ASSUME MountsInv, NEW l \in TableLines
  PROVE  /\ Len(l) >= 8
         /\ linuxDeviceNumbers(LineDevice(l)) = l[3]
         /\ \A v \in setting.volumes :
              LineDevice(l) = v.device => TypeField(l) = v.type /\ v \in ToSet(mounts)
<1>1. setting \in Settings /\ ToSet(mounts) \subseteq setting.volumes
  BY HereIsLast DEF MountsInv
<1>2. /\ \A v, w \in setting.volumes : v.device = w.device => v = w
      /\ MountLines(setting.others)
      /\ \A v \in setting.volumes : MountLines(v.lines)
  BY <1>1, SettingAssumption
<1>3. l \in ToSet(setting.others) \/ \E v \in ToSet(mounts) : l \in ToSet(v.lines)
  BY DEF TableLines
<1>4. Len(l) >= 8 /\ l[3] \in [major : SUBSET (0..31), minor : SUBSET (0..31)]
  <2>1. CASE l \in ToSet(setting.others)
    BY <1>2, <2>1 DEF MountLines
  <2>2. CASE \E v \in ToSet(mounts) : l \in ToSet(v.lines)
    BY <1>1, <1>2, <2>2 DEF MountLines
  <2> QED BY <1>3, <2>1, <2>2
<1>5. linuxDeviceNumbers(LineDevice(l)) = l[3]
  <2>1. PICK major \in SUBSET (0..31), minor \in SUBSET (0..31) :
          l[3] = [major |-> major, minor |-> minor]
    BY <1>4
  <2>2. LineDevice(l) = MakeDev(major, minor)
    BY <2>1 DEF LineDevice
  <2> QED BY <2>1, <2>2, DeviceNumbersRoundTrip
<1>6. ASSUME NEW v \in setting.volumes, LineDevice(l) = v.device
      PROVE  TypeField(l) = v.type /\ v \in ToSet(mounts)
  <2>1. CASE l \in ToSet(setting.others)
    <3>1. LineDevice(l) \notin {w.device : w \in setting.volumes}
      BY <1>1, <2>1, SettingAssumption
    <3> QED BY <1>6, <3>1
  <2>2. CASE \E w \in ToSet(mounts) : l \in ToSet(w.lines)
    <3>1. PICK w \in ToSet(mounts) : l \in ToSet(w.lines)
      BY <2>2
    <3>2. LineDevice(l) = w.device /\ TypeField(l) = w.type /\ w \in setting.volumes
      BY <1>1, <3>1, SettingAssumption
    <3>3. w = v
      BY <1>2, <1>6, <3>2
    <3> QED BY <3>2, <3>3
  <2> QED BY <1>3, <2>1, <2>2
<1> QED BY <1>4, <1>5, <1>6

\* The name the code finds for a volume is that of its type where the table
\* has a line of its device, and none elsewhere.
LEMMA MountNameIsType ==
  ASSUME MountsInv, TableInv, NEW v \in setting.volumes
  PROVE  MountName(table, v.device) = IF Lists(table, v.device) THEN v.type ELSE ""
<1> DEFINE dev == linuxDeviceNumbers(v.device)
           own == {k \in 1..Len(table) : LineDevice(table[k]) = v.device}
           least == CHOOSE k \in own : \A m \in own : k <= m
<1>1. setting \in Settings
  BY DEF MountsInv
<1>2. v.device \in SUBSET (0..63) /\ v.type # ""
  BY <1>1, SettingAssumption
<1>3. DOMAIN table = 1..Len(table) /\ \A k \in 1..Len(table) : table[k] \in TableLines
  BY LenProperties, ElementOfSeq DEF TableInv
<1>4. ASSUME NEW k \in 1..Len(table)
      PROVE  Len(table[k]) >= 8 /\ table[k][3] = dev /\ TypeField(table[k]) # ""
               <=> LineDevice(table[k]) = v.device
  <2>1. /\ Len(table[k]) >= 8
        /\ linuxDeviceNumbers(LineDevice(table[k])) = table[k][3]
        /\ LineDevice(table[k]) = v.device => TypeField(table[k]) = v.type
    BY <1>3, LineProperties
  <2>2. table[k][3] = dev => LineDevice(table[k]) = v.device
    BY <1>2, MakeDevRoundTrip DEF LineDevice
  <2> HIDE DEF dev
  <2>3. LineDevice(table[k]) = v.device => table[k][3] = dev
    BY <2>1 DEF dev
  <2> QED BY <1>2, <2>1, <2>2, <2>3
<1>5. LinesFor(table, dev) = own
  <2> HIDE DEF dev
  <2> QED BY <1>3, <1>4 DEF LinesFor
<1>6. Lists(table, v.device) <=> own # {}
  BY <1>3 DEF Lists, LineDevice
<1>7. MountName(table, v.device) = IF own = {} THEN "" ELSE TypeField(table[least])
  BY <1>5 DEF MountName, mountTypeForDevice
<1>8. own # {} => TypeField(table[least]) = v.type
  <2> SUFFICES ASSUME own # {} PROVE TypeField(table[least]) = v.type
    OBVIOUS
  <2>1. own \in SUBSET Nat
    OBVIOUS
  <2>2. \E k \in own : \A m \in own : k <= m
    <3> HIDE DEF own
    <3> QED BY <2>1, LeastNatural
  <2>3. least \in own
    <3> HIDE DEF own
    <3> QED BY <2>2
  <2> HIDE DEF least
  <2>4. table[least] \in TableLines /\ LineDevice(table[least]) = v.device
    BY <1>3, <2>3
  <2> QED BY <2>4, LineProperties
<1> QED BY <1>6, <1>7, <1>8

\* The table ReadTable reads has the lines of the volumes mounted.
LEMMA TableRead ==
  ASSUME MountsInv
  PROVE  setting.others \o FlattenSeq([k \in DOMAIN mounts |-> mounts[k].lines])
           \in Seq(TableLines)
<1> DEFINE ss == [k \in DOMAIN mounts |-> mounts[k].lines]
<1>1. /\ DOMAIN mounts = 1..Len(mounts) /\ Len(mounts) \in Nat
      /\ \A k \in 1..Len(mounts) : mounts[k] \in setting.volumes /\ mounts[k] \in ToSet(mounts)
  BY HereIsLast, ElementOfSeq DEF ToSet
<1>2. setting \in Settings
  BY DEF MountsInv
<1>3. setting.others \in Seq(ToSet(setting.others))
      /\ \A v \in setting.volumes : v.lines \in Seq(ToSet(v.lines))
  BY <1>2, SettingAssumption DEF MountLines
<1>4. ASSUME NEW k \in 1..Len(mounts) PROVE mounts[k].lines \in Seq(TableLines)
  <2>1. mounts[k].lines \in Seq(ToSet(mounts[k].lines))
    BY <1>1, <1>3
  <2>2. ToSet(mounts[k].lines) \subseteq TableLines
    BY <1>1 DEF TableLines
  <2> QED BY <2>1, <2>2
<1>5. setting.others \in Seq(TableLines)
  <2>1. ToSet(setting.others) \subseteq TableLines
    BY DEF TableLines
  <2> QED BY <1>3, <2>1
<1>6. ss \in [1..Len(mounts) -> Seq(TableLines)]
  BY <1>1, <1>4
<1> HIDE DEF ss
<1>7. ss \in Seq(Seq(TableLines))
  BY <1>1, <1>6, SegmentIsSeq
<1>8. FlattenSeq(ss) \in Seq(TableLines)
  BY <1>7, FlattenType
<1> QED BY <1>5, <1>8, ConcatProperties DEF ss

-----------------------------------------------------------------------------
(* Every step keeps it *)

LEMMA InitProbeInv ==
  ASSUME Init PROVE ProbeInv
<1>1. PICK v \in setting.volumes : mounts = <<v>>
  BY DEF Init
<1>2. setting \in Settings /\ pc = "idle" /\ table = <<>> /\ inspected = <<>>
  BY DEF Init
<1>3. mounts \in Seq(setting.volumes) /\ Len(mounts) = 1
  BY <1>1, SingletonIsSeq, Zenon
<1>4. MountsInv
  <2>1. \A i, j \in 1..1 : i = j
    OBVIOUS
  <2>2. Len(mounts) > 0
    BY <1>3
  <2> QED BY <1>2, <1>3, <2>1, <2>2, Zenon DEF MountsInv
<1>5. TableInv
  BY <1>2 DEF TableInv
<1>6. VerdictInv
  BY <1>2 DEF VerdictInv, ClassifiedByOwnType
<1>7. OrderInv
  BY <1>2, <1>3 DEF OrderInv
<1> QED BY <1>4, <1>5, <1>6, <1>7 DEF ProbeInv

\* What a step of Probe leaves of the world.
LEMMA WorldUnchanged ==
  ASSUME MountsInv, UNCHANGED world
  PROVE  /\ MountsInv' /\ Here' = Here /\ TableLines' = TableLines
         /\ UNCHANGED setting /\ UNCHANGED mounts
<1>1. UNCHANGED setting /\ UNCHANGED mounts
  BY DEF world
<1> QED BY <1>1 DEF MountsInv, Here, TableLines

\* The three parts of the invariant about what Probe knows, when it ends or
\* goes on without asking the path anything.
LEMMA KeptByStep ==
  ASSUME ProbeInv, UNCHANGED <<world, table, inspected, asked>>,
         pc' \notin {"idle", "tableRead", "unlisted"}
  PROVE  MountsInv' /\ TableInv' /\ VerdictInv'
<1>1. /\ MountsInv' /\ TableLines' = TableLines
      /\ UNCHANGED table /\ UNCHANGED inspected /\ UNCHANGED asked
  BY WorldUnchanged DEF ProbeInv
<1>2. TableInv'
  BY <1>1 DEF ProbeInv, TableInv
<1>3. VerdictInv'
  BY <1>1 DEF ProbeInv, VerdictInv, ClassifiedByOwnType
<1> QED BY <1>1, <1>2, <1>3

LEMMA ReadTableStep ==
  ASSUME ProbeInv, ReadTable PROVE ProbeInv'
<1>1. /\ pc = "idle" /\ pc' = "tableRead" /\ UNCHANGED world /\ UNCHANGED inspected
      /\ \/ table' = <<>>
         \/ table' = setting.others \o FlattenSeq([k \in DOMAIN mounts |-> mounts[k].lines])
  BY DEF ReadTable
<1>2. MountsInv' /\ TableLines' = TableLines /\ UNCHANGED mounts
  BY <1>1, WorldUnchanged DEF ProbeInv
<1>3. table' \in Seq(TableLines)
  <2>1. <<>> \in Seq(TableLines)
    OBVIOUS
  <2> QED BY <1>1, <2>1, TableRead DEF ProbeInv
<1>4. TableInv'
  BY <1>2, <1>3 DEF TableInv
<1>5. VerdictInv'
  BY <1>1 DEF ProbeInv, VerdictInv, ClassifiedByOwnType
<1>6. OrderInv'
  BY <1>1, <1>2 DEF ProbeInv, OrderInv
<1> QED BY <1>2, <1>4, <1>5, <1>6 DEF ProbeInv

\* The verdict on the volume that answered.
LEMMA ConcludeStep ==
  ASSUME ProbeInv,
         NEW v, Conclude(v),
         v = InspectLinux([type |-> Here.type, inMountTable |-> Lists(table, Here.device)])
  PROVE  ProbeInv'
<1>1. /\ inspected' = <<v>> /\ asked' = Here /\ pc' \in {"failed", "inspected"}
      /\ UNCHANGED world /\ UNCHANGED table
  BY DEF Conclude
<1>2. MountsInv' /\ TableLines' = TableLines /\ UNCHANGED mounts
  BY <1>1, WorldUnchanged DEF ProbeInv
<1>3. TableInv'
  BY <1>1, <1>2 DEF ProbeInv, TableInv
<1>4. VerdictInv'
  BY <1>1 DEF VerdictInv, ClassifiedByOwnType
<1>5. OrderInv'
  BY <1>1, <1>2 DEF ProbeInv, OrderInv
<1> QED BY <1>2, <1>3, <1>4, <1>5 DEF ProbeInv

LEMMA InspectByNameStep ==
  ASSUME ProbeInv, InspectByName PROVE ProbeInv'
<1>1. MountsInv /\ TableInv /\ Here \in setting.volumes
  BY HereIsLast DEF ProbeInv
<1>2. /\ MountName(table, Here.device) # ""
      /\ Conclude(ByMountTable(MountName(table, Here.device)))
  BY DEF InspectByName
<1>3. MountName(table, Here.device) = Here.type /\ Lists(table, Here.device)
  BY <1>1, <1>2, MountNameIsType
<1>4. ByMountTable(Here.type) =
        InspectLinux([type |-> Here.type, inMountTable |-> Lists(table, Here.device)])
  BY <1>3 DEF InspectLinux
<1> QED BY <1>2, <1>3, <1>4, ConcludeStep

LEMMA UnlistedStep ==
  ASSUME ProbeInv, Unlisted PROVE ProbeInv'
<1>1. /\ pc = "tableRead" /\ pc' = "unlisted" /\ MountName(table, Here.device) = ""
      /\ UNCHANGED world /\ UNCHANGED table /\ UNCHANGED inspected
  BY DEF Unlisted, inspection
<1>2. MountsInv /\ TableInv /\ Here \in setting.volumes /\ setting \in Settings
  BY HereIsLast DEF ProbeInv, MountsInv
<1>3. Here.type # ""
  BY <1>2, SettingAssumption
<1>4. ~Lists(table, Here.device)
  BY <1>1, <1>2, <1>3, MountNameIsType
<1>5. MountsInv' /\ Here' = Here /\ TableLines' = TableLines /\ UNCHANGED mounts
  BY <1>1, WorldUnchanged DEF ProbeInv
<1>6. TableInv'
  BY <1>1, <1>2, <1>5 DEF TableInv
<1>7. VerdictInv'
  BY <1>1, <1>4, <1>5 DEF ProbeInv, VerdictInv, ClassifiedByOwnType
<1>8. OrderInv'
  BY <1>1, <1>5 DEF ProbeInv, OrderInv
<1> QED BY <1>5, <1>6, <1>7, <1>8 DEF ProbeInv

LEMMA InspectByMagicStep ==
  ASSUME ProbeInv, InspectByMagic PROVE ProbeInv'
<1>1. Conclude(InspectMagic(Here.magic, setting.width)) /\ pc = "unlisted"
  BY DEF InspectByMagic
<1>2. ~Lists(table, Here.device)
  BY <1>1 DEF ProbeInv, VerdictInv
<1>3. Here \in setting.volumes /\ setting \in Settings
  BY HereIsLast DEF ProbeInv, MountsInv
<1>4. /\ Here.magic \in SUBSET (0..31)
      /\ Here.magic \in NetworkMagics <=> Here.type \in MagicNetwork
      /\ Here.magic \in VolatileMagics <=> Here.type \in MagicVolatile
  BY <1>3, SettingAssumption
<1>5. InspectMagic(Here.magic, setting.width) = filesystemForMagic(Here.magic)
  BY <1>4, NarrowRoundTrip DEF InspectMagic
<1>6. filesystemForMagic(Here.magic) = ByMagic(Here.type)
  <2>1. /\ (Here.magic \in NetworkMagics) = (Here.type \in MagicNetwork)
        /\ (Here.magic \in VolatileMagics) = (Here.type \in MagicVolatile)
    BY <1>4
  <2> QED BY <2>1, Zenon DEF filesystemForMagic, ByMagic
<1>7. ByMagic(Here.type) =
        InspectLinux([type |-> Here.type, inMountTable |-> Lists(table, Here.device)])
  BY <1>2 DEF InspectLinux
<1> QED BY <1>1, <1>5, <1>6, <1>7, ConcludeStep

LEMMA DeviceOfStep ==
  ASSUME ProbeInv, DeviceOf PROVE ProbeInv'
<1>1. /\ pc' = "identified" /\ device' = Here.device
      /\ UNCHANGED <<world, table, inspected, asked>> /\ UNCHANGED mounts
  BY DEF DeviceOf, inspection, world
<1>2. MountsInv' /\ TableInv' /\ VerdictInv'
  BY <1>1, KeptByStep
<1>3. Here = mounts[Len(mounts)] /\ Len(mounts) \in 1..Len(mounts)
  BY HereIsLast DEF ProbeInv
<1>4. OrderInv'
  BY <1>1, <1>3 DEF OrderInv
<1> QED BY <1>2, <1>4 DEF ProbeInv

LEMMA CreateTempStep ==
  ASSUME ProbeInv, CreateTemp PROVE ProbeInv'
<1>1. /\ pc = "identified" /\ pc' = "created" /\ file' = Here /\ UNCHANGED device
      /\ UNCHANGED <<world, table, inspected, asked>> /\ UNCHANGED mounts
  BY DEF CreateTemp, inspection, world
<1>2. MountsInv' /\ TableInv' /\ VerdictInv'
  BY <1>1, KeptByStep
<1>3. Here = mounts[Len(mounts)] /\ Len(mounts) \in 1..Len(mounts)
  BY HereIsLast DEF ProbeInv
<1>4. PICK d \in 1..Len(mounts) : device = mounts[d].device
  BY <1>1 DEF ProbeInv, OrderInv
<1>5. d <= Len(mounts)
  BY <1>3
<1>6. OrderInv'
  BY <1>1, <1>3, <1>4, <1>5 DEF OrderInv
<1> QED BY <1>2, <1>6 DEF ProbeInv

LEMMA OpenDirStep ==
  ASSUME ProbeInv, OpenDir PROVE ProbeInv'
<1>1. /\ pc = "created" /\ pc' = "opened" /\ handle' = Here
      /\ UNCHANGED device /\ UNCHANGED file
      /\ UNCHANGED <<world, table, inspected, asked>> /\ UNCHANGED mounts
  BY DEF OpenDir, inspection, world
<1>2. MountsInv' /\ TableInv' /\ VerdictInv'
  BY <1>1, KeptByStep
<1>3. Here = mounts[Len(mounts)] /\ Len(mounts) \in 1..Len(mounts)
  BY HereIsLast DEF ProbeInv
<1>4. PICK d \in 1..Len(mounts), f \in 1..Len(mounts) :
        d <= f /\ device = mounts[d].device /\ file = mounts[f]
  BY <1>1 DEF ProbeInv, OrderInv
<1>5. f <= Len(mounts)
  BY <1>3
<1>6. OrderInv'
  BY <1>1, <1>3, <1>4, <1>5 DEF OrderInv
<1> QED BY <1>2, <1>6 DEF ProbeInv

LEMMA MeasureStep ==
  ASSUME ProbeInv, Measure PROVE ProbeInv'
<1>1. /\ pc = "opened" /\ pc' = "measured"
      /\ UNCHANGED device /\ UNCHANGED file /\ UNCHANGED handle
      /\ UNCHANGED <<world, table, inspected, asked>> /\ UNCHANGED mounts
  BY DEF Measure, inspection, world
<1>2. MountsInv' /\ TableInv' /\ VerdictInv'
  BY <1>1, KeptByStep
<1>3. OrderInv'
  BY <1>1 DEF ProbeInv, OrderInv
<1> QED BY <1>2, <1>3 DEF ProbeInv

\* The file is found only where it is: nothing was mounted since its creation,
\* so the handle is of the same volume.
LEMMA RemoveProbeStep ==
  ASSUME ProbeInv, RemoveProbe PROVE ProbeInv'
<1>1. /\ pc = "measured" /\ pc' = "removed" /\ Here = file
      /\ UNCHANGED device /\ UNCHANGED file /\ UNCHANGED handle
      /\ UNCHANGED <<world, table, inspected, asked>> /\ UNCHANGED mounts
  BY DEF RemoveProbe, inspection, world
<1>2. MountsInv' /\ TableInv' /\ VerdictInv'
  BY <1>1, KeptByStep
<1>3. /\ Here = mounts[Len(mounts)] /\ Len(mounts) \in 1..Len(mounts) /\ Len(mounts) \in Nat
      /\ \A i, j \in 1..Len(mounts) : mounts[i] = mounts[j] => i = j
  BY HereIsLast DEF ProbeInv, MountsInv
<1>4. PICK d \in 1..Len(mounts), f \in 1..Len(mounts), h \in 1..Len(mounts) :
        /\ d <= f /\ f <= h
        /\ device = mounts[d].device /\ file = mounts[f] /\ handle = mounts[h]
  BY <1>1 DEF ProbeInv, OrderInv
<1>5. f = Len(mounts)
  BY <1>1, <1>3, <1>4
<1>6. f = h
  BY <1>3, <1>4, <1>5
<1>7. OrderInv'
  BY <1>1, <1>4, <1>6 DEF OrderInv
<1> QED BY <1>2, <1>7 DEF ProbeInv

LEMMA CommitRemovalStep ==
  ASSUME ProbeInv, CommitRemoval PROVE ProbeInv'
<1>1. /\ pc = "removed" /\ pc' = "probed"
      /\ UNCHANGED device /\ UNCHANGED file /\ UNCHANGED handle
      /\ UNCHANGED <<world, table, inspected, asked>> /\ UNCHANGED mounts
  BY DEF CommitRemoval, SyncerDevice, inspection, world
<1>2. MountsInv' /\ TableInv' /\ VerdictInv'
  BY <1>1, KeptByStep
<1>3. OrderInv'
  BY <1>1 DEF ProbeInv, OrderInv
<1> QED BY <1>2, <1>3 DEF ProbeInv

LEMMA CallFailsStep ==
  ASSUME ProbeInv, CallFails PROVE ProbeInv'
<1>1. pc' = "failed" /\ UNCHANGED <<world, table, inspected, asked>> /\ UNCHANGED mounts
  BY DEF CallFails, inspection, world
<1>2. MountsInv' /\ TableInv' /\ VerdictInv'
  BY <1>1, KeptByStep
<1>3. OrderInv'
  BY <1>1 DEF ProbeInv, OrderInv
<1> QED BY <1>2, <1>3 DEF ProbeInv

\* A volume mounted now has no line in the table that was read before.
LEMMA MountStep ==
  ASSUME ProbeInv, NEW v \in setting.volumes, Mount(v) PROVE ProbeInv'
<1> DEFINE n == Len(mounts)
<1>1. /\ v \notin ToSet(mounts) /\ mounts' = Append(mounts, v)
      /\ UNCHANGED setting /\ UNCHANGED pc /\ UNCHANGED table /\ UNCHANGED inspected
      /\ UNCHANGED asked /\ UNCHANGED device /\ UNCHANGED file /\ UNCHANGED handle
  BY DEF Mount, inspection
<1>2. /\ MountsInv /\ TableInv /\ n \in Nat \ {0} /\ DOMAIN mounts = 1..n
      /\ mounts \in Seq(setting.volumes)
      /\ \A i, j \in 1..n : mounts[i] = mounts[j] => i = j
  BY HereIsLast DEF ProbeInv, MountsInv
<1>3. /\ mounts' \in Seq(setting.volumes) /\ Len(mounts') = n + 1 /\ mounts'[n + 1] = v
      /\ \A i \in 1..n : mounts'[i] = mounts[i]
  BY <1>1, <1>2, AppendProperties
<1> HIDE DEF n
<1>4. ASSUME NEW i \in 1..(n + 1), NEW j \in 1..(n + 1), mounts'[i] = mounts'[j]
      PROVE  i = j
  <2>1. \A k \in 1..n : mounts[k] # v
    BY <1>1, <1>2 DEF ToSet
  <2>2. \A k \in 1..(n + 1) : k = n + 1 \/ k \in 1..n
    BY <1>2
  <2> QED BY <1>2, <1>3, <1>4, <2>1, <2>2
<1>5. MountsInv'
  <2>1. setting' \in Settings /\ Len(mounts') > 0
    BY <1>1, <1>2, <1>3 DEF MountsInv
  <2> QED BY <1>1, <1>3, <1>4, <2>1 DEF MountsInv
<1>6. TableInv'
  <2>1. DOMAIN mounts' = 1..(n + 1)
    BY <1>3
  <2>2. ToSet(mounts) \subseteq ToSet(mounts')
    BY <1>2, <1>3, <2>1 DEF ToSet
  <2>3. TableLines \subseteq TableLines'
    BY <1>1, <2>2 DEF TableLines
  <2> QED BY <1>1, <1>2, <2>3 DEF TableInv
<1>7. ~Lists(table, v.device)
  <2> SUFFICES ASSUME NEW k \in DOMAIN table, LineDevice(table[k]) = v.device
               PROVE  FALSE
    BY DEF Lists, LineDevice
  <2>1. table[k] \in TableLines
    BY <1>2, ElementOfSeq, LenProperties DEF TableInv
  <2> QED BY <1>1, <1>2, <2>1, LineProperties
<1>8. Here' = v
  BY <1>3 DEF Here, Last
<1>9. VerdictInv'
  BY <1>1, <1>7, <1>8 DEF ProbeInv, VerdictInv, ClassifiedByOwnType
<1>10. OrderInv'
  <2>1. \A i \in 1..n : i \in 1..Len(mounts')
    BY <1>2, <1>3
  <2>2. \E d, f, h \in 1..n :
    /\ d <= f /\ f <= h
    /\ pc \in {"identified", "created", "opened", "measured", "removed", "probed"} =>
         device = mounts[d].device
    /\ pc \in {"created", "opened", "measured", "removed", "probed"} => file = mounts[f]
    /\ pc \in {"opened", "measured", "removed", "probed"} => handle = mounts[h]
    /\ pc \in {"removed", "probed"} => f = h
    BY DEF ProbeInv, OrderInv, n
  <2> QED BY <1>1, <1>3, <2>1, <2>2 DEF OrderInv
<1> QED BY <1>5, <1>6, <1>9, <1>10 DEF ProbeInv

LEMMA NextProbeInv ==
  ASSUME ProbeInv, [Next]_vars PROVE ProbeInv'
<1>1. CASE UNCHANGED vars
  <2>1. UNCHANGED <<setting, mounts, pc, table, inspected, asked, device, file, handle>>
    BY <1>1 DEF vars
  <2> QED BY <2>1 DEF ProbeInv, MountsInv, TableInv, TableLines, VerdictInv, OrderInv,
                      ClassifiedByOwnType, Here
<1>2. CASE Next
  BY <1>2, ReadTableStep, InspectByNameStep, UnlistedStep, InspectByMagicStep, DeviceOfStep,
     CreateTempStep, OpenDirStep, MeasureStep, RemoveProbeStep, CommitRemovalStep,
     CallFailsStep, MountStep DEF Next
<1> QED BY <1>1, <1>2

\* The file system is classified by what answered: the name its own type has in
\* the mount table or the magic of its own type, whatever the device numbers,
\* the layout and the order of the lines, the width of the magic, and whatever
\* is mounted between the read of the table, the stat and the statfs.
THEOREM ClassifiesByOwnType == Spec => []ClassifiedByOwnType
<1>1. ProbeInv => ClassifiedByOwnType
  BY DEF ProbeInv, VerdictInv
<1> QED BY <1>1, InitProbeInv, NextProbeInv, PTL DEF Spec

\* A Syncer that accepts the files of the directory has its mode from the
\* primitives of the volume that is the directory now, whatever was mounted
\* between the calls of Probe and after it: because os.Remove found the probe
\* file, the path led to one volume from the creation of the file to its
\* removal, and to no other device since the device was read.
THEOREM MeasuresHere == Spec => []MeasuredHere
<1>1. ProbeInv => MeasuredHere
  <2> SUFFICES ASSUME ProbeInv, pc = "probed", device = Here.device
               PROVE  file = Here /\ handle = Here
    BY DEF MeasuredHere
  <2>1. PICK d \in 1..Len(mounts), f \in 1..Len(mounts) :
          d <= f /\ device = mounts[d].device /\ file = mounts[f] /\ handle = mounts[f]
    BY DEF ProbeInv, OrderInv
  <2>2. /\ MountsInv /\ setting \in Settings
        /\ Here = mounts[Len(mounts)] /\ Len(mounts) \in 1..Len(mounts) /\ Len(mounts) \in Nat
        /\ Here \in setting.volumes
        /\ \A i, j \in 1..Len(mounts) : mounts[i] = mounts[j] => i = j
    BY HereIsLast DEF ProbeInv, MountsInv
  <2>3. mounts[d] \in setting.volumes
    BY <2>2, ElementOfSeq DEF MountsInv
  <2>4. mounts[d] = Here
    BY <2>1, <2>2, <2>3, SettingAssumption
  <2>5. d = Len(mounts)
    BY <2>2, <2>4
  <2>6. f = Len(mounts)
    BY <2>1, <2>2, <2>5
  <2> QED BY <2>1, <2>2, <2>6
<1> QED BY <1>1, InitProbeInv, NextProbeInv, PTL DEF Spec
=============================================================================
