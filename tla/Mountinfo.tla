----------------------------- MODULE Mountinfo -----------------------------
(***************************************************************************)
(* internal/durability/mountinfo.go and sync_linux.go: how Linux tells the *)
(* type of a volume, down to the bits of the numbers.  A word is the set   *)
(* of the positions of its one bits.  A line of the mount table is the     *)
(* sequence of its fields, of which the third is the device.               *)
(*                                                                         *)
(* Filesystems has what this comes to: a volume is classified by the name  *)
(* the mount table has for its device, else by its magic number.           *)
(***************************************************************************)
EXTENDS Filesystems, Integers, Sequences, FiniteSets

-----------------------------------------------------------------------------
(* Words *)

ShiftRight(w, n) == {b - n : b \in {c \in w : c >= n}}
ShiftLeft(w, n) == {b + n : b \in w}

\* uint32(w).
Uint32(w) == w \cap (0..31)

\* The n low bits of a word, and the others.
Low(w, n) == {b \in w : b < n}
High(w, n) == {b \in w : b >= n}

\* makedev(3), which the kernel's st_dev follows.
MakeDev(major, minor) ==
  ShiftLeft(Low(major, 12), 8) \cup ShiftLeft(High(major, 12), 32)
  \cup Low(minor, 8) \cup ShiftLeft(High(minor, 8), 12)

linuxDeviceNumbers(device) ==
  [major |-> Low(ShiftRight(device, 8), 12) \cup Uint32(High(ShiftRight(device, 32), 12)),
   minor |-> Low(device, 8) \cup Uint32(High(ShiftRight(device, 12), 8))]

\* What Statfs_t.Type holds: an int32 is negative where the magic has its high
\* bit set, and extends its sign when it is widened.
StatfsType(magic, width) ==
  IF width = 32 /\ 31 \in magic THEN magic \cup (32..63) ELSE magic

\* Variant: the number is used as it comes.
NarrowWidened(type) == type

\* uint32(stat.Type).
Narrow(type) == Uint32(type)

-----------------------------------------------------------------------------
(* The mount table *)

\* The field after the lone dash, which optional fields may precede.
TypeField(fields) ==
  LET dashes == {k \in 7..(Len(fields) - 1) : fields[k] = "-"}
  IN  IF dashes = {} THEN ""
      ELSE fields[1 + CHOOSE k \in dashes : \A m \in dashes : k <= m]

\* The lines of the table whose device this is and that name a type.
LinesFor(table, dev) ==
  {k \in DOMAIN table :
     Len(table[k]) >= 8 /\ table[k][3] = dev /\ TypeField(table[k]) # ""}

\* The first of them.
mountTypeForDevice(table, dev) ==
  LET lines == LinesFor(table, dev)
  IN  IF lines = {} THEN ""
      ELSE TypeField(table[CHOOSE k \in lines : \A m \in lines : k <= m])

\* The magic numbers, as words.
Word(high, low) ==
  {b \in 0..31 : ((IF b < 16 THEN low ELSE high) \div 2^(b % 16)) % 2 = 1}

NetworkMagics ==
  {Word(0, \h6969), Word(\hff53, \h4d42), Word(\hfe53, \h4d42), Word(0, \h517b),
   Word(\h5346, \h414f), Word(\h6b41, \h4653), Word(\h102, \h1997),
   Word(\hc3, \h6400), Word(\hbd0, \h0bd0), Word(\h7461, \h636f),
   Word(\h6573, \h5546)}
VolatileMagics == {Word(\h102, \h1994), Word(\h8584, \h58f6), Word(\h794c, \h7630)}

filesystemForMagic(magic) ==
  Verdict(magic \in NetworkMagics, magic \in VolatileMagics, FALSE)

\* The name the mount table has for a device, if any.
MountName(table, device) == mountTypeForDevice(table, linuxDeviceNumbers(device))

\* The verdict on a magic number as statfs reports it.
InspectMagic(magic, width) == filesystemForMagic(Narrow(StatfsType(magic, width)))

\* The mount table has a line for the device: what MountName is checked against.
Lists(table, device) ==
  \E k \in DOMAIN table : MakeDev(table[k][3].major, table[k][3].minor) = device
=============================================================================
