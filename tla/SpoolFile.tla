----------------------------- MODULE SpoolFile -----------------------------
(***************************************************************************)
(* The content of one events file, as the spool writer and a line-oriented *)
(* reader look at it: a sequence of bytes.  A byte stands for a run of     *)
(* real bytes that reach the disk together; what the code tells apart is   *)
(* whether it is the newline the file is framed with, another character a  *)
(* Unicode-aware reader splits on, or a byte of a record.  Hole is what a  *)
(* file system shows where the file's size was extended over data that     *)
(* never reached the disk.                                                 *)
(***************************************************************************)
EXTENDS Integers, Sequences

CONSTANTS
  Bytes,       \* every byte a file may hold
  NL,          \* the newline that terminates a record
  lineBreaks,  \* every byte a reader may split a line on, NL included
  Hole         \* the byte read back where nothing was written

ASSUME ByteAssumption ==
  /\ lineBreaks \subseteq Bytes
  /\ NL \in lineBreaks
  /\ Hole \in Bytes \ lineBreaks

\* The line Append writes for a record.
Line(record) == Append(record, NL)

\* Variant: only the empty record is refused.
FramableUnchecked(record) == record # <<>>

\* What Append accepts: a non-empty record a reader cannot split.
Framable(record) ==
  /\ record # <<>>
  /\ \A i \in 1..Len(record) : record[i] \notin lineBreaks

\* The number of bytes up to and including the last newline, 0 without one:
\* lastNewlineOffset(file, size) + 1.
CompleteLen(c) ==
  CHOOSE n \in 0..Len(c) :
    /\ n = 0 \/ c[n] = NL
    /\ \A i \in (n + 1)..Len(c) : c[i] # NL

\* The records a crash cannot have torn.
Complete(c) == SubSeq(c, 1, CompleteLen(c))

\* The file ends where a record may be appended.
AtBoundary(c) == c = <<>> \/ c[Len(c)] = NL

\* The bytes i..j of c are one line of a reader, its terminator included.
IsLine(c, i, j) ==
  /\ i <= j /\ c[j] \in lineBreaks
  /\ i = 1 \/ c[i - 1] \in lineBreaks
  /\ \A k \in i..(j - 1) : c[k] \notin lineBreaks

\* The accepted line a is a line of its own in the content c.
FramedIn(a, c) ==
  LET last == a.at + Len(a.line) - 1
  IN  /\ 1 <= a.at /\ last <= Len(c)
      /\ SubSeq(c, a.at, last) = a.line
      /\ IsLine(c, a.at, last)

\* durability.Mode: what an accepted line is promised to survive.
HostLossMode == "host-loss"
ProcessCrashMode == "process-crash"
Modes == {HostLossMode, ProcessCrashMode}

\* What the disk shows at position k of a file whose bytes there are c.
Stored(c, k) == IF k <= Len(c) THEN c[k] ELSE Hole

\* The disk's copy d after the bytes of c at the positions in flushed, and the
\* size of c, reach it.
Flush(d, c, flushed) ==
  [k \in 1..Len(c) |-> IF k \in flushed THEN c[k] ELSE Stored(d, k)]

\* The disk's copy d after the byte of c at position i alone reaches it.
WriteBack(d, c, i) ==
  [k \in 1..(IF i > Len(d) THEN i ELSE Len(d)) |->
     IF k = i THEN c[k] ELSE Stored(d, k)]
=============================================================================
