------------------------------ MODULE TailScan ------------------------------
(***************************************************************************)
(* internal/spool: lastNewlineOffset, the backward scan repairTail uses to *)
(* find where the last complete record ends.  It reads the file from its   *)
(* end in chunks of Chunk bytes, the last of which may be shorter.         *)
(* Offsets count from 0, as in the code; the byte at offset k is           *)
(* content[k + 1].                                                         *)
(***************************************************************************)
EXTENDS SpoolFile

CONSTANTS
  Chunk,    \* tailScanChunk
  Contents  \* the files that may be scanned

ASSUME ScanAssumption == Chunk \in Nat \ {0} /\ Contents \subseteq Seq(Bytes)

VARIABLES
  content,  \* the file; nobody writes it while the guard is held
  end,      \* the offset everything from which on has been scanned
  result,   \* what the scan returns
  pc        \* "scan", "done", or "failed" after a read error

vars == <<content, end, result, pc>>

Init ==
  /\ content \in Contents
  /\ end = Len(content)
  /\ result = -1
  /\ pc = "scan"

\* Variant: the last, shorter chunk is never reached.
StartUnclamped == IF end - Chunk > 0 THEN end - Chunk ELSE end

\* The offset the next chunk begins at.
Start == IF end - Chunk > 0 THEN end - Chunk ELSE 0

\* The offsets of the chunk at which it holds a newline.
Newlines == {k \in Start..(end - 1) : content[k + 1] = NL}

\* Variant: the byte in front of the chunk is skipped.
AdvanceTooFar ==
  /\ pc = "scan" /\ end > 0
  /\ Newlines = {}
  /\ end' = IF Start > 0 THEN Start - 1 ELSE 0
  /\ UNCHANGED <<content, result, pc>>

\* One iteration that finds no newline.
Advance ==
  /\ pc = "scan" /\ end > 0
  /\ Newlines = {}
  /\ end' = Start
  /\ UNCHANGED <<content, result, pc>>

\* The loop returns the last newline of the chunk: bytes.LastIndexByte.
Found ==
  /\ pc = "scan" /\ end > 0
  /\ \E k \in Newlines :
       /\ \A m \in Newlines : m <= k
       /\ result' = k
  /\ pc' = "done"
  /\ UNCHANGED <<content, end>>

\* The loop ends with nothing left to scan.
NotFound ==
  /\ pc = "scan" /\ end = 0
  /\ result' = -1
  /\ pc' = "done"
  /\ UNCHANGED <<content, end>>

ReadFails ==
  /\ pc = "scan" /\ end > 0
  /\ pc' = "failed"
  /\ UNCHANGED <<content, end, result>>

Done == pc \in {"done", "failed"} /\ UNCHANGED vars

Next == Advance \/ Found \/ NotFound \/ ReadFails \/ Done

Spec == Init /\ [][Next]_vars /\ WF_vars(Advance \/ Found \/ NotFound)

-----------------------------------------------------------------------------
\* Whatever the chunks' boundaries cut, the scan returns the offset of the
\* last newline of the file, or -1: the size repairTail truncates to is that
\* of the complete records.
FindsLastNewline == pc = "done" => result + 1 = CompleteLen(content)

\* The scan ends, with a result or with the error of a read.
ScanEnds == <>(pc # "scan")
=============================================================================
