------------------------- MODULE SpoolWriterProofs -------------------------
(***************************************************************************)
(* Theorems about SpoolWriter, for any number of handles, any records, any *)
(* file layout under the root and any number of failures: the types, the   *)
(* lock, the content of the file, the records Append has accepted, and     *)
(* that the writer keeps the promise of the log.                           *)
(***************************************************************************)
EXTENDS SpoolPromise, SequenceLemmas

-----------------------------------------------------------------------------
(* The operators of SpoolFile, for every file content *)

\* What repairTail truncates to: the position of the last newline, or 0.  The
\* CHOOSE of CompleteLen always has a witness.
LEMMA CompleteLenProperties ==
  ASSUME NEW c \in Seq(Bytes)
  PROVE  /\ CompleteLen(c) \in 0..Len(c)
         /\ CompleteLen(c) = 0 \/ c[CompleteLen(c)] = NL
         /\ \A i \in (CompleteLen(c) + 1)..Len(c) : c[i] # NL
<1>1. \E n \in 0..Len(c) : /\ n = 0 \/ c[n] = NL
                           /\ \A i \in (n + 1)..Len(c) : c[i] # NL
  BY LastOccurrence
<1> QED BY <1>1 DEF CompleteLen

\* The newline CompleteLen finds is the only position with its property.
LEMMA CompleteLenUnique ==
  ASSUME NEW c \in Seq(Bytes), NEW n \in 0..Len(c),
         n = 0 \/ c[n] = NL,
         \A i \in (n + 1)..Len(c) : c[i] # NL
  PROVE  n = CompleteLen(c)
<1> DEFINE m == CompleteLen(c)
<1>1. /\ m \in 0..Len(c)
      /\ m = 0 \/ c[m] = NL
      /\ \A i \in (m + 1)..Len(c) : c[i] # NL
  BY CompleteLenProperties
<1>2. Len(c) \in Nat
  BY LenProperties
<1> HIDE DEF m
<1>3. ~(m < n)
  BY <1>1, <1>2
<1>4. ~(n < m)
  BY <1>1, <1>2
<1> QED BY <1>1, <1>2, <1>3, <1>4 DEF m

\* A prefix of a file.
LEMMA PrefixProperties ==
  ASSUME NEW c \in Seq(Bytes), NEW n \in 0..Len(c)
  PROVE  /\ SubSeq(c, 1, n) \in Seq(Bytes)
         /\ Len(SubSeq(c, 1, n)) = n
         /\ \A i \in 1..n : SubSeq(c, 1, n)[i] = c[i]
BY PrefixIsSeq

\* The n bytes of a line behind its first a.
LEMMA ChunkProperties ==
  ASSUME NEW c \in Seq(Bytes), NEW a \in Nat, NEW n \in Nat, a + n <= Len(c)
  PROVE  /\ SubSeq(c, a + 1, a + n) \in Seq(Bytes)
         /\ Len(SubSeq(c, a + 1, a + n)) = n
         /\ \A i \in 1..n : SubSeq(c, a + 1, a + n)[i] = c[a + i]
<1> DEFINE lo == a + 1
           hi == a + n
           chunk == SubSeq(c, lo, hi)
<1>1. Len(c) \in Nat /\ lo \in Int /\ hi \in Int
  BY LenProperties
<1>2. \A i \in lo..hi : c[i] \in Bytes
  <2> SUFFICES ASSUME NEW i \in lo..hi PROVE c[i] \in Bytes
    OBVIOUS
  <2>1. i \in 1..Len(c)
    BY <1>1
  <2> QED BY <2>1, ElementOfSeq
<1>3. /\ hi - lo + 1 = n
      /\ n # 0 => lo <= hi
      /\ n = 0 => ~(lo <= hi)
      /\ \A i \in 1..n : lo + i - 1 = a + i
  OBVIOUS
<1> HIDE DEF lo, hi
<1>4. /\ chunk \in Seq(Bytes)
      /\ Len(chunk) = IF lo <= hi THEN hi - lo + 1 ELSE 0
      /\ \A i \in 1..(hi - lo + 1) : chunk[i] = c[lo + i - 1]
  BY <1>1, <1>2, SubSeqProperties
<1> HIDE DEF chunk
<1>5. chunk \in Seq(Bytes) /\ Len(chunk) = n
  BY <1>3, <1>4
<1>6. \A i \in 1..n : chunk[i] = c[a + i]
  BY <1>3, <1>4
<1> QED BY <1>5, <1>6 DEF chunk, lo, hi

\* A sync leaves the disk with the size of the cache, and with its byte at
\* every flushed position.
LEMMA FlushProperties ==
  ASSUME NEW d \in Seq(Bytes), NEW c \in Seq(Bytes), NEW flushed,
         Hole \in Bytes
  PROVE  /\ Flush(d, c, flushed) \in Seq(Bytes)
         /\ Len(Flush(d, c, flushed)) = Len(c)
         /\ \A k \in 1..Len(c) :
              Flush(d, c, flushed)[k] =
                IF k \in flushed THEN c[k] ELSE Stored(d, k)
<1>1. Len(c) \in Nat /\ Len(d) \in Nat
  BY LenProperties
<1>2. \A k \in 1..Len(c) : c[k] \in Bytes /\ Stored(d, k) \in Bytes
  BY <1>1, ElementOfSeq DEF Stored
<1>3. Flush(d, c, flushed) \in [1..Len(c) -> Bytes]
  BY <1>1, <1>2 DEF Flush
<1>4. \A k \in 1..Len(c) :
        Flush(d, c, flushed)[k] = IF k \in flushed THEN c[k] ELSE Stored(d, k)
  BY DEF Flush
<1> QED BY <1>1, <1>3, <1>4, SegmentIsSeq

\* Writing one page back changes one position and fills a gap with holes.
LEMMA WriteBackProperties ==
  ASSUME NEW d \in Seq(Bytes), NEW c \in Seq(Bytes), NEW i \in 1..Len(c),
         Hole \in Bytes
  PROVE  /\ WriteBack(d, c, i) \in Seq(Bytes)
         /\ Len(WriteBack(d, c, i)) = IF i > Len(d) THEN i ELSE Len(d)
         /\ \A k \in 1..(IF i > Len(d) THEN i ELSE Len(d)) :
              WriteBack(d, c, i)[k] = IF k = i THEN c[k] ELSE Stored(d, k)
<1> DEFINE n == IF i > Len(d) THEN i ELSE Len(d)
<1>1. Len(c) \in Nat /\ Len(d) \in Nat
  BY LenProperties
<1>2. n \in Nat
  BY <1>1
<1>3. c[i] \in Bytes /\ \A k \in 1..n : Stored(d, k) \in Bytes
  BY <1>1, ElementOfSeq DEF Stored
<1>4. WriteBack(d, c, i) \in [1..n -> Bytes]
  BY <1>2, <1>3 DEF WriteBack
<1>5. \A k \in 1..n : WriteBack(d, c, i)[k] = IF k = i THEN c[k] ELSE Stored(d, k)
  BY DEF WriteBack
<1> HIDE DEF n
<1>6. WriteBack(d, c, i) \in Seq(Bytes) /\ Len(WriteBack(d, c, i)) = n
  BY <1>2, <1>4, SegmentIsSeq
<1> QED BY <1>5, <1>6 DEF n

-----------------------------------------------------------------------------
(* The invariant of the guard *)

\* What makes the guard exclusive, and a part of every inductive argument: an
\* open handle has the inode the lock file's path leads to, and reached it with
\* a syncer of this root whose file system the lock file is on.
LockFileInv ==
  \A p \in Writers : pc[p] # "closed" =>
    /\ lockFd[p] = lockFile /\ lockFile # None
    /\ syncer[p] \in Syncers
    /\ CheckSyncerRoot(syncer[p])
    /\ VerifyState(syncer[p], site.lock)

\* The inductive invariant behind the type invariant and the guard.
GuardInv == TypeOK /\ LockFileInv /\ SingleWriter

-----------------------------------------------------------------------------
(* The content of the file *)

\* A step that leaves the two copies alone leaves their type alone.
LEMMA ContentUnchanged ==
  ASSUME ContentTypeOK, UNCHANGED contentVars
  PROVE  ContentTypeOK'
BY DEF ContentTypeOK, contentVars

\* SyncFile, whatever the mode, keeps the content well-typed.
LEMMA SyncFileType ==
  ASSUME ContentTypeOK, NEW p, SyncFile(p)
  PROVE  ContentTypeOK'
<1>1. CASE Persists(syncer[p], site.events.device)
  <2> DEFINE flushed == (1..Len(cache)) \ dropped
  <2>1. /\ disk' = Flush(disk, cache, flushed)
        /\ dirty' = dropped
        /\ UNCHANGED <<cache, dropped, torn>>
    BY <1>1 DEF SyncFile
  <2> HIDE DEF flushed
  <2>2. disk' \in Seq(Bytes) /\ Len(disk') = Len(cache)
    BY <2>1, FlushProperties, ByteAssumption DEF ContentTypeOK
  <2> QED BY <2>1, <2>2 DEF ContentTypeOK
<1>2. CASE ~Persists(syncer[p], site.events.device)
  BY <1>2, ContentUnchanged DEF SyncFile
<1> QED BY <1>1, <1>2

\* So does a sync that fails.
LEMMA SyncFileFailsType ==
  ASSUME ContentTypeOK, SyncFileFails
  PROVE  ContentTypeOK'
BY DEF ContentTypeOK, SyncFileFails

\* The truncation of the tail repair.
LEMMA RepairType ==
  ASSUME ContentTypeOK, NEW p, RepairTail(p)
  PROVE  ContentTypeOK'
<1>1. CASE AtBoundary(cache)
  BY <1>1, ContentUnchanged DEF RepairTail
<1>2. CASE ~AtBoundary(cache)
  <2> DEFINE n == RepairedLen
  <2>1. n \in 0..Len(cache)
    BY CompleteLenProperties DEF RepairedLen, ContentTypeOK
  <2>2. /\ cache' = SubSeq(cache, 1, n)
        /\ dirty' = {i \in dirty : i <= n} \cup ((n + 1)..Len(disk))
        /\ dropped' = {i \in dropped : i <= n}
        /\ torn' = {i \in torn : i <= n}
        /\ disk' = disk
    BY <1>2 DEF RepairTail
  <2> HIDE DEF n
  <2>3. cache' \in Seq(Bytes) /\ Len(cache') = n
    BY <2>1, <2>2, PrefixProperties DEF ContentTypeOK
  <2>4. Len(cache) \in Nat /\ Len(disk) \in Nat
    BY LenProperties DEF ContentTypeOK
  <2>5. \A i \in dirty' : /\ i \in Nat \ {0}
                          /\ i <= Len(cache') \/ i <= Len(disk')
    BY <2>1, <2>2, <2>3, <2>4 DEF ContentTypeOK
  <2>6. \A i \in dropped' : i \in dirty' /\ i <= Len(cache')
    BY <2>2, <2>3 DEF ContentTypeOK
  <2>7. \A i \in torn' : i \in Nat \ {0} /\ i <= Len(cache')
    BY <2>2, <2>3 DEF ContentTypeOK
  <2>8. disk' \in Seq(Bytes) /\ cache' \in Seq(Bytes)
    BY <2>2, <2>3 DEF ContentTypeOK
  <2> QED BY <2>5, <2>6, <2>7, <2>8 DEF ContentTypeOK
<1> QED BY <1>1, <1>2

\* What a write system call appends.
LEMMA WriteAppends ==
  ASSUME TypeOK, NEW p \in Writers, NEW n, Write(p, n)
  PROVE  /\ n \in Nat \ {0}
         /\ cache' \in Seq(Bytes)
         /\ Len(cache') = Len(cache) + n
         /\ \A i \in 1..Len(cache) : cache'[i] = cache[i]
         /\ \A i \in 1..n : cache'[Len(cache) + i] = line[p][written[p] + i]
<1> DEFINE chunk == SubSeq(line[p], written[p] + 1, written[p] + n)
<1>1. /\ n \in 1..(Len(line[p]) - written[p])
      /\ cache' = cache \o chunk
  BY DEF Write
<1>2. /\ line[p] \in Seq(Bytes) /\ written[p] \in Nat
      /\ cache \in Seq(Bytes)
  BY DEF TypeOK, HandleTypeOK, ContentTypeOK
<1>3. Len(line[p]) \in Nat /\ Len(cache) \in Nat
  BY <1>2, LenProperties
<1>4. n \in Nat \ {0} /\ written[p] + n <= Len(line[p])
  <2> DEFINE w == written[p]
             l == Len(line[p])
  <2>1. w \in Nat /\ l \in Nat /\ n \in 1..(l - w)
    BY <1>1, <1>2, <1>3
  <2> HIDE DEF w, l
  <2>2. n \in Nat \ {0} /\ w + n <= l
    BY <2>1
  <2> QED BY <2>2 DEF w, l
<1>5. /\ chunk \in Seq(Bytes)
      /\ Len(chunk) = n
      /\ \A i \in 1..n : chunk[i] = line[p][written[p] + i]
  BY <1>2, <1>4, ChunkProperties
<1> HIDE DEF chunk
<1>6. /\ cache' \in Seq(Bytes)
      /\ Len(cache') = Len(cache) + Len(chunk)
      /\ \A i \in 1..(Len(cache) + Len(chunk)) :
           cache'[i] = IF i <= Len(cache) THEN cache[i]
                                          ELSE chunk[i - Len(cache)]
  BY <1>1, <1>2, <1>5, ConcatProperties
<1>7. \A i \in 1..n : /\ Len(cache) + i \in 1..(Len(cache) + n)
                     /\ ~(Len(cache) + i <= Len(cache))
                     /\ Len(cache) + i - Len(cache) = i
  BY <1>3, <1>4
<1>8. \A i \in 1..n : cache'[Len(cache) + i] = line[p][written[p] + i]
  BY <1>5, <1>6, <1>7
<1>9. \A i \in 1..Len(cache) : cache'[i] = cache[i]
  BY <1>3, <1>4, <1>5, <1>6
<1> QED BY <1>4, <1>5, <1>6, <1>8, <1>9

LEMMA WriteType ==
  ASSUME TypeOK, NEW p \in Writers, NEW n, Write(p, n)
  PROVE  ContentTypeOK'
<1>1. /\ n \in Nat
      /\ cache' \in Seq(Bytes)
      /\ Len(cache') = Len(cache) + n
  BY WriteAppends
<1>2. /\ dirty' = dirty \cup ((Len(cache) + 1)..(Len(cache) + n))
      /\ UNCHANGED <<disk, dropped, torn>>
  BY DEF Write
<1>3. Len(cache) \in Nat /\ Len(disk) \in Nat
  BY LenProperties DEF TypeOK, ContentTypeOK
<1>4. \A i \in dirty' : i \in Nat \ {0} /\ (i <= Len(cache') \/ i <= Len(disk'))
  BY <1>1, <1>2, <1>3 DEF TypeOK, ContentTypeOK
<1>5. \A i \in dropped' : i \in dirty' /\ i <= Len(cache')
  <2>1. \A i \in dropped : i \in dirty /\ i \in Nat /\ i <= Len(cache)
    BY DEF TypeOK, ContentTypeOK
  <2> QED BY <1>1, <1>2, <1>3, <2>1
<1>6. \A i \in torn' : i \in Nat \ {0} /\ i <= Len(cache')
  <2>1. \A i \in torn : i \in Nat \ {0} /\ i <= Len(cache)
    BY DEF TypeOK, ContentTypeOK
  <2> QED BY <1>1, <1>2, <1>3, <2>1
<1>7. disk' \in Seq(Bytes)
  BY <1>2 DEF TypeOK, ContentTypeOK
<1> QED BY <1>1, <1>4, <1>5, <1>6, <1>7 DEF ContentTypeOK

LEMMA WritebackType ==
  ASSUME ContentTypeOK, NEW i, KernelWriteback(i)
  PROVE  ContentTypeOK'
<1>1. Len(cache) \in Nat /\ Len(disk) \in Nat
  BY LenProperties DEF ContentTypeOK
<1>2. i \in dirty /\ i \in Nat \ {0} /\ UNCHANGED <<cache, dropped, torn>>
  BY <1>1 DEF KernelWriteback, ContentTypeOK
<1>3. i \notin dropped
  BY DEF KernelWriteback
<1>4. CASE i <= Len(cache)
  <2>1. disk' = WriteBack(disk, cache, i) /\ dirty' = dirty \ {i}
    BY <1>4 DEF KernelWriteback
  <2>2. i \in 1..Len(cache)
    BY <1>1, <1>2, <1>4
  <2>3. /\ disk' \in Seq(Bytes)
        /\ Len(disk') = IF i > Len(disk) THEN i ELSE Len(disk)
    BY <2>1, <2>2, WriteBackProperties, ByteAssumption DEF ContentTypeOK
  <2> QED BY <1>1, <1>2, <1>3, <1>4, <2>1, <2>3 DEF ContentTypeOK
<1>5. CASE ~(i <= Len(cache))
  <2>1. /\ disk' = SubSeq(disk, 1, Len(cache))
        /\ dirty' = {j \in dirty : j <= Len(cache)}
    BY <1>5 DEF KernelWriteback
  <2>2. Len(cache) \in 0..Len(disk)
    BY <1>1, <1>2, <1>5 DEF ContentTypeOK
  <2>3. disk' \in Seq(Bytes) /\ Len(disk') = Len(cache)
    BY <2>1, <2>2, PrefixProperties DEF ContentTypeOK
  <2> QED BY <1>1, <1>2, <2>1, <2>3 DEF ContentTypeOK
<1> QED BY <1>4, <1>5

LEMMA HostLossType ==
  ASSUME ContentTypeOK, HostLoss
  PROVE  ContentTypeOK'
<1>1. disk' \in Seq(Bytes) /\ cache' = disk'
  <2>1. <<>> \in Seq(Bytes)
    BY EmptySeq
  <2> QED BY <2>1 DEF HostLoss, ContentTypeOK
<1>2. Len(cache) \in Nat /\ Len(disk) \in Nat /\ Len(disk') \in Nat
  BY <1>1, LenProperties DEF ContentTypeOK
<1>3. torn' = {i \in torn \cup dirty : i <= Len(disk')}
  BY DEF HostLoss
<1>4. dirty' = {} /\ dropped' = {}
  BY DEF HostLoss
<1>5. \A i \in torn' : i \in Nat \ {0} /\ i <= Len(cache')
  BY <1>1, <1>2, <1>3 DEF ContentTypeOK
<1> QED BY <1>1, <1>4, <1>5 DEF ContentTypeOK

-----------------------------------------------------------------------------
(* The handles *)

\* A handle is released.
LEMMA ReleaseType ==
  ASSUME HandleTypeOK, NEW p \in Writers, Release(p)
  PROVE  HandleTypeOK'
<1>1. <<>> \in Seq(Bytes) /\ Len(<<>>) = 0
  BY EmptySeq
<1>2. "closed" \in Pcs
  BY DEF Pcs
<1> QED BY <1>1, <1>2 DEF HandleTypeOK, Release

\* A handle goes on, outside the steps that take bytes of a line.
LEMMA GotoType ==
  ASSUME HandleTypeOK, NEW p \in Writers, NEW label \in Pcs \ {"syncing"},
         pc[p] # "syncing", Goto(p, label),
         UNCHANGED <<lockFd, syncer, appendVars>>
  PROVE  HandleTypeOK'
BY DEF HandleTypeOK, Goto, appendVars

\* Append returns.
LEMMA ReturnType ==
  ASSUME HandleTypeOK, NEW p \in Writers, NEW isBroken \in BOOLEAN,
         Return(p, isBroken), UNCHANGED <<lockFd, syncer>>
  PROVE  HandleTypeOK'
<1>1. <<>> \in Seq(Bytes) /\ Len(<<>>) = 0
  BY EmptySeq
<1>2. "ready" \in Pcs
  BY DEF Pcs
<1> QED BY <1>1, <1>2 DEF HandleTypeOK, Return, Goto

\* The handles are left alone.
LEMMA HandlesUnchanged ==
  ASSUME HandleTypeOK, UNCHANGED <<pc, lockFd, syncer, appendVars>>
  PROVE  HandleTypeOK'
BY DEF HandleTypeOK, appendVars

LEMMA OpenLockFileType ==
  ASSUME HandleTypeOK, NEW p \in Writers, NEW s \in Syncers, OpenLockFile(p, s)
  PROVE  HandleTypeOK'
<1>1. PICK inode \in Inodes :
        IF VerifyState(s, site.lock)
          THEN /\ Goto(p, "lockOpened")
               /\ lockFd' = [lockFd EXCEPT ![p] = inode]
               /\ syncer' = [syncer EXCEPT ![p] = s]
          ELSE UNCHANGED <<pc, lockFd, syncer>>
  BY DEF OpenLockFile
<1>2. pc[p] = "closed" /\ UNCHANGED appendVars
  BY DEF OpenLockFile
<1>3. CASE VerifyState(s, site.lock)
  BY <1>1, <1>2, <1>3 DEF HandleTypeOK, Goto, appendVars, Pcs
<1>4. CASE ~VerifyState(s, site.lock)
  BY <1>1, <1>2, <1>4, HandlesUnchanged
<1> QED BY <1>3, <1>4

LEMMA AppendRecordType ==
  ASSUME HandleTypeOK, NEW p \in Writers, NEW record \in Inputs,
         AppendRecord(p, record)
  PROVE  HandleTypeOK'
<1> DEFINE text == Line(record)
<1>1. record \in Seq(Bytes) /\ NL \in Bytes
  <2>1. record \in Seq(Bytes \ {Hole})
    BY SpoolAssumption
  <2>2. record \in Seq(Bytes)
    BY <2>1, SeqMonotonic
  <2> QED BY <2>2, ByteAssumption
<1>2. text \in Seq(Bytes) /\ Len(text) = Len(record) + 1 /\ Len(record) \in Nat
  BY <1>1, AppendProperties, LenProperties DEF Line
<1>3. Len(text) \in Nat /\ Len(text) # 0
  BY <1>2
<1>4. /\ line' = [line EXCEPT ![p] = text]
      /\ written' = [written EXCEPT ![p] = 0]
      /\ pc' = [pc EXCEPT ![p] = "writing"]
      /\ UNCHANGED <<lockFd, syncer, broken>>
  BY DEF AppendRecord, Goto
<1> HIDE DEF text
<1> QED BY <1>2, <1>3, <1>4 DEF HandleTypeOK, Pcs

LEMMA WriteHandleType ==
  ASSUME TypeOK, NEW p \in Writers, NEW n, Write(p, n)
  PROVE  HandleTypeOK'
<1>1. /\ n \in 1..(Len(line[p]) - written[p])
      /\ written' = [written EXCEPT ![p] = @ + n]
      /\ pc' = [pc EXCEPT ![p] = IF written[p] + n = Len(line[p])
                                   THEN "syncing" ELSE "writing"]
      /\ UNCHANGED <<lockFd, syncer, line, broken>>
  BY DEF Write, Goto
<1>2. /\ line[p] \in Seq(Bytes) /\ written[p] \in Nat
      /\ Len(line[p]) \in Nat
  BY LenProperties DEF TypeOK, HandleTypeOK
<1>3. /\ n \in Nat \ {0} /\ written[p] + n \in Nat
      /\ written[p] + n <= Len(line[p])
  BY <1>1, <1>2
<1>4. line[p] # <<>>
  BY <1>2, <1>3, EmptySeq
<1>5. pc' \in [Writers -> Pcs] /\ written' \in [Writers -> Nat]
  BY <1>1, <1>3 DEF TypeOK, HandleTypeOK, Pcs
<1>6. ASSUME NEW q \in Writers
      PROVE  /\ written'[q] <= Len(line'[q])
             /\ pc'[q] = "syncing" <=>
                  line'[q] # <<>> /\ written'[q] = Len(line'[q])
  BY <1>1, <1>3, <1>4, <1>6 DEF TypeOK, HandleTypeOK
<1> QED BY <1>1, <1>5, <1>6 DEF TypeOK, HandleTypeOK

-----------------------------------------------------------------------------
(* The guard *)

\* A handle is released: the others are left alone.
LEMMA ReleaseGuard ==
  ASSUME GuardInv, NEW p \in Writers, Release(p), UNCHANGED <<lockFile, site>>
  PROVE  (LockFileInv /\ SingleWriter)'
BY DEF GuardInv, TypeOK, HandleTypeOK, LockFileInv, SingleWriter, Holding, Release

\* A handle that holds the guard goes on holding it.
LEMMA GotoGuard ==
  ASSUME GuardInv, NEW p \in Writers, NEW label, Holding(p),
         label \notin {"closed", "lockOpened"}, Goto(p, label),
         UNCHANGED <<lockFile, site, lockFd, syncer>>
  PROVE  (LockFileInv /\ SingleWriter)'
BY DEF GuardInv, TypeOK, HandleTypeOK, LockFileInv, SingleWriter, Holding, Goto

LEMMA UnchangedGuard ==
  ASSUME GuardInv, UNCHANGED <<lockFile, site, pc, lockFd, syncer>>
  PROVE  (LockFileInv /\ SingleWriter)'
BY DEF GuardInv, LockFileInv, SingleWriter, Holding

\* The lock file is opened: while any handle is open its path leads to the
\* inode that handle has, so the new descriptor is on the same inode.
LEMMA OpenLockFileGuard ==
  ASSUME GuardInv, NEW p \in Writers, NEW s \in Syncers, OpenLockFile(p, s)
  PROVE  (LockFileInv /\ SingleWriter)'
<1>1. PICK inode \in Inodes :
        /\ IF lockFile # None THEN inode = lockFile
                              ELSE \A q \in Writers : lockFd[q] # inode
        /\ lockFile' = inode
        /\ IF VerifyState(s, site.lock)
             THEN /\ Goto(p, "lockOpened")
                  /\ lockFd' = [lockFd EXCEPT ![p] = inode]
                  /\ syncer' = [syncer EXCEPT ![p] = s]
             ELSE UNCHANGED <<pc, lockFd, syncer>>
  BY DEF OpenLockFile
<1>2. pc[p] = "closed" /\ CheckSyncerRoot(s) /\ site' = site
  BY DEF OpenLockFile
<1>3. inode # None
  BY SpoolAssumption
<1>4. \A q \in Writers : pc[q] # "closed" => lockFile' = lockFile
  BY <1>1 DEF GuardInv, LockFileInv
<1>5. CASE VerifyState(s, site.lock)
  <2>1. ASSUME NEW q \in Writers, q # p
        PROVE  pc'[q] = pc[q] /\ lockFd'[q] = lockFd[q] /\ syncer'[q] = syncer[q]
    BY <1>1, <1>5, <2>1 DEF Goto, GuardInv, TypeOK, HandleTypeOK
  <2>2. pc'[p] = "lockOpened" /\ lockFd'[p] = inode /\ syncer'[p] = s
    BY <1>1, <1>5 DEF Goto, GuardInv, TypeOK, HandleTypeOK
  <2>3. LockFileInv'
    BY <1>1, <1>2, <1>3, <1>4, <1>5, <2>1, <2>2
       DEF GuardInv, LockFileInv, VerifyState, VerifyFile, CheckSyncerRoot
  <2>4. SingleWriter'
    BY <1>2, <2>1, <2>2 DEF GuardInv, SingleWriter, Holding
  <2> QED BY <2>3, <2>4
<1>6. CASE ~VerifyState(s, site.lock)
  BY <1>1, <1>2, <1>3, <1>4, <1>6 DEF GuardInv, LockFileInv, SingleWriter, Holding
<1> QED BY <1>5, <1>6

\* The lock is granted only where flock excludes, and to nobody while another
\* handle, necessarily on the same inode, holds it.
LEMMA FlockGuard ==
  ASSUME GuardInv, NEW p \in Writers, Flock(p)
  PROVE  (LockFileInv /\ SingleWriter)'
<1>1. /\ pc[p] = "lockOpened"
      /\ site.lock.device \in ExclusiveFlock => ~LockedOut(p)
      /\ pc' = [pc EXCEPT ![p] = "guarded"]
      /\ UNCHANGED <<lockFile, site, lockFd, syncer>>
  BY DEF Flock, Goto, fileVars
<1>2. site.lock.device \in ExclusiveFlock
  BY <1>1, ProbeAssumption
     DEF GuardInv, LockFileInv, CheckSyncerRoot, VerifyState, VerifyFile
<1>3. \A q \in Writers : q # p => ~Holding(q)
  BY <1>1, <1>2 DEF GuardInv, LockFileInv, LockedOut, Holding
<1>4. LockFileInv'
  BY <1>1 DEF GuardInv, TypeOK, HandleTypeOK, LockFileInv
<1>5. SingleWriter'
  BY <1>1, <1>3 DEF GuardInv, TypeOK, HandleTypeOK, SingleWriter, Holding
<1> QED BY <1>4, <1>5

LEMMA HostLossGuard ==
  ASSUME GuardInv, HostLoss
  PROVE  HandleTypeOK' /\ (LockFileInv /\ SingleWriter)'
<1>1. <<>> \in Seq(Bytes) /\ Len(<<>>) = 0
  BY EmptySeq
<1>2. HandleTypeOK'
  BY <1>1 DEF HostLoss, HandleTypeOK, Pcs
<1>3. \A p \in Writers : pc'[p] = "closed"
  BY DEF HostLoss
<1>4. LockFileInv' /\ SingleWriter'
  BY <1>3 DEF LockFileInv, SingleWriter, Holding
<1> QED BY <1>2, <1>4

-----------------------------------------------------------------------------
(* The inductive step *)

\* What is left of TypeOK besides the content and the handles.
RestTypeOK ==
  /\ eventsDir \in Entries /\ eventsFile \in Entries
  /\ lockFile \in Inodes \cup {None}
  /\ site \in Sites
  /\ acked \subseteq AckType
  /\ faults \in 0..MaxFaults
  /\ losses \in Nat

LEMMA FaultType ==
  ASSUME RestTypeOK, Fault
  PROVE  faults' \in 0..MaxFaults
BY SpoolAssumption DEF RestTypeOK, Fault

\* The steps of Open keep GuardInv.
LEMMA OpenKeepsGuardInv ==
  ASSUME GuardInv, NEW p \in Writers,
         OpenStep(p) \/ \E s \in Syncers : OpenLockFile(p, s)
  PROVE  GuardInv'
<1> USE DEF GuardInv
<1>1. ContentTypeOK /\ HandleTypeOK /\ RestTypeOK
  BY DEF TypeOK, RestTypeOK
<1> SUFFICES /\ ContentTypeOK' /\ HandleTypeOK' /\ RestTypeOK'
             /\ (LockFileInv /\ SingleWriter)'
  BY DEF TypeOK, RestTypeOK
<1>2. CASE \E s \in Syncers : OpenLockFile(p, s)
  <2>1. PICK s \in Syncers : OpenLockFile(p, s)
    BY <1>2
  <2>2. RestTypeOK' /\ UNCHANGED contentVars
    BY <1>1, <2>1 DEF OpenLockFile, RestTypeOK, entryVars
  <2> QED BY <1>1, <2>1, <2>2, ContentUnchanged, OpenLockFileType, OpenLockFileGuard
<1>3. CASE Flock(p)
  <2>1. RestTypeOK' /\ UNCHANGED contentVars
    BY <1>1, <1>3 DEF Flock, RestTypeOK, fileVars, entryVars
  <2>2. HandleTypeOK'
    BY <1>1, <1>3, GotoType DEF Flock, Pcs
  <2> QED BY <1>1, <1>3, <2>1, <2>2, ContentUnchanged, FlockGuard
<1>4. CASE FlockRefused(p) \/ OpenRefused(p)
  <2>1. /\ Release(p)
        /\ UNCHANGED <<contentVars, entryVars, lockFile, site, acked, faults, losses>>
    BY <1>4 DEF FlockRefused, OpenRefused, fileVars
  <2>2. RestTypeOK'
    BY <1>1, <2>1 DEF RestTypeOK, entryVars
  <2> QED BY <1>1, <2>1, <2>2, ContentUnchanged, ReleaseType, ReleaseGuard
<1>5. CASE MakeEventsDir(p) \/ SyncRootDir(p) \/ SyncEventsDir(p)
  <2>1. RestTypeOK' /\ UNCHANGED contentVars
    BY <1>1, <1>5
       DEF MakeEventsDir, SyncRootDir, SyncEventsDir, RestTypeOK, Committed, Entries
  <2>2. PICK label \in {"dirMade", "rootSynced", "dirSynced"} :
          /\ Goto(p, label)
          /\ UNCHANGED <<lockFile, site, lockFd, syncer, appendVars>>
    BY <1>5 DEF MakeEventsDir, SyncRootDir, SyncEventsDir
  <2>3. pc[p] \in {"guarded", "dirMade", "eventsOpened"}
    BY <1>5 DEF MakeEventsDir, SyncRootDir, SyncEventsDir
  <2>4. HandleTypeOK'
    BY <1>1, <2>2, <2>3, GotoType DEF Pcs
  <2>5. Holding(p) /\ label \notin {"closed", "lockOpened"}
    BY <2>2, <2>3 DEF Holding
  <2>6. (LockFileInv /\ SingleWriter)'
    BY <2>2, <2>5, GotoGuard
  <2> QED BY <1>1, <2>1, <2>4, <2>6, ContentUnchanged
<1>6. CASE OpenEventsFile(p)
  <2>1. RestTypeOK' /\ UNCHANGED <<contentVars, lockFile, site>>
    BY <1>1, <1>6 DEF OpenEventsFile, RestTypeOK, Entries
  <2>2. CASE VerifyState(syncer[p], site.events)
    <3>1. /\ pc[p] = "rootSynced"
          /\ Goto(p, "eventsOpened") /\ UNCHANGED <<lockFd, syncer, appendVars>>
      BY <1>6, <2>2 DEF OpenEventsFile
    <3>2. HandleTypeOK'
      BY <1>1, <3>1, GotoType DEF Pcs
    <3>3. (LockFileInv /\ SingleWriter)'
      BY <2>1, <3>1, GotoGuard DEF Holding
    <3> QED BY <1>1, <2>1, <3>2, <3>3, ContentUnchanged
  <2>3. CASE ~VerifyState(syncer[p], site.events)
    <3>1. Release(p)
      BY <1>6, <2>3 DEF OpenEventsFile
    <3> QED BY <1>1, <2>1, <3>1, ContentUnchanged, ReleaseType, ReleaseGuard
  <2> QED BY <2>2, <2>3
<1>7. CASE RepairTail(p)
  <2>1. /\ RestTypeOK'
        /\ UNCHANGED <<lockFile, site, lockFd, syncer, appendVars>>
    BY <1>1, <1>7 DEF RepairTail, RestTypeOK, entryVars
  <2>2. PICK label \in {"ready", "truncated"} : Goto(p, label)
    BY <1>7 DEF RepairTail
  <2>3. pc[p] = "dirSynced"
    BY <1>7 DEF RepairTail
  <2>4. HandleTypeOK'
    BY <1>1, <2>1, <2>2, <2>3, GotoType DEF Pcs
  <2>5. Holding(p) /\ label \notin {"closed", "lockOpened"}
    BY <2>2, <2>3 DEF Holding
  <2>6. (LockFileInv /\ SingleWriter)'
    BY <2>1, <2>2, <2>5, GotoGuard
  <2> QED BY <1>1, <1>7, <2>1, <2>4, <2>6, RepairType
<1>8. CASE SyncRepair(p)
  <2>1. /\ RestTypeOK' /\ SyncFile(p) /\ pc[p] = "truncated" /\ Goto(p, "ready")
        /\ UNCHANGED <<lockFile, site, lockFd, syncer, appendVars>>
    BY <1>1, <1>8 DEF SyncRepair, RestTypeOK, entryVars
  <2>2. HandleTypeOK'
    BY <1>1, <2>1, GotoType DEF Pcs
  <2>3. (LockFileInv /\ SingleWriter)'
    BY <2>1, GotoGuard DEF Holding
  <2> QED BY <1>1, <2>1, <2>2, <2>3, SyncFileType
<1> QED BY <1>2, <1>3, <1>4, <1>5, <1>6, <1>7, <1>8 DEF OpenStep

\* The steps of Append keep GuardInv.
LEMMA AppendKeepsGuardInv ==
  ASSUME GuardInv, NEW p \in Writers,
         AppendStep(p) \/ \E record \in Inputs : AppendRecord(p, record)
  PROVE  GuardInv'
<1> USE DEF GuardInv
<1>1. ContentTypeOK /\ HandleTypeOK /\ RestTypeOK
  BY DEF TypeOK, RestTypeOK
<1> SUFFICES /\ ContentTypeOK' /\ HandleTypeOK' /\ RestTypeOK'
             /\ (LockFileInv /\ SingleWriter)'
  BY DEF TypeOK, RestTypeOK
<1>2. CASE \E record \in Inputs : AppendRecord(p, record)
  <2>1. PICK record \in Inputs : AppendRecord(p, record)
    BY <1>2
  <2>2. /\ RestTypeOK' /\ UNCHANGED contentVars
        /\ pc[p] = "ready" /\ Goto(p, "writing")
        /\ UNCHANGED <<lockFile, site, lockFd, syncer>>
    BY <1>1, <2>1 DEF AppendRecord, RestTypeOK, fileVars, entryVars
  <2>3. (LockFileInv /\ SingleWriter)'
    BY <2>2, GotoGuard DEF Holding
  <2> QED BY <1>1, <2>1, <2>2, <2>3, ContentUnchanged, AppendRecordType
<1>3. CASE \E n \in 1..Len(line[p]) : Write(p, n)
  <2>1. PICK n \in 1..Len(line[p]) : Write(p, n)
    BY <1>3
  <2>2. RestTypeOK' /\ UNCHANGED <<lockFile, site, lockFd, syncer>>
    BY <1>1, <2>1 DEF Write, RestTypeOK, entryVars
  <2>3. PICK label \in {"syncing", "writing"} : Goto(p, label)
    BY <2>1 DEF Write
  <2>4. Holding(p) /\ label \notin {"closed", "lockOpened"}
    BY <2>1, <2>3 DEF Holding, Write
  <2>5. (LockFileInv /\ SingleWriter)'
    BY <2>2, <2>3, <2>4, GotoGuard
  <2> QED BY <2>1, <2>2, <2>5, WriteType, WriteHandleType
<1>4. CASE AppendAccepted(p)
  <2> DEFINE ack == [at |-> Len(cache) - Len(line[p]) + 1,
                     line |-> line[p], mode |-> syncer[p].mode]
  <2>1. /\ pc[p] = "syncing" /\ SyncFile(p) /\ Return(p, FALSE)
        /\ acked' = acked \cup {ack}
        /\ UNCHANGED <<entryVars, lockFile, site, lockFd, syncer, faults, losses>>
    BY <1>4 DEF AppendAccepted
  <2>2. syncer[p].mode \in Modes
    <3>1. syncer[p] \in Syncers /\ SyncerVerified(syncer[p])
      BY <2>1 DEF LockFileInv, CheckSyncerRoot
    <3> QED BY <3>1, SpoolAssumption DEF SyncerVerified
  <2>3. ack \in AckType
    <3>1. Len(cache) \in Nat /\ Len(line[p]) \in Nat /\ line[p] \in Seq(Bytes)
      BY <1>1, LenProperties DEF ContentTypeOK, HandleTypeOK
    <3>2. Len(cache) - Len(line[p]) + 1 \in Int
      BY <3>1
    <3> QED BY <2>2, <3>1, <3>2 DEF AckType
  <2> HIDE DEF ack
  <2>4. RestTypeOK'
    BY <1>1, <2>1, <2>3 DEF RestTypeOK, entryVars
  <2>5. HandleTypeOK'
    BY <1>1, <2>1, ReturnType
  <2>6. (LockFileInv /\ SingleWriter)'
    BY <2>1, GotoGuard DEF Holding, Return
  <2> QED BY <1>1, <2>1, <2>4, <2>5, <2>6, SyncFileType
<1> QED BY <1>2, <1>3, <1>4 DEF AppendStep

\* The failures and the world around keep GuardInv.
LEMMA FailuresKeepGuardInv ==
  ASSUME GuardInv,
         \/ \E p \in Writers : CallFails(p) \/ Close(p) \/ Crash(p)
         \/ \E i \in dirty : KernelWriteback(i)
         \/ HostLoss
  PROVE  GuardInv'
<1> USE DEF GuardInv
<1>1. ContentTypeOK /\ HandleTypeOK /\ RestTypeOK
  BY DEF TypeOK, RestTypeOK
<1> SUFFICES /\ ContentTypeOK' /\ HandleTypeOK' /\ RestTypeOK'
             /\ (LockFileInv /\ SingleWriter)'
  BY DEF TypeOK, RestTypeOK
<1>2. ASSUME NEW p \in Writers, OpenFails(p) \/ Crash(p) \/ Close(p)
      PROVE  /\ ContentTypeOK' /\ HandleTypeOK' /\ RestTypeOK'
             /\ (LockFileInv /\ SingleWriter)'
  <2>1. /\ Fault \/ faults' = faults
        /\ UNCHANGED <<contentVars, entryVars, lockFile, site, acked, losses>>
    BY <1>2 DEF OpenFails, Crash, Close, fileVars
  <2>2. Release(p)
    BY <1>2 DEF OpenFails, Crash, Close
  <2>3. RestTypeOK'
    BY <1>1, <2>1, FaultType DEF RestTypeOK, entryVars
  <2> QED BY <1>1, <2>1, <2>2, <2>3, ContentUnchanged, ReleaseType, ReleaseGuard
<1>3. ASSUME NEW p \in Writers, SyncRepairFails(p)
      PROVE  /\ ContentTypeOK' /\ HandleTypeOK' /\ RestTypeOK'
             /\ (LockFileInv /\ SingleWriter)'
  <2>1. /\ Fault /\ SyncFileFails /\ Release(p)
        /\ UNCHANGED <<entryVars, lockFile, site, acked, losses>>
    BY <1>3 DEF SyncRepairFails
  <2>2. RestTypeOK'
    BY <1>1, <2>1, FaultType DEF RestTypeOK, entryVars
  <2> QED BY <1>1, <2>1, <2>2, SyncFileFailsType, ReleaseType, ReleaseGuard
<1>4. ASSUME NEW p \in Writers, WriteFails(p) \/ AppendSyncFails(p)
      PROVE  /\ ContentTypeOK' /\ HandleTypeOK' /\ RestTypeOK'
             /\ (LockFileInv /\ SingleWriter)'
  <2>1. /\ Fault /\ Return(p, TRUE)
        /\ UNCHANGED <<entryVars, lockFile, site, lockFd, syncer, acked, losses>>
    BY <1>4 DEF WriteFails, AppendSyncFails, fileVars
  <2>2. UNCHANGED contentVars \/ SyncFileFails
    BY <1>4 DEF WriteFails, AppendSyncFails, fileVars
  <2>3. RestTypeOK'
    BY <1>1, <2>1, FaultType DEF RestTypeOK, entryVars
  <2>4. HandleTypeOK'
    BY <1>1, <2>1, ReturnType
  <2>5. pc[p] \in {"writing", "syncing"}
    BY <1>4 DEF WriteFails, AppendSyncFails
  <2>6. (LockFileInv /\ SingleWriter)'
    BY <2>1, <2>5, GotoGuard DEF Holding, Return
  <2>7. ContentTypeOK'
    BY <1>1, <2>2, ContentUnchanged, SyncFileFailsType
  <2> QED BY <2>3, <2>4, <2>6, <2>7
<1>5. ASSUME NEW i \in dirty, KernelWriteback(i)
      PROVE  /\ ContentTypeOK' /\ HandleTypeOK' /\ RestTypeOK'
             /\ (LockFileInv /\ SingleWriter)'
  <2>1. UNCHANGED <<entryVars, lockFile, site, pc, lockFd, syncer, appendVars,
                    acked, faults, losses>>
    BY <1>5 DEF KernelWriteback
  <2>2. RestTypeOK'
    BY <1>1, <2>1 DEF RestTypeOK, entryVars
  <2> QED BY <1>1, <1>5, <2>1, <2>2, WritebackType, HandlesUnchanged, UnchangedGuard
<1>6. ASSUME HostLoss
      PROVE  /\ ContentTypeOK' /\ HandleTypeOK' /\ RestTypeOK'
             /\ (LockFileInv /\ SingleWriter)'
  <2>1. faults' \in 0..MaxFaults
    BY <1>1, <1>6, FaultType DEF HostLoss
  <2>2. eventsDir' \in Entries /\ eventsFile' \in Entries
    BY <1>1, <1>6 DEF HostLoss, RestTypeOK, Remains, Entries
  <2>3. RestTypeOK'
    BY <1>1, <1>6, <2>1, <2>2 DEF HostLoss, RestTypeOK
  <2> QED BY <1>1, <1>6, <2>3, HostLossType, HostLossGuard
<1> QED BY <1>2, <1>3, <1>4, <1>5, <1>6 DEF CallFails

LEMMA GuardInvInit ==
  ASSUME Init PROVE GuardInv
<1>1. <<>> \in Seq(Bytes) /\ Len(<<>>) = 0
  BY EmptySeq
<1>2. ContentTypeOK
  BY <1>1 DEF Init, ContentTypeOK
<1>3. HandleTypeOK
  BY <1>1 DEF Init, HandleTypeOK, Pcs
<1>4. eventsDir \in Entries /\ eventsFile \in Entries
  BY DEF Init, Entries
<1>5. faults \in 0..MaxFaults /\ losses \in Nat
  BY SpoolAssumption DEF Init
<1>6. TypeOK
  BY <1>2, <1>3, <1>4, <1>5 DEF Init, TypeOK
<1>7. LockFileInv /\ SingleWriter
  BY DEF Init, LockFileInv, SingleWriter, Holding
<1> QED BY <1>6, <1>7 DEF GuardInv

LEMMA GuardInvNext ==
  ASSUME GuardInv, [Next]_vars PROVE GuardInv'
<1>1. CASE UNCHANGED vars
  <2>1. /\ UNCHANGED <<contentVars, entryVars, lockFile, site, acked, faults, losses>>
        /\ UNCHANGED <<pc, lockFd, syncer, appendVars>>
    BY <1>1 DEF vars, fileVars
  <2>2. ContentTypeOK' /\ HandleTypeOK'
    BY <2>1, ContentUnchanged, HandlesUnchanged DEF GuardInv, TypeOK
  <2>3. (LockFileInv /\ SingleWriter)'
    BY <2>1, UnchangedGuard
  <2> QED BY <2>1, <2>2, <2>3 DEF GuardInv, TypeOK, entryVars
<1>2. CASE Next
  BY <1>2, OpenKeepsGuardInv, AppendKeepsGuardInv, FailuresKeepGuardInv DEF Next
<1> QED BY <1>1, <1>2

\* The inductive invariant holds in every reachable state.
THEOREM GuardInvariant == Spec => []GuardInv
<1>1. Init => GuardInv
  BY GuardInvInit
<1>2. GuardInv /\ [Next]_vars => GuardInv'
  BY GuardInvNext
<1> QED BY <1>1, <1>2, PTL DEF Spec

\* The state keeps its shape, whatever fails and whoever dies.
THEOREM TypeCorrect == Spec => []TypeOK
<1>1. GuardInv => TypeOK
  BY DEF GuardInv
<1> QED BY <1>1, GuardInvariant, PTL

\* The single-writer guard of acquireWriterLock excludes, for any number of
\* handles and any layout of the paths under the root.
THEOREM OneWriter == Spec => []SingleWriter
<1>1. GuardInv => SingleWriter
  BY DEF GuardInv
<1> QED BY <1>1, GuardInvariant, PTL

-----------------------------------------------------------------------------
(* What the writer leaves in the events file and on the disk *)

\* Outside the dirty positions the two copies are the same.
CopiesAgree ==
  \A k \in Nat \ {0} : k \notin dirty =>
    /\ k <= Len(cache) <=> k <= Len(disk)
    /\ k <= Len(cache) => cache[k] = disk[k]

\* At a dirty position the disk has no line break: what it may still hold
\* there is a hole or a part of the fragment a repair cut off.
NoStaleBreak == \A k \in dirty : k <= Len(disk) => disk[k] \notin lineBreaks

\* Append lets no line break but its own newline into the file.
OnlyNewlines == \A k \in 1..Len(cache) : cache[k] \in lineBreaks => cache[k] = NL

CopiesInv == CopiesAgree /\ NoStaleBreak /\ OnlyNewlines

\* Where the line under way begins: the size of the file in front of it.
Start(p) == Len(cache) - written[p]

\* Append is between its checks and its return.  The line is one record's; it
\* begins at a record boundary, the file ends with what the kernel has taken
\* of it, and none of that has been forgotten.
LineInv ==
  \A p \in Writers : pc[p] \in {"writing", "syncing"} =>
    /\ \E record \in Inputs : Framable(record) /\ line[p] = Line(record)
    /\ Start(p) \in Nat
    /\ Start(p) = 0 \/ cache[Start(p)] = NL
    /\ \A k \in 1..written[p] : cache[Start(p) + k] = line[p][k]
    /\ \A k \in dropped : k <= Start(p)

\* A handle that may append, or whose repair has truncated, is at a boundary.
BoundaryInv ==
  \A p \in Writers :
    pc[p] = "truncated" \/ (pc[p] = "ready" /\ ~broken[p]) => AtBoundary(cache)

ContentInv == CopiesInv /\ LineInv /\ BoundaryInv /\ NoFusedRecords

-----------------------------------------------------------------------------
(* Lines *)

\* The line Append writes for a record it has accepted.
LEMMA LineProperties ==
  ASSUME NEW record \in Inputs, Framable(record)
  PROVE  /\ Line(record) \in Seq(Bytes)
         /\ Len(Line(record)) \in Nat /\ Len(Line(record)) > 1
         /\ Line(record)[Len(Line(record))] = NL
         /\ \A k \in 1..(Len(Line(record)) - 1) : Line(record)[k] \notin lineBreaks
<1>1. record \in Seq(Bytes) /\ NL \in Bytes
  <2>1. record \in Seq(Bytes \ {Hole})
    BY SpoolAssumption
  <2>2. record \in Seq(Bytes)
    BY <2>1, SeqMonotonic
  <2> QED BY <2>2, ByteAssumption
<1>2. /\ Line(record) \in Seq(Bytes)
      /\ Len(Line(record)) = Len(record) + 1
      /\ \A k \in 1..Len(record) : Line(record)[k] = record[k]
      /\ Line(record)[Len(record) + 1] = NL
  BY <1>1, AppendProperties DEF Line
<1>3. Len(record) \in Nat /\ Len(record) # 0
  BY <1>1, LenProperties, EmptySeq DEF Framable
<1>4. \A k \in 1..Len(record) : record[k] \notin lineBreaks
  BY DEF Framable
<1> QED BY <1>2, <1>3, <1>4

\* A line lies inside every copy that has its bytes and the byte before it.
LEMMA LineTransfers ==
  ASSUME NEW c, NEW d, NEW i \in Nat \ {0}, NEW j \in Nat,
         \A k \in i..j : d[k] = c[k],
         i = 1 \/ d[i - 1] \in lineBreaks,
         IsLine(c, i, j)
  PROVE  IsLine(d, i, j)
<1>1. i <= j /\ c[j] \in lineBreaks /\ \A k \in i..(j - 1) : c[k] \notin lineBreaks
  BY DEF IsLine
<1>2. j \in i..j /\ \A k \in i..(j - 1) : k \in i..j
  BY <1>1
<1> QED BY <1>1, <1>2 DEF IsLine

\* Equal bytes are equal segments.
LEMMA SegmentsEqual ==
  ASSUME NEW c, NEW d, NEW i \in Nat \ {0}, NEW j \in Nat,
         \A k \in i..j : c[k] \in Bytes /\ d[k] = c[k]
  PROVE  SubSeq(d, i, j) = SubSeq(c, i, j)
<1> DEFINE u == SubSeq(c, i, j)
           v == SubSeq(d, i, j)
<1>1. /\ u \in Seq(Bytes)
      /\ Len(u) = IF i <= j THEN j - i + 1 ELSE 0
      /\ \A k \in 1..(j - i + 1) : u[k] = c[i + k - 1]
  BY SubSeqProperties
<1>2. /\ v \in Seq(Bytes)
      /\ Len(v) = IF i <= j THEN j - i + 1 ELSE 0
      /\ \A k \in 1..(j - i + 1) : v[k] = d[i + k - 1]
  BY SubSeqProperties
<1>3. \A k \in 1..(j - i + 1) : d[i + k - 1] = c[i + k - 1]
  <2> SUFFICES ASSUME NEW k \in 1..(j - i + 1) PROVE d[i + k - 1] = c[i + k - 1]
    OBVIOUS
  <2>1. i + k - 1 \in i..j
    OBVIOUS
  <2> QED BY <2>1
<1> HIDE DEF u, v
<1>4. Len(v) = Len(u) /\ \A k \in 1..Len(v) : v[k] = u[k]
  BY <1>1, <1>2, <1>3
<1>5. v = u
  BY <1>1, <1>2, <1>4, SeqEqual
<1> QED BY <1>5 DEF u, v

-----------------------------------------------------------------------------
(* The two copies *)

\* SyncFile brings the copies together, except where pages were forgotten.
LEMMA SyncFileCopies ==
  ASSUME ContentTypeOK, CopiesInv, NEW p, SyncFile(p)
  PROVE  CopiesInv'
<1>1. CASE ~Persists(syncer[p], site.events.device)
  <2>1. UNCHANGED <<cache, disk, dirty>>
    BY <1>1 DEF SyncFile, contentVars
  <2> QED BY <2>1 DEF CopiesInv, CopiesAgree, NoStaleBreak, OnlyNewlines
<1>2. CASE Persists(syncer[p], site.events.device)
  <2> DEFINE flushed == (1..Len(cache)) \ dropped
  <2>1. /\ disk' = Flush(disk, cache, flushed)
        /\ dirty' = dropped /\ cache' = cache
    BY <1>2 DEF SyncFile
  <2>2. /\ Len(cache) \in Nat /\ Len(disk) \in Nat
        /\ cache \in Seq(Bytes) /\ disk \in Seq(Bytes)
        /\ \A k \in dropped : k \in dirty /\ k <= Len(cache) /\ k \in Nat \ {0}
    BY LenProperties DEF ContentTypeOK
  <2>3. /\ Len(disk') = Len(cache)
        /\ \A k \in 1..Len(cache) :
             disk'[k] = IF k \in flushed THEN cache[k] ELSE Stored(disk, k)
    BY <2>1, <2>2, FlushProperties, ByteAssumption
  <2>4. CopiesAgree'
    <3> SUFFICES ASSUME NEW k \in Nat \ {0}, k \notin dropped
                 PROVE  /\ k <= Len(cache) <=> k <= Len(disk')
                        /\ k <= Len(cache) => cache[k] = disk'[k]
      BY <2>1 DEF CopiesAgree
    <3>1. k <= Len(cache) => k \in flushed /\ k \in 1..Len(cache)
      BY <2>2
    <3> HIDE DEF flushed
    <3> QED BY <2>3, <3>1
  <2>5. NoStaleBreak'
    <3> SUFFICES ASSUME NEW k \in dropped PROVE disk'[k] \notin lineBreaks
      BY <2>1 DEF NoStaleBreak
    <3>1. k \in 1..Len(cache) /\ k \notin flushed /\ k \in dirty
      BY <2>2
    <3>2. disk'[k] = Stored(disk, k)
      BY <2>3, <3>1
    <3> QED BY <3>1, <3>2, ByteAssumption DEF CopiesInv, NoStaleBreak, Stored
  <2> QED BY <2>1, <2>4, <2>5 DEF CopiesInv, OnlyNewlines
<1> QED BY <1>1, <1>2

\* The disk has no line break but the newline either.
LEMMA DiskOnlyNewlines ==
  ASSUME ContentTypeOK, CopiesInv
  PROVE  \A k \in 1..Len(disk) : disk[k] \in lineBreaks => disk[k] = NL
<1> SUFFICES ASSUME NEW k \in 1..Len(disk), disk[k] \in lineBreaks
             PROVE  disk[k] = NL
  OBVIOUS
<1>1. Len(cache) \in Nat /\ Len(disk) \in Nat
  BY LenProperties DEF ContentTypeOK
<1>2. k \notin dirty
  BY <1>1 DEF CopiesInv, NoStaleBreak
<1>3. k \in 1..Len(cache) /\ cache[k] = disk[k]
  BY <1>1, <1>2 DEF CopiesInv, CopiesAgree
<1> QED BY <1>3 DEF CopiesInv, OnlyNewlines

\* The repair leaves stale only what lies behind the last newline.
LEMMA RepairCopies ==
  ASSUME ContentTypeOK, CopiesInv, NEW p, RepairTail(p)
  PROVE  CopiesInv'
<1>1. CASE AtBoundary(cache)
  <2>1. UNCHANGED <<cache, disk, dirty>>
    BY <1>1 DEF RepairTail, contentVars
  <2> QED BY <2>1 DEF CopiesInv, CopiesAgree, NoStaleBreak, OnlyNewlines
<1>2. CASE ~AtBoundary(cache)
  <2> DEFINE n == RepairedLen
  <2>1. /\ n \in 0..Len(cache)
        /\ \A k \in (n + 1)..Len(cache) : cache[k] # NL
    BY CompleteLenProperties DEF RepairedLen, ContentTypeOK
  <2>2. /\ cache' = SubSeq(cache, 1, n)
        /\ dirty' = {i \in dirty : i <= n} \cup ((n + 1)..Len(disk))
        /\ disk' = disk
    BY <1>2 DEF RepairTail
  <2> HIDE DEF n
  <2>3. Len(cache') = n /\ \A k \in 1..n : cache'[k] = cache[k]
    BY <2>1, <2>2, PrefixProperties DEF ContentTypeOK
  <2>4. Len(cache) \in Nat /\ Len(disk) \in Nat
    BY LenProperties DEF ContentTypeOK
  <2>5. CopiesAgree'
    BY <2>1, <2>2, <2>3, <2>4 DEF CopiesInv, CopiesAgree
  <2>6. NoStaleBreak'
    <3> SUFFICES ASSUME NEW k \in dirty', k <= Len(disk)
                 PROVE  disk[k] \notin lineBreaks
      BY <2>2 DEF NoStaleBreak
    <3>1. CASE k \in dirty
      BY <3>1 DEF CopiesInv, NoStaleBreak
    <3>2. CASE k \notin dirty
      <4>1. k \in (n + 1)..Len(disk) /\ k \in Nat \ {0}
        BY <2>1, <2>2, <2>4, <3>2
      <4>2. k <= Len(cache) /\ cache[k] = disk[k]
        BY <3>2, <4>1 DEF CopiesInv, CopiesAgree
      <4>3. k \in (n + 1)..Len(cache) /\ k \in 1..Len(cache)
        BY <2>1, <2>4, <4>1, <4>2
      <4> QED BY <2>1, <4>2, <4>3 DEF CopiesInv, OnlyNewlines
    <3> QED BY <3>1, <3>2
  <2>7. OnlyNewlines'
    BY <2>1, <2>3, <2>4 DEF CopiesInv, OnlyNewlines
  <2> QED BY <2>5, <2>6, <2>7 DEF CopiesInv
<1> QED BY <1>1, <1>2

\* What a write call takes of a record's line.
LEMMA WriteBytes ==
  ASSUME TypeOK, LineInv, NEW p \in Writers, NEW n, Write(p, n)
  PROVE  /\ written[p] + n <= Len(line[p])
         /\ \A k \in (Len(cache) + 1)..Len(cache') :
              /\ cache'[k] = line[p][written[p] + (k - Len(cache))]
              /\ cache'[k] \in lineBreaks =>
                   /\ cache'[k] = NL
                   /\ written[p] + (k - Len(cache)) = Len(line[p])
<1> DEFINE w == written[p]
           l == Len(line[p])
           s == Len(cache)
<1>1. PICK record \in Inputs : Framable(record) /\ line[p] = Line(record)
  BY DEF LineInv, Write
<1>2. /\ l \in Nat /\ line[p][l] = NL
      /\ \A k \in 1..(l - 1) : line[p][k] \notin lineBreaks
  BY <1>1, LineProperties
<1>3. /\ n \in Nat \ {0} /\ Len(cache') = s + n
      /\ \A i \in 1..n : cache'[s + i] = line[p][w + i]
  BY WriteAppends
<1>4. w \in Nat /\ s \in Nat /\ n \in 1..(l - w)
  BY LenProperties DEF TypeOK, HandleTypeOK, ContentTypeOK, Write
<1> HIDE DEF w, l, s
<1>5. w + n <= l
  BY <1>2, <1>4
<1>6. ASSUME NEW k \in (s + 1)..Len(cache')
      PROVE  /\ cache'[k] = line[p][w + (k - s)]
             /\ cache'[k] \in lineBreaks => cache'[k] = NL /\ w + (k - s) = l
  <2>1. k - s \in 1..n /\ s + (k - s) = k
    BY <1>3, <1>4
  <2>2. cache'[k] = line[p][w + (k - s)]
    BY <1>3, <2>1
  <2>3. w + (k - s) \in 1..l
    BY <1>2, <1>4, <1>5, <2>1
  <2>4. w + (k - s) # l => w + (k - s) \in 1..(l - 1)
    BY <1>2, <2>3
  <2> QED BY <1>2, <2>2, <2>4
<1> QED BY <1>5, <1>6 DEF w, l, s

\* An append is dirty, and over nothing but what was dirty before.
LEMMA WriteCopies ==
  ASSUME TypeOK, CopiesInv, LineInv, NEW p \in Writers, NEW n, Write(p, n)
  PROVE  CopiesInv'
<1>1. /\ n \in Nat \ {0} /\ Len(cache') = Len(cache) + n
      /\ \A i \in 1..Len(cache) : cache'[i] = cache[i]
  BY WriteAppends
<1>2. disk' = disk /\ dirty' = dirty \cup ((Len(cache) + 1)..(Len(cache) + n))
  BY DEF Write
<1>3. Len(cache) \in Nat /\ Len(disk) \in Nat
  BY LenProperties DEF TypeOK, ContentTypeOK
<1>4. CopiesAgree'
  <2> SUFFICES ASSUME NEW k \in Nat \ {0}, k \notin dirty'
               PROVE  /\ k <= Len(cache') <=> k <= Len(disk)
                      /\ k <= Len(cache') => cache'[k] = disk[k]
    BY <1>2 DEF CopiesAgree
  <2>1. k \notin dirty /\ (k <= Len(cache') <=> k <= Len(cache))
    BY <1>1, <1>2, <1>3
  <2>2. k <= Len(cache) => k \in 1..Len(cache)
    BY <1>3
  <2> QED BY <1>1, <2>1, <2>2 DEF CopiesInv, CopiesAgree
<1>5. NoStaleBreak'
  <2> SUFFICES ASSUME NEW k \in dirty', k <= Len(disk)
               PROVE  disk[k] \notin lineBreaks
    BY <1>2 DEF NoStaleBreak
  <2>1. k \in dirty
    <3> SUFFICES ASSUME k \in (Len(cache) + 1)..(Len(cache) + n)
                 PROVE  k \in dirty
      BY <1>2
    <3>1. k \in Nat \ {0} /\ ~(k <= Len(cache))
      BY <1>1, <1>3
    <3> QED BY <3>1 DEF CopiesInv, CopiesAgree
  <2> QED BY <2>1 DEF CopiesInv, NoStaleBreak
<1>6. OnlyNewlines'
  <2> SUFFICES ASSUME NEW k \in 1..Len(cache'), cache'[k] \in lineBreaks
               PROVE  cache'[k] = NL
    BY DEF OnlyNewlines
  <2>1. k \in 1..Len(cache) \/ k \in (Len(cache) + 1)..Len(cache')
    BY <1>1, <1>3
  <2> QED BY <1>1, <2>1, WriteBytes DEF CopiesInv, OnlyNewlines
<1> QED BY <1>4, <1>5, <1>6 DEF CopiesInv

\* Write-back of one page, or of a truncation.
LEMMA WritebackCopies ==
  ASSUME ContentTypeOK, CopiesInv, NEW i, KernelWriteback(i)
  PROVE  CopiesInv'
<1>1. Len(cache) \in Nat /\ Len(disk) \in Nat /\ dirty \subseteq Nat \ {0}
  BY LenProperties DEF ContentTypeOK
<1>2. i \in dirty /\ i \in Nat \ {0} /\ cache' = cache
  BY <1>1 DEF KernelWriteback
<1>3. CASE i <= Len(cache)
  <2> DEFINE m == IF i > Len(disk) THEN i ELSE Len(disk)
  <2>1. disk' = WriteBack(disk, cache, i) /\ dirty' = dirty \ {i}
    BY <1>3 DEF KernelWriteback
  <2>2. i \in 1..Len(cache)
    BY <1>1, <1>2, <1>3
  <2>3. /\ Len(disk') = m
        /\ \A k \in 1..m : disk'[k] = IF k = i THEN cache[k] ELSE Stored(disk, k)
    BY <2>1, <2>2, WriteBackProperties, ByteAssumption DEF ContentTypeOK
  <2>4. m \in Nat /\ i <= m /\ Len(disk) <= m /\ (m = i \/ m = Len(disk))
    BY <1>1, <1>2
  <2> HIDE DEF m
  <2>5. CopiesAgree'
    <3> SUFFICES ASSUME NEW k \in Nat \ {0}, k \notin dirty'
                 PROVE  /\ k <= Len(cache) <=> k <= Len(disk')
                        /\ k <= Len(cache) => cache[k] = disk'[k]
      BY <1>2 DEF CopiesAgree
    <3>1. CASE k = i
      BY <1>2, <2>2, <2>3, <2>4, <3>1
    <3>2. CASE k # i
      <4>1. /\ k <= Len(cache) <=> k <= Len(disk)
            /\ k <= Len(cache) => cache[k] = disk[k]
        BY <2>1, <3>2 DEF CopiesInv, CopiesAgree
      <4>2. k <= Len(disk) => k \in 1..m /\ k <= m
        BY <1>1, <2>4
      <4>3. k <= Len(disk) => disk'[k] = disk[k]
        BY <2>3, <3>2, <4>2 DEF Stored
      <4>4. k <= m => k <= Len(cache)
        BY <1>1, <1>3, <2>4, <4>1
      <4> QED BY <2>3, <4>1, <4>2, <4>3, <4>4
    <3> QED BY <3>1, <3>2
  <2>6. NoStaleBreak'
    <3> SUFFICES ASSUME NEW k \in dirty, k # i, k <= m
                 PROVE  disk'[k] \notin lineBreaks
      BY <2>1, <2>3 DEF NoStaleBreak
    <3>1. k \in 1..m
      BY <1>1, <2>4
    <3>2. disk'[k] = Stored(disk, k)
      BY <2>3, <3>1
    <3> QED BY <3>2, ByteAssumption DEF CopiesInv, NoStaleBreak, Stored
  <2> QED BY <1>2, <2>5, <2>6 DEF CopiesInv, OnlyNewlines
<1>4. CASE ~(i <= Len(cache))
  <2>1. /\ disk' = SubSeq(disk, 1, Len(cache))
        /\ dirty' = {j \in dirty : j <= Len(cache)}
    BY <1>4 DEF KernelWriteback
  <2>2. Len(cache) \in 0..Len(disk)
    BY <1>1, <1>2, <1>4 DEF ContentTypeOK
  <2>3. /\ Len(disk') = Len(cache)
        /\ \A k \in 1..Len(cache) : disk'[k] = disk[k]
    BY <2>1, <2>2, PrefixProperties DEF ContentTypeOK
  <2>4. CopiesAgree'
    BY <1>1, <1>2, <2>1, <2>3 DEF CopiesInv, CopiesAgree
  <2>5. NoStaleBreak'
    BY <1>1, <2>1, <2>2, <2>3 DEF CopiesInv, NoStaleBreak
  <2> QED BY <1>2, <2>4, <2>5 DEF CopiesInv, OnlyNewlines
<1> QED BY <1>3, <1>4

\* After a host loss there is one copy.
LEMMA HostLossCopies ==
  ASSUME ContentTypeOK, CopiesInv, HostLoss
  PROVE  CopiesInv'
<1>1. cache' = disk' /\ dirty' = {} /\ (disk' = disk \/ disk' = <<>>)
  BY DEF HostLoss
<1>2. CopiesAgree' /\ NoStaleBreak'
  BY <1>1 DEF CopiesAgree, NoStaleBreak
<1>3. OnlyNewlines'
  <2>1. CASE disk' = disk
    BY <1>1, <2>1, DiskOnlyNewlines DEF OnlyNewlines
  <2>2. CASE disk' = <<>>
    BY <1>1, <2>2, EmptySeq DEF OnlyNewlines
  <2> QED BY <1>1, <2>1, <2>2
<1> QED BY <1>2, <1>3 DEF CopiesInv

LEMMA CopiesUnchanged ==
  ASSUME CopiesInv, UNCHANGED <<cache, disk, dirty>>
  PROVE  CopiesInv'
BY DEF CopiesInv, CopiesAgree, NoStaleBreak, OnlyNewlines

-----------------------------------------------------------------------------
(* Fused records *)

\* A line that another content has in common with the file is a record's.
LEMMA CommonLine ==
  ASSUME ContentTypeOK, NoFusedRecords, NEW d,
         NEW i \in 1..Len(cache), NEW j \in 1..Len(cache),
         \A k \in i..j : d[k] = cache[k],
         i = 1 \/ cache[i - 1] \in lineBreaks,
         IsLine(d, i, j), (i..j) \cap torn = {}
  PROVE  \E record \in Inputs :
           Framable(record) /\ SubSeq(d, i, j) = Line(record)
<1>1. /\ Len(cache) \in Nat
      /\ \A k \in 1..Len(cache) : cache[k] \in Bytes
  BY LenProperties, ElementOfSeq DEF ContentTypeOK
<1>2. i \in Nat \ {0} /\ j \in Nat /\ \A k \in i..j : k \in 1..Len(cache)
  BY <1>1
<1>3. IsLine(cache, i, j)
  BY <1>2, LineTransfers
<1>4. SubSeq(d, i, j) = SubSeq(cache, i, j)
  BY <1>1, <1>2, SegmentsEqual
<1> QED BY <1>3, <1>4 DEF NoFusedRecords

\* The repair cuts behind a newline: the lines in front of it are untouched.
LEMMA RepairNoFused ==
  ASSUME ContentTypeOK, NoFusedRecords, NEW p, RepairTail(p)
  PROVE  NoFusedRecords'
<1>1. CASE AtBoundary(cache)
  BY <1>1 DEF RepairTail, contentVars, NoFusedRecords
<1>2. CASE ~AtBoundary(cache)
  <2> DEFINE n == RepairedLen
  <2>1. n \in 0..Len(cache)
    BY CompleteLenProperties DEF RepairedLen, ContentTypeOK
  <2>2. cache' = SubSeq(cache, 1, n) /\ torn' = {i \in torn : i <= n}
    BY <1>2 DEF RepairTail
  <2> HIDE DEF n
  <2>3. Len(cache') = n /\ \A k \in 1..n : cache'[k] = cache[k]
    BY <2>1, <2>2, PrefixProperties DEF ContentTypeOK
  <2>4. Len(cache) \in Nat
    BY LenProperties DEF ContentTypeOK
  <2> SUFFICES ASSUME NEW i \in 1..n, NEW j \in 1..n, IsLine(cache', i, j),
                      (i..j) \cap torn' = {}
               PROVE  \E record \in Inputs :
                        Framable(record) /\ SubSeq(cache', i, j) = Line(record)
    BY <2>3 DEF NoFusedRecords
  <2>5. i \in 1..Len(cache) /\ j \in 1..Len(cache) /\ \A k \in i..j : k \in 1..n
    BY <2>1, <2>4
  <2>6. (i..j) \cap torn = {}
    BY <2>2, <2>5
  <2>7. i = 1 \/ cache[i - 1] \in lineBreaks
    <3>1. i = 1 \/ i - 1 \in 1..n
      BY <2>1, <2>4
    <3> QED BY <2>3, <3>1 DEF IsLine
  <2> QED BY <2>3, <2>5, <2>6, <2>7, CommonLine
<1> QED BY <1>1, <1>2

\* A write completes no line but the record's own.
LEMMA WriteNoFused ==
  ASSUME TypeOK, LineInv, NoFusedRecords, NEW p \in Writers, NEW n, Write(p, n)
  PROVE  NoFusedRecords'
<1> DEFINE l == Len(line[p])
           w == written[p]
           b == Start(p)
<1>1. /\ n \in Nat \ {0} /\ cache' \in Seq(Bytes)
      /\ Len(cache') = Len(cache) + n
      /\ \A i \in 1..Len(cache) : cache'[i] = cache[i]
      /\ \A i \in 1..n : cache'[Len(cache) + i] = line[p][w + i]
  BY WriteAppends
<1>2. /\ Len(cache) \in Nat /\ w \in Nat
      /\ torn' = torn /\ ContentTypeOK
  BY LenProperties DEF TypeOK, ContentTypeOK, HandleTypeOK, Write
<1>3. PICK record \in Inputs : Framable(record) /\ line[p] = Line(record)
  BY DEF LineInv, Write
<1>4. /\ line[p] \in Seq(Bytes) /\ l \in Nat /\ l > 1 /\ line[p][l] = NL
      /\ \A k \in 1..(l - 1) : line[p][k] \notin lineBreaks
  BY <1>3, LineProperties
<1>5. /\ b \in Nat /\ b + w = Len(cache)
      /\ b = 0 \/ cache[b] = NL
      /\ \A k \in 1..w : cache[b + k] = line[p][k]
  <2>1. pc[p] = "writing"
    BY DEF Write
  <2>2. /\ b \in Nat
        /\ b = 0 \/ cache[b] = NL
        /\ \A k \in 1..w : cache[b + k] = line[p][k]
    BY <2>1 DEF LineInv
  <2>3. b + w = Len(cache)
    BY <1>2 DEF Start
  <2> QED BY <2>2, <2>3
<1>6. /\ w + n <= l
      /\ \A k \in (Len(cache) + 1)..Len(cache') :
           cache'[k] \in lineBreaks => w + (k - Len(cache)) = l
  BY WriteBytes
<1> SUFFICES ASSUME NEW i \in 1..Len(cache'), NEW j \in 1..Len(cache'),
                    IsLine(cache', i, j), (i..j) \cap torn = {}
             PROVE  \E r \in Inputs :
                      Framable(r) /\ SubSeq(cache', i, j) = Line(r)
  BY <1>2 DEF NoFusedRecords
<1> HIDE DEF l, w, b
<1>7. CASE j <= Len(cache)
  <2>1. i <= j
    BY DEF IsLine
  <2>2. i \in 1..Len(cache) /\ j \in 1..Len(cache) /\ \A k \in i..j : k \in 1..Len(cache)
    BY <1>1, <1>2, <1>7, <2>1
  <2>3. i = 1 \/ cache[i - 1] \in lineBreaks
    <3>1. i = 1 \/ i - 1 \in 1..Len(cache)
      BY <1>2, <2>2
    <3> QED BY <1>1, <3>1 DEF IsLine
  <2> QED BY <1>1, <1>2, <2>2, <2>3, CommonLine
<1>8. CASE ~(j <= Len(cache))
  <2>1. j \in (Len(cache) + 1)..Len(cache') /\ cache'[j] \in lineBreaks
    BY <1>1, <1>2, <1>8 DEF IsLine
  <2>2. w + (j - Len(cache)) = l
    BY <1>6, <2>1
  <2>3. j = b + l /\ j = Len(cache')
    BY <1>1, <1>2, <1>4, <1>5, <1>6, <2>1, <2>2
  <2>4. \A k \in 1..l : cache'[b + k] = line[p][k]
    <3> SUFFICES ASSUME NEW k \in 1..l PROVE cache'[b + k] = line[p][k]
      OBVIOUS
    <3>1. CASE k <= w
      <4>1. k \in 1..w /\ b + k \in 1..Len(cache)
        BY <1>2, <1>5, <3>1
      <4> QED BY <1>1, <1>5, <4>1
    <3>2. CASE ~(k <= w)
      <4>1. l = w + n
        <5>1. /\ n \in Nat /\ w \in Nat /\ l \in Nat /\ b \in Nat
              /\ b + w + n = b + l
          BY <1>1, <1>2, <1>4, <1>5, <2>3
        <5> QED BY <5>1
      <4>2. k - w \in 1..n
        BY <1>1, <1>2, <3>2, <4>1
      <4>3. Len(cache) + (k - w) = b + k /\ w + (k - w) = k
        BY <1>2, <1>5, <4>2
      <4> QED BY <1>1, <4>2, <4>3
    <3> QED BY <3>1, <3>2
  <2>5. ~(i <= b)
    <3> SUFFICES ASSUME i <= b PROVE FALSE
      OBVIOUS
    <3>1. b \in 1..Len(cache) /\ b \in i..(j - 1)
      BY <1>2, <1>4, <1>5, <2>3
    <3>2. cache'[b] = NL
      BY <1>1, <1>5, <3>1
    <3> QED BY <3>1, <3>2, ByteAssumption DEF IsLine
  <2>6. ~(i > b + 1)
    <3> SUFFICES ASSUME i > b + 1 PROVE FALSE
      OBVIOUS
    <3>1. i <= j /\ i # 1 /\ cache'[i - 1] \in lineBreaks
      BY <1>5 DEF IsLine
    <3>2. i - 1 - b \in 1..(l - 1) /\ b + (i - 1 - b) = i - 1 /\ i - 1 - b \in 1..l
      BY <1>4, <1>5, <2>3, <3>1
    <3>3. cache'[i - 1] = line[p][i - 1 - b]
      BY <2>4, <3>2
    <3> QED BY <1>4, <3>1, <3>2, <3>3
  <2>7. i = b + 1
    BY <1>5, <2>5, <2>6
  <2>8. SubSeq(cache', i, j) = line[p]
    <3> DEFINE u == SubSeq(cache', b + 1, b + l)
    <3>1. u \in Seq(Bytes) /\ Len(u) = l /\ \A k \in 1..l : u[k] = cache'[b + k]
      BY <1>1, <1>4, <1>5, <2>3, ChunkProperties
    <3> HIDE DEF u
    <3>2. u = line[p]
      BY <1>4, <2>4, <3>1, SeqEqual DEF l
    <3> QED BY <2>3, <2>7, <3>2 DEF u
  <2> QED BY <1>3, <2>8
<1> QED BY <1>7, <1>8

\* What is on the disk, and was never dirty, is what the file was.
LEMMA HostLossNoFused ==
  ASSUME ContentTypeOK, CopiesInv, NoFusedRecords, HostLoss
  PROVE  NoFusedRecords'
<1>1. /\ cache' = disk' /\ (disk' = disk \/ disk' = <<>>)
      /\ torn' = {i \in torn \cup dirty : i <= Len(disk')}
  BY DEF HostLoss
<1>2. Len(cache) \in Nat /\ Len(disk) \in Nat
  BY LenProperties DEF ContentTypeOK
<1>3. CASE disk' = <<>>
  BY <1>1, <1>3, EmptySeq DEF NoFusedRecords
<1>4. CASE disk' = disk
  <2> SUFFICES ASSUME NEW i \in 1..Len(disk), NEW j \in 1..Len(disk),
                      IsLine(disk, i, j), (i..j) \cap torn' = {}
               PROVE  \E record \in Inputs :
                        Framable(record) /\ SubSeq(disk, i, j) = Line(record)
    BY <1>1, <1>4 DEF NoFusedRecords
  <2>1. \A k \in i..j : k <= Len(disk) /\ k \in Nat \ {0}
    BY <1>2
  <2>2. \A k \in i..j : k \notin dirty /\ k \notin torn
    BY <1>1, <1>4, <2>1
  <2>3. \A k \in i..j : k <= Len(cache) /\ disk[k] = cache[k]
    BY <2>1, <2>2 DEF CopiesInv, CopiesAgree
  <2>4. i \in i..j /\ j \in i..j
    BY DEF IsLine
  <2>5. i \in 1..Len(cache) /\ j \in 1..Len(cache)
    BY <1>2, <2>3, <2>4
  <2>6. i = 1 \/ cache[i - 1] \in lineBreaks
    <3> SUFFICES ASSUME i # 1 PROVE cache[i - 1] \in lineBreaks
      OBVIOUS
    <3>1. i - 1 \in Nat \ {0} /\ i - 1 <= Len(disk) /\ i - 1 <= Len(cache)
      BY <1>2, <2>5
    <3>2. disk[i - 1] \in lineBreaks
      BY DEF IsLine
    <3>3. i - 1 \notin dirty
      BY <3>1, <3>2 DEF CopiesInv, NoStaleBreak
    <3> QED BY <3>1, <3>2, <3>3 DEF CopiesInv, CopiesAgree
  <2>7. (i..j) \cap torn = {}
    BY <2>2
  <2> QED BY <2>3, <2>5, <2>6, <2>7, CommonLine
<1> QED BY <1>1, <1>3, <1>4

-----------------------------------------------------------------------------
(* The line under way *)

\* While p holds the guard no other handle is past acquireWriterLock.
LEMMA OthersOutside ==
  ASSUME GuardInv, NEW p \in Writers, Holding(p), NEW q \in Writers, q # p
  PROVE  pc[q] \in {"closed", "lockOpened"}
BY DEF GuardInv, SingleWriter, Holding

\* A step that leaves the file alone and puts no handle in a better place than
\* it was.
LEMMA QuietLine ==
  ASSUME LineInv, BoundaryInv, UNCHANGED <<cache, dropped>>,
         \A q \in Writers :
           /\ pc'[q] \in {"writing", "syncing"} =>
                pc'[q] = pc[q] /\ line'[q] = line[q] /\ written'[q] = written[q]
           /\ pc'[q] = "truncated" => pc[q] = "truncated"
           /\ pc'[q] = "ready" /\ ~broken'[q] => pc[q] = "ready" /\ ~broken[q]
  PROVE  LineInv' /\ BoundaryInv'
<1>1. LineInv'
  BY DEF LineInv, Start
<1>2. BoundaryInv'
  BY DEF BoundaryInv
<1> QED BY <1>1, <1>2

\* The steps of Open before the repair, every failure that leaves the file
\* alone, Close and the death of a process.
LEMMA HandleQuiet ==
  ASSUME GuardInv, LineInv, BoundaryInv, NEW p \in Writers,
         UNCHANGED <<cache, dropped>>,
         \/ UNCHANGED <<pc, appendVars>>
         \/ Release(p)
         \/ Return(p, TRUE)
         \/ \E label \in Pcs \ {"writing", "syncing", "truncated", "ready"} :
              Goto(p, label) /\ UNCHANGED appendVars
  PROVE  LineInv' /\ BoundaryInv'
<1>1. /\ pc \in [Writers -> Pcs] /\ line \in [Writers -> Seq(Bytes)]
      /\ written \in [Writers -> Nat] /\ broken \in [Writers -> BOOLEAN]
  BY DEF GuardInv, TypeOK, HandleTypeOK
<1>2. ASSUME NEW q \in Writers
      PROVE  /\ pc'[q] \in {"writing", "syncing"} =>
                  pc'[q] = pc[q] /\ line'[q] = line[q] /\ written'[q] = written[q]
             /\ pc'[q] = "truncated" => pc[q] = "truncated"
             /\ pc'[q] = "ready" /\ ~broken'[q] => pc[q] = "ready" /\ ~broken[q]
  BY <1>1 DEF Release, Return, Goto, appendVars
<1> QED BY <1>2, QuietLine

\* A failed sync ends what was under way, and forgets pages of nothing else.
LEMMA SyncFailsLine ==
  ASSUME GuardInv, LineInv, BoundaryInv, NEW p \in Writers,
         SyncRepairFails(p) \/ AppendSyncFails(p)
  PROVE  LineInv' /\ BoundaryInv'
<1>1. /\ pc[p] \in {"truncated", "syncing"} /\ cache' = cache
      /\ Release(p) \/ Return(p, TRUE)
  BY DEF SyncRepairFails, AppendSyncFails, SyncFileFails
<1>2. /\ pc \in [Writers -> Pcs] /\ broken \in [Writers -> BOOLEAN]
  BY DEF GuardInv, TypeOK, HandleTypeOK
<1>3. ASSUME NEW q \in Writers
      PROVE  /\ pc'[q] \notin {"writing", "syncing", "truncated"}
             /\ ~(pc'[q] = "ready" /\ ~broken'[q])
  <2>1. CASE q = p
    BY <1>1, <1>2, <2>1 DEF Release, Return, Goto
  <2>2. CASE q # p
    <3>1. pc[q] \in {"closed", "lockOpened"}
      BY <1>1, <2>2, OthersOutside DEF Holding
    <3>2. pc'[q] = pc[q]
      BY <1>1, <1>2, <2>2 DEF Release, Return, Goto
    <3> QED BY <3>1, <3>2
  <2> QED BY <2>1, <2>2
<1> QED BY <1>3 DEF LineInv, BoundaryInv

\* The repair ends at a boundary.
LEMMA RepairLine ==
  ASSUME GuardInv, LineInv, BoundaryInv, NEW p \in Writers, RepairTail(p)
  PROVE  LineInv' /\ BoundaryInv'
<1>1. /\ pc \in [Writers -> Pcs] /\ cache \in Seq(Bytes) /\ Len(cache) \in Nat
  BY LenProperties DEF GuardInv, TypeOK, HandleTypeOK, ContentTypeOK
<1>2. /\ pc[p] = "dirSynced"
      /\ Goto(p, "ready") \/ Goto(p, "truncated")
  BY DEF RepairTail
<1>3. AtBoundary(cache')
  <2>1. CASE AtBoundary(cache)
    BY <2>1 DEF RepairTail, contentVars
  <2>2. CASE ~AtBoundary(cache)
    <3> DEFINE n == RepairedLen
    <3>1. n \in 0..Len(cache) /\ (n = 0 \/ cache[n] = NL)
      BY <1>1, CompleteLenProperties DEF RepairedLen
    <3>2. cache' = SubSeq(cache, 1, n)
      BY <2>2 DEF RepairTail
    <3> HIDE DEF n
    <3>3. /\ cache' \in Seq(Bytes) /\ Len(cache') = n
          /\ \A k \in 1..n : cache'[k] = cache[k]
      BY <1>1, <3>1, <3>2, PrefixProperties
    <3>4. CASE n = 0
      BY <3>3, <3>4, EmptySeq DEF AtBoundary
    <3>5. CASE n # 0
      <4>1. n \in 1..n
        BY <1>1, <3>1, <3>5
      <4> QED BY <3>1, <3>3, <3>5, <4>1 DEF AtBoundary
    <3> QED BY <3>4, <3>5
  <2> QED BY <2>1, <2>2
<1>4. ASSUME NEW q \in Writers PROVE pc'[q] \notin {"writing", "syncing"}
  <2>1. CASE q = p
    BY <1>1, <1>2, <2>1 DEF Goto
  <2>2. CASE q # p
    <3>1. pc[q] \in {"closed", "lockOpened"}
      BY <1>2, <2>2, OthersOutside DEF Holding
    <3>2. pc'[q] = pc[q]
      BY <1>1, <1>2, <2>2 DEF Goto
    <3> QED BY <3>1, <3>2
  <2> QED BY <2>1, <2>2
<1> QED BY <1>3, <1>4 DEF LineInv, BoundaryInv

LEMMA SyncRepairLine ==
  ASSUME GuardInv, LineInv, BoundaryInv, NEW p \in Writers, SyncRepair(p)
  PROVE  LineInv' /\ BoundaryInv'
<1>1. /\ pc[p] = "truncated" /\ pc' = [pc EXCEPT ![p] = "ready"]
      /\ UNCHANGED <<cache, dropped, line, written, broken>>
  BY DEF SyncRepair, SyncFile, Goto, contentVars, appendVars
<1>2. pc \in [Writers -> Pcs]
  BY DEF GuardInv, TypeOK, HandleTypeOK
<1>3. AtBoundary(cache')
  BY <1>1 DEF BoundaryInv
<1>4. LineInv'
  BY <1>1, <1>2 DEF LineInv, Start
<1> QED BY <1>3, <1>4 DEF BoundaryInv

\* Append starts at the boundary the handle is at.
LEMMA AppendRecordLine ==
  ASSUME GuardInv, LineInv, BoundaryInv, NEW p \in Writers,
         NEW record \in Inputs, AppendRecord(p, record)
  PROVE  LineInv' /\ BoundaryInv'
<1>1. /\ pc[p] = "ready" /\ ~broken[p] /\ Framable(record)
      /\ pc' = [pc EXCEPT ![p] = "writing"]
      /\ line' = [line EXCEPT ![p] = Line(record)]
      /\ written' = [written EXCEPT ![p] = 0]
      /\ UNCHANGED <<cache, dropped, broken>>
  BY DEF AppendRecord, Goto, fileVars, contentVars
<1>2. /\ pc \in [Writers -> Pcs] /\ line \in [Writers -> Seq(Bytes)]
      /\ written \in [Writers -> Nat]
      /\ cache \in Seq(Bytes) /\ Len(cache) \in Nat
      /\ \A k \in dropped : k <= Len(cache)
  BY LenProperties DEF GuardInv, TypeOK, HandleTypeOK, ContentTypeOK
<1>3. AtBoundary(cache)
  BY <1>1 DEF BoundaryInv
<1>4. ASSUME NEW q \in Writers, q # p
      PROVE  pc'[q] \in {"closed", "lockOpened"}
  <2>1. pc[q] \in {"closed", "lockOpened"}
    BY <1>1, <1>4, OthersOutside DEF Holding
  <2> QED BY <1>1, <1>2, <1>4, <2>1
<1>5. /\ pc'[p] = "writing" /\ line'[p] = Line(record) /\ written'[p] = 0
      /\ Start(p)' = Len(cache)
  BY <1>1, <1>2 DEF Start
<1>6. Len(cache) = 0 \/ cache[Len(cache)] = NL
  BY <1>2, <1>3, EmptySeq DEF AtBoundary
<1>7. LineInv'
  <2>1. \A q \in Writers : pc'[q] \in {"writing", "syncing"} => q = p
    BY <1>4
  <2>2. \A k \in 1..0 : cache'[Len(cache) + k] = Line(record)[k]
    OBVIOUS
  <2>3. /\ Len(cache) = 0 \/ cache'[Len(cache)] = NL
        /\ \A k \in dropped' : k <= Len(cache)
    BY <1>1, <1>2, <1>6
  <2> QED BY <1>1, <1>2, <1>5, <2>1, <2>2, <2>3 DEF LineInv
<1>8. BoundaryInv'
  BY <1>4, <1>5 DEF BoundaryInv
<1> QED BY <1>7, <1>8

\* A write call lengthens the file and what is written of the line alike.
LEMMA WriteLine ==
  ASSUME GuardInv, LineInv, BoundaryInv, NEW p \in Writers, NEW n, Write(p, n)
  PROVE  LineInv' /\ BoundaryInv'
<1> DEFINE w == written[p]
           b == Start(p)
<1>1. /\ pc[p] = "writing" /\ pc' = [pc EXCEPT ![p] = pc'[p]]
      /\ written' = [written EXCEPT ![p] = w + n]
      /\ UNCHANGED <<line, broken, dropped>>
      /\ pc'[p] \in {"writing", "syncing"}
  BY DEF Write, Goto, GuardInv, TypeOK, HandleTypeOK
<1>2. /\ n \in Nat \ {0}
      /\ Len(cache') = Len(cache) + n
      /\ \A i \in 1..Len(cache) : cache'[i] = cache[i]
      /\ \A i \in 1..n : cache'[Len(cache) + i] = line[p][w + i]
  BY WriteAppends DEF GuardInv
<1>3. /\ pc \in [Writers -> Pcs] /\ written \in [Writers -> Nat]
      /\ Len(cache) \in Nat /\ w \in Nat
  BY LenProperties DEF GuardInv, TypeOK, HandleTypeOK, ContentTypeOK
<1>4. /\ b \in Nat
      /\ b = 0 \/ cache[b] = NL
      /\ \A k \in 1..w : cache[b + k] = line[p][k]
      /\ \A k \in dropped : k <= b
      /\ \E record \in Inputs : Framable(record) /\ line[p] = Line(record)
  BY <1>1 DEF LineInv
<1>5. b + w = Len(cache)
  BY <1>3 DEF Start
<1>6. ASSUME NEW q \in Writers, q # p
      PROVE  pc'[q] \in {"closed", "lockOpened"}
  <2>1. pc[q] \in {"closed", "lockOpened"}
    BY <1>1, <1>6, OthersOutside DEF Holding
  <2> QED BY <1>1, <1>3, <1>6, <2>1
<1>7. written'[p] = w + n /\ Start(p)' = b
  <2>1. written'[p] = w + n
    BY <1>1, <1>3
  <2> QED BY <1>2, <1>3, <2>1 DEF Start
<1> HIDE DEF w, b
<1>8. \A k \in 1..(w + n) : cache'[b + k] = line[p][k]
  <2> SUFFICES ASSUME NEW k \in 1..(w + n) PROVE cache'[b + k] = line[p][k]
    OBVIOUS
  <2>1. CASE k <= w
    <3>1. k \in 1..w /\ b + k \in 1..Len(cache)
      BY <1>3, <1>4, <1>5, <2>1
    <3> QED BY <1>2, <1>4, <3>1
  <2>2. CASE ~(k <= w)
    <3>1. k - w \in 1..n
      BY <1>2, <1>3, <2>2
    <3>2. Len(cache) + (k - w) = b + k /\ w + (k - w) = k
      BY <1>3, <1>4, <1>5
    <3> QED BY <1>2, <3>1, <3>2
  <2> QED BY <2>1, <2>2
<1>9. b = 0 \/ cache'[b] = NL
  <2>1. b # 0 => b \in 1..Len(cache)
    BY <1>3, <1>4, <1>5
  <2> QED BY <1>2, <1>4, <2>1
<1>10. LineInv'
  BY <1>1, <1>4, <1>6, <1>7, <1>8, <1>9 DEF LineInv
<1>11. BoundaryInv'
  BY <1>1, <1>6 DEF BoundaryInv
<1> QED BY <1>10, <1>11

\* When the sync is reached, the line is the end of the file.
LEMMA LineWritten ==
  ASSUME GuardInv, LineInv, NEW p \in Writers, pc[p] = "syncing"
  PROVE  /\ Len(line[p]) \in Nat /\ Len(line[p]) > 1
         /\ Len(cache) - Len(line[p]) \in Nat
         /\ \/ Len(cache) - Len(line[p]) = 0
            \/ cache[Len(cache) - Len(line[p])] = NL
         /\ \A k \in 1..Len(line[p]) :
              cache[Len(cache) - Len(line[p]) + k] = line[p][k]
         /\ \A k \in dropped : k <= Len(cache) - Len(line[p])
         /\ line[p][Len(line[p])] = NL
         /\ \A k \in 1..(Len(line[p]) - 1) : line[p][k] \notin lineBreaks
<1>1. written[p] = Len(line[p])
  BY DEF GuardInv, TypeOK, HandleTypeOK
<1>2. PICK record \in Inputs : Framable(record) /\ line[p] = Line(record)
  BY DEF LineInv
<1>3. /\ Len(line[p]) \in Nat /\ Len(line[p]) > 1 /\ line[p][Len(line[p])] = NL
      /\ \A k \in 1..(Len(line[p]) - 1) : line[p][k] \notin lineBreaks
  BY <1>2, LineProperties
<1>4. Start(p) = Len(cache) - Len(line[p])
  BY <1>1 DEF Start
<1>5. /\ Start(p) \in Nat
      /\ Start(p) = 0 \/ cache[Start(p)] = NL
      /\ \A k \in 1..Len(line[p]) : cache[Start(p) + k] = line[p][k]
      /\ \A k \in dropped : k <= Start(p)
  BY <1>1 DEF LineInv
<1> QED BY <1>3, <1>4, <1>5

LEMMA AcceptedLine ==
  ASSUME GuardInv, LineInv, BoundaryInv, NEW p \in Writers, AppendAccepted(p)
  PROVE  LineInv' /\ BoundaryInv'
<1> DEFINE l == Len(line[p])
           b == Len(cache) - Len(line[p])
<1>1. /\ pc[p] = "syncing" /\ pc' = [pc EXCEPT ![p] = "ready"]
      /\ UNCHANGED cache
  BY DEF AppendAccepted, Return, Goto, SyncFile, contentVars
<1>2. /\ pc \in [Writers -> Pcs] /\ Len(cache) \in Nat
  BY LenProperties DEF GuardInv, TypeOK, HandleTypeOK, ContentTypeOK
<1>3. /\ l \in Nat /\ l > 1 /\ b \in Nat /\ line[p][l] = NL
      /\ \A k \in 1..l : cache[b + k] = line[p][k]
  BY <1>1, LineWritten
<1>4. b + l = Len(cache)
  BY <1>2, <1>3
<1> HIDE DEF l, b
<1>5. cache[Len(cache)] = NL
  <2>1. l \in 1..l
    BY <1>3
  <2> QED BY <1>3, <1>4, <2>1
<1>6. AtBoundary(cache')
  BY <1>1, <1>5 DEF AtBoundary
<1>7. ASSUME NEW q \in Writers PROVE pc'[q] \notin {"writing", "syncing"}
  <2>1. CASE q = p
    BY <1>1, <1>2, <2>1
  <2>2. CASE q # p
    <3>1. pc[q] \in {"closed", "lockOpened"}
      BY <1>1, <2>2, OthersOutside DEF Holding
    <3> QED BY <1>1, <1>2, <2>2, <3>1
  <2> QED BY <2>1, <2>2
<1> QED BY <1>6, <1>7 DEF LineInv, BoundaryInv

-----------------------------------------------------------------------------
(* The inductive step of the content *)

LEMMA ContentInit ==
  ASSUME Init PROVE ContentInv
<1>1. cache = <<>> /\ disk = <<>> /\ dirty = {} /\ Len(<<>>) = 0
  BY EmptySeq DEF Init
<1>2. CopiesInv
  BY <1>1 DEF CopiesInv, CopiesAgree, NoStaleBreak, OnlyNewlines
<1>3. \A p \in Writers : pc[p] = "closed"
  BY DEF Init
<1>4. LineInv /\ BoundaryInv
  BY <1>3 DEF LineInv, BoundaryInv
<1>5. NoFusedRecords
  BY <1>1 DEF NoFusedRecords
<1> QED BY <1>2, <1>4, <1>5 DEF ContentInv

LEMMA NoFusedUnchanged ==
  ASSUME NoFusedRecords, UNCHANGED <<cache, torn>>
  PROVE  NoFusedRecords'
BY DEF NoFusedRecords

\* The steps that leave the content alone and put no handle in a better place.
QuietStep(p) ==
  \/ \E s \in Syncers : OpenLockFile(p, s)
  \/ Flock(p) \/ FlockRefused(p) \/ MakeEventsDir(p) \/ SyncRootDir(p)
  \/ OpenEventsFile(p) \/ SyncEventsDir(p) \/ OpenRefused(p) \/ OpenFails(p)
  \/ WriteFails(p) \/ Close(p) \/ Crash(p)

LEMMA QuietContent ==
  ASSUME GuardInv, ContentInv, NEW p \in Writers, QuietStep(p)
  PROVE  ContentInv'
<1>1. UNCHANGED contentVars
  BY DEF QuietStep, OpenLockFile, Flock, FlockRefused, MakeEventsDir,
         SyncRootDir, OpenEventsFile, SyncEventsDir, OpenRefused, OpenFails,
         WriteFails, Close, Crash, fileVars
<1>2. \/ UNCHANGED <<pc, appendVars>>
      \/ Release(p)
      \/ Return(p, TRUE)
      \/ \E label \in Pcs \ {"writing", "syncing", "truncated", "ready"} :
           Goto(p, label) /\ UNCHANGED appendVars
  <2>1. CASE \E s \in Syncers : OpenLockFile(p, s)
    <3>1. \/ UNCHANGED <<pc, appendVars>>
          \/ Goto(p, "lockOpened") /\ UNCHANGED appendVars
      BY <2>1 DEF OpenLockFile
    <3> QED BY <3>1 DEF Pcs
  <2>2. CASE Flock(p) \/ MakeEventsDir(p) \/ SyncRootDir(p) \/ SyncEventsDir(p)
    <3>1. \E label \in {"guarded", "dirMade", "rootSynced", "dirSynced"} :
            Goto(p, label) /\ UNCHANGED appendVars
      BY <2>2 DEF Flock, MakeEventsDir, SyncRootDir, SyncEventsDir
    <3> QED BY <3>1 DEF Pcs
  <2>3. CASE OpenEventsFile(p)
    <3>1. \/ Goto(p, "eventsOpened") /\ UNCHANGED appendVars
          \/ Release(p)
      BY <2>3 DEF OpenEventsFile
    <3> QED BY <3>1 DEF Pcs
  <2>4. CASE \/ FlockRefused(p) \/ OpenRefused(p) \/ OpenFails(p)
             \/ WriteFails(p) \/ Close(p) \/ Crash(p)
    BY <2>4 DEF FlockRefused, OpenRefused, OpenFails, WriteFails, Close, Crash
  <2> QED BY <2>1, <2>2, <2>3, <2>4 DEF QuietStep
<1>3. LineInv' /\ BoundaryInv'
  BY <1>1, <1>2, HandleQuiet DEF ContentInv, contentVars
<1> QED BY <1>1, <1>3, CopiesUnchanged, NoFusedUnchanged DEF ContentInv, contentVars

\* The syncs, whether they succeed or fail.
LEMMA SyncContent ==
  ASSUME GuardInv, ContentInv, NEW p \in Writers,
         \/ SyncRepair(p) \/ AppendAccepted(p)
         \/ SyncRepairFails(p) \/ AppendSyncFails(p)
  PROVE  ContentInv'
<1>1. SyncFile(p) \/ SyncFileFails
  BY DEF SyncRepair, AppendAccepted, SyncRepairFails, AppendSyncFails
<1>2. UNCHANGED <<cache, torn>>
  BY <1>1 DEF SyncFile, SyncFileFails, contentVars
<1>3. CopiesInv'
  <2>1. CASE SyncFile(p)
    BY <2>1, SyncFileCopies DEF ContentInv, GuardInv, TypeOK
  <2>2. CASE SyncFileFails
    BY <2>2, CopiesUnchanged DEF ContentInv, SyncFileFails
  <2> QED BY <1>1, <2>1, <2>2
<1>4. LineInv' /\ BoundaryInv'
  BY SyncRepairLine, AcceptedLine, SyncFailsLine DEF ContentInv
<1> QED BY <1>2, <1>3, <1>4, NoFusedUnchanged DEF ContentInv

LEMMA ContentNext ==
  ASSUME GuardInv, ContentInv, [Next]_vars PROVE ContentInv'
<1> USE DEF ContentInv
<1>1. TypeOK /\ ContentTypeOK
  BY DEF GuardInv, TypeOK
<1>2. CASE UNCHANGED vars
  <2>1. UNCHANGED <<cache, disk, dirty, dropped, torn, pc, line, written, broken>>
    BY <1>2 DEF vars, fileVars, contentVars, appendVars
  <2>2. LineInv' /\ BoundaryInv'
    BY <2>1, QuietLine
  <2> QED BY <2>1, <2>2, CopiesUnchanged, NoFusedUnchanged
<1>3. ASSUME NEW p \in Writers, QuietStep(p) PROVE ContentInv'
  BY <1>3, QuietContent
<1>4. ASSUME NEW p \in Writers,
             \/ SyncRepair(p) \/ AppendAccepted(p)
             \/ SyncRepairFails(p) \/ AppendSyncFails(p)
      PROVE  ContentInv'
  BY <1>4, SyncContent
<1>5. ASSUME NEW p \in Writers, RepairTail(p) PROVE ContentInv'
  BY <1>1, <1>5, RepairCopies, RepairLine, RepairNoFused
<1>6. ASSUME NEW p \in Writers, NEW record \in Inputs, AppendRecord(p, record)
      PROVE  ContentInv'
  <2>1. UNCHANGED <<cache, disk, dirty, torn>>
    BY <1>6 DEF AppendRecord, fileVars, contentVars
  <2> QED BY <1>6, <2>1, CopiesUnchanged, NoFusedUnchanged, AppendRecordLine
<1>7. ASSUME NEW p \in Writers, NEW n, Write(p, n) PROVE ContentInv'
  BY <1>1, <1>7, WriteCopies, WriteLine, WriteNoFused
<1>8. ASSUME NEW i \in dirty, KernelWriteback(i) PROVE ContentInv'
  <2>1. UNCHANGED <<cache, dropped, torn, pc, line, written, broken>>
    BY <1>8 DEF KernelWriteback, appendVars
  <2>2. LineInv' /\ BoundaryInv'
    BY <2>1, QuietLine
  <2> QED BY <1>1, <1>8, <2>1, <2>2, WritebackCopies, NoFusedUnchanged
<1>9. CASE HostLoss
  <2>1. \A p \in Writers : pc'[p] = "closed"
    BY <1>9 DEF HostLoss
  <2>2. LineInv' /\ BoundaryInv'
    BY <2>1 DEF LineInv, BoundaryInv
  <2> QED BY <1>1, <1>9, <2>2, HostLossCopies, HostLossNoFused
<1> HIDE DEF ContentInv
<1>10. ASSUME NEW p \in Writers,
              \/ \E s \in Syncers : OpenLockFile(p, s)
              \/ OpenStep(p)
              \/ \E record \in Inputs : AppendRecord(p, record)
              \/ AppendStep(p)
              \/ CallFails(p)
              \/ Close(p)
              \/ Crash(p)
       PROVE  ContentInv'
  BY <1>3, <1>4, <1>5, <1>6, <1>7, <1>10
     DEF QuietStep, OpenStep, AppendStep, CallFails
<1> QED BY <1>2, <1>8, <1>9, <1>10 DEF Next

\* The inductive invariant of the content holds in every reachable state.
THEOREM ContentInvariant == Spec => []ContentInv
<1>1. Init => ContentInv
  BY ContentInit
<1>2. GuardInv /\ ContentInv /\ [Next]_vars => ContentInv'
  BY ContentNext
<1> QED BY <1>1, <1>2, GuardInvariant, PTL DEF Spec

\* A complete line that no host loss touched is one record some caller
\* submitted: fragments are repaired away before anything is appended, whatever
\* fails and whichever kernel forgets pages.
THEOREM RecordsWhole == Spec => []NoFusedRecords
<1>1. ContentInv => NoFusedRecords
  BY DEF ContentInv
<1> QED BY <1>1, ContentInvariant, PTL

-----------------------------------------------------------------------------
(* What a step without a host loss does to the content *)

\* The complete lines of the file stay where they are.
CompleteKept ==
  /\ CompleteLen(cache) <= Len(cache')
  /\ \A k \in 1..CompleteLen(cache) : cache'[k] = cache[k]

\* A byte that is the same in both copies stays on the disk.
DiskKept ==
  \A k \in Nat \ {0} :
    k <= Len(cache) /\ k <= Len(disk) /\ cache[k] = disk[k] =>
      k <= Len(disk') /\ disk'[k] = disk[k]

\* Nothing becomes dirty but what lies behind the last complete line.
DirtyBehind == \A k \in dirty' : k \in dirty \/ k > CompleteLen(cache)

\* Where a failed sync keeps pages dirty, none is forgotten.
DroppedKept == KeepsDirty => dropped' \subseteq dropped

ContentKept == CompleteKept /\ DiskKept /\ DirtyBehind /\ DroppedKept

LEMMA UnchangedKept ==
  ASSUME ContentTypeOK, UNCHANGED contentVars
  PROVE  ContentKept
<1>1. CompleteLen(cache) \in 0..Len(cache) /\ Len(cache) \in Nat
  BY CompleteLenProperties, LenProperties DEF ContentTypeOK
<1> QED BY <1>1
        DEF ContentKept, CompleteKept, DiskKept, DirtyBehind, DroppedKept,
            contentVars

LEMMA SyncFileKept ==
  ASSUME ContentTypeOK, NEW p, SyncFile(p)
  PROVE  ContentKept
<1>1. CASE ~Persists(syncer[p], site.events.device)
  BY <1>1, UnchangedKept DEF SyncFile
<1>2. CASE Persists(syncer[p], site.events.device)
  <2> DEFINE flushed == (1..Len(cache)) \ dropped
  <2>1. /\ disk' = Flush(disk, cache, flushed)
        /\ dirty' = dropped /\ UNCHANGED <<cache, dropped>>
    BY <1>2 DEF SyncFile
  <2>2. /\ Len(cache) \in Nat /\ Len(disk) \in Nat
        /\ cache \in Seq(Bytes) /\ disk \in Seq(Bytes)
        /\ dropped \subseteq dirty
        /\ CompleteLen(cache) \in 0..Len(cache)
    BY LenProperties, CompleteLenProperties DEF ContentTypeOK
  <2>3. /\ Len(disk') = Len(cache)
        /\ \A k \in 1..Len(cache) :
             disk'[k] = IF k \in flushed THEN cache[k] ELSE Stored(disk, k)
    BY <2>1, <2>2, FlushProperties, ByteAssumption
  <2> HIDE DEF flushed
  <2>4. DiskKept
    <3> SUFFICES ASSUME NEW k \in Nat \ {0}, k <= Len(cache), k <= Len(disk),
                        cache[k] = disk[k]
                 PROVE  k <= Len(disk') /\ disk'[k] = disk[k]
      BY DEF DiskKept
    <3>1. k \in 1..Len(cache) /\ Stored(disk, k) = disk[k]
      BY <2>2 DEF Stored
    <3> QED BY <2>3, <3>1
  <2>5. CompleteKept /\ DirtyBehind /\ DroppedKept
    BY <2>1, <2>2 DEF CompleteKept, DirtyBehind, DroppedKept
  <2> QED BY <2>4, <2>5 DEF ContentKept
<1> QED BY <1>1, <1>2

LEMMA SyncFailsKept ==
  ASSUME ContentTypeOK, SyncFileFails
  PROVE  ContentKept
<1>1. CompleteLen(cache) \in 0..Len(cache) /\ Len(cache) \in Nat
  BY CompleteLenProperties, LenProperties DEF ContentTypeOK
<1>2. UNCHANGED <<cache, disk, dirty>>
  BY DEF SyncFileFails
<1>3. DroppedKept
  BY DEF SyncFileFails, DroppedKept
<1> QED BY <1>1, <1>2, <1>3 DEF ContentKept, CompleteKept, DiskKept, DirtyBehind

LEMMA RepairKept ==
  ASSUME ContentTypeOK, NEW p, RepairTail(p)
  PROVE  ContentKept
<1>1. CASE AtBoundary(cache)
  BY <1>1, UnchangedKept DEF RepairTail
<1>2. CASE ~AtBoundary(cache)
  <2> DEFINE n == CompleteLen(cache)
  <2>1. n \in 0..Len(cache) /\ Len(cache) \in Nat /\ Len(disk) \in Nat
    BY CompleteLenProperties, LenProperties DEF ContentTypeOK
  <2>2. /\ cache' = SubSeq(cache, 1, n)
        /\ dirty' = {i \in dirty : i <= n} \cup ((n + 1)..Len(disk))
        /\ dropped' = {i \in dropped : i <= n}
        /\ disk' = disk
    BY <1>2 DEF RepairTail, RepairedLen
  <2> HIDE DEF n
  <2>3. Len(cache') = n /\ \A k \in 1..n : cache'[k] = cache[k]
    BY <2>1, <2>2, PrefixProperties DEF ContentTypeOK
  <2>4. CompleteKept
    BY <2>1, <2>3 DEF CompleteKept, n
  <2>5. DirtyBehind
    BY <2>1, <2>2 DEF DirtyBehind, n
  <2> QED BY <2>2, <2>4, <2>5 DEF ContentKept, DiskKept, DroppedKept
<1> QED BY <1>1, <1>2

LEMMA WriteKept ==
  ASSUME TypeOK, NEW p \in Writers, NEW n, Write(p, n)
  PROVE  ContentKept
<1>1. /\ n \in Nat \ {0} /\ Len(cache') = Len(cache) + n
      /\ \A i \in 1..Len(cache) : cache'[i] = cache[i]
  BY WriteAppends
<1>2. /\ dirty' = dirty \cup ((Len(cache) + 1)..(Len(cache) + n))
      /\ UNCHANGED <<disk, dropped>>
  BY DEF Write
<1>3. CompleteLen(cache) \in 0..Len(cache) /\ Len(cache) \in Nat
  BY CompleteLenProperties, LenProperties DEF TypeOK, ContentTypeOK
<1>4. CompleteKept
  BY <1>1, <1>3 DEF CompleteKept
<1>5. DirtyBehind
  BY <1>1, <1>2, <1>3 DEF DirtyBehind
<1> QED BY <1>2, <1>4, <1>5 DEF ContentKept, DiskKept, DroppedKept

LEMMA WritebackKept ==
  ASSUME ContentTypeOK, NEW i, KernelWriteback(i)
  PROVE  ContentKept
<1>1. /\ Len(cache) \in Nat /\ Len(disk) \in Nat
      /\ CompleteLen(cache) \in 0..Len(cache)
  BY LenProperties, CompleteLenProperties DEF ContentTypeOK
<1>2. i \in dirty /\ i \in Nat \ {0} /\ UNCHANGED <<cache, dropped>>
  BY <1>1 DEF KernelWriteback, ContentTypeOK
<1>3. CompleteKept /\ DroppedKept
  BY <1>1, <1>2 DEF CompleteKept, DroppedKept
<1>4. CASE i <= Len(cache)
  <2> DEFINE m == IF i > Len(disk) THEN i ELSE Len(disk)
  <2>1. disk' = WriteBack(disk, cache, i) /\ dirty' = dirty \ {i}
    BY <1>4 DEF KernelWriteback
  <2>2. i \in 1..Len(cache)
    BY <1>1, <1>2, <1>4
  <2>3. /\ Len(disk') = m
        /\ \A k \in 1..m : disk'[k] = IF k = i THEN cache[k] ELSE Stored(disk, k)
    BY <2>1, <2>2, WriteBackProperties, ByteAssumption DEF ContentTypeOK
  <2>4. m \in Nat /\ Len(disk) <= m
    BY <1>1, <1>2
  <2> HIDE DEF m
  <2>5. DiskKept
    <3> SUFFICES ASSUME NEW k \in Nat \ {0}, k <= Len(disk), cache[k] = disk[k]
                 PROVE  k <= Len(disk') /\ disk'[k] = disk[k]
      BY DEF DiskKept
    <3>1. k \in 1..m /\ k <= m /\ Stored(disk, k) = disk[k]
      BY <1>1, <2>4 DEF Stored
    <3> QED BY <2>3, <3>1
  <2> QED BY <1>3, <2>1, <2>5 DEF ContentKept, DirtyBehind
<1>5. CASE ~(i <= Len(cache))
  <2>1. /\ disk' = SubSeq(disk, 1, Len(cache))
        /\ dirty' = {j \in dirty : j <= Len(cache)}
    BY <1>5 DEF KernelWriteback
  <2>2. Len(cache) \in 0..Len(disk)
    BY <1>1, <1>2, <1>5 DEF ContentTypeOK
  <2>3. /\ Len(disk') = Len(cache)
        /\ \A k \in 1..Len(cache) : disk'[k] = disk[k]
    BY <2>1, <2>2, PrefixProperties DEF ContentTypeOK
  <2>4. DiskKept
    BY <1>1, <2>3 DEF DiskKept
  <2> QED BY <1>3, <2>1, <2>4 DEF ContentKept, DirtyBehind
<1> QED BY <1>4, <1>5

\* Whatever a handle or the kernel does.
LEMMA StepKeepsContent ==
  ASSUME GuardInv, [Next]_vars, ~HostLoss
  PROVE  ContentKept
<1>1. TypeOK /\ ContentTypeOK
  BY DEF GuardInv, TypeOK
<1>2. CASE UNCHANGED vars
  BY <1>1, <1>2, UnchangedKept DEF vars, fileVars
<1>3. ASSUME NEW p \in Writers,
             QuietStep(p) \/ \E record \in Inputs : AppendRecord(p, record)
      PROVE  ContentKept
  <2>1. UNCHANGED contentVars
    BY <1>3
       DEF QuietStep, OpenLockFile, Flock, FlockRefused, MakeEventsDir,
           SyncRootDir, OpenEventsFile, SyncEventsDir, OpenRefused, OpenFails,
           WriteFails, Close, Crash, AppendRecord, fileVars
  <2> QED BY <1>1, <2>1, UnchangedKept
<1>4. ASSUME NEW p \in Writers, SyncRepair(p) \/ AppendAccepted(p)
      PROVE  ContentKept
  BY <1>1, <1>4, SyncFileKept DEF SyncRepair, AppendAccepted
<1>5. ASSUME NEW p \in Writers, SyncRepairFails(p) \/ AppendSyncFails(p)
      PROVE  ContentKept
  BY <1>1, <1>5, SyncFailsKept DEF SyncRepairFails, AppendSyncFails
<1>6. ASSUME NEW p \in Writers, RepairTail(p) PROVE ContentKept
  BY <1>1, <1>6, RepairKept
<1>7. ASSUME NEW p \in Writers, NEW n, Write(p, n) PROVE ContentKept
  BY <1>1, <1>7, WriteKept
<1>8. ASSUME NEW i \in dirty, KernelWriteback(i) PROVE ContentKept
  BY <1>1, <1>8, WritebackKept
<1>9. ASSUME NEW p \in Writers,
             \/ \E s \in Syncers : OpenLockFile(p, s)
             \/ OpenStep(p)
             \/ \E record \in Inputs : AppendRecord(p, record)
             \/ AppendStep(p)
             \/ CallFails(p)
             \/ Close(p)
             \/ Crash(p)
      PROVE  ContentKept
  BY <1>3, <1>4, <1>5, <1>6, <1>7, <1>9
     DEF QuietStep, OpenStep, AppendStep, CallFails
<1> QED BY <1>2, <1>8, <1>9 DEF Next

\* No step of a handle, the tail repair included, removes or changes a complete
\* line of the file: only a host loss does.
THEOREM LinesStay == Spec => RecordsKept
<1>1. ASSUME GuardInv, Next, ~HostLoss
      PROVE  /\ CompleteLen(cache) <= Len(cache')
             /\ SubSeq(cache', 1, CompleteLen(cache)) = Complete(cache)
  <2> DEFINE n == CompleteLen(cache)
  <2>1. n \in 0..Len(cache) /\ Len(cache) \in Nat /\ cache \in Seq(Bytes)
    BY <1>1, CompleteLenProperties, LenProperties DEF GuardInv, TypeOK, ContentTypeOK
  <2>2. n <= Len(cache') /\ \A k \in 1..n : cache'[k] = cache[k]
    BY <1>1, StepKeepsContent DEF ContentKept, CompleteKept
  <2> HIDE DEF n
  <2>3. n \in Nat /\ \A k \in 1..n : cache[k] \in Bytes
    BY <2>1, ElementOfSeq
  <2>4. SubSeq(cache', 1, n) = SubSeq(cache, 1, n)
    BY <2>2, <2>3, SegmentsEqual
  <2> QED BY <2>2, <2>4 DEF Complete, n
<1>2. GuardInv /\ [Next]_vars =>
        [HostLoss \/ /\ CompleteLen(cache) <= Len(cache')
                     /\ SubSeq(cache', 1, CompleteLen(cache)) = Complete(cache)]_vars
  BY <1>1
<1> QED BY <1>2, GuardInvariant, PTL DEF Spec, RecordsKept

-----------------------------------------------------------------------------
(* The directory entries *)

\* Where a handle is after the calls that make or sync an entry.
PastSyncEventsDir == {"dirSynced", "truncated", "ready", "writing", "syncing"}
PastOpenEventsFile == PastSyncEventsDir \cup {"eventsOpened"}
PastSyncRootDir == PastOpenEventsFile \cup {"rootSynced"}
PastMakeEventsDir == PastSyncRootDir \cup {"dirMade"}

\* Every open syncs both directories, whoever created the entries: a handle
\* past a sync in host-loss mode has its entry on the disk.
EntryInv ==
  \A p \in Writers :
    /\ pc[p] \in PastMakeEventsDir => eventsDir # "absent"
    /\ pc[p] \in PastOpenEventsFile =>
         eventsFile # "absent" /\ VerifyState(syncer[p], site.events)
    /\ syncer[p].mode = HostLossMode =>
         /\ pc[p] \in PastSyncRootDir => eventsDir = "durable"
         /\ pc[p] \in PastSyncEventsDir => eventsFile = "durable"

\* An entry is not lost.
Stays(entry, next) ==
  /\ entry # "absent" => next # "absent"
  /\ entry = "durable" => next = "durable"

\* The syncer of an open handle syncs: its primitive is a barrier on every
\* path that passed VerifyFile.
LEMMA SyncerPersists ==
  ASSUME GuardInv, NEW p \in Writers, pc[p] # "closed", NEW device,
         VerifyFile(syncer[p], device), syncer[p].mode = HostLossMode
  PROVE  Persists(syncer[p], device)
BY ProbeAssumption
   DEF GuardInv, LockFileInv, CheckSyncerRoot, VerifyFile, Persists

\* What EntryInv needs of a step of handle p.
LEMMA EntryStep ==
  ASSUME GuardInv, EntryInv, NEW p \in Writers,
         Stays(eventsDir, eventsDir'), Stays(eventsFile, eventsFile'),
         UNCHANGED site,
         \A q \in Writers : q # p => pc'[q] = pc[q] /\ syncer'[q] = syncer[q],
         \/ pc'[p] \notin PastMakeEventsDir
         \/ /\ syncer'[p] = syncer[p]
            /\ pc'[p] \in PastMakeEventsDir => eventsDir' # "absent"
            /\ pc'[p] \in PastOpenEventsFile =>
                 eventsFile' # "absent" /\ VerifyState(syncer[p], site.events)
            /\ syncer[p].mode = HostLossMode =>
                 /\ pc'[p] \in PastSyncRootDir => eventsDir' = "durable"
                 /\ pc'[p] \in PastSyncEventsDir => eventsFile' = "durable"
  PROVE  EntryInv'
<1> SUFFICES ASSUME NEW q \in Writers
             PROVE /\ pc'[q] \in PastMakeEventsDir => eventsDir' # "absent"
                   /\ pc'[q] \in PastOpenEventsFile =>
                        eventsFile' # "absent" /\ VerifyState(syncer'[q], site'.events)
                   /\ syncer'[q].mode = HostLossMode =>
                        /\ pc'[q] \in PastSyncRootDir => eventsDir' = "durable"
                        /\ pc'[q] \in PastSyncEventsDir => eventsFile' = "durable"
  BY DEF EntryInv, VerifyState, VerifyFile, SyncerVerified
<1>1. CASE q # p
  BY <1>1 DEF EntryInv, Stays
<1>2. CASE q = p
  BY <1>2 DEF PastMakeEventsDir, PastSyncRootDir, PastOpenEventsFile,
              PastSyncEventsDir
<1> QED BY <1>1, <1>2

\* A handle that goes nowhere new.
LEMMA EntryQuiet ==
  ASSUME GuardInv, EntryInv, NEW p \in Writers,
         UNCHANGED <<entryVars, site>>,
         \/ UNCHANGED <<pc, syncer>>
         \/ Release(p)
         \/ \E s, label : /\ label \notin PastMakeEventsDir
                          /\ Goto(p, label)
                          /\ syncer' = [syncer EXCEPT ![p] = s]
         \/ \E label : /\ pc[p] \in PastSyncEventsDir
                       /\ Goto(p, label)
                       /\ UNCHANGED syncer
  PROVE  EntryInv'
<1>1. /\ pc \in [Writers -> Pcs] /\ DOMAIN syncer = Writers
  BY DEF GuardInv, TypeOK, HandleTypeOK
<1>2. /\ Stays(eventsDir, eventsDir') /\ Stays(eventsFile, eventsFile')
      /\ UNCHANGED <<eventsDir, eventsFile, site>>
  BY DEF entryVars, Stays
<1>3. CASE UNCHANGED <<pc, syncer>>
  BY <1>2, <1>3 DEF EntryInv, VerifyState, VerifyFile, SyncerVerified
<1>4. CASE Release(p)
  <2>1. /\ pc'[p] \notin PastMakeEventsDir
        /\ \A q \in Writers : q # p => pc'[q] = pc[q] /\ syncer'[q] = syncer[q]
    BY <1>1, <1>4
       DEF Release, PastMakeEventsDir, PastSyncRootDir, PastOpenEventsFile,
           PastSyncEventsDir
  <2> QED BY <1>2, <2>1, EntryStep
<1>5. ASSUME NEW s, NEW label, label \notin PastMakeEventsDir, Goto(p, label),
             syncer' = [syncer EXCEPT ![p] = s]
      PROVE  EntryInv'
  <2>1. /\ pc'[p] \notin PastMakeEventsDir
        /\ \A q \in Writers : q # p => pc'[q] = pc[q] /\ syncer'[q] = syncer[q]
    BY <1>1, <1>5 DEF Goto
  <2> QED BY <1>2, <2>1, EntryStep
<1>6. ASSUME NEW label, pc[p] \in PastSyncEventsDir, Goto(p, label),
             UNCHANGED syncer
      PROVE  EntryInv'
  <2>1. \A q \in Writers : q # p => pc'[q] = pc[q] /\ syncer'[q] = syncer[q]
    BY <1>1, <1>6 DEF Goto
  <2>2. /\ syncer'[p] = syncer[p] /\ eventsDir' # "absent"
        /\ eventsFile' # "absent" /\ VerifyState(syncer[p], site.events)
        /\ syncer[p].mode = HostLossMode =>
             eventsDir' = "durable" /\ eventsFile' = "durable"
    BY <1>2, <1>6
       DEF EntryInv, PastMakeEventsDir, PastSyncRootDir, PastOpenEventsFile
  <2> QED BY <1>2, <2>1, <2>2, EntryStep
<1> QED BY <1>3, <1>4, <1>5, <1>6

LEMMA EntryNext ==
  ASSUME GuardInv, EntryInv, [Next]_vars
  PROVE  EntryInv' /\ (~HostLoss => Stays(eventsDir, eventsDir')
                                    /\ Stays(eventsFile, eventsFile'))
<1> DEFINE Goal == /\ EntryInv'
                   /\ Stays(eventsDir, eventsDir') /\ Stays(eventsFile, eventsFile')
<1> USE DEF PastMakeEventsDir, PastSyncRootDir, PastOpenEventsFile,
            PastSyncEventsDir
<1>1. /\ pc \in [Writers -> Pcs] /\ DOMAIN syncer = Writers
      /\ eventsDir \in Entries /\ eventsFile \in Entries
  BY DEF GuardInv, TypeOK, HandleTypeOK
<1>2. ASSUME UNCHANGED entryVars
      PROVE  Stays(eventsDir, eventsDir') /\ Stays(eventsFile, eventsFile')
  BY <1>2 DEF entryVars, Stays
<1>3. CASE UNCHANGED vars
  <2>1. UNCHANGED <<entryVars, site, pc, syncer>>
    BY <1>3 DEF vars, fileVars
  <2> QED BY <1>2, <2>1 DEF EntryInv, entryVars, VerifyState, VerifyFile, SyncerVerified
<1>4. ASSUME NEW p \in Writers, NEW s \in Syncers, OpenLockFile(p, s) PROVE Goal
  <2>1. /\ UNCHANGED <<entryVars, site>>
        /\ \/ UNCHANGED <<pc, syncer>>
           \/ /\ Goto(p, "lockOpened")
              /\ syncer' = [syncer EXCEPT ![p] = s]
    BY <1>4 DEF OpenLockFile
  <2> QED BY <1>2, <2>1, EntryQuiet
<1>5. ASSUME NEW p \in Writers,
             \/ FlockRefused(p) \/ OpenRefused(p) \/ OpenFails(p)
             \/ SyncRepairFails(p) \/ Close(p) \/ Crash(p)
      PROVE  Goal
  <2>1. UNCHANGED <<entryVars, site>> /\ Release(p)
    BY <1>5 DEF FlockRefused, OpenRefused, OpenFails, SyncRepairFails, Close,
                Crash, fileVars
  <2> QED BY <1>2, <2>1, EntryQuiet
<1>6. ASSUME NEW p \in Writers, Flock(p) PROVE Goal
  <2>1. /\ UNCHANGED <<entryVars, site>> /\ Goto(p, "guarded")
        /\ syncer' = [syncer EXCEPT ![p] = syncer[p]]
    BY <1>1, <1>6 DEF Flock, fileVars, GuardInv, TypeOK, HandleTypeOK
  <2> QED BY <1>2, <2>1, EntryQuiet
<1>7. ASSUME NEW p \in Writers,
             \/ RepairTail(p) \/ SyncRepair(p) \/ WriteFails(p)
             \/ AppendSyncFails(p) \/ AppendAccepted(p)
             \/ \E n \in 1..Len(line[p]) : Write(p, n)
             \/ \E record \in Inputs : AppendRecord(p, record)
      PROVE  Goal
  <2>1. /\ UNCHANGED <<entryVars, site>> /\ pc[p] \in PastSyncEventsDir
        /\ \E label : Goto(p, label)
        /\ UNCHANGED syncer
    BY <1>7, Zenon
       DEF RepairTail, SyncRepair, WriteFails, AppendSyncFails, AppendAccepted,
           Write, AppendRecord, Return, fileVars
  <2> QED BY <1>2, <2>1, EntryQuiet
<1>8. ASSUME NEW i \in dirty, KernelWriteback(i) PROVE Goal
  <2>1. UNCHANGED <<entryVars, site, pc, syncer>>
    BY <1>8 DEF KernelWriteback
  <2> QED BY <1>2, <2>1 DEF EntryInv, entryVars, VerifyState, VerifyFile, SyncerVerified
<1>9. ASSUME NEW p \in Writers, MakeEventsDir(p) PROVE Goal
  <2>1. /\ pc' = [pc EXCEPT ![p] = "dirMade"]
        /\ eventsDir' = IF eventsDir = "absent" THEN "cached" ELSE eventsDir
        /\ UNCHANGED <<eventsFile, site, syncer>>
    BY <1>9 DEF MakeEventsDir, Goto
  <2>2. /\ Stays(eventsDir, eventsDir') /\ Stays(eventsFile, eventsFile')
        /\ eventsDir' # "absent"
    BY <2>1 DEF Stays
  <2>3. /\ pc'[p] = "dirMade"
        /\ \A q \in Writers : q # p => pc'[q] = pc[q]
    BY <1>1, <2>1
  <2> QED BY <2>1, <2>2, <2>3, EntryStep
<1>10. ASSUME NEW p \in Writers, SyncRootDir(p) PROVE Goal
  <2>1. /\ pc[p] = "dirMade" /\ pc' = [pc EXCEPT ![p] = "rootSynced"]
        /\ VerifyFile(syncer[p], site.root)
        /\ eventsDir' = Committed(syncer[p], site.root, eventsDir)
        /\ UNCHANGED <<eventsFile, site, syncer>>
    BY <1>10 DEF SyncRootDir, Goto
  <2>2. eventsDir # "absent"
    BY <2>1 DEF EntryInv
  <2>3. /\ Stays(eventsDir, eventsDir') /\ Stays(eventsFile, eventsFile')
        /\ eventsDir' # "absent"
    BY <2>1, <2>2 DEF Stays, Committed
  <2>4. syncer[p].mode = HostLossMode => eventsDir' = "durable"
    BY <1>1, <2>1, <2>2, SyncerPersists DEF Committed, Entries
  <2>5. /\ pc'[p] = "rootSynced"
        /\ \A q \in Writers : q # p => pc'[q] = pc[q]
    BY <1>1, <2>1
  <2> QED BY <2>1, <2>3, <2>4, <2>5, EntryStep
<1>11. ASSUME NEW p \in Writers, OpenEventsFile(p) PROVE Goal
  <2>1. /\ pc[p] = "rootSynced"
        /\ eventsFile' = IF eventsFile = "absent" THEN "cached" ELSE eventsFile
        /\ UNCHANGED <<eventsDir, site>>
    BY <1>11 DEF OpenEventsFile
  <2>2. /\ Stays(eventsDir, eventsDir') /\ Stays(eventsFile, eventsFile')
        /\ eventsFile' # "absent"
    BY <2>1 DEF Stays
  <2>3. CASE VerifyState(syncer[p], site.events)
    <3>1. pc' = [pc EXCEPT ![p] = "eventsOpened"] /\ UNCHANGED syncer
      BY <1>11, <2>3 DEF OpenEventsFile, Goto
    <3>2. /\ pc'[p] = "eventsOpened"
          /\ \A q \in Writers : q # p => pc'[q] = pc[q]
      BY <1>1, <3>1
    <3>3. /\ eventsDir # "absent"
          /\ syncer[p].mode = HostLossMode => eventsDir = "durable"
      BY <2>1 DEF EntryInv
    <3> QED BY <2>1, <2>2, <2>3, <3>1, <3>2, <3>3, EntryStep
  <2>4. CASE ~VerifyState(syncer[p], site.events)
    <3>1. /\ pc'[p] = "closed"
          /\ \A q \in Writers : q # p => pc'[q] = pc[q] /\ syncer'[q] = syncer[q]
      BY <1>1, <1>11, <2>4 DEF OpenEventsFile, Release
    <3> QED BY <2>1, <2>2, <3>1, EntryStep
  <2> QED BY <2>3, <2>4
<1>12. ASSUME NEW p \in Writers, SyncEventsDir(p) PROVE Goal
  <2>1. /\ pc[p] = "eventsOpened" /\ pc' = [pc EXCEPT ![p] = "dirSynced"]
        /\ VerifyFile(syncer[p], site.dir)
        /\ eventsFile' = Committed(syncer[p], site.dir, eventsFile)
        /\ UNCHANGED <<eventsDir, site, syncer>>
    BY <1>12 DEF SyncEventsDir, Goto
  <2>2. /\ eventsFile # "absent" /\ eventsDir # "absent"
        /\ VerifyState(syncer[p], site.events)
        /\ syncer[p].mode = HostLossMode => eventsDir = "durable"
    BY <2>1 DEF EntryInv
  <2>3. /\ Stays(eventsDir, eventsDir') /\ Stays(eventsFile, eventsFile')
        /\ eventsFile' # "absent"
    BY <2>1, <2>2 DEF Stays, Committed
  <2>4. syncer[p].mode = HostLossMode => eventsFile' = "durable"
    BY <1>1, <2>1, <2>2, SyncerPersists DEF Committed, Entries
  <2>5. /\ pc'[p] = "dirSynced"
        /\ \A q \in Writers : q # p => pc'[q] = pc[q]
    BY <1>1, <2>1
  <2> QED BY <2>1, <2>2, <2>3, <2>4, <2>5, EntryStep
<1>13. CASE HostLoss
  <2>1. \A p \in Writers : pc'[p] = "closed"
    BY <1>13 DEF HostLoss
  <2> QED BY <1>13, <2>1 DEF EntryInv
<1> HIDE DEF Goal
<1>14. ASSUME NEW p \in Writers,
              \/ \E s \in Syncers : OpenLockFile(p, s)
              \/ OpenStep(p)
              \/ \E record \in Inputs : AppendRecord(p, record)
              \/ AppendStep(p)
              \/ CallFails(p)
              \/ Close(p)
              \/ Crash(p)
       PROVE  Goal
  BY <1>4, <1>5, <1>6, <1>7, <1>9, <1>10, <1>11, <1>12, <1>14
     DEF OpenStep, AppendStep, CallFails
<1>15. CASE Next /\ ~HostLoss
  <2>1. Goal
    BY <1>8, <1>14, <1>15 DEF Next
  <2> QED BY <2>1 DEF Goal
<1> QED BY <1>3, <1>13, <1>15

-----------------------------------------------------------------------------
(* Accepted records *)

\* The position of an accepted line's newline.
LastByte(a) == a.at + Len(a.line) - 1

\* An accepted line is a record's.
AckLine(a) ==
  /\ a.at \in Nat \ {0}
  /\ \E record \in Inputs : Framable(record) /\ a.line = Line(record)

\* The content c has the bytes of the accepted line where they were put.
AckBytes(a, c) ==
  /\ LastByte(a) <= Len(c)
  /\ \A k \in 1..Len(a.line) : c[a.at - 1 + k] = a.line[k]

\* The line begins at a record boundary of c.
AckStart(a, c) == a.at = 1 \/ c[a.at - 1] = NL

\* What holds of an accepted record even where a failed sync makes the kernel
\* forget pages.
AckInv ==
  \A a \in acked :
    /\ AckLine(a)
    /\ AckBytes(a, cache)
    /\ a.mode = HostLossMode =>
         /\ eventsDir = "durable" /\ eventsFile = "durable"
         /\ AckBytes(a, disk)

\* What holds besides where it does not: nothing in front of the end of a line
\* accepted in host-loss mode is dirty.
KeptInv ==
  /\ dropped = {}
  /\ \A a \in acked :
       /\ AckStart(a, cache)
       /\ a.mode = HostLossMode => \A k \in dirty : k > LastByte(a)

\* The shape of an accepted line.
LEMMA AckLineProperties ==
  ASSUME NEW a, AckLine(a)
  PROVE  /\ a.at \in Nat \ {0} /\ a.line \in Seq(Bytes)
         /\ Len(a.line) \in Nat /\ Len(a.line) > 1
         /\ a.line[Len(a.line)] = NL
         /\ \A k \in 1..(Len(a.line) - 1) : a.line[k] \notin lineBreaks
         /\ a.at - 1 \in Nat /\ a.at = (a.at - 1) + 1
         /\ LastByte(a) \in Nat \ {0} /\ a.at <= LastByte(a)
         /\ a.at - 1 + Len(a.line) = LastByte(a)
         /\ \A k \in 1..Len(a.line) : a.at - 1 + k \in 1..LastByte(a)
<1>1. PICK record \in Inputs : Framable(record) /\ a.line = Line(record)
  BY DEF AckLine
<1>2. /\ a.line \in Seq(Bytes)
      /\ Len(a.line) \in Nat /\ Len(a.line) > 1
      /\ a.line[Len(a.line)] = NL
      /\ \A k \in 1..(Len(a.line) - 1) : a.line[k] \notin lineBreaks
  BY <1>1, LineProperties
<1>3. a.at \in Nat \ {0}
  BY DEF AckLine
<1> DEFINE t == a.at
           l == Len(a.line)
<1>4. t \in Nat \ {0} /\ l \in Nat /\ l > 1 /\ LastByte(a) = t + l - 1
  BY <1>2, <1>3 DEF LastByte
<1> HIDE DEF t, l
<1>5. /\ t - 1 \in Nat /\ t = (t - 1) + 1
      /\ LastByte(a) \in Nat \ {0} /\ t <= LastByte(a) /\ t - 1 + l = LastByte(a)
      /\ \A k \in 1..l : t - 1 + k \in 1..LastByte(a)
  BY <1>4
<1> QED BY <1>2, <1>3, <1>5 DEF t, l

\* An accepted line is in front of what a repair truncates.
LEMMA AckComplete ==
  ASSUME ContentTypeOK, NEW a, AckLine(a), AckBytes(a, cache)
  PROVE  LastByte(a) \in 1..CompleteLen(cache)
<1> DEFINE n == CompleteLen(cache)
<1>1. /\ n \in 0..Len(cache) /\ Len(cache) \in Nat
      /\ \A i \in (n + 1)..Len(cache) : cache[i] # NL
  BY CompleteLenProperties, LenProperties DEF ContentTypeOK
<1>2. /\ LastByte(a) \in Nat \ {0} /\ Len(a.line) \in 1..Len(a.line)
      /\ a.at - 1 + Len(a.line) = LastByte(a) /\ a.line[Len(a.line)] = NL
  BY AckLineProperties
<1>3. LastByte(a) <= Len(cache) /\ cache[LastByte(a)] = NL
  BY <1>2 DEF AckBytes
<1> HIDE DEF n
<1>4. LastByte(a) \in 1..n
  BY <1>1, <1>2, <1>3
<1> QED BY <1>4 DEF n

\* Its bytes and its beginning stay in the file in any step without a host
\* loss, and on the disk.
LEMMA AckKept ==
  ASSUME ContentTypeOK, ContentTypeOK', ContentKept,
         NEW a, AckLine(a), AckBytes(a, cache)
  PROVE  /\ AckBytes(a, cache')
         /\ AckStart(a, cache) => AckStart(a, cache')
         /\ AckBytes(a, disk) => AckBytes(a, disk')
         /\ (\A k \in dirty : k > LastByte(a)) => \A k \in dirty' : k > LastByte(a)
<1> DEFINE n == CompleteLen(cache)
<1>1. LastByte(a) \in 1..n
  BY AckComplete
<1>2. n \in 0..Len(cache) /\ Len(cache) \in Nat /\ dirty \subseteq Nat
  BY CompleteLenProperties, LenProperties DEF ContentTypeOK
<1>3. n <= Len(cache') /\ \A k \in 1..n : cache'[k] = cache[k]
  BY DEF ContentKept, CompleteKept
<1>4. /\ a.at \in Nat \ {0} /\ a.at <= LastByte(a) /\ LastByte(a) \in Nat \ {0}
      /\ Len(a.line) \in 1..Len(a.line) /\ a.at - 1 + Len(a.line) = LastByte(a)
      /\ \A k \in 1..Len(a.line) : a.at - 1 + k \in 1..LastByte(a)
  BY AckLineProperties
<1>5. (\A k \in dirty : k > LastByte(a)) => \A k \in dirty' : k > LastByte(a)
  BY <1>1, <1>2 DEF ContentKept, DirtyBehind, ContentTypeOK
<1> HIDE DEF n
<1>6. \A k \in 1..LastByte(a) : k \in 1..n /\ k \in Nat \ {0} /\ k <= Len(cache)
  BY <1>1, <1>2
<1>7. AckBytes(a, cache')
  <2>1. Len(cache') \in Nat
    BY LenProperties DEF ContentTypeOK
  <2>2. LastByte(a) <= Len(cache')
    BY <1>1, <1>2, <1>3, <2>1
  <2> QED BY <1>3, <1>4, <1>6, <2>2 DEF AckBytes
<1>8. AckStart(a, cache) => AckStart(a, cache')
  <2>1. a.at # 1 => a.at - 1 \in 1..n
    BY <1>1, <1>2, <1>4
  <2> QED BY <1>3, <2>1 DEF AckStart
<1>9. AckBytes(a, disk) => AckBytes(a, disk')
  <2> SUFFICES ASSUME AckBytes(a, disk) PROVE AckBytes(a, disk')
    OBVIOUS
  <2>1. ASSUME NEW k \in 1..Len(a.line)
        PROVE  /\ a.at - 1 + k <= Len(disk')
               /\ disk'[a.at - 1 + k] = a.line[k]
    <3> DEFINE j == a.at - 1 + k
    <3>1. j \in 1..LastByte(a)
      BY <1>4
    <3>2. cache[j] = a.line[k] /\ disk[j] = a.line[k] /\ LastByte(a) <= Len(disk)
      BY DEF AckBytes
    <3> HIDE DEF j
    <3>3. Len(disk) \in Nat
      BY LenProperties DEF ContentTypeOK
    <3>4. j \in Nat \ {0} /\ j <= Len(cache) /\ j <= Len(disk)
      BY <1>4, <1>6, <3>1, <3>2, <3>3
    <3>5. j <= Len(disk') /\ disk'[j] = disk[j]
      BY <3>2, <3>4 DEF ContentKept, DiskKept
    <3> QED BY <3>2, <3>5 DEF j
  <2>2. LastByte(a) <= Len(disk')
    BY <1>4, <2>1
  <2> QED BY <2>1, <2>2 DEF AckBytes
<1> QED BY <1>5, <1>7, <1>8, <1>9

\* What AppendAccepted adds to the accepted records.
NewAck(p) == [at |-> Len(cache) - Len(line[p]) + 1, line |-> line[p],
              mode |-> syncer[p].mode]

\* The record Append has just accepted.
LEMMA AckNew ==
  ASSUME GuardInv, LineInv, EntryInv, NEW p \in Writers, AppendAccepted(p),
         NEW a, a = NewAck(p)
  PROVE  /\ AckLine(a) /\ AckBytes(a, cache') /\ AckStart(a, cache')
         /\ a.mode = HostLossMode =>
              /\ eventsDir' = "durable" /\ eventsFile' = "durable"
              /\ AckBytes(a, disk')
              /\ dirty' = dropped
<1> DEFINE l == Len(line[p])
           b == Len(cache) - Len(line[p])
<1>1. /\ pc[p] = "syncing" /\ SyncFile(p) /\ UNCHANGED <<eventsDir, eventsFile>>
  BY DEF AppendAccepted, entryVars
<1>2. /\ l \in Nat /\ l > 1 /\ b \in Nat
      /\ b = 0 \/ cache[b] = NL
      /\ \A k \in 1..l : cache[b + k] = line[p][k]
      /\ \A k \in dropped : k <= b
  BY <1>1, LineWritten
<1>3. /\ cache \in Seq(Bytes) /\ disk \in Seq(Bytes)
      /\ Len(cache) \in Nat /\ dropped \subseteq Nat
  BY LenProperties DEF GuardInv, TypeOK, ContentTypeOK
<1>4. \E record \in Inputs : Framable(record) /\ line[p] = Line(record)
  BY <1>1 DEF LineInv
<1>5. a.at = b + 1 /\ a.line = line[p] /\ a.mode = syncer[p].mode /\ Len(a.line) = l
  BY DEF NewAck
<1>6. cache' = cache
  BY <1>1 DEF SyncFile, contentVars
<1>7. b + l = Len(cache)
  BY <1>2, <1>3
<1> HIDE DEF l, b
<1>8. /\ LastByte(a) = Len(cache) /\ a.at - 1 = b /\ a.at \in Nat \ {0}
      /\ a.at = 1 => b = 0
      /\ b = 0 => a.at = 1
  <2>1. LastByte(a) = (b + 1) + l - 1
    BY <1>5 DEF LastByte
  <2>2. LastByte(a) = Len(cache)
    BY <1>2, <1>7, <2>1
  <2> QED BY <1>2, <1>5, <2>2
<1>9. AckLine(a)
  BY <1>4, <1>5, <1>8 DEF AckLine
<1>10. AckBytes(a, cache') /\ AckStart(a, cache')
  <2>1. AckBytes(a, cache')
    BY <1>2, <1>3, <1>5, <1>6, <1>8 DEF AckBytes
  <2>2. AckStart(a, cache')
    BY <1>2, <1>6, <1>8 DEF AckStart
  <2> QED BY <2>1, <2>2
<1>11. ASSUME a.mode = HostLossMode
       PROVE  /\ eventsDir' = "durable" /\ eventsFile' = "durable"
              /\ AckBytes(a, disk')
              /\ dirty' = dropped
  <2>1. /\ eventsDir = "durable" /\ eventsFile = "durable"
        /\ VerifyFile(syncer[p], site.events.device)
    BY <1>1, <1>5, <1>11
       DEF EntryInv, PastSyncRootDir, PastOpenEventsFile, PastSyncEventsDir,
           VerifyState
  <2>2. Persists(syncer[p], site.events.device)
    BY <1>1, <1>5, <1>11, <2>1, SyncerPersists
  <2> DEFINE flushed == (1..Len(cache)) \ dropped
  <2>3. disk' = Flush(disk, cache, flushed) /\ dirty' = dropped
    BY <1>1, <2>2 DEF SyncFile
  <2>4. /\ Len(disk') = Len(cache)
        /\ \A k \in 1..Len(cache) :
             disk'[k] = IF k \in flushed THEN cache[k] ELSE Stored(disk, k)
    BY <1>3, <2>3, FlushProperties, ByteAssumption
  <2>5. ASSUME NEW k \in 1..l PROVE disk'[b + k] = line[p][k]
    <3>1. b + k \in 1..Len(cache)
      BY <1>2, <1>3, <1>7
    <3>2. b + k \notin dropped
      BY <1>2, <1>3
    <3> QED BY <1>2, <2>4, <3>1, <3>2
  <2>6. AckBytes(a, disk')
    BY <1>3, <1>5, <1>8, <2>4, <2>5 DEF AckBytes
  <2> QED BY <1>1, <2>1, <2>3, <2>6
<1> QED BY <1>9, <1>10, <1>11

\* How the set of accepted records changes.
LEMMA AckedNext ==
  ASSUME [Next]_vars, ~HostLoss
  PROVE  \/ acked' = acked
         \/ \E p \in Writers :
              /\ AppendAccepted(p)
              /\ acked' = acked \cup {NewAck(p)}
<1>1. ASSUME NEW p \in Writers,
             QuietStep(p) \/ \E record \in Inputs : AppendRecord(p, record)
      PROVE  acked' = acked
  BY <1>1 DEF QuietStep, OpenLockFile, Flock, FlockRefused, MakeEventsDir,
              SyncRootDir, OpenEventsFile, SyncEventsDir, OpenRefused, OpenFails,
              WriteFails, Close, Crash, AppendRecord
<1>2. ASSUME NEW p \in Writers,
             \/ RepairTail(p) \/ SyncRepair(p)
             \/ SyncRepairFails(p) \/ AppendSyncFails(p)
             \/ \E n \in 1..Len(line[p]) : Write(p, n)
      PROVE  acked' = acked
  BY <1>2 DEF RepairTail, SyncRepair, SyncRepairFails, AppendSyncFails, Write
<1>3. ASSUME NEW i \in dirty, KernelWriteback(i) PROVE acked' = acked
  BY <1>3 DEF KernelWriteback
<1>4. ASSUME NEW p \in Writers, AppendAccepted(p)
      PROVE  acked' = acked \cup {NewAck(p)}
  BY <1>4 DEF AppendAccepted, NewAck
<1>5. CASE UNCHANGED vars
  BY <1>5 DEF vars
<1>6. CASE Next
  BY <1>1, <1>2, <1>3, <1>4, <1>6
     DEF Next, QuietStep, OpenStep, AppendStep, CallFails
<1> QED BY <1>5, <1>6

\* A host loss leaves a file whose entries are durable, and what was on the
\* disk is what is read back.
LEMMA HostLossDurable ==
  ASSUME HostLoss, eventsDir = "durable", eventsFile = "durable"
  PROVE  /\ eventsDir' = "durable" /\ eventsFile' = "durable"
         /\ disk' = disk /\ cache' = disk
<1>1. eventsDir' = "durable"
  BY DEF HostLoss, Remains
<1>2. eventsFile' = "durable"
  BY <1>1 DEF HostLoss, Remains
<1> QED BY <1>1, <1>2 DEF HostLoss

LEMMA AckNext ==
  ASSUME GuardInv, GuardInv', ContentInv, EntryInv, AckInv, [Next]_vars
  PROVE  AckInv'
<1>1. CASE HostLoss
  <2> SUFFICES ASSUME NEW a \in acked, a.mode = HostLossMode
               PROVE  /\ AckLine(a) /\ AckBytes(a, cache')
                      /\ eventsDir' = "durable" /\ eventsFile' = "durable"
                      /\ AckBytes(a, disk')
    BY <1>1 DEF HostLoss, AckInv
  <2>1. /\ AckLine(a) /\ AckBytes(a, disk)
        /\ eventsDir = "durable" /\ eventsFile = "durable"
    BY DEF AckInv
  <2> QED BY <1>1, <2>1, HostLossDurable
<1>2. CASE ~HostLoss
  <2>1. ContentKept /\ ContentTypeOK /\ ContentTypeOK'
    BY <1>2, StepKeepsContent DEF GuardInv, TypeOK
  <2>2. Stays(eventsDir, eventsDir') /\ Stays(eventsFile, eventsFile')
    BY <1>2, EntryNext
  <2> DEFINE Good(a) == /\ AckLine(a) /\ AckBytes(a, cache')
                        /\ a.mode = HostLossMode =>
                             /\ eventsDir' = "durable" /\ eventsFile' = "durable"
                             /\ AckBytes(a, disk')
  <2>3. ASSUME NEW a \in acked PROVE Good(a)
    BY <2>1, <2>2, AckKept DEF AckInv, Stays
  <2>4. ASSUME NEW p \in Writers, AppendAccepted(p)
        PROVE  Good(NewAck(p))
    BY <2>4, AckNew DEF ContentInv
  <2> HIDE DEF Good
  <2>5. \A a \in acked' : Good(a)
    BY <1>2, <2>3, <2>4, AckedNext
  <2> QED BY <2>5 DEF AckInv, Good
<1> QED BY <1>1, <1>2

LEMMA KeptNext ==
  ASSUME KeepsDirty, GuardInv, GuardInv', ContentInv, EntryInv, AckInv, KeptInv,
         [Next]_vars
  PROVE  KeptInv'
<1>1. CASE HostLoss
  <2>1. dropped' = {} /\ dirty' = {}
    BY <1>1 DEF HostLoss
  <2>2. ASSUME NEW a \in acked, a.mode = HostLossMode PROVE AckStart(a, cache')
    <3>1. /\ AckLine(a) /\ AckBytes(a, disk)
          /\ eventsDir = "durable" /\ eventsFile = "durable"
      BY <2>2 DEF AckInv
    <3>2. cache' = disk
      BY <1>1, <3>1, HostLossDurable
    <3>3. AckStart(a, cache) /\ \A k \in dirty : k > LastByte(a)
      BY <2>2 DEF KeptInv
    <3>4. /\ a.at \in Nat \ {0} /\ a.at <= LastByte(a) /\ LastByte(a) \in Nat
          /\ LastByte(a) <= Len(disk) /\ Len(disk) \in Nat
      BY <3>1, AckLineProperties, LenProperties
         DEF AckBytes, GuardInv, TypeOK, ContentTypeOK
    <3>5. CASE a.at = 1
      BY <3>5 DEF AckStart
    <3>6. CASE a.at # 1
      <4>1. a.at - 1 \in Nat \ {0} /\ ~(a.at - 1 > LastByte(a)) /\ a.at - 1 <= Len(disk)
        BY <3>4, <3>6
      <4>2. cache[a.at - 1] = disk[a.at - 1]
        BY <3>3, <4>1 DEF ContentInv, CopiesInv, CopiesAgree
      <4> QED BY <3>2, <3>3, <3>6, <4>2 DEF AckStart
    <3> QED BY <3>5, <3>6
  <2>3. acked' = {a \in acked : a.mode = HostLossMode}
    BY <1>1 DEF HostLoss
  <2> QED BY <2>1, <2>2, <2>3 DEF KeptInv
<1>2. CASE ~HostLoss
  <2>1. ContentKept /\ ContentTypeOK /\ ContentTypeOK'
    BY <1>2, StepKeepsContent DEF GuardInv, TypeOK
  <2>2. dropped' = {}
    BY <2>1 DEF ContentKept, DroppedKept, KeptInv
  <2> DEFINE Good(a) == /\ AckStart(a, cache')
                        /\ a.mode = HostLossMode => \A k \in dirty' : k > LastByte(a)
  <2>3. ASSUME NEW a \in acked PROVE Good(a)
    BY <2>1, AckKept DEF AckInv, KeptInv
  <2>4. ASSUME NEW p \in Writers, AppendAccepted(p)
        PROVE  Good(NewAck(p))
    BY <2>4, AckNew DEF ContentInv, KeptInv
  <2> HIDE DEF Good
  <2>5. \A a \in acked' : Good(a)
    BY <1>2, <2>3, <2>4, AckedNext
  <2> QED BY <2>2, <2>5 DEF KeptInv, Good
<1> QED BY <1>1, <1>2

-----------------------------------------------------------------------------
(* The theorems *)

\* Bytes at a boundary are a line of their own.
LEMMA BytesFramed ==
  ASSUME NEW c \in Seq(Bytes), NEW a, AckLine(a), AckBytes(a, c), AckStart(a, c)
  PROVE  FramedIn(a, c)
<1> DEFINE t == a.at
           l == Len(a.line)
           b == a.at - 1
           last == LastByte(a)
<1>1. /\ t \in Nat \ {0} /\ a.line \in Seq(Bytes)
      /\ l \in Nat /\ l > 1 /\ a.line[l] = NL
      /\ \A k \in 1..(l - 1) : a.line[k] \notin lineBreaks
      /\ b \in Nat /\ t = b + 1 /\ b + l = last /\ t <= last
  BY AckLineProperties
<1>2. Len(c) \in Nat /\ last <= Len(c) /\ \A k \in 1..l : c[b + k] = a.line[k]
  BY LenProperties DEF AckBytes
<1>3. t = 1 \/ c[t - 1] = NL
  BY DEF AckStart
<1>4. FramedIn(a, c) = (/\ 1 <= t /\ last <= Len(c)
                        /\ SubSeq(c, t, last) = a.line
                        /\ IsLine(c, t, last))
  BY DEF FramedIn, LastByte
<1> HIDE DEF t, l, b, last
<1>5. SubSeq(c, t, last) = a.line
  <2> DEFINE u == SubSeq(c, b + 1, b + l)
  <2>1. u \in Seq(Bytes) /\ Len(u) = l /\ \A k \in 1..l : u[k] = c[b + k]
    BY <1>1, <1>2, ChunkProperties
  <2> HIDE DEF u
  <2>2. u = a.line
    BY <1>1, <1>2, <2>1, SeqEqual DEF l
  <2> QED BY <1>1, <2>2 DEF u
<1>6. IsLine(c, t, last)
  <2>1. l \in 1..l /\ c[last] = NL
    BY <1>1, <1>2
  <2>2. ASSUME NEW k \in t..(last - 1) PROVE c[k] \notin lineBreaks
    <3>1. k - b \in 1..(l - 1) /\ b + (k - b) = k /\ k - b \in 1..l
      BY <1>1
    <3> QED BY <1>1, <1>2, <3>1
  <2> QED BY <1>1, <1>3, <2>1, <2>2, ByteAssumption DEF IsLine
<1> QED BY <1>1, <1>2, <1>4, <1>5, <1>6

\* EntryInv and AckInv hold in every reachable state.
THEOREM AckInvariant == Spec => [](EntryInv /\ AckInv)
<1>1. Init => EntryInv /\ AckInv
  <2> SUFFICES ASSUME Init PROVE EntryInv /\ AckInv
    OBVIOUS
  <2>1. acked = {} /\ \A p \in Writers : pc[p] = "closed"
    BY DEF Init
  <2> QED BY <2>1 DEF EntryInv, AckInv, PastMakeEventsDir, PastSyncRootDir,
                      PastOpenEventsFile, PastSyncEventsDir
<1>2. GuardInv /\ GuardInv' /\ ContentInv /\ (EntryInv /\ AckInv) /\ [Next]_vars
        => (EntryInv /\ AckInv)'
  BY EntryNext, AckNext
<1> QED BY <1>1, <1>2, GuardInvariant, ContentInvariant, PTL DEF Spec

\* The bytes of every record accepted in host-loss mode are on the disk, even
\* where a failed sync makes the kernel forget pages.
THEOREM AckedBytesStay == Spec => []AckedBytesDurable
<1>1. GuardInv /\ AckInv => AckedBytesDurable
  <2> SUFFICES ASSUME GuardInv, AckInv, NEW a \in acked, a.mode = HostLossMode
               PROVE  /\ 1 <= a.at /\ a.at + Len(a.line) - 1 <= Len(disk)
                      /\ SubSeq(disk, a.at, a.at + Len(a.line) - 1) = a.line
    BY DEF AckedBytesDurable
  <2> DEFINE l == Len(a.line)
             b == a.at - 1
  <2>1. AckLine(a) /\ AckBytes(a, disk) /\ disk \in Seq(Bytes)
    BY DEF AckInv, GuardInv, TypeOK, ContentTypeOK
  <2>2. /\ a.at \in Nat \ {0} /\ a.line \in Seq(Bytes) /\ l \in Nat
        /\ b \in Nat /\ a.at = b + 1
        /\ b + l = LastByte(a) /\ LastByte(a) <= Len(disk)
        /\ \A k \in 1..l : disk[b + k] = a.line[k]
    BY <2>1, AckLineProperties DEF AckBytes
  <2>3. 1 <= a.at /\ a.at + Len(a.line) - 1 = b + l
    BY <2>2 DEF LastByte
  <2> HIDE DEF b, l
  <2> DEFINE u == SubSeq(disk, b + 1, b + l)
  <2>4. u \in Seq(Bytes) /\ Len(u) = l /\ \A k \in 1..l : u[k] = disk[b + k]
    BY <2>1, <2>2, <2>3, ChunkProperties
  <2> HIDE DEF u
  <2>5. u = a.line
    BY <2>2, <2>4, SeqEqual DEF l
  <2> QED BY <2>2, <2>3, <2>5 DEF u
<1> QED BY <1>1, GuardInvariant, AckInvariant, PTL

\* KeptInv, where a failed sync keeps pages dirty.
THEOREM KeptInvariant == ASSUME KeepsDirty PROVE Spec => []KeptInv
<1>1. Init => KeptInv
  BY DEF Init, KeptInv
<1>2. GuardInv /\ GuardInv' /\ ContentInv /\ EntryInv /\ AckInv /\ KeptInv
        /\ [Next]_vars => KeptInv'
  BY KeptNext
<1> QED BY <1>1, <1>2, GuardInvariant, ContentInvariant, AckInvariant, PTL
        DEF Spec

\* What Append reported accepted stays in the spool as a line of its own: over
\* process crashes in either mode, over a host loss in host-loss mode.
THEOREM AcceptedStays == ASSUME KeepsDirty PROVE Spec => []AckedSurvives
<1>1. GuardInv /\ AckInv /\ KeptInv => AckedSurvives
  BY BytesFramed
     DEF AckInv, KeptInv, AckedSurvives, GuardInv, TypeOK, ContentTypeOK
<1> QED BY <1>1, GuardInvariant, AckInvariant, KeptInvariant, PTL

\* In host-loss mode it is on the disk, entries included, when Append returns
\* and from then on.
THEOREM AcceptedDurable == ASSUME KeepsDirty PROVE Spec => []AckedDurable
<1>1. GuardInv /\ ContentInv /\ AckInv /\ KeptInv => AckedDurable
  <2> SUFFICES ASSUME GuardInv, ContentInv, AckInv, KeptInv,
                      NEW a \in acked, a.mode = HostLossMode
               PROVE  /\ FramedIn(a, disk)
                      /\ eventsDir = "durable" /\ eventsFile = "durable"
    BY DEF AckedDurable
  <2>1. /\ AckLine(a) /\ AckBytes(a, disk)
        /\ eventsDir = "durable" /\ eventsFile = "durable"
        /\ AckStart(a, cache) /\ \A k \in dirty : k > LastByte(a)
    BY DEF AckInv, KeptInv
  <2>2. disk \in Seq(Bytes) /\ Len(disk) \in Nat
    BY LenProperties DEF GuardInv, TypeOK, ContentTypeOK
  <2>3. /\ a.at \in Nat \ {0} /\ a.at <= LastByte(a) /\ LastByte(a) \in Nat
        /\ LastByte(a) <= Len(disk)
    BY <2>1, AckLineProperties DEF AckBytes
  <2>4. CASE a.at = 1
    BY <2>1, <2>2, <2>4, BytesFramed DEF AckStart
  <2>5. CASE a.at # 1
    <3>1. a.at - 1 \in Nat \ {0} /\ ~(a.at - 1 > LastByte(a)) /\ a.at - 1 <= Len(disk)
      BY <2>2, <2>3, <2>5
    <3>2. cache[a.at - 1] = disk[a.at - 1]
      BY <2>1, <3>1 DEF ContentInv, CopiesInv, CopiesAgree
    <3>3. AckStart(a, disk)
      BY <2>1, <2>5, <3>2 DEF AckStart
    <3> QED BY <2>1, <2>2, <3>3, BytesFramed
  <2> QED BY <2>4, <2>5
<1> QED BY <1>1, GuardInvariant, ContentInvariant, AckInvariant, KeptInvariant, PTL

-----------------------------------------------------------------------------
(* SpoolWriter implements PromisedLog: complete lines *)

\* The complete lines of a file are at a record boundary.
LEMMA CompleteBoundary ==
  ASSUME NEW c \in Seq(Bytes)
  PROVE  /\ Complete(c) \in Seq(Bytes) /\ Len(Complete(c)) = CompleteLen(c)
         /\ \A k \in 1..CompleteLen(c) : Complete(c)[k] = c[k]
         /\ AtBoundary(Complete(c))
<1> DEFINE n == CompleteLen(c)
           u == SubSeq(c, 1, n)
<1>1. n \in 0..Len(c) /\ (n = 0 \/ c[n] = NL) /\ Len(c) \in Nat
  BY CompleteLenProperties, LenProperties
<1>2. Complete(c) = u
  BY DEF Complete
<1> HIDE DEF n
<1>3. u \in Seq(Bytes) /\ Len(u) = n /\ \A k \in 1..n : u[k] = c[k]
  BY <1>1, PrefixProperties
<1> HIDE DEF u
<1>4. n = 0 => u = <<>>
  BY <1>3, EmptySeq
<1>5. n # 0 => n \in 1..n
  BY <1>1
<1>6. AtBoundary(u)
  BY <1>1, <1>3, <1>4, <1>5 DEF AtBoundary
<1> QED BY <1>2, <1>3, <1>6 DEF n

\* Content without a newline behind the complete lines adds none to them.
LEMMA CompleteSame ==
  ASSUME NEW c \in Seq(Bytes), NEW d \in Seq(Bytes),
         CompleteLen(c) <= Len(d),
         \A k \in 1..CompleteLen(c) : d[k] = c[k],
         \A k \in (CompleteLen(c) + 1)..Len(d) : d[k] # NL
  PROVE  Complete(d) = Complete(c)
<1> DEFINE n == CompleteLen(c)
<1>1. n \in 0..Len(c) /\ (n = 0 \/ c[n] = NL) /\ Len(c) \in Nat /\ Len(d) \in Nat
  BY CompleteLenProperties, LenProperties
<1>2. n <= Len(d) /\ (\A k \in 1..n : d[k] = c[k])
      /\ \A k \in (n + 1)..Len(d) : d[k] # NL
  OBVIOUS
<1> HIDE DEF n
<1>3. n \in 0..Len(d) /\ (n = 0 \/ d[n] = NL)
  BY <1>1, <1>2
<1>4. n = CompleteLen(d)
  BY <1>2, <1>3, CompleteLenUnique
<1>5. n \in Nat /\ 1 \in Nat \ {0} /\ \A k \in 1..n : c[k] \in Bytes
  BY <1>1, ElementOfSeq
<1>6. SubSeq(d, 1, n) = SubSeq(c, 1, n)
  BY <1>2, <1>5, SegmentsEqual
<1> QED BY <1>4, <1>6 DEF Complete, n

\* An accepted line is one of the complete ones.
LEMMA FramedComplete ==
  ASSUME NEW c \in Seq(Bytes), NEW a, AckLine(a), AckBytes(a, c), AckStart(a, c)
  PROVE  FramedIn(a, Complete(c)) /\ LastByte(a) <= CompleteLen(c)
<1> DEFINE n == CompleteLen(c)
           u == Complete(c)
<1>1. /\ n \in 0..Len(c) /\ Len(c) \in Nat
      /\ \A i \in (n + 1)..Len(c) : c[i] # NL
  BY CompleteLenProperties, LenProperties
<1>2. u \in Seq(Bytes) /\ Len(u) = n /\ \A k \in 1..n : u[k] = c[k]
  BY CompleteBoundary
<1>3. /\ a.at \in Nat \ {0} /\ a.at <= LastByte(a)
      /\ LastByte(a) \in Nat \ {0} /\ Len(a.line) \in 1..Len(a.line)
      /\ a.at - 1 + Len(a.line) = LastByte(a) /\ a.line[Len(a.line)] = NL
      /\ \A k \in 1..Len(a.line) : a.at - 1 + k \in 1..LastByte(a)
  BY AckLineProperties
<1>4. /\ LastByte(a) <= Len(c)
      /\ \A k \in 1..Len(a.line) : c[a.at - 1 + k] = a.line[k]
  BY DEF AckBytes
<1>5. c[LastByte(a)] = NL
  BY <1>3, <1>4
<1> HIDE DEF n, u
<1>6. LastByte(a) \in 1..n
  BY <1>1, <1>3, <1>4, <1>5
<1>7. \A k \in 1..LastByte(a) : u[k] = c[k]
  BY <1>1, <1>2, <1>6
<1>8. AckBytes(a, u)
  <2>1. LastByte(a) <= Len(u)
    BY <1>1, <1>2, <1>6
  <2>2. \A k \in 1..Len(a.line) : u[a.at - 1 + k] = a.line[k]
    BY <1>3, <1>4, <1>7
  <2> QED BY <2>1, <2>2 DEF AckBytes
<1>9. AckStart(a, u)
  <2>1. a.at # 1 => a.at - 1 \in 1..LastByte(a)
    BY <1>3
  <2> QED BY <1>7, <2>1 DEF AckStart
<1>10. FramedIn(a, u)
  BY <1>2, <1>8, <1>9, BytesFramed
<1> QED BY <1>1, <1>6, <1>10 DEF n, u

-----------------------------------------------------------------------------
(* The steps that change the file *)

\* The repair removes no complete line.
LEMMA RepairPromised ==
  ASSUME ContentTypeOK, NEW p, RepairTail(p)
  PROVE  Complete(cache') = Complete(cache)
<1>1. CASE AtBoundary(cache)
  BY <1>1 DEF RepairTail, contentVars
<1>2. CASE ~AtBoundary(cache)
  <2> DEFINE n == CompleteLen(cache)
  <2>1. cache' = SubSeq(cache, 1, n) /\ cache \in Seq(Bytes)
    BY <1>2 DEF RepairTail, RepairedLen, ContentTypeOK
  <2>2. n \in 0..Len(cache) /\ Len(cache) \in Nat
    BY <2>1, CompleteLenProperties, LenProperties
  <2> HIDE DEF n
  <2>3. /\ cache' \in Seq(Bytes) /\ Len(cache') = n
        /\ \A k \in 1..n : cache'[k] = cache[k]
    BY <2>1, <2>2, PrefixProperties
  <2>4. n <= Len(cache') /\ \A k \in (n + 1)..Len(cache') : cache'[k] # NL
    BY <2>2, <2>3
  <2> QED BY <2>1, <2>3, <2>4, CompleteSame DEF n
<1> QED BY <1>1, <1>2

\* A write call that leaves some of the line completes nothing.
LEMMA PartialWritePromised ==
  ASSUME TypeOK, TypeOK', LineInv, NEW p \in Writers, NEW n, Write(p, n),
         written[p] + n # Len(line[p])
  PROVE  Complete(cache') = Complete(cache)
<1> DEFINE w == written[p]
           l == Len(line[p])
           s == Len(cache)
           m == CompleteLen(cache)
<1>1. /\ cache \in Seq(Bytes) /\ cache' \in Seq(Bytes)
      /\ w \in Nat /\ s \in Nat /\ l \in Nat
  BY LenProperties DEF TypeOK, ContentTypeOK, HandleTypeOK
<1>2. /\ n \in Nat \ {0} /\ Len(cache') = s + n
      /\ \A i \in 1..s : cache'[i] = cache[i]
  BY WriteAppends
<1>3. /\ w + n <= l
      /\ \A k \in (s + 1)..Len(cache') :
           cache'[k] \in lineBreaks => w + (k - s) = l
  BY WriteBytes
<1>4. /\ m \in 0..s /\ \A k \in (m + 1)..s : cache[k] # NL
  BY <1>1, CompleteLenProperties
<1>5. w + n # l
  OBVIOUS
<1> HIDE DEF w, l, s, m
<1>6. ASSUME NEW k \in (m + 1)..Len(cache') PROVE cache'[k] # NL
  <2>1. CASE k <= s
    <3>1. k \in 1..s /\ k \in (m + 1)..s
      BY <1>1, <1>4, <2>1
    <3> QED BY <1>2, <1>4, <3>1
  <2>2. CASE k > s
    <3>1. k \in (s + 1)..Len(cache') /\ w + (k - s) # l
      BY <1>1, <1>2, <1>3, <1>4, <1>5, <2>2
    <3> QED BY <1>3, <3>1, ByteAssumption
  <2> QED BY <1>1, <1>2, <1>4, <2>1, <2>2
<1>7. m <= Len(cache') /\ \A k \in 1..m : cache'[k] = cache[k]
  BY <1>1, <1>2, <1>4
<1> QED BY <1>1, <1>6, <1>7, CompleteSame DEF m

\* The write call that takes the last of the line completes it, behind the
\* lines that were complete.
LEMMA LastWritePromised ==
  ASSUME TypeOK, TypeOK', LineInv, NEW p \in Writers, NEW n, Write(p, n),
         written[p] + n = Len(line[p])
  PROVE  Complete(cache') = Complete(cache) \o line[p]
<1> DEFINE w == written[p]
           l == Len(line[p])
           s == Len(cache)
           b == s - w
<1>1. /\ cache \in Seq(Bytes) /\ cache' \in Seq(Bytes) /\ line[p] \in Seq(Bytes)
      /\ w \in Nat /\ s \in Nat /\ l \in Nat
  BY LenProperties DEF TypeOK, ContentTypeOK, HandleTypeOK
<1>2. PICK record \in Inputs : Framable(record) /\ line[p] = Line(record)
  BY DEF LineInv, Write
<1>3. /\ l > 1 /\ line[p][l] = NL
      /\ \A k \in 1..(l - 1) : line[p][k] \notin lineBreaks
  BY <1>2, LineProperties
<1>4. /\ b \in Nat /\ (b = 0 \/ cache[b] = NL)
      /\ \A k \in 1..w : cache[b + k] = line[p][k]
  BY DEF LineInv, Write, Start
<1>5. /\ n \in Nat \ {0} /\ Len(cache') = s + n
      /\ \A i \in 1..s : cache'[i] = cache[i]
      /\ \A i \in 1..n : cache'[s + i] = line[p][w + i]
  BY WriteAppends
<1>6. w + n = l /\ b + w = s
  BY <1>1
<1> HIDE DEF w, l, s, b
<1>7. Len(cache') = b + l /\ w < l /\ n \in Nat
  BY <1>1, <1>4, <1>5, <1>6
<1>8. ASSUME NEW k \in 1..l PROVE cache'[b + k] = line[p][k]
  <2>1. CASE k <= w
    <3>1. k \in 1..w /\ b + k \in 1..s
      BY <1>1, <1>4, <1>6, <2>1
    <3> QED BY <1>4, <1>5, <3>1
  <2>2. CASE k > w
    <3>1. k \in Int /\ b \in Int
      BY <1>1, <1>4
    <3>2. k - w \in 1..n /\ s + (k - w) = b + k /\ w + (k - w) = k
      BY <1>1, <1>6, <1>7, <2>2, <3>1
    <3> QED BY <1>5, <3>2
  <2> QED BY <1>1, <2>1, <2>2
<1>9. b = CompleteLen(cache)
  <2>1. ASSUME NEW k \in (b + 1)..Len(cache) PROVE cache[k] # NL
    <3>1. k - b \in 1..w /\ b + (k - b) = k /\ k - b \in 1..(l - 1)
      BY <1>1, <1>4, <1>6, <1>7 DEF s
    <3> QED BY <1>3, <1>4, <3>1, ByteAssumption
  <2>2. b \in 0..Len(cache)
    BY <1>1, <1>4, <1>6 DEF s
  <2> QED BY <1>1, <1>4, <2>1, <2>2, CompleteLenUnique
<1>10. b + l = CompleteLen(cache')
  <2>1. b + l \in 0..Len(cache') /\ l \in 1..l
    BY <1>1, <1>3, <1>4, <1>7
  <2>2. cache'[b + l] = NL
    BY <1>3, <1>8, <2>1
  <2>3. \A k \in (b + l + 1)..Len(cache') : cache'[k] # NL
    BY <1>1, <1>4, <1>7
  <2> QED BY <1>1, <2>1, <2>2, <2>3, CompleteLenUnique
<1> DEFINE u == Complete(cache)
           v == Complete(cache')
<1>11. u \in Seq(Bytes) /\ Len(u) = b /\ \A k \in 1..b : u[k] = cache[k]
  BY <1>1, <1>9, CompleteBoundary
<1>12. v \in Seq(Bytes) /\ Len(v) = b + l /\ \A k \in 1..(b + l) : v[k] = cache'[k]
  BY <1>1, <1>10, CompleteBoundary
<1> HIDE DEF u, v
<1>13. /\ u \o line[p] \in Seq(Bytes)
       /\ Len(u \o line[p]) = b + l
       /\ \A k \in 1..(b + l) :
            (u \o line[p])[k] = IF k <= b THEN u[k] ELSE line[p][k - b]
  BY <1>1, <1>11, ConcatProperties DEF l
<1>14. ASSUME NEW k \in 1..(b + l) PROVE v[k] = (u \o line[p])[k]
  <2>1. CASE k <= b
    <3>1. k \in 1..b /\ k \in 1..s
      BY <1>1, <1>4, <1>6, <2>1
    <3> QED BY <1>5, <1>11, <1>12, <1>13, <2>1, <3>1
  <2>2. CASE ~(k <= b)
    <3>1. k - b \in 1..l /\ b + (k - b) = k
      BY <1>1, <1>4, <2>2
    <3>2. cache'[k] = line[p][k - b]
      BY <1>8, <3>1
    <3> QED BY <1>12, <1>13, <2>2, <3>2
  <2> QED BY <2>1, <2>2
<1>15. v = u \o line[p]
  BY <1>12, <1>13, <1>14, SeqEqual
<1> QED BY <1>15 DEF u, v

-----------------------------------------------------------------------------
(* The refinement *)

\* What a step of the spool is in the promised log: a stuttering step, a line
\* that becomes complete, the acceptance of the last line, a host loss.
Keeps == /\ Complete(cache') = Complete(cache)
         /\ acked' = acked /\ losses' = losses
Adds == \E record \in Inputs :
          /\ Framable(record)
          /\ Complete(cache') = Complete(cache) \o Line(record)
          /\ acked' = acked /\ losses' = losses
Accepts == \E p \in Writers :
             /\ FramedIn(NewAck(p), Complete(cache))
             /\ LastByte(NewAck(p)) = Len(Complete(cache))
             /\ \E record \in Inputs : line[p] = Line(record)
             /\ NewAck(p).at \in 1..Len(Complete(cache))
             /\ syncer[p].mode \in Modes
             /\ acked' = acked \cup {NewAck(p)}
             /\ Complete(cache') = Complete(cache)
             /\ losses' = losses
Loses == /\ losses' = losses + 1
         /\ acked' = {a \in acked : a.mode = HostLossMode}
         /\ Complete(cache') \in Seq(Bytes) /\ AtBoundary(Complete(cache'))
         /\ \A a \in acked' : FramedIn(a, Complete(cache'))

\* A write call either way.
LEMMA WritePromised ==
  ASSUME TypeOK, TypeOK', LineInv, NEW p \in Writers, NEW n, Write(p, n)
  PROVE  Keeps \/ Adds
<1>1. acked' = acked /\ losses' = losses
  BY DEF Write
<1>2. PICK record \in Inputs : Framable(record) /\ line[p] = Line(record)
  BY DEF LineInv, Write
<1>3. CASE written[p] + n = Len(line[p])
  BY <1>1, <1>2, <1>3, LastWritePromised DEF Adds
<1>4. CASE written[p] + n # Len(line[p])
  BY <1>1, <1>4, PartialWritePromised DEF Keeps
<1> QED BY <1>3, <1>4

\* Append accepts the last line of the log.
LEMMA AcceptPromised ==
  ASSUME GuardInv, GuardInv', LineInv, EntryInv, NEW p \in Writers,
         AppendAccepted(p)
  PROVE  Accepts
<1> DEFINE a == NewAck(p)
<1>1. cache' = cache /\ acked' = acked \cup {a} /\ losses' = losses
  BY DEF AppendAccepted, SyncFile, contentVars, NewAck
<1>2. AckLine(a) /\ AckBytes(a, cache) /\ AckStart(a, cache)
  BY <1>1, AckNew
<1>3. cache \in Seq(Bytes) /\ Len(cache) \in Nat /\ acked' \subseteq AckType
  BY LenProperties DEF GuardInv, TypeOK, ContentTypeOK
<1>4. a.mode = syncer[p].mode /\ a.line = line[p]
      /\ a.at = Len(cache) - Len(line[p]) + 1
  BY DEF NewAck
<1>5. a.mode \in Modes
  BY <1>1, <1>3 DEF AckType
<1>6. \E record \in Inputs : line[p] = Line(record)
  BY <1>2, <1>4 DEF AckLine
<1>7. LastByte(a) = Len(cache)
  <2>1. Len(line[p]) \in Nat
    BY <1>2, <1>4, AckLineProperties
  <2> QED BY <1>3, <1>4, <2>1 DEF LastByte
<1>8. a.at \in Nat \ {0} /\ a.at <= LastByte(a)
  BY <1>2, AckLineProperties
<1> HIDE DEF a
<1>9. FramedIn(a, Complete(cache)) /\ LastByte(a) <= CompleteLen(cache)
  BY <1>2, <1>3, FramedComplete
<1>10. CompleteLen(cache) \in 0..Len(cache) /\ Len(Complete(cache)) = CompleteLen(cache)
  BY <1>3, CompleteLenProperties, CompleteBoundary
<1>11. LastByte(a) = Len(Complete(cache)) /\ a.at \in 1..Len(Complete(cache))
  BY <1>3, <1>7, <1>8, <1>9, <1>10
<1> QED BY <1>1, <1>4, <1>5, <1>6, <1>9, <1>11 DEF Accepts, a

\* A host loss leaves the lines accepted in host-loss mode.
LEMMA LossPromised ==
  ASSUME GuardInv', AckInv', KeptInv', HostLoss
  PROVE  Loses
<1>1. cache' \in Seq(Bytes)
  BY DEF GuardInv, TypeOK, ContentTypeOK
<1>2. ASSUME NEW a \in acked' PROVE FramedIn(a, Complete(cache'))
  BY <1>1, <1>2, FramedComplete DEF AckInv, KeptInv
<1>3. acked' = {a \in acked : a.mode = HostLossMode} /\ losses' = losses + 1
  BY DEF HostLoss
<1> QED BY <1>1, <1>2, <1>3, CompleteBoundary DEF Loses

\* Whatever a handle, the kernel or the host does.
LEMMA StepPromised ==
  ASSUME GuardInv, GuardInv', ContentInv, EntryInv, AckInv', KeptInv', [Next]_vars
  PROVE  Keeps \/ Adds \/ Accepts \/ Loses
<1>1. TypeOK /\ TypeOK' /\ ContentTypeOK /\ LineInv
  BY DEF GuardInv, TypeOK, ContentInv
<1>2. ASSUME NEW p \in Writers,
             QuietStep(p) \/ \E record \in Inputs : AppendRecord(p, record)
      PROVE  Keeps
  BY <1>2 DEF QuietStep, OpenLockFile, Flock, FlockRefused, MakeEventsDir,
              SyncRootDir, OpenEventsFile, SyncEventsDir, OpenRefused, OpenFails,
              WriteFails, Close, Crash, AppendRecord, fileVars, contentVars, Keeps
<1>3. ASSUME NEW p \in Writers, SyncRepair(p) PROVE Keeps
  BY <1>3 DEF SyncRepair, SyncFile, contentVars, Keeps
<1>4. ASSUME NEW p \in Writers, SyncRepairFails(p) \/ AppendSyncFails(p)
      PROVE  Keeps
  BY <1>4 DEF SyncRepairFails, AppendSyncFails, SyncFileFails, Keeps
<1>5. ASSUME NEW i \in dirty, KernelWriteback(i) PROVE Keeps
  BY <1>5 DEF KernelWriteback, Keeps
<1>6. ASSUME NEW p \in Writers, RepairTail(p) PROVE Keeps
  BY <1>1, <1>6, RepairPromised DEF RepairTail, Keeps
<1>7. ASSUME NEW p \in Writers, NEW n, Write(p, n) PROVE Keeps \/ Adds
  BY <1>1, <1>7, WritePromised
<1>8. ASSUME NEW p \in Writers, AppendAccepted(p) PROVE Accepts
  BY <1>1, <1>8, AcceptPromised
<1>9. CASE HostLoss
  BY <1>9, LossPromised
<1>10. CASE UNCHANGED vars
  BY <1>10 DEF vars, fileVars, contentVars, Keeps
<1>11. CASE Next /\ ~HostLoss
  BY <1>2, <1>3, <1>4, <1>5, <1>6, <1>7, <1>8, <1>11
     DEF Next, QuietStep, OpenStep, AppendStep, CallFails
<1> QED BY <1>9, <1>10, <1>11

\* Between two host losses readers of the spool see lines appear whole, one at
\* a time and at the end, and stay where they are; callers of Append see an
\* accepted line stay over everything its mode promises it survives.
THEOREM PromiseKept == ASSUME KeepsDirty PROVE Spec => KeepsPromise
<1>1. Init => Promised!Init
  <2> SUFFICES ASSUME Init PROVE Complete(cache) = <<>> /\ acked = {} /\ losses = 0
    BY DEF Promised!Init
  <2>1. cache = <<>> /\ cache \in Seq(Bytes) /\ acked = {} /\ losses = 0
    BY DEF Init
  <2>2. Len(cache) = 0
    BY <2>1
  <2>3. CompleteLen(cache) = 0
    <3>1. CompleteLen(cache) \in 0..Len(cache)
      BY <2>1, CompleteLenProperties
    <3> QED BY <2>2, <3>1
  <2>4. Complete(cache) \in Seq(Bytes) /\ Len(Complete(cache)) = 0
    BY <2>1, <2>3, CompleteBoundary
  <2> QED BY <2>1, <2>4, EmptySeq
<1>2. Keeps \/ Adds \/ Accepts \/ Loses => [Promised!Next]_(Promised!promiseVars)
  <2>1. CASE Keeps
    BY <2>1 DEF Keeps, Promised!promiseVars
  <2>2. CASE Adds
    <3>1. PICK record \in Inputs : /\ Framable(record)
                                   /\ Complete(cache') = Complete(cache) \o Line(record)
                                   /\ acked' = acked /\ losses' = losses
      BY <2>2 DEF Adds
    <3>2. Promised!AddLine(record)
      BY <3>1 DEF Promised!AddLine, Promised!Framable, Promised!Line, Framable, Line
    <3> QED BY <3>2 DEF Promised!Next
  <2>3. CASE Accepts
    <3>1. PICK p \in Writers :
             /\ FramedIn(NewAck(p), Complete(cache))
             /\ LastByte(NewAck(p)) = Len(Complete(cache))
             /\ \E record \in Inputs : line[p] = Line(record)
             /\ NewAck(p).at \in 1..Len(Complete(cache))
             /\ syncer[p].mode \in Modes
             /\ acked' = acked \cup {NewAck(p)}
             /\ Complete(cache') = Complete(cache)
             /\ losses' = losses
      BY <2>3 DEF Accepts
    <3> DEFINE a == NewAck(p)
    <3>2. Promised!Accept(a)
      BY <3>1 DEF Promised!Accept, Promised!FramedIn, Promised!IsLine, FramedIn,
                  IsLine, LastByte
    <3>3. a \in [at : 1..Len(Complete(cache)),
                 line : {Promised!Line(r) : r \in Inputs}, mode : Promised!Modes]
      BY <3>1 DEF NewAck, Promised!Line, Line, Promised!Modes, Modes,
                  Promised!HostLossMode, Promised!ProcessCrashMode,
                  HostLossMode, ProcessCrashMode
    <3> HIDE DEF a
    <3> QED BY <3>2, <3>3 DEF Promised!Next
  <2>4. CASE Loses
    <3>1. Promised!LoseHost
      BY <2>4 DEF Loses, Promised!LoseHost, Promised!AtBoundary, AtBoundary,
                  Promised!FramedIn, FramedIn, Promised!IsLine, IsLine,
                  Promised!HostLossMode, HostLossMode
    <3> QED BY <3>1 DEF Promised!Next
  <2> QED BY <2>1, <2>2, <2>3, <2>4
<1>3. GuardInv /\ GuardInv' /\ ContentInv /\ EntryInv /\ AckInv' /\ KeptInv'
        /\ [Next]_vars => [Promised!Next]_(Promised!promiseVars)
  BY <1>2, StepPromised
<1> QED BY <1>1, <1>3, GuardInvariant, ContentInvariant, AckInvariant,
           KeptInvariant, PTL DEF Spec, KeepsPromise, Promised!Spec
=============================================================================
