--------------------------- MODULE TailScanProofs ---------------------------
(***************************************************************************)
(* The backward scan is right for every file and every chunk size.         *)
(***************************************************************************)
EXTENDS TailScan, SequenceLemmas

\* What repairTail truncates to is the position of the last newline, or 0: the
\* CHOOSE of CompleteLen always has a witness.
LEMMA CompleteLenProperties ==
  ASSUME NEW c \in Seq(Bytes)
  PROVE  /\ CompleteLen(c) \in 0..Len(c)
         /\ CompleteLen(c) = 0 \/ c[CompleteLen(c)] = NL
         /\ \A i \in (CompleteLen(c) + 1)..Len(c) : c[i] # NL
<1>1. \E n \in 0..Len(c) : /\ n = 0 \/ c[n] = NL
                           /\ \A i \in (n + 1)..Len(c) : c[i] # NL
  BY LastOccurrence
<1> QED BY <1>1 DEF CompleteLen

\* The newline CompleteLen finds is the only position with its property.
LEMMA CompleteLenUnique ==
  ASSUME NEW c \in Seq(Bytes), NEW n \in 0..Len(c),
         n = 0 \/ c[n] = NL,
         \A i \in (n + 1)..Len(c) : c[i] # NL
  PROVE  n = CompleteLen(c)
<1> DEFINE m == CompleteLen(c)
<1>1. /\ m \in 0..Len(c)
      /\ m = 0 \/ c[m] = NL
      /\ \A i \in (m + 1)..Len(c) : c[i] # NL
  BY CompleteLenProperties
<1>2. Len(c) \in Nat
  BY LenProperties
<1> HIDE DEF m
<1>3. ~(m < n)
  BY <1>1, <1>2
<1>4. ~(n < m)
  BY <1>1, <1>2
<1> QED BY <1>1, <1>2, <1>3, <1>4 DEF m

\* The loop invariant: no newline lies behind end, and a result is the last
\* newline of the file, or -1 where there is none.
ScanInv ==
  /\ content \in Seq(Bytes)
  /\ end \in 0..Len(content)
  /\ \A k \in end..(Len(content) - 1) : content[k + 1] # NL
  /\ pc = "done" =>
       /\ result \in -1..(Len(content) - 1)
       /\ result = -1 \/ content[result + 1] = NL
       /\ \A k \in (result + 1)..(Len(content) - 1) : content[k + 1] # NL

LEMMA ScanInit ==
  ASSUME Init PROVE ScanInv
<1>1. content \in Seq(Bytes) /\ end = Len(content) /\ pc = "scan"
  BY ScanAssumption DEF Init
<1>2. Len(content) \in Nat
  BY <1>1, LenProperties
<1> QED BY <1>1, <1>2 DEF ScanInv

LEMMA ScanNext ==
  ASSUME ScanInv, [Next]_vars PROVE ScanInv'
<1>1. /\ Len(content) \in Nat /\ Chunk \in Nat \ {0}
      /\ end \in 0..Len(content)
  BY LenProperties, ScanAssumption DEF ScanInv
<1>2. Start \in 0..end
  BY <1>1 DEF Start
<1>3. CASE Advance
  <2>1. /\ pc = "scan" /\ end' = Start
        /\ \A k \in Start..(end - 1) : content[k + 1] # NL
        /\ UNCHANGED <<content, pc>>
    BY <1>3 DEF Advance, Newlines
  <2>2. \A k \in Start..(Len(content) - 1) : content[k + 1] # NL
    BY <1>1, <1>2, <2>1 DEF ScanInv
  <2>3. end' \in 0..Len(content')
    BY <1>1, <1>2, <2>1
  <2> QED BY <2>1, <2>2, <2>3 DEF ScanInv
<1>4. CASE Found
  <2>1. PICK k \in Newlines : (\A m \in Newlines : m <= k) /\ result' = k
    BY <1>4 DEF Found
  <2>2. UNCHANGED <<content, end>>
    BY <1>4 DEF Found
  <2>3. k \in Start..(end - 1) /\ content[k + 1] = NL
    BY <2>1 DEF Newlines
  <2>4. \A m \in (k + 1)..(end - 1) : content[m + 1] # NL
    <3> SUFFICES ASSUME NEW m \in (k + 1)..(end - 1), content[m + 1] = NL
                 PROVE  FALSE
      OBVIOUS
    <3>1. m \in Newlines
      BY <1>1, <1>2, <2>3 DEF Newlines
    <3> QED BY <1>1, <1>2, <2>1, <2>3, <3>1
  <2>5. \A m \in (k + 1)..(Len(content) - 1) : content[m + 1] # NL
    BY <1>1, <1>2, <2>3, <2>4 DEF ScanInv
  <2>6. k \in -1..(Len(content) - 1)
    BY <1>1, <1>2, <2>3
  <2> QED BY <2>1, <2>2, <2>3, <2>5, <2>6 DEF ScanInv
<1>5. CASE NotFound
  <2>1. end = 0 /\ result' = -1 /\ UNCHANGED <<content, end>>
    BY <1>5 DEF NotFound
  <2> QED BY <1>1, <2>1 DEF ScanInv
<1>6. CASE ReadFails
  BY <1>6 DEF ReadFails, ScanInv
<1>7. CASE Done \/ UNCHANGED vars
  BY <1>7 DEF Done, vars, ScanInv
<1> QED BY <1>3, <1>4, <1>5, <1>6, <1>7 DEF Next

\* lastNewlineOffset returns the end of the last complete record, whatever the
\* file holds and wherever the chunks' boundaries fall.
THEOREM ScanCorrect == Spec => []FindsLastNewline
<1>1. Init => ScanInv
  BY ScanInit
<1>2. ScanInv /\ [Next]_vars => ScanInv'
  BY ScanNext
<1>3. ScanInv => FindsLastNewline
  <2> SUFFICES ASSUME ScanInv, pc = "done"
               PROVE  result + 1 = CompleteLen(content)
    BY DEF FindsLastNewline
  <2>1. Len(content) \in Nat /\ content \in Seq(Bytes)
    BY LenProperties DEF ScanInv
  <2>2. result \in -1..(Len(content) - 1)
    BY DEF ScanInv
  <2>3. result + 1 \in 0..Len(content)
    BY <2>1, <2>2
  <2>4. result + 1 = 0 \/ content[result + 1] = NL
    BY <2>2 DEF ScanInv
  <2>5. \A i \in (result + 1 + 1)..Len(content) : content[i] # NL
    <3> SUFFICES ASSUME NEW i \in (result + 1 + 1)..Len(content)
                 PROVE  content[i] # NL
      OBVIOUS
    <3>1. i - 1 \in (result + 1)..(Len(content) - 1) /\ (i - 1) + 1 = i
      BY <2>1, <2>2
    <3>2. content[(i - 1) + 1] # NL
      BY <3>1 DEF ScanInv
    <3> QED BY <3>1, <3>2
  <2> QED BY <2>1, <2>3, <2>4, <2>5, CompleteLenUnique
<1> QED BY <1>1, <1>2, <1>3, PTL DEF Spec
=============================================================================
