-------------------------- MODULE EventLineProofs --------------------------
(***************************************************************************)
(* The calls an event line goes through, for every input: the generators   *)
(* of fixture lines, the schema of a stream, the scan for escapes of half  *)
(* a surrogate pair, and the strict decoding of a document.                *)
(***************************************************************************)
EXTENDS SurrogateScan, EventContract, FixtureGen, StrictJSON, SequenceLemmas

-----------------------------------------------------------------------------
(* The fixture generators *)

GeneratorTypeOK ==
  /\ call \in {"stream", "replay"} /\ validSlug \in BOOLEAN
  /\ lineBytes \in Nat \ {0} /\ size \in Int
  /\ events \in Nat /\ total \in Nat /\ crossed \in BOOLEAN /\ round \in 0..2
  /\ reached \in Nat /\ output \in Seq(Nat)
  /\ outcome \in {"running", "ok", "error"}

\* The stream: total is the bytes of whole lines until a write fails, and the
\* cap is exceeded by the last line at the earliest.
StreamInv ==
  call = "stream" =>
    /\ total = reached
    /\ outcome # "error" => total = events * lineBytes /\ Len(output) = events
    /\ outcome = "running" =>
         (crossed <=> total > PendingBytes) /\ total - lineBytes <= PendingBytes
    /\ OverrunsByOne /\ Accounted

\* The replay set: how far the rounds have come, and what is written by then.
ReplayInv ==
  call = "replay" =>
    /\ size < 0 => outcome # "ok" /\ output = <<>>
    /\ size >= 0 =>
         /\ events <= size /\ Len(output) <= 2 * size
         /\ \A p \in 1..Len(output) :
              output[p] = IF p <= size THEN p - 1 ELSE p - size - 1
         /\ outcome = "running" =>
              /\ round = 0 => Len(output) = events
              /\ round = 1 => Len(output) = size + events
              /\ round = 2 => Len(output) = 2 * size
         /\ outcome = "ok" => Len(output) = 2 * size

GeneratorInv == GeneratorTypeOK /\ StreamInv /\ ReplayInv

LEMMA InitGeneratorInv ==
  ASSUME GenerateInit PROVE GeneratorInv
<1>1. /\ call \in {"stream", "replay"} /\ validSlug \in BOOLEAN
      /\ lineBytes \in Nat \ {0} /\ size \in Int
      /\ events = 0 /\ total = 0 /\ crossed = FALSE /\ round = 0
      /\ reached = 0 /\ output = <<>> /\ outcome = "running" /\ PendingBytes \in Nat
  BY FixtureAssumption DEF GenerateInit
<1>2. GeneratorTypeOK
  <2>1. 0 \in Nat /\ 0 \in 0..2 /\ <<>> \in Seq(Nat)
    OBVIOUS
  <2> QED BY <1>1, <2>1, Zenon DEF GeneratorTypeOK
<1>3. Len(output) = 0
  BY <1>1
<1>4. StreamInv
  BY <1>1, <1>3 DEF StreamInv, OverrunsByOne, Accounted
<1>5. ReplayInv
  BY <1>1, <1>3 DEF ReplayInv
<1> QED BY <1>2, <1>4, <1>5 DEF GeneratorInv

\* The writer's side of a line.
LEMMA WriteEventAppends ==
  ASSUME GeneratorTypeOK, WriteEvent
  PROVE  /\ reached' \in Nat /\ output' \in Seq(Nat) /\ Len(output) \in Nat
         /\ Len(output') = Len(output) + 1 /\ output'[Len(output) + 1] = events
         /\ \A p \in 1..Len(output) : output'[p] = output[p]
<1>1. output' = Append(output, events) /\ reached' = reached + lineBytes
  BY DEF WriteEvent
<1>2. output \in Seq(Nat) /\ events \in Nat /\ reached \in Nat /\ lineBytes \in Nat
  BY DEF GeneratorTypeOK
<1> QED BY <1>1, <1>2, AppendProperties, LenProperties

\* A line more.
LEMMA LineMore ==
  ASSUME NEW n \in Nat, NEW b \in Nat
  PROVE  (n + 1) * b = n * b + b /\ n * b \in Nat
OBVIOUS

LEMMA RefuseArgumentsStep ==
  ASSUME GeneratorInv, RefuseArguments PROVE GeneratorInv'
<1>1. /\ outcome = "running" /\ outcome' = "error" /\ ~Writing(call)
      /\ UNCHANGED <<arguments, events, total, crossed, round, reached, output>>
  BY DEF RefuseArguments
<1>2. UNCHANGED <<call, validSlug, lineBytes, size>>
  BY <1>1 DEF arguments
<1>3. GeneratorTypeOK'
  BY <1>1, <1>2 DEF GeneratorInv, GeneratorTypeOK
<1>4. StreamInv'
  <2> SUFFICES ASSUME call = "stream" PROVE StreamInv'
    BY <1>2 DEF StreamInv
  <2>1. events * lineBytes <= reached /\ reached <= (events + 1) * lineBytes
        /\ events <= Len(output) /\ total = reached
    <3>1. total = reached /\ total = events * lineBytes /\ Len(output) = events
      BY <1>1 DEF GeneratorInv, StreamInv
    <3>2. events \in Nat /\ lineBytes \in Nat
      BY DEF GeneratorInv, GeneratorTypeOK
    <3> QED BY <3>1, <3>2, LineMore
  <2> QED BY <1>1, <1>2, <2>1 DEF StreamInv, OverrunsByOne, Accounted
<1>5. ReplayInv'
  BY <1>1, <1>2 DEF GeneratorInv, ReplayInv
<1> QED BY <1>3, <1>4, <1>5 DEF GeneratorInv

LEMMA StreamEventStep ==
  ASSUME GeneratorInv, StreamEvent PROVE GeneratorInv'
<1>1. /\ outcome = "running" /\ call = "stream" /\ WriteEvent
      /\ total' = total + lineBytes /\ events' = events + 1
      /\ crossed' = (total' > PendingBytes)
      /\ outcome' = IF crossed THEN "ok" ELSE "running"
      /\ reached' = reached + lineBytes
      /\ UNCHANGED <<call, validSlug, lineBytes, size, round>>
  BY DEF StreamEvent, Writing, Exceeds, WriteEvent, arguments
<1>2. GeneratorTypeOK
  BY DEF GeneratorInv
<1>3. /\ reached' \in Nat /\ output' \in Seq(Nat) /\ Len(output) \in Nat
      /\ Len(output') = Len(output) + 1
  BY <1>1, <1>2, WriteEventAppends
<1>4. /\ events \in Nat /\ total \in Nat /\ lineBytes \in Nat \ {0} /\ PendingBytes \in Nat
      /\ crossed \in BOOLEAN
  BY <1>2, FixtureAssumption DEF GeneratorTypeOK
<1>5. GeneratorTypeOK'
  <2>1. total' \in Nat /\ events' \in Nat
    BY <1>1, <1>4
  <2>2. outcome' \in {"running", "ok", "error"}
    BY <1>1
  <2>3. crossed' \in BOOLEAN
    BY <1>1
  <2> QED BY <1>1, <1>2, <1>3, <2>1, <2>2, <2>3, Zenon DEF GeneratorTypeOK
<1>6. /\ total = reached /\ total = events * lineBytes /\ Len(output) = events
      /\ (crossed <=> total > PendingBytes) /\ total - lineBytes <= PendingBytes
  BY <1>1 DEF GeneratorInv, StreamInv
<1>7. total' = reached' /\ Len(output') = events'
  BY <1>1, <1>3, <1>6
<1>8. total' = events' * lineBytes'
  <2>1. (events + 1) * lineBytes = events * lineBytes + lineBytes
    BY <1>4, LineMore
  <2> QED BY <1>1, <1>6, <2>1
<1>9. outcome' = "running" =>
        (crossed' <=> total' > PendingBytes) /\ total' - lineBytes' <= PendingBytes
  <2>1. crossed' <=> total' > PendingBytes
    BY <1>1, Zenon
  <2>2. ~crossed => total' - lineBytes' <= PendingBytes
    BY <1>1, <1>4, <1>6
  <2>3. outcome' = "running" => ~crossed
    BY <1>1
  <2> QED BY <2>1, <2>2, <2>3, Zenon
<1>10. OverrunsByOne'
  BY <1>1, <1>4, <1>6 DEF OverrunsByOne
<1>11. Accounted'
  <2>1. (events' + 1) * lineBytes' = events' * lineBytes' + lineBytes'
    BY <1>1, <1>4, LineMore
  <2>2. reached' <= (events' + 1) * lineBytes' /\ events' * lineBytes' <= reached'
    BY <1>1, <1>4, <1>7, <1>8, <2>1
  <2> QED BY <1>1, <1>4, <1>7, <2>2 DEF Accounted
<1>12. StreamInv'
  BY <1>1, <1>7, <1>8, <1>9, <1>10, <1>11 DEF StreamInv
<1>13. ReplayInv'
  BY <1>1 DEF ReplayInv
<1> QED BY <1>5, <1>12, <1>13 DEF GeneratorInv

LEMMA StreamFailsStep ==
  ASSUME GeneratorInv, NEW n \in 0..lineBytes, StreamFails(n) PROVE GeneratorInv'
<1>1. /\ outcome = "running" /\ call = "stream" /\ outcome' = "error"
      /\ total' = total + n /\ reached' = reached + n
      /\ output' \in {Append(output, events), output}
      /\ UNCHANGED <<call, validSlug, lineBytes, size, events, crossed, round>>
  BY DEF StreamFails, Writing, Counted, WriteEventFails, arguments
<1>2. GeneratorTypeOK
  BY DEF GeneratorInv
<1>3. /\ output \in Seq(Nat) /\ events \in Nat /\ total \in Nat /\ reached \in Nat
      /\ lineBytes \in Nat \ {0} /\ n \in Nat /\ n <= lineBytes
  BY <1>2 DEF GeneratorTypeOK
<1>4. output' \in Seq(Nat) /\ Len(output') >= Len(output) /\ Len(output) \in Nat
      /\ Len(output') \in Nat
  BY <1>1, <1>3, AppendProperties, LenProperties
<1>5. GeneratorTypeOK'
  BY <1>1, <1>2, <1>3, <1>4 DEF GeneratorTypeOK
<1>6. total = reached /\ total = events * lineBytes /\ Len(output) = events
  BY <1>1 DEF GeneratorInv, StreamInv
<1>7. Accounted'
  <2>1. (events + 1) * lineBytes = events * lineBytes + lineBytes /\ events * lineBytes \in Nat
    BY <1>3, LineMore
  <2>2. /\ events' * lineBytes' <= reached' /\ reached' <= (events' + 1) * lineBytes'
        /\ total' = reached' /\ events' <= Len(output')
    BY <1>1, <1>3, <1>4, <1>6, <2>1
  <2> QED BY <2>2 DEF Accounted
<1>8. StreamInv'
  BY <1>1, <1>6, <1>7 DEF StreamInv, OverrunsByOne
<1>9. ReplayInv'
  BY <1>1 DEF ReplayInv
<1> QED BY <1>5, <1>8, <1>9 DEF GeneratorInv

\* The next number of a round is the one that belongs at the next position.
LEMMA NextPosition ==
  ASSUME GeneratorInv, call = "replay", size >= 0, outcome = "running", round < 2,
         events < size
  PROVE  /\ Len(output) + 1 <= 2 * size
         /\ events = IF Len(output) + 1 <= size THEN (Len(output) + 1) - 1
                     ELSE (Len(output) + 1) - size - 1
<1>1. events \in Nat /\ size \in Int /\ round \in 0..2
  BY DEF GeneratorInv, GeneratorTypeOK
<1>2. /\ round = 0 => Len(output) = events
      /\ round = 1 => Len(output) = size + events
  BY DEF GeneratorInv, ReplayInv
<1> QED BY <1>1, <1>2

LEMMA ReplayEventStep ==
  ASSUME GeneratorInv, ReplayEvent PROVE GeneratorInv'
<1>1. /\ outcome = "running" /\ call = "replay" /\ size >= 0 /\ round < 2 /\ events < size
      /\ WriteEvent /\ events' = events + 1
      /\ UNCHANGED <<call, validSlug, lineBytes, size, total, crossed, round, outcome>>
  BY DEF ReplayEvent, Writing, arguments
<1>2. GeneratorTypeOK
  BY DEF GeneratorInv
<1>3. /\ reached' \in Nat /\ output' \in Seq(Nat) /\ Len(output) \in Nat
      /\ Len(output') = Len(output) + 1 /\ output'[Len(output) + 1] = events
      /\ \A p \in 1..Len(output) : output'[p] = output[p]
  BY <1>1, <1>2, WriteEventAppends
<1>4. events \in Nat /\ size \in Int /\ round \in 0..2
  BY <1>2 DEF GeneratorTypeOK
<1>5. GeneratorTypeOK'
  BY <1>1, <1>2, <1>3, <1>4 DEF GeneratorTypeOK
<1>6. /\ Len(output) + 1 <= 2 * size
      /\ events = IF Len(output) + 1 <= size THEN (Len(output) + 1) - 1
                  ELSE (Len(output) + 1) - size - 1
  BY <1>1, NextPosition
<1>7. /\ \A p \in 1..Len(output) :
           output[p] = IF p <= size THEN p - 1 ELSE p - size - 1
      /\ round = 0 => Len(output) = events
      /\ round = 1 => Len(output) = size + events
  BY <1>1 DEF GeneratorInv, ReplayInv
<1>8. ASSUME NEW p \in 1..(Len(output) + 1)
      PROVE  output'[p] = IF p <= size THEN p - 1 ELSE p - size - 1
  <2>1. CASE p = Len(output) + 1
    BY <1>3, <1>6, <2>1
  <2>2. CASE p \in 1..Len(output)
    BY <1>3, <1>7, <2>2
  <2>3. p = Len(output) + 1 \/ p \in 1..Len(output)
    BY <1>3
  <2> QED BY <2>1, <2>2, <2>3
<1>9. /\ events' <= size' /\ Len(output') <= 2 * size'
      /\ round' = 0 => Len(output') = events'
      /\ round' = 1 => Len(output') = size' + events'
      /\ round' # 2
  BY <1>1, <1>3, <1>4, <1>6, <1>7
<1>10. ReplayInv'
  BY <1>1, <1>3, <1>4, <1>8, <1>9 DEF ReplayInv
<1>11. StreamInv'
  BY <1>1 DEF StreamInv
<1> QED BY <1>5, <1>10, <1>11 DEF GeneratorInv

LEMMA ReplayFailsStep ==
  ASSUME GeneratorInv, NEW n \in 0..lineBytes, ReplayFails(n) PROVE GeneratorInv'
<1>1. /\ outcome = "running" /\ call = "replay" /\ size >= 0 /\ round < 2 /\ events < size
      /\ outcome' = "error" /\ reached' = reached + n
      /\ output' \in {Append(output, events), output}
      /\ UNCHANGED <<call, validSlug, lineBytes, size, events, total, crossed, round>>
  BY DEF ReplayFails, Writing, WriteEventFails, arguments
<1>2. GeneratorTypeOK
  BY DEF GeneratorInv
<1>3. /\ output \in Seq(Nat) /\ events \in Nat /\ reached \in Nat /\ size \in Int
      /\ lineBytes \in Nat /\ n \in Nat /\ Len(output) \in Nat
  BY <1>2, LenProperties DEF GeneratorTypeOK
<1>4. /\ Len(output) + 1 <= 2 * size
      /\ events = IF Len(output) + 1 <= size THEN (Len(output) + 1) - 1
                  ELSE (Len(output) + 1) - size - 1
  BY <1>1, NextPosition
<1>5. /\ events <= size /\ Len(output) <= 2 * size
      /\ \A p \in 1..Len(output) :
           output[p] = IF p <= size THEN p - 1 ELSE p - size - 1
  BY <1>1 DEF GeneratorInv, ReplayInv
<1>6. /\ output' \in Seq(Nat) /\ Len(output') <= 2 * size
      /\ \A p \in 1..Len(output') :
           output'[p] = IF p <= size THEN p - 1 ELSE p - size - 1
  <2>1. CASE output' = output
    BY <1>3, <1>5, <2>1
  <2>2. CASE output' = Append(output, events)
    <3>1. /\ output' \in Seq(Nat) /\ Len(output') = Len(output) + 1
          /\ output'[Len(output) + 1] = events
          /\ \A p \in 1..Len(output) : output'[p] = output[p]
      BY <1>3, <2>2, AppendProperties
    <3>2. ASSUME NEW p \in 1..(Len(output) + 1)
          PROVE  output'[p] = IF p <= size THEN p - 1 ELSE p - size - 1
      <4>1. CASE p = Len(output) + 1
        BY <1>4, <3>1, <4>1
      <4>2. CASE p \in 1..Len(output)
        BY <1>5, <3>1, <4>2
      <4>3. p = Len(output) + 1 \/ p \in 1..Len(output)
        BY <1>3
      <4> QED BY <4>1, <4>2, <4>3
    <3> QED BY <1>4, <3>1, <3>2
  <2> QED BY <1>1, <2>1, <2>2
<1>7. GeneratorTypeOK'
  BY <1>1, <1>2, <1>3, <1>6 DEF GeneratorTypeOK
<1>8. ReplayInv'
  BY <1>1, <1>3, <1>5, <1>6 DEF ReplayInv
<1>9. StreamInv'
  BY <1>1 DEF StreamInv
<1> QED BY <1>7, <1>8, <1>9 DEF GeneratorInv

LEMMA ReplayRoundStep ==
  ASSUME GeneratorInv, ReplayRound PROVE GeneratorInv'
<1>1. /\ outcome = "running" /\ call = "replay" /\ size >= 0 /\ round < 2 /\ events >= size
      /\ round' = round + 1 /\ events' = 0
      /\ UNCHANGED <<call, validSlug, lineBytes, size, total, crossed, reached, output, outcome>>
  BY DEF ReplayRound, RoundStart, Writing, arguments
<1>2. GeneratorTypeOK
  BY DEF GeneratorInv
<1>3. events \in Nat /\ size \in Int /\ round \in 0..2
  BY <1>2 DEF GeneratorTypeOK
<1>4. GeneratorTypeOK'
  BY <1>1, <1>2, <1>3 DEF GeneratorTypeOK
<1>5. /\ events <= size /\ Len(output) <= 2 * size
      /\ \A p \in 1..Len(output) :
           output[p] = IF p <= size THEN p - 1 ELSE p - size - 1
      /\ round = 0 => Len(output) = events
      /\ round = 1 => Len(output) = size + events
  BY <1>1 DEF GeneratorInv, ReplayInv
<1>6. /\ round' = 0 => Len(output') = events'
      /\ round' = 1 => Len(output') = size' + events'
      /\ round' = 2 => Len(output') = 2 * size'
      /\ events' <= size'
  BY <1>1, <1>3, <1>5
<1>7. ReplayInv'
  BY <1>1, <1>3, <1>5, <1>6 DEF ReplayInv
<1>8. StreamInv'
  BY <1>1 DEF StreamInv
<1> QED BY <1>4, <1>7, <1>8 DEF GeneratorInv

LEMMA ReplayReturnsStep ==
  ASSUME GeneratorInv, ReplayReturns PROVE GeneratorInv'
<1>1. /\ outcome = "running" /\ call = "replay" /\ size >= 0 /\ round = 2
      /\ outcome' = "ok"
      /\ UNCHANGED <<call, validSlug, lineBytes, size, events, total, crossed, round,
                     reached, output>>
  BY DEF ReplayReturns, Writing, arguments
<1>2. GeneratorTypeOK'
  BY <1>1 DEF GeneratorInv, GeneratorTypeOK
<1>3. ReplayInv'
  BY <1>1 DEF GeneratorInv, GeneratorTypeOK, ReplayInv
<1>4. StreamInv'
  BY <1>1 DEF StreamInv
<1> QED BY <1>2, <1>3, <1>4 DEF GeneratorInv

LEMMA NextGeneratorInv ==
  ASSUME GeneratorInv, [Generate]_generateVars PROVE GeneratorInv'
<1>1. CASE UNCHANGED generateVars
  <2>1. UNCHANGED <<call, validSlug, lineBytes, size, events, total, crossed, round,
                    reached, output, outcome>>
    BY <1>1 DEF generateVars
  <2> QED BY <2>1 DEF GeneratorInv, GeneratorTypeOK, StreamInv, ReplayInv, OverrunsByOne,
                      Accounted
<1>2. CASE \E n \in 0..lineBytes : StreamFails(n) \/ ReplayFails(n)
  BY <1>2, StreamFailsStep, ReplayFailsStep
<1> QED BY <1>1, <1>2, RefuseArgumentsStep, StreamEventStep, ReplayEventStep,
           ReplayRoundStep, ReplayReturnsStep DEF Generate

\* Whatever the cap and the length of a line, the corpus has one event that has
\* to be dropped, and without it and the one before it is within the cap.
THEOREM StreamOverrunsByOne == GenerateSpec => []OverrunsByOne
<1>1. GeneratorInv => OverrunsByOne
  BY DEF GeneratorInv, StreamInv, OverrunsByOne
<1> QED BY <1>1, InitGeneratorInv, NextGeneratorInv, PTL DEF GenerateSpec

\* Whatever a failing writer takes of a line, the two numbers the caller gets
\* are the bytes that reached it and the whole lines.
THEOREM StreamAccounted == GenerateSpec => []Accounted
<1>1. GeneratorInv => Accounted
  BY DEF GeneratorInv, StreamInv, Accounted
<1> QED BY <1>1, InitGeneratorInv, NextGeneratorInv, PTL DEF GenerateSpec

\* A replay set of any size is its events twice in the same order, or the
\* beginning of that where the writer failed.
THEOREM ReplayOrder == GenerateSpec => []ReplaysInOrder
<1>1. GeneratorInv => ReplaysInOrder
  <2> SUFFICES ASSUME GeneratorInv, call = "replay" PROVE ReplaysInOrder
    BY DEF ReplaysInOrder
  <2>1. outcome = "ok" => Len(output) = 2 * size
    <3>1. size \in Int
      BY DEF GeneratorInv, GeneratorTypeOK
    <3> QED BY <3>1 DEF GeneratorInv, ReplayInv
  <2>2. ASSUME size >= 0 PROVE IsPrefix(output, Numbered(size) \o Numbered(size))
    <3> DEFINE want == Numbered(size) \o Numbered(size)
               n == Len(output)
    <3>1. size \in Nat /\ output \in Seq(Nat) /\ n \in Nat
      BY <2>2, LenProperties DEF GeneratorInv, GeneratorTypeOK
    <3>2. n <= 2 * size /\ \A p \in 1..n :
            output[p] = IF p <= size THEN p - 1 ELSE p - size - 1
      BY <2>2 DEF GeneratorInv, ReplayInv
    <3>3. Numbered(size) \in Seq(Nat) /\ Len(Numbered(size)) = size
      <4>1. Numbered(size) \in [1..size -> Nat]
        BY <3>1 DEF Numbered
      <4> HIDE DEF want
      <4> QED BY <3>1, <4>1, SegmentIsSeq
    <3>4. /\ want \in Seq(Nat) /\ Len(want) = 2 * size
          /\ \A p \in 1..(2 * size) :
               want[p] = IF p <= size THEN Numbered(size)[p] ELSE Numbered(size)[p - size]
      <4> DEFINE half == Numbered(size)
      <4>1. half \in Seq(Nat) /\ Len(half) = size
        BY <3>3
      <4> HIDE DEF half
      <4>2. /\ half \o half \in Seq(Nat)
            /\ Len(half \o half) = Len(half) + Len(half)
            /\ \A p \in 1..(Len(half) + Len(half)) : (half \o half)[p] =
                 IF p <= Len(half) THEN half[p] ELSE half[p - Len(half)]
        BY <4>1, ConcatProperties
      <4>3. size + size = 2 * size
        BY <3>1
      <4> QED BY <4>1, <4>2, <4>3 DEF half
    <3> HIDE DEF want
    <3>5. ASSUME NEW p \in 1..(2 * size)
          PROVE  want[p] = IF p <= size THEN p - 1 ELSE p - size - 1
      <4>1. \A q \in 1..size : Numbered(size)[q] = q - 1
        BY DEF Numbered
      <4>2. p <= size => p \in 1..size
        BY <3>1
      <4>3. ~(p <= size) => p - size \in 1..size
        BY <3>1
      <4>4. want[p] = IF p <= size THEN Numbered(size)[p] ELSE Numbered(size)[p - size]
        BY <3>4
      <4> QED BY <4>1, <4>2, <4>3, <4>4
    <3>6. \A p \in 1..n : output[p] = want[p]
      BY <3>1, <3>2, <3>5
    <3>7. n \in 0..Len(output) /\ n \in 0..Len(want)
      BY <3>1, <3>2, <3>4
    <3> HIDE DEF n
    <3>8. /\ SubSeq(output, 1, n) \in Seq(Nat) /\ Len(SubSeq(output, 1, n)) = n
          /\ \A p \in 1..n : SubSeq(output, 1, n)[p] = output[p]
      BY <3>1, <3>7, PrefixIsSeq
    <3>9. /\ SubSeq(want, 1, n) \in Seq(Nat) /\ Len(SubSeq(want, 1, n)) = n
          /\ \A p \in 1..n : SubSeq(want, 1, n)[p] = want[p]
      BY <3>4, <3>7, PrefixIsSeq
    <3>10. SubSeq(output, 1, n) = SubSeq(want, 1, n)
      BY <3>6, <3>8, <3>9, SeqEqual
    <3>11. IsPrefix(output, want)
      BY <3>1, <3>2, <3>4, <3>10 DEF IsPrefix, n
    <3> QED BY <3>11 DEF want
  <2> QED BY <2>1, <2>2 DEF ReplaysInOrder
<1> QED BY <1>1, InitGeneratorInv, NextGeneratorInv, PTL DEF GenerateSpec

-----------------------------------------------------------------------------
(* ParseEventLine *)

\* A call returns what ParseEventLine computes.
ParseInv ==
  /\ line \in Lines /\ profile \in Profiles
  /\ result # <<>> => result = <<ParseEventLine(line, limit, profile)>>

LEMMA ParseInvariant == ParseSpec => []ParseInv
<1>1. ParseInit => ParseInv
  BY DEF ParseInit, ParseInv
<1>2. ParseInv /\ [Parse]_parseVars => ParseInv'
  <2> SUFFICES ASSUME ParseInv, [Parse]_parseVars PROVE ParseInv'
    OBVIOUS
  <2>1. CASE Parse
    <3>1. UNCHANGED line /\ UNCHANGED limit /\ UNCHANGED profile
      BY <2>1 DEF Parse
    <3>2. result' = <<ParseEventLine(line, limit, profile)>>
      BY <2>1 DEF Parse
    <3>3. ParseEventLine(line, limit, profile)' = ParseEventLine(line, limit, profile)
      BY <3>1
    <3> QED BY <3>1, <3>2, <3>3, Zenon DEF ParseInv
  <2>2. CASE UNCHANGED parseVars
    <3>1. UNCHANGED line /\ UNCHANGED limit /\ UNCHANGED profile /\ UNCHANGED result
      BY <2>2 DEF parseVars
    <3>2. ParseEventLine(line, limit, profile)' = ParseEventLine(line, limit, profile)
      BY <3>1
    <3> QED BY <3>1, <3>2, Zenon DEF ParseInv
  <2> QED BY <2>1, <2>2
<1> QED BY <1>1, <1>2, PTL DEF ParseSpec

\* The fields of an object the base schema accepts are there.
LEMMA BaseFields ==
  ASSUME NEW l \in Lines, BaseEvent(l.obj)
  PROVE  /\ BaseRequired \subseteq DOMAIN l.obj
         /\ \A f \in BaseRequired : Get(l.obj, f) = l.obj[f]
         /\ l.obj.id \in EventIds /\ l.obj.ts = "instant" /\ l.obj.source = "slug"
         /\ l.obj.kind \in {"gap", "overflow", "other"}
         /\ l.obj.severity \in Severities /\ l.obj.summary \in Summaries
<1>1. BaseRequired \subseteq DOMAIN l.obj
  BY DEF BaseEvent, Has, Required
<1>2. \A f \in BaseRequired : Get(l.obj, f) = l.obj[f]
  BY <1>1 DEF Get
<1>3. \A f \in BaseRequired : l.obj[f] # Absent
  BY <1>1, LineAssumption DEF BaseRequired
<1>4. /\ Get(l.obj, "id") \in EventIds \cup {Absent}
      /\ Get(l.obj, "ts") \in {"instant", Absent}
      /\ Get(l.obj, "source") \in {"slug", Absent}
      /\ Get(l.obj, "kind") \in {"gap", "overflow", "other", Absent}
      /\ Get(l.obj, "severity") \in Severities \cup {Absent}
      /\ Get(l.obj, "summary") \in Summaries \cup {Absent}
  BY DEF BaseEvent, Each
<1>5. {"id", "ts", "source", "kind", "severity", "summary"} = BaseRequired
  BY DEF BaseRequired
<1> QED BY <1>1, <1>2, <1>3, <1>4, <1>5

\* What profileSchema and the schema it picks come to.
IdOf(l) == IF Get(l.obj, "id") \in {Absent, "number"} THEN "" ELSE l.obj.id
Conforms(l, max, p) ==
  Fits(l, max) /\ l.json = "object" /\ ProfileSchema(p, IdOf(l), l.obj)

\* Every schema holds the base one.
LEMMA SchemaHoldsBase ==
  ASSUME NEW p, NEW id, NEW obj, ProfileSchema(p, id, obj)
  PROVE  BaseEvent(obj)
BY DEF ProfileSchema, OrdinarySchema, WatcherEvent, OverflowEvent, GapEvent, ServiceRecord

\* What follows the schema validation refuses nothing more and cannot fail.
LEMMA SchemaDecides ==
  ASSUME NEW l \in Lines, NEW max, NEW p
  PROVE  /\ ParseEventLine(l, max, p).outcome = "event" <=> Conforms(l, max, p)
         /\ ParseEventLine(l, max, p).outcome # "panic"
<1>1. CASE ~Fits(l, max) \/ l.json # "object"
  <2>1. ParseEventLine(l, max, p) = Refused
    BY <1>1 DEF ParseEventLine
  <2> QED BY <1>1, <2>1 DEF Refused, Conforms
<1>2. CASE Fits(l, max) /\ l.json = "object" /\ ~ProfileSchema(p, IdOf(l), l.obj)
  <2>1. ParseEventLine(l, max, p) = Refused
    BY <1>2 DEF ParseEventLine, IdOf
  <2> QED BY <1>2, <2>1 DEF Refused, Conforms
<1>3. CASE Fits(l, max) /\ l.json = "object" /\ ProfileSchema(p, IdOf(l), l.obj)
  <2>1. BaseEvent(l.obj)
    BY <1>3, SchemaHoldsBase
  <2>2. ~ \E f \in Asserted : Get(l.obj, f) \in {Absent, "number"}
    <3>1. \A f \in Asserted : f \in BaseRequired
      BY DEF Asserted, BaseRequired
    <3>2. \A f \in Asserted : l.obj[f] \notin {Absent, "number"}
      BY <2>1, BaseFields DEF Asserted, Absent, Severities, Summaries, Resuming,
         NoneRetained, DroppedSeveral
    <3> QED BY <2>1, <3>1, <3>2, BaseFields
  <2>3. ParseTimestamp(l.obj.ts)
    BY <2>1, BaseFields DEF ParseTimestamp
  <2>4. PICK w : ParseEventLine(l, max, p) =
                   [outcome |-> "event", event |-> l.obj, warned |-> w]
    BY <1>3, <2>2, <2>3, Zenon DEF ParseEventLine, IdOf
  <2>5. ParseEventLine(l, max, p).outcome = "event"
    BY <2>4
  <2> QED BY <1>3, <2>5 DEF Conforms
<1> QED BY <1>1, <1>2, <1>3

\* What the calls have to do with it.
LEMMA AcceptedConforms ==
  ASSUME ParseInv
  PROVE  /\ Accepted <=> result # <<>> /\ Conforms(line, limit, profile)
         /\ \A p : Accepts(p) <=> Conforms(line, limit, p)
<1>1. line \in Lines /\ (result # <<>> => result = <<ParseEventLine(line, limit, profile)>>)
  BY DEF ParseInv
<1>2. result # <<>> => result[1] = ParseEventLine(line, limit, profile)
  BY <1>1
<1> QED BY <1>1, <1>2, SchemaDecides DEF Accepted, Accepts

\* What a watcher may write a spool may hold, and what a spool holds delivery
\* output may: for every line of any size, shape and content.
THEOREM ProfilesNest == ParseSpec => []StreamsNest
<1>1. ParseInv => StreamsNest
  <2> SUFFICES ASSUME ParseInv, Accepted PROVE StreamsNest
    BY DEF StreamsNest
  <2>1. Conforms(line, limit, profile)
    BY AcceptedConforms
  <2>2. ASSUME profile = "WatcherInput" PROVE Conforms(line, limit, "SpoolRecord")
    BY <2>1, <2>2 DEF Conforms, ProfileSchema, OrdinarySchema
  <2>3. ASSUME profile = "SpoolRecord" PROVE Conforms(line, limit, "DeliveryRecord")
    BY <2>1, <2>3 DEF Conforms, ProfileSchema, OrdinarySchema, WatcherEvent
  <2> QED BY <2>2, <2>3, AcceptedConforms DEF StreamsNest
<1> QED BY <1>1, ParseInvariant, PTL

\* The unchecked type assertions of ParseEventLine cannot fail on any line.
THEOREM AssertionsHold == ParseSpec => []NoPanic
<1>1. ParseInv => NoPanic
  <2> SUFFICES ASSUME ParseInv, result # <<>> PROVE result[1].outcome # "panic"
    BY DEF NoPanic
  <2>1. line \in Lines /\ result = <<ParseEventLine(line, limit, profile)>>
    BY DEF ParseInv
  <2>2. result[1] = ParseEventLine(line, limit, profile)
    BY <2>1
  <2> QED BY <2>1, <2>2, SchemaDecides
<1> QED BY <1>1, ParseInvariant, PTL

\* The projection marker is accepted in delivery output only, whatever else the
\* line says: no service record can carry it.
THEOREM MarkerIsReserved == ParseSpec => []MarkerReserved
<1>1. ParseInv => MarkerReserved
  <2> SUFFICES ASSUME ParseInv, Accepted, IsMarker(line.obj), profile # "DeliveryRecord"
               PROVE  FALSE
    BY DEF MarkerReserved
  <2>1. Conforms(line, limit, profile)
    BY AcceptedConforms
  <2>2. OverflowEvent(line.obj)
    BY <2>1 DEF Conforms, ProfileSchema, OrdinarySchema, WatcherEvent
  <2>3. "reason" \in DOMAIN DataOf(line.obj)
    BY <2>2 DEF OverflowEvent, OverflowData, Has
  <2>4. DataOf(line.obj) = [projected |-> "true"]
    BY DEF IsMarker
  <2> QED BY <2>3, <2>4
<1> QED BY <1>1, ParseInvariant, PTL

-----------------------------------------------------------------------------
(* Service records *)

\* The overflow schema accepts what the contract documents.
LEMMA OverflowDocumented ==
  ASSUME NEW d, NEW summary, \A f \in DOMAIN d : d[f] # Absent
  PROVE  OverflowData(d) /\ OverflowSummary(summary, d) <=> DocumentedOverflow(d, summary)
<1> DEFINE always == {"reason", "dropped_ids_known"}
           all == always \cup DroppedFields \cup FingerprintFields
<1>1. \A f : f \in DOMAIN d => Get(d, f) = d[f] /\ d[f] # Absent
  BY DEF Get
<1>2. \A f : f \notin DOMAIN d => Get(d, f) = Absent
  BY DEF Get
<1>3. ASSUME OverflowData(d), OverflowSummary(summary, d)
      PROVE  DocumentedOverflow(d, summary)
  <2>1. always \subseteq DOMAIN d /\ DOMAIN d \subseteq all
    BY <1>3 DEF OverflowData, Has, HasOnly
  <2>2. /\ d.reason \in {"pending_bytes_exceeded", "line_limit_exceeded", "malformed_line"}
        /\ d.dropped_ids_known \in {"true", "false"}
        /\ Get(d, "reason") = d.reason /\ Get(d, "dropped_ids_known") = d.dropped_ids_known
    BY <1>1, <1>3, <2>1 DEF OverflowData, Each, FingerprintReasons
  <2>3. CASE d.dropped_ids_known = "true"
    <3>1. DroppedFields \subseteq DOMAIN d /\ DOMAIN d \cap FingerprintFields = {}
      BY <1>3, <2>2, <2>3 DEF OverflowData, Each, Has, HasNone
    <3>2. DOMAIN d = always \cup DroppedFields
      BY <2>1, <3>1, Zenon
    <3>3. d.reason = "pending_bytes_exceeded"
      BY <1>3, <2>2, <2>3 DEF OverflowData, ReasonAgrees, FingerprintReasons, Each, Absent
    <3>4. {"dropped_count", "first_dropped_id", "last_dropped_id"} \subseteq DOMAIN d
      BY <3>1 DEF DroppedFields
    <3>5. /\ d.first_dropped_id = "text" /\ d.last_dropped_id = "text"
          /\ d.dropped_count \in {"1", "2", "3"} /\ Get(d, "dropped_count") = d.dropped_count
      BY <1>1, <1>3, <3>4 DEF OverflowData, Each
    <3>6. \/ d.dropped_count = "1" /\ summary = "dropped 1"
          \/ d.dropped_count \in {"2", "3"} /\ summary \in DroppedSeveral
      BY <1>3, <3>5 DEF OverflowSummary
    <3> QED BY <2>3, <3>2, <3>3, <3>5, <3>6, Zenon DEF DocumentedOverflow
  <2>4. CASE d.dropped_ids_known = "false"
    <3>1. FingerprintFields \subseteq DOMAIN d /\ DOMAIN d \cap DroppedFields = {}
      BY <1>3, <2>2, <2>4 DEF OverflowData, Each, Has, HasNone, Absent
    <3>2. DOMAIN d = always \cup FingerprintFields
      BY <2>1, <3>1, Zenon
    <3>3. d.reason \in FingerprintReasons
      BY <1>3, <2>2, <2>4 DEF OverflowData, ReasonAgrees, FingerprintReasons, Each, Absent
    <3>4. {"fingerprint", "fingerprint_scope"} \subseteq DOMAIN d
      BY <3>1 DEF FingerprintFields
    <3>5. /\ d.fingerprint = "text" /\ d.fingerprint_scope \in {"full", "prefix"}
          /\ Get(d, "fingerprint_scope") = d.fingerprint_scope
      BY <1>1, <1>3, <3>4 DEF OverflowData, Each
    <3>6. d.fingerprint_scope = "prefix" => d.reason = "line_limit_exceeded"
      BY <1>3, <2>2, <3>5 DEF OverflowData, Each, Absent
    <3>7. /\ d.reason = "line_limit_exceeded" => summary = "oversized line"
          /\ d.reason = "malformed_line" => summary = "malformed line"
      BY <1>3, <2>2 DEF OverflowSummary
    <3>8. <<d.reason, d.fingerprint_scope, summary>> \in
            {<<"line_limit_exceeded", "full", "oversized line">>,
             <<"line_limit_exceeded", "prefix", "oversized line">>,
             <<"malformed_line", "full", "malformed line">>}
      BY <3>3, <3>5, <3>6, <3>7 DEF FingerprintReasons
    <3> QED BY <2>4, <3>2, <3>5, <3>8, Zenon DEF DocumentedOverflow
  <2> QED BY <2>2, <2>3, <2>4
<1>4. ASSUME DocumentedOverflow(d, summary)
      PROVE  OverflowData(d) /\ OverflowSummary(summary, d)
  <2>1. CASE /\ DOMAIN d = always \cup DroppedFields
             /\ d.reason = "pending_bytes_exceeded" /\ d.dropped_ids_known = "true"
             /\ d.first_dropped_id = "text" /\ d.last_dropped_id = "text"
             /\ \/ d.dropped_count = "1" /\ summary = "dropped 1"
                \/ d.dropped_count \in {"2", "3"} /\ summary \in DroppedSeveral
    <3>1. /\ Get(d, "reason") = "pending_bytes_exceeded"
          /\ Get(d, "dropped_ids_known") = "true"
          /\ Get(d, "first_dropped_id") = "text" /\ Get(d, "last_dropped_id") = "text"
          /\ Get(d, "dropped_count") = d.dropped_count
          /\ Get(d, "fingerprint") = Absent /\ Get(d, "fingerprint_scope") = Absent
      BY <1>1, <1>2, <2>1 DEF DroppedFields
    <3>2. \/ d.dropped_count = "1" /\ summary = "dropped 1"
          \/ d.dropped_count \in {"2", "3"} /\ summary \in DroppedSeveral
      BY <2>1
    <3>3. /\ Has(d, always) /\ HasOnly(d, all)
          /\ Has(d, DroppedFields) /\ HasNone(d, FingerprintFields)
      BY <2>1 DEF Has, HasOnly, HasNone, DroppedFields, FingerprintFields
    <3>4. ReasonAgrees(d)
      BY <3>1 DEF ReasonAgrees, FingerprintReasons, Each
    <3>5. OverflowData(d)
      BY <3>1, <3>2, <3>3, <3>4 DEF OverflowData, Each, Absent
    <3>6. OverflowSummary(summary, d)
      BY <3>1, <3>2 DEF OverflowSummary
    <3> QED BY <3>5, <3>6
  <2>2. CASE /\ DOMAIN d = always \cup FingerprintFields
             /\ d.dropped_ids_known = "false" /\ d.fingerprint = "text"
             /\ <<d.reason, d.fingerprint_scope, summary>> \in
                  {<<"line_limit_exceeded", "full", "oversized line">>,
                   <<"line_limit_exceeded", "prefix", "oversized line">>,
                   <<"malformed_line", "full", "malformed line">>}
    <3>1. /\ Get(d, "reason") = d.reason
          /\ Get(d, "dropped_ids_known") = "false"
          /\ Get(d, "fingerprint") = "text"
          /\ Get(d, "fingerprint_scope") = d.fingerprint_scope
          /\ Get(d, "first_dropped_id") = Absent /\ Get(d, "last_dropped_id") = Absent
          /\ Get(d, "dropped_count") = Absent
      BY <1>1, <1>2, <2>2 DEF FingerprintFields
    <3>2. \/ /\ d.reason = "line_limit_exceeded" /\ d.fingerprint_scope \in {"full", "prefix"}
             /\ summary = "oversized line"
          \/ /\ d.reason = "malformed_line" /\ d.fingerprint_scope = "full"
             /\ summary = "malformed line"
      BY <2>2
    <3>3. /\ Has(d, always) /\ HasOnly(d, all)
          /\ Has(d, FingerprintFields) /\ HasNone(d, DroppedFields)
      BY <2>2 DEF Has, HasOnly, HasNone, DroppedFields, FingerprintFields
    <3>4. ReasonAgrees(d)
      BY <3>1, <3>2 DEF ReasonAgrees, FingerprintReasons, Each
    <3>5. OverflowData(d)
      BY <3>1, <3>2, <3>3, <3>4 DEF OverflowData, Each, Absent, FingerprintReasons
    <3>6. OverflowSummary(summary, d)
      BY <3>1, <3>2 DEF OverflowSummary, Absent
    <3> QED BY <3>5, <3>6
  <2> QED BY <1>4, <2>1, <2>2, Zenon DEF DocumentedOverflow
<1> QED BY <1>3, <1>4

\* The gap schema accepts what the contract documents.
LEMMA GapDocumented ==
  ASSUME NEW obj, ServiceRecord(obj, "gap"),
         \A f \in DOMAIN DataOf(obj) : DataOf(obj)[f] # Absent
  PROVE  GapEvent(obj) <=> DocumentedGap(DataOf(obj), obj.summary)
<1> DEFINE d == DataOf(obj)
           summary == obj.summary
           always == {"cursor_id", "last_id"}
           retained == summary \in Resuming /\ Has(d, {"first_available_id"})
           emptied == /\ summary \in NoneRetained
                      /\ Has(d, {"last_removed_id"}) /\ HasNone(d, {"first_available_id"})
           texts == /\ Each(d, "cursor_id", {"text"}) /\ Each(d, "last_id", {"text", "null"})
                    /\ Each(d, "last_removed_id", {"text"})
                    /\ Each(d, "first_available_id", {"text"})
           fields == /\ Has(d, always)
                     /\ HasOnly(d, {"cursor_id", "last_id", "last_removed_id",
                                    "first_available_id"})
           domains == \/ /\ summary \in Resuming
                         /\ DOMAIN d \in {always \cup {"first_available_id"},
                              always \cup {"first_available_id", "last_removed_id"}}
                      \/ /\ summary \in NoneRetained
                         /\ DOMAIN d = always \cup {"last_removed_id"}
           values == /\ d.last_id \in {"text", "null"}
                     /\ \A f \in DOMAIN d \ {"last_id"} : d[f] = "text"
<1>1. GapEvent(obj) <=> fields /\ texts /\ retained # emptied
  BY Zenon DEF GapEvent
<1>2. DocumentedGap(d, summary) <=> domains /\ values
  BY Zenon DEF DocumentedGap
<1>3. \A f \in DOMAIN d : Get(d, f) = d[f] /\ d[f] # Absent
  BY DEF Get
<1>4. \A f : f \notin DOMAIN d => Get(d, f) = Absent
  BY DEF Get
<1> HIDE DEF d, summary
<1>5. retained # emptied <=> retained \/ emptied
  BY DEF Has, HasNone
<1>6. fields /\ (retained \/ emptied) <=> domains
  <2>1. ASSUME fields, retained PROVE domains
    BY <2>1 DEF Has, HasOnly
  <2>2. ASSUME fields, emptied PROVE domains
    BY <2>2 DEF Has, HasOnly, HasNone
  <2>3. ASSUME domains PROVE fields /\ (retained \/ emptied)
    BY <2>3 DEF Has, HasOnly, HasNone
  <2> QED BY <2>1, <2>2, <2>3
<1>7. ASSUME fields PROVE texts <=> values
  <2>1. /\ "cursor_id" \in DOMAIN d /\ "last_id" \in DOMAIN d
        /\ DOMAIN d \subseteq {"cursor_id", "last_id", "last_removed_id", "first_available_id"}
    BY <1>7 DEF Has, HasOnly
  <2>2. ASSUME texts PROVE values
    BY <1>3, <2>1, <2>2 DEF Each
  <2>3. ASSUME values PROVE texts
    BY <1>3, <1>4, <2>1, <2>3 DEF Each
  <2> QED BY <2>2, <2>3
<1>8. GapEvent(obj) <=> domains /\ values
  <2> HIDE DEF fields, texts, retained, emptied, domains, values
  <2> QED BY <1>1, <1>5, <1>6, <1>7
<1> QED BY <1>2, <1>8 DEF d, summary

\* A record under the reserved prefix passes exactly where the contract has its
\* shape: the schemas let no other combination of ID grammar, kind, severity,
\* reason, fields and summary template through, and refuse no record that is
\* documented.  What an ID or a summary repeats of other fields they do not
\* compare.
THEOREM ServiceShapesAreDocumented == ParseSpec => []ServiceRecordShapes
<1>1. ParseInv => ServiceRecordShapes
  <2> DEFINE obj == line.obj
             d == DataOf(obj)
  <2> SUFFICES ASSUME ParseInv, result # <<>>, Fits(line, limit), line.json = "object",
                      BaseEvent(line.obj), line.obj.id \in SyntheticIDs
               PROVE  Accepted <=> DocumentedShape(line.obj, profile)
    BY DEF ServiceRecordShapes
  <2>1. line \in Lines /\ profile \in Profiles
    BY DEF ParseInv
  <2>2. Get(obj, "id") = obj.id
    BY <2>1, BaseFields DEF BaseRequired
  <2>3. IdOf(line) = obj.id
    BY <2>2 DEF IdOf, SyntheticIDs, Absent
  <2>4. Accepted <=> ProfileSchema(profile, obj.id, obj)
    BY <2>3, AcceptedConforms DEF Conforms
  <2>5. "data" \in DOMAIN obj => d = obj.data.fields /\ \A f \in DOMAIN d : d[f] # Absent
    BY <2>1, LineAssumption DEF DataOf
  <2> HIDE DEF d, obj
  <2>6. ProfileSchema(profile, obj.id, obj) <=>
          \/ /\ profile \in {"SpoolRecord", "DeliveryRecord"} /\ obj.id \in OverflowPrefixed
             /\ OverflowEvent(obj)
          \/ /\ profile = "DeliveryRecord" /\ obj.id \in GapPrefixed
             /\ GapEvent(obj)
    BY <2>1 DEF ProfileSchema, Profiles, obj
  <2>7. /\ OverflowEvent(obj) => ServiceRecord(obj, "overflow")
        /\ GapEvent(obj) => ServiceRecord(obj, "gap")
    BY DEF OverflowEvent, GapEvent
  <2>8. \A kind : ServiceRecord(obj, kind) <=>
          /\ obj.id \in WellFormedIDs(kind) /\ obj.kind = kind /\ obj.severity = "warn"
          /\ "data" \in DOMAIN obj
    BY DEF ServiceRecord, obj
  <2>9. ServiceRecord(obj, "overflow") =>
          (OverflowEvent(obj) <=> DocumentedOverflow(obj.data.fields, obj.summary))
    <3> SUFFICES ASSUME ServiceRecord(obj, "overflow")
                 PROVE  OverflowEvent(obj) <=> DocumentedOverflow(obj.data.fields, obj.summary)
      OBVIOUS
    <3>1. d = obj.data.fields /\ \A f \in DOMAIN d : d[f] # Absent
      BY <2>5, <2>8
    <3>2. OverflowData(d) /\ OverflowSummary(obj.summary, d)
            <=> DocumentedOverflow(d, obj.summary)
      BY <3>1, OverflowDocumented
    <3> QED BY <3>1, <3>2 DEF OverflowEvent, d
  <2>10. ServiceRecord(obj, "gap") =>
           (GapEvent(obj) <=> DocumentedGap(obj.data.fields, obj.summary))
    <3> SUFFICES ASSUME ServiceRecord(obj, "gap")
                 PROVE  GapEvent(obj) <=> DocumentedGap(obj.data.fields, obj.summary)
      OBVIOUS
    <3>1. d = obj.data.fields /\ \A f \in DOMAIN d : d[f] # Absent
      BY <2>5, <2>8
    <3> QED BY <3>1, GapDocumented DEF d
  <2>11. DocumentedShape(obj, profile) <=>
           \/ /\ ServiceRecord(obj, "overflow") /\ profile \in {"SpoolRecord", "DeliveryRecord"}
              /\ DocumentedOverflow(obj.data.fields, obj.summary)
           \/ /\ ServiceRecord(obj, "gap") /\ profile = "DeliveryRecord"
              /\ DocumentedGap(obj.data.fields, obj.summary)
    BY <2>8 DEF DocumentedShape
  <2>12. /\ ServiceRecord(obj, "overflow") => obj.id \in OverflowPrefixed
         /\ ServiceRecord(obj, "gap") => obj.id \in GapPrefixed
    BY <2>8 DEF OverflowPrefixed, GapPrefixed, WellFormedIDs
  <2>13. Accepted <=> DocumentedShape(obj, profile)
    BY <2>4, <2>6, <2>7, <2>9, <2>10, <2>11, <2>12
  <2> QED BY <2>13 DEF obj
<1> QED BY <1>1, ParseInvariant, PTL

-----------------------------------------------------------------------------
(* The reading of a document one symbol at a time *)

LexStates == {"outside", "string", "escape"}

\* What follows a symbol.
LexStep(state, s) ==
  IF state = "outside" THEN IF s = "quote" THEN "string" ELSE "outside"
  ELSE IF state = "escape" THEN "string"
  ELSE IF s = "quote" THEN "outside" ELSE IF s = "bslash" THEN "escape" ELSE "string"

\* The recursive definition of Lexed has a solution, and it is read symbol by
\* symbol.
LEMMA LexedSteps ==
  ASSUME data \in Seq(ScanSymbols)
  PROVE  /\ \A k \in 1..(Len(data) + 1) : Lexed[k] \in LexStates
         /\ Lexed[1] = "outside"
         /\ \A k \in 1..Len(data) : Lexed[k + 1] = LexStep(Lexed[k], data[k])
<1> DEFINE n == Len(data) + 1
           step == [k \in 2..n |-> [state \in LexStates |-> LexStep(state, data[k - 1])]]
           Def(g) == [k \in 1..(Len(data) + 1) |->
                        IF k = 1 THEN "outside"
                        ELSE LET s == data[k - 1] IN
                             CASE g[k - 1] = "outside" -> IF s = "quote" THEN "string" ELSE "outside"
                               [] g[k - 1] = "escape" -> "string"
                               [] OTHER -> IF s = "quote" THEN "outside"
                                           ELSE IF s = "bslash" THEN "escape" ELSE "string"]
           at == CHOOSE g : g = Def(g)
<1>1. Len(data) \in Nat /\ n \in Nat \ {0}
  BY LenProperties
<1>2. step \in Steps(LexStates, n)
  <2>1. ASSUME NEW state \in LexStates, NEW s PROVE LexStep(state, s) \in LexStates
    BY DEF LexStates, LexStep
  <2> QED BY <2>1 DEF Steps
<1>3. "outside" \in LexStates
  BY DEF LexStates
<1>4. PICK f : Chain(f, LexStates, n, "outside", step)
  <2> HIDE DEF n, step
  <2> QED BY <1>1, <1>2, <1>3, ChainExists, Zenon
<1>5. /\ f \in [1..n -> LexStates] /\ f[1] = "outside"
      /\ \A k \in 2..n : f[k] = LexStep(f[k - 1], data[k - 1])
  <2>1. /\ f \in [1..n -> LexStates] /\ f[1] = "outside"
        /\ \A k \in 2..n : f[k] = step[k][f[k - 1]]
    BY <1>4 DEF Chain
  <2>2. ASSUME NEW k \in 2..n PROVE f[k] = LexStep(f[k - 1], data[k - 1])
    <3>1. k - 1 \in 1..n
      BY <1>1
    <3>2. f[k - 1] \in LexStates
      BY <2>1, <3>1
    <3> QED BY <2>1, <3>2
  <2> QED BY <2>1, <2>2
<1>6. ASSUME NEW g, NEW k \in 1..n
      PROVE  Def(g)[k] = IF k = 1 THEN "outside" ELSE LexStep(g[k - 1], data[k - 1])
  BY <1>1 DEF LexStep
<1>7. f = Def(f)
  <2>1. ASSUME NEW k \in 1..n PROVE f[k] = Def(f)[k]
    <3>1. k # 1 => k \in 2..n
      BY <1>1
    <3> HIDE DEF Def
    <3> QED BY <1>5, <1>6, <3>1
  <2>2. DOMAIN Def(f) = 1..n /\ Def(f) = [k \in 1..n |-> Def(f)[k]]
    OBVIOUS
  <2> HIDE DEF Def
  <2> QED BY <1>5, <2>1, <2>2
<1>8. at = Def(at)
  <2> HIDE DEF Def
  <2> QED BY <1>7
<1>9. Lexed = at
  BY DEF Lexed, LexedOf
<1> HIDE DEF at
<1>10. \A k \in 1..n :
         at[k] = IF k = 1 THEN "outside" ELSE LexStep(at[k - 1], data[k - 1])
  <2> HIDE DEF Def
  <2> QED BY <1>6, <1>8
<1>11. at[1] = "outside"
  BY <1>1, <1>10
<1>12. ASSUME NEW k \in 1..Len(data) PROVE at[k + 1] = LexStep(at[k], data[k])
  <2>1. k + 1 \in 1..n /\ k + 1 # 1 /\ (k + 1) - 1 = k
    BY <1>1
  <2> QED BY <1>10, <2>1
<1>13. \A k \in 1..n : at[k] \in LexStates
  <2>1. ASSUME NEW k \in 2..n, at[k - 1] \in LexStates PROVE at[k] \in LexStates
    <3>1. k \in 1..n /\ k # 1
      BY <1>1
    <3> QED BY <1>10, <2>1, <3>1 DEF LexStates, LexStep
  <2> HIDE DEF n
  <2> QED BY <1>1, <1>3, <1>11, <2>1, ChainType
<1> QED BY <1>9, <1>11, <1>12, <1>13

-----------------------------------------------------------------------------
(* The scan *)

\* Each half surrogate in front of position n has its other half there too.
PairedBefore(n) ==
  /\ \A k \in EscapesOf("hi") : k < n => k + 3 < n /\ k + 3 \in EscapesOf("lo")
  /\ \A k \in EscapesOf("lo") : k < n => k - 3 \in EscapesOf("hi")

Halved == EscapesOf("lo") # {k + 3 : k \in EscapesOf("hi")}

\* In a document the decoder accepts, the scan is where a reading of single
\* symbols is inside a string or outside, never behind a backslash, and
\* everything in front of it is paired.
ScanInv ==
  /\ data \in Seq(ScanSymbols) /\ i \in Nat \ {0} /\ inString \in BOOLEAN
  /\ verdict \in {"none", "pass", "unpaired"}
  /\ WellFormed =>
       /\ verdict = "none" =>
            /\ i <= Len(data) + 1
            /\ Lexed[i] = IF inString THEN "string" ELSE "outside"
            /\ PairedBefore(i)
       /\ verdict = "pass" => ~Halved
       /\ verdict = "unpaired" => Halved

\* Escapes are where the reading says.
LEMMA EscapeMembers ==
  ASSUME NEW unit
  PROVE  \A k : k \in EscapesOf(unit) <=>
           /\ k \in 1..(Len(data) - 1) /\ Lexed[k] = "string" /\ data[k] = "bslash"
           /\ HexEscape(k) /\ data[k + 2] = unit
BY DEF EscapesOf, Escapes

\* A step past symbols among which no escape of half a pair begins.
LEMMA PairedPastPlain ==
  ASSUME data \in Seq(ScanSymbols), NEW m \in Nat, NEW n \in Nat, m <= n, PairedBefore(m),
         \A k \in m..(n - 1) : k \notin EscapesOf("hi") /\ k \notin EscapesOf("lo")
  PROVE  PairedBefore(n)
<1>1. \A unit : \A k \in EscapesOf(unit) : k \in Int
  <2> SUFFICES ASSUME NEW unit, NEW k \in EscapesOf(unit) PROVE k \in Int
    OBVIOUS
  <2>1. k \in 1..(Len(data) - 1)
    BY DEF EscapesOf, Escapes
  <2> QED BY <2>1, LenProperties
<1>2. \A k \in EscapesOf("hi") : k < n => k < m
  BY <1>1
<1>3. \A k \in EscapesOf("lo") : k < n => k < m
  BY <1>1
<1>4. \A k \in Int : k < m => k < n
  OBVIOUS
<1>5. ASSUME NEW k \in EscapesOf("hi"), k < n PROVE k + 3 < n /\ k + 3 \in EscapesOf("lo")
  <2>1. k + 3 < m /\ k + 3 \in EscapesOf("lo") /\ k + 3 \in Int
    BY <1>1, <1>2, <1>5 DEF PairedBefore
  <2> QED BY <1>4, <2>1
<1>6. ASSUME NEW k \in EscapesOf("lo"), k < n PROVE k - 3 \in EscapesOf("hi")
  BY <1>3, <1>6 DEF PairedBefore
<1> QED BY <1>5, <1>6 DEF PairedBefore

\* The reading is of the document, which no step changes.
LEMMA ReadingKept ==
  ASSUME UNCHANGED data
  PROVE  /\ Lexed' = Lexed /\ (WellFormed' <=> WellFormed)
         /\ \A unit : EscapesOf(unit)' = EscapesOf(unit)
<1>1. Lexed' = Lexed
  BY DEF Lexed
<1>2. \A k : HexEscape(k)' <=> HexEscape(k)
  BY Zenon DEF HexEscape
<1>3. Escapes' = Escapes
  BY <1>1, Zenon DEF Escapes
<1>4. \A unit : EscapesOf(unit)' = EscapesOf(unit)
  BY <1>2, <1>3 DEF EscapesOf
<1>5. WellFormed' <=> WellFormed
  BY <1>1, <1>2, <1>3 DEF WellFormed
<1> QED BY <1>1, <1>4, <1>5

\* A step of the loop that goes on.
LEMMA AdvanceStep ==
  ASSUME ScanInv, verdict = "none", NEW n \in Nat \ {0}, Advance(n), inString' \in BOOLEAN,
         WellFormed => /\ i + n <= Len(data) + 1
                       /\ Lexed[i + n] = IF inString' THEN "string" ELSE "outside"
                       /\ PairedBefore(i + n)
  PROVE  ScanInv'
<1>1. i' = i + n /\ UNCHANGED data /\ verdict' = "none" /\ i \in Nat \ {0}
      /\ data \in Seq(ScanSymbols)
  BY DEF Advance, ScanInv
<1>2. i' \in Nat \ {0}
  BY <1>1
<1>3. /\ Lexed' = Lexed /\ (WellFormed' <=> WellFormed)
      /\ \A unit : EscapesOf(unit)' = EscapesOf(unit)
  BY <1>1, ReadingKept
<1>4. PairedBefore(i + n) => PairedBefore(i)'
  BY <1>1, <1>3 DEF PairedBefore
<1>5. WellFormed' => /\ i' <= Len(data') + 1
                     /\ Lexed'[i'] = IF inString' THEN "string" ELSE "outside"
                     /\ PairedBefore(i)'
  BY <1>1, <1>3, <1>4
<1> QED BY <1>1, <1>2, <1>5 DEF ScanInv

\* A step that returns.
LEMMA ReturnsStep ==
  ASSUME ScanInv, NEW v \in {"pass", "unpaired"}, Return(v),
         WellFormed => (v = "pass" => ~Halved) /\ (v = "unpaired" => Halved)
  PROVE  ScanInv'
<1>1. verdict' = v /\ UNCHANGED data /\ UNCHANGED i /\ UNCHANGED inString
  BY DEF Return
<1>2. /\ WellFormed' <=> WellFormed
      /\ \A unit : EscapesOf(unit)' = EscapesOf(unit)
  BY <1>1, ReadingKept
<1>3. Halved' <=> Halved
  BY <1>2 DEF Halved
<1>4. /\ data' \in Seq(ScanSymbols) /\ i' \in Nat \ {0} /\ inString' \in BOOLEAN
      /\ verdict' \in {"none", "pass", "unpaired"} /\ verdict' # "none"
  BY <1>1 DEF ScanInv
<1> QED BY <1>1, <1>2, <1>3, <1>4 DEF ScanInv

\* Where the scan is, in a document the decoder accepts.
LEMMA ScanPosition ==
  ASSUME ScanInv, Scanning
  PROVE  /\ Len(data) \in Nat /\ i \in 1..Len(data) /\ data[i] \in ScanSymbols
         /\ WellFormed =>
              /\ Lexed[i] = IF inString THEN "string" ELSE "outside"
              /\ Lexed[i + 1] = LexStep(Lexed[i], data[i])
              /\ PairedBefore(i)
<1>1. data \in Seq(ScanSymbols) /\ i \in Nat \ {0} /\ i <= Len(data) /\ verdict = "none"
  BY DEF ScanInv, Scanning
<1>2. Len(data) \in Nat /\ i \in 1..Len(data)
  BY <1>1, LenProperties
<1>3. data[i] \in ScanSymbols
  BY <1>1, <1>2, ElementOfSeq
<1>4. Lexed[i + 1] = LexStep(Lexed[i], data[i])
  BY <1>1, <1>2, LexedSteps
<1> QED BY <1>1, <1>2, <1>3, <1>4 DEF ScanInv

LEMMA ScanOutsideStep ==
  ASSUME ScanInv, ScanOutside PROVE ScanInv'
<1>1. /\ Scanning /\ ~inString /\ inString' = (data[i] = "quote") /\ Advance(1)
      /\ verdict = "none" /\ data \in Seq(ScanSymbols)
  BY DEF ScanOutside, Scanning, ScanInv
<1>2. Len(data) \in Nat /\ i \in 1..Len(data)
  BY <1>1, ScanPosition
<1>3. ASSUME WellFormed
      PROVE  /\ i + 1 <= Len(data) + 1
             /\ Lexed[i + 1] = IF inString' THEN "string" ELSE "outside"
             /\ PairedBefore(i + 1)
  <2>1. /\ Lexed[i] = "outside" /\ Lexed[i + 1] = LexStep("outside", data[i])
        /\ PairedBefore(i)
    BY <1>1, <1>3, ScanPosition
  <2>2. Lexed[i + 1] = IF data[i] = "quote" THEN "string" ELSE "outside"
    BY <2>1 DEF LexStep
  <2>3. \A k \in i..((i + 1) - 1) : k \notin EscapesOf("hi") /\ k \notin EscapesOf("lo")
    <3>1. \A k \in i..((i + 1) - 1) : k = i
      BY <1>2
    <3>2. i \notin EscapesOf("hi") /\ i \notin EscapesOf("lo")
      BY <2>1, EscapeMembers
    <3> QED BY <3>1, <3>2
  <2>4. i \in Nat /\ i + 1 \in Nat /\ i <= i + 1 /\ i + 1 <= Len(data) + 1
    BY <1>2
  <2>5. PairedBefore(i + 1)
    BY <1>1, <2>1, <2>3, <2>4, PairedPastPlain
  <2> QED BY <1>1, <2>2, <2>4, <2>5
<1>4. inString' \in BOOLEAN
  BY <1>1
<1>5. 1 \in Nat \ {0}
  OBVIOUS
<1> QED BY <1>1, <1>3, <1>4, <1>5, AdvanceStep

LEMMA ScanPlainStep ==
  ASSUME ScanInv, ScanPlain PROVE ScanInv'
<1>1. /\ Scanning /\ inString /\ data[i] # "bslash" /\ inString' = (data[i] # "quote")
      /\ Advance(1) /\ verdict = "none" /\ data \in Seq(ScanSymbols)
  BY DEF ScanPlain, Scanning, ScanInv
<1>2. Len(data) \in Nat /\ i \in 1..Len(data)
  BY <1>1, ScanPosition
<1>3. ASSUME WellFormed
      PROVE  /\ i + 1 <= Len(data) + 1
             /\ Lexed[i + 1] = IF inString' THEN "string" ELSE "outside"
             /\ PairedBefore(i + 1)
  <2>1. /\ Lexed[i] = "string" /\ Lexed[i + 1] = LexStep("string", data[i])
        /\ PairedBefore(i)
    BY <1>1, <1>3, ScanPosition
  <2>2. Lexed[i + 1] = IF data[i] # "quote" THEN "string" ELSE "outside"
    BY <1>1, <2>1 DEF LexStep
  <2>3. \A k \in i..((i + 1) - 1) : k \notin EscapesOf("hi") /\ k \notin EscapesOf("lo")
    <3>1. \A k \in i..((i + 1) - 1) : k = i
      BY <1>2
    <3>2. i \notin EscapesOf("hi") /\ i \notin EscapesOf("lo")
      BY <1>1, EscapeMembers
    <3> QED BY <3>1, <3>2
  <2>4. i \in Nat /\ i + 1 \in Nat /\ i <= i + 1 /\ i + 1 <= Len(data) + 1
    BY <1>2
  <2>5. PairedBefore(i + 1)
    BY <1>1, <2>1, <2>3, <2>4, PairedPastPlain
  <2> QED BY <1>1, <2>2, <2>4, <2>5
<1>4. inString' \in BOOLEAN
  BY <1>1
<1>5. 1 \in Nat \ {0}
  OBVIOUS
<1> QED BY <1>1, <1>3, <1>4, <1>5, AdvanceStep

\* Behind a backslash the reading is back in the string after one symbol.
LEMMA EscapeReading ==
  ASSUME data \in Seq(ScanSymbols), NEW m \in 1..(Len(data) - 1), Lexed[m] = "string",
         data[m] = "bslash"
  PROVE  Lexed[m + 1] = "escape" /\ Lexed[m + 2] = "string" /\ m \in Escapes
<1>1. Len(data) \in Nat /\ m \in 1..Len(data) /\ m + 1 \in 1..Len(data) /\ (m + 1) + 1 = m + 2
  BY LenProperties
<1>2. Lexed[m + 1] = "escape"
  BY <1>1, LexedSteps DEF LexStep
<1>3. Lexed[m + 2] = LexStep(Lexed[m + 1], data[m + 1])
  BY <1>1, LexedSteps
<1>4. Lexed[m + 2] = "string"
  BY <1>2, <1>3 DEF LexStep
<1> QED BY <1>2, <1>4 DEF Escapes

\* And behind the digits of a well-formed escape.
LEMMA HexReading ==
  ASSUME data \in Seq(ScanSymbols), NEW m \in 1..Len(data), Lexed[m] = "string",
         HexEscape(m)
  PROVE  /\ m + 2 <= Len(data) /\ m \in Escapes
         /\ Lexed[m + 1] = "escape" /\ Lexed[m + 3] = "string" /\ data[m + 2] # "bslash"
<1>1. Len(data) \in Nat /\ m + 2 <= Len(data) /\ data[m] = "bslash" /\ data[m + 2] \in Hex
  BY LenProperties DEF HexEscape
<1>2. m \in 1..(Len(data) - 1) /\ m + 2 \in 1..Len(data) /\ (m + 2) + 1 = m + 3
  BY <1>1
<1>3. Lexed[m + 1] = "escape" /\ Lexed[m + 2] = "string" /\ m \in Escapes
  BY <1>1, <1>2, EscapeReading
<1>4. Lexed[m + 3] = LexStep("string", data[m + 2])
  BY <1>2, <1>3, LexedSteps
<1>5. data[m + 2] \notin {"quote", "bslash"}
  BY <1>1 DEF Hex
<1> QED BY <1>1, <1>3, <1>4, <1>5 DEF LexStep

\* Where a backslash inside a string is not the last symbol, and what it begins.
LEMMA AtBackslash ==
  ASSUME ScanInv, Scanning, inString, data[i] = "bslash", WellFormed
  PROVE  /\ i \in 1..(Len(data) - 1) /\ Lexed[i] = "string" /\ PairedBefore(i)
         /\ Lexed[i + 1] = "escape" /\ Lexed[i + 2] = "string" /\ i \in Escapes
         /\ data[i + 1] = "u" => HexEscape(i)
<1>1. /\ Len(data) \in Nat /\ i \in 1..Len(data) /\ Lexed[i] = "string"
      /\ Lexed[i + 1] = LexStep("string", "bslash") /\ PairedBefore(i)
  BY ScanPosition
<1>2. Lexed[i + 1] = "escape"
  BY <1>1 DEF LexStep
<1>3. i # Len(data)
  BY <1>2 DEF WellFormed
<1>4. i \in 1..(Len(data) - 1)
  BY <1>1, <1>3
<1>5. Lexed[i + 2] = "string" /\ i \in Escapes
  BY <1>1, <1>4, EscapeReading DEF ScanInv
<1>6. data[i + 1] = "u" => HexEscape(i)
  BY <1>5 DEF WellFormed
<1> QED BY <1>1, <1>2, <1>4, <1>5, <1>6

LEMMA ScanOtherEscapeStep ==
  ASSUME ScanInv, ScanOtherEscape PROVE ScanInv'
<1>1. /\ Scanning /\ inString /\ data[i] = "bslash" /\ (i = Len(data) \/ data[i + 1] # "u")
      /\ Advance(2) /\ inString' = inString /\ verdict = "none" /\ data \in Seq(ScanSymbols)
  BY DEF ScanOtherEscape, IsOtherEscape, Scanning, ScanInv
<1>2. Len(data) \in Nat /\ i \in 1..Len(data)
  BY <1>1, ScanPosition
<1>3. ASSUME WellFormed
      PROVE  /\ i + 2 <= Len(data) + 1
             /\ Lexed[i + 2] = IF inString' THEN "string" ELSE "outside"
             /\ PairedBefore(i + 2)
  <2>1. /\ i \in 1..(Len(data) - 1) /\ PairedBefore(i)
        /\ Lexed[i + 1] = "escape" /\ Lexed[i + 2] = "string"
    BY <1>1, <1>3, AtBackslash
  <2>2. data[i + 1] # "u"
    BY <1>1, <1>2, <2>1
  <2>3. ~HexEscape(i)
    BY <2>2 DEF HexEscape
  <2>4. \A k \in i..((i + 2) - 1) : k = i \/ k = i + 1
    BY <1>2
  <2>5. \A k \in i..((i + 2) - 1) : k \notin EscapesOf("hi") /\ k \notin EscapesOf("lo")
    BY <2>1, <2>3, <2>4, EscapeMembers
  <2>6. i \in Nat /\ i + 2 \in Nat /\ i <= i + 2 /\ i + 2 <= Len(data) + 1
    BY <1>2, <2>1
  <2>7. PairedBefore(i + 2)
    BY <1>1, <2>1, <2>5, <2>6, PairedPastPlain
  <2> QED BY <1>1, <2>1, <2>6, <2>7
<1>4. inString' \in BOOLEAN
  BY <1>1 DEF ScanInv
<1>5. 2 \in Nat \ {0}
  OBVIOUS
<1> QED BY <1>1, <1>3, <1>4, <1>5, AdvanceStep

\* The decoder refuses what the scan leaves to it.
LEMMA ScanMalformedStep ==
  ASSUME ScanInv, ScanMalformed PROVE ScanInv'
<1>1. /\ Scanning /\ inString /\ data[i] = "bslash" /\ data[i + 1] = "u" /\ ~HexEscape(i)
      /\ Return("pass")
  BY DEF ScanMalformed, IsUnicodeEscape
<1>2. ~WellFormed
  BY <1>1, AtBackslash
<1> QED BY <1>1, <1>2, ReturnsStep

\* Among the symbols of an escape only its first begins one.
LEMMA OneEscape ==
  ASSUME data \in Seq(ScanSymbols), NEW m \in 1..Len(data), Lexed[m] = "string", HexEscape(m),
         NEW unit, NEW k \in m..(m + 2), k \in EscapesOf(unit)
  PROVE  k = m /\ data[m + 2] = unit
<1>1. Lexed[m + 1] = "escape" /\ data[m + 2] # "bslash"
  BY HexReading
<1>2. Lexed[k] = "string" /\ data[k] = "bslash" /\ data[k + 2] = unit
  BY EscapeMembers
<1>3. m \in Nat
  BY LenProperties
<1>4. k = m \/ k = m + 1 \/ k = m + 2
  BY <1>3
<1> QED BY <1>1, <1>2, <1>4

LEMMA ScanScalarStep ==
  ASSUME ScanInv, ScanScalar PROVE ScanInv'
<1>1. /\ Scanning /\ inString /\ HexEscape(i) /\ data[i + 2] = "bmp" /\ Advance(3)
      /\ inString' = inString /\ verdict = "none" /\ data \in Seq(ScanSymbols)
  BY DEF ScanScalar, IsUnicodeEscape, Scanning, ScanInv
<1>2. Len(data) \in Nat /\ i \in 1..Len(data)
  BY <1>1, ScanPosition
<1>3. ASSUME WellFormed
      PROVE  /\ i + 3 <= Len(data) + 1
             /\ Lexed[i + 3] = IF inString' THEN "string" ELSE "outside"
             /\ PairedBefore(i + 3)
  <2>1. Lexed[i] = "string" /\ PairedBefore(i)
    BY <1>1, <1>3, ScanPosition
  <2>2. i + 2 <= Len(data) /\ Lexed[i + 3] = "string"
    BY <1>1, <1>2, <2>1, HexReading
  <2>3. ASSUME NEW k \in i..((i + 3) - 1)
        PROVE  k \notin EscapesOf("hi") /\ k \notin EscapesOf("lo")
    <3>1. k \in i..(i + 2)
      BY <1>2
    <3> QED BY <1>1, <1>2, <2>1, <3>1, OneEscape
  <2>4. i \in Nat /\ i + 3 \in Nat /\ i <= i + 3 /\ i + 3 <= Len(data) + 1
    BY <1>2, <2>2
  <2>5. PairedBefore(i + 3)
    BY <1>1, <2>1, <2>3, <2>4, PairedPastPlain
  <2> QED BY <1>1, <2>2, <2>4, <2>5
<1>4. inString' \in BOOLEAN
  BY <1>1 DEF ScanInv
<1>5. 3 \in Nat \ {0}
  OBVIOUS
<1> QED BY <1>1, <1>3, <1>4, <1>5, AdvanceStep

\* A pair consumed together pairs both of its escapes.
LEMMA ScanPairStep ==
  ASSUME ScanInv, ScanPair PROVE ScanInv'
<1>1. /\ Scanning /\ inString /\ HexEscape(i) /\ HexEscape(i + 3) /\ data[i + 2] = "hi"
      /\ data[i + 5] = "lo" /\ Advance(6)
      /\ inString' = inString /\ verdict = "none" /\ data \in Seq(ScanSymbols)
  BY DEF ScanPair, IsPair, IsUnicodeEscape, Scanning, ScanInv
<1>2. Len(data) \in Nat /\ i \in 1..Len(data)
  BY <1>1, ScanPosition
<1>3. ASSUME WellFormed
      PROVE  /\ i + 6 <= Len(data) + 1
             /\ Lexed[i + 6] = IF inString' THEN "string" ELSE "outside"
             /\ PairedBefore(i + 6)
  <2>1. Lexed[i] = "string" /\ PairedBefore(i)
    BY <1>1, <1>3, ScanPosition
  <2>2. Lexed[i + 3] = "string" /\ i \in Escapes
    BY <1>1, <1>2, <2>1, HexReading
  <2>3. (i + 3) + 2 <= Len(data) /\ (i + 3) + 2 = i + 5 /\ (i + 3) + 3 = i + 6
    BY <1>1, <1>2 DEF HexEscape
  <2>4. i + 3 \in 1..Len(data)
    BY <1>2, <2>3
  <2>5. Lexed[i + 6] = "string" /\ i + 3 \in Escapes
    BY <1>1, <2>2, <2>3, <2>4, HexReading
  <2>6. i \in EscapesOf("hi") /\ i + 3 \in EscapesOf("lo")
    BY <1>1, <2>2, <2>3, <2>5 DEF EscapesOf
  <2>7. \A unit : \A k \in EscapesOf(unit) : k \in Int
    BY <1>2, EscapeMembers
  <2>8. ASSUME NEW k \in EscapesOf("hi"), k < i + 6
        PROVE  k + 3 < i + 6 /\ k + 3 \in EscapesOf("lo")
    <3>1. k \in Int
      BY <2>7
    <3>2. k < i \/ k \in i..(i + 2) \/ k \in (i + 3)..((i + 3) + 2)
      BY <1>2, <2>8, <3>1
    <3>3. CASE k < i
      <4>1. k + 3 < i /\ k + 3 \in EscapesOf("lo")
        BY <2>1, <3>3 DEF PairedBefore
      <4> QED BY <1>2, <3>1, <4>1
    <3>4. CASE k \in i..(i + 2)
      <4>1. k = i
        BY <1>1, <1>2, <2>1, <3>4, OneEscape
      <4> QED BY <1>2, <2>6, <4>1
    <3>5. CASE k \in (i + 3)..((i + 3) + 2)
      <4>1. data[(i + 3) + 2] = "hi"
        BY <1>1, <2>2, <2>4, <3>5, OneEscape
      <4> QED BY <1>1, <2>3, <4>1
    <3> QED BY <3>2, <3>3, <3>4, <3>5
  <2>9. ASSUME NEW k \in EscapesOf("lo"), k < i + 6
        PROVE  k - 3 \in EscapesOf("hi")
    <3>1. k \in Int
      BY <2>7
    <3>2. k < i \/ k \in i..(i + 2) \/ k \in (i + 3)..((i + 3) + 2)
      BY <1>2, <2>9, <3>1
    <3>3. CASE k < i
      BY <2>1, <3>3 DEF PairedBefore
    <3>4. CASE k \in i..(i + 2)
      <4>1. data[i + 2] = "lo"
        BY <1>1, <1>2, <2>1, <3>4, OneEscape
      <4> QED BY <1>1, <4>1
    <3>5. CASE k \in (i + 3)..((i + 3) + 2)
      <4>1. k = i + 3
        BY <1>1, <2>2, <2>4, <3>5, OneEscape
      <4>2. k - 3 = i
        BY <1>2, <4>1
      <4> QED BY <2>6, <4>2
    <3> QED BY <3>2, <3>3, <3>4, <3>5
  <2>10. PairedBefore(i + 6)
    BY <2>8, <2>9 DEF PairedBefore
  <2>11. i + 6 <= Len(data) + 1
    BY <1>2, <2>3
  <2> QED BY <1>1, <2>5, <2>10, <2>11
<1>4. inString' \in BOOLEAN
  BY <1>1 DEF ScanInv
<1>5. 6 \in Nat \ {0}
  OBVIOUS
<1> QED BY <1>1, <1>3, <1>4, <1>5, AdvanceStep

\* A half that is refused has no other half: not behind it, for the two would
\* have been taken together, and not in front of it, where all are paired.
LEMMA ScanUnpairedStep ==
  ASSUME ScanInv, ScanUnpaired PROVE ScanInv'
<1>1. /\ Scanning /\ inString /\ HexEscape(i) /\ data[i + 2] # "bmp" /\ ~IsPair(i)
      /\ Return("unpaired") /\ data \in Seq(ScanSymbols)
  BY DEF ScanUnpaired, IsUnicodeEscape, ScanInv
<1>2. Len(data) \in Nat /\ i \in 1..Len(data)
  BY <1>1, ScanPosition
<1>3. ASSUME WellFormed, EscapesOf("lo") = {k + 3 : k \in EscapesOf("hi")} PROVE FALSE
  <2>1. Lexed[i] = "string" /\ PairedBefore(i)
    BY <1>1, <1>3, ScanPosition
  <2>2. i \in Escapes
    BY <1>1, <1>2, <2>1, HexReading
  <2>3. data[i + 2] = "hi" \/ data[i + 2] = "lo"
    BY <1>1 DEF HexEscape, Hex
  <2>4. CASE data[i + 2] = "hi"
    <3>1. i \in EscapesOf("hi")
      BY <1>1, <2>2, <2>4 DEF EscapesOf
    <3>2. i + 3 \in EscapesOf("lo")
      BY <1>3, <3>1
    <3>3. HexEscape(i + 3) /\ data[(i + 3) + 2] = "lo" /\ (i + 3) + 2 = i + 5
      BY <1>2, <3>2, EscapeMembers
    <3> QED BY <1>1, <2>4, <3>3 DEF IsPair
  <2>5. CASE data[i + 2] = "lo"
    <3>1. i \in EscapesOf("lo")
      BY <1>1, <2>2, <2>5 DEF EscapesOf
    <3>2. PICK k \in EscapesOf("hi") : i = k + 3
      BY <1>3, <3>1
    <3>3. k \in Int
      BY <1>2, EscapeMembers
    <3>4. k < i
      BY <1>2, <3>2, <3>3
    <3>5. k + 3 < i
      BY <2>1, <3>4 DEF PairedBefore
    <3> QED BY <1>2, <3>2, <3>3, <3>5
  <2> QED BY <2>3, <2>4, <2>5
<1>4. WellFormed => Halved
  BY <1>3 DEF Halved
<1> QED BY <1>1, <1>4, ReturnsStep

LEMMA ScanEndStep ==
  ASSUME ScanInv, ScanEnd PROVE ScanInv'
<1>1. verdict = "none" /\ i > Len(data) /\ Return("pass") /\ data \in Seq(ScanSymbols)
      /\ i \in Nat \ {0}
  BY DEF ScanEnd, ScanInv
<1>2. ASSUME WellFormed PROVE ~Halved
  <2>1. PairedBefore(i) /\ Len(data) \in Nat
    BY <1>1, <1>2, LenProperties DEF ScanInv
  <2>2. ASSUME NEW unit, NEW k \in EscapesOf(unit) PROVE k \in Int /\ k < i
    <3>1. k \in 1..(Len(data) - 1)
      BY EscapeMembers
    <3> QED BY <1>1, <2>1, <3>1
  <2>3. \A k \in EscapesOf("hi") : k + 3 \in EscapesOf("lo")
    BY <2>1, <2>2 DEF PairedBefore
  <2>4. ASSUME NEW k \in EscapesOf("lo") PROVE \E h \in EscapesOf("hi") : k = h + 3
    <3>1. k \in Int /\ k - 3 \in EscapesOf("hi")
      BY <2>1, <2>2 DEF PairedBefore
    <3>2. k = (k - 3) + 3
      BY <3>1
    <3> QED BY <3>1, <3>2
  <2>5. EscapesOf("lo") = {k + 3 : k \in EscapesOf("hi")}
    BY <2>3, <2>4
  <2> QED BY <2>5 DEF Halved
<1> QED BY <1>1, <1>2, ReturnsStep

LEMMA InitScanInv == ScanInit => ScanInv
<1> SUFFICES ASSUME ScanInit PROVE ScanInv
  OBVIOUS
<1>1. PICK body \in BoundedSeq(ScanSymbols, MaxScan) :
        data = <<"quote">> \o body \o <<"quote">>
  BY DEF ScanInit
<1>2. body \in Seq(ScanSymbols)
  BY <1>1, SegmentIsSeq, ScanAssumption DEF BoundedSeq, SeqOf
<1>3. <<"quote">> \in Seq(ScanSymbols)
  BY DEF ScanSymbols
<1>4. data \in Seq(ScanSymbols)
  BY <1>1, <1>2, <1>3, ConcatProperties
<1>5. i = 1 /\ inString = FALSE /\ verdict = "none" /\ Len(data) \in Nat
  BY <1>4, LenProperties DEF ScanInit
<1>6. i <= Len(data) + 1
  BY <1>5
<1>7. Lexed[i] = "outside"
  BY <1>4, <1>5, LexedSteps
<1>8. PairedBefore(i)
  <2>1. \A unit : \A k \in EscapesOf(unit) : ~(k < 1)
    BY <1>5, EscapeMembers
  <2> QED BY <1>5, <2>1 DEF PairedBefore
<1>9. inString \in BOOLEAN /\ ~inString
  BY <1>5, Zenon
<1>10. i \in Nat \ {0} /\ verdict = "none"
  BY <1>5
<1> QED BY <1>4, <1>6, <1>7, <1>8, <1>9, <1>10 DEF ScanInv

LEMMA NextScanInv == ScanInv /\ [ScanNext]_scanVars => ScanInv'
<1> SUFFICES ASSUME ScanInv, [ScanNext]_scanVars PROVE ScanInv'
  OBVIOUS
<1>1. CASE UNCHANGED scanVars
  <2>1. UNCHANGED data /\ UNCHANGED i /\ UNCHANGED inString /\ UNCHANGED verdict
    BY <1>1 DEF scanVars
  <2>2. /\ Lexed' = Lexed /\ (WellFormed' <=> WellFormed)
        /\ \A unit : EscapesOf(unit)' = EscapesOf(unit)
    BY <2>1, ReadingKept
  <2>3. (PairedBefore(i)' <=> PairedBefore(i)) /\ (Halved' <=> Halved)
    BY <2>1, <2>2 DEF PairedBefore, Halved
  <2> QED BY <2>1, <2>2, <2>3 DEF ScanInv
<1>2. CASE ScanNext
  BY <1>2, ScanOutsideStep, ScanPlainStep, ScanOtherEscapeStep, ScanMalformedStep,
     ScanScalarStep, ScanPairStep, ScanUnpairedStep, ScanEndStep DEF ScanNext
<1> QED BY <1>1, <1>2

\* rejectEscapedSurrogates refuses, of the documents the decoder accepts,
\* exactly those with an escape of half a surrogate pair.
THEOREM ScanRefusesHalves == ScanSpec => []RefusesHalves
<1>1. ScanInv => RefusesHalves
  <2> SUFFICES ASSUME ScanInv, verdict # "none", WellFormed
               PROVE  verdict = "pass" <=> ~Halved
    BY DEF RefusesHalves, Halved
  <2> QED BY DEF ScanInv
<1> QED BY <1>1, InitScanInv, NextScanInv, PTL DEF ScanSpec

-----------------------------------------------------------------------------
(* JSON's grammar *)

\* The values of n symbols: a scalar, or a list in brackets.
LEMMA ValueMembers ==
  ASSUME NEW n, NEW g, NEW x
  PROVE  x \in ValuesOf(n, g) <=>
           \/ n = 1 /\ \E s \in Strings \cup Scalars : x = Simple(s)
           \/ ~(n < 2) /\ \E kind \in Kinds : \E list \in g[n - 2].lists[kind] :
                            x = Bracketed(kind, list)
BY DEF ValuesOf

\* The items of n symbols: a value, or a value behind its name.
LEMMA ItemMembers ==
  ASSUME NEW n, NEW g, NEW x
  PROVE  /\ x \in ItemsOf("array", n, g) <=> \E v \in ValuesOf(n, g) : x = Element(v)
         /\ x \in ItemsOf("object", n, g) <=>
              ~(n < 2) /\ \E key \in Strings : \E v \in g[n - 2].values : x = Member(key, v)
BY DEF ItemsOf

\* The lists of n symbols: none, one item, or an item in front of a list.
LEMMA ListMembers ==
  ASSUME NEW kind, NEW n, NEW g, NEW x
  PROVE  x \in ListsOf(kind, n, g) <=>
           \/ n = 0 /\ x = Nothing
           \/ x \in ItemsOf(kind, n, g)
           \/ \E k \in 1..(n - 2) : \E item \in g[k].items[kind] :
                \E list \in g[n - 1 - k].lists[kind] : x = Joined(item, list)
BY DEF ListsOf

\* The phrases of n symbols are made of shorter ones.
LEMMA PhrasesLocal ==
  ASSUME NEW n \in Nat, NEW g, NEW h, \A k \in 0..(n - 1) : g[k] = h[k]
  PROVE  PhrasesOf(n, g) = PhrasesOf(n, h)
<1>1. ValuesOf(n, g) = ValuesOf(n, h)
  <2>1. ASSUME NEW x PROVE x \in ValuesOf(n, g) <=> x \in ValuesOf(n, h)
    <3>1. CASE n < 2
      BY <3>1, ValueMembers
    <3>2. CASE ~(n < 2)
      <4>1. g[n - 2] = h[n - 2]
        BY <3>2
      <4> QED BY <4>1, ValueMembers
    <3> QED BY <3>1, <3>2
  <2> QED BY <2>1
<1>2. ASSUME NEW kind \in Kinds PROVE ItemsOf(kind, n, g) = ItemsOf(kind, n, h)
  <2>1. ASSUME NEW x PROVE x \in ItemsOf(kind, n, g) <=> x \in ItemsOf(kind, n, h)
    <3>1. CASE n < 2
      BY <1>1, <3>1, ItemMembers DEF Kinds
    <3>2. CASE ~(n < 2)
      <4>1. g[n - 2] = h[n - 2]
        BY <3>2
      <4> QED BY <1>1, <4>1, ItemMembers DEF Kinds
    <3> QED BY <3>1, <3>2
  <2> QED BY <2>1
<1>3. ASSUME NEW kind \in Kinds PROVE ListsOf(kind, n, g) = ListsOf(kind, n, h)
  <2>1. \A k \in 1..(n - 2) : g[k] = h[k] /\ g[n - 1 - k] = h[n - 1 - k]
    <3>1. ASSUME NEW k \in 1..(n - 2) PROVE k \in 0..(n - 1) /\ n - 1 - k \in 0..(n - 1)
      OBVIOUS
    <3> QED BY <3>1
  <2>2. ASSUME NEW x PROVE x \in ListsOf(kind, n, g) <=> x \in ListsOf(kind, n, h)
    BY <1>2, <2>1, ListMembers
  <2> QED BY <2>2
<1> QED BY <1>1, <1>2, <1>3 DEF PhrasesOf

\* The recursive definition of Grammar has a solution.
LEMMA GrammarIs ==
  \A n \in 0..MaxSymbols : Grammar[n] = PhrasesOf(n, Grammar)
<1> DEFINE M == MaxSymbols
           Def(g) == [n \in 0..M |-> PhrasesOf(n, g)]
           solution == CHOOSE g : g = Def(g)
           Upto(m, g) == \A n \in 0..m : g[n] = PhrasesOf(n, g)
           Done == {m \in 0..M : \E g : Upto(m, g)}
<1>1. M \in Nat
  BY JSONAssumption
<1>2. 0 \in Done
  <2> DEFINE g == [k \in {0} |-> PhrasesOf(0, <<>>)]
  <2>1. PhrasesOf(0, <<>>) = PhrasesOf(0, g)
    <3>1. \A k \in 0..(0 - 1) : <<>>[k] = g[k]
      OBVIOUS
    <3> HIDE DEF g
    <3> QED BY <3>1, PhrasesLocal
  <2>2. g[0] = PhrasesOf(0, g)
    BY <2>1
  <2>3. 0 \in 0..M /\ \A n \in 0..0 : n = 0
    BY <1>1
  <2>4. Upto(0, g)
    <3> HIDE DEF g
    <3> QED BY <2>2, <2>3
  <2> QED BY <2>3, <2>4
<1>3. ASSUME NEW m \in 0..(M - 1), m \in Done PROVE m + 1 \in Done
  <2>1. PICK g : Upto(m, g)
    BY <1>3
  <2> DEFINE h == [k \in 0..(m + 1) |-> IF k = m + 1 THEN PhrasesOf(m + 1, g) ELSE g[k]]
  <2>2. \A k \in 0..m : h[k] = g[k]
    BY <1>1
  <2>3. h[m + 1] = PhrasesOf(m + 1, g)
    BY <1>1
  <2>4. m + 1 \in 0..M /\ m \in Nat
    BY <1>1
  <2> HIDE DEF h
  <2>5. ASSUME NEW n \in 0..(m + 1) PROVE h[n] = PhrasesOf(n, h)
    <3>1. \A k \in 0..(n - 1) : h[k] = g[k]
      BY <2>2, <2>4
    <3>2. PhrasesOf(n, h) = PhrasesOf(n, g)
      <4>1. n \in Nat
        BY <2>4
      <4> QED BY <3>1, <4>1, PhrasesLocal
    <3>3. CASE n = m + 1
      BY <2>3, <3>2, <3>3
    <3>4. CASE n # m + 1
      <4>1. n \in 0..m
        BY <2>4, <3>4
      <4> QED BY <2>1, <2>2, <3>2, <4>1
    <3> QED BY <3>3, <3>4
  <2> QED BY <2>4, <2>5
<1>4. M \in Done
  <2>1. CASE M = 0
    BY <1>2, <2>1
  <2>2. CASE M # 0
    <3>1. M > 0 => 1 \in Done
      <4>1. 0 \in 0..(M - 1) /\ 0 + 1 = 1
        BY <1>1, <2>2
      <4> HIDE DEF Done
      <4> QED BY <1>2, <1>3, <4>1
    <3>2. \A k \in 1..(M - 1) : k \in Done => k + 1 \in Done
      <4>1. \A k \in 1..(M - 1) : k \in 0..(M - 1)
        BY <1>1
      <4> HIDE DEF Done
      <4> QED BY <1>3, <4>1
    <3>3. \A k \in 1..M : k \in Done
      <4> HIDE DEF Done, M
      <4> QED BY <1>1, <3>1, <3>2, IntervalInduction, Zenon
    <3>4. M \in 1..M
      BY <1>1, <2>2
    <3> HIDE DEF Done
    <3> QED BY <3>3, <3>4
  <2> QED BY <2>1, <2>2
<1>5. \E g : g = Def(g)
  <2>1. PICK g : Upto(M, g)
    BY <1>4
  <2> DEFINE h == [n \in 0..M |-> g[n]]
  <2>2. \A n \in 0..M : h[n] = g[n]
    OBVIOUS
  <2>3. h = [n \in 0..M |-> h[n]]
    OBVIOUS
  <2> HIDE DEF h
  <2>4. ASSUME NEW n \in 0..M PROVE h[n] = PhrasesOf(n, h)
    <3>1. n \in Nat /\ \A k \in 0..(n - 1) : g[k] = h[k]
      BY <1>1, <2>2
    <3>2. PhrasesOf(n, g) = PhrasesOf(n, h)
      BY <3>1, PhrasesLocal
    <3> QED BY <2>1, <2>2, <3>2
  <2>5. h = Def(h)
    BY <2>3, <2>4
  <2> QED BY <2>5
<1>6. solution = Def(solution)
  <2> HIDE DEF Def
  <2> QED BY <1>5
<1>7. Grammar = solution
  BY DEF Grammar
<1> HIDE DEF solution
<1> QED BY <1>6, <1>7

-----------------------------------------------------------------------------
(* Tokens *)

\* A symbol in front of others.
LEMMA Consed ==
  ASSUME NEW S, NEW c \in S, NEW r \in Seq(S)
  PROVE  /\ <<c>> \o r \in Seq(S) /\ <<c>> \o r # <<>> /\ Len(<<c>> \o r) = Len(r) + 1
         /\ Head(<<c>> \o r) = c /\ Tail(<<c>> \o r) = r
<1>1. <<c>> \in Seq(S) /\ Len(<<c>>) = 1 /\ <<c>>[1] = c
  BY SingletonIsSeq
<1> DEFINE t == <<c>> \o r
<1>2. /\ t \in Seq(S) /\ Len(t) = 1 + Len(r) /\ Len(r) \in Nat
      /\ \A j \in 1..1 : t[j] = <<c>>[j]
      /\ \A j \in 1..Len(r) : t[1 + j] = r[j]
  BY <1>1, ConcatParts
<1>3. t[1] = c
  BY <1>1, <1>2
<1> HIDE DEF t
<1>4. t # <<>> /\ Head(t) = c
  BY <1>2, <1>3
<1>5. Tail(t) = r
  <2>1. /\ Tail(t) \in Seq(S) /\ Len(Tail(t)) = Len(r)
        /\ \A j \in 1..Len(Tail(t)) : Tail(t)[j] = t[j + 1]
    BY <1>2, <1>4, HeadTailProperties
  <2>2. \A j \in 1..Len(Tail(t)) : Tail(t)[j] = r[j]
    BY <1>2, <2>1
  <2> HIDE DEF t
  <2> QED BY <2>1, <2>2, SeqEqual
<1> QED BY <1>2, <1>4, <1>5 DEF t

\* A sequence that is not empty.
LEMMA Uncons ==
  ASSUME NEW S, NEW s \in Seq(S), s # <<>>
  PROVE  s = <<Head(s)>> \o Tail(s) /\ Head(s) \in S /\ Tail(s) \in Seq(S)
<1>1. Head(s) \in S /\ Tail(s) \in Seq(S) /\ Len(Tail(s)) = Len(s) - 1
      /\ \A j \in 1..Len(Tail(s)) : Tail(s)[j] = s[j + 1]
  BY HeadTailProperties
<1>2. Len(s) \in Nat \ {0}
  BY EmptySeq
<1> DEFINE h == Head(s)
           r == Tail(s)
           t == <<h>> \o r
<1>3. h = s[1]
  BY <1>2
<1>4. h \in S /\ r \in Seq(S) /\ Len(r) = Len(s) - 1 /\ \A j \in 1..Len(r) : r[j] = s[j + 1]
  BY <1>1
<1> HIDE DEF h, r
<1>5. <<h>> \in Seq(S) /\ Len(<<h>>) = 1 /\ <<h>>[1] = h
  BY <1>4, SingletonIsSeq
<1>6. /\ t \in Seq(S) /\ Len(t) = 1 + Len(r)
      /\ \A j \in 1..1 : t[j] = <<h>>[j]
      /\ \A j \in 1..Len(r) : t[1 + j] = r[j]
  BY <1>4, <1>5, ConcatParts
<1>7. t[1] = s[1]
  BY <1>3, <1>5, <1>6
<1> HIDE DEF t
<1>8. ASSUME NEW j \in 1..Len(s) PROVE s[j] = t[j]
  <2>1. CASE j = 1
    BY <1>7, <2>1
  <2>2. CASE j # 1
    <3>1. j - 1 \in 1..Len(r) /\ 1 + (j - 1) = j /\ (j - 1) + 1 = j
      BY <1>2, <1>4, <2>2
    <3> QED BY <1>4, <1>6, <3>1
  <2> QED BY <2>1, <2>2
<1>9. Len(s) = Len(t)
  BY <1>2, <1>4, <1>6
<1>10. s = t
  BY <1>6, <1>8, <1>9, SeqEqual
<1> QED BY <1>4, <1>10 DEF h, r, t

\* The head of one sequence in front of another.
LEMMA HeadOfConcat ==
  ASSUME NEW S, NEW s \in Seq(S), s # <<>>, NEW t \in Seq(S)
  PROVE  s \o t # <<>> /\ Head(s \o t) = Head(s)
<1>1. Len(s) \in Nat \ {0}
  BY EmptySeq
<1> DEFINE c == s \o t
<1>2. c \in Seq(S) /\ Len(t) \in Nat /\ Len(c) = Len(s) + Len(t)
        /\ \A j \in 1..Len(s) : c[j] = s[j]
  BY ConcatParts
<1> HIDE DEF c
<1>3. c[1] = s[1] /\ Len(c) # 0
  BY <1>1, <1>2
<1>4. c # <<>> /\ Head(c) = c[1] /\ Head(s) = s[1]
  BY <1>1, <1>2, <1>3
<1> QED BY <1>3, <1>4 DEF c

\* A phrase between two symbols.
LEMMA Enclosed ==
  ASSUME NEW S, NEW c \in S, NEW t \in Seq(S), NEW d \in S
  PROVE  /\ <<c>> \o t \o <<d>> \in Seq(S) /\ <<c>> \o t \o <<d>> = <<c>> \o (t \o <<d>>)
         /\ Len(<<c>> \o t \o <<d>>) = Len(t) + 2
         /\ <<c>> \o t \o <<d>> # <<>> /\ Head(<<c>> \o t \o <<d>>) = c
<1>1. <<c>> \in Seq(S) /\ <<d>> \in Seq(S) /\ Len(<<d>>) = 1
  BY SingletonIsSeq
<1> DEFINE u == t \o <<d>>
<1>2. u \in Seq(S) /\ Len(u) = Len(t) + 1 /\ Len(t) \in Nat
  BY <1>1, ConcatParts
<1>3. (<<c>> \o t) \o <<d>> = <<c>> \o u
  BY <1>1, ConcatAssociative
<1> HIDE DEF u
<1>4. /\ <<c>> \o u \in Seq(S) /\ <<c>> \o u # <<>> /\ Len(<<c>> \o u) = Len(u) + 1
      /\ Head(<<c>> \o u) = c
  BY <1>2, Consed
<1>5. Len(u) + 1 = Len(t) + 2
  BY <1>2
<1> QED BY <1>3, <1>4, <1>5 DEF u

\* Two phrases with a symbol between them.
LEMMA Separated ==
  ASSUME NEW S, NEW s \in Seq(S), NEW c \in S, NEW t \in Seq(S)
  PROVE  /\ s \o <<c>> \o t \in Seq(S) /\ s \o <<c>> \o t = s \o (<<c>> \o t)
         /\ Len(s \o <<c>> \o t) = Len(s) + 1 + Len(t) /\ Len(s) \in Nat /\ Len(t) \in Nat
         /\ s # <<>> => s \o <<c>> \o t # <<>> /\ Head(s \o <<c>> \o t) = Head(s)
<1>1. <<c>> \in Seq(S)
  BY SingletonIsSeq
<1> DEFINE u == <<c>> \o t
<1>2. u \in Seq(S) /\ Len(u) = Len(t) + 1 /\ Len(t) \in Nat
  BY Consed, LenProperties
<1>3. (s \o <<c>>) \o t = s \o u
  BY <1>1, ConcatAssociative
<1> HIDE DEF u
<1>4. s \o u \in Seq(S) /\ Len(s \o u) = Len(s) + Len(u) /\ Len(s) \in Nat
  BY <1>2, ConcatParts
<1>5. Len(s) + Len(u) = Len(s) + 1 + Len(t)
  BY <1>2, <1>4
<1>6. s # <<>> => s \o u # <<>> /\ Head(s \o u) = Head(s)
  BY <1>2, HeadOfConcat
<1> QED BY <1>2, <1>3, <1>4, <1>5, <1>6 DEF u

\* Every number is in a set that has each whose predecessors it has.
LEMMA StrongInduction ==
  ASSUME NEW n \in Nat, NEW T,
         \A k \in 0..n : (\A j \in 0..(k - 1) : j \in T) => k \in T
  PROVE  \A k \in 0..n : k \in T
<1> DEFINE Missing == {k \in 0..n : k \notin T}
<1> SUFFICES ASSUME Missing # {} PROVE FALSE
  OBVIOUS
<1>1. Missing \in SUBSET Nat
  OBVIOUS
<1>2. PICK x \in Missing : \A y \in Missing : x <= y
  <2> HIDE DEF Missing
  <2> QED BY <1>1, LeastNatural
<1>3. x \in 0..n /\ x \notin T
  OBVIOUS
<1>4. ASSUME NEW j \in 0..(x - 1) PROVE j \in T
  <2>1. j \in 0..n /\ ~(x <= j)
    BY <1>3
  <2> QED BY <1>2, <2>1
<1> QED BY <1>3, <1>4

-----------------------------------------------------------------------------
(* Phrases *)

IsValue(v) == \E n \in 0..MaxSymbols : v \in Grammar[n].values
IsItem(kind, p) == \E n \in 0..MaxSymbols : p \in Grammar[n].items[kind]
IsList(kind, p) == \E n \in 0..MaxSymbols : p \in Grammar[n].lists[kind]

\* What values denote, and what a list of elements or members consists of.
Meanings == UNION {{v.val : v \in Grammar[n].values} : n \in 0..MaxSymbols}
Things(kind) == IF kind = "array" THEN Meanings ELSE [key : Strings, val : Meanings]

Flagged(p) == p.unique \in BOOLEAN
Unique(p) == p.unique = TRUE

\* A phrase of n symbols that is not empty.
Worded(p, n) ==
  /\ p.toks \in Seq(Symbols) /\ Len(p.toks) = n /\ p.toks # <<>>
  /\ Head(p.toks) \in Strings \cup Scalars \cup {"openObject", "openArray"}
  /\ p.depth \in Nat /\ Flagged(p)

Listed(kind, p, n) ==
  /\ Worded(p, n)
  /\ p.val \in Seq(Things(kind)) /\ p.val # <<>>

TypedLevel(n) ==
  /\ \A v \in Grammar[n].values : Worded(v, n)
  /\ \A kind \in Kinds : \A p \in Grammar[n].items[kind] : Listed(kind, p, n)
  /\ \A kind \in Kinds : \A p \in Grammar[n].lists[kind] :
       (n = 0 /\ p = Nothing) \/ Listed(kind, p, n)

\* The grammar is what its recursive definition says, by the kind of phrase.
LEMMA GrammarSets ==
  ASSUME NEW n \in 0..MaxSymbols
  PROVE  /\ Grammar[n].values = ValuesOf(n, Grammar)
         /\ \A kind \in Kinds : Grammar[n].items[kind] = ItemsOf(kind, n, Grammar)
         /\ \A kind \in Kinds : Grammar[n].lists[kind] = ListsOf(kind, n, Grammar)
<1> DEFINE g == Grammar
<1>1. g[n] = PhrasesOf(n, g)
  BY GrammarIs
<1> HIDE DEF g
<1>2. /\ g[n].values = ValuesOf(n, g)
      /\ g[n].items = [kind \in Kinds |-> ItemsOf(kind, n, g)]
      /\ g[n].lists = [kind \in Kinds |-> ListsOf(kind, n, g)]
  BY <1>1 DEF PhrasesOf
<1> QED BY <1>2 DEF g

\* The empty list.
LEMMA NothingIs ==
  /\ Nothing.toks = <<>> /\ Nothing.val = <<>> /\ Nothing.depth = 0 /\ Nothing.unique = TRUE
BY DEF Nothing, Phrase

\* Punctuation and the other symbols are disjoint, and all are symbols.
LEMMA SymbolKinds ==
  /\ {"openObject", "closeObject", "openArray", "closeArray", "comma", "colon"}
       \subseteq Symbols
  /\ Strings \subseteq Symbols /\ Scalars \subseteq Symbols
  /\ \A s \in Strings \cup Scalars :
       s \notin {"openObject", "closeObject", "openArray", "closeArray", "comma", "colon"}
BY JSONAssumption DEF Symbols, Punctuation

\* A scalar is a phrase of one symbol.
LEMMA TypedSimple ==
  ASSUME NEW s \in Strings \cup Scalars PROVE Worded(Simple(s), 1)
<1>1. s \in Symbols
  BY SymbolKinds
<1>2. <<s>> \in Seq(Symbols) /\ Len(<<s>>) = 1 /\ <<s>>[1] = s
  BY <1>1, SingletonIsSeq
<1>3. <<s>> # <<>> /\ Head(<<s>>) = s
  BY <1>2
<1>4. /\ Simple(s).toks = <<s>> /\ Simple(s).depth = 0 /\ Flagged(Simple(s))
  BY Zenon DEF Simple, Phrase, Flagged
<1>5. 0 \in Nat
  OBVIOUS
<1> QED BY <1>2, <1>3, <1>4, <1>5, Zenon DEF Worded

Opener(kind) == IF kind = "array" THEN "openArray" ELSE "openObject"
Closer(kind) == IF kind = "array" THEN "closeArray" ELSE "closeObject"

\* A list in brackets.
LEMMA BracketedIs ==
  ASSUME NEW kind \in Kinds, NEW p
  PROVE  /\ Bracketed(kind, p).toks = <<Opener(kind)>> \o p.toks \o <<Closer(kind)>>
         /\ Bracketed(kind, p).depth = p.depth + 1
         /\ Bracketed(kind, p).val =
              IF kind = "array" THEN [array |-> p.val] ELSE [object |-> p.val]
<1>1. CASE kind = "array"
  <2>1. /\ Bracketed(kind, p).toks = <<"openArray">> \o p.toks \o <<"closeArray">>
        /\ Bracketed(kind, p).depth = p.depth + 1
        /\ Bracketed(kind, p).val = [array |-> p.val]
    BY <1>1, Zenon DEF Bracketed, Phrase
  <2>2. Opener(kind) = "openArray" /\ Closer(kind) = "closeArray"
    BY <1>1 DEF Opener, Closer
  <2> QED BY <1>1, <2>1, <2>2, Zenon
<1>2. CASE kind # "array"
  <2>1. /\ Bracketed(kind, p).toks = <<"openObject">> \o p.toks \o <<"closeObject">>
        /\ Bracketed(kind, p).depth = p.depth + 1
        /\ Bracketed(kind, p).val = [object |-> p.val]
    BY <1>2, Zenon DEF Bracketed, Phrase
  <2>2. Opener(kind) = "openObject" /\ Closer(kind) = "closeObject"
    BY <1>2 DEF Opener, Closer, Kinds
  <2> QED BY <1>2, <2>1, <2>2, Zenon
<1> QED BY <1>1, <1>2

\* The members of an object have names of their own at its level and below.
LEMMA BracketedFlag ==
  ASSUME NEW kind \in Kinds, NEW p, Flagged(p)
  PROVE  /\ Flagged(Bracketed(kind, p))
         /\ Unique(Bracketed(kind, p)) <=> Unique(p) /\ (kind = "object" => OwnNames(p.val))
<1>1. CASE kind = "array"
  <2>1. Bracketed(kind, p).unique = p.unique
    BY <1>1, Zenon DEF Bracketed, Phrase
  <2> QED BY <1>1, <2>1 DEF Flagged, Unique
<1>2. CASE kind # "array"
  <2>1. Bracketed(kind, p).unique = (p.unique /\ OwnNames(p.val))
    BY <1>2, Zenon DEF Bracketed, Phrase
  <2>2. (p.unique /\ OwnNames(p.val)) \in BOOLEAN
    OBVIOUS
  <2>3. kind = "object"
    BY <1>2 DEF Kinds
  <2> QED BY <2>1, <2>2, <2>3, Zenon DEF Flagged, Unique
<1> QED BY <1>1, <1>2

\* Brackets add two symbols.
LEMMA TypedBracketed ==
  ASSUME NEW kind \in Kinds, NEW n \in Nat, NEW p,
         (p = Nothing /\ n = 0) \/ Worded(p, n)
  PROVE  Worded(Bracketed(kind, p), n + 2)
<1>1. p.toks \in Seq(Symbols) /\ Len(p.toks) = n /\ p.depth \in Nat /\ Flagged(p)
  BY NothingIs, EmptySeq, Zenon DEF Worded, Flagged
<1>2. Opener(kind) \in Symbols /\ Closer(kind) \in Symbols
        /\ Opener(kind) \in {"openObject", "openArray"}
  BY SymbolKinds DEF Opener, Closer
<1> DEFINE t == <<Opener(kind)>> \o p.toks \o <<Closer(kind)>>
<1>3. /\ t \in Seq(Symbols) /\ Len(t) = Len(p.toks) + 2 /\ t # <<>> /\ Head(t) = Opener(kind)
  <2> DEFINE u == p.toks
             o == Opener(kind)
             c == Closer(kind)
  <2>1. u \in Seq(Symbols) /\ o \in Symbols /\ c \in Symbols
    BY <1>1, <1>2
  <2> HIDE DEF u, o, c
  <2>2. /\ <<o>> \o u \o <<c>> \in Seq(Symbols) /\ Len(<<o>> \o u \o <<c>>) = Len(u) + 2
        /\ <<o>> \o u \o <<c>> # <<>> /\ Head(<<o>> \o u \o <<c>>) = o
    BY <2>1, Enclosed
  <2> QED BY <2>2 DEF u, o, c
<1>4. /\ Bracketed(kind, p).toks = t /\ Bracketed(kind, p).depth = p.depth + 1
      /\ Flagged(Bracketed(kind, p))
  <2>1. Bracketed(kind, p).toks = t /\ Bracketed(kind, p).depth = p.depth + 1
    BY BracketedIs
  <2>2. Flagged(Bracketed(kind, p))
    BY <1>1, BracketedFlag
  <2> QED BY <2>1, <2>2
<1> HIDE DEF t
<1>5. p.depth + 1 \in Nat
  BY <1>1
<1> QED BY <1>1, <1>2, <1>3, <1>4, <1>5, Zenon DEF Worded

\* A value is a list of one element.
LEMMA TypedElement ==
  ASSUME NEW n \in 0..MaxSymbols, NEW v \in Grammar[n].values, Worded(v, n)
  PROVE  Listed("array", Element(v), n)
<1>1. /\ Element(v).toks = v.toks /\ Element(v).val = <<v.val>>
      /\ Element(v).depth = v.depth /\ Element(v).unique = v.unique
  BY Zenon DEF Element, Phrase
<1>2. v.val \in Things("array")
  BY DEF Things, Meanings
<1>3. <<v.val>> \in Seq(Things("array")) /\ Len(<<v.val>>) = 1
  BY <1>2, SingletonIsSeq
<1>4. <<v.val>> # <<>>
  BY <1>3
<1>5. Worded(Element(v), n)
  BY <1>1, Zenon DEF Worded, Flagged
<1> QED BY <1>1, <1>3, <1>4, <1>5, Zenon DEF Listed

\* A name, a colon, and the value.
LEMMA MemberIs ==
  ASSUME NEW key \in Strings, NEW v, v.toks \in Seq(Symbols)
  PROVE  /\ Member(key, v).toks = <<key>> \o (<<"colon">> \o v.toks)
         /\ Member(key, v).val = <<[key |-> key, val |-> v.val]>>
         /\ Member(key, v).depth = v.depth /\ Member(key, v).unique = v.unique
         /\ Member(key, v).toks \in Seq(Symbols) /\ Len(Member(key, v).toks) = Len(v.toks) + 2
         /\ Member(key, v).toks # <<>> /\ Head(Member(key, v).toks) = key
<1>1. /\ Member(key, v).toks = <<key, "colon">> \o v.toks
      /\ Member(key, v).val = <<[key |-> key, val |-> v.val]>>
      /\ Member(key, v).depth = v.depth /\ Member(key, v).unique = v.unique
  BY Zenon DEF Member, Phrase
<1>2. key \in Symbols /\ "colon" \in Symbols
  BY SymbolKinds
<1>3. <<key>> \in Seq(Symbols) /\ <<"colon">> \in Seq(Symbols)
  BY <1>2, SingletonIsSeq
<1>4. <<key, "colon">> = <<key>> \o <<"colon">>
  BY <1>2
<1> DEFINE t == v.toks
           u == <<"colon">> \o t
<1>5. t \in Seq(Symbols) /\ Len(t) \in Nat
  BY LenProperties
<1> HIDE DEF t
<1>6. (<<key>> \o <<"colon">>) \o t = <<key>> \o u
  BY <1>3, <1>5, ConcatAssociative
<1>7. u \in Seq(Symbols) /\ Len(u) = Len(t) + 1
  BY <1>2, <1>5, Consed
<1> HIDE DEF u
<1>8. /\ <<key>> \o u \in Seq(Symbols) /\ <<key>> \o u # <<>>
      /\ Len(<<key>> \o u) = Len(u) + 1 /\ Head(<<key>> \o u) = key
  BY <1>2, <1>7, Consed
<1>9. Len(u) + 1 = Len(t) + 2
  BY <1>5, <1>7
<1>10. Member(key, v).toks = <<key>> \o u
  BY <1>1, <1>4, <1>6 DEF t
<1> QED BY <1>1, <1>8, <1>9, <1>10, Zenon DEF t, u

\* A name and a value are a list of one member.
LEMMA TypedMember ==
  ASSUME NEW n \in 0..MaxSymbols, NEW v \in Grammar[n].values, Worded(v, n), NEW key \in Strings
  PROVE  Listed("object", Member(key, v), n + 2)
<1> DEFINE m == Member(key, v)
           x == [key |-> key, val |-> v.val]
<1>1. v.toks \in Seq(Symbols) /\ Len(v.toks) = n /\ v.depth \in Nat /\ Flagged(v)
  BY Zenon DEF Worded
<1>2. /\ m.val = <<x>> /\ m.depth = v.depth /\ m.unique = v.unique
      /\ m.toks \in Seq(Symbols) /\ Len(m.toks) = Len(v.toks) + 2
      /\ m.toks # <<>> /\ Head(m.toks) = key
  BY <1>1, MemberIs, Zenon
<1>3. x \in Things("object")
  BY DEF Things, Meanings
<1> HIDE DEF m, x
<1>4. <<x>> \in Seq(Things("object")) /\ Len(<<x>>) = 1
  BY <1>3, SingletonIsSeq
<1>5. <<x>> # <<>>
  BY <1>4
<1>6. Worded(m, n + 2)
  <2>1. Len(m.toks) = n + 2 /\ m.depth \in Nat /\ Flagged(m)
        /\ Head(m.toks) \in Strings \cup Scalars \cup {"openObject", "openArray"}
    BY <1>1, <1>2, Zenon DEF Flagged
  <2> QED BY <1>2, <2>1, Zenon DEF Worded
<1>7. Listed("object", m, n + 2)
  BY <1>2, <1>4, <1>5, <1>6, Zenon DEF Listed
<1> QED BY <1>7 DEF m

\* Two lists with a comma between them.
LEMMA JoinedIs ==
  ASSUME NEW p, NEW q
  PROVE  /\ Joined(p, q).toks = p.toks \o <<"comma">> \o q.toks
         /\ Joined(p, q).val = p.val \o q.val
BY Zenon DEF Joined, Phrase

\* They nest as deep as the deeper of them.
LEMMA JoinedDepth ==
  ASSUME NEW p, NEW q, p.depth \in Nat, q.depth \in Nat
  PROVE  /\ Joined(p, q).depth \in Nat
         /\ \A k \in Int : Joined(p, q).depth <= k <=> p.depth <= k /\ q.depth <= k
<1>1. Joined(p, q).depth = IF p.depth > q.depth THEN p.depth ELSE q.depth
  BY Zenon DEF Joined, Phrase
<1> DEFINE a == p.depth
           b == q.depth
           c == Joined(p, q).depth
<1>2. a \in Nat /\ b \in Nat /\ c = IF a > b THEN a ELSE b
  BY <1>1
<1> HIDE DEF a, b, c
<1>3. c \in Nat /\ \A k \in Int : c <= k <=> a <= k /\ b <= k
  BY <1>2
<1> QED BY <1>3 DEF a, b, c

\* Their objects have unique names if those of both have.
LEMMA JoinedFlag ==
  ASSUME NEW p, NEW q, Flagged(p), Flagged(q)
  PROVE  Flagged(Joined(p, q)) /\ (Unique(Joined(p, q)) <=> Unique(p) /\ Unique(q))
<1>1. Joined(p, q).unique = (p.unique /\ q.unique)
  BY Zenon DEF Joined, Phrase
<1>2. (p.unique /\ q.unique) \in BOOLEAN
  OBVIOUS
<1> QED BY <1>1, <1>2, Zenon DEF Flagged, Unique

\* A comma adds one symbol.
LEMMA TypedJoined ==
  ASSUME NEW kind \in Kinds, NEW m \in Nat, NEW n \in Nat, NEW p, NEW q,
         Listed(kind, p, m), Listed(kind, q, n)
  PROVE  Listed(kind, Joined(p, q), m + 1 + n)
<1> DEFINE s == p.toks
           t == q.toks
           j == Joined(p, q)
<1>1. /\ s \in Seq(Symbols) /\ Len(s) = m /\ s # <<>>
      /\ t \in Seq(Symbols) /\ Len(t) = n
      /\ Head(s) \in Strings \cup Scalars \cup {"openObject", "openArray"}
      /\ Flagged(p) /\ Flagged(q) /\ p.depth \in Nat /\ q.depth \in Nat
      /\ p.val \in Seq(Things(kind)) /\ p.val # <<>> /\ q.val \in Seq(Things(kind))
  BY Zenon DEF Listed, Worded
<1>2. /\ j.toks = s \o <<"comma">> \o t /\ j.val = p.val \o q.val
      /\ j.depth \in Nat /\ Flagged(j)
  <2>1. j.toks = s \o <<"comma">> \o t /\ j.val = p.val \o q.val
    BY JoinedIs
  <2>2. j.depth \in Nat
    BY <1>1, JoinedDepth
  <2>3. Flagged(j)
    BY <1>1, JoinedFlag
  <2> QED BY <2>1, <2>2, <2>3
<1> HIDE DEF s, t, j
<1>3. "comma" \in Symbols
  BY SymbolKinds
<1>4. /\ s \o <<"comma">> \o t \in Seq(Symbols) /\ Len(s \o <<"comma">> \o t) = m + 1 + n
      /\ s \o <<"comma">> \o t # <<>> /\ Head(s \o <<"comma">> \o t) = Head(s)
  <2> DEFINE c == "comma"
             u == s \o <<c>> \o t
  <2>1. s \in Seq(Symbols) /\ t \in Seq(Symbols) /\ s # <<>> /\ c \in Symbols
    BY <1>1, <1>3
  <2> HIDE DEF c
  <2>2. /\ u \in Seq(Symbols) /\ Len(u) = Len(s) + 1 + Len(t)
        /\ s # <<>> => u # <<>> /\ Head(u) = Head(s)
    BY <2>1, Separated
  <2> QED BY <1>1, <2>1, <2>2 DEF c
<1>5. p.val \o q.val \in Seq(Things(kind)) /\ p.val \o q.val # <<>>
  <2> DEFINE a == p.val
             b == q.val
  <2>1. a \in Seq(Things(kind)) /\ a # <<>> /\ b \in Seq(Things(kind))
    BY <1>1
  <2> HIDE DEF a, b
  <2>2. a \o b \in Seq(Things(kind)) /\ a \o b # <<>>
    BY <2>1, ConcatProperties, HeadOfConcat
  <2> QED BY <2>2 DEF a, b
<1>6. Worded(j, m + 1 + n)
  BY <1>1, <1>2, <1>4, Zenon DEF Worded
<1>7. Listed(kind, j, m + 1 + n)
  BY <1>2, <1>5, <1>6, Zenon DEF Listed
<1> QED BY <1>7 DEF j

\* The symbols, the depth and the meaning of each phrase.
LEMMA TypedLevels ==
  \A n \in 0..MaxSymbols : TypedLevel(n)
<1> DEFINE M == MaxSymbols
           Typed == {n \in 0..M : TypedLevel(n)}
<1>1. M \in Nat
  BY JSONAssumption
<1>2. ASSUME NEW n \in 0..M, \A k \in 0..(n - 1) : k \in Typed
      PROVE  TypedLevel(n)
  <2> DEFINE g == Grammar
  <2>1. /\ g[n].values = ValuesOf(n, g)
        /\ \A kind \in Kinds : g[n].items[kind] = ItemsOf(kind, n, g)
        /\ \A kind \in Kinds : g[n].lists[kind] = ListsOf(kind, n, g)
    BY GrammarSets
  <2>2. n \in Nat
    BY <1>1
  <2>3. \A k \in 0..(n - 1) : k \in 0..M /\ TypedLevel(k)
    BY <1>2
  <2>4. ASSUME NEW v \in g[n].values PROVE Worded(v, n)
    <3>1. \/ n = 1 /\ \E s \in Strings \cup Scalars : v = Simple(s)
          \/ ~(n < 2) /\ \E kind \in Kinds : \E p \in g[n - 2].lists[kind] :
                           v = Bracketed(kind, p)
      BY <2>1, <2>4, ValueMembers
    <3>2. CASE n = 1 /\ \E s \in Strings \cup Scalars : v = Simple(s)
      BY <3>2, TypedSimple
    <3>3. CASE ~(n < 2) /\ \E kind \in Kinds : \E p \in g[n - 2].lists[kind] :
                             v = Bracketed(kind, p)
      <4>1. n - 2 \in 0..(n - 1) /\ n - 2 \in Nat /\ (n - 2) + 2 = n
        BY <2>2, <3>3
      <4>2. PICK kind \in Kinds : \E p \in g[n - 2].lists[kind] : v = Bracketed(kind, p)
        BY <3>3
      <4>3. PICK p \in g[n - 2].lists[kind] : v = Bracketed(kind, p)
        BY <4>2
      <4>4. (n - 2 = 0 /\ p = Nothing) \/ Listed(kind, p, n - 2)
        BY <2>3, <4>1, <4>3 DEF TypedLevel
      <4>5. (p = Nothing /\ n - 2 = 0) \/ Worded(p, n - 2)
        BY <4>4 DEF Listed
      <4>6. Worded(Bracketed(kind, p), (n - 2) + 2)
        <5> DEFINE m == n - 2
        <5> HIDE DEF m
        <5>1. m \in Nat /\ ((p = Nothing /\ m = 0) \/ Worded(p, m))
          BY <4>1, <4>5 DEF m
        <5>2. Worded(Bracketed(kind, p), m + 2)
          BY <5>1, TypedBracketed
        <5> QED BY <5>2 DEF m
      <4> QED BY <4>1, <4>3, <4>6
    <3> QED BY <3>1, <3>2, <3>3
  <2>5. ASSUME NEW kind \in Kinds, NEW p \in g[n].items[kind] PROVE Listed(kind, p, n)
    <3>1. CASE kind = "array"
      <4>1. p \in ItemsOf("array", n, g)
        BY <2>1, <2>5, <3>1
      <4>2. PICK v \in ValuesOf(n, g) : p = Element(v)
        BY <4>1, ItemMembers
      <4>3. v \in g[n].values
        BY <2>1, <4>2
      <4> QED BY <2>4, <3>1, <4>2, <4>3, TypedElement
    <3>2. CASE kind = "object"
      <4>1. p \in ItemsOf("object", n, g)
        BY <2>1, <2>5, <3>2
      <4>2. ~(n < 2) /\ \E key \in Strings : \E v \in g[n - 2].values : p = Member(key, v)
        BY <4>1, ItemMembers
      <4>3. n - 2 \in 0..(n - 1) /\ n - 2 \in 0..M /\ (n - 2) + 2 = n
        BY <1>1, <2>2, <4>2
      <4>4. PICK key \in Strings : \E v \in g[n - 2].values : p = Member(key, v)
        BY <4>2
      <4>5. PICK v \in g[n - 2].values : p = Member(key, v)
        BY <4>4
      <4>6. Worded(v, n - 2)
        BY <2>3, <4>3, <4>5 DEF TypedLevel
      <4>7. Listed("object", Member(key, v), (n - 2) + 2)
        BY <4>3, <4>5, <4>6, TypedMember, Zenon
      <4> QED BY <3>2, <4>3, <4>5, <4>7
    <3> QED BY <2>5, <3>1, <3>2 DEF Kinds
  <2>6. ASSUME NEW kind \in Kinds, NEW p \in g[n].lists[kind]
        PROVE  (n = 0 /\ p = Nothing) \/ Listed(kind, p, n)
    <3>1. \/ n = 0 /\ p = Nothing
          \/ p \in g[n].items[kind]
          \/ \E k \in 1..(n - 2) : \E item \in g[k].items[kind] :
               \E list \in g[n - 1 - k].lists[kind] : p = Joined(item, list)
      <4>1. p \in ListsOf(kind, n, g) /\ g[n].items[kind] = ItemsOf(kind, n, g)
        BY <2>1, <2>6
      <4> QED BY <4>1, ListMembers
    <3>2. ASSUME NEW k \in 1..(n - 2), NEW item \in g[k].items[kind],
                 NEW list \in g[n - 1 - k].lists[kind], p = Joined(item, list)
          PROVE  Listed(kind, p, n)
      <4> DEFINE m == n - 1 - k
      <4>1. k \in 0..(n - 1) /\ m \in 0..(n - 1) /\ k \in Nat /\ m \in Nat /\ m # 0
              /\ k + 1 + m = n
        BY <2>2
      <4>2. Listed(kind, item, k)
        BY <2>3, <3>2, <4>1 DEF TypedLevel
      <4>3. list \in g[m].lists[kind]
        BY <3>2
      <4> HIDE DEF m
      <4>4. Listed(kind, list, m)
        BY <2>3, <4>1, <4>3 DEF TypedLevel
      <4>5. Listed(kind, Joined(item, list), k + 1 + m)
        BY <4>1, <4>2, <4>4, TypedJoined, Zenon
      <4> QED BY <3>2, <4>1, <4>5
    <3> QED BY <2>5, <3>1, <3>2
  <2> QED BY <2>4, <2>5, <2>6 DEF TypedLevel
<1>3. \A k \in 0..M : k \in Typed
  <2>1. \A n \in 0..M : (\A k \in 0..(n - 1) : k \in Typed) => n \in Typed
    BY <1>2
  <2> HIDE DEF Typed, M
  <2> QED BY <1>1, <2>1, StrongInduction, Zenon
<1> QED BY <1>3

-----------------------------------------------------------------------------
(* What phrases are made of *)

\* A value is in the grammar at the number of its symbols.
LEMMA ValueTyped ==
  ASSUME NEW v, IsValue(v)
  PROVE  /\ Worded(v, Len(v.toks)) /\ Len(v.toks) \in 0..MaxSymbols
         /\ v \in Grammar[Len(v.toks)].values
<1>1. PICK n \in 0..MaxSymbols : v \in Grammar[n].values
  BY DEF IsValue
<1>2. Worded(v, n)
  BY <1>1, TypedLevels DEF TypedLevel
<1>3. Len(v.toks) = n
  BY <1>2 DEF Worded
<1> QED BY <1>1, <1>2, <1>3

\* An item is in the grammar at the number of its symbols.
LEMMA ItemTyped ==
  ASSUME NEW kind \in Kinds, NEW p, IsItem(kind, p)
  PROVE  /\ Listed(kind, p, Len(p.toks)) /\ Len(p.toks) \in 0..MaxSymbols
         /\ p \in Grammar[Len(p.toks)].items[kind]
<1>1. PICK n \in 0..MaxSymbols : p \in Grammar[n].items[kind]
  BY DEF IsItem
<1>2. Listed(kind, p, n)
  BY <1>1, TypedLevels DEF TypedLevel
<1>3. Len(p.toks) = n
  BY <1>2 DEF Listed, Worded
<1> QED BY <1>1, <1>2, <1>3

\* A list is in the grammar at the number of its symbols; only one is empty.
LEMMA ListTyped ==
  ASSUME NEW kind \in Kinds, NEW p, IsList(kind, p)
  PROVE  /\ p = Nothing \/ Listed(kind, p, Len(p.toks))
         /\ p.toks \in Seq(Symbols) /\ Len(p.toks) \in 0..MaxSymbols
         /\ p.depth \in Nat /\ Flagged(p) /\ p.val \in Seq(Things(kind))
         /\ p.toks = <<>> <=> p = Nothing
         /\ p.val = <<>> <=> p = Nothing
         /\ p \in Grammar[Len(p.toks)].lists[kind]
<1>1. PICK n \in 0..MaxSymbols : p \in Grammar[n].lists[kind]
  BY DEF IsList
<1>2. (n = 0 /\ p = Nothing) \/ Listed(kind, p, n)
  BY <1>1, TypedLevels DEF TypedLevel
<1>3. CASE Listed(kind, p, n)
  <2>1. /\ p.toks \in Seq(Symbols) /\ Len(p.toks) = n /\ p.toks # <<>>
        /\ p.depth \in Nat /\ Flagged(p) /\ p.val \in Seq(Things(kind)) /\ p.val # <<>>
    BY <1>3, Zenon DEF Listed, Worded
  <2>2. p # Nothing
    BY <2>1, NothingIs
  <2> QED BY <1>1, <1>3, <2>1, <2>2
<1>4. CASE n = 0 /\ p = Nothing
  <2>1. <<>> \in Seq(Symbols) /\ <<>> \in Seq(Things(kind)) /\ Len(<<>>) = 0 /\ 0 \in Nat
    BY EmptySeq
  <2>2. p.toks = <<>> /\ p.val = <<>> /\ p.depth = 0 /\ Flagged(p)
    BY <1>4, NothingIs DEF Flagged
  <2> QED BY <1>1, <1>4, <2>1, <2>2, Zenon
<1> QED BY <1>2, <1>3, <1>4

\* A value is a scalar or a list in brackets.
LEMMA ValueCases ==
  ASSUME NEW v, IsValue(v)
  PROVE  \/ \E s \in Strings \cup Scalars : v = Simple(s)
         \/ \E kind \in Kinds : \E p : IsList(kind, p) /\ v = Bracketed(kind, p)
<1>1. PICK n \in 0..MaxSymbols : v \in Grammar[n].values
  BY DEF IsValue
<1>2. \/ n = 1 /\ \E s \in Strings \cup Scalars : v = Simple(s)
      \/ ~(n < 2) /\ \E kind \in Kinds : \E p \in Grammar[n - 2].lists[kind] :
                       v = Bracketed(kind, p)
  BY <1>1, GrammarSets, ValueMembers
<1>3. ~(n < 2) => n - 2 \in 0..MaxSymbols
  BY JSONAssumption
<1> QED BY <1>2, <1>3 DEF IsList

\* An item is an element or a member.
LEMMA ItemCases ==
  ASSUME NEW kind \in Kinds, NEW p, IsItem(kind, p)
  PROVE  /\ kind = "array" => \E v : IsValue(v) /\ p = Element(v)
         /\ kind = "object" => \E key \in Strings : \E v : IsValue(v) /\ p = Member(key, v)
<1>1. PICK n \in 0..MaxSymbols : p \in Grammar[n].items[kind]
  BY DEF IsItem
<1>2. p \in ItemsOf(kind, n, Grammar)
  BY <1>1, GrammarSets
<1>3. ASSUME kind = "array" PROVE \E v : IsValue(v) /\ p = Element(v)
  <2>1. \E v \in ValuesOf(n, Grammar) : p = Element(v)
    BY <1>2, <1>3, ItemMembers
  <2>2. ValuesOf(n, Grammar) = Grammar[n].values
    BY <1>1, GrammarSets
  <2> QED BY <1>1, <2>1, <2>2 DEF IsValue
<1>4. ASSUME kind = "object" PROVE \E key \in Strings : \E v : IsValue(v) /\ p = Member(key, v)
  <2>1. ~(n < 2) /\ \E key \in Strings : \E v \in Grammar[n - 2].values : p = Member(key, v)
    BY <1>2, <1>4, ItemMembers
  <2>2. n - 2 \in 0..MaxSymbols
    BY <2>1, JSONAssumption
  <2> QED BY <2>1, <2>2 DEF IsValue
<1> QED BY <1>3, <1>4

\* A list is empty, an item, or an item in front of a shorter list.
LEMMA ListCases ==
  ASSUME NEW kind \in Kinds, NEW p, IsList(kind, p)
  PROVE  \/ p = Nothing
         \/ IsItem(kind, p)
         \/ \E item, list : /\ IsItem(kind, item) /\ IsList(kind, list) /\ list # Nothing
                            /\ Len(list.toks) < Len(p.toks) /\ p = Joined(item, list)
<1>1. PICK n \in 0..MaxSymbols : p \in Grammar[n].lists[kind]
  BY DEF IsList
<1>2. p \in ListsOf(kind, n, Grammar) /\ ItemsOf(kind, n, Grammar) = Grammar[n].items[kind]
  BY <1>1, GrammarSets
<1>3. \/ n = 0 /\ p = Nothing
      \/ p \in Grammar[n].items[kind]
      \/ \E k \in 1..(n - 2) : \E item \in Grammar[k].items[kind] :
           \E list \in Grammar[n - 1 - k].lists[kind] : p = Joined(item, list)
  BY <1>2, ListMembers
<1>4. ASSUME NEW k \in 1..(n - 2), NEW item \in Grammar[k].items[kind],
             NEW list \in Grammar[n - 1 - k].lists[kind], p = Joined(item, list)
      PROVE  /\ IsItem(kind, item) /\ IsList(kind, list) /\ list # Nothing
             /\ Len(list.toks) < Len(p.toks)
  <2> DEFINE m == n - 1 - k
  <2>1. k \in 0..MaxSymbols /\ m \in 0..MaxSymbols /\ m # 0 /\ m < n
    BY JSONAssumption
  <2>2. list \in Grammar[m].lists[kind]
    BY <1>4
  <2> HIDE DEF m
  <2>3. IsItem(kind, item) /\ IsList(kind, list)
    BY <1>4, <2>1, <2>2 DEF IsItem, IsList
  <2>4. Listed(kind, list, m)
    BY <2>1, <2>2, TypedLevels DEF TypedLevel
  <2>5. Len(list.toks) = m /\ list.toks # <<>>
    BY <2>4, Zenon DEF Listed, Worded
  <2>6. Listed(kind, p, n)
    <3>1. (n = 0 /\ p = Nothing) \/ Listed(kind, p, n)
      BY <1>1, TypedLevels DEF TypedLevel
    <3>2. n # 0
      BY <2>1
    <3> QED BY <3>1, <3>2
  <2>7. Len(p.toks) = n
    BY <2>6, Zenon DEF Listed, Worded
  <2> QED BY <2>1, <2>3, <2>5, <2>7, NothingIs
<1> QED BY <1>1, <1>3, <1>4 DEF IsItem

\* A scalar is a value.
LEMMA SimpleIsValue ==
  ASSUME NEW s \in Strings \cup Scalars, MaxSymbols # 0
  PROVE  IsValue(Simple(s))
<1>1. 1 \in 0..MaxSymbols
  BY JSONAssumption
<1>2. Simple(s) \in ValuesOf(1, Grammar)
  BY ValueMembers
<1> QED BY <1>1, <1>2, GrammarSets DEF IsValue

\* A list in brackets is a value.
LEMMA BracketedIsValue ==
  ASSUME NEW kind \in Kinds, NEW p, IsList(kind, p), Len(p.toks) + 2 <= MaxSymbols
  PROVE  IsValue(Bracketed(kind, p))
<1> DEFINE n == Len(p.toks) + 2
<1>1. Len(p.toks) \in 0..MaxSymbols /\ p \in Grammar[Len(p.toks)].lists[kind]
  BY ListTyped, Zenon
<1>2. n \in 0..MaxSymbols /\ n - 2 = Len(p.toks) /\ ~(n < 2)
  BY <1>1, JSONAssumption
<1> HIDE DEF n
<1>3. p \in Grammar[n - 2].lists[kind]
  BY <1>1, <1>2
<1>4. Bracketed(kind, p) \in ValuesOf(n, Grammar)
  BY <1>2, <1>3, ValueMembers
<1> QED BY <1>2, <1>4, GrammarSets DEF IsValue

\* A value is an element of an array.
LEMMA ElementIsItem ==
  ASSUME NEW v, IsValue(v) PROVE IsItem("array", Element(v))
<1>1. PICK n \in 0..MaxSymbols : v \in Grammar[n].values
  BY DEF IsValue
<1>2. "array" \in Kinds
  BY DEF Kinds
<1>3. v \in ValuesOf(n, Grammar)
  BY <1>1, GrammarSets
<1>4. Element(v) \in ItemsOf("array", n, Grammar)
  BY <1>3, ItemMembers
<1> QED BY <1>1, <1>2, <1>4, GrammarSets DEF IsItem

\* A name with a value is a member of an object.
LEMMA MemberIsItem ==
  ASSUME NEW v, IsValue(v), NEW key \in Strings, Len(v.toks) + 2 <= MaxSymbols
  PROVE  IsItem("object", Member(key, v))
<1> DEFINE n == Len(v.toks) + 2
<1>1. Len(v.toks) \in 0..MaxSymbols /\ v \in Grammar[Len(v.toks)].values
  BY ValueTyped, Zenon
<1>2. n \in 0..MaxSymbols /\ n - 2 = Len(v.toks) /\ ~(n < 2)
  BY <1>1, JSONAssumption
<1> HIDE DEF n
<1>3. v \in Grammar[n - 2].values
  BY <1>1, <1>2
<1>4. Member(key, v) \in ItemsOf("object", n, Grammar)
  BY <1>2, <1>3, ItemMembers
<1>5. "object" \in Kinds
  BY DEF Kinds
<1> QED BY <1>2, <1>4, <1>5, GrammarSets DEF IsItem

\* An item is a list of one.
LEMMA ItemIsList ==
  ASSUME NEW kind \in Kinds, NEW p, IsItem(kind, p) PROVE IsList(kind, p)
<1>1. PICK n \in 0..MaxSymbols : p \in Grammar[n].items[kind]
  BY DEF IsItem
<1>2. p \in ListsOf(kind, n, Grammar)
  BY <1>1, GrammarSets, ListMembers
<1> QED BY <1>1, <1>2, GrammarSets DEF IsList

\* There is an empty list of each kind.
LEMMA NothingIsList ==
  ASSUME NEW kind \in Kinds PROVE IsList(kind, Nothing)
<1>1. 0 \in 0..MaxSymbols
  BY JSONAssumption
<1>2. Nothing \in ListsOf(kind, 0, Grammar)
  BY ListMembers
<1> QED BY <1>1, <1>2, GrammarSets DEF IsList

\* An item in front of a list is a list.
LEMMA JoinedIsList ==
  ASSUME NEW kind \in Kinds, NEW p, NEW q, IsItem(kind, p), IsList(kind, q), q # Nothing,
         Len(p.toks) + 1 + Len(q.toks) <= MaxSymbols
  PROVE  IsList(kind, Joined(p, q))
<1> DEFINE k == Len(p.toks)
           m == Len(q.toks)
           n == k + 1 + m
<1>1. k \in 0..MaxSymbols /\ p \in Grammar[k].items[kind] /\ Listed(kind, p, k)
  BY ItemTyped, Zenon
<1>2. m \in 0..MaxSymbols /\ q \in Grammar[m].lists[kind] /\ Listed(kind, q, m)
  BY ListTyped, Zenon
<1>3. k # 0 /\ m # 0
  <2>1. p.toks \in Seq(Symbols) /\ p.toks # <<>> /\ q.toks \in Seq(Symbols) /\ q.toks # <<>>
    BY <1>1, <1>2, Zenon DEF Listed, Worded
  <2> QED BY <2>1, EmptySeq
<1>4. n \in 0..MaxSymbols /\ k \in 1..(n - 2) /\ n - 1 - k = m
  <2>1. MaxSymbols \in Nat /\ k + 1 + m <= MaxSymbols
    BY JSONAssumption
  <2> HIDE DEF k, m
  <2> QED BY <1>1, <1>2, <1>3, <2>1
<1> HIDE DEF k, m, n
<1>5. Joined(p, q) \in ListsOf(kind, n, Grammar)
  <2>1. q \in Grammar[n - 1 - k].lists[kind]
    BY <1>2, <1>4
  <2> QED BY <1>1, <1>4, <2>1, ListMembers
<1> QED BY <1>4, <1>5, GrammarSets DEF IsList

\* It does not matter which of two commas is the outer one.
LEMMA JoinedAssociative ==
  ASSUME NEW kind \in Kinds, NEW p, NEW q, NEW r, NEW k, NEW m, NEW n,
         Listed(kind, p, k), Listed(kind, q, m), Listed(kind, r, n)
  PROVE  Joined(Joined(p, q), r) = Joined(p, Joined(q, r))
<1>1. /\ p.toks \in Seq(Symbols) /\ q.toks \in Seq(Symbols) /\ r.toks \in Seq(Symbols)
      /\ p.val \in Seq(Things(kind)) /\ q.val \in Seq(Things(kind))
         /\ r.val \in Seq(Things(kind))
      /\ p.depth \in Nat /\ q.depth \in Nat /\ r.depth \in Nat
      /\ p.unique \in BOOLEAN /\ q.unique \in BOOLEAN /\ r.unique \in BOOLEAN
  BY Zenon DEF Listed, Worded, Flagged
<1> DEFINE Higher(a, b) == IF a > b THEN a ELSE b
<1>2. \A a, b : Joined(a, b) =
        Phrase(a.toks \o <<"comma">> \o b.toks, a.val \o b.val, Higher(a.depth, b.depth),
               a.unique /\ b.unique)
  BY DEF Joined
<1>3. (p.toks \o <<"comma">> \o q.toks) \o <<"comma">> \o r.toks
        = p.toks \o <<"comma">> \o (q.toks \o <<"comma">> \o r.toks)
  <2> DEFINE a == p.toks
             b == q.toks
             c == r.toks
             d == <<"comma">>
  <2>1. a \in Seq(Symbols) /\ b \in Seq(Symbols) /\ c \in Seq(Symbols) /\ d \in Seq(Symbols)
    <3>1. "comma" \in Symbols
      BY SymbolKinds
    <3> QED BY <1>1, <3>1, SingletonIsSeq
  <2> HIDE DEF a, b, c, d
  <2>2. a \o d \in Seq(Symbols) /\ b \o d \in Seq(Symbols) /\ (a \o d) \o b \in Seq(Symbols)
    BY <2>1, ConcatProperties
  <2>3. (((a \o d) \o b) \o d) \o c = ((a \o d) \o (b \o d)) \o c
    BY <2>1, <2>2, ConcatAssociative
  <2>4. ((a \o d) \o (b \o d)) \o c = (a \o d) \o ((b \o d) \o c)
    <3> DEFINE e == a \o d
               f == b \o d
    <3>1. e \in Seq(Symbols) /\ f \in Seq(Symbols)
      BY <2>2
    <3> HIDE DEF e, f
    <3>2. (e \o f) \o c = e \o (f \o c)
      BY <2>1, <3>1, ConcatAssociative
    <3> QED BY <3>2 DEF e, f
  <2> QED BY <2>3, <2>4 DEF a, b, c, d
<1>4. (p.val \o q.val) \o r.val = p.val \o (q.val \o r.val)
  <2> DEFINE a == p.val
             b == q.val
             c == r.val
             S == Things(kind)
  <2>1. a \in Seq(S) /\ b \in Seq(S) /\ c \in Seq(S)
    BY <1>1
  <2> HIDE DEF a, b, c, S
  <2>2. (a \o b) \o c = a \o (b \o c)
    BY <2>1, ConcatAssociative
  <2> QED BY <2>2 DEF a, b, c
<1>5. Higher(Higher(p.depth, q.depth), r.depth) = Higher(p.depth, Higher(q.depth, r.depth))
  <2> DEFINE a == p.depth
             b == q.depth
             c == r.depth
  <2>1. a \in Nat /\ b \in Nat /\ c \in Nat
    BY <1>1
  <2> HIDE DEF a, b, c
  <2>2. Higher(Higher(a, b), c) = Higher(a, Higher(b, c))
    BY <2>1
  <2> QED BY <2>2 DEF a, b, c
<1>6. ((p.unique /\ q.unique) /\ r.unique) = (p.unique /\ (q.unique /\ r.unique))
  OBVIOUS
<1> HIDE DEF Higher
<1>7. Joined(Joined(p, q), r) =
        Phrase((p.toks \o <<"comma">> \o q.toks) \o <<"comma">> \o r.toks,
          (p.val \o q.val) \o r.val,
               Higher(Higher(p.depth, q.depth), r.depth), (p.unique /\ q.unique) /\ r.unique)
  BY Zenon DEF Joined, Phrase, Higher
<1>8. Joined(p, Joined(q, r)) =
        Phrase(p.toks \o <<"comma">> \o (q.toks \o <<"comma">> \o r.toks),
          p.val \o (q.val \o r.val),
               Higher(p.depth, Higher(q.depth, r.depth)), p.unique /\ (q.unique /\ r.unique))
  BY Zenon DEF Joined, Phrase, Higher
<1> QED BY <1>3, <1>4, <1>5, <1>6, <1>7, <1>8, Zenon

\* A list goes on with an item.
LEMMA AppendedIsList ==
  ASSUME NEW kind \in Kinds, NEW p, NEW q, IsList(kind, p), p # Nothing, IsItem(kind, q),
         Len(p.toks) + 1 + Len(q.toks) <= MaxSymbols
  PROVE  IsList(kind, Joined(p, q))
<1> DEFINE M == MaxSymbols
           m == Len(q.toks)
           Goes(n) == \A l : /\ IsList(kind, l) /\ l # Nothing /\ Len(l.toks) = n
                             /\ n + 1 + m <= M
                             => IsList(kind, Joined(l, q))
           Done == {n \in 0..M : Goes(n)}
<1>1. M \in Nat
  BY JSONAssumption
<1>2. Listed(kind, q, m) /\ m \in 0..M /\ IsList(kind, q)
  BY ItemTyped, ItemIsList
<1>3. q # Nothing
  BY <1>2, NothingIs DEF Listed, Worded
<1>4. ASSUME NEW n \in 0..M, \A k \in 0..(n - 1) : k \in Done PROVE Goes(n)
  <2> SUFFICES ASSUME NEW l, IsList(kind, l), l # Nothing, Len(l.toks) = n, n + 1 + m <= M
               PROVE  IsList(kind, Joined(l, q))
    OBVIOUS
  <2>1. CASE IsItem(kind, l)
    <3>1. Len(l.toks) + 1 + Len(q.toks) <= MaxSymbols
      OBVIOUS
    <3> QED BY <1>2, <1>3, <2>1, <3>1, JoinedIsList, Zenon
  <2>2. ASSUME NEW item, NEW list, IsItem(kind, item), IsList(kind, list), list # Nothing,
               Len(list.toks) < Len(l.toks), l = Joined(item, list)
        PROVE  IsList(kind, Joined(l, q))
    <3> DEFINE a == Len(item.toks)
               b == Len(list.toks)
    <3>1. Listed(kind, item, a) /\ a \in 0..M
      BY <2>2, ItemTyped, Zenon
    <3>2. Listed(kind, list, b) /\ b \in 0..M
      BY <2>2, ListTyped, Zenon
    <3>3. Joined(l, q) = Joined(item, Joined(list, q))
      <4>1. Joined(Joined(item, list), q) = Joined(item, Joined(list, q))
        <5> HIDE DEF a, b, m
        <5> QED BY <1>2, <3>1, <3>2, JoinedAssociative
      <4> QED BY <2>2, <4>1
    <3>4. a \in Nat /\ b \in Nat /\ m \in Nat
      BY <1>1, <1>2, <3>1, <3>2
    <3>5. Listed(kind, Joined(item, list), a + 1 + b)
            /\ Listed(kind, Joined(list, q), b + 1 + m)
      BY <1>2, <3>1, <3>2, <3>4, TypedJoined, Zenon
    <3>6. n = a + 1 + b /\ Len(Joined(list, q).toks) = b + 1 + m /\ Joined(list, q).toks # <<>>
      BY <2>2, <3>5, Zenon DEF Listed, Worded
    <3>7. b \in 0..(n - 1) /\ b + 1 + m <= M /\ a + 1 + (b + 1 + m) <= M
      <4> HIDE DEF M, a, b, m
      <4> QED BY <1>1, <3>4, <3>6
    <3>8. IsList(kind, Joined(list, q))
      BY <1>4, <2>2, <3>7
    <3>9. Joined(list, q) # Nothing
      BY <3>6, NothingIs
    <3>10. Len(item.toks) + 1 + Len(Joined(list, q).toks) <= MaxSymbols
      BY <3>6, <3>7
    <3>11. IsList(kind, Joined(item, Joined(list, q)))
      BY <2>2, <3>8, <3>9, <3>10, JoinedIsList, Zenon
    <3> QED BY <3>3, <3>11
  <2> QED BY <2>1, <2>2, ListCases
<1>5. \A n \in 0..M : n \in Done
  <2>1. \A n \in 0..M : (\A k \in 0..(n - 1) : k \in Done) => n \in Done
    <3> HIDE DEF Goes
    <3> QED BY <1>4
  <2> HIDE DEF Done, M
  <2> QED BY <1>1, <2>1, StrongInduction, Zenon
<1>6. Len(p.toks) \in 0..M
  BY ListTyped, Zenon
<1>7. Goes(Len(p.toks))
  <2> HIDE DEF Goes
  <2> QED BY <1>5, <1>6
<1> QED BY <1>7

-----------------------------------------------------------------------------
(* What a call has decoded, as a phrase *)

Good(p, k) == Unique(p) /\ p.depth <= k

ListKind(c) == IF c.kind = "object" THEN "object" ELSE "array"

\* What a value is to the call that waits for it, and what the call has of it.
ItemOf(c, v) == IF c.kind = "object" THEN Member(c.key, v) ELSE Element(v)
Thing(c, value) == IF c.kind = "object" THEN [key |-> c.key, val |-> value] ELSE value

\* The symbols of a call in front of the value it waits for, p those of before.
Comma(p) == IF p = Nothing THEN <<>> ELSE <<"comma">>
Name(c) == IF c.kind = "object" THEN <<c.key>> \o <<"colon">> ELSE <<>>
Before(c, p) == (p.toks \o Comma(p)) \o Name(c)

Added(p, q) == IF p = Nothing THEN q ELSE Joined(p, q)

\* A name is two symbols, and only members have one.
LEMMA NameIsSeq ==
  ASSUME NEW c, c.kind = "object" => c.key \in Strings
  PROVE  Name(c) \in Seq(Symbols) /\ Len(Name(c)) = IF c.kind = "object" THEN 2 ELSE 0
<1>1. CASE c.kind = "object"
  <2> DEFINE k == c.key
             d == "colon"
  <2>1. k \in Symbols /\ d \in Symbols
    BY <1>1, SymbolKinds
  <2> HIDE DEF k, d
  <2>2. <<d>> \in Seq(Symbols) /\ Len(<<d>>) = 1
    BY <2>1, SingletonIsSeq
  <2>3. <<k>> \o <<d>> \in Seq(Symbols) /\ Len(<<k>> \o <<d>>) = Len(<<d>>) + 1
    <3> DEFINE r == <<d>>
    <3>1. r \in Seq(Symbols)
      BY <2>2
    <3> HIDE DEF r
    <3>2. <<k>> \o r \in Seq(Symbols) /\ Len(<<k>> \o r) = Len(r) + 1
      BY <2>1, <3>1, Consed
    <3> QED BY <3>2 DEF r
  <2> QED BY <1>1, <2>2, <2>3 DEF Name, k, d
<1>2. CASE c.kind # "object"
  BY <1>2, EmptySeq DEF Name
<1> QED BY <1>1, <1>2

\* A comma is a sequence of symbols.
LEMMA CommaIsSeq ==
  ASSUME NEW p PROVE Comma(p) \in Seq(Symbols) /\ Len(Comma(p)) \in Nat
<1>1. "comma" \in Symbols
  BY SymbolKinds
<1>2. <<"comma">> \in Seq(Symbols) /\ <<>> \in Seq(Symbols)
  BY <1>1, SingletonIsSeq, EmptySeq
<1>3. Comma(p) \in Seq(Symbols)
  BY <1>2, Zenon DEF Comma
<1> QED BY <1>3, LenProperties

\* The value a call waits for makes an item of it, with the name in front.
LEMMA ItemOfIs ==
  ASSUME NEW c, c.kind = "object" => c.key \in Strings, NEW v, IsValue(v), NEW k \in Int,
         Good(v, k),
         Len(Name(c)) + Len(v.toks) <= MaxSymbols
  PROVE  /\ IsItem(ListKind(c), ItemOf(c, v)) /\ Good(ItemOf(c, v), k)
         /\ ItemOf(c, v).toks = Name(c) \o v.toks
         /\ ItemOf(c, v).val = <<Thing(c, v.val)>>
<1>1. v.toks \in Seq(Symbols) /\ Len(v.toks) \in Nat
  <2>1. Worded(v, Len(v.toks))
    BY ValueTyped
  <2> QED BY <2>1, LenProperties DEF Worded
<1>2. CASE c.kind = "object"
  <2>1. Len(Name(c)) = 2
    BY <1>2, NameIsSeq
  <2>2. Len(v.toks) + 2 <= MaxSymbols
    BY <1>1, <2>1
  <2>3. IsItem("object", Member(c.key, v))
    BY <1>2, <2>2, MemberIsItem
  <2>4. /\ Member(c.key, v).toks = <<c.key>> \o (<<"colon">> \o v.toks)
        /\ Member(c.key, v).val = <<[key |-> c.key, val |-> v.val]>>
        /\ Member(c.key, v).depth = v.depth /\ Member(c.key, v).unique = v.unique
    BY <1>1, <1>2, MemberIs
  <2>5. <<c.key>> \o (<<"colon">> \o v.toks) = (<<c.key>> \o <<"colon">>) \o v.toks
    <3> DEFINE a == <<c.key>>
               b == <<"colon">>
               t == v.toks
    <3>1. c.key \in Symbols /\ "colon" \in Symbols
      BY <1>2, SymbolKinds
    <3>2. a \in Seq(Symbols) /\ b \in Seq(Symbols) /\ t \in Seq(Symbols)
      BY <1>1, <3>1, SingletonIsSeq
    <3> HIDE DEF a, b, t
    <3>3. (a \o b) \o t = a \o (b \o t)
      BY <3>2, ConcatAssociative
    <3> QED BY <3>3 DEF a, b, t
  <2> QED BY <1>2, <2>3, <2>4, <2>5, Zenon DEF ListKind, ItemOf, Thing, Name, Good, Unique
<1>3. CASE c.kind # "object"
  <2>1. IsItem("array", Element(v))
    BY ElementIsItem
  <2>2. /\ Element(v).toks = v.toks /\ Element(v).val = <<v.val>>
        /\ Element(v).depth = v.depth /\ Element(v).unique = v.unique
    BY Zenon DEF Element, Phrase
  <2>3. <<>> \o v.toks = v.toks
    BY <1>1, ConcatEmptySeq
  <2> QED BY <1>3, <2>1, <2>2, <2>3, Zenon DEF ListKind, ItemOf, Thing, Name, Good, Unique
<1> QED BY <1>2, <1>3

\* decodeStrict's value is a list of one, as decodeArray's are.
LEMMA ListKinds == ASSUME NEW c PROVE ListKind(c) \in Kinds
BY DEF ListKind, Kinds

\* What a call has read in front of the value it waits for.
LEMMA BeforeIsSeq ==
  ASSUME NEW c, c.kind = "object" => c.key \in Strings, NEW p, IsList(ListKind(c), p)
  PROVE  /\ Before(c, p) \in Seq(Symbols)
         /\ Len(Before(c, p)) = Len(p.toks) + Len(Comma(p)) + Len(Name(c))
<1>1. p.toks \in Seq(Symbols)
  BY ListKinds, ListTyped
<1> DEFINE a == p.toks
           b == Comma(p)
           n == Name(c)
<1>2. a \in Seq(Symbols) /\ b \in Seq(Symbols) /\ n \in Seq(Symbols)
  BY <1>1, NameIsSeq, CommaIsSeq
<1> HIDE DEF a, b, n
<1>3. a \o b \in Seq(Symbols) /\ Len(a \o b) = Len(a) + Len(b)
  BY <1>2, ConcatProperties
<1>4. (a \o b) \o n \in Seq(Symbols) /\ Len((a \o b) \o n) = Len(a \o b) + Len(n)
  BY <1>2, <1>3, ConcatProperties
<1> QED BY <1>3, <1>4 DEF a, b, n, Before

\* A call that gets a value has decoded one phrase more.
LEMMA AddedIs ==
  ASSUME NEW c, c.kind = "object" => c.key \in Strings, NEW p, IsList(ListKind(c), p),
         NEW v, IsValue(v), NEW k \in Int, Good(p, k), Good(v, k),
         Len(Before(c, p)) + Len(v.toks) <= MaxSymbols
  PROVE  /\ IsList(ListKind(c), Added(p, ItemOf(c, v))) /\ Good(Added(p, ItemOf(c, v)), k)
         /\ Added(p, ItemOf(c, v)).toks = Before(c, p) \o v.toks
         /\ Added(p, ItemOf(c, v)).val = Append(p.val, Thing(c, v.val))
<1> DEFINE q == ItemOf(c, v)
           kind == ListKind(c)
<1>1. kind \in Kinds
  BY ListKinds
<1>2. /\ p.toks \in Seq(Symbols) /\ Len(p.toks) \in Nat /\ p.depth \in Nat /\ Flagged(p)
      /\ p.val \in Seq(Things(kind))
  BY <1>1, ListTyped, LenProperties
<1>3. v.toks \in Seq(Symbols) /\ Len(v.toks) \in Nat
  <2>1. Worded(v, Len(v.toks))
    BY ValueTyped
  <2> QED BY <2>1, LenProperties DEF Worded
<1>4. Name(c) \in Seq(Symbols) /\ Len(Name(c)) \in Nat
  BY NameIsSeq, LenProperties
<1>5. Len(Before(c, p)) = Len(p.toks) + Len(Comma(p)) + Len(Name(c)) /\ MaxSymbols \in Nat
  BY BeforeIsSeq, JSONAssumption
<1>6. Len(Name(c)) + Len(v.toks) <= MaxSymbols
  <2> DEFINE a == Len(Name(c))
             b == Len(v.toks)
             d == Len(p.toks)
             e == Len(Comma(p))
             f == Len(Before(c, p))
  <2>1. /\ a \in Nat /\ b \in Nat /\ d \in Nat /\ e \in Nat /\ f = d + e + a
        /\ f + b <= MaxSymbols
    BY <1>2, <1>3, <1>4, <1>5, CommaIsSeq
  <2>2. a + b <= MaxSymbols
    <3> HIDE DEF a, b, d, e, f
    <3> QED BY <1>5, <2>1
  <2> QED BY <2>2
<1>7. /\ IsItem(kind, q) /\ Good(q, k) /\ q.toks = Name(c) \o v.toks
      /\ q.val = <<Thing(c, v.val)>>
  BY <1>6, ItemOfIs
<1>8. Listed(kind, q, Len(q.toks)) /\ IsList(kind, q)
  BY <1>1, <1>7, ItemTyped, ItemIsList
<1>9. /\ q.toks \in Seq(Symbols) /\ q.depth \in Nat /\ Flagged(q) /\ q.val \in Seq(Things(kind))
  BY <1>8, Zenon DEF Listed, Worded
<1>10. Append(p.val, Thing(c, v.val)) = p.val \o q.val
  <2> DEFINE a == p.val
             x == Thing(c, v.val)
             S == Things(kind)
  <2>1. a \in Seq(S) /\ <<x>> \in Seq(S)
    BY <1>2, <1>7, <1>9
  <2> HIDE DEF a, x, S
  <2>2. <<x>>[1] \in S
    <3>1. Len(<<x>>) = 1
      OBVIOUS
    <3> QED BY <2>1, <3>1, ElementOfSeq
  <2>3. x \in S
    BY <2>2
  <2>4. Append(a, x) = a \o <<x>>
    BY <2>1, <2>3, AppendIsConcat
  <2> QED BY <1>7, <2>4 DEF a, x
<1>11. CASE p = Nothing
  <2>1. Added(p, q) = q /\ Comma(p) = <<>> /\ p.toks = <<>> /\ p.val = <<>>
    BY <1>11, NothingIs DEF Added, Comma
  <2>2. <<>> \o q.val = q.val /\ <<>> \o <<>> = <<>> /\ <<>> \o Name(c) = Name(c)
    <3> DEFINE a == q.val
               S == Things(kind)
               b == Name(c)
    <3>1. a \in Seq(S) /\ b \in Seq(Symbols) /\ <<>> \in Seq(Symbols)
      BY <1>4, <1>9
    <3> HIDE DEF a, b, S
    <3>2. <<>> \o a = a /\ <<>> \o b = b /\ <<>> \o <<>> = <<>>
      BY <3>1, ConcatEmptySeq
    <3> QED BY <3>2 DEF a, b
  <2>3. Before(c, p) = Name(c)
    BY <2>1, <2>2 DEF Before
  <2> QED BY <1>7, <1>8, <1>10, <2>1, <2>2, <2>3
<1>12. CASE p # Nothing
  <2>1. Added(p, q) = Joined(p, q) /\ Comma(p) = <<"comma">>
    BY <1>12 DEF Added, Comma
  <2>2. Joined(p, q).toks = p.toks \o <<"comma">> \o q.toks /\ Joined(p, q).val = p.val \o q.val
    BY JoinedIs
  <2>3. p.toks \o <<"comma">> \o q.toks = Before(c, p) \o v.toks
    <3> DEFINE a == p.toks \o <<"comma">>
               b == Name(c)
               t == v.toks
    <3>1. a \in Seq(Symbols) /\ b \in Seq(Symbols) /\ t \in Seq(Symbols)
      BY <1>2, <1>3, <1>4, <2>1, CommaIsSeq, ConcatProperties
    <3>2. q.toks = b \o t /\ Before(c, p) = a \o b
      BY <1>7, <2>1 DEF Before
    <3>3. p.toks \o <<"comma">> \o q.toks = a \o (b \o t)
      BY <3>2
    <3> HIDE DEF a, b, t
    <3>4. (a \o b) \o t = a \o (b \o t)
      BY <3>1, ConcatAssociative
    <3> QED BY <3>2, <3>3, <3>4 DEF t
  <2>4. IsList(kind, Joined(p, q))
    <3>1. Len(<<"comma">>) = 1
      OBVIOUS
    <3>2. Len(q.toks) = Len(Name(c)) + Len(v.toks)
      BY <1>3, <1>4, <1>7, ConcatProperties
    <3>3. Len(p.toks) + 1 + Len(q.toks) <= MaxSymbols
      <4> DEFINE a == Len(Name(c))
                 b == Len(v.toks)
                 d == Len(p.toks)
                 f == Len(Before(c, p))
                 e == Len(q.toks)
      <4>1. /\ a \in Nat /\ b \in Nat /\ d \in Nat /\ f = d + 1 + a /\ e = a + b
            /\ f + b <= MaxSymbols
        BY <1>2, <1>3, <1>4, <1>5, <2>1, <3>1, <3>2
      <4>2. d + 1 + e <= MaxSymbols
        <5> HIDE DEF a, b, d, e, f
        <5> QED BY <1>5, <4>1
      <4> QED BY <4>2
    <3> QED BY <1>1, <1>7, <1>12, <3>3, AppendedIsList
  <2>5. Good(Joined(p, q), k)
    <3>1. Unique(Joined(p, q))
      BY <1>2, <1>7, <1>9, JoinedFlag DEF Good
    <3>2. Joined(p, q).depth <= k
      BY <1>2, <1>7, <1>9, JoinedDepth DEF Good
    <3> QED BY <3>1, <3>2 DEF Good
  <2> QED BY <1>10, <2>1, <2>2, <2>3, <2>4, <2>5
<1> QED BY <1>11, <1>12

-----------------------------------------------------------------------------
(* The Decoder's tokens *)

\* The comma or colon that is due in a state, and the state behind it.
Mark(state) ==
  IF state \in {"arrayComma", "objectComma"} THEN <<"comma">>
  ELSE IF state = "objectColon" THEN <<"colon">> ELSE <<>>
Behind(state) ==
  IF state = "arrayComma" THEN "arrayValue" ELSE IF state = "objectComma" THEN "objectKey"
  ELSE IF state = "objectColon" THEN "objectValue" ELSE state

Read(t) == t.ok = TRUE

\* A token taken from the Decoder.
LEMMA TakenIs ==
  ASSUME NEW d, NEW state, NEW stack
  PROVE  /\ Read(Taken(d, state, stack)) /\ Taken(d, state, stack).tok = Head(d.rest)
         /\ Taken(d, state, stack).dec.rest = Tail(d.rest)
         /\ Taken(d, state, stack).dec.state = state /\ Taken(d, state, stack).dec.stack = stack
BY DEF Taken, Read

TakenAs(t, d, s, k) ==
  /\ Read(t) /\ t.tok = Head(d.rest) /\ t.dec.rest = Tail(d.rest)
  /\ t.dec.state = s /\ t.dec.stack = k

\* The same of a result that is one.
LEMMA TakenFields ==
  ASSUME NEW t, NEW d, NEW s, NEW k, t = Taken(d, s, k)
  PROVE  TakenAs(t, d, s, k)
BY DEF Taken, Read, TakenAs

\* A failure is no token.
LEMMA FailedIs == Failed.ok = FALSE /\ ~Read(Failed)
BY DEF Failed, Read

\* What SymbolToken returns, and when it fails.
LEMMA SymbolTokens ==
  ASSUME NEW e
  PROVE  /\ Head(e.rest) = "openArray" /\ ValueAllowed(e.state) =>
              SymbolToken(e) = Taken(e, "arrayStart", Append(e.stack, e.state))
         /\ Head(e.rest) = "openObject" /\ ValueAllowed(e.state) =>
              SymbolToken(e) = Taken(e, "objectStart", Append(e.stack, e.state))
         /\ Head(e.rest) = "closeArray" /\ e.state \in {"arrayStart", "arrayComma"} =>
              SymbolToken(e) = Taken(e, ValueEnd(Last(e.stack)), Front(e.stack))
         /\ Head(e.rest) = "closeObject" /\ e.state \in {"objectStart", "objectComma"} =>
              SymbolToken(e) = Taken(e, ValueEnd(Last(e.stack)), Front(e.stack))
         /\ Head(e.rest) \in Strings /\ e.state \in {"objectStart", "objectKey"} =>
              SymbolToken(e) = Taken(e, "objectColon", e.stack)
         /\ Head(e.rest) \in Strings \cup Scalars /\ ValueAllowed(e.state) =>
              SymbolToken(e) = Taken(e, ValueEnd(e.state), e.stack)
<1> DEFINE c == Head(e.rest)
<1>1. c \in Strings \cup Scalars
        => c \notin {"openArray", "openObject", "closeArray", "closeObject"}
  BY SymbolKinds
<1>2. ValueAllowed(e.state) => e.state \notin {"objectStart", "objectKey"}
  BY DEF ValueAllowed
<1>3. SymbolToken(e) =
        IF c = "openArray" THEN Opens(e, "arrayStart")
        ELSE IF c = "openObject" THEN Opens(e, "objectStart")
        ELSE IF c = "closeArray" THEN Closes(e, {"arrayStart", "arrayComma"})
        ELSE IF c = "closeObject" THEN Closes(e, {"objectStart", "objectComma"})
        ELSE IF c \in Strings /\ e.state \in {"objectStart", "objectKey"}
          THEN Taken(e, "objectColon", e.stack)
        ELSE IF c \in Strings \cup Scalars /\ ValueAllowed(e.state)
          THEN Taken(e, ValueEnd(e.state), e.stack)
        ELSE Failed
  BY DEF SymbolToken
<1> HIDE DEF c
<1>4. /\ c = "openArray" /\ ValueAllowed(e.state) =>
           SymbolToken(e) = Taken(e, "arrayStart", Append(e.stack, e.state))
      /\ c = "openObject" /\ ValueAllowed(e.state) =>
           SymbolToken(e) = Taken(e, "objectStart", Append(e.stack, e.state))
      /\ c = "closeArray" /\ e.state \in {"arrayStart", "arrayComma"} =>
           SymbolToken(e) = Taken(e, ValueEnd(Last(e.stack)), Front(e.stack))
      /\ c = "closeObject" /\ e.state \in {"objectStart", "objectComma"} =>
           SymbolToken(e) = Taken(e, ValueEnd(Last(e.stack)), Front(e.stack))
  BY <1>3 DEF Opens, Closes
<1>5. c \in Strings /\ e.state \in {"objectStart", "objectKey"} =>
        SymbolToken(e) = Taken(e, "objectColon", e.stack)
  BY <1>1, <1>3
<1>6. c \in Strings \cup Scalars /\ ValueAllowed(e.state) =>
        SymbolToken(e) = Taken(e, ValueEnd(e.state), e.stack)
  BY <1>1, <1>2, <1>3
<1> QED BY <1>4, <1>5, <1>6 DEF c

\* A token that is read is in its place.
LEMMA SymbolTokenFits ==
  ASSUME NEW e, SymbolToken(e) # Failed
  PROVE  \/ Head(e.rest) \in {"openArray", "openObject"} /\ ValueAllowed(e.state)
         \/ Head(e.rest) = "closeArray" /\ e.state \in {"arrayStart", "arrayComma"}
         \/ Head(e.rest) = "closeObject" /\ e.state \in {"objectStart", "objectComma"}
         \/ Head(e.rest) \in Strings /\ e.state \in {"objectStart", "objectKey"}
         \/ Head(e.rest) \in Strings \cup Scalars /\ ValueAllowed(e.state)
BY DEF SymbolToken, Opens, Closes

\* The symbol behind the comma or colon that is due.
LEMMA TokenBehind ==
  ASSUME NEW d, NEW c \in Symbols \ {"comma", "colon"}, NEW r \in Seq(Symbols),
         d.rest = Mark(d.state) \o (<<c>> \o r)
  PROVE  \E e : /\ Token(d) = SymbolToken(e) /\ e.rest = <<c>> \o r /\ Head(e.rest) = c
                /\ Tail(e.rest) = r /\ e.state = Behind(d.state) /\ e.stack = d.stack
<1> DEFINE t == <<c>> \o r
           e == SkipPunctuation(d)
<1>1. t \in Seq(Symbols) /\ t # <<>> /\ Head(t) = c /\ Tail(t) = r
  BY Consed
<1> HIDE DEF t
<1>2. d.rest = Mark(d.state) \o t
  BY DEF t
<1>3. e.rest = t /\ e.state = Behind(d.state) /\ e.stack = d.stack
  <2>1. CASE d.state \in {"arrayComma", "objectComma", "objectColon"}
    <3>1. PICK m \in {"comma", "colon"} : Mark(d.state) = <<m>>
            /\ StatePast(m, d.state) = Behind(d.state)
                                  /\ Behind(d.state) # d.state
      BY <2>1 DEF Mark, Behind, StatePast
    <3>2. m \in Symbols
      BY <3>1, SymbolKinds
    <3>3. d.rest # <<>> /\ Head(d.rest) = m /\ Tail(d.rest) = t
      <4>1. <<m>> \o t # <<>> /\ Head(<<m>> \o t) = m /\ Tail(<<m>> \o t) = t
        BY <1>1, <3>2, Consed
      <4>2. d.rest = <<m>> \o t
        BY <1>2, <3>1
      <4> QED BY <4>1, <4>2
    <3> QED BY <3>1, <3>3 DEF SkipPunctuation
  <2>2. CASE d.state \notin {"arrayComma", "objectComma", "objectColon"}
    <3>1. Mark(d.state) = <<>> /\ Behind(d.state) = d.state
      BY <2>2 DEF Mark, Behind
    <3>2. d.rest = t
      BY <1>1, <1>2, <3>1, ConcatEmptySeq
    <3>3. StatePast(Head(d.rest), d.state) = d.state
      BY <2>2 DEF StatePast
    <3> QED BY <3>1, <3>2, <3>3 DEF SkipPunctuation
  <2> QED BY <2>1, <2>2
<1>4. Token(d) = SymbolToken(e)
  BY <1>1, <1>3 DEF Token
<1> HIDE DEF e
<1> QED BY <1>1, <1>3, <1>4 DEF t

\* A symbol that is no comma and no colon.
LEMMA TokenHere ==
  ASSUME NEW d, d.rest # <<>>, Head(d.rest) \notin {"comma", "colon"}
  PROVE  Token(d) = SymbolToken(d)
BY DEF Token, SkipPunctuation, StatePast

\* A token is at the head, or behind a comma or colon that is due.
LEMMA TokenFrom ==
  ASSUME NEW d, d.rest \in Seq(Symbols), Token(d) # Failed
  PROVE  \E e : /\ Token(d) = SymbolToken(e) /\ e.rest \in Seq(Symbols) /\ e.rest # <<>>
                /\ e.stack = d.stack
                /\ \/ d.rest = e.rest /\ e.state = d.state
                   \/ d.rest = Mark(d.state) \o e.rest /\ e.state = Behind(d.state)
<1> DEFINE e == SkipPunctuation(d)
<1>1. Token(d) = SymbolToken(e) /\ e.rest # <<>>
  BY DEF Token
<1>2. CASE d.rest # <<>> /\ StatePast(Head(d.rest), d.state) # d.state
  <2>1. /\ e.rest = Tail(d.rest) /\ e.state = StatePast(Head(d.rest), d.state)
        /\ e.stack = d.stack
    BY <1>2 DEF SkipPunctuation
  <2>2. Mark(d.state) = <<Head(d.rest)>> /\ StatePast(Head(d.rest), d.state) = Behind(d.state)
    BY <1>2 DEF StatePast, Mark, Behind
  <2>3. d.rest = <<Head(d.rest)>> \o Tail(d.rest) /\ Tail(d.rest) \in Seq(Symbols)
    <3> DEFINE u == d.rest
    <3>1. u \in Seq(Symbols) /\ u # <<>>
      BY <1>2
    <3> HIDE DEF u
    <3>2. u = <<Head(u)>> \o Tail(u) /\ Tail(u) \in Seq(Symbols)
      BY <3>1, Uncons
    <3> QED BY <3>2 DEF u
  <2> HIDE DEF e
  <2> QED BY <1>1, <2>1, <2>2, <2>3
<1>3. CASE ~(d.rest # <<>> /\ StatePast(Head(d.rest), d.state) # d.state)
  <2>1. e = d
    BY <1>3 DEF SkipPunctuation
  <2> HIDE DEF e
  <2> QED BY <1>1, <2>1
<1> QED BY <1>2, <1>3

\* What decodeValue gets when it goes on, and what the Decoder is left with.
ValueRead(d, t) ==
  /\ Read(t)
  /\ t.tok \in Strings \cup Scalars =>
       t.dec.state = ValueEnd(Behind(d.state)) /\ t.dec.stack = d.stack
  /\ t.tok = "openArray" => t.dec.state = "arrayStart"
     /\ t.dec.stack = Append(d.stack, Behind(d.state))
  /\ t.tok = "openObject" => t.dec.state = "objectStart"
     /\ t.dec.stack = Append(d.stack, Behind(d.state))

\* The states in which a call waits for a value.
ValueDue == {"top", "arrayStart", "arrayComma", "objectColon"}

\* Behind the comma or colon that is due, a value is allowed.
LEMMA BehindValueDue ==
  ASSUME NEW state \in ValueDue
  PROVE  /\ ValueAllowed(Behind(state)) /\ state \notin {"objectStart", "objectKey"}
         /\ ValueAllowed(state) => Behind(state) = state /\ Mark(state) = <<>>
BY DEF ValueDue, ValueAllowed, Behind, Mark

\* Where a value is due and one begins, Token reads its first symbol.
LEMMA ValueTokenReads ==
  ASSUME NEW d, d.state \in ValueDue, NEW r \in Seq(Symbols),
         NEW c \in Strings \cup Scalars \cup {"openArray", "openObject"},
         d.rest = Mark(d.state) \o (<<c>> \o r)
  PROVE  ValueRead(d, Token(d)) /\ Token(d).tok = c /\ Token(d).dec.rest = r
<1>1. c \in Symbols \ {"comma", "colon"}
        /\ (c \in Strings \cup Scalars => c \notin {"openArray", "openObject"})
  BY SymbolKinds
<1>2. PICK e : /\ Token(d) = SymbolToken(e) /\ e.rest = <<c>> \o r /\ Head(e.rest) = c
               /\ Tail(e.rest) = r /\ e.state = Behind(d.state) /\ e.stack = d.stack
  BY <1>1, TokenBehind
<1>3. ValueAllowed(e.state)
  BY <1>2, BehindValueDue
<1>4. CASE c \in Strings \cup Scalars
  <2>1. Token(d) = Taken(e, ValueEnd(e.state), e.stack)
    BY <1>2, <1>3, <1>4, SymbolTokens
  <2>2. /\ Read(Token(d)) /\ Token(d).tok = Head(e.rest) /\ Token(d).dec.rest = Tail(e.rest)
        /\ Token(d).dec.state = ValueEnd(e.state) /\ Token(d).dec.stack = e.stack
    BY <2>1, TakenIs
  <2>3. c \notin {"openArray", "openObject"}
    BY <1>1, <1>4
  <2> QED BY <1>2, <2>2, <2>3 DEF ValueRead
<1>5. CASE c = "openArray"
  <2>1. Token(d) = Taken(e, "arrayStart", Append(e.stack, e.state))
    BY <1>2, <1>3, <1>5, SymbolTokens
  <2>2. c \notin Strings \cup Scalars
    BY <1>1, <1>5
  <2>3. /\ Read(Token(d)) /\ Token(d).tok = Head(e.rest) /\ Token(d).dec.rest = Tail(e.rest)
        /\ Token(d).dec.state = "arrayStart" /\ Token(d).dec.stack = Append(e.stack, e.state)
    <3> DEFINE k == Append(e.stack, e.state)
    <3>1. Token(d) = Taken(e, "arrayStart", k)
      BY <2>1
    <3> HIDE DEF k
    <3>2. /\ Read(Token(d)) /\ Token(d).tok = Head(e.rest) /\ Token(d).dec.rest = Tail(e.rest)
          /\ Token(d).dec.state = "arrayStart" /\ Token(d).dec.stack = k
      BY <3>1, TakenIs
    <3> QED BY <3>2 DEF k
  <2> QED BY <1>2, <1>5, <2>2, <2>3 DEF ValueRead
<1>6. CASE c = "openObject"
  <2>1. Token(d) = Taken(e, "objectStart", Append(e.stack, e.state))
    BY <1>2, <1>3, <1>6, SymbolTokens
  <2>2. c \notin Strings \cup Scalars
    BY <1>1, <1>6
  <2>3. /\ Read(Token(d)) /\ Token(d).tok = Head(e.rest) /\ Token(d).dec.rest = Tail(e.rest)
        /\ Token(d).dec.state = "objectStart" /\ Token(d).dec.stack = Append(e.stack, e.state)
    <3> DEFINE k == Append(e.stack, e.state)
    <3>1. Token(d) = Taken(e, "objectStart", k)
      BY <2>1
    <3> HIDE DEF k
    <3>2. /\ Read(Token(d)) /\ Token(d).tok = Head(e.rest) /\ Token(d).dec.rest = Tail(e.rest)
          /\ Token(d).dec.state = "objectStart" /\ Token(d).dec.stack = k
      BY <3>1, TakenIs
    <3> QED BY <3>2 DEF k
  <2> QED BY <1>2, <1>6, <2>2, <2>3 DEF ValueRead
<1> QED BY <1>4, <1>5, <1>6

\* Where a value is due and Token reads one, a value begins there.
LEMMA ValueTokenFrom ==
  ASSUME NEW d, d.state \in ValueDue, d.rest \in Seq(Symbols),
         Read(Token(d)), Token(d).tok \notin {"closeArray", "closeObject"}
  PROVE  /\ ValueRead(d, Token(d))
            /\ Token(d).tok \in Strings \cup Scalars \cup {"openArray", "openObject"}
         /\ Token(d).dec.rest \in Seq(Symbols)
         /\ d.rest = Mark(d.state) \o (<<Token(d).tok>> \o Token(d).dec.rest)
<1> DEFINE t == Token(d)
<1>1. t # Failed
  BY FailedIs
<1>2. PICK e : /\ t = SymbolToken(e) /\ e.rest \in Seq(Symbols) /\ e.rest # <<>>
               /\ e.stack = d.stack
               /\ \/ d.rest = e.rest /\ e.state = d.state
                  \/ d.rest = Mark(d.state) \o e.rest /\ e.state = Behind(d.state)
  BY <1>1, TokenFrom
<1> DEFINE c == Head(e.rest)
           r == Tail(e.rest)
<1>3. /\ e.rest = <<c>> \o r /\ r \in Seq(Symbols)
  <2> DEFINE u == e.rest
  <2>1. u \in Seq(Symbols) /\ u # <<>>
    BY <1>2
  <2> HIDE DEF u
  <2>2. u = <<Head(u)>> \o Tail(u) /\ Tail(u) \in Seq(Symbols)
    BY <2>1, Uncons
  <2> QED BY <2>2 DEF u
<1>4. t.tok = c
  <2>1. \E state, stack : t = Taken(e, state, stack)
    BY <1>1, <1>2, SymbolTokenFits, SymbolTokens
  <2> QED BY <2>1 DEF Taken
<1>5. e.state \in {d.state, Behind(d.state)} /\ e.state \notin {"objectStart", "objectKey"}
  BY <1>2 DEF ValueDue, Behind
<1>6. c \in Strings \cup Scalars \cup {"openArray", "openObject"} /\ ValueAllowed(e.state)
  BY <1>1, <1>2, <1>4, <1>5, SymbolTokenFits
<1>7. d.rest = Mark(d.state) \o e.rest
  <2>1. CASE d.rest = e.rest /\ e.state = d.state
    <3>1. Mark(d.state) = <<>>
      BY <1>6, <2>1, BehindValueDue
    <3> QED BY <1>2, <2>1, <3>1, ConcatEmptySeq
  <2> QED BY <1>2, <2>1
<1> HIDE DEF c, r, t
<1>8. d.rest = Mark(d.state) \o (<<c>> \o r)
  BY <1>3, <1>7
<1>9. ValueRead(d, Token(d)) /\ Token(d).tok = c /\ Token(d).dec.rest = r
  BY <1>3, <1>6, <1>8, ValueTokenReads
<1> QED BY <1>3, <1>6, <1>8, <1>9

\* The key of a member.
KeyDue == {"objectStart", "objectComma"}
KeyRead(d, t) == Read(t) /\ t.dec.state = "objectColon" /\ t.dec.stack = d.stack

\* Where a name is due and there is one, Token reads it.
LEMMA KeyTokenReads ==
  ASSUME NEW d, d.state \in KeyDue, NEW r \in Seq(Symbols),
         NEW c \in Strings, d.rest = Mark(d.state) \o (<<c>> \o r)
  PROVE  KeyRead(d, Token(d)) /\ Token(d).tok = c /\ Token(d).dec.rest = r
<1>1. c \in Symbols \ {"comma", "colon"}
  BY SymbolKinds
<1>2. PICK e : /\ Token(d) = SymbolToken(e) /\ e.rest = <<c>> \o r /\ Head(e.rest) = c
               /\ Tail(e.rest) = r /\ e.state = Behind(d.state) /\ e.stack = d.stack
  BY <1>1, TokenBehind
<1>3. e.state \in {"objectStart", "objectKey"}
  BY <1>2 DEF Behind, KeyDue
<1>4. Token(d) = Taken(e, "objectColon", e.stack)
  BY <1>2, <1>3, SymbolTokens
<1>5. /\ Read(Token(d)) /\ Token(d).tok = Head(e.rest) /\ Token(d).dec.rest = Tail(e.rest)
      /\ Token(d).dec.state = "objectColon" /\ Token(d).dec.stack = e.stack
  BY <1>4, TakenIs
<1> QED BY <1>2, <1>5 DEF KeyRead

\* Where a name is due and Token reads one, there is one.
LEMMA KeyTokenFrom ==
  ASSUME NEW d, d.state \in KeyDue, d.rest \in Seq(Symbols),
         Read(Token(d)), Token(d).tok \in Strings
  PROVE  /\ Token(d).dec.rest \in Seq(Symbols)
         /\ d.rest = Mark(d.state) \o (<<Token(d).tok>> \o Token(d).dec.rest)
         /\ KeyRead(d, Token(d))
<1> DEFINE t == Token(d)
<1>1. t # Failed
  BY FailedIs
<1>2. PICK e : /\ t = SymbolToken(e) /\ e.rest \in Seq(Symbols) /\ e.rest # <<>>
               /\ e.stack = d.stack
               /\ \/ d.rest = e.rest /\ e.state = d.state
                  \/ d.rest = Mark(d.state) \o e.rest /\ e.state = Behind(d.state)
  BY <1>1, TokenFrom
<1> DEFINE c == Head(e.rest)
           r == Tail(e.rest)
<1>3. /\ e.rest = <<c>> \o r /\ r \in Seq(Symbols)
  <2> DEFINE u == e.rest
  <2>1. u \in Seq(Symbols) /\ u # <<>>
    BY <1>2
  <2> HIDE DEF u
  <2>2. u = <<Head(u)>> \o Tail(u) /\ Tail(u) \in Seq(Symbols)
    BY <2>1, Uncons
  <2> QED BY <2>2 DEF u
<1>4. t.tok = c
  <2>1. \E state, stack : t = Taken(e, state, stack)
    BY <1>1, <1>2, SymbolTokenFits, SymbolTokens
  <2> QED BY <2>1 DEF Taken
<1>5. c \in Strings /\ c \notin {"openArray", "openObject", "closeArray", "closeObject"}
  BY <1>4, SymbolKinds
<1>6. e.state \in {"objectStart", "objectComma", "objectKey"} /\ ~ValueAllowed(e.state)
  BY <1>2 DEF Behind, ValueAllowed, KeyDue
<1>7. e.state \in {"objectStart", "objectKey"}
  BY <1>1, <1>2, <1>5, <1>6, SymbolTokenFits
<1>8. d.rest = Mark(d.state) \o e.rest
  <2>1. CASE d.rest = e.rest /\ e.state = d.state
    <3>1. Mark(d.state) = <<>>
      BY <1>7, <2>1 DEF Mark, KeyDue
    <3> QED BY <1>2, <2>1, <3>1, ConcatEmptySeq
  <2> QED BY <1>2, <2>1
<1> HIDE DEF c, r, t
<1>9. d.rest = Mark(d.state) \o (<<c>> \o r)
  BY <1>3, <1>8
<1>10. KeyRead(d, Token(d)) /\ Token(d).tok = c /\ Token(d).dec.rest = r
  <2>1. c \in Strings /\ r \in Seq(Symbols)
    BY <1>3, <1>5
  <2>2. d.state \in KeyDue
    OBVIOUS
  <2> QED BY <1>9, <2>1, <2>2, KeyTokenReads
<1> QED BY <1>3, <1>9, <1>10

\* The closing token.
CloseDue(kind) ==
  IF kind = "array" THEN {"arrayStart", "arrayComma"} ELSE {"objectStart", "objectComma"}

\* Where a container may end and does, Token reads the closing token.
LEMMA CloseTokenReads ==
  ASSUME NEW d, NEW kind \in Kinds, NEW r \in Seq(Symbols), d.rest = <<Closer(kind)>> \o r,
         d.state \in CloseDue(kind)
  PROVE  /\ Read(Token(d)) /\ Token(d).dec.rest = r
         /\ Token(d).dec.state = ValueEnd(Last(d.stack)) /\ Token(d).dec.stack = Front(d.stack)
<1> DEFINE c == Closer(kind)
<1>1. c \in Symbols /\ c \notin {"comma", "colon"}
  BY SymbolKinds DEF Closer
<1> HIDE DEF c
<1>2. <<c>> \o r # <<>> /\ Head(<<c>> \o r) = c /\ Tail(<<c>> \o r) = r
  BY <1>1, Consed
<1>3. d.rest # <<>> /\ Head(d.rest) = c /\ Tail(d.rest) = r
  BY <1>2 DEF c
<1>4. Token(d) = SymbolToken(d)
  BY <1>1, <1>3, TokenHere
<1>5. SymbolToken(d) = Taken(d, ValueEnd(Last(d.stack)), Front(d.stack))
  BY <1>3, SymbolTokens DEF c, Closer, Kinds, CloseDue
<1>6. /\ Read(Token(d)) /\ Token(d).dec.rest = Tail(d.rest)
      /\ Token(d).dec.state = ValueEnd(Last(d.stack)) /\ Token(d).dec.stack = Front(d.stack)
  <2> DEFINE k == Front(d.stack)
             s == ValueEnd(Last(d.stack))
  <2>1. Token(d) = Taken(d, s, k)
    BY <1>4, <1>5
  <2> HIDE DEF k, s
  <2>2. /\ Read(Token(d)) /\ Token(d).dec.rest = Tail(d.rest)
        /\ Token(d).dec.state = s /\ Token(d).dec.stack = k
    <3>1. TakenAs(Token(d), d, s, k)
      BY <2>1, TakenFields, Zenon
    <3> QED BY <3>1, Zenon DEF TakenAs
  <2> QED BY <2>2 DEF k, s
<1> QED BY <1>3, <1>6

\* Where More says no and Token reads a token, the container ends there.
LEMMA CloseTokenFrom ==
  ASSUME NEW d, NEW kind \in Kinds, d.rest \in Seq(Symbols), ~More(d), Read(Token(d)),
         d.state \in CloseDue(kind)
  PROVE  /\ d.rest = <<Closer(kind)>> \o Token(d).dec.rest /\ Token(d).dec.rest \in Seq(Symbols)
         /\ Token(d).dec.state = ValueEnd(Last(d.stack)) /\ Token(d).dec.stack = Front(d.stack)
<1>1. Token(d) # Failed
  BY FailedIs
<1>2. d.rest # <<>>
  BY <1>1 DEF Token, SkipPunctuation
<1>3. Head(d.rest) \in {"closeArray", "closeObject"}
  BY <1>2 DEF More
<1>4. Token(d) = SymbolToken(d)
  BY <1>2, <1>3, TokenHere
<1>5. Head(d.rest) = Closer(kind)
  <2>1. Head(d.rest) \notin Strings \cup Scalars
    BY <1>3, SymbolKinds
  <2> QED BY <1>1, <1>3, <1>4, <2>1, SymbolTokenFits DEF Closer, Kinds, CloseDue
<1> DEFINE u == d.rest
<1>6. u \in Seq(Symbols) /\ u # <<>>
  BY <1>2
<1> HIDE DEF u
<1>7. u = <<Head(u)>> \o Tail(u) /\ Tail(u) \in Seq(Symbols)
  BY <1>6, Uncons
<1>8. d.rest = <<Closer(kind)>> \o Tail(u)
  BY <1>5, <1>7 DEF u
<1>9. /\ Token(d).dec.rest = Tail(u)
      /\ Token(d).dec.state = ValueEnd(Last(d.stack)) /\ Token(d).dec.stack = Front(d.stack)
  BY <1>7, <1>8, CloseTokenReads
<1> QED BY <1>7, <1>8, <1>9

-----------------------------------------------------------------------------
(* The calls and the Decoder *)

IsSeq(x) == \E S : x \in Seq(S)
Shaped(c) == c = [kind |-> c.kind, parts |-> c.parts, key |-> c.key]

\* decodeStrict's call is the first.
Frame(cs) ==
  /\ IsSeq(cs) /\ Len(cs) \in Nat \ {0}
  /\ \A j \in 1..Len(cs) :
       Shaped(cs[j]) /\ IF j = 1 THEN cs[j].kind = "document" ELSE cs[j].kind \in Kinds

\* The state the Decoder is in when a call is at a stage, and the one in which
\* it waits for a container that the call waits for.
Due(c, st) ==
  IF c.kind = "document" THEN "top"
  ELSE IF c.kind = "array" THEN IF c.parts = <<>> THEN "arrayStart" ELSE "arrayComma"
  ELSE IF st = "value" THEN "objectColon"
  ELSE IF c.parts = <<>> THEN "objectStart" ELSE "objectComma"
Waits(c) ==
  IF c.kind = "document" THEN "top"
  ELSE IF c.kind = "array" THEN IF c.parts = <<>> THEN "arrayStart" ELSE "arrayValue"
  ELSE "objectValue"

StackStates == {"top", "arrayStart", "arrayValue", "objectValue"}

InStep(cs, d, st) ==
  /\ d.rest \in Seq(Symbols) /\ d.state = Due(cs[Len(cs)], st)
  /\ d.stack \in Seq(StackStates) /\ Len(d.stack) = Len(cs) - 1
  /\ \A j \in 1..(Len(cs) - 1) : d.stack[j] = Waits(cs[j])

Replaced(cs, c) == [cs EXCEPT ![Len(cs)] = c]
Popped(cs) == SubSeq(cs, 1, Len(cs) - 1)

\* The calls when one more is under way.
LEMMA PushedCalls ==
  ASSUME NEW cs, Frame(cs), NEW c
  PROVE  /\ IsSeq(Append(cs, c)) /\ Len(Append(cs, c)) = Len(cs) + 1
         /\ \A j \in 1..Len(cs) : Append(cs, c)[j] = cs[j]
         /\ Append(cs, c)[Len(cs) + 1] = c
<1>1. PICK S : cs \in Seq(S)
  BY DEF Frame, IsSeq
<1> DEFINE U == S \cup {c}
<1>2. cs \in Seq(U) /\ c \in U
  BY <1>1, SeqMonotonic
<1> HIDE DEF U
<1>3. /\ Append(cs, c) \in Seq(U) /\ Len(Append(cs, c)) = Len(cs) + 1
      /\ \A j \in 1..Len(cs) : Append(cs, c)[j] = cs[j]
      /\ Append(cs, c)[Len(cs) + 1] = c
  BY <1>2, AppendProperties
<1> QED BY <1>3 DEF IsSeq

\* The calls when the innermost has gone on.
LEMMA ReplacedCalls ==
  ASSUME NEW cs, Frame(cs), NEW c
  PROVE  /\ IsSeq(Replaced(cs, c)) /\ Len(Replaced(cs, c)) = Len(cs)
         /\ \A j \in 1..(Len(cs) - 1) : Replaced(cs, c)[j] = cs[j]
         /\ Replaced(cs, c)[Len(cs)] = c
<1>1. PICK S : cs \in Seq(S)
  BY DEF Frame, IsSeq
<1> DEFINE U == S \cup {c}
           n == Len(cs)
<1>2. cs \in Seq(U) /\ c \in U /\ n \in 1..n /\ n \in Nat
  BY <1>1, SeqMonotonic DEF Frame
<1> HIDE DEF U
<1>3. /\ Replaced(cs, c) \in Seq(U) /\ Len(Replaced(cs, c)) = n
      /\ \A j \in 1..n : Replaced(cs, c)[j] = IF j = n THEN c ELSE cs[j]
  BY <1>2, ExceptSeq DEF Replaced
<1> QED BY <1>2, <1>3 DEF IsSeq

\* The calls when the innermost has returned.
LEMMA PoppedCalls ==
  ASSUME NEW cs, Frame(cs)
  PROVE  /\ IsSeq(Popped(cs)) /\ Len(Popped(cs)) = Len(cs) - 1
         /\ \A j \in 1..(Len(cs) - 1) : Popped(cs)[j] = cs[j]
<1>1. PICK S : cs \in Seq(S)
  BY DEF Frame, IsSeq
<1> DEFINE n == Len(cs)
<1>2. n \in Nat \ {0} /\ n - 1 \in 0..n
  BY DEF Frame
<1>3. /\ SubSeq(cs, 1, n - 1) \in Seq(S) /\ Len(SubSeq(cs, 1, n - 1)) = n - 1
      /\ \A j \in 1..(n - 1) : SubSeq(cs, 1, n - 1)[j] = cs[j]
  <2> DEFINE m == n - 1
  <2>1. m \in 0..Len(cs)
    BY <1>2
  <2> HIDE DEF m
  <2>2. /\ SubSeq(cs, 1, m) \in Seq(S) /\ Len(SubSeq(cs, 1, m)) = m
        /\ \A j \in 1..m : SubSeq(cs, 1, m)[j] = cs[j]
    BY <1>1, <2>1, PrefixIsSeq
  <2> QED BY <2>2 DEF m
<1> QED BY <1>3 DEF Popped, IsSeq

\* A call of decodeObject or decodeArray keeps decodeStrict's the first.
LEMMA FramePushed ==
  ASSUME NEW cs, Frame(cs), NEW kind \in Kinds
  PROVE  Frame(Append(cs, Call(kind)))
<1> DEFINE c == Call(kind)
           ds == Append(cs, c)
           n == Len(cs)
<1>1. Shaped(c) /\ c.kind = kind
  BY DEF Call, Shaped
<1> HIDE DEF c
<1>2. /\ IsSeq(ds) /\ Len(ds) = n + 1 /\ \A j \in 1..n : ds[j] = cs[j]
      /\ ds[n + 1] = c
  BY PushedCalls
<1> HIDE DEF ds
<1>3. n \in Nat \ {0}
  BY DEF Frame
<1>4. ASSUME NEW j \in 1..(n + 1)
      PROVE  Shaped(ds[j]) /\ IF j = 1 THEN ds[j].kind = "document" ELSE ds[j].kind \in Kinds
  <2>1. CASE j = n + 1
    BY <1>1, <1>2, <1>3, <2>1
  <2>2. CASE j # n + 1
    <3>1. j \in 1..n
      BY <1>3, <2>2
    <3> QED BY <1>2, <3>1 DEF Frame
  <2> QED BY <2>1, <2>2
<1>5. Frame(ds)
  BY <1>2, <1>3, <1>4 DEF Frame
<1> QED BY <1>5 DEF ds, c

\* A step of the innermost call keeps decodeStrict's the first.
LEMMA FrameReplaced ==
  ASSUME NEW cs, Frame(cs), NEW c, Shaped(c), c.kind = cs[Len(cs)].kind
  PROVE  Frame(Replaced(cs, c))
<1> DEFINE ds == Replaced(cs, c)
           n == Len(cs)
<1>1. /\ IsSeq(ds) /\ Len(ds) = n /\ \A j \in 1..(n - 1) : ds[j] = cs[j]
      /\ ds[n] = c
  BY ReplacedCalls
<1> HIDE DEF ds
<1>2. n \in Nat \ {0}
  BY DEF Frame
<1>3. ASSUME NEW j \in 1..n
      PROVE  Shaped(ds[j]) /\ IF j = 1 THEN ds[j].kind = "document" ELSE ds[j].kind \in Kinds
  <2>1. CASE j = n
    BY <1>1, <1>2, <2>1 DEF Frame
  <2>2. CASE j # n
    <3>1. j \in 1..(n - 1)
      BY <1>2, <2>2
    <3> QED BY <1>1, <3>1 DEF Frame
  <2> QED BY <2>1, <2>2
<1>4. Frame(ds)
  BY <1>1, <1>2, <1>3 DEF Frame
<1> QED BY <1>4 DEF ds

\* The return of decodeObject or decodeArray does.
LEMMA FramePopped ==
  ASSUME NEW cs, Frame(cs), cs[Len(cs)].kind # "document"
  PROVE  Frame(Popped(cs)) /\ Len(cs) - 1 \in Nat \ {0}
<1> DEFINE ds == Popped(cs)
           n == Len(cs)
<1>1. /\ IsSeq(ds) /\ Len(ds) = n - 1 /\ \A j \in 1..(n - 1) : ds[j] = cs[j]
  BY PoppedCalls
<1> HIDE DEF ds
<1>2. n \in Nat \ {0} /\ n # 1
  BY DEF Frame
<1>3. ASSUME NEW j \in 1..(n - 1)
      PROVE  Shaped(ds[j]) /\ IF j = 1 THEN ds[j].kind = "document" ELSE ds[j].kind \in Kinds
  <2>1. j \in 1..n
    BY <1>2
  <2> QED BY <1>1, <2>1 DEF Frame
<1>4. Frame(ds)
  BY <1>1, <1>2, <1>3 DEF Frame
<1> QED BY <1>2, <1>4 DEF ds

\* The call that gets a value.
LEMMA ReceiveIs ==
  ASSUME NEW c, Shaped(c), NEW value
  PROVE  /\ Shaped(Receive(c, value)) /\ Receive(c, value).kind = c.kind
         /\ Receive(c, value).key = c.key
         /\ Receive(c, value).parts = Append(c.parts, Thing(c, value))
<1>1. Receive(c, value) = [c EXCEPT !.parts = Append(c.parts, Thing(c, value))]
  BY DEF Receive, Thing
<1> DEFINE a == Append(c.parts, Thing(c, value))
<1>2. c = [kind |-> c.kind, parts |-> c.parts, key |-> c.key]
  BY DEF Shaped
<1>3. Receive(c, value) = [c EXCEPT !.parts = a]
  BY <1>1
<1> HIDE DEF a
<1>4. [c EXCEPT !.parts = a] = [kind |-> c.kind, parts |-> a, key |-> c.key]
  BY <1>2
<1> DEFINE r == Receive(c, value)
<1>5. r = [kind |-> c.kind, parts |-> a, key |-> c.key]
  BY <1>3, <1>4
<1> HIDE DEF r
<1>6. Shaped(r) /\ r.kind = c.kind /\ r.key = c.key /\ r.parts = a
  BY <1>5 DEF Shaped
<1> QED BY <1>6 DEF r, a

\* What the Decoder expects of a call at each stage.
LEMMA DueFacts ==
  ASSUME NEW c, c.kind \in {"document", "array", "object"}
  PROVE  /\ Due(c, "value") \in ValueDue /\ Behind(Due(c, "value")) = Waits(c)
         /\ Waits(c) \in StackStates
         /\ c.kind # "object" => Due(c, "value") = Due(c, "loop")
         /\ c.kind # "document" => Due(c, "loop") \in CloseDue(c.kind)
         /\ c.kind = "object" => Due(c, "loop") \in KeyDue /\ Due(c, "value") = "objectColon"
         /\ \A r : r.kind = c.kind /\ r.parts # <<>> => ValueEnd(Waits(c)) = Due(r, "loop")
BY DEF Due, ValueDue, Behind, Waits, StackStates, CloseDue, KeyDue, ValueEnd

\* Only the first call is decodeStrict's.
LEMMA FrameKinds ==
  ASSUME NEW cs, Frame(cs), NEW j \in 1..Len(cs)
  PROVE  /\ Shaped(cs[j]) /\ cs[j].kind \in {"document", "array", "object"}
         /\ cs[j].kind = "document" <=> j = 1
         /\ cs[j].kind # "document" => cs[j].kind \in Kinds
BY DEF Frame, Kinds

\* The Decoder is in step with a call that receives a scalar.
LEMMA InStepReceive ==
  ASSUME NEW cs, Frame(cs), NEW d, InStep(cs, d, "value"), NEW r,
         r.kind = cs[Len(cs)].kind, r.parts # <<>>,
         NEW e, e.rest \in Seq(Symbols), e.state = ValueEnd(Waits(cs[Len(cs)])),
         e.stack = d.stack
  PROVE  InStep(Replaced(cs, r), e, "loop")
<1> DEFINE ds == Replaced(cs, r)
           n == Len(cs)
<1>1. Len(ds) = n /\ ds[n] = r /\ \A j \in 1..(n - 1) : ds[j] = cs[j]
  BY ReplacedCalls
<1>2. n \in Nat \ {0} /\ n \in 1..n
  BY DEF Frame
<1>3. e.state = Due(r, "loop")
  <2>1. cs[n].kind \in {"document", "array", "object"}
    BY <1>2, FrameKinds
  <2> QED BY <2>1, DueFacts
<1> HIDE DEF ds
<1>4. InStep(ds, e, "loop")
  BY <1>1, <1>2, <1>3 DEF InStep
<1> QED BY <1>4 DEF ds

\* The Decoder is in step with a call that begins.
LEMMA InStepEnter ==
  ASSUME NEW cs, Frame(cs), NEW d, InStep(cs, d, "value"), NEW kind \in Kinds,
         NEW e, e.rest \in Seq(Symbols),
         e.state = IF kind = "array" THEN "arrayStart" ELSE "objectStart",
         e.stack = Append(d.stack, Waits(cs[Len(cs)]))
  PROVE  InStep(Append(cs, Call(kind)), e, "loop")
<1> DEFINE c == Call(kind)
           ds == Append(cs, c)
           n == Len(cs)
           w == Waits(cs[n])
           st == d.stack
           su == Append(st, w)
<1>1. /\ Len(ds) = n + 1 /\ \A j \in 1..n : ds[j] = cs[j]
      /\ ds[n + 1] = c
  BY PushedCalls
<1>2. n \in Nat \ {0} /\ n \in 1..n
  BY DEF Frame
<1>3. e.state = Due(c, "loop")
  BY DEF Call, Due, Kinds
<1>4. w \in StackStates
  <2>1. cs[n].kind \in {"document", "array", "object"}
    BY <1>2, FrameKinds
  <2> QED BY <2>1, DueFacts
<1>5. st \in Seq(StackStates) /\ Len(st) = n - 1 /\ \A j \in 1..(n - 1) : st[j] = Waits(cs[j])
  BY DEF InStep
<1>6. e.stack = su
  OBVIOUS
<1> HIDE DEF c, ds, st
<1>7. /\ su \in Seq(StackStates) /\ Len(su) = Len(st) + 1
      /\ \A j \in 1..Len(st) : su[j] = st[j]
      /\ su[Len(st) + 1] = w
  <2> HIDE DEF w
  <2> QED BY <1>4, <1>5, AppendProperties
<1> HIDE DEF su
<1>8. ASSUME NEW j \in 1..n PROVE su[j] = Waits(ds[j])
  <2>1. CASE j = n
    BY <1>1, <1>2, <1>5, <1>7, <2>1
  <2>2. CASE j # n
    <3>1. j \in 1..(n - 1)
      BY <1>2, <2>2
    <3> QED BY <1>1, <1>2, <1>5, <1>7, <3>1
  <2> QED BY <2>1, <2>2
<1>9. Len(ds) - 1 = n /\ Len(su) = n
  BY <1>1, <1>2, <1>5, <1>7
<1>10. InStep(ds, e, "loop")
  <2>1. ds[Len(ds)] = c
    BY <1>1
  <2> QED BY <1>3, <1>6, <1>7, <1>8, <1>9, <2>1 DEF InStep
<1> QED BY <1>10 DEF ds, c

\* The Decoder is in step with the call that a container is returned to.
LEMMA InStepClose ==
  ASSUME NEW cs, Frame(cs), NEW d, InStep(cs, d, "loop"), cs[Len(cs)].kind # "document",
         NEW r, r.kind = cs[Len(cs) - 1].kind, r.parts # <<>>,
         NEW e, e.rest \in Seq(Symbols), e.state = ValueEnd(Last(d.stack)),
         e.stack = Front(d.stack)
  PROVE  InStep(Replaced(Popped(cs), r), e, "loop")
<1> DEFINE ps == Popped(cs)
           ds == Replaced(ps, r)
           n == Len(cs)
           m == n - 1
           st == d.stack
<1>1. Frame(ps) /\ m \in Nat \ {0}
  BY FramePopped
<1>2. Len(ps) = m /\ \A j \in 1..m : ps[j] = cs[j]
  BY PoppedCalls
<1>3. /\ Len(ds) = Len(ps) /\ \A j \in 1..(Len(ps) - 1) : ds[j] = ps[j]
      /\ ds[Len(ps)] = r
  <2> HIDE DEF ps
  <2> QED BY <1>1, ReplacedCalls
<1>4. st \in Seq(StackStates) /\ Len(st) = m /\ \A j \in 1..m : st[j] = Waits(cs[j])
  BY DEF InStep
<1>5. Last(st) = st[m] /\ Front(st) = SubSeq(st, 1, m - 1)
  BY <1>4 DEF Last, Front
<1>6. m \in 1..m /\ m - 1 \in 0..m
  <2> HIDE DEF m
  <2> QED BY <1>1
<1>7. e.state = Due(r, "loop")
  <2>1. e.state = ValueEnd(Waits(cs[m]))
    BY <1>4, <1>5, <1>6
  <2>2. m \in 1..Len(cs)
    BY <1>1 DEF Frame
  <2>3. cs[m].kind \in {"document", "array", "object"}
    <3> HIDE DEF m
    <3> QED BY <2>2, FrameKinds
  <2> QED BY <2>1, <2>3, DueFacts
<1> HIDE DEF ds, ps, m, st
<1>8. /\ Front(st) \in Seq(StackStates) /\ Len(Front(st)) = m - 1
      /\ \A j \in 1..(m - 1) : Front(st)[j] = st[j]
  <2> DEFINE k == m - 1
  <2>1. k \in 0..Len(st)
    BY <1>4, <1>6
  <2> HIDE DEF k
  <2>2. /\ SubSeq(st, 1, k) \in Seq(StackStates) /\ Len(SubSeq(st, 1, k)) = k
        /\ \A j \in 1..k : SubSeq(st, 1, k)[j] = st[j]
    BY <1>4, <2>1, PrefixIsSeq
  <2> QED BY <1>5, <2>2 DEF k
<1>9. ASSUME NEW j \in 1..(m - 1) PROVE Front(st)[j] = Waits(ds[j])
  <2>1. j \in 1..m
    BY <1>1
  <2> QED BY <1>2, <1>3, <1>4, <1>8, <2>1
<1>10. e.stack = Front(st)
  BY DEF st
<1>11. InStep(ds, e, "loop")
  <2>1. Len(ds) = m /\ ds[Len(ds)] = r
    BY <1>2, <1>3
  <2> QED BY <1>7, <1>8, <1>9, <1>10, <2>1 DEF InStep
<1> QED BY <1>11 DEF ds, ps

\* The Decoder is in step with decodeObject when it has read a name.
LEMMA InStepMember ==
  ASSUME NEW cs, Frame(cs), NEW d, InStep(cs, d, "loop"), NEW r, r.kind = "object",
         NEW e, e.rest \in Seq(Symbols), e.state = "objectColon", e.stack = d.stack
  PROVE  InStep(Replaced(cs, r), e, "value")
<1> DEFINE ds == Replaced(cs, r)
           n == Len(cs)
<1>1. Len(ds) = n /\ ds[n] = r /\ \A j \in 1..(n - 1) : ds[j] = cs[j]
  BY ReplacedCalls
<1>2. n \in Nat \ {0}
  BY DEF Frame
<1>3. e.state = Due(r, "value")
  BY DEF Due
<1> HIDE DEF ds
<1>4. InStep(ds, e, "value")
  BY <1>1, <1>2, <1>3 DEF InStep
<1> QED BY <1>4 DEF ds

-----------------------------------------------------------------------------
(* What has been read of the document *)

\* A call can wait for a value.
Waiting(c) ==
  /\ c.kind = "object" => c.key \in Strings /\ ~Duplicate(c.parts, c.key)
  /\ c.kind = "document" => c.parts = <<>>

\* The phrase p that a call has decoded.
Decoded(c, p, k) ==
  /\ IsList(ListKind(c), p) /\ p.val = c.parts /\ Good(p, k)
  /\ c.kind = "object" => OwnNames(c.parts)
  /\ c.kind = "document" => p = Nothing \/ \E v : IsValue(v) /\ p = Element(v)

\* begun[j] is the document as far as the opening token of the j-th call.
Level(cs, begun, phrases, j) ==
  /\ begun[j] \in Seq(Symbols) /\ Decoded(cs[j], phrases[j], MaxDepth + 1 - j)
  /\ j = 1 => begun[j] = <<>>
  /\ j # 1 =>
       /\ Waiting(cs[j - 1])
       /\ begun[j] = (begun[j - 1] \o Before(cs[j - 1], phrases[j - 1]))
                       \o <<Opener(cs[j].kind)>>

Levels(cs, begun, phrases) ==
  Len(cs) <= MaxDepth + 1 /\ \A j \in 1..Len(cs) : Level(cs, begun, phrases, j)

\* What the innermost call has read at a stage.
SoFar(c, p, st) ==
  IF st = "value" /\ c.kind = "object" THEN (p.toks \o Comma(p)) \o <<c.key>> ELSE p.toks

Sound(cs, st, rest) ==
  /\ st = "value" => Waiting(cs[Len(cs)])
  /\ st = "loop" /\ cs[Len(cs)].kind = "document" => cs[Len(cs)].parts # <<>>
  /\ \E begun, phrases :
       /\ Levels(cs, begun, phrases)
       /\ document = (begun[Len(cs)] \o SoFar(cs[Len(cs)], phrases[Len(cs)], st)) \o rest

\* The comma or colon that is due completes what is in front of a value.
LEMMA MarkOfDue ==
  ASSUME NEW c, c.kind \in {"document", "array", "object"}, NEW p, NEW k, Decoded(c, p, k),
         Waiting(c)
  PROVE  SoFar(c, p, "value") \o Mark(Due(c, "value")) = Before(c, p)
<1>1. ListKind(c) \in Kinds
  BY ListKinds
<1>2. p.toks \in Seq(Symbols) /\ (c.parts = <<>> <=> p = Nothing)
  BY <1>1, ListTyped DEF Decoded
<1>3. Comma(p) \in Seq(Symbols) /\ Name(c) \in Seq(Symbols)
  BY CommaIsSeq, NameIsSeq DEF Waiting
<1> DEFINE a == p.toks
           b == Comma(p)
<1>4. a \o b \in Seq(Symbols)
  BY <1>2, <1>3, ConcatProperties
<1>5. CASE c.kind = "object"
  <2>1. Mark(Due(c, "value")) = <<"colon">> /\ Name(c) = <<c.key>> \o <<"colon">>
    BY <1>5 DEF Mark, Due, Name
  <2>2. c.key \in Symbols /\ "colon" \in Symbols
    BY <1>5, SymbolKinds DEF Waiting
  <2>3. <<c.key>> \in Seq(Symbols) /\ <<"colon">> \in Seq(Symbols)
    BY <2>2, SingletonIsSeq
  <2>4. ((a \o b) \o <<c.key>>) \o <<"colon">> = (a \o b) \o (<<c.key>> \o <<"colon">>)
    <3> DEFINE x == a \o b
               y == <<c.key>>
               z == <<"colon">>
    <3>1. x \in Seq(Symbols) /\ y \in Seq(Symbols) /\ z \in Seq(Symbols)
      BY <1>4, <2>3
    <3> HIDE DEF x, y, z
    <3>2. (x \o y) \o z = x \o (y \o z)
      BY <3>1, ConcatAssociative
    <3> QED BY <3>2 DEF x, y, z
  <2> QED BY <1>5, <2>1, <2>4 DEF SoFar, Before
<1>6. CASE c.kind # "object"
  <2>1. Name(c) = <<>> /\ SoFar(c, p, "value") = a
    BY <1>6 DEF Name, SoFar
  <2>2. Mark(Due(c, "value")) = b
    <3>1. CASE c.kind = "document"
      <4>1. b = <<>>
        BY <1>2, <3>1 DEF Waiting, Comma
      <4>2. Mark(Due(c, "value")) = <<>>
        BY <3>1 DEF Mark, Due
      <4> QED BY <4>1, <4>2
    <3>2. CASE c.kind = "array"
      <4>1. b = IF c.parts = <<>> THEN <<>> ELSE <<"comma">>
        BY <1>2 DEF Comma
      <4>2. Mark(Due(c, "value")) = IF c.parts = <<>> THEN <<>> ELSE <<"comma">>
        BY <3>2 DEF Mark, Due
      <4> QED BY <4>1, <4>2
    <3> QED BY <1>6, <3>1, <3>2
  <2>3. (a \o b) \o <<>> = a \o b
    BY <1>4, ConcatEmptySeq
  <2> QED BY <2>1, <2>2, <2>3 DEF Before
<1> QED BY <1>5, <1>6

\* What is known of the innermost call.
LEMMA LevelFacts ==
  ASSUME NEW cs, Frame(cs), NEW begun, NEW phrases, Levels(cs, begun, phrases)
  PROVE  /\ Len(cs) \in Nat \ {0} /\ Len(cs) \in 1..Len(cs) /\ Len(cs) <= MaxDepth + 1
         /\ MaxDepth \in Nat /\ MaxDepth + 1 - Len(cs) \in Int
         /\ begun[Len(cs)] \in Seq(Symbols)
         /\ Decoded(cs[Len(cs)], phrases[Len(cs)], MaxDepth + 1 - Len(cs))
         /\ cs[Len(cs)].kind \in {"document", "array", "object"}
<1>1. Len(cs) \in Nat \ {0} /\ Len(cs) \in 1..Len(cs)
  BY DEF Frame
<1>2. Level(cs, begun, phrases, Len(cs)) /\ Len(cs) <= MaxDepth + 1
  BY <1>1 DEF Levels
<1>3. MaxDepth \in Nat /\ MaxDepth + 1 - Len(cs) \in Int
  BY <1>1, JSONAssumption
<1> QED BY <1>1, <1>2, <1>3, FrameKinds DEF Level

\* The value stage, when the token in front of which a comma or colon may be
\* has been seen.
LEMMA ReadBefore ==
  ASSUME NEW cs, Frame(cs), NEW begun, NEW phrases, Levels(cs, begun, phrases),
         Waiting(cs[Len(cs)]), NEW r \in Seq(Symbols),
         document = (begun[Len(cs)] \o SoFar(cs[Len(cs)], phrases[Len(cs)], "value"))
                      \o (Mark(Due(cs[Len(cs)], "value")) \o r)
  PROVE  document = (begun[Len(cs)] \o Before(cs[Len(cs)], phrases[Len(cs)])) \o r
<1> DEFINE n == Len(cs)
           c == cs[n]
           p == phrases[n]
           b == begun[n]
           s == SoFar(c, p, "value")
           m == Mark(Due(c, "value"))
<1>1. b \in Seq(Symbols) /\ Decoded(c, p, MaxDepth + 1 - n)
        /\ c.kind \in {"document", "array", "object"}
  BY LevelFacts
<1>2. s \o m = Before(c, p)
  <2> HIDE DEF c, p, n
  <2>1. Waiting(c)
    BY DEF c, n
  <2> QED BY <1>1, <2>1, MarkOfDue
<1>3. s \in Seq(Symbols) /\ m \in Seq(Symbols)
  <2>1. "comma" \in Symbols /\ "colon" \in Symbols /\ (c.kind = "object" => c.key \in Symbols)
    BY SymbolKinds DEF Waiting
  <2>2. <<"comma">> \in Seq(Symbols) /\ <<"colon">> \in Seq(Symbols) /\ <<>> \in Seq(Symbols)
        /\ (c.kind = "object" => <<c.key>> \in Seq(Symbols))
    BY <2>1, SingletonIsSeq, EmptySeq
  <2>3. m \in Seq(Symbols)
    BY <2>2 DEF Mark
  <2>4. p.toks \in Seq(Symbols)
    BY <1>1, ListKinds, ListTyped DEF Decoded
  <2>5. p.toks \o Comma(p) \in Seq(Symbols)
    BY <2>4, CommaIsSeq, ConcatProperties
  <2>6. c.kind = "object" => (p.toks \o Comma(p)) \o <<c.key>> \in Seq(Symbols)
    BY <2>2, <2>5, ConcatProperties
  <2>7. s \in Seq(Symbols)
    BY <2>4, <2>6 DEF SoFar
  <2> QED BY <2>3, <2>7
<1>4. document = (b \o s) \o (m \o r)
  OBVIOUS
<1> HIDE DEF n, c, p, b, s, m
<1>5. b \o s \in Seq(Symbols)
  BY <1>1, <1>3, ConcatProperties
<1>6. (b \o s) \o (m \o r) = ((b \o s) \o m) \o r
  <2> DEFINE x == b \o s
  <2>1. x \in Seq(Symbols)
    BY <1>5
  <2> HIDE DEF x
  <2>2. x \o (m \o r) = (x \o m) \o r
    BY <1>3, <2>1, ConcatAssociative
  <2> QED BY <2>2 DEF x
<1>7. (b \o s) \o m = b \o (s \o m)
  BY <1>1, <1>3, ConcatAssociative
<1>8. document = (b \o Before(c, p)) \o r
  BY <1>2, <1>4, <1>6, <1>7
<1> QED BY <1>8 DEF n, c, p, b

\* A name that is no duplicate leaves every member a name of its own.
LEMMA OwnNamesAppend ==
  ASSUME NEW S, NEW ps \in Seq(S), OwnNames(ps), NEW x \in S, ~Duplicate(ps, x.key)
  PROVE  OwnNames(Append(ps, x))
<1> DEFINE a == Append(ps, x)
           n == Len(ps)
<1>1. /\ a \in Seq(S) /\ Len(a) = n + 1 /\ n \in Nat
      /\ \A j \in 1..n : a[j] = ps[j]
      /\ a[n + 1] = x
  BY AppendProperties, LenProperties
<1>2. DOMAIN a = 1..(n + 1) /\ DOMAIN ps = 1..n
  BY <1>1, LenProperties
<1> HIDE DEF a
<1>3. \A k \in 1..n : ps[k].key # x.key
  BY <1>2 DEF Duplicate
<1>4. ASSUME NEW j \in 1..(n + 1), NEW k \in 1..(n + 1), a[j].key = a[k].key PROVE j = k
  <2>1. CASE j = n + 1 /\ k = n + 1
    BY <2>1
  <2>2. CASE j = n + 1 /\ k # n + 1
    <3>1. k \in 1..n
      BY <1>1, <2>2
    <3> QED BY <1>1, <1>3, <1>4, <2>2, <3>1
  <2>3. CASE j # n + 1 /\ k = n + 1
    <3>1. j \in 1..n
      BY <1>1, <2>3
    <3> QED BY <1>1, <1>3, <1>4, <2>3, <3>1
  <2>4. CASE j # n + 1 /\ k # n + 1
    <3>1. j \in 1..n /\ k \in 1..n
      BY <1>1, <2>4
    <3>2. ps[j].key = ps[k].key
      BY <1>1, <1>4, <3>1
    <3> QED BY <1>2, <3>1, <3>2 DEF OwnNames
  <2> QED BY <2>1, <2>2, <2>3, <2>4
<1>5. OwnNames(a)
  BY <1>2, <1>4 DEF OwnNames
<1> QED BY <1>5 DEF a

\* The innermost call has decoded something else.
LEMMA LevelsReplaced ==
  ASSUME NEW cs, Frame(cs), NEW begun, NEW phrases, Levels(cs, begun, phrases),
         NEW r, r.kind = cs[Len(cs)].kind, NEW q, Decoded(r, q, MaxDepth + 1 - Len(cs))
  PROVE  \E new : Levels(Replaced(cs, r), begun, new) /\ new[Len(cs)] = q
<1> DEFINE ds == Replaced(cs, r)
           n == Len(cs)
           new == [j \in 1..n |-> IF j = n THEN q ELSE phrases[j]]
<1>1. Len(ds) = n /\ ds[n] = r /\ \A j \in 1..(n - 1) : ds[j] = cs[j]
  BY ReplacedCalls
<1>2. n \in Nat \ {0} /\ n \in 1..n /\ n <= MaxDepth + 1
  BY LevelFacts
<1>3. new[n] = q /\ \A j \in 1..(n - 1) : new[j] = phrases[j]
  BY <1>2
<1> HIDE DEF ds, new
<1>4. ASSUME NEW j \in 1..n PROVE Level(ds, begun, new, j)
  <2>1. Level(cs, begun, phrases, j)
    BY DEF Levels
  <2>2. j # 1 => j - 1 \in 1..(n - 1)
    BY <1>2
  <2>3. j # 1 => ds[j - 1] = cs[j - 1] /\ new[j - 1] = phrases[j - 1]
    BY <1>1, <1>3, <2>2
  <2>4. ds[j].kind = cs[j].kind /\ Decoded(ds[j], new[j], MaxDepth + 1 - j)
    <3>1. CASE j = n
      BY <1>1, <1>3, <3>1
    <3>2. CASE j # n
      <4>1. j \in 1..(n - 1)
        BY <1>2, <3>2
      <4>2. ds[j] = cs[j] /\ new[j] = phrases[j]
        BY <1>1, <1>3, <4>1
      <4> QED BY <2>1, <4>2 DEF Level
    <3> QED BY <3>1, <3>2
  <2> QED BY <2>1, <2>3, <2>4 DEF Level
<1>5. Levels(ds, begun, new)
  BY <1>1, <1>2, <1>4 DEF Levels
<1> QED BY <1>3, <1>5 DEF ds

\* The calls around the innermost.
LEMMA LevelsPopped ==
  ASSUME NEW cs, Frame(cs), NEW begun, NEW phrases, Levels(cs, begun, phrases)
  PROVE  Levels(Popped(cs), begun, phrases)
<1> DEFINE ds == Popped(cs)
           n == Len(cs)
<1>1. Len(ds) = n - 1 /\ \A j \in 1..(n - 1) : ds[j] = cs[j]
  BY PoppedCalls
<1>2. n \in Nat \ {0} /\ n <= MaxDepth + 1 /\ MaxDepth \in Nat
  BY LevelFacts
<1> HIDE DEF ds
<1>3. ASSUME NEW j \in 1..(n - 1) PROVE Level(ds, begun, phrases, j)
  <2>1. Level(cs, begun, phrases, j)
    BY <1>2 DEF Levels
  <2>2. ds[j] = cs[j] /\ (j # 1 => ds[j - 1] = cs[j - 1])
    BY <1>1, <1>2
  <2> QED BY <2>1, <2>2 DEF Level
<1>4. n - 1 <= MaxDepth + 1
  BY <1>2
<1>5. Levels(ds, begun, phrases)
  BY <1>1, <1>3, <1>4 DEF Levels
<1> QED BY <1>5 DEF ds

\* A call that begins has decoded the empty list.
LEMMA NothingDecoded ==
  ASSUME NEW kind \in Kinds, NEW k \in Nat
  PROVE  Decoded(Call(kind), Nothing, k)
<1> DEFINE c == Call(kind)
<1>1. c.kind = kind /\ c.parts = <<>>
  BY DEF Call
<1> HIDE DEF c
<1>2. IsList(ListKind(c), Nothing)
  BY ListKinds, NothingIsList
<1>3. Good(Nothing, k) /\ Nothing.val = c.parts
  BY <1>1, NothingIs DEF Good, Unique
<1>4. OwnNames(c.parts)
  BY <1>1 DEF OwnNames
<1>5. Decoded(c, Nothing, k)
  BY <1>2, <1>3, <1>4 DEF Decoded
<1> QED BY <1>5 DEF c

\* A call begins behind its opening token.
LEMMA LevelsPushed ==
  ASSUME NEW cs, Frame(cs), NEW begun, NEW phrases, Levels(cs, begun, phrases),
         Waiting(cs[Len(cs)]), NEW kind \in Kinds, Len(cs) <= MaxDepth
  PROVE  \E newBegun, new :
           /\ Levels(Append(cs, Call(kind)), newBegun, new) /\ new[Len(cs) + 1] = Nothing
           /\ newBegun[Len(cs) + 1] =
                (begun[Len(cs)] \o Before(cs[Len(cs)], phrases[Len(cs)])) \o <<Opener(kind)>>
<1> DEFINE c == Call(kind)
           ds == Append(cs, c)
           n == Len(cs)
           x == begun[n] \o Before(cs[n], phrases[n])
           o == x \o <<Opener(kind)>>
           newBegun == [j \in 1..(n + 1) |-> IF j = n + 1 THEN o ELSE begun[j]]
           new == [j \in 1..(n + 1) |-> IF j = n + 1 THEN Nothing ELSE phrases[j]]
<1>1. Len(ds) = n + 1 /\ ds[n + 1] = c /\ \A j \in 1..n : ds[j] = cs[j]
  BY PushedCalls
<1>2. n \in Nat \ {0} /\ n \in 1..n /\ MaxDepth \in Nat /\ begun[n] \in Seq(Symbols)
      /\ Decoded(cs[n], phrases[n], MaxDepth + 1 - n)
  BY LevelFacts
<1>3. c.kind = kind
  BY DEF Call
<1>4. o \in Seq(Symbols)
  <2>1. Before(cs[n], phrases[n]) \in Seq(Symbols)
    BY <1>2, BeforeIsSeq DEF Waiting, Decoded
  <2>2. x \in Seq(Symbols)
    BY <1>2, <2>1, ConcatProperties
  <2>3. Opener(kind) \in Symbols
    BY SymbolKinds DEF Opener
  <2>4. <<Opener(kind)>> \in Seq(Symbols)
    BY <2>3, SingletonIsSeq
  <2> HIDE DEF x
  <2> QED BY <2>2, <2>4, ConcatProperties
<1>5. Decoded(c, Nothing, MaxDepth + 1 - (n + 1))
  <2>1. MaxDepth + 1 - (n + 1) \in Nat
    BY <1>2
  <2> QED BY <2>1, NothingDecoded
<1> HIDE DEF x
<1>6. /\ new[n + 1] = Nothing /\ \A j \in 1..n : new[j] = phrases[j]
      /\ newBegun[n + 1] = o /\ \A j \in 1..n : newBegun[j] = begun[j]
  <2> HIDE DEF o
  <2> QED BY <1>2
<1>7. o = (begun[n] \o Before(cs[n], phrases[n])) \o <<Opener(c.kind)>>
  BY <1>3 DEF x
<1> HIDE DEF ds, new, newBegun, c, o
<1>8. ASSUME NEW j \in 1..(n + 1) PROVE Level(ds, newBegun, new, j)
  <2>1. CASE j = n + 1
    <3>1. /\ j # 1 /\ j - 1 = n /\ n \in 1..n /\ ds[j] = c /\ ds[j - 1] = cs[n]
          /\ new[j] = Nothing /\ newBegun[j] = o
          /\ newBegun[j - 1] = begun[n] /\ new[j - 1] = phrases[n]
      BY <1>1, <1>2, <1>6, <2>1
    <3> QED BY <1>4, <1>5, <1>7, <2>1, <3>1 DEF Level
  <2>2. CASE j # n + 1
    <3>1. j \in 1..n /\ (j # 1 => j - 1 \in 1..n)
      BY <1>2, <2>2
    <3>2. Level(cs, begun, phrases, j)
      BY <3>1 DEF Levels
    <3>3. /\ ds[j] = cs[j] /\ new[j] = phrases[j] /\ newBegun[j] = begun[j]
          /\ j # 1 => ds[j - 1] = cs[j - 1] /\ new[j - 1] = phrases[j - 1]
                      /\ newBegun[j - 1] = begun[j - 1]
      BY <1>1, <1>6, <3>1
    <3> QED BY <3>2, <3>3 DEF Level
  <2> QED BY <2>1, <2>2
<1>9. n + 1 <= MaxDepth + 1
  BY <1>2
<1>10. Levels(ds, newBegun, new)
  BY <1>1, <1>8, <1>9 DEF Levels
<1> QED BY <1>6, <1>7, <1>3, <1>10 DEF ds, c

WithinBound == document \in Seq(Symbols) /\ Len(document) <= MaxSymbols

\* A call that has got its value.
LEMMA DecodedReceive ==
  ASSUME NEW c, Shaped(c), c.kind \in {"document", "array", "object"}, NEW p, NEW k \in Int,
         Decoded(c, p, k), Waiting(c), NEW v, IsValue(v), Good(v, k),
         Len(Before(c, p)) + Len(v.toks) <= MaxSymbols
  PROVE  /\ Decoded(Receive(c, v.val), Added(p, ItemOf(c, v)), k)
         /\ Added(p, ItemOf(c, v)).toks = Before(c, p) \o v.toks
         /\ Receive(c, v.val).parts # <<>>
<1> DEFINE r == Receive(c, v.val)
           q == Added(p, ItemOf(c, v))
           t == Thing(c, v.val)
           S == Things(ListKind(c))
<1>1. /\ IsList(ListKind(c), q) /\ Good(q, k) /\ q.toks = Before(c, p) \o v.toks
      /\ q.val = Append(p.val, t)
  BY AddedIs DEF Decoded, Waiting
<1>2. r.kind = c.kind /\ r.parts = Append(c.parts, t)
  BY ReceiveIs
<1>3. ListKind(c) \in Kinds /\ ListKind(r) = ListKind(c)
  BY <1>2, ListKinds DEF ListKind
<1>4. p.val \in Seq(S) /\ q.val \in Seq(S) /\ p.val = c.parts
  BY <1>1, <1>3, ListTyped DEF Decoded
<1> HIDE DEF S, t
<1>5. q.val = r.parts
  BY <1>1, <1>2, <1>4
<1> HIDE DEF r, q
<1>6. r.parts # <<>>
  BY <1>2, <1>4
<1>7. c.kind = "object" => OwnNames(r.parts)
  <2> SUFFICES ASSUME c.kind = "object" PROVE OwnNames(r.parts)
    OBVIOUS
  <2>1. t.key = c.key /\ ~Duplicate(c.parts, t.key) /\ OwnNames(c.parts)
    BY DEF t, Thing, Waiting, Decoded
  <2>2. t \in S \cup {t} /\ c.parts \in Seq(S \cup {t})
    BY <1>4, SeqMonotonic
  <2> QED BY <1>2, <2>1, <2>2, OwnNamesAppend
<1>8. c.kind = "document" => q = Element(v)
  <2> SUFFICES ASSUME c.kind = "document" PROVE q = Element(v)
    OBVIOUS
  <2>1. p = Nothing
    BY <1>3, <1>4, ListTyped DEF Decoded, Waiting
  <2> QED BY <2>1 DEF q, Added, ItemOf
<1>9. Decoded(r, q, k)
  BY <1>1, <1>2, <1>3, <1>5, <1>7, <1>8 DEF Decoded
<1> QED BY <1>1, <1>6, <1>9 DEF r, q

\* The symbols of four sequences, and of a phrase with its brackets among others.
Regroup(a, b, c, d) ==
  /\ (a \o b) \o (c \o d) = (a \o (b \o c)) \o d
  /\ Len((a \o b) \o (c \o d)) = Len(a) + Len(b) + Len(c) + Len(d)
  /\ Len(a) \in Nat /\ Len(b) \in Nat /\ Len(c) \in Nat /\ Len(d) \in Nat
RegroupBrackets(x, o, t, e, r) ==
  /\ ((x \o o) \o t) \o (e \o r) = x \o (((o \o t) \o e) \o r)
  /\ Len(((x \o o) \o t) \o (e \o r)) = Len(x) + Len(o) + Len(t) + Len(e) + Len(r)
  /\ Len(x) \in Nat /\ Len(t) \in Nat /\ Len(r) \in Nat

\* The symbols of four sequences, however they are grouped.
LEMMA Regrouped ==
  ASSUME NEW a \in Seq(Symbols), NEW b \in Seq(Symbols), NEW c \in Seq(Symbols),
         NEW d \in Seq(Symbols)
  PROVE  Regroup(a, b, c, d)
<1> DEFINE x == a \o b
           y == c \o d
<1>1. x \in Seq(Symbols) /\ Len(x) = Len(a) + Len(b) /\ Len(a) \in Nat /\ Len(b) \in Nat
  BY ConcatParts
<1>2. y \in Seq(Symbols) /\ Len(y) = Len(c) + Len(d) /\ Len(c) \in Nat /\ Len(d) \in Nat
  BY ConcatParts
<1>3. x \o c = a \o (b \o c)
  BY ConcatAssociative
<1>4. x \o y = (x \o c) \o d
  <2>1. x \in Seq(Symbols)
    BY <1>1
  <2> HIDE DEF x, y
  <2>2. (x \o c) \o d = x \o (c \o d)
    BY <2>1, ConcatAssociative
  <2> QED BY <2>2 DEF y
<1> HIDE DEF x, y
<1>5. Len(x \o y) = Len(x) + Len(y)
  BY <1>1, <1>2, ConcatParts
<1>6. Len(x) + Len(y) = Len(a) + Len(b) + Len(c) + Len(d)
  BY <1>1, <1>2
<1> QED BY <1>1, <1>2, <1>3, <1>4, <1>5, <1>6 DEF x, y, Regroup

\* The symbols of a phrase in brackets, however they are grouped.
LEMMA RegroupedBrackets ==
  ASSUME NEW x \in Seq(Symbols), NEW o \in Seq(Symbols), NEW t \in Seq(Symbols),
         NEW e \in Seq(Symbols), NEW r \in Seq(Symbols)
  PROVE  RegroupBrackets(x, o, t, e, r)
<1> DEFINE xo == x \o o
           ot == o \o t
           ote == ot \o e
<1>1. /\ xo \in Seq(Symbols) /\ ot \in Seq(Symbols) /\ Len(xo) = Len(x) + Len(o)
      /\ Len(x) \in Nat /\ Len(o) \in Nat
  BY ConcatParts
<1>2. xo \o t = x \o ot
  BY ConcatAssociative
<1> HIDE DEF xo, ot
<1>3. Regroup(xo, t, e, r) /\ Regroup(x, ot, e, r)
  BY <1>1, Regrouped
<1>4. ote \in Seq(Symbols)
  BY <1>1, ConcatProperties
<1>5. (x \o ot) \o (e \o r) = (x \o ote) \o r
  BY <1>3 DEF Regroup
<1> HIDE DEF ote
<1>6. (x \o ote) \o r = x \o (ote \o r)
  BY <1>4, ConcatAssociative
<1>7. /\ Len((xo \o t) \o (e \o r)) = Len(xo) + Len(t) + Len(e) + Len(r)
      /\ Len(t) \in Nat /\ Len(e) \in Nat /\ Len(r) \in Nat
  BY <1>3 DEF Regroup
<1>8. Len(xo) + Len(t) + Len(e) + Len(r) = Len(x) + Len(o) + Len(t) + Len(e) + Len(r)
  BY <1>1, <1>7
<1>9. (xo \o t) \o (e \o r) = x \o (ote \o r)
  BY <1>2, <1>5, <1>6
<1> QED BY <1>1, <1>7, <1>8, <1>9 DEF xo, ot, ote, RegroupBrackets

\* A call that receives the value it waited for has read a longer list.
LEMMA SoundReceive ==
  ASSUME WithinBound, NEW cs, Frame(cs), NEW begun, NEW phrases, Levels(cs, begun, phrases),
         Waiting(cs[Len(cs)]), NEW v, IsValue(v), Good(v, MaxDepth + 1 - Len(cs)),
         NEW r \in Seq(Symbols),
         document = (begun[Len(cs)] \o Before(cs[Len(cs)], phrases[Len(cs)])) \o (v.toks \o r)
  PROVE  /\ Sound(Replaced(cs, Receive(cs[Len(cs)], v.val)), "loop", r)
         /\ Receive(cs[Len(cs)], v.val).parts # <<>>
<1> DEFINE n == Len(cs)
           c == cs[n]
           p == phrases[n]
           b == begun[n]
           f == Before(c, p)
           w == v.toks
           new == Receive(c, v.val)
           q == Added(p, ItemOf(c, v))
           ds == Replaced(cs, new)
           k == MaxDepth + 1 - n
<1>1. /\ b \in Seq(Symbols) /\ Decoded(c, p, k) /\ c.kind \in {"document", "array", "object"}
      /\ k \in Int /\ n \in 1..n
  BY LevelFacts
<1>2. Shaped(c) /\ Waiting(c) /\ Good(v, k)
  BY <1>1, FrameKinds
<1>3. f \in Seq(Symbols) /\ w \in Seq(Symbols)
  BY <1>1, <1>2, BeforeIsSeq, ValueTyped DEF Waiting, Decoded, Worded
<1>4. document = (b \o f) \o (w \o r)
  OBVIOUS
<1> HIDE DEF n, c, p, b, f, w, k
<1>5. Len(f) + Len(w) <= MaxSymbols /\ document = (b \o (f \o w)) \o r
  <2>1. /\ (b \o f) \o (w \o r) = (b \o (f \o w)) \o r
        /\ Len((b \o f) \o (w \o r)) = Len(b) + Len(f) + Len(w) + Len(r)
        /\ Len(b) \in Nat /\ Len(f) \in Nat /\ Len(w) \in Nat /\ Len(r) \in Nat
    <3>1. Regroup(b, f, w, r)
      BY <1>1, <1>3, Regrouped
    <3> QED BY <3>1 DEF Regroup
  <2>2. Len(document) = Len(b) + Len(f) + Len(w) + Len(r)
    BY <1>4, <2>1
  <2>3. Len(f) + Len(w) <= MaxSymbols
    BY <2>1, <2>2, JSONAssumption DEF WithinBound
  <2> QED BY <1>4, <2>1, <2>3
<1>6. Decoded(new, q, k) /\ q.toks = f \o w /\ new.parts # <<>>
  <2>1. Len(Before(c, p)) + Len(v.toks) <= MaxSymbols
    BY <1>5 DEF f, w
  <2> QED BY <1>1, <1>2, <2>1, DecodedReceive DEF f, w
<1>7. new.kind = c.kind
  BY <1>2, ReceiveIs
<1> HIDE DEF new, q
<1>8. PICK P : Levels(ds, begun, P) /\ P[n] = q
  <2>1. new.kind = cs[Len(cs)].kind /\ Decoded(new, q, MaxDepth + 1 - Len(cs))
    BY <1>6, <1>7 DEF c, n, k
  <2> QED BY <2>1, LevelsReplaced DEF n
<1>9. Len(ds) = n /\ ds[n] = new
  BY ReplacedCalls DEF n
<1> HIDE DEF ds
<1>10. SoFar(new, q, "loop") = q.toks
  BY DEF SoFar
<1>11. document = (begun[Len(ds)] \o SoFar(ds[Len(ds)], P[Len(ds)], "loop")) \o r
  BY <1>5, <1>6, <1>8, <1>9, <1>10 DEF b
<1>12. Sound(ds, "loop", r)
  BY <1>6, <1>8, <1>9, <1>11 DEF Sound
<1> QED BY <1>6, <1>12 DEF ds, new, c, n

\* A call that begins has read nothing behind its opening token.
LEMMA SoundEnter ==
  ASSUME WithinBound, NEW cs, Frame(cs), NEW begun, NEW phrases, Levels(cs, begun, phrases),
         Waiting(cs[Len(cs)]), NEW kind \in Kinds, Len(cs) <= MaxDepth,
         NEW r \in Seq(Symbols),
         document = (begun[Len(cs)] \o Before(cs[Len(cs)], phrases[Len(cs)]))
                      \o (<<Opener(kind)>> \o r)
  PROVE  Sound(Append(cs, Call(kind)), "loop", r)
<1> DEFINE n == Len(cs)
           c == Call(kind)
           ds == Append(cs, c)
           x == begun[n] \o Before(cs[n], phrases[n])
           o == <<Opener(kind)>>
<1>1. PICK B, P : /\ Levels(ds, B, P) /\ P[n + 1] = Nothing
                  /\ B[n + 1] = x \o o
  BY LevelsPushed
<1>2. begun[n] \in Seq(Symbols) /\ Decoded(cs[n], phrases[n], MaxDepth + 1 - n)
  BY LevelFacts
<1>3. x \in Seq(Symbols)
  <2>1. Before(cs[n], phrases[n]) \in Seq(Symbols)
    BY <1>2, BeforeIsSeq DEF Waiting, Decoded
  <2> QED BY <1>2, <2>1, ConcatProperties
<1>4. o \in Seq(Symbols)
  <2>1. Opener(kind) \in Symbols
    BY SymbolKinds DEF Opener
  <2> QED BY <2>1, SingletonIsSeq
<1>5. document = x \o (o \o r)
  OBVIOUS
<1>6. Len(ds) = n + 1 /\ ds[n + 1] = c
  BY PushedCalls
<1>7. c.kind # "document"
  BY DEF Call, Kinds
<1> HIDE DEF x, o, ds, c
<1> DEFINE y == x \o o
<1>8. x \o (o \o r) = y \o r /\ y \in Seq(Symbols)
  BY <1>3, <1>4, ConcatAssociative, ConcatProperties
<1> HIDE DEF y
<1>9. y \o <<>> = y
  BY <1>8, ConcatEmptySeq
<1>10. SoFar(c, Nothing, "loop") = <<>>
  BY NothingIs DEF SoFar
<1>11. B[n + 1] = y
  BY <1>1 DEF y
<1>12. document = (B[Len(ds)] \o SoFar(ds[Len(ds)], P[Len(ds)], "loop")) \o r
  BY <1>1, <1>5, <1>6, <1>8, <1>9, <1>10, <1>11
<1>13. Sound(ds, "loop", r)
  BY <1>1, <1>6, <1>7, <1>12 DEF Sound
<1> QED BY <1>13 DEF ds, c

\* A container in its brackets is the value that the outer call waited for.
LEMMA SoundClose ==
  ASSUME WithinBound, NEW cs, Frame(cs), NEW r \in Seq(Symbols), cs[Len(cs)].kind # "document",
         Sound(cs, "loop", <<Closer(cs[Len(cs)].kind)>> \o r)
  PROVE  /\ Sound(Replaced(Popped(cs), Receive(cs[Len(cs) - 1], Container(cs[Len(cs)]))),
            "loop", r)
         /\ Receive(cs[Len(cs) - 1], Container(cs[Len(cs)])).parts # <<>>
<1> DEFINE n == Len(cs)
           m == n - 1
           c == cs[n]
           kind == c.kind
           ps == Popped(cs)
           o == <<Opener(kind)>>
           e == <<Closer(kind)>>
<1>1. PICK B, P : /\ Levels(cs, B, P)
                  /\ document = (B[n] \o SoFar(c, P[n], "loop")) \o (e \o r)
  BY DEF Sound
<1> DEFINE p == P[n]
           t == p.toks
           v == Bracketed(kind, p)
           x == B[m] \o Before(cs[m], P[m])
<1>2. /\ n \in Nat \ {0} /\ n \in 1..n /\ n <= MaxDepth + 1 /\ MaxDepth \in Nat
      /\ B[n] \in Seq(Symbols) /\ Decoded(c, p, MaxDepth + 1 - n)
  BY <1>1, LevelFacts
<1>3. Frame(ps) /\ m \in Nat \ {0}
  BY FramePopped
<1>4. Levels(ps, B, P)
  BY <1>1, LevelsPopped
<1>5. Len(ps) = m /\ ps[m] = cs[m]
  <2>1. m \in 1..m
    <3> HIDE DEF m
    <3> QED BY <1>3
  <2> QED BY <2>1, PoppedCalls
<1>6. kind \in Kinds /\ ListKind(c) = kind
  <2>1. kind \in Kinds
    BY <1>2, FrameKinds
  <2> QED BY <2>1 DEF ListKind, Kinds
<1>7. Waiting(cs[m]) /\ B[n] = x \o o
  <2>1. Level(cs, B, P, n) /\ n # 1
    BY <1>1, <1>2, <1>3 DEF Levels
  <2> QED BY <2>1 DEF Level
<1>8. IsList(kind, p) /\ p.val = c.parts /\ Good(p, MaxDepth + 1 - n)
        /\ (kind = "object" => OwnNames(p.val))
  BY <1>2, <1>6 DEF Decoded
<1>9. t \in Seq(Symbols) /\ p.depth \in Nat /\ Flagged(p)
  BY <1>6, <1>8, ListTyped
<1>10. document = ((x \o o) \o t) \o (e \o r)
  BY <1>1, <1>7 DEF SoFar
<1>11. o \in Seq(Symbols) /\ e \in Seq(Symbols)
  <2>1. Opener(kind) \in Symbols /\ Closer(kind) \in Symbols
    BY SymbolKinds DEF Opener, Closer
  <2> QED BY <2>1, SingletonIsSeq
<1>12. x \in Seq(Symbols)
  <2>1. B[m] \in Seq(Symbols) /\ Decoded(cs[m], P[m], MaxDepth + 1 - m)
    <3>1. B[Len(ps)] \in Seq(Symbols)
            /\ Decoded(ps[Len(ps)], P[Len(ps)], MaxDepth + 1 - Len(ps))
      <4> HIDE DEF ps
      <4> QED BY <1>3, <1>4, LevelFacts
    <3> QED BY <1>5, <3>1
  <2>2. Before(cs[m], P[m]) \in Seq(Symbols)
    BY <1>7, <2>1, BeforeIsSeq DEF Waiting, Decoded
  <2> QED BY <2>1, <2>2, ConcatProperties
<1>13. v.toks = (o \o t) \o e /\ v.depth = p.depth + 1 /\ v.val = Container(c)
  <2>1. v.val = IF kind = "array" THEN [array |-> p.val] ELSE [object |-> p.val]
    BY <1>6, BracketedIs
  <2>2. v.val = Container(c)
    BY <1>8, <2>1 DEF Container
  <2>3. v.toks = (o \o t) \o e /\ v.depth = p.depth + 1
    BY <1>6, BracketedIs
  <2> QED BY <2>2, <2>3
<1>14. Good(v, MaxDepth + 1 - m)
  <2>1. Unique(v)
    <3> HIDE DEF p
    <3> QED BY <1>6, <1>8, <1>9, BracketedFlag DEF Good
  <2>2. v.depth <= MaxDepth + 1 - m
    <3>1. p.depth <= MaxDepth + 1 - n
      BY <1>8 DEF Good
    <3> QED BY <1>2, <1>9, <1>13, <3>1
  <2> QED BY <2>1, <2>2 DEF Good
<1>15. document = x \o (((o \o t) \o e) \o r) /\ Len(t) + 2 <= MaxSymbols
  <2> HIDE DEF x, o, t, e
  <2>1. /\ ((x \o o) \o t) \o (e \o r) = x \o (((o \o t) \o e) \o r)
        /\ Len(((x \o o) \o t) \o (e \o r)) = Len(x) + Len(o) + Len(t) + Len(e) + Len(r)
        /\ Len(x) \in Nat /\ Len(t) \in Nat /\ Len(r) \in Nat
    <3>1. RegroupBrackets(x, o, t, e, r)
      BY <1>9, <1>11, <1>12, RegroupedBrackets
    <3> QED BY <3>1 DEF RegroupBrackets
  <2>2. Len(document) = Len(x) + Len(o) + Len(t) + Len(e) + Len(r)
    BY <1>10, <2>1
  <2>3. Len(o) = 1 /\ Len(e) = 1
    BY DEF o, e
  <2>4. Len(t) + 2 <= MaxSymbols
    BY <2>1, <2>2, <2>3, JSONAssumption DEF WithinBound
  <2> QED BY <1>10, <2>1, <2>4
<1>16. IsValue(v)
  <2>1. Len(p.toks) + 2 <= MaxSymbols
    BY <1>15
  <2> HIDE DEF p
  <2> QED BY <1>6, <1>8, <2>1, BracketedIsValue
<1>17. document = x \o (v.toks \o r)
  BY <1>13, <1>15
<1> HIDE DEF v
<1>18. /\ Waiting(ps[Len(ps)]) /\ Good(v, MaxDepth + 1 - Len(ps))
       /\ document = (B[Len(ps)] \o Before(ps[Len(ps)], P[Len(ps)])) \o (v.toks \o r)
  <2>1. Len(ps) = m /\ ps[Len(ps)] = cs[m]
    BY <1>5
  <2> HIDE DEF ps, m
  <2> QED BY <1>7, <1>14, <1>17, <2>1 DEF x
<1>19. /\ Sound(Replaced(ps, Receive(ps[Len(ps)], v.val)), "loop", r)
       /\ Receive(ps[Len(ps)], v.val).parts # <<>>
  <2> HIDE DEF ps
  <2> QED BY <1>3, <1>4, <1>16, <1>18, SoundReceive
<1> QED BY <1>5, <1>13, <1>19

\* decodeArray has read as much when it calls decodeValue.
LEMMA SoundElement ==
  ASSUME NEW cs, NEW r, cs[Len(cs)].kind = "array", Sound(cs, "loop", r)
  PROVE  Sound(cs, "value", r)
<1> DEFINE c == cs[Len(cs)]
<1>1. PICK B, P : /\ Levels(cs, B, P)
                  /\ document = (B[Len(cs)] \o SoFar(c, P[Len(cs)], "loop")) \o r
  BY DEF Sound
<1>2. Waiting(c) /\ SoFar(c, P[Len(cs)], "loop") = SoFar(c, P[Len(cs)], "value")
  BY DEF Waiting, SoFar
<1> QED BY <1>1, <1>2 DEF Sound

\* decodeObject has read the name of a member.
Named(c, key) == [c EXCEPT !.key = key]

\* Only the name changes.
LEMMA NamedIs ==
  ASSUME NEW c, Shaped(c), NEW key
  PROVE  /\ Shaped(Named(c, key)) /\ Named(c, key).kind = c.kind
         /\ Named(c, key).parts = c.parts /\ Named(c, key).key = key
<1> DEFINE r == Named(c, key)
<1>1. c = [kind |-> c.kind, parts |-> c.parts, key |-> c.key]
  BY DEF Shaped
<1>2. r = [kind |-> c.kind, parts |-> c.parts, key |-> key]
  BY <1>1 DEF Named
<1> HIDE DEF r
<1>3. Shaped(r) /\ r.kind = c.kind /\ r.parts = c.parts /\ r.key = key
  BY <1>2 DEF Shaped
<1> QED BY <1>3 DEF r

\* decodeObject has read the name of a member, and the comma before it.
LEMMA SoundMember ==
  ASSUME WithinBound, NEW cs, Frame(cs), cs[Len(cs)].kind = "object", NEW r \in Seq(Symbols),
         NEW key \in Strings, ~Duplicate(cs[Len(cs)].parts, key),
         Sound(cs, "loop", Mark(Due(cs[Len(cs)], "loop")) \o (<<key>> \o r))
  PROVE  Sound(Replaced(cs, Named(cs[Len(cs)], key)), "value", r)
<1> DEFINE n == Len(cs)
           c == cs[n]
           new == Named(c, key)
           ds == Replaced(cs, new)
           m == Mark(Due(c, "loop"))
           y == <<key>>
<1>1. PICK B, P : /\ Levels(cs, B, P)
                  /\ document = (B[n] \o SoFar(c, P[n], "loop")) \o (m \o (y \o r))
  BY DEF Sound
<1> DEFINE p == P[n]
           b == B[n]
           t == p.toks
<1>2. b \in Seq(Symbols) /\ Decoded(c, p, MaxDepth + 1 - n) /\ n \in 1..n
  BY <1>1, LevelFacts
<1>3. Shaped(c)
  BY <1>2, FrameKinds
<1>4. new.kind = "object" /\ new.parts = c.parts /\ new.key = key
  BY <1>3, NamedIs
<1>5. Decoded(new, p, MaxDepth + 1 - n)
  <2> HIDE DEF new
  <2>1. ListKind(new) = ListKind(c)
    BY <1>4 DEF ListKind
  <2> QED BY <1>2, <1>4, <2>1 DEF Decoded
<1>6. Waiting(new)
  <2> HIDE DEF new
  <2> QED BY <1>4 DEF Waiting
<1>7. t \in Seq(Symbols) /\ (c.parts = <<>> <=> p = Nothing)
  BY <1>2, ListKinds, ListTyped DEF Decoded
<1>8. m = Comma(p)
  <2>1. m = IF c.parts = <<>> THEN <<>> ELSE <<"comma">>
    BY DEF Mark, Due
  <2> QED BY <1>7, <2>1 DEF Comma
<1>9. m \in Seq(Symbols) /\ y \in Seq(Symbols)
  <2>1. key \in Symbols
    BY SymbolKinds
  <2> QED BY <1>8, <2>1, CommaIsSeq, SingletonIsSeq
<1>10. document = (b \o t) \o (m \o (y \o r))
  BY <1>1 DEF SoFar
<1> HIDE DEF b, t, m, y, new
<1>11. document = (b \o ((t \o m) \o y)) \o r
  <2> DEFINE yr == y \o r
             tm == t \o m
             bt == b \o t
  <2>1. yr \in Seq(Symbols) /\ tm \in Seq(Symbols)
    BY <1>7, <1>9, ConcatProperties
  <2> HIDE DEF yr
  <2>2. bt \o (m \o yr) = (b \o tm) \o yr
    <3>1. Regroup(b, t, m, yr)
      BY <1>2, <1>7, <1>9, <2>1, Regrouped
    <3> QED BY <3>1 DEF Regroup
  <2> HIDE DEF tm
  <2>3. (b \o tm) \o (y \o r) = (b \o (tm \o y)) \o r
    <3>1. Regroup(b, tm, y, r)
      BY <1>2, <1>9, <2>1, Regrouped
    <3> QED BY <3>1 DEF Regroup
  <2> QED BY <1>10, <2>2, <2>3 DEF yr, tm
<1>12. PICK Q : Levels(ds, B, Q) /\ Q[n] = p
  <2>1. new.kind = cs[Len(cs)].kind /\ Decoded(new, p, MaxDepth + 1 - Len(cs))
    BY <1>4, <1>5
  <2> HIDE DEF p
  <2> QED BY <1>1, <2>1, LevelsReplaced
<1>13. Len(ds) = n /\ ds[n] = new
  BY ReplacedCalls
<1> HIDE DEF ds
<1>14. SoFar(new, p, "value") = (t \o m) \o y
  BY <1>4, <1>8 DEF SoFar, t, y
<1>15. document = (B[Len(ds)] \o SoFar(ds[Len(ds)], Q[Len(ds)], "value")) \o r
  BY <1>11, <1>12, <1>13, <1>14 DEF b
<1>16. Sound(ds, "value", r)
  BY <1>6, <1>12, <1>13, <1>15 DEF Sound
<1> QED BY <1>16 DEF ds, new

\* The profile: values with unique names that are not too deep.
LEMMA ProfileIs ==
  ASSUME NEW doc, NEW val
  PROVE  /\ (\E v : IsValue(v) /\ Good(v, MaxDepth) /\ v.toks = doc /\ v.val = val) =>
              [doc |-> doc, value |-> val] \in Profile
         /\ doc \in ProfileDocuments => \E v : IsValue(v) /\ Good(v, MaxDepth) /\ v.toks = doc
<1> DEFINE W == UNION {Grammar[n].values : n \in 0..MaxSymbols}
           G == {w \in W : w.unique /\ w.depth <= MaxDepth}
<1>1. \A w : w \in W <=> IsValue(w)
  BY DEF IsValue
<1>2. \A w : w \in G <=> IsValue(w) /\ Good(w, MaxDepth)
  <2> HIDE DEF W
  <2> TAKE w
  <2>1. CASE ~IsValue(w)
    BY <1>1, <2>1
  <2>2. CASE IsValue(w)
    <3>1. Flagged(w)
      BY <2>2, ValueTyped DEF Worded
    <3>2. w.unique <=> Unique(w)
      BY <3>1 DEF Flagged, Unique
    <3> QED BY <1>1, <2>2, <3>2 DEF Good
  <2> QED BY <2>1, <2>2
<1>3. Profile = {[doc |-> v.toks, value |-> v.val] : v \in G}
  BY DEF Profile
<1> HIDE DEF G, W
<1>4. doc \in ProfileDocuments => \E v \in G : v.toks = doc
  BY <1>3 DEF ProfileDocuments
<1>5. (\E v \in G : v.toks = doc /\ v.val = val) => [doc |-> doc, value |-> val] \in Profile
  BY <1>3
<1> QED BY <1>2, <1>4, <1>5

\* When nothing is left, decodeStrict's value is what the document denotes.
LEMMA SoundEnd ==
  ASSUME NEW cs, Frame(cs), cs[Len(cs)].kind = "document", Sound(cs, "loop", <<>>)
  PROVE  [doc |-> document, value |-> cs[Len(cs)].parts[1]] \in Profile
<1> DEFINE c == cs[Len(cs)]
<1>1. Len(cs) \in 1..Len(cs)
  BY DEF Frame
<1>2. Len(cs) = 1
  BY <1>1, FrameKinds
<1>3. PICK B, P : /\ Levels(cs, B, P)
                  /\ document = (B[Len(cs)] \o SoFar(c, P[Len(cs)], "loop")) \o <<>>
  BY DEF Sound
<1> DEFINE p == P[1]
           t == p.toks
<1>4. B[1] = <<>> /\ Decoded(c, p, MaxDepth + 1 - 1)
  BY <1>1, <1>2, <1>3 DEF Levels, Level
<1>5. MaxDepth + 1 - 1 = MaxDepth
  BY JSONAssumption
<1>6. t \in Seq(Symbols) /\ p # Nothing
  BY <1>4, ListKinds, ListTyped DEF Decoded, Sound
<1>7. PICK v : IsValue(v) /\ p = Element(v)
  BY <1>4, <1>6 DEF Decoded
<1>8. document = t
  <2>1. document = (<<>> \o t) \o <<>>
    BY <1>2, <1>3, <1>4 DEF SoFar
  <2> HIDE DEF t
  <2> QED BY <1>6, <2>1, ConcatEmptySeq
<1>9. t = v.toks /\ p.val = <<v.val>> /\ p.depth = v.depth /\ p.unique = v.unique
  BY <1>7 DEF Element, Phrase
<1>10. Good(v, MaxDepth)
  BY <1>4, <1>5, <1>9 DEF Decoded, Good, Unique
<1>11. c.parts[1] = v.val
  BY <1>4, <1>9 DEF Decoded
<1> QED BY <1>7, <1>8, <1>9, <1>10, <1>11, ProfileIs

\* decodeStrict has read nothing when it calls decodeValue.
LEMMA SoundStart ==
  ASSUME WithinBound
  PROVE  /\ Frame(<<Call("document")>>)
         /\ Sound(<<Call("document")>>, "value", document)
<1> DEFINE c == Call("document")
           cs == <<c>>
           B == <<<<>>>>
           P == <<Nothing>>
<1>1. Shaped(c) /\ c.kind = "document" /\ c.parts = <<>>
  BY DEF Call, Shaped
<1> HIDE DEF c
<1>2. cs \in Seq({c}) /\ Len(cs) = 1 /\ cs[1] = c
  BY SingletonIsSeq
<1>3. B[1] = <<>> /\ P[1] = Nothing
  OBVIOUS
<1> HIDE DEF cs, B, P
<1>4. Frame(cs)
  BY <1>1, <1>2 DEF Frame, IsSeq
<1>5. MaxDepth \in Nat /\ MaxDepth + 1 - 1 = MaxDepth /\ 1 <= MaxDepth + 1
  BY JSONAssumption
<1>6. Decoded(c, Nothing, MaxDepth)
  <2>1. IsList(ListKind(c), Nothing)
    BY ListKinds, NothingIsList
  <2>2. Good(Nothing, MaxDepth) /\ Nothing.val = c.parts
    BY <1>1, <1>5, NothingIs DEF Good, Unique
  <2> QED BY <1>1, <2>1, <2>2 DEF Decoded
<1>7. Level(cs, B, P, 1)
  <2>1. <<>> \in Seq(Symbols)
    BY EmptySeq
  <2> QED BY <1>2, <1>3, <1>5, <1>6, <2>1 DEF Level
<1>8. Levels(cs, B, P)
  BY <1>2, <1>5, <1>7 DEF Levels
<1>9. SoFar(c, Nothing, "value") = <<>>
  BY <1>1, NothingIs DEF SoFar
<1>10. document = (<<>> \o <<>>) \o document
  BY ConcatEmptySeq DEF WithinBound
<1>11. document = (B[Len(cs)] \o SoFar(cs[Len(cs)], P[Len(cs)], "value")) \o document
  BY <1>2, <1>3, <1>9, <1>10
<1>12. Waiting(cs[Len(cs)])
  BY <1>1, <1>2 DEF Waiting
<1>13. Sound(cs, "value", document)
  BY <1>8, <1>11, <1>12 DEF Sound
<1> QED BY <1>4, <1>13 DEF cs, c

-----------------------------------------------------------------------------
(* What is left of a document of the profile *)

\* What a call still reads after a value: the rest of its list, list, the end
\* of its container, and what the calls around it have to read.
Follow(list) == IF list = Nothing THEN <<>> ELSE <<"comma">> \o list.toks
End(c) == IF c.kind = "document" THEN <<>> ELSE <<Closer(c.kind)>>
Owed(c, list, outside) == Follow(list) \o (End(c) \o outside)

\* The list consists of an item, with the value v, and of others.
First(c, list, v, key, others) ==
  /\ c.kind = "object" =>
       /\ key \in Strings /\ list.toks = <<key>> \o (<<"colon">> \o (v.toks \o Follow(others)))
       /\ list.val = <<[key |-> key, val |-> v.val]>> \o others.val
  /\ c.kind # "object" =>
       list.toks = v.toks \o Follow(others) /\ list.val = <<v.val>> \o others.val

\* The rest of a list is a sequence of symbols.
LEMMA FollowIsSeq ==
  ASSUME NEW kind \in Kinds, NEW list, IsList(kind, list)
  PROVE  Follow(list) \in Seq(Symbols)
<1>1. list.toks \in Seq(Symbols) /\ "comma" \in Symbols
  BY ListTyped, SymbolKinds
<1>2. <<"comma">> \o list.toks \in Seq(Symbols)
  BY <1>1, Consed
<1>3. <<>> \in Seq(Symbols)
  BY EmptySeq
<1> QED BY <1>2, <1>3 DEF Follow

Associate(a, b, c) == (a \o b) \o c = a \o (b \o c)

\* Concatenation is associative.
LEMMA Associated ==
  ASSUME NEW a \in Seq(Symbols), NEW b \in Seq(Symbols), NEW c \in Seq(Symbols)
  PROVE  Associate(a, b, c)
BY ConcatAssociative DEF Associate

SplitAs(kind, list, k, item, others) ==
  /\ IsItem(kind, item) /\ Good(item, k) /\ IsList(kind, others) /\ Good(others, k)
  /\ list.toks = item.toks \o Follow(others) /\ list.val = item.val \o others.val

\* A list that is not empty begins with an item, and its parts are as good.
LEMMA Unjoined ==
  ASSUME NEW kind \in Kinds, NEW list, IsList(kind, list), list # Nothing, NEW k \in Int,
         Good(list, k)
  PROVE  \E item, others : SplitAs(kind, list, k, item, others)
<1>1. CASE IsItem(kind, list)
  <2>1. /\ list.toks \in Seq(Symbols) /\ list.val \in Seq(Things(kind)) /\ list.depth \in Nat
    BY ListTyped
  <2>2. IsList(kind, Nothing) /\ Follow(Nothing) = <<>> /\ Nothing.val = <<>>
    BY NothingIsList, NothingIs DEF Follow
  <2>3. list.toks = list.toks \o <<>> /\ list.val = list.val \o <<>>
    BY <2>1, ConcatEmptySeq
  <2>4. Good(Nothing, k)
    <3>1. list.depth <= k
      BY DEF Good
    <3>2. 0 <= k
      BY <2>1, <3>1
    <3> QED BY <3>2, NothingIs DEF Good, Unique
  <2>5. SplitAs(kind, list, k, list, Nothing)
    BY <1>1, <2>2, <2>3, <2>4 DEF SplitAs
  <2> QED BY <2>5
<1>2. CASE ~IsItem(kind, list)
  <2>1. PICK item, others : /\ IsItem(kind, item) /\ IsList(kind, others) /\ others # Nothing
                            /\ list = Joined(item, others)
    BY <1>2, ListCases
  <2>2. item.toks \in Seq(Symbols) /\ item.depth \in Nat /\ Flagged(item)
    BY <2>1, ItemTyped DEF Listed, Worded
  <2>3. others.toks \in Seq(Symbols) /\ others.depth \in Nat /\ Flagged(others)
    BY <2>1, ListTyped
  <2>4. list.toks = item.toks \o <<"comma">> \o others.toks /\ list.val = item.val \o others.val
    BY <2>1, JoinedIs
  <2>5. item.toks \o <<"comma">> \o others.toks = item.toks \o (<<"comma">> \o others.toks)
    <3>1. "comma" \in Symbols
      BY SymbolKinds
    <3> DEFINE x == item.toks
               y == others.toks
    <3>2. x \in Seq(Symbols) /\ y \in Seq(Symbols)
      BY <2>2, <2>3
    <3> HIDE DEF x, y
    <3>3. x \o <<"comma">> \o y = x \o (<<"comma">> \o y)
      BY <3>1, <3>2, Separated
    <3> QED BY <3>3 DEF x, y
  <2>6. Good(item, k) /\ Good(others, k)
    <3>1. Unique(item) /\ Unique(others)
      BY <2>1, <2>2, <2>3, JoinedFlag DEF Good
    <3>2. item.depth <= k /\ others.depth <= k
      <4>1. Joined(item, others).depth <= k
        BY <2>1 DEF Good
      <4> QED BY <2>2, <2>3, <4>1, JoinedDepth
    <3> QED BY <3>1, <3>2 DEF Good
  <2>7. SplitAs(kind, list, k, item, others)
    BY <2>1, <2>4, <2>5, <2>6 DEF Follow, SplitAs
  <2> QED BY <2>7
<1> QED BY <1>1, <1>2

\* That item is the value the call waits for next, behind its name.
LEMMA Unlisted ==
  ASSUME NEW c, NEW list, IsList(ListKind(c), list), list # Nothing, NEW k \in Int,
         Good(list, k)
  PROVE  \E v, key, others :
           /\ IsValue(v) /\ Good(v, k) /\ IsList(ListKind(c), others) /\ Good(others, k)
           /\ First(c, list, v, key, others)
<1> DEFINE kind == ListKind(c)
<1>1. kind \in Kinds
  BY ListKinds
<1>2. PICK item, others :
        /\ IsItem(kind, item) /\ Good(item, k) /\ IsList(kind, others) /\ Good(others, k)
        /\ list.toks = item.toks \o Follow(others) /\ list.val = item.val \o others.val
  <2>1. IsList(kind, list)
    OBVIOUS
  <2> HIDE DEF kind
  <2>2. \E item, others : SplitAs(kind, list, k, item, others)
    BY <1>1, <2>1, Unjoined
  <2> QED BY <2>2 DEF SplitAs
<1>3. CASE c.kind = "object"
  <2>1. kind = "object"
    BY <1>3 DEF ListKind
  <2>2. PICK key \in Strings : \E v : IsValue(v) /\ item = Member(key, v)
    BY <1>1, <1>2, <2>1, ItemCases
  <2>3. PICK v : IsValue(v) /\ item = Member(key, v)
    BY <2>2
  <2>4. v.toks \in Seq(Symbols)
    BY <2>3, ValueTyped DEF Worded
  <2>5. /\ item.toks = <<key>> \o (<<"colon">> \o v.toks)
        /\ item.val = <<[key |-> key, val |-> v.val]>>
        /\ item.depth = v.depth /\ item.unique = v.unique
    BY <2>3, <2>4, MemberIs
  <2>6. Good(v, k)
    BY <1>2, <2>5 DEF Good, Unique
  <2>7. list.toks = <<key>> \o (<<"colon">> \o (v.toks \o Follow(others)))
    <3> DEFINE x == v.toks
               y == Follow(others)
               a == <<key>>
               b == <<"colon">>
               bx == b \o x
    <3>1. x \in Seq(Symbols) /\ y \in Seq(Symbols)
      BY <1>1, <1>2, <2>4, FollowIsSeq
    <3>2. key \in Symbols /\ "colon" \in Symbols
      BY SymbolKinds
    <3>3. a \in Seq(Symbols) /\ b \in Seq(Symbols)
      BY <3>2, SingletonIsSeq
    <3> HIDE DEF x, y, a, b
    <3>4. bx \in Seq(Symbols)
      BY <3>1, <3>3, ConcatProperties
    <3>5. bx \o y = b \o (x \o y)
      BY <3>1, <3>3, ConcatAssociative
    <3> HIDE DEF bx
    <3>6. (a \o bx) \o y = a \o (bx \o y)
      <4>1. Associate(a, bx, y)
        BY <3>1, <3>3, <3>4, Associated
      <4> QED BY <4>1 DEF Associate
    <3>7. list.toks = (a \o bx) \o y
      BY <1>2, <2>5 DEF a, bx, b, x, y
    <3> QED BY <3>5, <3>6, <3>7 DEF a, b, x, y
  <2>8. First(c, list, v, key, others)
    BY <1>2, <1>3, <2>5, <2>7 DEF First
  <2> QED BY <1>2, <2>3, <2>6, <2>8
<1>4. CASE c.kind # "object"
  <2>1. kind = "array"
    BY <1>4 DEF ListKind
  <2>2. PICK v : IsValue(v) /\ item = Element(v)
    BY <1>1, <1>2, <2>1, ItemCases
  <2>3. item.toks = v.toks /\ item.val = <<v.val>> /\ item.depth = v.depth
          /\ item.unique = v.unique
    BY <2>2 DEF Element, Phrase
  <2>4. Good(v, k)
    BY <1>2, <2>3 DEF Good, Unique
  <2>5. First(c, list, v, v, others)
    BY <1>2, <1>4, <2>3 DEF First
  <2> QED BY <1>2, <2>2, <2>4, <2>5
<1> QED BY <1>3, <1>4

\* The list that a call has still to read.
Left(c, list, k) ==
  /\ IsList(ListKind(c), list) /\ Good(list, k)
  /\ c.kind = "document" => list = Nothing
  /\ c.kind = "object" =>
       /\ OwnNames(list.val)
       /\ \A j \in DOMAIN list.val : ~Duplicate(c.parts, list.val[j].key)

\* The member whose value the call waits for is none of them.
Pending(c, list) == c.kind = "object" => \A j \in DOMAIN list.val : list.val[j].key # c.key

\* outside[j] is what is behind the end of the j-th call.
Ahead(cs, lists, outside, j) ==
  /\ outside[j] \in Seq(Symbols) /\ Left(cs[j], lists[j], MaxDepth + 1 - j)
  /\ j = 1 => outside[j] = <<>>
  /\ j # 1 =>
       /\ Pending(cs[j - 1], lists[j - 1])
       /\ outside[j] = Owed(cs[j - 1], lists[j - 1], outside[j - 1])

AllAhead(cs, lists, outside) == \A j \in 1..Len(cs) : Ahead(cs, lists, outside, j)

ValueAhead(c, list, outside, k, rest) ==
  \E v : /\ IsValue(v) /\ Good(v, k)
         /\ rest = Mark(Due(c, "value")) \o (v.toks \o Owed(c, list, outside))

Complete(cs, st, rest) ==
  \E lists, outside :
    /\ AllAhead(cs, lists, outside)
    /\ st = "loop" =>
         rest = (IF cs[Len(cs)].parts = <<>> THEN lists[Len(cs)].toks
                 ELSE Follow(lists[Len(cs)]))
                  \o (End(cs[Len(cs)]) \o outside[Len(cs)])
    /\ st = "value" =>
         /\ Pending(cs[Len(cs)], lists[Len(cs)])
         /\ ValueAhead(cs[Len(cs)], lists[Len(cs)], outside[Len(cs)], MaxDepth + 1 - Len(cs),
            rest)

\* The end of a call is a sequence of symbols.
LEMMA EndIsSeq ==
  ASSUME NEW c PROVE End(c) \in Seq(Symbols)
<1>1. Closer(c.kind) \in Symbols
  BY SymbolKinds DEF Closer
<1>2. <<Closer(c.kind)>> \in Seq(Symbols) /\ <<>> \in Seq(Symbols)
  BY <1>1, SingletonIsSeq, EmptySeq
<1> QED BY <1>2 DEF End

\* What a call and those around it have to read is one.
LEMMA OwedIsSeq ==
  ASSUME NEW c, NEW list, NEW k, Left(c, list, k), NEW outside \in Seq(Symbols)
  PROVE  /\ End(c) \o outside \in Seq(Symbols) /\ Owed(c, list, outside) \in Seq(Symbols)
         /\ Follow(list) \in Seq(Symbols) /\ list.toks \in Seq(Symbols)
<1> DEFINE x == End(c) \o outside
           f == Follow(list)
<1>1. x \in Seq(Symbols)
  BY EndIsSeq, ConcatProperties
<1>2. f \in Seq(Symbols) /\ list.toks \in Seq(Symbols)
  BY ListKinds, FollowIsSeq, ListTyped DEF Left
<1>3. Owed(c, list, outside) = f \o x
  BY DEF Owed
<1> HIDE DEF x, f
<1>4. f \o x \in Seq(Symbols)
  BY <1>1, <1>2, ConcatProperties
<1> QED BY <1>1, <1>2, <1>3, <1>4 DEF x, f

\* What the innermost call has still to read.
LEMMA AheadFacts ==
  ASSUME NEW cs, Frame(cs), NEW lists, NEW outside, AllAhead(cs, lists, outside)
  PROVE  /\ Len(cs) \in Nat \ {0} /\ Len(cs) \in 1..Len(cs)
         /\ MaxDepth \in Nat /\ MaxDepth + 1 - Len(cs) \in Int
         /\ outside[Len(cs)] \in Seq(Symbols)
         /\ Left(cs[Len(cs)], lists[Len(cs)], MaxDepth + 1 - Len(cs))
         /\ cs[Len(cs)].kind \in {"document", "array", "object"} /\ Shaped(cs[Len(cs)])
<1>1. Len(cs) \in Nat \ {0} /\ Len(cs) \in 1..Len(cs)
  BY DEF Frame
<1>2. Ahead(cs, lists, outside, Len(cs))
  BY <1>1 DEF AllAhead
<1>3. MaxDepth \in Nat /\ MaxDepth + 1 - Len(cs) \in Int
  BY <1>1, JSONAssumption
<1> QED BY <1>1, <1>2, <1>3, FrameKinds DEF Ahead

\* The innermost call has less to read.
LEMMA AheadReplaced ==
  ASSUME NEW cs, Frame(cs), NEW lists, NEW outside, AllAhead(cs, lists, outside),
         NEW r, r.kind = cs[Len(cs)].kind, NEW q, Left(r, q, MaxDepth + 1 - Len(cs))
  PROVE  \E new : AllAhead(Replaced(cs, r), new, outside) /\ new[Len(cs)] = q
<1> DEFINE ds == Replaced(cs, r)
           n == Len(cs)
           new == [j \in 1..n |-> IF j = n THEN q ELSE lists[j]]
<1>1. Len(ds) = n /\ ds[n] = r /\ \A j \in 1..(n - 1) : ds[j] = cs[j]
  BY ReplacedCalls
<1>2. n \in Nat \ {0} /\ n \in 1..n
  BY AheadFacts
<1>3. new[n] = q /\ \A j \in 1..(n - 1) : new[j] = lists[j]
  BY <1>2
<1> HIDE DEF ds, new
<1>4. ASSUME NEW j \in 1..n PROVE Ahead(ds, new, outside, j)
  <2>1. Ahead(cs, lists, outside, j)
    BY DEF AllAhead
  <2>2. j # 1 => j - 1 \in 1..(n - 1)
    BY <1>2
  <2>3. j # 1 => ds[j - 1] = cs[j - 1] /\ new[j - 1] = lists[j - 1]
    BY <1>1, <1>3, <2>2
  <2>4. Left(ds[j], new[j], MaxDepth + 1 - j)
    <3>1. CASE j = n
      BY <1>1, <1>3, <3>1
    <3>2. CASE j # n
      <4>1. j \in 1..(n - 1)
        BY <1>2, <3>2
      <4>2. ds[j] = cs[j] /\ new[j] = lists[j]
        BY <1>1, <1>3, <4>1
      <4> QED BY <2>1, <4>2 DEF Ahead
    <3> QED BY <3>1, <3>2
  <2> QED BY <2>1, <2>3, <2>4 DEF Ahead
<1>5. AllAhead(ds, new, outside)
  BY <1>1, <1>2, <1>4 DEF AllAhead
<1> QED BY <1>3, <1>5 DEF ds

\* The calls around the innermost have as much to read.
LEMMA AheadPopped ==
  ASSUME NEW cs, Frame(cs), NEW lists, NEW outside, AllAhead(cs, lists, outside)
  PROVE  AllAhead(Popped(cs), lists, outside)
<1> DEFINE ds == Popped(cs)
           n == Len(cs)
<1>1. Len(ds) = n - 1 /\ \A j \in 1..(n - 1) : ds[j] = cs[j]
  BY PoppedCalls
<1>2. n \in Nat \ {0}
  BY AheadFacts
<1> HIDE DEF ds
<1>3. ASSUME NEW j \in 1..(n - 1) PROVE Ahead(ds, lists, outside, j)
  <2>1. Ahead(cs, lists, outside, j)
    BY <1>2 DEF AllAhead
  <2>2. ds[j] = cs[j] /\ (j # 1 => ds[j - 1] = cs[j - 1])
    BY <1>1, <1>2
  <2> QED BY <2>1, <2>2 DEF Ahead
<1>4. AllAhead(ds, lists, outside)
  BY <1>1, <1>3 DEF AllAhead
<1> QED BY <1>4 DEF ds

\* A call begins, with its list to read, inside the others.
LEMMA AheadPushed ==
  ASSUME NEW cs, Frame(cs), NEW lists, NEW outside, AllAhead(cs, lists, outside),
         Pending(cs[Len(cs)], lists[Len(cs)]), NEW c, NEW q,
         Left(c, q, MaxDepth + 1 - (Len(cs) + 1))
  PROVE  \E new, newOutside :
           /\ AllAhead(Append(cs, c), new, newOutside) /\ new[Len(cs) + 1] = q
           /\ newOutside[Len(cs) + 1] = Owed(cs[Len(cs)], lists[Len(cs)], outside[Len(cs)])
<1> DEFINE ds == Append(cs, c)
           n == Len(cs)
           o == Owed(cs[n], lists[n], outside[n])
           newOutside == [j \in 1..(n + 1) |-> IF j = n + 1 THEN o ELSE outside[j]]
           new == [j \in 1..(n + 1) |-> IF j = n + 1 THEN q ELSE lists[j]]
<1>1. Len(ds) = n + 1 /\ ds[n + 1] = c /\ \A j \in 1..n : ds[j] = cs[j]
  BY PushedCalls
<1>2. /\ n \in Nat \ {0} /\ n \in 1..n /\ outside[n] \in Seq(Symbols)
      /\ Left(cs[n], lists[n], MaxDepth + 1 - n)
  BY AheadFacts
<1>3. o \in Seq(Symbols)
  BY <1>2, OwedIsSeq
<1>4. /\ new[n + 1] = q /\ \A j \in 1..n : new[j] = lists[j]
      /\ newOutside[n + 1] = o /\ \A j \in 1..n : newOutside[j] = outside[j]
  <2> HIDE DEF o
  <2> QED BY <1>2
<1>5. o = Owed(cs[n], lists[n], outside[n])
  OBVIOUS
<1> HIDE DEF ds, new, newOutside, o
<1>6. ASSUME NEW j \in 1..(n + 1) PROVE Ahead(ds, new, newOutside, j)
  <2>1. CASE j = n + 1
    <3>1. /\ j # 1 /\ j - 1 = n /\ ds[j] = c /\ ds[j - 1] = cs[n]
          /\ new[j] = q /\ newOutside[j] = o
          /\ newOutside[j - 1] = outside[n] /\ new[j - 1] = lists[n]
      BY <1>1, <1>2, <1>4, <2>1
    <3> QED BY <1>3, <1>5, <2>1, <3>1 DEF Ahead
  <2>2. CASE j # n + 1
    <3>1. j \in 1..n /\ (j # 1 => j - 1 \in 1..n)
      BY <1>2, <2>2
    <3>2. Ahead(cs, lists, outside, j)
      BY <3>1 DEF AllAhead
    <3>3. /\ ds[j] = cs[j] /\ new[j] = lists[j] /\ newOutside[j] = outside[j]
          /\ j # 1 => ds[j - 1] = cs[j - 1] /\ new[j - 1] = lists[j - 1]
                      /\ newOutside[j - 1] = outside[j - 1]
      BY <1>1, <1>4, <3>1
    <3> QED BY <3>2, <3>3 DEF Ahead
  <2> QED BY <2>1, <2>2
<1>7. AllAhead(ds, new, newOutside)
  BY <1>1, <1>6 DEF AllAhead
<1> QED BY <1>4, <1>5, <1>7 DEF ds

\* Another name is no duplicate for one member more.
LEMMA DuplicateAppend ==
  ASSUME NEW ps, IsSeq(ps), NEW x, NEW key, ~Duplicate(ps, key), key # x.key
  PROVE  ~Duplicate(Append(ps, x), key)
<1>1. PICK S : ps \in Seq(S)
  BY DEF IsSeq
<1> DEFINE U == S \cup {x}
           a == Append(ps, x)
           n == Len(ps)
<1>2. ps \in Seq(U) /\ x \in U
  BY <1>1, SeqMonotonic
<1> HIDE DEF U
<1>3. /\ a \in Seq(U) /\ Len(a) = n + 1 /\ n \in Nat
      /\ \A j \in 1..n : a[j] = ps[j]
      /\ a[n + 1] = x
  BY <1>2, AppendProperties, LenProperties
<1>4. DOMAIN a = 1..(n + 1) /\ DOMAIN ps = 1..n
  BY <1>2, <1>3, LenProperties
<1> HIDE DEF a
<1>5. ASSUME NEW j \in 1..(n + 1) PROVE a[j].key # key
  <2>1. CASE j = n + 1
    BY <1>3, <2>1
  <2>2. CASE j # n + 1
    <3>1. j \in 1..n
      BY <1>3, <2>2
    <3>2. ps[j].key # key
      BY <1>4, <3>1 DEF Duplicate
    <3> QED BY <1>3, <3>1, <3>2
  <2> QED BY <2>1, <2>2
<1>6. ~Duplicate(a, key)
  BY <1>4, <1>5 DEF Duplicate
<1> QED BY <1>6 DEF a

\* No member to come has the name of the one received.
LEMMA LeftReceive ==
  ASSUME NEW c, Shaped(c), IsSeq(c.parts), NEW list, NEW k, Left(c, list, k), Pending(c, list),
         NEW value
  PROVE  Left(Receive(c, value), list, k) /\ Receive(c, value).parts # <<>>
<1> DEFINE r == Receive(c, value)
           t == Thing(c, value)
<1>1. r.kind = c.kind /\ r.parts = Append(c.parts, t)
  BY ReceiveIs
<1> HIDE DEF r
<1>2. c.kind = "object" => t.key = c.key
  BY DEF Thing
<1> HIDE DEF t
<1>3. r.parts # <<>>
  <2>1. PICK S : c.parts \in Seq(S)
    BY DEF IsSeq
  <2>2. c.parts \in Seq(S \cup {t}) /\ t \in S \cup {t}
    BY <2>1, SeqMonotonic
  <2>3. Append(c.parts, t) # <<>>
    BY <2>2, AppendProperties
  <2> QED BY <1>1, <2>3
<1>4. ListKind(r) = ListKind(c)
  BY <1>1 DEF ListKind
<1>5. ASSUME c.kind = "object", NEW j \in DOMAIN list.val
      PROVE  ~Duplicate(r.parts, list.val[j].key)
  <2> DEFINE key == list.val[j].key
  <2>1. ~Duplicate(c.parts, key) /\ key # t.key
    BY <1>2, <1>5 DEF Left, Pending
  <2> HIDE DEF key
  <2>2. ~Duplicate(Append(c.parts, t), key)
    BY <2>1, DuplicateAppend
  <2> QED BY <1>1, <2>2 DEF key
<1>6. Left(r, list, k)
  BY <1>1, <1>4, <1>5 DEF Left
<1> QED BY <1>3, <1>6 DEF r

\* The list goes on behind a value that has been received.
LEMMA CompleteReceive ==
  ASSUME NEW cs, Frame(cs), NEW lists, NEW outside, AllAhead(cs, lists, outside),
         Pending(cs[Len(cs)], lists[Len(cs)]), IsSeq(cs[Len(cs)].parts), NEW value
  PROVE  Complete(Replaced(cs, Receive(cs[Len(cs)], value)), "loop",
                  Owed(cs[Len(cs)], lists[Len(cs)], outside[Len(cs)]))
<1> DEFINE n == Len(cs)
           c == cs[n]
           r == Receive(c, value)
           ds == Replaced(cs, r)
           k == MaxDepth + 1 - n
<1>1. Shaped(c) /\ Left(c, lists[n], k)
  BY AheadFacts
<1>2. Left(r, lists[n], k) /\ r.parts # <<>>
  <2> HIDE DEF k
  <2> QED BY <1>1, LeftReceive
<1>3. r.kind = c.kind
  BY <1>1, ReceiveIs
<1> HIDE DEF r
<1>4. PICK new : AllAhead(ds, new, outside) /\ new[n] = lists[n]
  <2> DEFINE q == lists[n]
  <2>1. Left(r, q, MaxDepth + 1 - Len(cs))
    BY <1>2
  <2> HIDE DEF q
  <2>2. \E new : AllAhead(ds, new, outside) /\ new[n] = q
    BY <1>3, <2>1, AheadReplaced
  <2> QED BY <2>2 DEF q
<1>5. Len(ds) = n /\ ds[n] = r
  BY ReplacedCalls
<1> HIDE DEF ds
<1>6. End(r) = End(c)
  BY <1>3 DEF End
<1> DEFINE rest == Owed(c, lists[n], outside[n])
<1>7. rest = Follow(new[Len(ds)]) \o (End(ds[Len(ds)]) \o outside[Len(ds)])
  BY <1>4, <1>5, <1>6 DEF Owed
<1> HIDE DEF rest
<1>8. Complete(ds, "loop", rest)
  BY <1>2, <1>4, <1>5, <1>7 DEF Complete
<1> QED BY <1>8 DEF ds, r, rest

\* The list in the brackets is what the call that begins has to read.
LEMMA LeftPushed ==
  ASSUME NEW kind \in Kinds, NEW q, IsList(kind, q), NEW k \in Int,
         Good(Bracketed(kind, q), k + 1)
  PROVE  Left(Call(kind), q, k) /\ k \in Nat
<1> DEFINE c == Call(kind)
           b == Bracketed(kind, q)
<1>1. c.kind = kind /\ c.parts = <<>>
  BY DEF Call
<1>2. q.depth \in Nat /\ Flagged(q)
  BY ListTyped
<1>3. b.depth = q.depth + 1 /\ Unique(q) /\ (kind = "object" => OwnNames(q.val))
  <2>1. b.depth = q.depth + 1
    BY BracketedIs
  <2>2. Unique(b) <=> Unique(q) /\ (kind = "object" => OwnNames(q.val))
    BY <1>2, BracketedFlag
  <2> QED BY <2>1, <2>2 DEF Good
<1>4. q.depth <= k /\ k \in Nat
  <2>1. b.depth <= k + 1
    BY DEF Good
  <2> HIDE DEF b
  <2> QED BY <1>2, <1>3, <2>1
<1> HIDE DEF c
<1>5. ListKind(c) = kind /\ c.kind # "document"
  BY <1>1 DEF ListKind, Kinds
<1>6. ASSUME NEW key PROVE ~Duplicate(c.parts, key)
  BY <1>1 DEF Duplicate
<1>7. Left(c, q, k)
  BY <1>1, <1>3, <1>4, <1>5, <1>6 DEF Left, Good
<1> QED BY <1>4, <1>7 DEF c

\* The next value of a document of the profile: a scalar, or the beginning of
\* a container that is not too deep.
ScalarNext(cs, t) ==
  /\ t.tok \in Strings \cup Scalars
  /\ \A value : Complete(Replaced(cs, Receive(cs[Len(cs)], value)), "loop", t.dec.rest)
ContainerNext(cs, t) ==
  \E kind \in Kinds : /\ t.tok = Opener(kind) /\ Len(cs) <= MaxDepth
                      /\ Complete(Append(cs, Call(kind)), "loop", t.dec.rest)

\* In a document of the profile, decodeValue finds the value it should.
LEMMA CompleteValue ==
  ASSUME NEW cs, Frame(cs), NEW d, InStep(cs, d, "value"), IsSeq(cs[Len(cs)].parts),
         Complete(cs, "value", d.rest)
  PROVE  Read(Token(d)) /\ (ScalarNext(cs, Token(d)) \/ ContainerNext(cs, Token(d)))
<1> DEFINE n == Len(cs)
           c == cs[n]
           t == Token(d)
<1>1. PICK lists, outside :
        /\ AllAhead(cs, lists, outside) /\ Pending(c, lists[n])
        /\ ValueAhead(c, lists[n], outside[n], MaxDepth + 1 - n, d.rest)
  BY DEF Complete
<1> DEFINE o == Owed(c, lists[n], outside[n])
<1>2. PICK v : /\ IsValue(v) /\ Good(v, MaxDepth + 1 - n)
               /\ d.rest = Mark(Due(c, "value")) \o (v.toks \o o)
  BY <1>1 DEF ValueAhead
<1>3. /\ n \in Nat \ {0} /\ MaxDepth \in Nat /\ outside[n] \in Seq(Symbols)
      /\ Left(c, lists[n], MaxDepth + 1 - n) /\ c.kind \in {"document", "array", "object"}
  BY <1>1, AheadFacts
<1>4. o \in Seq(Symbols)
  BY <1>3, OwedIsSeq
<1>5. d.state = Due(c, "value") /\ d.state \in ValueDue
  BY <1>3, DueFacts DEF InStep
<1>6. \A value : Complete(Replaced(cs, Receive(c, value)), "loop", o)
  BY <1>1, CompleteReceive
<1> HIDE DEF o
<1>7. CASE \E s \in Strings \cup Scalars : v = Simple(s)
  <2>1. PICK s \in Strings \cup Scalars : v = Simple(s)
    BY <1>7
  <2>2. v.toks = <<s>>
    BY <2>1 DEF Simple, Phrase
  <2>3. d.rest = Mark(d.state) \o (<<s>> \o o)
    BY <1>2, <1>5, <2>2
  <2>4. ValueRead(d, t) /\ t.tok = s /\ t.dec.rest = o
    <3>1. s \in Strings \cup Scalars \cup {"openArray", "openObject"}
      OBVIOUS
    <3> QED BY <1>4, <1>5, <2>3, <3>1, ValueTokenReads
  <2>5. Read(t)
    BY <2>4 DEF ValueRead
  <2> QED BY <1>6, <2>4, <2>5 DEF ScalarNext
<1>8. CASE \E kind \in Kinds : \E p : IsList(kind, p) /\ v = Bracketed(kind, p)
  <2>1. PICK kind \in Kinds : \E p : IsList(kind, p) /\ v = Bracketed(kind, p)
    BY <1>8
  <2>2. PICK p : IsList(kind, p) /\ v = Bracketed(kind, p)
    BY <2>1
  <2> DEFINE x == <<Opener(kind)>>
             y == p.toks
             z == <<Closer(kind)>>
             r == y \o (z \o o)
  <2>3. v.toks = x \o y \o z
    BY <2>2, BracketedIs
  <2>4. /\ x \in Seq(Symbols) /\ y \in Seq(Symbols) /\ z \in Seq(Symbols)
    <3>1. Opener(kind) \in Symbols /\ Closer(kind) \in Symbols
      BY SymbolKinds DEF Opener, Closer
    <3> QED BY <2>2, <3>1, SingletonIsSeq, ListTyped
  <2>5. (x \o y \o z) \o o = x \o r /\ r \in Seq(Symbols)
    <3> HIDE DEF x, y, z
    <3> DEFINE xy == x \o y
               zo == z \o o
    <3>1. xy \in Seq(Symbols) /\ zo \in Seq(Symbols)
      BY <1>4, <2>4, ConcatProperties
    <3> HIDE DEF xy, zo
    <3>2. Associate(xy, z, o) /\ Associate(x, y, zo)
      BY <1>4, <2>4, <3>1, Associated
    <3>3. y \o zo \in Seq(Symbols)
      BY <2>4, <3>1, ConcatProperties
    <3> QED BY <3>2, <3>3 DEF xy, zo, Associate
  <2>6. d.rest = Mark(d.state) \o (<<Opener(kind)>> \o r)
    BY <1>2, <1>5, <2>3, <2>5
  <2> HIDE DEF r
  <2>7. ValueRead(d, t) /\ t.tok = Opener(kind) /\ t.dec.rest = r
    <3>1. Opener(kind) \in Strings \cup Scalars \cup {"openArray", "openObject"}
      BY DEF Opener
    <3> QED BY <1>4, <1>5, <2>5, <2>6, <3>1, ValueTokenReads
  <2>8. Read(t)
    BY <2>7 DEF ValueRead
  <2> DEFINE k == MaxDepth + 1 - (n + 1)
             new == Call(kind)
             ds == Append(cs, new)
  <2>9. k \in Int /\ k + 1 = MaxDepth + 1 - n
    BY <1>3
  <2>10. Left(new, p, k) /\ k \in Nat
    <3>1. Good(Bracketed(kind, p), k + 1)
      BY <1>2, <2>2, <2>9
    <3> HIDE DEF k
    <3> QED BY <2>2, <2>9, <3>1, LeftPushed
  <2>11. n <= MaxDepth
    BY <1>3, <2>10
  <2>12. PICK L, O : AllAhead(ds, L, O) /\ L[n + 1] = p /\ O[n + 1] = o
    <3> HIDE DEF new
    <3> QED BY <1>1, <2>10, AheadPushed DEF o
  <2>13. Len(ds) = n + 1 /\ ds[n + 1] = new
    BY PushedCalls
  <2>14. new.parts = <<>> /\ End(new) = z
    <3>1. new.parts = <<>> /\ new.kind = kind
      BY DEF Call
    <3> HIDE DEF new
    <3> QED BY <3>1 DEF End, Kinds
  <2> HIDE DEF ds, new
  <2>15. r = L[Len(ds)].toks \o (End(ds[Len(ds)]) \o O[Len(ds)])
    BY <2>12, <2>13, <2>14 DEF r
  <2>16. Complete(ds, "loop", r)
    BY <2>12, <2>13, <2>14, <2>15 DEF Complete
  <2>17. ContainerNext(cs, t)
    BY <2>7, <2>11, <2>16 DEF ContainerNext, ds, new
  <2> QED BY <2>8, <2>17
<1> QED BY <1>2, <1>7, <1>8, ValueCases

\* More goes on where the list goes on.
AtLoop(c, list, outside, d) ==
  d.rest = (IF c.parts = <<>> THEN list.toks ELSE Follow(list)) \o (End(c) \o outside)
GoesOn(c, list, outside, d) ==
  /\ More(d) <=> list # Nothing
  /\ list # Nothing => d.rest = Mark(Due(c, "loop")) \o (list.toks \o (End(c) \o outside))
  /\ list = Nothing => d.rest = <<Closer(c.kind)>> \o outside

\* In a document of the profile, More is true where the list goes on.
LEMMA LoopAhead ==
  ASSUME NEW c, c.kind \in Kinds, NEW list, IsList(ListKind(c), list),
         NEW outside \in Seq(Symbols),
         NEW d, AtLoop(c, list, outside, d)
  PROVE  GoesOn(c, list, outside, d)
<1> USE DEF AtLoop, GoesOn
<1> DEFINE t == list.toks
           e == End(c) \o outside
           m == Mark(Due(c, "loop"))
<1>1. t \in Seq(Symbols) /\ (t = <<>> <=> list = Nothing)
  BY ListKinds, ListTyped
<1>2. e \in Seq(Symbols)
  BY EndIsSeq, ConcatProperties
<1>3. m = IF c.parts = <<>> THEN <<>> ELSE <<"comma">>
  BY DEF Mark, Due, Kinds
<1>4. End(c) = <<Closer(c.kind)>>
  BY DEF End, Kinds
<1>5. CASE list = Nothing
  <2>1. d.rest = <<>> \o e
    BY <1>1, <1>5 DEF Follow
  <2>2. d.rest = e
    <3> HIDE DEF e
    <3> QED BY <1>2, <2>1, ConcatEmptySeq
  <2>3. Closer(c.kind) \in Symbols /\ Closer(c.kind) \in {"closeArray", "closeObject"}
    BY SymbolKinds DEF Closer
  <2>4. d.rest = <<Closer(c.kind)>> \o outside
    BY <1>4, <2>2
  <2>5. Head(d.rest) = Closer(c.kind)
    <3> DEFINE x == Closer(c.kind)
    <3>1. x \in Symbols /\ d.rest = <<x>> \o outside
      BY <2>3, <2>4
    <3> HIDE DEF x
    <3>2. Head(<<x>> \o outside) = x
      BY <3>1, Consed
    <3> QED BY <3>1, <3>2 DEF x
  <2>6. ~More(d)
    BY <2>3, <2>5 DEF More
  <2> QED BY <1>5, <2>4, <2>6
<1>6. CASE list # Nothing
  <2>1. Head(t) \in Strings \cup Scalars \cup {"openObject", "openArray"}
    <3>1. Listed(ListKind(c), list, Len(list.toks))
      BY <1>6, ListKinds, ListTyped
    <3> QED BY <3>1 DEF Listed, Worded
  <2>2. Head(t) \notin {"closeArray", "closeObject"}
    BY <2>1, SymbolKinds
  <2>3. t \o e # <<>> /\ Head(t \o e) = Head(t) /\ t \o e \in Seq(Symbols)
    <3> HIDE DEF e, t
    <3> QED BY <1>1, <1>2, <1>6, HeadOfConcat, ConcatProperties
  <2>4. CASE c.parts = <<>>
    <3>1. d.rest = t \o e /\ m = <<>>
      BY <1>3, <2>4
    <3>2. d.rest = m \o (t \o e)
      <4> DEFINE x == t \o e
      <4>1. x \in Seq(Symbols) /\ d.rest = x
        BY <2>3, <3>1
      <4> HIDE DEF x
      <4>2. x = <<>> \o x
        BY <4>1, ConcatEmptySeq
      <4> QED BY <3>1, <4>1, <4>2 DEF x
    <3>3. More(d)
      BY <2>2, <2>3, <3>1 DEF More
    <3> QED BY <1>6, <3>2, <3>3
  <2>5. CASE c.parts # <<>>
    <3>1. d.rest = (<<"comma">> \o t) \o e /\ m = <<"comma">>
      BY <1>3, <1>6, <2>5 DEF Follow
    <3>2. "comma" \in Symbols
      BY SymbolKinds
    <3>3. <<"comma">> \in Seq(Symbols)
      BY <3>2, SingletonIsSeq
    <3>4. d.rest = m \o (t \o e)
      <4> HIDE DEF t, e
      <4>1. Associate(<<"comma">>, t, e)
        BY <1>1, <1>2, <3>3, Associated
      <4> QED BY <3>1, <4>1 DEF Associate
    <3>5. d.rest # <<>> /\ Head(d.rest) = "comma"
      <4> DEFINE x == t \o e
      <4>1. x \in Seq(Symbols) /\ d.rest = <<"comma">> \o x
        BY <2>3, <3>1, <3>4
      <4> HIDE DEF x
      <4> QED BY <3>2, <4>1, Consed
    <3>6. More(d)
      BY <3>5 DEF More
    <3> QED BY <1>6, <3>4, <3>6
  <2> QED BY <2>4, <2>5
<1> QED BY <1>5, <1>6

\* A list in front of which is a member.
LEMMA NamesApart ==
  ASSUME NEW S, NEW x \in S, NEW r \in Seq(S), OwnNames(<<x>> \o r)
  PROVE  /\ OwnNames(r) /\ \A j \in DOMAIN r : r[j].key # x.key
         /\ \A j \in DOMAIN r : \E k \in DOMAIN (<<x>> \o r) : r[j] = (<<x>> \o r)[k]
         /\ \E k \in DOMAIN (<<x>> \o r) : (<<x>> \o r)[k] = x
<1> DEFINE s == <<x>> \o r
           n == Len(r)
<1>1. <<x>> \in Seq(S) /\ Len(<<x>>) = 1 /\ <<x>>[1] = x
  BY SingletonIsSeq
<1>2. /\ s \in Seq(S) /\ Len(s) = 1 + n /\ n \in Nat
      /\ \A j \in 1..1 : s[j] = <<x>>[j]
      /\ \A j \in 1..n : s[1 + j] = r[j]
  BY <1>1, ConcatParts
<1>3. s[1] = x
  BY <1>1, <1>2
<1>4. DOMAIN s = 1..(1 + n) /\ DOMAIN r = 1..n
  BY <1>2, LenProperties
<1>5. OwnNames(s)
  OBVIOUS
<1> HIDE DEF s
<1>6. 1 \in 1..(1 + n) /\ \A j \in 1..n : 1 + j \in 1..(1 + n) /\ 1 + j # 1
  BY <1>2
<1>7. \A j \in 1..n : r[j].key # x.key
  BY <1>2, <1>3, <1>4, <1>5, <1>6 DEF OwnNames
<1>8. ASSUME NEW j \in 1..n, NEW k \in 1..n, r[j].key = r[k].key PROVE j = k
  <2>1. s[1 + j].key = s[1 + k].key
    BY <1>2, <1>8
  <2>2. 1 + j = 1 + k
    BY <1>4, <1>5, <1>6, <2>1 DEF OwnNames
  <2> QED BY <2>2
<1>9. OwnNames(r)
  BY <1>4, <1>8 DEF OwnNames
<1>10. \A j \in DOMAIN r : \E k \in DOMAIN s : r[j] = s[k]
  BY <1>2, <1>4, <1>6
<1>11. \E k \in DOMAIN s : s[k] = x
  BY <1>3, <1>4, <1>6
<1> QED BY <1>4, <1>7, <1>9, <1>10, <1>11 DEF s

\* decodeArray goes on where there is an element.
LEMMA CompleteElement ==
  ASSUME NEW cs, Frame(cs), NEW d, cs[Len(cs)].kind = "array", More(d),
         Complete(cs, "loop", d.rest)
  PROVE  Complete(cs, "value", d.rest)
<1> DEFINE n == Len(cs)
           c == cs[n]
           k == MaxDepth + 1 - n
<1>1. PICK lists, outside :
        /\ AllAhead(cs, lists, outside)
        /\ d.rest = (IF c.parts = <<>> THEN lists[n].toks ELSE Follow(lists[n]))
                      \o (End(c) \o outside[n])
  BY DEF Complete
<1> DEFINE list == lists[n]
           out == outside[n]
<1>2. out \in Seq(Symbols) /\ Left(c, list, k) /\ k \in Int
  BY <1>1, AheadFacts
<1>3. list # Nothing /\ d.rest = Mark(Due(c, "loop")) \o (list.toks \o (End(c) \o out))
  <2>1. c.kind \in Kinds /\ IsList(ListKind(c), list)
    BY <1>2 DEF Kinds, Left
  <2>2. AtLoop(c, list, out, d)
    BY <1>1 DEF AtLoop
  <2>3. GoesOn(c, list, out, d)
    BY <1>2, <2>1, <2>2, LoopAhead
  <2> QED BY <2>3 DEF GoesOn
<1>4. PICK v, key, others :
        /\ IsValue(v) /\ Good(v, k) /\ IsList(ListKind(c), others) /\ Good(others, k)
        /\ First(c, list, v, key, others)
  <2> HIDE DEF list, k
  <2> QED BY <1>2, <1>3, Unlisted DEF Left
<1>5. list.toks = v.toks \o Follow(others)
  BY <1>4 DEF First
<1>6. Left(c, others, k)
  BY <1>4 DEF Left
<1>7. d.rest = Mark(Due(c, "value")) \o (v.toks \o Owed(c, others, out))
  <2> DEFINE x == v.toks
             f == Follow(others)
             e == End(c) \o out
  <2>1. x \in Seq(Symbols) /\ f \in Seq(Symbols) /\ e \in Seq(Symbols)
    BY <1>2, <1>4, <1>6, OwedIsSeq, ValueTyped DEF Worded
  <2>2. Due(c, "value") = Due(c, "loop")
    BY DEF Due
  <2>3. (x \o f) \o e = x \o (f \o e)
    <3> HIDE DEF x, f, e
    <3>1. Associate(x, f, e)
      BY <2>1, Associated
    <3> QED BY <3>1 DEF Associate
  <2> QED BY <1>3, <1>5, <2>2, <2>3 DEF Owed
<1>8. PICK new : AllAhead(Replaced(cs, c), new, outside) /\ new[n] = others
  <2>1. Left(c, others, MaxDepth + 1 - Len(cs)) /\ c.kind = cs[Len(cs)].kind
    BY <1>6
  <2> HIDE DEF c
  <2> QED BY <1>1, <2>1, AheadReplaced
<1>9. Replaced(cs, c) = cs
  <2>1. PICK S : cs \in Seq(S)
    BY DEF Frame, IsSeq
  <2> QED BY <2>1 DEF Replaced
<1>10. Pending(c, others)
  BY DEF Pending
<1>11. ValueAhead(c, new[n], outside[n], k, d.rest)
  BY <1>4, <1>7, <1>8 DEF ValueAhead
<1> QED BY <1>8, <1>9, <1>10, <1>11 DEF Complete

\* decodeObject finds a name it has not seen where there is a member.
LEMMA CompleteMember ==
  ASSUME NEW cs, Frame(cs), NEW d, InStep(cs, d, "loop"), cs[Len(cs)].kind = "object", More(d),
         Complete(cs, "loop", d.rest)
  PROVE  /\ Read(Token(d)) /\ Token(d).tok \in Strings
         /\ ~Duplicate(cs[Len(cs)].parts, Token(d).tok)
         /\ Complete(Replaced(cs, Named(cs[Len(cs)], Token(d).tok)), "value", Token(d).dec.rest)
<1> DEFINE n == Len(cs)
           c == cs[n]
           k == MaxDepth + 1 - n
           t == Token(d)
<1>1. PICK lists, outside :
        /\ AllAhead(cs, lists, outside)
        /\ d.rest = (IF c.parts = <<>> THEN lists[n].toks ELSE Follow(lists[n]))
                      \o (End(c) \o outside[n])
  BY DEF Complete
<1> DEFINE list == lists[n]
           out == outside[n]
<1>2. out \in Seq(Symbols) /\ Left(c, list, k) /\ k \in Int /\ Shaped(c)
  BY <1>1, AheadFacts
<1>3. list # Nothing /\ d.rest = Mark(Due(c, "loop")) \o (list.toks \o (End(c) \o out))
  <2>1. c.kind \in Kinds /\ IsList(ListKind(c), list)
    BY <1>2 DEF Kinds, Left
  <2>2. AtLoop(c, list, out, d)
    BY <1>1 DEF AtLoop
  <2>3. GoesOn(c, list, out, d)
    BY <1>2, <2>1, <2>2, LoopAhead
  <2> QED BY <2>3 DEF GoesOn
<1>4. PICK v, key, others :
        /\ IsValue(v) /\ Good(v, k) /\ IsList(ListKind(c), others) /\ Good(others, k)
        /\ First(c, list, v, key, others)
  <2> HIDE DEF list, k
  <2> QED BY <1>2, <1>3, Unlisted DEF Left
<1> DEFINE thing == [key |-> key, val |-> v.val]
<1>5. /\ key \in Strings /\ list.toks = <<key>> \o (<<"colon">> \o (v.toks \o Follow(others)))
      /\ list.val = <<thing>> \o others.val
  BY <1>4 DEF First
<1>6. /\ OwnNames(others.val) /\ \A j \in DOMAIN others.val : others.val[j].key # key
      /\ ~Duplicate(c.parts, key)
      /\ \A j \in DOMAIN others.val : ~Duplicate(c.parts, others.val[j].key)
  <2> DEFINE r == others.val
             S == Things(ListKind(c)) \cup {thing}
             s == <<thing>> \o r
  <2>1. thing.key = key
    OBVIOUS
  <2>2. r \in Seq(S) /\ thing \in S
    <3>1. r \in Seq(Things(ListKind(c)))
      BY <1>4, ListKinds, ListTyped
    <3> HIDE DEF thing, r
    <3> QED BY <3>1, SeqMonotonic
  <2>3. OwnNames(s) /\ \A j \in DOMAIN s : ~Duplicate(c.parts, s[j].key)
    <3>1. s = list.val
      BY <1>5
    <3>2. OwnNames(list.val) /\ \A j \in DOMAIN list.val : ~Duplicate(c.parts, list.val[j].key)
      BY <1>2 DEF Left
    <3> HIDE DEF s
    <3> QED BY <3>1, <3>2
  <2> HIDE DEF thing, r, S
  <2>4. /\ OwnNames(r) /\ \A j \in DOMAIN r : r[j].key # thing.key
        /\ \A j \in DOMAIN r : \E m \in DOMAIN s : r[j] = s[m]
        /\ \E m \in DOMAIN s : s[m] = thing
    BY <2>2, <2>3, NamesApart
  <2> HIDE DEF s
  <2> QED BY <2>1, <2>3, <2>4 DEF r
<1> DEFINE o == Owed(c, others, out)
           f == Follow(others)
           e == End(c) \o out
           x == v.toks
           z == <<"colon">>
           r == z \o (x \o o)
<1>7. f \in Seq(Symbols) /\ e \in Seq(Symbols) /\ x \in Seq(Symbols) /\ z \in Seq(Symbols)
  <2>1. Left(c, others, k)
    BY <1>4, <1>6 DEF Left
  <2>2. "colon" \in Symbols
    BY SymbolKinds
  <2> QED BY <1>2, <1>4, <2>1, <2>2, OwedIsSeq, ValueTyped, SingletonIsSeq DEF Worded
<1>8. o = f \o e
  BY DEF Owed
<1>9. d.rest = Mark(Due(c, "loop")) \o (<<key>> \o r) /\ r \in Seq(Symbols)
  <2> DEFINE w == <<key>>
             xf == x \o f
             zxf == z \o xf
             m == Mark(Due(c, "loop"))
  <2>1. w \in Seq(Symbols)
    <3>1. key \in Symbols
      BY <1>5, SymbolKinds
    <3> QED BY <3>1, SingletonIsSeq
  <2>2. d.rest = m \o ((w \o zxf) \o e)
    BY <1>3, <1>5
  <2> HIDE DEF w, x, f, e, z, o, m
  <2>3. xf \in Seq(Symbols) /\ o \in Seq(Symbols)
    BY <1>7, <1>8, ConcatProperties
  <2>4. Associate(x, f, e)
    BY <1>7, Associated
  <2>5. xf \o e = x \o o
    BY <1>8, <2>4 DEF Associate
  <2> HIDE DEF xf
  <2>6. zxf \in Seq(Symbols)
    BY <1>7, <2>3, ConcatProperties
  <2>7. Associate(z, xf, e)
    BY <1>7, <2>3, Associated
  <2>8. zxf \o e = z \o (x \o o)
    BY <2>5, <2>7 DEF Associate
  <2> HIDE DEF zxf
  <2>9. Associate(w, zxf, e)
    BY <1>7, <2>1, <2>6, Associated
  <2>10. (w \o zxf) \o e = w \o r
    BY <2>8, <2>9 DEF Associate
  <2>11. zxf \o e \in Seq(Symbols)
    BY <1>7, <2>6, ConcatProperties
  <2> QED BY <2>2, <2>8, <2>10, <2>11 DEF w, m
<1> HIDE DEF r
<1>10. d.state = Due(c, "loop") /\ d.state \in KeyDue
  BY DueFacts DEF InStep
<1>11. KeyRead(d, t) /\ t.tok = key /\ t.dec.rest = r
  <2>1. d.rest = Mark(d.state) \o (<<key>> \o r)
    BY <1>9, <1>10
  <2>2. key \in Strings /\ r \in Seq(Symbols) /\ d.state \in KeyDue
    BY <1>5, <1>9, <1>10
  <2> HIDE DEF t
  <2>3. KeyRead(d, Token(d)) /\ Token(d).tok = key /\ Token(d).dec.rest = r
    BY <2>1, <2>2, KeyTokenReads
  <2> QED BY <2>3 DEF t
<1>12. Read(t)
  BY <1>11 DEF KeyRead
<1> DEFINE new == Named(c, key)
           ds == Replaced(cs, new)
<1>13. new.kind = "object" /\ new.parts = c.parts /\ new.key = key
  BY <1>2, NamedIs
<1> HIDE DEF new
<1>14. Left(new, others, k)
  <2>1. ListKind(new) = ListKind(c)
    BY <1>13 DEF ListKind
  <2> QED BY <1>4, <1>6, <1>13, <2>1 DEF Left
<1>15. PICK L : AllAhead(ds, L, outside) /\ L[n] = others
  <2>1. Left(new, others, MaxDepth + 1 - Len(cs)) /\ new.kind = cs[Len(cs)].kind
    BY <1>13, <1>14
  <2> QED BY <1>1, <2>1, AheadReplaced
<1>16. Len(ds) = n /\ ds[n] = new
  BY ReplacedCalls
<1> HIDE DEF ds
<1>17. Pending(new, others)
  BY <1>6, <1>13 DEF Pending
<1>18. r = Mark(Due(new, "value")) \o (v.toks \o Owed(new, others, out))
  <2>1. Mark(Due(new, "value")) = z /\ Owed(new, others, out) = o
    BY <1>13 DEF Mark, Due, Owed, End
  <2> QED BY <2>1 DEF r
<1>19. ValueAhead(ds[Len(ds)], L[Len(ds)], outside[Len(ds)], MaxDepth + 1 - Len(ds), r)
  BY <1>4, <1>15, <1>16, <1>18 DEF ValueAhead
<1>20. Complete(ds, "value", r)
  BY <1>15, <1>16, <1>17, <1>19 DEF Complete
<1> QED BY <1>5, <1>6, <1>11, <1>12, <1>20 DEF ds, new

\* decodeArray and decodeObject find their closing token.
LEMMA CompleteClose ==
  ASSUME NEW cs, Frame(cs), NEW d, InStep(cs, d, "loop"), cs[Len(cs)].kind # "document",
         ~More(d),
         IsSeq(cs[Len(cs) - 1].parts), Complete(cs, "loop", d.rest), NEW value
  PROVE  /\ Read(Token(d))
         /\ Complete(Replaced(Popped(cs), Receive(cs[Len(cs) - 1], value)), "loop",
            Token(d).dec.rest)
<1> DEFINE n == Len(cs)
           m == n - 1
           c == cs[n]
           ps == Popped(cs)
<1>1. PICK lists, outside :
        /\ AllAhead(cs, lists, outside)
        /\ d.rest = (IF c.parts = <<>> THEN lists[n].toks ELSE Follow(lists[n]))
                      \o (End(c) \o outside[n])
  BY DEF Complete
<1> DEFINE list == lists[n]
           out == outside[n]
<1>2. /\ n \in 1..n /\ n \in Nat \ {0} /\ out \in Seq(Symbols)
         /\ Left(c, list, MaxDepth + 1 - n)
  BY <1>1, AheadFacts
<1>3. c.kind \in Kinds
  BY <1>2, FrameKinds
<1>4. d.rest = <<Closer(c.kind)>> \o out
  <2>1. IsList(ListKind(c), list)
    BY <1>2 DEF Left
  <2>2. AtLoop(c, list, out, d)
    BY <1>1 DEF AtLoop
  <2>3. GoesOn(c, list, out, d)
    BY <1>2, <1>3, <2>1, <2>2, LoopAhead
  <2> QED BY <2>3 DEF GoesOn
<1>5. d.state \in CloseDue(c.kind)
  <2>1. c.kind \in {"document", "array", "object"}
    BY <1>3 DEF Kinds
  <2>2. d.state = Due(c, "loop")
    BY DEF InStep
  <2> QED BY <2>1, <2>2, DueFacts
<1>6. Read(Token(d)) /\ Token(d).dec.rest = out
  <2> DEFINE kind == c.kind
  <2>1. kind \in Kinds /\ d.rest = <<Closer(kind)>> \o out /\ d.state \in CloseDue(kind)
    BY <1>3, <1>4, <1>5
  <2> HIDE DEF kind, out
  <2> QED BY <1>2, <2>1, CloseTokenReads
<1>7. Frame(ps) /\ m \in Nat \ {0}
  BY FramePopped
<1>8. Len(ps) = m /\ ps[m] = cs[m]
  <2>1. m \in 1..m
    <3> HIDE DEF m
    <3> QED BY <1>7
  <2> QED BY <2>1, PoppedCalls
<1>9. AllAhead(ps, lists, outside)
  BY <1>1, AheadPopped
<1>10. Pending(cs[m], lists[m]) /\ out = Owed(cs[m], lists[m], outside[m])
  <2>1. Ahead(cs, lists, outside, n) /\ n # 1
    BY <1>1, <1>2, <1>7 DEF AllAhead
  <2> QED BY <2>1 DEF Ahead
<1>11. Complete(Replaced(ps, Receive(ps[Len(ps)], value)), "loop",
                Owed(ps[Len(ps)], lists[Len(ps)], outside[Len(ps)]))
  <2>1. Pending(ps[Len(ps)], lists[Len(ps)]) /\ IsSeq(ps[Len(ps)].parts)
    BY <1>8, <1>10
  <2> HIDE DEF ps
  <2> QED BY <1>7, <1>9, <2>1, CompleteReceive
<1>12. Complete(Replaced(ps, Receive(cs[m], value)), "loop", out)
  BY <1>8, <1>10, <1>11
<1> QED BY <1>6, <1>12

\* Nothing follows the document.
LEMMA CompleteEnd ==
  ASSUME NEW cs, Frame(cs), cs[Len(cs)].kind = "document", NEW rest, Complete(cs, "loop", rest)
  PROVE  rest = <<>>
<1> DEFINE c == cs[Len(cs)]
<1>1. Len(cs) \in 1..Len(cs)
  BY DEF Frame
<1>2. Len(cs) = 1
  BY <1>1, FrameKinds
<1>3. PICK lists, outside :
        /\ AllAhead(cs, lists, outside)
        /\ rest = (IF c.parts = <<>> THEN lists[1].toks ELSE Follow(lists[1]))
                      \o (End(c) \o outside[1])
  BY <1>2 DEF Complete
<1>4. lists[1] = Nothing /\ outside[1] = <<>>
  BY <1>1, <1>2, <1>3 DEF AllAhead, Ahead, Left
<1>5. lists[1].toks = <<>> /\ Follow(lists[1]) = <<>> /\ End(c) = <<>>
  BY <1>4, NothingIs DEF Follow, End
<1>6. rest = <<>> \o (<<>> \o <<>>)
  BY <1>3, <1>4, <1>5
<1> QED BY <1>6

\* decodeStrict has the whole document to read.
LEMMA CompleteStart ==
  ASSUME document \in ProfileDocuments
  PROVE  Complete(<<Call("document")>>, "value", document)
<1> DEFINE c == Call("document")
           cs == <<c>>
           L == <<Nothing>>
           O == <<<<>>>>
<1>1. c.kind = "document" /\ c.parts = <<>>
  BY DEF Call
<1> HIDE DEF c
<1>2. Len(cs) = 1 /\ cs[1] = c /\ L[1] = Nothing /\ O[1] = <<>>
  OBVIOUS
<1> HIDE DEF cs, L, O
<1>3. MaxDepth \in Nat /\ MaxDepth + 1 - 1 = MaxDepth
  BY JSONAssumption
<1>4. Left(c, Nothing, MaxDepth)
  <2>1. IsList(ListKind(c), Nothing)
    BY ListKinds, NothingIsList
  <2>2. Good(Nothing, MaxDepth)
    BY <1>3, NothingIs DEF Good, Unique
  <2> QED BY <1>1, <2>1, <2>2 DEF Left
<1>5. Ahead(cs, L, O, 1)
  <2>1. <<>> \in Seq(Symbols)
    BY EmptySeq
  <2> QED BY <1>2, <1>3, <1>4, <2>1 DEF Ahead
<1>6. AllAhead(cs, L, O)
  BY <1>2, <1>5 DEF AllAhead
<1>7. PICK v : IsValue(v) /\ Good(v, MaxDepth) /\ v.toks = document
  BY ProfileIs
<1>8. Mark(Due(c, "value")) = <<>> /\ Follow(Nothing) = <<>> /\ End(c) = <<>>
  BY <1>1 DEF Mark, Due, Follow, End
<1>9. Owed(c, Nothing, <<>>) = <<>>
  <2>1. <<>> \o (<<>> \o <<>>) = <<>>
    OBVIOUS
  <2> QED BY <1>8, <2>1 DEF Owed
<1>10. v.toks = <<>> \o (v.toks \o <<>>)
  <2>1. v.toks \in Seq(Symbols)
    BY <1>7, ValueTyped DEF Worded
  <2> QED BY <2>1, ConcatEmptySeq
<1>11. ValueAhead(c, Nothing, <<>>, MaxDepth, document)
  BY <1>7, <1>8, <1>9, <1>10 DEF ValueAhead
<1>12. Pending(c, Nothing)
  BY <1>1 DEF Pending
<1>13. Complete(cs, "value", document)
  BY <1>2, <1>3, <1>6, <1>11, <1>12 DEF Complete
<1> QED BY <1>13 DEF cs, c

\* What a call has decoded is a sequence.
LEMMA PartsAreSeq ==
  ASSUME NEW cs, NEW st, NEW rest, Sound(cs, st, rest), NEW j \in 1..Len(cs)
  PROVE  IsSeq(cs[j].parts)
<1>1. PICK B, P : Levels(cs, B, P)
  BY DEF Sound
<1>2. Decoded(cs[j], P[j], MaxDepth + 1 - j)
  BY <1>1 DEF Levels, Level
<1>3. P[j].val \in Seq(Things(ListKind(cs[j]))) /\ P[j].val = cs[j].parts
  BY <1>2, ListKinds, ListTyped DEF Decoded
<1> QED BY <1>3 DEF IsSeq

-----------------------------------------------------------------------------
(* The steps of decodeStrict *)

\* Token fails or reads a token.
LEMMA TokenAnswers ==
  ASSUME NEW d PROVE Token(d).ok <=> Read(Token(d))
<1>1. \A e : SymbolToken(e) = Failed \/ \E s, k : SymbolToken(e) = Taken(e, s, k)
  BY DEF SymbolToken, Opens, Closes
<1>2. Token(d) = Failed \/ \E e, s, k : Token(d) = Taken(e, s, k)
  <2>1. Token(d) = Failed \/ Token(d) = SymbolToken(SkipPunctuation(d))
    BY DEF Token
  <2> QED BY <1>1, <2>1
<1>3. CASE Token(d) = Failed
  BY <1>3 DEF Failed, Read
<1>4. CASE \E e, s, k : Token(d) = Taken(e, s, k)
  <2>1. PICK e, s, k : Token(d) = Taken(e, s, k)
    BY <1>4
  <2> QED BY <2>1 DEF Taken, Read
<1> QED BY <1>2, <1>3, <1>4

\* The calls, the Decoder and the stage belong together: what has been read is
\* a phrase so far, and of a document of the profile the rest completes it.
Going(cs, d, st) ==
  /\ Frame(cs) /\ InStep(cs, d, st) /\ Sound(cs, st, d.rest)
  /\ document \in ProfileDocuments => Complete(cs, st, d.rest)

\* The innermost call, and where the Decoder is.
LEMMA GoingParts ==
  ASSUME NEW cs, NEW d, NEW st, Going(cs, d, st)
  PROVE  /\ Len(cs) \in Nat \ {0} /\ Len(cs) \in 1..Len(cs) /\ IsSeq(cs[Len(cs)].parts)
         /\ Shaped(cs[Len(cs)]) /\ cs[Len(cs)].kind \in {"document", "array", "object"}
         /\ d.rest \in Seq(Symbols) /\ d.state = Due(cs[Len(cs)], st)
<1>1. Len(cs) \in Nat \ {0} /\ Len(cs) \in 1..Len(cs) /\ Frame(cs)
  BY DEF Going, Frame
<1>2. IsSeq(cs[Len(cs)].parts)
  BY <1>1, PartsAreSeq DEF Going
<1>3. Shaped(cs[Len(cs)]) /\ cs[Len(cs)].kind \in {"document", "array", "object"}
  BY <1>1, FrameKinds
<1> QED BY <1>1, <1>2, <1>3 DEF Going, InStep

\* The document as far as the token that decodeValue has read.
ReadAs(cs, begun, phrases, tok, rest) ==
  /\ Levels(cs, begun, phrases) /\ Waiting(cs[Len(cs)])
  /\ document = (begun[Len(cs)] \o Before(cs[Len(cs)], phrases[Len(cs)])) \o (<<tok>> \o rest)

\* The document around the token that decodeValue has read.
LEMMA ValueReadAs ==
  ASSUME NEW cs, NEW d, Going(cs, d, "value"), Read(Token(d)),
         Token(d).tok \notin {"closeArray", "closeObject"}
  PROVE  /\ ValueRead(d, Token(d)) /\ Token(d).dec.rest \in Seq(Symbols)
         /\ Token(d).tok \in Strings \cup Scalars \cup {"openArray", "openObject"}
         /\ \E begun, phrases : ReadAs(cs, begun, phrases, Token(d).tok, Token(d).dec.rest)
<1> DEFINE n == Len(cs)
           c == cs[n]
           tok == Token(d).tok
           r == Token(d).dec.rest
<1>1. d.rest \in Seq(Symbols) /\ d.state = Due(c, "value")
        /\ c.kind \in {"document", "array", "object"}
  BY GoingParts
<1>2. d.state \in ValueDue
  BY <1>1, DueFacts
<1>3. /\ ValueRead(d, Token(d)) /\ tok \in Strings \cup Scalars \cup {"openArray", "openObject"}
      /\ r \in Seq(Symbols) /\ d.rest = Mark(d.state) \o (<<tok>> \o r)
  BY <1>1, <1>2, ValueTokenFrom
<1>4. tok \in Symbols
  BY <1>3, SymbolKinds
<1> HIDE DEF tok, r
<1> DEFINE x == <<tok>> \o r
<1>5. x \in Seq(Symbols)
  BY <1>3, <1>4, Consed
<1>6. PICK B, P : /\ Levels(cs, B, P)
                  /\ document = (B[n] \o SoFar(c, P[n], "value")) \o d.rest
  BY DEF Going, Sound
<1>7. Waiting(c) /\ Frame(cs)
  BY DEF Going, Sound
<1>8. d.rest = Mark(Due(c, "value")) \o x
  BY <1>1, <1>3
<1> HIDE DEF x
<1>9. document = (B[n] \o Before(c, P[n])) \o x
  BY <1>5, <1>6, <1>7, <1>8, ReadBefore
<1>10. ReadAs(cs, B, P, tok, r)
  BY <1>6, <1>7, <1>9 DEF ReadAs, x
<1> QED BY <1>3, <1>10 DEF tok, r

\* decodeValue returns a scalar.
LEMMA ScalarStep ==
  ASSUME WithinBound, NEW cs, NEW d, Going(cs, d, "value"), Read(Token(d)),
         Token(d).tok \notin Punctuation
  PROVE  Going(Replaced(cs, Receive(cs[Len(cs)], Scalar(Token(d).tok))), Token(d).dec, "loop")
<1> DEFINE n == Len(cs)
           c == cs[n]
           t == Token(d)
           s == t.tok
           e == t.dec
           r == e.rest
           v == Simple(s)
           new == Receive(c, Scalar(s))
           ds == Replaced(cs, new)
<1>1. /\ ValueRead(d, t) /\ r \in Seq(Symbols)
      /\ s \in Strings \cup Scalars \cup {"openArray", "openObject"}
      /\ \E begun, phrases : ReadAs(cs, begun, phrases, s, r)
  <2>1. s \notin {"closeArray", "closeObject"}
    BY DEF Punctuation
  <2> QED BY <2>1, ValueReadAs
<1>2. s \in Strings \cup Scalars
  BY <1>1 DEF Punctuation
<1>3. PICK B, P : ReadAs(cs, B, P, s, r)
  BY <1>1
<1>4. /\ n \in Nat \ {0} /\ Shaped(c) /\ c.kind \in {"document", "array", "object"}
      /\ d.state = Due(c, "value") /\ IsSeq(c.parts) /\ Frame(cs)
  BY GoingParts DEF Going
<1> HIDE DEF s, r
<1>5. v.toks = <<s>> /\ v.val = Scalar(s) /\ v.depth = 0 /\ Unique(v)
  BY DEF Simple, Phrase, Unique
<1>6. MaxSymbols # 0
  <2> DEFINE x == B[n] \o Before(c, P[n])
             y == <<s>> \o r
  <2>1. s \in Symbols
    BY <1>2, SymbolKinds
  <2>2. y \in Seq(Symbols) /\ Len(y) = Len(r) + 1 /\ Len(r) \in Nat
    BY <1>1, <2>1, Consed, LenProperties
  <2>3. x \in Seq(Symbols)
    <3>1. B[n] \in Seq(Symbols) /\ Decoded(c, P[n], MaxDepth + 1 - n)
      BY <1>3, <1>4, LevelFacts DEF ReadAs
    <3>2. Before(c, P[n]) \in Seq(Symbols)
      BY <1>3, <3>1, BeforeIsSeq DEF ReadAs, Waiting, Decoded
    <3> QED BY <3>1, <3>2, ConcatProperties
  <2>4. document = x \o y
    BY <1>3 DEF ReadAs
  <2> HIDE DEF x, y
  <2>5. Len(document) = Len(x) + Len(y) /\ Len(x) \in Nat
    BY <2>2, <2>3, <2>4, ConcatParts
  <2> QED BY <2>2, <2>5, JSONAssumption DEF WithinBound
<1>7. IsValue(v)
  BY <1>2, <1>6, SimpleIsValue
<1> HIDE DEF v
<1>8. Good(v, MaxDepth + 1 - n)
  <2>1. n <= MaxDepth + 1 /\ MaxDepth \in Nat
    BY <1>3, <1>4, LevelFacts DEF ReadAs
  <2>2. 0 <= MaxDepth + 1 - n
    BY <1>4, <2>1
  <2> QED BY <1>5, <2>2 DEF Good
<1>9. Sound(ds, "loop", r) /\ new.parts # <<>>
  <2>1. /\ Levels(cs, B, P) /\ Waiting(c)
        /\ document = (B[n] \o Before(c, P[n])) \o (v.toks \o r)
    BY <1>3, <1>5 DEF ReadAs
  <2>2. /\ Sound(Replaced(cs, Receive(c, v.val)), "loop", r)
        /\ Receive(c, v.val).parts # <<>>
    BY <1>1, <1>4, <1>7, <1>8, <2>1, SoundReceive
  <2> QED BY <1>5, <2>2
<1>10. Shaped(new) /\ new.kind = c.kind
  BY <1>4, ReceiveIs
<1>11. Frame(ds)
  <2> HIDE DEF new
  <2> QED BY <1>4, <1>10, FrameReplaced
<1>12. InStep(ds, e, "loop")
  <2>1. e.state = ValueEnd(Behind(d.state)) /\ e.stack = d.stack
    BY <1>1, <1>2 DEF ValueRead, s
  <2>2. Behind(d.state) = Waits(c)
    BY <1>4, DueFacts
  <2>3. e.rest \in Seq(Symbols) /\ e.state = ValueEnd(Waits(c)) /\ InStep(cs, d, "value")
    BY <1>1, <2>1, <2>2 DEF Going, r
  <2> HIDE DEF new, e
  <2> QED BY <1>4, <1>9, <1>10, <2>1, <2>3, InStepReceive
<1>13. document \in ProfileDocuments => Complete(ds, "loop", r)
  <2> SUFFICES ASSUME document \in ProfileDocuments PROVE Complete(ds, "loop", r)
    OBVIOUS
  <2>1. InStep(cs, d, "value") /\ Complete(cs, "value", d.rest)
    BY DEF Going
  <2>2. ScalarNext(cs, t) \/ ContainerNext(cs, t)
    BY <1>4, <2>1, CompleteValue
  <2>3. ~ContainerNext(cs, t)
    BY <1>2, SymbolKinds DEF ContainerNext, Opener, s
  <2> QED BY <2>2, <2>3 DEF ScalarNext, r
<1> QED BY <1>9, <1>11, <1>12, <1>13 DEF Going, r, s

\* decodeValue calls decodeObject or decodeArray.
LEMMA EnterStep ==
  ASSUME WithinBound, NEW cs, NEW d, Going(cs, d, "value"), Read(Token(d)), NEW kind \in Kinds,
         Token(d).tok = Opener(kind), Len(cs) <= MaxDepth
  PROVE  Going(Append(cs, Call(kind)), Token(d).dec, "loop")
<1> DEFINE n == Len(cs)
           c == cs[n]
           t == Token(d)
           e == t.dec
           r == e.rest
           ds == Append(cs, Call(kind))
<1>1. ValueRead(d, t) /\ r \in Seq(Symbols)
        /\ \E begun, phrases : ReadAs(cs, begun, phrases, t.tok, r)
  <2>1. t.tok \notin {"closeArray", "closeObject"}
    BY DEF Opener
  <2> QED BY <2>1, ValueReadAs
<1>2. PICK B, P : ReadAs(cs, B, P, Opener(kind), r)
  BY <1>1
<1>3. /\ n \in Nat \ {0} /\ c.kind \in {"document", "array", "object"}
      /\ d.state = Due(c, "value") /\ IsSeq(c.parts) /\ Frame(cs)
  BY GoingParts DEF Going
<1>4. Sound(ds, "loop", r)
  <2> HIDE DEF r
  <2> QED BY <1>1, <1>2, <1>3, SoundEnter DEF ReadAs
<1>5. Frame(ds)
  BY <1>3, FramePushed
<1>6. InStep(ds, e, "loop")
  <2>1. Behind(d.state) = Waits(c)
    BY <1>3, DueFacts
  <2>2. /\ e.state = IF kind = "array" THEN "arrayStart" ELSE "objectStart"
        /\ e.stack = Append(d.stack, Behind(d.state))
    BY <1>1 DEF ValueRead, Opener
  <2>3. e.rest \in Seq(Symbols) /\ InStep(cs, d, "value") /\ e.stack = Append(d.stack, Waits(c))
    BY <1>1, <2>1, <2>2 DEF Going
  <2> HIDE DEF e
  <2> QED BY <1>3, <2>2, <2>3, InStepEnter
<1>7. document \in ProfileDocuments => Complete(ds, "loop", r)
  <2> SUFFICES ASSUME document \in ProfileDocuments PROVE Complete(ds, "loop", r)
    OBVIOUS
  <2>1. InStep(cs, d, "value") /\ Complete(cs, "value", d.rest)
    BY DEF Going
  <2>2. ScalarNext(cs, t) \/ ContainerNext(cs, t)
    BY <1>3, <2>1, CompleteValue
  <2>3. ~ScalarNext(cs, t)
    BY SymbolKinds DEF ScalarNext, Opener
  <2>4. PICK other \in Kinds : /\ t.tok = Opener(other)
                               /\ Complete(Append(cs, Call(other)), "loop", t.dec.rest)
    BY <2>2, <2>3 DEF ContainerNext
  <2>5. other = kind
    BY <2>4 DEF Opener, Kinds
  <2> QED BY <2>4, <2>5
<1> QED BY <1>4, <1>5, <1>6, <1>7 DEF Going

\* decodeValue reports no error on a document of the profile.
LEMMA ValueStops ==
  ASSUME NEW cs, NEW d, Going(cs, d, "value"), document \in ProfileDocuments
  PROVE  /\ Read(Token(d))
         /\ Token(d).tok \in Punctuation =>
              Token(d).tok \in {"openObject", "openArray"} /\ ~TooDeep(Len(cs))
<1>1. Frame(cs) /\ InStep(cs, d, "value") /\ Complete(cs, "value", d.rest)
  BY DEF Going
<1>2. IsSeq(cs[Len(cs)].parts) /\ Len(cs) \in Nat \ {0}
  BY GoingParts
<1>3. Read(Token(d)) /\ (ScalarNext(cs, Token(d)) \/ ContainerNext(cs, Token(d)))
  BY <1>1, <1>2, CompleteValue
<1>4. CASE ScalarNext(cs, Token(d))
  BY <1>3, <1>4, SymbolKinds DEF ScalarNext, Punctuation
<1>5. CASE ContainerNext(cs, Token(d))
  BY <1>2, <1>3, <1>5, JSONAssumption DEF ContainerNext, Opener, TooDeep
<1> QED BY <1>3, <1>4, <1>5

\* decodeArray's loop goes on.
LEMMA ElementStep ==
  ASSUME NEW cs, NEW d, Going(cs, d, "loop"), cs[Len(cs)].kind = "array", More(d)
  PROVE  Going(cs, d, "value")
<1>1. Frame(cs) /\ InStep(cs, d, "loop") /\ Sound(cs, "loop", d.rest)
  BY DEF Going
<1>2. Sound(cs, "value", d.rest)
  BY <1>1, SoundElement
<1>3. InStep(cs, d, "value")
  BY <1>1 DEF InStep, Due
<1>4. document \in ProfileDocuments => Complete(cs, "value", d.rest)
  BY <1>1, CompleteElement DEF Going
<1> QED BY <1>1, <1>2, <1>3, <1>4 DEF Going

\* decodeObject's loop goes on: an error is for no document of the profile.
LEMMA MemberStep ==
  ASSUME WithinBound, NEW cs, NEW d, Going(cs, d, "loop"), cs[Len(cs)].kind = "object", More(d)
  PROVE  /\ Read(Token(d)) /\ Token(d).tok \in Strings
            /\ ~Duplicate(cs[Len(cs)].parts, Token(d).tok) =>
              Going(Replaced(cs, Named(cs[Len(cs)], Token(d).tok)), Token(d).dec, "value")
         /\ document \in ProfileDocuments =>
              /\ Read(Token(d)) /\ Token(d).tok \in Strings
              /\ ~Duplicate(cs[Len(cs)].parts, Token(d).tok)
<1> DEFINE n == Len(cs)
           c == cs[n]
           t == Token(d)
           e == t.dec
           key == t.tok
           new == Named(c, key)
           ds == Replaced(cs, new)
<1>1. Frame(cs) /\ InStep(cs, d, "loop") /\ Sound(cs, "loop", d.rest)
  BY DEF Going
<1>2. /\ Shaped(c) /\ d.rest \in Seq(Symbols) /\ d.state = Due(c, "loop")
      /\ c.kind \in {"document", "array", "object"}
  BY GoingParts
<1>3. ASSUME document \in ProfileDocuments
      PROVE  /\ Read(t) /\ key \in Strings /\ ~Duplicate(c.parts, key)
             /\ Complete(ds, "value", e.rest)
  BY <1>1, <1>3, CompleteMember DEF Going
<1>4. ASSUME Read(t), key \in Strings, ~Duplicate(c.parts, key)
      PROVE  Going(ds, e, "value")
  <2>1. d.state \in KeyDue
    BY <1>2, DueFacts
  <2>2. /\ e.rest \in Seq(Symbols) /\ d.rest = Mark(d.state) \o (<<key>> \o e.rest)
        /\ KeyRead(d, t)
    BY <1>2, <1>4, <2>1, KeyTokenFrom
  <2>3. Sound(ds, "value", e.rest)
    <3>1. Sound(cs, "loop", Mark(Due(c, "loop")) \o (<<key>> \o e.rest))
      BY <1>1, <1>2, <2>2
    <3> DEFINE r == e.rest
    <3>2. r \in Seq(Symbols) /\ Sound(cs, "loop", Mark(Due(c, "loop")) \o (<<key>> \o r))
      BY <2>2, <3>1
    <3> HIDE DEF key, r
    <3>3. Sound(ds, "value", r)
      BY <1>1, <1>4, <3>2, SoundMember
    <3> QED BY <3>3 DEF r
  <2>4. Shaped(new) /\ new.kind = "object"
    BY <1>2, NamedIs
  <2>5. Frame(ds)
    <3> HIDE DEF new
    <3> QED BY <1>1, <2>4, FrameReplaced
  <2>6. InStep(ds, e, "value")
    <3>1. e.state = "objectColon" /\ e.stack = d.stack
      BY <2>2 DEF KeyRead
    <3> HIDE DEF new, e
    <3> QED BY <1>1, <2>2, <2>4, <3>1, InStepMember
  <2> QED BY <1>3, <2>3, <2>5, <2>6 DEF Going
<1> QED BY <1>3, <1>4

\* decodeObject or decodeArray returns: an error is for no such document.
LEMMA CloseStep ==
  ASSUME WithinBound, NEW cs, NEW d, Going(cs, d, "loop"), cs[Len(cs)].kind \in Kinds, ~More(d)
  PROVE  /\ Read(Token(d)) =>
              Going(Replaced(Popped(cs),
                             Receive(Popped(cs)[Len(Popped(cs))], Container(cs[Len(cs)]))),
                    Token(d).dec, "loop")
         /\ document \in ProfileDocuments => Read(Token(d))
<1> DEFINE n == Len(cs)
           m == n - 1
           c == cs[n]
           ps == Popped(cs)
           t == Token(d)
           e == t.dec
           value == Container(c)
           new == Receive(cs[m], value)
           ds == Replaced(ps, new)
<1>1. Frame(cs) /\ InStep(cs, d, "loop") /\ Sound(cs, "loop", d.rest)
  BY DEF Going
<1>2. d.rest \in Seq(Symbols) /\ d.state = Due(c, "loop") /\ c.kind # "document"
        /\ n \in Nat \ {0}
  BY GoingParts DEF Kinds
<1>3. Frame(ps) /\ m \in Nat \ {0}
  BY <1>1, <1>2, FramePopped
<1>4. m \in 1..n /\ m \in 1..m
  <2>1. m \in 1..n
    <3>1. n \in Nat /\ n - 1 \in Nat \ {0}
      BY <1>2, <1>3
    <3> HIDE DEF n
    <3> QED BY <3>1
  <2>2. m \in 1..m
    <3> HIDE DEF m
    <3> QED BY <1>3
  <2> QED BY <2>1, <2>2
<1>5. Len(ps) = m /\ ps[m] = cs[m]
  BY <1>1, <1>4, PoppedCalls
<1>6. Shaped(cs[m]) /\ IsSeq(cs[m].parts)
  <2> HIDE DEF m
  <2> QED BY <1>1, <1>4, FrameKinds, PartsAreSeq
<1>7. ASSUME document \in ProfileDocuments PROVE Read(t) /\ Complete(ds, "loop", e.rest)
  <2>1. Complete(cs, "loop", d.rest)
    BY <1>7 DEF Going
  <2> HIDE DEF value
  <2> QED BY <1>1, <1>2, <1>6, <2>1, CompleteClose
<1>8. ASSUME Read(t) PROVE Going(ds, e, "loop")
  <2>1. d.state \in CloseDue(c.kind)
    <3>1. c.kind \in {"document", "array", "object"}
      BY DEF Kinds
    <3> QED BY <1>2, <3>1, DueFacts
  <2>2. /\ d.rest = <<Closer(c.kind)>> \o e.rest /\ e.rest \in Seq(Symbols)
        /\ e.state = ValueEnd(Last(d.stack)) /\ e.stack = Front(d.stack)
    <3> DEFINE kind == c.kind
    <3>1. kind \in Kinds /\ d.state \in CloseDue(kind)
      BY <2>1
    <3> HIDE DEF kind
    <3>2. /\ d.rest = <<Closer(kind)>> \o Token(d).dec.rest
             /\ Token(d).dec.rest \in Seq(Symbols)
          /\ Token(d).dec.state = ValueEnd(Last(d.stack)) /\ Token(d).dec.stack = Front(d.stack)
      BY <1>2, <1>8, <3>1, CloseTokenFrom
    <3> QED BY <3>2 DEF kind
  <2>3. Sound(ds, "loop", e.rest) /\ new.parts # <<>>
    <3> DEFINE r == e.rest
    <3>1. r \in Seq(Symbols) /\ Sound(cs, "loop", <<Closer(c.kind)>> \o r)
      BY <1>1, <2>2
    <3> HIDE DEF r
    <3>2. Sound(ds, "loop", r) /\ new.parts # <<>>
      BY <1>1, <1>2, <3>1, SoundClose
    <3> QED BY <3>2 DEF r
  <2>4. Shaped(new) /\ new.kind = cs[m].kind
    BY <1>6, ReceiveIs
  <2>5. Frame(ds)
    <3>1. new.kind = ps[Len(ps)].kind
      BY <1>5, <2>4
    <3> HIDE DEF new, ps
    <3> QED BY <1>3, <2>4, <3>1, FrameReplaced
  <2>6. InStep(ds, e, "loop")
    <3> HIDE DEF new, e
    <3> QED BY <1>1, <1>2, <2>2, <2>3, <2>4, InStepClose
  <2> QED BY <1>7, <2>3, <2>5, <2>6 DEF Going
<1> QED BY <1>5, <1>7, <1>8

\* The inductive invariant of decodeStrict.
Refuses == answer = <<Failed>> /\ ~(text = "scalars" /\ document \in ProfileDocuments)
AcceptsDocument ==
  /\ text = "scalars"
  /\ \E value : /\ answer = <<[ok |-> TRUE, value |-> value]>>
                /\ [doc |-> document, value |-> value] \in Profile

DecodeInv ==
  /\ WithinBound /\ stage \in {"text", "value", "loop"}
  /\ Running /\ stage = "text" => calls = <<Call("document")>> /\ dec = Start(document)
  /\ Running /\ stage # "text" => text = "scalars" /\ Going(calls, dec, stage)
  /\ Running \/ Refuses \/ AcceptsDocument

\* What is known of a call under way depends on these variables only.
LEMMA GoingSame ==
  ASSUME document' = document, Going(calls', dec', stage')
  PROVE  Going(calls, dec, stage)'
BY DEF Going, Sound

\* The bound is one of the document alone.
LEMMA WithinBoundSame ==
  ASSUME WithinBound, document' = document PROVE WithinBound'
BY DEF WithinBound

\* A call of decodeStrict that goes on.
LEMMA GoesOnKeeps ==
  ASSUME DecodeInv, document' = document, text' = text, text = "scalars", answer' = answer,
         Running,
         stage' \in {"value", "loop"}, Going(calls', dec', stage')
  PROVE  DecodeInv'
<1>1. Going(calls, dec, stage)'
  BY GoingSame
<1>2. WithinBound'
  BY WithinBoundSame DEF DecodeInv
<1>3. Running'
  BY DEF Running
<1> QED BY <1>1, <1>2, <1>3 DEF DecodeInv

\* A call of decodeStrict that fails.
LEMMA FailKeeps ==
  ASSUME DecodeInv, document' = document, text' = text, Fail,
         text = "scalars" => document \notin ProfileDocuments
  PROVE  DecodeInv'
<1>1. WithinBound'
  BY WithinBoundSame DEF DecodeInv
<1>2. Refuses'
  BY DEF Refuses, Fail
<1>3. ~Running'
  BY DEF Running, Fail
<1>4. stage' \in {"text", "value", "loop"}
  BY DEF DecodeInv, Fail
<1> QED BY <1>1, <1>2, <1>3, <1>4 DEF DecodeInv

\* decodeStrict is called.
LEMMA DecodeStarts ==
  DecodeInit => DecodeInv
<1> SUFFICES ASSUME DecodeInit PROVE DecodeInv
  OBVIOUS
<1>1. WithinBound
  BY JSONAssumption DEF DecodeInit, WithinBound
<1> QED BY <1>1 DEF DecodeInit, DecodeInv, Running

\* The text checks refuse no document of the profile.
LEMMA CheckTextKeeps ==
  ASSUME DecodeInv, CheckText PROVE DecodeInv'
<1>1. WithinBound /\ Running /\ document' = document /\ text' = text
      /\ calls = <<Call("document")>> /\ dec = Start(document)
  BY DEF DecodeInv, CheckText
<1>2. CASE text # "scalars" /\ Fail
  BY <1>1, <1>2, FailKeeps
<1>3. CASE text = "scalars" /\ stage' = "value" /\ UNCHANGED <<dec, calls, answer>>
  <2> DEFINE cs == <<Call("document")>>
             d == Start(document)
  <2>1. Frame(cs) /\ Sound(cs, "value", document)
    BY <1>1, SoundStart
  <2>2. d.rest = document /\ d.state = "top" /\ d.stack = <<>>
    BY DEF Start
  <2>3. Len(cs) = 1 /\ cs[1].kind = "document"
    <3>1. Call("document").kind = "document"
      BY DEF Call
    <3> QED BY <3>1
  <2>4. document \in ProfileDocuments => Complete(cs, "value", document)
    BY CompleteStart
  <2>5. calls' = cs /\ dec' = d
    BY <1>1, <1>3
  <2> HIDE DEF cs, d
  <2>6. InStep(cs, d, "value")
    <3>1. <<>> \in Seq(StackStates) /\ Len(<<>>) = 0
      BY EmptySeq
    <3>2. Due(cs[1], "value") = "top"
      BY <2>3 DEF Due
    <3>3. d.stack \in Seq(StackStates) /\ Len(d.stack) = Len(cs) - 1 /\ 1..(Len(cs) - 1) = {}
      BY <2>2, <2>3, <3>1
    <3> QED BY <1>1, <2>2, <2>3, <3>2, <3>3 DEF InStep, WithinBound
  <2>7. Going(cs, d, "value")
    BY <2>1, <2>2, <2>4, <2>6 DEF Going
  <2>8. Going(calls', dec', stage')
    BY <1>3, <2>5, <2>7
  <2> QED BY <1>1, <1>3, <2>8, GoesOnKeeps
<1> QED BY <1>2, <1>3 DEF CheckText

\* decodeValue preserves the invariant.
LEMMA DecodeValueKeeps ==
  ASSUME DecodeInv, DecodeValue PROVE DecodeInv'
<1> DEFINE t == Token(dec)
           Stops == t.ok => t.tok \in Punctuation
                            /\ (TooDeep(Len(calls)) \/ t.tok \notin {"openObject", "openArray"})
<1>1. /\ WithinBound /\ Running /\ document' = document /\ text' = text
      /\ text = "scalars" /\ stage = "value" /\ Going(calls, dec, "value")
  BY DEF DecodeInv, DecodeValue
<1>2. t.ok <=> Read(t)
  BY TokenAnswers
<1>3. CASE Stops /\ Fail
  <2>1. document \notin ProfileDocuments
    <3> SUFFICES ASSUME document \in ProfileDocuments PROVE FALSE
      OBVIOUS
    <3>1. Read(t)
            /\ (t.tok \in Punctuation =>
                  t.tok \in {"openObject", "openArray"} /\ ~TooDeep(Len(calls)))
      BY <1>1, ValueStops
    <3> HIDE DEF t
    <3> QED BY <1>2, <1>3, <3>1
  <2> QED BY <1>1, <1>3, <2>1, FailKeeps
<1>4. CASE ~Stops /\ dec' = t.dec /\ UNCHANGED answer /\ t.tok \notin Punctuation
           /\ ReturnTo(calls, Scalar(t.tok))
  <2>1. Read(t)
    <3> HIDE DEF t
    <3> QED BY <1>2, <1>4
  <2>2. Going(Replaced(calls, Receive(calls[Len(calls)], Scalar(t.tok))), t.dec, "loop")
    BY <1>1, <1>4, <2>1, ScalarStep
  <2>3. calls' = Replaced(calls, Receive(calls[Len(calls)], Scalar(t.tok))) /\ stage' = "loop"
    BY <1>4 DEF ReturnTo, Replaced
  <2>4. Going(calls', dec', stage')
    BY <1>4, <2>2, <2>3
  <2> QED BY <1>1, <1>4, <2>3, <2>4, GoesOnKeeps
<1>5. ASSUME NEW kind \in Kinds, ~Stops, dec' = t.dec, UNCHANGED answer, t.tok = Opener(kind),
             Enter(kind)
      PROVE  DecodeInv'
  <2>1. Read(t) /\ ~TooDeep(Len(calls))
    <3>1. Opener(kind) \in Punctuation
      BY DEF Opener, Punctuation
    <3> HIDE DEF t
    <3> QED BY <1>2, <1>5, <3>1
  <2>2. Len(calls) <= MaxDepth
    <3>1. Len(calls) \in Nat
      BY <1>1, GoingParts
    <3> QED BY <2>1, <3>1, JSONAssumption DEF TooDeep
  <2>3. Going(Append(calls, Call(kind)), t.dec, "loop")
    BY <1>1, <1>5, <2>1, <2>2, EnterStep
  <2>4. calls' = Append(calls, Call(kind)) /\ stage' = "loop"
    BY <1>5 DEF Enter
  <2>5. Going(calls', dec', stage')
    BY <1>5, <2>3, <2>4
  <2> QED BY <1>1, <1>5, <2>4, <2>5, GoesOnKeeps
<1>6. "array" \in Kinds /\ "object" \in Kinds /\ Opener("array") = "openArray"
        /\ Opener("object") = "openObject"
  BY DEF Kinds, Opener
<1>7. \/ Stops /\ Fail
      \/ /\ ~Stops /\ dec' = t.dec /\ UNCHANGED answer
         /\ \/ t.tok \notin Punctuation /\ ReturnTo(calls, Scalar(t.tok))
            \/ t.tok = "openObject" /\ Enter("object")
            \/ t.tok = "openArray" /\ Enter("array")
  BY DEF DecodeValue
<1> HIDE DEF t, Stops
<1> QED BY <1>3, <1>4, <1>5, <1>6, <1>7

\* decodeArray's loop preserves it.
LEMMA DecodeElementKeeps ==
  ASSUME DecodeInv, DecodeElement PROVE DecodeInv'
<1>1. /\ WithinBound /\ Running /\ document' = document /\ text' = text /\ answer' = answer
      /\ text = "scalars" /\ Going(calls, dec, "loop")
      /\ calls[Len(calls)].kind = "array" /\ More(dec)
      /\ calls' = calls /\ dec' = dec /\ stage' = "value"
  BY DEF DecodeInv, DecodeElement, Innermost
<1>2. Going(calls, dec, "value")
  BY <1>1, ElementStep
<1>3. Going(calls', dec', stage')
  BY <1>1, <1>2
<1> QED BY <1>1, <1>3, GoesOnKeeps

\* decodeObject's loop preserves it.
LEMMA DecodeMemberKeeps ==
  ASSUME DecodeInv, DecodeMember PROVE DecodeInv'
<1> DEFINE t == Token(dec)
           c == calls[Len(calls)]
           Stops == t.ok => t.tok \notin Strings \/ Duplicate(c.parts, t.tok)
<1>1. /\ WithinBound /\ Running /\ document' = document /\ text' = text
      /\ text = "scalars" /\ Going(calls, dec, "loop") /\ c.kind = "object" /\ More(dec)
  BY DEF DecodeInv, DecodeMember, Innermost
<1>2. t.ok <=> Read(t)
  BY TokenAnswers
<1>3. /\ Read(t) /\ t.tok \in Strings /\ ~Duplicate(c.parts, t.tok) =>
           Going(Replaced(calls, Named(c, t.tok)), t.dec, "value")
      /\ document \in ProfileDocuments =>
           Read(t) /\ t.tok \in Strings /\ ~Duplicate(c.parts, t.tok)
  BY <1>1, MemberStep
<1>4. CASE Stops /\ Fail
  <2>1. document \notin ProfileDocuments
    <3> HIDE DEF t, c
    <3> QED BY <1>2, <1>3, <1>4
  <2> QED BY <1>1, <1>4, <2>1, FailKeeps
<1>5. CASE ~Stops /\ dec' = t.dec /\ stage' = "value" /\ UNCHANGED answer
           /\ calls' = [calls EXCEPT ![Len(calls)].key = t.tok]
  <2>1. Going(Replaced(calls, Named(c, t.tok)), t.dec, "value")
    <3> HIDE DEF t, c
    <3> QED BY <1>2, <1>3, <1>5
  <2>2. calls' = Replaced(calls, Named(c, t.tok))
    BY <1>5 DEF Replaced, Named
  <2>3. Going(calls', dec', stage')
    BY <1>5, <2>1, <2>2
  <2> QED BY <1>1, <1>5, <2>3, GoesOnKeeps
<1>6. \/ Stops /\ Fail
      \/ /\ ~Stops /\ dec' = t.dec /\ stage' = "value"
         /\ calls' = [calls EXCEPT ![Len(calls)].key = t.tok]
         /\ UNCHANGED answer
  BY DEF DecodeMember, Innermost
<1> HIDE DEF t, Stops
<1> QED BY <1>4, <1>5, <1>6

\* The return of either preserves it.
LEMMA CloseContainerKeeps ==
  ASSUME DecodeInv, CloseContainer PROVE DecodeInv'
<1> DEFINE t == Token(dec)
           c == calls[Len(calls)]
           ps == Popped(calls)
<1>1. /\ WithinBound /\ Running /\ document' = document /\ text' = text
      /\ text = "scalars" /\ Going(calls, dec, "loop") /\ c.kind \in Kinds /\ ~More(dec)
  BY DEF DecodeInv, CloseContainer, Innermost, Kinds
<1>2. t.ok <=> Read(t)
  BY TokenAnswers
<1>3. /\ Read(t) => Going(Replaced(ps, Receive(ps[Len(ps)], Container(c))), t.dec, "loop")
      /\ document \in ProfileDocuments => Read(t)
  BY <1>1, CloseStep
<1>4. CASE ~t.ok /\ Fail
  BY <1>1, <1>2, <1>3, <1>4, FailKeeps
<1>5. CASE t.ok /\ dec' = t.dec /\ ReturnTo(Outer, Container(Innermost)) /\ UNCHANGED answer
  <2>1. calls' = Replaced(ps, Receive(ps[Len(ps)], Container(c))) /\ stage' = "loop"
    BY <1>5 DEF ReturnTo, Outer, Innermost, Replaced, Popped
  <2>2. Going(calls', dec', stage')
    BY <1>2, <1>3, <1>5, <2>1
  <2> QED BY <1>1, <1>5, <2>1, <2>2, GoesOnKeeps
<1> QED BY <1>4, <1>5 DEF CloseContainer

\* The check that nothing follows the document preserves it.
LEMMA EndDocumentKeeps ==
  ASSUME DecodeInv, EndDocument PROVE DecodeInv'
<1> DEFINE c == calls[Len(calls)]
<1>1. /\ WithinBound /\ Running /\ document' = document /\ text' = text
      /\ text = "scalars" /\ stage = "loop" /\ Going(calls, dec, "loop") /\ c.kind = "document"
  BY DEF DecodeInv, EndDocument, Innermost
<1>2. CASE ~EndsThere(dec) /\ Fail
  <2>1. document \notin ProfileDocuments
    <3> SUFFICES ASSUME document \in ProfileDocuments PROVE FALSE
      OBVIOUS
    <3>1. Frame(calls) /\ Complete(calls, "loop", dec.rest)
      BY <1>1 DEF Going
    <3>2. dec.rest = <<>>
      BY <1>1, <3>1, CompleteEnd
    <3> QED BY <1>2, <3>2 DEF EndsThere
  <2> QED BY <1>1, <1>2, <2>1, FailKeeps
<1>3. CASE EndsThere(dec) /\ answer' = <<[ok |-> TRUE, value |-> Innermost.parts[1]]>>
           /\ UNCHANGED <<dec, calls, stage>>
  <2>1. Frame(calls) /\ Sound(calls, "loop", <<>>)
    BY <1>1, <1>3 DEF Going, EndsThere
  <2> DEFINE value == c.parts[1]
  <2>2. [doc |-> document, value |-> value] \in Profile
    BY <1>1, <2>1, SoundEnd
  <2>3. answer' = <<[ok |-> TRUE, value |-> value]>>
    BY <1>3 DEF Innermost
  <2> HIDE DEF value
  <2>4. AcceptsDocument'
    BY <1>1, <2>2, <2>3 DEF AcceptsDocument
  <2>5. ~Running'
    BY <2>3 DEF Running
  <2>6. WithinBound'
    BY <1>1, WithinBoundSame
  <2> QED BY <1>1, <1>3, <2>4, <2>5, <2>6 DEF DecodeInv
<1> QED BY <1>2, <1>3 DEF EndDocument

\* Every step of decodeStrict preserves it.
LEMMA DecodeInvIsInductive ==
  DecodeInv /\ [DecodeNext]_decodeVars => DecodeInv'
<1> SUFFICES ASSUME DecodeInv, [DecodeNext]_decodeVars PROVE DecodeInv'
  OBVIOUS
<1>1. CASE DecodeNext
  BY <1>1, CheckTextKeeps, DecodeValueKeeps, DecodeElementKeeps, DecodeMemberKeeps,
     CloseContainerKeeps, EndDocumentKeeps DEF DecodeNext
<1>2. CASE UNCHANGED decodeVars
  BY <1>2 DEF DecodeInv, decodeVars, WithinBound, Running, Refuses, AcceptsDocument, Going,
    Sound
<1> QED BY <1>1, <1>2

\* What decodeStrict returned is as it should be.
LEMMA DecodeInvSuffices ==
  DecodeInv => DecodesExactly
<1> SUFFICES ASSUME DecodeInv PROVE DecodesExactly
  OBVIOUS
<1>1. CASE Running
  BY <1>1 DEF Running, DecodesExactly
<1>2. CASE Refuses
  <2>1. DOMAIN answer = {1} /\ answer[1] = Failed
    BY <1>2 DEF Refuses
  <2>2. ~answer[1].ok
    BY <2>1 DEF Failed
  <2> QED BY <1>2, <2>1, <2>2 DEF Refuses, DecodesExactly
<1>3. CASE AcceptsDocument
  <2>1. PICK value : /\ answer = <<[ok |-> TRUE, value |-> value]>>
                     /\ [doc |-> document, value |-> value] \in Profile
    BY <1>3 DEF AcceptsDocument
  <2>2. DOMAIN answer = {1} /\ answer[1].ok = TRUE /\ answer[1].value = value
    BY <2>1
  <2>3. document \in ProfileDocuments
    BY <2>1 DEF ProfileDocuments
  <2> QED BY <1>3, <2>1, <2>2, <2>3 DEF AcceptsDocument, DecodesExactly
<1> QED BY <1>1, <1>2, <1>3 DEF DecodeInv

\* decodeStrict accepts exactly the documents of the parse profile and returns
\* what they denote, for every document, every alphabet and every MaxDepth.
THEOREM StrictDecodes ==
  DecodeSpec => []DecodesExactly
BY DecodeStarts, DecodeInvIsInductive, DecodeInvSuffices, PTL DEF DecodeSpec
=============================================================================
