--------------------------- MODULE ManifestProofs ---------------------------
(***************************************************************************)
(* What ParseManifest promises of the monitors it returns, for every       *)
(* stream of documents, number of entries, name, and bounds and defaults   *)
(* of the schema.                                                          *)
(***************************************************************************)
EXTENDS Manifest, SequenceLemmas

\* What the loop has made of the first taken entries: a monitor for each, in order,
\* that passed the rules, under a folded name no other has.
LoopInv ==
  /\ taken = Len(monitors) /\ taken <= Len(entries)
  /\ \A i \in 1..taken :
       /\ monitors[i] = NewMonitor(entries[i])
       /\ ValidateSlug(monitors[i].name) /\ ~RotateRatio(monitors[i])
       /\ Fold(monitors[i].name) \in seen
  /\ \A i, j \in 1..taken : Fold(monitors[i].name) = Fold(monitors[j].name) => i = j
  /\ \A name \in seen : \E i \in 1..taken : name = Fold(monitors[i].name)

\* The entries are those of the only document, which the schema accepts.
DocumentInv ==
  /\ stream \in Streams
  /\ status = "pending" => taken = 0
  /\ status \in {"entries", "ok"} =>
       OneDocument /\ Validates /\ entries = stream[1].entries
  /\ status = "ok" => taken = Len(entries)

\* The monitors that can be made of the entries.
Monitors == {NewMonitor(e) : e \in ToSet(entries)}

ManifestInv ==
  /\ entries \in Seq(ToSet(entries)) /\ monitors \in Seq(Monitors)
  /\ DocumentInv /\ LoopInv

-----------------------------------------------------------------------------
\* A stream of one document has the entries of that one.
LEMMA FlattenOne ==
  ASSUME NEW ss, Len(ss) = 1
  PROVE  FlattenSeq(ss) = ss[1]
<1> DEFINE Def(g) == [i \in 1..Len(ss) |-> IF i = 1 THEN ss[i] ELSE g[i - 1] \o ss[i]]
           flatten == CHOOSE g : g = Def(g)
<1>1. [i \in 1..1 |-> ss[1]] = Def([i \in 1..1 |-> ss[1]])
  OBVIOUS
<1>2. flatten = Def(flatten)
  <2> HIDE DEF Def
  <2> QED BY <1>1
<1> HIDE DEF flatten
<1>3. flatten[1] = ss[1]
  BY <1>2
<1> QED BY <1>3 DEF FlattenSeq, flatten

LEMMA InitManifestInv ==
  ASSUME ManifestInit PROVE ManifestInv
<1>1. /\ stream \in Streams /\ entries = <<>> /\ taken = 0 /\ seen = {} /\ monitors = <<>>
      /\ status = "pending"
  BY DEF ManifestInit
<1>2. Len(entries) = 0 /\ Len(monitors) = 0
      /\ entries \in Seq(ToSet(entries)) /\ monitors \in Seq(Monitors)
  BY <1>1
<1>3. DocumentInv
  BY <1>1 DEF DocumentInv
<1>4. LoopInv
  BY <1>1, <1>2 DEF LoopInv
<1> QED BY <1>2, <1>3, <1>4 DEF ManifestInv

\* The entries of a document of a stream are a sequence.
LEMMA AcceptStreamStep ==
  ASSUME ManifestInv, AcceptStream PROVE ManifestInv'
<1>1. /\ status = "pending" /\ status' = "entries" /\ OneDocument /\ Validates
      /\ entries' = stream[1].entries
      /\ UNCHANGED stream /\ UNCHANGED taken /\ UNCHANGED seen /\ UNCHANGED monitors
  BY DEF AcceptStream
<1>2. /\ stream \in Streams /\ taken = 0 /\ Len(monitors) = 0
      /\ \A name \in seen : \E i \in 1..taken : name = Fold(monitors[i].name)
      /\ monitors \in Seq(Monitors)
  BY <1>1 DEF ManifestInv, DocumentInv, LoopInv
<1>3. stream[1] \in ToSet(stream)
  <2>1. stream \in Seq(ToSet(stream)) /\ Len(stream) = 1
    BY <1>1, <1>2, ManifestAssumption DEF OneDocument
  <2>2. 1 \in 1..Len(stream)
    BY <2>1
  <2> QED BY <2>1, <2>2, ElementOfSeq
<1>4. entries' \in Seq(ToSet(entries'))
  BY <1>1, <1>2, <1>3, ManifestAssumption
<1>5. Len(entries') \in Nat
  BY <1>4, LenProperties
<1>6. monitors' = <<>> /\ monitors' \in Seq(Monitors')
  BY <1>1, <1>2, EmptySeq
<1>7. DocumentInv'
  BY <1>1, <1>2 DEF DocumentInv, OneDocument, Validates
<1>8. LoopInv'
  <2>1. Len(monitors') = 0 /\ taken' = 0 /\ taken' <= Len(entries')
    BY <1>1, <1>2, <1>5
  <2>2. 1..0 = {}
    OBVIOUS
  <2> QED BY <1>1, <1>2, <2>1, <2>2 DEF LoopInv
<1> QED BY <1>4, <1>6, <1>7, <1>8 DEF ManifestInv

\* A step that ends the parse with an error.
LEMMA FinishStep ==
  ASSUME ManifestInv, NEW how \in {"error", "panic"}, Finish(how)
  PROVE  ManifestInv'
<1>1. /\ status' = how /\ UNCHANGED stream /\ UNCHANGED entries /\ UNCHANGED taken
      /\ UNCHANGED seen /\ UNCHANGED monitors
  BY DEF Finish
<1>2. DocumentInv'
  BY <1>1 DEF ManifestInv, DocumentInv
<1>3. LoopInv'
  BY <1>1 DEF ManifestInv, LoopInv
<1>4. entries' \in Seq(ToSet(entries')) /\ monitors' \in Seq(Monitors')
  BY <1>1 DEF ManifestInv, Monitors
<1> QED BY <1>2, <1>3, <1>4 DEF ManifestInv

LEMMA ReturnStep ==
  ASSUME ManifestInv, ReturnMonitors PROVE ManifestInv'
<1>1. /\ status = "entries" /\ status' = "ok" /\ taken = Len(entries)
      /\ UNCHANGED stream /\ UNCHANGED entries /\ UNCHANGED taken
      /\ UNCHANGED seen /\ UNCHANGED monitors
  BY DEF ReturnMonitors, Finish
<1>2. DocumentInv'
  BY <1>1 DEF ManifestInv, DocumentInv, OneDocument, Validates
<1>3. LoopInv'
  BY <1>1 DEF ManifestInv, LoopInv
<1>4. entries' \in Seq(ToSet(entries')) /\ monitors' \in Seq(Monitors')
  BY <1>1 DEF ManifestInv, Monitors
<1> QED BY <1>2, <1>3, <1>4 DEF ManifestInv

\* The loop takes the next entry: its folded name is new.
LEMMA AddMonitorStep ==
  ASSUME ManifestInv, AddMonitor PROVE ManifestInv'
<1> DEFINE m == NewMonitor(entries[taken + 1])
<1>1. /\ status = "entries" /\ taken < Len(entries)
      /\ ValidateSlug(m.name) /\ ~RotateRatio(m) /\ Fold(m.name) \notin seen
      /\ seen' = seen \cup {Fold(m.name)} /\ monitors' = Append(monitors, m)
      /\ taken' = taken + 1
      /\ UNCHANGED stream /\ UNCHANGED entries /\ UNCHANGED status
  BY DEF AddMonitor, Looping, EntryRefused, Alias
<1>2. /\ entries \in Seq(ToSet(entries)) /\ monitors \in Seq(Monitors)
      /\ taken = Len(monitors) /\ taken \in Nat /\ Len(entries) \in Nat
  BY LenProperties DEF ManifestInv, LoopInv
<1>3. taken + 1 \in 1..Len(entries)
  BY <1>1, <1>2
<1>4. m \in Monitors
  BY <1>2, <1>3, ElementOfSeq DEF Monitors
<1> HIDE DEF m
<1>5. /\ monitors' \in Seq(Monitors) /\ Len(monitors') = taken + 1 /\ monitors'[taken + 1] = m
      /\ \A i \in 1..taken : monitors'[i] = monitors[i]
  BY <1>1, <1>2, <1>4, AppendProperties
<1>6. \A i \in 1..(taken + 1) : i = taken + 1 \/ i \in 1..taken
  BY <1>2
<1>7. /\ \A i \in 1..taken :
           /\ monitors[i] = NewMonitor(entries[i])
           /\ ValidateSlug(monitors[i].name) /\ ~RotateRatio(monitors[i])
           /\ Fold(monitors[i].name) \in seen
      /\ \A i, j \in 1..taken : Fold(monitors[i].name) = Fold(monitors[j].name) => i = j
      /\ \A name \in seen : \E i \in 1..taken : name = Fold(monitors[i].name)
  BY DEF ManifestInv, LoopInv
<1>8. LoopInv'
  <2>1. taken' = Len(monitors') /\ taken' <= Len(entries')
    BY <1>1, <1>2, <1>5
  <2>2. ASSUME NEW i \in 1..(taken + 1)
        PROVE  /\ monitors'[i] = NewMonitor(entries[i])
               /\ ValidateSlug(monitors'[i].name) /\ ~RotateRatio(monitors'[i])
               /\ Fold(monitors'[i].name) \in seen'
    <3>1. CASE i = taken + 1
      BY <1>1, <1>5, <3>1 DEF m
    <3>2. CASE i \in 1..taken
      BY <1>1, <1>5, <1>7, <3>2
    <3> QED BY <1>6, <3>1, <3>2
  <2>3. ASSUME NEW i \in 1..(taken + 1), NEW j \in 1..(taken + 1),
               Fold(monitors'[i].name) = Fold(monitors'[j].name)
        PROVE  i = j
    <3>1. \A n \in 1..taken : Fold(monitors'[n].name) \in seen
      BY <1>5, <1>7
    <3>2. CASE i \in 1..taken /\ j \in 1..taken
      BY <1>5, <1>7, <2>3, <3>2
    <3>3. CASE i = taken + 1 \/ j = taken + 1
      BY <1>1, <1>5, <1>6, <2>3, <3>1, <3>3
    <3> QED BY <1>6, <3>2, <3>3
  <2>4. ASSUME NEW name \in seen'
        PROVE  \E i \in 1..(taken + 1) : name = Fold(monitors'[i].name)
    <3>1. CASE name = Fold(m.name)
      <4>1. taken + 1 \in 1..(taken + 1)
        BY <1>2
      <4> QED BY <1>5, <3>1, <4>1
    <3>2. CASE name \in seen
      <4>1. PICK i \in 1..taken : name = Fold(monitors[i].name)
        BY <1>7, <3>2
      <4>2. i \in 1..(taken + 1) /\ monitors'[i] = monitors[i]
        BY <1>2, <1>5
      <4> QED BY <4>1, <4>2
    <3> QED BY <1>1, <3>1, <3>2
  <2> QED BY <1>1, <2>1, <2>2, <2>3, <2>4 DEF LoopInv
<1>9. DocumentInv'
  BY <1>1 DEF ManifestInv, DocumentInv, OneDocument, Validates
<1>10. entries' \in Seq(ToSet(entries')) /\ monitors' \in Seq(Monitors')
  BY <1>1, <1>2, <1>5 DEF Monitors
<1> QED BY <1>8, <1>9, <1>10 DEF ManifestInv

LEMMA NextManifestInv ==
  ASSUME ManifestInv, [ManifestNext]_manifestVars PROVE ManifestInv'
<1>1. CASE RefuseStream \/ RefuseEntry
  BY <1>1, FinishStep DEF RefuseStream, RefuseEntry
<1>2. CASE EntryPanics
  BY <1>2, FinishStep DEF EntryPanics
<1>3. CASE UNCHANGED manifestVars
  <2>1. UNCHANGED <<stream, entries, taken, seen, monitors, status>>
    BY <1>3 DEF manifestVars
  <2> QED BY <2>1 DEF ManifestInv, DocumentInv, LoopInv, Monitors, OneDocument, Validates
<1> QED BY <1>1, <1>2, <1>3, AcceptStreamStep, AddMonitorStep, ReturnStep DEF ManifestNext

\* The invariant holds of every state of a parse.
THEOREM ManifestCorrect == ManifestSpec => []ManifestInv
BY InitManifestInv, NextManifestInv, PTL DEF ManifestSpec

-----------------------------------------------------------------------------
\* The positions of the result are those of the loop.
LEMMA ResultPositions ==
  ASSUME ManifestInv PROVE DOMAIN monitors = 1..taken
BY LenProperties DEF ManifestInv, LoopInv

\* No two sources a manifest configures have one file name, and none leaves its
\* directory, because the loop compares each folded name with all before it
\* and every name has passed ValidateSlug.
THEOREM SourcesAreApart == ManifestSpec => []SourcesApart
<1>1. ManifestInv => SourcesApart
  <2> SUFFICES ASSUME ManifestInv PROVE SourcesApart
    OBVIOUS
  <2>1. /\ \A i, j \in 1..taken : Fold(monitors[i].name) = Fold(monitors[j].name) => i = j
        /\ \A i \in 1..taken : ValidateSlug(monitors[i].name)
    BY DEF ManifestInv, LoopInv
  <2>2. ASSUME NEW i \in 1..taken
        PROVE  /\ monitors[i].name # <<>> /\ monitors[i].name[1] # "."
               /\ \A c \in DOMAIN monitors[i].name :
                    monitors[i].name[c] \notin {"/", "newline"}
    <3>1. /\ monitors[i].name # <<>> /\ monitors[i].name[1] \in SlugStart
          /\ \A c \in DOMAIN monitors[i].name : monitors[i].name[c] \in SlugRest
      BY <2>1 DEF ValidateSlug
    <3> QED BY <3>1 DEF SlugStart, SlugRest, Lower
  <2> QED BY <2>1, <2>2, ResultPositions DEF SourcesApart
<1> QED BY <1>1, ManifestCorrect, PTL

\* Retention can remove a whole segment of every source, whatever the ceiling
\* and wherever a threshold comes from: r > c \div 2 refuses exactly the pairs
\* with 2r > c, odd ceilings included.
THEOREM RetentionIsRemovable == ManifestSpec => []RetentionRemovable
<1>1. ManifestInv => RetentionRemovable
  <2> SUFFICES ASSUME ManifestInv, status = "ok", NEW i \in 1..taken
               PROVE  monitors[i].ints["rotate_bytes"] <=
                        monitors[i].ints["retention_bytes"] - monitors[i].ints["rotate_bytes"]
    BY ResultPositions DEF RetentionRemovable
  <2>1. /\ monitors[i] = NewMonitor(entries[i]) /\ ~RotateRatio(monitors[i])
        /\ taken = Len(entries)
    BY DEF ManifestInv, LoopInv, DocumentInv
  <2>2. /\ Validates /\ entries = stream[1].entries
        /\ i \in DOMAIN entries
    BY <2>1, LenProperties DEF ManifestInv, DocumentInv
  <2>3. ValidEntry(entries[i])
    BY <2>2 DEF Validates
  <2>4. \A f \in IntFields : NewMonitor(entries[i]).ints[f] \in Int
    <3> SUFFICES ASSUME NEW f \in IntFields PROVE NewMonitor(entries[i]).ints[f] \in Int
      OBVIOUS
    <3>1. NewMonitor(entries[i]).ints[f] =
            IF f \in DOMAIN entries[i].ints THEN entries[i].ints[f].value ELSE Defaults[f]
      BY DEF NewMonitor
    <3>2. f \in DOMAIN entries[i].ints =>
            entries[i].ints[f].value \in Bounds[f].min..Bounds[f].max
      BY <2>3 DEF ValidEntry
    <3>3. {Bounds[f].min, Bounds[f].max, Defaults[f]} \subseteq Nat
      BY ManifestAssumption
    <3> QED BY <3>1, <3>2, <3>3
  <2>5. /\ monitors[i].ints["rotate_bytes"] \in Int
        /\ monitors[i].ints["retention_bytes"] \in Int
    BY <2>1, <2>4, ManifestAssumption
  <2>6. ~(monitors[i].ints["rotate_bytes"] > monitors[i].ints["retention_bytes"] \div 2)
    BY <2>1 DEF RotateRatio
  <2> QED BY <2>5, <2>6
<1> QED BY <1>1, ManifestCorrect, PTL

\* A manifest that loads has a monitor for each of its entries and for no
\* other, in order: no document and no entry of it is left out.
THEOREM AllAreSupervised == ManifestSpec => []AllSupervised
<1>1. ManifestInv => AllSupervised
  <2> SUFFICES ASSUME ManifestInv, status = "ok" PROVE AllSupervised
    BY DEF AllSupervised
  <2> DEFINE names == [d \in DOMAIN stream |->
                         [i \in DOMAIN stream[d].entries |-> stream[d].entries[i].name]]
             result == [i \in DOMAIN monitors |-> monitors[i].name]
  <2>1. /\ stream \in Streams /\ Len(stream) = 1 /\ entries = stream[1].entries
        /\ taken = Len(entries) /\ \A i \in 1..taken : monitors[i] = NewMonitor(entries[i])
        /\ entries \in Seq(ToSet(entries))
    BY DEF ManifestInv, DocumentInv, LoopInv, OneDocument
  <2>2. DOMAIN stream = 1..1
    <3>1. stream \in Seq(ToSet(stream))
      BY <2>1, ManifestAssumption
    <3> QED BY <2>1, <3>1, LenProperties
  <2>3. DOMAIN entries = 1..taken
    BY <2>1, LenProperties
  <2>4. names[1] = [i \in 1..taken |-> entries[i].name] /\ DOMAIN names = 1..1
    BY <2>1, <2>2, <2>3
  <2>5. Len(names) = 1
    <3>1. names \in [1..1 -> {names[1]}]
      BY <2>2
    <3>2. 1 \in Nat
      OBVIOUS
    <3> HIDE DEF names
    <3> QED BY <3>1, <3>2, SegmentIsSeq
  <2>6. FlattenSeq(names) = names[1]
    <3> HIDE DEF names
    <3> QED BY <2>4, <2>5, FlattenOne
  <2>7. result = [i \in 1..taken |-> entries[i].name]
    <3>1. \A i \in 1..taken : monitors[i].name = entries[i].name
      <4>1. \A e : NewMonitor(e).name = e.name
        BY DEF NewMonitor
      <4> QED BY <2>1, <4>1
    <3> QED BY <3>1, ResultPositions
  <2>8. result = FlattenSeq(names)
    <3> HIDE DEF names, result
    <3> QED BY <2>4, <2>6, <2>7
  <2> QED BY <2>8 DEF AllSupervised
<1> QED BY <1>1, ManifestCorrect, PTL
=============================================================================
