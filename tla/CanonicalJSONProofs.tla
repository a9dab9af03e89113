------------------------ MODULE CanonicalJSONProofs ------------------------
(***************************************************************************)
(* The canonical text, for all values of any finite nesting: it can be     *)
(* read back, so a digest decides; it is one line; its members are in the  *)
(* order of their UTF-16 encodings.                                        *)
(*                                                                         *)
(* The order: a rune has a weight that orders runes as their encodings do, *)
(* so compareUTF16 is the order of the sequences of weights, and that of   *)
(* the whole encodings.  Being total, it leaves the keys of an object in   *)
(* one order.  Reading back: of two texts that begin at one position of a  *)
(* third and are followed by a delimiter, or its end, the values are equal *)
(* (Readable); the proof is by induction on the nesting.                   *)
(***************************************************************************)
EXTENDS CanonicalJSON, FiniteSetTheorems, SequenceLemmas

-----------------------------------------------------------------------------
(* The order of sequences *)

\* Sequences that differ somewhere differ first at one position.
LEMMA DifferExists ==
  ASSUME NEW S, NEW a \in Seq(S), NEW b \in Seq(S),
         NEW k \in 1..Len(a), k <= Len(b), a[k] # b[k]
  PROVE  \E m \in 1..k : DifferAt(a, b, m)
<1> DEFINE T == {m \in 1..k : a[m] # b[m]}
<1>1. Len(a) \in Nat /\ Len(b) \in Nat /\ DOMAIN a = 1..Len(a) /\ DOMAIN b = 1..Len(b)
  BY LenProperties
<1>2. T \in SUBSET Nat /\ T # {}
  BY <1>1
<1>3. PICK m \in T : \A x \in T : m <= x
  <2> HIDE DEF T
  <2> QED BY <1>2, LeastNatural
<1>4. m \in 1..k /\ a[m] # b[m] /\ m \in DOMAIN a /\ m \in DOMAIN b
  BY <1>1
<1>5. ASSUME NEW x \in 1..(m - 1) PROVE a[x] = b[x]
  <2>1. x \in 1..k /\ x < m
    BY <1>1, <1>4
  <2>2. x \notin T
    BY <1>1, <1>3, <1>4, <2>1
  <2> QED BY <2>1, <2>2
<1> QED BY <1>4, <1>5 DEF DifferAt

\* The first difference is the only one, and FirstDifference finds it.
LEMMA DifferUnique ==
  ASSUME NEW S, NEW a \in Seq(S), NEW b \in Seq(S), NEW k, DifferAt(a, b, k)
  PROVE  /\ FirstDifference(a, b) = k /\ k \in DOMAIN a
         /\ k \in 1..Len(a) /\ k \in 1..Len(b) /\ Len(a) \in Nat /\ Len(b) \in Nat
         /\ a[k] # b[k] /\ \A m \in 1..(k - 1) : a[m] = b[m]
<1>1. Len(a) \in Nat /\ Len(b) \in Nat /\ DOMAIN a = 1..Len(a) /\ DOMAIN b = 1..Len(b)
  BY LenProperties
<1>2. ASSUME NEW x, DifferAt(a, b, x), NEW y, DifferAt(a, b, y) PROVE ~(x < y)
  BY <1>1, <1>2 DEF DifferAt
<1>3. \A x : DifferAt(a, b, x) => x \in DOMAIN a /\ x \in 1..Len(a) /\ x \in 1..Len(b)
  BY <1>1 DEF DifferAt
<1>4. FirstDifference(a, b) \in DOMAIN a /\ DifferAt(a, b, FirstDifference(a, b))
  BY <1>3 DEF FirstDifference
<1>5. FirstDifference(a, b) \in Nat /\ k \in Nat
  BY <1>1, <1>3, <1>4
<1>6. FirstDifference(a, b) = k
  BY <1>2, <1>4, <1>5
<1> QED BY <1>1, <1>3, <1>6 DEF DifferAt

\* What the comparison of integer sequences gives.
LEMMA CompareDiffer ==
  ASSUME NEW a \in Seq(Int), NEW b \in Seq(Int), NEW k, DifferAt(a, b, k)
  PROVE  /\ Compare(a, b) = Sign(a[k] - b[k])
         /\ k \in 1..Len(a) /\ k \in 1..Len(b) /\ a[k] \in Int /\ b[k] \in Int
         /\ a[k] # b[k] /\ \A m \in 1..(k - 1) : a[m] = b[m]
<1>1. /\ FirstDifference(a, b) = k /\ k \in DOMAIN a /\ k \in 1..Len(a) /\ k \in 1..Len(b)
      /\ a[k] # b[k] /\ \A m \in 1..(k - 1) : a[m] = b[m]
  BY DifferUnique
<1>2. a[k] \in Int /\ b[k] \in Int
  BY <1>1, ElementOfSeq
<1>3. Compare(a, b) = Sign(a[k] - b[k])
  BY <1>1 DEF Compare
<1> QED BY <1>1, <1>2, <1>3

\* Sequences without a difference are ordered by their lengths.
LEMMA CompareAgree ==
  ASSUME NEW a \in Seq(Int), NEW b \in Seq(Int), \A k : ~DifferAt(a, b, k)
  PROVE  /\ Compare(a, b) = Sign(Len(a) - Len(b))
         /\ Len(a) \in Nat /\ Len(b) \in Nat
         /\ \A k \in 1..Len(a) : k <= Len(b) => a[k] = b[k]
<1>1. ASSUME NEW k \in 1..Len(a), k <= Len(b) PROVE a[k] = b[k]
  BY <1>1, DifferExists
<1>2. Compare(a, b) = Sign(Len(a) - Len(b))
  BY DEF Compare
<1> QED BY <1>1, <1>2, LenProperties

\* a is not behind b: the first difference says so, or a is a prefix.
LEMMA CompareMeaning ==
  ASSUME NEW a \in Seq(Int), NEW b \in Seq(Int)
  PROVE  Compare(a, b) <= 0 <=>
           \/ \E k \in 1..Len(a) : /\ k <= Len(b) /\ a[k] < b[k]
                                   /\ \A m \in 1..(k - 1) : a[m] = b[m]
           \/ Len(a) <= Len(b) /\ \A k \in 1..Len(a) : a[k] = b[k]
<1>1. Len(a) \in Nat /\ Len(b) \in Nat /\ DOMAIN a = 1..Len(a) /\ DOMAIN b = 1..Len(b)
  BY LenProperties
<1>2. (\A k \in 1..Len(a) : a[k] \in Int) /\ \A k \in 1..Len(b) : b[k] \in Int
  BY ElementOfSeq
<1>3. ASSUME NEW k, DifferAt(a, b, k)
      PROVE  Compare(a, b) <= 0 <=>
               \/ \E x \in 1..Len(a) : /\ x <= Len(b) /\ a[x] < b[x]
                                       /\ \A m \in 1..(x - 1) : a[m] = b[m]
               \/ Len(a) <= Len(b) /\ \A x \in 1..Len(a) : a[x] = b[x]
  <2>1. /\ Compare(a, b) = Sign(a[k] - b[k])
        /\ k \in 1..Len(a) /\ k \in 1..Len(b) /\ a[k] \in Int /\ b[k] \in Int
        /\ a[k] # b[k] /\ \A m \in 1..(k - 1) : a[m] = b[m]
    BY <1>3, CompareDiffer
  <2>2. Compare(a, b) <= 0 <=> a[k] < b[k]
    BY <2>1 DEF Sign
  <2>3. ASSUME NEW x \in 1..Len(a), x <= Len(b), a[x] < b[x],
               \A m \in 1..(x - 1) : a[m] = b[m]
        PROVE  x = k
    <3>1. a[x] # b[x] /\ x \in Nat /\ k \in Nat
      BY <1>1, <1>2, <2>1, <2>3
    <3>2. ~(x < k) /\ ~(k < x)
      BY <2>1, <2>3, <3>1
    <3> QED BY <3>1, <3>2
  <2>4. k <= Len(b)
    BY <1>1, <2>1
  <2> QED BY <2>1, <2>2, <2>3, <2>4
<1>4. ASSUME \A k : ~DifferAt(a, b, k)
      PROVE  Compare(a, b) <= 0 <=>
               \/ \E x \in 1..Len(a) : /\ x <= Len(b) /\ a[x] < b[x]
                                       /\ \A m \in 1..(x - 1) : a[m] = b[m]
               \/ Len(a) <= Len(b) /\ \A x \in 1..Len(a) : a[x] = b[x]
  <2>1. /\ Compare(a, b) = Sign(Len(a) - Len(b))
        /\ \A k \in 1..Len(a) : k <= Len(b) => a[k] = b[k]
    BY <1>4, CompareAgree
  <2>2. Compare(a, b) <= 0 <=> Len(a) <= Len(b)
    BY <1>1, <2>1 DEF Sign
  <2>3. ASSUME NEW x \in 1..Len(a), x <= Len(b) PROVE ~(a[x] < b[x])
    BY <1>1, <1>2, <2>1, <2>3
  <2>4. Len(a) <= Len(b) => \A x \in 1..Len(a) : a[x] = b[x]
    BY <1>1, <2>1
  <2> QED BY <2>2, <2>3, <2>4
<1> QED BY <1>3, <1>4

\* It is antisymmetric and transitive.
LEMMA CompareOrders ==
  ASSUME NEW a \in Seq(Int), NEW b \in Seq(Int)
  PROVE  /\ Compare(a, b) <= 0 /\ Compare(b, a) <= 0 => a = b
         /\ \A c \in Seq(Int) :
              Compare(a, b) <= 0 /\ Compare(b, c) <= 0 => Compare(a, c) <= 0
<1>1. Len(a) \in Nat /\ Len(b) \in Nat
  BY LenProperties
<1>2. (\A k \in 1..Len(a) : a[k] \in Int) /\ \A k \in 1..Len(b) : b[k] \in Int
  BY ElementOfSeq
<1> DEFINE Less(x, y, k) == /\ k \in 1..Len(x) /\ k <= Len(y) /\ x[k] < y[k]
                            /\ \A m \in 1..(k - 1) : x[m] = y[m]
           Prefixed(x, y) == Len(x) <= Len(y) /\ \A k \in 1..Len(x) : x[k] = y[k]
<1>3. \A x, y \in Seq(Int) :
        Compare(x, y) <= 0 <=> (\E k : Less(x, y, k)) \/ Prefixed(x, y)
  BY CompareMeaning
<1>4. ASSUME Compare(a, b) <= 0, Compare(b, a) <= 0 PROVE a = b
  <2>1. ((\E k : Less(a, b, k)) \/ Prefixed(a, b)) /\ ((\E k : Less(b, a, k)) \/ Prefixed(b, a))
    BY <1>3, <1>4
  <2>2. ASSUME NEW k, Less(a, b, k) PROVE FALSE
    <3>1. k \in Nat /\ k \in 1..Len(a) /\ k \in 1..Len(b) /\ a[k] < b[k]
      BY <1>1, <2>2
    <3>2. CASE Prefixed(b, a)
      BY <1>2, <3>1, <3>2
    <3>3. ASSUME NEW m, Less(b, a, m) PROVE FALSE
      <4>1. m \in Nat /\ m \in 1..Len(a) /\ m \in 1..Len(b) /\ b[m] < a[m]
        BY <1>1, <3>3
      <4>2. m < k \/ m = k \/ k < m
        BY <3>1, <4>1
      <4> QED BY <1>2, <2>2, <3>1, <3>3, <4>1, <4>2
    <3> QED BY <2>1, <3>2, <3>3
  <2>3. ASSUME NEW k, Less(b, a, k), Prefixed(a, b) PROVE FALSE
    BY <1>1, <1>2, <2>3
  <2>4. Prefixed(a, b) /\ Prefixed(b, a)
    BY <2>1, <2>2, <2>3
  <2>5. Len(a) = Len(b) /\ \A k \in 1..Len(a) : a[k] = b[k]
    BY <1>1, <2>4
  <2> QED BY <2>5, SeqEqual
<1>5. ASSUME NEW c \in Seq(Int), Compare(a, b) <= 0, Compare(b, c) <= 0
      PROVE  Compare(a, c) <= 0
  <2>1. Len(c) \in Nat /\ \A k \in 1..Len(c) : c[k] \in Int
    BY LenProperties, ElementOfSeq
  <2>2. ((\E k : Less(a, b, k)) \/ Prefixed(a, b)) /\ ((\E k : Less(b, c, k)) \/ Prefixed(b, c))
    BY <1>3, <1>5
  <2> SUFFICES (\E k : Less(a, c, k)) \/ Prefixed(a, c)
    BY <1>3
  <2>3. ASSUME NEW k, Less(a, b, k), NEW m, Less(b, c, m) PROVE \E x : Less(a, c, x)
    <3>1. /\ k \in Nat /\ k \in 1..Len(a) /\ k \in 1..Len(b)
          /\ m \in Nat /\ m \in 1..Len(b) /\ m \in 1..Len(c)
      BY <1>1, <2>1, <2>3
    <3>2. CASE k < m
      <4>1. Less(a, c, k)
        BY <1>1, <2>1, <2>3, <3>1, <3>2
      <4> QED BY <4>1
    <3>3. CASE ~(k < m)
      <4>1. Less(a, c, m)
        <5>1. m \in 1..Len(a) /\ m <= Len(c)
          BY <1>1, <2>1, <3>1, <3>3
        <5>2. \A x \in 1..(m - 1) : x \in 1..(k - 1)
          BY <3>1, <3>3
        <5>3. \A x \in 1..(m - 1) : a[x] = c[x]
          BY <2>3, <5>2
        <5>4. a[m] < c[m]
          <6>1. CASE m = k
            BY <1>2, <2>1, <2>3, <3>1, <6>1
          <6>2. CASE m # k
            <7>1. m \in 1..(k - 1)
              BY <3>1, <3>3, <6>2
            <7> QED BY <2>3, <7>1
          <6> QED BY <6>1, <6>2
        <5> QED BY <5>1, <5>3, <5>4
      <4> QED BY <4>1
    <3> QED BY <3>2, <3>3
  <2>4. ASSUME NEW k, Less(a, b, k), Prefixed(b, c) PROVE \E x : Less(a, c, x)
    <3>1. /\ k \in Nat /\ k \in 1..Len(a) /\ k \in 1..Len(b)
      BY <1>1, <2>4
    <3>2. Less(a, c, k)
      BY <1>1, <2>1, <2>4, <3>1
    <3> QED BY <3>2
  <2>5. ASSUME Prefixed(a, b), NEW m, Less(b, c, m) PROVE (\E k : Less(a, c, k)) \/ Prefixed(a, c)
    <3>1. m \in Nat /\ m \in 1..Len(b) /\ m \in 1..Len(c)
      BY <1>1, <2>1, <2>5
    <3>2. CASE m <= Len(a)
      <4>1. Less(a, c, m)
        BY <1>1, <2>1, <2>5, <3>1, <3>2
      <4> QED BY <4>1
    <3>3. CASE ~(m <= Len(a))
      BY <1>1, <2>1, <2>5, <3>1, <3>3
    <3> QED BY <3>2, <3>3
  <2>6. ASSUME Prefixed(a, b), Prefixed(b, c) PROVE Prefixed(a, c)
    BY <1>1, <2>1, <2>6
  <2> QED BY <2>2, <2>3, <2>4, <2>5, <2>6
<1> QED BY <1>4, <1>5

-----------------------------------------------------------------------------
(* compareUTF16 *)

\* The scalar values.
Runes == {r \in Nat : IsRune(r)}

\* A number for each rune, by which compareUTF16 tells two runes apart: the BMP
\* keeps room for a trail behind every code unit.
Weight(r) == IF r < 65536 THEN 1024 * r ELSE 56557568 + r

\* The weights of the runes of a.
Weights(a) == [k \in 1..Len(a) |-> Weight(a[k])]

\* A text is a sequence of runes.
LEMMA TextIsSeq ==
  ASSUME NEW s, IsText(s)
  PROVE  /\ s \in Seq(Runes) /\ s \in Seq(Int) /\ Len(s) \in Nat /\ DOMAIN s = 1..Len(s)
         /\ \A k \in 1..Len(s) : s[k] \in Runes /\ s[k] \in Int
<1>1. s \in Seq(Nat) /\ Len(s) \in Nat /\ DOMAIN s = 1..Len(s)
  BY LenProperties DEF IsText
<1>2. \A k \in 1..Len(s) : s[k] \in Nat
  BY <1>1, ElementOfSeq
<1>3. \A k \in 1..Len(s) : s[k] \in Runes /\ s[k] \in Int
  BY <1>1, <1>2 DEF Runes, IsText
<1>4. s \in [1..Len(s) -> Nat]
  BY <1>1, SeqDef
<1>5. s \in [1..Len(s) -> Runes] /\ s \in [1..Len(s) -> Int]
  BY <1>3, <1>4
<1>6. s \in Seq(Runes) /\ s \in Seq(Int)
  BY <1>1, <1>5, SegmentIsSeq
<1> QED BY <1>1, <1>3, <1>6

\* Different runes have different weights.
LEMMA WeightTells ==
  ASSUME NEW x \in Runes, NEW y \in Runes
  PROVE  Weight(x) \in Int /\ Weight(y) \in Int /\ (Weight(x) = Weight(y) => x = y)
BY SMT DEF Runes, IsRune, Weight

\* The code units of a rune.
LEMMA EncodeUnits ==
  ASSUME NEW x \in Runes
  PROVE  /\ Encode(x) \in Seq(Int)
         /\ x < 65536 => Encode(x) = <<x>> /\ Len(Encode(x)) = 1 /\ Encode(x)[1] = x
         /\ ~(x < 65536) =>
              /\ Len(Encode(x)) = 2
              /\ Encode(x)[1] = 55296 + ((x - 65536) \div 1024)
              /\ Encode(x)[2] = 56320 + ((x - 65536) % 1024)
              /\ Encode(x)[1] \in 55296..56319
BY SMT DEF Encode, Runes, IsRune

\* The first code units decide, and behind equal ones the second.
LEMMA CompareRunesWeight ==
  ASSUME NEW x \in Runes, NEW y \in Runes, x # y
  PROVE  /\ CompareRunes(x, y) = Sign(Weight(x) - Weight(y))
         /\ \E k : DifferAt(Encode(x), Encode(y), k)
<1> DEFINE ex == Encode(x)
           ey == Encode(y)
           hx == (x - 65536) \div 1024
           hy == (y - 65536) \div 1024
           lx == (x - 65536) % 1024
           ly == (y - 65536) % 1024
<1>1. /\ ex \in Seq(Int) /\ ey \in Seq(Int)
      /\ DOMAIN ex = 1..Len(ex) /\ DOMAIN ey = 1..Len(ey)
  BY EncodeUnits, LenProperties, SMT
<1>2. /\ x \in Nat /\ x \notin 55296..57343
      /\ y \in Nat /\ y \notin 55296..57343
  BY SMT DEF Runes, IsRune
<1>3. /\ x < 65536 => Len(ex) = 1 /\ ex[1] = x
      /\ ~(x < 65536) => Len(ex) = 2 /\ ex[1] = 55296 + hx /\ ex[2] = 56320 + lx /\ ex[1] \in 55296..56319
  BY EncodeUnits, SMT
<1>4. /\ y < 65536 => Len(ey) = 1 /\ ey[1] = y
      /\ ~(y < 65536) => Len(ey) = 2 /\ ey[1] = 55296 + hy /\ ey[2] = 56320 + ly /\ ey[1] \in 55296..56319
  BY EncodeUnits, SMT
<1>5. /\ hx \in Int /\ lx \in 0..1023 /\ x = 65536 + 1024 * hx + lx
      /\ hy \in Int /\ ly \in 0..1023 /\ y = 65536 + 1024 * hy + ly
  BY <1>2, SMT
<1> HIDE DEF ex, ey, hx, hy, lx, ly
<1>6. ASSUME DifferAt(ex, ey, 1), Sign(ex[1] - ey[1]) = Sign(Weight(x) - Weight(y))
      PROVE  /\ CompareRunes(x, y) = Sign(Weight(x) - Weight(y))
             /\ \E k : DifferAt(Encode(x), Encode(y), k)
  <2>1. Compare(ex, ey) = Sign(ex[1] - ey[1])
    BY <1>1, <1>6, CompareDiffer
  <2> QED BY <1>6, <2>1 DEF CompareRunes, ex, ey
<1>7. 1 \in DOMAIN ex /\ 1 \in DOMAIN ey
  BY <1>1, <1>3, <1>4, SMT
<1>8. ex[1] # ey[1] => DifferAt(ex, ey, 1)
  BY <1>7, SMT DEF DifferAt
<1>9. CASE x < 65536 /\ y < 65536
  <2>1. ex[1] = x /\ ey[1] = y /\ Weight(x) = 1024 * x /\ Weight(y) = 1024 * y
    BY <1>3, <1>4, <1>9, SMT DEF Weight
  <2>2. Sign(ex[1] - ey[1]) = Sign(Weight(x) - Weight(y))
    BY <1>2, <2>1, SMT DEF Sign
  <2> QED BY <1>6, <1>8, <2>1, <2>2, SMT
<1>10. CASE x < 65536 /\ ~(y < 65536)
  <2>1. ex[1] = x /\ ey[1] = 55296 + hy /\ 55296 + hy \in 55296..56319
    BY <1>3, <1>4, <1>10, SMT
  <2>2. /\ ex[1] = x /\ ey[1] = 55296 + hy /\ hy \in 0..1023
        /\ Weight(x) = 1024 * x /\ Weight(y) = 56623104 + 1024 * hy + ly
    BY <1>2, <1>5, <1>10, <2>1, SMT DEF Weight
  <2>3. x < 55296 \/ x > 57343
    BY <1>2, SMT
  <2>4. x # 55296 + hy /\ Sign(x - (55296 + hy)) = Sign(1024 * x - (56623104 + 1024 * hy + ly))
    BY <1>2, <1>5, <2>2, <2>3, SMT DEF Sign
  <2> QED BY <1>6, <1>8, <2>2, <2>4, SMT
<1>11. CASE ~(x < 65536) /\ y < 65536
  <2>1. ey[1] = y /\ ex[1] = 55296 + hx /\ 55296 + hx \in 55296..56319
    BY <1>3, <1>4, <1>11, SMT
  <2>2. /\ ey[1] = y /\ ex[1] = 55296 + hx /\ hx \in 0..1023
        /\ Weight(y) = 1024 * y /\ Weight(x) = 56623104 + 1024 * hx + lx
    BY <1>2, <1>5, <1>11, <2>1, SMT DEF Weight
  <2>3. y < 55296 \/ y > 57343
    BY <1>2, SMT
  <2>4. y # 55296 + hx /\ Sign((55296 + hx) - y) = Sign((56623104 + 1024 * hx + lx) - 1024 * y)
    BY <1>2, <1>5, <2>2, <2>3, SMT DEF Sign
  <2> QED BY <1>6, <1>8, <2>2, <2>4, SMT
<1>12. CASE ~(x < 65536) /\ ~(y < 65536)
  <2>1. /\ ex[1] = 55296 + hx /\ ey[1] = 55296 + hy /\ ex[2] = 56320 + lx /\ ey[2] = 56320 + ly
        /\ Len(ex) = 2 /\ Len(ey) = 2
        /\ Weight(x) = 56623104 + 1024 * hx + lx /\ Weight(y) = 56623104 + 1024 * hy + ly
    BY <1>2, <1>3, <1>4, <1>5, <1>12, SMT DEF Weight
  <2>2. CASE hx # hy
    <3>1. ex[1] # ey[1]
      BY <1>5, <2>1, <2>2, SMT
    <3>2. Sign(ex[1] - ey[1]) = Sign(Weight(x) - Weight(y))
      BY <1>5, <2>1, <2>2, SMT DEF Sign
    <3> QED BY <1>6, <1>8, <3>1, <3>2, SMT
  <2>3. CASE hx = hy
    <3>1. lx # ly
      BY <1>5, <2>3, SMT
    <3>2. DifferAt(ex, ey, 2)
      <4>1. ex[1] = ey[1] /\ ex[2] # ey[2]
        BY <1>5, <2>1, <2>3, <3>1, SMT
      <4>2. 2 \in (DOMAIN ex) \cap (DOMAIN ey) /\ \A m \in 1..(2 - 1) : m = 1
        BY <1>1, <2>1, SMT
      <4> QED BY <4>1, <4>2 DEF DifferAt
    <3>3. Compare(ex, ey) = Sign(ex[2] - ey[2])
      BY <1>1, <3>2, CompareDiffer
    <3>4. Sign(ex[2] - ey[2]) = Sign(Weight(x) - Weight(y))
      BY <1>5, <2>1, <2>3, SMT DEF Sign
    <3> QED BY <3>2, <3>3, <3>4 DEF CompareRunes, ex, ey
  <2> QED BY <2>2, <2>3
<1> QED BY <1>9, <1>10, <1>11, <1>12

\* compareUTF16 compares weights.
LEMMA CompareWeights ==
  ASSUME NEW a, NEW b, IsText(a), IsText(b)
  PROVE  /\ compareUTF16(a, b) = Compare(Weights(a), Weights(b))
         /\ Weights(a) \in Seq(Int) /\ Weights(b) \in Seq(Int)
         /\ Weights(a) = Weights(b) => a = b
<1>1. /\ a \in Seq(Runes) /\ Len(a) \in Nat /\ DOMAIN a = 1..Len(a)
      /\ b \in Seq(Runes) /\ Len(b) \in Nat /\ DOMAIN b = 1..Len(b)
      /\ \A k \in 1..Len(a) : a[k] \in Runes
      /\ \A k \in 1..Len(b) : b[k] \in Runes
  BY TextIsSeq
<1> DEFINE wa == Weights(a)
           wb == Weights(b)
<1>2. wa \in [1..Len(a) -> Int] /\ wb \in [1..Len(b) -> Int]
  BY <1>1, WeightTells DEF Weights
<1>3. /\ \A k \in 1..Len(a) : wa[k] = Weight(a[k])
      /\ \A k \in 1..Len(b) : wb[k] = Weight(b[k])
  BY DEF Weights
<1> HIDE DEF wa, wb
<1>4. /\ wa \in Seq(Int) /\ Len(wa) = Len(a) /\ DOMAIN wa = 1..Len(a)
      /\ wb \in Seq(Int) /\ Len(wb) = Len(b) /\ DOMAIN wb = 1..Len(b)
  BY <1>1, <1>2, SegmentIsSeq
<1>5. \A k \in 1..Len(a) : k <= Len(b) => (wa[k] = wb[k] <=> a[k] = b[k])
  <2> SUFFICES ASSUME NEW k \in 1..Len(a), k <= Len(b)
               PROVE  wa[k] = wb[k] <=> a[k] = b[k]
    OBVIOUS
  <2>1. k \in 1..Len(b)
    BY <1>1
  <2>2. a[k] \in Runes /\ b[k] \in Runes /\ wa[k] = Weight(a[k]) /\ wb[k] = Weight(b[k])
    BY <1>1, <1>3, <2>1
  <2> QED BY <2>2, WeightTells
<1>6. \A k : DifferAt(wa, wb, k) <=> DifferAt(a, b, k)
  <2>1. \A k \in 1..Len(a) : k <= Len(b) => \A m \in 1..(k - 1) : m \in 1..Len(a) /\ m <= Len(b)
    BY <1>1
  <2> QED BY <1>1, <1>4, <1>5, <2>1 DEF DifferAt
<1>7. ASSUME NEW k, DifferAt(a, b, k) PROVE compareUTF16(a, b) = Compare(wa, wb)
  <2>1. /\ FirstDifference(a, b) = k /\ k \in DOMAIN a /\ k \in 1..Len(a) /\ k \in 1..Len(b)
        /\ a[k] # b[k]
    BY <1>1, <1>7, DifferUnique
  <2>2. compareUTF16(a, b) = CompareRunes(a[k], b[k])
    BY <1>7, <2>1 DEF compareUTF16
  <2>3. a[k] \in Runes /\ b[k] \in Runes
    BY <1>1, <2>1
  <2>4. CompareRunes(a[k], b[k]) = Sign(Weight(a[k]) - Weight(b[k]))
    BY <2>1, <2>3, CompareRunesWeight
  <2>5. Compare(wa, wb) = Sign(wa[k] - wb[k])
    BY <1>4, <1>6, <1>7, CompareDiffer
  <2> QED BY <1>3, <2>1, <2>2, <2>4, <2>5
<1>8. ASSUME \A k : ~DifferAt(a, b, k) PROVE compareUTF16(a, b) = Compare(wa, wb)
  <2>1. compareUTF16(a, b) = Sign(Len(a) - Len(b))
    BY <1>8 DEF compareUTF16
  <2>2. Compare(wa, wb) = Sign(Len(wa) - Len(wb))
    BY <1>4, <1>6, <1>8, CompareAgree
  <2> QED BY <1>4, <2>1, <2>2
<1>9. ASSUME wa = wb PROVE a = b
  <2>1. Len(a) = Len(b)
    BY <1>4, <1>9
  <2>2. \A k \in 1..Len(a) : a[k] = b[k]
    BY <1>1, <1>5, <1>9, <2>1
  <2> QED BY <1>1, <2>1, <2>2, SeqEqual
<1> QED BY <1>4, <1>7, <1>8, <1>9 DEF wa, wb

-----------------------------------------------------------------------------
(* The order of whole encodings *)

\* The code units of each rune of a.
Encodings(a) == [k \in DOMAIN a |-> Encode(a[k])]

\* The encoding of a text is that of its runes, one after the other.
LEMMA EncodingsType ==
  ASSUME NEW a, IsText(a)
  PROVE  /\ Encodings(a) \in Seq(Seq(Int)) /\ Len(Encodings(a)) = Len(a)
         /\ EncodeAll(a) = FlattenSeq(Encodings(a)) /\ EncodeAll(a) \in Seq(Int)
         /\ \A k \in 1..Len(a) : Encodings(a)[k] = Encode(a[k]) /\ Len(Encodings(a)[k]) # 0
<1>1. Len(a) \in Nat /\ DOMAIN a = 1..Len(a) /\ \A k \in 1..Len(a) : a[k] \in Runes
  BY TextIsSeq
<1>2. \A x \in Runes : Encode(x) \in Seq(Int) /\ Len(Encode(x)) # 0
  BY EncodeUnits, SMT DEF Runes
<1>3. Encodings(a) \in [1..Len(a) -> Seq(Int)]
  BY <1>1, <1>2 DEF Encodings
<1>4. \A k \in 1..Len(a) : Encodings(a)[k] = Encode(a[k])
  BY <1>1 DEF Encodings
<1>5. Encodings(a) \in Seq(Seq(Int)) /\ Len(Encodings(a)) = Len(a)
  BY <1>1, <1>3, SegmentIsSeq
<1>6. EncodeAll(a) = FlattenSeq(Encodings(a))
  BY DEF EncodeAll, Encodings
<1> HIDE DEF Encodings
<1>7. EncodeAll(a) \in Seq(Int)
  BY <1>5, <1>6, FlattenType
<1> QED BY <1>1, <1>2, <1>4, <1>5, <1>6, <1>7

\* The encoding of a proper prefix is a proper prefix.
LEMMA EncodePrefix ==
  ASSUME NEW a, NEW b, IsText(a), IsText(b), Len(a) <= Len(b),
         \A k \in 1..Len(a) : a[k] = b[k]
  PROVE  /\ \A k : ~DifferAt(EncodeAll(a), EncodeAll(b), k)
         /\ \A k : ~DifferAt(EncodeAll(b), EncodeAll(a), k)
         /\ Len(EncodeAll(a)) \in Nat /\ Len(EncodeAll(b)) \in Nat
         /\ Len(a) = Len(b) => Len(EncodeAll(a)) = Len(EncodeAll(b))
         /\ Len(a) < Len(b) => Len(EncodeAll(a)) < Len(EncodeAll(b))
<1> DEFINE ca == Encodings(a)
           cb == Encodings(b)
           ea == EncodeAll(a)
           eb == EncodeAll(b)
           n == Len(a)
           m == Len(b)
<1>1. n \in Nat /\ m \in Nat /\ n <= m
  BY TextIsSeq
<1>2. /\ ca \in Seq(Seq(Int)) /\ Len(ca) = n /\ ea = FlattenSeq(ca) /\ ea \in Seq(Int)
      /\ \A k \in 1..n : ca[k] = Encode(a[k]) /\ Len(ca[k]) # 0
  BY EncodingsType
<1>3. /\ cb \in Seq(Seq(Int)) /\ Len(cb) = m /\ eb = FlattenSeq(cb) /\ eb \in Seq(Int)
      /\ \A k \in 1..m : cb[k] = Encode(b[k]) /\ Len(cb[k]) # 0
  BY EncodingsType
<1> HIDE DEF ca, cb, ea, eb
<1>4. \A k \in 1..n : ca[k] = cb[k]
  BY <1>1, <1>2, <1>3
<1>5. PICK oa : Laid(ca, oa)
  BY <1>2, FlattenOffsets, Zenon
<1>6. PICK ob : Laid(cb, ob)
  BY <1>3, FlattenOffsets, Zenon
<1> HIDE DEF n, m
<1>7. /\ \A k \in 1..(n + 1) : oa[k] = ob[k]
      /\ \A k \in 1..oa[n + 1] : ea[k] = eb[k]
  <2>1. SameUpTo(ca, cb, n)
    BY <1>1, <1>2, <1>3, <1>4 DEF SameUpTo
  <2>2. SameLaid(ca, cb, oa, ob, n)
    BY <1>2, <1>3, <1>5, <1>6, <2>1, SamePrefix, Zenon
  <2> QED BY <1>2, <1>3, <2>2, Zenon DEF SameLaid
<1>8. Len(ea) = oa[n + 1] /\ Len(eb) = ob[m + 1]
  BY <1>2, <1>3, <1>5, <1>6 DEF Laid
<1>9. Len(ea) \in Nat /\ Len(eb) \in Nat /\ DOMAIN ea = 1..Len(ea) /\ DOMAIN eb = 1..Len(eb)
  BY <1>2, <1>3, LenProperties
<1>10. Offsets(cb, ob)
  BY <1>6 DEF Laid
<1>11. \A x \in 1..(m + 1) : \A k \in 1..x : ob[k] + (x - k) <= ob[x]
  BY <1>3, <1>10, OffsetsGrow
<1>12. Len(ea) = ob[n + 1]
  BY <1>1, <1>7, <1>8
<1>13. Len(ea) + (m - n) <= Len(eb)
  <2>1. m + 1 \in 1..(m + 1) /\ n + 1 \in 1..(m + 1)
    BY <1>1
  <2>2. ob[n + 1] + ((m + 1) - (n + 1)) <= ob[m + 1]
    BY <1>11, <2>1
  <2>3. (m + 1) - (n + 1) = m - n
    BY <1>1
  <2> QED BY <1>8, <1>12, <2>2, <2>3
<1>14. n = m => Len(ea) = Len(eb)
  BY <1>8, <1>12
<1>15. n < m => Len(ea) < Len(eb)
  BY <1>1, <1>9, <1>13
<1>16. \A k : ~DifferAt(ea, eb, k) /\ ~DifferAt(eb, ea, k)
  BY <1>7, <1>8, <1>9 DEF DifferAt
<1> QED BY <1>9, <1>14, <1>15, <1>16 DEF ea, eb, n, m

\* compareUTF16, which encodes one rune of each string, orders strings by their
\* whole encodings.
LEMMA EncodedOrder ==
  ASSUME NEW a, NEW b, IsText(a), IsText(b)
  PROVE  compareUTF16(a, b) = Compare(EncodeAll(a), EncodeAll(b))
<1> DEFINE ca == Encodings(a)
           cb == Encodings(b)
           ea == EncodeAll(a)
           eb == EncodeAll(b)
<1>1. /\ a \in Seq(Runes) /\ Len(a) \in Nat /\ \A k \in 1..Len(a) : a[k] \in Runes
      /\ b \in Seq(Runes) /\ Len(b) \in Nat /\ \A k \in 1..Len(b) : b[k] \in Runes
  BY TextIsSeq
<1>2. /\ ca \in Seq(Seq(Int)) /\ Len(ca) = Len(a) /\ ea = FlattenSeq(ca) /\ ea \in Seq(Int)
      /\ \A k \in 1..Len(a) : ca[k] = Encode(a[k])
  BY EncodingsType
<1>3. /\ cb \in Seq(Seq(Int)) /\ Len(cb) = Len(b) /\ eb = FlattenSeq(cb) /\ eb \in Seq(Int)
      /\ \A k \in 1..Len(b) : cb[k] = Encode(b[k])
  BY EncodingsType
<1> HIDE DEF ca, cb, ea, eb
<1>4. ASSUME NEW k, DifferAt(a, b, k) PROVE compareUTF16(a, b) = Compare(ea, eb)
  <2>1. /\ FirstDifference(a, b) = k /\ k \in DOMAIN a /\ k \in 1..Len(a) /\ k \in 1..Len(b)
        /\ a[k] # b[k] /\ \A m \in 1..(k - 1) : a[m] = b[m]
    BY <1>1, <1>4, DifferUnique
  <2>2. compareUTF16(a, b) = Compare(Encode(a[k]), Encode(b[k]))
    BY <1>4, <2>1 DEF compareUTF16, CompareRunes
  <2> DEFINE wa == ca[k]
             wb == cb[k]
  <2>3. a[k] \in Runes /\ b[k] \in Runes /\ wa = Encode(a[k]) /\ wb = Encode(b[k])
    BY <1>1, <1>2, <1>3, <2>1
  <2>4. PICK j : DifferAt(wa, wb, j)
    BY <2>1, <2>3, CompareRunesWeight
  <2>5. wa \in Seq(Int) /\ wb \in Seq(Int)
    BY <1>2, <1>3, <2>1, ElementOfSeq
  <2>6. /\ Compare(wa, wb) = Sign(wa[j] - wb[j]) /\ j \in 1..Len(wa) /\ j \in 1..Len(wb)
        /\ wa[j] # wb[j] /\ \A m \in 1..(j - 1) : wa[m] = wb[m]
    <3> HIDE DEF wa, wb
    <3> QED BY <2>4, <2>5, CompareDiffer
  <2>7. PICK oa : Laid(ca, oa)
    BY <1>2, FlattenOffsets, Zenon
  <2>8. PICK ob : Laid(cb, ob)
    BY <1>3, FlattenOffsets, Zenon
  <2>9. k - 1 \in Nat /\ k - 1 <= Len(ca) /\ k - 1 <= Len(cb) /\ (k - 1) + 1 = k
    BY <1>1, <1>2, <1>3, <2>1
  <2>10. \A m \in 1..(k - 1) : ca[m] = cb[m]
    <3>1. \A m \in 1..(k - 1) : m \in 1..Len(a) /\ m \in 1..Len(b)
      BY <1>1, <2>1
    <3> QED BY <1>2, <1>3, <2>1, <3>1
  <2>11. oa[k] = ob[k] /\ \A m \in 1..oa[k] : ea[m] = eb[m]
    <3> DEFINE n == k - 1
    <3>1. SameUpTo(ca, cb, n)
      BY <2>9, <2>10 DEF SameUpTo
    <3>2. n + 1 = k /\ k \in 1..k
      BY <2>1, <2>9
    <3> HIDE DEF n
    <3>3. SameLaid(ca, cb, oa, ob, n)
      BY <1>2, <1>3, <2>7, <2>8, <3>1, SamePrefix, Zenon
    <3> QED BY <1>2, <1>3, <3>2, <3>3, Zenon DEF SameLaid
  <2> DEFINE p == oa[k]
  <2>12. p \in Nat
    <3>1. Offsets(ca, oa) /\ k \in 1..(Len(ca) + 1)
      BY <1>1, <1>2, <2>1, <2>7 DEF Laid
    <3> QED BY <1>2, <3>1, OffsetsGrow
  <2>13. \A m \in 1..Len(wa) : p + m \in 1..Len(ea) /\ ea[p + m] = wa[m]
    BY <1>2, <2>1, <2>7 DEF Laid
  <2>14. \A m \in 1..Len(wb) : p + m \in 1..Len(eb) /\ eb[p + m] = wb[m]
    BY <1>3, <2>1, <2>8, <2>11 DEF Laid
  <2>15. Len(wa) \in Nat /\ Len(wb) \in Nat /\ DOMAIN ea = 1..Len(ea) /\ DOMAIN eb = 1..Len(eb)
    BY <1>2, <1>3, <2>5, LenProperties
  <2>16. \A m \in 1..p : ea[m] = eb[m]
    BY <2>11
  <2> HIDE DEF p, wa, wb
  <2>17. ASSUME NEW m \in 1..((p + j) - 1) PROVE ea[m] = eb[m]
    <3>1. CASE m <= p
      BY <2>12, <2>16, <3>1
    <3>2. CASE ~(m <= p)
      <4>1. m - p \in 1..(j - 1) /\ m - p \in 1..Len(wa) /\ m - p \in 1..Len(wb)
            /\ p + (m - p) = m
        BY <2>6, <2>12, <2>15, <3>2
      <4> QED BY <2>6, <2>13, <2>14, <4>1
    <3> QED BY <3>1, <3>2
  <2>18. DifferAt(ea, eb, p + j)
    BY <2>6, <2>13, <2>14, <2>15, <2>17 DEF DifferAt
  <2>19. Compare(ea, eb) = Sign(ea[p + j] - eb[p + j])
    BY <1>2, <1>3, <2>18, CompareDiffer
  <2> QED BY <2>2, <2>3, <2>6, <2>13, <2>14, <2>19
<1>5. ASSUME \A k : ~DifferAt(a, b, k) PROVE compareUTF16(a, b) = Compare(ea, eb)
  <2>1. compareUTF16(a, b) = Sign(Len(a) - Len(b))
    BY <1>5 DEF compareUTF16
  <2>2. \A k \in 1..Len(a) : k <= Len(b) => a[k] = b[k]
    BY <1>1, <1>5, DifferExists
  <2>3. /\ \A k : ~DifferAt(ea, eb, k) /\ Len(ea) \in Nat /\ Len(eb) \in Nat
        /\ Len(a) = Len(b) => Len(ea) = Len(eb)
        /\ Len(a) < Len(b) => Len(ea) < Len(eb)
        /\ Len(b) < Len(a) => Len(eb) < Len(ea)
    <3>1. CASE Len(a) <= Len(b)
      <4>1. \A k \in 1..Len(a) : a[k] = b[k]
        BY <1>1, <2>2, <3>1
      <4> QED BY <1>1, <3>1, <4>1, EncodePrefix DEF ea, eb
    <3>2. CASE ~(Len(a) <= Len(b))
      <4>1. Len(b) <= Len(a) /\ Len(b) < Len(a)
        BY <1>1, <3>2
      <4>2. \A k \in 1..Len(b) : b[k] = a[k]
        BY <1>1, <2>2, <4>1
      <4> QED BY <1>1, <4>1, <4>2, EncodePrefix DEF ea, eb
    <3> QED BY <3>1, <3>2
  <2>4. Compare(ea, eb) = Sign(Len(ea) - Len(eb))
    BY <1>2, <1>3, <2>3, CompareAgree
  <2>5. Len(a) = Len(b) \/ Len(a) < Len(b) \/ Len(b) < Len(a)
    BY <1>1
  <2> QED BY <1>1, <2>1, <2>3, <2>4, <2>5 DEF Sign
<1> QED BY <1>4, <1>5 DEF ea, eb

-----------------------------------------------------------------------------
(* Values *)

\* The levels, and that each value is in one.
LEMMA ShallowLevels ==
  /\ MaxNesting \in Nat /\ Values = Shallow[MaxNesting] /\ Shallow[0] = {}
  /\ \A n \in 1..MaxNesting : Shallow[n] = {v \in Values : Parts(v) \subseteq Shallow[n - 1]}
<1> DEFINE M == MaxNesting
           Up(X) == {v \in Values : Parts(v) \subseteq X}
           Def(g) == [n \in 0..M |-> IF n = 0 THEN {} ELSE Up(g[n - 1])]
           levels == CHOOSE g : g = Def(g)
           step == [k \in 2..(M + 1) |-> [X \in SUBSET Values |-> Up(X)]]
<1>1. M \in Nat /\ Values = Shallow[M]
  BY ValueAssumption
<1>2. Shallow = levels
  BY DEF Shallow
<1>3. \E g : g = Def(g)
  <2>1. PICK f : Chain(f, SUBSET Values, M + 1, {}, step)
    <3>1. M + 1 \in Nat \ {0} /\ {} \in SUBSET Values
      BY <1>1
    <3>2. step \in Steps(SUBSET Values, M + 1)
      BY DEF Steps
    <3> HIDE DEF step, M
    <3> QED BY <3>1, <3>2, ChainExists, Zenon
  <2>2. /\ f \in [1..(M + 1) -> SUBSET Values] /\ f[1] = {}
        /\ \A k \in 2..(M + 1) : f[k] = step[k][f[k - 1]]
    BY <2>1 DEF Chain
  <2> DEFINE g == [n \in 0..M |-> f[n + 1]]
  <2>3. ASSUME NEW n \in 0..M PROVE g[n] = IF n = 0 THEN {} ELSE Up(g[n - 1])
    <3>1. CASE n = 0
      BY <2>2, <3>1
    <3>2. CASE n # 0
      <4>1. n + 1 \in 2..(M + 1) /\ (n + 1) - 1 = n /\ n \in 1..(M + 1)
            /\ n - 1 \in 0..M /\ (n - 1) + 1 = n
        BY <1>1, <3>2
      <4>2. f[n] \in SUBSET Values
        BY <2>2, <4>1
      <4>3. f[n + 1] = Up(f[n])
        <5> HIDE DEF Up
        <5> QED BY <2>2, <4>1, <4>2
      <4>4. g[n] = f[n + 1] /\ g[n - 1] = f[n]
        BY <4>1
      <4> HIDE DEF g, Up
      <4> QED BY <3>2, <4>3, <4>4
    <3> QED BY <3>1, <3>2
  <2>4. g = Def(g)
    <3>1. g = [n \in 0..M |-> g[n]]
      OBVIOUS
    <3> HIDE DEF g, Up
    <3> QED BY <2>3, <3>1
  <2> QED BY <2>4
<1>4. levels = Def(levels)
  <2> HIDE DEF Def
  <2> QED BY <1>3
<1>5. \A n \in 0..M : Shallow[n] = IF n = 0 THEN {} ELSE Up(Shallow[n - 1])
  <2> HIDE DEF levels, Up
  <2> QED BY <1>2, <1>4
<1>6. Shallow[0] = {}
  <2>1. 0 \in 0..M
    BY <1>1
  <2> QED BY <1>5, <2>1
<1>7. ASSUME NEW n \in 1..M PROVE Shallow[n] = Up(Shallow[n - 1])
  <2>1. n \in 0..M /\ n # 0
    BY <1>1
  <2> HIDE DEF Up
  <2> QED BY <1>5, <2>1
<1> QED BY <1>1, <1>6, <1>7

\* Induction over values: a set that has a value when it has its parts has all.
LEMMA ValueInduction ==
  ASSUME NEW T, \A v \in Values : Parts(v) \subseteq T => v \in T
  PROVE  \A v \in Values : v \in T
<1> DEFINE M == MaxNesting
           Good == {n \in 1..M : Shallow[n] \subseteq T}
<1>1. /\ M \in Nat /\ Values = Shallow[M] /\ Shallow[0] = {}
      /\ \A n \in 1..M : Shallow[n] = {v \in Values : Parts(v) \subseteq Shallow[n - 1]}
  BY ShallowLevels, Zenon
<1>2. ASSUME NEW n \in 1..M, Shallow[n - 1] \subseteq T PROVE Shallow[n] \subseteq T
  BY <1>1, <1>2
<1>3. M > 0 => 1 \in Good
  <2> SUFFICES ASSUME M > 0 PROVE 1 \in Good
    OBVIOUS
  <2>1. 1 \in 1..M /\ 1 - 1 = 0
    BY <1>1
  <2>2. Shallow[1 - 1] \subseteq T
    BY <1>1, <2>1
  <2> QED BY <1>2, <2>1, <2>2
<1>4. ASSUME NEW n \in 1..(M - 1), n \in Good PROVE n + 1 \in Good
  <2>1. n + 1 \in 1..M /\ (n + 1) - 1 = n
    BY <1>1
  <2> QED BY <1>2, <1>4, <2>1
<1>5. \A n \in 1..M : n \in Good
  <2> HIDE DEF Good, M
  <2> QED BY <1>1, <1>3, <1>4, IntervalInduction
<1>6. CASE M = 0
  BY <1>1, <1>6
<1>7. CASE M # 0
  <2>1. M \in 1..M
    BY <1>1, <1>7
  <2> QED BY <1>1, <1>5, <2>1
<1> QED BY <1>6, <1>7

\* A value's parts are values.
LEMMA PartsAreValues ==
  ASSUME NEW v \in Values
  PROVE  Parts(v) \subseteq Values
<1> DEFINE M == MaxNesting
<1>1. /\ M \in Nat /\ Values = Shallow[M] /\ Shallow[0] = {}
      /\ \A n \in 1..M : Shallow[n] = {w \in Values : Parts(w) \subseteq Shallow[n - 1]}
  BY ShallowLevels, Zenon
<1>2. M # 0
  BY <1>1
<1>3. M \in 1..M /\ Parts(v) \subseteq Shallow[M - 1]
  BY <1>1, <1>2
<1>4. Shallow[M - 1] \subseteq Values
  <2>1. M - 1 = 0 \/ M - 1 \in 1..M
    BY <1>1
  <2> QED BY <1>1, <2>1
<1> QED BY <1>3, <1>4

\* The five kinds.
IsLiteral(v) == DOMAIN v = {"literal"} /\ v = [literal |-> v.literal] /\ v.literal \in Literals
IsLexeme(v) == DOMAIN v = {"number"} /\ v = [number |-> v.number] /\ IsNumber(v.number)
IsString(v) == DOMAIN v = {"string"} /\ v = [string |-> v.string] /\ IsText(v.string)
IsArray(v) == DOMAIN v = {"array"} /\ v = [array |-> v.array] /\ v.array \in Seq(Values)
IsObject(v) == DOMAIN v = {"object"} /\ v = [object |-> v.object] /\ IsMap(v.object)

\* A value is of one of the five kinds.
LEMMA Kinds ==
  ASSUME NEW v \in Values
  PROVE  IsLiteral(v) \/ IsLexeme(v) \/ IsString(v) \/ IsArray(v) \/ IsObject(v)
<1>1. CASE v \in [literal : Literals]
  BY <1>1 DEF IsLiteral
<1>2. CASE v \in [number : Held(v)] /\ IsNumber(v.number)
  BY <1>2 DEF IsLexeme
<1>3. CASE v \in [string : Held(v)] /\ IsText(v.string)
  BY <1>3 DEF IsString
<1>4. CASE v \in [array : Seq(Values)]
  BY <1>4 DEF IsArray
<1>5. CASE v \in [object : Held(v)] /\ IsMap(v.object)
  BY <1>5 DEF IsObject
<1> QED BY <1>1, <1>2, <1>3, <1>4, <1>5, ValueAssumption
-----------------------------------------------------------------------------
(* appendCanonical *)

\* What a value of each kind is written as, and its parts.
LEMMA SerializedKinds ==
  ASSUME NEW g, NEW v
  PROVE  /\ IsLiteral(v) => Serialized(v, g) = {v.literal} /\ Parts(v) = {}
         /\ IsLexeme(v) => Serialized(v, g) = {v.number} /\ Parts(v) = {}
         /\ IsString(v) => Serialized(v, g) = {appendCanonicalString(v.string)} /\ Parts(v) = {}
         /\ IsArray(v) => /\ Serialized(v, g) = ArrayTexts(OfEach(v.array, g))
                          /\ Parts(v) = {v.array[k] : k \in DOMAIN v.array}
         /\ IsObject(v) => /\ Serialized(v, g) = ObjectTexts(OfEach(v.object, g))
                           /\ Parts(v) = {v.object[key] : key \in DOMAIN v.object}
<1>1. IsLiteral(v) => Serialized(v, g) = {v.literal} /\ Parts(v) = {}
  BY DEF IsLiteral, Serialized, Parts
<1>2. IsLexeme(v) => Serialized(v, g) = {v.number} /\ Parts(v) = {}
  BY DEF IsLexeme, Serialized, Parts
<1>3. IsString(v) => Serialized(v, g) = {appendCanonicalString(v.string)} /\ Parts(v) = {}
  BY DEF IsString, Serialized, Parts
<1>4. IsArray(v) => /\ Serialized(v, g) = ArrayTexts(OfEach(v.array, g))
                    /\ Parts(v) = {v.array[k] : k \in DOMAIN v.array}
  BY DEF IsArray, Serialized, Parts
<1>5. IsObject(v) => /\ Serialized(v, g) = ObjectTexts(OfEach(v.object, g))
                     /\ Parts(v) = {v.object[key] : key \in DOMAIN v.object}
  BY DEF IsObject, Serialized, Parts
<1> QED BY <1>1, <1>2, <1>3, <1>4, <1>5

\* The text of a value depends on its parts' alone.
LEMMA SerializedLocal ==
  ASSUME NEW g, NEW h, NEW v \in Values, \A part \in Parts(v) : g[part] = h[part]
  PROVE  Serialized(v, g) = Serialized(v, h)
<1>1. CASE IsArray(v)
  <2>1. \A k \in DOMAIN v.array : v.array[k] \in Parts(v)
    BY <1>1, SerializedKinds
  <2>2. OfEach(v.array, g) = OfEach(v.array, h)
    BY <2>1 DEF OfEach
  <2> QED BY <1>1, <2>2, SerializedKinds
<1>2. CASE IsObject(v)
  <2>1. \A k \in DOMAIN v.object : v.object[k] \in Parts(v)
    BY <1>2, SerializedKinds
  <2>2. OfEach(v.object, g) = OfEach(v.object, h)
    BY <2>1 DEF OfEach
  <2> QED BY <1>2, <2>2, SerializedKinds
<1>3. CASE IsLiteral(v) \/ IsLexeme(v) \/ IsString(v)
  BY <1>3, SerializedKinds
<1> QED BY <1>1, <1>2, <1>3, Kinds

\* appendCanonical satisfies its definition.
LEMMA CanonicalEquation ==
  \A v \in Values : appendCanonical[v] = Serialized(v, appendCanonical)
<1> DEFINE M == MaxNesting
           Def(g) == [v \in Values |-> Serialized(v, g)]
           Upto(g, n) == /\ g = [v \in Values |-> g[v]]
                         /\ \A v \in Shallow[n] : g[v] = Serialized(v, g)
           Good == {n \in 1..(M + 1) : \E g : Upto(g, n - 1)}
<1>1. /\ M \in Nat /\ Values = Shallow[M] /\ Shallow[0] = {}
      /\ \A n \in 1..M : Shallow[n] = {v \in Values : Parts(v) \subseteq Shallow[n - 1]}
  BY ShallowLevels, Zenon
<1>2. 1 \in Good
  <2>1. 1 - 1 = 0 /\ 1 \in 1..(M + 1)
    BY <1>1
  <2>2. Upto([v \in Values |-> 0], 0)
    BY <1>1
  <2> HIDE DEF Upto
  <2> QED BY <2>1, <2>2
<1>3. ASSUME NEW n \in 1..((M + 1) - 1), n \in Good PROVE n + 1 \in Good
  <2>1. n \in 1..M /\ (n + 1) - 1 = n /\ n + 1 \in 1..(M + 1)
    BY <1>1
  <2>2. PICK g : Upto(g, n - 1)
    <3> HIDE DEF Upto
    <3> QED BY <1>3
  <2> DEFINE h == Def(g)
  <2>3. ASSUME NEW v \in Shallow[n] PROVE h[v] = Serialized(v, h)
    <3>1. v \in Values /\ Parts(v) \subseteq Shallow[n - 1] /\ Parts(v) \subseteq Values
      BY <1>1, <2>1, PartsAreValues
    <3>2. ASSUME NEW part \in Parts(v) PROVE g[part] = h[part]
      <4>1. g[part] = Serialized(part, g) /\ h[part] = Serialized(part, g)
        BY <2>2, <3>1
      <4> QED BY <4>1
    <3>3. h[v] = Serialized(v, g)
      BY <3>1
    <3> HIDE DEF h
    <3> QED BY <3>1, <3>2, <3>3, SerializedLocal
  <2>4. Upto(h, n)
    <3>1. h = [v \in Values |-> h[v]]
      OBVIOUS
    <3> HIDE DEF h
    <3> QED BY <2>3, <3>1
  <2> HIDE DEF h, Upto
  <2> QED BY <2>1, <2>4
<1>4. \E g : g = Def(g)
  <2>1. M + 1 \in Nat /\ M + 1 \in 1..(M + 1) /\ (M + 1) - 1 = M
    BY <1>1
  <2>2. \A n \in 1..(M + 1) : n \in Good
    <3> HIDE DEF Good
    <3> QED BY <1>2, <1>3, <2>1, IntervalInduction
  <2>3. PICK g : Upto(g, M)
    <3> HIDE DEF Upto
    <3> QED BY <2>1, <2>2
  <2>4. g = Def(g)
    BY <1>1, <2>3
  <2> QED BY <2>4
<1> DEFINE solution == CHOOSE g : g = Def(g)
<1>5. appendCanonical = solution
  BY DEF appendCanonical
<1>6. solution = Def(solution)
  <2> HIDE DEF Def
  <2> QED BY <1>4
<1> HIDE DEF solution
<1> QED BY <1>5, <1>6

-----------------------------------------------------------------------------
(* Strings *)

\* The characters that break no line.
Plain == Int \ LineBreaks

\* The short escapes.
Short == {34, 92, 8, 9, 10, 12, 13}

\* The table of short escapes, entry by entry.
LEMMA ShortEscape ==
  /\ DOMAIN ShortEscapes = Short
  /\ ShortEscapes[34] = 34 /\ ShortEscapes[92] = 92 /\ ShortEscapes[8] = 98
  /\ ShortEscapes[12] = 102 /\ ShortEscapes[10] = 110 /\ ShortEscapes[13] = 114
  /\ ShortEscapes[9] = 116
<1> USE DEF ShortEscapes, Quote, Backslash, Short
<1>1. DOMAIN ShortEscapes = Short
  BY SMT
<1>2. ShortEscapes[34] = 34 /\ ShortEscapes[92] = 92 /\ ShortEscapes[8] = 98
  BY SMT
<1>3. ShortEscapes[12] = 102 /\ ShortEscapes[10] = 110
  BY SMT
<1>4. ShortEscapes[13] = 114 /\ ShortEscapes[9] = 116
  BY SMT
<1> QED BY <1>1, <1>2, <1>3, <1>4, Zenon

\* A hexadecimal digit breaks no line and tells its value.
LEMMA HexDigits ==
  ASSUME NEW d \in 0..15, NEW e \in 0..15
  PROVE  HexDigit(d) \in Plain /\ (HexDigit(d) = HexDigit(e) => d = e)
BY SMT DEF HexDigit, Plain, LineBreaks

\* What a character is written as: two characters, six, or itself.
LEMMA EscapeShape ==
  ASSUME NEW c \in Runes
  PROVE  /\ Escape(c) \in Seq(Plain) /\ Len(Escape(c)) # 0
         /\ c \in Short => /\ Escape(c) = <<92, ShortEscapes[c]>> /\ Len(Escape(c)) = 2
                           /\ Escape(c)[1] = 92 /\ Escape(c)[2] = ShortEscapes[c]
         /\ c \notin Short /\ (c < 32 \/ c \in LineSeparators) =>
              /\ Len(Escape(c)) = 6 /\ Escape(c)[1] = 92 /\ Escape(c)[2] = 117
              /\ Escape(c)[3] = HexDigit((c \div 4096) % 16)
              /\ Escape(c)[4] = HexDigit((c \div 256) % 16)
              /\ Escape(c)[5] = HexDigit((c \div 16) % 16)
              /\ Escape(c)[6] = HexDigit(c % 16)
         /\ c \notin Short /\ ~(c < 32 \/ c \in LineSeparators) =>
              Len(Escape(c)) = 1 /\ Escape(c)[1] = c /\ c # 34 /\ c # 92
<1>1. c \in Nat
  BY DEF Runes
<1>2. CASE c \in Short
  <2>1. ShortEscapes[c] \in Plain /\ 92 \in Plain
    BY <1>2, ShortEscape, SMT DEF Short, Plain, LineBreaks
  <2>2. Escape(c) = <<92, ShortEscapes[c]>>
    BY <1>2, ShortEscape, SMT DEF Escape, Backslash
  <2> DEFINE x == ShortEscapes[c]
  <2> HIDE DEF x
  <2>3. <<92, x>> \in Seq(Plain) /\ Len(<<92, x>>) = 2 /\ <<92, x>>[1] = 92 /\ <<92, x>>[2] = x
    BY <2>1 DEF x
  <2> QED BY <1>2, <2>2, <2>3, SMT DEF x
<1>3. CASE c \notin Short /\ (c < 32 \/ c \in LineSeparators)
  <2> DEFINE d1 == (c \div 4096) % 16
             d2 == (c \div 256) % 16
             d3 == (c \div 16) % 16
             d4 == c % 16
  <2>1. d1 \in 0..15 /\ d2 \in 0..15 /\ d3 \in 0..15 /\ d4 \in 0..15
    BY <1>1, SMT
  <2>2. Escape(c) = <<92, 117, HexDigit(d1), HexDigit(d2), HexDigit(d3), HexDigit(d4)>>
    BY <1>3, ShortEscape, SMT DEF Escape, UnicodeEscape, Backslash
  <2> HIDE DEF d1, d2, d3, d4
  <2>3. /\ HexDigit(d1) \in Plain /\ HexDigit(d2) \in Plain
        /\ HexDigit(d3) \in Plain /\ HexDigit(d4) \in Plain /\ 92 \in Plain /\ 117 \in Plain
    <3>1. 92 \in Plain /\ 117 \in Plain
      BY SMT DEF Plain, LineBreaks
    <3> QED BY <2>1, <3>1, HexDigits, Zenon
  <2> DEFINE h1 == HexDigit(d1)
             h2 == HexDigit(d2)
             h3 == HexDigit(d3)
             h4 == HexDigit(d4)
             e == <<92, 117, h1, h2, h3, h4>>
  <2> HIDE DEF h1, h2, h3, h4
  <2>4. h1 \in Plain /\ h2 \in Plain /\ h3 \in Plain /\ h4 \in Plain /\ 92 \in Plain /\ 117 \in Plain
    BY <2>3, Zenon DEF h1, h2, h3, h4
  <2>5. /\ e \in Seq(Plain) /\ Len(e) = 6 /\ e[1] = 92 /\ e[2] = 117
        /\ e[3] = h1 /\ e[4] = h2 /\ e[5] = h3 /\ e[6] = h4
    BY <2>4, SMT
  <2>6. Escape(c) = e
    BY <2>2, Zenon DEF h1, h2, h3, h4
  <2> HIDE DEF e
  <2>7. /\ Escape(c) \in Seq(Plain) /\ Len(Escape(c)) = 6 /\ Escape(c)[1] = 92 /\ Escape(c)[2] = 117
        /\ Escape(c)[3] = HexDigit(d1) /\ Escape(c)[4] = HexDigit(d2)
        /\ Escape(c)[5] = HexDigit(d3) /\ Escape(c)[6] = HexDigit(d4)
    BY <2>5, <2>6, Zenon DEF h1, h2, h3, h4
  <2> QED BY <1>3, <2>7, SMT DEF d1, d2, d3, d4
<1>4. CASE c \notin Short /\ ~(c < 32 \/ c \in LineSeparators)
  <2>1. Escape(c) = <<c>>
    BY <1>4, ShortEscape, SMT DEF Escape
  <2>2. c \in Plain /\ c # 34 /\ c # 92
    BY <1>1, <1>4, SMT DEF Plain, LineBreaks, Short, LineSeparators
  <2> QED BY <1>4, <2>1, <2>2, SMT
<1> QED BY <1>2, <1>3, <1>4, Zenon

-----------------------------------------------------------------------------
(* Reading *)

\* The sequence s is in u behind position p.
At(u, p, s) ==
  /\ u \in Seq(Int) /\ p \in Nat /\ p + Len(s) <= Len(u)
  /\ \A j \in 1..Len(s) : u[p + j] = s[j]

\* Behind position q of u is an element of D.
Follows(u, q, D) == q + 1 <= Len(u) /\ u[q + 1] \in D

\* What a concatenation is made of is where it is.
LEMMA AtConcat ==
  ASSUME NEW u, NEW p, NEW s \in Seq(Int), NEW t \in Seq(Int), At(u, p, s \o t)
  PROVE  At(u, p, s) /\ At(u, p + Len(s), t) /\ Len(s \o t) = Len(s) + Len(t)
<1> DEFINE c == s \o t
<1>1. /\ Len(s) \in Nat /\ Len(t) \in Nat /\ Len(c) = Len(s) + Len(t)
      /\ \A j \in 1..Len(s) : c[j] = s[j]
      /\ \A j \in 1..Len(t) : c[Len(s) + j] = t[j]
  BY ConcatParts
<1>2. /\ u \in Seq(Int) /\ p \in Nat /\ p + Len(c) <= Len(u) /\ Len(u) \in Nat
      /\ \A j \in 1..Len(c) : u[p + j] = c[j]
  BY LenProperties DEF At
<1> HIDE DEF c
<1>3. At(u, p, s)
  <2>1. ASSUME NEW j \in 1..Len(s) PROVE u[p + j] = s[j]
    <3>1. j \in 1..Len(c)
      BY <1>1
    <3> QED BY <1>1, <1>2, <3>1
  <2>2. p + Len(s) <= Len(u)
    BY <1>1, <1>2
  <2> QED BY <1>2, <2>1, <2>2 DEF At
<1>4. ASSUME NEW j \in 1..Len(t) PROVE u[(p + Len(s)) + j] = t[j]
  <2>1. Len(s) + j \in 1..Len(c) /\ p + (Len(s) + j) = (p + Len(s)) + j
    BY <1>1, <1>2
  <2> QED BY <1>1, <1>2, <2>1
<1>5. At(u, p + Len(s), t)
  BY <1>1, <1>2, <1>4 DEF At
<1> QED BY <1>1, <1>3, <1>5 DEF c

\* The same of many sequences, each at its offset.
LEMMA AtFlatten ==
  ASSUME NEW u, NEW p, NEW xs \in Seq(Seq(Int)), NEW ox, Laid(xs, ox),
         At(u, p, FlattenSeq(xs)), \A k \in 1..Len(xs) : Len(xs[k]) # 0
  PROVE  \A k \in 1..Len(xs) : At(u, p + ox[k], xs[k])
<1> DEFINE f == FlattenSeq(xs)
<1>1. /\ u \in Seq(Int) /\ p \in Nat /\ p + Len(f) <= Len(u) /\ Len(u) \in Nat
      /\ \A j \in 1..Len(f) : u[p + j] = f[j]
  BY LenProperties DEF At
<1>2. Offsets(xs, ox)
  BY DEF Laid
<1>3. /\ Len(xs) \in Nat
      /\ \A k \in 1..(Len(xs) + 1) : ox[k] \in Nat
      /\ \A k \in 1..Len(xs) : Len(xs[k]) \in Nat
  BY <1>2, OffsetsGrow
<1>4. Len(f) \in Nat
  BY FlattenType, LenProperties
<1> SUFFICES ASSUME NEW k \in 1..Len(xs) PROVE At(u, p + ox[k], xs[k])
  OBVIOUS
<1>5. \A j \in 1..Len(xs[k]) : ox[k] + j \in 1..Len(f) /\ f[ox[k] + j] = xs[k][j]
  BY DEF Laid
<1>6. k \in 1..(Len(xs) + 1)
  BY <1>3
<1> DEFINE l == Len(xs[k])
           o == ox[k]
<1>7. l \in Nat /\ o \in Nat
  BY <1>3, <1>6
<1>8. o + l <= Len(f)
  <2>1. l \in 1..l
    BY <1>7
  <2>2. o + l \in 1..Len(f)
    BY <1>5, <2>1
  <2> HIDE DEF f, o, l
  <2> QED BY <1>4, <2>2
<1>9. ASSUME NEW j \in 1..l PROVE u[(p + o) + j] = xs[k][j]
  <2>1. (p + o) + j = p + (o + j)
    BY <1>1, <1>7
  <2> QED BY <1>1, <1>5, <2>1
<1>10. (p + o) + l <= Len(u) /\ p + o \in Nat
  <2> HIDE DEF f, o, l
  <2> QED BY <1>1, <1>4, <1>7, <1>8
<1> QED BY <1>1, <1>9, <1>10 DEF At

\* What a list of sequences begins and goes on with: no sequence is empty, none
\* begins with e, which ends the list, and all but the first begin with an
\* element of D.
Begins(xs, D, e) ==
  \A k \in 1..Len(xs) :
    Len(xs[k]) # 0 /\ xs[k][1] # e /\ (k # 1 => xs[k][1] \in D)

\* The list is in u behind position p, and e behind it.
Ends(u, p, xs, e) ==
  /\ At(u, p, FlattenSeq(xs)) /\ p + Len(FlattenSeq(xs)) + 1 <= Len(u)
  /\ u[p + Len(FlattenSeq(xs)) + 1] = e

\* Sequences of the two lists at one number and one position, with an element of
\* D behind each, are the same.
Told(u, xs, ys, D) ==
  \A k, q : /\ k \in 1..Len(xs) /\ k \in 1..Len(ys)
            /\ At(u, q, xs[k]) /\ At(u, q, ys[k])
            /\ Follows(u, q + Len(xs[k]), D) /\ Follows(u, q + Len(ys[k]), D)
            => xs[k] = ys[k]

\* Behind a sequence of the list is an element of D.
LEMMA BehindEach ==
  ASSUME NEW u, NEW p, NEW xs \in Seq(Seq(Int)), NEW ox, Laid(xs, ox), NEW D, NEW e \in D,
         Begins(xs, D, e), Ends(u, p, xs, e)
  PROVE  /\ \A k \in 1..Len(xs) :
              At(u, p + ox[k], xs[k]) /\ Follows(u, (p + ox[k]) + Len(xs[k]), D)
         /\ (p + ox[Len(xs) + 1]) + 1 <= Len(u) /\ u[(p + ox[Len(xs) + 1]) + 1] = e
<1> DEFINE f == FlattenSeq(xs)
           n == Len(xs)
<1>1. \A k \in 1..n : Len(xs[k]) # 0 /\ (k # 1 => xs[k][1] \in D)
  BY DEF Begins
<1>2. At(u, p, f) /\ p + Len(f) + 1 <= Len(u) /\ u[p + Len(f) + 1] = e
  BY DEF Ends
<1>3. \A k \in 1..n : At(u, p + ox[k], xs[k])
  BY <1>1, <1>2, AtFlatten
<1>4. /\ n \in Nat /\ \A k \in 1..(n + 1) : ox[k] \in Nat
      /\ \A k \in 1..n : Len(xs[k]) \in Nat
  BY OffsetsGrow DEF Laid
<1>5. Len(f) = ox[n + 1] /\ \A k \in 1..n : ox[k + 1] = ox[k] + Len(xs[k])
  BY DEF Laid, Offsets
<1>6. p \in Nat /\ Len(u) \in Nat
  BY <1>2, LenProperties DEF At
<1>7. (p + ox[n + 1]) + 1 <= Len(u) /\ u[(p + ox[n + 1]) + 1] = e
  BY <1>2, <1>5
<1>8. ASSUME NEW k \in 1..n PROVE Follows(u, (p + ox[k]) + Len(xs[k]), D)
  <2>1. (p + ox[k]) + Len(xs[k]) = p + ox[k + 1]
    <3>1. k \in 1..(n + 1)
      BY <1>4
    <3> QED BY <1>4, <1>5, <1>6, <3>1
  <2>2. CASE k = n
    BY <1>7, <2>1, <2>2 DEF Follows
  <2>3. CASE k # n
    <3>1. k + 1 \in 1..n /\ k + 1 # 1 /\ k + 1 \in 1..(n + 1)
      BY <1>4, <2>3
    <3>2. At(u, p + ox[k + 1], xs[k + 1]) /\ xs[k + 1][1] \in D
      BY <1>1, <1>3, <3>1
    <3>3. Len(xs[k + 1]) \in Nat /\ Len(xs[k + 1]) # 0 /\ ox[k + 1] \in Nat
      BY <1>1, <1>4, <3>1
    <3> DEFINE q == p + ox[k + 1]
               x == xs[k + 1]
    <3> HIDE DEF q, x
    <3>4. At(u, q, x) /\ x[1] \in D /\ Len(x) \in Nat /\ Len(x) # 0
      BY <3>2, <3>3 DEF q, x
    <3>5. Follows(u, q, D)
      <4>1. 1 \in 1..Len(x) /\ q \in Nat /\ q + Len(x) <= Len(u)
        BY <3>4 DEF At
      <4>2. u[q + 1] = x[1]
        BY <3>4, <4>1 DEF At
      <4>3. q + 1 <= Len(u)
        BY <1>6, <3>4, <4>1
      <4> QED BY <3>4, <4>2, <4>3 DEF Follows
    <3> QED BY <2>1, <3>5 DEF q
  <2> QED BY <2>2, <2>3
<1> QED BY <1>3, <1>7, <1>8

\* A list in which a sequence more would follow does not end there.
LEMMA NotShorter ==
  ASSUME NEW u, NEW p, NEW xs \in Seq(Seq(Int)), NEW ys \in Seq(Seq(Int)), NEW ox, NEW oy,
         Laid(xs, ox), Laid(ys, oy), NEW D, NEW e \in D,
         Begins(xs, D, e), Begins(ys, D, e), Ends(u, p, xs, e), Ends(u, p, ys, e),
         SameUpTo(xs, ys, Len(xs))
  PROVE  ~(Len(xs) < Len(ys))
<1> DEFINE n == Len(xs)
           q == p + ox[n + 1]
           y == ys[n + 1]
<1> SUFFICES ASSUME n < Len(ys) PROVE FALSE
  OBVIOUS
<1>1. SameLaid(xs, ys, ox, oy, n)
  BY SamePrefix, Zenon
<1>2. n \in Nat /\ Len(ys) \in Nat
  BY LenProperties
<1>3. n + 1 \in 1..(n + 1) /\ n + 1 \in 1..Len(ys)
  BY <1>2
<1>4. ox[n + 1] = oy[n + 1]
  BY <1>1, <1>3 DEF SameLaid
<1>5. q + 1 <= Len(u) /\ u[q + 1] = e
  BY BehindEach, Zenon
<1>6. At(u, p + oy[n + 1], y)
  BY <1>3, BehindEach, Zenon
<1>7. At(u, q, y)
  BY <1>4, <1>6
<1>8. Len(y) \in Nat /\ Len(y) # 0 /\ y[1] # e
  <2>1. y \in Seq(Int)
    BY <1>3, ElementOfSeq
  <2> QED BY <1>3, <2>1, LenProperties DEF Begins
<1> HIDE DEF q, y
<1>9. u[q + 1] = y[1]
  BY <1>7, <1>8 DEF At
<1> QED BY <1>5, <1>8, <1>9

\* Two lists at one position, each ending with e, are the same.
LEMMA ListReads ==
  ASSUME NEW u, NEW p, NEW xs \in Seq(Seq(Int)), NEW ys \in Seq(Seq(Int)), NEW D, NEW e \in D,
         Begins(xs, D, e), Begins(ys, D, e), Ends(u, p, xs, e), Ends(u, p, ys, e),
         Told(u, xs, ys, D)
  PROVE  xs = ys
<1>1. PICK ox : Laid(xs, ox)
  BY FlattenOffsets, Zenon
<1>2. PICK oy : Laid(ys, oy)
  BY FlattenOffsets, Zenon
<1> DEFINE n == IF Len(xs) <= Len(ys) THEN Len(xs) ELSE Len(ys)
           Good == {k \in 1..(n + 1) : SameUpTo(xs, ys, k - 1)}
<1>3. n \in Nat /\ Len(xs) \in Nat /\ Len(ys) \in Nat /\ n <= Len(xs) /\ n <= Len(ys)
  BY LenProperties
<1>4. 1 \in Good
  BY <1>3 DEF SameUpTo
<1>5. ASSUME NEW k \in 1..((n + 1) - 1), k \in Good PROVE k + 1 \in Good
  <2>1. k \in 1..Len(xs) /\ k \in 1..Len(ys) /\ (k - 1) + 1 = k /\ (k + 1) - 1 = k
        /\ k \in 1..k /\ k \in Nat /\ k + 1 \in 1..(n + 1)
    BY <1>3
  <2>2. SameUpTo(xs, ys, k - 1)
    BY <1>5
  <2>3. SameLaid(xs, ys, ox, oy, k - 1)
    <3> DEFINE m == k - 1
    <3> HIDE DEF m
    <3>1. SameUpTo(xs, ys, m)
      BY <2>2 DEF m
    <3>2. SameLaid(xs, ys, ox, oy, m)
      BY <1>1, <1>2, <3>1, SamePrefix, Zenon
    <3> QED BY <3>2 DEF m
  <2>4. ox[k] = oy[k]
    BY <2>1, <2>3 DEF SameLaid
  <2>5. At(u, p + ox[k], xs[k]) /\ Follows(u, (p + ox[k]) + Len(xs[k]), D)
    BY <1>1, <2>1, BehindEach, Zenon
  <2>6. At(u, p + oy[k], ys[k]) /\ Follows(u, (p + oy[k]) + Len(ys[k]), D)
    BY <1>2, <2>1, BehindEach, Zenon
  <2>7. xs[k] = ys[k]
    BY <2>1, <2>4, <2>5, <2>6, Zenon DEF Told
  <2>8. SameUpTo(xs, ys, k)
    BY <1>3, <2>1, <2>2, <2>7 DEF SameUpTo
  <2> HIDE DEF n
  <2> QED BY <2>1, <2>8
<1>6. SameUpTo(xs, ys, n)
  <2>1. n + 1 \in Nat /\ n + 1 \in 1..(n + 1) /\ (n + 1) - 1 = n
    BY <1>3
  <2> HIDE DEF n, Good
  <2>2. \A k \in 1..(n + 1) : k \in Good
    BY <1>4, <1>5, <2>1, IntervalInduction
  <2>3. n + 1 \in Good
    BY <2>1, <2>2
  <2> QED BY <2>1, <2>3 DEF Good
<1>7. ~(Len(xs) < Len(ys))
  <2> SUFFICES ASSUME Len(xs) < Len(ys) PROVE FALSE
    OBVIOUS
  <2>1. SameUpTo(xs, ys, Len(xs))
    BY <1>3, <1>6
  <2> QED BY <1>1, <1>2, <2>1, NotShorter, Zenon
<1>8. ~(Len(ys) < Len(xs))
  <2> SUFFICES ASSUME Len(ys) < Len(xs) PROVE FALSE
    OBVIOUS
  <2>1. SameUpTo(ys, xs, Len(ys))
    BY <1>3, <1>6 DEF SameUpTo
  <2> QED BY <1>1, <1>2, <2>1, NotShorter, Zenon
<1>9. Len(xs) = Len(ys) /\ \A k \in 1..Len(xs) : xs[k] = ys[k]
  BY <1>3, <1>6, <1>7, <1>8 DEF SameUpTo
<1> QED BY <1>9, SeqEqual

\* Texts without line breaks are sequences of integers.
LEMMA PlainIsInt ==
  ASSUME NEW s \in Seq(Plain)
  PROVE  s \in Seq(Int) /\ Len(s) \in Nat /\ DOMAIN s = 1..Len(s)
<1>1. Len(s) \in Nat /\ DOMAIN s = 1..Len(s) /\ s \in [1..Len(s) -> Plain]
  BY LenProperties, SeqDef
<1>2. s \in [1..Len(s) -> Int]
  BY <1>1 DEF Plain
<1> QED BY <1>1, <1>2, SegmentIsSeq

\* No escape is the beginning of another.
LEMMA EscapeDiffers ==
  ASSUME NEW c \in Runes, NEW d \in Runes,
         \A j \in 1..Len(Escape(c)) : j <= Len(Escape(d)) => Escape(c)[j] = Escape(d)[j]
  PROVE  c = d
<1> DEFINE x == Escape(c)
           y == Escape(d)
           Six(a) == a \notin Short /\ (a < 32 \/ a \in LineSeparators)
           One(a) == a \notin Short /\ ~(a < 32 \/ a \in LineSeparators)
<1>1. c \in Nat /\ d \in Nat
  BY SMT DEF Runes
<1>2. /\ c \in Short => Len(x) = 2 /\ x[1] = 92 /\ x[2] = ShortEscapes[c]
      /\ Six(c) => /\ Len(x) = 6 /\ x[1] = 92 /\ x[2] = 117
                   /\ x[3] = HexDigit((c \div 4096) % 16)
                   /\ x[4] = HexDigit((c \div 256) % 16)
                   /\ x[5] = HexDigit((c \div 16) % 16) /\ x[6] = HexDigit(c % 16)
      /\ One(c) => Len(x) = 1 /\ x[1] = c /\ c # 92
  BY EscapeShape, SMT
<1>3. /\ d \in Short => Len(y) = 2 /\ y[1] = 92 /\ y[2] = ShortEscapes[d]
      /\ Six(d) => /\ Len(y) = 6 /\ y[1] = 92 /\ y[2] = 117
                   /\ y[3] = HexDigit((d \div 4096) % 16)
                   /\ y[4] = HexDigit((d \div 256) % 16)
                   /\ y[5] = HexDigit((d \div 16) % 16) /\ y[6] = HexDigit(d % 16)
      /\ One(d) => Len(y) = 1 /\ y[1] = d /\ d # 92
  BY EscapeShape, SMT
<1>4. \A j \in 1..Len(x) : j <= Len(y) => x[j] = y[j]
  OBVIOUS
<1>5. (c \in Short \/ Six(c) \/ One(c)) /\ (d \in Short \/ Six(d) \/ One(d))
  OBVIOUS
<1> HIDE DEF x, y, Six, One
<1>6. x[1] = y[1]
  BY <1>2, <1>3, <1>4, <1>5, SMT
<1>7. ~One(c) /\ ~One(d) => x[2] = y[2]
  BY <1>2, <1>3, <1>4, <1>5, SMT
<1>8. \A a \in Short : ShortEscapes[a] # 117
  BY ShortEscape, SMT DEF Short
<1>9. CASE One(c) \/ One(d)
  BY <1>2, <1>3, <1>5, <1>6, <1>9, SMT
<1>10. CASE c \in Short /\ d \in Short
  BY <1>2, <1>3, <1>4, <1>10, ShortEscape, SMT DEF Short
<1>11. CASE (c \in Short /\ Six(d)) \/ (Six(c) /\ d \in Short)
  <2>1. ~One(c) /\ ~One(d)
    BY <1>11, SMT DEF Six, One
  <2> QED BY <1>2, <1>3, <1>7, <1>8, <1>11, <2>1, SMT
<1>12. CASE Six(c) /\ Six(d)
  <2> DEFINE c1 == (c \div 4096) % 16
             c2 == (c \div 256) % 16
             c3 == (c \div 16) % 16
             c4 == c % 16
             d1 == (d \div 4096) % 16
             d2 == (d \div 256) % 16
             d3 == (d \div 16) % 16
             d4 == d % 16
  <2>1. /\ c1 \in 0..15 /\ c2 \in 0..15 /\ c3 \in 0..15 /\ c4 \in 0..15
        /\ d1 \in 0..15 /\ d2 \in 0..15 /\ d3 \in 0..15 /\ d4 \in 0..15
    BY <1>1, SMT
  <2>2. x[3] = y[3] /\ x[4] = y[4] /\ x[5] = y[5] /\ x[6] = y[6]
    <3>1. Len(x) = 6 /\ Len(y) = 6
      BY <1>2, <1>3, <1>12, SMT
    <3> QED BY <1>4, <3>1, SMT
  <2>3. /\ HexDigit(c1) = HexDigit(d1) /\ HexDigit(c2) = HexDigit(d2)
        /\ HexDigit(c3) = HexDigit(d3) /\ HexDigit(c4) = HexDigit(d4)
    BY <1>2, <1>3, <1>12, <2>2, SMT
  <2>4. c1 = d1 /\ c2 = d2 /\ c3 = d3 /\ c4 = d4
    <3> HIDE DEF c1, c2, c3, c4, d1, d2, d3, d4
    <3> QED BY <2>1, <2>3, HexDigits, Zenon
  <2>5. c < 65536 /\ d < 65536
    BY <1>1, <1>12, SMT DEF Six, LineSeparators
  <2>6. /\ c = 4096 * c1 + 256 * c2 + 16 * c3 + c4
        /\ d = 4096 * d1 + 256 * d2 + 16 * d3 + d4
    BY <1>1, <2>5, SMT
  <2> HIDE DEF c1, c2, c3, c4, d1, d2, d3, d4
  <2> QED BY <2>4, <2>6, SMT
<1> QED BY <1>5, <1>9, <1>10, <1>11, <1>12, Zenon

\* What a rune is written as has no line break.
LEMMA EscapeType ==
  ASSUME NEW c \in Runes
  PROVE  Escape(c) \in Seq(Plain) /\ Escape(c) \in Seq(Int) /\ Len(Escape(c)) \in Nat
<1>1. Escape(c) \in Seq(Plain)
  BY EscapeShape, SMT
<1> QED BY <1>1, PlainIsInt

\* Two sequences at one position agree.
LEMMA AtBoth ==
  ASSUME NEW u, NEW q, NEW x, NEW y, At(u, q, x), At(u, q, y),
         Len(x) \in Nat, Len(y) \in Nat
  PROVE  \A j \in 1..Len(x) : j <= Len(y) => x[j] = y[j]
BY DEF At

\* A sequence begins with itself.
LEMMA AtStart ==
  ASSUME NEW x \in Seq(Int)
  PROVE  At(x, 0, x) /\ Len(x) \in Nat
<1>1. Len(x) \in Nat
  BY LenProperties
<1> QED BY <1>1 DEF At

\* What is between two characters, and what they are.
LEMMA Bracketed ==
  ASSUME NEW u, NEW p, NEW s \in Seq(Int), NEW o \in Int, NEW e \in Int,
         At(u, p, <<o>> \o s \o <<e>>)
  PROVE  /\ At(u, p + 1, s) /\ (p + 1) + Len(s) + 1 <= Len(u)
         /\ u[p + 1] = o /\ u[(p + 1) + Len(s) + 1] = e
<1> DEFINE os == <<o>> \o s
<1>1. /\ <<o>> \in Seq(Int) /\ Len(<<o>>) = 1 /\ <<o>>[1] = o
      /\ <<e>> \in Seq(Int) /\ Len(<<e>>) = 1 /\ <<e>>[1] = e
  BY SingletonIsSeq
<1>2. os \in Seq(Int) /\ Len(os) = 1 + Len(s) /\ Len(s) \in Nat
  BY <1>1, ConcatParts
<1>3. At(u, p, os) /\ At(u, p + Len(os), <<e>>)
  <2> HIDE DEF os
  <2>1. At(u, p, os \o <<e>>)
    BY DEF os
  <2> QED BY <1>1, <1>2, <2>1, AtConcat
<1>4. At(u, p, <<o>>) /\ At(u, p + Len(<<o>>), s)
  BY <1>1, <1>3, AtConcat
<1>5. At(u, p + 1, s)
  BY <1>1, <1>4
<1>6. u[p + 1] = o
  BY <1>1, <1>4 DEF At
<1> HIDE DEF os
<1>7. p \in Nat /\ p + Len(os) + 1 <= Len(u) /\ u[p + Len(os) + 1] = e
  BY <1>1, <1>3 DEF At
<1>8. p + Len(os) + 1 = (p + 1) + Len(s) + 1
  BY <1>2, <1>7
<1> QED BY <1>5, <1>6, <1>7, <1>8

\* What each character of s is written as.
Escapes(s) == [k \in DOMAIN s |-> Escape(s[k])]

\* A canonical string: its escapes between quotes.
LEMMA StringShape ==
  ASSUME NEW s, IsText(s)
  PROVE  /\ Escapes(s) \in Seq(Seq(Plain)) /\ Escapes(s) \in Seq(Seq(Int))
         /\ Len(Escapes(s)) = Len(s)
         /\ \A k \in 1..Len(s) : Escapes(s)[k] = Escape(s[k])
         /\ appendCanonicalString(s) = <<34>> \o FlattenSeq(Escapes(s)) \o <<34>>
         /\ appendCanonicalString(s) \in Seq(Plain)
         /\ Begins(Escapes(s), Int, 34)
<1>1. Len(s) \in Nat /\ DOMAIN s = 1..Len(s) /\ \A k \in 1..Len(s) : s[k] \in Runes
  BY TextIsSeq
<1>2. \A c \in Runes : Escape(c) \in Seq(Plain) /\ Escape(c) \in Seq(Int)
                       /\ Len(Escape(c)) # 0 /\ Escape(c)[1] \in Int /\ Escape(c)[1] # 34
  <2> SUFFICES ASSUME NEW c \in Runes
               PROVE  Escape(c) \in Seq(Plain) /\ Escape(c) \in Seq(Int)
                      /\ Len(Escape(c)) # 0 /\ Escape(c)[1] \in Int /\ Escape(c)[1] # 34
    OBVIOUS
  <2>1. Escape(c) \in Seq(Plain) /\ Len(Escape(c)) # 0
    BY EscapeShape, SMT
  <2>2. c \in Nat
    BY SMT DEF Runes
  <2>3. Escape(c)[1] \in Int /\ Escape(c)[1] # 34
    BY <2>2, EscapeShape, SMT
  <2> QED BY <2>1, <2>3, PlainIsInt, Zenon
<1>3. \A k \in 1..Len(s) : Escapes(s)[k] = Escape(s[k])
  BY <1>1 DEF Escapes
<1>4. Escapes(s) \in [1..Len(s) -> Seq(Plain)] /\ Escapes(s) \in [1..Len(s) -> Seq(Int)]
  BY <1>1, <1>2 DEF Escapes
<1> HIDE DEF Escapes
<1>5. /\ Escapes(s) \in Seq(Seq(Plain)) /\ Len(Escapes(s)) = Len(s)
      /\ Escapes(s) \in Seq(Seq(Int))
  BY <1>1, <1>4, SegmentIsSeq
<1>6. appendCanonicalString(s) = <<34>> \o FlattenSeq(Escapes(s)) \o <<34>>
  BY DEF appendCanonicalString, Escapes, Quote
<1>7. appendCanonicalString(s) \in Seq(Plain)
  <2> DEFINE f == FlattenSeq(Escapes(s))
             q == <<34>>
  <2>1. f \in Seq(Plain)
    BY <1>5, FlattenType
  <2>2. q \in Seq(Plain)
    BY SMT DEF Plain, LineBreaks
  <2> HIDE DEF f, q
  <2>3. q \o f \in Seq(Plain)
    BY <2>1, <2>2, ConcatProperties
  <2>4. q \o f \o q \in Seq(Plain)
    BY <2>2, <2>3, ConcatProperties
  <2> QED BY <1>6, <2>4 DEF f, q
<1>8. Begins(Escapes(s), Int, 34)
  <2> SUFFICES ASSUME NEW k \in 1..Len(s)
               PROVE  Len(Escapes(s)[k]) # 0 /\ Escapes(s)[k][1] # 34 /\ Escapes(s)[k][1] \in Int
    BY <1>5 DEF Begins
  <2> QED BY <1>1, <1>2, <1>3, Zenon
<1> QED BY <1>3, <1>5, <1>6, <1>7, <1>8

\* A string is read back from its canonical form.
LEMMA StringReads ==
  ASSUME NEW a, NEW b, IsText(a), IsText(b), NEW u, NEW p,
         At(u, p, appendCanonicalString(a)), At(u, p, appendCanonicalString(b))
  PROVE  a = b
<1> DEFINE x == Escapes(a)
           y == Escapes(b)
<1>1. /\ a \in Seq(Runes) /\ \A k \in 1..Len(a) : a[k] \in Runes
      /\ b \in Seq(Runes) /\ \A k \in 1..Len(b) : b[k] \in Runes
  BY TextIsSeq
<1>2. /\ x \in Seq(Seq(Int)) /\ Len(x) = Len(a) /\ Begins(x, Int, 34)
      /\ \A k \in 1..Len(a) : x[k] = Escape(a[k])
      /\ appendCanonicalString(a) = <<34>> \o FlattenSeq(x) \o <<34>>
  BY StringShape, Zenon
<1>3. /\ y \in Seq(Seq(Int)) /\ Len(y) = Len(b) /\ Begins(y, Int, 34)
      /\ \A k \in 1..Len(b) : y[k] = Escape(b[k])
      /\ appendCanonicalString(b) = <<34>> \o FlattenSeq(y) \o <<34>>
  BY StringShape, Zenon
<1> HIDE DEF x, y
<1>4. ASSUME NEW c \in Runes, NEW d \in Runes, NEW w, NEW q, At(w, q, Escape(c)), At(w, q, Escape(d))
      PROVE  c = d
  <2>1. Len(Escape(c)) \in Nat /\ Len(Escape(d)) \in Nat
    BY EscapeType, Zenon
  <2>2. \A j \in 1..Len(Escape(c)) : j <= Len(Escape(d)) => Escape(c)[j] = Escape(d)[j]
    <3> DEFINE ec == Escape(c)
               ed == Escape(d)
    <3> HIDE DEF ec, ed
    <3>1. At(w, q, ec) /\ At(w, q, ed) /\ Len(ec) \in Nat /\ Len(ed) \in Nat
      BY <1>4, <2>1, Zenon DEF ec, ed
    <3>2. \A j \in 1..Len(ec) : j <= Len(ed) => ec[j] = ed[j]
      BY <3>1, AtBoth
    <3> QED BY <3>2, Zenon DEF ec, ed
  <2> QED BY <2>2, EscapeDiffers, Zenon
<1>5. Ends(u, p + 1, x, 34)
  <2> DEFINE f == FlattenSeq(x)
  <2>1. f \in Seq(Int) /\ 34 \in Int
    BY <1>2, FlattenType
  <2> HIDE DEF f
  <2>2. At(u, p, <<34>> \o f \o <<34>>)
    BY <1>2, Zenon DEF f
  <2>3. At(u, p + 1, f) /\ (p + 1) + Len(f) + 1 <= Len(u) /\ u[(p + 1) + Len(f) + 1] = 34
    BY <2>1, <2>2, Bracketed
  <2> QED BY <2>3, Zenon DEF f, Ends
<1>6. Ends(u, p + 1, y, 34)
  <2> DEFINE f == FlattenSeq(y)
  <2>1. f \in Seq(Int) /\ 34 \in Int
    BY <1>3, FlattenType
  <2> HIDE DEF f
  <2>2. At(u, p, <<34>> \o f \o <<34>>)
    BY <1>3, Zenon DEF f
  <2>3. At(u, p + 1, f) /\ (p + 1) + Len(f) + 1 <= Len(u) /\ u[(p + 1) + Len(f) + 1] = 34
    BY <2>1, <2>2, Bracketed
  <2> QED BY <2>3, Zenon DEF f, Ends
<1>7. Told(u, x, y, Int)
  <2> SUFFICES ASSUME NEW k, NEW q, k \in 1..Len(x), k \in 1..Len(y), At(u, q, x[k]), At(u, q, y[k])
               PROVE  x[k] = y[k]
    BY DEF Told
  <2>1. x[k] = Escape(a[k]) /\ y[k] = Escape(b[k]) /\ a[k] \in Runes /\ b[k] \in Runes
    BY <1>1, <1>2, <1>3
  <2>2. At(u, q, Escape(a[k])) /\ At(u, q, Escape(b[k]))
    BY <2>1
  <2>3. a[k] = b[k]
    BY <1>4, <2>1, <2>2, Zenon
  <2> QED BY <2>1, <2>3
<1>8. x = y
  <2>1. 34 \in Int
    OBVIOUS
  <2> QED BY <1>2, <1>3, <1>5, <1>6, <1>7, <2>1, ListReads, Zenon
<1>9. ASSUME NEW k \in 1..Len(a) PROVE a[k] = b[k]
  <2>1. k \in 1..Len(b) /\ Escape(a[k]) = Escape(b[k]) /\ a[k] \in Runes /\ b[k] \in Runes
    BY <1>1, <1>2, <1>3, <1>8
  <2>2. Escape(a[k]) \in Seq(Int)
    BY <2>1, EscapeType, Zenon
  <2>3. At(Escape(a[k]), 0, Escape(a[k]))
    BY <2>2, AtStart, Zenon
  <2>4. At(Escape(a[k]), 0, Escape(b[k]))
    BY <2>1, <2>3
  <2> QED BY <1>4, <2>1, <2>3, <2>4, Zenon
<1>10. Len(a) = Len(b)
  BY <1>2, <1>3, <1>8
<1> QED BY <1>1, <1>9, <1>10, SeqEqual

-----------------------------------------------------------------------------
(* The order of members *)

\* compareUTF16 is a total order of the texts, equal only for equal ones.
LEMMA TextOrder ==
  ASSUME NEW a, NEW b, IsText(a), IsText(b)
  PROVE  /\ compareUTF16(a, a) <= 0
         /\ compareUTF16(a, b) <= 0 /\ compareUTF16(b, a) <= 0 => a = b
         /\ \A c : IsText(c) /\ compareUTF16(a, b) <= 0 /\ compareUTF16(b, c) <= 0 =>
                     compareUTF16(a, c) <= 0
<1>1. \A x, y : IsText(x) /\ IsText(y) =>
        /\ compareUTF16(x, y) = Compare(Weights(x), Weights(y))
        /\ Weights(x) \in Seq(Int) /\ (Weights(x) = Weights(y) => x = y)
  BY CompareWeights, Zenon
<1>2. Compare(Weights(a), Weights(a)) <= 0
  <2> DEFINE w == Weights(a)
  <2> HIDE DEF w
  <2>1. w \in Seq(Int)
    BY <1>1 DEF w
  <2>2. Compare(w, w) <= 0 <=>
          \/ \E k \in 1..Len(w) : /\ k <= Len(w) /\ w[k] < w[k]
                                  /\ \A m \in 1..(k - 1) : w[m] = w[m]
          \/ Len(w) <= Len(w) /\ \A k \in 1..Len(w) : w[k] = w[k]
    BY <2>1, CompareMeaning
  <2>3. Len(w) <= Len(w)
    BY <2>1, LenProperties
  <2> QED BY <2>2, <2>3 DEF w
<1>3. compareUTF16(a, b) <= 0 /\ compareUTF16(b, a) <= 0 => a = b
  <2> SUFFICES ASSUME compareUTF16(a, b) <= 0, compareUTF16(b, a) <= 0 PROVE a = b
    OBVIOUS
  <2>1. Compare(Weights(a), Weights(b)) <= 0 /\ Compare(Weights(b), Weights(a)) <= 0
    BY <1>1
  <2>2. Weights(a) = Weights(b)
    BY <1>1, <2>1, CompareOrders
  <2> QED BY <1>1, <2>2
<1>4. ASSUME NEW c, IsText(c), compareUTF16(a, b) <= 0, compareUTF16(b, c) <= 0
      PROVE  compareUTF16(a, c) <= 0
  <2>1. Compare(Weights(a), Weights(b)) <= 0 /\ Compare(Weights(b), Weights(c)) <= 0
    BY <1>1, <1>4
  <2>2. Weights(a) \in Seq(Int) /\ Weights(b) \in Seq(Int) /\ Weights(c) \in Seq(Int)
    BY <1>1, <1>4
  <2>3. Compare(Weights(a), Weights(c)) <= 0
    BY <2>1, <2>2, CompareOrders
  <2> QED BY <1>1, <1>4, <2>3
<1> QED BY <1>1, <1>2, <1>3, <1>4

\* What slices.SortFunc may return: each key once, none before a smaller one.
LEMMA SortedShape ==
  ASSUME NEW keys, IsFiniteSet(keys), \A key \in keys : IsText(key), NEW order \in Sorted(keys)
  PROVE  /\ Cardinality(keys) \in Nat /\ order \in [1..Cardinality(keys) -> keys]
         /\ \A key \in keys : \E k \in 1..Cardinality(keys) : order[k] = key
         /\ \A j, k \in 1..Cardinality(keys) : order[j] = order[k] => j = k
         /\ \A k \in 1..Cardinality(keys) : \A j \in 1..k : compareUTF16(order[j], order[k]) <= 0
<1> DEFINE n == Cardinality(keys)
<1>1. n \in Nat
  BY FS_CardinalityType
<1>2. /\ order \in [1..n -> keys]
      /\ \A j, k \in 1..n : j # k => order[j] # order[k]
      /\ \A k \in 2..Len(order) : compareUTF16(order[k - 1], order[k]) <= 0
  BY DEF Sorted, SetToSeqs
<1>3. Len(order) = n
  <2> HIDE DEF n
  <2> QED BY <1>1, <1>2, SegmentIsSeq
<1>4. order \in Surjection(1..n, keys)
  <2>1. order \in Injection(1..n, keys)
    BY <1>2 DEF Injection, IsInjective
  <2>2. Cardinality(1..n) = n
    <3>1. n # 0 => 1 <= n
      BY <1>1
    <3> QED BY <1>1, FS_Interval
  <2> HIDE DEF n
  <2>3. Cardinality(1..n) = Cardinality(keys)
    BY <2>2 DEF n
  <2> QED BY <2>1, <2>3, FS_Injection
<1>5. \A key \in keys : \E k \in 1..n : order[k] = key
  BY <1>4 DEF Surjection
<1> DEFINE Good == {k \in 1..n : \A j \in 1..k : compareUTF16(order[j], order[k]) <= 0}
<1>6. \A k \in 1..n : IsText(order[k])
  BY <1>2
<1>7. n > 0 => 1 \in Good
  <2> SUFFICES ASSUME n > 0 PROVE 1 \in Good
    OBVIOUS
  <2>1. 1 \in 1..n /\ \A j \in 1..1 : j = 1
    BY <1>1
  <2>2. compareUTF16(order[1], order[1]) <= 0
    BY <1>6, <2>1, TextOrder
  <2> QED BY <2>1, <2>2
<1>8. ASSUME NEW k \in 1..(n - 1), k \in Good PROVE k + 1 \in Good
  <2>1. k \in 1..n /\ k + 1 \in 1..n /\ k + 1 \in 2..n /\ (k + 1) - 1 = k
    BY <1>1
  <2>2. compareUTF16(order[k], order[k + 1]) <= 0
    BY <1>2, <1>3, <2>1
  <2>3. ASSUME NEW j \in 1..(k + 1) PROVE compareUTF16(order[j], order[k + 1]) <= 0
    <3>1. CASE j = k + 1
      BY <1>6, <2>1, <3>1, TextOrder
    <3>2. CASE j # k + 1
      <4>1. j \in 1..k /\ j \in 1..n
        BY <1>1, <2>1, <3>2
      <4>2. compareUTF16(order[j], order[k]) <= 0
        BY <1>8, <4>1
      <4>3. IsText(order[j]) /\ IsText(order[k]) /\ IsText(order[k + 1])
        BY <1>6, <2>1, <4>1
      <4> QED BY <2>2, <4>2, <4>3, TextOrder
    <3> QED BY <3>1, <3>2
  <2> QED BY <2>1, <2>3
<1>9. \A k \in 1..n : k \in Good
  <2> HIDE DEF Good, n
  <2> QED BY <1>1, <1>7, <1>8, IntervalInduction
<1> QED BY <1>1, <1>2, <1>5, <1>9

\* However the map is walked, one order comes out.
LEMMA SortedOnce ==
  ASSUME NEW keys, IsFiniteSet(keys), \A key \in keys : IsText(key),
         NEW x \in Sorted(keys), NEW y \in Sorted(keys)
  PROVE  x = y
<1> DEFINE n == Cardinality(keys)
           Good == {m \in 1..(n + 1) : \A k \in 1..(m - 1) : x[k] = y[k]}
<1>1. /\ n \in Nat /\ x \in [1..n -> keys]
      /\ \A key \in keys : \E k \in 1..n : x[k] = key
      /\ \A j, k \in 1..n : x[j] = x[k] => j = k
      /\ \A k \in 1..n : \A j \in 1..k : compareUTF16(x[j], x[k]) <= 0
  BY SortedShape, Zenon
<1>2. /\ y \in [1..n -> keys]
      /\ \A key \in keys : \E k \in 1..n : y[k] = key
      /\ \A j, k \in 1..n : y[j] = y[k] => j = k
      /\ \A k \in 1..n : \A j \in 1..k : compareUTF16(y[j], y[k]) <= 0
  BY SortedShape, Zenon
<1> HIDE DEF n
<1>3. 1 \in Good
  BY <1>1
<1>4. ASSUME NEW m \in 1..((n + 1) - 1), m \in Good PROVE m + 1 \in Good
  <2>1. m \in 1..n /\ m + 1 \in 1..(n + 1) /\ (m + 1) - 1 = m
    BY <1>1
  <2>2. \A k \in 1..(m - 1) : x[k] = y[k]
    BY <1>4
  <2>3. x[m] \in keys /\ y[m] \in keys
    BY <1>1, <1>2, <2>1
  <2>4. PICK i \in 1..n : y[i] = x[m]
    BY <1>2, <2>3
  <2>5. PICK j \in 1..n : x[j] = y[m]
    BY <1>1, <2>3
  <2>6. ~(i < m)
    <3> SUFFICES ASSUME i < m PROVE FALSE
      OBVIOUS
    <3>1. i \in 1..(m - 1)
      BY <1>1, <2>1
    <3>2. x[i] = x[m]
      BY <2>2, <2>4, <3>1
    <3>3. i = m
      BY <1>1, <2>1, <3>2
    <3> QED BY <2>1, <3>3
  <2>7. ~(j < m)
    <3> SUFFICES ASSUME j < m PROVE FALSE
      OBVIOUS
    <3>1. j \in 1..(m - 1)
      BY <1>1, <2>1
    <3>2. y[j] = y[m]
      BY <2>2, <2>5, <3>1
    <3>3. j = m
      BY <1>2, <2>1, <3>2
    <3> QED BY <2>1, <3>3
  <2>8. m \in 1..i /\ m \in 1..j
    BY <1>1, <2>1, <2>6, <2>7
  <2>9. compareUTF16(y[m], y[i]) <= 0 /\ compareUTF16(x[m], x[j]) <= 0
    BY <1>1, <1>2, <2>8
  <2>10. compareUTF16(y[m], x[m]) <= 0 /\ compareUTF16(x[m], y[m]) <= 0
    BY <2>4, <2>5, <2>9
  <2>11. x[m] = y[m]
    BY <2>3, <2>10, TextOrder
  <2>12. ASSUME NEW k \in 1..m PROVE x[k] = y[k]
    <3>1. k = m \/ k \in 1..(m - 1)
      BY <2>1
    <3> QED BY <2>2, <2>11, <3>1
  <2> QED BY <2>1, <2>12
<1>5. n + 1 \in Nat /\ n + 1 \in 1..(n + 1) /\ (n + 1) - 1 = n
  BY <1>1
<1>6. n + 1 \in Good
  <2> HIDE DEF Good
  <2>1. \A m \in 1..(n + 1) : m \in Good
    BY <1>3, <1>4, <1>5, IntervalInduction
  <2> QED BY <1>5, <2>1
<1>7. \A k \in 1..n : x[k] = y[k]
  BY <1>5, <1>6
<1> QED BY <1>1, <1>2, <1>7

-----------------------------------------------------------------------------
(* Lists *)

\* The texts, all but the first with the comma before it.
Separated(texts) == [k \in DOMAIN texts |-> IF k = 1 THEN texts[k] ELSE <<44>> \o texts[k]]

\* Commas joins the separated texts, and breaks no line.
LEMMA CommasShape ==
  ASSUME NEW texts \in Seq(Seq(Plain))
  PROVE  /\ Separated(texts) \in Seq(Seq(Plain)) /\ Separated(texts) \in Seq(Seq(Int))
         /\ Len(Separated(texts)) = Len(texts) /\ Len(texts) \in Nat
         /\ \A k \in 1..Len(texts) :
              Separated(texts)[k] = IF k = 1 THEN texts[k] ELSE <<44>> \o texts[k]
         /\ Commas(texts) = FlattenSeq(Separated(texts)) /\ Commas(texts) \in Seq(Plain)
<1> DEFINE n == Len(texts)
<1>1. n \in Nat /\ DOMAIN texts = 1..n /\ \A k \in 1..n : texts[k] \in Seq(Plain)
  BY LenProperties, ElementOfSeq
<1>2. <<44>> \in Seq(Plain)
  BY SMT DEF Plain, LineBreaks
<1>3. \A k \in 1..n : Separated(texts)[k] = IF k = 1 THEN texts[k] ELSE <<44>> \o texts[k]
  BY <1>1 DEF Separated
<1>4. \A k \in 1..n : Separated(texts)[k] \in Seq(Plain)
  <2>1. \A k \in 1..n : <<44>> \o texts[k] \in Seq(Plain)
    BY <1>1, <1>2, ConcatProperties
  <2> QED BY <1>1, <1>3, <2>1
<1>5. \A k \in 1..n : Separated(texts)[k] \in Seq(Int)
  BY <1>4, PlainIsInt
<1>6. DOMAIN Separated(texts) = 1..n /\ Separated(texts) = [k \in 1..n |-> Separated(texts)[k]]
  BY <1>1 DEF Separated
<1>7. Separated(texts) \in [1..n -> Seq(Plain)] /\ Separated(texts) \in [1..n -> Seq(Int)]
  BY <1>4, <1>5, <1>6
<1>8. /\ Separated(texts) \in Seq(Seq(Plain)) /\ Len(Separated(texts)) = n
      /\ Separated(texts) \in Seq(Seq(Int))
  BY <1>1, <1>7, SegmentIsSeq
<1>9. Commas(texts) = FlattenSeq(Separated(texts))
  BY DEF Commas, Separated
<1>10. FlattenSeq(Separated(texts)) \in Seq(Plain)
  BY <1>8, FlattenType
<1> QED BY <1>1, <1>3, <1>8, <1>9, <1>10

\* What may stand behind a value.
Delimiters == {44, 93, 125}
Delimited(u, q) == q = Len(u) \/ Follows(u, q, Delimiters)

\* Texts that can be elements of a list.
Listable(texts) ==
  /\ texts \in Seq(Seq(Plain))
  /\ \A k \in 1..Len(texts) : Len(texts[k]) # 0 /\ texts[k][1] \notin Delimiters

\* Two texts at one number and one position, each delimited, are the same.
Apart(u, xs, ys) ==
  \A k, q : /\ k \in 1..Len(xs) /\ k \in 1..Len(ys)
            /\ At(u, q, xs[k]) /\ At(u, q, ys[k])
            /\ Delimited(u, q + Len(xs[k])) /\ Delimited(u, q + Len(ys[k]))
            => xs[k] = ys[k]

\* A text behind a comma.
LEMMA CommaText ==
  ASSUME NEW t \in Seq(Plain)
  PROVE  /\ <<44>> \o t \in Seq(Int) /\ Len(<<44>> \o t) = 1 + Len(t) /\ Len(t) \in Nat
         /\ (<<44>> \o t)[1] = 44 /\ \A j \in 1..Len(t) : (<<44>> \o t)[1 + j] = t[j]
         /\ \A u, q : At(u, q, <<44>> \o t) => At(u, q + 1, t)
<1> DEFINE c == <<44>>
<1>1. c \in Seq(Int) /\ Len(c) = 1 /\ c[1] = 44 /\ t \in Seq(Int)
  BY PlainIsInt
<1> HIDE DEF c
<1>2. /\ c \o t \in Seq(Int) /\ Len(t) \in Nat /\ Len(c \o t) = Len(c) + Len(t)
      /\ \A j \in 1..Len(c) : (c \o t)[j] = c[j]
      /\ \A j \in 1..Len(t) : (c \o t)[Len(c) + j] = t[j]
  <2>1. c \in Seq(Int) /\ t \in Seq(Int)
    BY <1>1
  <2> QED BY <2>1, ConcatParts, SMTT(30)
<1>3. (c \o t)[1] = 44 /\ \A j \in 1..Len(t) : (c \o t)[1 + j] = t[j]
  BY <1>1, <1>2
<1>4. ASSUME NEW u, NEW q, At(u, q, c \o t) PROVE At(u, q + 1, t)
  <2>1. At(u, q + Len(c), t)
    BY <1>1, <1>4, AtConcat, Zenon
  <2> QED BY <1>1, <2>1
<1> QED BY <1>1, <1>2, <1>3, <1>4 DEF c

\* Two lists at one position are the same when their elements can be told.
LEMMA CommasRead ==
  ASSUME NEW u, NEW p, NEW texts, NEW others, Listable(texts), Listable(others),
         NEW o \in Int, NEW e \in {93, 125},
         At(u, p, <<o>> \o Commas(texts) \o <<e>>),
         At(u, p, <<o>> \o Commas(others) \o <<e>>), Apart(u, texts, others)
  PROVE  texts = others
<1> DEFINE xs == Separated(texts)
           ys == Separated(others)
<1>1. /\ texts \in Seq(Seq(Plain))
      /\ \A k \in 1..Len(texts) : texts[k] \in Seq(Plain) /\ Len(texts[k]) # 0 /\ texts[k][1] \notin Delimiters
      /\ others \in Seq(Seq(Plain))
      /\ \A k \in 1..Len(others) : others[k] \in Seq(Plain) /\ Len(others[k]) # 0 /\ others[k][1] \notin Delimiters
  BY ElementOfSeq DEF Listable
<1>2. /\ xs \in Seq(Seq(Int)) /\ Len(xs) = Len(texts) /\ Len(texts) \in Nat
      /\ \A k \in 1..Len(texts) : xs[k] = IF k = 1 THEN texts[k] ELSE <<44>> \o texts[k]
      /\ Commas(texts) = FlattenSeq(xs) /\ Commas(texts) \in Seq(Plain)
  BY <1>1, CommasShape, Zenon
<1>3. /\ ys \in Seq(Seq(Int)) /\ Len(ys) = Len(others) /\ Len(others) \in Nat
      /\ \A k \in 1..Len(others) : ys[k] = IF k = 1 THEN others[k] ELSE <<44>> \o others[k]
      /\ Commas(others) = FlattenSeq(ys) /\ Commas(others) \in Seq(Plain)
  BY <1>1, CommasShape, Zenon
<1> HIDE DEF xs, ys
<1>4. e \in Int /\ e \in Delimiters /\ 44 \in Delimiters /\ 44 # e
  BY DEF Delimiters
<1>5. Begins(xs, Delimiters, e)
  <2> SUFFICES ASSUME NEW k \in 1..Len(xs)
               PROVE  Len(xs[k]) # 0 /\ xs[k][1] # e /\ (k # 1 => xs[k][1] \in Delimiters)
    BY DEF Begins
  <2>1. CASE k = 1
    BY <1>1, <1>2, <1>4, <2>1
  <2>2. CASE k # 1
    <3>1. xs[k] = <<44>> \o texts[k] /\ texts[k] \in Seq(Plain)
      BY <1>1, <1>2, <2>2
    <3>2. Len(xs[k]) = 1 + Len(texts[k]) /\ Len(texts[k]) \in Nat /\ xs[k][1] = 44
      BY <3>1, CommaText
    <3> QED BY <1>4, <3>2
  <2> QED BY <2>1, <2>2
<1>6. Begins(ys, Delimiters, e)
  <2> SUFFICES ASSUME NEW k \in 1..Len(ys)
               PROVE  Len(ys[k]) # 0 /\ ys[k][1] # e /\ (k # 1 => ys[k][1] \in Delimiters)
    BY DEF Begins
  <2>1. CASE k = 1
    BY <1>1, <1>3, <1>4, <2>1
  <2>2. CASE k # 1
    <3>1. ys[k] = <<44>> \o others[k] /\ others[k] \in Seq(Plain)
      BY <1>1, <1>3, <2>2
    <3>2. Len(ys[k]) = 1 + Len(others[k]) /\ Len(others[k]) \in Nat /\ ys[k][1] = 44
      BY <3>1, CommaText
    <3> QED BY <1>4, <3>2
  <2> QED BY <2>1, <2>2
<1>7. ASSUME NEW list \in Seq(Plain), At(u, p, <<o>> \o list \o <<e>>)
      PROVE  /\ At(u, p + 1, list) /\ (p + 1) + Len(list) + 1 <= Len(u)
             /\ u[(p + 1) + Len(list) + 1] = e
  <2>1. list \in Seq(Int)
    BY PlainIsInt
  <2> QED BY <1>4, <1>7, <2>1, Bracketed
<1>8. Ends(u, p + 1, xs, e)
  <2> DEFINE f == FlattenSeq(xs)
  <2> HIDE DEF f
  <2>1. f \in Seq(Plain) /\ At(u, p, <<o>> \o f \o <<e>>)
    <3>1. Commas(texts) = f
      BY <1>2 DEF f
    <3> QED BY <1>2, <3>1
  <2>2. At(u, p + 1, f) /\ (p + 1) + Len(f) + 1 <= Len(u) /\ u[(p + 1) + Len(f) + 1] = e
    BY <1>7, <2>1, Zenon
  <2> QED BY <2>2, Zenon DEF f, Ends
<1>9. Ends(u, p + 1, ys, e)
  <2> DEFINE f == FlattenSeq(ys)
  <2> HIDE DEF f
  <2>1. f \in Seq(Plain) /\ At(u, p, <<o>> \o f \o <<e>>)
    <3>1. Commas(others) = f
      BY <1>3 DEF f
    <3> QED BY <1>3, <3>1
  <2>2. At(u, p + 1, f) /\ (p + 1) + Len(f) + 1 <= Len(u) /\ u[(p + 1) + Len(f) + 1] = e
    BY <1>7, <2>1, Zenon
  <2> QED BY <2>2, Zenon DEF f, Ends
<1>10. Told(u, xs, ys, Delimiters)
  <2> SUFFICES ASSUME NEW k, NEW q, k \in 1..Len(xs), k \in 1..Len(ys),
                      At(u, q, xs[k]), At(u, q, ys[k]),
                      Follows(u, q + Len(xs[k]), Delimiters), Follows(u, q + Len(ys[k]), Delimiters)
               PROVE  xs[k] = ys[k]
    BY DEF Told
  <2>1. k \in 1..Len(texts) /\ k \in 1..Len(others)
    BY <1>2, <1>3
  <2>2. CASE k = 1
    <3>1. xs[k] = texts[k] /\ ys[k] = others[k]
      BY <1>2, <1>3, <2>1, <2>2
    <3>2. /\ At(u, q, texts[k]) /\ At(u, q, others[k])
          /\ Delimited(u, q + Len(texts[k])) /\ Delimited(u, q + Len(others[k]))
      BY <3>1 DEF Delimited
    <3>3. texts[k] = others[k]
      BY <2>1, <3>2, Zenon DEF Apart
    <3> QED BY <3>1, <3>3
  <2>3. CASE k # 1
    <3>1. /\ xs[k] = <<44>> \o texts[k] /\ texts[k] \in Seq(Plain)
          /\ ys[k] = <<44>> \o others[k] /\ others[k] \in Seq(Plain)
      BY <1>1, <1>2, <1>3, <2>1, <2>3
    <3>2. /\ Len(xs[k]) = 1 + Len(texts[k]) /\ Len(texts[k]) \in Nat /\ At(u, q + 1, texts[k])
          /\ Len(ys[k]) = 1 + Len(others[k]) /\ Len(others[k]) \in Nat /\ At(u, q + 1, others[k])
      BY <3>1, CommaText
    <3>3. q \in Nat
      BY DEF At
    <3>4. q + Len(xs[k]) = (q + 1) + Len(texts[k]) /\ q + Len(ys[k]) = (q + 1) + Len(others[k])
      <4> DEFINE lx == Len(xs[k])
                 ly == Len(ys[k])
                 lt == Len(texts[k])
                 lo == Len(others[k])
      <4> HIDE DEF lx, ly, lt, lo
      <4>1. lx = 1 + lt /\ lt \in Nat /\ ly = 1 + lo /\ lo \in Nat
        BY <3>2, Zenon DEF lx, ly, lt, lo
      <4>2. q + lx = (q + 1) + lt /\ q + ly = (q + 1) + lo
        BY <3>3, <4>1
      <4> QED BY <4>2 DEF lx, ly, lt, lo
    <3>5. Delimited(u, (q + 1) + Len(texts[k])) /\ Delimited(u, (q + 1) + Len(others[k]))
      BY <3>4 DEF Delimited
    <3>6. texts[k] = others[k]
      BY <2>1, <3>2, <3>5, Zenon DEF Apart
    <3> QED BY <3>1, <3>6
  <2> QED BY <2>2, <2>3
<1>11. xs = ys
  <2>1. xs \in Seq(Seq(Int)) /\ ys \in Seq(Seq(Int)) /\ e \in Delimiters
    BY <1>2, <1>3, <1>4
  <2> QED BY <1>5, <1>6, <1>8, <1>9, <1>10, <2>1, ListReads, Zenon
<1>12. Len(texts) = Len(others)
  BY <1>2, <1>3, <1>11
<1>13. ASSUME NEW k \in 1..Len(texts) PROVE texts[k] = others[k]
  <2>1. k \in 1..Len(others) /\ texts[k] \in Seq(Plain) /\ others[k] \in Seq(Plain)
    BY <1>1, <1>12
  <2>2. CASE k = 1
    BY <1>2, <1>3, <1>11, <2>1, <2>2
  <2>3. CASE k # 1
    <3> DEFINE s == texts[k]
               t == others[k]
    <3>1. xs[k] = <<44>> \o s /\ ys[k] = <<44>> \o t
      BY <1>2, <1>3, <2>1, <2>3
    <3> HIDE DEF s, t
    <3>2. s \in Seq(Plain) /\ t \in Seq(Plain) /\ <<44>> \o s = <<44>> \o t
      BY <1>11, <2>1, <3>1 DEF s, t
    <3>3. /\ Len(<<44>> \o s) = 1 + Len(s) /\ Len(s) \in Nat
          /\ \A j \in 1..Len(s) : (<<44>> \o s)[1 + j] = s[j]
      BY <3>2, CommaText, Zenon
    <3>4. /\ Len(<<44>> \o t) = 1 + Len(t) /\ Len(t) \in Nat
          /\ \A j \in 1..Len(t) : (<<44>> \o t)[1 + j] = t[j]
      BY <3>2, CommaText, Zenon
    <3> DEFINE c == <<44>> \o s
    <3> HIDE DEF c
    <3>5. /\ Len(c) = 1 + Len(s) /\ \A j \in 1..Len(s) : c[1 + j] = s[j]
          /\ Len(c) = 1 + Len(t) /\ \A j \in 1..Len(t) : c[1 + j] = t[j]
      BY <3>2, <3>3, <3>4, Zenon DEF c
    <3>6. Len(s) = Len(t) /\ \A j \in 1..Len(s) : s[j] = t[j]
      BY <3>3, <3>4, <3>5
    <3>7. s = t
      BY <3>2, <3>6, SeqEqual
    <3> QED BY <3>7 DEF s, t
  <2> QED BY <2>2, <2>3
<1> QED BY <1>1, <1>12, <1>13, SeqEqual

-----------------------------------------------------------------------------
(* The text of a value *)

\* A text for each part.
Chosen(parts, texts) ==
  /\ texts = [k \in DOMAIN parts |-> texts[k]]
  /\ \A k \in DOMAIN parts : texts[k] \in appendCanonical[parts[k]]

\* What each kind of value is written as.
LEMMA CanonicalShape ==
  ASSUME NEW v \in Values, NEW t \in appendCanonical[v]
  PROVE  /\ IsLiteral(v) => t = v.literal
         /\ IsLexeme(v) => t = v.number
         /\ IsString(v) => t = appendCanonicalString(v.string)
         /\ IsArray(v) => \E texts : Chosen(v.array, texts) /\ t = <<91>> \o Commas(texts) \o <<93>>
         /\ IsObject(v) => \E order, texts :
              /\ order \in Sorted(DOMAIN v.object) /\ Chosen(v.object, texts)
              /\ t = <<123>> \o Commas(Members(order, texts)) \o <<125>>
<1>1. t \in Serialized(v, appendCanonical)
  BY CanonicalEquation
<1>2. ASSUME NEW parts, NEW texts \in OneOfEach(OfEach(parts, appendCanonical))
      PROVE  Chosen(parts, texts)
  <2> DEFINE sets == OfEach(parts, appendCanonical)
  <2>1. DOMAIN sets = DOMAIN parts /\ \A k \in DOMAIN parts : sets[k] = appendCanonical[parts[k]]
    BY DEF OfEach
  <2> HIDE DEF sets
  <2>2. texts \in OneOfEach(sets)
    BY <1>2 DEF sets
  <2>3. /\ texts \in [DOMAIN sets -> UNION {sets[k] : k \in DOMAIN sets}]
        /\ \A k \in DOMAIN sets : texts[k] \in sets[k]
    BY <2>2 DEF OneOfEach
  <2>4. texts = [k \in DOMAIN parts |-> texts[k]]
    BY <2>1, <2>3
  <2>5. \A k \in DOMAIN parts : texts[k] \in appendCanonical[parts[k]]
    BY <2>1, <2>3
  <2> QED BY <2>4, <2>5 DEF Chosen
<1>3. IsLiteral(v) => t = v.literal
  BY <1>1, SerializedKinds
<1>4. IsLexeme(v) => t = v.number
  BY <1>1, SerializedKinds
<1>5. IsString(v) => t = appendCanonicalString(v.string)
  BY <1>1, SerializedKinds
<1>6. ASSUME IsArray(v)
      PROVE  \E texts : Chosen(v.array, texts) /\ t = <<91>> \o Commas(texts) \o <<93>>
  <2>1. t \in ArrayTexts(OfEach(v.array, appendCanonical))
    BY <1>1, <1>6, SerializedKinds
  <2>2. PICK texts \in OneOfEach(OfEach(v.array, appendCanonical)) :
          t = <<91>> \o Commas(texts) \o <<93>>
    BY <2>1 DEF ArrayTexts
  <2>3. Chosen(v.array, texts)
    BY <1>2, <2>2
  <2> QED BY <2>2, <2>3
<1>7. ASSUME IsObject(v)
      PROVE  \E order, texts :
               /\ order \in Sorted(DOMAIN v.object) /\ Chosen(v.object, texts)
               /\ t = <<123>> \o Commas(Members(order, texts)) \o <<125>>
  <2> DEFINE sets == OfEach(v.object, appendCanonical)
  <2>1. t \in ObjectTexts(sets) /\ DOMAIN sets = DOMAIN v.object
    <3>1. t \in ObjectTexts(sets)
      BY <1>1, <1>7, SerializedKinds
    <3>2. DOMAIN sets = DOMAIN v.object
      BY DEF OfEach
    <3> QED BY <3>1, <3>2
  <2>2. PICK order \in Sorted(DOMAIN sets), texts \in OneOfEach(sets) :
          t = <<123>> \o Commas(Members(order, texts)) \o <<125>>
    <3> HIDE DEF sets
    <3> QED BY <2>1 DEF ObjectTexts
  <2>3. Chosen(v.object, texts)
    BY <1>2, <2>2
  <2>4. order \in Sorted(DOMAIN v.object)
    BY <2>1, <2>2
  <2> QED BY <2>2, <2>3, <2>4
<1> QED BY <1>3, <1>4, <1>5, <1>6, <1>7

\* The texts of an array's elements.
LEMMA ElementTexts ==
  ASSUME NEW v, IsArray(v), NEW S, NEW texts, Chosen(v.array, texts),
         \A k \in DOMAIN v.array : appendCanonical[v.array[k]] \subseteq S
  PROVE  /\ texts \in Seq(S) /\ Len(texts) = Len(v.array) /\ Len(v.array) \in Nat
         /\ DOMAIN v.array = 1..Len(v.array)
         /\ \A k \in 1..Len(v.array) : texts[k] \in appendCanonical[v.array[k]]
<1> DEFINE n == Len(v.array)
<1>1. n \in Nat /\ DOMAIN v.array = 1..n
  BY LenProperties DEF IsArray
<1>2. texts = [k \in 1..n |-> texts[k]] /\ \A k \in 1..n : texts[k] \in appendCanonical[v.array[k]]
  BY <1>1 DEF Chosen
<1>3. texts \in [1..n -> S]
  BY <1>1, <1>2
<1>4. texts \in Seq(S) /\ Len(texts) = n
  <2> HIDE DEF n
  <2> QED BY <1>1, <1>3, SegmentIsSeq
<1> QED BY <1>1, <1>2, <1>4

\* A member: its key, a colon and its value.
LEMMA MemberShape ==
  ASSUME NEW key, IsText(key), NEW t \in Seq(Plain)
  PROVE  /\ appendCanonicalString(key) \o <<58>> \o t \in Seq(Plain)
         /\ Len(appendCanonicalString(key) \o <<58>> \o t) # 0
         /\ (appendCanonicalString(key) \o <<58>> \o t)[1] = 34
         /\ Len(appendCanonicalString(key) \o <<58>> \o t) =
              (Len(appendCanonicalString(key)) + 1) + Len(t)
         /\ Len(appendCanonicalString(key)) \in Nat /\ Len(t) \in Nat
         /\ \A u, p : At(u, p, appendCanonicalString(key) \o <<58>> \o t) =>
              /\ At(u, p, appendCanonicalString(key))
              /\ At(u, p + (Len(appendCanonicalString(key)) + 1), t)
<1> DEFINE s == appendCanonicalString(key)
           c == <<58>>
           sc == s \o c
           m == sc \o t
           f == FlattenSeq(Escapes(key))
           q == <<34>>
<1>1. s \in Seq(Plain) /\ s = q \o f \o q /\ Escapes(key) \in Seq(Seq(Plain))
  BY StringShape, Zenon
<1>2. c \in Seq(Plain) /\ Len(c) = 1 /\ q \in Seq(Plain) /\ Len(q) = 1 /\ q[1] = 34
  BY SMT DEF Plain, LineBreaks
<1>3. f \in Seq(Plain)
  BY <1>1, FlattenType
<1>4. s \in Seq(Int) /\ c \in Seq(Int) /\ t \in Seq(Int)
  <2> HIDE DEF s, c
  <2> QED BY <1>1, <1>2, PlainIsInt
<1> HIDE DEF s, c, sc, m, f, q
<1>5. q \o f \in Seq(Plain) /\ Len(q \o f) = 1 + Len(f) /\ (q \o f)[1] = 34 /\ Len(f) \in Nat
  BY <1>2, <1>3, ConcatParts
<1>6. Len(s) = (1 + Len(f)) + 1 /\ s[1] = 34
  <2> DEFINE qf == q \o f
  <2> HIDE DEF qf
  <2>1. qf \in Seq(Plain) /\ Len(qf) = 1 + Len(f) /\ qf[1] = 34 /\ s = qf \o q
    BY <1>1, <1>5 DEF qf
  <2>2. qf \in Seq(Plain) /\ q \in Seq(Plain)
    BY <1>2, <2>1
  <2>3. Len(qf \o q) = Len(qf) + Len(q) /\ \A j \in 1..Len(qf) : (qf \o q)[j] = qf[j]
    BY <2>2, ConcatParts
  <2> QED BY <1>2, <1>5, <2>1, <2>3
<1>7. sc \in Seq(Plain) /\ Len(sc) = Len(s) + 1 /\ sc[1] = 34 /\ Len(s) \in Nat
  <2>1. /\ s \o c \in Seq(Plain) /\ Len(s \o c) = Len(s) + Len(c) /\ Len(s) \in Nat
        /\ \A j \in 1..Len(s) : (s \o c)[j] = s[j]
    <3>1. s \in Seq(Plain) /\ c \in Seq(Plain)
      BY <1>1, <1>2
    <3> QED BY <3>1, ConcatParts
  <2>2. 1 \in 1..Len(s)
    BY <1>5, <1>6, <2>1
  <2> QED BY <1>2, <1>6, <2>1, <2>2 DEF sc
<1>8. m \in Seq(Plain) /\ Len(m) = (Len(s) + 1) + Len(t) /\ m[1] = 34 /\ Len(t) \in Nat
  <2>1. /\ sc \o t \in Seq(Plain) /\ Len(sc \o t) = Len(sc) + Len(t) /\ Len(t) \in Nat
        /\ \A j \in 1..Len(sc) : (sc \o t)[j] = sc[j]
    <3>1. sc \in Seq(Plain) /\ t \in Seq(Plain)
      BY <1>7
    <3> QED BY <3>1, ConcatParts
  <2>2. 1 \in 1..Len(sc)
    BY <1>7
  <2> QED BY <1>7, <2>1, <2>2 DEF m
<1>9. Len(m) # 0
  BY <1>7, <1>8
<1>10. ASSUME NEW u, NEW p, At(u, p, m) PROVE At(u, p, s) /\ At(u, p + (Len(s) + 1), t)
  <2>1. sc \in Seq(Int)
    BY <1>7, PlainIsInt
  <2>2. At(u, p, sc) /\ At(u, p + Len(sc), t)
    BY <1>4, <1>10, <2>1, AtConcat, Zenon DEF m
  <2>3. At(u, p, s)
    BY <1>4, <2>2, AtConcat, Zenon DEF sc
  <2> QED BY <1>7, <2>2, <2>3
<1>11. m = s \o c \o t
  BY DEF m, sc
<1> QED BY <1>7, <1>8, <1>9, <1>10, <1>11 DEF s, c

\* The members of an object, one for each key, with the text of its value.
LEMMA MemberTexts ==
  ASSUME NEW v, IsObject(v), NEW order \in Sorted(DOMAIN v.object), NEW texts,
         Chosen(v.object, texts),
         \A key \in DOMAIN v.object : appendCanonical[v.object[key]] \subseteq Seq(Plain)
  PROVE  /\ Listable(Members(order, texts)) /\ Members(order, texts) \in Seq(Seq(Plain))
         /\ DOMAIN order = 1..Len(Members(order, texts))
         /\ \A k \in DOMAIN order : Members(order, texts)[k] =
              appendCanonicalString(order[k]) \o <<58>> \o texts[order[k]]
         /\ \A k \in DOMAIN order : order[k] \in DOMAIN v.object
         /\ \A key \in DOMAIN v.object : \E k \in DOMAIN order : order[k] = key
         /\ \A key \in DOMAIN v.object :
              IsText(key) /\ texts[key] \in appendCanonical[v.object[key]] /\ texts[key] \in Seq(Plain)
         /\ v.object = [key \in DOMAIN v.object |-> v.object[key]]
<1> DEFINE keys == DOMAIN v.object
           n == Cardinality(keys)
           ms == Members(order, texts)
<1>1. /\ IsFiniteSet(keys) /\ \A key \in keys : IsText(key)
  BY DEF IsObject, IsMap
<1>2. v.object = [key \in keys |-> v.object[key]]
  BY DEF IsObject, IsMap
<1>3. /\ n \in Nat /\ order \in [1..n -> keys]
      /\ \A key \in keys : \E k \in 1..n : order[k] = key
  <2> HIDE DEF keys
  <2>1. order \in Sorted(keys)
    BY DEF keys
  <2> QED BY <1>1, <2>1, SortedShape, Zenon
<1>4. \A key \in keys : texts[key] \in appendCanonical[v.object[key]] /\ texts[key] \in Seq(Plain)
  BY DEF Chosen
<1>5. DOMAIN order = 1..n /\ \A k \in 1..n : order[k] \in keys
  BY <1>3
<1>6. /\ \A k \in 1..n : ms[k] = appendCanonicalString(order[k]) \o <<58>> \o texts[order[k]]
      /\ ms = [k \in 1..n |-> ms[k]]
  BY <1>5 DEF Members
<1>7. \A k \in 1..n : ms[k] \in Seq(Plain) /\ Len(ms[k]) # 0 /\ ms[k][1] = 34
  <2> HIDE DEF ms, keys, n
  <2> SUFFICES ASSUME NEW k \in 1..n PROVE ms[k] \in Seq(Plain) /\ Len(ms[k]) # 0 /\ ms[k][1] = 34
    OBVIOUS
  <2> DEFINE key == order[k]
             t == texts[key]
             m == appendCanonicalString(key) \o <<58>> \o t
  <2>1. IsText(key) /\ t \in Seq(Plain) /\ ms[k] = m
    BY <1>1, <1>4, <1>5, <1>6
  <2> HIDE DEF key, t
  <2>2. m \in Seq(Plain) /\ Len(m) # 0 /\ m[1] = 34
    BY <2>1, MemberShape, Zenon
  <2> QED BY <2>1, <2>2
<1>8. ms \in Seq(Seq(Plain)) /\ Len(ms) = n
  <2>1. ms \in [1..n -> Seq(Plain)]
    BY <1>6, <1>7
  <2> HIDE DEF ms, n
  <2> QED BY <1>3, <2>1, SegmentIsSeq
<1>9. Listable(ms)
  BY <1>7, <1>8 DEF Listable, Delimiters
<1> QED BY <1>1, <1>2, <1>3, <1>4, <1>5, <1>6, <1>8, <1>9

\* A canonical text has no line break.
LEMMA CanonicalPlain ==
  \A v \in Values : appendCanonical[v] \subseteq Seq(Plain)
<1> DEFINE T == {v \in Values : appendCanonical[v] \subseteq Seq(Plain)}
<1>1. ASSUME NEW list \in Seq(Plain), NEW o \in Plain, NEW e \in Plain
      PROVE  <<o>> \o list \o <<e>> \in Seq(Plain)
  <2> DEFINE x == <<o>>
             y == <<e>>
  <2>1. x \in Seq(Plain) /\ y \in Seq(Plain)
    OBVIOUS
  <2> HIDE DEF x, y
  <2>2. x \o list \in Seq(Plain)
    BY <2>1, ConcatProperties
  <2>3. x \o list \o y \in Seq(Plain)
    BY <2>1, <2>2, ConcatProperties
  <2> QED BY <2>3 DEF x, y
<1>2. 91 \in Plain /\ 93 \in Plain /\ 123 \in Plain /\ 125 \in Plain
  BY SMT DEF Plain, LineBreaks
<1>3. ASSUME NEW v \in Values, Parts(v) \subseteq T PROVE v \in T
  <2> SUFFICES ASSUME NEW t \in appendCanonical[v] PROVE t \in Seq(Plain)
    OBVIOUS
  <2>1. CASE IsLiteral(v)
    <3>1. t \in Literals
      BY <2>1, CanonicalShape DEF IsLiteral
    <3>2. 110 \in Plain /\ 117 \in Plain /\ 108 \in Plain /\ 116 \in Plain /\ 114 \in Plain
          /\ 101 \in Plain /\ 102 \in Plain /\ 97 \in Plain /\ 115 \in Plain
      BY SMT DEF Plain, LineBreaks
    <3>3. <<110, 117, 108, 108>> \in Seq(Plain)
      BY <3>2
    <3>4. <<116, 114, 117, 101>> \in Seq(Plain)
      BY <3>2
    <3>5. <<102, 97, 108, 115, 101>> \in Seq(Plain)
      BY <3>2
    <3>6. t = <<110, 117, 108, 108>> \/ t = <<116, 114, 117, 101>> \/ t = <<102, 97, 108, 115, 101>>
      BY <3>1, Zenon DEF Literals
    <3> QED BY <3>3, <3>4, <3>5, <3>6, Zenon
  <2>2. CASE IsLexeme(v)
    <3>1. t \in Seq(NumberChars)
      BY <2>2, CanonicalShape DEF IsLexeme, IsNumber
    <3>2. NumberChars \subseteq Plain
      BY SMT DEF NumberChars, NumberStart, Plain, LineBreaks
    <3>3. Len(t) \in Nat /\ t \in [1..Len(t) -> NumberChars]
      BY <3>1, LenProperties, SeqDef
    <3>4. t \in [1..Len(t) -> Plain]
      BY <3>2, <3>3
    <3> QED BY <3>3, <3>4, SegmentIsSeq
  <2>3. CASE IsString(v)
    BY <2>3, CanonicalShape, StringShape DEF IsString
  <2>4. CASE IsArray(v)
    <3>1. PICK texts : Chosen(v.array, texts) /\ t = <<91>> \o Commas(texts) \o <<93>>
      BY <2>4, CanonicalShape
    <3>2. \A k \in DOMAIN v.array : appendCanonical[v.array[k]] \subseteq Seq(Plain)
      <4>1. \A k \in DOMAIN v.array : v.array[k] \in Parts(v)
        BY <2>4, SerializedKinds
      <4> QED BY <1>3, <4>1
    <3>3. texts \in Seq(Seq(Plain))
      BY <2>4, <3>1, <3>2, ElementTexts
    <3>4. Commas(texts) \in Seq(Plain)
      BY <3>3, CommasShape
    <3> QED BY <1>1, <1>2, <3>1, <3>4
  <2>5. CASE IsObject(v)
    <3>1. PICK order, texts :
            /\ order \in Sorted(DOMAIN v.object) /\ Chosen(v.object, texts)
            /\ t = <<123>> \o Commas(Members(order, texts)) \o <<125>>
      BY <2>5, CanonicalShape
    <3>2. \A key \in DOMAIN v.object : appendCanonical[v.object[key]] \subseteq Seq(Plain)
      <4>1. \A key \in DOMAIN v.object : v.object[key] \in Parts(v)
        BY <2>5, SerializedKinds
      <4> QED BY <1>3, <4>1
    <3>3. Members(order, texts) \in Seq(Seq(Plain))
      BY <2>5, <3>1, <3>2, MemberTexts
    <3>4. Commas(Members(order, texts)) \in Seq(Plain)
      BY <3>3, CommasShape
    <3> QED BY <1>1, <1>2, <3>1, <3>4
  <2> QED BY <2>1, <2>2, <2>3, <2>4, <2>5, Kinds
<1>4. \A v \in Values : v \in T
  <2> HIDE DEF T
  <2> QED BY <1>3, ValueInduction
<1> QED BY <1>4

\* Elements and members are parts, and values.
LEMMA PartsHeld ==
  ASSUME NEW v \in Values
  PROVE  /\ IsArray(v) => \A k \in DOMAIN v.array :
              v.array[k] \in Parts(v) /\ v.array[k] \in Values
         /\ IsObject(v) => \A key \in DOMAIN v.object :
              v.object[key] \in Parts(v) /\ v.object[key] \in Values
<1>1. IsArray(v) => \A k \in DOMAIN v.array : v.array[k] \in Parts(v)
  BY SerializedKinds
<1>2. IsObject(v) => \A key \in DOMAIN v.object : v.object[key] \in Parts(v)
  BY SerializedKinds
<1> QED BY <1>1, <1>2, PartsAreValues

\* The first character of a text tells the kind of the value.
LEMMA CanonicalLead ==
  ASSUME NEW v \in Values, NEW t \in appendCanonical[v]
  PROVE  /\ t \in Seq(Plain) /\ t \in Seq(Int) /\ Len(t) \in Nat /\ Len(t) # 0
         /\ t[1] \notin Delimiters
         /\ IsLiteral(v) => t[1] \in {110, 116, 102}
         /\ IsLexeme(v) => t[1] \in NumberStart
         /\ IsString(v) => t[1] = 34
         /\ IsArray(v) => t[1] = 91
         /\ IsObject(v) => t[1] = 123
<1>1. t \in Seq(Plain) /\ t \in Seq(Int) /\ Len(t) \in Nat
  BY CanonicalPlain, PlainIsInt
<1>2. ASSUME NEW list \in Seq(Plain), NEW o \in Int, NEW e \in Int, t = <<o>> \o list \o <<e>>
      PROVE  Len(t) # 0 /\ t[1] = o
  <2>1. At(t, 0, t)
    BY <1>1, AtStart
  <2>2. At(t, 0, <<o>> \o list \o <<e>>) /\ list \in Seq(Int) /\ Len(list) \in Nat
    BY <1>2, <2>1, PlainIsInt
  <2>3. t[0 + 1] = o /\ (0 + 1) + Len(list) + 1 <= Len(t)
    BY <2>2, Bracketed
  <2> QED BY <1>1, <2>2, <2>3
<1>3. IsLiteral(v) => Len(t) # 0 /\ t[1] \in {110, 116, 102}
  <2> SUFFICES ASSUME IsLiteral(v) PROVE Len(t) # 0 /\ t[1] \in {110, 116, 102}
    OBVIOUS
  <2>1. t = <<110, 117, 108, 108>> \/ t = <<116, 114, 117, 101>> \/ t = <<102, 97, 108, 115, 101>>
    BY CanonicalShape DEF IsLiteral, Literals
  <2> QED BY <2>1
<1>4. IsLexeme(v) => Len(t) # 0 /\ t[1] \in NumberStart
  <2> SUFFICES ASSUME IsLexeme(v) PROVE Len(t) # 0 /\ t[1] \in NumberStart
    OBVIOUS
  <2>1. t # <<>> /\ t[1] \in NumberStart
    BY CanonicalShape DEF IsLexeme, IsNumber
  <2> QED BY <1>1, <2>1, EmptySeq
<1>5. IsString(v) => Len(t) # 0 /\ t[1] = 34
  <2> SUFFICES ASSUME IsString(v) PROVE Len(t) # 0 /\ t[1] = 34
    OBVIOUS
  <2> DEFINE xs == Escapes(v.string)
             f == FlattenSeq(xs)
  <2>1. xs \in Seq(Seq(Plain)) /\ t = <<34>> \o f \o <<34>>
    BY CanonicalShape, StringShape DEF IsString
  <2>2. f \in Seq(Plain) /\ 34 \in Int
    BY <2>1, FlattenType
  <2> HIDE DEF f
  <2> QED BY <1>2, <2>1, <2>2
<1>6. IsArray(v) => Len(t) # 0 /\ t[1] = 91
  <2> SUFFICES ASSUME IsArray(v) PROVE Len(t) # 0 /\ t[1] = 91
    OBVIOUS
  <2>1. PICK texts : Chosen(v.array, texts) /\ t = <<91>> \o Commas(texts) \o <<93>>
    BY CanonicalShape
  <2>2. \A k \in DOMAIN v.array : appendCanonical[v.array[k]] \subseteq Seq(Plain)
    BY CanonicalPlain, PartsHeld
  <2>3. Commas(texts) \in Seq(Plain)
    BY <2>1, <2>2, ElementTexts, CommasShape
  <2> QED BY <1>2, <2>1, <2>3
<1>7. IsObject(v) => Len(t) # 0 /\ t[1] = 123
  <2> SUFFICES ASSUME IsObject(v) PROVE Len(t) # 0 /\ t[1] = 123
    OBVIOUS
  <2>1. PICK order, texts :
          /\ order \in Sorted(DOMAIN v.object) /\ Chosen(v.object, texts)
          /\ t = <<123>> \o Commas(Members(order, texts)) \o <<125>>
    BY CanonicalShape
  <2>2. \A key \in DOMAIN v.object : appendCanonical[v.object[key]] \subseteq Seq(Plain)
    BY CanonicalPlain, PartsHeld
  <2>3. Commas(Members(order, texts)) \in Seq(Plain)
    BY <2>1, <2>2, MemberTexts, CommasShape
  <2> QED BY <1>2, <2>1, <2>3
<1>8. Len(t) # 0 /\ t[1] \notin Delimiters
  BY <1>3, <1>4, <1>5, <1>6, <1>7, Kinds DEF Delimiters, NumberStart
<1> QED BY <1>1, <1>3, <1>4, <1>5, <1>6, <1>7, <1>8

\* A value has one text.
LEMMA CanonicalOnce ==
  \A v \in Values : \A s, t \in appendCanonical[v] : s = t
<1> DEFINE T == {v \in Values : \A s, t \in appendCanonical[v] : s = t}
<1>1. ASSUME NEW v \in Values, Parts(v) \subseteq T PROVE v \in T
  <2> SUFFICES ASSUME NEW s \in appendCanonical[v], NEW t \in appendCanonical[v] PROVE s = t
    OBVIOUS
  <2>1. CASE IsLiteral(v) \/ IsLexeme(v) \/ IsString(v)
    BY <2>1, CanonicalShape
  <2>2. ASSUME NEW parts, \A k \in DOMAIN parts : parts[k] \in Parts(v),
               NEW x, NEW y, Chosen(parts, x), Chosen(parts, y)
        PROVE  x = y
    <3>1. ASSUME NEW k \in DOMAIN parts PROVE x[k] = y[k]
      <4>1. parts[k] \in T /\ x[k] \in appendCanonical[parts[k]] /\ y[k] \in appendCanonical[parts[k]]
        BY <1>1, <2>2 DEF Chosen
      <4> QED BY <4>1
    <3> QED BY <2>2, <3>1 DEF Chosen
  <2>3. CASE IsArray(v)
    <3>1. PICK x : Chosen(v.array, x) /\ s = <<91>> \o Commas(x) \o <<93>>
      BY <2>3, CanonicalShape
    <3>2. PICK y : Chosen(v.array, y) /\ t = <<91>> \o Commas(y) \o <<93>>
      BY <2>3, CanonicalShape
    <3>3. \A k \in DOMAIN v.array : v.array[k] \in Parts(v)
      BY <2>3, SerializedKinds
    <3>4. x = y
      BY <2>2, <3>1, <3>2, <3>3
    <3> QED BY <3>1, <3>2, <3>4
  <2>4. CASE IsObject(v)
    <3>1. PICK ox, x :
            /\ ox \in Sorted(DOMAIN v.object) /\ Chosen(v.object, x)
            /\ s = <<123>> \o Commas(Members(ox, x)) \o <<125>>
      BY <2>4, CanonicalShape
    <3>2. PICK oy, y :
            /\ oy \in Sorted(DOMAIN v.object) /\ Chosen(v.object, y)
            /\ t = <<123>> \o Commas(Members(oy, y)) \o <<125>>
      BY <2>4, CanonicalShape
    <3>3. \A k \in DOMAIN v.object : v.object[k] \in Parts(v)
      BY <2>4, SerializedKinds
    <3>4. x = y
      BY <2>2, <3>1, <3>2, <3>3
    <3>5. ox = oy
      <4>1. IsFiniteSet(DOMAIN v.object) /\ \A key \in DOMAIN v.object : IsText(key)
        BY <2>4 DEF IsObject, IsMap
      <4> QED BY <3>1, <3>2, <4>1, SortedOnce
    <3> QED BY <3>1, <3>2, <3>4, <3>5
  <2> QED BY <2>1, <2>3, <2>4, Kinds
<1>2. \A v \in Values : v \in T
  <2> HIDE DEF T
  <2> QED BY <1>1, ValueInduction
<1> QED BY <1>2

\* A text that begins where one of v does, both delimited, is one of v alone.
Readable(v) ==
  \A w \in Values : \A s \in appendCanonical[v], t \in appendCanonical[w] : \A u, p :
    /\ At(u, p, s) /\ At(u, p, t)
    /\ Delimited(u, p + Len(s)) /\ Delimited(u, p + Len(t))
    => v = w

\* Readable values with one text are equal.
LEMMA SameText ==
  ASSUME NEW v \in Values, NEW w \in Values, Readable(v),
         NEW t \in appendCanonical[v], t \in appendCanonical[w]
  PROVE  v = w
<1>1. t \in Seq(Int) /\ Len(t) \in Nat
  BY CanonicalLead
<1>2. At(t, 0, t)
  BY <1>1, AtStart
<1>3. Delimited(t, 0 + Len(t))
  BY <1>1 DEF Delimited
<1> QED BY <1>2, <1>3, Zenon DEF Readable

\* A number ends where no character of a number follows.
LEMMA NumberReads ==
  ASSUME NEW s \in Seq(NumberChars), NEW t \in Seq(NumberChars), NEW u, NEW p,
         At(u, p, s), At(u, p, t), Delimited(u, p + Len(s)), Delimited(u, p + Len(t))
  PROVE  s = t
<1>1. Len(s) \in Nat /\ Len(t) \in Nat
  BY LenProperties
<1>2. /\ u \in Seq(Int) /\ Len(u) \in Nat /\ p \in Nat
      /\ p + Len(s) <= Len(u) /\ \A j \in 1..Len(s) : u[p + j] = s[j]
      /\ p + Len(t) <= Len(u) /\ \A j \in 1..Len(t) : u[p + j] = t[j]
  BY LenProperties DEF At
<1>3. Delimiters \cap NumberChars = {}
  BY SMT DEF Delimiters, NumberChars, NumberStart
<1>4. ~(Len(s) < Len(t))
  <2> SUFFICES ASSUME Len(s) < Len(t) PROVE FALSE
    OBVIOUS
  <2>1. Len(s) + 1 \in 1..Len(t) /\ p + (Len(s) + 1) = (p + Len(s)) + 1 /\ p + Len(s) # Len(u)
    BY <1>1, <1>2
  <2>2. u[(p + Len(s)) + 1] \in Delimiters
    BY <2>1 DEF Delimited, Follows
  <2>3. u[(p + Len(s)) + 1] \in NumberChars
    BY <1>2, <2>1, ElementOfSeq
  <2> QED BY <1>3, <2>2, <2>3
<1>5. ~(Len(t) < Len(s))
  <2> SUFFICES ASSUME Len(t) < Len(s) PROVE FALSE
    OBVIOUS
  <2>1. Len(t) + 1 \in 1..Len(s) /\ p + (Len(t) + 1) = (p + Len(t)) + 1 /\ p + Len(t) # Len(u)
    BY <1>1, <1>2
  <2>2. u[(p + Len(t)) + 1] \in Delimiters
    BY <2>1 DEF Delimited, Follows
  <2>3. u[(p + Len(t)) + 1] \in NumberChars
    BY <1>2, <2>1, ElementOfSeq
  <2> QED BY <1>3, <2>2, <2>3
<1>6. Len(s) = Len(t) /\ \A j \in 1..Len(s) : s[j] = t[j]
  BY <1>1, <1>2, <1>4, <1>5
<1> QED BY <1>6, SeqEqual

\* Two arrays whose texts are at one position are equal, if the elements of one
\* can be read back.
LEMMA ArrayReads ==
  ASSUME NEW v \in Values, NEW w \in Values, IsArray(v), IsArray(w),
         \A part \in Parts(v) : Readable(part),
         NEW s \in appendCanonical[v], NEW t \in appendCanonical[w], NEW u, NEW p,
         At(u, p, s), At(u, p, t)
  PROVE  v = w
<1>1. PICK x : Chosen(v.array, x) /\ s = <<91>> \o Commas(x) \o <<93>>
  BY CanonicalShape
<1>2. PICK y : Chosen(w.array, y) /\ t = <<91>> \o Commas(y) \o <<93>>
  BY CanonicalShape
<1>3. /\ \A k \in DOMAIN v.array : v.array[k] \in Values /\ Readable(v.array[k])
      /\ \A k \in DOMAIN w.array : w.array[k] \in Values
  BY PartsHeld
<1>4. /\ x \in Seq(Seq(Plain)) /\ Len(x) = Len(v.array) /\ DOMAIN v.array = 1..Len(x)
      /\ \A k \in 1..Len(x) : x[k] \in appendCanonical[v.array[k]]
  BY <1>1, <1>3, ElementTexts, CanonicalPlain
<1>5. /\ y \in Seq(Seq(Plain)) /\ Len(y) = Len(w.array) /\ DOMAIN w.array = 1..Len(y)
      /\ \A k \in 1..Len(y) : y[k] \in appendCanonical[w.array[k]]
  BY <1>2, <1>3, ElementTexts, CanonicalPlain
<1>6. Listable(x) /\ Listable(y)
  <2>1. ASSUME NEW k \in 1..Len(x) PROVE Len(x[k]) # 0 /\ x[k][1] \notin Delimiters
    <3> DEFINE a == v.array[k]
               b == x[k]
    <3>1. a \in Values /\ b \in appendCanonical[a]
      BY <1>3, <1>4
    <3> HIDE DEF a, b
    <3>2. Len(b) # 0 /\ b[1] \notin Delimiters
      BY <3>1, CanonicalLead
    <3> QED BY <3>2 DEF b
  <2>2. ASSUME NEW k \in 1..Len(y) PROVE Len(y[k]) # 0 /\ y[k][1] \notin Delimiters
    <3> DEFINE a == w.array[k]
               b == y[k]
    <3>1. a \in Values /\ b \in appendCanonical[a]
      BY <1>3, <1>5
    <3> HIDE DEF a, b
    <3>2. Len(b) # 0 /\ b[1] \notin Delimiters
      BY <3>1, CanonicalLead
    <3> QED BY <3>2 DEF b
  <2> QED BY <1>4, <1>5, <2>1, <2>2 DEF Listable
<1>7. Apart(u, x, y)
  <2> SUFFICES ASSUME NEW k, NEW q, k \in 1..Len(x), k \in 1..Len(y), At(u, q, x[k]), At(u, q, y[k]),
                      Delimited(u, q + Len(x[k])), Delimited(u, q + Len(y[k]))
               PROVE  x[k] = y[k]
    BY DEF Apart
  <2> DEFINE a == v.array[k]
             b == w.array[k]
             xk == x[k]
             yk == y[k]
  <2>1. /\ a \in Values /\ b \in Values /\ Readable(a)
        /\ xk \in appendCanonical[a] /\ yk \in appendCanonical[b]
    BY <1>3, <1>4, <1>5
  <2> HIDE DEF a, b, xk, yk
  <2>2. /\ At(u, q, xk) /\ At(u, q, yk)
        /\ Delimited(u, q + Len(xk)) /\ Delimited(u, q + Len(yk))
    BY DEF xk, yk
  <2>3. a = b
    BY <2>1, <2>2, Zenon DEF Readable
  <2>4. xk = yk
    BY <2>1, <2>3, CanonicalOnce, Zenon
  <2> QED BY <2>4 DEF xk, yk
<1>8. x = y
  <2>1. 91 \in Int /\ 93 \in {93, 125}
    OBVIOUS
  <2>2. At(u, p, <<91>> \o Commas(x) \o <<93>>) /\ At(u, p, <<91>> \o Commas(y) \o <<93>>)
    BY <1>1, <1>2
  <2> QED BY <1>6, <1>7, <2>1, <2>2, CommasRead, Zenon
<1>9. ASSUME NEW k \in 1..Len(x) PROVE v.array[k] = w.array[k]
  <2> DEFINE a == v.array[k]
             b == w.array[k]
             xk == x[k]
  <2>1. a \in Values /\ b \in Values /\ Readable(a) /\ xk \in appendCanonical[a] /\ xk \in appendCanonical[b]
    BY <1>3, <1>4, <1>5, <1>8
  <2> HIDE DEF a, b, xk
  <2>2. a = b
    BY <2>1, SameText, Zenon
  <2> QED BY <2>2 DEF a, b
<1>10. v.array = w.array
  <2>1. v.array \in Seq(Values) /\ w.array \in Seq(Values) /\ Len(v.array) = Len(w.array)
    BY <1>4, <1>5, <1>8 DEF IsArray
  <2>2. \A k \in 1..Len(v.array) : v.array[k] = w.array[k]
    BY <1>4, <1>9
  <2> QED BY <2>1, <2>2, SeqEqual
<1> QED BY <1>10 DEF IsArray

\* Two objects whose texts are at one position are equal, if the members of one
\* can be read back: the keys end with their quote, the values where a comma or
\* a bracket follows.
LEMMA ObjectReads ==
  ASSUME NEW v \in Values, NEW w \in Values, IsObject(v), IsObject(w),
         \A part \in Parts(v) : Readable(part),
         NEW s \in appendCanonical[v], NEW t \in appendCanonical[w], NEW u, NEW p,
         At(u, p, s), At(u, p, t)
  PROVE  v = w
<1>1. PICK ox, x :
        /\ ox \in Sorted(DOMAIN v.object) /\ Chosen(v.object, x)
        /\ s = <<123>> \o Commas(Members(ox, x)) \o <<125>>
  BY CanonicalShape
<1>2. PICK oy, y :
        /\ oy \in Sorted(DOMAIN w.object) /\ Chosen(w.object, y)
        /\ t = <<123>> \o Commas(Members(oy, y)) \o <<125>>
  BY CanonicalShape
<1>3. /\ \A key \in DOMAIN v.object : v.object[key] \in Values /\ Readable(v.object[key])
      /\ \A key \in DOMAIN w.object : w.object[key] \in Values
  BY PartsHeld
<1> DEFINE mx == Members(ox, x)
           my == Members(oy, y)
           Text(key, value) == appendCanonicalString(key) \o <<58>> \o value
<1>4. /\ Listable(mx) /\ DOMAIN ox = 1..Len(mx)
      /\ \A k \in DOMAIN ox : mx[k] = Text(ox[k], x[ox[k]]) /\ ox[k] \in DOMAIN v.object
      /\ \A key \in DOMAIN v.object : \E k \in DOMAIN ox : ox[k] = key
      /\ \A key \in DOMAIN v.object :
           IsText(key) /\ x[key] \in appendCanonical[v.object[key]] /\ x[key] \in Seq(Plain)
      /\ v.object = [key \in DOMAIN v.object |-> v.object[key]]
  <2>1. \A key \in DOMAIN v.object : appendCanonical[v.object[key]] \subseteq Seq(Plain)
    BY <1>3, CanonicalPlain
  <2>2. ox \in Sorted(DOMAIN v.object) /\ Chosen(v.object, x)
    BY <1>1
  <2>3. Listable(Members(ox, x)) /\ DOMAIN ox = 1..Len(Members(ox, x))
    BY <2>1, <2>2, MemberTexts, Zenon
  <2>4. \A k \in DOMAIN ox : Members(ox, x)[k] =
          appendCanonicalString(ox[k]) \o <<58>> \o x[ox[k]]
    BY DEF Members
  <2>5. /\ \A k \in DOMAIN ox : ox[k] \in DOMAIN v.object
        /\ \A key \in DOMAIN v.object : \E k \in DOMAIN ox : ox[k] = key
    BY <2>1, <2>2, MemberTexts, Zenon
  <2>6. \A key \in DOMAIN v.object :
          IsText(key) /\ x[key] \in appendCanonical[v.object[key]] /\ x[key] \in Seq(Plain)
    BY <2>1, <2>2, MemberTexts, Zenon
  <2>7. v.object = [key \in DOMAIN v.object |-> v.object[key]]
    BY <2>1, <2>2, MemberTexts, Zenon
  <2> QED BY <2>3, <2>4, <2>5, <2>6, <2>7
<1>5. /\ Listable(my) /\ DOMAIN oy = 1..Len(my)
      /\ \A k \in DOMAIN oy : my[k] = Text(oy[k], y[oy[k]]) /\ oy[k] \in DOMAIN w.object
      /\ \A key \in DOMAIN w.object : \E k \in DOMAIN oy : oy[k] = key
      /\ \A key \in DOMAIN w.object :
           IsText(key) /\ y[key] \in appendCanonical[w.object[key]] /\ y[key] \in Seq(Plain)
      /\ w.object = [key \in DOMAIN w.object |-> w.object[key]]
  <2>1. \A key \in DOMAIN w.object : appendCanonical[w.object[key]] \subseteq Seq(Plain)
    BY <1>3, CanonicalPlain
  <2>2. oy \in Sorted(DOMAIN w.object) /\ Chosen(w.object, y)
    BY <1>2
  <2>3. Listable(Members(oy, y)) /\ DOMAIN oy = 1..Len(Members(oy, y))
    BY <2>1, <2>2, MemberTexts, Zenon
  <2>4. \A k \in DOMAIN oy : Members(oy, y)[k] =
          appendCanonicalString(oy[k]) \o <<58>> \o y[oy[k]]
    BY DEF Members
  <2>5. /\ \A k \in DOMAIN oy : oy[k] \in DOMAIN w.object
        /\ \A key \in DOMAIN w.object : \E k \in DOMAIN oy : oy[k] = key
    BY <2>1, <2>2, MemberTexts, Zenon
  <2>6. \A key \in DOMAIN w.object :
          IsText(key) /\ y[key] \in appendCanonical[w.object[key]] /\ y[key] \in Seq(Plain)
    BY <2>1, <2>2, MemberTexts, Zenon
  <2>7. w.object = [key \in DOMAIN w.object |-> w.object[key]]
    BY <2>1, <2>2, MemberTexts, Zenon
  <2> QED BY <2>3, <2>4, <2>5, <2>6, <2>7
<1> HIDE DEF mx, my
<1>6. ASSUME NEW d, NEW q, NEW k \in DOMAIN ox, k \in DOMAIN oy, At(d, q, mx[k]), At(d, q, my[k]),
             Delimited(d, q + Len(mx[k])), Delimited(d, q + Len(my[k]))
      PROVE  ox[k] = oy[k] /\ v.object[ox[k]] = w.object[oy[k]] /\ mx[k] = my[k]
  <2> DEFINE a == ox[k]
             b == oy[k]
             xa == x[a]
             yb == y[b]
             va == v.object[a]
             wb == w.object[b]
             l == Len(appendCanonicalString(a)) + 1
             m == Len(appendCanonicalString(b)) + 1
  <2>1. /\ IsText(a) /\ va \in Values /\ Readable(va)
        /\ xa \in appendCanonical[va] /\ xa \in Seq(Plain) /\ mx[k] = Text(a, xa)
    BY <1>3, <1>4
  <2>2. /\ IsText(b) /\ wb \in Values
        /\ yb \in appendCanonical[wb] /\ yb \in Seq(Plain) /\ my[k] = Text(b, yb)
    BY <1>3, <1>5, <1>6
  <2> HIDE DEF a, b, xa, yb, va, wb
  <2>3. /\ Len(Text(a, xa)) = l + Len(xa) /\ Len(appendCanonicalString(a)) \in Nat /\ Len(xa) \in Nat
        /\ \A e, i : At(e, i, Text(a, xa)) => At(e, i, appendCanonicalString(a)) /\ At(e, i + l, xa)
    BY <2>1, MemberShape, Zenon
  <2>4. /\ Len(Text(b, yb)) = m + Len(yb) /\ Len(appendCanonicalString(b)) \in Nat /\ Len(yb) \in Nat
        /\ \A e, i : At(e, i, Text(b, yb)) => At(e, i, appendCanonicalString(b)) /\ At(e, i + m, yb)
    BY <2>2, MemberShape, Zenon
  <2>5. /\ At(d, q, Text(a, xa)) /\ Delimited(d, q + Len(Text(a, xa)))
        /\ At(d, q, Text(b, yb)) /\ Delimited(d, q + Len(Text(b, yb)))
    <3> HIDE DEF Text
    <3> QED BY <1>6, <2>1, <2>2
  <2> HIDE DEF Text
  <2>6. /\ At(d, q, appendCanonicalString(a)) /\ At(d, q + l, xa)
        /\ At(d, q, appendCanonicalString(b)) /\ At(d, q + m, yb)
    BY <2>3, <2>4, <2>5, Zenon
  <2>7. a = b
    BY <2>1, <2>2, <2>6, StringReads, Zenon
  <2>8. At(d, q + l, xa) /\ At(d, q + l, yb)
    BY <2>6, <2>7
  <2>9. Delimited(d, (q + l) + Len(xa)) /\ Delimited(d, (q + l) + Len(yb))
    <3>1. q \in Nat
      BY <2>6 DEF At
    <3>2. l \in Nat /\ m = l
      BY <2>3, <2>7
    <3> HIDE DEF l, m
    <3>3. q + (l + Len(xa)) = (q + l) + Len(xa) /\ q + (l + Len(yb)) = (q + l) + Len(yb)
      BY <2>3, <2>4, <3>1, <3>2
    <3>4. Delimited(d, q + (l + Len(xa))) /\ Delimited(d, q + (l + Len(yb)))
      BY <2>3, <2>4, <2>5, <3>2
    <3> QED BY <3>3, <3>4
  <2>10. va = wb
    <3> DEFINE i == q + l
    <3>1. /\ At(d, i, xa) /\ At(d, i, yb)
          /\ Delimited(d, i + Len(xa)) /\ Delimited(d, i + Len(yb))
      BY <2>8, <2>9
    <3>2. /\ va \in Values /\ wb \in Values /\ Readable(va)
          /\ xa \in appendCanonical[va] /\ yb \in appendCanonical[wb]
      BY <2>1, <2>2
    <3> HIDE DEF i
    <3> QED BY <3>1, <3>2, Zenon DEF Readable
  <2>11. xa = yb
    BY <2>1, <2>2, <2>10, CanonicalOnce, Zenon
  <2>12. mx[k] = my[k]
    BY <2>1, <2>2, <2>7, <2>11
  <2> QED BY <2>7, <2>10, <2>12 DEF a, b, va, wb
<1>7. Apart(u, mx, my)
  <2> SUFFICES ASSUME NEW k, NEW q, k \in 1..Len(mx), k \in 1..Len(my), At(u, q, mx[k]), At(u, q, my[k]),
                      Delimited(u, q + Len(mx[k])), Delimited(u, q + Len(my[k]))
               PROVE  mx[k] = my[k]
    BY DEF Apart
  <2>1. k \in DOMAIN ox /\ k \in DOMAIN oy
    BY <1>4, <1>5
  <2> QED BY <1>6, <2>1, Zenon
<1>8. mx = my
  <2>1. 123 \in Int /\ 125 \in {93, 125}
    OBVIOUS
  <2>2. At(u, p, <<123>> \o Commas(mx) \o <<125>>) /\ At(u, p, <<123>> \o Commas(my) \o <<125>>)
    BY <1>1, <1>2 DEF mx, my
  <2>3. Listable(mx) /\ Listable(my)
    BY <1>4, <1>5
  <2> QED BY <1>7, <2>1, <2>2, <2>3, CommasRead, Zenon
<1>9. DOMAIN ox = DOMAIN oy
  BY <1>4, <1>5, <1>8
<1>10. \A k \in DOMAIN ox : ox[k] = oy[k] /\ v.object[ox[k]] = w.object[oy[k]]
  <2> SUFFICES ASSUME NEW k \in DOMAIN ox PROVE ox[k] = oy[k] /\ v.object[ox[k]] = w.object[oy[k]]
    OBVIOUS
  <2> DEFINE e == mx[k]
  <2>1. e \in Seq(Int) /\ Len(e) \in Nat
    <3>1. mx \in Seq(Seq(Plain)) /\ k \in 1..Len(mx)
      BY <1>4 DEF Listable
    <3>2. e \in Seq(Plain)
      BY <3>1, ElementOfSeq
    <3> QED BY <3>2, PlainIsInt
  <2> HIDE DEF e
  <2>2. At(e, 0, e) /\ Delimited(e, 0 + Len(e))
    BY <2>1, AtStart DEF Delimited
  <2>3. /\ At(e, 0, mx[k]) /\ At(e, 0, my[k]) /\ k \in DOMAIN oy
        /\ Delimited(e, 0 + Len(mx[k])) /\ Delimited(e, 0 + Len(my[k]))
    BY <1>8, <1>9, <2>2 DEF e
  <2> QED BY <1>6, <2>3, Zenon
<1>11. v.object = w.object
  <2>1. ASSUME NEW key \in DOMAIN v.object PROVE key \in DOMAIN w.object /\ v.object[key] = w.object[key]
    <3>1. PICK k \in DOMAIN ox : ox[k] = key
      BY <1>4
    <3> QED BY <1>5, <1>9, <1>10, <3>1
  <2>2. ASSUME NEW key \in DOMAIN w.object PROVE key \in DOMAIN v.object
    <3>1. PICK k \in DOMAIN oy : oy[k] = key
      BY <1>5
    <3> QED BY <1>4, <1>9, <1>10, <3>1
  <2>3. DOMAIN v.object = DOMAIN w.object
    BY <2>1, <2>2
  <2> QED BY <1>4, <1>5, <2>1, <2>3
<1> QED BY <1>11 DEF IsObject

\* Every value can be read off any text that begins with one of its texts.
LEMMA AllReadable ==
  \A v \in Values : Readable(v)
<1> DEFINE T == {v \in Values : Readable(v)}
<1>1. ASSUME NEW v \in Values, Parts(v) \subseteq T PROVE v \in T
  <2> SUFFICES ASSUME NEW w \in Values, NEW s \in appendCanonical[v], NEW t \in appendCanonical[w],
                      NEW u, NEW p, At(u, p, s), At(u, p, t),
                      Delimited(u, p + Len(s)), Delimited(u, p + Len(t))
               PROVE  v = w
    BY DEF Readable
  <2>1. \A part \in Parts(v) : Readable(part)
    BY <1>1
  <2>2. /\ Len(s) \in Nat /\ Len(s) # 0 /\ Len(t) \in Nat /\ Len(t) # 0
    BY CanonicalLead
  <2>3. s[1] = t[1]
    <3>1. \A j \in 1..Len(s) : j <= Len(t) => s[j] = t[j]
      BY <2>2, AtBoth
    <3> QED BY <2>2, <3>1
  <2>4. /\ IsLiteral(v) => s[1] \in {110, 116, 102}
        /\ IsLexeme(v) => s[1] \in NumberStart
        /\ IsString(v) => s[1] = 34
        /\ IsArray(v) => s[1] = 91
        /\ IsObject(v) => s[1] = 123
    BY CanonicalLead
  <2>5. /\ IsLiteral(w) => t[1] \in {110, 116, 102}
        /\ IsLexeme(w) => t[1] \in NumberStart
        /\ IsString(w) => t[1] = 34
        /\ IsArray(w) => t[1] = 91
        /\ IsObject(w) => t[1] = 123
    BY CanonicalLead
  <2>6. \/ IsLiteral(v) /\ IsLiteral(w)
        \/ IsLexeme(v) /\ IsLexeme(w)
        \/ IsString(v) /\ IsString(w)
        \/ IsArray(v) /\ IsArray(w)
        \/ IsObject(v) /\ IsObject(w)
    <3> DEFINE c == s[1]
               cl == c \in {110, 116, 102}
               cn == c \in NumberStart
               cs == c = 34
               ca == c = 91
               co == c = 123
    <3>1. /\ IsLiteral(v) \/ IsLexeme(v) \/ IsString(v) \/ IsArray(v) \/ IsObject(v)
          /\ IsLiteral(w) \/ IsLexeme(w) \/ IsString(w) \/ IsArray(w) \/ IsObject(w)
      BY Kinds
    <3>2. /\ IsLiteral(v) => cl
          /\ IsLexeme(v) => cn
          /\ IsString(v) => cs
          /\ IsArray(v) => ca
          /\ IsObject(v) => co
      BY <2>4
    <3>3. /\ IsLiteral(w) => cl
          /\ IsLexeme(w) => cn
          /\ IsString(w) => cs
          /\ IsArray(w) => ca
          /\ IsObject(w) => co
      BY <2>3, <2>5
    <3>4. /\ ~(cl /\ cn) /\ ~(cl /\ cs) /\ ~(cl /\ ca) /\ ~(cl /\ co) /\ ~(cn /\ cs)
          /\ ~(cn /\ ca) /\ ~(cn /\ co) /\ ~(cs /\ ca) /\ ~(cs /\ co) /\ ~(ca /\ co)
      <4> HIDE DEF c
      <4> QED BY SMT DEF NumberStart
    <3> HIDE DEF cl, cn, cs, ca, co
    <3> QED BY <3>1, <3>2, <3>3, <3>4, Zenon
  <2>7. CASE IsLiteral(v) /\ IsLiteral(w)
    <3>1. s = v.literal /\ t = w.literal
      BY <2>7, CanonicalShape
    <3>2. s \in Literals /\ t \in Literals
      BY <2>7, <3>1 DEF IsLiteral
    <3>3. s = t
      BY <2>3, <3>2 DEF Literals
    <3> QED BY <2>7, <3>1, <3>3 DEF IsLiteral
  <2>8. CASE IsLexeme(v) /\ IsLexeme(w)
    <3>1. s = v.number /\ t = w.number
      BY <2>8, CanonicalShape
    <3>2. s \in Seq(NumberChars) /\ t \in Seq(NumberChars)
      BY <2>8, <3>1 DEF IsLexeme, IsNumber
    <3>3. s = t
      BY <3>2, NumberReads
    <3> QED BY <2>8, <3>1, <3>3 DEF IsLexeme
  <2>9. CASE IsString(v) /\ IsString(w)
    <3> DEFINE a == v.string
               b == w.string
    <3>1. s = appendCanonicalString(a) /\ t = appendCanonicalString(b)
      BY <2>9, CanonicalShape
    <3>2. IsText(a) /\ IsText(b)
      BY <2>9 DEF IsString
    <3> HIDE DEF a, b
    <3>3. a = b
      BY <3>1, <3>2, StringReads
    <3> QED BY <2>9, <3>3 DEF IsString, a, b
  <2>10. CASE IsArray(v) /\ IsArray(w)
    BY <2>1, <2>10, ArrayReads, Zenon
  <2>11. CASE IsObject(v) /\ IsObject(w)
    BY <2>1, <2>11, ObjectReads, Zenon
  <2> QED BY <2>6, <2>7, <2>8, <2>9, <2>10, <2>11
<1>2. \A v \in Values : v \in T
  <2> HIDE DEF T
  <2> QED BY <1>1, ValueInduction
<1> QED BY <1>2

-----------------------------------------------------------------------------
\* Each text, once written, is one the value may be written as.
DigestInv ==
  /\ first \in Values /\ second \in Values
  /\ firstText = <<>> \/ firstText \in appendCanonical[first]
  /\ secondText = <<>> \/ secondText \in appendCanonical[second]

\* CanonicalDigest leaves the texts of its values, and nothing else.
LEMMA DigestInvariant ==
  DigestSpec => []DigestInv
<1>1. DigestInit => DigestInv
  BY DEF DigestInit, DigestInv
<1>2. DigestInv /\ [DigestNext]_digestVars => DigestInv'
  <2> SUFFICES ASSUME DigestInv, [DigestNext]_digestVars PROVE DigestInv'
    OBVIOUS
  <2>1. CASE DigestFirst
    BY <2>1 DEF DigestInv, DigestFirst
  <2>2. CASE DigestSecond
    BY <2>2 DEF DigestInv, DigestSecond
  <2>3. CASE UNCHANGED digestVars
    BY <2>3 DEF DigestInv, digestVars
  <2> QED BY <2>1, <2>2, <2>3 DEF DigestNext
<1> QED BY <1>1, <1>2, PTL DEF DigestSpec

\* canonical.go's digest tells a duplicate from a conflict, whatever the values:
\* one value has one text however its maps are walked, and two values never
\* have the same one.
THEOREM DigestIsDecisive ==
  DigestSpec => []DigestDecides
<1>1. DigestInv => DigestDecides
  <2> SUFFICES ASSUME DigestInv, firstText # <<>>, secondText # <<>>
               PROVE  firstText = secondText <=> first = second
    BY DEF DigestDecides
  <2>1. /\ first \in Values /\ second \in Values
        /\ firstText \in appendCanonical[first] /\ secondText \in appendCanonical[second]
    BY DEF DigestInv
  <2>2. ASSUME first = second PROVE firstText = secondText
    BY <2>1, <2>2, CanonicalOnce, Zenon
  <2>3. ASSUME firstText = secondText PROVE first = second
    <3>1. Readable(first) /\ firstText \in appendCanonical[second]
      BY <2>1, <2>3, AllReadable
    <3> QED BY <2>1, <3>1, SameText, Zenon
  <2> QED BY <2>2, <2>3
<1> QED BY <1>1, DigestInvariant, PTL

\* Whatever a payload holds, appendCanonical writes it on one line, so that
\* spool.Writer.Append does not refuse it.
THEOREM CanonicalOneLine ==
  DigestSpec => []OneLine
<1>1. DigestInv => OneLine
  <2> SUFFICES ASSUME DigestInv PROVE OneLine
    OBVIOUS
  <2>1. CASE firstText = <<>>
    BY <2>1 DEF OneLine
  <2>2. CASE firstText \in appendCanonical[first]
    <3>1. firstText \in Seq(Plain)
      BY <2>2, CanonicalPlain DEF DigestInv
    <3>2. \A k \in DOMAIN firstText : firstText[k] \in Plain
      BY <3>1, PlainIsInt, ElementOfSeq
    <3> QED BY <3>2 DEF OneLine, Plain
  <2> QED BY <2>1, <2>2 DEF DigestInv
<1> QED BY <1>1, DigestInvariant, PTL

\* compareUTF16 sorts the members of any object as their whole UTF-16 encodings
\* would be, surrogate halves and all.
THEOREM MembersInOrder ==
  DigestSpec => []KeyOrder
<1>1. DigestInv => KeyOrder
  <2> SUFFICES ASSUME DigestInv, "object" \in DOMAIN first,
                      NEW a \in DOMAIN first.object, NEW b \in DOMAIN first.object
               PROVE  compareUTF16(a, b) = Compare(EncodeAll(a), EncodeAll(b))
    BY DEF KeyOrder
  <2>1. IsObject(first)
    BY Kinds DEF DigestInv, IsLiteral, IsLexeme, IsString, IsArray
  <2>2. IsText(a) /\ IsText(b)
    BY <2>1 DEF IsObject, IsMap
  <2> QED BY <2>2, EncodedOrder
<1> QED BY <1>1, DigestInvariant, PTL
=============================================================================
