--------------------------- MODULE SequenceLemmas ---------------------------
(***************************************************************************)
(* Facts about natural numbers and sequences that the proofs of several    *)
(* components rest on.  Induction is over a set of numbers instead of a    *)
(* predicate, which is the form the provers can apply.                     *)
(***************************************************************************)
EXTENDS Integers, Sequences, SequencesExt, SequenceTheorems, WellFoundedInduction, TLAPS

-----------------------------------------------------------------------------
(* Induction *)

\* A non-empty set of naturals has a least element.
LEMMA LeastNatural ==
  ASSUME NEW T \in SUBSET Nat, T # {}
  PROVE  \E x \in T : \A y \in T : x <= y
<1>1. \E x \in T : \A y \in T : <<y, x>> \notin OpToRel(<, Nat)
  BY NatLessThanWellFounded, WFMin, Zenon
<1>2. PICK x \in T : \A y \in T : <<y, x>> \notin OpToRel(<, Nat)
  BY <1>1
<1>3. ASSUME NEW y \in T PROVE x <= y
  <2>1. <<y, x>> \notin OpToRel(<, Nat)
    BY <1>2
  <2>2. ~(y < x)
    BY <2>1 DEF OpToRel
  <2>3. x \in Nat /\ y \in Nat
    OBVIOUS
  <2> QED BY <2>2, <2>3
<1> QED BY <1>2, <1>3

\* Induction up to n: what holds of 1, and of a number's successor if of the
\* number, holds of all of 1..n.
LEMMA IntervalInduction ==
  ASSUME NEW n \in Nat, NEW T, n > 0 => 1 \in T,
         \A k \in 1..(n - 1) : k \in T => k + 1 \in T
  PROVE  \A k \in 1..n : k \in T
<1> DEFINE Missing == {k \in 1..n : k \notin T}
<1> SUFFICES ASSUME Missing # {} PROVE FALSE
  OBVIOUS
<1>1. Missing \in SUBSET Nat
  OBVIOUS
<1>2. PICK x \in Missing : \A y \in Missing : x <= y
  <2> HIDE DEF Missing
  <2> QED BY <1>1, LeastNatural
<1>3. x \in 1..n /\ x \notin T /\ x # 1
  OBVIOUS
<1>4. x - 1 \in 1..(n - 1) /\ (x - 1) + 1 = x /\ x - 1 \in 1..n /\ ~(x <= x - 1)
  BY <1>3
<1>5. x - 1 \in T
  BY <1>2, <1>4
<1> QED BY <1>3, <1>4, <1>5

\* What to do at each position of 2..n, and the functions along 1..n that begin
\* with first and do it.
Steps(St, n) == [2..n -> [St -> St]]
Chain(f, St, n, first, step) ==
  /\ f \in [1..n -> St] /\ f[1] = first
  /\ \A k \in 2..n : f[k] = step[k][f[k - 1]]

\* A function defined step by step along 1..n exists.
LEMMA ChainExists ==
  ASSUME NEW n \in Nat \ {0}, NEW St, NEW first \in St, NEW step \in Steps(St, n)
  PROVE  \E f : Chain(f, St, n, first, step)
<1> DEFINE Done == {m \in 1..n : \E f : Chain(f, St, m, first, step)}
<1>1. 1 \in Done
  <2>1. Chain([k \in 1..1 |-> first], St, 1, first, step)
    BY DEF Chain
  <2>2. 1 \in 1..n
    OBVIOUS
  <2> QED BY <2>1, <2>2
<1>2. ASSUME NEW m \in 1..(n - 1), m \in Done PROVE m + 1 \in Done
  <2>1. PICK f : Chain(f, St, m, first, step)
    BY <1>2
  <2>2. f \in [1..m -> St] /\ f[1] = first /\ f[m] \in St /\ m + 1 \in 2..n
        /\ \A k \in 2..m : f[k] = step[k][f[k - 1]]
    BY <2>1 DEF Chain
  <2> DEFINE g == [k \in 1..(m + 1) |->
                     IF k = m + 1 THEN step[m + 1][f[m]] ELSE f[k]]
  <2>3. step[m + 1][f[m]] \in St
    BY <2>2 DEF Steps
  <2>4. g \in [1..(m + 1) -> St] /\ g[1] = first
    BY <2>2, <2>3
  <2>5. ASSUME NEW k \in 2..(m + 1) PROVE g[k] = step[k][g[k - 1]]
    <3>1. CASE k = m + 1
      <4>1. g[k] = step[m + 1][f[m]] /\ g[k - 1] = f[m]
        BY <3>1
      <4> HIDE DEF g
      <4> QED BY <3>1, <4>1
    <3>2. CASE k # m + 1
      <4>1. k \in 2..m /\ g[k] = f[k] /\ g[k - 1] = f[k - 1]
        BY <3>2
      <4> HIDE DEF g
      <4> QED BY <2>2, <4>1
    <3> QED BY <3>1, <3>2
  <2> HIDE DEF g
  <2>6. Chain(g, St, m + 1, first, step)
    BY <2>4, <2>5 DEF Chain
  <2>7. m + 1 \in 1..n
    OBVIOUS
  <2> QED BY <2>6, <2>7
<1>3. \A k \in 1..n : k \in Done
  <2> HIDE DEF Done
  <2> QED BY <1>1, <1>2, IntervalInduction
<1>4. n \in Done
  <2>1. n \in 1..n
    OBVIOUS
  <2> HIDE DEF Done
  <2> QED BY <1>3, <2>1
<1> QED BY <1>4

\* The values of any function that follows the steps are of the type.
LEMMA ChainType ==
  ASSUME NEW n \in Nat, NEW St, NEW g, n > 0 => g[1] \in St,
         \A k \in 2..n : g[k - 1] \in St => g[k] \in St
  PROVE  \A k \in 1..n : g[k] \in St
<1> DEFINE Good == {k \in 1..n : g[k] \in St}
<1>1. n > 0 => 1 \in Good
  OBVIOUS
<1>2. ASSUME NEW k \in 1..(n - 1), k \in Good PROVE k + 1 \in Good
  <2>1. k + 1 \in 2..n /\ (k + 1) - 1 = k
    OBVIOUS
  <2> QED BY <1>2, <2>1
<1>3. \A k \in 1..n : k \in Good
  <2> HIDE DEF Good
  <2> QED BY <1>1, <1>2, IntervalInduction
<1> QED BY <1>3

-----------------------------------------------------------------------------
(* Sequences *)

\* A function on an initial segment of the positions is a sequence.
LEMMA SegmentIsSeq ==
  ASSUME NEW S, NEW n \in Nat, NEW f \in [1..n -> S]
  PROVE  f \in Seq(S) /\ Len(f) = n
<1>1. f \in Seq(S)
  BY SeqDef
<1>2. DOMAIN f = 1..Len(f) /\ Len(f) \in Nat /\ DOMAIN f = 1..n
  BY <1>1, LenProperties
<1> QED BY <1>1, <1>2

\* A sequence of one element.
LEMMA SingletonIsSeq ==
  ASSUME NEW S, NEW x \in S
  PROVE  <<x>> \in Seq(S) /\ Len(<<x>>) = 1 /\ <<x>>[1] = x
OBVIOUS

\* The last occurrence of an element, 0 where there is none.
LEMMA LastOccurrence ==
  ASSUME NEW S, NEW c \in Seq(S), NEW e
  PROVE  \E n \in 0..Len(c) :
           (n = 0 \/ c[n] = e) /\ \A i \in (n + 1)..Len(c) : c[i] # e
<1> DEFINE Ends == {n \in 0..Len(c) : n = 0 \/ c[n] = e}
           Tails == {Len(c) - n : n \in Ends}
<1>1. Len(c) \in Nat
  BY LenProperties
<1>2. Tails \in SUBSET Nat /\ Tails # {}
  <2>1. 0 \in Ends
    BY <1>1
  <2> QED BY <1>1, <2>1
<1>3. PICK t \in Tails : \A u \in Tails : t <= u
  <2> HIDE DEF Tails
  <2> QED BY <1>2, LeastNatural
<1>4. PICK n \in Ends : t = Len(c) - n
  BY <1>3
<1>5. \A i \in (n + 1)..Len(c) : c[i] # e
  <2> SUFFICES ASSUME NEW i \in (n + 1)..Len(c), c[i] = e
               PROVE  FALSE
    OBVIOUS
  <2>1. i \in Ends
    BY <1>1, <1>4
  <2>2. Len(c) - n <= Len(c) - i
    BY <1>3, <1>4, <2>1
  <2> QED BY <1>1, <1>4, <2>2
<1> QED BY <1>4, <1>5

\* A prefix of a sequence.
LEMMA PrefixIsSeq ==
  ASSUME NEW S, NEW c \in Seq(S), NEW n \in 0..Len(c)
  PROVE  /\ SubSeq(c, 1, n) \in Seq(S)
         /\ Len(SubSeq(c, 1, n)) = n
         /\ \A i \in 1..n : SubSeq(c, 1, n)[i] = c[i]
<1>1. Len(c) \in Nat /\ \A i \in 1..n : c[i] \in S
  BY LenProperties, ElementOfSeq
<1> QED BY <1>1, SubSeqProperties

-----------------------------------------------------------------------------
(* FlattenSeq *)

\* FlattenSeq appends one sequence after the other.
LEMMA FlattenSteps ==
  ASSUME NEW S, NEW ss \in Seq(Seq(S)), Len(ss) # 0
  PROVE  \E f \in [1..Len(ss) -> Seq(S)] :
           /\ f[1] = ss[1]
           /\ \A k \in 2..Len(ss) : f[k] = f[k - 1] \o ss[k]
           /\ FlattenSeq(ss) = f[Len(ss)]
<1> DEFINE n == Len(ss)
           step == [k \in 2..n |-> [s \in Seq(S) |-> s \o ss[k]]]
<1>1. n \in Nat \ {0} /\ \A k \in 1..n : ss[k] \in Seq(S)
  BY LenProperties, ElementOfSeq
<1>2. step \in [2..n -> [Seq(S) -> Seq(S)]]
  <2>1. ASSUME NEW s \in Seq(S), NEW k \in 2..n PROVE s \o ss[k] \in Seq(S)
    <3>1. ss[k] \in Seq(S)
      BY <1>1
    <3> QED BY <3>1, ConcatProperties
  <2> QED BY <2>1
<1>3. ss[1] \in Seq(S)
  BY <1>1
<1> DEFINE Def(g) == [i \in 1..n |-> IF i = 1 THEN ss[i] ELSE g[i - 1] \o ss[i]]
           flatten == CHOOSE g : g = Def(g)
<1>4. \E g : g = Def(g)
  <2>1. PICK f : Chain(f, Seq(S), n, ss[1], step)
    <3>1. n \in Nat \ {0} /\ ss[1] \in Seq(S) /\ step \in Steps(Seq(S), n)
      BY <1>1, <1>2, <1>3 DEF Steps
    <3> HIDE DEF n, step
    <3> QED BY <3>1, ChainExists, Zenon
  <2>2. /\ f \in [1..n -> Seq(S)] /\ f[1] = ss[1]
        /\ \A k \in 2..n : f[k] = step[k][f[k - 1]]
    BY <2>1 DEF Chain
  <2>3. ASSUME NEW k \in 2..n PROVE f[k] = f[k - 1] \o ss[k]
    <3>1. k - 1 \in 1..n
      BY <1>1
    <3>2. f[k - 1] \in Seq(S)
      BY <2>2, <3>1
    <3> QED BY <2>2, <3>2
  <2>4. ASSUME NEW k \in 1..n
        PROVE  f[k] = IF k = 1 THEN ss[k] ELSE f[k - 1] \o ss[k]
    <3>1. k # 1 => k \in 2..n
      BY <1>1
    <3> QED BY <2>2, <2>3, <3>1
  <2>5. f = Def(f)
    BY <2>2, <2>4
  <2> QED BY <2>5
<1>5. flatten = Def(flatten)
  <2> HIDE DEF Def
  <2> QED BY <1>4
<1> HIDE DEF flatten
<1>6. \A i \in 1..n : flatten[i] = IF i = 1 THEN ss[i] ELSE flatten[i - 1] \o ss[i]
  BY <1>5
<1>7. /\ flatten[1] = ss[1]
      /\ \A k \in 2..n : flatten[k] = flatten[k - 1] \o ss[k]
  <2>1. 1 \in 1..n /\ \A k \in 2..n : k \in 1..n /\ k # 1
    BY <1>1
  <2> QED BY <1>6, <2>1
<1>8. ASSUME NEW k \in 2..n, flatten[k - 1] \in Seq(S) PROVE flatten[k] \in Seq(S)
  <2>1. ss[k] \in Seq(S)
    BY <1>1
  <2> QED BY <1>7, <1>8, <2>1, ConcatProperties
<1>9. \A k \in 1..n : flatten[k] \in Seq(S)
  <2> HIDE DEF n
  <2> QED BY <1>1, <1>3, <1>7, <1>8, ChainType
<1>10. flatten \in [1..n -> Seq(S)]
  BY <1>5, <1>9
<1>11. FlattenSeq(ss) = flatten[n]
  BY <1>1 DEF FlattenSeq, flatten
<1> QED BY <1>7, <1>10, <1>11

\* Its elements are those of the sequences.
LEMMA FlattenType ==
  ASSUME NEW S, NEW ss \in Seq(Seq(S))
  PROVE  FlattenSeq(ss) \in Seq(S)
<1>1. CASE Len(ss) = 0
  <2>1. ss = <<>>
    BY <1>1, EmptySeq
  <2> QED BY <1>1, <2>1, EmptySeq DEF FlattenSeq
<1>2. CASE Len(ss) # 0
  <2>1. Len(ss) \in 1..Len(ss)
    BY <1>2, LenProperties
  <2>2. PICK f \in [1..Len(ss) -> Seq(S)] : FlattenSeq(ss) = f[Len(ss)]
    BY <1>2, FlattenSteps, Zenon
  <2> QED BY <2>1, <2>2
<1> QED BY <1>1, <1>2

\* Two sequences, one behind the other.
LEMMA ConcatParts ==
  ASSUME NEW S, NEW s \in Seq(S), NEW t \in Seq(S)
  PROVE  /\ s \o t \in Seq(S) /\ Len(s) \in Nat /\ Len(t) \in Nat
         /\ Len(s \o t) = Len(s) + Len(t)
         /\ \A j \in 1..Len(s) : (s \o t)[j] = s[j]
         /\ \A j \in 1..Len(t) : (s \o t)[Len(s) + j] = t[j]
<1> DEFINE m == Len(s)
           n == Len(t)
           c == s \o t
<1>1. m \in Nat /\ n \in Nat
  BY LenProperties
<1>2. /\ c \in Seq(S) /\ Len(c) = m + n
      /\ \A k \in 1..(m + n) : c[k] = IF k <= m THEN s[k] ELSE t[k - m]
  BY ConcatProperties, Zenon
<1> HIDE DEF m, n, c
<1>3. \A j \in 1..m : c[j] = s[j]
  BY <1>1, <1>2
<1>4. ASSUME NEW j \in 1..n PROVE c[m + j] = t[j]
  <2>1. m + j \in 1..(m + n) /\ ~(m + j <= m) /\ (m + j) - m = j
    BY <1>1
  <2> QED BY <1>2, <2>1
<1> QED BY <1>1, <1>2, <1>3, <1>4 DEF m, n, c

\* off[k] is the length of the first k - 1 sequences together.
Offsets(ss, off) ==
  /\ off \in [1..(Len(ss) + 1) -> Nat] /\ off[1] = 0
  /\ \A k \in 1..Len(ss) : off[k + 1] = off[k] + Len(ss[k])

\* Each sequence is at its offset.
Laid(ss, off) ==
  /\ Offsets(ss, off) /\ Len(FlattenSeq(ss)) = off[Len(ss) + 1]
  /\ \A k \in 1..Len(ss) : \A j \in 1..Len(ss[k]) :
       /\ off[k] + j \in 1..Len(FlattenSeq(ss))
       /\ FlattenSeq(ss)[off[k] + j] = ss[k][j]

LEMMA FlattenOffsets ==
  ASSUME NEW S, NEW ss \in Seq(Seq(S))
  PROVE  \E off : Laid(ss, off)
<1> DEFINE n == Len(ss)
<1>1. n \in Nat /\ \A k \in 1..n : ss[k] \in Seq(S) /\ Len(ss[k]) \in Nat
  BY LenProperties, ElementOfSeq
<1>2. CASE n = 0
  <2>1. FlattenSeq(ss) = ss
    BY <1>2 DEF FlattenSeq
  <2>2. Laid(ss, [k \in 1..1 |-> 0])
    BY <1>2, <2>1 DEF Laid, Offsets
  <2> QED BY <2>2
<1>3. CASE n # 0
  <2>1. PICK f \in [1..n -> Seq(S)] :
          /\ f[1] = ss[1] /\ \A k \in 2..n : f[k] = f[k - 1] \o ss[k]
          /\ FlattenSeq(ss) = f[n]
    BY <1>3, FlattenSteps
  <2> DEFINE off == [k \in 1..(n + 1) |-> IF k = 1 THEN 0 ELSE Len(f[k - 1])]
  <2>2. \A k \in 1..n : f[k] \in Seq(S) /\ Len(f[k]) \in Nat
    BY <2>1, LenProperties
  <2>3. off \in [1..(n + 1) -> Nat] /\ off[1] = 0
    <3>1. \A k \in 1..(n + 1) : k # 1 => k - 1 \in 1..n
      BY <1>1
    <3> QED BY <1>1, <2>2, <3>1
  <2>4. \A k \in 1..n : off[k + 1] = Len(f[k])
    BY <1>1
  <2>5. ASSUME NEW k \in 2..n
        PROVE  /\ Len(f[k]) = Len(f[k - 1]) + Len(ss[k])
               /\ \A j \in 1..Len(f[k - 1]) : f[k][j] = f[k - 1][j]
               /\ \A j \in 1..Len(ss[k]) : f[k][Len(f[k - 1]) + j] = ss[k][j]
    <3>1. k - 1 \in 1..n /\ k \in 1..n
      BY <1>1
    <3>2. f[k - 1] \in Seq(S) /\ ss[k] \in Seq(S) /\ f[k] = f[k - 1] \o ss[k]
      BY <1>1, <2>1, <3>1
    <3> DEFINE s == f[k - 1]
               t == ss[k]
    <3> HIDE DEF s, t
    <3>3. s \in Seq(S) /\ t \in Seq(S) /\ f[k] = s \o t
      BY <3>2 DEF s, t
    <3>4. /\ Len(s \o t) = Len(s) + Len(t)
          /\ \A j \in 1..Len(s) : (s \o t)[j] = s[j]
          /\ \A j \in 1..Len(t) : (s \o t)[Len(s) + j] = t[j]
      BY <3>3, ConcatParts
    <3>5. /\ Len(f[k]) = Len(s) + Len(t)
          /\ \A j \in 1..Len(s) : f[k][j] = s[j]
          /\ \A j \in 1..Len(t) : f[k][Len(s) + j] = t[j]
      BY <3>3, <3>4, Zenon
    <3> QED BY <3>5, Zenon DEF s, t
  <2>6. ASSUME NEW k \in 1..n PROVE off[k + 1] = off[k] + Len(ss[k])
    <3>1. CASE k = 1
      BY <1>1, <2>1, <2>3, <2>4, <3>1
    <3>2. CASE k # 1
      <4>1. k \in 2..n /\ k - 1 \in 1..n /\ (k - 1) + 1 = k
        BY <1>1, <3>2
      <4>2. off[k] = Len(f[k - 1])
        BY <2>4, <4>1
      <4> HIDE DEF off
      <4> QED BY <2>4, <2>5, <4>1, <4>2
    <3> QED BY <3>1, <3>2
  <2> HIDE DEF off
  <2> DEFINE Placed == {m \in 1..n : \A k \in 1..m : \A j \in 1..Len(ss[k]) :
                          off[k] + j \in 1..Len(f[m]) /\ f[m][off[k] + j] = ss[k][j]}
  <2>7. 1 \in Placed
    BY <1>1, <1>3, <2>1, <2>3
  <2>8. ASSUME NEW m \in 1..(n - 1), m \in Placed PROVE m + 1 \in Placed
    <3>1. m + 1 \in 2..n /\ m \in 1..n /\ (m + 1) - 1 = m /\ m + 1 \in 1..n
      BY <1>1
    <3>2. /\ Len(f[m + 1]) = Len(f[m]) + Len(ss[m + 1])
          /\ \A j \in 1..Len(f[m]) : f[m + 1][j] = f[m][j]
          /\ \A j \in 1..Len(ss[m + 1]) : f[m + 1][Len(f[m]) + j] = ss[m + 1][j]
      <4>1. /\ Len(f[m + 1]) = Len(f[(m + 1) - 1]) + Len(ss[m + 1])
            /\ \A j \in 1..Len(f[(m + 1) - 1]) : f[m + 1][j] = f[(m + 1) - 1][j]
            /\ \A j \in 1..Len(ss[m + 1]) : f[m + 1][Len(f[(m + 1) - 1]) + j] = ss[m + 1][j]
        BY <2>5, <3>1, Zenon
      <4> QED BY <3>1, <4>1, Zenon
    <3>3. off[m + 1] = Len(f[m]) /\ Len(f[m]) \in Nat /\ Len(ss[m + 1]) \in Nat
      BY <1>1, <2>2, <2>4, <3>1
    <3>4. ASSUME NEW k \in 1..(m + 1), NEW j \in 1..Len(ss[k])
          PROVE  off[k] + j \in 1..Len(f[m + 1]) /\ f[m + 1][off[k] + j] = ss[k][j]
      <4> DEFINE old == Len(f[m])
                 more == Len(ss[m + 1])
                 new == Len(f[m + 1])
      <4>1. old \in Nat /\ more \in Nat /\ new = old + more /\ off[m + 1] = old
        BY <3>2, <3>3, Zenon
      <4>2. CASE k = m + 1
        <5>1. j \in 1..more /\ off[k] = old /\ f[m + 1][old + j] = ss[m + 1][j]
          BY <3>2, <4>1, <4>2
        <5> HIDE DEF old, more, new
        <5>2. old + j \in 1..new
          BY <4>1, <5>1
        <5> QED BY <4>2, <5>1, <5>2, Zenon DEF new
      <4>3. CASE k # m + 1
        <5>1. k \in 1..m
          BY <3>1, <4>3
        <5>2. off[k] + j \in 1..old /\ f[m][off[k] + j] = ss[k][j]
          BY <2>8, <5>1
        <5>3. f[m + 1][off[k] + j] = f[m][off[k] + j]
          BY <3>2, <5>2, Zenon
        <5> HIDE DEF old, more, new
        <5>4. off[k] + j \in 1..new
          BY <4>1, <5>2
        <5> QED BY <5>2, <5>3, <5>4, Zenon DEF new
      <4> QED BY <4>2, <4>3
    <3> QED BY <3>1, <3>4
  <2>9. n \in Placed
    <3> HIDE DEF Placed, n
    <3>1. \A k \in 1..n : k \in Placed
      BY <1>1, <2>7, <2>8, IntervalInduction
    <3> QED BY <1>1, <1>3, <3>1
  <2>10. off[n + 1] = Len(f[n])
    BY <1>1, <1>3, <2>4
  <2>11. Offsets(ss, off)
    BY <2>3, <2>6 DEF Offsets
  <2>12. \A k \in 1..n : \A j \in 1..Len(ss[k]) :
           off[k] + j \in 1..Len(f[n]) /\ f[n][off[k] + j] = ss[k][j]
    BY <2>9
  <2>13. Laid(ss, off)
    BY <2>1, <2>10, <2>11, <2>12 DEF Laid
  <2> QED BY <2>13
<1> QED BY <1>2, <1>3

\* Offsets are numbers that grow, by one at least where no sequence is empty.
LEMMA OffsetsGrow ==
  ASSUME NEW S, NEW ss \in Seq(Seq(S)), NEW off, Offsets(ss, off)
  PROVE  /\ Len(ss) \in Nat
         /\ \A k \in 1..(Len(ss) + 1) : off[k] \in Nat
         /\ \A k \in 1..Len(ss) : ss[k] \in Seq(S) /\ Len(ss[k]) \in Nat
         /\ (\A k \in 1..Len(ss) : Len(ss[k]) # 0) =>
              \A m \in 1..(Len(ss) + 1) : \A k \in 1..m : off[k] + (m - k) <= off[m]
<1> DEFINE n == Len(ss)
<1>1. /\ n \in Nat /\ \A k \in 1..n : ss[k] \in Seq(S) /\ Len(ss[k]) \in Nat
  BY LenProperties, ElementOfSeq
<1>2. /\ \A k \in 1..(n + 1) : off[k] \in Nat
      /\ \A k \in 1..n : off[k + 1] = off[k] + Len(ss[k])
  BY DEF Offsets
<1>3. ASSUME \A k \in 1..n : Len(ss[k]) # 0
      PROVE  \A m \in 1..(n + 1) : \A k \in 1..m : off[k] + (m - k) <= off[m]
  <2> DEFINE Good == {m \in 1..(n + 1) : \A k \in 1..m : off[k] + (m - k) <= off[m]}
  <2>1. 1 \in Good
    BY <1>1, <1>2
  <2>2. ASSUME NEW m \in 1..((n + 1) - 1), m \in Good PROVE m + 1 \in Good
    <3>1. m \in 1..n /\ m \in 1..(n + 1) /\ m + 1 \in 1..(n + 1)
      BY <1>1
    <3>2. off[m + 1] \in Nat /\ off[m] \in Nat /\ off[m] + 1 <= off[m + 1]
      BY <1>1, <1>2, <1>3, <3>1
    <3>3. ASSUME NEW k \in 1..(m + 1) PROVE off[k] + ((m + 1) - k) <= off[m + 1]
      <4>1. CASE k = m + 1
        BY <3>2, <4>1
      <4>2. CASE k # m + 1
        <5>1. k \in 1..m /\ k \in 1..(n + 1)
          BY <1>1, <3>1, <4>2
        <5>2. off[k] + (m - k) <= off[m] /\ off[k] \in Nat
          BY <1>2, <2>2, <5>1
        <5> QED BY <3>1, <3>2, <5>1, <5>2
      <4> QED BY <4>1, <4>2
    <3> QED BY <3>1, <3>3
  <2>3. n + 1 \in Nat
    BY <1>1
  <2> HIDE DEF Good, n
  <2>4. \A m \in 1..(n + 1) : m \in Good
    BY <2>1, <2>2, <2>3, IntervalInduction
  <2> QED BY <2>4 DEF Good
<1> QED BY <1>1, <1>2, <1>3

\* The first n sequences are the same.
SameUpTo(xs, ys, n) ==
  n \in Nat /\ n <= Len(xs) /\ n <= Len(ys) /\ \A k \in 1..n : xs[k] = ys[k]

SameLaid(xs, ys, ox, oy, n) ==
  /\ \A k \in 1..(n + 1) : ox[k] = oy[k]
  /\ \A m \in 1..ox[n + 1] : FlattenSeq(xs)[m] = FlattenSeq(ys)[m]

\* Then what they are laid to is the same.
LEMMA SamePrefix ==
  ASSUME NEW S, NEW xs \in Seq(Seq(S)), NEW ys \in Seq(Seq(S)), NEW ox, NEW oy,
         Laid(xs, ox), Laid(ys, oy), NEW n, SameUpTo(xs, ys, n)
  PROVE  SameLaid(xs, ys, ox, oy, n)
<1> USE DEF SameUpTo
<1> DEFINE fx == FlattenSeq(xs)
           fy == FlattenSeq(ys)
           Good == {k \in 1..(n + 1) : ox[k] = oy[k] /\ \A m \in 1..ox[k] : fx[m] = fy[m]}
<1>1. /\ Len(xs) \in Nat /\ \A k \in 1..(Len(xs) + 1) : ox[k] \in Nat
      /\ \A k \in 1..Len(xs) : Len(xs[k]) \in Nat /\ ox[k + 1] = ox[k] + Len(xs[k])
      /\ ox[1] = 0
  BY OffsetsGrow DEF Laid, Offsets
<1>2. /\ Len(ys) \in Nat
      /\ \A k \in 1..Len(ys) : oy[k + 1] = oy[k] + Len(ys[k])
      /\ oy[1] = 0
  BY OffsetsGrow DEF Laid, Offsets
<1>3. 1 \in Good
  BY <1>1, <1>2
<1>4. ASSUME NEW k \in 1..((n + 1) - 1), k \in Good PROVE k + 1 \in Good
  <2>1. k \in 1..n /\ k \in 1..Len(xs) /\ k \in 1..Len(ys) /\ k + 1 \in 1..(n + 1)
        /\ k \in 1..(Len(xs) + 1)
    BY <1>1, <1>2
  <2> DEFINE l == Len(xs[k])
             p == ox[k]
  <2>2. /\ p \in Nat /\ l \in Nat /\ ox[k + 1] = p + l /\ oy[k] = p /\ oy[k + 1] = p + l
        /\ xs[k] = ys[k] /\ \A m \in 1..p : fx[m] = fy[m]
    BY <1>1, <1>2, <1>4, <2>1
  <2>3. ASSUME NEW j \in 1..l PROVE fx[p + j] = fy[p + j]
    <3>1. fx[ox[k] + j] = xs[k][j]
      BY <2>1 DEF Laid
    <3>2. fy[oy[k] + j] = ys[k][j]
      BY <2>1, <2>2 DEF Laid
    <3> QED BY <2>2, <3>1, <3>2
  <2> HIDE DEF l, p, fx, fy
  <2>4. ASSUME NEW m \in 1..(p + l) PROVE fx[m] = fy[m]
    <3>1. CASE m <= p
      BY <2>2, <3>1
    <3>2. CASE ~(m <= p)
      <4>1. m - p \in 1..l /\ p + (m - p) = m
        BY <2>2, <3>2
      <4> QED BY <2>3, <4>1
    <3> QED BY <3>1, <3>2
  <2> QED BY <2>1, <2>2, <2>4
<1>5. n + 1 \in Nat
  OBVIOUS
<1> HIDE DEF Good
<1>6. \A k \in 1..(n + 1) : k \in Good
  BY <1>3, <1>4, <1>5, IntervalInduction
<1> QED BY <1>6 DEF Good, SameLaid
=============================================================================
