----------------------------- MODULE UTF16Order -----------------------------
(***************************************************************************)
(* compareUTF16 of internal/contract/canonical.go: the order in which the  *)
(* canonical form writes the members of an object.  A string is the        *)
(* sequence of its code points.                                            *)
(***************************************************************************)
EXTENDS Integers, Sequences, SequencesExt

\* A Unicode scalar value: strict decoding lets no half surrogate through.
IsRune(r) == r \in Nat /\ r <= 1114111 /\ r \notin 55296..57343

IsText(s) == s \in Seq(Nat) /\ \A k \in DOMAIN s : IsRune(s[k])

Sign(n) == IF n < 0 THEN -1 ELSE IF n > 0 THEN 1 ELSE 0

\* The first position at which a and b differ is k.
DifferAt(a, b, k) ==
  /\ k \in (DOMAIN a) \cap (DOMAIN b)
  /\ a[k] # b[k]
  /\ \A m \in 1..(k - 1) : a[m] = b[m]

FirstDifference(a, b) == CHOOSE k \in DOMAIN a : DifferAt(a, b, k)

\* slices.Compare.
Compare(a, b) ==
  IF \E k \in DOMAIN a : DifferAt(a, b, k)
    THEN Sign(a[FirstDifference(a, b)] - b[FirstDifference(a, b)])
    ELSE Sign(Len(a) - Len(b))

\* utf16.Encode of one rune.
Encode(r) ==
  IF r < 65536 THEN <<r>>
  ELSE <<55296 + ((r - 65536) \div 1024), 56320 + ((r - 65536) % 1024)>>

\* Variant: two runes are told apart by their first code unit alone.
CompareLead(x, y) == Sign(Encode(x)[1] - Encode(y)[1])

\* Variant: Go's own order of strings.
CompareRune(x, y) == Sign(x - y)

\* The runes that decide.
CompareRunes(x, y) == Compare(Encode(x), Encode(y))

\* The loop leaves at the first rune that differs, or with one string used up.
compareUTF16(a, b) ==
  IF \E k \in DOMAIN a : DifferAt(a, b, k)
    THEN CompareRunes(a[FirstDifference(a, b)], b[FirstDifference(a, b)])
    ELSE Sign(Len(a) - Len(b))

\* The UTF-16 encoding of a whole string.
EncodeAll(s) == FlattenSeq([k \in DOMAIN s |-> Encode(s[k])])
=============================================================================
