--------------------------- MODULE CanonicalJSON ---------------------------
(***************************************************************************)
(* internal/contract/canonical.go: the canonical text of a decoded value,  *)
(* whose SHA-256 tells a duplicate of an event from a conflict.  Two       *)
(* values, the first sight of an event and a later one, are serialized;    *)
(* the order in which Go walks a map, and the one in which an unstable     *)
(* sort leaves members that compare equal, are arbitrary each time.  A     *)
(* text is the sequence of its code points.                                *)
(***************************************************************************)
EXTENDS UTF16Order, FiniteSets

CONSTANTS
  Values,     \* the decoded values: [literal], [number], [string], [array], [object]
  MaxNesting  \* how many levels a value has: json.go's MaxDepth, and a scalar

VARIABLES
  first, second,         \* the two values
  firstText, secondText  \* their canonical texts: <<>> before

digestVars == <<first, second, firstText, secondText>>

\* The values a value is made of.
Parts(v) ==
  IF "array" \in DOMAIN v THEN {v.array[k] : k \in DOMAIN v.array}
  ELSE IF "object" \in DOMAIN v THEN {v.object[key] : key \in DOMAIN v.object}
  ELSE {}

\* The values of at most n levels.
Shallow[n \in 0..MaxNesting] ==
  IF n = 0 THEN {}
  ELSE LET parts == Shallow[n - 1] IN {v \in Values : Parts(v) \subseteq parts}

\* null, true and false; the lexemes of numbers.
Literals == {<<110, 117, 108, 108>>, <<116, 114, 117, 101>>, <<102, 97, 108, 115, 101>>}
NumberStart == (48..57) \cup {45}
NumberChars == NumberStart \cup {43, 46, 69, 101}
IsNumber(s) == s \in Seq(NumberChars) /\ s # <<>> /\ s[1] \in NumberStart

\* A finite map from texts to values.
IsMap(m) ==
  /\ m \in [DOMAIN m -> Values] /\ IsFiniteSet(DOMAIN m)
  /\ \A key \in DOMAIN m : IsText(key)

Held(v) == {v[f] : f \in DOMAIN v}

\* What decodeStrict may return: finite trees of these five kinds.
ASSUME ValueAssumption ==
  /\ MaxNesting \in Nat /\ Values = Shallow[MaxNesting]
  /\ \A v \in Values :
       \/ v \in [literal : Literals]
       \/ v \in [number : Held(v)] /\ IsNumber(v.number)
       \/ v \in [string : Held(v)] /\ IsText(v.string)
       \/ v \in [array : Seq(Values)]
       \/ v \in [object : Held(v)] /\ IsMap(v.object)

\* The characters writer.go's lineBreaks lists.
LineBreaks == {10, 13, 133, 8232, 8233}

Quote == 34
Backslash == 92

-----------------------------------------------------------------------------
\* hexDigits[d].
HexDigit(d) == IF d < 10 THEN 48 + d ELSE 87 + d

\* appendUnicodeEscape: \u and four digits.
UnicodeEscape(r) ==
  <<Backslash, 117, HexDigit((r \div 4096) % 16), HexDigit((r \div 256) % 16),
    HexDigit((r \div 16) % 16), HexDigit(r % 16)>>

\* The escapes of two characters, by what follows the backslash.
ShortEscapes ==
  [c \in {Quote, Backslash, 8, 9, 10, 12, 13} |->
     CASE c = 8 -> 98 [] c = 9 -> 116 [] c = 10 -> 110 [] c = 12 -> 102 [] c = 13 -> 114
       [] OTHER -> c]

\* Variant: the table of RFC 8785 alone.
LineSeparatorsRFC == {}

\* The contract's addition to the table of RFC 8785.
LineSeparators == {133, 8232, 8233}

\* What appendCanonicalString writes for one character.
Escape(c) ==
  IF c \in DOMAIN ShortEscapes THEN <<Backslash, ShortEscapes[c]>>
  ELSE IF c < 32 \/ c \in LineSeparators THEN UnicodeEscape(c) ELSE <<c>>

appendCanonicalString(s) ==
  <<Quote>> \o FlattenSeq([k \in DOMAIN s |-> Escape(s[k])]) \o <<Quote>>

\* Texts separated by commas.
Commas(texts) ==
  FlattenSeq([k \in DOMAIN texts |-> IF k = 1 THEN texts[k] ELSE <<44>> \o texts[k]])

\* slices.SortFunc(keys, compareUTF16): the results it may have.
Sorted(keys) ==
  {order \in SetToSeqs(keys) :
     \A k \in 2..Len(order) : compareUTF16(order[k - 1], order[k]) <= 0}

\* One text for each element, chosen in every way.
OneOfEach(sets) ==
  {f \in [DOMAIN sets -> UNION {sets[k] : k \in DOMAIN sets}] :
     \A k \in DOMAIN sets : f[k] \in sets[k]}

\* What each element or member may be written as.
OfEach(parts, texts) == [k \in DOMAIN parts |-> texts[parts[k]]]

\* The loop over the elements of an array.
ArrayTexts(sets) ==
  {<<91>> \o Commas(texts) \o <<93>> : texts \in OneOfEach(sets)}

\* The members, in the order of their keys: a key, a colon and a value each.
Members(order, texts) ==
  [k \in DOMAIN order |-> appendCanonicalString(order[k]) \o <<58>> \o texts[order[k]]]

\* The loop over the sorted keys of an object.
ObjectTexts(sets) ==
  {<<123>> \o Commas(Members(order, texts)) \o <<125>> :
     order \in Sorted(DOMAIN sets), texts \in OneOfEach(sets)}

\* The switch on the kind of v, its parts written as texts says.
Serialized(v, texts) ==
  CASE "literal" \in DOMAIN v -> {v.literal}
    [] "number" \in DOMAIN v -> {v.number}
    [] "string" \in DOMAIN v -> {appendCanonicalString(v.string)}
    [] "array" \in DOMAIN v -> ArrayTexts(OfEach(v.array, texts))
    [] "object" \in DOMAIN v -> ObjectTexts(OfEach(v.object, texts))

\* The texts one serialization of v may produce.
appendCanonical[v \in Values] == Serialized(v, appendCanonical)

-----------------------------------------------------------------------------
DigestInit ==
  /\ first \in Values /\ second \in Values
  /\ firstText = <<>> /\ secondText = <<>>

\* CanonicalDigest of the first value.  The digest is as good as the text.
DigestFirst ==
  /\ firstText = <<>>
  /\ firstText' \in appendCanonical[first]
  /\ UNCHANGED <<first, second, secondText>>

DigestSecond ==
  /\ firstText # <<>> /\ secondText = <<>>
  /\ secondText' \in appendCanonical[second]
  /\ UNCHANGED <<first, second, firstText>>

DigestNext == DigestFirst \/ DigestSecond

DigestSpec == DigestInit /\ [][DigestNext]_digestVars

-----------------------------------------------------------------------------
\* The digest decides: two serializations give one text exactly when the
\* values are equal, however Go walks their maps.  A retry is never taken for a
\* conflict, nor a conflict for a retry.
DigestDecides ==
  firstText # <<>> /\ secondText # <<>> =>
    (firstText = secondText <=> first = second)

\* The canonical text of any value is one line, so spool.Writer.Append accepts
\* it whatever characters the payload's strings and keys hold.
OneLine == \A k \in DOMAIN firstText : firstText[k] \notin LineBreaks

\* The members of every object are in the order of their whole UTF-16
\* encodings, the one RFC 8785 gives, though only one rune of each is encoded.
KeyOrder ==
  "object" \in DOMAIN first =>
    \A a, b \in DOMAIN first.object :
      compareUTF16(a, b) = Compare(EncodeAll(a), EncodeAll(b))
=============================================================================
