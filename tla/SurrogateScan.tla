--------------------------- MODULE SurrogateScan ---------------------------
(***************************************************************************)
(* rejectEscapedSurrogates of internal/contract/json.go: one pass over the *)
(* raw bytes of a JSON document that refuses an escape of half a surrogate *)
(* pair before the decoder turns it into U+FFFD.                           *)
(*                                                                         *)
(* data is a sequence of symbols.  quote, bslash, u and other are single   *)
(* bytes (other is one, like n, that may follow a backslash); hi, lo and   *)
(* bmp are four bytes that are hexadecimal digits: of a high surrogate, of *)
(* a low one, of any other code unit.                                      *)
(***************************************************************************)
EXTENDS Integers, Sequences, SequencesExt

CONSTANT MaxScan  \* bound on the symbols between the first and last quote

ASSUME ScanAssumption == MaxScan \in Nat

Hex == {"hi", "lo", "bmp"}
ScanSymbols == Hex \cup {"quote", "bslash", "u", "other"}

VARIABLES
  data,      \* the document
  i,         \* the symbol the scan is at
  inString,  \* the scan is inside a string
  verdict    \* "none" while scanning, then "pass" or "unpaired"

scanVars == <<data, i, inString, verdict>>

ScanInit ==
  /\ \E body \in BoundedSeq(ScanSymbols, MaxScan) :
       data = <<"quote">> \o body \o <<"quote">>
  /\ i = 1
  /\ inString = FALSE
  /\ verdict = "none"

\* hexEscape(data[k:]) succeeds: a backslash, u and four digits.
HexEscape(k) ==
  /\ k + 2 <= Len(data)
  /\ data[k] = "bslash" /\ data[k + 1] = "u" /\ data[k + 2] \in Hex

Scanning == verdict = "none" /\ i <= Len(data)

\* The loop consumes n symbols.
Advance(n) == i' = i + n /\ UNCHANGED <<data, verdict>>

Return(v) == verdict' = v /\ UNCHANGED <<data, i, inString>>

\* Outside a string only a quote matters.
ScanOutside ==
  /\ Scanning /\ ~inString
  /\ inString' = (data[i] = "quote")
  /\ Advance(1)

\* A closing quote, or a byte that is no backslash.
ScanPlain ==
  /\ Scanning /\ inString /\ data[i] # "bslash"
  /\ inString' = (data[i] # "quote")
  /\ Advance(1)

\* An escape that is not \u: both its bytes are consumed.
IsOtherEscape ==
  /\ Scanning /\ inString /\ data[i] = "bslash"
  /\ i = Len(data) \/ data[i + 1] # "u"

\* Variant: only the backslash is consumed.
ScanOtherEscapeHalf == IsOtherEscape /\ Advance(1) /\ UNCHANGED inString

ScanOtherEscape == IsOtherEscape /\ Advance(2) /\ UNCHANGED inString

IsUnicodeEscape ==
  /\ Scanning /\ inString /\ data[i] = "bslash"
  /\ i < Len(data) /\ data[i + 1] = "u"

\* An escape without four digits is left to the decoder.
ScanMalformed == IsUnicodeEscape /\ ~HexEscape(i) /\ Return("pass")

ScanScalar ==
  /\ IsUnicodeEscape /\ HexEscape(i) /\ data[i + 2] = "bmp"
  /\ Advance(3) /\ UNCHANGED inString

\* utf16.DecodeRune takes a high half followed by a low one and nothing else.
IsPair(k) ==
  HexEscape(k + 3) /\ data[k + 2] = "hi" /\ data[k + 5] = "lo"

ScanPair ==
  /\ IsUnicodeEscape /\ HexEscape(i) /\ IsPair(i)
  /\ Advance(6) /\ UNCHANGED inString

ScanUnpaired ==
  /\ IsUnicodeEscape /\ HexEscape(i) /\ data[i + 2] # "bmp" /\ ~IsPair(i)
  /\ Return("unpaired")

ScanEnd == verdict = "none" /\ i > Len(data) /\ Return("pass")

ScanNext ==
  \/ ScanOutside \/ ScanPlain \/ ScanOtherEscape \/ ScanMalformed
  \/ ScanScalar \/ ScanPair \/ ScanUnpaired \/ ScanEnd

ScanSpec == ScanInit /\ [][ScanNext]_scanVars

-----------------------------------------------------------------------------
(* A reading of the document that takes one symbol at a time. *)

\* What the symbol at k is read in: outside of strings, inside one, or right
\* after a backslash inside one.
LexedOf(d) ==
  LET at[k \in 1..(Len(d) + 1)] ==
        IF k = 1 THEN "outside"
        ELSE LET s == d[k - 1] IN
             CASE at[k - 1] = "outside" -> IF s = "quote" THEN "string" ELSE "outside"
               [] at[k - 1] = "escape" -> "string"
               [] OTHER -> IF s = "quote" THEN "outside"
                           ELSE IF s = "bslash" THEN "escape" ELSE "string"
  IN  at

Lexed == LexedOf(data)

Escapes == {k \in 1..(Len(data) - 1) : Lexed[k] = "string" /\ data[k] = "bslash"}

\* What a JSON decoder accepts of the strings.
WellFormed ==
  /\ Lexed[Len(data) + 1] = "outside"
  /\ \A k \in 1..Len(data) : Lexed[k] = "outside" => data[k] # "bslash"
  /\ \A k \in Escapes : data[k + 1] \notin Hex /\ (data[k + 1] = "u" => HexEscape(k))

\* The escapes of code unit kind unit.
EscapesOf(unit) == {k \in Escapes : HexEscape(k) /\ data[k + 2] = unit}

\* In every string the decoder would accept, the scan refuses exactly the half
\* surrogates: no escaped backslash hides one or invents one, no pair is split
\* and none is put together from halves of different escapes.
RefusesHalves ==
  verdict # "none" /\ WellFormed =>
    (verdict = "pass" <=>
       EscapesOf("lo") = {k + 3 : k \in EscapesOf("hi")})
=============================================================================
