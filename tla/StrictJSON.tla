----------------------------- MODULE StrictJSON -----------------------------
(***************************************************************************)
(* decodeStrict of internal/contract/json.go, over the token stream of     *)
(* encoding/json's Decoder.  A document is a sequence of symbols: the      *)
(* punctuation, strings and other scalars.  The Decoder is external; its   *)
(* Token and More are what decodeStrict relies on to refuse punctuation    *)
(* that is out of place, so its token states are modelled.                 *)
(***************************************************************************)
EXTENDS Integers, Sequences, FiniteSets, SequencesExt

CONSTANTS
  MaxDepth,   \* MaxDepth of json.go
  Strings,    \* the strings a document may hold
  Scalars,    \* its numbers and literals
  MaxSymbols, \* bound on the length of a document
  Documents,  \* the documents that may be decoded
  Texts       \* what the raw bytes of one may be: see TextKinds

Punctuation == {"openObject", "closeObject", "openArray", "closeArray", "comma", "colon"}
Symbols == Punctuation \cup Strings \cup Scalars

\* "scalars" is valid UTF-8 without half a surrogate pair (SurrogateScan).
TextKinds == {"scalars", "invalid UTF-8", "half surrogate"}

ASSUME JSONAssumption ==
  /\ MaxDepth \in Nat \ {0} /\ MaxSymbols \in Nat
  /\ Punctuation \cap (Strings \cup Scalars) = {} /\ Strings \cap Scalars = {}
  /\ \A doc \in Documents : doc \in Seq(Symbols) /\ Len(doc) <= MaxSymbols
  /\ Texts \subseteq TextKinds

VARIABLES
  text,      \* what the raw bytes are
  document,  \* the document
  dec,       \* the Decoder: see below
  calls,     \* decodeStrict, and the calls of decodeObject and decodeArray under way
  stage,     \* where the innermost is: "text" before the text checks, "value" when
             \* it has called decodeValue, "loop" when that has returned
  answer     \* what decodeStrict returned: <<>> before it has

decodeVars == <<text, document, dec, calls, stage, answer>>

Failed == [ok |-> FALSE]
Scalar(s) == [scalar |-> s]

-----------------------------------------------------------------------------
(* encoding/json's Decoder: what is left of the document, the state of the *)
(* innermost container, and those in which the ones around it wait.        *)

Start(doc) == [rest |-> doc, state |-> "top", stack |-> <<>>]

ValueAllowed(state) == state \in {"top", "arrayStart", "arrayValue", "objectValue"}

ValueEnd(state) ==
  IF state \in {"arrayStart", "arrayValue"} THEN "arrayComma"
  ELSE IF state = "objectValue" THEN "objectComma" ELSE state

\* The state behind a comma or colon that is in its place, else the same.
StatePast(c, state) ==
  IF c = "comma" /\ state = "arrayComma" THEN "arrayValue"
  ELSE IF c = "comma" /\ state = "objectComma" THEN "objectKey"
  ELSE IF c = "colon" /\ state = "objectColon" THEN "objectValue" ELSE state

SkipPunctuation(d) ==
  IF d.rest # <<>> /\ StatePast(Head(d.rest), d.state) # d.state
    THEN [rest |-> Tail(d.rest), state |-> StatePast(Head(d.rest), d.state), stack |-> d.stack]
    ELSE d

\* The token c at the head of d, after which the state and the stack are these.
Taken(d, state, stack) ==
  [ok |-> TRUE, tok |-> Head(d.rest),
   dec |-> [rest |-> Tail(d.rest), state |-> state, stack |-> stack]]

Opens(d, state) ==
  IF ValueAllowed(d.state) THEN Taken(d, state, Append(d.stack, d.state)) ELSE Failed

Closes(d, states) ==
  IF d.state \in states THEN Taken(d, ValueEnd(Last(d.stack)), Front(d.stack)) ELSE Failed

\* Decoder.Token of a symbol that is no comma and no colon.
SymbolToken(d) ==
  LET c == Head(d.rest)
  IN  IF c = "openArray" THEN Opens(d, "arrayStart")
      ELSE IF c = "openObject" THEN Opens(d, "objectStart")
      ELSE IF c = "closeArray" THEN Closes(d, {"arrayStart", "arrayComma"})
      ELSE IF c = "closeObject" THEN Closes(d, {"objectStart", "objectComma"})
      ELSE IF c \in Strings /\ d.state \in {"objectStart", "objectKey"}
        THEN Taken(d, "objectColon", d.stack)
      ELSE IF c \in Strings \cup Scalars /\ ValueAllowed(d.state)
        THEN Taken(d, ValueEnd(d.state), d.stack)
      ELSE Failed

\* Decoder.Token: [ok, tok, dec], or Failed at the end and on a syntax error.
Token(d) ==
  LET past == SkipPunctuation(d)
  IN  IF past.rest = <<>> THEN Failed ELSE SymbolToken(past)

\* Decoder.More.
More(d) == d.rest # <<>> /\ Head(d.rest) \notin {"closeArray", "closeObject"}

-----------------------------------------------------------------------------
(* json.go.  A call has what it has decoded so far: parts is the value of  *)
(* decodeStrict, arr or obj; key is decodeObject's.                        *)

Call(kind) == [kind |-> kind, parts |-> <<>>, key |-> ""]

Innermost == calls[Len(calls)]

\* What a call that returns leaves of the others.
Outer == SubSeq(calls, 1, Len(calls) - 1)

\* The value decodeArray or decodeObject returns.
Container(c) ==
  IF c.kind = "array" THEN [array |-> c.parts] ELSE [object |-> c.parts]

\* A call gets the value it waits for.
Receive(c, value) ==
  [c EXCEPT !.parts =
     Append(@, IF c.kind = "object" THEN [key |-> c.key, val |-> value] ELSE value)]

\* decodeValue returns value to the last of these calls.
ReturnTo(waiting, value) ==
  /\ calls' = [waiting EXCEPT ![Len(waiting)] = Receive(@, value)]
  /\ stage' = "loop"

\* Every call returns the error.
Fail == answer' = <<Failed>> /\ UNCHANGED <<dec, calls, stage>>

Running == answer = <<>>

DecodeInit ==
  /\ text \in Texts /\ document \in Documents /\ answer = <<>>
  /\ dec = Start(document) /\ calls = <<Call("document")>> /\ stage = "text"

\* decodeStrict as far as its call of decodeValue.
CheckText ==
  /\ Running /\ stage = "text"
  /\ \/ text # "scalars" /\ Fail
     \/ text = "scalars" /\ stage' = "value" /\ UNCHANGED <<dec, calls, answer>>
  /\ UNCHANGED <<text, document>>

\* The depth of a container: decodeStrict's value has 1.
TooDeep(depth) == depth > MaxDepth

\* decodeValue calls decodeObject or decodeArray.
Enter(kind) ==
  /\ calls' = Append(calls, Call(kind))
  /\ stage' = "loop"

DecodeValue ==
  /\ Running /\ stage = "value"
  /\ LET t == Token(dec)
         Stops == t.ok => /\ t.tok \in Punctuation
                          /\ TooDeep(Len(calls)) \/ t.tok \notin {"openObject", "openArray"}
     IN  \/ Stops /\ Fail
         \/ /\ ~Stops /\ dec' = t.dec /\ UNCHANGED answer
            /\ \/ t.tok \notin Punctuation /\ ReturnTo(calls, Scalar(t.tok))
               \/ t.tok = "openObject" /\ Enter("object")
               \/ t.tok = "openArray" /\ Enter("array")
  /\ UNCHANGED <<text, document>>

\* Variant: the last of two members of one name is the one kept.
DuplicateKept(obj, key) == FALSE

Duplicate(obj, key) == key \in {obj[k].key : k \in DOMAIN obj}

\* decodeArray's loop goes on.
DecodeElement ==
  /\ Running /\ stage = "loop" /\ Innermost.kind = "array" /\ More(dec)
  /\ stage' = "value"
  /\ UNCHANGED <<text, document, dec, calls, answer>>

\* decodeObject's loop, as far as its call of decodeValue.
DecodeMember ==
  /\ Running /\ stage = "loop" /\ Innermost.kind = "object" /\ More(dec)
  /\ LET t == Token(dec)
         Stops == t.ok => t.tok \notin Strings \/ Duplicate(Innermost.parts, t.tok)
     IN  \/ Stops /\ Fail
         \/ /\ ~Stops /\ dec' = t.dec /\ stage' = "value"
            /\ calls' = [calls EXCEPT ![Len(calls)].key = t.tok]
            /\ UNCHANGED answer
  /\ UNCHANGED <<text, document>>

\* decodeArray or decodeObject takes the closing token and returns.
CloseContainer ==
  /\ Running /\ stage = "loop" /\ Innermost.kind \in {"array", "object"} /\ ~More(dec)
  /\ LET t == Token(dec)
     IN  \/ ~t.ok /\ Fail
         \/ t.ok /\ dec' = t.dec /\ ReturnTo(Outer, Container(Innermost)) /\ UNCHANGED answer
  /\ UNCHANGED <<text, document>>

\* Token reports the end of the input after the document.
EndsThere(d) == d.rest = <<>>

EndDocument ==
  /\ Running /\ stage = "loop" /\ Innermost.kind = "document"
  /\ \/ ~EndsThere(dec) /\ Fail
     \/ /\ EndsThere(dec) /\ answer' = <<[ok |-> TRUE, value |-> Innermost.parts[1]]>>
        /\ UNCHANGED <<dec, calls, stage>>
  /\ UNCHANGED <<text, document>>

DecodeNext ==
  \/ CheckText \/ DecodeValue \/ DecodeElement \/ DecodeMember \/ CloseContainer \/ EndDocument

DecodeSpec == DecodeInit /\ [][DecodeNext]_decodeVars

-----------------------------------------------------------------------------
(* JSON's grammar, by the number of symbols: every value, every element    *)
(* and member as a list of one, and every list of them, with what it       *)
(* denotes, its depth, and whether the members of each of its objects have *)
(* names of their own.                                                     *)

Phrase(toks, val, depth, unique) ==
  [toks |-> toks, val |-> val, depth |-> depth, unique |-> unique]

Nothing == Phrase(<<>>, <<>>, 0, TRUE)

Simple(s) == Phrase(<<s>>, Scalar(s), 0, TRUE)
Element(v) == Phrase(v.toks, <<v.val>>, v.depth, v.unique)
Member(key, v) ==
  Phrase(<<key, "colon">> \o v.toks, <<[key |-> key, val |-> v.val]>>, v.depth, v.unique)

\* The item, a comma, and the list.
Joined(item, list) ==
  Phrase(item.toks \o <<"comma">> \o list.toks, item.val \o list.val,
         IF item.depth > list.depth THEN item.depth ELSE list.depth, item.unique /\ list.unique)

OwnNames(members) == \A j, k \in DOMAIN members : members[j].key = members[k].key => j = k

Bracketed(kind, list) ==
  IF kind = "array"
    THEN Phrase(<<"openArray">> \o list.toks \o <<"closeArray">>, [array |-> list.val],
                list.depth + 1, list.unique)
    ELSE Phrase(<<"openObject">> \o list.toks \o <<"closeObject">>, [object |-> list.val],
                list.depth + 1, list.unique /\ OwnNames(list.val))

Kinds == {"array", "object"}

\* The phrases of n symbols, of the shorter ones in g.
ValuesOf(n, g) ==
  {Simple(s) : s \in IF n = 1 THEN Strings \cup Scalars ELSE {}} \cup
  UNION {{Bracketed(kind, list) : list \in IF n < 2 THEN {} ELSE g[n - 2].lists[kind]} :
           kind \in Kinds}

ItemsOf(kind, n, g) ==
  IF kind = "array" THEN {Element(v) : v \in ValuesOf(n, g)}
  ELSE {Member(key, v) : key \in Strings, v \in IF n < 2 THEN {} ELSE g[n - 2].values}

ListsOf(kind, n, g) ==
  (IF n = 0 THEN {Nothing} ELSE {}) \cup ItemsOf(kind, n, g) \cup
  UNION {{Joined(item, list) : item \in g[k].items[kind], list \in g[n - 1 - k].lists[kind]} :
           k \in 1..(n - 2)}

PhrasesOf(n, g) ==
  [values |-> ValuesOf(n, g),
   items |-> [kind \in Kinds |-> ItemsOf(kind, n, g)],
   lists |-> [kind \in Kinds |-> ListsOf(kind, n, g)]]

Grammar[n \in 0..MaxSymbols] == PhrasesOf(n, Grammar)

\* The documents of the parse profile, with what they denote.
Profile ==
  {[doc |-> v.toks, value |-> v.val] :
     v \in {w \in UNION {Grammar[n].values : n \in 0..MaxSymbols} :
              w.unique /\ w.depth <= MaxDepth}}
ProfileDocuments == {p.doc : p \in Profile}

\* decodeStrict accepts exactly the JSON documents of scalar text whose objects
\* have no two members of one name at any depth and which nest no deeper than
\* MaxDepth, and returns the value they denote: no punctuation out of place,
\* nothing after the document, no member lost.
DecodesExactly ==
  \A k \in DOMAIN answer :
    /\ answer[k].ok <=> text = "scalars" /\ document \in ProfileDocuments
    /\ answer[k].ok => [doc |-> document, value |-> answer[k].value] \in Profile
=============================================================================
