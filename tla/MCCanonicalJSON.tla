-------------------------- MODULE MCCanonicalJSON --------------------------
(***************************************************************************)
(* Values whose texts could coincide or be split: strings of characters    *)
(* the table escapes and of the characters its escapes are made of, keys   *)
(* on both sides of the surrogates, numbers of one value and two lexemes.  *)
(***************************************************************************)
EXTENDS CanonicalJSON

\* Controls with and without a short escape, quote, backslash, what follows a
\* backslash, the line separators, DEL, and punctuation.
MCChars == {0, 1, 8, 9, 10, 11, 12, 13, 31, 34, 44, 58, 92, 98, 102, 110, 127,
            133, 8232, 8233}

\* The last rune below the surrogates, the first and last above them in the
\* BMP, two supplementary ones of one lead surrogate and one of the next.
MCKeyRunes == {97, 55295, 57344, 65535, 65536, 65537, 66560}
MCKeys == {<<a>> : a \in MCKeyRunes} \cup {<<a, 97>> : a \in MCKeyRunes} \cup {<<>>}

Text(s) == [string |-> s]
MCLiterals == {[literal |-> <<110, 117, 108, 108>>],
               [literal |-> <<116, 114, 117, 101>>],
               [literal |-> <<102, 97, 108, 115, 101>>]}
MCNumbers == {[number |-> <<49>>], [number |-> <<49, 46, 48>>]}
MCStrings == {Text(s) : s \in {<<>>} \cup {<<c>> : c \in MCChars}}
             \cup {Text(<<92, c>>) : c \in MCChars} \cup {Text(<<c, 110>>) : c \in MCChars}

MCFew == {[number |-> <<49>>], Text(<<>>), Text(<<44>>), Text(<<34, 44, 34>>)}
MCArrays == {[array |-> s] : s \in BoundedSeq(MCFew, 2)}

\* Objects of up to three members, with a line separator in a key, and nested.
MCKeySets == {ks \in SUBSET MCKeys : Cardinality(ks) <= 2}
             \cup {{<<57344>>, <<65536>>, <<65537>>}, {<<97>>, <<97, 97>>, <<133>>}}
MCFlat == {[object |-> [k \in ks |-> [number |-> <<49>>]]] : ks \in MCKeySets}
MCNested == {[object |-> [k \in {<<97>>, <<65536>>} |-> v]] : v \in MCArrays}
            \cup {[array |-> <<v>>] : v \in {m \in MCFlat : Cardinality(DOMAIN m.object) # 2}}

MCValues == MCLiterals \cup MCNumbers \cup MCStrings \cup MCFew \cup MCArrays \cup MCFlat \cup MCNested
=============================================================================
