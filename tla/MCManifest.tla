----------------------------- MODULE MCManifest -----------------------------
(***************************************************************************)
(* Streams of up to two documents, of up to two entries.  Sizes are scaled *)
(* down: what matters is which side of a bound a value is on, and whether  *)
(* a ceiling is odd.                                                       *)
(***************************************************************************)
EXTENDS Manifest, TLC

MCIntFields == {"rotate_bytes", "retention_bytes", "interval"}
MCBounds == [rotate_bytes |-> [min |-> 2, max |-> 12],
             retention_bytes |-> [min |-> 4, max |-> 20],
             interval |-> [min |-> 5, max |-> 9]]
MCDefaults == [rotate_bytes |-> 3, retention_bytes |-> 13, interval |-> 6]

Integer(n) == [form |-> "int", value |-> n, whole |-> TRUE]
Float(n, whole) == [form |-> "float", value |-> n, whole |-> whole]
Entry(name, ints) == [name |-> name, ints |-> ints, rest |-> "valid"]

MCSlugs == {<<"a">>, <<"b">>, <<"A">>, <<"a", ".">>, <<".", "a">>, <<"a", "/">>,
            <<"a", "newline">>, <<"a", "b", "-", "0">>, <<>>}
NoInts == [f \in {} |-> Integer(0)]

MCNamed == {Entry(name, NoInts) : name \in MCSlugs}
           \cup {[Entry(<<"b">>, NoInts) EXCEPT !.rest = "invalid"]}

MCSized ==
  {Entry(<<"a">>, ("rotate_bytes" :> Integer(r)) @@ ("retention_bytes" :> Integer(c))) :
     r \in 1..13, c \in 3..21}
  \cup {Entry(<<"a">>, "rotate_bytes" :> Integer(r)) : r \in 1..13}
  \cup {Entry(<<"a">>, "retention_bytes" :> Integer(c)) : c \in 3..21}
  \cup {Entry(<<"a">>, "interval" :> Integer(n)) : n \in 4..10}
  \cup {Entry(<<"a">>, "unknown" :> Integer(1))}
  \cup {Entry(<<"a">>, "retention_bytes" :> Float(c, whole)) :
          c \in 3..21, whole \in BOOLEAN}

MCEntries == MCNamed \cup MCSized
Document(kind, es) == [kind |-> kind, entries |-> es]
MCManifestArrays == {Document("array", <<>>)} \cup {Document("array", <<e>>) : e \in MCEntries}
            \cup {Document("array", <<d, e>>) : d \in MCNamed, e \in MCEntries}
MCOthers == {Document(kind, <<>>) : kind \in {"null", "error", "scalar", "unsupported"}}
MCSecond == MCOthers \cup {Document("array", <<Entry(<<"b">>, NoInts)>>)}
MCStreams == {<<>>} \cup {<<d>> : d \in MCManifestArrays \cup MCOthers}
             \cup {<<d, e>> : d \in MCManifestArrays \cup MCOthers, e \in MCSecond}
=============================================================================
