------------------------------ MODULE Manifest ------------------------------
(***************************************************************************)
(* ParseManifest of internal/contract/manifest.go, with ValidateSlug of    *)
(* slug.go: the sources a monitors.yaml configures.                        *)
(*                                                                         *)
(* The input is a stream of YAML documents.  An entry is its name, a       *)
(* sequence of characters, the numbers it sets, and whether its other      *)
(* fields are as the schema wants them.  A number is what the YAML decoder *)
(* makes of it: an integer, or a float of which the whole part is kept.    *)
(***************************************************************************)
EXTENDS Integers, Sequences, SequencesExt

CONSTANTS
  Streams,       \* the inputs: sequences of documents
  IntFields,     \* the numeric fields of an entry
  Bounds,        \* for each of them, [min, max] of monitors.schema.json
  Defaults,      \* and what an entry that leaves it out takes
  MaxSlugLen,
  ExponentFrom   \* the least value FormatFloat(v, 'g', -1, 64) writes with an
                 \* exponent: 10^6

ASSUME ManifestAssumption ==
  /\ {"rotate_bytes", "retention_bytes"} \subseteq IntFields
  /\ \A f \in IntFields :
       {Bounds[f].min, Bounds[f].max, Defaults[f], ExponentFrom} \subseteq Nat
  /\ \A s \in Streams :
       /\ s \in Seq(ToSet(s))
       /\ \A d \in ToSet(s) : d.entries \in Seq(ToSet(d.entries))

VARIABLES
  stream,    \* the documents
  entries,   \* those of the first, once it is validated
  taken,     \* how many of them the loop has gone through
  seen,      \* their folded names
  monitors,  \* what it has made of them
  status     \* "pending", "entries" in the loop, then "ok", "error" or "panic"

manifestVars == <<stream, entries, taken, seen, monitors, status>>

\* The characters names are made of, and what strings.ToLower makes of them.
Lower == {"a", "b"}
Upper == {"A"}
SlugStart == Lower \cup {"0"}
SlugRest == SlugStart \cup {".", "_", "-"}
Fold(name) == [i \in DOMAIN name |-> IF name[i] = "A" THEN "a" ELSE name[i]]

-----------------------------------------------------------------------------
\* ValidateSlug.
ValidateSlug(name) ==
  /\ name # <<>> /\ Len(name) <= MaxSlugLen
  /\ name[1] \in SlugStart
  /\ \A i \in DOMAIN name : name[i] \in SlugRest

\* yamlToJSON on a number: the lexeme has an exponent or it is plain digits.
Lexeme(num) ==
  [plain |-> num.whole /\ (num.form = "int" \/ num.value < ExponentFrom),
   whole |-> num.whole, value |-> num.value]

\* monitors.schema.json on one entry: an integer is a number without a
\* fractional part, however it is written.
ValidEntry(e) ==
  /\ e.rest = "valid"
  /\ ValidateSlug(e.name)
  /\ \A f \in DOMAIN e.ints :
       /\ f \in IntFields
       /\ Lexeme(e.ints[f]).whole
       /\ e.ints[f].value \in Bounds[f].min..Bounds[f].max

\* mustInt64 panics on a lexeme that is no decimal integer.
MustInt64Panics(e) == \E f \in DOMAIN e.ints : ~Lexeme(e.ints[f]).plain

\* newMonitor: the fields that are set over the defaults.
NewMonitor(e) ==
  [name |-> e.name,
   ints |-> [f \in IntFields |->
               IF f \in DOMAIN e.ints THEN e.ints[f].value ELSE Defaults[f]]]

\* Variant: the thresholds are compared as they are.
RotateRatioWhole(m) == m.ints["rotate_bytes"] > m.ints["retention_bytes"]

RotateRatio(m) == m.ints["rotate_bytes"] > m.ints["retention_bytes"] \div 2

-----------------------------------------------------------------------------
ManifestInit ==
  /\ stream \in Streams
  /\ entries = <<>> /\ taken = 0
  /\ seen = {} /\ monitors = <<>>
  /\ status = "pending"

Finish(how) == status' = how /\ UNCHANGED <<stream, entries, taken, seen, monitors>>

\* Variant: the decoder is asked for one document.
OneDocumentUnchecked == stream # <<>> /\ stream[1].kind \notin {"error", "null"}

\* The stream holds one document, which is not null.
OneDocument == Len(stream) = 1 /\ stream[1].kind \notin {"error", "null"}

\* The conversion and the schema.
Validates ==
  /\ stream[1].kind = "array"
  /\ \A i \in DOMAIN stream[1].entries : ValidEntry(stream[1].entries[i])

RefuseStream ==
  /\ status = "pending"
  /\ ~(OneDocument /\ Validates)
  /\ Finish("error")

AcceptStream ==
  /\ status = "pending"
  /\ OneDocument /\ Validates
  /\ entries' = stream[1].entries
  /\ status' = "entries"
  /\ UNCHANGED <<stream, taken, seen, monitors>>

Looping == status = "entries" /\ taken < Len(entries)

EntryPanics == Looping /\ MustInt64Panics(entries[taken + 1]) /\ Finish("panic")

\* Variant: no alias check.
AliasUnchecked(m) == FALSE

\* The alias check.
Alias(m) == Fold(m.name) \in seen

\* The rules the schema cannot express.
EntryRefused(m) == ~ValidateSlug(m.name) \/ RotateRatio(m) \/ Alias(m)

RefuseEntry ==
  /\ Looping /\ ~MustInt64Panics(entries[taken + 1])
  /\ EntryRefused(NewMonitor(entries[taken + 1]))
  /\ Finish("error")

AddMonitor ==
  LET m == NewMonitor(entries[taken + 1])
  IN  /\ Looping /\ ~MustInt64Panics(entries[taken + 1]) /\ ~EntryRefused(m)
      /\ seen' = seen \cup {Fold(m.name)}
      /\ monitors' = Append(monitors, m)
      /\ taken' = taken + 1
      /\ UNCHANGED <<stream, entries, status>>

ReturnMonitors == status = "entries" /\ taken = Len(entries) /\ Finish("ok")

ManifestNext ==
  \/ RefuseStream \/ AcceptStream
  \/ EntryPanics \/ RefuseEntry \/ AddMonitor \/ ReturnMonitors

ManifestSpec == ManifestInit /\ [][ManifestNext]_manifestVars

-----------------------------------------------------------------------------
\* Two configured sources never have the same name for a file, on any file
\* system: their names differ in more than case, and no name leads out of its
\* directory, hides a file, or ends in a line terminator.  (Archives, whose names
\* a later rotation may derive from a source's, are not compared.)
SourcesApart ==
  status = "ok" =>
    /\ \A i, j \in DOMAIN monitors :
         i # j => Fold(monitors[i].name) # Fold(monitors[j].name)
    /\ \A i \in DOMAIN monitors :
         /\ monitors[i].name # <<>> /\ monitors[i].name[1] # "."
         /\ \A c \in DOMAIN monitors[i].name : monitors[i].name[c] \notin {"/", "newline"}

\* Retention can be enforced on every source, whichever of the two thresholds
\* its entry leaves to the default: beside a full active segment the ceiling
\* has room for a whole one that can be removed.
RetentionRemovable ==
  status = "ok" => \A i \in DOMAIN monitors :
    monitors[i].ints["rotate_bytes"] <=
      monitors[i].ints["retention_bytes"] - monitors[i].ints["rotate_bytes"]

\* Every entry of the input is a monitor of the result, in order: none of any
\* document of the stream is left unsupervised without an error.
AllSupervised ==
  status = "ok" =>
    [i \in DOMAIN monitors |-> monitors[i].name] =
      FlattenSeq([d \in DOMAIN stream |->
        [i \in DOMAIN stream[d].entries |-> stream[d].entries[i].name]])

\* A manifest the schema accepts is loaded or refused, whichever way its
\* integers are written.
NoManifestPanic == status # "panic"
=============================================================================
