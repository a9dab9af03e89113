--------------------------- MODULE EventContract ---------------------------
(***************************************************************************)
(* ParseEventLine of internal/contract/event.go: what may appear in a      *)
(* watcher's output, in a spool and in delivery output.  A line is its     *)
(* size, whether it holds a newline before its end, what strict decoding   *)
(* (StrictJSON) makes of it and, for an object, a function from the names  *)
(* of its fields.  A field's value is the class of values the schemas tell *)
(* apart; Absent stands for a field that is not there.                     *)
(***************************************************************************)
EXTENDS Integers, Sequences, FiniteSets

CONSTANTS
  DefaultMaxEventBytes,
  Lines,   \* the raw lines: [size, newlineInside, json, obj]
  Limits   \* what callers pass as maxEventBytes

Profiles == {"WatcherInput", "SpoolRecord", "DeliveryRecord", "unknown"}

VARIABLES
  line, limit, profile,  \* the arguments of a call
  result                 \* what it returned: <<>> before it has

parseVars == <<line, limit, profile, result>>

Absent == "absent"

\* No field has it for a value.
ASSUME LineAssumption ==
  \A l \in Lines :
    /\ \A f \in DOMAIN l.obj \ {"data"} : l.obj[f] # Absent
    /\ "data" \in DOMAIN l.obj =>
         \A f \in DOMAIN l.obj.data.fields : l.obj.data.fields[f] # Absent

Get(f, name) == IF name \in DOMAIN f THEN f[name] ELSE Absent

\* "required" and "additionalProperties": false.
Has(f, names) == names \subseteq DOMAIN f
HasOnly(f, names) == DOMAIN f \subseteq names
HasNone(f, names) == DOMAIN f \cap names = {}

\* "properties": a field that is there has one of the values.
Each(f, name, values) == Get(f, name) \in values \cup {Absent}

-----------------------------------------------------------------------------
(* IDs: ordinary ones, the two service grammars well and badly formed, and *)
(* the reserved prefix with neither kind after it.  A well formed one is   *)
(* the record's own or foreign: an overflow ID that names another source,  *)
(* a gap ID that is the digest of something else.                          *)

SyntheticIDs == {"overflow", "overflowForeign", "overflowBad",
                 "gap", "gapForeign", "gapBad", "reserved"}
OverflowPrefixed == {"overflow", "overflowForeign", "overflowBad"}
GapPrefixed == {"gap", "gapForeign", "gapBad"}

\* The "pattern" of the ID in the schema of each kind.
WellFormedIDs(kind) ==
  IF kind = "gap" THEN {"gap", "gapForeign"} ELSE {"overflow", "overflowForeign"}

(* event.schema.json *)

\* eventId: non-empty, bounded, without control characters.
EventIds == {"ordinary"} \cup SyntheticIDs

Severities == {"info", "warn", "error"}

\* The summaries the templates and the contract tell apart.  A gap's summary
\* names the IDs in its data or others; both matches the two templates of a gap:
\* an ID may hold any text.  long is over the target of the lint.
Resuming == {"resuming", "resuming others", "both"}
NoneRetained == {"none retained", "none retained others", "both"}
DroppedSeveral == {"dropped 2", "dropped 3"}
Summaries == {"free", "long", "dropped 1", "oversized line", "malformed line"}
               \cup Resuming \cup NoneRetained \cup DroppedSeveral

BaseRequired == {"id", "ts", "source", "kind", "severity", "summary"}

\* Variant: an event may come without a severity.
BaseRequiredLoose == BaseRequired \ {"severity"}

Required == BaseRequired

BaseEvent(obj) ==
  /\ Has(obj, Required) /\ HasOnly(obj, BaseRequired \cup {"data"})
  /\ Each(obj, "id", EventIds) /\ Each(obj, "ts", {"instant"})
  /\ Each(obj, "source", {"slug"}) /\ Each(obj, "kind", {"gap", "overflow", "other"})
  /\ Each(obj, "severity", Severities) /\ Each(obj, "summary", Summaries)
  /\ "data" \in DOMAIN obj => obj.data.type = "object"

\* The fields of data, none if it is not an object.
DataOf(obj) == IF "data" \in DOMAIN obj THEN obj.data.fields ELSE <<>>

IsMarker(obj) ==
  "data" \in DOMAIN obj /\ DataOf(obj) = [projected |-> "true"]

\* Variant: the marker is not reserved.
WatcherEventUnmarked(obj) == BaseEvent(obj) /\ Get(obj, "id") \notin SyntheticIDs

WatcherEvent(obj) ==
  BaseEvent(obj) /\ Get(obj, "id") \notin SyntheticIDs /\ ~IsMarker(obj)

\* What the two service records share.
ServiceRecord(obj, kind) ==
  /\ BaseEvent(obj)
  /\ obj.id \in WellFormedIDs(kind) /\ obj.kind = kind /\ obj.severity = "warn"
  /\ "data" \in DOMAIN obj

GapEvent(obj) ==
  LET d == DataOf(obj)
      retained == obj.summary \in Resuming /\ Has(d, {"first_available_id"})
      emptied == /\ obj.summary \in NoneRetained
                 /\ Has(d, {"last_removed_id"}) /\ HasNone(d, {"first_available_id"})
  IN  /\ ServiceRecord(obj, "gap")
      /\ Has(d, {"cursor_id", "last_id"})
      /\ HasOnly(d, {"cursor_id", "last_id", "last_removed_id", "first_available_id"})
      /\ Each(d, "cursor_id", {"text"}) /\ Each(d, "last_id", {"text", "null"})
      /\ Each(d, "last_removed_id", {"text"}) /\ Each(d, "first_available_id", {"text"})
      /\ retained # emptied

DroppedFields == {"dropped_count", "first_dropped_id", "last_dropped_id"}
FingerprintFields == {"fingerprint", "fingerprint_scope"}
FingerprintReasons == {"line_limit_exceeded", "malformed_line"}

\* Variant: the reason and dropped_ids_known are not compared.
ReasonAgreesAlways(d) == TRUE

\* A line that could not be read has no IDs, the others have.
ReasonAgrees(d) ==
  IF Get(d, "reason") \in FingerprintReasons
    THEN Each(d, "dropped_ids_known", {"false"})
    ELSE Each(d, "dropped_ids_known", {"true"})

OverflowData(d) ==
  /\ Has(d, {"reason", "dropped_ids_known"})
  /\ HasOnly(d, {"reason", "dropped_ids_known"} \cup DroppedFields \cup FingerprintFields)
  /\ Each(d, "reason", {"pending_bytes_exceeded"} \cup FingerprintReasons)
  /\ Each(d, "dropped_ids_known", {"true", "false"})
  /\ Each(d, "dropped_count", {"1", "2", "3"})
  /\ Each(d, "first_dropped_id", {"text"}) /\ Each(d, "last_dropped_id", {"text"})
  /\ Each(d, "fingerprint", {"text"}) /\ Each(d, "fingerprint_scope", {"full", "prefix"})
  /\ IF Each(d, "dropped_ids_known", {"true"})
       THEN Has(d, DroppedFields) /\ HasNone(d, FingerprintFields)
       ELSE Has(d, FingerprintFields) /\ HasNone(d, DroppedFields)
  /\ ReasonAgrees(d)
  /\ Get(d, "fingerprint_scope") = "prefix" => Each(d, "reason", {"line_limit_exceeded"})

\* The summary is coupled to the reason and to the count's grammatical number,
\* not to the count: no schema compares two fields.
OverflowSummary(summary, d) ==
  /\ summary \in {"dropped 1", "oversized line", "malformed line"} \cup DroppedSeveral
  /\ Get(d, "reason") = "pending_bytes_exceeded" => summary \in {"dropped 1"} \cup DroppedSeveral
  /\ Get(d, "reason") = "line_limit_exceeded" => summary = "oversized line"
  /\ Get(d, "reason") = "malformed_line" => summary = "malformed line"
  /\ Get(d, "dropped_count") = "1" => summary = "dropped 1"
  /\ Get(d, "dropped_count") \in {"2", "3"} => summary \in DroppedSeveral

OverflowEvent(obj) ==
  /\ ServiceRecord(obj, "overflow")
  /\ OverflowData(DataOf(obj))
  /\ OverflowSummary(obj.summary, DataOf(obj))

-----------------------------------------------------------------------------
(* event.go *)

\* Variant: the two schemas of an ordinary event are swapped.
OrdinarySchemaSwapped(p, obj) ==
  IF p = "WatcherInput" THEN BaseEvent(obj) ELSE WatcherEvent(obj)

\* Delivery output may carry the projection marker.
OrdinarySchema(p, obj) ==
  IF p = "DeliveryRecord" THEN BaseEvent(obj) ELSE WatcherEvent(obj)

\* profileSchema and the validation against the schema it picks.  Where it
\* returns an error the value is refused.
ProfileSchema(p, id, obj) ==
  /\ p \in {"WatcherInput", "SpoolRecord", "DeliveryRecord"}
  /\ IF id \notin SyntheticIDs
       THEN OrdinarySchema(p, obj)
       ELSE \/ /\ p # "WatcherInput" /\ id \in OverflowPrefixed
               /\ OverflowEvent(obj)
            \/ /\ p = "DeliveryRecord" /\ id \in GapPrefixed
               /\ GapEvent(obj)

\* parseTimestamp: the calendar and the one encoding of an instant.
ParseTimestamp(ts) == ts = "instant"

\* The fields of Event that are read with an unchecked type assertion.
Asserted == {"ts", "source", "kind", "severity", "summary"}

Refused == [outcome |-> "error"]

\* The raw bound and the single line, both before decoding.
Fits(l, max) ==
  l.size <= (IF max <= 0 THEN DefaultMaxEventBytes ELSE max) /\ ~l.newlineInside

ParseEventLine(l, max, p) ==
  LET id == IF Get(l.obj, "id") \in {Absent, "number"} THEN "" ELSE l.obj.id
  IN  IF ~Fits(l, max) \/ l.json # "object" \/ ~ProfileSchema(p, id, l.obj) THEN Refused
      ELSE IF \E f \in Asserted : Get(l.obj, f) \in {Absent, "number"}
        THEN [outcome |-> "panic"]
      ELSE IF ~ParseTimestamp(l.obj.ts) THEN Refused
      ELSE [outcome |-> "event", event |-> l.obj, warned |-> l.obj.summary = "long"]

ParseInit ==
  /\ line \in Lines /\ limit \in Limits /\ profile \in Profiles
  /\ result = <<>>

Parse ==
  /\ result = <<>>
  /\ result' = <<ParseEventLine(line, limit, profile)>>
  /\ UNCHANGED <<line, limit, profile>>

ParseSpec == ParseInit /\ [][Parse]_parseVars

-----------------------------------------------------------------------------
Accepts(p) == ParseEventLine(line, limit, p).outcome = "event"
Accepted == result # <<>> /\ result[1].outcome = "event"

\* What a stream admits the streams downstream of it admit: a watcher's line
\* can be spooled and read back, and a spool's line delivered.
StreamsNest ==
  Accepted => /\ profile = "WatcherInput" => Accepts("SpoolRecord")
              /\ profile = "SpoolRecord" => Accepts("DeliveryRecord")

\* The records docs/event-contract.md gives the service, by what their data
\* holds and which template their summary follows.
DocumentedOverflow(d, summary) ==
  \/ /\ DOMAIN d = {"reason", "dropped_ids_known"} \cup DroppedFields
     /\ d.reason = "pending_bytes_exceeded" /\ d.dropped_ids_known = "true"
     /\ d.first_dropped_id = "text" /\ d.last_dropped_id = "text"
     /\ \/ d.dropped_count = "1" /\ summary = "dropped 1"
        \/ d.dropped_count \in {"2", "3"} /\ summary \in DroppedSeveral
  \/ /\ DOMAIN d = {"reason", "dropped_ids_known"} \cup FingerprintFields
     /\ d.dropped_ids_known = "false" /\ d.fingerprint = "text"
     /\ <<d.reason, d.fingerprint_scope, summary>> \in
          {<<"line_limit_exceeded", "full", "oversized line">>,
           <<"line_limit_exceeded", "prefix", "oversized line">>,
           <<"malformed_line", "full", "malformed line">>}

DocumentedGap(d, summary) ==
  LET always == {"cursor_id", "last_id"}
  IN  /\ \/ /\ summary \in Resuming
            /\ DOMAIN d \in {always \cup {"first_available_id"},
                             always \cup {"first_available_id", "last_removed_id"}}
         \/ /\ summary \in NoneRetained
            /\ DOMAIN d = always \cup {"last_removed_id"}
      /\ d.last_id \in {"text", "null"}
      /\ \A f \in DOMAIN d \ {"last_id"} : d[f] = "text"

DocumentedShape(obj, p) ==
  /\ obj.severity = "warn" /\ "data" \in DOMAIN obj
  /\ \/ /\ obj.id \in WellFormedIDs("overflow") /\ obj.kind = "overflow"
        /\ p \in {"SpoolRecord", "DeliveryRecord"}
        /\ DocumentedOverflow(obj.data.fields, obj.summary)
     \/ /\ obj.id \in WellFormedIDs("gap") /\ obj.kind = "gap"
        /\ p = "DeliveryRecord"
        /\ DocumentedGap(obj.data.fields, obj.summary)

\* The rest of what docs/event-contract.md says of a service record: what its ID
\* and its summary repeat of its other fields is what these hold.
Renders(obj) ==
  /\ obj.id \in {"overflow", "gap"}
  /\ obj.summary \notin {"resuming others", "none retained others"}
  /\ <<Get(DataOf(obj), "dropped_count"), obj.summary>> \notin
       {<<"2", "dropped 3">>, <<"3", "dropped 2">>}

\* A record that claims the reserved prefix is accepted exactly when the
\* contract documents its shape for the stream: a spool holds overflow records
\* and never a gap, delivery output holds both, a watcher writes neither; the
\* fields are those of the reason or of the variant, the summary follows their
\* template and the ID its grammar.  So no record the contract documents is
\* refused.  Of the ones it does not, those pass whose ID or summary repeats
\* another number, ID, source or digest than the record's: see RecordsRender.
ServiceRecordShapes ==
  /\ result # <<>> /\ Fits(line, limit) /\ line.json = "object"
  /\ BaseEvent(line.obj) /\ line.obj.id \in SyntheticIDs
  => (Accepted <=> DocumentedShape(line.obj, profile))

\* Only records the contract documents are accepted under the reserved prefix:
\* the summary of an overflow says its dropped_count and its ID names its
\* source, the summary of a gap names the IDs in its data and its ID is their
\* digest.
RecordsRender == Accepted /\ line.obj.id \in SyntheticIDs => Renders(line.obj)

\* A payload never passes for a projection: data that is the reserved marker is
\* accepted in delivery output only.
MarkerReserved == Accepted /\ IsMarker(line.obj) => profile = "DeliveryRecord"

\* The type assertions after the schema validation cannot fail.
NoPanic == result # <<>> => result[1].outcome # "panic"
=============================================================================
