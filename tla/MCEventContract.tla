-------------------------- MODULE MCEventContract --------------------------
(***************************************************************************)
(* Lines that are a service record with every well formed ID, summary and  *)
(* data, or have another ID and data of one of the kinds, and lines of     *)
(* these kinds with one field replaced, or left out, or of another size or *)
(* shape.                                                                  *)
(***************************************************************************)
EXTENDS EventContract, Functions

Some(names, f) == Restrict(f, names)

Payload(fields) == [type |-> "object", fields |-> fields]

MCGapFields(last) ==
  [cursor_id |-> "text", last_id |-> last, last_removed_id |-> "text",
   first_available_id |-> "text"]
MCGapData == UNION {{Some(names, MCGapFields(last)) : names \in SUBSET DOMAIN MCGapFields(last)} :
                      last \in {"text", "null", "bad"}}

MCOverflowFields ==
  [reason : {"pending_bytes_exceeded", "line_limit_exceeded", "malformed_line"},
   dropped_ids_known : {"true", "false"}, dropped_count : {"0", "1", "2", "3"},
   first_dropped_id : {"text"}, last_dropped_id : {"text"},
   fingerprint : {"text"}, fingerprint_scope : {"full", "prefix"}]
MCOverflowData ==
  UNION {{Some(names, f) : names \in SUBSET DOMAIN f} : f \in MCOverflowFields}

MCOtherData ==
  {Payload(d) : d \in {[projected |-> "true"], [projected |-> "true", more |-> "x"],
                       [more |-> "x"]}}
  \cup {[type |-> "other", fields |-> <<>>]}
MCData == {Payload(d) : d \in MCGapData \cup MCOverflowData} \cup MCOtherData

MCIDs == {"ordinary"} \cup SyntheticIDs

Event(id, kind, severity, summary) ==
  [id |-> id, ts |-> "instant", source |-> "slug", kind |-> kind,
   severity |-> severity, summary |-> summary]
With(obj, name, value) == [f \in DOMAIN obj \cup {name} |-> IF f = name THEN value ELSE obj[f]]
Without(obj, name) == Some(DOMAIN obj \ {name}, obj)

KindOf(id) == IF id \in OverflowPrefixed THEN "overflow"
              ELSE IF id \in GapPrefixed THEN "gap" ELSE "other"

\* One of each kind of record, to be disturbed in one field.
MCGood ==
  {Event("ordinary", "other", "info", "free"),
   With(Event("overflow", "overflow", "warn", "dropped 1"), "data",
        Payload([reason |-> "pending_bytes_exceeded", dropped_ids_known |-> "true",
                 dropped_count |-> "1", first_dropped_id |-> "text",
                 last_dropped_id |-> "text"])),
   With(Event("overflow", "overflow", "warn", "malformed line"), "data",
        Payload([reason |-> "malformed_line", dropped_ids_known |-> "false",
                 fingerprint |-> "text", fingerprint_scope |-> "full"])),
   With(Event("gap", "gap", "warn", "none retained"), "data",
        Payload(Without(MCGapFields("null"), "first_available_id")))}

MCWellFormed == WellFormedIDs("overflow") \cup WellFormedIDs("gap")
MCFewData == MCOtherData \cup {obj.data : obj \in {o \in MCGood : "data" \in DOMAIN o}}

Record(id, summary, d) == With(Event(id, KindOf(id), "warn", summary), "data", d)
MCObjects ==
  {Record(id, summary, d) : id \in MCWellFormed, summary \in Summaries, d \in MCData}
  \cup {Record(id, summary, d) :
          id \in MCIDs \ MCWellFormed, summary \in Summaries, d \in MCFewData}

MCFieldValues ==
  [id |-> MCIDs \cup {"bad", "number"},
   ts |-> {"instant", "fraction", "offset", "February 30", "number"},
   source |-> {"slug", "bad", "number"},
   kind |-> {"gap", "overflow", "other", "bad", "number"},
   severity |-> Severities \cup {"bad", "number"},
   summary |-> Summaries \cup {"bad", "number"},
   unknown |-> {"x"}]
MCDisturbed ==
  UNION {UNION {{With(obj, f, v) : v \in MCFieldValues[f]} : f \in DOMAIN MCFieldValues} :
           obj \in MCGood}
  \cup {Without(obj, f) : obj \in MCGood, f \in BaseRequired \cup {"data"}}
  \cup UNION {{With(obj, "data", Payload(With(obj.data.fields, f, "bad"))) :
                 f \in DOMAIN obj.data.fields} : obj \in {o \in MCGood : "data" \in DOMAIN o}}

Line(size, newline, json, obj) ==
  [size |-> size, newlineInside |-> newline, json |-> json, obj |-> obj]
MCLines ==
  {Line(1, FALSE, "object", obj) : obj \in MCObjects \cup MCDisturbed}
  \cup {Line(size, newline, "object", obj) :
          size \in 0..4, newline \in BOOLEAN, obj \in MCGood}
  \cup {Line(1, FALSE, json, <<>>) : json \in {"other", "refused"}}
=============================================================================
