------------------------ MODULE SchemaTracebackProofs ------------------------
(***************************************************************************)
(* Proof that validate_schema.py ends in a traceback only on an input that *)
(* cannot be validated: a file open() or the decoder rejects, or a         *)
(* document that is not of the shape spec.md 7 requires, or one with a     *)
(* hot key that has no type (line 177).                                    *)
(*                                                                         *)
(* TracebackOnlyOnMalformed speaks of the file, while each raise site      *)
(* tests schema_data at the statement it reaches.  TInv ties the two: a   *)
(* statement past _load_schema runs only on a YAML file, and there         *)
(* schema_data is that file's document.  Each raise condition is then a   *)
(* clause of Structural that fails for the document, or the untyped hot    *)
(* key.  The loops need IInv: the section they walk is a mapping, so the   *)
(* index is one of its positions.                                          *)
(***************************************************************************)
EXTENDS SchemaValidatorProofs

\* the statements that run only on a file yaml.safe_load has read
AfterLoad == {"version"} \cup AfterVersion

TInv ==
  /\ pc # "load" /\ file.kind = "yaml" => schema_data = file.data
  /\ pc \in AfterLoad => file.kind = "yaml"
  /\ TracebackOnlyOnMalformed

-----------------------------------------------------------------------------
(* Lemmas on the helpers.                                                  *)

\* _validate_type raises (re.match on a non-str) only for a type that is
\* not a string
LEMMA TypeRaise ==
  ASSUME NEW x, NEW c, ValidateType(x, c) = "raise"
  PROVE  x.t # "str"
BY DEF ValidateType

\* a key spec on which the loop of _validate_datastore_keys raises is not
\* of the shape spec.md 7 asks for
LEMMA KeyRaisesMalformed ==
  ASSUME NEW spec, KeyRaises(spec)
  PROVE  ~Contract!WellFormedKey(spec)
<1>1. CASE spec.t = "null"
  BY <1>1 DEF Contract!WellFormedKey
<1>2. CASE HasKey(spec, "type") /\ ValidateType(spec.d["type"], custom_types) = "raise"
  <2>1. spec.d["type"].t # "str"
    BY <1>2, TypeRaise
  <2>2. QED
    BY <1>2, <2>1 DEF Contract!WellFormedKey, Contract!HasKey, HasKey
<1>3. CASE HasKey(spec, "type") /\ HasKey(spec, "access") /\ spec.d["access"].t # "dict"
  BY <1>3 DEF Contract!WellFormedKey, Contract!HasKey, HasKey
<1>4. QED
  BY <1>1, <1>2, <1>3 DEF KeyRaises

\* a step that leaves the file and the document alone and raises only
\* from a malformed input keeps TInv
LEMMA QuietStep ==
  ASSUME TInv, pc # "load", file' = file, schema_data' = schema_data,
         pc' \in AfterLoad => pc \in AfterLoad,
         pc' = "raised" => pc = "raised" \/ TracebackOnlyOnMalformed!2
  PROVE  TInv'
<1>1. (pc' # "load" /\ file'.kind = "yaml" => schema_data' = file'.data)
  BY DEF TInv
<1>2. pc' \in AfterLoad => file'.kind = "yaml"
  BY DEF TInv
<1>3. TracebackOnlyOnMalformed'
  BY DEF TInv, TracebackOnlyOnMalformed
<1>4. QED
  BY <1>1, <1>2, <1>3 DEF TInv

-----------------------------------------------------------------------------
(* One lemma per action.                                                   *)

LEMMA InitTInv == Init => TInv
BY DEF Init, TInv, TracebackOnlyOnMalformed, AfterLoad, AfterVersion

\* _load_schema: a file open() or the decoder rejects raises; a YAML file
\* becomes schema_data
LEMMA LoadTInv == TInv /\ LoadSchema => TInv'
<1> SUFFICES ASSUME TInv, LoadSchema PROVE TInv'
  OBVIOUS
<1>1. CASE file.kind = "unreadable"
  BY <1>1 DEF LoadSchema, Raise, TInv, TracebackOnlyOnMalformed, AfterLoad, AfterVersion
<1>2. CASE file.kind # "unreadable"
  <2>1. file' = file /\ pc' # "raised"
    BY <1>2 DEF LoadSchema
  <2>2. file.kind = "yaml" => schema_data' = file.data /\ pc' = "version"
    BY <1>2 DEF LoadSchema
  <2>3. file.kind # "yaml" => pc' = "print"
    BY <1>2 DEF LoadSchema
  <2>4. QED
    BY <2>1, <2>2, <2>3 DEF TInv, TracebackOnlyOnMalformed, AfterLoad, AfterVersion
<1>3. QED
  BY <1>1, <1>2

\* a statement past the load runs on a YAML file whose document is
\* schema_data
LEMMA PastLoad ==
  ASSUME TInv, pc \in AfterLoad
  PROVE  file.kind = "yaml" /\ schema_data = file.data
BY DEF TInv, AfterLoad, AfterVersion

\* _validate_schema_version raises on an empty file and on a version
\* that is not a string
LEMMA VersionTInv == TInv /\ ValidateSchemaVersion => TInv'
<1> SUFFICES ASSUME TInv, ValidateSchemaVersion PROVE TInv'
  OBVIOUS
<1>1. pc = "version" /\ file' = file /\ schema_data' = schema_data
  BY DEF ValidateSchemaVersion, Raise
<1>2. pc' = "raised" => TracebackOnlyOnMalformed!2
  <2> SUFFICES ASSUME pc' = "raised" PROVE TracebackOnlyOnMalformed!2
    OBVIOUS
  <2>1. file.kind = "yaml" /\ schema_data = file.data
    BY <1>1, PastLoad DEF AfterLoad
  <2>2. schema_data.t = "null" \/ (HasKey(schema_data, "schema_version") /\
                                  schema_data.d["schema_version"].t # "str")
    BY <1>1 DEF ValidateSchemaVersion
  <2>3. ~Contract!Structural(file.data)
    BY <2>1, <2>2 DEF Contract!Structural, Contract!HasKey, HasKey
  <2>4. QED
    BY <2>1, <2>3
<1>3. QED
  BY <1>1, <1>2, QuietStep DEF AfterLoad

\* _load_custom_types raises on a types section that is not a dict
LEMMA TypesTInv == TInv /\ LoadCustomTypes => TInv'
<1> SUFFICES ASSUME TInv, LoadCustomTypes PROVE TInv'
  OBVIOUS
<1>1. pc = "types" /\ file' = file /\ schema_data' = schema_data
  BY DEF LoadCustomTypes, Raise
<1>2. pc' = "raised" => TracebackOnlyOnMalformed!2
  <2> SUFFICES ASSUME pc' = "raised" PROVE TracebackOnlyOnMalformed!2
    OBVIOUS
  <2>1. file.kind = "yaml" /\ schema_data = file.data
    BY <1>1, PastLoad DEF AfterLoad, AfterVersion
  <2>2. HasKey(schema_data, "types") /\ schema_data.d["types"].t # "dict"
    BY <1>1 DEF LoadCustomTypes
  <2>3. ~Contract!Structural(file.data)
    BY <2>1, <2>2 DEF Contract!Structural, Contract!HasKey, HasKey
  <2>4. QED
    BY <2>1, <2>3
<1>3. QED
  BY <1>1, <1>2, QuietStep DEF AfterLoad, AfterVersion

\* _validate_datastore_keys raises on a section that is not a mapping
LEMMA KeysTInv == TInv /\ ValidateDatastoreKeys => TInv'
<1> SUFFICES ASSUME TInv, ValidateDatastoreKeys PROVE TInv'
  OBVIOUS
<1>1. pc = "keys" /\ file' = file /\ schema_data' = schema_data
  BY DEF ValidateDatastoreKeys, Raise
<1>2. pc' = "raised" => TracebackOnlyOnMalformed!2
  <2> SUFFICES ASSUME pc' = "raised" PROVE TracebackOnlyOnMalformed!2
    OBVIOUS
  <2>1. file.kind = "yaml" /\ schema_data = file.data
    BY <1>1, PastLoad DEF AfterLoad, AfterVersion
  <2>2. HasKey(schema_data, "datastore_keys") /\ Keys.t # "map"
    BY <1>1 DEF ValidateDatastoreKeys
  <2>3. ~Contract!Structural(file.data)
    BY <2>1, <2>2 DEF Contract!Structural, Contract!HasKey, HasKey, Keys
  <2>4. QED
    BY <2>1, <2>3
<1>3. QED
  BY <1>1, <1>2, QuietStep DEF AfterLoad, AfterVersion

\* _validate_eventbus_events raises on a section that is not a mapping
LEMMA EventsTInv == TInv /\ ValidateEventbusEvents => TInv'
<1> SUFFICES ASSUME TInv, ValidateEventbusEvents PROVE TInv'
  OBVIOUS
<1>1. pc = "events" /\ file' = file /\ schema_data' = schema_data
  BY DEF ValidateEventbusEvents, Raise
<1>2. pc' = "raised" => TracebackOnlyOnMalformed!2
  <2> SUFFICES ASSUME pc' = "raised" PROVE TracebackOnlyOnMalformed!2
    OBVIOUS
  <2>1. file.kind = "yaml" /\ schema_data = file.data
    BY <1>1, PastLoad DEF AfterLoad, AfterVersion
  <2>2. HasKey(schema_data, "eventbus_events") /\ Events.t # "map"
    BY <1>1 DEF ValidateEventbusEvents
  <2>3. ~Contract!Structural(file.data)
    BY <2>1, <2>2 DEF Contract!Structural, Contract!HasKey, HasKey, Events
  <2>4. QED
    BY <2>1, <2>3
<1>3. QED
  BY <1>1, <1>2, QuietStep DEF AfterLoad, AfterVersion

\* inside the key and hot-key loops, the index names a position of the
\* datastore_keys mapping of the file's document
LEMMA KeyPosition ==
  ASSUME IInv, TInv, pc \in {"keyLoop", "hotLoop"}, ~(idx > Len(Keys.m))
  PROVE  /\ file.kind = "yaml" /\ schema_data = file.data
         /\ HasKey(file.data, "datastore_keys")
         /\ file.data.d["datastore_keys"].t = "map"
         /\ idx \in DOMAIN file.data.d["datastore_keys"].m
<1>1. file.kind = "yaml" /\ schema_data = file.data
  BY PastLoad DEF AfterLoad, AfterVersion
<1>2. HasKey(schema_data, "datastore_keys") /\ Keys.t = "map" /\ schema_data.t = "dict"
  BY DEF IInv, AfterKeys, AfterVersion
<1>3. IsMappingOf(Keys, KeyNames)
  BY <1>2 DEF IInv, DataShape, Keys
<1>4. DOMAIN Keys.m = 1..Len(Keys.m) /\ idx \in Nat \ {0}
  BY <1>2, <1>3 DEF IsMappingOf, IInv, TypeOK
<1>5. idx \in DOMAIN Keys.m
  BY <1>4
<1>6. QED
  BY <1>1, <1>2, <1>5 DEF Keys

\* the loop of _validate_datastore_keys raises on a spec that is null, a
\* type that is not a string or an access that is not a dict
LEMMA KeyLoopTInv == IInv /\ TInv /\ DatastoreKeysLoop => TInv'
<1> SUFFICES ASSUME IInv, TInv, DatastoreKeysLoop PROVE TInv'
  OBVIOUS
<1>1. pc = "keyLoop" /\ file' = file /\ schema_data' = schema_data
  BY DEF DatastoreKeysLoop, Raise
<1>2. pc' = "raised" => TracebackOnlyOnMalformed!2
  <2> SUFFICES ASSUME pc' = "raised" PROVE TracebackOnlyOnMalformed!2
    OBVIOUS
  <2>1. ~(idx > Len(Keys.m)) /\ KeyRaises(ItemSpec(Keys, idx))
    BY <1>1 DEF DatastoreKeysLoop
  <2>2. /\ file.kind = "yaml" /\ schema_data = file.data
        /\ HasKey(file.data, "datastore_keys")
        /\ idx \in DOMAIN file.data.d["datastore_keys"].m
    BY <1>1, <2>1, KeyPosition
  <2>3. ~Contract!WellFormedKey(ItemSpec(file.data.d["datastore_keys"], idx))
    BY <2>1, <2>2, KeyRaisesMalformed DEF Keys
  <2>4. ~Contract!Structural(file.data)
    BY <2>2, <2>3 DEF Contract!Structural, Contract!HasKey, HasKey,
                      Contract!ItemSpec, ItemSpec
  <2>5. QED
    BY <2>2, <2>4
<1>3. QED
  BY <1>1, <1>2, QuietStep DEF AfterLoad, AfterVersion

\* the loop of _validate_eventbus_events raises on a null spec
LEMMA EventLoopTInv == IInv /\ TInv /\ EventbusEventsLoop => TInv'
<1> SUFFICES ASSUME IInv, TInv, EventbusEventsLoop PROVE TInv'
  OBVIOUS
<1>1. pc = "eventLoop" /\ file' = file /\ schema_data' = schema_data
  BY DEF EventbusEventsLoop, Raise
<1>2. pc' = "raised" => TracebackOnlyOnMalformed!2
  <2> SUFFICES ASSUME pc' = "raised" PROVE TracebackOnlyOnMalformed!2
    OBVIOUS
  <2>1. ~(idx > Len(Events.m)) /\ ItemSpec(Events, idx).t = "null"
    BY <1>1 DEF EventbusEventsLoop
  <2>2. file.kind = "yaml" /\ schema_data = file.data
    BY <1>1, PastLoad DEF AfterLoad, AfterVersion
  <2>3. HasKey(schema_data, "eventbus_events") /\ Events.t = "map" /\ schema_data.t = "dict"
    BY <1>1 DEF IInv, AfterVersion
  <2>4. IsMappingOf(Events, EventNames)
    BY <2>3 DEF IInv, DataShape, Events
  <2>5. DOMAIN Events.m = 1..Len(Events.m) /\ idx \in Nat \ {0}
    BY <2>3, <2>4 DEF IsMappingOf, IInv, TypeOK
  <2>6. idx \in DOMAIN Events.m
    BY <2>1, <2>5
  <2>7. ~Contract!Structural(file.data)
    BY <2>1, <2>2, <2>3, <2>6 DEF Contract!Structural, Contract!HasKey, HasKey,
                                  Contract!ItemSpec, ItemSpec, Events
  <2>8. QED
    BY <2>2, <2>7
<1>3. QED
  BY <1>1, <1>2, QuietStep DEF AfterLoad, AfterVersion

\* the loop of _validate_hot_keys raises on a hot key without a type
LEMMA HotLoopTInv == IInv /\ TInv /\ HotKeysLoop => TInv'
<1> SUFFICES ASSUME IInv, TInv, HotKeysLoop PROVE TInv'
  OBVIOUS
<1>1. pc = "hotLoop" /\ file' = file /\ schema_data' = schema_data
  BY DEF HotKeysLoop, Raise
<1>2. pc' = "raised" => TracebackOnlyOnMalformed!2
  <2> SUFFICES ASSUME pc' = "raised" PROVE TracebackOnlyOnMalformed!2
    OBVIOUS
  <2> DEFINE spec == ItemSpec(file.data.d["datastore_keys"], idx)
  <2>1. ~(idx > Len(Keys.m)) /\ IsHot(idx) /\ ~HasKey(ItemSpec(Keys, idx), "type")
    BY <1>1 DEF HotKeysLoop
  <2>2. /\ file.kind = "yaml" /\ schema_data = file.data
        /\ HasKey(file.data, "datastore_keys")
        /\ file.data.d["datastore_keys"].t = "map"
        /\ idx \in DOMAIN file.data.d["datastore_keys"].m
    BY <1>1, <2>1, KeyPosition
  <2>3. Truthy(Get(spec, "hot_key", PyBool(FALSE))) /\ ~HasKey(spec, "type")
    BY <2>1, <2>2 DEF IsHot, Keys
  <2>4. CASE spec.t = "dict"
    <3>1. HasUntypedHotKey(file.data)
      BY <2>2, <2>3, <2>4 DEF HasUntypedHotKey
    <3>2. QED
      BY <2>2, <3>1
  <2>5. CASE spec.t # "dict"
    <3>1. ~Contract!WellFormedKey(spec)
      BY <2>5 DEF Contract!WellFormedKey
    <3>2. ~Contract!Structural(file.data)
      BY <2>2, <3>1 DEF Contract!Structural, Contract!HasKey, HasKey,
                        Contract!ItemSpec, ItemSpec
    <3>3. QED
      BY <2>2, <3>2
  <2>6. QED
    BY <2>4, <2>5
<1>3. QED
  BY <1>1, <1>2, QuietStep DEF AfterLoad, AfterVersion

\* the hot-key count check, print_results() and the end never raise
LEMMA HotTInv == TInv /\ ValidateHotKeys => TInv'
BY QuietStep DEF ValidateHotKeys, AfterLoad, AfterVersion

LEMMA PrintTInv == TInv /\ PrintResults => TInv'
BY QuietStep DEF PrintResults, AfterLoad, AfterVersion

LEMMA EndTInv == TInv /\ (Terminated \/ UNCHANGED vars) => TInv'
BY DEF TInv, TracebackOnlyOnMalformed, Terminated, vars

LEMMA NextTInv == IInv /\ TInv /\ [Next]_vars => TInv'
<1> SUFFICES ASSUME IInv, TInv, [Next]_vars PROVE TInv'
  OBVIOUS
<1>1. CASE LoadSchema BY <1>1, LoadTInv
<1>2. CASE ValidateSchemaVersion BY <1>2, VersionTInv
<1>3. CASE LoadCustomTypes BY <1>3, TypesTInv
<1>4. CASE ValidateDatastoreKeys BY <1>4, KeysTInv
<1>5. CASE DatastoreKeysLoop BY <1>5, KeyLoopTInv
<1>6. CASE ValidateEventbusEvents BY <1>6, EventsTInv
<1>7. CASE EventbusEventsLoop BY <1>7, EventLoopTInv
<1>8. CASE ValidateHotKeys BY <1>8, HotTInv
<1>9. CASE HotKeysLoop BY <1>9, HotLoopTInv
<1>10. CASE PrintResults BY <1>10, PrintTInv
<1>11. CASE Terminated \/ UNCHANGED vars BY <1>11, EndTInv
<1>12. QED
  BY <1>1, <1>2, <1>3, <1>4, <1>5, <1>6, <1>7, <1>8, <1>9, <1>10, <1>11 DEF Next

-----------------------------------------------------------------------------
(* For every set of inputs of the assumed shape and every MAX_HOT_KEYS,    *)
(* main() ends in a traceback only on a file it cannot open or decode, a   *)
(* document not of the shape spec.md 7 requires, or one with a hot key     *)
(* that has no type (line 177): a well-formed document always reaches      *)
(* print_results().                                                        *)
THEOREM TracebackOnlyMalformed == Spec => []TracebackOnlyOnMalformed
<1>1. Init => IInv /\ TInv
  BY InitIInv, InitTInv
<1>2. IInv /\ TInv /\ [Next]_vars => IInv' /\ TInv'
  BY NextIInv, NextTInv
<1>3. TInv => TracebackOnlyOnMalformed
  BY DEF TInv
<1>4. QED
  BY <1>1, <1>2, <1>3, PTL DEF Spec

=============================================================================
