------------------------ MODULE SchemaValidatorProofs ------------------------
(***************************************************************************)
(* Proofs about SchemaValidator for every value of the constants.          *)
(*                                                                         *)
(* TypeOK is not inductive by itself: the loops read the names of the     *)
(* document's sections, and a name is in KeyNames or EventNames only       *)
(* because the section the loop walks is a dict of the loaded document,    *)
(* which yaml.safe_load shaped (InputsAssumption).  IInv adds what the     *)
(* steps before a loop established: the loaded document keeps its shape,   *)
(* it is a dict once the version check has passed, and a loop runs only    *)
(* over a section that is present and a mapping.                          *)
(***************************************************************************)
EXTENDS SchemaValidator, SequenceTheorems, TLAPS

\* the statements reached only after the version check found a dict
AfterVersion == {"types", "keys", "keyLoop", "events", "eventLoop", "hot", "hotLoop"}

\* the statements reached only after the datastore_keys check
AfterKeys == {"keyLoop", "events", "eventLoop", "hot", "hotLoop"}

IInv ==
  /\ TypeOK
  /\ DataShape(schema_data)
  /\ pc \in AfterVersion => schema_data.t = "dict"
  /\ pc \in AfterKeys => (HasKey(schema_data, "datastore_keys") => Keys.t = "map")
  /\ pc \in {"keyLoop", "hotLoop"} => HasKey(schema_data, "datastore_keys")
  /\ pc = "eventLoop" => HasKey(schema_data, "eventbus_events") /\ Events.t = "map"

-----------------------------------------------------------------------------
(* Lemmas on the helpers.                                                  *)

\* _validate_type returns one of its four outcomes
LEMMA ValidateTypeOutcome ==
  ASSUME NEW x, NEW c
  PROVE  ValidateType(x, c) \in {"ok", "raise", "InvalidArrayElement", "UnknownType"}
BY DEF ValidateType

\* a diagnostic of a kind and a name of the model is one of Diagnostics
LEMMA DiagType ==
  ASSUME NEW k \in ErrorKinds \cup WarningKinds,
         NEW n \in KeyNames \cup EventNames \cup {NoName}
  PROVE  Diag(k, n) \in Diagnostics
BY DEF Diag, Diagnostics

\* a list of at most one diagnostic, chosen by a condition
LEMMA OptionalDiag ==
  ASSUME NEW k \in ErrorKinds, NEW n \in KeyNames \cup EventNames \cup {NoName},
         NEW c
  PROVE  (IF c THEN <<Diag(k, n)>> ELSE <<>>) \in Seq(Diagnostics)
<1>1. <<Diag(k, n)>> \in Seq(Diagnostics)
  BY DiagType
<1>2. <<>> \in Seq(Diagnostics)
  OBVIOUS
<1>3. QED
  BY <1>1, <1>2

\* the errors one iteration of the key loop appends are diagnostics
LEMMA KeyErrorsType ==
  ASSUME NEW name \in KeyNames, NEW spec, ~KeyRaises(spec)
  PROVE  KeyErrors(name, spec) \in Seq(Diagnostics)
<1> DEFINE dup == IF name \in key_names THEN <<Diag("DuplicateKey", name)>> ELSE <<>>
           vt == ValidateType(spec.d["type"], custom_types)
           typeErr == IF vt = "ok" THEN <<>> ELSE <<Diag(vt, name)>>
           acc == spec.d["access"]
           accErr == IF HasKey(spec, "access") /\
                        Truthy(Get(acc, "rt_write", PyBool(FALSE))) /\
                        ~Truthy(Get(acc, "rt_read", PyBool(FALSE)))
                     THEN <<Diag("InconsistentAccess", name)>> ELSE <<>>
<1>1. dup \in Seq(Diagnostics)
  BY OptionalDiag DEF ErrorKinds
<1>2. accErr \in Seq(Diagnostics)
  BY OptionalDiag DEF ErrorKinds
<1>3. <<Diag("MissingType", name)>> \in Seq(Diagnostics)
  BY DiagType DEF ErrorKinds
<1>4. CASE ~HasKey(spec, "type")
  <2>1. KeyErrors(name, spec) = dup \o <<Diag("MissingType", name)>>
    BY <1>4 DEF KeyErrors
  <2>2. QED
    BY <1>1, <1>3, <2>1, ConcatProperties
<1>5. CASE HasKey(spec, "type")
  <2>1. vt \in {"ok", "InvalidArrayElement", "UnknownType"}
    BY <1>5, ValidateTypeOutcome DEF KeyRaises
  <2>2. typeErr \in Seq(Diagnostics)
    <3>1. CASE vt = "ok"
      BY <3>1
    <3>2. CASE vt # "ok"
      BY <2>1, <3>2, DiagType DEF ErrorKinds
    <3>3. QED
      BY <3>1, <3>2
  <2>3. KeyErrors(name, spec) = dup \o typeErr \o accErr
    BY <1>5 DEF KeyErrors
  <2>4. dup \o typeErr \in Seq(Diagnostics)
    BY <1>1, <2>2, ConcatProperties
  <2>5. QED
    BY <1>2, <2>3, <2>4, ConcatProperties
<1>6. QED
  BY <1>4, <1>5

\* the errors one iteration of the event loop appends are diagnostics
LEMMA EventErrorsType ==
  ASSUME NEW name \in EventNames, NEW spec
  PROVE  EventErrors(name, spec) \in Seq(Diagnostics)
<1> DEFINE dup == IF name \in event_names THEN <<Diag("DuplicateEvent", name)>>
                  ELSE <<>>
           prio == IF HasKey(spec, "priority") /\
                      spec.d["priority"] \notin {Lit(p) : p \in PRIORITIES}
                   THEN <<Diag("InvalidPriority", name)>> ELSE <<>>
           ttl == spec.d["ttl_ms"]
           ttlErr == IF HasKey(spec, "ttl_ms") /\ ttl # PyNull /\
                        (~IsNumber(ttl) \/ LeqZero(ttl))
                     THEN <<Diag("InvalidTtl", name)>> ELSE <<>>
<1>1. /\ dup \in Seq(Diagnostics)
      /\ prio \in Seq(Diagnostics)
      /\ ttlErr \in Seq(Diagnostics)
  BY OptionalDiag DEF ErrorKinds
<1>2. EventErrors(name, spec) = dup \o prio \o ttlErr
  BY DEF EventErrors
<1>3. dup \o prio \in Seq(Diagnostics)
  BY <1>1, ConcatProperties
<1>4. QED
  BY <1>1, <1>2, <1>3, ConcatProperties

\* the error one iteration of the size loop appends is a diagnostic
LEMMA HotKeySizeErrorType ==
  ASSUME NEW name \in KeyNames, NEW spec, NEW limit
  PROVE  HotKeySizeError(name, spec, limit) \in Seq(Diagnostics)
BY OptionalDiag DEF HotKeySizeError, ErrorKinds

\* the i-th name of a section walked by a loop is a name of the model
LEMMA SectionName ==
  ASSUME NEW x, NEW Names, IsMappingOf(x, Names), x.t = "map",
         NEW i \in Nat \ {0}, ~(i > Len(x.m))
  PROVE  ItemName(x, i) \in Names
BY DEF IsMappingOf

\* the empty document self.schema_data starts as
LEMMA EmptyDictShape == DataShape(EmptyDict)
BY DEF DataShape, EmptyDict, Dict, HasKey

-----------------------------------------------------------------------------
(* The inductive invariant.                                                *)

\* Init establishes IInv
LEMMA InitIInv == Init => IInv
BY EmptyDictShape DEF Init, IInv, TypeOK, Files, Loaded, PCs, AfterVersion, AfterKeys

\* an uncaught exception keeps IInv: it changes only pc and the status
LEMMA RaiseIInv == IInv /\ Raise => IInv'
BY DEF IInv, TypeOK, Raise, AfterVersion, AfterKeys, PCs


\* the names a loop reads: a present section of the dict self.schema_data
\* is a mapping of names of the model
LEMMA KeysName ==
  ASSUME DataShape(schema_data), schema_data.t = "dict",
         HasKey(schema_data, "datastore_keys"), Keys.t = "map",
         NEW i \in Nat \ {0}, ~(i > Len(Keys.m))
  PROVE  ItemName(Keys, i) \in KeyNames
BY SectionName DEF DataShape, Keys

LEMMA EventsName ==
  ASSUME DataShape(schema_data), schema_data.t = "dict",
         HasKey(schema_data, "eventbus_events"), Events.t = "map",
         NEW i \in Nat \ {0}, ~(i > Len(Events.m))
  PROVE  ItemName(Events, i) \in EventNames
BY SectionName DEF DataShape, Events

\* every step keeps IInv
LEMMA NextIInv == IInv /\ [Next]_vars => IInv'
<1> SUFFICES ASSUME IInv, [Next]_vars PROVE IInv'
  OBVIOUS
<1>1. CASE LoadSchema
  <2>1. file \in Inputs /\ (file.kind = "yaml" => DataShape(file.data))
    BY InputsAssumption DEF IInv, TypeOK, Files
  <2>2. CASE file.kind = "unreadable"
    BY <1>1, <2>2, RaiseIInv DEF LoadSchema
  <2>3. CASE file.kind = "yaml"
    <3>1. /\ pc = "load" /\ pc' = "version" /\ schema_data' = file.data
          /\ UNCHANGED <<file, errors, warnings, custom_types, key_names,
                         event_names, idx, exit_code, printed>>
      BY <1>1, <2>3 DEF LoadSchema
    <3>2. QED
      BY <2>1, <2>3, <3>1 DEF IInv, TypeOK, PCs, AfterVersion, AfterKeys, Files, Loaded
  <2>4. CASE file.kind \in {"missing", "badyaml"}
    <3>1. /\ pc = "load" /\ pc' = "print"
          /\ \E k \in {"FileNotFound", "YAMLError"} : errors' = Append(errors, Diag(k, NoName))
          /\ UNCHANGED <<file, schema_data, warnings, custom_types, key_names,
                         event_names, idx, exit_code, printed>>
      BY <1>1, <2>4 DEF LoadSchema
    <3>2. \A k \in {"FileNotFound", "YAMLError"} : Diag(k, NoName) \in Diagnostics
      BY DiagType DEF ErrorKinds
    <3>3. QED
      BY <3>1, <3>2 DEF IInv, TypeOK, PCs, AfterVersion, AfterKeys, Keys, Events
  <2>5. QED
    BY <2>1, <2>2, <2>3, <2>4, InputsAssumption
<1>2. CASE ValidateSchemaVersion
  <2> DEFINE bad == schema_data.t = "null" \/
                    (HasKey(schema_data, "schema_version") /\
                     schema_data.d["schema_version"].t # "str")
  <2>1. CASE bad
    BY <1>2, <2>1, RaiseIInv DEF ValidateSchemaVersion
  <2>2. CASE ~bad
    <3>0. schema_data.t = "dict"
      BY <2>2 DEF IInv, DataShape
    <3>1. /\ pc = "version" /\ pc' = "types" /\ schema_data.t = "dict"
          /\ \/ errors' = errors
             \/ \E k \in {"MissingSchemaVersion", "InvalidSchemaVersion"} :
                  errors' = Append(errors, Diag(k, NoName))
          /\ \/ warnings' = warnings
             \/ warnings' = Append(warnings, Diag("UntestedMajorVersion", NoName))
          /\ UNCHANGED <<file, schema_data, custom_types, key_names,
                         event_names, idx, exit_code, printed>>
      BY <1>2, <2>2, <3>0 DEF ValidateSchemaVersion
    <3>2. /\ \A k \in {"MissingSchemaVersion", "InvalidSchemaVersion"} :
               Diag(k, NoName) \in Diagnostics
          /\ Diag("UntestedMajorVersion", NoName) \in Diagnostics
      BY DiagType DEF ErrorKinds, WarningKinds
    <3>3. errors' \in Seq(Diagnostics) /\ warnings' \in Seq(Diagnostics)
      <4>1. errors \in Seq(Diagnostics) /\ warnings \in Seq(Diagnostics)
        BY DEF IInv, TypeOK
      <4>2. errors' \in Seq(Diagnostics)
        <5>1. CASE errors' = errors
          BY <4>1, <5>1
        <5>2. CASE \E k \in {"MissingSchemaVersion", "InvalidSchemaVersion"} :
                     errors' = Append(errors, Diag(k, NoName))
          BY <4>1, <5>2, <3>2, AppendProperties
        <5>3. QED
          BY <3>1, <5>1, <5>2
      <4>3. warnings' \in Seq(Diagnostics)
        BY <3>1, <3>2, <4>1, AppendProperties
      <4>4. QED
        BY <4>2, <4>3
    <3>4. QED
      BY <3>1, <3>3 DEF IInv, TypeOK, PCs, AfterVersion, AfterKeys, Keys, Events
  <2>3. QED
    BY <2>1, <2>2
<1>3. CASE LoadCustomTypes
  <2>1. CASE HasKey(schema_data, "types") /\ schema_data.d["types"].t # "dict"
    BY <1>3, <2>1, RaiseIInv DEF LoadCustomTypes
  <2>2. CASE ~(HasKey(schema_data, "types") /\ schema_data.d["types"].t # "dict")
    <3>1. /\ pc = "types" /\ pc' = "keys"
          /\ custom_types' = IF HasKey(schema_data, "types")
                             THEN DOMAIN schema_data.d["types"].d
                             ELSE custom_types
          /\ UNCHANGED <<file, schema_data, errors, warnings, key_names,
                         event_names, idx, exit_code, printed>>
      BY <1>3, <2>2 DEF LoadCustomTypes
    <3>2. custom_types' \subseteq Identifiers
      BY <2>2, <3>1 DEF IInv, TypeOK, AfterVersion, DataShape
    <3>3. QED
      BY <3>1, <3>2 DEF IInv, TypeOK, PCs, AfterVersion, AfterKeys, Keys, Events
  <2>3. QED
    BY <2>1, <2>2
<1>4. CASE ValidateDatastoreKeys
  <2>1. CASE HasKey(schema_data, "datastore_keys") /\ Keys.t # "map"
    BY <1>4, <2>1, RaiseIInv DEF ValidateDatastoreKeys
  <2>2. CASE HasKey(schema_data, "datastore_keys") /\ Keys.t = "map"
    <3>1. /\ pc = "keys" /\ pc' = "keyLoop" /\ errors' = errors
          /\ key_names' = {} /\ idx' = 1
          /\ UNCHANGED <<file, schema_data, warnings, custom_types, event_names,
                         exit_code, printed>>
      BY <1>4, <2>2 DEF ValidateDatastoreKeys
    <3>2. QED
      BY <3>1, <2>2 DEF IInv, TypeOK, PCs, AfterVersion, AfterKeys, Keys, Events
  <2>3. CASE ~HasKey(schema_data, "datastore_keys")
    <3>1. /\ pc = "keys" /\ pc' = "events"
          /\ errors' = Append(errors, Diag("MissingDatastoreKeys", NoName))
          /\ key_names' = {} /\ idx' = 1
          /\ UNCHANGED <<file, schema_data, warnings, custom_types, event_names,
                         exit_code, printed>>
      BY <1>4, <2>3 DEF ValidateDatastoreKeys
    <3>2. Diag("MissingDatastoreKeys", NoName) \in Diagnostics
      BY DiagType DEF ErrorKinds
    <3>3. QED
      BY <3>1, <3>2, <2>3 DEF IInv, TypeOK, PCs, AfterVersion, AfterKeys, Keys, Events
  <2>4. QED
    BY <2>1, <2>2, <2>3
<1>5. CASE DatastoreKeysLoop
  <2>1. CASE idx > Len(Keys.m)
    <3>1. /\ pc = "keyLoop" /\ pc' = "events"
          /\ UNCHANGED <<file, schema_data, errors, warnings, custom_types,
                         key_names, event_names, idx, exit_code, printed>>
      BY <1>5, <2>1 DEF DatastoreKeysLoop
    <3>2. QED
      BY <3>1 DEF IInv, TypeOK, PCs, AfterVersion, AfterKeys, Keys, Events
  <2>2. CASE ~(idx > Len(Keys.m)) /\ KeyRaises(ItemSpec(Keys, idx))
    BY <1>5, <2>2, RaiseIInv DEF DatastoreKeysLoop
  <2>3. CASE ~(idx > Len(Keys.m)) /\ ~KeyRaises(ItemSpec(Keys, idx))
    <3>1. /\ pc = "keyLoop" /\ pc' = "keyLoop"
          /\ errors' = errors \o KeyErrors(ItemName(Keys, idx), ItemSpec(Keys, idx))
          /\ key_names' = key_names \cup {ItemName(Keys, idx)}
          /\ idx' = idx + 1
          /\ UNCHANGED <<file, schema_data, warnings, custom_types, event_names,
                         exit_code, printed>>
      BY <1>5, <2>3 DEF DatastoreKeysLoop
    <3>2. ItemName(Keys, idx) \in KeyNames
      BY <2>3, <3>1, KeysName DEF IInv, TypeOK, AfterVersion, AfterKeys
    <3>3. KeyErrors(ItemName(Keys, idx), ItemSpec(Keys, idx)) \in Seq(Diagnostics)
      BY <2>3, <3>2, KeyErrorsType
    <3>4. errors' \in Seq(Diagnostics)
      BY <3>1, <3>3, ConcatProperties DEF IInv, TypeOK
    <3>5. QED
      BY <3>1, <3>2, <3>4 DEF IInv, TypeOK, PCs, AfterVersion, AfterKeys, Keys, Events
  <2>4. QED
    BY <2>1, <2>2, <2>3
<1>6. CASE ValidateEventbusEvents
  <2>1. CASE HasKey(schema_data, "eventbus_events") /\ Events.t # "map"
    BY <1>6, <2>1, RaiseIInv DEF ValidateEventbusEvents
  <2>2. CASE HasKey(schema_data, "eventbus_events") /\ Events.t = "map"
    <3>1. /\ pc = "events" /\ pc' = "eventLoop" /\ warnings' = warnings
          /\ event_names' = {} /\ idx' = 1
          /\ UNCHANGED <<file, schema_data, errors, custom_types, key_names,
                         exit_code, printed>>
      BY <1>6, <2>2 DEF ValidateEventbusEvents
    <3>2. QED
      BY <3>1, <2>2 DEF IInv, TypeOK, PCs, AfterVersion, AfterKeys, Keys, Events
  <2>3. CASE ~HasKey(schema_data, "eventbus_events")
    <3>1. /\ pc = "events" /\ pc' = "hot"
          /\ warnings' = Append(warnings, Diag("MissingEventbusEvents", NoName))
          /\ event_names' = {} /\ idx' = 1
          /\ UNCHANGED <<file, schema_data, errors, custom_types, key_names,
                         exit_code, printed>>
      BY <1>6, <2>3 DEF ValidateEventbusEvents
    <3>2. Diag("MissingEventbusEvents", NoName) \in Diagnostics
      BY DiagType DEF WarningKinds
    <3>3. QED
      BY <3>1, <3>2 DEF IInv, TypeOK, PCs, AfterVersion, AfterKeys, Keys, Events
  <2>4. QED
    BY <2>1, <2>2, <2>3
<1>7. CASE EventbusEventsLoop
  <2>1. CASE idx > Len(Events.m)
    <3>1. /\ pc = "eventLoop" /\ pc' = "hot"
          /\ UNCHANGED <<file, schema_data, errors, warnings, custom_types,
                         key_names, event_names, idx, exit_code, printed>>
      BY <1>7, <2>1 DEF EventbusEventsLoop
    <3>2. QED
      BY <3>1 DEF IInv, TypeOK, PCs, AfterVersion, AfterKeys, Keys, Events
  <2>2. CASE ~(idx > Len(Events.m)) /\ ItemSpec(Events, idx).t = "null"
    BY <1>7, <2>2, RaiseIInv DEF EventbusEventsLoop
  <2>3. CASE ~(idx > Len(Events.m)) /\ ~(ItemSpec(Events, idx).t = "null")
    <3>1. /\ pc = "eventLoop" /\ pc' = "eventLoop"
          /\ errors' = errors \o EventErrors(ItemName(Events, idx), ItemSpec(Events, idx))
          /\ event_names' = event_names \cup {ItemName(Events, idx)}
          /\ idx' = idx + 1
          /\ UNCHANGED <<file, schema_data, warnings, custom_types, key_names,
                         exit_code, printed>>
      BY <1>7, <2>3 DEF EventbusEventsLoop
    <3>2. ItemName(Events, idx) \in EventNames
      BY <2>3, <3>1, EventsName DEF IInv, TypeOK, AfterVersion
    <3>3. EventErrors(ItemName(Events, idx), ItemSpec(Events, idx)) \in Seq(Diagnostics)
      BY <3>2, EventErrorsType
    <3>4. errors' \in Seq(Diagnostics)
      BY <3>1, <3>3, ConcatProperties DEF IInv, TypeOK
    <3>5. QED
      BY <3>1, <3>2, <3>4 DEF IInv, TypeOK, PCs, AfterVersion, AfterKeys, Keys, Events
  <2>4. QED
    BY <2>1, <2>2, <2>3
<1>8. CASE ValidateHotKeys
  <2>1. CASE ~HasKey(schema_data, "datastore_keys")
    <3>1. /\ pc = "hot" /\ pc' = "print"
          /\ UNCHANGED <<file, schema_data, errors, warnings, custom_types,
                         key_names, event_names, idx, exit_code, printed>>
      BY <1>8, <2>1 DEF ValidateHotKeys
    <3>2. QED
      BY <3>1 DEF IInv, TypeOK, PCs, AfterVersion, AfterKeys, Keys, Events
  <2>2. CASE HasKey(schema_data, "datastore_keys")
    <3>1. /\ pc = "hot" /\ pc' = "hotLoop" /\ idx' = 1
          /\ \/ errors' = errors
             \/ errors' = Append(errors, Diag("TooManyHotKeys", NoName))
          /\ UNCHANGED <<file, schema_data, warnings, custom_types, key_names,
                         event_names, exit_code, printed>>
      BY <1>8, <2>2 DEF ValidateHotKeys
    <3>2. Diag("TooManyHotKeys", NoName) \in Diagnostics
      BY DiagType DEF ErrorKinds
    <3>3. QED
      BY <2>2, <3>1, <3>2 DEF IInv, TypeOK, PCs, AfterVersion, AfterKeys, Keys, Events
  <2>3. QED
    BY <2>1, <2>2
<1>9. CASE HotKeysLoop
  <2>1. CASE idx > Len(Keys.m)
    <3>1. /\ pc = "hotLoop" /\ pc' = "print"
          /\ UNCHANGED <<file, schema_data, errors, warnings, custom_types,
                         key_names, event_names, idx, exit_code, printed>>
      BY <1>9, <2>1 DEF HotKeysLoop
    <3>2. QED
      BY <3>1 DEF IInv, TypeOK, PCs, AfterVersion, AfterKeys, Keys, Events
  <2>2. CASE ~(idx > Len(Keys.m)) /\ IsHot(idx) /\ ~HasKey(ItemSpec(Keys, idx), "type")
    BY <1>9, <2>2, RaiseIInv DEF HotKeysLoop
  <2>3. CASE ~(idx > Len(Keys.m)) /\ ~(IsHot(idx) /\ ~HasKey(ItemSpec(Keys, idx), "type"))
    <3> DEFINE sizeErr == HotKeySizeError(ItemName(Keys, idx), ItemSpec(Keys, idx),
                                         MAX_HOT_KEY_SIZE_BYTES)
    <3>1. /\ pc = "hotLoop" /\ pc' = "hotLoop"
          /\ errors' \in {errors \o sizeErr, errors}
          /\ idx' = idx + 1
          /\ UNCHANGED <<file, schema_data, warnings, custom_types, key_names,
                         event_names, exit_code, printed>>
      BY <1>9, <2>3 DEF HotKeysLoop
    <3>2. ItemName(Keys, idx) \in KeyNames
      BY <2>3, <3>1, KeysName DEF IInv, TypeOK, AfterVersion, AfterKeys
    <3>3. sizeErr \in Seq(Diagnostics)
      BY <3>2, HotKeySizeErrorType
    <3>4. errors \o sizeErr \in Seq(Diagnostics)
      BY <3>3, ConcatProperties DEF IInv, TypeOK
    <3>5. errors' \in Seq(Diagnostics)
      BY <3>1, <3>4 DEF IInv, TypeOK
    <3>6. QED
      BY <3>1, <3>5 DEF IInv, TypeOK, PCs, AfterVersion, AfterKeys, Keys, Events
  <2>4. QED
    BY <2>1, <2>2, <2>3
<1>10. CASE PrintResults
  <2>1. /\ pc = "print" /\ pc' = "exited"
        /\ exit_code' \in {0, 1} /\ printed' \in {"failed", "passed"}
        /\ UNCHANGED <<file, schema_data, errors, warnings, custom_types, key_names,
                       event_names, idx>>
    BY <1>10 DEF PrintResults
  <2>2. QED
    BY <2>1 DEF IInv, TypeOK, PCs, AfterVersion, AfterKeys, Keys, Events
<1>11. CASE Terminated \/ UNCHANGED vars
  <2>1. UNCHANGED vars
    BY <1>11 DEF Terminated
  <2>2. QED
    BY <2>1 DEF vars, IInv, TypeOK, PCs, AfterVersion, AfterKeys, Keys, Events
<1>12. QED
  BY <1>1, <1>2, <1>3, <1>4, <1>5, <1>6, <1>7, <1>8, <1>9, <1>10, <1>11 DEF Next

\* the type invariant holds in every state of every run
THEOREM TypeCorrect == Spec => []TypeOK
<1>1. Init => IInv
  BY InitIInv
<1>2. IInv /\ [Next]_vars => IInv'
  BY NextIInv
<1>3. IInv => TypeOK
  BY DEF IInv
<1>4. QED
  BY <1>1, <1>2, <1>3, PTL DEF Spec

=============================================================================
