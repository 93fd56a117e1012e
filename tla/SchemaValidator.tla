--------------------------- MODULE SchemaValidator ---------------------------
(***************************************************************************)
(* One run of scripts/codegen/validate_schema.py <schema_file.yaml>:       *)
(* main() builds a SchemaValidator, validate() loads the file and runs the *)
(* five checks in order, print_results() prints the report and main()      *)
(* exits with 0 or 1.  Each method is an action; the loops over            *)
(* datastore_keys, eventbus_events and the hot keys take one step per      *)
(* iteration (pc "keyLoop", "eventLoop", "hotLoop").  An exception the     *)
(* code does not catch ends the run with a traceback and exit status 1     *)
(* (pc "raised").                                                          *)
(***************************************************************************)
EXTENDS SchemaValues

CONSTANT Inputs   \* the files the path may name: missing, not YAML, or YAML

ASSUME InputsAssumption ==
  \A f \in Inputs :
     \/ f.kind \in {"missing", "badyaml", "unreadable"}
     \/ f.kind = "yaml" /\ DataShape(f.data)

VARIABLES
  file,         \* the file named on the command line: "missing", "badyaml",
                \* "unreadable" (open or decoding fails otherwise) or "yaml"
  pc,           \* the statement validate()/main() executes next
  schema_data,  \* self.schema_data
  errors,       \* self.errors
  warnings,     \* self.warnings
  custom_types, \* self.custom_types
  key_names,    \* key_names of _validate_datastore_keys
  event_names,  \* event_names of _validate_eventbus_events
  idx,          \* index of the next item of the loop in progress
  exit_code,    \* the status passed to sys.exit, or 1 after a traceback
  printed       \* what print_results() printed: "nothing", "failed", "passed"

vars == <<file, pc, schema_data, errors, warnings, custom_types, key_names,
          event_names, idx, exit_code, printed>>

PCs == {"load", "version", "types", "keys", "keyLoop", "events", "eventLoop",
        "hot", "hotLoop", "print", "exited", "raised"}

EmptyDict == Dict([k \in {} |-> PyNull])

\* the sections of the loaded document
Keys == schema_data.d["datastore_keys"]
Events == schema_data.d["eventbus_events"]

Init ==
  /\ file \in Inputs
  /\ pc = "load"
  /\ schema_data = EmptyDict
  /\ errors = <<>>
  /\ warnings = <<>>
  /\ custom_types = {}
  /\ key_names = {}
  /\ event_names = {}
  /\ idx = 1
  /\ exit_code = 0
  /\ printed = "nothing"

\* an exception escapes main(): Python prints the traceback, exits with 1
Raise ==
  /\ pc' = "raised"
  /\ exit_code' = 1
  /\ UNCHANGED <<file, schema_data, errors, warnings, custom_types, key_names,
                 event_names, idx, printed>>

\* _load_schema: validate() returns False at once when it fails; an error
\* other than FileNotFoundError and yaml.YAMLError escapes
LoadSchema ==
  /\ pc = "load"
  /\ IF file.kind = "unreadable"
     THEN Raise
     ELSE /\ \/ /\ file.kind = "missing"
                /\ errors' = Append(errors, Diag("FileNotFound", NoName))
                /\ pc' = "print"
                /\ UNCHANGED schema_data
             \/ /\ file.kind = "badyaml"
                /\ errors' = Append(errors, Diag("YAMLError", NoName))
                /\ pc' = "print"
                /\ UNCHANGED schema_data
             \/ /\ file.kind = "yaml"
                /\ schema_data' = file.data
                /\ pc' = "version"
                /\ UNCHANGED errors
          /\ UNCHANGED <<file, warnings, custom_types, key_names, event_names,
                         idx, exit_code, printed>>

\* mutant: schema_data['schema_version'] read before the test for the
\* field, so a document without it raises KeyError
ValidateSchemaVersionUnguarded ==
  /\ pc = "version"
  /\ IF schema_data.t = "null" \/ ~HasKey(schema_data, "schema_version") \/
        schema_data.d["schema_version"].t # "str"
     THEN Raise
     ELSE /\ LET ver == schema_data.d["schema_version"].s IN
             IF ~SemVerMatch(ver)
             THEN /\ errors' = Append(errors, Diag("InvalidSchemaVersion", NoName))
                  /\ UNCHANGED warnings
             ELSE /\ warnings' = IF MajorIsOne(ver) THEN warnings
                                 ELSE Append(warnings,
                                        Diag("UntestedMajorVersion", NoName))
                  /\ UNCHANGED errors
          /\ pc' = "types"
          /\ UNCHANGED <<file, schema_data, custom_types, key_names,
                         event_names, idx, exit_code, printed>>

\* _validate_schema_version; 'x' in None (an empty file) raises, and so
\* does re.match on a version that YAML read as a number
ValidateSchemaVersion ==
  /\ pc = "version"
  /\ IF schema_data.t = "null" \/
        (HasKey(schema_data, "schema_version") /\
         schema_data.d["schema_version"].t # "str")
     THEN Raise
     ELSE /\ LET ver == schema_data.d["schema_version"].s IN
             IF ~HasKey(schema_data, "schema_version")
             THEN /\ errors' = Append(errors, Diag("MissingSchemaVersion", NoName))
                  /\ UNCHANGED warnings
             ELSE IF ~SemVerMatch(ver)
             THEN /\ errors' = Append(errors, Diag("InvalidSchemaVersion", NoName))
                  /\ UNCHANGED warnings
             ELSE /\ warnings' = IF MajorIsOne(ver) THEN warnings
                                 ELSE Append(warnings,
                                        Diag("UntestedMajorVersion", NoName))
                  /\ UNCHANGED errors
          /\ pc' = "types"
          /\ UNCHANGED <<file, schema_data, custom_types, key_names,
                         event_names, idx, exit_code, printed>>

\* _load_custom_types; None.keys() raises
LoadCustomTypes ==
  /\ pc = "types"
  /\ IF HasKey(schema_data, "types") /\ schema_data.d["types"].t # "dict"
     THEN Raise
     ELSE /\ custom_types' = IF HasKey(schema_data, "types")
                             THEN DOMAIN schema_data.d["types"].d
                             ELSE custom_types
          /\ pc' = "keys"
          /\ UNCHANGED <<file, schema_data, errors, warnings, key_names,
                         event_names, idx, exit_code, printed>>

\* _validate_datastore_keys up to its loop; None.items() raises
ValidateDatastoreKeys ==
  /\ pc = "keys"
  /\ IF HasKey(schema_data, "datastore_keys") /\ Keys.t # "map"
     THEN Raise
     ELSE /\ IF HasKey(schema_data, "datastore_keys")
             THEN /\ pc' = "keyLoop"
                  /\ UNCHANGED errors
             ELSE /\ errors' = Append(errors, Diag("MissingDatastoreKeys", NoName))
                  /\ pc' = "events"
          /\ key_names' = {}
          /\ idx' = 1
          /\ UNCHANGED <<file, schema_data, warnings, custom_types,
                         event_names, exit_code, printed>>

\* one iteration of the loop of _validate_datastore_keys, with the calls
\* of _validate_type and _validate_access_permissions it makes
KeyRaises(spec) ==
  \/ spec.t = "null"
  \/ /\ HasKey(spec, "type")
     /\ \/ ValidateType(spec.d["type"], custom_types) = "raise"
        \/ HasKey(spec, "access") /\ spec.d["access"].t # "dict"

\* mutant: the access check with the flags swapped (rt_read and not rt_write)
KeyErrorsSwappedAccess(name, spec) ==
  LET dup == IF name \in key_names THEN <<Diag("DuplicateKey", name)>>
             ELSE <<>>
      vt == ValidateType(spec.d["type"], custom_types)
      acc == spec.d["access"]
      typeErr == IF vt = "ok" THEN <<>> ELSE <<Diag(vt, name)>>
      accErr == IF HasKey(spec, "access") /\
                   Truthy(Get(acc, "rt_read", PyBool(FALSE))) /\
                   ~Truthy(Get(acc, "rt_write", PyBool(FALSE)))
                THEN <<Diag("InconsistentAccess", name)>> ELSE <<>>
  IN IF ~HasKey(spec, "type")
     THEN dup \o <<Diag("MissingType", name)>>
     ELSE dup \o typeErr \o accErr

KeyErrors(name, spec) ==
  LET dup == IF name \in key_names THEN <<Diag("DuplicateKey", name)>>
             ELSE <<>>
      vt == ValidateType(spec.d["type"], custom_types)
      acc == spec.d["access"]
      typeErr == IF vt = "ok" THEN <<>> ELSE <<Diag(vt, name)>>
      accErr == IF HasKey(spec, "access") /\
                   Truthy(Get(acc, "rt_write", PyBool(FALSE))) /\
                   ~Truthy(Get(acc, "rt_read", PyBool(FALSE)))
                THEN <<Diag("InconsistentAccess", name)>> ELSE <<>>
  IN IF ~HasKey(spec, "type")
     THEN dup \o <<Diag("MissingType", name)>>
     ELSE dup \o typeErr \o accErr

DatastoreKeysLoop ==
  /\ pc = "keyLoop"
  /\ IF idx > Len(Keys.m)
     THEN /\ pc' = "events"
          /\ UNCHANGED <<file, schema_data, errors, warnings, custom_types,
                         key_names, event_names, idx, exit_code,
                         printed>>
     ELSE LET name == ItemName(Keys, idx)
              spec == ItemSpec(Keys, idx)
          IN IF KeyRaises(spec)
             THEN Raise
             ELSE /\ errors' = errors \o KeyErrors(name, spec)
                  /\ key_names' = key_names \cup {name}
                  /\ idx' = idx + 1
                  /\ UNCHANGED <<file, pc, schema_data, warnings, custom_types,
                                 event_names, exit_code, printed>>

\* _validate_eventbus_events up to its loop; None.items() raises
ValidateEventbusEvents ==
  /\ pc = "events"
  /\ IF HasKey(schema_data, "eventbus_events") /\ Events.t # "map"
     THEN Raise
     ELSE /\ IF HasKey(schema_data, "eventbus_events")
             THEN /\ pc' = "eventLoop"
                  /\ UNCHANGED warnings
             ELSE /\ warnings' = Append(warnings,
                                   Diag("MissingEventbusEvents", NoName))
                  /\ pc' = "hot"
          /\ event_names' = {}
          /\ idx' = 1
          /\ UNCHANGED <<file, schema_data, errors, custom_types, key_names,
                         exit_code, printed>>

\* one iteration of its loop; 'priority' in None raises
\* mutant: 'LOW' left out of the list of priorities
EventErrorsNoLow(name, spec) ==
  LET dup == IF name \in event_names THEN <<Diag("DuplicateEvent", name)>>
             ELSE <<>>
      prio == IF HasKey(spec, "priority") /\
                 spec.d["priority"] \notin {Lit(p) : p \in PRIORITIES \ {"LOW"}}
              THEN <<Diag("InvalidPriority", name)>> ELSE <<>>
      ttl == spec.d["ttl_ms"]
      ttlErr == IF HasKey(spec, "ttl_ms") /\ ttl # PyNull /\
                   (~IsNumber(ttl) \/ LeqZero(ttl))
                THEN <<Diag("InvalidTtl", name)>> ELSE <<>>
  IN dup \o prio \o ttlErr

\* mutant: ttl_ms < 0 in place of ttl_ms <= 0
EventErrorsNegativeTtl(name, spec) ==
  LET dup == IF name \in event_names THEN <<Diag("DuplicateEvent", name)>>
             ELSE <<>>
      prio == IF HasKey(spec, "priority") /\
                 spec.d["priority"] \notin {Lit(p) : p \in PRIORITIES}
              THEN <<Diag("InvalidPriority", name)>> ELSE <<>>
      ttl == spec.d["ttl_ms"]
      ttlErr == IF HasKey(spec, "ttl_ms") /\ ttl # PyNull /\
                   (~IsNumber(ttl) \/ (LeqZero(ttl) /\ ttl.n # 0))
                THEN <<Diag("InvalidTtl", name)>> ELSE <<>>
  IN dup \o prio \o ttlErr

EventErrors(name, spec) ==
  LET dup == IF name \in event_names THEN <<Diag("DuplicateEvent", name)>>
             ELSE <<>>
      prio == IF HasKey(spec, "priority") /\
                 spec.d["priority"] \notin {Lit(p) : p \in PRIORITIES}
              THEN <<Diag("InvalidPriority", name)>> ELSE <<>>
      ttl == spec.d["ttl_ms"]
      ttlErr == IF HasKey(spec, "ttl_ms") /\ ttl # PyNull /\
                   (~IsNumber(ttl) \/ LeqZero(ttl))
                THEN <<Diag("InvalidTtl", name)>> ELSE <<>>
  IN dup \o prio \o ttlErr

EventbusEventsLoop ==
  /\ pc = "eventLoop"
  /\ IF idx > Len(Events.m)
     THEN /\ pc' = "hot"
          /\ UNCHANGED <<file, schema_data, errors, warnings, custom_types,
                         key_names, event_names, idx, exit_code,
                         printed>>
     ELSE LET name == ItemName(Events, idx)
              spec == ItemSpec(Events, idx)
          IN IF spec.t = "null"
             THEN Raise
             ELSE /\ errors' = errors \o EventErrors(name, spec)
                  /\ event_names' = event_names \cup {name}
                  /\ idx' = idx + 1
                  /\ UNCHANGED <<file, pc, schema_data, warnings, custom_types,
                                 key_names, exit_code, printed>>

\* _validate_hot_keys: hot_keys lists the keys whose hot_key is truthy,
\* in document order.  spec.get cannot raise here: a spec that is not a
\* dict has already raised in DatastoreKeysLoop.
IsHot(i) == Truthy(Get(ItemSpec(Keys, i), "hot_key", PyBool(FALSE)))

HotKeys == {i \in 1..Len(Keys.m) : IsHot(i)}

ValidateHotKeys ==
  /\ pc = "hot"
  /\ IF ~HasKey(schema_data, "datastore_keys")
     THEN /\ pc' = "print"
          /\ UNCHANGED <<errors, idx>>
     ELSE /\ errors' = IF Cardinality(HotKeys) > MAX_HOT_KEYS
                       THEN Append(errors, Diag("TooManyHotKeys", NoName))
                       ELSE errors
          /\ idx' = 1
          /\ pc' = "hotLoop"
  /\ UNCHANGED <<file, schema_data, warnings, custom_types, key_names,
                 event_names, exit_code, printed>>

\* one iteration of the size loop over which visits the hot keys
\* in document order: the model walks every index and passes over the
\* keys the list comprehension left out.  spec['type'] raises KeyError
\* for a hot key without a type.  A type that is not a string, on which
\* _estimate_type_size would raise, has already raised in _validate_type.
HotKeySizeError(name, spec, limit) ==
  IF EstimateTypeSize(spec.d["type"], custom_types) > limit
  THEN <<Diag("HotKeyTooLarge", name)>> ELSE <<>>

\* mutant: a hot key of exactly 512 bytes counted as too large (>=)
HotKeysLoopAtLimit ==
  /\ pc = "hotLoop"
  /\ IF idx > Len(Keys.m)
     THEN /\ pc' = "print"
          /\ UNCHANGED <<file, schema_data, errors, warnings, custom_types,
                         key_names, event_names, idx, exit_code, printed>>
     ELSE LET spec == ItemSpec(Keys, idx) IN
          IF IsHot(idx) /\ ~HasKey(spec, "type")
          THEN Raise
          ELSE /\ errors' = IF IsHot(idx)
                            THEN errors \o HotKeySizeError(ItemName(Keys, idx), spec,
                                                           MAX_HOT_KEY_SIZE_BYTES - 1)
                            ELSE errors
               /\ idx' = idx + 1
               /\ UNCHANGED <<file, pc, schema_data, warnings, custom_types,
                              key_names, event_names, exit_code, printed>>

HotKeysLoop ==
  /\ pc = "hotLoop"
  /\ IF idx > Len(Keys.m)
     THEN /\ pc' = "print"
          /\ UNCHANGED <<file, schema_data, errors, warnings, custom_types,
                         key_names, event_names, idx, exit_code, printed>>
     ELSE LET spec == ItemSpec(Keys, idx) IN
          IF IsHot(idx) /\ ~HasKey(spec, "type")
          THEN Raise
          ELSE /\ errors' = IF IsHot(idx)
                            THEN errors \o HotKeySizeError(ItemName(Keys, idx), spec,
                                                           MAX_HOT_KEY_SIZE_BYTES)
                            ELSE errors
               /\ idx' = idx + 1
               /\ UNCHANGED <<file, pc, schema_data, warnings, custom_types,
                              key_names, event_names, exit_code, printed>>

\* mutant: sys.exit(len(errors)) in place of sys.exit(0 if valid else 1)
PrintResultsExitCount ==
  /\ pc = "print"
  /\ printed' = IF errors = <<>> THEN "passed" ELSE "failed"
  /\ exit_code' = Len(errors)
  /\ pc' = "exited"
  /\ UNCHANGED <<file, schema_data, errors, warnings, custom_types, key_names,
                 event_names, idx>>

PrintResults ==
  /\ pc = "print"
  /\ printed' = IF errors = <<>> THEN "passed" ELSE "failed"
  /\ exit_code' = IF errors = <<>> THEN 0 ELSE 1
  /\ pc' = "exited"
  /\ UNCHANGED <<file, schema_data, errors, warnings, custom_types, key_names,
                 event_names, idx>>

\* the process has ended
Terminated == pc \in {"exited", "raised"} /\ UNCHANGED vars

Next ==
  \/ LoadSchema
  \/ ValidateSchemaVersion
  \/ LoadCustomTypes
  \/ ValidateDatastoreKeys
  \/ DatastoreKeysLoop
  \/ ValidateEventbusEvents
  \/ EventbusEventsLoop
  \/ ValidateHotKeys
  \/ HotKeysLoop
  \/ PrintResults
  \/ Terminated

Spec == Init /\ [][Next]_vars

-----------------------------------------------------------------------------
(* Type invariant.                                                         *)

\* the files the path may name, as one set
Files == Inputs

\* the values self.schema_data can hold
Loaded == {EmptyDict} \cup {f.data : f \in {g \in Inputs : g.kind = "yaml"}}

TypeOK ==
  /\ file \in Files
  /\ pc \in PCs
  /\ schema_data \in Loaded
  /\ errors \in Seq(Diagnostics)
  /\ warnings \in Seq(Diagnostics)
  /\ custom_types \subseteq Identifiers
  /\ key_names \subseteq KeyNames
  /\ event_names \subseteq EventNames
  /\ idx \in Nat \ {0}
  /\ exit_code \in {0, 1}
  /\ printed \in {"nothing", "failed", "passed"}

-----------------------------------------------------------------------------
(* Properties.  The verdict of a finished run is its exit status.          *)

Verdict == IF pc \in {"exited", "raised"}
           THEN IF exit_code = 0 THEN "accepted" ELSE "rejected"
           ELSE "pending"

Contract == INSTANCE SchemaContract
              WITH Inputs <- Files, input <- file, verdict <- Verdict

\* The validator implements its contract: main() exits with 0 exactly for
\* the files whose document is well formed and free of every defect that
\* spec.md 4.3 lists (type resolution, access coherence, event metadata,
\* the hot-key count and size budgets, the version format).
ContractSpec == Contract!Spec

\* the items of a list, as a set
Elems(s) == {s[i] : i \in DOMAIN s}

NoRepeats(s) == \A i, j \in DOMAIN s : i # j => s[i] # s[j]

\* A well-formed document that is printed as FAILED is failed only for
\* defects it has: every error print_results() lists names a real defect
\* of the document, and none is listed twice.
ErrorsSound ==
  (pc = "exited" /\ file.kind = "yaml" /\ Contract!Structural(schema_data))
    => /\ Elems(errors) \subseteq Contract!DocDefects(schema_data)
       /\ NoRepeats(errors)

\* a hot key of datastore_keys that has no type: _validate_hot_keys reads
\* its spec['type'] (line 177), whether or not line 118 reported it
HasUntypedHotKey(d) ==
  /\ HasKey(d, "datastore_keys")
  /\ d.d["datastore_keys"].t = "map"
  /\ \E i \in DOMAIN d.d["datastore_keys"].m :
        LET spec == ItemSpec(d.d["datastore_keys"], i) IN
        /\ spec.t = "dict"
        /\ Truthy(Get(spec, "hot_key", PyBool(FALSE)))
        /\ ~HasKey(spec, "type")

\* A traceback ends main() only on an input that cannot be validated: a
\* file open() or the decoder rejects, an empty file, a document whose
\* version, types, sections, specs, type or access are not of the shape
\* spec.md 7 requires (the None and non-str cases of lines 68, 77, 99,
\* 110, 117, 137, 144, 192 and 209), or the untyped hot key of line 177.  A
\* well-formed document always reaches print_results(), so its defects
\* are reported rather than lost in a traceback.
TracebackOnlyOnMalformed ==
  pc = "raised" =>
    \/ file.kind = "unreadable"
    \/ /\ file.kind = "yaml"
       /\ ~Contract!Structural(file.data) \/ HasUntypedHotKey(file.data)

\* The warnings of a finished run are exactly the advisory ones spec.md
\* asks for: one for a MAJOR version other than 1, one for a missing
\* eventbus_events section, each once.
WarningsExact ==
  (pc = "exited" /\ file.kind = "yaml" /\ Contract!Structural(schema_data))
    => /\ Elems(warnings) = Contract!DocWarnings(schema_data)
       /\ NoRepeats(warnings)


-----------------------------------------------------------------------------
(* Claims of spec.md that the code does not meet; each is checked by a    *)
(* run that TLC finds violated.                                            *)

\* spec.md section 7: a semantic defect is collected, never fatal; only an
\* unreadable document aborts.  A well-formed document therefore never
\* ends in a traceback (_validate_hot_keys reads spec['type'] of every hot
\* key, also of one whose missing type was already reported).
NoTraceback ==
  (file.kind = "yaml" /\ Contract!Structural(file.data)) => pc # "raised"

\* spec.md 4.3: a ttl_ms that is present and not null is a positive number
\* in every accepted document (the check in _validate_eventbus_events
\* tests isinstance(ttl, (int, float)) and ttl <= 0).
AcceptedTtlsPositive ==
  (pc = "exited" /\ exit_code = 0 /\ HasKey(schema_data, "eventbus_events"))
    => \A i \in DOMAIN Events.m :
          LET spec == ItemSpec(Events, i) IN
          HasKey(spec, "ttl_ms") /\ spec.d["ttl_ms"] # PyNull
            => Contract!PositiveNumber(spec.d["ttl_ms"])

\* spec.md 4.1 and 4.3: _validate_type reports a type error for a key
\* exactly when its type string does not resolve under the grammar
\* SCALAR | IDENT | "array<" TYPE "," COUNT ">" with a positive COUNT.
TypeErrorsFollowGrammar ==
  (/\ pc = "exited" /\ file.kind = "yaml"
   /\ Contract!Structural(schema_data) /\ HasKey(schema_data, "datastore_keys"))
    => \A i \in DOMAIN Keys.m :
          LET n == ItemName(Keys, i)
              spec == ItemSpec(Keys, i)
          IN HasKey(spec, "type") =>
               ((\E k \in Contract!TypeErrorKinds : Diag(k, n) \in Elems(errors))
                  <=> ~Contract!Resolves(spec.d["type"], Contract!CustomOf(schema_data)))

\* spec.md 4.3: a document is accepted only with a schema_version of the
\* form MAJOR.MINOR.PATCH (the check in _validate_schema_version).
AcceptedVersionsWellFormed ==
  (pc = "exited" /\ exit_code = 0)
    => Contract!IsSemVer(schema_data.d["schema_version"].s)

\* spec.md 4.3: the validators never short-circuit each other, so one run
\* reports every defect of a well-formed document (either type-error kind
\* standing for an unresolved type).  _validate_datastore_keys moves on to
\* the next key once it reports a missing type.
ErrorsComplete ==
  (pc = "exited" /\ file.kind = "yaml" /\ Contract!Structural(schema_data))
    => \A e \in Contract!DocDefects(schema_data) :
          \/ e \in Elems(errors)
          \/ /\ e.kind \in Contract!TypeErrorKinds
             /\ \E k \in Contract!TypeErrorKinds : Diag(k, e.name) \in Elems(errors)

=============================================================================
