-------------------------- MODULE MCSchemaValidator --------------------------
(***************************************************************************)
(* Model-checking instances of SchemaValidator: the files a run may be     *)
(* handed, built from small sets of names, type strings, flags and event   *)
(* metadata.                                                               *)
(***************************************************************************)
EXTENDS SchemaValidator, MCSchemaDocs

-----------------------------------------------------------------------------
(* Run keys: the datastore-key checks.  Types that resolve, that do not,   *)
(* and the 512-byte boundary (64 doubles are 512 bytes, 65 are 520);       *)
(* hot flags on up to two keys against MAX_HOT_KEYS = 1; coherent,         *)
(* read-only and write-only access; a spec, a type and an access of the   *)
(* wrong shape.                                                            *)

KeyTypes == {Lit("double"), Lit("Pose"), Lit("Matrix"),
             ArrayOf("double", "64"), ArrayOf("double", "65"),
             ArrayOf("Matrix", "4")}

Accesses == {Dict("rt_write" :> PyBool(TRUE)), Dict("rt_read" :> PyBool(TRUE)),
             Dict(("rt_read" :> PyBool(TRUE)) @@ ("rt_write" :> PyBool(TRUE)))}

KeySpecs ==
  {Dict(a @@ b @@ c) : a \in Choice("type", KeyTypes),
                             b \in Choice("hot_key", {PyBool(TRUE)}),
                             c \in Choice("access", Accesses)}
  \cup {PyNull,
        Dict("type" :> PyInt(5)),
        Dict(("type" :> Lit("double")) @@ ("access" :> PyNull))}

KeysInputs == Enumerated(
  Unreadable \cup
  {Yaml(d) : d \in Docs({Ver(<<"1", ".", "0", ".", "0">>)},
                        {Dict("Pose" :> PyNull), PyNull},
                        Mappings(<<"k1", "k2">>, KeySpecs) \cup {PyNull},
                        {Mapping(<<<<"e1", Dict("priority" :> Lit("LOW"))>>>>)})})




-----------------------------------------------------------------------------
(* Run meta: the version and event-metadata checks.  Well-formed and      *)
(* malformed versions, majors 0, 1 (also as "01") and 2, a version YAML   *)
(* reads as a float; priorities in and out of the four levels; TTLs       *)
(* positive, zero, negative, null and of the wrong type; null sections    *)
(* and specs.                                                              *)

MetaVersions ==
  {Ver(<<"1", ".", "0", ".", "0">>), Ver(<<"1", ".", "0">>),
   Ver(<<"v", "1", ".", "0", ".", "0">>), Ver(<<"2", ".", "0", ".", "0">>),
   Ver(<<"0", ".", "1", ".", "0">>), Ver(<<"0", "1", ".", "2", ".", "3">>),
   PyFloat(1)}

Priorities == {Lit("LOW"), Lit("URGENT"), PyInt(1)}

Ttls == {PyNull, PyInt(100), PyInt(0), PyFloat(-1), Lit("100")}

EventSpecs ==
  {Dict(a @@ b) : a \in Choice("priority", Priorities),
                  b \in Choice("ttl_ms", Ttls)}
  \cup {PyNull}

MetaInputs == Enumerated(
  {Yaml(d) : d \in Docs(MetaVersions, {},
                        {Mapping(<<<<"k1", Dict("type" :> Lit("double"))>>>>)},
                        Mappings(<<"e1", "e2">>, EventSpecs) \cup {PyNull})})


-----------------------------------------------------------------------------
(* Universes of the runs that check a claim the code does not meet.        *)

V100 == "schema_version" :> Ver(<<"1", ".", "0", ".", "0">>)
DoubleKey == "type" :> Lit("double")
KeyDoc(m) == Yaml(Dict(V100 @@ ("datastore_keys" :> m)))

\* duplicate key names: the file is the text of its datastore_keys section
KeyTexts == {<<"k1">>, <<"k1", "k1">>, <<"k1", "k2", "k1">>, <<"k2", "k1", "k1">>}
KeyFile(t) ==
  [kind |-> "yaml", keytext |-> t,
   data |-> Dict(V100 @@ ("datastore_keys" :>
                   SafeLoadMapping([i \in DOMAIN t |-> <<t[i], Dict(DoubleKey)>>])))]
DuplicateInputs == {KeyFile(t) : t \in KeyTexts}

\* spec.md 4.3 and 5: a repeated key name is reported once per repetition
\* beyond the first, whatever the loader makes of the text.
DuplicateKeysReported ==
  (pc = "exited" /\ "keytext" \in DOMAIN file)
    => \A i, j \in DOMAIN file.keytext :
          i < j /\ file.keytext[i] = file.keytext[j]
            => Diag("DuplicateKey", file.keytext[i]) \in Elems(errors)

\* a hot key with and without a type
HotInputs == {KeyDoc(m) : m \in Mappings(<<"k1", "k2">>,
                                        {Dict("hot_key" :> PyBool(TRUE)),
                                         Dict(DoubleKey @@ ("hot_key" :> PyBool(TRUE)))})}

\* TTLs YAML reads as true, as .nan and as 100
TtlInputs == {Yaml(Dict(V100 @@ ("datastore_keys" :> Mapping(<<<<"k1", Dict(DoubleKey)>>>>))
                        @@ ("eventbus_events" :> Mapping(<<<<"e1", Dict("ttl_ms" :> t)>>>>))))
                : t \in {PyBool(TRUE), PyNaN, PyInt(100)}}

\* count 0, text after '>', a nested array and a declared type
GrammarTypes == {ArrayOf("double", "0"), ArrayOf("double", "4"),
                 PyStr(<<"array<", "double", ",", "4", ">", "x">>),
                 PyStr(<<"array<", "array<", "double", ",", "4", ">", ",", "4", ">">>),
                 Lit("Pose")}
GrammarInputs ==
  {Yaml(Dict(V100 @@ ("types" :> Dict("Pose" :> PyNull))
             @@ ("datastore_keys" :> Mapping(<<<<"k1", Dict("type" :> ty)>>>>))))
     : ty \in GrammarTypes}

\* a version written as a block scalar, with its final newline
VersionInputs ==
  {Yaml(Dict(("schema_version" :> Ver(v))
             @@ ("datastore_keys" :> Mapping(<<<<"k1", Dict(DoubleKey)>>>>))))
     : v \in {<<"1", ".", "0", ".", "0", "\n">>, <<"1", ".", "0", ".", "0">>}}

\* a key without a type whose access is write-only
CompletenessInputs ==
  {KeyDoc(Mapping(<<<<"k1", Dict("access" :> a)>>>>)) : a \in Accesses}

=============================================================================
