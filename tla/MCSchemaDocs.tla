---------------------------- MODULE MCSchemaDocs ----------------------------
(***************************************************************************)
(* Builders of the schema files the model-checking runs hand to the        *)
(* validator and to the generator: documents from their optional          *)
(* sections, mappings of a few named entries, type and version strings.    *)
(***************************************************************************)
EXTENDS SchemaValues, TLC

MCIdentifiers == BASIC_TYPES \cup {"Pose", "Matrix", "Vector3d"}
MCNumeral == ("0" :> 0) @@ ("4" :> 4) @@ ("64" :> 64) @@ ("65" :> 65)

\* the key k absent (the empty function), or mapped to one of the values V
Choice(k, V) == {<<>>} \cup {k :> v : v \in V}

\* the mappings of at most two entries named by names, in that order
Mappings(names, Specs) ==
  {Mapping(<<>>)}
  \cup {Mapping(<<<<names[1], s>>>>) : s \in Specs}
  \cup {Mapping(<<<<names[1], s1>>, <<names[2], s2>>>>) : s1, s2 \in Specs}

ArrayOf(e, n) == PyStr(<<"array<", e, ",", n, ">">>)
Ver(cs) == PyStr(cs)

Yaml(d) == [kind |-> "yaml", data |-> d]
Unreadable == {[kind |-> "missing"], [kind |-> "badyaml"], [kind |-> "unreadable"],
               Yaml(PyNull)}

\* a document from its optional top-level sections
Docs(Versions, Types, KeySections, EventSections) ==
  {Dict(a @@ b @@ c @@ e) :
     a \in Choice("schema_version", Versions),
     b \in Choice("types", Types),
     c \in Choice("datastore_keys", KeySections),
     e \in Choice("eventbus_events", EventSections)}

\* (the filter makes TLC build the set once, as an explicit set, so that a
\* membership test is a lookup)
Enumerated(S) == {x \in S : TRUE}

=============================================================================
