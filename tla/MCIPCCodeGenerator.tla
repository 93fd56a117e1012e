------------------------- MODULE MCIPCCodeGenerator -------------------------
(***************************************************************************)
(* Model-checking instances of IPCCodeGenerator: two invocations on one    *)
(* output directory, each with a file and a templates/ of its own.         *)
(***************************************************************************)
EXTENDS IPCCodeGenerator, MCSchemaDocs

HotDouble == Dict(("type" :> Lit("double")) @@ ("hot_key" :> PyBool(TRUE)))

\* a null section, a hot key, a null spec, a cold and a hot key
GenKeySections ==
  {PyNull,
   Mapping(<<<<"k1", HotDouble>>>>),
   Mapping(<<<<"k1", PyNull>>>>),
   Mapping(<<<<"k1", Dict("type" :> Lit("double"))>>, <<"k2", HotDouble>>>>)}

GenEventSections == {PyNull, Mapping(<<<<"e1", Dict("priority" :> Lit("LOW"))>>>>)}

\* a schema block with a version, one without, and a null one
SchemaBlocks == {Dict("version" :> Ver(<<"2", ".", "0", ".", "0">>)),
                 Dict([k \in {} |-> PyNull]), PyNull}

GenInputs == Enumerated(
  Unreadable \cup
  {Yaml(Dict(a @@ c @@ e)) : a \in Choice("schema", SchemaBlocks),
                             c \in Choice("datastore_keys", GenKeySections),
                             e \in Choice("eventbus_events", GenEventSections)})

\* templates/ as the repository means it to be
FullTemplates == {[exists |-> TRUE, files |-> TemplateFiles]}

\* both templates, the events template missing, no templates/ at all
GenTemplateDirs ==
  {[exists |-> TRUE, files |-> TemplateFiles],
   [exists |-> TRUE, files |-> {"datastore_keys.h.j2"}],
   [exists |-> FALSE, files |-> {}]}

\* documents the validator accepts: a valid version, one hot key, and an
\* eventbus_events section or none (spec.md 4.3: the event section is
\* optional)
StaleInputs ==
  {Yaml(Dict(("schema_version" :> Ver(<<"1", ".", "0", ".", "0">>))
             @@ ("datastore_keys" :> Mapping(<<<<"k1", HotDouble>>>>)) @@ e))
     : e \in Choice("eventbus_events", GenEventSections \ {PyNull})}

=============================================================================
