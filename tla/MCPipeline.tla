------------------------------ MODULE MCPipeline ------------------------------
(***************************************************************************)
(* The pipeline on documents the validator accepts, with schema blocks of *)
(* every shape YAML can give them.                                         *)
(***************************************************************************)
EXTENDS Pipeline, MCSchemaDocs

PipelineSchemaBlocks ==
  {Dict("version" :> Ver(<<"1", ".", "0", ".", "0">>)), PyNull, Lit("1.0.0")}

PipelineInputs == Enumerated(
  {Yaml(Dict(("schema_version" :> Ver(<<"1", ".", "0", ".", "0">>))
             @@ ("datastore_keys" :>
                   Mapping(<<<<"k1", Dict(("type" :> Lit("double"))
                                          @@ ("hot_key" :> PyBool(TRUE)))>>>>))
             @@ a @@ e))
     : a \in Choice("schema", PipelineSchemaBlocks),
       e \in Choice("eventbus_events",
                    {Mapping(<<<<"e1", Dict("priority" :> Lit("LOW"))>>>>)})})

PipelineTemplates == {[exists |-> TRUE,
                       files |-> {"datastore_keys.h.j2", "eventbus_events.h.j2"}]}

=============================================================================
