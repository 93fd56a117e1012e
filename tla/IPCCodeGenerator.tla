-------------------------- MODULE IPCCodeGenerator --------------------------
(***************************************************************************)
(* Invocations of scripts/codegen/generate_ipc_schema.py <schema> <outdir> *)
(* against one output directory.  main() checks that templates/ exists,    *)
(* generate() loads the schema, creates the output directory, and renders  *)
(* DataStoreKeys.h when the document has datastore_keys and               *)
(* EventBusEvents.h when it has eventbus_events, each through its Jinja2   *)
(* template and Path.write_text.  An exception the code does not catch    *)
(* ends the invocation with a traceback and status 1 (pc "raised").  The  *)
(* output directory outlives an invocation: Rerun starts the next one,    *)
(* with a file and a templates directory of its own.                       *)
(*                                                                         *)
(* A header is the value its template is rendered from (the templates are *)
(* not part of the repository, so the text they make of it is not         *)
(* modelled): the section, the hot-key subset, the version stamp.          *)
(***************************************************************************)
EXTENDS SchemaValues

CONSTANTS
  Inputs,        \* the files the schema path may name
  TemplateDirs,  \* the states templates/ may be in: [exists, files]
  OutDirs,       \* what the output path may name at first: "absent",
                 \* a "dir", a "file"
  WriteFaults,   \* whether write_text may fail (full disk, permissions)
  MaxRuns        \* invocations in one behaviour

TemplateFiles == {"datastore_keys.h.j2", "eventbus_events.h.j2"}

Headers == {"DataStoreKeys.h", "EventBusEvents.h"}

ASSUME GeneratorAssumption ==
  /\ \A f \in Inputs :
        \/ f.kind \in {"missing", "badyaml", "unreadable"}
        \/ /\ f.kind = "yaml" /\ DataShape(f.data)
           /\ f.data.t = "dict" =>
                 /\ HasKey(f.data, "schema") => f.data.d["schema"].t # "map"
                 /\ \A sec \in {"datastore_keys", "eventbus_events"} :
                       HasKey(f.data, sec) => f.data.d[sec].t \in {"map", "null"}
  /\ TemplateDirs \subseteq [exists : BOOLEAN, files : SUBSET TemplateFiles]
  /\ OutDirs \subseteq {"absent", "dir", "file"} /\ OutDirs # {}
  /\ WriteFaults \in BOOLEAN
  /\ MaxRuns \in Nat \ {0}

-----------------------------------------------------------------------------
(* What a header holds.                                                    *)

Absent == [c |-> "absent"]
\* a header an earlier invocation, outside the behaviour, rendered
Old == [c |-> "old"]
\* a header whose write_text failed after open() had truncated it
Truncated == [c |-> "truncated"]

\* the default of .get('version', '1.0.0')
DefaultVersion == PyStr(<<"1", ".", "0", ".", "0">>)

\* self.schema_data.get('schema', {}).get('version', '1.0.0')
Stamp(d) ==
  IF HasKey(d, "schema") THEN Get(d.d["schema"], "version", DefaultVersion)
  ELSE DefaultVersion

\* .get on a schema block that is not a dict raises AttributeError
StampRaises(d) == HasKey(d, "schema") /\ d.d["schema"].t # "dict"

\* {name: spec for name, spec in keys.items() if spec.get('hot_key', False)}
HotKeySubset(keys) ==
  SelectSeq(keys.m, LAMBDA p : Truthy(Get(p[2], "hot_key", PyBool(FALSE))))

\* template.render(keys=..., hot_keys=..., schema_version=...)
KeysHeader(d) ==
  [c |-> "keys", keys |-> d.d["datastore_keys"],
   hot_keys |-> HotKeySubset(d.d["datastore_keys"]), version |-> Stamp(d)]

\* template.render(events=..., schema_version=...)
EventsHeader(d) ==
  [c |-> "events", events |-> d.d["eventbus_events"], version |-> Stamp(d)]

\* the arguments of the two render calls can be computed: keys.items()
\* raises on None, spec.get on a None spec, and .get on a schema block
\* that is not a dict
KeysRenders(d) ==
  /\ HasKey(d, "datastore_keys")
  /\ d.d["datastore_keys"].t = "map"
  /\ \A i \in DOMAIN d.d["datastore_keys"].m :
        ItemSpec(d.d["datastore_keys"], i).t # "null"
  /\ ~StampRaises(d)

EventsRenders(d) == HasKey(d, "eventbus_events") /\ ~StampRaises(d)

\* the headers an invocation on document d can render
Rendered(d) ==
  (IF KeysRenders(d) THEN {KeysHeader(d)} ELSE {})
  \cup (IF EventsRenders(d) THEN {EventsHeader(d)} ELSE {})

-----------------------------------------------------------------------------
VARIABLES
  file,         \* the file sys.argv[1] names
  templates,    \* templates/ beside the script
  pc,           \* the statement main()/generate() executes next
  schema_data,  \* self.schema_data
  outdir,       \* what sys.argv[2] names: "absent", a "dir", or a "file"
  out,          \* the content of each header in the output directory
  exit_code,    \* the status of sys.exit, or 1 after a traceback
  runs,         \* the invocations so far
  before        \* the output directory as the invocation found it

vars == <<file, templates, pc, schema_data, outdir, out, exit_code, runs,
          before>>

PCs == {"start", "load", "mkdir", "keys", "events", "exited", "raised"}

NoHeaders == [h \in Headers |-> Absent]

EmptyDict == Dict([k \in {} |-> PyNull])

\* the states the output directory can be in before the first invocation:
\* missing, a plain file, or a directory holding earlier headers or none
InitialDirs ==
  UNION {{[dir |-> d, out |-> o] :
            o \in IF d = "dir" THEN [Headers -> {Absent, Old}] ELSE {NoHeaders}}
           : d \in OutDirs}

Init ==
  /\ file \in Inputs
  /\ templates \in TemplateDirs
  /\ pc = "start"
  /\ schema_data = EmptyDict
  /\ outdir \in OutDirs
  /\ out \in IF outdir = "dir" THEN [Headers -> {Absent, Old}] ELSE {NoHeaders}
  /\ exit_code = 0
  /\ runs = 1
  /\ before = [dir |-> outdir, out |-> out]

\* an exception escapes main()
Raise ==
  /\ pc' = "raised"
  /\ exit_code' = 1

\* sys.exit(status)
Exit(status) ==
  /\ pc' = "exited"
  /\ exit_code' = status

\* main(): exit 1 when templates/ does not exist
CheckTemplateDir ==
  /\ pc = "start"
  /\ IF templates.exists THEN pc' = "load" /\ UNCHANGED exit_code
     ELSE Exit(1)
  /\ UNCHANGED <<file, templates, schema_data, outdir, out, runs, before>>

\* _load_schema: generate() returns False, and main() exits with 1, on
\* FileNotFoundError and yaml.YAMLError; any other error escapes
LoadSchema ==
  /\ pc = "load"
  /\ CASE file.kind = "unreadable" -> Raise /\ UNCHANGED schema_data
       [] file.kind \in {"missing", "badyaml"} -> Exit(1) /\ UNCHANGED schema_data
       [] file.kind = "yaml" -> /\ schema_data' = file.data
                                /\ pc' = "mkdir"
                                /\ UNCHANGED exit_code
  /\ UNCHANGED <<file, templates, outdir, out, runs, before>>

\* self.output_dir.mkdir(parents=True, exist_ok=True): FileExistsError
\* when the path names a file
MakeOutputDir ==
  /\ pc = "mkdir"
  /\ IF outdir = "file" THEN Raise /\ UNCHANGED outdir
     ELSE outdir' = "dir" /\ pc' = "keys" /\ UNCHANGED exit_code
  /\ UNCHANGED <<file, templates, schema_data, out, runs, before>>

\* output_path.write_text(content), and what follows it when it returns:
\* open(path, 'w') truncates the file, then writes it.  With WriteFaults
\* an OSError may come from the open (the file is as it was) or from the
\* write (the file is left truncated); it escapes as a traceback.
WriteText(h, content, Then) ==
  \/ /\ out' = [out EXCEPT ![h] = content]
     /\ Then
  \/ /\ WriteFaults
     /\ out' \in {out, [out EXCEPT ![h] = Truncated]}
     /\ Raise

\* 'datastore_keys' in self.schema_data (TypeError for an empty file),
\* then _generate_datastore_keys: get_template raises TemplateNotFound,
\* and so do the arguments of render that cannot be computed, all before
\* anything is written
KeysRaise(d) ==
  \/ "datastore_keys.h.j2" \notin templates.files
  \/ ~KeysRenders(d)

GenerateDatastoreKeys ==
  /\ pc = "keys"
  /\ \/ schema_data.t = "null" /\ Raise /\ UNCHANGED out
     \/ /\ schema_data.t = "dict" /\ ~HasKey(schema_data, "datastore_keys")
        /\ pc' = "events" /\ UNCHANGED <<out, exit_code>>
     \/ /\ schema_data.t = "dict" /\ HasKey(schema_data, "datastore_keys")
        /\ KeysRaise(schema_data)
        /\ Raise /\ UNCHANGED out
     \/ /\ schema_data.t = "dict" /\ HasKey(schema_data, "datastore_keys")
        /\ ~KeysRaise(schema_data)
        /\ WriteText("DataStoreKeys.h", KeysHeader(schema_data),
                     pc' = "events" /\ UNCHANGED exit_code)
  /\ UNCHANGED <<file, templates, schema_data, outdir, runs, before>>

\* _generate_eventbus_events: the events are handed to the template as
\* they are; what the template (not in the repository) does with None is
\* open, so a null section may render or raise
EventsRaise(d) ==
  \/ "eventbus_events.h.j2" \notin templates.files
  \/ ~EventsRenders(d)

\* mutant: the events header streamed to disk as it is rendered
\* (template.stream(...).dump(path)), so a render that raises on a null
\* section leaves what it had rendered in EventBusEvents.h
GenerateEventbusEventsStreamed ==
  /\ pc = "events"
  /\ \/ ~HasKey(schema_data, "eventbus_events") /\ Exit(0) /\ UNCHANGED out
     \/ /\ HasKey(schema_data, "eventbus_events") /\ EventsRaise(schema_data)
        /\ Raise /\ UNCHANGED out
     \/ /\ HasKey(schema_data, "eventbus_events") /\ ~EventsRaise(schema_data)
        /\ \/ WriteText("EventBusEvents.h", EventsHeader(schema_data), Exit(0))
           \/ /\ schema_data.d["eventbus_events"].t = "null"
              /\ out' = [out EXCEPT !["EventBusEvents.h"] = EventsHeader(schema_data)]
              /\ Raise
  /\ UNCHANGED <<file, templates, schema_data, outdir, runs, before>>

GenerateEventbusEvents ==
  /\ pc = "events"
  /\ \/ ~HasKey(schema_data, "eventbus_events") /\ Exit(0) /\ UNCHANGED out
     \/ /\ HasKey(schema_data, "eventbus_events") /\ EventsRaise(schema_data)
        /\ Raise /\ UNCHANGED out
     \/ /\ HasKey(schema_data, "eventbus_events") /\ ~EventsRaise(schema_data)
        /\ \/ WriteText("EventBusEvents.h", EventsHeader(schema_data), Exit(0))
           \/ schema_data.d["eventbus_events"].t = "null" /\ Raise /\ UNCHANGED out
  /\ UNCHANGED <<file, templates, schema_data, outdir, runs, before>>

\* the generator is invoked again on the same output directory, with a
\* file and templates/ that may differ
Rerun ==
  /\ pc \in {"exited", "raised"}
  /\ runs < MaxRuns
  /\ file' \in Inputs
  /\ templates' \in TemplateDirs
  /\ pc' = "start"
  /\ schema_data' = EmptyDict
  /\ exit_code' = 0
  /\ runs' = runs + 1
  /\ before' = [dir |-> outdir, out |-> out]
  /\ UNCHANGED <<outdir, out>>

\* the last invocation has ended
Terminated == pc \in {"exited", "raised"} /\ runs = MaxRuns /\ UNCHANGED vars

Next ==
  \/ CheckTemplateDir
  \/ LoadSchema
  \/ MakeOutputDir
  \/ GenerateDatastoreKeys
  \/ GenerateEventbusEvents
  \/ Rerun
  \/ Terminated

Spec == Init /\ [][Next]_vars

-----------------------------------------------------------------------------
(* Type invariant.                                                         *)

Files == Inputs

Loaded == {EmptyDict} \cup {f.data : f \in {g \in Files : g.kind = "yaml"}}

Contents == {Absent, Old, Truncated}
            \cup UNION {Rendered(d) : d \in {x \in Loaded : x.t = "dict"}}

TypeOK ==
  /\ file \in Files
  /\ templates \in TemplateDirs
  /\ pc \in PCs
  /\ schema_data \in Loaded
  /\ outdir \in {"absent", "dir", "file"}
  /\ out \in [Headers -> Contents]
  /\ exit_code \in {0, 1}
  /\ runs \in 1..MaxRuns
  /\ before \in [dir : {"absent", "dir", "file"}, out : [Headers -> Contents]]

-----------------------------------------------------------------------------
(* Properties.                                                             *)

\* the section each header renders
SectionOf == [h \in Headers |->
               IF h = "DataStoreKeys.h" THEN "datastore_keys" ELSE "eventbus_events"]

HeaderOf(h, d) == IF h = "DataStoreKeys.h" THEN KeysHeader(d) ELSE EventsHeader(d)

RendersHeader(h, d) == IF h = "DataStoreKeys.h" THEN KeysRenders(d) ELSE EventsRenders(d)

\* An invocation that exits with 0 has rendered, from its own document,
\* the header of every section the document has (whatever earlier
\* invocations truncated or left behind), and has left the header of a
\* section the document lacks as it found it (generate() writes a header
\* only under 'x' in self.schema_data).
SuccessRendersPresentSections ==
  (pc = "exited" /\ exit_code = 0) =>
    \A h \in Headers :
      out[h] = IF HasKey(schema_data, SectionOf[h]) THEN HeaderOf(h, schema_data)
               ELSE before.out[h]

\* An invocation that exits with 1 through sys.exit (the templates
\* directory is missing, or the schema is missing or not YAML) leaves the
\* output directory exactly as it found it: main() and generate() give up
\* before mkdir and before any write.
CleanFailureLeavesOutputAlone ==
  (pc = "exited" /\ exit_code = 1) => outdir = before.dir /\ out = before.out

-----------------------------------------------------------------------------
(* A claim of spec.md the code does not meet.                              *)

\* spec.md 6: exit code 0 means the artifacts were written; so after an
\* invocation that exits with 0, no header in the output directory comes
\* from another invocation (generate() skips EventBusEvents.h when the
\* document has no eventbus_events and leaves what was there).
SuccessLeavesCurrentHeaders ==
  (pc = "exited" /\ exit_code = 0) =>
    \A h \in Headers : out[h] \in {Absent} \cup Rendered(schema_data)

-----------------------------------------------------------------------------
(* The generator implements GeneratorContract.  Between the start of an   *)
(* invocation and its end the contract sees the output directory as the  *)
(* invocation found it; the step that ends the invocation (sys.exit or a *)
(* traceback) is the contract's one step.                                 *)

InvocationEnded == pc \in {"exited", "raised"}

Status ==
  IF pc = "raised" THEN "crashed"
  ELSE IF pc = "exited" THEN (IF exit_code = 0 THEN "ok" ELSE "failed")
  ELSE "running"

GenContract == INSTANCE GeneratorContract
  WITH outdir <- IF InvocationEnded THEN outdir ELSE before.dir,
       out <- IF InvocationEnded THEN out ELSE before.out,
       Inputs <- Files, status <- Status, InitDirs <- InitialDirs,
       Damaged <- Truncated, Renders <- RendersHeader,
       Render <- HeaderOf

\* Every behaviour of invocations of generate_ipc_schema.py is one of the
\* contract: each invocation succeeds with every present section rendered
\* from its own document, fails through sys.exit touching nothing, or
\* ends in a traceback having at most created the directory and written
\* or truncated DataStoreKeys.h and truncated EventBusEvents.h; and it
\* changes the output directory only when it ends.
GeneratorContractSpec == GenContract!Spec

=============================================================================
