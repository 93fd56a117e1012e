------------------------------ MODULE Pipeline ------------------------------
(***************************************************************************)
(* The schema pipeline of spec.md 4.5 and 5: validate_schema.py runs on   *)
(* the file, and generate_ipc_schema.py runs on the same file only when    *)
(* the validator exited with 0 (the caller gates the emitter on the       *)
(* verdict).  Both programs are instances of their own modules; they      *)
(* share the file and nothing else.                                        *)
(***************************************************************************)
EXTENDS SchemaValues

CONSTANTS Inputs, TemplateDirs, OutDirs, WriteFaults, MaxRuns

VARIABLES
  file,
  vpc, vdata, errors, warnings, custom_types, key_names, event_names, idx,
  vexit, printed,                              \* the validator's process
  templates, gpc, gdata, outdir, out, gexit, runs, before  \* the generator's

vvars == <<vpc, vdata, errors, warnings, custom_types, key_names,
           event_names, idx, vexit, printed>>
gvars == <<templates, gpc, gdata, outdir, out, gexit, runs, before>>
vars == <<file, vvars, gvars>>

V == INSTANCE SchemaValidator WITH pc <- vpc, schema_data <- vdata,
                                   exit_code <- vexit
G == INSTANCE IPCCodeGenerator WITH pc <- gpc, schema_data <- gdata,
                                    exit_code <- gexit

Ended(p) == p \in {"exited", "raised"}

Init == V!Init /\ G!Init

\* the validator runs to its end
Validate == ~Ended(vpc) /\ V!Next /\ UNCHANGED gvars

\* the generator runs once the validator has accepted the file
Generate == vpc = "exited" /\ vexit = 0 /\ G!Next /\ UNCHANGED vvars

\* the pipeline stops: the file was rejected, or the generator has ended
Stopped ==
  /\ Ended(vpc) /\ (vexit # 0 \/ Ended(gpc))
  /\ UNCHANGED vars

Next == Validate \/ Generate \/ Stopped

Spec == Init /\ [][Next]_vars

-----------------------------------------------------------------------------
(* A claim of spec.md the code does not meet.                              *)

\* spec.md 1 and 4.5: anything that passes validation can be transformed
\* into the target declarations, so with its templates in place and the
\* disk sound the generator ends with status 0 on every file the
\* validator accepted (the validator never reads the schema block from
\* which _generate_datastore_keys takes the version stamp).
AcceptedDocumentRendered ==
  (vpc = "exited" /\ vexit = 0 /\ Ended(gpc)) => gpc = "exited" /\ gexit = 0

=============================================================================
