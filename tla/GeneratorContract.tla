-------------------------- MODULE GeneratorContract --------------------------
(***************************************************************************)
(* What an invocation of the generator promises, at the grain of whole     *)
(* invocations (spec.md 5: "a single invocation either completes or fails *)
(* outright"; spec.md 6: exit 0 with the directory created and the        *)
(* artifacts written, exit 1 when the document cannot be loaded).  An     *)
(* invocation ends in one of three ways, each one step here:               *)
(*   - it succeeds: the output directory exists, and the header of every  *)
(*     section the document has is rendered from that document;          *)
(*   - it fails cleanly: nothing in the output directory changes;         *)
(*   - it crashes: a traceback part way through.  Then the directory may  *)
(*     have been created and the keys header written or left damaged,     *)
(*     but the events header, written last, is never a new rendering.     *)
(* A header of a section the document lacks is left as it was; that is   *)
(* what the code does, and the stale header it allows is recorded         *)
(* separately.                                                             *)
(***************************************************************************)
EXTENDS SchemaValues

CONSTANTS
  Inputs,        \* the files an invocation may be given
  TemplateDirs,  \* the states templates/ may be in
  InitDirs,      \* the states the output directory may start in: [dir, out]
  MaxRuns,       \* invocations in one behaviour
  Damaged,       \* the content of a header whose write failed part way
  Renders(_, _), \* Renders(h, d): header h can be rendered from document d
  Render(_, _)   \* Render(h, d): header h rendered from document d

VARIABLES file, templates, outdir, out, status, runs

avars == <<file, templates, outdir, out, status, runs>>

Keys == "DataStoreKeys.h"
Events == "EventBusEvents.h"
Headers == {Keys, Events}

\* the section of the document each header is rendered from
Section == [h \in Headers |-> IF h = Keys THEN "datastore_keys" ELSE "eventbus_events"]

Ended == {"ok", "failed", "crashed"}

Init ==
  /\ file \in Inputs
  /\ templates \in TemplateDirs
  /\ [dir |-> outdir, out |-> out] \in InitDirs
  /\ status = "running"
  /\ runs = 1

\* the document when the file is YAML, and its sections
Doc == file.data
Present(h) == file.kind = "yaml" /\ Doc.t = "dict" /\ HasKey(Doc, Section[h])

\* header h of a document with that section, when it can be rendered
Renderable(h) == Present(h) /\ Renders(h, Doc)

Succeed ==
  /\ status = "running"
  /\ templates.exists /\ file.kind = "yaml" /\ Doc.t = "dict"
  /\ \A h \in Headers : Present(h) => Renders(h, Doc)
  /\ outdir' = "dir"
  /\ out' = [h \in Headers |-> IF Present(h) THEN Render(h, Doc) ELSE out[h]]
  /\ status' = "ok"
  /\ UNCHANGED <<file, templates, runs>>

Fail ==
  /\ status = "running"
  /\ ~templates.exists \/ file.kind \in {"missing", "badyaml"}
  /\ status' = "failed"
  /\ UNCHANGED <<file, templates, outdir, out, runs>>

Crash ==
  /\ status = "running"
  /\ templates.exists /\ file.kind \in {"unreadable", "yaml"}
  /\ outdir' \in {outdir, "dir"}
  /\ \E k \in {out[Keys], Damaged} \cup (IF Renderable(Keys) THEN {Render(Keys, Doc)} ELSE {}),
       e \in {out[Events], Damaged} :
        out' = [out EXCEPT ![Keys] = k, ![Events] = e]
  /\ out' # out => outdir' = "dir"
  /\ status' = "crashed"
  /\ UNCHANGED <<file, templates, runs>>

\* the next invocation, on the same output directory
Rerun ==
  /\ status \in Ended
  /\ runs < MaxRuns
  /\ file' \in Inputs
  /\ templates' \in TemplateDirs
  /\ status' = "running"
  /\ runs' = runs + 1
  /\ UNCHANGED <<outdir, out>>

Next == Succeed \/ Fail \/ Crash \/ Rerun

Spec == Init /\ [][Next]_avars

=============================================================================
