----------------------- MODULE IPCCodeGeneratorProofs -----------------------
(***************************************************************************)
(* Proofs about IPCCodeGenerator for every value of the constants: what an *)
(* invocation that exits leaves in the output directory.                   *)
(*                                                                         *)
(* Neither property is inductive: each speaks of the end of an invocation, *)
(* and holds there because of what the steps before it did.  GInv says,   *)
(* statement by statement, what the invocation has done to the output     *)
(* directory so far: nothing before mkdir, nothing before the keys header *)
(* is written, and after it only that header (KeysWritten).                *)
(***************************************************************************)
EXTENDS IPCCodeGenerator, TLAPS

\* the output directory once _generate_datastore_keys has returned
KeysWritten ==
  [h \in Headers |->
     IF h = "DataStoreKeys.h" /\ HasKey(schema_data, "datastore_keys")
     THEN KeysHeader(schema_data) ELSE before.out[h]]

\* f is a function on the two headers
IsHeaderMap(f) == f = [h \in Headers |-> f[h]]

GInv ==
  /\ file \in Files
  /\ IsHeaderMap(out)
  /\ IsHeaderMap(before.out)
  /\ pc \in PCs
  /\ exit_code \in {0, 1}
  /\ pc \in {"start", "load", "mkdir", "keys", "events"} => exit_code = 0
  /\ pc \in {"start", "load", "mkdir"} => outdir = before.dir /\ out = before.out
  /\ pc = "keys" => out = before.out
  /\ pc = "events" => out = KeysWritten
  /\ SuccessRendersPresentSections
  /\ CleanFailureLeavesOutputAlone

\* what an invocation has established by the statement it is at: the
\* templates directory exists once main() went past its check, the
\* document is the file's once it is loaded, the directory exists once
\* mkdir returned, and the keys header could be rendered if it was
RInv ==
  /\ pc \in {"load", "mkdir", "keys", "events"} => templates.exists
  /\ pc \in {"mkdir", "keys", "events"} => file.kind = "yaml" /\ schema_data = file.data
  /\ pc \in {"keys", "events"} => outdir = "dir"
  /\ pc = "events" => /\ schema_data.t = "dict"
                      /\ HasKey(schema_data, "datastore_keys") => KeysRenders(schema_data)

LEMMA InitGInv == Init => GInv
<1> SUFFICES ASSUME Init PROVE GInv
  OBVIOUS
<1>1. IsHeaderMap(out)
  BY DEF Init, NoHeaders, IsHeaderMap
<1>2. QED
  BY <1>1 DEF Init, GInv, Files, PCs, SuccessRendersPresentSections,
             CleanFailureLeavesOutputAlone

\* the steps of an invocation that end it with a traceback keep GInv
LEMMA RaiseGInv ==
  ASSUME GInv, Raise, IsHeaderMap(out'),
         UNCHANGED <<before, file>>
  PROVE  GInv'
BY DEF GInv, Raise, PCs, IsHeaderMap, SuccessRendersPresentSections,
       CleanFailureLeavesOutputAlone

LEMMA NextGInv == GInv /\ [Next]_vars => GInv'
<1> SUFFICES ASSUME GInv, [Next]_vars PROVE GInv'
  OBVIOUS
<1>1. CASE CheckTemplateDir
  BY <1>1 DEF CheckTemplateDir, Exit, GInv, PCs, KeysWritten,
              SuccessRendersPresentSections, CleanFailureLeavesOutputAlone
<1>2. CASE LoadSchema
  <2>1. CASE file.kind = "unreadable"
    <3>1. Raise /\ UNCHANGED <<out, before, file>>
      BY <1>2, <2>1 DEF LoadSchema
    <3>2. QED
      BY <3>1, RaiseGInv DEF GInv
  <2>2. CASE file.kind \in {"missing", "badyaml"}
    <3>1. Exit(1) /\ UNCHANGED <<outdir, out, before, file>> /\ pc = "load"
      BY <1>2, <2>2 DEF LoadSchema
    <3>2. QED
      BY <3>1 DEF Exit, GInv, PCs, SuccessRendersPresentSections,
                  CleanFailureLeavesOutputAlone
  <2>3. CASE file.kind = "yaml"
    <3>1. pc' = "mkdir" /\ pc = "load" /\ UNCHANGED <<outdir, out, before, exit_code, file>>
      BY <1>2, <2>3 DEF LoadSchema
    <3>2. QED
      BY <3>1 DEF GInv, PCs, SuccessRendersPresentSections,
                  CleanFailureLeavesOutputAlone
  <2>4. QED
    BY <2>1, <2>2, <2>3, GeneratorAssumption DEF GInv, Files
<1>3. CASE MakeOutputDir
  <2>1. CASE outdir = "file"
    <3>1. Raise /\ UNCHANGED <<out, before, file>>
      BY <1>3, <2>1 DEF MakeOutputDir
    <3>2. QED
      BY <3>1, RaiseGInv DEF GInv
  <2>2. CASE outdir # "file"
    <3>1. pc' = "keys" /\ pc = "mkdir" /\ UNCHANGED <<out, before, exit_code, file>>
      BY <1>3, <2>2 DEF MakeOutputDir
    <3>2. QED
      BY <3>1 DEF GInv, PCs, SuccessRendersPresentSections,
                  CleanFailureLeavesOutputAlone
  <2>3. QED
    BY <2>1, <2>2
<1>4. CASE GenerateDatastoreKeys
  <2>1. pc = "keys" /\ UNCHANGED <<schema_data, before, file>>
    BY <1>4 DEF GenerateDatastoreKeys
  <2>2. out = before.out
    BY <2>1 DEF GInv
  <2>3. CASE Raise /\ UNCHANGED out
    BY <2>1, <2>3, RaiseGInv DEF GInv
  <2>4. CASE ~HasKey(schema_data, "datastore_keys")
             /\ pc' = "events" /\ UNCHANGED <<out, exit_code>>
    <3>1. out' = KeysWritten'
      BY <2>1, <2>2, <2>4 DEF KeysWritten, GInv, IsHeaderMap
    <3>2. QED
      BY <2>1, <2>4, <3>1 DEF GInv, PCs, SuccessRendersPresentSections,
                              CleanFailureLeavesOutputAlone
  <2>5. CASE HasKey(schema_data, "datastore_keys")
             /\ out' = [out EXCEPT !["DataStoreKeys.h"] = KeysHeader(schema_data)]
             /\ pc' = "events" /\ UNCHANGED exit_code
    <3>1. out' = KeysWritten'
      BY <2>1, <2>2, <2>5 DEF KeysWritten, GInv, IsHeaderMap, Headers
    <3>2. IsHeaderMap(out')
      BY <2>5 DEF GInv, IsHeaderMap
    <3>3. QED
      BY <2>1, <2>5, <3>1, <3>2 DEF GInv, PCs, SuccessRendersPresentSections,
                                    CleanFailureLeavesOutputAlone
  <2>6. CASE out' \in {out, [out EXCEPT !["DataStoreKeys.h"] = Truncated]} /\ Raise
    <3>1. IsHeaderMap(out')
      BY <2>6 DEF GInv, IsHeaderMap
    <3>2. QED
      BY <2>1, <2>6, <3>1, RaiseGInv
  <2>7. QED
    BY <1>4, <2>3, <2>4, <2>5, <2>6 DEF GenerateDatastoreKeys, WriteText
<1>5. CASE GenerateEventbusEvents
  <2>1. pc = "events" /\ UNCHANGED <<schema_data, before, outdir, file>>
    BY <1>5 DEF GenerateEventbusEvents
  <2>2. out = KeysWritten
    BY <2>1 DEF GInv
  <2>3. CASE Raise /\ UNCHANGED out
    BY <2>1, <2>3, RaiseGInv DEF GInv
  <2>4. CASE ~HasKey(schema_data, "eventbus_events") /\ Exit(0) /\ UNCHANGED out
    <3>1. \A h \in Headers :
            out'[h] = IF HasKey(schema_data, SectionOf[h]) THEN HeaderOf(h, schema_data)
                      ELSE before.out[h]
      BY <2>2, <2>4 DEF KeysWritten, SectionOf, HeaderOf, Headers, GInv, IsHeaderMap
    <3>2. QED
      BY <2>1, <2>4, <3>1 DEF Exit, GInv, PCs, SuccessRendersPresentSections,
                              CleanFailureLeavesOutputAlone
  <2>5. CASE HasKey(schema_data, "eventbus_events")
             /\ out' = [out EXCEPT !["EventBusEvents.h"] = EventsHeader(schema_data)]
             /\ Exit(0)
    <3>1. \A h \in Headers :
            out'[h] = IF HasKey(schema_data, SectionOf[h]) THEN HeaderOf(h, schema_data)
                      ELSE before.out[h]
      BY <2>2, <2>5 DEF KeysWritten, SectionOf, HeaderOf, Headers, GInv, IsHeaderMap
    <3>2. IsHeaderMap(out')
      BY <2>5 DEF GInv, IsHeaderMap
    <3>3. QED
      BY <2>1, <2>5, <3>1, <3>2 DEF Exit, GInv, PCs, SuccessRendersPresentSections,
                                    CleanFailureLeavesOutputAlone
  <2>6. CASE out' \in {out, [out EXCEPT !["EventBusEvents.h"] = Truncated]} /\ Raise
    <3>1. IsHeaderMap(out')
      BY <2>6 DEF GInv, IsHeaderMap
    <3>2. QED
      BY <2>1, <2>6, <3>1, RaiseGInv
  <2>7. QED
    BY <1>5, <2>3, <2>4, <2>5, <2>6 DEF GenerateEventbusEvents, WriteText
<1>6. CASE Rerun
  BY <1>6 DEF Rerun, GInv, Files, IsHeaderMap, PCs, SuccessRendersPresentSections,
              CleanFailureLeavesOutputAlone
<1>7. CASE Terminated \/ UNCHANGED vars
  BY <1>7 DEF Terminated, vars, GInv, KeysWritten, SuccessRendersPresentSections,
              CleanFailureLeavesOutputAlone
<1>8. QED
  BY <1>1, <1>2, <1>3, <1>4, <1>5, <1>6, <1>7 DEF Next

-----------------------------------------------------------------------------
(* Type correctness.  A header written is one Contents allows because    *)
(* the step that writes it has checked that it can be rendered from a    *)
(* loaded document; that the document of the events step is a dict is   *)
(* RInv's.                                                                *)

\* the three outcomes of _load_schema, one per kind of file
LEMMA LoadSchemaSplit ==
  ASSUME LoadSchema, file \in Files
  PROVE  /\ pc = "load"
         /\ UNCHANGED <<file, templates, outdir, out, runs, before>>
         /\ \/ file.kind = "unreadable" /\ Raise /\ UNCHANGED schema_data
            \/ file.kind \in {"missing", "badyaml"} /\ Exit(1) /\ UNCHANGED schema_data
            \/ /\ file.kind = "yaml" /\ schema_data' = file.data /\ pc' = "mkdir"
               /\ UNCHANGED exit_code
<1>1. file.kind \in {"unreadable", "missing", "badyaml", "yaml"}
  BY GeneratorAssumption DEF Files
<1>2. CASE file.kind = "unreadable"
  BY <1>2 DEF LoadSchema
<1>3. CASE file.kind \in {"missing", "badyaml"}
  BY <1>3 DEF LoadSchema
<1>4. CASE file.kind = "yaml"
  BY <1>4 DEF LoadSchema
<1>5. QED
  BY <1>1, <1>2, <1>3, <1>4

LEMMA InitTypeOK == Init => TypeOK
<1> SUFFICES ASSUME Init PROVE TypeOK
  OBVIOUS
<1>1. out \in [Headers -> Contents]
  BY DEF Init, NoHeaders, Contents
<1>2. QED
  BY <1>1, GeneratorAssumption
     DEF Init, TypeOK, Files, Loaded, PCs, EmptyDict, NoHeaders

LEMMA InitRInv == Init => RInv
BY DEF Init, RInv

\* a header rendered from a loaded document is a content a header can have
LEMMA RenderedContents ==
  ASSUME NEW d \in Loaded, d.t = "dict"
  PROVE  /\ KeysRenders(d) => KeysHeader(d) \in Contents
         /\ EventsRenders(d) => EventsHeader(d) \in Contents
BY DEF Contents, Rendered

LEMMA NextTypeOK == TypeOK /\ RInv /\ [Next]_vars => TypeOK'
<1> SUFFICES ASSUME TypeOK, RInv, [Next]_vars PROVE TypeOK'
  OBVIOUS
<1>1. CASE CheckTemplateDir
  BY <1>1 DEF CheckTemplateDir, Exit, TypeOK, PCs
<1>2. CASE LoadSchema
  BY <1>2, LoadSchemaSplit DEF Raise, Exit, TypeOK, PCs, Loaded, Files
<1>3. CASE MakeOutputDir
  BY <1>3 DEF MakeOutputDir, Raise, TypeOK, PCs
<1>4. CASE GenerateDatastoreKeys
  <2>1. KeysRenders(schema_data) /\ schema_data.t = "dict"
          => KeysHeader(schema_data) \in Contents
    BY RenderedContents DEF TypeOK
  <2>2. Truncated \in Contents
    BY DEF Contents
  <2>3. QED
    BY <1>4, <2>1, <2>2 DEF GenerateDatastoreKeys, KeysRaise, WriteText, Raise,
                            TypeOK, PCs
<1>5. CASE GenerateEventbusEvents
  <2>1. pc = "events"
    BY <1>5 DEF GenerateEventbusEvents
  <2>2. EventsRenders(schema_data) => EventsHeader(schema_data) \in Contents
    BY <2>1, RenderedContents DEF TypeOK, RInv
  <2>3. Truncated \in Contents
    BY DEF Contents
  <2>4. QED
    BY <1>5, <2>2, <2>3 DEF GenerateEventbusEvents, EventsRaise, WriteText, Raise,
                            Exit, TypeOK, PCs
<1>6. CASE Rerun
  <2>1. schema_data' \in Loaded /\ file' \in Files /\ templates' \in TemplateDirs
    BY <1>6 DEF Rerun, Loaded, Files
  <2>2. before' \in [dir : {"absent", "dir", "file"}, out : [Headers -> Contents]]
    BY <1>6 DEF Rerun, TypeOK
  <2>3. runs' \in 1..MaxRuns
    BY <1>6, GeneratorAssumption DEF Rerun, TypeOK
  <2>4. QED
    BY <1>6, <2>1, <2>2, <2>3 DEF Rerun, TypeOK, PCs
<1>7. CASE Terminated \/ UNCHANGED vars
  BY <1>7 DEF Terminated, vars, TypeOK
<1>8. QED
  BY <1>1, <1>2, <1>3, <1>4, <1>5, <1>6, <1>7 DEF Next

LEMMA NextRInv == TypeOK /\ RInv /\ [Next]_vars => RInv'
<1> SUFFICES ASSUME TypeOK, RInv, [Next]_vars PROVE RInv'
  OBVIOUS
<1>1. CASE CheckTemplateDir
  BY <1>1 DEF CheckTemplateDir, Exit, RInv
<1>2. CASE LoadSchema
  BY <1>2, LoadSchemaSplit DEF Raise, Exit, RInv, TypeOK
<1>3. CASE MakeOutputDir
  BY <1>3 DEF MakeOutputDir, Raise, RInv
<1>4. CASE GenerateDatastoreKeys
  BY <1>4 DEF GenerateDatastoreKeys, KeysRaise, WriteText, Raise, RInv
<1>5. CASE GenerateEventbusEvents
  BY <1>5 DEF GenerateEventbusEvents, WriteText, Raise, Exit, RInv
<1>6. CASE Rerun
  BY <1>6 DEF Rerun, RInv
<1>7. CASE Terminated \/ UNCHANGED vars
  BY <1>7 DEF Terminated, vars, RInv
<1>8. QED
  BY <1>1, <1>2, <1>3, <1>4, <1>5, <1>6, <1>7 DEF Next

\* Every state an invocation of generate_ipc_schema.py reaches is well
\* typed: in particular every header in the output directory is absent,
\* an earlier one, a truncated one, or a rendering of a loaded document.
THEOREM TypeCorrect == Spec => []TypeOK
<1>1. TypeOK /\ RInv /\ [Next]_vars => TypeOK' /\ RInv'
  BY NextTypeOK, NextRInv
<1>2. QED
  BY <1>1, InitTypeOK, InitRInv, PTL DEF Spec

-----------------------------------------------------------------------------
\* Every invocation that exits with 0 has rendered, from its own document,
\* the header of each section the document has, and left the other as it
\* found it (generate() and its two `if 'x' in self.schema_data` tests).
THEOREM SuccessRenders == Spec => []SuccessRendersPresentSections
<1>1. GInv => SuccessRendersPresentSections
  BY DEF GInv
<1>2. QED
  BY <1>1, InitGInv, NextGInv, PTL DEF Spec

\* Every invocation that exits with 1 through sys.exit (templates/
\* missing, the schema missing or not YAML) leaves the output directory
\* as it found it.
THEOREM CleanFailure == Spec => []CleanFailureLeavesOutputAlone
<1>1. GInv => CleanFailureLeavesOutputAlone
  BY DEF GInv
<1>2. QED
  BY <1>1, InitGInv, NextGInv, PTL DEF Spec

-----------------------------------------------------------------------------
(* Refinement of GeneratorContract.  Every step before the one that ends  *)
(* an invocation leaves the contract's view (before.dir, before.out) as  *)
(* it is; the ending step is Succeed, Fail or Crash.  Which of the three, *)
(* and that its conditions hold, is what GInv and RInv record about the   *)
(* statements that ran.                                                   *)

LEMMA InitRefines == Init => GenContract!Init
BY DEF Init, GenContract!Init, InitialDirs, InvocationEnded, Status, Files

\* a step inside an invocation is a stutter of the contract
LEMMA InnerStep ==
  ASSUME pc \notin {"exited", "raised"}, pc' \notin {"exited", "raised"},
         UNCHANGED <<file, templates, runs, before>>
  PROVE  UNCHANGED GenContract!avars
BY DEF GenContract!avars, InvocationEnded, Status

\* sys.exit(1) before anything was touched is the contract's Fail
LEMMA FailStep ==
  ASSUME pc \in {"start", "load"}, pc' = "exited", exit_code' = 1,
         ~templates.exists \/ file.kind \in {"missing", "badyaml"},
         UNCHANGED <<file, templates, runs, before, outdir, out>>,
         outdir = before.dir, out = before.out
  PROVE  GenContract!Fail
BY DEF GenContract!Fail, InvocationEnded, Status

\* a traceback is the contract's Crash when it has changed at most what
\* Crash allows
LEMMA CrashStep ==
  ASSUME GInv, RInv, Raise, UNCHANGED <<file, templates, runs, before>>,
         pc \in {"load", "mkdir", "keys", "events"},
         file.kind \in {"unreadable", "yaml"},
         IsHeaderMap(out'),
         outdir' \in {before.dir, "dir"},
         out' # before.out => outdir' = "dir",
         out'["DataStoreKeys.h"] \in
           {before.out["DataStoreKeys.h"], Truncated}
           \cup (IF /\ file.kind = "yaml" /\ file.data.t = "dict"
                    /\ HasKey(file.data, "datastore_keys") /\ KeysRenders(file.data)
                 THEN {KeysHeader(file.data)} ELSE {}),
         out'["EventBusEvents.h"] \in {before.out["EventBusEvents.h"], Truncated}
  PROVE  GenContract!Crash
<1>1. Status = "running" /\ Status' = "crashed"
  BY DEF Status, Raise
<1>2. /\ (IF InvocationEnded THEN outdir ELSE before.dir) = before.dir
      /\ (IF InvocationEnded THEN out ELSE before.out) = before.out
      /\ (IF InvocationEnded THEN outdir ELSE before.dir)' = outdir'
      /\ (IF InvocationEnded THEN out ELSE before.out)' = out'
  BY DEF InvocationEnded, Raise
<1>3. templates.exists
  BY DEF RInv
<1>4. out' = [before.out EXCEPT !["DataStoreKeys.h"] = out'["DataStoreKeys.h"],
                                !["EventBusEvents.h"] = out'["EventBusEvents.h"]]
  BY DEF GInv, IsHeaderMap, Headers
<1>5. out'["DataStoreKeys.h"] \in
        {before.out["DataStoreKeys.h"], Truncated}
        \cup (IF GenContract!Renderable(GenContract!Keys)
              THEN {HeaderOf(GenContract!Keys, GenContract!Doc)} ELSE {})
  BY DEF GenContract!Renderable, GenContract!Present, GenContract!Doc,
         GenContract!Section, GenContract!Keys, GenContract!Headers,
         GenContract!Events, GenContract!HasKey, HasKey, RendersHeader, HeaderOf
<1>6. \E k \in {before.out[GenContract!Keys], Truncated}
              \cup (IF GenContract!Renderable(GenContract!Keys)
                    THEN {HeaderOf(GenContract!Keys, GenContract!Doc)} ELSE {}),
         e \in {before.out[GenContract!Events], Truncated} :
        out' = [before.out EXCEPT ![GenContract!Keys] = k, ![GenContract!Events] = e]
  <2>1. /\ out'[GenContract!Keys] \in
             {before.out[GenContract!Keys], Truncated}
             \cup (IF GenContract!Renderable(GenContract!Keys)
                   THEN {HeaderOf(GenContract!Keys, GenContract!Doc)} ELSE {})
        /\ out'[GenContract!Events] \in {before.out[GenContract!Events], Truncated}
        /\ out' = [before.out EXCEPT ![GenContract!Keys] = out'[GenContract!Keys],
                                     ![GenContract!Events] = out'[GenContract!Events]]
    BY <1>4, <1>5 DEF GenContract!Keys, GenContract!Events
  <2>2. QED
    BY <2>1
<1>7. out' # before.out => outdir' = "dir"
  OBVIOUS
<1> DEFINE mdir == IF InvocationEnded THEN outdir ELSE before.dir
           mout == IF InvocationEnded THEN out ELSE before.out
<1>8. mdir' \in {mdir, "dir"}
  BY <1>2 DEF mdir
<1>9a. mout = before.out /\ mout' = out'
  BY <1>2 DEF mout
<1>9. \E k \in {mout[GenContract!Keys], Truncated}
              \cup (IF GenContract!Renderable(GenContract!Keys)
                    THEN {HeaderOf(GenContract!Keys, GenContract!Doc)} ELSE {}),
         e \in {mout[GenContract!Events], Truncated} :
        mout' = [mout EXCEPT ![GenContract!Keys] = k, ![GenContract!Events] = e]
  <2>1. PICK k \in {before.out[GenContract!Keys], Truncated}
                  \cup (IF GenContract!Renderable(GenContract!Keys)
                        THEN {HeaderOf(GenContract!Keys, GenContract!Doc)} ELSE {}),
             e \in {before.out[GenContract!Events], Truncated} :
               out' = [before.out EXCEPT ![GenContract!Keys] = k,
                                         ![GenContract!Events] = e]
    BY <1>6
  <2>2. /\ k \in {mout[GenContract!Keys], Truncated}
                  \cup (IF GenContract!Renderable(GenContract!Keys)
                        THEN {HeaderOf(GenContract!Keys, GenContract!Doc)} ELSE {})
        /\ e \in {mout[GenContract!Events], Truncated}
        /\ mout' = [mout EXCEPT ![GenContract!Keys] = k, ![GenContract!Events] = e]
    BY <2>1, <1>9a
  <2>3. QED
    BY <2>2
<1>10. mout' # mout => mdir' = "dir"
  BY <1>2, <1>7 DEF mdir, mout
<1>11. QED
  BY <1>1, <1>3, <1>8, <1>9, <1>10 DEF GenContract!Crash, mdir, mout

\* sys.exit(0) at the end of generate() is the contract's Succeed
LEMMA SucceedStep ==
  ASSUME GInv, RInv, GInv', pc = "events", pc' = "exited", exit_code' = 0,
         UNCHANGED <<file, templates, runs, before, schema_data, outdir>>,
         HasKey(schema_data, "eventbus_events") => EventsRenders(schema_data)
  PROVE  GenContract!Succeed
<1>1. Status = "running" /\ Status' = "ok"
  BY DEF Status
<1>2. /\ (IF InvocationEnded THEN out ELSE before.out) = before.out
      /\ (IF InvocationEnded THEN outdir ELSE before.dir)' = "dir"
      /\ (IF InvocationEnded THEN out ELSE before.out)' = out'
  BY DEF InvocationEnded, RInv
<1>3. templates.exists /\ file.kind = "yaml" /\ schema_data = file.data
      /\ schema_data.t = "dict"
  BY DEF RInv
<1>4. \A h \in Headers :
        out'[h] = IF HasKey(schema_data, SectionOf[h]) THEN HeaderOf(h, schema_data)
                  ELSE before.out[h]
  BY DEF GInv, SuccessRendersPresentSections
<1>5. out' = [h \in GenContract!Headers |->
                IF GenContract!Present(h) THEN HeaderOf(h, file.data)
                ELSE before.out[h]]
  BY <1>3, <1>4 DEF GInv, IsHeaderMap, Headers, SectionOf, GenContract!Present,
                    GenContract!Doc, GenContract!Section, GenContract!Headers,
                    GenContract!Keys, GenContract!Events, GenContract!HasKey, HasKey
<1>6. \A h \in GenContract!Headers :
        GenContract!Present(h) => RendersHeader(h, file.data)
  BY <1>3 DEF RInv, RendersHeader, GenContract!Present, GenContract!Doc,
              GenContract!Section, GenContract!Headers, GenContract!Keys,
              GenContract!Events, GenContract!HasKey, HasKey
<1>7. QED
  BY <1>1, <1>2, <1>3, <1>5, <1>6 DEF GenContract!Succeed, GenContract!Doc

LEMMA StepRefines ==
  ASSUME TypeOK, GInv, RInv, GInv', [Next]_vars
  PROVE  [GenContract!Next]_GenContract!avars
<1>1. CASE CheckTemplateDir
  <2>1. pc = "start" /\ UNCHANGED <<file, templates, runs, before, outdir, out>>
    BY <1>1 DEF CheckTemplateDir
  <2>2. CASE templates.exists
    BY <1>1, <2>1, <2>2, InnerStep DEF CheckTemplateDir
  <2>3. CASE ~templates.exists
    <3>1. GenContract!Fail
      BY <1>1, <2>1, <2>3, FailStep DEF CheckTemplateDir, Exit, GInv
    <3>2. QED
      BY <3>1 DEF GenContract!Next
  <2>4. QED
    BY <2>2, <2>3
<1>2. CASE LoadSchema
  <2>1. /\ pc = "load"
        /\ UNCHANGED <<file, templates, outdir, out, runs, before>>
        /\ \/ file.kind = "unreadable" /\ Raise /\ UNCHANGED schema_data
           \/ file.kind \in {"missing", "badyaml"} /\ Exit(1) /\ UNCHANGED schema_data
           \/ /\ file.kind = "yaml" /\ schema_data' = file.data /\ pc' = "mkdir"
              /\ UNCHANGED exit_code
    BY <1>2, LoadSchemaSplit DEF TypeOK
  <2>2. outdir = before.dir /\ out = before.out /\ IsHeaderMap(out)
    BY <2>1 DEF GInv
  <2>3. CASE file.kind = "unreadable" /\ Raise
    <3>1. GenContract!Crash
      BY <2>1, <2>2, <2>3, CrashStep
    <3>2. QED
      BY <3>1 DEF GenContract!Next
  <2>4. CASE file.kind \in {"missing", "badyaml"} /\ Exit(1)
    <3>1. GenContract!Fail
      BY <2>1, <2>2, <2>4, FailStep DEF Exit
    <3>2. QED
      BY <3>1 DEF GenContract!Next
  <2>5. CASE file.kind = "yaml" /\ pc' = "mkdir"
    BY <2>1, <2>5, InnerStep
  <2>6. QED
    BY <2>1, <2>3, <2>4, <2>5
<1>3. CASE MakeOutputDir
  <2>1. pc = "mkdir" /\ UNCHANGED <<file, templates, runs, before, out>>
    BY <1>3 DEF MakeOutputDir
  <2>2. outdir = before.dir /\ out = before.out /\ IsHeaderMap(out)
        /\ file.kind = "yaml"
    BY <2>1 DEF GInv, RInv
  <2>3. CASE outdir = "file"
    <3>1. Raise /\ UNCHANGED outdir
      BY <1>3, <2>3 DEF MakeOutputDir
    <3>2. GenContract!Crash
      BY <2>1, <2>2, <3>1, CrashStep
    <3>3. QED
      BY <3>2 DEF GenContract!Next
  <2>4. CASE outdir # "file"
    BY <1>3, <2>1, <2>4, InnerStep DEF MakeOutputDir
  <2>5. QED
    BY <2>3, <2>4
<1>4. CASE GenerateDatastoreKeys
  <2>1. /\ pc = "keys" /\ UNCHANGED <<file, templates, schema_data, outdir, runs, before>>
        /\ out = before.out /\ IsHeaderMap(out) /\ outdir = "dir"
        /\ file.kind = "yaml" /\ schema_data = file.data
    BY <1>4 DEF GenerateDatastoreKeys, GInv, RInv
  <2>2. CASE Raise /\ UNCHANGED out
    <3>1. GenContract!Crash
      BY <2>1, <2>2, CrashStep
    <3>2. QED
      BY <3>1 DEF GenContract!Next
  <2>3. CASE pc' = "events"
    BY <2>1, <2>3, InnerStep
  <2>4. CASE /\ WriteFaults
             /\ out' \in {out, [out EXCEPT !["DataStoreKeys.h"] = Truncated]}
             /\ Raise
    <3>1. IsHeaderMap(out')
      BY <2>1, <2>4 DEF IsHeaderMap
    <3>2. out'["EventBusEvents.h"] = before.out["EventBusEvents.h"]
          /\ out'["DataStoreKeys.h"] \in {before.out["DataStoreKeys.h"], Truncated}
      BY <2>1, <2>4 DEF IsHeaderMap, Headers
    <3>3. GenContract!Crash
      BY <2>1, <2>4, <3>1, <3>2, CrashStep
    <3>4. QED
      BY <3>3 DEF GenContract!Next
  <2>5. QED
    BY <1>4, <2>2, <2>3, <2>4 DEF GenerateDatastoreKeys, WriteText
<1>5. CASE GenerateEventbusEvents
  <2>1. /\ pc = "events" /\ UNCHANGED <<file, templates, schema_data, outdir, runs, before>>
        /\ out = KeysWritten /\ IsHeaderMap(out) /\ IsHeaderMap(before.out)
        /\ outdir = "dir"
        /\ file.kind = "yaml" /\ schema_data = file.data /\ schema_data.t = "dict"
        /\ HasKey(schema_data, "datastore_keys") => KeysRenders(schema_data)
    BY <1>5 DEF GenerateEventbusEvents, GInv, RInv
  <2>2. /\ out["EventBusEvents.h"] = before.out["EventBusEvents.h"]
        /\ out["DataStoreKeys.h"] \in
             {before.out["DataStoreKeys.h"]}
             \cup (IF HasKey(file.data, "datastore_keys") /\ KeysRenders(file.data)
                   THEN {KeysHeader(file.data)} ELSE {})
    BY <2>1 DEF KeysWritten, Headers
  <2>3. CASE Raise /\ UNCHANGED out
    <3>1. GenContract!Crash
      BY <2>1, <2>2, <2>3, CrashStep DEF GInv
    <3>2. QED
      BY <3>1 DEF GenContract!Next
  <2>4. CASE /\ WriteFaults
             /\ out' \in {out, [out EXCEPT !["EventBusEvents.h"] = Truncated]}
             /\ Raise
    <3>1. IsHeaderMap(out')
      BY <2>1, <2>4 DEF IsHeaderMap
    <3>2. /\ out'["DataStoreKeys.h"] = out["DataStoreKeys.h"]
          /\ out'["EventBusEvents.h"] \in {before.out["EventBusEvents.h"], Truncated}
      BY <2>1, <2>2, <2>4 DEF IsHeaderMap, Headers
    <3>3. GenContract!Crash
      BY <2>1, <2>2, <2>4, <3>1, <3>2, CrashStep DEF GInv
    <3>4. QED
      BY <3>3 DEF GenContract!Next
  <2>5. CASE ~HasKey(schema_data, "eventbus_events") /\ Exit(0)
    <3>1. GenContract!Succeed
      BY <2>1, <2>5, SucceedStep DEF Exit
    <3>2. QED
      BY <3>1 DEF GenContract!Next
  <2>6. CASE /\ HasKey(schema_data, "eventbus_events") /\ ~EventsRaise(schema_data)
             /\ out' = [out EXCEPT !["EventBusEvents.h"] = EventsHeader(schema_data)]
             /\ Exit(0)
    <3>1. GenContract!Succeed
      BY <2>1, <2>6, SucceedStep DEF Exit, EventsRaise
    <3>2. QED
      BY <3>1 DEF GenContract!Next
  <2>7. QED
    BY <1>5, <2>3, <2>4, <2>5, <2>6 DEF GenerateEventbusEvents, WriteText
<1>6. CASE Rerun
  <2>1. GenContract!Rerun
    BY <1>6 DEF Rerun, GenContract!Rerun, GenContract!Ended, Status,
                InvocationEnded, GInv
  <2>2. QED
    BY <2>1 DEF GenContract!Next
<1>7. CASE Terminated \/ UNCHANGED vars
  BY <1>7 DEF Terminated, vars, GenContract!avars, InvocationEnded, Status
<1>8. QED
  BY <1>1, <1>2, <1>3, <1>4, <1>5, <1>6, <1>7 DEF Next

\* Every behaviour of generate_ipc_schema.py, invocation after invocation
\* on one output directory, is a behaviour of GeneratorContract: each
\* invocation changes the directory only as it ends, and ends by
\* succeeding with its document's sections rendered, by a sys.exit(1)
\* that touched nothing, or by a traceback that left at most a new
\* directory, a new or truncated DataStoreKeys.h and a truncated
\* EventBusEvents.h.
THEOREM ContractRefinement == Spec => GeneratorContractSpec
<1>1. TypeOK /\ GInv /\ RInv /\ [Next]_vars => (TypeOK /\ GInv /\ RInv)'
  BY NextTypeOK, NextGInv, NextRInv
<1>2. TypeOK /\ GInv /\ RInv /\ [Next]_vars /\ GInv'
        => [GenContract!Next]_GenContract!avars
  BY StepRefines
<1>3. Init => TypeOK /\ GInv /\ RInv /\ GenContract!Init
  BY InitTypeOK, InitGInv, InitRInv, InitRefines
<1>4. QED
  BY <1>1, <1>2, <1>3, PTL DEF Spec, GeneratorContractSpec, GenContract!Spec

=============================================================================
