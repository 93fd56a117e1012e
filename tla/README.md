# TLA+ models of the mxrc IPC schema tooling

This directory holds TLA+ specifications of the Python tooling under
`src/scripts/`, TLC configurations that model-check them, and TLAPS proofs.

## The system

`src/scripts/` holds three programs:

| Part | Source | What it does | Status |
|---|---|---|---|
| Schema validator | `codegen/validate_schema.py` | Reads an IPC schema YAML file, checks the version, the custom types, the datastore keys, the eventbus events and the hot-key budgets, prints a report and exits 0 (valid) or 1 | modelled |
| IPC code generator | `codegen/generate_ipc_schema.py` | Renders `DataStoreKeys.h` and `EventBusEvents.h` from the same YAML through Jinja2 templates | modelled, except the two type filters |
| Prometheus exporter | `prometheus-exporter.py` | HTTP server on 127.0.0.1:9100 that runs `systemctl show` for two services on each `/metrics` scrape | modelled |

The validator and the generator share the schema document. The validator is
meant to gate the generator: a document it accepts is one the generator can
render. The exporter is independent of both.

## Modules

- `SchemaValues.tla` holds the values `yaml.safe_load` produces and the pure
  helpers of the validator.
  - A Python value is a record tagged with its class (`PyNull`, `PyBool`,
    `PyInt`, `PyFloat`, `PyNaN`, `PyStr`).
  - `Dict` is a dict the code only tests or indexes. `Mapping` is a dict the
    code iterates, kept as the sequence of its pairs in insertion order.
  - A string is the sequence of its tokens: type strings have tokens like
    `array<`, `double`, `,`, `64`, `>`, and versions are sequences of
    characters.
  - The helpers are translated line by line: `BASIC_TYPES`, `ArrayMatch`
    (`re.match(ARRAY_TYPE_PATTERN, …)`, anchored at the start only),
    `ValidateType` (`_validate_type`, including the `TypeError` on a
    non-string), `EstimateTypeSize` (`_estimate_type_size`), `SemVerMatch`
    (the version regex, including `$` before a final newline), `MajorIsOne`
    (`int(major) != 1`), `Truthy`, `IsNumber` (`isinstance(x, (int, float))`,
    where bool is an int) and `LeqZero` (`x <= 0`, false for NaN).
  - `SafeLoadMapping` models how the YAML constructor builds a mapping from
    text with a repeated key: the key keeps its first position and takes its
    last value.
- `SchemaValidator.tla` models one run of `main()`. Its variables are:
  - the validator's fields: `schema_data`, `errors`, `warnings`,
    `custom_types`;
  - the loop sets `key_names` and `event_names`;
  - a program counter `pc`;
  - the loop index `idx`;
  - the exit status `exit_code`;
  - what was printed, `printed`.

  Each method is an action. `LoadSchema`, `ValidateSchemaVersion`,
  `LoadCustomTypes`, `ValidateDatastoreKeys` and `ValidateEventbusEvents`
  model the methods up to their loops. `ValidateHotKeys` and `PrintResults`
  model `print_results` plus `sys.exit`. Each loop takes one step per
  iteration: `DatastoreKeysLoop`, `EventbusEventsLoop` and `HotKeysLoop`.
  `Raise` is an exception the code does not catch, which ends the run with a
  traceback and status 1. An action raises where Python would:
  - `'x' in None` on an empty document or a null spec;
  - `re.match` on a non-string version or type;
  - `None.keys()` or `.items()` on a null section;
  - `spec['type']` on a hot key that has no type;
  - an open or decode error other than `FileNotFoundError` or `YAMLError`.
- `SchemaContract.tla` is the abstract specification of what the validator
  promises, written from spec.md (sections 3, 4.1, 4.3, 4.4, 6, 7) and not
  from the code. It defines:
  - the type grammar, with recursive array types and positive counts, and
    `size_of`;
  - the MAJOR.MINOR.PATCH version form;
  - the structural conditions;
  - the set of defects (`DocDefects`) and warnings (`DocWarnings`) of a
    document.

  Its validator accepts or rejects in one step: `Conforms` is read,
  well formed and free of defects. `SchemaValidator` instantiates it with
  the refinement mapping `input <- file` and `verdict <- Verdict`, where a
  finished run's verdict is its exit status.
- `MCSchemaValidator.tla` builds the sets of input files for TLC.
- `SchemaValidatorProofs.tla`, `SchemaReportProofs.tla` and
  `SchemaTracebackProofs.tla` hold the TLAPS proofs.
- `IPCCodeGenerator.tla` models successive invocations of
  `generate_ipc_schema.py` on one output directory. Its variables are:
  - the invocation's inputs: `file` (the schema path) and `templates`
    (whether `templates/` exists and which of the two templates it holds);
  - `schema_data`, a program counter `pc` and `exit_code`;
  - the output directory: `outdir` (absent, a directory, or a plain file)
    and `out`, what each of the two headers holds;
  - `before`, the directory as the invocation found it, and the count `runs`.

  A header holds `Absent`, `Old` (written before the behaviour began),
  `Truncated` (a `write_text` that failed after truncating), or the values
  it was rendered from: the section, the hot-key subset and the version
  stamp `schema.get('schema', {}).get('version', '1.0.0')`. The actions
  follow `main()` and `generate()`: `CheckTemplateDir`, `LoadSchema`,
  `MakeOutputDir`, `GenerateDatastoreKeys`, `GenerateEventbusEvents`, and
  `Rerun` for the next invocation. Each generate action covers the section
  test, `get_template` (a missing template raises), the render (a `None`
  or non-dict `schema` block raises at `.get`, and so does `.items()` on a
  null section) and the write (which may fail, before or after truncation,
  when `WriteFaults` is TRUE).
- `GeneratorContract.tla` is the abstract specification of one invocation
  of the generator, written from spec.md 5 and 6. An invocation ends in one
  step of one of three kinds:
  - `Succeed`: the directory exists, and every present section's header is
    rendered from the document;
  - `Fail`: a `sys.exit(1)` that changes nothing;
  - `Crash`: a traceback that may have created the directory and written or
    damaged the keys header, but never leaves a new events header.

  `IPCCodeGenerator` instantiates it as `GenContract`. Until an invocation
  ends, the mapping shows the directory the invocation found (`before`), so
  every step inside an invocation is a stutter of the contract. The
  contract's `status` is the exit status, or "crashed" after a traceback.
- `Pipeline.tla` composes an instance of `SchemaValidator` and one of
  `IPCCodeGenerator` on the same file. The generator runs only after the
  validator exited with 0, the way spec.md 4.5 puts the validator in front
  of the emitter. No script in the repository chains the two programs, so
  the composition is written from spec.md.
- `PrometheusExporter.tla` models `prometheus-exporter.py` and the systemd
  units it reads:
  - `unit` is what systemd holds per service (active, CPU time, memory,
    `NRestarts`). `UnitWork`, `UnitFail` and `UnitRestart` change it at any
    moment, a scrape's middle included. A restart starts CPU time at zero,
    the way a new cgroup does.
  - `pending` holds the connections in the listen queue. `Arrive` adds a
    client's `GET` for `/metrics`, `/health` or another path.
  - `srv` is the one server thread. `HandleRequest` takes the next
    connection; `/health` and 404 are answered at once. For `/metrics`,
    `GetServiceMetrics` runs `systemctl show` for the next service in
    `SERVICES` order. The call's output is the unit's state at that moment,
    a `SubprocessError` (timeout or non-zero status) gives `{}`, and an
    `OSError` escapes `do_GET`, so the connection closes without an answer.
    `SendMetrics` sends `format_metrics` of what was read.
  - `responses` holds what was sent. A `/metrics` answer holds, per
    service, the four numbers the exposition text prints. It also holds the
    true restart count at each read and the set of failed calls, which only
    the properties use.
- `ExporterContract.tla` is what the exporter's HTTP server promises its
  clients, with the scrape abstracted away. Requests wait in one FIFO
  `queue` and are numbered as they arrive. `Serve` answers the request at
  the front exactly once, with a status `StatusFor` its path allows: 200 or
  a closed connection (0) for `/metrics`, 200 for `/health`, 404 otherwise.
  `PrometheusExporter` maps onto it with `queue <- InHand \o pending`,
  where `InHand` is the `/metrics` request being collected, if any, and
  `answered <- Sent`, which is `responses` cut down to id and status.
  Taking a `/metrics` request, each `systemctl` call and all unit steps
  are stutters of the contract.
- `MCIPCCodeGenerator.tla`, `MCPipeline.tla` and `MCPrometheusExporter.tla`
  build the TLC instances. `IPCCodeGeneratorProofs.tla` and
  `PrometheusExporterProofs.tla` hold the proofs.

## Runs

All runs use `KeyNames = {"k1","k2"}`, `EventNames = {"e1","e2"}` and
`MAX_HOT_KEYS = 1`, where the code has 32. Two keys against a limit of 1
reach both sides of the count check. The numerals 64 and 65 with `double`
put hot keys at 512 and 520 bytes, the two sides of the size check.

| Run | Expect | Properties | What it shows |
|---|---|---|---|
| keys | pass | ErrorsSound, TracebackOnlyOnMalformed, ContractSpec | The run covers every document with up to two keys, and unreadable, missing, non-YAML and empty files. Each key takes a type form (resolving, unknown, a bad array element, the 512/520-byte boundary, a non-string), a hot flag and an access form (coherent, read-only, write-only, null), plus null specs, sections and `types`. The exit status matches the contract, and every reported error is a real defect, reported once. A traceback ends only a run on an input that is not of the shape spec.md 7 requires, or on an untyped hot key. |
| meta | pass | TypeOK, ErrorsSound, WarningsExact, TracebackOnlyOnMalformed, ContractSpec | The run covers valid and invalid versions (majors 0, 01 and 2, and a float), priorities and TTLs in and out of range, and null specs. The verdict matches the contract, and the warnings are exactly the major-version and missing-section ones. The float version and the null specs end in a traceback, and no well-formed document does. |
| duplicates | violation | DuplicateKeysReported | A key written twice is never reported: `safe_load` merged it before the check at line 112. |
| hot_untyped | violation | NoTraceback | A hot key with no `type` raises `KeyError` at line 177 instead of being reported. |
| ttl | violation | AcceptedTtlsPositive | `ttl_ms: true` and `ttl_ms: .nan` are accepted (line 153). |
| grammar | violation | TypeErrorsFollowGrammar | The regex at line 192 accepts count 0 and trailing text, and rejects nested arrays. |
| version | violation | AcceptedVersionsWellFormed | `"1.0.0\n"` is accepted, because `$` matches before a newline (line 77). |
| completeness | violation | ErrorsComplete | `continue` at line 119 skips the access check of a key without a type. |
| generator | pass | GeneratorContractSpec | Three invocations on one directory. The inputs cover unreadable, missing and non-YAML files, and documents with each section null, absent or present. The `schema` block has a version, has none, or is null. `templates/` is complete, lacks the events template, or is missing. The output path is absent, a directory or a file, and writes may fail. Every behaviour implements `GeneratorContract`: an exit 0 has rendered each present section's header from its own document, a `sys.exit(1)` left the directory alone, and a traceback left at most the keys header new. |
| stale_header | violation | SuccessLeavesCurrentHeaders | A document without `eventbus_events` exits 0, and the previous invocation's `EventBusEvents.h` is still there (line 51). |
| pipeline | violation | AcceptedDocumentRendered | The validator accepts a document whose `schema` block is null or a string, and the generator then raises `AttributeError` at line 83. |
| exporter | pass | TypeOK, CounterDropsExplained, EveryRequestAnswered, ExporterContractSpec | Two requests, two units, and CPU time and restarts each up to 1. Every interleaving of the scrapes with work, failure and restart is covered, with each `systemctl` call succeeding, failing or missing. A counter only goes down across a restart, or where the later scrape's call failed. Every request is answered or closed. Every behaviour implements `ExporterContract`: no request is answered twice, answers leave in arrival order, also after an `OSError` drops a scrape, and each status is one its path allows. |

The generator bounds are enough for the interesting cases. Three invocations
let a good invocation follow a failed one and then a third observe both.
A document of two keys, one hot, makes the hot-key subset a proper subset.
The exporter bounds are enough too. A CPU bound of 1 with a restart bound of
1 is the least that lets a counter go down (1, then 0 after a restart), and
two requests give two `/metrics` answers to compare.

`ContractSpec` is the refinement check. It is the strongest property: it fails
on any wrong verdict, including one a traceback causes. `ErrorsSound` and
`WarningsExact` look inside the report, which the exit status does not show.
`ErrorsSound` holds over the type strings of the `keys` run. It would fail for
a nested array type, which the code reports as unknown although the grammar
accepts it. The `grammar` run shows that disagreement on its own. It
would also fail for a hot key of an unresolved array type such as
`array<Matrix, 65>`: the code sizes it at 65 × 8 = 520 bytes and reports it
too large, while `SchemaContract.KeyDefects` counts the size budget only for
types that resolve. The `keys` run's array of `Matrix` has 4 elements.
`ContractSpec` counts a traceback as a rejection, since both exit with 1.
`TracebackOnlyOnMalformed` tells them apart: the tracebacks of lines 56,
68, 77, 99, 110, 117, 137, 144, 192 and 209 end only runs on inputs that are not
of the shape spec.md 7 asks for, and a well-formed document always reaches
`print_results()`. The untyped hot key of line 177 is the one exception,
which the `hot_untyped` run shows.
Each property of a passing run is paired with a mutant in `PROJECT.json`, a
plausible bug that TLC then catches:
- `>=` in place of `>` for the size budget;
- swapped `rt_read` and `rt_write`;
- a missing priority;
- `< 0` in place of `<= 0`;
- `major > 1`;
- exiting with `len(errors)`;
- `schema_data['schema_version']` read before the test for the field
  (breaks `TracebackOnlyOnMalformed` in both runs).

The validator and the generator are straight-line programs with loops
bounded by the document's size, so every behaviour terminates (`Terminated`
stutters at the end). They assume no fairness. The exporter's `Spec`
assumes weak fairness of the server thread's steps (`WF_vars(ServerStep)`).
The code justifies it on two counts. `serve_forever` takes connections
for as long as the process lives, and every `systemctl` call ends within
its `timeout=5`. Clients and systemd get no fairness: they need not do
anything. Under this assumption `EveryRequestAnswered` says each request
is eventually answered or its connection closed. The `HandleRequestOnce`
mutant (`handle_request()` for `serve_forever()`) breaks it.

The mutants of the new runs are:
- CPU time divided by 10^6 rather than 10^9;
- the CPU counter read from `MemoryCurrent`;
- one request served and the server returning;
- the events header written before the null-section `AttributeError`
  (breaks `GeneratorContractSpec`);
- `do_GET` answering 200 on every path other than `/metrics` (breaks
  `ExporterContractSpec`).

## Proofs

`SchemaValidatorProofs.tla` proves `TypeCorrect == Spec => []TypeOK` for every
set of inputs satisfying `InputsAssumption` and for every `MAX_HOT_KEYS`.
`InputsAssumption` says each input is missing, unparsable or unreadable, or a
YAML document of the shape `DataShape` describes: sections are dicts, maps or
null, key and event names are drawn from the constants, and specs are dicts
or null.

TypeOK alone is not inductive. The loops index `Keys.m` and `Events.m`, and
the type of what they append depends on the document's shape. The
strengthening `IInv` adds the following:
- `DataShape(schema_data)`;
- once the version check has passed, the document is a dict;
- after the datastore-keys entry check, a present `datastore_keys` is a map;
- in the key and hot-key loops, `datastore_keys` is present;
- in the event loop, `eventbus_events` is present and a map.

The proof has three parts:
- `InitIInv`;
- `NextIInv`, one case per action, each split on the action's branches and
  resting on typing lemmas for `ValidateType`, `KeyErrors`, `EventErrors` and
  `HotKeySizeError`;
- `IInv => TypeOK`, combined by PTL.

`SchemaReportProofs.tla` proves `NoDuplicateErrors == Spec => []NoRepeats(errors)`:
no run ever reports the same diagnostic twice. The argument:
- Each check appends diagnostics of kinds of its own.
- One loop iteration appends distinct kinds, all naming the item at `idx`
  (`KeyErrorsShape`, `EventErrorsShape`, `HotKeySizeErrorShape`).
- The names of a YAML mapping's items are distinct (`IsMappingOf`).

The inductive invariant `IInv /\ RInv` makes this go through. `RInv` says of
each diagnostic already in `errors` (`ErrorPlace`) which statements may
follow the check that appended it, and that inside a loop it names an item
before `idx` (`Seen`). So what an iteration appends is new. The proof has
one lemma per action. The theorem does not say that the duplicate checks at
lines 112 and 139 never fire: a duplicate diagnostic would name an item no
earlier one named, and so would not repeat either. That the check at line
112 is dead is the finding of the `duplicates` run.

`SchemaTracebackProofs.tla` proves
`TracebackOnlyMalformed == Spec => []TracebackOnlyOnMalformed` for every set
of inputs satisfying `InputsAssumption`: a traceback ends only a run on an
input that is not of the shape spec.md 7 requires, or on an untyped hot key.
The property speaks of the file, while each raise site tests `schema_data`.
The invariant `TInv` ties the two:
- a statement past `_load_schema` runs only on a YAML file;
- there `schema_data` is that file's document.
With it each raise condition is a clause of `Structural` that the document
fails, or the untyped hot key of line 177:
- an empty file, or a version that is not a string;
- a `types` or section that is not a dict or a mapping;
- a null spec, a non-string type (`TypeRaise`) or a non-dict access
  (`KeyRaisesMalformed`).
The loops also use `IInv` (`KeyPosition`): the section a loop walks is a
mapping, so the index names one of its items. There is one lemma per action.

`IPCCodeGeneratorProofs.tla` proves two theorems for every set of inputs,
template directories, output states and write faults satisfying
`GeneratorAssumption`:
- `SuccessRenders == Spec => []SuccessRendersPresentSections`;
- `CleanFailure == Spec => []CleanFailureLeavesOutputAlone`.

No run checks these two properties on their own: `GeneratorContract`'s
`Succeed` and `Fail` steps say the same of a success and of a
`sys.exit(1)`, and the `generator` run checks the contract. The theorems
stay because the refinement proof rests on their invariant.

Neither property is inductive, because each speaks of the end of an
invocation. The invariant `GInv` says what the invocation has done so far:
- before mkdir, the directory is as the invocation found it (`before`);
- while the keys header is being generated, the headers are untouched;
- once it is written, they equal `KeysWritten`, the old headers with
  `DataStoreKeys.h` rendered if the document has keys;
- exit 0 is only set at the end.

`NextGInv` has one case per action, split on the raise, success and
write-fault branches, and `RaiseGInv` covers every traceback at once.

The same module proves two more theorems:
- `TypeCorrect == Spec => []TypeOK`, whose lemmas `InitTypeOK` and
  `NextTypeOK` the refinement proof also rests on;
  the `generator` run does not check `TypeOK`;
- `ContractRefinement == Spec => GeneratorContractSpec`, so the generator
  implements `GeneratorContract` for every value of the constants.

Both rest on a second invariant, `RInv`. It records what the control
point tells about the invocation: past the template check `templates/`
exists; past the load the file is YAML and `schema_data` is its document;
in the generate steps the output is a directory; and in the events step
the document is a dict whose keys section, if present, rendered.

The refinement proof has one step lemma per kind of step:
- an inner step (template check, load, mkdir, a successful keys write)
  leaves every mapped variable unchanged;
- `FailStep` maps `sys.exit(1)` to `Fail`;
- `CrashStep` maps every traceback to `Crash`, naming the keys and events
  contents the contract's existential asks for;
- `SucceedStep` maps the last write to `Succeed`, using `GInv`.

`Rerun` maps to `Rerun`.

`PrometheusExporterProofs.tla` proves four theorems for every `SERVICES`
list and every bound:
- `TypeCorrect == Spec => []TypeOK`;
- `CountersMonotone == Spec => []CounterDropsExplained`;
- `AnswersOnce == Spec => []AnswersOnceInOrder`;
- `ContractRefinement == Spec => ExporterContractSpec`.

The argument rests on `Behind(c, r, k)`. A sample (c, r) of service k is
behind the unit's current state when r ≤ the current restarts, and, at
equal restarts, c ≤ the current CPU time. Units only move forward
(`Forward`), so a sample that is behind stays behind. The invariant `EInv`
says two things:
- every sent answer and every sample of the scrape in progress is behind
  the units;
- a sample records the restart count it was read at (`seen`).

When a later scrape reads service k at the same restart count as an
earlier answer, its CPU time is at least the earlier one. `SendEInv`
carries this to the new answer.

`AnswersOnce` rests on `OInv`, which says where the request ids stand.
`Served` is the number of connections taken off the listen queue:
- the queued requests carry ids `Served + 1`, `Served + 2`, … in order;
- the request in hand while `collect_all_metrics` runs has id `Served`;
- every answer sent so far has an id below every request not yet answered.

Each answer, whether a 200, a 404 or an `OSError` close, is for the request
just taken. The server then goes back to the queue, so the ids of the answers
increase.
No run checks `AnswersOnceInOrder` on its own, because `ExporterContractSpec`
implies it: the contract's `Serve` answers the head of a FIFO queue whose
ids increase. The theorem proves it directly from the code's actions.

`ContractRefinement` rests on `EInv` and one more invariant, `CInv`: the
request in hand while the server is collecting is a `/metrics` request.
Without it the mapped queue `InHand \o pending` could not be shown to
front a request whose path allows the status sent. `StepRefinesContract`
has one case per action:
- `Arrive` maps to the contract's `Arrive`: the new id is `arrived + 1`
  and the request is appended at the back of the mapped queue (`ConsSeq`);
- `HandleRequest` maps to `Serve` for `/health` and any other path, and to
  a stutter for `/metrics`, which moves the request from `pending` to
  `InHand` without changing their concatenation (`HeadTailCons`);
- `GetServiceMetrics` stutters on a call that returns, and maps to `Serve`
  with status 0 on an `OSError` (`GetOutcome`);
- `SendMetrics` maps to `Serve` with status 200 (`FinishServes`);
- unit steps leave every mapped variable alone.
`SentAppend` shows that appending to `responses` appends the id and status
to `Sent`.

Only TLC checks the following:
- `EveryRequestAnswered`, a liveness property under fairness, which is out
  of TLAPS's reach;
- the `Pipeline` composition and the two generator violations;
- the validator's refinement `ContractSpec`. Like the two below, it does not
  hold for every input: the `grammar` and `version` runs reach a verdict
  the contract disagrees with;
- `ErrorsSound` and `WarningsExact`. They are not theorems because they do
  not hold for every input. `ErrorsSound` fails for a nested array type,
  which the grammar accepts and the code reports as unknown.
  `WarningsExact` fails for a version such as `"2.0.0\n"`, which the
  version regex accepts and warns about, while the contract's version form
  rejects it. They hold on the `keys` and `meta` runs' inputs, and the
  `grammar` and `version` runs show the two disagreements;
- anything involving the recursive type grammar and the `SizeOf` product in
  `SchemaContract`, which are what a value computes over all inputs.

## Not modelled

- The argv usage check of `main()` (lines 284–286) is not modelled.
- The wording of messages and `print` output is not modelled. A diagnostic is
  its kind and the name it reports.
- A document, section or spec that is a string or a list is not modelled.
  For these, Python's `in` tests substrings or elements.
- The templates (`templates/*.h.j2`) are not in the repository. A header
  is therefore modelled as the values it is rendered from, not as text.
- The generator's filters `_to_cpp_type` and `_to_cpp_default` are not
  modelled (lines 105–142). Only the missing templates call them, so which
  arguments they receive is unknown. `PROJECT.json` lists the hazard in
  them: `'int' in type_str` gives an `array<int32_t, 4>` the initializer `0`.
- The exporter's exposition text is not modelled: HELP and TYPE lines,
  labels, number formatting. Its argv parsing and the `KeyboardInterrupt`
  shutdown are not modelled either.
- The exporter's clients always send a whole request. A client that
  connects and stays silent blocks the server thread, since the handler
  sets no timeout. That is listed as a hazard without a property.
