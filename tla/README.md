# dataIpsum in TLA+

TLA+ modules that model the core of dataIpsum, the TLC runs that check them on
small instances, and the theorems about them that TLAPS proves for every
instance. Paths are those of the repository; the Python package is
`src/src/dataipsum/`.

dataIpsum generates synthetic data from a YAML schema. At this commit the
repository holds the *foundation*: contracts, seeds, schema, configuration,
registry, manifest, and the scripts of its build. The packages of the other
tracks (types, relations, sinks, execution, LLM, command line) are skeletons, and
of `api.py` only `load_schema` and `validate` work: `plan`, `generate`, `resume`,
`export_schema` and `import_ddl` end in `NotImplementedError`. The models therefore
speak of the foundation: of what it promises to the tracks that will call it.

## 1. Inventory

| Part | Code | State | Operations | Talks to |
| --- | --- | --- | --- | --- |
| Deterministic draws | `seeds.py` | none: pure functions of seed, row and slot | `derive`, `mix`, `draw_u64`, `uniform`, `integers`, `choice`, `normal`, `Draws`, `random_seed` | generators, executor |
| Manifest on disk | `manifest.py` 97-110, 267-306 | the output directory | `write_manifest_atomic`, `read_manifest`, `check_output_dir_for_generate` | driver, `api.py`, `resume` |
| Manifest contents, flush policy, checks of resume | `manifest.py` 26-94, 113-264 | chunks since the last flush and its time (kept by the driver) | `ManifestFlushPolicy.should_flush`, `Manifest.to_json_dict`, `from_json_dict`, `sanitize_sink_options`, `compute_schema_sha256`, `raise_if_schema_mismatch`, `raise_if_major_version_mismatch`, `confine_to_output_dir` | driver, executor, sink |
| Registry and plugins | `registry.py` | five dictionaries, origins, `loaded_plugins` | `register`, `load_plugins`, `resolve_allowed_plugins`, `build_registry` | entry points, every track's `register` |
| Schema models | `schema/models.py` | the schema document (immutable copies) | structural validators, capabilities, dependencies, `validate_with_registry`, `normalize_schema` | registry, generators, planner |
| Schema loader | `schema/loader.py`, `schema/jsonschema.py` | none | reading, depth, limits, forbidden keys, `load_schema`, `validate` | models, registry |
| Inline schemas | `schema/inline.py` | none | `build_inline_schema` from `--col` flags | models, command line |
| Configuration | `config.py` | none | precedence of command line, environment, schema, defaults | facade |
| Facade | `api.py` | none | `load_schema`, `validate`, `plan`, `generate`, `resume`, `export_schema`, `import_ddl` | all of the above |
| Contracts | `contracts/` | none | protocols and records | tracks |
| Test doubles | `testing/fakes.py` | chunks committed, tasks submitted | `FakeSink`, `FakeExecutor`, `FakePlanner`, ... | tests |
| Errors, command line, packages of the tracks | `errors.py`, `cli/`, `types/`, `relations/`, `sinks/`, `execution/`, `llm/`, `schema_io/` | none | classes of exceptions, empty `register` functions, `--version` | |
| Dockerfile rendering | `src/scripts/render_dockerfile.py` | the `Dockerfile` | `validate_fragment`, `render`, `main`, `main --check` | fragments of each track, CI |
| Security checks | `src/scripts/check_security_exceptions.py`, `run_*.py` | `dependency-check-suppressions.xml`, `requirements-export.txt` | the hook of the exceptions, one hook for each of four tools | `security/exceptions.yaml`, the tools, CI |

How they interact. `load_schema` parses and checks limits and structure;
`validate` then hands the schema to the models' `validate_with_registry`, which
asks each column's generator, found in the registry, for its capabilities, its
dependencies and its errors, and asks the planner for the relations between
tables. `normalize_schema` adds the columns that a planner and the generators
imply. The executor draws every value with `Draws`; the driver records finished
chunks in a manifest, written whenever the flush policy says so, and `resume`
reads the manifest back. `generate` first asks `check_output_dir_for_generate`
whether the directory is fresh.

What is hard here, and what is to be correct about it:

* **Crashes in the middle of a write** (manifest). A reader, or the `resume` of a
  run that died, must find a whole manifest, and never one older than what the
  driver was told had been written. Errors must say the truth about what is on disk.
* **A run of many processes** (manifest contents). A run is killed between any two
  of its steps and taken up by another process, of another release, for a user who
  gives the right schema, the wrong one or none; workers finish chunks in any order.
  The manifest, always a little late, decides what is done again, what is trusted
  and whether the data of two schemas meet in one directory.
* **One value per row, however the work is cut** (draws). Chunks are drawn by any
  worker, again after a crash, in other sizes after a change of options. Rejection
  sampling works on a whole batch at once and must not let one row's bad luck
  change another's value. Under it lies 64-bit arithmetic in halves, wraps through
  signed integers, and rounding through floats.
* **Loading that stops halfway** (registry). A conflict, or a plugin that does not
  import, leaves a registry partly filled that its holder may go on using.
* **Recursive search over a graph the user wrote** (dependencies): shared, repeated,
  missing and circular dependencies, answered on the way out of nested calls, in an
  interpreter with a recursion limit.
* **Documents of any shape** (loader). Layer 1 walks over a tree that nobody has
  validated, and must neither let a secret through nor lose an error on the way;
  an inline schema is put together from flags that fail one by one.
* **A copy that goes past the validators** (normalisation). The columns that
  generators and planner imply are appended to tables already validated, by
  `model_copy`, and the result may be validated and normalised again.
* **Precedence of layers with falsy values** (configuration). Zero, an empty tuple and
  nothing at all must be told apart in each of four layers, and a value that loses
  should not matter, though all variables are parsed before any field is resolved.
* **Two parsers of one text** (Dockerfile). The script divides fragments into
  instructions one at a time; docker divides the file that they are joined into. A
  continuation, a comment or a blank line at a seam decides who is right. The file is
  emptied before it is written.
* **A check and a use apart in time** (security hooks). The exceptions are read once
  to be checked and once more to be used; one tool gets them through a file that a
  killed run leaves behind; entries expire at midnight.

There are no threads, locks or messages between processes in the code at this
commit; concurrency is that of the manifest's writer, its readers and the machine, that of
the driver and the executor it is written for, and that of the scripts with those who
edit the files they read.

## 2. Modules

| Module | Role | Models |
| --- | --- | --- |
| `ManifestStore` | component | the calls of `write_manifest_atomic` one by one, readers, failures, kills, power losses |
| `ManifestRegister` | abstract specification | an atomic register, durable when acknowledged |
| `ManifestStoreProofs` | theorems | integrity, durability, no litter, refinement |
| `RunRecord` | composition, on `ManifestRegister` | a run with its driver, executor, sink and user: the flush policy, the manifest through JSON, sanitisation, the checks of resume |
| `MCRunRecord` | instances | schemas, releases and calls for TLC |
| `RunRecordProofs` | theorems | claims are true, losses are bounded, data have one origin, options are kept |
| `WordArithmetic` | operators | words, their 128-bit product, Lemire's threshold, the float64 product |
| `Draws` | component, on `WordArithmetic` | `integers` and `_lemire_offsets` over successive batches |
| `MCDraws` | instances | batches and ranges for TLC |
| `DrawsProofs` | theorems | exactness of the product, one value per row, range, no bias, honest failure |
| `Registry` | component | `register`, `load_plugins`, `_load_entry_point`, the allow-list |
| `MCRegistry` | instances | entry points for TLC |
| `RegistryProofs` | theorems | names are kept, records are exact, no plugin is forgotten |
| `DependencyOrder` | component | `_has_cycle` call by call, `_validate_depends_on` |
| `MCDependencyOrder` | instances | graphs for TLC |
| `DependencyOrderProofs` | theorems | the search decides cycles, what it accepts can be ordered |
| `SchemaPipeline` | component | `load_schema`, the validators, `validate_with_registry`, `normalize_schema` |
| `MCSchemaPipeline` | instances | documents and registries for TLC |
| `SchemaPipelineProofs` | theorems | declared columns kept, names unique, refusals complete, one growth, implied columns complete, acceptance lasts |
| `SchemaSources` | component | `load_schema` on trees of any shape, `build_inline_schema` flag by flag |
| `MCSchemaSources` | instances | trees and flags for TLC |
| `RunOptions` | component | `resolve_run_options`, variable by variable and field by field |
| `OptionPrecedence` | abstract specification | the highest layer that speaks, or a refusal |
| `MCRunOptions` | instances | calls for TLC |
| `UserInput` | composition of `SchemaSources` and `RunOptions` | a schema is made, and `resolve_run_options` is called with it |
| `MCUserInput` | instances | all sources, then all calls |
| `UserInputProofs` | theorems | `RunOptions` implements the precedence; layer 1 is exact, documents of dicts and lists hide nothing, every flag is judged, inline schemas are faithful; all of it holds of `UserInput` |
| `DockerfileRender` | component | `render_dockerfile.py`, and docker's division into instructions |
| `MCDockerfileRender` | instances | template and fragments for TLC |
| `SecurityHooks` | component | the five hooks, step by step, and the days and edits around them |
| `MCSecurityHooks` | instances | files of exceptions and comments for TLC |
| `ScriptProofs` | theorems | hooks: what passes is excepted, green is current, refusals have a cause; rendering: green is built as intended, red has a cause |

In each component module the operators whose names begin with `Bug` are mutated
forms of the definition that follows them: what the code would be with a
plausible mistake. No specification uses them; put in the place of the
definition, each must make a property fail, which shows that the property says
something of the code.

### ManifestStore

`pc` is the system call that `write_manifest_atomic` makes next: `mkdir`, open of
`._manifest.json.tmp-<uuid>`, write and flush, `fsync` of the file, `os.replace`,
`os.open` of the directory, `fsync` of it, close and return. Call *k* carries
manifest *k* and temporary file *k*; an integer stands for the payload, the
file and the inode. `dir` is the directory as processes see it, `onDisk` the
states of it that a power loss may leave, `full` and `durable` say which inodes
are wholly written and which were fsynced.

Every call may fail. Those in the `try` block raise `ManifestError`
(`FailWithOSError`), those outside raise what they raise (`FailWithOtherError`);
nothing is undone. `KillWriter` ends the process between any two calls;
`PowerLoss` also loses the page cache. A reader opens the file and reads it
later, so that a replacement may fall in between.

The file system is external and assumed to be the usual journalled one:
directory operations are atomic, reach the disk in the order in which they were
made, and are durable after `fsync` of the directory, together with those before
them. That includes the entry of `<out>` itself in its parent: the code does not
fsync the parent, so on a file system without this ordering the directory itself
could vanish; the model does not claim otherwise. The contents of a file are only
certain after its `fsync`. A single writer is what `manifest.py` documents.

`ManifestRegister` is the promise seen from outside: a write publishes a
manifest in one step, hardens, and is acknowledged; power loss undoes only what was
not hardened; a read returns what the register held. `ImplementsRegister` is the
refinement: `current` is the content of `_manifest.json`, `survivors` the contents
that a power loss may leave, `reading` the content of the inode opened.

### RunRecord

The manifest file is the register that `ManifestStore` implements: `RunRecord`
uses the actions of `ManifestRegister`, with a call of `write_manifest_atomic` as
`Publish`, `Harden`, `Flushed` and one of `read_manifest` as `StartResume` and what
follows it. `docs` holds the JSON of every manifest that may still be found, `manifest`
the one in the memory of the process; `ToJson` and `FromJson` are the way between
them, with the sanitisation of the sink's options on the way out. `sink` says for each
chunk from which schema and major version its committed data are, as `write_chunk` of
`FakeSink` keeps one result per chunk. `RunChunk` is a worker: it commits the chunk and
says `done`, or says that it did not; its result waits in `results`, at most
`Concurrency` of them, until `Record`, the driver, takes one in any order, puts it in
the manifest and asks `ShouldFlush`. `RefuseResume` and `Resume` are the two outcomes
of the checks. `Stop` ends a process anywhere, `PowerLoss` the machine.

The driver does not exist at this commit (it is track D's). What it does is taken from
the docstrings of `manifest.py` and `contracts/` and from DD-01 (D.3.1, D.3.5), and is
assumed, not verified:

* it writes a manifest before the first chunk is recorded, records every result and asks
  the policy after each, with `is_final` at the last; a `ManifestError` ends the process;
* a chunk that `write_chunk` has returned for is `committed`, which is taken to outlast a
  power loss, and one committed again replaces the first (`contracts/sink.py`);
* a result is final: retries are the executor's own;
* `generate` is given an empty directory. If a power loss left data without a
  manifest, the user takes another directory;
* a resumed manifest goes on under the version that wrote it or the one that runs
  (no document says which; both are explored).

Time is abstracted: any number of seconds may have passed since the last flush. The
fields of a manifest on which nothing here depends travel unchanged and are left out.

### Draws and WordArithmetic

`raw` is `draw_u64` for the column at hand: *any* function from rows and slots to
words, since what the hashes of `derive` and `mix` return does not matter to what
is checked. `Columns` gives the pairs of such a function and a range. A behaviour draws batch after batch, the chunks of any workers; a
batch lists rows in any order, may repeat them, and may meet others. A turn of
`_lemire_offsets` is one action: all pending rows draw at the same slot, the
accepted ones store their offset. `published` collects what calls have returned
for each row.

`WordArithmetic` is parameterised by the values of half a word and of a mantissa
(2^32 and 2^53 in the code): products are made of half words with the carries of
`_widening_multiply`, the float64 path rounds to the mantissa with ties to even and
floors, and `Signed` wraps as `astype(np.int64)` and an int64 sum do. Hence the same
definitions serve TLC on words of six bits and the proofs on any. The float path is
taken for spans up to `UniformLimit`, the code's 2^53, of which only this is assumed: it
is a power of two and divides the values of a word.

### Registry

`entry`, `origin` and `loaded` are the dictionaries, `_origins` and
`loaded_plugins`. `Register` is a call by a built-in package or by hand,
`LoadPlugins` begins a load under an arbitrary value of `DATAIPSUM_PLUGINS` and
`--no-plugins`; each entry point is one action (`SkipPlugin`, `LoadPlugin`), and an
error leaves the registry as it is, for its holder to use, register in or load
again. An entry point without a distribution is called `desconhecido` by the code:
a distribution like any other here. Two things are narrower than the code: whoever
registers by hand leaves the origin at its default, as every caller in the repository
does, and whatever `EntryPoint.load()` raises is one outcome (`ImportError`), since
nothing in `registry.py` catches any of it. The allow-list is an argument of each load,
of which the registry keeps nothing, so no property speaks of it over time.

### DependencyOrder

`stack` holds the calls of `visit` in progress, each with the dependencies that its
`any` has yet to visit; `visiting`, `visited` are the sets of the code. `found` is the
value that travels up when a call returns `True`; each call on the way still moves
its column from `visiting` to `visited` before it returns. `RecursionLimit`,
`BaseFrames` and `FramesPerVisit` are those of the interpreter: in CPython 3.12 a
visit costs two frames, its own and that of the generator expression in `any`.
The columns have types that the registry knows, the others being reported before.

### SchemaPipeline

`document` is what the caller loads, `tables` the schema it holds afterwards,
`outcome` and `reported` how the last call ended and with which errors; `ctx` is the
`ValidationContext`, reduced to what the contracts of `Generator` and `Planner` answer:
implied columns, dependencies and refusals by type, implied columns by relation. The
answers are any functions, so the theorems hold for every registry and planner.

`LoadSchema` is one action: layer 1 (limits), then layer 2, in the order in which
pydantic runs the validators and stops. `Validate` and the steps of `normalize_schema`
may follow in any order and any number of times: `CallNormalize`, one `AskGenerator`
for each column, `AskPlanner`, one `KeepImplied` for each implied column
(`seen.setdefault`), `EndTable` (collision or `model_copy`), and `RaiseCollisions` or
`ReturnNormalized`. The cycle search is that of `DependencyOrder`, here by what it
decides; the planner's own errors are any. Depth, sizes and secrets are in
`SchemaSources`; the constraints of single fields are left out.

### SchemaSources

A behaviour is one call. A document is a *tree*: a function from paths (sequences of
keys, or of the indexes of a list) to kinds of nodes. It names the keys that layer 1 looks
at; what is a size in the code is a number of nodes. There are five kinds of nodes: `map` and
`list`, which layer 1 walks; `tuple`, which SafeLoader makes of the pairs of `!!pairs` and
`!!omap`, and which a `dict` source may hold; `scalar`; and `odd`, what `json.dumps` refuses: a
date, bytes, a set (`!!set`), any other object of a `dict` source. All but scalars may
have something below them, which the parser of YAML and, for tuples, `json.dumps` meet, but
not the walks of layer 1: those go on along `Items`, into what is `Walked`. They are the
recursive functions that they are in the code: `DepthOf`, `ForbiddenKeys` (which does not
look below a key that it has found) and the limits, which look only at what is a list of
tables, a table, a list of columns. What layer 2 decides is in `SchemaPipeline`; here it may
accept or refuse any document.

A text is read and parsed by YAML (external) before, with its own errors: `OSError` and
`UnicodeDecodeError` of `read_text` and the `ValueError` of an impossible date pass through
`load_schema` as they are. `json.dumps` ends the call with the error of the first `params` that
it cannot measure (`DumpFails`; which of several is left open). `StackDepth` is the depth at which a
recursion exhausts the interpreter's stack, one number for the parser, `_max_depth` and
`json.dumps`, of which only the order with `MaxDepth` matters. Left out are keys that are no
strings and a `dict` source that contains itself. What this module shares in name with
`RunOptions` begins with `Sources` here (`SourcesInit`, `SourcesSpec`), since `UserInput`
extends both.

`ParseColumn` is one turn of the loop over the `--col` strings: `Failure` says which of
the `ValueError`s a string meets first, `ColumnOf` what it becomes, with known keys in
the fields and others in `params`. `ChooseKey` and `BuildTable` follow when all parsed.

### RunOptions

`call` holds the arguments: command line, environment, schema, defaults. `ReadVariable`
is one turn of the comprehension in `_read_env_overrides`, where a parser may raise;
`AllowPlugins` is the call of `resolve_allowed_plugins`; `ResolveField` evaluates one
argument of `RunOptions(...)`, resolution and validator together. `next` is the
position in either order, `options` the arguments evaluated so far. Values are reduced to
what parsers and validators tell apart: falsy, two good ones, an odd one that the
validators refuse, and text that no parser takes. The allow-list itself is in `Registry`.

`OptionPrecedence` knows neither order nor parsing: in one step a call is answered,
each field with what the highest layer that speaks of it says, or it is refused,
and then some layer says something that is not acceptable. `ImplementsPrecedence`
maps a variable that does not parse to a layer that says `Malformed`.

### UserInput

The two machines one after the other: `MakeSchema` is a step of `SchemaSources`,
`ResolveOptions` one of `RunOptions`, once a call has returned a schema, since
`resolve_run_options` takes a `Schema` (`config.py:136`). Of the schema only `SchemaFields` matter to
the second machine, and they may have any values in either source; so each machine keeps its own
variables and `UserInputIsBoth` carries every theorem over.

### DockerfileRender

A text is a sequence of lines, a line its first word, whether it ends in a backslash,
and what a rule could object to in it; so the names of packages and secrets, and the
regular expressions that find them, are a `flaw`. `LogicalInstructions` is the script's
division of a fragment, `DockerInstructions` that of docker build (external, from its
documented treatment of comments, blank lines and continuations); both are `Divided`, and
what sets them apart is which lines each reader `Skips`. The third reader, the author of
the template, is the yardstick: what the author means by a marker are the instructions of
its stage (`Intended`). A text is tidy if no instruction is left open at its end or around
a comment or a blank line; the template is assumed to be, as `docker/Dockerfile.in` is, and
of fragments it is a premise of the property, since the script does not demand it.

`Main` begins a run with or without `--check`; each fragment is one `AssembleFragment` (read,
validate, append); `Compare`, or `Truncate` and then `Write`, since `write_text` opens the
file with `"w"`. `KillRender` ends a run anywhere, in the middle of the write included.
Fragments and the Dockerfile itself are edited between runs only: an edit while `render`
reads the files is left out. `returned` is 2 when there is
no last run to speak of: none yet, killed, in progress, or the files were edited after it.

### SecurityHooks

One hook runs at a time, as the hooks of one working tree do. `CheckExceptions` is
`check` and the answer of `main` to its errors, `LookForKey`, `ReadExceptions`,
`WriteSuppressionFile`, `Export`, `Scan`, `Clean` the steps of the `run_*` scripts, each at
most one access to a file or one program called. The tools are external: a tool finds
anything, returns nonzero if something is left that it was not told to ignore, and may
fail on its own account. `Edit` and `Midnight` change the exceptions, the sources and the
day at any time; `disturbed` records that they did so during the run, and `readFile`
and `found` what the run read and found, for the properties to speak of. As
`returned` above, `exit` is 2 when no return of `main` stands. An entry is reduced to its
identifier, its tool, its day, and whether all required fields are there. Coarser than the
code: `CheckExceptions` reads the file of exceptions and walks the sources in one step (an
edit in between is one before or after it), and the comments `nosec` and `nosemgrep`, which
make bandit and semgrep themselves pass over a line, are an ordinary part of what a tool
does not find, seen only by `Unregistered`.

## 3. Runs

| Run | Module, config | Checks | Bounds |
| --- | --- | --- | --- |
| ManifestStore | `ManifestStore` | `NeverTorn`, `AcknowledgedSurvives`, `OnlyFailuresLitter`, `ImplementsRegister` | 3 calls |
| ManifestErrorClaim | `ManifestStore` | `ErrorLeavesPreviousManifest`, violated | 2 calls |
| RunRecord | `MCRunRecord` | `NothingOverclaimed`, `LossIsBounded`, `OneOrigin`, `OptionsSurvive`, `RunEnds` | 3 chunks, batch of 2, 1 result held; 2 ends or power losses, 12 writes; 3 releases, 3 documents, 4 calls of resume |
| Draws | `MCDraws` | `TypeOK`, `RowIsPure`, `RaisesOnlyWhenExhausted`, `InRange`, `Unbiased`, `CallsEnd` | words of 6 bits, mantissa of 4; 2 rows, 4 batches, 2 retries; 3 words in all patterns, then every word and span |
| Registry | `MCRegistry` | `RecordsTellTheTruth`, `NoneForgotten`, `FirstComeFirstServed` | 4 entry points, 2 distributions, 2 loads |
| DependencyOrder | `MCDependencyOrder` | `DecidesCycles`, `AcceptedIsOrderable`, `SearchEnds` | all graphs of 4 columns with up to 2, 2, 1, 1 dependencies, one missing name |
| DeepDependencies | `MCDependencyOrder` | `NoRecursionError`, violated | one chain of 500 columns, the limits of CPython |
| SchemaPipeline | `MCSchemaPipeline` | `DeclaredKept`, `NamesStayUnique`, `ImpliedComplete`, `CollisionsAreAll`, `AcceptedStaysAccepted`, `GrowsOnce` | 3 registries; all tables of 1 or 2 columns over 3 names and 4 types, pairs of tables, all shapes of a table; limits of 2 tables and 3 columns |
| UserInput | `MCUserInput` | `ImplementsPrecedence`, `SourcesTypeOK`, `LayerOneIsExact`, `EachFlagIsJudged`, `InlineIsFaithful` | all trees over 11 paths around tables and columns or 6 below params, with at most one tuple or odd node; up to 2 columns of up to 2 flags of 9; calls that say anything of two fields, four pairs of fields |
| HiddenKeys | `MCSchemaSources` | `NothingForbiddenInParams`, violated | two documents, a list of pairs with and without `!!pairs` |
| DockerfileRender | `MCDockerfileRender` | `RenderTypeOK`, `GreenIsBuiltAsIntended`, `RedHasCause` | 2 areas, 12 texts, 2 edits, any number of runs and kills |
| SecurityHooks | `MCSecurityHooks` | `TypeOK`, `GreenHasReasons`, `GreenIsCurrent`, `RefusedForCause` | 2 findings, 13 files, 4 sources, 3 days, 2 edits, any number of runs and kills |

The type invariant of every component is a theorem (section 4), which speaks of these
instances too; some runs check it as well.

What they show, and why the bounds are enough:

* **ManifestStore.** `NeverTorn`: no reader ever gets part of a manifest and no power
  loss leaves one. `AcknowledgedSurvives`: once a write has returned, nothing takes
  `_manifest.json` back before it, and `generate` does not start over it.
  `OnlyFailuresLitter`: a call that returned leaves no temporary file, not even one that
  a power loss brings back. Three calls hold the three roles a manifest can
  have at once: durable, replaced but not yet durable, in progress. The theorems
  have no bound.
* **RunRecord.** `NothingOverclaimed`: a manifest that resume may ever find says `done` only
  of chunks that are committed. `LossIsBounded`: it misses, of those that the process has
  committed, at most those that the executor holds and less than a batch, or a batch
  while that is being written. `OneOrigin`: the data of a run are of one schema and one
  major version, also after users who came with others, or with the same schema in
  another order of keys. `OptionsSurvive`: no manifest has a secret, and no round of
  write and resume loses a plain option or the name of a variable. `RunEnds`: if its
  user comes back for it, a run ends with a durable manifest of all its chunks. Three
  chunks with a batch of two have a flush in the middle and one at the end; two ends are
  a resume of a resume; one result held lets the executor run ahead of the driver. One
  call of `generate` stands for all, since documents and releases are
  interchangeable but for what `Canonical` and the major versions say. `MaxWrites` is never
  reached: three processes make at most four writes each. The theorems have no
  such bounds.
* **Draws.** `RowIsPure`: all integers ever returned for a row are the same, and are the
  one that the row's own words give. Batches of one row, of both, and of both with one
  repeated, over all patterns of three words, cover every pattern of which rows are
  accepted at which attempt. `RaisesOnlyWhenExhausted`: the ceiling costs no row a draw
  that it was entitled to. `CallsEnd`: a call ends even if no word is ever accepted. The
  arithmetic is that of a machine of six bits whose float keeps four, so that
  all the carries, wraps and roundings occur, for every word and span, with ranges at
  both ends of the integers: the value is that of exact arithmetic, in `[lo, hi)`
  (`InRange`), and rejection leaves each offset equally many words (`Unbiased`).
* **Registry.** `FirstComeFirstServed`: a name keeps its first value and origin.
  `RecordsTellTheTruth`: `loaded_plugins`, the origins and the dictionaries agree
  whatever stopped a load. `NoneForgotten`: a load that ends well has registered or warned of
  every entry point. Two loads are the least that shows a repetition; the four entry
  points have a conflict in a group, a name shared between groups and one that does
  not import.
* **DependencyOrder.** `DecidesCycles`: `_has_cycle` answers `True` exactly for the
  graphs with a cycle. `AcceptedIsOrderable`: a table without errors has an order of
  generation. `SearchEnds`: the search ends. Four columns hold diamonds, cycles
  away from the root, repeated and own dependencies. The recursion limit of the run
  lets three visits in and not a fourth, so that the error is met too. Deadlock is
  not checked: the search ends, and nothing follows.

* **SchemaPipeline.** `DeclaredKept`: what the user declared stays first, in its order,
  whatever is called. `NamesStayUnique`: no table ever has a name twice, though the
  validator does not see the copy. `ImpliedComplete`: a normalised table has exactly
  its implied columns, the generator's before the planner's. `CollisionsAreAll`: a
  refusal names all the tables that collide and changes nothing.
  `AcceptedStaysAccepted`: what `validate` accepted of the declared columns is not
  refused after normalisation. `GrowsOnce`: a second normalisation refuses or changes
  nothing. One type implies two columns, a relation implies a column of the same
  name, a column that implies more, or two of one name; pairs of tables show a
  collision before, after and beside a growth. The limits are small so that
  documents exceed them; two tables and two columns are the fewest that show order.

* **UserInput.** `LayerOneIsExact`: a document that a recursion can walk through is
  refused with exactly what is wrong with it where dicts and lists lead, said of its paths
  one by one: every forbidden key that is not below another, the depth, each excess. One
  without such faults goes on, and no other becomes a schema. Of what a tuple or an odd
  container holds the property says nothing, as the code does; HiddenKeys does.
  `EachFlagIsJudged`: the errors of an inline schema name the places of exactly the strings
  that fail. `InlineIsFaithful`: what comes out is what the flags say, the last of two
  values of a key included. The trees hold forbidden keys in mappings, in lists and below
  tuples, below each other, in `params` and as the name of a list; two strings show the
  place of an error beside one that parses. `ImplementsPrecedence`, for all twelve fields at
  once: each is what the highest layer that speaks says, zero and the empty list included,
  and a refusal has a value of some layer behind it. Fields meet only where one error comes
  before another, so that two at a time are enough; the pairs hold each kind of parser,
  validator and layer. The two machines share no variable: TLC meets every source before
  one call and every call after one source instead of all pairs, and `UserInputIsBoth` says
  why nothing is lost. A call ends, hence no check of deadlock; the theorems have no bound.
* **DockerfileRender.** `GreenIsBuiltAsIntended`: after exit status 0 all fragments are
  valid and docker build meets exactly the instructions of the template with those of the
  fragments in their places, in the order of the areas, if no fragment leaves an
  instruction open. A run that was killed half way through the write is never approved
  by a later `--check`. `RedHasCause`: exit status 1 means that there is something to
  repair. Two areas show order, the separator and a valid fragment beside an invalid one;
  two edits let two fragments, or one and the Dockerfile, differ from the start. The template
  has an instruction of two lines, as the code's has. The theorems have none of these bounds.
* **SecurityHooks.** `GreenHasReasons`: what a hook that ended well let pass was in an
  entry for its tool that this run has read, whatever files earlier runs left behind.
  `GreenIsCurrent`: after an undisturbed run with status 0 no entry is incomplete,
  unknown or expired, and every comment is registered. `RefusedForCause`: the hook of
  the exceptions refuses nothing that is right. Two findings are enough for one
  registered and one not; three days for the day of expiry and those around it.

Fairness. `Draws` assumes weak fairness of the steps of a call that has begun, and
`DependencyOrder` of the search: each is a loop of one thread that waits for nobody. No
fairness is assumed of callers there. `RunRecord` assumes weak fairness of the executor, of
the driver and of the checks of resume, which run by themselves once started, of
`generate`, which somebody calls, and strong fairness of `ResumeRightly`: a user who, if the
run lies stopped again and again, sometimes comes with the right schema (or none) and a
release of the right major version. Without such a user the code promises nothing. Ends of
processes and power losses are bounded by `MaxStops`, and never forced. The other modules
claim safety only.

### What the violated runs show

1. **ManifestErrorClaim** (`manifest.py:296`). The `except` clause covers the steps
   after `os.replace`. If the open, `fsync` or close of the directory fails, the new
   manifest is already in place, and `ManifestError` still says "O manifesto anterior
   (se houver) não foi alterado".
2. **DeepDependencies** (`schema/models.py:341`). A chain of dependencies through the
   500 columns that DD-00 allows raises `RecursionError` instead of a result of
   validation.

3. **HiddenKeys** (`schema/loader.py:115`). `_scan_forbidden_secrets` goes on into dicts and
   lists only. SafeLoader makes a list of tuples of `!!pairs` and `!!omap`, so that
   `params: {x: !!pairs [{a: {token: s}}]}` becomes part of a schema, forbidden key included;
   a `dict` source with a tuple does the same. DD-00:693 says that the schema does not accept
   such fields, and `test_rejeita_password_e_token_em_qualquer_lugar`
   (`tests/core/unit/test_schema_loader.py:238`) that they are refused anywhere. Depth
   (DD-00:678, at most 20) is not counted below a tuple either (`schema/loader.py:88`). For
   documents of dicts and lists alone `PlainDocumentsAreClean` is the proof that nothing hides.

Seen on the way, with no run of their own:

* The docstring of `load_schema` says that each layer accumulates all its errors
  (`schema/loader.py:208`). The rules among fields are pydantic model validators: the
  first that raises ends those of its table, and those of the schema do not run at
  all (`StructureErrors` in `SchemaPipeline`). The user repairs one rule and is told of
  the next.
* A date in `params` (`inicio: 2020-01-01`), or another object that is no JSON, ends `load_schema` with the `TypeError` of
  `json.dumps` (`schema/loader.py:129`), and a `dict` or text deeper than the interpreter's
  stack with `RecursionError` before its depth is judged.
* What layer 2 refuses of an inline schema (a name twice, `null_ratio` of the key, a type
  `llm_*`) is pydantic's `ValidationError`, not a `SchemaError` (`schema/inline.py:86`); a
  value with a colon cannot be written there (`schema/inline.py:40`), and the limits of
  layer 1 are not asked.
* `from_json_dict` never looks at `manifest_version` (`manifest.py:240`).
* If the machine stops before the first manifest is durable, the directory has data and
  no manifest: neither `generate` nor `resume` accepts it.
* `FakeSink.open` forgets the committed chunks (`testing/fakes.py:52`), so it cannot stand
  for a sink across a resume.
* `chunk_size`, `seed` and `max_rows` are validated in a schema only: from the command line
  or the environment any integer passes (`config.py:84`).
* Retry slots begin at 64 for every base slot (`seeds.py:166`): two draws of a row
  that are both refused read the same words.
* `check_output_dir_for_generate` suggests `resume` for a directory that holds only the
  temporary file of a first write that failed (`manifest.py:106`).
* Normalisation appends implied columns to a table at its limit of columns
  (`schema/models.py:446`).
* A malformed environment variable ends the call though the command line settles its
  field: variables are parsed before any layer is asked (`config.py:101`).
* A fragment that ends in a backslash passes, and takes the next instruction of the
  template into its own, `USER 10001` for the runtime stage (`render_dockerfile.py:103`);
  hence the proviso of tidy fragments in `GreenIsBuiltAsIntended`.
* An entry that passes its day between the two readings of the exceptions is used
  (`run_dependency_check.py:57` and its like); hence `disturbed` in `GreenIsCurrent`. No
  property says that it should not be: `GreenHasReasons` speaks of the second reading.

## 4. Theorems

All are proved for every value of the constants, from the assumptions named in
the component modules and nothing else.

**ManifestStoreProofs** (`Integrity`, `Durability`, `NoLitter`, `Refinement`, `TypeCorrect`). The invariants
checked by TLC are not inductive: they depend on how far the call has come.
`WholeInv` adds that an inode is flushed and fsynced before any directory names it
`_manifest.json`, the one a reader has opened included. `OrderInv` adds that every
directory a power loss may leave is older than the call in progress until
`os.replace`, that none is older than the acknowledged one, and that the directory
is alone on disk when the call is about to return. `LitterInv` adds that the temporary
file of the call in progress has left the directory after its `os.replace`, so that once
the `fsync` leaves that directory alone on disk no power loss brings the file back. The refinement maps each action
to a step of the register or a stutter under that invariant.

**RunRecordProofs** (`ClaimsAreTrue`, `LossesAreBounded`, `DataHaveOneOrigin`, `OptionsAreKept`,
`TypeCorrect`). For any plan, policy, executor, releases, documents and options, and any
number of ends and power losses. Each property has an invariant of its own over `Types`, in
which every manifest that may be found is one of the register's survivors.
`ClaimInv`: a result that says `done`, a `done` in memory and a `done` in any document have
committed data behind them. `OriginInv`: the memory and all documents agree on
schema and major version (`Agree`) with each other and with all committed data; a
resume that is not refused agrees with them too. `OptionInv`: memory holds what is needed,
documents what is needed and no secret. The bound on losses needs two steps: `OnceInv`, a
chunk is to be run, held or recorded and never two of them, so that what the process has
committed is in memory or held; and `LossInv`, by which the chunks that a document misses
of those in memory (`Unwritten`) are no more than `unflushed`, which `ShouldFlush` keeps
below a batch while the driver waits.

**DrawsProofs** (`RowPurity`, `IntegersInRange`, `NoBias`, `HonestFailure`,
`TypeCorrect`). The base is `WideningMultiply`: the high
and low words computed from half words are the exact product, no carry being
lost. `LoopInv` makes `RowIsPure` inductive: a pending row was refused at every slot
tried so far, and a row no longer pending holds the offset of its first accepted
slot, however long the others went on. The range above the float limit, wraps included,
follows from `OffsetInSpan` and `SignedSum`; on the float path it is a matter of rounding:
`RoundedBelow` shows that the product of a mantissa below one and a span never rounds
up to the span (`UniformInSpan`), since the largest value under a span is representable.
`NoBias` counts: the accepted words that give an offset are those whose products with the
span fall into a stretch of as many whole spans as a modulus holds (the threshold is what
it holds besides), so they are an interval of that many words for each offset
(`ThresholdIs`, `FirstMultiple`, `EquallyManyHits`).

**RegistryProofs** (`NamesAreKept`, `RecordsAreExact`, `EveryPluginDealtWith`,
`TypeCorrect`). `RecordsTellTheTruth` is inductive with the types of
its parts. `NoneForgotten` rests on `ProgressInv`: an entry point is in the queue or dealt
with, and what was registered is kept because only free names are put (`OnlyFreeNames`).
The others follow action by action.

**DependencyOrderProofs** (`CyclesAreDecided`, `AcceptedCanBeOrdered`,
`TypeCorrect`). `PathInv`: the calls in progress are a path of
dependencies whose columns are those of `visiting`. `NoneSkipped`: nothing has been
left out, that is, each dependency of a column in progress is visited, still to
visit, or the next call, and visited columns are closed under dependency.
`VisitedAcyclic`: no set of visited columns is cyclic, since a column is marked only when
all its dependencies are. `FoundIsReal`: `True` was answered where the path closes on
itself, and such a path is a cyclic set. `AcceptedCanBeOrdered` adds that the columns left
can be numbered with their dependencies first (`VisitedOrdered`): a column that is marked
takes the place after all those marked before it (`PlacedLast`), which is the witness that
a planner needs, and `NothingMissing`, that no column in the search depends on one that is not there.

**SchemaPipelineProofs** (`SchemaGrowsOnce`, `NamesAreUnique`, `KeepsWhatIsDeclared`,
`RefusalIsComplete`, `NormalizedIsComplete`, `AcceptanceLasts`, `TypeCorrect`). `AskInv`: the names in `combined` and `seen` are those implied by the
columns asked so far. `CopyInv`: every table behind `index` is in `normalized` as a
growth of itself, or is reported. `HeldInv`: the schema held is the one loaded or a
growth of it. The argument for `SchemaGrowsOnce` is that implied names are monotonic in
the columns (`MoreColumnsImplyMore`): a table that has grown implies at least the
names that it has already, and collides (`GrownCollides`). Uniqueness needs both that
`load_schema` lets no name through twice (`LoadedIsUnique`) and that a growth adds
distinct new names. `NormalizedIsComplete` follows each implied column from where it was
asked to where it is kept (`SourceInv`): what was asked of generators stands before what was
asked of the planner, and `seen` keeps the first of a name. `AcceptanceLasts` turns the
acceptance into a fact about the loaded tables (`Good`, `AcceptInv`) that does not change
when columns of other names are appended (`GrownStaysGood`).

**UserInputProofs** (`Refinement`, `TypeCorrect` of `RunOptions`). The invariant says how
far the call has come: the variables before `next` that are set have parsed and `envLayer`
holds what they say, the others none; then the options before `next` are what their highest
layers say and acceptable, the others none. `Resolved` is that highest value, as the code's
four tests are the definition of `IsHighest` layer by layer. A raise is a step of
`Refuse` whose witness is the layer of the variable or of the value refused.

**UserInputProofs** (`LayerOneExactness`, `PlainDocumentsAreClean`, `FlagsAreJudged`,
`InlineFaithfulness`, `SourcesTypeCorrect` of `SchemaSources`). For trees of any shape, kinds of
nodes and size, any limits and any
list of `--col` strings. `LoadInv` says which errors come with each outcome of `load_schema`;
what is left is that the walks of layer 1 compute what `LayerOneIsExact` says of paths. A
recursive function over trees is met in two steps. A function written without recursion
(`DepthFrom`, the largest number of steps down from a node; `ScanFrom`, the forbidden
keys with no other above them) satisfies the equation of the walk (`DepthExists`,
`ScanExists`). And no two functions satisfy it: of the nodes where they differ take one as
deep as any, which exists because a tree is finite (`TreeHeight`, `Deepest`), and its
children agree (`DepthIsUnique`, `ScanIsUnique`). So `CHOOSE`, which is what a recursive
function is, gives that one. Both walk along `Items` from the root (`Reaches`), which is to
go through dicts and lists only (`RootReaches`, `NextItem`, `BelowItem`): so the errors are
said of the paths that are `Reached`. `PlainDocumentsAreClean` needs the premise `Plain` (no node
of a document is below a tuple or an odd container), without which HiddenKeys is a
counterexample: then every path is reached, and of the forbidden keys on the way to one in
`params` the first would have been reported. The limits are counted over places of tables, columns and
params, which are the prefixes of given lengths (`PlacesAre`). `InlineInv` follows the
flags: the columns parsed so far come one to one from the flags that did not fail (`Comes`),
the errors are those of the others (`Judged`). `LastValueCounts`: of two values for a key
the later one stays.

**UserInputProofs** (`UserInputIsBoth`). A behaviour of the composition is one of `RunOptions` and
one of `SchemaSources`, each step of it being a step of one and a stutter of the other; so
the theorems above are true of `UserInputSpec`.

**ScriptProofs** (`GreenOnlyWithReasons`, `GreenOnlyIfCurrent`,
`RefusedOnlyForCause`, `TypeCorrect` of `SecurityHooks`). For any findings, files, sources, days and edits, and
any number of runs, kills and edits between two steps. `ReasonInv`: what a tool has been
told to ignore, by arguments or by the file of suppressions, is in an entry for it that this
run has read; the file that an earlier run left is not believed, as the hook that uses it
writes it first. `CheckInv`: while nothing has disturbed the run, what was read is what is
there, and a hook goes past the check only if that has no error on that day.

**ScriptProofs** (`GreenBuildsTheIntended`, `RedOnlyWithCause`, `RenderTypeCorrect` of
`DockerfileRender`). For any areas, any tidy template and any fragments, and any number of
runs, kills and edits between runs. The assumptions are those of `DockerfileAssumption`: the
areas are distinct, the texts consist of lines, and the template is tidy. Two things are
shown apart.

What a text says. `Divided` and `FlattenSeq` are recursive; for each, the function of its
equation exists and is determined by it (`DivisionExists`, `DivisionsAgree`, `FlatExists`,
`FlatAgree`), so that both may be used one element at a time (`DividedSteps`, `FlatSteps`).
Facts about all texts then follow by induction, stated with a set of sequences that is
closed under `Append` (`AllSequences`). docker build reads one text after another as it reads
each, if the first leaves no instruction open (`DockerConcat`). On a tidy fragment it agrees
with the script (`ScriptIsDocker`), `rstrip` takes nothing from it that it would run
(`RStripIs`), and headers and separators are nothing to it (`HeaderIs`). So a block is read
as the instructions of its fragments, in the order of the areas (`DockerStage`). Along the
lines of the template docker build and the author stay together: the same instructions
done, the same lines in the open one, and none open where a marker stands
(`TemplateIsMeant`, hence `BuiltAsIntended`).

What a run does. `RenderInv`: after `k` fragments all of these are valid, `todo` is the rest of
`Order`, and the blocks are the texts that the fragments read so far call for (`SoFar`), built
with a `Joined` per fragment, which asks of the block whether it is empty and not of the
fragments before (`UpToIs`); after the last one they are those of all fragments; status 0
stands only beside a Dockerfile that is their rendering. An edit, a kill and the beginning
of a run take the status back, which is why a half-written Dockerfile is never approved.

Only model-checked: liveness (`CallsEnd`, `SearchEnds`, `RunEnds`), which is out of the
prover's reach.

## 5. Plan

In order of what matters most; what is done is marked.

1. `ManifestStore` against `ManifestRegister` (done).
2. `Draws` on `WordArithmetic` (done).
3. `Registry` (done).
4. `DependencyOrder` (done).
5. `SchemaPipeline`: the layers of validation and `normalize_schema` (done).
6. `RunOptions` against `OptionPrecedence` (done).
7. The scripts: `DockerfileRender`, `SecurityHooks` (done).
8. `SchemaSources`: the rest of the loader and inline schemas; `UserInput`, which joins it to
   `RunOptions` (done).
9. `RunRecord` on `ManifestRegister`: flush policy, contents and checks of resume
   between executor, sink and driver (done).
10. Proofs: `RunRecord`, `NoneForgotten`, all types, both paths of `InRange`, `Unbiased`,
   `AcceptedIsOrderable`, `ImpliedComplete`, `AcceptedStaysAccepted`, `SecurityHooks`,
   `SchemaSources`, `DockerfileRender` (done).

Not modelled and not planned: `confine_to_output_dir` (one question to the file system,
no state), the table of Arrow types and the serialisation of a plan (`contracts/`; nobody
calls them yet), the protocols of LLM and toxicity providers, the hashes under `derive` and `mix` (any function, here),
`uniform` and `normal` as distributions of reals, YAML, pydantic and JSON Schema
(libraries), the wording of messages and logs, the skeleton packages of the other
tracks and the `NotImplementedError` functions of `api.py`.
