# A TLA+ model of pyqa

pyqa (`src/src/pyqa`) is a command-line program that runs many linters and
formatters over a workspace: catalog tools started as subprocesses and internal
linters called in process. `pyqa lint` parses its flags, builds a configuration
and a registry of tools, decides which tools run and in which order, walks their
actions, answers what it can from an on-disk cache, executes the rest (partly in
a thread pool), classifies exit codes, and reports.

These modules model that program's own logic, check it with TLC on small
instances, and prove what matters most about it, with TLAPS, for every instance.
Paths below are relative to `src/src/pyqa` unless they start with `src/`.

## 1. Inventory

| Component | State | Operations | Correct when |
|---|---|---|---|
| Tool selection (`orchestration/tool_selection.py`, `cli/commands/lint/command.py`, `linting/registry.py`, `tools/registry.py`) | `selection.only`, `default_enabled` of internal tools, the registry's order | activate linters of `--check-*` flags, build the configuration, decide on each tool, order by phase and dependencies | filters and flags mean what they say in every combination; declared dependencies hold where they can |
| Orchestrator (`orchestration/orchestrator.py`, `_orchestrator_mixins.py`) | `ExecutionState`: order, outcomes, scheduled, bail_triggered; position in the plan | walk over actions, cache lookup, immediate or queued execution, bail, end of run | each wanted action reported once, in plan order; bail stops at the first failure |
| Action executor (`orchestration/action_executor.py`) | futures, file metrics | run an action, pool or serial loop, record outcomes, store in the cache, hooks | no outcome lost, replaced or recorded twice; no run waits forever |
| Exit classification (`action_executor.py`, `core/models`) | none | code, diagnostics and catalog codes to a category | failures are neither hidden nor invented |
| Result cache (`cache/result_store.py`, `cache/context.py`, `cache/tool_versions.py`) | one JSON file per key; `tool-versions.json`; a version map with a dirty flag | load, store, update and persist versions | an answer is what the tool would say now |
| Progress (`cli/commands/lint/progress.py`) | total and ticks | after_plan, after_tool | ticks add up to the announced total |
| Tool runtimes (`core/environment/tool_env`) | binaries and metadata per tool under `.lint-cache` | prepare, install, reuse | the binary that runs is the one that was asked for |
| Memoisation (`cache/in_memory.py`) | an ordered dict under a lock | call, evict, expire, clear | a value is one the function returned, no older than allowed, and after the last clear |
| Diagnostics (`diagnostics/`) | groups of copies seen; the entries kept | normalise, filter, deduplicate | of several diagnostics for one fault the right one survives, once, at its tool |
| Discovery (`discovery/`, `cli/commands/lint/preparation.py`, `cli/core/_config_builder_file_discovery.py`) | none beyond a run | root, roots, boundaries, git, stdin, walk | a run looks at what was named, and at nothing that was excluded |
| Configuration (`config/`, `core/config`, `cli/core/config_builder.py`) | layers of sections and a trace | load, include, merge, override, preset | the later layer wins, field by field, and the trace says who |
| Hook installer (`hooks/`) | `.git/hooks` entries and backups | back up, link | no hook of the user is lost |
| Service container (`core/runtime/di.py`), plugins | factories, singletons | register, resolve | one instance per singleton |
| Clean, update (`clean/`, `cli/commands/update`, `runtime/installers`) | a plan of commands | plan, run | a failed command is reported, the others still run |
| Internal linters, parsers, catalog, analysis, compliance, reporting, command line | none or file-local | conversions of text and trees | unit-tested conversions |

How they interact. The lint command calls selection through
`Orchestrator.plan_tools`; the selected tools give the plan. The orchestrator and
the executor share one `ExecutionState` in one thread; only tools run in pool
threads, and the main thread records their outcomes as they complete. Both reach
the cache through a `CacheContext`, whose lifetime is one run while its files
outlive it. The executor calls the progress hooks after each outcome. Tools
rewrite the very files whose states are the cache's notion of freshness.

Around a run: several `pyqa` processes share the cache directory and the tool
cache without a lock; the diagnostics of all outcomes are deduplicated when a run
has ended; configuration and discovery decide before it starts what it is about.

What is hard here: outcomes complete in an order unlike that of the plan and mix
with cached ones; a fix rewrites files between another tool's check and its
store; an exception in one future leaves the others running; a run can die after
some stores; the user edits files and upgrades tools between and during runs;
one list (`only`) carries both the user's filter and activated linters; a write
is a truncation first; an install has several steps and can stop between any two;
a name is made relative to one directory and read again from another. The full
list, with the line where each bites, is under `hazards` in `PROJECT.json`.

## 2. Modules

| Module | Models | Role |
|---|---|---|
| `ExitStatus` | exit classification | operators |
| `ResultCache` | value level of the result cache: states, hits, entries | operators |
| `LintRun` | orchestrator, executor, cache context, manifest and progress over successive runs | specification, extends the two above |
| `LintReport` | what a run promises its caller | abstract specification that `LintRun` implements |
| `CacheProcesses` | the cache directory under several processes that can die between the two halves of a write | specification, extends `ResultCache` |
| `ToolRuntime` | where the command of a tool comes from, and its installation | specification |
| `Memoize` | the memoising decorators under threads | specification |
| `Diagnostics` | normalising, filtering and deduplicating what tools print | specification |
| `ConfigLayers` | sources, includes, merge, command line, presets | specification, extends `Lists` |
| `Lists` | what the code does with lists in a loop, recursive along the list | operators |
| `ToolOrder` | order of the registry (Kahn with a heap) and of the selector (graphlib) | operators, extends `Lists` |
| `FileDiscovery` | root, discovery configuration, files and languages of a run | operators |
| `ToolSelection` | from the command line to the files and the ordered selection | specification, extends `ToolOrder` and `FileDiscovery` |
| `MCLintRun` | plans, results and modes for TLC | four configurations |
| `MCToolSelection`, `MCConfigLayers` | situations; documents and command lines | two configurations each |
| `MCCacheProcesses`, `MCToolRuntime`, `MCMemoize`, `MCDiagnostics` | instances of the above | one configuration each |
| `LintRunProofs`, `CacheProcessesProofs`, `ToolRuntimeProofs`, `MemoizeProofs`, `DiagnosticsProofs`, `ConfigLayersProofs`, `ToolSelectionProofs` | theorems and proofs | TLAPS |
| `ListTheorems` | lemmas about lists and recursive functions the proofs share | TLAPS |

An operator marked `MUTANT` is a plausible mistake in place of the definition that
follows it, kept to show that a property would notice.

### LintRun

State and code:

| Variables | Code |
|---|---|
| `order`, `outcomes`, `scheduled`, `bailed`, `metrics` | the fields of `ExecutionState` |
| `futures` | the executor's futures: running, done with an outcome, raised; the one execution of an immediate action too |
| `phase`, `next` | where `Orchestrator.run` is: walking the plan (`plan`), inside an immediate tool (`immediate`), `execute_scheduled` (`pool`), leaving the pool after an exception (`drain`), `done`, `failed`, `idle` between runs |
| `entries`, `manifest` | the cache directory and `tool-versions.json` |
| `versions`, `dirty` | the `CacheContext` of the run |
| `disk`, `clock`, `installed` | the workspace: stamps of files, versions of installed tools |
| `ticks`, `total` | the progress hooks |
| `startDisk`, `captured` | history, for one property each: the files as the run found them, the tools whose version the run determined |

Actions and code. `BeginRun` is `run` up to `_notify_plan`. For the action the
walk is at: `SkipAction` (`_should_run_action` said no), `PreparationFails` (the
command of the tool raises), `UseCachedOutcome` (`_handle_cached_outcome`, with
the refreshed exit status, the record, the re-store and the bail it may
trigger), `StartImmediate` and `FinishImmediate` (`_execute_immediate_action`: a
fix, or any action under `--bail`), `ImmediateRaises`, `QueueAction`. An action
that gets past its preparation (a hit, an immediate or a queued one) also
records the version of its tool (`UpdateToolVersion`), if there is one:
`update_tool_version` returns at once when the version is None, which it is for an
internal action, a binary runtime, a project's own command, a tool without
`version_command`, and whenever the capture fails. `PreparedVersions` lets any
preparation end without a version, also one of a tool that had one before.
`ExecuteScheduled` enters the pool; `StartScheduled`, `FinishScheduled` and
`ScheduledRaises` are worker threads; `CollectOutcome` and `CollectFailure` are
the main thread's recording loop, `PoolDrained` the end of the with-block that
an exception leaves. With one job, or one queued action, the loop is serial and
nothing starts before the outcome before it is recorded. `Finish` persists the
versions and returns the sorted outcomes. `Killed` ends the process anywhere.
`EditFile`, `UpgradeTool`, `Exit` and the choice of the next run's mode are the
environment.

What a tool does is a result from `Results` (return code and whether diagnostics
remain after filtering); a fix may rewrite any of its files. `ExitStatus`
classifies it. A *stamp* stands for the mtime, the size and the content of a
file: a write gives a new one, so equal stamps mean equal contents and different
stamps are seen by `stat`. The key of an entry (a digest of tool, action,
command and token) is the action's index and the flags the token holds. Left
out: the parser cache, output filters, wording, logging, deleted files (a file
the run discovered stays), dry-run fetches of tools.

### ToolSelection and FileDiscovery

One behaviour for each *situation*, a catalog, a request (command line and what
the configuration files say) and a workspace (directories, files, links to files,
git). The stages and their code:

| Action | Code |
|---|---|
| `ActivateInternalLinters` | `_activate_internal_linters` |
| `BuildRuntimeContext` | `build_config` for the fields of interest, the pyqa flag, registration and `configure_internal_tool_defaults` |
| `DiscoverFiles` | `discover_files`, called by `_build_environment` before tools are chosen |
| `RefuseUnknownTool`, `PlanSelection` | `plan_selection` |

`only` is first `selection.only`, then `config.execution.only`; `discovery` is
`config.file_discovery` and `files` what was found. `FileDiscovery` holds, as
operators, what leads to them: the root that is given or derived from the names
(`Root`), the names made relative to the working directory and read again from
the root (`Reread`, `Names`), boundaries, excludes, roots and explicit files
(`DiscoveryConfig`), the sources of files and their precedence (`ChangedFiles`,
`FilesystemFiles`, `Walk`), and the languages and suffixes selection uses. A path
is the sequence of its names, so that prefixes and ".." mean what they do in
`pathlib`. git is external: a workspace says what each form of `git diff` reports.

`ToolOrder` holds the two ordering algorithms: the registry's, which a cycle of
dependencies holds back only for the tools it blocks, and the selector's, which
falls back to the registry's order for a whole phase. `graphlib.TopologicalSorter`
is external and modelled by its documented queue: `Free` starts it, `Released` is
what the departure of one name adds. A catalog gives the number of phases and the
rank of each tool's phase. Tools are numbers; languages, suffixes and configuration
files are small sets. `Blocked` is the set of tools a cycle holds back, said
without an algorithm: the union of the sets in which each tool waits for another.

### CacheProcesses

`LintRun` sees one process and whole files. Here several processes share the
directory. A file's content is missing, `Empty` (opened and truncated), `Mixed`
(the head of one text, the tail of another) or a whole text.

| Actions | Code |
|---|---|
| `Start` | a `CacheContext` is built: `load_versions` |
| `LookUp` | `ResultCache.load` and `UpdateToolVersion` for the action the walk is at |
| `BeginTool`, `CollectStates` | a queued tool reads its files; `collect_file_states` stats them when its outcome is recorded |
| `OpenEntry`, `WriteEntry`, `StoreFails` | the two halves of `write_text` in `store`, and its `OSError` |
| `OpenManifest`, `WriteManifest`, `NothingToPersist` | `persist_versions` |
| `Exit`, `Killed`, `EditFile`, `UpgradeTool` | the end of a process, and its environment |

`LookUp` may end without a version, as in `LintRun`; `captured` is, of a quiet run,
the tools whose version it determined. The rest of a run is `LintRun`'s business and
is left out: misses execute one by one. No file is edited while a tool is between
its reading and its store, since `lint_edit` shows what happens then with a single
process already.

### ToolRuntime

One tool of one runtime, whose pinned version moves (`ChangePin`: another release
or branch). `Chosen` is the decision of `RuntimeHandler.prepare` (project marker,
system, project, tool cache), with each runtime's way to compare versions, given
what the run prefers (`Preferences`: `use_local_linters` turns the system off, and
the tool itself may ask for the local one).
`AnswerAtOnce` is a preparation that installs nothing; `StartInstall`,
`StartFill`/`EndFill` (a copy, or npm in its prefix) or `InstallBinary` (go,
cargo), `OpenMeta`, `WriteMeta` are the steps of `_ensure_local_tool` and its
siblings. `binary` holds the version at each place: one place for all versions of
a go, lua or perl tool, one for each for npm and rust. `meta` holds the
requirements whose metadata file can be read. `RaiseMissing` is a missing or
unhelpful toolchain, `Interrupted` a failure or a kill. `asked`, `completed` and
`overlapped` are history.

### Memoize

`memoize` (least recently used) and `ttl_cache`, called by several threads: `Call`,
then under the lock `LookUpHit` or `LookUpMiss`, outside it `Compute` or `Raise`,
under the lock again `Store`, then `Return`; `Clear` is `cache_clear`, `Tick` time.
`order` is the order of the `OrderedDict`; `recent`, the true order of use, and
`cleared` and `restored` are history. A result is told apart by when it was
computed and by whether it is `None`.

### Diagnostics

`Report` takes one raw diagnostic through `normalize_diagnostics` and
`filter_diagnostics` (severity rules, suppressions, tests, copies of code, with the
groups already seen), `NextTool` starts the next outcome. What a tool yields as a
ready `Diagnostic` keeps its severity. A copy of code is dropped for any of the
three signs of a comment the code looks for (`CommentedOut`: the context, the
quoted snippet, the line in the file). When all outcomes are
there, `FoldDuplicate` and `FoldNew` are the iterations of `dedupe_outcomes`, and
`Finish` rebuilds the outcomes. `kept` holds the entries, `entryOf` which entry
stands for each report. Messages are names: what the annotation engine and the
parser of duplicate-code messages find in them is a constant (`Signature`,
`Copies`).

### ConfigLayers

`OpenSource`, `Include`, `CloseInclude` are `TomlConfigSource._load` with its stack
of includes; `CloseSource` the merge of a source by the section mergers, with the
trace; `Discover` the configuration files found for tools, and strict loading;
`CommandLine`, `Preset`, `SharedDefaults` the three layers of `build_config` and of
the command after it. A field is a key path; its `Kind` says how its section
merges it: replaced, appended, bail and jobs, the roots of discovery (`MergedRoots`:
none left are replaced by the project root; `Roots`: the command line's are added),
what is shown (`Shown`: nothing under quiet), limits, knobs of presets and fields of
tools. `PresetToolIfUnset` keeps what is set, of the fields in `SkipIfTruthy` only
what is not empty (`Falsy`).

## 3. What each run checks

| Run | Question | Bounds |
|---|---|---|
| `lint_pool` | is the report complete, are checks about fixed files, does progress add up, does a run end unless a tool never answers, does it implement `LintReport` | one run, four actions of three tools (a check, a fix, a second check of the first tool, an internal linter), a pool of 2, clean or failing tools, exceptions and kills anywhere |
| `lint_cache` | bail, hits, warmth, versions, final outcomes | two runs, three actions, default, `--bail` and `--check-only` in any order, two writes, one upgrade, versions captured or not, exceptions and kills |
| `lint_upgrade` (violation) | is a cached outcome of another version ever reported | two runs, one upgrade between |
| `lint_edit` (violation) | may an entry answer for contents no tool read, if the user writes during a run | one write |
| `cache_processes` | do torn files answer, and does the next quiet run repair entries and manifest | two processes, three runs in all, one process with two tools and one with one of them, one edit, one upgrade, versions captured or not, kills and failing writes anywhere |
| `tool_runtime` | is the pinned version what runs, is a finished install used again | two processes of three preparations each, two versions, each of seven runtimes, every choice of PATH, project, marker, toolchain and GOBIN, failures and kills |
| `memoize` | how old, how many, and what a clear leaves | both decorators, two threads, three keys for two places, a time to live of 1 on a clock of 2; threads and keys are symmetric |
| `diagnostics` | what survives, where it is listed, are copies reported at most once, and when not at all | two outcomes, every sequence of up to four diagnostics past the filters out of seventeen, four dedupe sections |
| `config_layers` | which layer wins, is the trace true, when is an include circular, what may bail, quiet and a preset change | three sources and two files they include, three to five documents each (a missing file among them), six command lines |
| `config_tools` (violation) | do the tables for tools in a file reach the run | as `config_layers` |
| `selection` | who is selected and in which order; which files a run is about | decisions: 7 tools of all families, 6 filters, all subsets of two check flags, 3 filters from files, all 16 combinations of four flags, 3 languages, 3 workspaces, in and out of pyqa; order: every graph over 3 tools of one phase with every selection, every graph without self-dependencies over 4 tools of two phases with all or all but one selected; files: at most two of 8 names, 4 places of working directory and root, 5 choices of excludes and directories, 3 sources of other names, 4 of git, over a tree with links, skipped and excluded directories, in and out of pyqa |
| `selection_flags` (violation) | do the additive flags only add | as `selection` |

Why the bounds suffice. The pool differs from the serial loop from two threads
and three queued actions on: one must wait, and completions can be reordered.
Two runs are the shortest history in which the cache answers, in another mode
than the one that stored; two writes let a fix and the user write the same file.
Cycles, self-dependencies, chains and joins all exist among three tools, and a
fourth in another phase shows that phases do not mix. Two names are enough for a
file to lie inside a named directory, next to a named file, or in neither, and the
8 names include one of each thing a name can be: file, directory, link, skipped,
missing, the root itself. Two processes can be on the two sides of any write; a
third would only repeat the role of one of them, and three runs in all let two
overlap, one of them be killed and the third, in either process, find what they
left. Three preparations go from one pin to the other and back. Two
threads compute one key at once, and three keys for two places evict. Four
diagnostics give a chain of two replacements beside an independent entry. Two
included files suffice for a diamond, a cycle and a cycle through a source. All
`Max...` constants only limit the environment.

`lint_cache` and `lint_upgrade` share the plan; it begins with the internal
linter so that a failure with more work behind it exists under `--bail`.

Deadlock is checked everywhere except in `MCToolSelection`: a selection ends. The
other specifications either come to an explicit rest (`Rest`, `Done`, `Stop`) or
can always go on.

Preconditions of properties, and why they are there: `NothingBetterIsLost` and
`FirstSettles` except the one pair of codes for which the code overrides the
strategy; `LruIsBounded` claims the order only until a key is stored over itself,
since the dictionary keeps the old place then; `PinHonoured` excludes what
`Exposed` names: without either disjunct TLC finds it violated; the four properties about
files speak of runs whose root is the working directory (see the notes below).

`OnlyIsAbsolute` speaks of `--only` without a check flag, `ChecksAreHonoured` of
check flags without a filter, and `PyqaLintersStayInScope` of pyqa linters nobody
names: where a filter and a check flag meet, and where a check flag names a pyqa
linter in a foreign workspace, the code differs from `src/SELECTION.md` (section 4),
and no passing property covers the difference. `LaterSourceWins` and `BlameIsRight`
name the one case of emptied roots, `CommandLineWins` bail and quiet, and
`PresetsKeepToolSettings` the fields a preset fills when they are empty.
`CopiesReportedOnce` lets a piece of code go unreported only if one of its messages
is commented out or placed in a test. `VersionsRecorded` and
`QuietRunRepairsManifest` speak of the tools whose version the run determined; of
the others the code leaves in the manifest what is there.

Fairness. Only `RunTerminates` needs it: `WF_vars(OwnStep)`, where `OwnStep` is what
the orchestrator and its threads do by themselves (skipping, entering the pool,
starting and recording executions, draining, finishing); these are scheduled by the
operating system. No fairness makes a tool return: `timeout_s` defaults to None
(`tools/base.py:340`, `core/runtime/process.py:43`), and internal linters and the
capture of versions have no timeout at all. A run that waits for one of them may
wait for ever, and the property says so in its premise `WaitsEnd`: no preparation
and no execution lasts for ever. What is left to be shown is that the run then ends,
that is, that neither an exception nor a bail nor a full pool leaves it waiting for
an execution nobody starts or records. Faults and the environment get no fairness.
Each step of `OwnStep` progresses and a run has finitely many, so that one condition
for all of them is enough.

## 4. Findings

* `lint_upgrade`: the key of an entry holds no tool version and nothing compares
  the manifest with a hit. After an upgrade of a tool found on `PATH`, whose
  command line stays the same, the outcome of the old version is reported;
  `cache/CACHE.md` and `src/docs/CACHING.md` say otherwise.
* `lint_edit`: the states of the files are taken when the outcome is stored; a
  write between the tool's read and the store makes an entry that answers for
  contents no tool has seen.
* `selection_flags`: a `--check-*` flag filters out every other tool, where
  `src/SELECTION.md` calls it additive.
* `config_tools`: the tables `[complexity]`, `[strictness]` and `[severity]` of a
  configuration file are dropped as tools of reserved names, and what a file says
  of the strictness of mypy is removed by a validator; `src/README.md:162-163`
  says they configure the tools.

Notes read off while modelling, without a run of their own.

*Selection.* The selection tokens of `linting/registry.py` are never applied
although `src/SELECTION.md:90` speaks of aliases; `--only ruff --check-closures`
runs closures too, while `src/SELECTION.md:57-59`, `87-88` and `178` say that what
`--only` does not name is excluded; a check flag replaces the `execution.only` of a
file, so that the tools the file asks for do not run; `--check-schema-sync` outside
the pyqa repository is ignored, while `src/SELECTION.md:233-235` says it forces the
linter into the selection (and line 231 that it stays disabled);
`configure_internal_tool_defaults` looks for `pyqa_rules` one level too high, so the
flag never reaches it (it only matters for `missing`); a dependency that passes
through an unselected tool is not honoured, since the sorter only sees the selected
ones (`OrderIsSound` speaks of direct dependencies).

*Discovery.* Names are made relative to the working directory and read again
against a root that is derived from them: outside a pyqa workspace and without
`--root`, `pyqa lint src/a.py` looks for `src/src/a.py`, and `pyqa lint ..` looks at
the parent of the parent. A directory named next to a file is dropped, since
explicit files win over roots. A name that does not exist lets its whole parent be
linted. Names below a directory `pyqa_lint` are ignored, and if nothing else is
named, the whole tree is linted. `--changed-only` with nothing changed falls back
to the whole tree, and from a subdirectory of the work tree the names git reports
are joined to the wrong directory. What git, stdin and explicit names give is not
excluded by anything. `--exclude` expands no globs, and an exclude that is a link
stands for the link's target, while the walk compares unresolved paths.

*Configuration.* A source that does not set the roots, whatever else it says,
replaces an empty list of them by the project root (`config/sections/mergers.py:144-146`),
and the trace blames that source. quiet sets `show_passing` and `show_stats` to false
also when the command line asked for them and quiet comes from a file
(`cli/core/_config_builder_output.py:107-109`). A preset overwrites an empty setting
of a file for some fields of tools (`config_container.py:229-233`). A cycle of
includes is recognised by unresolved paths; boundaries
from files are always replaced by the command line's, `execution.line_length` of
files is not merged.

*Diagnostics.* A group of copies counts as seen before its message may still be
dropped for a comment or a test (`diagnostics/filtering.py:70`), so that all copies of
a piece of code can vanish. A user's severity rule cannot override a default rule, which comes
first. After a replacement survivors may be duplicates of each other. One semantic
overlap rule ignores lines. The cache token sorts severity rules although their
order decides.

*Caches.* A key stored over itself, or a value of `None`, keeps its old place, so
the cache is not least-recently-used then. All pins of a go, lua or perl tool share
one binary path, so that the metadata of a pin vouches for whatever the last install
left there (`runtimes/go.py:54`), preparation takes no lock (`runtimes/lua.py:138`), and
a `GOBIN` set by the user sends the binary elsewhere while the
metadata is written.

## 5. What is proved

All theorems hold for every value of the constants under the named assumptions of
the component's module (types of the constants, at least one job or place). TLAPS
checks every leaf.

**LintRun** (`LintRunProofs`)

* `TypesHold`: `TypeOK`, from `TypeInv`, which adds that slots are handed out
  below `order`, that futures, entries and outcomes speak of their own action's
  files, and which executions each phase may have. `TypeOK` alone is not
  inductive: what is recorded comes from a future, and a future is only as
  well-typed as the slot it belongs to.
* `Completeness`, `BailStops`, `ProgressCounts`: from `ReportInv` = `TypeInv` and
  `SlotsFollowPlan` (slots 0 .. order-1 are the wanted actions the walk has
  passed, in plan order, whether recorded or queued), `BailShape` (under bail
  nothing is queued; every outcome but the last did not trigger it) and
  `CountsMatch`. Completeness cannot be seen from outcomes alone while some slots
  are still queued: the invariant counts both.
* `Refinement`: `LintRun` implements `LintReport` under the mapping of `phase` to
  the abstract status and of the recorded slots to the reported actions; every
  step is an abstract step or a stutter. Uses `ReportInv`.
* `HitsAreCurrent`, `ChecksAreCurrent`: from `CacheInv` = `TypeInv` and
  `EntriesDescribeStates`, under the assumption that the user writes no file
  during a run (`lint_edit` shows it is needed). The key is that queued actions
  are never fixes, so that what an execution saw is still on disk when its
  outcome is stored.
* `OutcomesStay`: slots are only added within a run, from `TypeInv` and the fact
  that every recording step takes a slot that is still free (`RecordingSteps`).
* `VersionsAreRecorded`: from `VersionInv`, which says that while a run goes on its
  version map holds the installed version of each tool in `captured`, and that a
  difference from the manifest implies `dirty`. A later action of the same tool that
  gets no version changes neither.
* `CacheIsWarm`: from `WarmInv`: in a run whose files are as they were when it
  began, each recorded external action has an entry that answers.

**CacheProcesses** (`CacheProcessesProofs`): `CurrentAnswers` from `Consistent` (a
whole entry, and one that is about to be written, describes the states it was
stored with; a write only makes whole texts of one writer or mixed ones).
`EntriesRepaired` and `ManifestRepaired` from `QuietInv`: while a run is quiet it
is `Orderly`, that is, each action it has passed answers or is still queued in
order, the versions of the tools it captured are the installed ones, and no other
process is active.

**ToolRuntime** (`ToolRuntimeProofs`): all from `CacheInv` = `TypeOK`,
`Bookkeeping` (what an install under way has already been counted in),
`OneByOne` (without overlap at most one install is under way) and `Sound` (outside
the exposed situations, metadata at rest means the whole binary). `PinHonoured`
says nothing of metadata, and the metadata is what the code decides by.

**Memoize** (`MemoizeProofs`): `TtlBound` and `ClearedStays` from `TimesInv`, which
relates the times in a call under way and in the store: what is stored was
computed no earlier than its call read the clock, and what is not marked late was
computed after the last clear. `LruBound` from `OrderInv`: the `OrderedDict` lists
each key of the store once, at most `MaxSize` of them, and until a key is stored
over itself its order is the true order of use.

**Diagnostics** (`DiagnosticsProofs`): `NothingLost` and `FirstIsSettled` from
`FoldInv` (each folded report has an entry, entries point at folded reports) and
`SettledInv`. The heart is that "ranked at least as high" is reflexive and
transitive for each strategy (`GoodReflexive`, `GoodTransitive`, for the preference
list through `BeforeTransitive`), so that a chain of replacements keeps it.
`OneCopy` from `CopiesInv` (what the running outcome has kept counts as seen) and
`SeenInv` (what counts as seen has been reported or is spoilt by a comment or a
test). The attempt showed that the property must speak of pylint on both sides:
another tool's diagnostic with the same code is in no group. `ListedOnce` from
`KeptInv` (each entry holds its own report and the outcome that made it) and
`ListedInv` (an outcome lists what its entries hold, in their order).

**ConfigLayers** (`ConfigLayersProofs`): `TypesHold`, then `BailAlwaysSerial` and
`CyclesAreReal`, then the rest from `LayersInv`, the conjunction of

* `Nested`: each file on the stack is included by the one below it (enough for
  `CyclesAreReal`: the file met again lies on a chain of includes);
* `InOrder`: documents are merged source by source;
* `StackCarries`: while a source is loaded, the innermost value on the stack is the
  one of the last document merged. This is why a recursion of any depth, which
  merges on the way back, comes to "the last document wins";
* `ConfigCarries`, `ListsCarry`, `RootsCarry`: what the configuration has of the
  finished sources; for the roots, that they are empty only if the last source that
  sets them emptied them and none after it said anything;
* `TraceCarries`: the trace replayed over the defaults is the configuration;
* `GivenHolds`, `QuietHolds`, `ToolsHold`: what the command line gave, what quiet
  took away, and what sources said of a tool, is still so after each later layer.

From it `LaterWins`, `ListsGrow`, `TraceTellsAll`, `BlameHolds`,
`CommandLineHolds`, `PresetsKeep`. The assumptions: fields have a kind, and there
are `bail`, `jobs`, `quiet` and the roots; documents set no field to None (TOML has
no null) and give lists or something invalid where lists are merged; the defaults
are not parallel under bail, repeat nothing and have a root; no option of the command line
sets a field of a tool or the strategy of deduplication; presets set knobs and fields of tools.

**ToolSelection** (`ToolSelectionProofs`): `OnlyGoverns`, `PyqaScope`,
`ChecksCount`, `NormalPreset`, `ScopeIsKept`, `NamedFilesCount`, `ExcludesCount`,
`DirectoriesCount` from `SelectionInv`, which records what `only`, the flags, the
discovery configuration, the files and the candidates are at each stage. The four
about files rest on `ReadBack`: a path made relative to a directory and read again
from the same directory is that path, which needs that the longest common prefix
of two paths is one (`LongestPrefix`).

`OrderHolds` is about the two algorithms, one lemma each:

* `PoppedIs`, `RegistryPhaseIs`: the heap pops each name once, after what it depends
  on, and when it is empty each name left waits for another one left, so that these
  lie in `Blocked`; `RegistryOrderIs` joins the phases;
* `QueueIs` is the invariant of the sorter's queue: after i departures it holds
  exactly the names all of whose predecessors are among the first i, each behind
  them (`FreeIs`, `ReleasedIs`). At the end (`StaticOrderIs`) a queue that is shorter
  than its input leaves a set of which each waits for another: a cycle;
* `OrderPhaseIs`: hence a phase without a cycle is sorted, and one with a cycle keeps
  the registry's order, in which the unblocked names already were; `OrderToolsIs`
  joins the phases.

The catalog is assumed to be finite, with each tool in one of its phases.

**ListTheorems.** The functions of the models that recurse along a list are defined
by CHOOSE, and nothing can be said of them before they are shown to exist.
`Recursion` does that once, for any step function, by induction over naturals with
a set in the place of the predicate (`UpTo`, from well-foundedness); each lemma
about such a function instantiates it and carries an invariant along the list.
`OnceEach` (a list holds each member of a set once) and `Earlier` are the terms of
the lemmas: `OnceConcat`, `OnceAppend`, `AppendedIs`, `AmongIs`, `AscendingIs`,
`FlattenIs`.

Model-checked only: `RunTerminates` (liveness under fairness), and what the
violating runs refute.

## 6. Not modelled

* *Hook installation*: one rename, one unlink and one symlink per hook, run by
  hand; the crash in between is a listed hazard.
* *Clean and update*: a list of paths or commands computed once and carried out one
  by one; what can go wrong lies in rm and in the package managers.
* *Service container and plugins*: filled by one thread at start-up.
* *Output parsers, internal linters, compliance checks, analysis, reporting*:
  conversions of one text or tree with no state beyond a call. Results enter
  `LintRun` and `Diagnostics` as data.
* *Catalog*: validation of JSON; a plan is what it yields. *Command line*: wiring
  beyond what selection, discovery and configuration model.
* *Installers, scripts, packaging*: sequences of external commands.
* Within modelled parts: the parser cache, output filters, dry-run fetches of
  tools; explanations of decisions and disabled aliases; `git status` for an
  empty reference, links to directories (the walk does not follow them), languages
  known by a file name; the import of JSON results; environment variables and
  coercion of values in configuration; rustup components, tools without a pinned
  version, the version npm reports; statistics of the memoising decorators;
  `discovery/planners.py` and `rules.py`, which compute the arguments of one
  tool's command.
