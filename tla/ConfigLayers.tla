------------------------------ MODULE ConfigLayers ------------------------------
(***************************************************************************)
(* How the configuration of a run is put together: ConfigLoader reads the  *)
(* sources in order, each a TOML file with the files it includes, and      *)
(* merges them field by field, keeping a trace of what each source         *)
(* changed; build_config then lays the command line over the result,       *)
(* applies the preset of the sensitivity and the shared defaults.          *)
(***************************************************************************)
EXTENDS Naturals, Sequences, FiniteSets, Lists

CONSTANTS
  Sources,      \* the files of the sources, in their order
  Files,
  Contents,     \* file -> the documents it may hold: [includes, fields] or Missing
  Fields, Kind, \* field -> "replace", "append", "roots", "bail", "jobs", "limit", "shown",
                \* "tool" or "knob"
  Defaults,     \* field -> its value once the built-in defaults are merged
  ProjectRoot,  \* the root that file discovery falls back to
  KnownTools,   \* the tool fields of TOOL_SETTING_SCHEMA
  Discovered,   \* tool fields of AUTO_TOOL_CONFIG_FILES whose file exists -> the file
  CommandLines, \* [given, sensitivity, strict]: fields given, --sensitivity, --strict-config
  Presets,      \* sensitivity -> the knobs it sets
  PresetTools,  \* sensitivity -> the tool fields it sets when they are not set
  SkipIfTruthy, \* the tool fields it sets when they are set to nothing, too
  Falsy,        \* the values that count as nothing
  StrictLevels, \* the sensitivities that turn on strict deduplication
  MypyFlags,    \* tool fields of mypy that default to true
  MypyStrict    \* tool fields of mypy that its strictness decides

Absent == "absent"  \* a tool setting nobody made
Missing == [includes |-> <<>>, fields |-> [f \in {} |-> Absent], exists |-> FALSE]
Default == "medium"

Empty == [f \in {} |-> Absent]
Of(kinds) == {f \in Fields : Kind[f] \in kinds}
ListKinds == {"append", "roots"}
ReplacedKinds == {"replace", "bail", "limit", "shown", "tool"}

ASSUME FieldsAssumption ==
  /\ Kind \in [Fields -> ReplacedKinds \union ListKinds \union {"jobs", "knob"}]
  /\ {"bail", "jobs", "quiet", "roots"} \subseteq Fields
  /\ Kind["bail"] = "bail" /\ Kind["jobs"] = "jobs"
  /\ Kind["quiet"] = "replace" /\ Of({"roots"}) = {"roots"}
  /\ "by" \in Fields => Kind["by"] = "replace"

\* TOML has no null, so a document sets no field to None; a list may be invalid.
ASSUME FilesAssumption ==
  /\ Sources \in Seq(Files)
  /\ DOMAIN Contents = Files
  /\ \A file \in Files : \A document \in Contents[file] :
       /\ document.includes \in Seq(Files)
       /\ DOMAIN document.fields \subseteq Fields
       /\ document.fields = [f \in DOMAIN document.fields |-> document.fields[f]]
       /\ \A f \in DOMAIN document.fields : document.fields[f] # Absent
       /\ \A f \in DOMAIN document.fields \cap Of(ListKinds) :
            document.fields[f] = "invalid" \/ IsList(document.fields[f])

ASSUME DefaultsAssumption ==
  /\ Defaults = [f \in Fields |-> Defaults[f]]
  /\ Defaults["bail"] = "true" => Defaults["jobs"] = "1"
  /\ \A f \in Of(ListKinds) : IsList(Defaults[f]) /\ IsInjective(Defaults[f])
  /\ Defaults["roots"] # <<>>

\* No option sets a field of a tool or the way of deduplication.
ASSUME CommandLinesAssumption ==
  \A line \in CommandLines :
    /\ DOMAIN line.given \subseteq Fields \ (Of({"tool"}) \union {"by"})
    /\ \A f \in DOMAIN line.given \cap Of(ListKinds) : IsList(line.given[f])
    /\ line.sensitivity \in DOMAIN Presets \union {Absent}

ASSUME ToolsAssumption ==
  /\ DOMAIN Discovered \union MypyFlags \union MypyStrict \subseteq Of({"tool"})
  /\ Default \in DOMAIN Presets /\ DOMAIN PresetTools = DOMAIN Presets
  /\ \A level \in DOMAIN Presets :
       /\ DOMAIN Presets[level] \subseteq Of({"knob"})
       /\ DOMAIN PresetTools[level] \subseteq Of({"tool"})
       /\ \A f \in DOMAIN PresetTools[level] : PresetTools[level][f] # Absent

VARIABLES
  disk, cli,
  stage,   \* "load", "discover", "cli", "preset", "shared", "done" or "failed"
  source,  \* index of the source being loaded
  stack,   \* _load's activations: [file, todo, merged]
  config,
  trace,   \* FieldUpdates: [source, changes]
  warned,  \* an unknown tool was met
  loaded,  \* history: the documents merged, [source, fields]
  cause    \* history: why the load failed

vars == <<disk, cli, stage, source, stack, config, trace, warned, loaded, cause>>

Init ==
  /\ disk \in {d \in [Files -> UNION {Contents[f] : f \in Files}] : \A f \in Files : d[f] \in Contents[f]}
  /\ cli \in CommandLines
  /\ stage = "load" /\ source = 1 /\ stack = <<>>
  /\ config = Defaults
  /\ trace = <<>> /\ warned = FALSE /\ loaded = <<>> /\ cause = "none"

Loading == UNCHANGED <<disk, cli, config, trace, warned>>
-----------------------------------------------------------------------------
(* Reading a source and the files it includes                              *)

\* MUTANT: the included mapping wins.
OverlaidByBase(base, over) ==
  [f \in DOMAIN base \union DOMAIN over |-> IF f \in DOMAIN base THEN base[f] ELSE over[f]]

\* _deep_merge, with the path of a key for a field: the second mapping wins.
Overlaid(base, over) ==
  [f \in DOMAIN base \union DOMAIN over |-> IF f \in DOMAIN over THEN over[f] ELSE base[f]]

Top == stack[Len(stack)]
Activation(file) == [file |-> file, todo |-> disk[file].includes, merged |-> Empty]

OpenSource ==
  /\ stage = "load" /\ stack = <<>> /\ source <= Len(Sources)
  /\ IF disk[Sources[source]] = Missing
     THEN source' = source + 1 /\ stack' = stack
     ELSE source' = source /\ stack' = <<Activation(Sources[source])>>
  /\ Loading /\ UNCHANGED <<stage, loaded, cause>>

\* MUTANT: a file that was read before counts as a cycle.
WasRead(file) ==
  \/ \E i \in DOMAIN stack : stack[i].file = file
  \/ \E i \in DOMAIN loaded : loaded[i].file = file

\* The file is on the stack of files being read.
InStack(file) == \E i \in DOMAIN stack : stack[i].file = file

\* The next include of the file on top: a missing file counts for nothing, one
\* that is being read is a ConfigError.
Include ==
  /\ stage = "load" /\ stack # <<>> /\ Top.todo # <<>>
  /\ LET file == Head(Top.todo)
         rest == [stack EXCEPT ![Len(stack)].todo = Tail(@)]
     IN
     IF disk[file] = Missing
     THEN stack' = rest /\ UNCHANGED <<stage, cause>>
     ELSE IF InStack(file)
     THEN stage' = "failed" /\ cause' = "circular" /\ stack' = stack
     ELSE stack' = Append(rest, Activation(file)) /\ UNCHANGED <<stage, cause>>
  /\ Loading /\ UNCHANGED <<source, loaded>>

Document == Overlaid(Top.merged, disk[Top.file].fields)
Recorded == Append(loaded, [source |-> source, file |-> Top.file, fields |-> disk[Top.file].fields])

\* An included file is done: it is merged into what its includer has so far.
CloseInclude ==
  LET n == Len(stack) IN
  /\ stage = "load" /\ n > 1 /\ Top.todo = <<>>
  /\ stack' = [SubSeq(stack, 1, n - 1) EXCEPT ![n - 1].merged = Overlaid(@, Document)]
  /\ loaded' = Recorded
  /\ Loading /\ UNCHANGED <<stage, source, cause>>
-----------------------------------------------------------------------------
(* Merging a source into the configuration                                 *)

\* MUTANT: only a source that sets bail makes the run serial.
JobsIfGiven(fragment, bail, jobs) ==
  IF "bail" \in DOMAIN fragment /\ fragment["bail"] = "true" THEN "1" ELSE jobs

\* _ExecutionSection.merge and collect_execution_overrides: bail means one job.
Jobs(fragment, bail, jobs) == IF bail = "true" THEN "1" ELSE jobs

\* The section's value of a field when it has one, else the value so far
Given(fragment, f) == IF f \in DOMAIN fragment THEN fragment[f] ELSE config[f]

\* _merge_roots: a source that does not set the roots does not leave them empty.
MergedRoots(fragment) ==
  IF "roots" \in DOMAIN fragment THEN Appended(<<>>, fragment["roots"])
  ELSE IF config["roots"] = <<>> THEN <<ProjectRoot>> ELSE config["roots"]

\* A source that says nothing is passed over.  [complexity], [strictness] and
\* [severity] tables of a file end up among the tools, whose merger skips these
\* names.
MergedConfig(fragment) ==
  [f \in Fields |->
     IF DOMAIN fragment = {} \/ Kind[f] = "knob" THEN config[f]
     ELSE IF f = "roots" THEN MergedRoots(fragment)
     ELSE IF Kind[f] = "append" /\ f \in DOMAIN fragment THEN Appended(config[f], fragment[f])
     ELSE IF f = "jobs" THEN Jobs(fragment, Given(fragment, "bail"), Given(fragment, "jobs"))
     ELSE Given(fragment, f)]

\* MUTANT: the fields that follow from others are not traced.
ChangedGiven(fragment, new) == {f \in DOMAIN fragment : new[f] # config[f]}

\* MUTANT: compared with Config() and not with the configuration before.
ChangedFromDefaults(fragment, new) == {f \in Fields : new[f] # Defaults[f]}

\* _diff_model: the fields whose value changed
Changed(fragment, new) == {f \in Fields : new[f] # config[f]}

Traced(name, changed, new) ==
  IF changed = {} THEN trace
  ELSE Append(trace, [source |-> name, changes |-> [f \in changed |-> new[f]]])

Invalid(fragment) ==
  \E f \in DOMAIN fragment : Kind[f] \notin {"tool", "knob"} /\ fragment[f] = "invalid"

\* The source's own file is done: its document is merged into the configuration.
CloseSource ==
  /\ stage = "load" /\ Len(stack) = 1 /\ Top.todo = <<>>
  /\ loaded' = Recorded
  /\ IF Invalid(Document)
     THEN /\ stage' = "failed" /\ cause' = "invalid"
          /\ UNCHANGED <<source, stack, config, trace, warned>>
     ELSE LET new == MergedConfig(Document) IN
          /\ config' = new
          /\ trace' = Traced(Sources[source], Changed(Document, new), new)
          /\ warned' = (warned \/ \E f \in DOMAIN Document : Kind[f] = "tool" /\ f \notin KnownTools)
          /\ source' = source + 1 /\ stack' = <<>>
          /\ UNCHANGED <<stage, cause>>
  /\ UNCHANGED <<disk, cli>>

\* _auto_discover_tool_settings, and the warnings that --strict-config makes errors
Discover ==
  /\ stage = "load" /\ stack = <<>> /\ source > Len(Sources)
  /\ LET found == {f \in DOMAIN Discovered : config[f] = Absent}
         new == [f \in Fields |-> IF f \in found THEN Discovered[f] ELSE config[f]]
     IN config' = new /\ trace' = Traced("auto", found, new)
  /\ stage' = IF cli.strict /\ warned THEN "failed" ELSE "cli"
  /\ cause' = IF cli.strict /\ warned THEN "warnings" ELSE cause
  /\ UNCHANGED <<disk, cli, source, stack, warned, loaded>>
-----------------------------------------------------------------------------
(* build_config                                                            *)

\* select_flag, select_value: an option counts when it was provided.
Selected(f) == IF f \in DOMAIN cli.given THEN cli.given[f] ELSE config[f]

\* The boundaries of the command line's paths replace limit_to even when it names
\* none.
Boundaries(f) == IF f \in DOMAIN cli.given THEN cli.given[f] ELSE "none"

\* resolve_roots: the project root is one of them, --dir adds to them.
WithProjectRoot(roots) ==
  IF Contains(roots, ProjectRoot) THEN roots ELSE <<ProjectRoot>> \o roots
Roots ==
  Appended(WithProjectRoot(config["roots"]),
           IF "roots" \in DOMAIN cli.given THEN cli.given["roots"] ELSE <<>>)

\* What quiet takes away it takes from the options given, too.
Shown(f) == IF Selected("quiet") = "true" THEN "false" ELSE Selected(f)

CommandLine ==
  /\ stage = "cli"
  /\ config' = [f \in Fields |->
       IF f = "roots" THEN Roots
       ELSE IF Kind[f] = "append" /\ f \in DOMAIN cli.given THEN Appended(config[f], cli.given[f])
       ELSE IF f = "jobs" THEN Jobs(cli.given, Selected("bail"), Selected("jobs"))
       ELSE IF Kind[f] = "limit" THEN Boundaries(f)
       ELSE IF Kind[f] = "shown" THEN Shown(f)
       ELSE Selected(f)]
  /\ stage' = "preset"
  /\ UNCHANGED <<disk, cli, source, stack, trace, warned, loaded, cause>>

Level == IF cli.sensitivity = Absent THEN Default ELSE cli.sensitivity

\* MUTANT: the preset sets all of its knobs.
AllKnobs == DOMAIN Presets[Level]

\* The knobs of the preset that the command line does not give
PresetKnobs == DOMAIN Presets[Level] \ DOMAIN cli.given

\* MUTANT: the preset sets a tool's field over what was configured.
PresetTool(f, value) == PresetTools[Level][f]

\* ToolSpecificOverride.apply: what is set is kept, of some fields only what is
\* set to something.
PresetToolIfUnset(f, value) ==
  IF value = Absent \/ (f \in SkipIfTruthy /\ value \in Falsy)
  THEN PresetTools[Level][f] ELSE value

\* apply_sensitivity_profile: setting a knob assigns a section of the validated
\* model, and each such assignment runs _apply_defaults_post_validation, which
\* takes away what is set for the strictness of mypy.
Preset ==
  /\ stage = "preset"
  /\ config' = [f \in Fields |->
       IF f \in PresetKnobs THEN Presets[Level][f]
       ELSE IF f \in DOMAIN PresetTools[Level] THEN PresetToolIfUnset(f, config[f])
       ELSE IF f \in MypyStrict /\ PresetKnobs # {} THEN Absent
       ELSE IF f \in MypyFlags /\ PresetKnobs # {} /\ config[f] = Absent THEN "true"
       ELSE IF f = "by" /\ Level \in StrictLevels THEN "prefer"
       ELSE config[f]]
  /\ stage' = "shared"
  /\ UNCHANGED <<disk, cli, source, stack, trace, warned, loaded, cause>>

\* apply_shared_defaults with override: a setting that is not its baseline (true
\* for a flag, false for the strictness, which no file can change) is kept.
SharedDefaults ==
  /\ stage = "shared"
  /\ config' = [f \in Fields |->
       IF f \in MypyFlags /\ config[f] = Absent THEN "true"
       ELSE IF f \in MypyStrict /\ config[f] = "false" THEN Absent
       ELSE config[f]]
  /\ stage' = "done"
  /\ UNCHANGED <<disk, cli, source, stack, trace, warned, loaded, cause>>

Stop == stage \in {"done", "failed"} /\ UNCHANGED vars

Next ==
  \/ OpenSource \/ Include \/ CloseInclude \/ CloseSource \/ Discover
  \/ CommandLine \/ Preset \/ SharedDefaults \/ Stop

Spec == Init /\ [][Next]_vars
-----------------------------------------------------------------------------
(* Properties                                                              *)

\* The indices of the documents that set a field, of one source or of all
Setting(f, s) == {i \in DOMAIN loaded : f \in DOMAIN loaded[i].fields /\ loaded[i].source = s}
SettingAny(f) == UNION {Setting(f, s) : s \in DOMAIN Sources}
Latest(indices) == CHOOSE i \in indices : \A j \in indices : j <= i
WasSet(f, default) ==
  IF SettingAny(f) = {} THEN default ELSE loaded[Latest(SettingAny(f))].fields[f]

\* The indices of the updates that change a field
Updates(f) == {i \in DOMAIN trace : f \in DOMAIN trace[i].changes}
Replayed(f) == IF Updates(f) = {} THEN Defaults[f] ELSE trace[Latest(Updates(f))].changes[f]

\* The trace tells the whole story: replayed over the defaults it gives the
\* configuration that was loaded.
TraceReplays == stage = "cli" => config = [f \in Fields |-> Replayed(f)]

\* Each update is blamed on a source with a document that sets the field, or, for
\* the jobs, that sets bail; the roots become the project root with a source that
\* does not set them only when one before it set them to none.
BlameIsRight ==
  \A i \in DOMAIN trace : trace[i].source = "auto" \/
    \E s \in DOMAIN Sources : Sources[s] = trace[i].source /\
      \A f \in DOMAIN trace[i].changes :
        \/ Setting(f, s) # {}
        \/ f = "jobs" /\ Setting("bail", s) # {}
        \/ /\ f = "roots" /\ trace[i].changes[f] = <<ProjectRoot>>
           /\ \E j \in SettingAny(f) : loaded[j].source < s /\ loaded[j].fields[f] = <<>>

\* A source after that of document i says something.
SaidAfter(i) ==
  \E j \in DOMAIN loaded : loaded[i].source < loaded[j].source /\ DOMAIN loaded[j].fields # {}

\* The roots that were set; an empty list holds only until a later source.
RootsSet ==
  LET last == Latest(SettingAny("roots")) IN
  IF SettingAny("roots") = {} THEN Defaults["roots"]
  ELSE IF loaded[last].fields["roots"] = <<>> /\ SaidAfter(last) THEN <<ProjectRoot>>
  ELSE Appended(<<>>, loaded[last].fields["roots"])

\* However includes nest, a field has the value that the last document setting it
\* gives, where a file comes after its includes and a source after those before;
\* only a list of no roots gives way to the project root when a source that says
\* anything, about whatever, comes later.
LaterSourceWins ==
  stage = "cli" =>
    /\ \A f \in Of(ReplacedKinds) \ DOMAIN Discovered : config[f] = WasSet(f, Defaults[f])
    /\ config["roots"] = RootsSet

\* Lists grow from source to source: each source's entries stay, each once.
ListsAccumulate ==
  stage = "cli" =>
    \A f \in Of({"append"}) :
      /\ IsInjective(config[f])
      /\ \A s \in DOMAIN Sources : Setting(f, s) # {} =>
           ToSet(loaded[Latest(Setting(f, s))].fields[f]) \subseteq ToSet(config[f])

\* A configuration to stop at the first failure never runs tools in parallel,
\* whichever layer set bail and whichever set the jobs.
BailIsSerial == config["bail"] = "true" => config["jobs"] = "1"

\* Files that reach each other over several includes, but not themselves, load.
CircularMeansCycle ==
  cause = "circular" =>
    \E i \in DOMAIN stack : stack[i].file = Head(Top.todo)
      /\ \A j \in i..(Len(stack) - 1) :
           Contains(disk[stack[j].file].includes, stack[j + 1].file)

\* What is given on the command line is what the run is configured with, whatever
\* files and preset say; but bail, a file's too, overrides the jobs given, and
\* quiet what is to be shown: a quiet run shows neither passes nor statistics.
CommandLineWins ==
  stage = "done" =>
    /\ \A f \in DOMAIN cli.given :
         IF Kind[f] \in ListKinds THEN ToSet(cli.given[f]) \subseteq ToSet(config[f])
         ELSE \/ config[f] = cli.given[f]
              \/ f = "jobs" /\ config["bail"] = "true"
              \/ Kind[f] = "shown" /\ config["quiet"] = "true"
    /\ config["quiet"] = "true" => \A f \in Of({"shown"}) : config[f] = "false"

\* The tool fields for which the preset takes an empty setting for none
Overridable(f) == f \in SkipIfTruthy \cap DOMAIN PresetTools[Level]

\* A preset does not undo what the files set for a tool, unless they set to
\* nothing what the preset means to set; what strictness decides for mypy is the
\* other exception.
PresetsKeepToolSettings ==
  stage = "done" =>
    \A f \in Of({"tool"}) \ MypyStrict :
      SettingAny(f) # {} =>
        \/ config[f] = WasSet(f, Absent)
        \/ /\ Overridable(f) /\ WasSet(f, Absent) \in Falsy
           /\ config[f] = PresetTools[Level][f]

\* What the documentation promises: [complexity], [strictness] and the tables of
\* the tools configure the run, unless the command line says otherwise.
FilesConfigureTools ==
  stage = "done" /\ cli.sensitivity = Absent =>
    \A f \in Of({"knob", "tool"}) \ DOMAIN cli.given :
      SettingAny(f) # {} => config[f] = WasSet(f, Absent)
=============================================================================
