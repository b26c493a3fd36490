---------------------------- MODULE ToolSelection ----------------------------
(***************************************************************************)
(* From the command line to the files and the tools of a run: `pyqa lint`  *)
(* activates the internal linters named by --check-* flags, builds the     *)
(* configuration and the registry, and discovers the files; then           *)
(* ToolSelector.plan_selection decides on every tool and orders the        *)
(* selected ones.                                                          *)
(*                                                                         *)
(* A situation is a catalog, a request and a workspace (see FileDiscovery). *)
(* The catalog is what the registry will hold: tools, phases, phase and    *)
(* precedes (see ToolOrder), the family of each tool, the languages, extensions and *)
(* config_files it asks for, and pyqa_default (pyqa_default_enabled of an  *)
(* internal linter).  The request is the command line and what the         *)
(* configuration files say; next to the targets FileDiscovery describes:   *)
(*   only, checks, normal, pyqa_rules     the flags; checks are the linters *)
(*                                        named by --check-* flags         *)
(*   file_only, file_rules                execution.only, .pyqa_rules of   *)
(*                                        the configuration files          *)
(*   sensitive        severity.sensitivity is high or maximum              *)
(*   languages        --language                                           *)
(***************************************************************************)
EXTENDS ToolOrder, FileDiscovery

CONSTANT Situations

CatalogShape(catalog) ==
  /\ catalog.tools \subseteq Nat /\ IsFiniteSet(catalog.tools)
  /\ catalog.phases \in Nat \ {0} /\ catalog.phase \in [catalog.tools -> 1..catalog.phases]
  /\ catalog.family \in [catalog.tools -> {"external", "internal", "internal-pyqa"}]
  /\ \A t \in catalog.tools : catalog.pyqa_default[t] \in BOOLEAN

RequestShape(request) ==
  /\ {request.normal, request.pyqa_rules, request.file_rules, request.sensitive}
       \subseteq BOOLEAN
  /\ {request.cwd} \cup request.paths \cup request.dirs \cup request.exclude
       \cup request.file_excludes \subseteq Seq(STRING)

\* A path is a directory, a file or a link, and a link's target is a file.
WorkspaceShape(workspace) ==
  /\ workspace.files \subseteq Seq(STRING)
  /\ workspace.files \cap (workspace.dirs \cup DOMAIN workspace.links) = {}
  /\ \A link \in DOMAIN workspace.links : workspace.links[link] \in workspace.files

\* Only internal linters have a --check-* flag.
ASSUME SituationsAssumption ==
  \A s \in Situations :
    /\ CatalogShape(s.catalog) /\ RequestShape(s.request) /\ WorkspaceShape(s.workspace)
    /\ \A t \in s.request.checks :
         t \in s.catalog.tools /\ s.catalog.family[t] # "external"
    /\ s.request.cwd \in s.workspace.dirs

VARIABLES
  situation,   \* the catalog, the request and the workspace, which do not change
  stage,       \* how far the lint command has come
  only,        \* selection.only, later config.execution.only
  pyqa_rules,  \* config.execution.pyqa_rules
  enabled,     \* Tool.default_enabled of each tool
  discovery,   \* config.file_discovery
  files,       \* the files discovered for the run
  candidates,  \* the tools decided to run
  ordered      \* SelectionResult.ordered

vars == <<situation, stage, only, pyqa_rules, enabled, discovery, files,
          candidates, ordered>>

catalog == situation.catalog
request == situation.request
workspace == situation.workspace

\* The root of the run, and whether it is the pyqa_lint project itself.
root == Root(request, workspace)
InPyqaWorkspace == root \in workspace.pyqa

Init ==
  /\ situation \in Situations
  /\ stage = "parsed"
  /\ only = situation.request.only
  /\ pyqa_rules = FALSE
  /\ enabled = {}
  /\ discovery = <<>>
  /\ files = {}
  /\ candidates = {}
  /\ ordered = <<>>

-----------------------------------------------------------------------------
\* MUTANT: --pyqa-rules does not count for the check flags.
ActivatedInWorkspace ==
  IF request.normal THEN {}
  ELSE {t \in request.checks : catalog.family[t] = "internal-pyqa" => InPyqaWorkspace}

\* The linters whose check flag is honoured: pyqa linters only where they apply;
\* --normal leaves it to their default.
Activated ==
  IF request.normal THEN {}
  ELSE {t \in request.checks :
          catalog.family[t] = "internal-pyqa" =>
            request.pyqa_rules \/ InPyqaWorkspace}

\* _activate_internal_linters
ActivateInternalLinters ==
  /\ stage = "parsed"
  /\ stage' = "activated"
  /\ only' = only \cup Activated
  /\ UNCHANGED <<situation, pyqa_rules, enabled, discovery, files, candidates, ordered>>

\* MUTANT: --normal is left to the pyqa scope.
DefaultEnabledInScope ==
  {t \in catalog.tools :
     /\ catalog.family[t] # "external"
     /\ catalog.pyqa_default[t] /\ (InPyqaWorkspace \/ request.normal)}

\* configure_internal_tool_defaults, over the internal linters
DefaultEnabled ==
  {t \in catalog.tools :
     /\ catalog.family[t] # "external"
     /\ request.normal \/ (catalog.pyqa_default[t] /\ InPyqaWorkspace)}

\* MUTANT: the files win over the command line.
BuildRuntimeContextFilesFirst ==
  /\ stage = "activated"
  /\ stage' = "configured"
  /\ only' = IF request.file_only # {} THEN request.file_only ELSE only
  /\ pyqa_rules' = (request.file_rules \/ request.pyqa_rules \/ request.normal)
  /\ enabled' = DefaultEnabled
  /\ discovery' = DiscoveryConfig(request, workspace, root)
  /\ UNCHANGED <<situation, files, candidates, ordered>>

\* _build_runtime_context: the command line wins over the files, and all
\* internal linters are registered.
BuildRuntimeContext ==
  /\ stage = "activated"
  /\ stage' = "configured"
  /\ only' = IF only # {} THEN only ELSE request.file_only
  /\ pyqa_rules' = (request.file_rules \/ request.pyqa_rules \/ request.normal)
  /\ enabled' = DefaultEnabled
  /\ discovery' = DiscoveryConfig(request, workspace, root)
  /\ UNCHANGED <<situation, files, candidates, ordered>>

-----------------------------------------------------------------------------
\* _build_environment finds the files before the tools are chosen.
DiscoverFiles ==
  /\ stage = "configured"
  /\ stage' = "discovered"
  /\ files' = DiscoveredFiles(request, workspace, discovery, root)
  /\ UNCHANGED <<situation, only, pyqa_rules, enabled, discovery, candidates, ordered>>

-----------------------------------------------------------------------------
(* The decision on one tool, without --only                                *)

LanguageScope ==
  IF request.languages # {} THEN request.languages
  ELSE DetectedLanguages(workspace, root, files)

\* _external_decision: one signal suffices, and a tool that asks for none runs.
ExternalRuns(t) ==
  \/ catalog.languages[t] \cap LanguageScope # {}
  \/ catalog.extensions[t] \cap Extensions(workspace, files) # {}
  \/ \E config \in catalog.configs[t] : Exists(workspace, Append(root, config))
  \/ catalog.languages[t] = {} /\ catalog.extensions[t] = {} /\ catalog.configs[t] = {}

\* MUTANT: sensitivity activates the pyqa linters as it does the others.
InternalPyqaRunsWhenSensitive(t) == InPyqaWorkspace \/ pyqa_rules \/ request.sensitive

\* _internal_decision and _internal_pyqa_decision
InternalRuns(t) == request.sensitive \/ t \in enabled
InternalPyqaRuns(t) == InPyqaWorkspace \/ pyqa_rules

Runs(t) ==
  \/ catalog.family[t] = "external" /\ ExternalRuns(t)
  \/ catalog.family[t] = "internal" /\ InternalRuns(t)
  \/ catalog.family[t] = "internal-pyqa" /\ InternalPyqaRuns(t)

\* The names of --only the registry does not have.
UnknownRequested == only \ catalog.tools

\* UnknownToolRequestedError: the command exits with 1.
RefuseUnknownTool ==
  /\ stage = "discovered" /\ UnknownRequested # {}
  /\ stage' = "refused"
  /\ UNCHANGED <<situation, only, pyqa_rules, enabled, discovery, files, candidates, ordered>>

\* _evaluate_with_only and _evaluate_standard
RunCandidates ==
  {t \in catalog.tools : IF only # {} THEN t \in only ELSE Runs(t)}

\* The rest of plan_selection.  The candidates come in the registry's order.
PlanSelection ==
  /\ stage = "discovered" /\ UnknownRequested = {}
  /\ stage' = "selected"
  /\ candidates' = RunCandidates
  /\ ordered' = OrderTools(catalog,
       Among(RegistryOrder(catalog, catalog.tools), candidates'))
  /\ UNCHANGED <<situation, only, pyqa_rules, enabled, discovery, files>>

Next ==
  \/ ActivateInternalLinters \/ BuildRuntimeContext \/ DiscoverFiles
  \/ RefuseUnknownTool \/ PlanSelection

Spec == Init /\ [][Next]_vars

-----------------------------------------------------------------------------
(* Properties                                                              *)

\* --only without a check flag is absolute (SELECTION.md): the tools it names are
\* selected and no others, whatever the files say in execution.only and whatever
\* --normal implies, and no run starts when one of them is unknown.  (With a check
\* flag the code adds its linter, against SELECTION.md; see FlagsOnlyAdd.)
OnlyIsAbsolute ==
  stage = "selected" /\ request.only # {} /\ (request.checks = {} \/ request.normal) =>
    candidates = request.only

\* A pyqa-scoped linter that nobody names, by --only or by its check flag, runs in
\* no foreign workspace unless the user asked for pyqa rules: no sensitivity, no
\* default and no flag of another linter gets it in.
PyqaLintersStayInScope ==
  stage = "selected" =>
    \A t \in candidates :
      catalog.family[t] = "internal-pyqa" =>
        \/ InPyqaWorkspace \/ request.pyqa_rules \/ request.file_rules \/ request.normal
        \/ t \in request.only \cup request.file_only \cup request.checks

\* A linter asked for by its check flag runs when nothing prunes the selection,
\* whatever the sensitivity, the other check flags and --normal do to it; stated
\* for pyqa linters where pyqa rules are in force by the workspace or by a flag.
ChecksAreHonoured ==
  stage = "selected" /\ request.only = {} /\ request.file_only = {} =>
    \A t \in request.checks :
      \/ catalog.family[t] = "internal"
      \/ InPyqaWorkspace \/ request.pyqa_rules \/ request.normal
      => t \in candidates

\* --normal runs every internal linter in every workspace unless --only prunes
\* the list, also where the sensitivity of the configuration is low.
NormalRunsInternalLinters ==
  stage = "selected" /\ request.normal /\ request.only = {} /\ request.file_only = {} =>
    \A t \in catalog.tools : catalog.family[t] # "external" => t \in candidates

\* The tools a cycle of declared dependencies holds back, among tools: those that
\* lie in a set of which each waits for another.
Blocked(tools) ==
  UNION {waiting \in SUBSET tools :
           \A n \in waiting : Preds(catalog, waiting, n) # {}}

Position(t) == CHOOSE i \in DOMAIN ordered : ordered[i] = t

\* Each selected tool runs once, phases follow one another, and a declared
\* dependency between two tools of one phase is honoured unless a cycle of
\* dependencies leads to the second of them: a cycle anywhere in a phase does
\* not cost the other tools of the phase their order.
OrderIsSound ==
  stage = "selected" =>
    /\ ToSet(ordered) = candidates /\ Len(ordered) = Cardinality(candidates)
    /\ \A s, t \in candidates :
         /\ catalog.phase[s] < catalog.phase[t] => Position(s) < Position(t)
         /\ LET Peers(tools) == {u \in tools : catalog.phase[u] = catalog.phase[t]} IN
            /\ catalog.phase[s] = catalog.phase[t]
            /\ <<s, t>> \in catalog.precedes
            /\ t \notin Blocked(Peers(catalog.tools)) \/ Blocked(Peers(candidates)) = {}
            => Position(s) < Position(t)

\* The additive flags only add (SELECTION.md): an external tool with a signal in
\* the workspace runs unless --only excludes it.
FlagsOnlyAdd ==
  stage = "selected" /\ request.only = {} /\ request.file_only = {} =>
    \A t \in catalog.tools :
      catalog.family[t] = "external" /\ ExternalRuns(t) => t \in candidates

-----------------------------------------------------------------------------
(* What the files of a run promise, for a root that is the working directory *)
(* (elsewhere the names are read relative to another directory than the one  *)
(* they were typed in).                                                      *)

Found == stage \in {"discovered", "refused", "selected"} /\ root = request.cwd

\* What the user named, without the names the run says it ignores.
Named ==
  {path \in {Resolve(workspace, path) : path \in request.paths} :
     InPyqaWorkspace \/ PYQA_LINT_DIR_NAME \notin Range(path)}

\* A run that names something looks at nothing else: every file is named, or lies
\* in a named directory or next to a named file, whatever roots, git, stdin, links
\* and the configuration files add.
StaysInScope ==
  Found /\ Named # {} =>
    \A file \in files : \E name \in Named :
      IsPrefix(name, file) \/ (name \notin workspace.dirs /\ IsPrefix(Parent(name), file))

\* A file named on the command line is linted, wherever it lies: no exclude, no
\* directory left alone and no other source of names hides it.
NamedFilesAreLinted ==
  Found /\ request.diff = "none" => Named \cap workspace.files \subseteq files

\* A file that is not asked for by its own name is reached under some name that no
\* exclude covers: its own, or that of a link.  An exclude that is a link stands
\* for the link's target.
ExcludedStayOut ==
  LET Resolved(paths) == {Resolve(workspace, path) : path \in paths} IN
  Found /\ request.diff = "none" /\ ~request.from_stdin =>
    \A file \in files \ (Named \cup Resolved(request.dirs)
                          \cup request.file_explicit \cup request.file_roots) :
      \E path \in Listed(workspace) :
        /\ Resolve(workspace, path) = file
        /\ ~Under(path, Resolved(request.exclude) \cup request.file_excludes)
        /\ request.no_tests => ~IsPrefix(Append(root, "tests"), path)

\* Every file below a named directory is linted unless an exclude covers it or a
\* directory that is left alone lies between them: where the named directory lies
\* does not matter.
NamedDirectoriesAreCovered ==
  Found /\ request.diff = "none" /\ ~request.from_stdin /\ discovery.explicit = {} =>
    \A name \in Named \cap workspace.dirs :
      \A file \in workspace.files :
        /\ IsPrefix(name, file) /\ ~Under(file, discovery.excludes)
        /\ \A n \in Len(name)..(Len(file) - 1) :
             Name(SubSeq(file, 1, n)) \notin ALWAYS_EXCLUDE_DIRS
        => file \in files
=============================================================================
