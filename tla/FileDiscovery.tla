---------------------------- MODULE FileDiscovery ----------------------------
(***************************************************************************)
(* Which files a lint run looks at: from the paths, directories, excludes  *)
(* and git options of the command line to the root, the discovery          *)
(* configuration, the discovered files and the languages they suggest.     *)
(*                                                                         *)
(* A path is the sequence of its names from "/".  A workspace is the state *)
(* of the disk and of git:                                                 *)
(*   dirs, files      the directories and the regular files                *)
(*   links            the symbolic links to files, with their targets      *)
(*   suffix           the suffix of each file name                         *)
(*   pyqa             the directories laid out as the pyqa_lint project    *)
(*   top, diffs, untracked   the work tree, the files each form of git diff *)
(*                    reports, and the untracked files                     *)
(* A request's part of it: cwd; root, and root_given when --root is on the *)
(* command line; paths, dirs, exclude; no_tests; from_stdin and the lines  *)
(* stdin; diff (the form of git diff, or "none") and include_untracked;    *)
(* file_roots, file_excludes and file_explicit of the configuration files. *)
(***************************************************************************)
EXTENDS Naturals, FiniteSets, SequencesExt

PYQA_LINT_DIR_NAME == "pyqa_lint"

ALWAYS_EXCLUDE_DIRS ==
  {".git", "node_modules", ".venv", "venv", "dist", "build", "__pycache__", ".mypy_cache",
   ".pytest_cache", ".tox", "coverage", ".lint-cache", ".cache", PYQA_LINT_DIR_NAME}

\* Relative to the root.
DEFAULT_EXCLUDES ==
  {<<name>> : name \in {".venv", ".git", "build", "dist", ".mypy_cache", ".ruff_cache",
     ".pytest_cache", ".tox", ".eggs", ".lint-cache", ".cache", ".aider.chat.history.md"}}
  \cup {<<"src", ".lint-cache">>}

\* Three of the languages, with the suffixes and markers the situations use.
LANGUAGE_EXTENSIONS ==
  [python |-> {".py", ".pyi"}, javascript |-> {".js", ".ts"}, markdown |-> {".md"}]
LANGUAGE_MARKERS ==
  [python |-> {"pyproject.toml", "setup.cfg"}, javascript |-> {"package.json", "tsconfig.json"},
   markdown |-> {"mkdocs.yml"}]

-----------------------------------------------------------------------------
(* Paths                                                                   *)

Listed(workspace) == workspace.files \cup DOMAIN workspace.links
Exists(workspace, path) == path \in workspace.dirs \cup Listed(workspace)

\* Path.resolve
Resolve(workspace, path) ==
  IF path \in DOMAIN workspace.links THEN workspace.links[path] ELSE path

Parent(path) == IF path = <<>> THEN <<>> ELSE Front(path)
Name(path) == IF path = <<>> THEN "" ELSE Last(path)

\* is_within_any, and is_within_limits, which lets everything pass without limits
Under(path, places) == \E place \in places : IsPrefix(place, path)
WithinLimits(path, limits) == limits = {} \/ Under(path, limits)

\* normalize_path: so many times "..", then names
RelativeTo(path, base) ==
  LET shared == Len(LongestCommonPrefix({path, base})) IN
  [up |-> Len(base) - shared, down |-> SubSeq(path, shared + 1, Len(path))]

\* ensure_absolute_path
JoinedTo(relative, base) ==
  SubSeq(base, 1, Len(base) - relative.up) \o relative.down

-----------------------------------------------------------------------------
(* The root and the names                                                  *)

\* _normalize_targets: the paths of the command line, relative to the working
\* directory, are read again relative to the root that follows from them.
Reread(request, workspace, path, root) ==
  Resolve(workspace, JoinedTo(RelativeTo(Resolve(workspace, path), request.cwd), root))

\* _derive_default_root: what the relative directories have in common as text
DerivedRoot(request, workspace) ==
  LET Directory(path) == IF path \in workspace.dirs THEN path ELSE Parent(path)
      relatives == {RelativeTo(Directory(Resolve(workspace, path)), request.cwd) :
                      path \in request.paths}
      ups == {relative.up : relative \in relatives} IN
  JoinedTo([up |-> Min(ups),
            down |-> IF Cardinality(ups) > 1 THEN <<>>
                     ELSE LongestCommonPrefix({relative.down : relative \in relatives})],
           request.cwd)

\* _select_root
Root(request, workspace) ==
  IF request.root_given \/ request.paths = {} THEN request.root
  ELSE LET derived == DerivedRoot(request, workspace) IN
       IF derived \in workspace.pyqa \/ request.root \notin workspace.pyqa
       THEN derived ELSE request.root

\* _apply_pyqa_lint_filter: outside a pyqa workspace, names below a directory
\* pyqa_lint are ignored.
Names(request, workspace, root) ==
  {name \in {Reread(request, workspace, path, root) : path \in request.paths} :
     root \in workspace.pyqa \/ PYQA_LINT_DIR_NAME \notin Range(name)}

-----------------------------------------------------------------------------
(* The discovery configuration                                             *)

\* MUTANT: only directories bound the search.
LimitsOfDirectories(workspace, names) == names \cap workspace.dirs

\* derive_boundaries
Limits(workspace, names) ==
  {IF name \in workspace.dirs THEN name ELSE Parent(name) : name \in names}

\* resolve_excludes, with the tests directory of _apply_normal_preset
Excludes(request, workspace, root) ==
  request.file_excludes
  \cup {Resolve(workspace, root \o path) : path \in DEFAULT_EXCLUDES}
  \cup {Reread(request, workspace, path, root) : path \in request.exclude}
  \cup IF request.no_tests \/ request.normal THEN {Append(root, "tests")} ELSE {}

\* resolve_roots, and the directories among the names
Roots(request, workspace, root, names) ==
  {root} \cup request.file_roots \cup (names \cap workspace.dirs)
  \cup {Reread(request, workspace, path, root) : path \in request.dirs}

\* _filter_roots_within_boundaries: every directory that bounds is a root.
BoundedRoots(workspace, roots, limits) ==
  {base \in roots : WithinLimits(base, limits)} \cup (limits \cap workspace.dirs)

\* resolve_explicit_files: what is named and is no directory counts as a file.
ExplicitFiles(request, workspace, names, limits) ==
  {path \in request.file_explicit \cup (names \ workspace.dirs) :
     Exists(workspace, path) /\ WithinLimits(path, limits)}

\* collect_file_discovery_overrides
DiscoveryConfig(request, workspace, root) ==
  LET names == Names(request, workspace, root)
      limits == Limits(workspace, names) IN
  [roots |-> BoundedRoots(workspace, Roots(request, workspace, root, names), limits),
   explicit |-> ExplicitFiles(request, workspace, names, limits),
   excludes |-> Excludes(request, workspace, root),
   limits |-> limits]

-----------------------------------------------------------------------------
(* Discovery                                                               *)

\* _diff_names: git names files from the top of the work tree, and the names are
\* read relative to the root.
DiffNames(request, workspace, root) ==
  {Resolve(workspace, JoinedTo(RelativeTo(path, workspace.top), root)) :
     path \in workspace.diffs[request.diff]}

\* _untracked: git ls-files names those below the root.
Untracked(workspace, root) ==
  {Resolve(workspace, path) : path \in {path \in workspace.untracked : IsPrefix(root, path)}}

\* GitDiscovery.discover: outside a work tree git fails, and its output counts as empty.
ChangedFiles(request, workspace, discovery, root) ==
  {path \in DiffNames(request, workspace, root)
            \cup IF request.include_untracked THEN Untracked(workspace, root) ELSE {} :
     /\ IsPrefix(workspace.top, root)
     /\ Exists(workspace, path) /\ WithinLimits(path, discovery.limits)}

\* MUTANT: the names on the way to the directory count as well.
SkipsAnywhere(workspace, discovery, root, base, directory) ==
  \/ Under(directory, discovery.excludes)
  \/ Range(directory) \cap ALWAYS_EXCLUDE_DIRS # {}

\* _should_skip_directory: a directory pyqa_lint is entered only as the root.
SkipsDirectory(workspace, discovery, root, base, directory) ==
  \/ Under(directory, discovery.excludes)
  \/ /\ Name(directory) \in ALWAYS_EXCLUDE_DIRS
     /\ ~ /\ root \in workspace.pyqa \/ Name(root) = PYQA_LINT_DIR_NAME
          /\ Name(directory) = PYQA_LINT_DIR_NAME
          /\ directory = root /\ base = root

\* MUTANT: excludes are checked on directories only.
WalkDirectoriesOnly(workspace, discovery, root, base) ==
  {Resolve(workspace, path) : path \in {path \in Listed(workspace) \ {base} :
     /\ IsPrefix(base, path)
     /\ \A n \in Len(base)..(Len(path) - 1) :
          ~SkipsDirectory(workspace, discovery, root, base, SubSeq(path, 1, n))}}

\* _walk
Walk(workspace, discovery, root, base) ==
  {Resolve(workspace, path) : path \in {path \in Listed(workspace) \ {base} :
     /\ IsPrefix(base, path) /\ ~Under(path, discovery.excludes)
     /\ \A n \in Len(base)..(Len(path) - 1) :
          ~SkipsDirectory(workspace, discovery, root, base, SubSeq(path, 1, n))}}

\* _paths_from_stdin
StdinFiles(request, workspace, root) ==
  {Resolve(workspace, root \o line) : line \in request.stdin}

\* MUTANT: the lines of stdin win over the files that are named.
FilesystemFilesStdinFirst(request, workspace, discovery, root) ==
  IF request.from_stdin THEN StdinFiles(request, workspace, root)
  ELSE IF discovery.explicit # {} THEN discovery.explicit
  ELSE UNION {Walk(workspace, discovery, root, base) :
                base \in discovery.roots \cap workspace.dirs}

\* FilesystemDiscovery.discover: explicit files win over stdin, which wins over
\* the walk from every root; a root that is a file stands for itself.
FilesystemFiles(request, workspace, discovery, root) ==
  IF discovery.explicit # {} THEN discovery.explicit
  ELSE IF request.from_stdin THEN StdinFiles(request, workspace, root)
  ELSE (discovery.roots \cap workspace.files)
       \cup UNION {Walk(workspace, discovery, root, base) :
                     base \in discovery.roots \cap workspace.dirs}

\* discover_files and DefaultDiscovery.run: what git reports, else the files on disk
DiscoveredFiles(request, workspace, discovery, root) ==
  LET changed == IF request.diff = "none" THEN {}
                 ELSE ChangedFiles(request, workspace, discovery, root)
      found == IF changed # {} THEN changed
               ELSE FilesystemFiles(request, workspace, discovery, root) IN
  {path \in found : WithinLimits(path, discovery.limits)}

\* The suffixes build_selection_context collects
Extensions(workspace, files) ==
  {workspace.suffix[Name(path)] : path \in files} \ {""}

\* detect_languages, by suffix or by a marker file under the root
DetectedLanguages(workspace, root, files) ==
  {language \in DOMAIN LANGUAGE_EXTENSIONS :
     \/ \E marker \in LANGUAGE_MARKERS[language] : Exists(workspace, Append(root, marker))
     \/ LANGUAGE_EXTENSIONS[language] \cap Extensions(workspace, files) # {}}
=============================================================================
