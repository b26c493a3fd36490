--------------------------- MODULE MCToolSelection ---------------------------
(* Situations for ToolSelection: who is selected, in which order, and for which
   files. *)
EXTENDS ToolSelection

\* Three catalog tools with one signal each, one without constraints (4), and
\* three internal linters: repo-agnostic (5), pyqa-scoped (6), and one that is on
\* by default in a pyqa workspace (7).
Family == <<"external", "external", "external", "external",
            "internal", "internal-pyqa", "internal">>

DecisionCatalog ==
  [tools |-> 1..7, phases |-> 3,
   phase |-> <<2, 1, 2, 3, 2, 2, 1>>,
   precedes |-> {<<5, 1>>, <<2, 1>>, <<3, 6>>},
   family |-> Family,
   languages |-> [t \in 1..7 |-> IF t = 1 THEN {"python"} ELSE {}],
   extensions |-> [t \in 1..7 |-> IF t = 2 THEN {".py", ".md"} ELSE {}],
   configs |-> [t \in 1..7 |-> IF t = 3 THEN {"tsconfig.json"} ELSE {}],
   pyqa_default |-> [t \in 1..7 |-> t = 7]]

ws == <<"ws">>
src == <<"ws", "src">>

QuietRequest ==
  [only |-> {}, checks |-> {}, normal |-> FALSE, pyqa_rules |-> FALSE,
   file_only |-> {}, file_rules |-> FALSE, sensitive |-> FALSE, languages |-> {},
   cwd |-> ws, root |-> ws, root_given |-> FALSE, paths |-> {}, dirs |-> {},
   exclude |-> {}, no_tests |-> FALSE, from_stdin |-> FALSE, stdin |-> {},
   diff |-> "none", include_untracked |-> TRUE,
   file_roots |-> {}, file_excludes |-> {}, file_explicit |-> {}]

EmptyWorkspace ==
  [dirs |-> {<<>>, ws}, files |-> {}, links |-> <<>>, pyqa |-> {}, top |-> ws,
   diffs |-> [none |-> {}], untracked |-> {},
   suffix |-> [a \in {"a.py", "b.py", "g.py", "o.py", "p.py", "t.py", "x.py"} |-> ".py"]
              @@ ("b.md" :> ".md") @@ ("tsconfig.json" :> ".json")]

\* Name 0 is in no catalog.
DecisionRequests ==
  {[QuietRequest EXCEPT
      !.only = only_, !.checks = checks, !.file_only = file_only,
      !.normal = "normal" \in flags, !.pyqa_rules = "pyqa_rules" \in flags,
      !.file_rules = "file_rules" \in flags, !.sensitive = "sensitive" \in flags,
      !.languages = languages] :
     only_ \in {{}, {1}, {5}, {6}, {0}, {0, 1}},
     checks \in SUBSET {5, 6},
     file_only \in {{}, {1}, {0, 6}},
     flags \in SUBSET {"normal", "pyqa_rules", "file_rules", "sensitive"},
     languages \in {{}, {"python"}, {"rust"}}}

DecisionWorkspaces ==
  {[EmptyWorkspace EXCEPT !.files = {Append(ws, name) : name \in names}, !.pyqa = pyqa] :
     names \in {{}, {"a.py"}, {"b.md", "tsconfig.json"}}, pyqa \in {{}, {ws}}}

DecisionSituations ==
  [catalog : {DecisionCatalog}, request : DecisionRequests, workspace : DecisionWorkspaces]

\* n catalog tools without constraints, in the phases given.
OrderCatalog(phases, precedes) ==
  LET tools == DOMAIN phases IN
  [tools |-> tools, phases |-> 2, phase |-> phases, precedes |-> precedes,
   family |-> [t \in tools |-> "external"],
   languages |-> [t \in tools |-> {}], extensions |-> [t \in tools |-> {}],
   configs |-> [t \in tools |-> {}], pyqa_default |-> [t \in tools |-> FALSE]]

\* Every graph over three tools of one phase, with every selection of them, and
\* every graph without self-edges over three tools of one phase and one of an
\* earlier one, with all of them or all but one.
OrderSituations ==
  {[catalog |-> OrderCatalog(<<1, 1, 1>>, precedes), workspace |-> EmptyWorkspace,
    request |-> [QuietRequest EXCEPT !.only = only_]] :
     precedes \in SUBSET ((1..3) \X (1..3)), only_ \in SUBSET (1..3)}
  \cup
  {[catalog |-> OrderCatalog(<<2, 2, 2, 1>>, precedes), workspace |-> EmptyWorkspace,
    request |-> [QuietRequest EXCEPT !.only = only_]] :
     precedes \in SUBSET {p \in (1..4) \X (1..4) : p[1] # p[2]},
     only_ \in {(1..4) \ {t} : t \in 1..3} \cup {{}}}

\* A tree with files in directories that are left alone, excluded or named
\* pyqa_lint, and links to one of them and out of the workspace.
lib == <<"lib", "x.py">>
Tree ==
  [EmptyWorkspace EXCEPT
     !.dirs = {<<>>, <<"lib">>, ws, src} \cup {Append(ws, name) : name \in {"venv", "build", "tests", "pyqa_lint"}}
              \cup {<<"ws", "venv", "in">>},
     !.files = {lib, <<"ws", "a.py">>, <<"ws", "src", "b.py">>, <<"ws", "venv", "in", "g.py">>,
                <<"ws", "build", "o.py">>, <<"ws", "tests", "t.py">>, <<"ws", "pyqa_lint", "p.py">>},
     !.links = (<<"ws", "src", "l.py">> :> lib)
               @@ (<<"ws", "src", "k.py">> :> <<"ws", "tests", "t.py">>),
     !.diffs = [none |-> {}, worktree |-> {<<"ws", "a.py">>}, staged |-> {}],
     !.untracked = {<<"ws", "src", "b.py">>}]

\* At most two of eight names, from the root and from below it, with the root by
\* default or given, each with a source of other names and with something excluded.
Targets ==
  {<<"ws", "a.py">>, src, <<"ws", "src", "l.py">>, <<"ws", "venv", "in">>, <<"ws", "build", "o.py">>,
   <<"ws", "pyqa_lint", "p.py">>, <<"ws", "missing.py">>, ws}

DiscoveryRequests ==
  {[QuietRequest EXCEPT
      !.paths = paths, !.cwd = place[1], !.root = place[2], !.root_given = place[3],
      !.exclude = options[1], !.no_tests = options[2], !.dirs = options[3],
      !.file_explicit = source[1], !.from_stdin = source[2], !.stdin = source[3],
      !.diff = git[1], !.include_untracked = git[2]] :
     paths \in {{t, u} : t, u \in Targets} \cup {{}},
     place \in {<<ws, ws, FALSE>>, <<src, src, FALSE>>, <<src, ws, TRUE>>, <<ws, src, TRUE>>},
     options \in {<<{}, FALSE, {}>>, <<{<<"ws", "src", "b.py">>}, FALSE, {}>>, <<{src}, FALSE, {}>>,
                  <<{<<"ws", "src", "k.py">>}, TRUE, {}>>, <<{}, FALSE, {src}>>},
     source \in {<<{}, FALSE, {}>>, <<{<<"ws", "tests", "t.py">>}, FALSE, {}>>,
                 <<{}, TRUE, {<<"a.py">>, <<"build", "o.py">>}>>},
     git \in {<<"none", TRUE>>, <<"worktree", FALSE>>, <<"worktree", TRUE>>, <<"staged", TRUE>>}}

DiscoverySituations ==
  [catalog : {OrderCatalog(<<1>>, {})}, request : DiscoveryRequests,
   workspace : {[Tree EXCEPT !.pyqa = pyqa] : pyqa \in {{}, {ws}}}]

MCSituations == DecisionSituations \cup OrderSituations \cup DiscoverySituations
=============================================================================
