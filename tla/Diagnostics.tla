------------------------------ MODULE Diagnostics ------------------------------
(***************************************************************************)
(* From what the tools print to what a run reports: each raw diagnostic is *)
(* normalised and filtered when its tool's outcome is built                *)
(* (pyqa.diagnostics.pipeline), and when the run ends the diagnostics of   *)
(* all outcomes are taken one by one and folded into entries that stand    *)
(* for each other (dedupe_outcomes).                                       *)
(***************************************************************************)
EXTENDS Integers, Sequences, SequencesExt, FiniteSets

CONSTANTS
  Candidates,  \* what tools yield: [tool, code, message, file, line, function,
               \* severity, ready]; ready: a Diagnostic, not a RawDiagnostic
  Outcomes,    \* the number of outcomes of the run
  MaxReports,  \* bound: diagnostics that pass the filters
  Configs,     \* dedupe sections: [by, prefer, fuzz, sameFile]
  Rules,       \* severity rules, the defaults and then the custom: tool -> seq
  Signature,   \* message -> the tokens the annotation engine finds in it
  Copies,      \* message -> the places [file, line, key] a duplicate-code message lists
  Commented,   \* the places [file, line] whose source line is a comment
  CommentedSnippets,  \* the duplicate-code messages that quote a comment first
  CommentedContexts,  \* the values of function that are a comment
  Suppressed,  \* the messages the configured patterns suppress
  TestFiles, InitFiles

Severities == {"error", "warning", "notice", "note"}

ASSUME NumbersAssumption == Outcomes \in Nat \ {0} /\ MaxReports \in Nat
ASSUME CandidatesAssumption ==
  \A c \in Candidates :
    /\ DOMAIN c = {"tool", "code", "message", "file", "line", "function", "severity", "ready"}
    /\ c.ready => c.severity \in Severities
ASSUME CopiesAssumption ==
  \A c \in Candidates : Copies[c.message] \in Seq(ToSet(Copies[c.message]))
ASSUME RulesAssumption ==
  \A c \in Candidates : \A i \in DOMAIN Rules[c.tool] : Rules[c.tool][i].severity \in Severities
ASSUME ConfigsAssumption ==
  \A c \in Configs : \A i \in DOMAIN c.prefer : i \in Nat \ {0} /\ 1..i \subseteq DOMAIN c.prefer

VARIABLES
  cfg,      \* the dedupe section of this run
  phase,    \* "collect", "dedupe" or "done"
  running,  \* the outcome being built
  seen,     \* DuplicateCodeDeduper.seen_groups of its filter
  reports,  \* the diagnostics of the outcomes in order: [diagnostic, outcome]
  position, \* the next of them to be folded
  kept,     \* dedupe_outcomes.kept: [report, outcome], report an index of reports
  entryOf,  \* history: report -> the index of the entry that stands for it
  result    \* the outcomes' diagnostics at the end: outcome -> seq of reports

vars == <<cfg, phase, running, seen, reports, position, kept, entryOf, result>>

NoLine == 0
Far == 1000000
-----------------------------------------------------------------------------
(* Normalising and filtering                                               *)

Rank == [error |-> 3, warning |-> 2, notice |-> 1, note |-> 0]

\* _coerce_severity: what is not a severity is a warning.
Coerced(severity) == IF severity \in Severities THEN severity ELSE "warning"

\* The first rule of the tool whose pattern finds the code decides.
RuledSeverity(tool, code, severity) ==
  LET finds(i) == code \in Rules[tool][i].codes
      decides(i) == finds(i) /\ \A j \in 1..(i - 1) : ~finds(j)
  IN
  IF \E i \in DOMAIN Rules[tool] : decides(i)
  THEN Rules[tool][CHOOSE i \in DOMAIN Rules[tool] : decides(i)].severity
  ELSE severity

\* normalize_diagnostics: a Diagnostic passes as it is.
Normalized(raw) ==
  IF raw.ready THEN raw
  ELSE [raw EXCEPT !.severity = RuledSeverity(raw.tool, raw.code, Coerced(raw.severity))]

DuplicateCodes == {"R0801", "duplicate-code"}
SuppressedTestCodes == DuplicateCodes \union {"W0613", "W0212"}

Places(d) == Copies[d.message]
GroupKey(d) == {Places(d)[i].key : i \in DOMAIN Places(d)}

\* select_duplicate_primary: the place the diagnostic names, else the first
\* one outside the tests, else the first.
Primary(d) ==
  LET own == {i \in DOMAIN Places(d) : Places(d)[i].file = d.file}
      code == {i \in DOMAIN Places(d) : Places(d)[i].file \notin TestFiles}
  IN Places(d)[Min(IF own # {} THEN own ELSE IF code # {} THEN code ELSE DOMAIN Places(d))]

\* MUTANT: the group of a diagnostic that is kept is not remembered.
SeenForgotten(d, groups) == groups

\* seen_groups after DuplicateCodeDeduper.keep, which adds the group of a
\* diagnostic it goes on to drop as commented out, too.
SeenAfter(d, groups) ==
  IF /\ d.tool = "pylint" /\ d.code \in DuplicateCodes /\ d.message \notin Suppressed
     /\ Places(d) # <<>> /\ \A i \in DOMAIN Places(d) : Places(d)[i].file \notin InitFiles
  THEN groups \union {GroupKey(d)} ELSE groups

\* The diagnostic as keep leaves it: it is moved to the primary place.
Relocated(d) ==
  IF d.tool = "pylint" /\ d.code \in DuplicateCodes /\ Places(d) # <<>>
  THEN [d EXCEPT !.file = Primary(d).file,
                 !.line = IF Primary(d).line = NoLine THEN @ ELSE Primary(d).line]
  ELSE d

\* duplicate_context_is_commented, of the diagnostic at its primary place
CommentedOut(d) ==
  \/ d.function \in CommentedContexts \/ d.message \in CommentedSnippets
  \/ [file |-> Relocated(d).file, line |-> Relocated(d).line] \in Commented

RedundantCopy(d, groups) ==
  /\ d.tool = "pylint" /\ d.code \in DuplicateCodes
  /\ \/ Places(d) = <<>>
     \/ \E i \in DOMAIN Places(d) : Places(d)[i].file \in InitFiles
     \/ GroupKey(d) \in groups
     \/ CommentedOut(d)

TombiOrder(d) == d.tool = "tombi" /\ d.file = "pyproject.toml" /\ d.message = "out-of-order"

\* filter_diagnostics drops the diagnostic.
Filtered(d, groups) ==
  \/ d.message \in Suppressed
  \/ RedundantCopy(d, groups)
  \/ TombiOrder(d)
  \/ d.tool = "pylint" /\ d.code \in SuppressedTestCodes /\ Relocated(d).file \in TestFiles
-----------------------------------------------------------------------------
(* Which diagnostics are duplicates                                        *)

EquivalentCodes ==
  {{"override", "W0221"}, {"TC002", "reportPrivateImportUsage"},
   {"F822", "reportUnsupportedDunderAll"}, {"F821", "reportUndefinedVariable"},
   {"F821", "undefined-variable"}, {"PLR2004", "R2004"},
   {"undefined-variable", "reportUndefinedVariable"}, {"arg-type", "reportArgumentType"}}

\* _issue_tag; "" is no tag
IssueTag(d) ==
  LET sig == Signature[d.message] IN
  CASE d.code \in {"C901", "R0915", "PLR0915", "R1260"} \/ sig \cap {"complex", "complexity"} # {}
         -> "complexity"
    [] d.code \in {"PLR2004", "R2004"} \/ "magic" \in sig -> "magic-number"
    [] d.code \in {"ANN001", "ANN201"} \/ sig \cap {"annotation", "typed"} # {} -> "typing"
    [] d.code \in {"D100", "D103"} \/ "docstring" \in sig -> "docstring"
    [] {"private", "import"} \subseteq sig -> "encapsulation"
    [] OTHER -> ""

WithinSameScope(a, b) ==
  (cfg.sameFile => a.file = b.file) /\ a.function = b.function

LineDistance(a, b) ==
  IF a.line = NoLine \/ b.line = NoLine
  THEN IF a.line = b.line THEN 0 ELSE Far
  ELSE IF a.line >= b.line THEN a.line - b.line ELSE b.line - a.line

\* The lines matter only to what is about types.
SemanticOverlap(a, b) ==
  LET sigA == Signature[a.message]
      sigB == Signature[b.message]
      alike == (a.code # "" /\ a.code = b.code) \/ sigA = sigB
  IN
  /\ a.file = b.file
  /\ a.function = "" \/ b.function = "" \/ a.function = b.function
  /\ IssueTag(a) # "" /\ IssueTag(a) = IssueTag(b)
  /\ IssueTag(a) = "typing" => a.line = b.line /\ sigA \cap sigB # {}
  /\ IssueTag(a) = "complexity" =>
       alike \/ sigA \cap sigB \cap {"complex", "complexity", "statement", "branch"} # {}
  /\ IssueTag(a) \notin {"typing", "complexity"} => alike

IsDuplicate(a, b) ==
  /\ WithinSameScope(a, b)
  /\ IF a.code = b.code
     THEN /\ a.message = b.message \/ SemanticOverlap(a, b)
          /\ LineDistance(a, b) <= cfg.fuzz
     ELSE \/ a.line = b.line /\ {a.code, b.code} \in EquivalentCodes
          \/ SemanticOverlap(a, b)
-----------------------------------------------------------------------------
(* Which of two duplicates is preferred                                    *)

\* _CODE_PREFERENCE: of this pair the one of pyright is preferred.
PreferredPair == {"arg-type", "reportArgumentType"}
ByCode(a, b) == {a.code, b.code} = PreferredPair /\ "pyright" \in {a.tool, b.tool}

\* The tool of a comes before that of b in the list of preferred tools.
Before(a, b) ==
  \E i \in DOMAIN cfg.prefer :
    cfg.prefer[i] = a.tool /\ \A j \in 1..i : cfg.prefer[j] # b.tool

\* MUTANT: with no preference the newcomer wins when it is less severe.
LessSevere(a, b) == Rank[b.severity] < Rank[a.severity]

MoreSevere(a, b) == Rank[b.severity] > Rank[a.severity]

\* _prefer: the newcomer b replaces the entry's diagnostic a.
Replaces(a, b) ==
  IF ByCode(a, b) THEN a.tool # "pyright"
  ELSE \/ cfg.by = "severity" /\ MoreSevere(a, b)
       \/ cfg.by = "prefer" /\ (Before(b, a) \/ (~Before(a, b) /\ MoreSevere(a, b)))
-----------------------------------------------------------------------------
(* The run                                                                 *)

Init ==
  /\ cfg \in Configs
  /\ phase = "collect" /\ running = 1 /\ seen = {}
  /\ reports = <<>>
  /\ position = 1 /\ kept = <<>> /\ entryOf = <<>>
  /\ result = [o \in 1..Outcomes |-> <<>>]

\* One raw diagnostic of the tool that runs, through the pipeline
Report(raw) ==
  LET d == Normalized(raw) IN
  /\ phase = "collect"
  /\ Len(reports) < MaxReports
  /\ seen' = SeenAfter(d, seen)
  /\ reports' = IF Filtered(d, seen) THEN reports
                ELSE Append(reports, [diagnostic |-> Relocated(d), outcome |-> running])
  /\ UNCHANGED <<cfg, phase, running, position, kept, entryOf, result>>

NextTool ==
  /\ phase = "collect" /\ running < Outcomes
  /\ running' = running + 1 /\ seen' = {}
  /\ UNCHANGED <<cfg, phase, reports, position, kept, entryOf, result>>

StartDedupe ==
  /\ phase = "collect" /\ running = Outcomes
  /\ phase' = "dedupe"
  /\ UNCHANGED <<cfg, running, seen, reports, position, kept, entryOf, result>>

Diagnostic(entry) == reports[entry.report].diagnostic

\* MUTANT: a diagnostic is compared with the entries of its own outcome only.
OwnMatches(d, o) == {i \in DOMAIN kept : kept[i].outcome = o /\ IsDuplicate(Diagnostic(kept[i]), d)}

Matches(d, o) == {i \in DOMAIN kept : IsDuplicate(Diagnostic(kept[i]), d)}

\* MUTANT: the entry stays with the outcome of the diagnostic it held.
ReplacedInPlace(entry, report) == [entry EXCEPT !.report = report]

Replaced(entry, report) == [report |-> report, outcome |-> reports[report].outcome]

\* The first entry the diagnostic duplicates takes it in ...
FoldDuplicate ==
  LET d == reports[position].diagnostic
      matches == Matches(d, reports[position].outcome)
  IN
  /\ phase = "dedupe" /\ position <= Len(reports)
  /\ \E first \in matches :
       /\ \A j \in matches : first <= j
       /\ kept' = IF Replaces(Diagnostic(kept[first]), d)
                  THEN [kept EXCEPT ![first] = Replaced(@, position)] ELSE kept
       /\ entryOf' = Append(entryOf, first)
  /\ position' = position + 1
  /\ UNCHANGED <<cfg, phase, running, seen, reports, result>>

\* ... and without one it becomes an entry.
FoldNew ==
  LET o == reports[position].outcome IN
  /\ phase = "dedupe" /\ position <= Len(reports)
  /\ Matches(reports[position].diagnostic, o) = {}
  /\ kept' = Append(kept, [report |-> position, outcome |-> o])
  /\ entryOf' = Append(entryOf, Len(kept'))
  /\ position' = position + 1
  /\ UNCHANGED <<cfg, phase, running, seen, reports, result>>

\* The outcomes are emptied and filled from the entries, in their order.
Listed(o) ==
  LET list[e \in 0..Len(kept)] ==
        IF e = 0 THEN <<>>
        ELSE IF kept[e].outcome = o THEN Append(list[e - 1], kept[e].report) ELSE list[e - 1]
  IN list[Len(kept)]

Finish ==
  /\ phase = "dedupe" /\ position > Len(reports)
  /\ phase' = "done"
  /\ result' = [o \in 1..Outcomes |-> Listed(o)]
  /\ UNCHANGED <<cfg, running, seen, reports, position, kept, entryOf>>

Done == phase = "done" /\ UNCHANGED vars

Next ==
  \/ \E raw \in Candidates : Report(raw)
  \/ NextTool \/ StartDedupe \/ FoldDuplicate \/ FoldNew \/ Finish \/ Done

Spec == Init /\ [][Next]_vars
-----------------------------------------------------------------------------
(* Properties                                                              *)

\* No report holds half of the pair for which the code overrides the strategy.
NoPreferredPair ==
  \A c \in PreferredPair : \A r \in DOMAIN reports : reports[r].diagnostic.code # c

AtLeastAsGood(a, b) ==
  /\ cfg.by = "severity" => Rank[a.severity] >= Rank[b.severity]
  /\ cfg.by = "prefer" =>
       ~Before(b, a) /\ (~Before(a, b) => Rank[a.severity] >= Rank[b.severity])

\* Whatever chain of replacements it went through, a diagnostic that was folded
\* away is stood for by one the strategy ranks at least as high: no error
\* disappears behind a warning.
NothingBetterIsLost ==
  NoPreferredPair => \A r \in DOMAIN entryOf :
    AtLeastAsGood(Diagnostic(kept[entryOf[r]]), reports[r].diagnostic)

\* In the end each surviving diagnostic is listed once, by the outcome whose tool
\* reported it, and each entry survives.
ListedWhereReported ==
  phase = "done" =>
    /\ \A o \in 1..Outcomes : \A i \in DOMAIN result[o] :
         /\ reports[result[o][i]].outcome = o
         /\ \A j \in DOMAIN result[o] : result[o][i] = result[o][j] => i = j
    /\ \A e \in DOMAIN kept : \E o \in 1..Outcomes : Contains(result[o], kept[e].report)

\* Where nothing is replaced (the strategy "first"), no two of the survivors are
\* duplicates, so that running it again would change nothing.
FirstSettles ==
  cfg.by = "first" /\ NoPreferredPair =>
    \A i, j \in DOMAIN kept : i < j => ~IsDuplicate(Diagnostic(kept[i]), Diagnostic(kept[j]))

Copy(d) == d.tool = "pylint" /\ d.code \in DuplicateCodes

\* The pieces of code of which a message is commented out or placed in a test.
Spoilt ==
  {GroupKey(raw) : raw \in {c \in Candidates :
     Copy(c) /\ (CommentedOut(c) \/ Relocated(c).file \in TestFiles)}}

\* The pieces of code outcome o reports.
ReportedGroups(o) ==
  {GroupKey(reports[r].diagnostic) : r \in {s \in DOMAIN reports :
     reports[s].outcome = o /\ Copy(reports[s].diagnostic)}}

\* A piece of code is reported at most once by an outcome, however many of its
\* copies pylint names, at a place outside the tests that the message lists.  And
\* a piece of code whose messages are being dropped as repetitions has been
\* reported, unless one of its messages is commented out or placed in a test: it
\* counts as seen before it is dropped for that, so that no other copy is
\* reported in its stead.
CopiesReportedOnce ==
  /\ \A r \in DOMAIN reports :
       LET d == reports[r].diagnostic IN
       Copy(d) =>
         /\ d.file \notin TestFiles
         /\ \E i \in DOMAIN Places(d) : Places(d)[i].file = d.file
         /\ \A s \in DOMAIN reports :
              /\ reports[s].outcome = reports[r].outcome
              /\ Copy(reports[s].diagnostic) /\ GroupKey(reports[s].diagnostic) = GroupKey(d)
              => s = r
  /\ seen \subseteq ReportedGroups(running) \cup Spoilt
=============================================================================
