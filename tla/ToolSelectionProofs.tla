------------------------- MODULE ToolSelectionProofs -------------------------
(***************************************************************************)
(* What the lint command guarantees about the selected tools, the order    *)
(* they run in and the files they get, for every catalog, request and      *)
(* workspace.                                                              *)
(***************************************************************************)
EXTENDS ToolSelection, ListTheorems

\* Only linters that apply are activated, and both stages that follow keep the
\* request's --only and the activated linters together.
OnlyAsked ==
  LET asked == request.only \cup Activated IN
  /\ stage = "parsed" => only = request.only
  /\ stage = "activated" => only = asked
  /\ stage \in {"configured", "discovered", "selected"} =>
       only = IF asked # {} THEN asked ELSE request.file_only

\* Once the configuration is built, its flags are those the request implies.
ConfigurationBuilt ==
  stage \in {"configured", "discovered", "selected"} =>
    /\ pyqa_rules = (request.file_rules \/ request.pyqa_rules \/ request.normal)
    /\ enabled = DefaultEnabled

\* A selection names no unknown tool and runs the candidates its inputs give.
SelectionDecided ==
  stage = "selected" => UnknownRequested = {} /\ candidates = RunCandidates

\* The files are searched under the configuration the situation gives.
FilesFound ==
  /\ stage \in {"configured", "discovered", "refused", "selected"} =>
       discovery = DiscoveryConfig(request, workspace, root)
  /\ stage \in {"discovered", "refused", "selected"} =>
       files = DiscoveredFiles(request, workspace, discovery, root)

SelectionInv ==
  /\ situation \in Situations
  /\ OnlyAsked /\ ConfigurationBuilt /\ SelectionDecided /\ FilesFound

\* The command starts with the invariant.
LEMMA SelectionInit == Init => SelectionInv
BY DEF Init, SelectionInv, OnlyAsked, ConfigurationBuilt, SelectionDecided, FilesFound,
       request

\* What an unchanged situation leaves unchanged.
LEMMA SituationFixes ==
  ASSUME UNCHANGED situation
  PROVE  /\ catalog' = catalog /\ request' = request
         /\ workspace' = workspace /\ root' = root
         /\ Activated' = Activated /\ DefaultEnabled' = DefaultEnabled
<1>1. catalog' = catalog /\ request' = request /\ workspace' = workspace
  BY DEF catalog, request, workspace
<1>2. root' = root
  BY <1>1 DEF root
<1> QED
  BY <1>1, <1>2 DEF Activated, DefaultEnabled, InPyqaWorkspace

\* Each stage of the command preserves the invariant.
LEMMA SelectionStep == SelectionInv /\ [Next]_vars => SelectionInv'
<1> SUFFICES ASSUME SelectionInv, [Next]_vars
             PROVE  SelectionInv'
  OBVIOUS
<1> USE DEF SelectionInv
<1>0. UNCHANGED situation
  BY DEF Next, vars, ActivateInternalLinters, BuildRuntimeContext, DiscoverFiles,
         RefuseUnknownTool, PlanSelection
<1>1. /\ catalog' = catalog /\ request' = request
      /\ workspace' = workspace /\ root' = root
      /\ Activated' = Activated /\ DefaultEnabled' = DefaultEnabled
  BY <1>0, SituationFixes
<1>2. CASE ActivateInternalLinters
  BY <1>0, <1>1, <1>2
  DEF ActivateInternalLinters, OnlyAsked, ConfigurationBuilt, SelectionDecided, FilesFound
<1>3. CASE BuildRuntimeContext
  <2>1. discovery' = DiscoveryConfig(request, workspace, root)' /\ stage' = "configured"
    BY <1>1, <1>3 DEF BuildRuntimeContext
  <2>2. FilesFound'
    BY <2>1 DEF FilesFound
  <2> QED
    BY <1>0, <1>1, <1>3, <2>2
    DEF BuildRuntimeContext, OnlyAsked, ConfigurationBuilt, SelectionDecided
<1>4. CASE DiscoverFiles
  <2>1. FilesFound'
    BY <1>1, <1>4 DEF DiscoverFiles, FilesFound
  <2> QED
    BY <1>0, <1>1, <1>4, <2>1
    DEF DiscoverFiles, OnlyAsked, ConfigurationBuilt, SelectionDecided
<1>5. CASE RefuseUnknownTool
  BY <1>0, <1>1, <1>5
  DEF RefuseUnknownTool, OnlyAsked, ConfigurationBuilt, SelectionDecided, FilesFound
<1>6. CASE PlanSelection
  <2>1. OnlyAsked'
    BY <1>1, <1>6 DEF PlanSelection, OnlyAsked
  <2>2. ConfigurationBuilt'
    BY <1>1, <1>6 DEF PlanSelection, ConfigurationBuilt
  <2>3. UnknownRequested' = UnknownRequested /\ RunCandidates' = RunCandidates
    BY <1>1, <1>6
    DEF PlanSelection, UnknownRequested, RunCandidates, Runs, ExternalRuns, InternalRuns,
        InternalPyqaRuns, LanguageScope, InPyqaWorkspace
  <2>4. SelectionDecided'
    BY <1>6, <2>3 DEF PlanSelection, SelectionDecided
  <2> QED
    BY <1>0, <1>1, <1>6, <2>1, <2>2, <2>4 DEF PlanSelection, FilesFound
<1>7. CASE UNCHANGED vars
  <2>1. UnknownRequested' = UnknownRequested /\ RunCandidates' = RunCandidates
    BY <1>1, <1>7
    DEF vars, UnknownRequested, RunCandidates, Runs, ExternalRuns, InternalRuns,
        InternalPyqaRuns, LanguageScope, InPyqaWorkspace
  <2> QED
    BY <1>0, <1>1, <1>7, <2>1
    DEF vars, OnlyAsked, ConfigurationBuilt, SelectionDecided, FilesFound
<1> QED
  BY <1>2, <1>3, <1>4, <1>5, <1>6, <1>7 DEF Next

LEMMA SelectionInvHolds == Spec => []SelectionInv
BY SelectionInit, SelectionStep, PTL DEF Spec

-----------------------------------------------------------------------------
\* --only without check flags is absolute, for every catalog and request.
THEOREM OnlyGoverns == Spec => []OnlyIsAbsolute
<1>1. SelectionInv => OnlyIsAbsolute
  BY DEF SelectionInv, OnlyAsked, SelectionDecided, OnlyIsAbsolute, RunCandidates,
         UnknownRequested, Activated
<1> QED
  BY <1>1, SelectionInvHolds, PTL

\* Nothing but the workspace, a pyqa flag or its own name or flag selects a pyqa
\* linter.
THEOREM PyqaScope == Spec => []PyqaLintersStayInScope
<1>1. SelectionInv => PyqaLintersStayInScope
  <2> SUFFICES ASSUME SelectionInv, stage = "selected",
                      NEW t \in candidates, catalog.family[t] = "internal-pyqa"
               PROVE  \/ InPyqaWorkspace \/ request.pyqa_rules
                      \/ request.file_rules \/ request.normal
                      \/ t \in request.only \cup request.file_only \cup request.checks
    BY DEF PyqaLintersStayInScope
  <2>1. t \in RunCandidates
    BY DEF SelectionInv, SelectionDecided
  <2>2. CASE only # {}
    BY <2>1, <2>2 DEF SelectionInv, OnlyAsked, RunCandidates, Activated
  <2>3. CASE only = {}
    BY <2>1, <2>3
    DEF SelectionInv, ConfigurationBuilt, RunCandidates, Runs, InternalPyqaRuns
  <2> QED
    BY <2>2, <2>3
<1> QED
  BY <1>1, SelectionInvHolds, PTL

\* A check flag is honoured by every selection that --only does not prune.
THEOREM ChecksCount == Spec => []ChecksAreHonoured
<1>1. SelectionInv => ChecksAreHonoured
  <2> SUFFICES ASSUME SelectionInv, stage = "selected",
                      request.only = {}, request.file_only = {},
                      NEW t \in request.checks,
                      \/ catalog.family[t] = "internal"
                      \/ InPyqaWorkspace \/ request.pyqa_rules \/ request.normal
               PROVE  t \in candidates
    BY DEF ChecksAreHonoured
  <2>1. t \in catalog.tools /\ catalog.family[t] \in {"internal", "internal-pyqa"}
    BY SituationsAssumption DEF SelectionInv, CatalogShape, catalog, request
  <2>2. CASE request.normal
    <3>1. only = {}
      BY <2>2 DEF SelectionInv, OnlyAsked, Activated
    <3>2. t \in enabled /\ pyqa_rules
      BY <2>1, <2>2 DEF SelectionInv, ConfigurationBuilt, DefaultEnabled
    <3>3. Runs(t)
      BY <2>1, <3>2 DEF Runs, InternalRuns, InternalPyqaRuns
    <3> QED BY <2>1, <3>1, <3>3 DEF SelectionInv, SelectionDecided, RunCandidates
  <2>3. CASE ~request.normal
    <3>1. t \in Activated
      BY <2>1, <2>3 DEF Activated
    <3>2. t \in only
      BY <3>1 DEF SelectionInv, OnlyAsked
    <3> QED BY <2>1, <3>2 DEF SelectionInv, SelectionDecided, RunCandidates
  <2> QED BY <2>2, <2>3
<1> QED
  BY <1>1, SelectionInvHolds, PTL

\* --normal turns on every internal linter.
THEOREM NormalPreset == Spec => []NormalRunsInternalLinters
<1>1. SelectionInv => NormalRunsInternalLinters
  <2> SUFFICES ASSUME SelectionInv, stage = "selected", request.normal,
                      request.only = {}, request.file_only = {},
                      NEW t \in catalog.tools, catalog.family[t] # "external"
               PROVE  t \in candidates
    BY DEF NormalRunsInternalLinters
  <2>1. only = {}
    BY DEF SelectionInv, OnlyAsked, Activated
  <2>2. t \in enabled /\ pyqa_rules
    BY DEF SelectionInv, ConfigurationBuilt, DefaultEnabled
  <2>3. catalog.family[t] \in {"internal", "internal-pyqa"}
    BY SituationsAssumption DEF SelectionInv, CatalogShape, catalog
  <2>4. Runs(t)
    BY <2>2, <2>3 DEF Runs, InternalRuns, InternalPyqaRuns
  <2> QED
    BY <2>1, <2>4 DEF SelectionInv, SelectionDecided, RunCandidates
<1> QED
  BY <1>1, SelectionInvHolds, PTL

-----------------------------------------------------------------------------
\* Two paths have a longest common prefix.
LEMMA LongestPrefix ==
  ASSUME NEW S, NEW path \in Seq(S), NEW base \in Seq(S),
         NEW longest, longest = LongestCommonPrefix({path, base})
  PROVE  /\ longest \in Seq(S)
         /\ IsPrefix(longest, path) /\ IsPrefix(longest, base)
<1> DEFINE common == CommonPrefixes({path, base})
           less == OpToRel(<, Nat)
           spared == {Len(base) - Len(prefix) : prefix \in common}
<1>1. \A prefix \in common :
        /\ prefix \in Seq(S) /\ Len(prefix) \in Nat
        /\ IsPrefix(prefix, path) /\ IsPrefix(prefix, base)
  <2> SUFFICES ASSUME NEW prefix \in common
               PROVE  /\ prefix \in Seq(S) /\ Len(prefix) \in Nat
                      /\ IsPrefix(prefix, path) /\ IsPrefix(prefix, base)
    OBVIOUS
  <2>1. PICK seq \in {path, base} : prefix \in Prefixes(seq)
    BY DEF CommonPrefixes
  <2>2. seq \in Seq(S)
    OBVIOUS
  <2>3. prefix \in Seq(S)
    BY <2>1, <2>2 DEF Prefixes
  <2> QED
    BY <2>3 DEF CommonPrefixes
<1>2. \A prefix \in common : Len(prefix) <= Len(base)
  BY <1>1 DEF IsPrefix
<1>3. <<>> \in common
  <2>1. <<>> = SubSeq(path, 1, 0) /\ 0 \in 0..Len(path)
    OBVIOUS
  <2>2. <<>> \in Prefixes(path)
    BY <2>1 DEF Prefixes
  <2>3. \A seq \in {path, base} : IsPrefix(<<>>, seq)
    BY DEF IsPrefix
  <2> HIDE DEF common
  <2> QED
    BY <2>2, <2>3 DEF CommonPrefixes, common
<1>4. spared \subseteq Nat /\ spared # {}
  <2> HIDE DEF common
  <2> QED
    BY <1>1, <1>2, <1>3
<1>5. PICK least \in spared : \A n \in spared : ~(<<n, least>> \in less)
  <2> HIDE DEF spared
  <2> QED
    BY <1>4, NatLessThanWellFounded, WFMin
<1>6. \A n \in spared : least <= n
  <2>1. less = {pair \in Nat \X Nat : pair[1] < pair[2]}
    BY DEF OpToRel
  <2>2. \A m, n \in Nat : m < n => <<m, n>> \in less
    BY <2>1
  <2> HIDE DEF spared, less
  <2> SUFFICES ASSUME NEW n \in spared PROVE least <= n
    OBVIOUS
  <2>3. n \in Nat /\ least \in Nat /\ <<n, least>> \notin less
    BY <1>4, <1>5
  <2>4. ~(n < least)
    BY <2>2, <2>3
  <2> QED
    BY <2>3, <2>4
<1>7. \E prefix \in common : \A other \in common : Len(other) <= Len(prefix)
  <2> HIDE DEF common
  <2>1. PICK prefix \in common : least = Len(base) - Len(prefix)
    OBVIOUS
  <2>2. \A other \in common : least <= Len(base) - Len(other)
    BY <1>6
  <2> QED
    BY <1>1, <2>1, <2>2
<1>8. longest \in common
  BY <1>7 DEF LongestCommonPrefix
<1> QED
  BY <1>1, <1>8

\* A name that is read back relative to the directory it was relative to is the path.
LEMMA ReadBack ==
  ASSUME NEW S, NEW path \in Seq(S), NEW base \in Seq(S)
  PROVE  JoinedTo(RelativeTo(path, base), base) = path
<1> DEFINE longest == LongestCommonPrefix({path, base})
           shared == Len(longest)
<1>1. /\ longest \in Seq(S) /\ IsPrefix(longest, path) /\ IsPrefix(longest, base)
  BY LongestPrefix
<1> HIDE DEF longest
<1>2. shared \in Nat /\ shared <= Len(path) /\ shared <= Len(base)
  BY <1>1 DEF IsPrefix
<1>3. SubSeq(base, 1, shared) = SubSeq(path, 1, shared)
  BY <1>1 DEF IsPrefix
<1>4. JoinedTo(RelativeTo(path, base), base)
        = SubSeq(base, 1, Len(base) - (Len(base) - shared)) \o SubSeq(path, shared + 1, Len(path))
  BY DEF JoinedTo, RelativeTo, longest
<1>5. Len(base) - (Len(base) - shared) = shared
  BY <1>2
<1>6. SubSeq(path, 1, shared) \o SubSeq(path, shared + 1, Len(path)) = path
  <2> HIDE DEF shared
  <2>1. /\ 1 \in 1..(Len(path) + 1) /\ shared \in (1 - 1)..Len(path)
        /\ Len(path) \in shared..Len(path)
    BY <1>2
  <2>2. SubSeq(path, 1, shared) \o SubSeq(path, shared + 1, Len(path)) = SubSeq(path, 1, Len(path))
    BY <2>1, ConcatAdjacentSubSeq
  <2> QED
    BY <2>2, SubSeqFull
<1> QED
  BY <1>3, <1>4, <1>5, <1>6

-----------------------------------------------------------------------------
\* Run in its own root, the command reads every path as it was typed.
LEMMA PathsAreRead ==
  ASSUME SelectionInv, root = request.cwd, NEW path \in Seq(STRING)
  PROVE  /\ Resolve(workspace, path) \in Seq(STRING)
         /\ Reread(request, workspace, path, root) = Resolve(workspace, path)
<1> DEFINE target == Resolve(workspace, path)
<1>1. RequestShape(request) /\ WorkspaceShape(workspace)
  BY SituationsAssumption DEF SelectionInv, request, workspace
<1>2. target \in Seq(STRING) /\ request.cwd \in Seq(STRING)
  BY <1>1 DEF RequestShape, WorkspaceShape, Resolve
<1>3. Resolve(workspace, target) = target
  BY <1>1 DEF WorkspaceShape, Resolve
<1> HIDE DEF target
<1>4. JoinedTo(RelativeTo(target, request.cwd), root) = target
  BY <1>2, ReadBack
<1>5. Reread(request, workspace, path, root) = target
  BY <1>3, <1>4 DEF Reread, target
<1> QED
  BY <1>2, <1>5 DEF target

\* In particular the names.
LEMMA NamesAreRead ==
  ASSUME SelectionInv, root = request.cwd
  PROVE  Names(request, workspace, root) = Named /\ Named \subseteq Seq(STRING)
<1>1. request.paths \subseteq Seq(STRING)
  BY SituationsAssumption DEF SelectionInv, request, RequestShape
<1>2. \A path \in request.paths :
        /\ Resolve(workspace, path) \in Seq(STRING)
        /\ Reread(request, workspace, path, root) = Resolve(workspace, path)
  BY <1>1, PathsAreRead
<1> QED
  BY <1>2 DEF Names, Named, InPyqaWorkspace

\* Whatever the workspace, the roots, git, stdin and the configuration files, a run
\* that names something looks at nothing else.
THEOREM ScopeIsKept == Spec => []StaysInScope
<1>1. SelectionInv => StaysInScope
  <2> SUFFICES ASSUME SelectionInv, Found, Named # {}, NEW file \in files
               PROVE  \E name \in Named :
                        \/ IsPrefix(name, file)
                        \/ name \notin workspace.dirs /\ IsPrefix(Parent(name), file)
    BY DEF StaysInScope
  <2>1. Names(request, workspace, root) = Named
    BY NamesAreRead DEF Found
  <2>2. /\ discovery = DiscoveryConfig(request, workspace, root)
        /\ files = DiscoveredFiles(request, workspace, discovery, root)
    BY DEF SelectionInv, FilesFound, Found
  <2>3. discovery.limits = Limits(workspace, Named)
    BY <2>1, <2>2 DEF DiscoveryConfig
  <2>4. WithinLimits(file, discovery.limits)
    BY <2>2 DEF DiscoveredFiles
  <2>5. PICK limit \in Limits(workspace, Named) : IsPrefix(limit, file)
    BY <2>3, <2>4 DEF WithinLimits, Under, Limits
  <2> QED
    BY <2>5 DEF Limits
<1> QED
  BY <1>1, SelectionInvHolds, PTL

\* The directory of a path is a prefix of it.
LEMMA ParentIsAbove ==
  ASSUME NEW path \in Seq(STRING)
  PROVE  IsPrefix(Parent(path), path)
<1>1. CASE path = <<>>
  BY <1>1 DEF Parent, IsPrefix
<1>2. CASE path # <<>>
  <2>1. Len(path) \in Nat /\ Len(path) >= 1
    BY <1>2
  <2>2. Parent(path) = SubSeq(path, 1, Len(path) - 1)
    BY <1>2 DEF Parent, Front
  <2>3. Len(Parent(path)) = Len(path) - 1 /\ Parent(path) \in Seq(STRING)
    <3> DEFINE last == Len(path) - 1
    <3>1. last \in Nat /\ \A i \in 1..last : path[i] \in STRING
      BY <2>1
    <3> HIDE DEF last
    <3>2. /\ SubSeq(path, 1, last) \in Seq(STRING)
          /\ Len(SubSeq(path, 1, last)) = IF 1 <= last THEN last - 1 + 1 ELSE 0
      BY <3>1, SubSeqProperties
    <3>3. Len(SubSeq(path, 1, last)) = last
      BY <3>1, <3>2
    <3> QED
      BY <2>2, <3>2, <3>3 DEF last
  <2>4. SubSeq(Parent(path), 1, Len(Parent(path))) = Parent(path)
    BY <2>3, SubSeqFull
  <2> QED
    BY <2>1, <2>2, <2>3, <2>4 DEF IsPrefix
<1> QED
  BY <1>1, <1>2

\* No exclude, directory left alone, root, stdin or configuration file hides a
\* file the user names.
THEOREM NamedFilesCount == Spec => []NamedFilesAreLinted
<1>1. SelectionInv => NamedFilesAreLinted
  <2> SUFFICES ASSUME SelectionInv, Found, request.diff = "none",
                      NEW name \in Named, name \in workspace.files
               PROVE  name \in files
    BY DEF NamedFilesAreLinted
  <2>1. Names(request, workspace, root) = Named /\ name \in Seq(STRING)
    BY NamesAreRead DEF Found
  <2>2. /\ discovery = DiscoveryConfig(request, workspace, root)
        /\ files = DiscoveredFiles(request, workspace, discovery, root)
    BY DEF SelectionInv, FilesFound, Found
  <2>3. name \notin workspace.dirs /\ Exists(workspace, name)
    BY SituationsAssumption
    DEF SelectionInv, WorkspaceShape, workspace, Exists, Listed
  <2>4. Parent(name) \in Limits(workspace, Named)
    BY <2>3 DEF Limits
  <2>5. WithinLimits(name, Limits(workspace, Named))
    BY <2>1, <2>4, ParentIsAbove DEF WithinLimits, Under
  <2>6. discovery.limits = Limits(workspace, Named) /\ name \in discovery.explicit
    BY <2>1, <2>2, <2>3, <2>5 DEF DiscoveryConfig, ExplicitFiles
  <2>7. FilesystemFiles(request, workspace, discovery, root) = discovery.explicit
    BY <2>6 DEF FilesystemFiles
  <2> QED
    BY <2>2, <2>5, <2>6, <2>7 DEF DiscoveredFiles
<1> QED
  BY <1>1, SelectionInvHolds, PTL

\* A file that only the walk finds has a name that no exclude covers.
THEOREM ExcludesCount == Spec => []ExcludedStayOut
<1> DEFINE Resolved(paths) == {Resolve(workspace, path) : path \in paths}
           asked == Named \cup Resolved(request.dirs)
                    \cup request.file_explicit \cup request.file_roots
           given == Resolved(request.exclude) \cup request.file_excludes
<1>1. ASSUME SelectionInv, Found, request.diff = "none", ~request.from_stdin,
             NEW file \in files, file \notin asked
      PROVE  \E path \in Listed(workspace) :
               /\ Resolve(workspace, path) = file
               /\ ~Under(path, given)
               /\ request.no_tests => ~IsPrefix(Append(root, "tests"), path)
  <2>1. /\ discovery = DiscoveryConfig(request, workspace, root)
        /\ files = DiscoveredFiles(request, workspace, discovery, root)
    BY <1>1 DEF SelectionInv, FilesFound, Found
  <2>2. Names(request, workspace, root) = Named
    BY <1>1, NamesAreRead DEF Found
  <2>3. /\ request.dirs \subseteq Seq(STRING) /\ request.exclude \subseteq Seq(STRING)
        /\ root \in workspace.dirs
        /\ workspace.dirs \cap workspace.files = {}
    BY <1>1, SituationsAssumption
    DEF SelectionInv, RequestShape, WorkspaceShape, request, workspace, Found
  <2>4. \A path \in request.dirs \cup request.exclude :
          Reread(request, workspace, path, root) = Resolve(workspace, path)
    BY <1>1, <2>3, PathsAreRead DEF Found
  <2>5. file \in FilesystemFiles(request, workspace, discovery, root)
    BY <1>1, <2>1 DEF DiscoveredFiles
  <2>6. discovery.explicit \subseteq asked
    BY <2>1, <2>2 DEF DiscoveryConfig, ExplicitFiles
  <2>7. discovery.roots \cap workspace.files \subseteq asked
    BY <2>1, <2>2, <2>3, <2>4 DEF DiscoveryConfig, BoundedRoots, Roots
  <2>8. PICK base \in discovery.roots : file \in Walk(workspace, discovery, root, base)
    BY <1>1, <2>5, <2>6, <2>7 DEF FilesystemFiles
  <2>9. PICK path \in Listed(workspace) :
          Resolve(workspace, path) = file /\ ~Under(path, discovery.excludes)
    BY <2>8 DEF Walk
  <2>10. discovery.excludes = Excludes(request, workspace, root)
    BY <2>1 DEF DiscoveryConfig
  <2>11. given \subseteq discovery.excludes
    BY <2>4, <2>10 DEF Excludes
  <2>12. request.no_tests => Append(root, "tests") \in discovery.excludes
    BY <2>10 DEF Excludes
  <2> QED
    BY <2>9, <2>11, <2>12 DEF Under
<1>2. SelectionInv => ExcludedStayOut
  BY <1>1 DEF ExcludedStayOut
<1> QED
  BY <1>2, SelectionInvHolds, PTL

-----------------------------------------------------------------------------
\* What lies above a directory lies above every file below it.
LEMMA AboveTheDirectory ==
  ASSUME NEW file \in Seq(STRING), NEW n \in 0..Len(file), NEW place, Len(place) \in Nat,
         IsPrefix(place, SubSeq(file, 1, n))
  PROVE  IsPrefix(place, file)
<1> DEFINE directory == SubSeq(file, 1, n)
           k == Len(place)
<1>1. Len(directory) = n
  BY SubSeqProperties
<1>2. k \in Nat /\ k <= n /\ k <= Len(file)
  BY <1>1 DEF IsPrefix
<1>3. SubSeq(directory, 1, k) = SubSeq(file, 1, k)
  <2>1. CASE k = 0
    BY <2>1, SubSeqEmpty
  <2>2. CASE k # 0
    <3>1. /\ 1 \in 1..Len(file) /\ n \in 1..Len(file)
          /\ 1 \in 1..(n - 1 + 1) /\ k \in 1..(n - 1 + 1)
      BY <1>2, <2>2
    <3>2. SubSeq(SubSeq(file, 1, n), 1, k) = SubSeq(file, 1 + 1 - 1, 1 + k - 1)
      <4> HIDE DEF k
      <4> QED
        BY <3>1, SubSeqOfSubSeq
    <3>3. 1 + 1 - 1 = 1 /\ 1 + k - 1 = k
      BY <1>2
    <3> QED
      BY <3>2, <3>3
  <2> QED
    BY <2>1, <2>2
<1> QED
  BY <1>2, <1>3 DEF IsPrefix

\* Every exclude has a length, as paths have.
LEMMA ExcludesAreFinite ==
  ASSUME SelectionInv, root = request.cwd
  PROVE  \A place \in Excludes(request, workspace, root) : Len(place) \in Nat
<1>1. /\ RequestShape(request) /\ WorkspaceShape(workspace) /\ root \in Seq(STRING)
  BY SituationsAssumption DEF SelectionInv, RequestShape, request, workspace
<1>2. \A path \in request.exclude : Reread(request, workspace, path, root) \in Seq(STRING)
  BY <1>1, PathsAreRead DEF RequestShape
<1>3. \A path \in DEFAULT_EXCLUDES : Len(path) \in Nat
  BY DEF DEFAULT_EXCLUDES
<1>4. \A path \in DEFAULT_EXCLUDES : Len(root \o path) \in Nat
  BY <1>1, <1>3
<1>5. \A path \in DEFAULT_EXCLUDES : Len(Resolve(workspace, root \o path)) \in Nat
  BY <1>1, <1>4 DEF WorkspaceShape, Resolve
<1>6. Len(Append(root, "tests")) \in Nat
  BY <1>1
<1> QED
  BY <1>1, <1>2, <1>5, <1>6 DEF Excludes, RequestShape

\* The walk from a named directory reaches every file that nothing between them
\* or an exclude keeps away.
THEOREM DirectoriesCount == Spec => []NamedDirectoriesAreCovered
<1>1. ASSUME SelectionInv, Found, request.diff = "none", ~request.from_stdin,
             discovery.explicit = {},
             NEW name \in Named, name \in workspace.dirs, NEW file \in workspace.files,
             IsPrefix(name, file), ~Under(file, discovery.excludes),
             \A n \in Len(name)..(Len(file) - 1) :
               Name(SubSeq(file, 1, n)) \notin ALWAYS_EXCLUDE_DIRS
      PROVE  file \in files
  <2>1. /\ discovery = DiscoveryConfig(request, workspace, root)
        /\ files = DiscoveredFiles(request, workspace, discovery, root)
    BY <1>1 DEF SelectionInv, FilesFound, Found
  <2>2. Names(request, workspace, root) = Named /\ name \in Seq(STRING)
    BY <1>1, NamesAreRead DEF Found
  <2>3. /\ file \in Seq(STRING) /\ file \in Listed(workspace) \ {name}
        /\ Resolve(workspace, file) = file
    BY <1>1, SituationsAssumption
    DEF SelectionInv, WorkspaceShape, workspace, Listed, Resolve
  <2>4. name \in discovery.limits /\ name \in discovery.roots \cap workspace.dirs
    BY <1>1, <2>1, <2>2 DEF DiscoveryConfig, BoundedRoots, Limits
  <2>5. \A place \in discovery.excludes : Len(place) \in Nat
    BY <1>1, <2>1, ExcludesAreFinite DEF DiscoveryConfig, Found
  <2>6. ASSUME NEW n \in Len(name)..(Len(file) - 1)
        PROVE  ~SkipsDirectory(workspace, discovery, root, name, SubSeq(file, 1, n))
    <3>1. n \in 0..Len(file)
      BY <2>2, <2>3, <2>6
    <3>2. ~Under(SubSeq(file, 1, n), discovery.excludes)
      BY <1>1, <2>3, <2>5, <3>1, AboveTheDirectory DEF Under
    <3> QED
      BY <1>1, <2>6, <3>2 DEF SkipsDirectory
  <2>7. file \in Walk(workspace, discovery, root, name)
    BY <1>1, <2>3, <2>6 DEF Walk
  <2>8. file \in FilesystemFiles(request, workspace, discovery, root)
    BY <1>1, <2>4, <2>7 DEF FilesystemFiles
  <2>9. WithinLimits(file, discovery.limits)
    BY <1>1, <2>4 DEF WithinLimits, Under
  <2> QED
    BY <1>1, <2>1, <2>8, <2>9 DEF DiscoveredFiles
<1>2. SelectionInv => NamedDirectoriesAreCovered
  BY <1>1 DEF NamedDirectoriesAreCovered
<1> QED
  BY <1>2, SelectionInvHolds, PTL

-----------------------------------------------------------------------------
(* The order of the selected tools                                       *)

\* The names of S that a cycle holds back: see Blocked.
Cyclic(c, S) ==
  UNION {waiting \in SUBSET S : \A n \in waiting : Preds(c, waiting, n) # {}}

\* The heap of _order_phase: what is popped follows what it depends on, and each
\* name left over waits for another one.
LEMMA PoppedIs ==
  ASSUME NEW c, NEW S, S \subseteq Nat, IsFiniteSet(S)
  PROVE  /\ OnceEach(Popped(c, S), ToSet(Popped(c, S))) /\ ToSet(Popped(c, S)) \subseteq S
         /\ \A t \in ToSet(Popped(c, S)) : \A s \in Preds(c, S, t) : Earlier(Popped(c, S), s, t)
         /\ Ready(c, S, Popped(c, S)) = {}
<1> DEFINE n == Cardinality(S)
           T == Seq(S)
           Added(i, sofar) ==
             IF Ready(c, S, sofar) = {} THEN sofar
             ELSE Append(sofar, Min(Ready(c, S, sofar)))
           step == [i \in 1..n |-> [sofar \in T |-> Added(i, sofar)]]
           Solved(pop) ==
             pop = [i \in 0..n |-> IF i = 0 THEN <<>> ELSE Added(i, pop[i - 1])]
           result == CHOOSE pop : Solved(pop)
<1>1. n \in Nat /\ <<>> \in T
  BY FS_CardinalityType, EmptySeq
<1>2. Popped(c, S) = result[n]
  BY DEF Popped
<1>3. ASSUME NEW out, Ready(c, S, out) # {} PROVE Min(Ready(c, S, out)) \in Ready(c, S, out)
  <2>1. Ready(c, S, out) \subseteq Nat
    BY DEF Ready
  <2>2. \E x \in Ready(c, S, out) : \A y \in Ready(c, S, out) : x <= y
    BY <1>3, <2>1, LeastNatural
  <2> QED BY <2>2 DEF Min
<1>4. Solved(result)
  <2>1. step \in Steps(n, T)
    <3>1. ASSUME NEW i \in 1..n, NEW sofar \in T PROVE Added(i, sofar) \in T
      <4>1. Ready(c, S, sofar) # {} => Min(Ready(c, S, sofar)) \in S
        BY <1>3 DEF Ready
      <4> QED BY <4>1, AppendProperties
    <3> QED BY <3>1 DEF Steps
  <2>2. PICK F : IsRun(F, n, T, <<>>, step)
    <3> HIDE DEF n, T, step
    <3> QED BY <1>1, <2>1, Recursion
  <2>3. \A i \in 1..n : step[i][F[i - 1]] = Added(i, F[i - 1])
    <3>1. \A i \in 1..n : i - 1 \in 0..n
      BY <1>1
    <3>2. \A i \in 1..n : F[i - 1] \in T
      <4> HIDE DEF T, n
      <4> QED BY <3>1, <2>2 DEF IsRun
    <3> HIDE DEF T, Added
    <3> QED BY <3>2
  <2>4. Solved(F)
    <3> HIDE DEF step, Added, T
    <3> QED BY <1>1, <2>2, <2>3 DEF IsRun
  <2> HIDE DEF Solved
  <2> QED BY <2>4
<1> HIDE DEF result
<1>5. result[0] = <<>> /\ \A i \in 1..n : result[i] = Added(i, result[i - 1])
  <2>1. 0 \in 0..n /\ \A i \in 1..n : i \in 0..n /\ i # 0
    BY <1>1
  <2> HIDE DEF Added, n
  <2> QED BY <2>1, <1>4
<1> DEFINE Good(i) ==
             /\ OnceEach(result[i], ToSet(result[i])) /\ ToSet(result[i]) \subseteq S
             /\ \A t \in ToSet(result[i]) : \A s \in Preds(c, S, t) : Earlier(result[i], s, t)
             /\ Len(result[i]) = i \/ Ready(c, S, result[i]) = {}
           P == {i \in 0..n : Good(i)}
<1>6. 0 \in P
  BY <1>1, <1>5, OnceEmpty, EmptySeq DEF OnceEach
<1>7. ASSUME NEW i \in 0..(n - 1), i \in P PROVE i + 1 \in P
  <2> DEFINE sofar == result[i]
             out == ToSet(sofar)
             e == Min(Ready(c, S, sofar))
  <2>1. Good(i) /\ i + 1 \in 0..n /\ result[i + 1] = Added(i + 1, sofar)
    <3>1. Good(i) /\ i + 1 \in 1..n /\ i + 1 \in 0..n
      BY <1>1, <1>7
    <3>2. (i + 1) - 1 = i
      OBVIOUS
    <3>3. result[i + 1] = Added(i + 1, sofar)
      <4> HIDE DEF Added, n
      <4> QED BY <3>1, <3>2, <1>5
    <3> QED BY <3>1, <3>3
  <2>2. CASE Ready(c, S, sofar) = {}
    <3>1. result[i + 1] = sofar
      BY <2>1, <2>2
    <3>2. Good(i + 1)
      BY <2>1, <2>2, <3>1
    <3> HIDE DEF Good
    <3> QED BY <2>1, <3>2
  <2>3. CASE Ready(c, S, sofar) # {}
    <3>1. result[i + 1] = Append(sofar, e) /\ Len(sofar) = i
      BY <2>1, <2>3
    <3>2. e \in S \ out /\ Preds(c, S, e) \subseteq out
      BY <2>3, <1>3 DEF Ready
    <3> DEFINE longer == Append(sofar, e)
    <3>3. /\ OnceEach(longer, out \union {e}) /\ Len(longer) = i + 1
          /\ \A a, b : Earlier(sofar, a, b) => Earlier(longer, a, b)
          /\ \A a \in out : Earlier(longer, a, e)
      <4>1. OnceEach(sofar, out) /\ IsList(sofar) /\ e \notin out /\ Len(sofar) = i
        BY <2>1, <3>1, <3>2 DEF OnceEach
      <4> HIDE DEF sofar, out, e
      <4> QED BY <4>1, OnceAppend, ListAppend
    <3>4. ToSet(longer) = out \union {e}
      BY <3>3 DEF OnceEach
    <3>5. \A t \in out \union {e} : \A s \in Preds(c, S, t) : Earlier(longer, s, t)
      <4> HIDE DEF longer, e
      <4> QED BY <2>1, <3>2, <3>3
    <3>6. Good(i + 1)
      <4> HIDE DEF longer, e
      <4> QED BY <2>1, <3>1, <3>2, <3>3, <3>4, <3>5 DEF longer
    <3> HIDE DEF Good
    <3> QED BY <2>1, <3>6
  <2> QED BY <2>2, <2>3
<1>8. Good(n)
  <2>1. \A i \in 0..n : i \in P
    <3> HIDE DEF P, n
    <3> QED BY <1>1, <1>6, <1>7, UpTo
  <2> HIDE DEF Good
  <2> QED BY <1>1, <2>1
<1>9. Ready(c, S, result[n]) = {}
  <2>1. CASE Len(result[n]) = n
    <3>1. Cardinality(ToSet(result[n])) = n
      BY <1>8, <2>1, OnceLen
    <3>2. ToSet(result[n]) = S
      BY <1>8, <3>1, FS_Subset
    <3> QED BY <3>2 DEF Ready
  <2> QED BY <1>8, <2>1
<1> QED BY <1>2, <1>8, <1>9

\* _order_phase: each name once, and a dependency is honoured unless a cycle
\* leads to the name that has it.
LEMMA RegistryPhaseIs ==
  ASSUME NEW c, NEW S, S \subseteq Nat, IsFiniteSet(S)
  PROVE  /\ OnceEach(RegistryPhase(c, S), S)
         /\ \A t \in S \ Cyclic(c, S) : \A s \in Preds(c, S, t) :
              Earlier(RegistryPhase(c, S), s, t)
<1> DEFINE popped == Popped(c, S)
           out == ToSet(popped)
           rest == Ascending(S \ out)
<1>1. /\ OnceEach(popped, out) /\ out \subseteq S /\ Ready(c, S, popped) = {}
      /\ \A t \in out : \A s \in Preds(c, S, t) : Earlier(popped, s, t)
  BY PoppedIs
<1>2. OnceEach(rest, S \ out)
  <2>1. S \ out \subseteq Nat /\ IsFiniteSet(S \ out)
    BY FS_Subset
  <2> HIDE DEF out
  <2> QED BY <2>1, AscendingIs
<1>3. OnceEach(popped \o rest, out \union (S \ out))
      /\ \A a, b : Earlier(popped, a, b) => Earlier(popped \o rest, a, b)
  <2> DEFINE left == S \ out
  <2>1. OnceEach(rest, left) /\ out \cap left = {} /\ OnceEach(popped, out)
    BY <1>1, <1>2
  <2> HIDE DEF rest, popped, out, left
  <2> QED BY <2>1, OnceConcat DEF left
<1>4. RegistryPhase(c, S) = popped \o rest
  BY DEF RegistryPhase
<1>5. out \union (S \ out) = S
  BY <1>1
<1>6. S \ Cyclic(c, S) \subseteq out
  <2>1. \A n \in S \ out : Preds(c, S \ out, n) # {}
    BY <1>1 DEF Ready, Preds
  <2> QED BY <2>1 DEF Cyclic
<1> HIDE DEF rest, popped
<1> QED BY <1>1, <1>3, <1>4, <1>5, <1>6

\* What OfPhase gives for each phase makes layers of the tools of a set.
Phased(c, S) ==
  /\ c.phases \in Nat \ {0}
  /\ \A n \in S : c.phase[n] \in 1..c.phases

LEMMA PhasesAreLayers ==
  ASSUME NEW c, NEW S, Phased(c, S), NEW lists,
         lists = [rank \in Ranks(c) |-> lists[rank]],
         \A rank \in Ranks(c) : OnceEach(lists[rank], OfPhase(c, S, rank))
  PROVE  /\ OnceEach(FlattenSeq(lists), S)
         /\ \A rank \in Ranks(c) : \A s, t :
              Earlier(lists[rank], s, t) => Earlier(FlattenSeq(lists), s, t)
         /\ \A s, t \in S : c.phase[s] < c.phase[t] => Earlier(FlattenSeq(lists), s, t)
<1> DEFINE n == c.phases
           sets == [rank \in 1..n |-> OfPhase(c, S, rank)]
<1>1. Ranks(c) = 1..n
  BY DEF Ranks
<1>2. Layers(n, lists, sets)
  <2>1. n \in Nat \ {0} /\ DOMAIN lists = 1..n
    BY <1>1 DEF Phased
  <2>2. \A i \in 1..n : OnceEach(lists[i], sets[i])
    BY <1>1
  <2>3. \A i, j \in 1..n : i # j => sets[i] \cap sets[j] = {}
    BY DEF OfPhase
  <2> HIDE DEF sets, n
  <2> QED BY <1>1, <2>1, <2>2, <2>3 DEF Layers
<1>3. /\ OnceEach(FlattenSeq(lists), UNION {sets[i] : i \in 1..n})
      /\ \A i \in 1..n : \A s, t :
           Earlier(lists[i], s, t) => Earlier(FlattenSeq(lists), s, t)
      /\ \A i, j \in 1..n : \A s \in sets[i], t \in sets[j] :
           i < j => Earlier(FlattenSeq(lists), s, t)
  <2> HIDE DEF sets, n
  <2> QED BY <1>2, FlattenIs
<1>4. \A s \in S : c.phase[s] \in 1..n /\ s \in sets[c.phase[s]]
  BY DEF OfPhase, Phased
<1>5. UNION {sets[i] : i \in 1..n} = S
  <2>1. \A i \in 1..n : sets[i] \subseteq S
    BY DEF OfPhase
  <2> HIDE DEF sets, n
  <2> QED BY <1>4, <2>1
<1> HIDE DEF sets, n
<1> QED BY <1>1, <1>3, <1>4, <1>5

\* _recompute_order
LEMMA RegistryOrderIs ==
  ASSUME NEW c, NEW S, S \subseteq Nat, IsFiniteSet(S), Phased(c, S)
  PROVE  /\ OnceEach(RegistryOrder(c, S), S)
         /\ \A s, t \in S :
              /\ c.phase[s] = c.phase[t] /\ <<s, t>> \in c.precedes
              /\ t \notin Cyclic(c, OfPhase(c, S, c.phase[t]))
              => Earlier(RegistryOrder(c, S), s, t)
<1> DEFINE lists == [rank \in Ranks(c) |-> RegistryPhase(c, OfPhase(c, S, rank))]
<1>1. ASSUME NEW rank
      PROVE  /\ OnceEach(RegistryPhase(c, OfPhase(c, S, rank)), OfPhase(c, S, rank))
             /\ \A t \in OfPhase(c, S, rank) \ Cyclic(c, OfPhase(c, S, rank)) :
                  \A s \in Preds(c, OfPhase(c, S, rank), t) :
                    Earlier(RegistryPhase(c, OfPhase(c, S, rank)), s, t)
  <2> DEFINE same == OfPhase(c, S, rank)
  <2>1. same \subseteq S
    BY DEF OfPhase
  <2>2. same \subseteq Nat /\ IsFiniteSet(same)
    BY <2>1, FS_Subset
  <2> HIDE DEF same
  <2> QED BY <2>2, RegistryPhaseIs DEF same
<1>2. /\ lists = [rank \in Ranks(c) |-> lists[rank]]
      /\ \A rank \in Ranks(c) : OnceEach(lists[rank], OfPhase(c, S, rank))
  BY <1>1
<1>3. RegistryOrder(c, S) = FlattenSeq(lists)
  BY DEF RegistryOrder
<1>4. ASSUME NEW s \in S, NEW t \in S, c.phase[s] = c.phase[t], <<s, t>> \in c.precedes,
             t \notin Cyclic(c, OfPhase(c, S, c.phase[t]))
      PROVE  c.phase[t] \in Ranks(c) /\ Earlier(lists[c.phase[t]], s, t)
  <2>1. c.phase[t] \in Ranks(c)
    BY DEF Phased, Ranks
  <2>2. t \in OfPhase(c, S, c.phase[t]) /\ s \in Preds(c, OfPhase(c, S, c.phase[t]), t)
    BY <1>4 DEF OfPhase, Preds
  <2> QED BY <1>1, <1>4, <2>1, <2>2
<1> HIDE DEF lists
<1>5. /\ OnceEach(FlattenSeq(lists), S)
      /\ \A rank \in Ranks(c) : \A s, t :
           Earlier(lists[rank], s, t) => Earlier(FlattenSeq(lists), s, t)
  BY <1>2, PhasesAreLayers
<1> QED BY <1>3, <1>4, <1>5

-----------------------------------------------------------------------------
\* The keys of the sorter are the names.
LEMMA InsertedIs ==
  ASSUME NEW c, NEW names, NEW S, OnceEach(names, S)
  PROVE  OnceEach(Inserted(c, names), S)
<1> DEFINE n == Len(names)
           T == Seq(S)
           With(m) == <<m>> \o Among(names, Preds(c, ToSet(names), m))
           Added(i, sofar) == Appended(sofar, With(names[i]))
           step == [i \in 1..n |-> [sofar \in T |-> Added(i, sofar)]]
           Solved(keys) ==
             keys = [i \in 0..n |-> IF i = 0 THEN <<>> ELSE Added(i, keys[i - 1])]
           result == CHOOSE keys : Solved(keys)
<1>1. n \in Nat /\ DOMAIN names = 1..n /\ <<>> \in T /\ IsList(names) /\ ToSet(names) = S
  BY ListIsSeq, EmptySeq DEF OnceEach
<1>2. \A i \in 1..n : names[i] \in S
  BY <1>1 DEF ToSet
<1>3. Inserted(c, names) = result[n]
  BY DEF Inserted
<1>4. ASSUME NEW m \in S PROVE IsList(With(m)) /\ ToSet(With(m)) = {m} \union Preds(c, S, m)
  <2> DEFINE before == Among(names, Preds(c, ToSet(names), m))
  <2>1. IsList(before) /\ ToSet(before) = Preds(c, S, m)
    <3>1. S \cap Preds(c, S, m) = Preds(c, S, m)
      BY DEF Preds
    <3> QED BY <1>1, <3>1, AmongIs
  <2>2. OnceEach(<<m>>, {m})
    <3>1. IsList(<<m>>) /\ ToSet(<<m>>) = {m} /\ IsInjective(<<m>>)
      BY DEF IsList, ToSet, IsInjective
    <3> QED BY <3>1 DEF OnceEach
  <2>3. IsList(<<m>>) /\ ToSet(<<m>>) = {m}
    BY <2>2 DEF OnceEach
  <2> HIDE DEF before
  <2>4. IsList(<<m>> \o before) /\ ToSet(<<m>> \o before) = {m} \union Preds(c, S, m)
    BY <2>1, <2>3, ListConcat
  <2> QED BY <2>4 DEF before
<1>5. ASSUME NEW i \in 1..n, NEW sofar, IsList(sofar), ToSet(sofar) \subseteq S
      PROVE  /\ IsList(Added(i, sofar))
             /\ ToSet(Added(i, sofar)) = ToSet(sofar) \union {names[i]} \union Preds(c, S, names[i])
             /\ IsInjective(sofar) => IsInjective(Added(i, sofar))
  <2> DEFINE m == names[i]
             l == With(m)
  <2>1. IsList(l) /\ ToSet(l) = {m} \union Preds(c, S, m)
    BY <1>2, <1>4
  <2> HIDE DEF m, l
  <2>2. /\ IsList(Appended(sofar, l)) /\ ToSet(Appended(sofar, l)) = ToSet(sofar) \union ToSet(l)
        /\ IsInjective(sofar) => IsInjective(Appended(sofar, l))
    BY <1>5, <2>1, AppendedIs
  <2> QED BY <2>1, <2>2 DEF m, l
<1>6. \A i \in 1..n : Preds(c, S, names[i]) \subseteq S
  BY DEF Preds
<1> HIDE DEF With
<1>7. Solved(result)
  <2>1. step \in Steps(n, T)
    <3>1. ASSUME NEW i \in 1..n, NEW sofar \in T PROVE Added(i, sofar) \in T
      <4>1. IsList(sofar) /\ ToSet(sofar) \subseteq S
        BY SeqIsList
      <4>2. IsList(Added(i, sofar)) /\ ToSet(Added(i, sofar)) \subseteq S
        <5> HIDE DEF Added
        <5> QED BY <1>2, <1>5, <1>6, <4>1
      <4> HIDE DEF Added
      <4> QED BY <4>2, ListIsSeq
    <3> QED BY <3>1 DEF Steps
  <2>2. PICK F : IsRun(F, n, T, <<>>, step)
    <3>1. n \in Nat /\ <<>> \in T
      BY <1>1
    <3> HIDE DEF n, T, step
    <3> QED BY <3>1, <2>1, Recursion
  <2>3. \A i \in 1..n : step[i][F[i - 1]] = Added(i, F[i - 1])
    <3>1. \A i \in 1..n : i - 1 \in 0..n
      BY <1>1
    <3>2. \A i \in 1..n : F[i - 1] \in T
      <4> HIDE DEF T, n
      <4> QED BY <3>1, <2>2 DEF IsRun
    <3> HIDE DEF T, Added
    <3> QED BY <3>2
  <2>4. Solved(F)
    <3> HIDE DEF step, Added, T
    <3> QED BY <1>1, <2>2, <2>3 DEF IsRun
  <2> HIDE DEF Solved
  <2> QED BY <2>4
<1> HIDE DEF result
<1>8. result[0] = <<>> /\ \A i \in 1..n : result[i] = Added(i, result[i - 1])
  <2>1. 0 \in 0..n /\ \A i \in 1..n : i \in 0..n /\ i # 0
    BY <1>1
  <2> HIDE DEF Added, n
  <2> QED BY <2>1, <1>7
<1> HIDE DEF Added
<1> DEFINE Good(i) ==
             /\ IsList(result[i]) /\ IsInjective(result[i])
             /\ ToSet(result[i]) \subseteq S /\ {names[j] : j \in 1..i} \subseteq ToSet(result[i])
           P == {i \in 0..n : Good(i)}
<1>9. 0 \in P
  BY <1>1, <1>8, OnceEmpty DEF OnceEach
<1>10. ASSUME NEW i \in 0..(n - 1), i \in P PROVE i + 1 \in P
  <2>1. Good(i) /\ i + 1 \in 1..n /\ i + 1 \in 0..n
    BY <1>1, <1>10
  <2>2. result[i + 1] = Added(i + 1, result[i])
    <3>1. (i + 1) - 1 = i
      OBVIOUS
    <3> HIDE DEF n
    <3> QED BY <2>1, <3>1, <1>8
  <2>3. /\ IsList(result[i + 1]) /\ IsInjective(result[i + 1])
        /\ ToSet(result[i + 1])
             = ToSet(result[i]) \union {names[i + 1]} \union Preds(c, S, names[i + 1])
    <3> HIDE DEF n
    <3> QED BY <2>1, <2>2, <1>5
  <2>4. {names[j] : j \in 1..(i + 1)} = {names[j] : j \in 1..i} \union {names[i + 1]}
    BY <1>1
  <2>5. Good(i + 1)
    <3> HIDE DEF n
    <3> QED BY <2>1, <2>3, <2>4, <1>2, <1>6
  <2> HIDE DEF Good
  <2> QED BY <2>1, <2>5
<1>11. Good(n)
  <2>1. \A i \in 0..n : i \in P
    <3> HIDE DEF P
    <3> QED BY <1>1, <1>9, <1>10, UpTo
  <2> HIDE DEF Good
  <2> QED BY <1>1, <2>1
<1>12. S = {names[j] : j \in 1..n}
  BY <1>1 DEF ToSet
<1> QED BY <1>3, <1>11, <1>12 DEF OnceEach

\* The names the queue holds up to position i
Left(queue, i) == {queue[j] : j \in {k \in DOMAIN queue : k <= i}}

\* What the queue of the sorter holds when the first i of it have left: the names
\* whose predecessors have left, each after what it depends on.
QueueIs(c, S, queue, i) ==
  /\ OnceEach(queue, ToSet(queue))
  /\ ToSet(queue) = {n \in S : Preds(c, S, n) \subseteq Left(queue, i)}
  /\ \A t \in ToSet(queue) : \A s \in Preds(c, S, t) : Earlier(queue, s, t)

LEMMA FreeIs ==
  ASSUME NEW c, NEW names, NEW S, OnceEach(names, S)
  PROVE  QueueIs(c, S, Free(c, names), 0)
<1> DEFINE free == {n \in S : Preds(c, S, n) = {}}
           keys == Inserted(c, names)
           queue == Free(c, names)
<1>1. OnceEach(keys, S) /\ ToSet(names) = S
  BY InsertedIs DEF OnceEach
<1>2. queue = Among(keys, free)
  BY <1>1 DEF Free
<1>3. OnceEach(queue, free)
  <2>1. S \cap free = free
    OBVIOUS
  <2>2. IsList(keys) /\ IsInjective(keys) /\ ToSet(keys) = S
    BY <1>1 DEF OnceEach
  <2> HIDE DEF free, keys, queue
  <2> QED BY <1>2, <2>1, <2>2, AmongIs
<1> HIDE DEF queue
<1>4. Left(queue, 0) = {}
  <2>1. Len(queue) \in Nat /\ DOMAIN queue = 1..Len(queue)
    BY <1>3, ListIsSeq DEF OnceEach
  <2>2. {k \in DOMAIN queue : k <= 0} = {}
    BY <2>1
  <2> QED BY <2>2 DEF Left
<1>5. ToSet(queue) = free
  BY <1>3 DEF OnceEach
<1> QED BY <1>3, <1>4, <1>5 DEF QueueIs, queue

LEMMA ReleasedIs ==
  ASSUME NEW c, NEW names, NEW S, OnceEach(names, S), NEW queue, NEW i \in Nat,
         QueueIs(c, S, queue, i), i + 1 <= Len(queue)
  PROVE  QueueIs(c, S, queue \o Released(c, names, queue, i + 1), i + 1)
<1> DEFINE next == i + 1
           e == queue[next]
           out == {queue[j] : j \in 1..next}
           new == {n \in S : e \in Preds(c, S, n) /\ Preds(c, S, n) \subseteq out}
           released == Released(c, names, queue, next)
           longer == queue \o released
           held == ToSet(queue)
<1>1. /\ IsList(queue) /\ Len(queue) \in Nat /\ DOMAIN queue = 1..Len(queue)
      /\ OnceEach(queue, held) /\ held \subseteq S
      /\ next \in DOMAIN queue /\ next \in Nat /\ 1..next \subseteq DOMAIN queue
  <2>1. OnceEach(queue, held) /\ held \subseteq S
    BY DEF QueueIs
  <2>2. IsList(queue) /\ Len(queue) \in Nat /\ DOMAIN queue = 1..Len(queue)
    BY <2>1, ListIsSeq DEF OnceEach
  <2> QED BY <2>1, <2>2
<1>2. OnceEach(released, new)
  <2>1. released = Among(names, new)
    BY DEF Released, OnceEach
  <2>2. S \cap new = new
    OBVIOUS
  <2>3. IsList(names) /\ IsInjective(names) /\ ToSet(names) = S
    BY DEF OnceEach
  <2> HIDE DEF new, released
  <2> QED BY <2>1, <2>2, <2>3, AmongIs
<1>3. out = Left(queue, i) \union {e} /\ e \notin Left(queue, i) /\ out \subseteq held
  <2>1. Left(queue, i) = {queue[j] : j \in 1..i}
    <3>1. {k \in DOMAIN queue : k <= i} = 1..i
      BY <1>1
    <3> QED BY <3>1 DEF Left
  <2>2. 1..next = 1..i \union {next}
    OBVIOUS
  <2>3. \A j \in 1..i : queue[j] # e
    <3>1. \A j \in 1..i : j \in DOMAIN queue /\ j # next
      BY <1>1
    <3> QED BY <3>1, <1>1 DEF OnceEach, IsInjective
  <2>4. out \subseteq held
    BY <1>1 DEF ToSet
  <2> HIDE DEF next, e
  <2> QED BY <2>1, <2>2, <2>3, <2>4 DEF e
<1>4. held \cap new = {}
  <2>1. \A n \in held : Preds(c, S, n) \subseteq Left(queue, i)
    BY DEF QueueIs
  <2> HIDE DEF e, out, held
  <2> QED BY <1>3, <2>1
<1>5. /\ OnceEach(longer, held \union new)
      /\ \A a, b : Earlier(queue, a, b) => Earlier(longer, a, b)
      /\ \A a \in held, b \in new : Earlier(longer, a, b)
  <2> HIDE DEF released, new, held
  <2> QED BY <1>1, <1>2, <1>4, OnceConcat
<1>6. Left(longer, next) = out
  <2>1. IsList(released) /\ Len(released) \in Nat
    BY <1>2, ListIsSeq DEF OnceEach
  <2>2. /\ DOMAIN longer = 1..(Len(queue) + Len(released))
        /\ \A j \in 1..Len(queue) : longer[j] = queue[j]
    <3> HIDE DEF released
    <3> QED BY <1>1, <2>1, ListConcat
  <2>3. {k \in DOMAIN longer : k <= next} = 1..next
    <3> HIDE DEF longer, released
    <3> QED BY <1>1, <2>1, <2>2
  <2>4. \A j \in 1..next : longer[j] = queue[j]
    <3> HIDE DEF longer
    <3> QED BY <1>1, <2>2
  <2> HIDE DEF longer, next
  <2> QED BY <2>3, <2>4 DEF Left
<1>7. held \union new = {n \in S : Preds(c, S, n) \subseteq out}
  <2>1. held = {n \in S : Preds(c, S, n) \subseteq Left(queue, i)}
    BY DEF QueueIs
  <2> HIDE DEF held, e, out
  <2> QED BY <1>3, <2>1
<1>8. \A t \in held \union new : \A s \in Preds(c, S, t) : Earlier(longer, s, t)
  <2>1. \A t \in held : \A s \in Preds(c, S, t) : Earlier(longer, s, t)
    <3> HIDE DEF longer
    <3> QED BY <1>5 DEF QueueIs
  <2>2. \A t \in new : \A s \in Preds(c, S, t) : Earlier(longer, s, t)
    <3>1. \A t \in new : Preds(c, S, t) \subseteq held
      <4> HIDE DEF e, out, held
      <4> QED BY <1>3
    <3> HIDE DEF longer, held, new
    <3> QED BY <1>5, <3>1
  <2> QED BY <2>1, <2>2
<1>9. ToSet(longer) = held \union new
  BY <1>5 DEF OnceEach
<1>10. QueueIs(c, S, longer, next)
  <2> HIDE DEF longer, held, new, out, next
  <2> QED BY <1>5, <1>6, <1>7, <1>8, <1>9 DEF QueueIs
<1> QED BY <1>10

\* static_order: each name once, after what it depends on; all names when no cycle
\* holds one back.
LEMMA StaticOrderIs ==
  ASSUME NEW c, NEW names, NEW S, OnceEach(names, S)
  PROVE  LET sorted == StaticOrder(c, names) IN
         /\ IsList(sorted) /\ ToSet(sorted) \subseteq S
         /\ Len(sorted) >= Len(names) => OnceEach(sorted, S)
         /\ Cyclic(c, S) = {} => OnceEach(sorted, S)
         /\ \A t \in ToSet(sorted) : \A s \in Preds(c, S, t) : Earlier(sorted, s, t)
<1> DEFINE n == Len(names)
           T == Seq(S)
           Added(i, sofar) ==
             IF i > Len(sofar) THEN sofar ELSE sofar \o Released(c, names, sofar, i)
           step == [i \in 1..n |-> [sofar \in T |-> Added(i, sofar)]]
           Solved(queue) ==
             queue = [i \in 0..n |-> IF i = 0 THEN Free(c, names) ELSE Added(i, queue[i - 1])]
           result == CHOOSE queue : Solved(queue)
<1>1. n \in Nat /\ Free(c, names) \in T /\ IsList(names) /\ ToSet(names) = S
      /\ IsInjective(names)
  <2>1. n \in Nat /\ IsList(names) /\ ToSet(names) = S /\ IsInjective(names)
    BY ListIsSeq DEF OnceEach
  <2>2. IsList(Free(c, names)) /\ ToSet(Free(c, names)) \subseteq S
    BY FreeIs DEF QueueIs, OnceEach
  <2> QED BY <2>1, <2>2, ListIsSeq
<1>2. StaticOrder(c, names) = result[n]
  BY DEF StaticOrder
<1>3. Solved(result)
  <2>1. step \in Steps(n, T)
    <3>1. ASSUME NEW i \in 1..n, NEW sofar \in T PROVE Added(i, sofar) \in T
      <4>1. Released(c, names, sofar, i) \in T
        <5>1. IsList(Released(c, names, sofar, i)) /\ ToSet(Released(c, names, sofar, i)) \subseteq S
          BY <1>1, AmongIs DEF Released
        <5> QED BY <5>1, ListIsSeq
      <4> QED BY <4>1, ConcatProperties
    <3> QED BY <3>1 DEF Steps
  <2>2. PICK F : IsRun(F, n, T, Free(c, names), step)
    <3>1. n \in Nat /\ Free(c, names) \in T
      BY <1>1
    <3> HIDE DEF n, T, step
    <3> QED BY <3>1, <2>1, Recursion
  <2>3. \A i \in 1..n : step[i][F[i - 1]] = Added(i, F[i - 1])
    <3>1. \A i \in 1..n : i - 1 \in 0..n
      BY <1>1
    <3>2. \A i \in 1..n : F[i - 1] \in T
      <4> HIDE DEF T, n
      <4> QED BY <3>1, <2>2 DEF IsRun
    <3> HIDE DEF T, Added
    <3> QED BY <3>2
  <2>4. Solved(F)
    <3> HIDE DEF step, Added, T
    <3> QED BY <1>1, <2>2, <2>3 DEF IsRun
  <2> HIDE DEF Solved
  <2> QED BY <2>4
<1> HIDE DEF result
<1>4. result[0] = Free(c, names) /\ \A i \in 1..n : result[i] = Added(i, result[i - 1])
  <2>1. 0 \in 0..n /\ \A i \in 1..n : i \in 0..n /\ i # 0
    BY <1>1
  <2> HIDE DEF Added, n
  <2> QED BY <2>1, <1>3
<1> DEFINE Good(i) == QueueIs(c, S, result[i], i)
           P == {i \in 0..n : Good(i)}
<1>5. 0 \in P
  BY <1>1, <1>4, FreeIs
<1>6. ASSUME NEW i \in 0..(n - 1), i \in P PROVE i + 1 \in P
  <2> DEFINE queue == result[i]
  <2>1. Good(i) /\ i + 1 \in 1..n /\ i + 1 \in 0..n /\ i \in Nat
    BY <1>1, <1>6
  <2>2. result[i + 1] = Added(i + 1, queue)
    <3>1. (i + 1) - 1 = i
      OBVIOUS
    <3> HIDE DEF n, Added
    <3> QED BY <2>1, <3>1, <1>4
  <2>3. CASE i + 1 > Len(queue)
    <3>1. result[i + 1] = queue
      BY <2>2, <2>3
    <3>2. Left(queue, i + 1) = Left(queue, i)
      <4>1. Len(queue) \in Nat /\ DOMAIN queue = 1..Len(queue)
        BY <2>1, ListIsSeq DEF QueueIs, OnceEach
      <4>2. {k \in DOMAIN queue : k <= i + 1} = {k \in DOMAIN queue : k <= i}
        BY <2>1, <2>3, <4>1
      <4> QED BY <4>2 DEF Left
    <3>3. Good(i + 1)
      BY <2>1, <3>1, <3>2 DEF QueueIs
    <3> HIDE DEF Good
    <3> QED BY <2>1, <3>3
  <2>4. CASE ~(i + 1 > Len(queue))
    <3>1. result[i + 1] = queue \o Released(c, names, queue, i + 1)
      BY <2>2, <2>4
    <3>2. i + 1 <= Len(queue)
      <4>1. Len(queue) \in Nat
        BY <2>1, ListIsSeq DEF QueueIs, OnceEach
      <4> QED BY <2>1, <2>4, <4>1
    <3>3. Good(i + 1)
      <4>1. QueueIs(c, S, queue, i)
        BY <2>1
      <4> HIDE DEF queue
      <4> QED BY <2>1, <3>1, <3>2, <4>1, ReleasedIs
    <3> HIDE DEF Good
    <3> QED BY <2>1, <3>3
  <2> QED BY <2>3, <2>4
<1>7. QueueIs(c, S, result[n], n)
  <2>1. \A i \in 0..n : i \in P
    <3> HIDE DEF P, n
    <3> QED BY <1>1, <1>5, <1>6, UpTo
  <2> QED BY <1>1, <2>1
<1> DEFINE sorted == result[n]
           out == ToSet(sorted)
<1>8. OnceEach(sorted, out) /\ IsList(sorted) /\ out \subseteq S
  BY <1>7 DEF QueueIs, OnceEach
<1>9. /\ IsFiniteSet(S) /\ Cardinality(S) = n
      /\ Cardinality(out) = Len(sorted) /\ Len(sorted) <= n
      /\ Len(sorted) \in Nat /\ DOMAIN sorted = 1..Len(sorted)
  <2>1. IsFiniteSet(S) /\ Cardinality(S) = n
    BY OnceLen
  <2>2. Cardinality(out) = Len(sorted)
    <3> HIDE DEF sorted, out
    <3> QED BY <1>8, OnceLen
  <2>3. Len(sorted) \in Nat /\ DOMAIN sorted = 1..Len(sorted)
    <3> HIDE DEF sorted
    <3> QED BY <1>8, ListIsSeq
  <2>4. Cardinality(out) <= Cardinality(S)
    <3> HIDE DEF out
    <3> QED BY <1>8, <2>1, FS_Subset
  <2> QED BY <2>1, <2>2, <2>3, <2>4
<1>10. Len(sorted) >= n => OnceEach(sorted, S)
  <2>1. ASSUME Len(sorted) >= n PROVE out = S
    <3>1. Cardinality(out) = Cardinality(S)
      BY <1>1, <1>9, <2>1
    <3> HIDE DEF out
    <3> QED BY <1>8, <1>9, <3>1, FS_Subset
  <2> QED BY <1>8, <2>1
<1>11. Left(sorted, n) = out
  <2>1. {k \in DOMAIN sorted : k <= n} = DOMAIN sorted
    BY <1>1, <1>9
  <2> QED BY <2>1 DEF Left, ToSet
<1>12. Cyclic(c, S) = {} => OnceEach(sorted, S)
  <2>1. \A m \in S \ out : Preds(c, S \ out, m) # {}
    <3>1. out = {m \in S : Preds(c, S, m) \subseteq out}
      BY <1>7, <1>11 DEF QueueIs
    <3> HIDE DEF out
    <3> QED BY <3>1 DEF Preds
  <2>2. S \ out \subseteq Cyclic(c, S)
    <3> HIDE DEF out
    <3> QED BY <2>1 DEF Cyclic
  <2>3. Cyclic(c, S) = {} => out = S
    BY <1>8, <2>2
  <2> QED BY <1>8, <2>3
<1>13. \A t \in out : \A s \in Preds(c, S, t) : Earlier(sorted, s, t)
  BY <1>7 DEF QueueIs
<1> QED BY <1>2, <1>8, <1>10, <1>12, <1>13

\* _order_phase of the selector: each name once; a dependency is honoured when no
\* cycle is there, or when the input honours it.
LEMMA OrderPhaseIs ==
  ASSUME NEW c, NEW names, NEW S, OnceEach(names, S)
  PROVE  /\ OnceEach(OrderPhase(c, names), S)
         /\ \A t \in S : \A s \in Preds(c, S, t) :
              Cyclic(c, S) = {} \/ Earlier(names, s, t) => Earlier(OrderPhase(c, names), s, t)
<1> DEFINE sorted == StaticOrder(c, names)
<1>1. /\ Len(sorted) >= Len(names) => OnceEach(sorted, S)
      /\ Cyclic(c, S) = {} => OnceEach(sorted, S)
      /\ \A t \in ToSet(sorted) : \A s \in Preds(c, S, t) : Earlier(sorted, s, t)
      /\ Len(sorted) \in Nat /\ Len(names) \in Nat
  <2>1. IsList(sorted) /\ IsList(names)
    BY StaticOrderIs DEF OnceEach
  <2>2. Len(sorted) \in Nat /\ Len(names) \in Nat
    <3> HIDE DEF sorted
    <3> QED BY <2>1, ListIsSeq
  <2> QED BY <2>2, StaticOrderIs
<1>2. OrderPhase(c, names) = IF Len(names) <= 1 \/ Len(sorted) < Len(names) THEN names ELSE sorted
  BY DEF OrderPhase
<1> HIDE DEF sorted
<1>3. CASE ~(Len(names) <= 1 \/ Len(sorted) < Len(names))
  <2>1. OrderPhase(c, names) = sorted /\ OnceEach(sorted, S)
    BY <1>1, <1>2, <1>3
  <2>2. ToSet(sorted) = S
    BY <2>1 DEF OnceEach
  <2> QED BY <1>1, <2>1, <2>2
<1>4. CASE Len(sorted) < Len(names)
  <2>1. Cyclic(c, S) # {}
    <3>1. SUFFICES ASSUME OnceEach(sorted, S) PROVE FALSE
      BY <1>1
    <3>2. Cardinality(S) = Len(sorted) /\ Cardinality(S) = Len(names)
      BY <3>1, OnceLen
    <3> QED BY <1>1, <1>4, <3>2
  <2> QED BY <1>2, <1>4, <2>1
<1>5. CASE Len(names) <= 1
  <2>1. ASSUME NEW t \in S, NEW s \in Preds(c, S, t), Cyclic(c, S) = {} PROVE FALSE
    <3>1. s \in S /\ <<s, t>> \in c.precedes
      BY DEF Preds
    <3>2. s = t
      <4>1. DOMAIN names = 1..Len(names) /\ S = {names[i] : i \in DOMAIN names}
        BY ListIsSeq DEF OnceEach, ToSet
      <4>2. \A i \in DOMAIN names : i = 1
        BY <1>1, <1>5, <4>1
      <4> QED BY <3>1, <4>1, <4>2
    <3>3. {t} \in SUBSET S /\ \A m \in {t} : Preds(c, {t}, m) # {}
      BY <3>1, <3>2 DEF Preds
    <3>4. t \in Cyclic(c, S)
      BY <3>3 DEF Cyclic
    <3> QED BY <2>1, <3>4
  <2> QED BY <1>2, <1>5, <2>1
<1> QED BY <1>3, <1>4, <1>5

\* order_tools: each name once, the phases one after the other, and within a phase
\* as its own order has it.
LEMMA OrderToolsIs ==
  ASSUME NEW c, NEW names, NEW S, OnceEach(names, S), Phased(c, S)
  PROVE  /\ OnceEach(OrderTools(c, names), S)
         /\ \A s, t \in S :
              /\ c.phase[s] < c.phase[t] => Earlier(OrderTools(c, names), s, t)
              /\ /\ c.phase[s] = c.phase[t] /\ <<s, t>> \in c.precedes
                 /\ Cyclic(c, OfPhase(c, S, c.phase[t])) = {} \/ Earlier(names, s, t)
                 => Earlier(OrderTools(c, names), s, t)
<1> DEFINE Of(rank) == Among(names, OfPhase(c, S, rank))
           lists == [rank \in Ranks(c) |-> OrderPhase(c, Of(rank))]
<1>1. OrderTools(c, names) = FlattenSeq(lists)
  BY DEF OrderTools, OnceEach
<1>2. ASSUME NEW rank
      PROVE  /\ OnceEach(OrderPhase(c, Of(rank)), OfPhase(c, S, rank))
             /\ \A t \in OfPhase(c, S, rank) : \A s \in Preds(c, OfPhase(c, S, rank), t) :
                  Cyclic(c, OfPhase(c, S, rank)) = {} \/ Earlier(names, s, t)
                    => Earlier(OrderPhase(c, Of(rank)), s, t)
  <2> DEFINE same == OfPhase(c, S, rank)
             list == Of(rank)
  <2>1. /\ OnceEach(list, same)
        /\ \A s, t \in same : Earlier(names, s, t) => Earlier(list, s, t)
    <3>1. S \cap same = same
      BY DEF OfPhase
    <3>2. IsList(names) /\ IsInjective(names) /\ ToSet(names) = S
      BY DEF OnceEach
    <3>3. list = Among(names, same)
      OBVIOUS
    <3> HIDE DEF same, list
    <3> QED BY <3>1, <3>2, <3>3, AmongIs
  <2> HIDE DEF same, list
  <2>2. /\ OnceEach(OrderPhase(c, list), same)
        /\ \A t \in same : \A s \in Preds(c, same, t) :
             Cyclic(c, same) = {} \/ Earlier(list, s, t) => Earlier(OrderPhase(c, list), s, t)
    BY <2>1, OrderPhaseIs
  <2>3. \A t \in same : \A s \in Preds(c, same, t) : s \in same
    BY DEF Preds
  <2> QED BY <2>1, <2>2, <2>3 DEF same, list
<1>3. /\ lists = [rank \in Ranks(c) |-> lists[rank]]
      /\ \A rank \in Ranks(c) : OnceEach(lists[rank], OfPhase(c, S, rank))
  <2> HIDE DEF Of
  <2> QED BY <1>2
<1>4. ASSUME NEW s \in S, NEW t \in S, c.phase[s] = c.phase[t], <<s, t>> \in c.precedes,
             Cyclic(c, OfPhase(c, S, c.phase[t])) = {} \/ Earlier(names, s, t)
      PROVE  c.phase[t] \in Ranks(c) /\ Earlier(lists[c.phase[t]], s, t)
  <2>1. c.phase[t] \in Ranks(c)
    BY DEF Phased, Ranks
  <2>2. t \in OfPhase(c, S, c.phase[t]) /\ s \in Preds(c, OfPhase(c, S, c.phase[t]), t)
    BY <1>4 DEF OfPhase, Preds
  <2> HIDE DEF Of
  <2> QED BY <1>2, <1>4, <2>1, <2>2
<1> HIDE DEF lists
<1>5. /\ OnceEach(FlattenSeq(lists), S)
      /\ \A rank \in Ranks(c) : \A s, t :
           Earlier(lists[rank], s, t) => Earlier(FlattenSeq(lists), s, t)
      /\ \A s, t \in S : c.phase[s] < c.phase[t] => Earlier(FlattenSeq(lists), s, t)
  BY <1>3, PhasesAreLayers
<1> QED BY <1>1, <1>4, <1>5

-----------------------------------------------------------------------------
\* The order of a selection is what order_tools makes of the candidates.
OrderDecided ==
  /\ situation \in Situations
  /\ stage = "selected" =>
       /\ candidates \subseteq catalog.tools
       /\ ordered = OrderTools(catalog, Among(RegistryOrder(catalog, catalog.tools), candidates))

LEMMA OrderInit == Init => OrderDecided
BY DEF Init, OrderDecided

LEMMA OrderStep == OrderDecided /\ [Next]_vars => OrderDecided'
<1> SUFFICES ASSUME OrderDecided, [Next]_vars PROVE OrderDecided'
  OBVIOUS
<1>1. UNCHANGED situation
  BY DEF Next, vars, ActivateInternalLinters, BuildRuntimeContext, DiscoverFiles,
         RefuseUnknownTool, PlanSelection
<1>2. catalog' = catalog
  BY <1>1 DEF catalog
<1>3. CASE PlanSelection
  <2>1. candidates' \subseteq catalog.tools
    BY <1>3 DEF PlanSelection, RunCandidates
  <2>2. ordered' = OrderTools(catalog, Among(RegistryOrder(catalog, catalog.tools), candidates'))
    BY <1>3 DEF PlanSelection
  <2> QED BY <1>1, <1>2, <2>1, <2>2 DEF OrderDecided
<1>4. CASE UNCHANGED vars
  BY <1>1, <1>2, <1>4 DEF vars, OrderDecided
<1>5. CASE stage' # "selected"
  BY <1>1, <1>5 DEF OrderDecided
<1>6. PlanSelection \/ UNCHANGED vars \/ stage' # "selected"
  BY DEF Next, ActivateInternalLinters, BuildRuntimeContext, DiscoverFiles, RefuseUnknownTool
<1> QED BY <1>3, <1>4, <1>5, <1>6

\* Where a list without repetition holds its members
LEMMA PositionIs ==
  ASSUME NEW s, NEW t, NEW S, OnceEach(ordered, S), Earlier(ordered, s, t)
  PROVE  Position(s) < Position(t)
<1>1. PICK i, j \in DOMAIN ordered : i < j /\ ordered[i] = s /\ ordered[j] = t
  BY DEF Earlier
<1>2. Position(s) = i /\ Position(t) = j
  BY <1>1 DEF Position, OnceEach, IsInjective
<1> QED BY <1>1, <1>2

\* Each selected tool runs once, phase after phase, and declared dependencies within
\* a phase are honoured unless a cycle leads to the tool that has them: for every
\* catalog, whatever subset of its tools is selected.
THEOREM OrderHolds == Spec => []OrderIsSound
<1>1. OrderDecided => OrderIsSound
  <2> SUFFICES ASSUME OrderDecided, stage = "selected"
               PROVE  OrderIsSound
    BY DEF OrderIsSound
  <2> DEFINE c == catalog
             registry == RegistryOrder(c, c.tools)
             names == Among(registry, candidates)
  <2>1. /\ c.tools \subseteq Nat /\ IsFiniteSet(c.tools) /\ Phased(c, c.tools)
        /\ candidates \subseteq c.tools /\ ordered = OrderTools(c, names)
    <3>1. CatalogShape(c)
      BY SituationsAssumption DEF OrderDecided, catalog
    <3> QED BY <3>1 DEF CatalogShape, OrderDecided, Phased
  <2>2. Phased(c, candidates)
    BY <2>1 DEF Phased
  <2> HIDE DEF c
  <2>3. /\ OnceEach(registry, c.tools)
        /\ \A s, t \in c.tools :
             /\ c.phase[s] = c.phase[t] /\ <<s, t>> \in c.precedes
             /\ t \notin Cyclic(c, OfPhase(c, c.tools, c.phase[t]))
             => Earlier(registry, s, t)
    BY <2>1, RegistryOrderIs
  <2> HIDE DEF registry
  <2>4. /\ OnceEach(names, candidates)
        /\ \A s, t \in candidates : Earlier(registry, s, t) => Earlier(names, s, t)
    <3>1. c.tools \cap candidates = candidates
      BY <2>1
    <3>2. IsList(registry) /\ IsInjective(registry) /\ ToSet(registry) = c.tools
      BY <2>3 DEF OnceEach
    <3> QED BY <3>1, <3>2, AmongIs
  <2> HIDE DEF names
  <2>5. /\ OnceEach(ordered, candidates)
        /\ \A s, t \in candidates :
             /\ c.phase[s] < c.phase[t] => Earlier(ordered, s, t)
             /\ /\ c.phase[s] = c.phase[t] /\ <<s, t>> \in c.precedes
                /\ Cyclic(c, OfPhase(c, candidates, c.phase[t])) = {} \/ Earlier(names, s, t)
                => Earlier(ordered, s, t)
    <3>1. OnceEach(OrderTools(c, names), candidates)
          /\ \A s, t \in candidates :
               /\ c.phase[s] < c.phase[t] => Earlier(OrderTools(c, names), s, t)
               /\ /\ c.phase[s] = c.phase[t] /\ <<s, t>> \in c.precedes
                  /\ Cyclic(c, OfPhase(c, candidates, c.phase[t])) = {} \/ Earlier(names, s, t)
                  => Earlier(OrderTools(c, names), s, t)
      BY <2>2, <2>4, OrderToolsIs
    <3> QED BY <2>1, <3>1
  <2>6. ToSet(ordered) = candidates /\ Len(ordered) = Cardinality(candidates)
    BY <2>5, OnceLen DEF OnceEach
  <2>7. ASSUME NEW s \in candidates, NEW t \in candidates, Earlier(ordered, s, t)
        PROVE  Position(s) < Position(t)
    BY <2>5, <2>7, PositionIs
  <2>8. ASSUME NEW s \in candidates, NEW t \in candidates,
               c.phase[s] = c.phase[t], <<s, t>> \in c.precedes,
               \/ t \notin Blocked({u \in c.tools : c.phase[u] = c.phase[t]})
               \/ Blocked({u \in candidates : c.phase[u] = c.phase[t]}) = {}
        PROVE  Earlier(ordered, s, t)
    <3>1. \A S : Blocked(S) = Cyclic(c, S)
      BY DEF Blocked, Cyclic, c
    <3>2. \A S : OfPhase(c, S, c.phase[t]) = {u \in S : c.phase[u] = c.phase[t]}
      BY DEF OfPhase
    <3>3. s \in c.tools /\ t \in c.tools
      BY <2>1
    <3>4. CASE t \notin Blocked({u \in c.tools : c.phase[u] = c.phase[t]})
      <4>1. t \notin Cyclic(c, OfPhase(c, c.tools, c.phase[t]))
        BY <3>1, <3>2, <3>4
      <4>2. Earlier(names, s, t)
        BY <2>3, <2>4, <2>8, <3>3, <4>1
      <4> QED BY <2>5, <2>8, <4>2
    <3>5. CASE Blocked({u \in candidates : c.phase[u] = c.phase[t]}) = {}
      <4>1. Cyclic(c, OfPhase(c, candidates, c.phase[t])) = {}
        BY <3>1, <3>2, <3>5
      <4> QED BY <2>5, <2>8, <4>1
    <3> QED BY <2>8, <3>4, <3>5
  <2>9. ASSUME NEW s \in candidates, NEW t \in candidates, c.phase[s] < c.phase[t]
        PROVE  Earlier(ordered, s, t)
    BY <2>5, <2>9
  <2> QED BY <2>6, <2>7, <2>8, <2>9 DEF OrderIsSound, c
<1>2. Spec => []OrderDecided
  BY OrderInit, OrderStep, PTL DEF Spec
<1> QED BY <1>1, <1>2, PTL
==============================================================================
