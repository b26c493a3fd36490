-------------------------- MODULE DiagnosticsProofs --------------------------
(***************************************************************************)
(* For any diagnostics, tools and preference lists: what the fold of       *)
(* dedupe_outcomes puts in a diagnostic's place is never worse than it,    *)
(* every entry of the fold is listed once by the outcome that reported it, *)
(* and of the copies of a piece of code an outcome reports one at most.    *)
(***************************************************************************)
EXTENDS Diagnostics, ListTheorems

-----------------------------------------------------------------------------
(* The preference list orders the tools: the listed ones by their first    *)
(* place in it, before all others.                                         *)

\* The first occurrence is what counts, so no tool comes before itself and no
\* two before each other.
LEMMA BeforeAsymmetric ==
  ASSUME cfg \in Configs, NEW a, NEW b, Before(a, b)
  PROVE  ~Before(b, a)
<1>1. SUFFICES ASSUME Before(b, a) PROVE FALSE
  OBVIOUS
<1>2. PICK i \in DOMAIN cfg.prefer :
        cfg.prefer[i] = a.tool /\ \A j \in 1..i : cfg.prefer[j] # b.tool
  BY DEF Before
<1>3. PICK k \in DOMAIN cfg.prefer :
        cfg.prefer[k] = b.tool /\ \A j \in 1..k : cfg.prefer[j] # a.tool
  BY <1>1 DEF Before
<1>4. i \in Nat \ {0} /\ k \in Nat \ {0}
  BY ConfigsAssumption
<1>5. CASE i <= k
  BY <1>2, <1>3, <1>4, <1>5
<1>6. CASE k <= i
  BY <1>2, <1>3, <1>4, <1>6
<1> QED BY <1>4, <1>5, <1>6

\* A third tool is behind the first or before the second of two ordered ones.
LEMMA BeforeBetween ==
  ASSUME cfg \in Configs, NEW a, NEW b, NEW c, Before(a, c)
  PROVE  Before(a, b) \/ Before(b, c)
<1>1. PICK i \in DOMAIN cfg.prefer :
        cfg.prefer[i] = a.tool /\ \A j \in 1..i : cfg.prefer[j] # c.tool
  BY DEF Before
<1>2. i \in Nat \ {0} /\ 1..i \subseteq DOMAIN cfg.prefer
  BY ConfigsAssumption
<1>3. CASE \A j \in 1..i : cfg.prefer[j] # b.tool
  BY <1>1, <1>3 DEF Before
<1>4. ASSUME NEW j \in 1..i, cfg.prefer[j] = b.tool
      PROVE  Before(b, c)
  <2>1. \A l \in 1..j : cfg.prefer[l] # c.tool
    BY <1>1, <1>2
  <2> QED BY <1>2, <1>4, <2>1 DEF Before
<1> QED BY <1>3, <1>4

LEMMA BeforeTransitive ==
  ASSUME cfg \in Configs, NEW a, NEW b, NEW c, Before(a, b), Before(b, c)
  PROVE  Before(a, c)
BY BeforeAsymmetric, BeforeBetween

-----------------------------------------------------------------------------
(* "At least as good" is what the strategy's choice keeps.                 *)

Ranked(d) == d.severity \in Severities

LEMMA RankIsNumber == ASSUME NEW d, Ranked(d) PROVE Rank[d.severity] \in Nat
BY DEF Ranked, Severities, Rank

LEMMA GoodReflexive ==
  ASSUME cfg \in Configs, NEW d, Ranked(d)
  PROVE  AtLeastAsGood(d, d)
BY RankIsNumber, BeforeAsymmetric DEF AtLeastAsGood

LEMMA GoodTransitive ==
  ASSUME cfg \in Configs, NEW a, NEW b, NEW c, Ranked(a), Ranked(b), Ranked(c),
         AtLeastAsGood(a, b), AtLeastAsGood(b, c)
  PROVE  AtLeastAsGood(a, c)
<1>1. Rank[a.severity] \in Nat /\ Rank[b.severity] \in Nat /\ Rank[c.severity] \in Nat
  BY RankIsNumber
<1>2. CASE cfg.by = "severity"
  BY <1>1, <1>2 DEF AtLeastAsGood
<1>3. CASE cfg.by = "prefer"
  <2>1. ~Before(c, a)
    BY <1>3, BeforeBetween DEF AtLeastAsGood
  <2>2. ASSUME ~Before(a, c) PROVE Rank[a.severity] >= Rank[c.severity]
    <3>1. ~Before(a, b) /\ ~Before(b, c)
      BY <1>3, <2>2, BeforeBetween, BeforeTransitive, BeforeAsymmetric DEF AtLeastAsGood
    <3> QED BY <1>1, <1>3, <3>1 DEF AtLeastAsGood
  <2> QED BY <1>3, <2>1, <2>2 DEF AtLeastAsGood
<1>4. CASE cfg.by \notin {"severity", "prefer"}
  BY <1>4 DEF AtLeastAsGood
<1> QED BY <1>2, <1>3, <1>4

\* Without the pair of codes that overrides the strategy, the newcomer replaces
\* what it is better than, and nothing else.
LEMMA ReplacesKeepsGood ==
  ASSUME cfg \in Configs, NEW a, NEW d, Ranked(a), Ranked(d), a.code \notin PreferredPair
  PROVE  /\ Replaces(a, d) => AtLeastAsGood(d, a)
         /\ ~Replaces(a, d) => AtLeastAsGood(a, d)
         /\ cfg.by = "first" => ~Replaces(a, d)
<1>1. Rank[a.severity] \in Nat /\ Rank[d.severity] \in Nat
  BY RankIsNumber
<1>2. ~ByCode(a, d)
  BY DEF ByCode
<1> QED BY <1>1, <1>2, BeforeAsymmetric DEF Replaces, AtLeastAsGood, MoreSevere

-----------------------------------------------------------------------------
(* What the pipeline hands to the fold has a severity.                     *)

LEMMA RuledIsSeverity ==
  ASSUME NEW raw \in Candidates
  PROVE  RuledSeverity(raw.tool, raw.code, Coerced(raw.severity)) \in Severities
<1> DEFINE rules == Rules[raw.tool]
           finds(i) == raw.code \in rules[i].codes
           decides(i) == finds(i) /\ \A j \in 1..(i - 1) : ~finds(j)
           choice == CHOOSE i \in DOMAIN rules : decides(i)
<1>1. Coerced(raw.severity) \in Severities
  BY DEF Coerced, Severities
<1>2. RuledSeverity(raw.tool, raw.code, Coerced(raw.severity)) =
        IF \E i \in DOMAIN rules : decides(i) THEN rules[choice].severity
        ELSE Coerced(raw.severity)
  BY DEF RuledSeverity
<1>3. (\E i \in DOMAIN rules : decides(i)) => choice \in DOMAIN rules
  <2> HIDE DEF decides
  <2> QED OBVIOUS
<1>4. \A i \in DOMAIN rules : rules[i].severity \in Severities
  BY RulesAssumption
<1> HIDE DEF choice, decides
<1> QED BY <1>1, <1>2, <1>3, <1>4

LEMMA ReportedIsRanked ==
  ASSUME NEW raw \in Candidates
  PROVE  Ranked(Relocated(Normalized(raw)))
<1> DEFINE severity == RuledSeverity(raw.tool, raw.code, Coerced(raw.severity))
<1>1. severity \in Severities
  BY RuledIsSeverity
<1>2. "severity" \in DOMAIN raw /\ (raw.ready => raw.severity \in Severities)
  BY CandidatesAssumption
<1> HIDE DEF severity
<1>3. Normalized(raw).severity \in Severities
  <2>1. CASE raw.ready
    BY <1>2, <2>1 DEF Normalized
  <2>2. CASE ~raw.ready
    BY <1>1, <1>2, <2>2 DEF Normalized, severity
  <2> QED BY <2>1, <2>2
<1>4. \A d : Relocated(d).severity = d.severity
  BY DEF Relocated
<1> QED BY <1>3, <1>4 DEF Ranked

-----------------------------------------------------------------------------
(* The fold                                                                *)

Reported == {Relocated(Normalized(raw)) : raw \in Candidates}

ReportType == [diagnostic : Reported, outcome : 1..Outcomes]
EntryType == [report : Nat, outcome : 1..Outcomes]

FoldInv ==
  /\ cfg \in Configs
  /\ reports \in Seq(ReportType)
  /\ running \in 1..Outcomes
  /\ position \in 1..(Len(reports) + 1)
  /\ kept \in Seq(EntryType)
  /\ entryOf \in Seq(Nat) /\ Len(entryOf) = position - 1
  /\ \A e \in 1..Len(kept) : kept[e].report \in 1..(position - 1)
  /\ \A r \in 1..(position - 1) : entryOf[r] \in 1..Len(kept)
  /\ phase = "collect" => position = 1

Best == \A r \in 1..Len(entryOf) :
  AtLeastAsGood(Diagnostic(kept[entryOf[r]]), reports[r].diagnostic)

Distinct == \A i, j \in 1..Len(kept) :
  i < j => ~IsDuplicate(Diagnostic(kept[i]), Diagnostic(kept[j]))

SettledInv ==
  NoPreferredPair => Best /\ (cfg.by = "first" => Distinct)

LEMMA AllRanked ==
  ASSUME FoldInv
  PROVE  /\ \A r \in 1..Len(reports) : Ranked(reports[r].diagnostic)
         /\ \A e \in 1..Len(kept) : Ranked(Diagnostic(kept[e]))
<1>1. \A d \in Reported : Ranked(d)
  BY ReportedIsRanked DEF Reported
<1>2. \A r \in 1..Len(reports) : Ranked(reports[r].diagnostic)
  <2>1. \A r \in 1..Len(reports) : reports[r] \in ReportType
    BY DEF FoldInv
  <2> QED BY <1>1, <2>1 DEF ReportType
<1>3. \A e \in 1..Len(kept) : kept[e].report \in 1..Len(reports)
  BY DEF FoldInv
<1> QED BY <1>2, <1>3 DEF Diagnostic

LEMMA FoldInit == Init => FoldInv /\ SettledInv
BY NumbersAssumption DEF Init, FoldInv, SettledInv, Best, Distinct

LEMMA FoldStep == FoldInv /\ [Next]_vars => FoldInv'
<1> SUFFICES ASSUME FoldInv, [Next]_vars PROVE FoldInv'
  OBVIOUS
<1> USE NumbersAssumption
<1>1. ASSUME NEW raw \in Candidates, Report(raw) PROVE FoldInv'
  <2> DEFINE d == Relocated(Normalized(raw))
             report == [diagnostic |-> d, outcome |-> running]
  <2>1. report \in ReportType
    BY DEF Reported, ReportType, FoldInv
  <2>2. reports' = reports \/ reports' = Append(reports, report)
    BY <1>1 DEF Report
  <2> HIDE DEF d, report
  <2>3. reports' \in Seq(ReportType) /\ Len(reports') \in Nat /\ Len(reports') >= Len(reports)
    <3>1. reports \in Seq(ReportType)
      BY DEF FoldInv
    <3>2. CASE reports' = reports
      BY <3>1, <3>2
    <3>3. CASE reports' = Append(reports, report)
      BY <2>1, <3>1, <3>3
    <3> QED BY <2>2, <3>2, <3>3
  <2>4. phase = "collect" /\ UNCHANGED <<cfg, phase, running, position, kept, entryOf>>
    BY <1>1 DEF Report
  <2> QED BY <2>3, <2>4 DEF FoldInv
<1>2. CASE NextTool
  BY <1>2 DEF NextTool, FoldInv
<1>3. CASE StartDedupe
  BY <1>3 DEF StartDedupe, FoldInv
<1>4. CASE FoldDuplicate
  <2>1. /\ phase = "dedupe" /\ position <= Len(reports) /\ position' = position + 1
        /\ UNCHANGED <<cfg, phase, running, reports>>
    BY <1>4 DEF FoldDuplicate
  <2>2. PICK first \in 1..Len(kept) :
          /\ \/ kept' = [kept EXCEPT ![first] = Replaced(@, position)]
             \/ kept' = kept
          /\ entryOf' = Append(entryOf, first)
    <3>1. DOMAIN kept = 1..Len(kept)
      BY DEF FoldInv
    <3>2. PICK first \in Matches(reports[position].diagnostic, reports[position].outcome) :
            /\ kept' = IF Replaces(Diagnostic(kept[first]), reports[position].diagnostic)
                       THEN [kept EXCEPT ![first] = Replaced(@, position)] ELSE kept
            /\ entryOf' = Append(entryOf, first)
      BY <1>4 DEF FoldDuplicate
    <3>3. first \in 1..Len(kept)
      BY <3>1, <3>2 DEF Matches
    <3> QED BY <3>2, <3>3
  <2>3. Replaced(kept[first], position) \in EntryType
        /\ Replaced(kept[first], position).report = position
    <3>1. reports[position] \in ReportType
      BY <2>1 DEF FoldInv
    <3>2. reports[position].outcome \in 1..Outcomes
      BY <3>1 DEF ReportType
    <3>3. position \in Nat
      BY DEF FoldInv
    <3> QED BY <3>2, <3>3 DEF Replaced, EntryType
  <2>4. /\ kept' \in Seq(EntryType) /\ Len(kept') = Len(kept)
        /\ \A e \in 1..Len(kept) :
             kept'[e].report = kept[e].report \/ kept'[e].report = position
    <3>1. kept \in Seq(EntryType)
      BY DEF FoldInv
    <3>2. CASE kept' = kept
      BY <3>1, <3>2
    <3>3. CASE kept' = [kept EXCEPT ![first] = Replaced(@, position)]
      BY <2>3, <3>1, <3>3
    <3> QED BY <2>2, <3>2, <3>3
  <2>5. /\ entryOf' \in Seq(Nat) /\ Len(entryOf') = position
        /\ \A r \in 1..position : entryOf'[r] \in 1..Len(kept)
    BY <2>1, <2>2 DEF FoldInv
  <2>6. \A e \in 1..Len(kept') : kept'[e].report \in 1..position
    <3>1. position \in Nat \ {0}
      BY DEF FoldInv
    <3>2. \A e \in 1..Len(kept) : kept[e].report \in 1..(position - 1)
      BY DEF FoldInv
    <3> QED BY <2>4, <3>1, <3>2
  <2>7. position' \in 1..(Len(reports') + 1)
    BY <2>1 DEF FoldInv
  <2> QED BY <2>1, <2>4, <2>5, <2>6, <2>7 DEF FoldInv
<1>5. CASE FoldNew
  <2> DEFINE entry == [report |-> position, outcome |-> reports[position].outcome]
  <2>1. /\ phase = "dedupe" /\ position <= Len(reports) /\ position' = position + 1
        /\ kept' = Append(kept, entry) /\ entryOf' = Append(entryOf, Len(kept'))
        /\ UNCHANGED <<cfg, phase, running, reports>>
    BY <1>5 DEF FoldNew
  <2>2. entry \in EntryType /\ entry.report = position
    <3>1. reports[position] \in ReportType
      BY <2>1 DEF FoldInv
    <3> QED BY <3>1 DEF ReportType, EntryType, FoldInv
  <2> HIDE DEF entry
  <2>3. /\ kept' \in Seq(EntryType)
        /\ Len(kept') = Len(kept) + 1 /\ kept'[Len(kept) + 1] = entry
        /\ \A e \in 1..Len(kept) : kept'[e] = kept[e]
    BY <2>1, <2>2 DEF FoldInv
  <2>4. /\ entryOf' \in Seq(Nat) /\ Len(entryOf') = position
        /\ \A r \in 1..position : entryOf'[r] \in 1..Len(kept')
    BY <2>1, <2>3 DEF FoldInv
  <2>5. \A e \in 1..Len(kept') : kept'[e].report \in 1..position
    BY <2>1, <2>2, <2>3 DEF FoldInv
  <2>6. position' \in 1..(Len(reports') + 1) /\ position' - 1 = position
    BY <2>1 DEF FoldInv
  <2>7. /\ cfg' \in Configs /\ reports' \in Seq(ReportType) /\ running' \in 1..Outcomes
        /\ phase' # "collect"
    BY <2>1 DEF FoldInv
  <2> QED BY <2>3, <2>4, <2>5, <2>6, <2>7 DEF FoldInv
<1>6. CASE Finish
  BY <1>6 DEF Finish, FoldInv
<1>7. CASE UNCHANGED vars
  BY <1>7 DEF vars, FoldInv
<1> QED BY <1>1, <1>2, <1>3, <1>4, <1>5, <1>6, <1>7 DEF Next, Done
-----------------------------------------------------------------------------
\* Whether one diagnostic is a duplicate of another, or better, is a matter of
\* the configuration, which a run keeps.
LEMMA SameJudgement ==
  ASSUME cfg' = cfg, NEW a, NEW b
  PROVE  /\ IsDuplicate(a, b)' <=> IsDuplicate(a, b)
         /\ AtLeastAsGood(a, b)' <=> AtLeastAsGood(a, b)
BY DEF IsDuplicate, WithinSameScope, AtLeastAsGood, Before

LEMMA SettledStep == FoldInv /\ SettledInv /\ [Next]_vars => SettledInv'
<1> SUFFICES ASSUME FoldInv, SettledInv, [Next]_vars, NoPreferredPair'
             PROVE  Best' /\ (cfg.by = "first" => Distinct)'
  BY DEF SettledInv
<1>0. FoldInv'
  BY FoldStep
<1>1. ASSUME phase = "collect", kept' = kept, entryOf' = entryOf
      PROVE  Best' /\ (cfg.by = "first" => Distinct)'
  <2>1. Len(entryOf) = 0 /\ Len(kept) = 0
    <3>1. Len(entryOf) = 0 /\ Len(kept) \in Nat /\ \A e \in 1..Len(kept) : kept[e].report \in 1..0
      BY <1>1 DEF FoldInv
    <3> QED BY <3>1
  <2> QED BY <1>1, <2>1 DEF Best, Distinct
<1>2. ASSUME UNCHANGED <<cfg, reports, kept, entryOf>>
      PROVE  Best' /\ (cfg.by = "first" => Distinct)'
  BY <1>2, SameJudgement DEF SettledInv, NoPreferredPair, Best, Distinct, Diagnostic
\* The two steps of the fold
<1>3. ASSUME FoldDuplicate \/ FoldNew
      PROVE  /\ reports' = reports /\ cfg' = cfg
             /\ NoPreferredPair /\ Best /\ (cfg.by = "first" => Distinct)
             /\ \A r \in 1..Len(reports) : reports[r].diagnostic.code \notin PreferredPair
  <2>1. reports' = reports /\ cfg' = cfg
    BY <1>3 DEF FoldDuplicate, FoldNew
  <2>2. NoPreferredPair
    BY <2>1 DEF NoPreferredPair
  <2>3. \A r \in 1..Len(reports) : reports[r].diagnostic.code \notin PreferredPair
    BY <2>2 DEF NoPreferredPair, FoldInv
  <2> QED BY <2>1, <2>2, <2>3 DEF SettledInv
<1>4. CASE FoldDuplicate
  <2>1. reports' = reports /\ cfg' = cfg /\ Best /\ (cfg.by = "first" => Distinct)
    BY <1>3, <1>4
  <2> DEFINE d == reports[position].diagnostic
  <2>2. position \in 1..Len(reports) /\ position' = position + 1
    BY <1>4 DEF FoldDuplicate, FoldInv
  <2>3. PICK first \in Matches(d, reports[position].outcome) :
          /\ kept' = IF Replaces(Diagnostic(kept[first]), d)
                     THEN [kept EXCEPT ![first] = Replaced(@, position)] ELSE kept
          /\ entryOf' = Append(entryOf, first)
    BY <1>4 DEF FoldDuplicate
  <2>4. first \in 1..Len(kept) /\ Len(kept') = Len(kept)
    <3>1. kept \in Seq(EntryType) /\ DOMAIN kept = 1..Len(kept)
      BY DEF FoldInv
    <3> QED BY <2>3, <3>1 DEF Matches
  <2> DEFINE old == Diagnostic(kept[first])
  <2>5. Ranked(d) /\ Ranked(old) /\ old.code \notin PreferredPair
    <3>1. kept[first].report \in 1..Len(reports)
      <4>1. kept[first].report \in 1..(position - 1)
        BY <2>4 DEF FoldInv
      <4> QED BY <2>2, <4>1
    <3> QED BY <1>3, <1>4, <2>2, <2>4, <3>1, AllRanked DEF Diagnostic
  <2>6. \A e \in 1..Len(kept) :
          Diagnostic(kept'[e]) =
            IF e = first /\ Replaces(old, d) THEN d ELSE Diagnostic(kept[e])
    <3>1. kept \in Seq(EntryType)
      BY DEF FoldInv
    <3>2. CASE Replaces(old, d)
      <4> HIDE DEF d, old
      <4>1. kept' = [kept EXCEPT ![first] = Replaced(@, position)]
        BY <2>3, <3>2 DEF d, old
      <4>2. \A e \in 1..Len(kept) :
              kept'[e] = IF e = first THEN Replaced(kept[first], position) ELSE kept[e]
        BY <3>1, <4>1
      <4> QED BY <3>2, <4>2 DEF Diagnostic, Replaced, d
    <3>3. CASE ~Replaces(old, d)
      BY <2>3, <3>3
    <3> QED BY <3>2, <3>3
  <2>7. AtLeastAsGood(Diagnostic(kept'[first]), d) /\ AtLeastAsGood(Diagnostic(kept'[first]), old)
    <3>1. cfg \in Configs
      BY DEF FoldInv
    <3> HIDE DEF d, old
    <3>2. CASE Replaces(old, d)
      BY <2>4, <2>5, <2>6, <3>1, <3>2, ReplacesKeepsGood, GoodReflexive
    <3>3. CASE ~Replaces(old, d)
      <4>1. Diagnostic(kept'[first]) = old
        BY <2>4, <2>6, <3>3 DEF old
      <4> QED BY <2>5, <3>1, <3>3, <4>1, ReplacesKeepsGood, GoodReflexive
    <3> QED BY <3>2, <3>3
  <2>8. ASSUME NEW r \in 1..Len(entryOf')
        PROVE  AtLeastAsGood(Diagnostic(kept'[entryOf'[r]]), reports[r].diagnostic)
    <3>1. /\ entryOf \in Seq(Nat) /\ Len(entryOf) = position - 1
          /\ position \in 1..(Len(reports) + 1)
          /\ \A s \in 1..(position - 1) : entryOf[s] \in 1..Len(kept)
      BY DEF FoldInv
    <3>2. CASE r = position
      <4>1. entryOf'[r] = first
        BY <2>2, <2>3, <2>4, <3>1, <3>2
      <4> QED BY <2>7, <3>2, <4>1
    <3>3. CASE r # position
      <4>1. r \in 1..Len(entryOf) /\ r \in 1..Len(reports)
            /\ entryOf'[r] = entryOf[r] /\ entryOf[r] \in 1..Len(kept)
        <5>1. Len(entryOf') = Len(entryOf) + 1
          BY <2>2, <2>3, <2>4, <3>1
        <5>2. r \in 1..(position - 1)
          BY <3>1, <3>3, <5>1
        <5>3. entryOf'[r] = entryOf[r]
          BY <2>2, <2>3, <2>4, <3>1, <5>2
        <5> QED BY <3>1, <5>2, <5>3
      <4>2. AtLeastAsGood(Diagnostic(kept[entryOf[r]]), reports[r].diagnostic)
        BY <2>1, <4>1 DEF Best
      <4>3. CASE entryOf[r] # first
        BY <2>6, <4>1, <4>2, <4>3
      <4>4. CASE entryOf[r] = first
        <5>1. Ranked(Diagnostic(kept'[first])) /\ Ranked(reports[r].diagnostic)
          BY <2>4, <2>5, <2>6, <4>1, AllRanked
        <5>2. cfg \in Configs
          BY DEF FoldInv
        <5> HIDE DEF d, old
        <5> QED BY <2>5, <2>7, <4>1, <4>2, <4>4, <5>1, <5>2, GoodTransitive DEF old
      <4> QED BY <4>3, <4>4
    <3> QED BY <3>2, <3>3
  <2>9. Best'
    BY <2>1, <2>8, SameJudgement DEF Best, Diagnostic
  <2>10. cfg.by = "first" => Distinct'
    <3>1. cfg \in Configs
      BY DEF FoldInv
    <3>2. cfg.by = "first" => kept' = kept
      BY <2>3, <2>5, <3>1, ReplacesKeepsGood
    <3> QED BY <2>1, <3>2, SameJudgement DEF Distinct, Diagnostic
  <2> QED BY <2>1, <2>9, <2>10
<1>5. CASE FoldNew
  <2>1. reports' = reports /\ cfg' = cfg /\ Best /\ (cfg.by = "first" => Distinct)
    BY <1>3, <1>5
  <2> DEFINE d == reports[position].diagnostic
             entry == [report |-> position, outcome |-> reports[position].outcome]
  <2>2. /\ position \in 1..Len(reports) /\ kept' = Append(kept, entry)
        /\ entryOf' = Append(entryOf, Len(kept')) /\ Matches(d, reports[position].outcome) = {}
    BY <1>5 DEF FoldNew, FoldInv
  <2>3. entry \in EntryType /\ Diagnostic(entry) = d
    <3>1. reports[position] \in ReportType
      BY <2>2 DEF FoldInv
    <3> QED BY <2>2, <3>1 DEF ReportType, EntryType, Diagnostic
  <2> HIDE DEF entry
  <2>4. /\ Len(kept') = Len(kept) + 1 /\ Len(kept) \in Nat /\ kept'[Len(kept')] = entry
        /\ \A e \in 1..Len(kept) : kept'[e] = kept[e]
    <3>1. kept \in Seq(EntryType)
      BY DEF FoldInv
    <3> QED BY <2>2, <2>3, <3>1
  <2>5. ASSUME NEW r \in 1..Len(entryOf')
        PROVE  AtLeastAsGood(Diagnostic(kept'[entryOf'[r]]), reports[r].diagnostic)
    <3>1. entryOf \in Seq(Nat) /\ Len(entryOf) = position - 1 /\ cfg \in Configs
      BY DEF FoldInv
    <3>2. CASE r = position
      <4>1. entryOf'[r] = Len(kept')
        BY <2>2, <2>4, <3>1, <3>2
      <4> QED BY <2>2, <2>3, <2>4, <3>1, <3>2, <4>1, AllRanked, GoodReflexive
    <3>3. CASE r # position
      <4>1. r \in 1..Len(entryOf) /\ entryOf'[r] = entryOf[r] /\ entryOf[r] \in 1..Len(kept)
        BY <2>2, <2>4, <3>1, <3>3 DEF FoldInv
      <4> QED BY <2>1, <2>4, <4>1 DEF Best
    <3> QED BY <3>2, <3>3
  <2>6. Best'
    BY <2>1, <2>5, SameJudgement DEF Best, Diagnostic
  <2>7. ASSUME cfg.by = "first", NEW i \in 1..Len(kept'), NEW j \in 1..Len(kept'), i < j
        PROVE  ~IsDuplicate(Diagnostic(kept'[i]), Diagnostic(kept'[j]))
    <3>1. i \in 1..Len(kept) /\ kept'[i] = kept[i] /\ (j \in 1..Len(kept) \/ j = Len(kept'))
      BY <2>4, <2>7
    <3>2. DOMAIN kept = 1..Len(kept)
      BY DEF FoldInv
    <3>3. ~IsDuplicate(Diagnostic(kept[i]), d)
      BY <2>2, <3>1, <3>2 DEF Matches
    <3>4. CASE j \in 1..Len(kept)
      BY <2>1, <2>4, <2>7, <3>1, <3>4 DEF Distinct
    <3>5. CASE j = Len(kept')
      BY <2>3, <2>4, <3>1, <3>3, <3>5
    <3> QED BY <3>1, <3>4, <3>5
  <2>8. cfg.by = "first" => Distinct'
    BY <2>1, <2>7, SameJudgement DEF Distinct, Diagnostic
  <2> QED BY <2>1, <2>6, <2>8
<1> QED BY <1>1, <1>2, <1>4, <1>5 DEF Next, Report, NextTool, StartDedupe, Finish, Done, vars

THEOREM FoldInvariant == Spec => [](FoldInv /\ SettledInv)
BY FoldInit, FoldStep, SettledStep, PTL DEF Spec
-----------------------------------------------------------------------------
\* No error is folded away behind a warning, and no diagnostic of a preferred
\* tool behind one of another, whatever the preferences.
THEOREM NothingLost == Spec => []NothingBetterIsLost
<1>1. FoldInv /\ SettledInv => NothingBetterIsLost
  <2> SUFFICES ASSUME FoldInv, SettledInv, NoPreferredPair, NEW r \in DOMAIN entryOf
               PROVE  AtLeastAsGood(Diagnostic(kept[entryOf[r]]), reports[r].diagnostic)
    BY DEF NothingBetterIsLost
  <2>1. r \in 1..Len(entryOf)
    BY DEF FoldInv
  <2> QED BY <2>1 DEF SettledInv, Best
<1> QED BY <1>1, FoldInvariant, PTL

\* With the strategy "first" the survivors are no duplicates of each other.
THEOREM FirstIsSettled == Spec => []FirstSettles
<1>1. FoldInv /\ SettledInv => FirstSettles
  <2> SUFFICES ASSUME FoldInv, SettledInv, cfg.by = "first", NoPreferredPair,
                      NEW i \in DOMAIN kept, NEW j \in DOMAIN kept, i < j
               PROVE  ~IsDuplicate(Diagnostic(kept[i]), Diagnostic(kept[j]))
    BY DEF FirstSettles
  <2>1. i \in 1..Len(kept) /\ j \in 1..Len(kept)
    BY DEF FoldInv
  <2> QED BY <2>1 DEF SettledInv, Distinct
<1> QED BY <1>1, FoldInvariant, PTL
-----------------------------------------------------------------------------
(* Copies of a piece of code                                               *)

\* The primary place of a copy is one that its message lists.
LEMMA PrimaryIsListed ==
  ASSUME NEW d, Places(d) \in Seq(ToSet(Places(d))), Places(d) # <<>>
  PROVE  \E i \in DOMAIN Places(d) : Primary(d) = Places(d)[i]
<1> DEFINE own == {i \in DOMAIN Places(d) : Places(d)[i].file = d.file}
           code == {i \in DOMAIN Places(d) : Places(d)[i].file \notin TestFiles}
           choice == IF own # {} THEN own ELSE IF code # {} THEN code ELSE DOMAIN Places(d)
<1>1. choice \subseteq DOMAIN Places(d) /\ DOMAIN Places(d) \subseteq Nat
  OBVIOUS
<1>2. choice # {}
  <2>1. Len(Places(d)) \in Nat \ {0} /\ DOMAIN Places(d) = 1..Len(Places(d))
    BY EmptySeq
  <2>2. 1 \in DOMAIN Places(d)
    BY <2>1
  <2> QED BY <2>2
<1>3. Primary(d) = Places(d)[Min(choice)]
  BY DEF Primary
<1> HIDE DEF choice
<1>4. \E i \in choice : \A j \in choice : i <= j
  BY <1>1, <1>2, LeastNatural
<1>5. Min(choice) \in choice
  BY <1>4 DEF Min
<1> QED BY <1>1, <1>3, <1>5

\* Only the place of a diagnostic is moved.
LEMMA RelocatedKeeps ==
  ASSUME NEW d
  PROVE  /\ Relocated(d).tool = d.tool /\ Relocated(d).code = d.code
         /\ Relocated(d).message = d.message
BY DEF Relocated

LEMMA NormalizedKeeps ==
  ASSUME NEW raw
  PROVE  /\ Normalized(raw).tool = raw.tool /\ Normalized(raw).code = raw.code
         /\ Normalized(raw).message = raw.message /\ Normalized(raw).file = raw.file
         /\ Normalized(raw).line = raw.line /\ Normalized(raw).function = raw.function
         /\ DOMAIN Normalized(raw) = DOMAIN raw
BY DEF Normalized

\* A copy that passes the filters is at a place its message lists, outside the
\* tests, and is the first of its group.
LEMMA CopyPasses ==
  ASSUME NEW raw \in Candidates, NEW groups, Copy(Normalized(raw)),
         ~Filtered(Normalized(raw), groups)
  PROVE  LET d == Relocated(Normalized(raw)) IN
         /\ d.file \notin TestFiles
         /\ \E i \in DOMAIN Places(d) : Places(d)[i].file = d.file
         /\ GroupKey(d) \notin groups
         /\ SeenAfter(Normalized(raw), groups) = groups \union {GroupKey(d)}
<1> DEFINE n == Normalized(raw)
           d == Relocated(n)
<1>1. /\ Places(n) = Copies[raw.message] /\ "file" \in DOMAIN n
      /\ Places(d) = Places(n) /\ GroupKey(d) = GroupKey(n)
  BY NormalizedKeeps, RelocatedKeeps, CandidatesAssumption DEF Places, GroupKey
<1>2. n.tool = "pylint" /\ n.code \in DuplicateCodes /\ Copy(n)
  BY DEF Copy
<1> HIDE DEF n
<1>3. /\ Places(n) # <<>> /\ \A i \in DOMAIN Places(n) : Places(n)[i].file \notin InitFiles
      /\ GroupKey(n) \notin groups /\ n.message \notin Suppressed
      /\ d.file \notin TestFiles
  BY <1>2 DEF Filtered, RedundantCopy, SuppressedTestCodes, n
<1>4. d.file = Primary(n).file
  BY <1>1, <1>2, <1>3 DEF Relocated
<1>5. Places(n) \in Seq(ToSet(Places(n)))
  BY <1>1, CopiesAssumption
<1>6. \E i \in DOMAIN Places(n) : Primary(n) = Places(n)[i]
  BY <1>3, <1>5, PrimaryIsListed
<1>7. SeenAfter(n, groups) = groups \union {GroupKey(n)}
  BY <1>2, <1>3 DEF SeenAfter
<1> HIDE DEF d
<1>8. \E i \in DOMAIN Places(d) : Places(d)[i].file = d.file
  BY <1>1, <1>4, <1>6
<1> QED BY <1>1, <1>3, <1>7, <1>8 DEF n, d

LEMMA SeenGrows == ASSUME NEW d, NEW groups PROVE groups \subseteq SeenAfter(d, groups)
BY DEF SeenAfter

\* The groups seen are those of the copies of the running outcome.
CopiesInv ==
  /\ \A r \in 1..Len(reports) : reports[r].outcome <= running
  /\ \A r \in 1..Len(reports) :
       Copy(reports[r].diagnostic) =>
         /\ reports[r].diagnostic.file \notin TestFiles
         /\ \E i \in DOMAIN Places(reports[r].diagnostic) :
              Places(reports[r].diagnostic)[i].file = reports[r].diagnostic.file
         /\ reports[r].outcome = running => GroupKey(reports[r].diagnostic) \in seen
  /\ \A r, s \in 1..Len(reports) :
       /\ Copy(reports[r].diagnostic) /\ Copy(reports[s].diagnostic)
       /\ reports[s].outcome = reports[r].outcome
       /\ GroupKey(reports[s].diagnostic) = GroupKey(reports[r].diagnostic)
       => s = r

LEMMA CopiesStep == FoldInv /\ CopiesInv /\ [Next]_vars => CopiesInv'
<1> SUFFICES ASSUME FoldInv, CopiesInv, [Next]_vars PROVE CopiesInv'
  OBVIOUS
<1>0. reports \in Seq(ReportType) /\ running \in Nat
  BY NumbersAssumption DEF FoldInv
<1>1. ASSUME NEW raw \in Candidates, Report(raw) PROVE CopiesInv'
  <2> DEFINE n == Normalized(raw)
             d == Relocated(n)
             report == [diagnostic |-> d, outcome |-> running]
  <2>1. /\ running' = running /\ seen' = SeenAfter(n, seen)
        /\ reports' = IF Filtered(n, seen) THEN reports ELSE Append(reports, report)
    BY <1>1 DEF Report
  <2>2. seen \subseteq seen'
    BY <2>1, SeenGrows
  <2>3. CASE Filtered(n, seen)
    BY <2>1, <2>2, <2>3 DEF CopiesInv
  <2>4. CASE ~Filtered(n, seen)
    <3>1. Copy(d) => /\ d.file \notin TestFiles
                     /\ \E i \in DOMAIN Places(d) : Places(d)[i].file = d.file
                     /\ GroupKey(d) \notin seen /\ GroupKey(d) \in seen'
      <4>1. Copy(d) => Copy(n)
        BY RelocatedKeeps DEF Copy
      <4> QED BY <2>1, <2>4, <4>1, CopyPasses
    <3>2. reports' = Append(reports, report) /\ report.diagnostic = d /\ report.outcome = running
      BY <2>1, <2>4
    <3> DEFINE k == Len(reports)
    <3>3. report \in ReportType
      BY DEF FoldInv, Reported, ReportType
    <3> HIDE DEF d, n, report
    <3>4. /\ k \in Nat /\ Len(reports') = k + 1 /\ reports'[k + 1] = report
          /\ \A r \in 1..k : reports'[r] = reports[r]
      BY <1>0, <3>2, <3>3
    <3>5. \A r \in 1..Len(reports') : r \in 1..k \/ r = k + 1
      BY <3>4
    <3>6. ASSUME NEW r \in 1..k
          PROVE  /\ reports'[r] = reports[r] /\ reports[r].outcome <= running
                 /\ Copy(reports[r].diagnostic) =>
                      /\ reports[r].diagnostic.file \notin TestFiles
                      /\ \E i \in DOMAIN Places(reports[r].diagnostic) :
                           Places(reports[r].diagnostic)[i].file = reports[r].diagnostic.file
                      /\ reports[r].outcome = running => GroupKey(reports[r].diagnostic) \in seen
      BY <3>4 DEF CopiesInv
    <3> HIDE DEF k
    <3>7. \A r \in 1..Len(reports') : reports'[r].outcome <= running'
      BY <1>0, <2>1, <3>2, <3>4, <3>5, <3>6
    <3>8. ASSUME NEW r \in 1..Len(reports'), Copy(reports'[r].diagnostic)
          PROVE  /\ reports'[r].diagnostic.file \notin TestFiles
                 /\ \E i \in DOMAIN Places(reports'[r].diagnostic) :
                      Places(reports'[r].diagnostic)[i].file = reports'[r].diagnostic.file
                 /\ reports'[r].outcome = running' => GroupKey(reports'[r].diagnostic) \in seen'
      <4>1. CASE r \in 1..k
        BY <4>1, <2>1, <2>2, <3>6, <3>8
      <4>2. CASE r = k + 1
        BY <4>2, <3>1, <3>2, <3>4, <3>8
      <4> QED BY <3>5, <4>1, <4>2
    <3>9. ASSUME NEW r \in 1..Len(reports'), NEW s \in 1..Len(reports'),
                 Copy(reports'[r].diagnostic), Copy(reports'[s].diagnostic),
                 reports'[s].outcome = reports'[r].outcome,
                 GroupKey(reports'[s].diagnostic) = GroupKey(reports'[r].diagnostic)
          PROVE  s = r
      <4>1. CASE r \in 1..k /\ s \in 1..k
        BY <3>4, <3>9, <4>1 DEF CopiesInv, k
      <4>2. CASE r \in 1..k /\ s = k + 1
        BY <3>1, <3>2, <3>4, <3>6, <3>9, <4>2
      <4>3. CASE r = k + 1 /\ s \in 1..k
        BY <3>1, <3>2, <3>4, <3>6, <3>9, <4>3
      <4> QED BY <3>5, <4>1, <4>2, <4>3
    <3> QED BY <3>7, <3>8, <3>9 DEF CopiesInv, Copy, Places, GroupKey
  <2> QED BY <2>3, <2>4
<1>2. CASE NextTool
  <2>1. reports' = reports /\ running' = running + 1
    BY <1>2 DEF NextTool
  <2>2. \A r \in 1..Len(reports) : reports[r].outcome \in Nat /\ reports[r].outcome <= running
    <3>1. \A r \in 1..Len(reports) : reports[r] \in ReportType
      BY <1>0
    <3>2. \A r \in 1..Len(reports) : reports[r].outcome \in 1..Outcomes
      BY <3>1 DEF ReportType
    <3> QED BY <3>2, NumbersAssumption DEF CopiesInv
  <2>3. \A r \in 1..Len(reports) : reports[r].outcome <= running' /\ reports[r].outcome # running'
    BY <1>0, <2>1, <2>2
  <2> QED BY <2>1, <2>3 DEF CopiesInv
<1>3. CASE UNCHANGED <<reports, running, seen>>
  BY <1>3 DEF CopiesInv
<1> QED BY <1>1, <1>2, <1>3
        DEF Next, StartDedupe, FoldDuplicate, FoldNew, Finish, Done, vars

\* The severity, which is all that normalising changes, has no part in whether a
\* message is spoilt.
LEMMA SpoiltAsGiven ==
  ASSUME NEW raw \in Candidates, Copy(Normalized(raw)),
         \/ CommentedOut(Normalized(raw)) \/ Relocated(Normalized(raw)).file \in TestFiles
  PROVE  GroupKey(Normalized(raw)) \in Spoilt
<1> DEFINE n == Normalized(raw)
<1>1. /\ "file" \in DOMAIN raw /\ "line" \in DOMAIN raw
      /\ "file" \in DOMAIN n /\ "line" \in DOMAIN n
  BY CandidatesAssumption, NormalizedKeeps
<1>2. /\ n.tool = raw.tool /\ n.code = raw.code /\ n.message = raw.message
      /\ n.file = raw.file /\ n.line = raw.line /\ n.function = raw.function
  BY NormalizedKeeps
<1> HIDE DEF n
<1>3. Places(n) = Places(raw)
  BY <1>2 DEF Places
<1>4. GroupKey(n) = GroupKey(raw) /\ Primary(n) = Primary(raw)
  BY <1>2, <1>3 DEF GroupKey, Primary
<1>5. Relocated(n).file = Relocated(raw).file /\ Relocated(n).line = Relocated(raw).line
  BY <1>1, <1>2, <1>3, <1>4 DEF Relocated
<1>6. Copy(raw) /\ (CommentedOut(raw) \/ Relocated(raw).file \in TestFiles)
  BY <1>2, <1>5 DEF Copy, CommentedOut, n
<1> QED BY <1>4, <1>6 DEF Spoilt, n

\* What counts as seen was reported or may have been dropped as spoilt.
SeenInv == seen \subseteq ReportedGroups(running) \union Spoilt

\* A group that is seen from a message on is that of a copy, and if the filters
\* drop the message, for a reason that spoils it.
LEMMA NewlySeen ==
  ASSUME NEW d, NEW groups, NEW g \in SeenAfter(d, groups), g \notin groups
  PROVE  /\ g = GroupKey(d) /\ Copy(d)
         /\ Filtered(d, groups) => CommentedOut(d) \/ Relocated(d).file \in TestFiles
<1>1. /\ d.tool = "pylint" /\ d.code \in DuplicateCodes /\ d.message \notin Suppressed
      /\ Places(d) # <<>> /\ \A i \in DOMAIN Places(d) : Places(d)[i].file \notin InitFiles
      /\ g = GroupKey(d)
  BY DEF SeenAfter
<1>2. ~TombiOrder(d)
  BY <1>1 DEF TombiOrder
<1> QED BY <1>1, <1>2 DEF Copy, Filtered, RedundantCopy

LEMMA SeenStep == FoldInv /\ SeenInv /\ [Next]_vars => SeenInv'
<1> SUFFICES ASSUME FoldInv, SeenInv, [Next]_vars PROVE SeenInv'
  OBVIOUS
<1>0. Spoilt' = Spoilt
  BY DEF Spoilt
<1>1. ASSUME NEW raw \in Candidates, Report(raw) PROVE SeenInv'
  <2> DEFINE n == Normalized(raw)
             report == [diagnostic |-> Relocated(n), outcome |-> running]
             k == Len(reports)
  <2>1. /\ running' = running /\ seen' = SeenAfter(n, seen)
        /\ reports' = IF Filtered(n, seen) THEN reports ELSE Append(reports, report)
    BY <1>1 DEF Report
  <2>2. reports \in Seq(ReportType) /\ report \in ReportType
    BY DEF FoldInv, Reported, ReportType
  <2>3. /\ report.diagnostic = Relocated(n) /\ report.outcome = running
        /\ Relocated(n).tool = n.tool /\ Relocated(n).code = n.code
        /\ Relocated(n).message = n.message
    BY RelocatedKeeps
  <2> HIDE DEF n, report
  <2>4. ~Filtered(n, seen) =>
          /\ k + 1 \in DOMAIN reports' /\ reports'[k + 1] = report
          /\ DOMAIN reports \subseteq DOMAIN reports'
          /\ \A r \in DOMAIN reports : reports'[r] = reports[r]
    BY <2>1, <2>2
  <2> HIDE DEF k
  <2>5. ReportedGroups(running) \subseteq ReportedGroups(running)'
    <3>1. CASE Filtered(n, seen)
      BY <2>1, <3>1 DEF ReportedGroups
    <3>2. CASE ~Filtered(n, seen)
      BY <2>1, <2>4, <3>2 DEF ReportedGroups, Copy, GroupKey, Places
    <3> QED BY <3>1, <3>2
  <2>6. ASSUME NEW g \in seen', g \notin seen
        PROVE  g \in ReportedGroups(running)' \union Spoilt
    <3>1. /\ g = GroupKey(n) /\ Copy(n)
          /\ Filtered(n, seen) => CommentedOut(n) \/ Relocated(n).file \in TestFiles
      BY <2>1, <2>6, NewlySeen
    <3>2. CASE Filtered(n, seen)
      BY <3>1, <3>2, SpoiltAsGiven DEF n
    <3>3. CASE ~Filtered(n, seen)
      <4>1. Copy(report.diagnostic) /\ GroupKey(report.diagnostic) = g
        BY <2>3, <3>1 DEF Copy, GroupKey, Places
      <4>2. k + 1 \in DOMAIN reports' /\ reports'[k + 1] = report
        BY <2>4, <3>3
      <4>3. reports'[k + 1].outcome = running' /\ Copy(reports'[k + 1].diagnostic)
            /\ GroupKey(reports'[k + 1].diagnostic) = g
        BY <2>1, <2>3, <4>1, <4>2
      <4>4. ReportedGroups(running)' =
              {GroupKey(reports'[r].diagnostic) : r \in {s \in DOMAIN reports' :
                 reports'[s].outcome = running' /\ Copy(reports'[s].diagnostic)}}
        BY DEF ReportedGroups, Copy, GroupKey, Places
      <4> QED BY <4>2, <4>3, <4>4
    <3> QED BY <3>2, <3>3
  <2> QED BY <1>0, <2>5, <2>6 DEF SeenInv
<1>2. CASE NextTool
  BY <1>2 DEF NextTool, SeenInv
<1>3. CASE UNCHANGED <<reports, running, seen>>
  BY <1>0, <1>3 DEF SeenInv, ReportedGroups
<1> QED BY <1>1, <1>2, <1>3
        DEF Next, StartDedupe, FoldDuplicate, FoldNew, Finish, Done, vars

\* Of a piece of code an outcome reports one copy at most, at a place that the
\* message lists and that is no test; and where it drops the messages about a
\* piece of code as repetitions, it has reported that piece, unless one of its
\* messages is commented out or placed in a test.
THEOREM OneCopy == Spec => []CopiesReportedOnce
<1>1. Init => CopiesInv /\ SeenInv
  BY DEF Init, CopiesInv, SeenInv
<1>2. FoldInv /\ CopiesInv /\ SeenInv => CopiesReportedOnce
  <2> SUFFICES ASSUME FoldInv, CopiesInv, SeenInv PROVE CopiesReportedOnce
    OBVIOUS
  <2>1. DOMAIN reports = 1..Len(reports)
    BY DEF FoldInv
  <2>2. ASSUME NEW r \in DOMAIN reports, Copy(reports[r].diagnostic)
        PROVE  LET d == reports[r].diagnostic IN
               /\ d.file \notin TestFiles
               /\ \E i \in DOMAIN Places(d) : Places(d)[i].file = d.file
               /\ \A s \in DOMAIN reports :
                    /\ reports[s].outcome = reports[r].outcome
                    /\ Copy(reports[s].diagnostic)
                    /\ GroupKey(reports[s].diagnostic) = GroupKey(d)
                    => s = r
    BY <2>1, <2>2 DEF CopiesInv
  <2> QED BY <2>2 DEF CopiesReportedOnce, SeenInv
<1>3. Init => FoldInv
  BY FoldInit
<1> QED BY <1>1, <1>2, <1>3, FoldStep, CopiesStep, SeenStep, PTL DEF Spec
-----------------------------------------------------------------------------
(* What is listed at the end                                               *)

\* An entry is with the outcome of the diagnostic it holds, and no two entries
\* hold one diagnostic.
KeptInv ==
  /\ \A e \in 1..Len(kept) : kept[e].outcome = reports[kept[e].report].outcome
  /\ \A e, f \in 1..Len(kept) : kept[e].report = kept[f].report => e = f

LEMMA KeptAreEntries ==
  ASSUME FoldInv, NEW e \in 1..Len(kept)
  PROVE  kept[e].report \in Nat /\ kept[e].outcome \in 1..Outcomes
<1>1. kept \in Seq(EntryType)
  BY DEF FoldInv
<1>2. kept[e] \in EntryType
  BY <1>1
<1> QED BY <1>2 DEF EntryType

LEMMA KeptStep == FoldInv /\ KeptInv /\ [Next]_vars => KeptInv'
<1> SUFFICES ASSUME FoldInv, KeptInv, [Next]_vars PROVE KeptInv'
  OBVIOUS
<1>0. /\ kept \in Seq(EntryType) /\ position \in Nat \ {0} /\ reports \in Seq(ReportType)
      /\ \A e \in 1..Len(kept) : kept[e].report \in 1..(position - 1)
  BY DEF FoldInv
<1>1. ASSUME NEW raw \in Candidates, Report(raw) PROVE KeptInv'
  <2>1. phase = "collect" /\ kept' = kept
    BY <1>1 DEF Report
  <2>2. position = 1
    BY <2>1 DEF FoldInv
  <2>3. \A e \in 1..Len(kept) : FALSE
    BY <1>0, <2>2
  <2> QED BY <2>1, <2>3 DEF KeptInv
<1>2. CASE FoldDuplicate
  <2>1. PICK first \in Matches(reports[position].diagnostic, reports[position].outcome) :
          kept' = IF Replaces(Diagnostic(kept[first]), reports[position].diagnostic)
                  THEN [kept EXCEPT ![first] = Replaced(@, position)] ELSE kept
    BY <1>2 DEF FoldDuplicate
  <2>2. first \in 1..Len(kept) /\ reports' = reports
    BY <1>0, <1>2, <2>1 DEF Matches, FoldDuplicate
  <2>3. CASE kept' = kept
    BY <2>2, <2>3 DEF KeptInv
  <2>4. CASE kept' = [kept EXCEPT ![first] = Replaced(@, position)]
    <3> DEFINE entry == Replaced(kept[first], position)
    <3>1. entry.report = position /\ entry.outcome = reports[position].outcome
      BY DEF Replaced
    <3> HIDE DEF entry
    <3>2. /\ Len(kept') = Len(kept)
          /\ \A e \in 1..Len(kept) : kept'[e] = IF e = first THEN entry ELSE kept[e]
      BY <1>0, <2>4 DEF entry
    <3>3. \A e \in 1..Len(kept) : kept[e].report # position
      BY <1>0
    <3> QED BY <2>2, <3>1, <3>2, <3>3 DEF KeptInv
  <2> QED BY <2>1, <2>3, <2>4
<1>3. CASE FoldNew
  <2> DEFINE entry == [report |-> position, outcome |-> reports[position].outcome]
             k == Len(kept)
  <2>1. reports' = reports /\ kept' = Append(kept, entry) /\ position <= Len(reports)
    BY <1>3 DEF FoldNew
  <2>2. entry \in EntryType /\ entry.report = position
        /\ entry.outcome = reports[position].outcome
    <3>1. reports[position] \in ReportType
      BY <1>0, <2>1
    <3> QED BY <1>0, <3>1 DEF ReportType, EntryType
  <2> HIDE DEF entry
  <2>3. /\ k \in Nat /\ Len(kept') = k + 1 /\ kept'[k + 1] = entry
        /\ \A e \in 1..k : kept'[e] = kept[e]
    BY <1>0, <2>1, <2>2
  <2>4. \A e \in 1..k : kept[e].report # position
    BY <1>0
  <2>5. \A e \in 1..Len(kept') : e \in 1..k \/ e = k + 1
    BY <2>3
  <2>6. \A e \in 1..k : kept[e].outcome = reports[kept[e].report].outcome
    BY DEF KeptInv
  <2>7. \A e, f \in 1..k : kept[e].report = kept[f].report => e = f
    BY DEF KeptInv
  <2> HIDE DEF k
  <2>8. \A e \in 1..Len(kept') : kept'[e].outcome = reports[kept'[e].report].outcome
    BY <2>2, <2>3, <2>5, <2>6
  <2>9. \A e, f \in 1..Len(kept') : kept'[e].report = kept'[f].report => e = f
    BY <2>2, <2>3, <2>4, <2>5, <2>7
  <2> QED BY <2>1, <2>8, <2>9 DEF KeptInv
<1>4. CASE UNCHANGED <<reports, kept>>
  BY <1>4 DEF KeptInv
<1> QED BY <1>1, <1>2, <1>3, <1>4 DEF Next, NextTool, StartDedupe, Finish, Done, vars

\* What an outcome lists are the reports of its entries, each once.
Lists(o, list, n) ==
  /\ \A i \in DOMAIN list : \E e \in 1..n : kept[e].outcome = o /\ list[i] = kept[e].report
  /\ \A i, j \in DOMAIN list : list[i] = list[j] => i = j
  /\ \A e \in 1..n : kept[e].outcome = o => \E i \in DOMAIN list : list[i] = kept[e].report

\* One more entry
LEMMA ListsOneMore ==
  ASSUME FoldInv, KeptInv, NEW o, NEW list \in Seq(Nat), NEW n \in Nat, n + 1 \in 1..Len(kept),
         Lists(o, list, n)
  PROVE  /\ kept[n + 1].outcome = o => Lists(o, Append(list, kept[n + 1].report), n + 1)
         /\ kept[n + 1].outcome # o => Lists(o, list, n + 1)
<1> DEFINE last == n + 1
           k == Len(list)
           longer == Append(list, kept[last].report)
<1>1. \A e \in 1..last : e \in 1..n \/ e = last
  OBVIOUS
<1>2. 1..n \subseteq 1..last /\ last \in 1..last /\ \A e \in 1..n : e # last
  OBVIOUS
<1>3. DOMAIN list = 1..k /\ k \in Nat
  OBVIOUS
<1>4. \A e, f \in 1..last : kept[e].report = kept[f].report => e = f
  <2>1. 1..last \subseteq 1..Len(kept)
    BY DEF FoldInv
  <2> QED BY <2>1 DEF KeptInv
<1>5. CASE kept[last].outcome = o
  <2>1. kept[last].report \in Nat
    BY KeptAreEntries
  <2>2. /\ longer[k + 1] = kept[last].report /\ \A i \in 1..k : longer[i] = list[i]
        /\ DOMAIN longer = 1..(k + 1)
    BY <1>3, <2>1
  <2>3. \A i \in DOMAIN longer : i \in 1..k \/ i = k + 1
    BY <1>3, <2>2
  <2>4. 1..k \subseteq DOMAIN longer /\ k + 1 \in DOMAIN longer
    BY <1>3, <2>2
  <2> HIDE DEF longer, last, k
  <2>5. \A i \in DOMAIN longer :
          \E e \in 1..last : kept[e].outcome = o /\ longer[i] = kept[e].report
    BY <1>2, <1>3, <1>5, <2>2, <2>3 DEF Lists
  <2>6. \A i \in 1..k : longer[i] # longer[k + 1]
    <3>1. ASSUME NEW i \in 1..k PROVE longer[i] # longer[k + 1]
      <4>1. PICK e \in 1..n : list[i] = kept[e].report
        BY <1>3 DEF Lists
      <4>2. e \in 1..last /\ e # last
        BY <1>2
      <4> QED BY <1>2, <1>4, <2>2, <4>1, <4>2
    <3> QED BY <3>1
  <2>7. \A i, j \in 1..k : longer[i] = longer[j] => i = j
    BY <1>3, <2>2 DEF Lists
  <2>8. \A i, j \in DOMAIN longer : longer[i] = longer[j] => i = j
    BY <2>3, <2>6, <2>7
  <2>9. \A e \in 1..last :
          kept[e].outcome = o => \E i \in DOMAIN longer : longer[i] = kept[e].report
    <3>1. ASSUME NEW e \in 1..n, kept[e].outcome = o
          PROVE  \E i \in DOMAIN longer : longer[i] = kept[e].report
      <4>1. PICK i \in DOMAIN list : list[i] = kept[e].report
        BY <3>1 DEF Lists
      <4> QED BY <1>3, <2>2, <2>4, <4>1
    <3> QED BY <1>1, <2>2, <2>4, <3>1
  <2>10. Lists(o, longer, last)
    BY <2>5, <2>8, <2>9 DEF Lists
  <2> QED BY <1>5, <2>10 DEF longer, last
<1>6. CASE kept[last].outcome # o
  <2> HIDE DEF last
  <2>1. Lists(o, list, last)
    BY <1>1, <1>2, <1>6 DEF Lists
  <2> QED BY <1>6, <2>1 DEF last
<1> QED BY <1>5, <1>6

\* The list that Finish makes of the entries is a recursion along them.
LEMMA ListedIs ==
  ASSUME FoldInv, KeptInv, NEW o
  PROVE  Lists(o, Listed(o), Len(kept))
<1> DEFINE n == Len(kept)
           T == Seq(Nat)
           Added(e, list) ==
             IF kept[e].outcome = o THEN Append(list, kept[e].report) ELSE list
           step == [e \in 1..n |-> [list \in T |-> Added(e, list)]]
           Solved(list) ==
             list = [e \in 0..n |-> IF e = 0 THEN <<>> ELSE Added(e, list[e - 1])]
           taken == CHOOSE list : Solved(list)
<1>1. n \in Nat /\ <<>> \in T /\ \A e \in 1..n : kept[e].report \in Nat
  <2>1. kept \in Seq(EntryType)
    BY DEF FoldInv
  <2> QED BY <2>1, KeptAreEntries
<1>2. Listed(o) = taken[n]
  BY DEF Listed
<1>3. ASSUME NEW e \in 1..n, NEW list \in T PROVE Added(e, list) \in T
  BY <1>1, AppendProperties
<1>4. Solved(taken)
  <2>1. step \in Steps(n, T)
    BY <1>3 DEF Steps
  <2>2. PICK F : IsRun(F, n, T, <<>>, step)
    <3> HIDE DEF n, T, step
    <3> QED BY <1>1, <2>1, Recursion
  <2>3. \A e \in 1..n : step[e][F[e - 1]] = Added(e, F[e - 1])
    <3>1. \A e \in 1..n : e - 1 \in 0..n
      BY <1>1
    <3>2. \A e \in 1..n : F[e - 1] \in T
      <4> HIDE DEF T, n
      <4> QED BY <3>1, <2>2 DEF IsRun
    <3> HIDE DEF T, Added
    <3> QED BY <3>2
  <2>4. Solved(F)
    <3> HIDE DEF step, Added, T
    <3> QED BY <1>1, <2>2, <2>3 DEF IsRun
  <2> HIDE DEF Solved
  <2> QED BY <2>4
<1> HIDE DEF taken
<1>5. taken[0] = <<>> /\ \A e \in 1..n : taken[e] = Added(e, taken[e - 1])
  <2>1. 0 \in 0..n /\ \A e \in 1..n : e \in 0..n /\ e # 0
    BY <1>1
  <2> HIDE DEF Added, n
  <2> QED BY <2>1, <1>4
<1> DEFINE P == {e \in 0..n : taken[e] \in T /\ Lists(o, taken[e], e)}
<1>6. 0 \in P
  <2>1. Lists(o, <<>>, 0)
    BY DEF Lists
  <2>2. 0 \in 0..n
    BY <1>1
  <2> HIDE DEF T, n
  <2> QED BY <1>1, <1>5, <2>1, <2>2
<1>7. ASSUME NEW e \in 0..(n - 1), e \in P PROVE e + 1 \in P
  <2>1. taken[e] \in T /\ Lists(o, taken[e], e)
    BY <1>7
  <2>2. e + 1 \in 1..n /\ e \in Nat /\ (e + 1) - 1 = e
    BY <1>1
  <2>3. taken[e + 1] = Added(e + 1, taken[e])
    BY <1>5, <2>2
  <2>4. Lists(o, Added(e + 1, taken[e]), e + 1)
    BY <2>1, <2>2, ListsOneMore
  <2>5. Added(e + 1, taken[e]) \in T
    BY <1>3, <2>1, <2>2
  <2>6. e + 1 \in 0..n
    BY <1>1, <2>2
  <2> HIDE DEF Added, T, n
  <2> QED BY <2>3, <2>4, <2>5, <2>6
<1>8. n \in P
  <2> HIDE DEF P
  <2>1. \A e \in 0..n : e \in P
    BY <1>1, <1>6, <1>7, UpTo
  <2> QED BY <1>1, <2>1
<1> QED BY <1>2, <1>8

\* When the run is done each outcome lists what ListedIs says.
ListedInv == phase = "done" => \A o \in 1..Outcomes : Lists(o, result[o], Len(kept))

LEMMA ListedStep == FoldInv /\ KeptInv /\ ListedInv /\ [Next]_vars => ListedInv'
<1> SUFFICES ASSUME FoldInv, KeptInv, ListedInv, [Next]_vars, phase' = "done"
             PROVE  \A o \in 1..Outcomes : Lists(o, result[o], Len(kept))'
  BY DEF ListedInv
<1>1. CASE Finish
  BY <1>1, ListedIs DEF Finish, Lists
<1>2. CASE UNCHANGED vars
  BY <1>2 DEF ListedInv, Lists, vars
<1> QED BY <1>1, <1>2
        DEF Next, Report, NextTool, StartDedupe, FoldDuplicate, FoldNew, Done

\* Each entry is listed in the end, once, by the outcome whose tool reported it.
THEOREM ListedOnce == Spec => []ListedWhereReported
<1>1. Init => FoldInv /\ KeptInv /\ ListedInv
  BY FoldInit DEF Init, KeptInv, ListedInv
<1>2. FoldInv /\ KeptInv /\ ListedInv => ListedWhereReported
  <2> SUFFICES ASSUME FoldInv, KeptInv, ListedInv, phase = "done" PROVE ListedWhereReported
    BY DEF ListedWhereReported
  <2>1. \A o \in 1..Outcomes : Lists(o, result[o], Len(kept))
    BY DEF ListedInv
  <2>2. /\ DOMAIN kept = 1..Len(kept)
        /\ \A e \in 1..Len(kept) : kept[e].outcome \in 1..Outcomes
        /\ \A e \in 1..Len(kept) : kept[e].outcome = reports[kept[e].report].outcome
    <3>1. kept \in Seq(EntryType)
      BY DEF FoldInv
    <3> QED BY <3>1, KeptAreEntries DEF KeptInv
  <2>3. \A o \in 1..Outcomes : \A i \in DOMAIN result[o] :
          /\ reports[result[o][i]].outcome = o
          /\ \A j \in DOMAIN result[o] : result[o][i] = result[o][j] => i = j
    BY <2>1, <2>2 DEF Lists
  <2>4. \A e \in DOMAIN kept : \E o \in 1..Outcomes : Contains(result[o], kept[e].report)
    <3>1. ASSUME NEW e \in DOMAIN kept
          PROVE  \E o \in 1..Outcomes : Contains(result[o], kept[e].report)
      <4> DEFINE o == kept[e].outcome
      <4>1. o \in 1..Outcomes /\ e \in 1..Len(kept)
        BY <2>2
      <4>2. \E i \in DOMAIN result[o] : result[o][i] = kept[e].report
        BY <2>1, <4>1 DEF Lists
      <4> QED BY <4>1, <4>2 DEF Contains
    <3> QED BY <3>1
  <2> QED BY <2>3, <2>4 DEF ListedWhereReported
<1> QED BY <1>1, <1>2, FoldStep, KeptStep, ListedStep, PTL DEF Spec
=============================================================================
