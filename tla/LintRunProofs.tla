--------------------------- MODULE LintRunProofs ---------------------------
(***************************************************************************)
(* Proofs about LintRun, for every plan, mode, pool size and bound: what   *)
(* holds of its state, what a run reports, and what its outcomes say of    *)
(* the files.                                                              *)
(***************************************************************************)
EXTENDS LintRun, FiniteSetTheorems, TLAPS

-----------------------------------------------------------------------------
(* The operators the steps are made of                                     *)

\* Classifying an exit code yields an integer code and a category.
LEMMA EvaluationType ==
  ASSUME NEW action, NEW code \in Int, NEW diags \in BOOLEAN
  PROVE  /\ EvaluateExitStatus(action, code, diags).returncode \in Int
         /\ EvaluateExitStatus(action, code, diags).category \in Categories
BY DEF EvaluateExitStatus, Category, Categories

\* The fields of an action of the plan.
LEMMA ActionFields ==
  ASSUME NEW k \in Indices
  PROVE  /\ Plan[k].files \subseteq Files
         /\ Plan[k].tool \in Tools
         /\ Plan[k].internal \in BOOLEAN /\ Plan[k].is_fix \in BOOLEAN
         /\ Plan[k].ignore_exit \in BOOLEAN
<1>1. Plan[k] \in ActionType
  BY PlanAssumption DEF Indices
<1> QED BY <1>1 DEF ActionType

LEMMA LenPlan == Len(Plan) \in Nat
BY PlanAssumption

\* The flags of a run, or of the default configuration.
LEMMA ModeFields == TypeOK => mode \in ModeType
<1>1. DefaultMode \in ModeType
  BY DEF DefaultMode, ModeType
<1> QED BY <1>1, ModesAssumption DEF TypeOK

\* The stamps of an action's files.
LEMMA StatesType ==
  ASSUME NEW k \in Indices, NEW d \in [Files -> Stamps], NEW fs
  PROVE  /\ FileStates(d, Plan[k].files) \in [Plan[k].files -> Stamps]
         /\ [Plan[k].files -> Stamps] \subseteq States
<1>1. Plan[k].files \subseteq Files
  BY ActionFields
<1>2. [Plan[k].files -> Stamps] \subseteq States
  BY DEF States
<1> QED BY <1>1, <1>2 DEF FileStates

\* An executed action yields a well-formed outcome of its own.
LEMMA OutcomeOfType ==
  ASSUME TypeOK, NEW k \in Indices, NEW result \in Results,
         NEW about \in [Plan[k].files -> Stamps]
  PROVE  /\ OutcomeOf(k, result, about) \in OutcomeType
         /\ OutcomeOf(k, result, about).act = k
         /\ OutcomeOf(k, result, about).about = about
         /\ ~OutcomeOf(k, result, about).cached
<1> DEFINE eval == EvaluateExitStatus(Plan[k], result.returncode, result.diags)
<1>1. result.returncode \in Int /\ result.diags \in BOOLEAN
  BY ResultsAssumption
<1>2. eval.returncode \in Int /\ eval.category \in Categories
  BY <1>1, EvaluationType
<1>3. about \in States
  BY DEF States
<1>4. installed[Plan[k].tool] \in 1..MaxVersion
  BY ActionFields DEF TypeOK
<1> HIDE DEF eval
<1>5. OutcomeOf(k, result, about) =
        [act |-> k, about |-> about, version |-> installed[Plan[k].tool],
         returncode |-> eval.returncode, category |-> eval.category,
         diags |-> result.diags, cached |-> FALSE]
  BY DEF OutcomeOf, eval
<1> QED BY <1>1, <1>2, <1>3, <1>4, <1>5 DEF OutcomeType

\* A replayed outcome keeps everything but its classification.
LEMMA RefreshedType ==
  ASSUME NEW outcome \in OutcomeType
  PROVE  /\ Refreshed(outcome) \in OutcomeType
         /\ Refreshed(outcome).act = outcome.act
         /\ Refreshed(outcome).about = outcome.about
         /\ Refreshed(outcome).cached
<1> DEFINE eval == EvaluateExitStatus(Plan[outcome.act], outcome.returncode, outcome.diags)
<1>1. eval.returncode \in Int /\ eval.category \in Categories
  BY EvaluationType DEF OutcomeType
<1> HIDE DEF eval
<1>2. Refreshed(outcome) =
        [outcome EXCEPT !.returncode = eval.returncode, !.category = eval.category,
                        !.cached = TRUE]
  BY DEF Refreshed, eval
<1> QED BY <1>1, <1>2 DEF OutcomeType

\* The metrics recorded with an outcome.
LEMMA MetricsType ==
  ASSUME TypeOK, NEW k \in Indices, NEW d \in [Files -> Stamps]
  PROVE  MetricsFor(k, d) \in [Plan[k].files -> Stamps]
<1>1. Plan[k].files \subseteq Files
  BY ActionFields
<1> QED BY <1>1 DEF MetricsFor, TypeOK, Absent

\* Files a fix rewrote carry the next stamp.
LEMMA RewriteType ==
  ASSUME TypeOK, NEW k \in Indices, NEW fs \in Rewrites(k), NEW S,
         NEW states \in [S -> Stamps]
  PROVE  /\ Rewrite(fs, states) \in [S -> Stamps]
         /\ fs \in SUBSET Files
         /\ (IF fs = {} THEN clock ELSE clock + 1) \in Stamps
         /\ ~Plan[k].is_fix => fs = {}
<1>1. Plan[k].files \subseteq Files
  BY ActionFields
<1>2. fs # {} => clock < MaxClock /\ Plan[k].is_fix /\ fs \subseteq Plan[k].files
  BY DEF Rewrites
<1>3. clock \in Nat /\ clock <= MaxClock /\ MaxClock \in Nat
  BY BoundsAssumption DEF TypeOK, Stamps
<1>4. fs # {} => clock + 1 \in Stamps
  BY <1>2, <1>3 DEF Stamps
<1>5. Rewrite(fs, states) \in [S -> Stamps]
  BY <1>4 DEF Rewrite
<1> QED BY <1>1, <1>2, <1>3, <1>4, <1>5 DEF Stamps
-----------------------------------------------------------------------------
(* Types                                                                   *)

\* TypeOK is inductive together with what the executions and slots of each
\* phase look like.
TypeInv == TypeOK /\ SlotsBounded /\ AboutOwnFiles /\ PhaseShape

\* The entries of the cache, apart from the rest of TypeInv.
EntriesOK ==
  \A key \in DOMAIN entries :
    /\ entries[key] \in EntryType
    /\ key \in Indices \X (BOOLEAN \X BOOLEAN)
    /\ entries[key].outcome.act = key[1]
    /\ entries[key].outcome.about \in [Plan[key[1]].files -> Stamps]
    /\ entries[key].metrics \in [Plan[key[1]].files -> Stamps]
    /\ entries[key].states \in [Plan[key[1]].files -> Stamps]

\* Recording a well-formed outcome leaves well-formed variables.
LEMMA RecordType ==
  ASSUME TypeInv, NEW o \in Nat, NEW outcome \in OutcomeType,
         outcome.about \in [Plan[outcome.act].files -> Stamps],
         NEW m \in [Plan[outcome.act].files -> Stamps],
         NEW d \in [Files -> Stamps],
         Record(o, outcome, m, d)
  PROVE  /\ DOMAIN outcomes' = DOMAIN outcomes \cup {o}
         /\ outcomes'[o] = outcome
         /\ \A p \in DOMAIN outcomes : p # o => outcomes'[p] = outcomes[p]
         /\ \A p \in DOMAIN outcomes' : p \in Nat /\ outcomes'[p] \in OutcomeType
         /\ metrics' \in [Files -> {Absent} \cup Stamps]
         /\ ticks' \in Nat
         /\ EntriesOK'
<1> DEFINE k == outcome.act
           entry == NewEntry(outcome, m, d, Plan[k].files)
<1>1. k \in Indices /\ Plan[k].files \subseteq Files
  BY ActionFields DEF OutcomeType
<1>2. Key(k) \in Indices \X (BOOLEAN \X BOOLEAN) /\ Key(k)[1] = k
  <2>1. mode \in ModeType
    BY ModeFields DEF TypeInv
  <2>2. Token(mode) \in BOOLEAN \X BOOLEAN
    BY <2>1 DEF Token, ModeType
  <2> QED BY <1>1, <2>2 DEF Key
<1>3. /\ entry \in EntryType
      /\ entry.outcome = outcome /\ entry.metrics = m
      /\ entry.states \in [Plan[k].files -> Stamps]
  BY <1>1, StatesType DEF NewEntry, EntryType
<1>4. EntriesOK
  BY DEF TypeInv, TypeOK, AboutOwnFiles, EntriesOK
<1>5. EntriesOK'
  <2>1. CASE entries' = entries
    BY <1>4, <2>1 DEF EntriesOK
  <2>2. CASE entries' = Put(entries, Key(k), entry)
    <3> HIDE DEF entry
    <3>1. DOMAIN entries' = DOMAIN entries \cup {Key(k)}
      BY <2>2 DEF Put
    <3>2. \A key \in DOMAIN entries' :
            entries'[key] = IF key = Key(k) THEN entry ELSE entries[key]
      BY <2>2 DEF Put
    <3> QED BY <1>2, <1>3, <1>4, <3>1, <3>2 DEF EntriesOK
  <2> QED BY <2>1, <2>2 DEF Record
<1>6. metrics' \in [Files -> {Absent} \cup Stamps]
  BY <1>1 DEF Record, TypeInv, TypeOK
<1>7. ticks' \in Nat
  BY DEF Record, TypeInv, TypeOK
<1>8. /\ DOMAIN outcomes' = DOMAIN outcomes \cup {o}
      /\ outcomes'[o] = outcome
      /\ \A p \in DOMAIN outcomes : p # o => outcomes'[p] = outcomes[p]
  BY DEF Record, Put
<1>9. \A p \in DOMAIN outcomes : p \in Nat /\ outcomes[p] \in OutcomeType
  BY DEF TypeInv, TypeOK
<1> QED BY <1>5, <1>6, <1>7, <1>8, <1>9

LEMMA TypeInit == Init => TypeInv
<1> SUFFICES ASSUME Init PROVE TypeInv
  OBVIOUS
<1>1. TypeOK
  <2>1. /\ entries = NoFunction /\ outcomes = NoFunction
        /\ scheduled = NoFunction /\ futures = NoFunction
    BY DEF Init
  <2>2. \A x : x \notin DOMAIN NoFunction
    BY DEF NoFunction
  <2>3. /\ 0 \in Stamps /\ 0 \in 0..MaxRuns /\ 1 \in 1..(Len(Plan) + 1)
        /\ 0 \in 0..Len(Plan) /\ 1 \in 1..MaxVersion /\ 0 \in 0..MaxVersion
    BY LenPlan, BoundsAssumption DEF Stamps
  <2> QED BY <2>1, <2>2, <2>3 DEF Init, TypeOK
<1>2. SlotsBounded
  BY DEF Init, SlotsBounded, NoFunction
<1>3. AboutOwnFiles
  BY DEF Init, AboutOwnFiles, NoFunction
<1>4. PhaseShape
  BY DEF Init, PhaseShape
<1> QED BY <1>1, <1>2, <1>3, <1>4 DEF TypeInv

\* A run whose memory is dropped, by an exception or by its end.
LEMMA FreshType ==
  ASSUME TypeInv, FreshState, UNCHANGED <<entries>>,
         phase' \in {"idle", "plan", "failed"},
         disk' = disk, clock' = clock, installed' = installed, manifest' = manifest,
         runs' \in 0..MaxRuns, mode' \in Modes \cup {DefaultMode},
         versions' \in [Tools -> 0..MaxVersion], total' \in Nat,
         startDisk' \in [Files -> Stamps]
  PROVE  TypeInv'
<1>1. TypeOK'
  <2>1. /\ outcomes' = NoFunction /\ scheduled' = NoFunction /\ futures' = NoFunction
        /\ next' = 1 /\ order' = 0 /\ bailed' = FALSE /\ dirty' = FALSE /\ ticks' = 0
        /\ metrics' = [f \in Files |-> Absent] /\ captured' = {}
    BY DEF FreshState
  <2>2. \A x : x \notin DOMAIN NoFunction
    BY DEF NoFunction
  <2>3. 1 \in 1..(Len(Plan) + 1) /\ 0 \in 0..Len(Plan)
    BY LenPlan
  <2>4. phase' \in {"idle", "done", "failed"} \cup Active
    BY DEF Active
  <2>5. TypeOK
    BY DEF TypeInv
  <2> QED BY <2>1, <2>2, <2>3, <2>4, <2>5 DEF TypeOK
<1>2. AboutOwnFiles'
  BY DEF FreshState, TypeInv, AboutOwnFiles, NoFunction
<1>3. SlotsBounded'
  BY DEF FreshState, SlotsBounded, NoFunction
<1>4. PhaseShape'
  BY DEF FreshState, PhaseShape, NoFunction
<1> QED BY <1>1, <1>2, <1>3, <1>4 DEF TypeInv

LEMMA FailType == ASSUME TypeInv, Fail PROVE TypeInv'
<1>1. /\ disk' = disk /\ clock' = clock /\ installed' = installed
      /\ entries' = entries /\ manifest' = manifest /\ runs' = runs
      /\ mode' = mode /\ total' = total /\ startDisk' = startDisk
  BY DEF Fail, workspace
<1>2. phase' = "failed" /\ FreshState
  BY DEF Fail
<1>3. versions' \in [Tools -> 0..MaxVersion]
  BY BoundsAssumption DEF Fail
<1> QED BY <1>1, <1>2, <1>3, FreshType DEF TypeInv, TypeOK

\* A step outside the runs' own variables.
LEMMA UntouchedRunType ==
  ASSUME TypeInv, UNCHANGED run, UNCHANGED entries,
         disk' \in [Files -> Stamps], clock' \in Stamps,
         installed' \in [Tools -> 1..MaxVersion],
         manifest' \in [Tools -> 0..MaxVersion], runs' \in 0..MaxRuns
  PROVE  TypeInv'
<1>1. UNCHANGED <<phase, mode, next, order, outcomes, scheduled, bailed, metrics,
                  futures, versions, dirty, ticks, total, startDisk, captured>>
  BY DEF run
<1>2. TypeOK'
  BY <1>1 DEF TypeInv, TypeOK
<1>3. SlotsBounded'
  BY <1>1 DEF TypeInv, SlotsBounded
<1>4. AboutOwnFiles'
  BY <1>1 DEF TypeInv, AboutOwnFiles
<1>5. PhaseShape'
  BY <1>1 DEF TypeInv, PhaseShape, AllRecorded, Wanted
<1> QED BY <1>2, <1>3, <1>4, <1>5 DEF TypeInv

LEMMA WantedCardinality ==
  ASSUME NEW m
  PROVE  IsFiniteSet(Wanted(m)) /\ Cardinality(Wanted(m)) \in Nat
<1>1. IsFiniteSet(Indices)
  BY LenPlan, FS_Interval DEF Indices
<1>2. Wanted(m) \subseteq Indices
  BY DEF Wanted
<1> QED BY <1>1, <1>2, FS_Subset, FS_CardinalityType

\* update_tool_version keeps the versions well-formed.
LEMMA VersionType ==
  ASSUME TypeInv, NEW k \in Indices, UpdateToolVersion(k)
  PROVE  /\ versions' \in [Tools -> 0..MaxVersion] /\ dirty' \in BOOLEAN
         /\ captured' \subseteq Tools
<1>1. installed[Plan[k].tool] \in 0..MaxVersion /\ Plan[k].tool \in Tools
  BY ActionFields, BoundsAssumption DEF TypeInv, TypeOK
<1>2. versions' \in [Tools -> 0..MaxVersion]
  BY <1>1 DEF UpdateToolVersion, PreparedVersions, TypeInv, TypeOK
<1>3. dirty' \in BOOLEAN
  BY DEF UpdateToolVersion, TypeInv, TypeOK
<1>4. captured' \subseteq Tools
  BY <1>1 DEF UpdateToolVersion, TypeInv, TypeOK
<1> QED BY <1>2, <1>3, <1>4

\* Every step of the workspace keeps TypeInv.
LEMMA TypeStep == ASSUME TypeInv, [Next]_vars PROVE TypeInv'
<1> USE DEF TypeInv
<1>0. TypeOK /\ SlotsBounded /\ AboutOwnFiles /\ PhaseShape
  OBVIOUS
<1>1. ASSUME NEW k \in Indices, SkipAction(k) PROVE TypeInv'
  <2>1. TypeOK'
    BY <1>1, LenPlan DEF SkipAction, AtAction, TypeOK, workspace, Indices
  <2>2. SlotsBounded'
    BY <1>1, LenPlan DEF SkipAction, AtAction, TypeOK, Indices, SlotsBounded
  <2>3. AboutOwnFiles'
    BY <1>1 DEF SkipAction, AtAction, AboutOwnFiles, workspace
  <2>4. PhaseShape'
    BY <1>1 DEF SkipAction, AtAction, PhaseShape
  <2> QED BY <2>1, <2>2, <2>3, <2>4
<1>2. ASSUME NEW k \in Indices, UseCachedOutcome(k) PROVE TypeInv'
  <2> DEFINE entry == entries[Key(k)]
             outcome == Refreshed(entry.outcome)
  <2>1. /\ Key(k) \in DOMAIN entries
        /\ entry \in EntryType /\ entry.outcome.act = k
        /\ entry.outcome.about \in [Plan[k].files -> Stamps]
        /\ entry.metrics \in [Plan[k].files -> Stamps]
    <3>1. Key(k) \in DOMAIN entries /\ Key(k)[1] = k
      BY <1>2 DEF UseCachedOutcome, Stored, Hit, Key
    <3> QED BY <3>1 DEF TypeOK, AboutOwnFiles
  <2>2. /\ outcome \in OutcomeType /\ outcome.act = k
        /\ outcome.about \in [Plan[k].files -> Stamps]
    BY <2>1, RefreshedType DEF EntryType
  <2>3. Record(order, outcome, entry.metrics, disk)
    BY <1>2 DEF UseCachedOutcome
  <2> HIDE DEF outcome, entry
  <2>4. /\ order \in Nat /\ disk \in [Files -> Stamps]
        /\ outcome.about \in [Plan[outcome.act].files -> Stamps]
        /\ entry.metrics \in [Plan[outcome.act].files -> Stamps]
    BY <2>1, <2>2, LenPlan DEF TypeOK
  <2>5. /\ DOMAIN outcomes' = DOMAIN outcomes \cup {order}
        /\ \A p \in DOMAIN outcomes' : p \in Nat /\ outcomes'[p] \in OutcomeType
        /\ metrics' \in [Files -> {Absent} \cup Stamps]
        /\ ticks' \in Nat
        /\ EntriesOK'
    BY <2>2, <2>3, <2>4, RecordType
  <2>6. /\ bailed' \in BOOLEAN
        /\ order' = order + 1 /\ next' = k + 1 /\ next = k
        /\ phase' = "plan" /\ phase = "plan" /\ futures = NoFunction
        /\ UNCHANGED <<disk, clock, installed, manifest, runs, mode, scheduled,
                       futures, total, startDisk>>
    BY <1>2 DEF UseCachedOutcome, AtAction, Advance, PhaseShape
  <2>7. versions' \in [Tools -> 0..MaxVersion] /\ dirty' \in BOOLEAN /\ captured' \subseteq Tools
    BY <1>2, VersionType DEF UseCachedOutcome
  <2>8. TypeOK'
    BY <2>5, <2>6, <2>7, LenPlan DEF TypeOK, SlotsBounded, Indices, Active, EntriesOK
  <2>9. SlotsBounded'
    BY <2>5, <2>6, LenPlan DEF TypeOK, SlotsBounded, Indices
  <2>10. AboutOwnFiles'
    BY <2>5, <2>6 DEF AboutOwnFiles, EntriesOK, NoFunction
  <2>11. PhaseShape'
    BY <2>5, <2>6, LenPlan DEF PhaseShape, SlotsBounded, TypeOK
  <2> QED BY <2>8, <2>9, <2>10, <2>11
<1>3. ASSUME NEW k \in Indices, StartImmediate(k) PROVE TypeInv'
  <2>1. /\ phase = "plan" /\ phase' = "immediate" /\ ~bailed /\ next = k
        /\ k \in Wanted(mode) /\ futures = NoFunction
        /\ futures' = Put(futures, order, Execution(k))
        /\ UNCHANGED <<workspace, mode, next, order, outcomes, scheduled, bailed, metrics,
                       ticks, total, startDisk>>
    BY <1>3 DEF StartImmediate, AtAction, PhaseShape, Wanted
  <2>2. DOMAIN futures' = {order} /\ futures'[order] = Execution(k)
    BY <2>1 DEF Put, NoFunction
  <2>3. /\ Execution(k) \in FutureType /\ Execution(k).status = "running"
        /\ Execution(k).about \in [Plan[k].files -> Stamps]
    BY StatesType DEF TypeOK, Execution, FutureType
  <2>4. versions' \in [Tools -> 0..MaxVersion] /\ dirty' \in BOOLEAN /\ captured' \subseteq Tools
    BY <1>3, VersionType DEF StartImmediate
  <2>5. TypeOK'
    BY <2>1, <2>2, <2>3, <2>4, LenPlan DEF TypeOK, Active, workspace
  <2>6. SlotsBounded'
    BY <2>1 DEF SlotsBounded
  <2>7. AboutOwnFiles'
    BY <2>1, <2>2, <2>3 DEF AboutOwnFiles, workspace
  <2>8. PhaseShape'
    BY <2>1, <2>2, <2>3 DEF PhaseShape
  <2> QED BY <2>5, <2>6, <2>7, <2>8
<1>4. ASSUME NEW k \in Indices, FinishImmediate(k) PROVE TypeInv'
  <2>1. PICK result \in Results, fs \in Rewrites(k) :
          LET outcome == OutcomeOf(k, result, Rewrite(fs, futures[order].about)) IN
          /\ WriteFiles(fs)
          /\ Record(order, outcome, MetricsFor(k, disk'), disk')
          /\ bailed' = (mode.bail /\ outcome.returncode # 0 /\ ~Plan[k].ignore_exit)
    BY <1>4 DEF FinishImmediate
  <2> DEFINE about == Rewrite(fs, futures[order].about)
             outcome == OutcomeOf(k, result, about)
  <2>2. /\ phase = "immediate" /\ phase' = "plan" /\ next = k /\ futures' = NoFunction
        /\ order' = order + 1 /\ next' = k + 1
        /\ UNCHANGED <<installed, manifest, runs, mode, scheduled, versions, dirty, total,
                       startDisk, captured>>
    BY <1>4 DEF FinishImmediate, Advance
  <2>3. futures[order].about \in [Plan[k].files -> Stamps]
    BY <2>2 DEF PhaseShape, AboutOwnFiles
  <2>4. about \in [Plan[k].files -> Stamps]
    BY <2>3, RewriteType
  <2>5. disk' \in [Files -> Stamps] /\ clock' \in Stamps
    BY <2>1, RewriteType DEF WriteFiles, TypeOK
  <2> HIDE DEF about
  <2>6. /\ outcome \in OutcomeType /\ outcome.act = k
        /\ outcome.about \in [Plan[k].files -> Stamps]
    BY <2>4, OutcomeOfType
  <2> HIDE DEF outcome
  <2>7. /\ order \in Nat
        /\ outcome.about \in [Plan[outcome.act].files -> Stamps]
        /\ MetricsFor(k, disk') \in [Plan[outcome.act].files -> Stamps]
    BY <2>5, <2>6, MetricsType, LenPlan DEF TypeOK
  <2>8. Record(order, outcome, MetricsFor(k, disk'), disk')
    BY <2>1 DEF outcome, about
  <2>9. /\ DOMAIN outcomes' = DOMAIN outcomes \cup {order}
        /\ \A p \in DOMAIN outcomes' : p \in Nat /\ outcomes'[p] \in OutcomeType
        /\ metrics' \in [Files -> {Absent} \cup Stamps]
        /\ ticks' \in Nat
        /\ EntriesOK'
    BY <2>5, <2>6, <2>7, <2>8, RecordType
  <2>10. bailed' \in BOOLEAN
    BY <2>1, ModeFields, ActionFields DEF ModeType, TypeOK
  <2>11. TypeOK'
    <3>1. next' \in 1..(Len(Plan) + 1) /\ order' \in 0..Len(Plan)
      BY <2>2, LenPlan DEF TypeOK, SlotsBounded, Indices
    <3>2. \A key \in DOMAIN entries' : entries'[key] \in EntryType
      BY <2>9 DEF EntriesOK
    <3>3. phase' \in Active /\ DOMAIN futures' = {}
      BY <2>2 DEF Active, NoFunction
    <3> QED BY <2>2, <2>5, <2>9, <2>10, <3>1, <3>2, <3>3 DEF TypeOK
  <2>12. SlotsBounded'
    BY <2>2, <2>9, LenPlan DEF TypeOK, SlotsBounded, Indices
  <2>13. AboutOwnFiles'
    BY <2>2, <2>9 DEF AboutOwnFiles, EntriesOK, NoFunction
  <2>14. PhaseShape'
    BY <2>2, <2>9, LenPlan DEF PhaseShape, SlotsBounded, TypeOK
  <2> QED BY <2>11, <2>12, <2>13, <2>14
<1>5. ASSUME NEW k \in Indices, QueueAction(k) PROVE TypeInv'
  <2>1. /\ phase = "plan" /\ next = k /\ futures = NoFunction
        /\ scheduled' = Put(scheduled, order, k)
        /\ order' = order + 1 /\ next' = k + 1
        /\ UNCHANGED <<workspace, phase, mode, outcomes, bailed, metrics, futures, ticks,
                       total, startDisk>>
    BY <1>5 DEF QueueAction, AtAction, Advance, PhaseShape
  <2>2. /\ DOMAIN scheduled' = DOMAIN scheduled \cup {order}
        /\ \A o \in DOMAIN scheduled' :
             scheduled'[o] = IF o = order THEN k ELSE scheduled[o]
    BY <2>1 DEF Put
  <2>3. versions' \in [Tools -> 0..MaxVersion] /\ dirty' \in BOOLEAN /\ captured' \subseteq Tools
    BY <1>5, VersionType DEF QueueAction
  <2>4. TypeOK'
    BY <2>1, <2>2, <2>3, LenPlan DEF TypeOK, SlotsBounded, Indices, workspace
  <2>5. SlotsBounded'
    BY <2>1, <2>2, LenPlan DEF TypeOK, SlotsBounded, Indices
  <2>6. AboutOwnFiles'
    BY <2>1, <2>2 DEF AboutOwnFiles, NoFunction, workspace
  <2>7. PhaseShape'
    BY <2>1, <2>2, LenPlan DEF PhaseShape, SlotsBounded, TypeOK
  <2> QED BY <2>4, <2>5, <2>6, <2>7
<1>6. ASSUME ExecuteScheduled PROVE TypeInv'
  <2>1. /\ phase = "plan" /\ phase' = "pool"
        /\ (bailed \/ next > Len(Plan))
        /\ (scheduled' = NoFunction \/ scheduled' = scheduled)
        /\ futures = NoFunction
        /\ UNCHANGED <<workspace, mode, next, order, outcomes, bailed, metrics, futures,
                       versions, dirty, ticks, total, startDisk, captured>>
    BY <1>6 DEF ExecuteScheduled, PhaseShape
  <2>2. DOMAIN scheduled' \subseteq DOMAIN scheduled
    BY <2>1 DEF NoFunction
  <2>3. \A o \in DOMAIN scheduled' : scheduled'[o] = scheduled[o]
    BY <2>1 DEF NoFunction
  <2>4. TypeOK'
    <3>1. phase' \in Active
      BY <2>1 DEF Active
    <3>2. \A o \in DOMAIN scheduled' : o \in Nat /\ scheduled'[o] \in Indices
      BY <2>2, <2>3 DEF TypeOK
    <3> QED BY <2>1, <3>1, <3>2 DEF TypeOK, workspace
  <2>5. SlotsBounded'
    BY <2>1, <2>2 DEF SlotsBounded
  <2>6. AboutOwnFiles'
    BY <2>1, <2>2 DEF AboutOwnFiles, NoFunction, workspace
  <2>7. PhaseShape'
    <3>1. bailed' \/ next' = Len(Plan) + 1
      BY <2>1, LenPlan DEF TypeOK
    <3>2. DOMAIN scheduled' \cap DOMAIN outcomes' = {} /\ DOMAIN futures' = {}
      BY <2>1, <2>2 DEF PhaseShape, NoFunction
    <3>3. phase' = "pool"
      BY <2>1
    <3> QED BY <3>1, <3>2, <3>3 DEF PhaseShape
  <2> QED BY <2>4, <2>5, <2>6, <2>7
<1>7. ASSUME NEW o \in DOMAIN scheduled, StartScheduled(o) PROVE TypeInv'
  <2>1. /\ phase \in {"pool", "drain"} /\ o \notin DOMAIN futures
        /\ futures' = Put(futures, o, Execution(scheduled[o]))
        /\ UNCHANGED <<workspace, phase, mode, next, order, outcomes, scheduled, bailed,
                       metrics, versions, dirty, ticks, total, startDisk, captured>>
    BY <1>7 DEF StartScheduled
  <2>2. /\ DOMAIN futures' = DOMAIN futures \cup {o}
        /\ \A p \in DOMAIN futures' :
             futures'[p] = IF p = o THEN Execution(scheduled[o]) ELSE futures[p]
    BY <2>1 DEF Put
  <2>3. o \in Nat /\ scheduled[o] \in Indices
    BY DEF TypeOK
  <2>4. /\ Execution(scheduled[o]) \in FutureType
        /\ Execution(scheduled[o]).status = "running"
        /\ Execution(scheduled[o]).about \in [Plan[scheduled[o]].files -> Stamps]
    BY <2>3, StatesType DEF TypeOK, Execution, FutureType
  <2>5. TypeOK'
    BY <2>1, <2>2, <2>3, <2>4 DEF TypeOK, workspace
  <2>6. SlotsBounded'
    BY <2>1 DEF SlotsBounded
  <2>7. AboutOwnFiles'
    BY <2>1, <2>2, <2>4 DEF AboutOwnFiles, workspace
  <2>8. PhaseShape'
    BY <2>1, <2>2 DEF PhaseShape
  <2> QED BY <2>5, <2>6, <2>7, <2>8
<1>8. ASSUME NEW o \in DOMAIN scheduled, FinishScheduled(o) PROVE TypeInv'
  <2> DEFINE k == scheduled[o]
  <2>1. PICK result \in Results, fs \in Rewrites(k) :
          /\ WriteFiles(fs)
          /\ futures' = [futures EXCEPT ![o] =
               [status |-> "done",
                outcome |-> OutcomeOf(k, result, Rewrite(fs, futures[o].about))]]
    BY <1>8 DEF FinishScheduled
  <2> DEFINE about == Rewrite(fs, futures[o].about)
             outcome == OutcomeOf(k, result, about)
  <2>2. /\ phase \in {"pool", "drain"} /\ o \in DOMAIN futures
        /\ futures[o].status = "running"
        /\ UNCHANGED <<installed, entries, manifest, runs, phase, mode, next, order, outcomes,
                       scheduled, bailed, metrics, versions, dirty, ticks, total, startDisk, captured>>
    BY <1>8 DEF FinishScheduled, InState
  <2>3. k \in Indices
    BY DEF TypeOK
  <2>4. futures[o].about \in [Plan[k].files -> Stamps]
    BY <2>2 DEF AboutOwnFiles
  <2>5. about \in [Plan[k].files -> Stamps]
    BY <2>3, <2>4, RewriteType
  <2>6. disk' \in [Files -> Stamps] /\ clock' \in Stamps
    BY <2>1, <2>3, RewriteType DEF WriteFiles, TypeOK
  <2> HIDE DEF about
  <2>7. /\ outcome \in OutcomeType /\ outcome.act = k /\ ~outcome.cached
        /\ outcome.about \in [Plan[k].files -> Stamps]
    BY <2>3, <2>5, OutcomeOfType
  <2> HIDE DEF outcome
  <2>8. /\ DOMAIN futures' = DOMAIN futures
        /\ \A p \in DOMAIN futures :
             futures'[p] = IF p = o THEN [status |-> "done", outcome |-> outcome]
                           ELSE futures[p]
    BY <2>1, <2>2 DEF outcome, about
  <2>9. [status |-> "done", outcome |-> outcome] \in FutureType
    BY <2>7 DEF FutureType
  <2>10. TypeOK'
    BY <2>2, <2>6, <2>8, <2>9 DEF TypeOK
  <2>11. SlotsBounded'
    BY <2>2 DEF SlotsBounded
  <2>12. AboutOwnFiles'
    BY <2>2, <2>7, <2>8 DEF AboutOwnFiles
  <2>13. PhaseShape'
    BY <2>2, <2>8 DEF PhaseShape
  <2> QED BY <2>10, <2>11, <2>12, <2>13
<1>9. ASSUME NEW o \in DOMAIN scheduled, ScheduledRaises(o) PROVE TypeInv'
  <2>1. /\ phase \in {"pool", "drain"} /\ o \in DOMAIN futures
        /\ futures[o].status = "running"
        /\ futures' = [futures EXCEPT ![o] = [status |-> "raised"]]
        /\ UNCHANGED <<workspace, phase, mode, next, order, outcomes, scheduled, bailed,
                       metrics, versions, dirty, ticks, total, startDisk, captured>>
    BY <1>9 DEF ScheduledRaises, InState
  <2>2. /\ DOMAIN futures' = DOMAIN futures
        /\ \A p \in DOMAIN futures :
             futures'[p] = IF p = o THEN [status |-> "raised"] ELSE futures[p]
    BY <2>1
  <2>3. [status |-> "raised"] \in FutureType
    BY DEF FutureType
  <2>4. TypeOK'
    BY <2>1, <2>2, <2>3 DEF TypeOK, workspace
  <2>5. SlotsBounded'
    BY <2>1 DEF SlotsBounded
  <2>6. AboutOwnFiles'
    BY <2>1, <2>2 DEF AboutOwnFiles, workspace
  <2>7. PhaseShape'
    BY <2>1, <2>2 DEF PhaseShape
  <2> QED BY <2>4, <2>5, <2>6, <2>7
<1>10. ASSUME NEW o \in DOMAIN scheduled, CollectOutcome(o) PROVE TypeInv'
  <2> DEFINE k == scheduled[o]
             outcome == futures[o].outcome
  <2>1. /\ phase = "pool" /\ o \in DOMAIN futures /\ futures[o].status = "done"
        /\ Record(o, outcome, MetricsFor(k, disk), disk)
        /\ UNCHANGED <<disk, clock, installed, manifest, runs, phase, mode, next, order,
                       scheduled, bailed, futures, versions, dirty, total, startDisk, captured>>
    BY <1>10 DEF CollectOutcome, InState
  <2>2. o \in Nat /\ k \in Indices /\ disk \in [Files -> Stamps]
    BY DEF TypeOK
  <2>3. /\ outcome \in OutcomeType /\ outcome.act = k
        /\ outcome.about \in [Plan[outcome.act].files -> Stamps]
    BY <2>1 DEF TypeOK, FutureType, AboutOwnFiles
  <2> HIDE DEF outcome
  <2>4. MetricsFor(k, disk) \in [Plan[outcome.act].files -> Stamps]
    BY <2>2, <2>3, MetricsType
  <2>5. /\ DOMAIN outcomes' = DOMAIN outcomes \cup {o}
        /\ \A p \in DOMAIN outcomes' : p \in Nat /\ outcomes'[p] \in OutcomeType
        /\ metrics' \in [Files -> {Absent} \cup Stamps]
        /\ ticks' \in Nat
        /\ EntriesOK'
    BY <2>1, <2>2, <2>3, <2>4, RecordType
  <2>6. TypeOK'
    <3>1. \A key \in DOMAIN entries' : entries'[key] \in EntryType
      BY <2>5 DEF EntriesOK
    <3> QED BY <2>1, <2>5, <3>1 DEF TypeOK
  <2>7. SlotsBounded'
    BY <2>1, <2>5 DEF SlotsBounded
  <2>8. AboutOwnFiles'
    BY <2>1, <2>5 DEF AboutOwnFiles, EntriesOK
  <2>9. PhaseShape'
    BY <2>1, <2>5 DEF PhaseShape
  <2> QED BY <2>6, <2>7, <2>8, <2>9
<1>11. ASSUME NEW o \in DOMAIN scheduled, CollectFailure(o) PROVE TypeInv'
  <2>1. CASE Jobs > 1
    <3>1. /\ phase = "pool" /\ phase' = "drain"
          /\ UNCHANGED <<workspace, mode, next, order, outcomes, scheduled, bailed,
                         metrics, futures, versions, dirty, ticks, total, startDisk, captured>>
      BY <1>11, <2>1 DEF CollectFailure
    <3>2. TypeOK'
      BY <3>1 DEF TypeOK, Active, workspace
    <3>3. SlotsBounded'
      BY <3>1 DEF SlotsBounded
    <3>4. AboutOwnFiles'
      BY <3>1 DEF AboutOwnFiles, workspace
    <3>5. PhaseShape'
      BY <3>1 DEF PhaseShape
    <3> QED BY <3>2, <3>3, <3>4, <3>5
  <2>2. CASE ~(Jobs > 1)
    BY <1>11, <2>2, FailType DEF CollectFailure
  <2> QED BY <2>1, <2>2
<1>12. ASSUME Finish PROVE TypeInv'
  <2>1. /\ phase = "pool" /\ phase' = "done" /\ AllRecorded
        /\ metrics' = [f \in Files |-> IF metrics[f] = Absent THEN disk[f] ELSE metrics[f]]
        /\ (manifest' = manifest \/ manifest' = versions)
        /\ dirty' = FALSE
        /\ UNCHANGED <<disk, clock, installed, entries, runs, mode, next, order, outcomes,
                       scheduled, bailed, futures, versions, ticks, total, startDisk, captured>>
    BY <1>12 DEF Finish
  <2>2. metrics' \in [Files -> {Absent} \cup Stamps] /\ manifest' \in [Tools -> 0..MaxVersion]
    BY <2>1 DEF TypeOK
  <2>3. TypeOK'
    BY <2>1, <2>2 DEF TypeOK
  <2>4. SlotsBounded'
    BY <2>1 DEF SlotsBounded
  <2>5. AboutOwnFiles'
    BY <2>1 DEF AboutOwnFiles
  <2>6. PhaseShape'
    BY <2>1 DEF PhaseShape, AllRecorded
  <2> QED BY <2>3, <2>4, <2>5, <2>6
<1>13. ASSUME NEW m \in Modes, BeginRun(m) PROVE TypeInv'
  <2>1. Cardinality(Wanted(m)) \in Nat
    BY WantedCardinality
  <2>2. /\ disk' = disk /\ clock' = clock /\ installed' = installed
        /\ entries' = entries /\ manifest' = manifest
        /\ versions' = manifest /\ startDisk' = disk
    BY <1>13 DEF BeginRun
  <2>3. phase' \in {"idle", "plan", "failed"} /\ FreshState
    BY <1>13 DEF BeginRun
  <2>4. versions' \in [Tools -> 0..MaxVersion] /\ startDisk' \in [Files -> Stamps]
    BY <2>2 DEF TypeOK
  <2>5. runs' \in 0..MaxRuns /\ mode' \in Modes \cup {DefaultMode} /\ total' \in Nat
    BY <1>13, <2>1, BoundsAssumption DEF BeginRun, TypeOK
  <2> HIDE DEF TypeInv
  <2>6. TypeInv
    OBVIOUS
  <2> QED BY <2>2, <2>3, <2>4, <2>5, <2>6, FreshType
<1>14. ASSUME Exit PROVE TypeInv'
  <2>1. 0 \in Stamps /\ 0 \in 0..MaxVersion
    BY BoundsAssumption DEF Stamps
  <2>2. /\ disk' = disk /\ clock' = clock /\ installed' = installed
        /\ entries' = entries /\ manifest' = manifest /\ runs' = runs
        /\ mode' = DefaultMode /\ total' = 0
    BY <1>14 DEF Exit, workspace
  <2>3. phase' \in {"idle", "plan", "failed"} /\ FreshState
    BY <1>14 DEF Exit
  <2>4. versions' \in [Tools -> 0..MaxVersion] /\ startDisk' \in [Files -> Stamps]
    BY <1>14, <2>1 DEF Exit
  <2>5. runs' \in 0..MaxRuns /\ mode' \in Modes \cup {DefaultMode} /\ total' \in Nat
    BY <2>2 DEF TypeOK
  <2> HIDE DEF TypeInv
  <2>6. TypeInv
    OBVIOUS
  <2> QED BY <2>2, <2>3, <2>4, <2>5, <2>6, FreshType
<1>15. ASSUME NEW f \in Files, EditFile(f) PROVE TypeInv'
  <2>1. /\ clock' \in Stamps /\ disk' \in [Files -> Stamps]
        /\ UNCHANGED <<installed, entries, manifest, runs, run>>
    BY <1>15, BoundsAssumption DEF EditFile, TypeOK, Stamps
  <2> QED BY <2>1, UntouchedRunType DEF TypeOK
<1>16. ASSUME NEW t \in Tools, UpgradeTool(t) PROVE TypeInv'
  <2>1. /\ installed' \in [Tools -> 1..MaxVersion]
        /\ UNCHANGED <<disk, clock, entries, manifest, runs, run>>
    BY <1>16, BoundsAssumption DEF UpgradeTool, TypeOK
  <2> QED BY <2>1, UntouchedRunType DEF TypeOK
<1>17. CASE UNCHANGED vars
  BY <1>17, UntouchedRunType DEF vars, workspace, TypeOK
<1>18. ASSUME Work PROVE TypeInv'
  BY <1>1, <1>2, <1>3, <1>4, <1>5, <1>6, <1>7, <1>8, <1>10, <1>11, <1>12, <1>18, FailType
  DEF Work, PrepareStep, ToolReturns, OwnStep, PoolDrained
<1>19. ASSUME Fault PROVE TypeInv'
  BY <1>9, <1>19, FailType DEF Fault, PreparationFails, ImmediateRaises, Killed
<1>20. ASSUME Environment PROVE TypeInv'
  BY <1>13, <1>14, <1>15, <1>16, <1>17, <1>20 DEF Environment, Rest
<1> QED BY <1>17, <1>18, <1>19, <1>20 DEF Next

\* Types, per-action contents and phases are right in every reachable state.
THEOREM TypeCorrect == Spec => []TypeInv
<1>1. Init => TypeInv
  BY TypeInit
<1>2. TypeInv /\ [Next]_vars => TypeInv'
  BY TypeStep
<1> QED BY <1>1, <1>2, PTL DEF Spec

\* TypeOK, for every plan and bound (the run pool checks it for one plan).
THEOREM TypesHold == Spec => []TypeOK
<1>1. TypeInv => TypeOK
  BY DEF TypeInv
<1> QED BY <1>1, TypeCorrect, PTL
-----------------------------------------------------------------------------
(* What a run reports: every wanted action in plan order, the first        *)
(* failure under --bail, and one progress tick per outcome.                *)

\* The types, the slots, the bail and the hooks; each part needs those before it.
ReportInv == TypeInv /\ SlotsFollowPlan /\ BailShape /\ CountsMatch

-----------------------------------------------------------------------------
(* Slots                                                                   *)

\* A walk that passes a wanted action passes one more of them.
LEMMA WalkedGrows ==
  ASSUME TypeInv, NEW k \in Wanted(mode), next = k, mode' = mode, next' = k + 1
  PROVE  /\ Walked' = Walked \cup {k} /\ k \notin Walked
         /\ Cardinality(Walked') = Cardinality(Walked) + 1
<1>1. Wanted(mode) \subseteq Nat
  BY LenPlan DEF Wanted, Indices
<1>2. Walked' = Walked \cup {k} /\ k \notin Walked
  BY <1>1 DEF Walked
<1>3. IsFiniteSet(Walked)
  BY WantedCardinality, FS_Subset DEF Walked
<1> QED BY <1>2, <1>3, FS_AddElement

\* A walk that passes an unwanted action passes no wanted one.
LEMMA WalkedStays ==
  ASSUME NEW k \in Indices, next = k, ~ShouldRun(mode, Plan[k]),
         mode' = mode, next' = k + 1
  PROVE  Walked' = Walked
BY LenPlan DEF Walked, Wanted, Indices

\* The action at the walk takes the next slot, as an outcome or in the queue.
LEMMA SlotGiven ==
  ASSUME TypeInv, SlotsFollowPlan,
         NEW k \in Wanted(mode), next = k, mode' = mode, order' = order + 1, next' = k + 1,
         (DOMAIN outcomes \cup DOMAIN scheduled)' = 0..order,
         \A o \in 0..(order - 1) : Slot(o)' = Slot(o),
         \A o \in {order} : Slot(o)' = k,
         \A o \in DOMAIN outcomes' : outcomes'[o].act = Slot(o)'
  PROVE  SlotsFollowPlan'
<1>1. order \in Nat
  BY LenPlan DEF TypeInv, TypeOK
<1>2. Walked' = Walked \cup {k} /\ order' = Cardinality(Walked')
  BY WalkedGrows DEF SlotsFollowPlan
<1>3. 0..(order' - 1) = 0..order /\ 0..order = 0..(order - 1) \cup {order}
  BY <1>1
<1>4. \A o \in 0..(order - 1) : Slot(o) < k
  BY DEF SlotsFollowPlan, Walked
<1>5. \A o, p \in 0..order : o < p => Slot(o)' < Slot(p)'
  <2> SUFFICES ASSUME NEW o \in 0..order, NEW p \in 0..order, o < p
               PROVE  Slot(o)' < Slot(p)'
    OBVIOUS
  <2>1. o \in 0..(order - 1)
    BY <1>1
  <2>2. CASE p = order
    <3>1. Slot(p)' = k /\ Slot(o)' = Slot(o)
      BY <2>1, <2>2
    <3> QED BY <1>4, <2>1, <3>1
  <2>3. CASE p \in 0..(order - 1)
    BY <2>1, <2>3 DEF SlotsFollowPlan
  <2> QED BY <1>3, <2>2, <2>3
<1>6. {Slot(o)' : o \in 0..order} = Walked \cup {k}
  <2>1. {Slot(o)' : o \in 0..order} = {Slot(o)' : o \in 0..(order - 1)} \cup {Slot(o)' : o \in {order}}
    BY <1>3
  <2>2. {Slot(o)' : o \in 0..(order - 1)} = {Slot(o) : o \in 0..(order - 1)}
    OBVIOUS
  <2>3. {Slot(o)' : o \in {order}} = {k}
    OBVIOUS
  <2> QED BY <2>1, <2>2, <2>3 DEF SlotsFollowPlan
<1> QED BY <1>2, <1>3, <1>5, <1>6 DEF SlotsFollowPlan

\* Steps that give out no slot.
LEMMA SlotsKept ==
  ASSUME SlotsFollowPlan, order' = order, Walked' = Walked, scheduled' = scheduled,
         DOMAIN outcomes \subseteq DOMAIN outcomes',
         DOMAIN outcomes' \subseteq DOMAIN outcomes \cup DOMAIN scheduled,
         \A o \in DOMAIN outcomes' : outcomes'[o].act =
           IF o \in DOMAIN scheduled THEN scheduled[o] ELSE outcomes[o].act
  PROVE  SlotsFollowPlan'
<1>1. \A o \in 0..(order - 1) : Slot(o)' = Slot(o)
  BY DEF Slot, SlotsFollowPlan
<1>2. (DOMAIN outcomes \cup DOMAIN scheduled)' = 0..(order - 1)
  BY DEF SlotsFollowPlan
<1>3. \A o \in DOMAIN outcomes' : outcomes'[o].act = Slot(o)'
  BY DEF Slot
<1>4. {Slot(o)' : o \in 0..(order - 1)} = {Slot(o) : o \in 0..(order - 1)}
  BY <1>1
<1> QED BY <1>1, <1>2, <1>3, <1>4 DEF SlotsFollowPlan

\* An outcome recorded by the walk takes the next slot.
LEMMA SlotRecorded ==
  ASSUME TypeInv, SlotsFollowPlan,
         NEW k \in Wanted(mode), next = k, mode' = mode, order' = order + 1, next' = k + 1,
         scheduled' = scheduled,
         NEW outcome, outcome.act = k,
         NEW m, NEW d, Record(order, outcome, m, d)
  PROVE  /\ SlotsFollowPlan'
         /\ DOMAIN outcomes' = DOMAIN outcomes \cup {order}
         /\ order \notin DOMAIN outcomes
         /\ outcomes'[order] = outcome
         /\ \A o \in DOMAIN outcomes : outcomes'[o] = outcomes[o]
<1>1. order \in Nat
  BY LenPlan DEF TypeInv, TypeOK
<1>2. order \notin DOMAIN outcomes \cup DOMAIN scheduled
  BY <1>1 DEF TypeInv, SlotsBounded
<1>3. /\ DOMAIN outcomes' = DOMAIN outcomes \cup {order}
      /\ outcomes'[order] = outcome
      /\ \A o \in DOMAIN outcomes : outcomes'[o] = outcomes[o]
  BY <1>2 DEF Record, Put
<1>4. (DOMAIN outcomes \cup DOMAIN scheduled)' = 0..order
  BY <1>1, <1>3 DEF SlotsFollowPlan
<1>5. \A o \in 0..(order - 1) : Slot(o)' = Slot(o)
  BY <1>1, <1>3 DEF Slot, SlotsFollowPlan
<1>6. \A o \in {order} : Slot(o)' = k
  BY <1>2, <1>3 DEF Slot
<1>7. \A o \in DOMAIN outcomes' : outcomes'[o].act = Slot(o)'
  BY <1>2, <1>3 DEF Slot, SlotsFollowPlan
<1>8. SlotsFollowPlan'
  BY <1>4, <1>5, <1>6, <1>7, SlotGiven
<1> QED BY <1>2, <1>3, <1>8

\* The outcome of a queued action goes to the slot the action has.
LEMMA SlotCollected ==
  ASSUME TypeInv, NEW o \in DOMAIN scheduled, CollectOutcome(o)
  PROVE  /\ DOMAIN outcomes' = DOMAIN outcomes \cup {o}
         /\ o \notin DOMAIN outcomes
         /\ outcomes'[o].act = scheduled[o]
         /\ \A p \in DOMAIN outcomes : outcomes'[p] = outcomes[p]
<1>1. o \notin DOMAIN outcomes /\ outcomes' = Put(outcomes, o, futures[o].outcome)
  BY DEF CollectOutcome, Record
<1>2. futures[o].outcome.act = scheduled[o]
  BY DEF TypeInv, AboutOwnFiles, CollectOutcome, InState
<1> QED BY <1>1, <1>2 DEF Put

\* A run whose memory is dropped has given out no slot.
LEMMA SlotsFresh == ASSUME FreshState PROVE SlotsFollowPlan'
<1>1. Walked' = {}
  BY LenPlan DEF FreshState, Walked, Wanted, Indices
<1>2. Cardinality({}) = 0
  BY FS_EmptySet
<1>3. DOMAIN outcomes' = {} /\ DOMAIN scheduled' = {} /\ order' = 0
  BY DEF FreshState, NoFunction
<1> QED BY <1>1, <1>2, <1>3 DEF SlotsFollowPlan

LEMMA SlotsStep ==
  ASSUME TypeInv, SlotsFollowPlan, BailShape, [Next]_vars
  PROVE  SlotsFollowPlan'
<1>0. \A o \in DOMAIN outcomes : outcomes[o].act =
         IF o \in DOMAIN scheduled THEN scheduled[o] ELSE outcomes[o].act
  BY DEF SlotsFollowPlan, Slot
<1>1. ASSUME NEW k \in Indices, SkipAction(k) PROVE SlotsFollowPlan'
  <2>1. Walked' = Walked
    BY <1>1, WalkedStays DEF SkipAction, AtAction
  <2> QED BY <1>0, <1>1, <2>1, SlotsKept DEF SkipAction
<1>2. ASSUME NEW k \in Indices, UseCachedOutcome(k) PROVE SlotsFollowPlan'
  <2> DEFINE outcome == Refreshed(entries[Key(k)].outcome)
  <2>1. outcome.act = k
    <3>1. Key(k) \in DOMAIN entries /\ Key(k)[1] = k
      BY <1>2 DEF UseCachedOutcome, Stored, Hit, Key
    <3>2. entries[Key(k)].outcome \in OutcomeType /\ entries[Key(k)].outcome.act = k
      BY <3>1 DEF TypeInv, TypeOK, AboutOwnFiles, EntryType
    <3> QED BY <3>2, RefreshedType
  <2>2. Record(order, outcome, entries[Key(k)].metrics, disk)
    BY <1>2 DEF UseCachedOutcome
  <2> HIDE DEF outcome
  <2>3. /\ k \in Wanted(mode) /\ next = k /\ mode' = mode /\ scheduled' = scheduled
        /\ order' = order + 1 /\ next' = k + 1
    BY <1>2 DEF UseCachedOutcome, AtAction, Wanted, Advance
  <2> QED BY <2>1, <2>2, <2>3, SlotRecorded
<1>3. ASSUME NEW k \in Indices, StartImmediate(k) PROVE SlotsFollowPlan'
  BY <1>0, <1>3, SlotsKept DEF StartImmediate, Walked
<1>4. ASSUME NEW k \in Indices, FinishImmediate(k) PROVE SlotsFollowPlan'
  <2>1. PICK result \in Results, fs \in Rewrites(k) :
          Record(order, OutcomeOf(k, result, Rewrite(fs, futures[order].about)),
                 MetricsFor(k, disk'), disk')
    BY <1>4 DEF FinishImmediate
  <2> DEFINE outcome == OutcomeOf(k, result, Rewrite(fs, futures[order].about))
  <2>2. outcome.act = k
    BY DEF OutcomeOf
  <2>3. /\ k \in Wanted(mode) /\ next = k /\ mode' = mode /\ scheduled' = scheduled
        /\ order' = order + 1 /\ next' = k + 1
    BY <1>4 DEF FinishImmediate, Advance, TypeInv, PhaseShape
  <2> HIDE DEF outcome
  <2>4. Record(order, outcome, MetricsFor(k, disk'), disk')
    BY <2>1 DEF outcome
  <2> QED BY <2>2, <2>3, <2>4, SlotRecorded
<1>5. ASSUME NEW k \in Indices, QueueAction(k) PROVE SlotsFollowPlan'
  <2>1. order \in Nat /\ order \notin DOMAIN outcomes \cup DOMAIN scheduled
    BY LenPlan DEF TypeInv, TypeOK, SlotsBounded
  <2>2. /\ DOMAIN scheduled' = DOMAIN scheduled \cup {order}
        /\ \A o \in DOMAIN scheduled' :
             scheduled'[o] = IF o = order THEN k ELSE scheduled[o]
    BY <1>5 DEF QueueAction, Put
  <2>3. /\ k \in Wanted(mode) /\ next = k /\ mode' = mode /\ outcomes' = outcomes
        /\ order' = order + 1 /\ next' = k + 1
    BY <1>5 DEF QueueAction, AtAction, Wanted, Advance
  <2>4. (DOMAIN outcomes \cup DOMAIN scheduled)' = 0..order
    BY <2>1, <2>2, <2>3 DEF SlotsFollowPlan
  <2>5. \A o \in 0..(order - 1) : Slot(o)' = Slot(o)
    BY <2>1, <2>2, <2>3 DEF Slot
  <2>6. \A o \in {order} : Slot(o)' = k
    BY <2>2 DEF Slot
  <2>7. \A o \in DOMAIN outcomes' : outcomes'[o].act = Slot(o)'
    BY <2>1, <2>2, <2>3, <1>0 DEF Slot
  <2> QED BY <2>3, <2>4, <2>5, <2>6, <2>7, SlotGiven
<1>6. ASSUME ExecuteScheduled PROVE SlotsFollowPlan'
  <2>1. scheduled' = scheduled
    BY <1>6 DEF ExecuteScheduled, BailShape
  <2> QED BY <1>0, <1>6, <2>1, SlotsKept DEF ExecuteScheduled, Walked
<1>7. ASSUME NEW o \in DOMAIN scheduled, StartScheduled(o) PROVE SlotsFollowPlan'
  BY <1>0, <1>7, SlotsKept DEF StartScheduled, Walked
<1>8. ASSUME NEW o \in DOMAIN scheduled, FinishScheduled(o) PROVE SlotsFollowPlan'
  BY <1>0, <1>8, SlotsKept DEF FinishScheduled, Walked
<1>9. ASSUME NEW o \in DOMAIN scheduled, ScheduledRaises(o) PROVE SlotsFollowPlan'
  BY <1>0, <1>9, SlotsKept DEF ScheduledRaises, Walked
<1>10. ASSUME NEW o \in DOMAIN scheduled, CollectOutcome(o) PROVE SlotsFollowPlan'
  <2>1. order' = order /\ Walked' = Walked /\ scheduled' = scheduled
    BY <1>10 DEF CollectOutcome, Walked
  <2>2. /\ DOMAIN outcomes' = DOMAIN outcomes \cup {o}
        /\ outcomes'[o].act = scheduled[o]
        /\ \A p \in DOMAIN outcomes : outcomes'[p] = outcomes[p]
    BY <1>10, SlotCollected
  <2> QED BY <1>0, <2>1, <2>2, SlotsKept
<1>11. ASSUME NEW o \in DOMAIN scheduled, CollectFailure(o) PROVE SlotsFollowPlan'
  <2>1. CASE Jobs > 1
    BY <1>0, <1>11, <2>1, SlotsKept DEF CollectFailure, Walked
  <2>2. CASE ~(Jobs > 1)
    BY <1>11, <2>2, SlotsFresh DEF CollectFailure, Fail
  <2> QED BY <2>1, <2>2
<1>12. ASSUME Finish PROVE SlotsFollowPlan'
  BY <1>0, <1>12, SlotsKept DEF Finish, Walked
<1>13. ASSUME UNCHANGED run PROVE SlotsFollowPlan'
  BY <1>0, <1>13, SlotsKept DEF run, Walked
<1>14. ASSUME Fail PROVE SlotsFollowPlan'
  BY <1>14, SlotsFresh DEF Fail
<1>15. ASSUME Work PROVE SlotsFollowPlan'
  BY <1>1, <1>2, <1>3, <1>4, <1>5, <1>6, <1>7, <1>8, <1>10, <1>11, <1>12, <1>14, <1>15
  DEF Work, PrepareStep, ToolReturns, OwnStep, PoolDrained
<1>16. ASSUME Fault PROVE SlotsFollowPlan'
  BY <1>9, <1>14, <1>16 DEF Fault, PreparationFails, ImmediateRaises, Killed
<1>17. ASSUME Environment PROVE SlotsFollowPlan'
  BY <1>13, <1>17, SlotsFresh
  DEF Environment, BeginRun, Exit, EditFile, UpgradeTool, Rest, vars
<1> QED BY <1>13, <1>15, <1>16, <1>17 DEF Next, vars

-----------------------------------------------------------------------------
(* Bail                                                                    *)

\* A run whose memory is dropped has not bailed.
LEMMA BailFresh == ASSUME FreshState PROVE BailShape'
BY DEF FreshState, BailShape, NoFunction

\* Steps of a run that has not bailed and records nothing.
LEMMA BailKept ==
  ASSUME BailShape, bailed' = bailed, mode' = mode, outcomes' = outcomes, order' = order,
         mode.bail => scheduled' = scheduled,
         bailed => futures' = futures
  PROVE  BailShape'
BY DEF BailShape

\* An outcome recorded by the walk, bailing or not.
LEMMA BailRecorded ==
  ASSUME TypeInv, BailShape, ~bailed, mode' = mode, order' = order + 1,
         scheduled' = scheduled, futures' = NoFunction,
         NEW outcome, outcomes'[order] = outcome,
         DOMAIN outcomes' = DOMAIN outcomes \cup {order},
         \A o \in DOMAIN outcomes : outcomes'[o] = outcomes[o],
         bailed' => mode.bail /\ outcome.returncode # 0,
         mode.bail /\ ~bailed' => (\/ outcome.returncode = 0
                                   \/ Plan[outcome.act].ignore_exit /\ ~outcome.cached)
  PROVE  BailShape'
<1>1. order \in Nat /\ order' - 1 = order
  BY LenPlan DEF TypeInv, TypeOK
<1> QED BY <1>1 DEF BailShape

LEMMA BailStep ==
  ASSUME TypeInv, SlotsFollowPlan, BailShape, [Next]_vars
  PROVE  BailShape'
<1>1. ASSUME NEW k \in Indices, SkipAction(k) PROVE BailShape'
  BY <1>1, BailKept DEF SkipAction
<1>2. ASSUME NEW k \in Indices, UseCachedOutcome(k) PROVE BailShape'
  <2> DEFINE outcome == Refreshed(entries[Key(k)].outcome)
  <2>1. outcome.act = k
    <3>1. Key(k) \in DOMAIN entries /\ Key(k)[1] = k
      BY <1>2 DEF UseCachedOutcome, Stored, Hit, Key
    <3>2. entries[Key(k)].outcome \in OutcomeType /\ entries[Key(k)].outcome.act = k
      BY <3>1 DEF TypeInv, TypeOK, AboutOwnFiles, EntryType
    <3> QED BY <3>2, RefreshedType
  <2>2. /\ Record(order, outcome, entries[Key(k)].metrics, disk)
        /\ bailed' = (mode.bail /\ outcome.returncode # 0)
    BY <1>2 DEF UseCachedOutcome
  <2> HIDE DEF outcome
  <2>3. /\ k \in Wanted(mode) /\ next = k /\ mode' = mode /\ scheduled' = scheduled
        /\ order' = order + 1 /\ next' = k + 1 /\ ~bailed /\ futures' = NoFunction
    BY <1>2 DEF UseCachedOutcome, AtAction, Wanted, Advance, TypeInv, PhaseShape
  <2>4. /\ DOMAIN outcomes' = DOMAIN outcomes \cup {order}
        /\ outcomes'[order] = outcome
        /\ \A o \in DOMAIN outcomes : outcomes'[o] = outcomes[o]
    BY <2>1, <2>2, <2>3, SlotRecorded
  <2> QED BY <2>2, <2>3, <2>4, BailRecorded
<1>3. ASSUME NEW k \in Indices, StartImmediate(k) PROVE BailShape'
  BY <1>3, BailKept DEF StartImmediate, AtAction
<1>4. ASSUME NEW k \in Indices, FinishImmediate(k) PROVE BailShape'
  <2>1. PICK result \in Results, fs \in Rewrites(k) :
          LET outcome == OutcomeOf(k, result, Rewrite(fs, futures[order].about)) IN
          /\ Record(order, outcome, MetricsFor(k, disk'), disk')
          /\ bailed' = (mode.bail /\ outcome.returncode # 0 /\ ~Plan[k].ignore_exit)
    BY <1>4 DEF FinishImmediate
  <2> DEFINE outcome == OutcomeOf(k, result, Rewrite(fs, futures[order].about))
  <2>2. outcome.act = k /\ ~outcome.cached
    BY DEF OutcomeOf
  <2>3. /\ k \in Wanted(mode) /\ next = k /\ mode' = mode /\ scheduled' = scheduled
        /\ order' = order + 1 /\ next' = k + 1 /\ ~bailed /\ futures' = NoFunction
    BY <1>4 DEF FinishImmediate, Advance, TypeInv, PhaseShape
  <2> HIDE DEF outcome
  <2>4. /\ Record(order, outcome, MetricsFor(k, disk'), disk')
        /\ bailed' = (mode.bail /\ outcome.returncode # 0 /\ ~Plan[k].ignore_exit)
    BY <2>1 DEF outcome
  <2>5. /\ DOMAIN outcomes' = DOMAIN outcomes \cup {order}
        /\ outcomes'[order] = outcome
        /\ \A o \in DOMAIN outcomes : outcomes'[o] = outcomes[o]
    BY <2>2, <2>3, <2>4, SlotRecorded
  <2> QED BY <2>2, <2>3, <2>4, <2>5, BailRecorded
<1>5. ASSUME NEW k \in Indices, QueueAction(k) PROVE BailShape'
  <2>1. ~mode.bail /\ ~bailed /\ mode' = mode /\ bailed' = bailed
    BY <1>5 DEF QueueAction, Immediate, AtAction
  <2> QED BY <2>1 DEF BailShape
<1>6. ASSUME ExecuteScheduled PROVE BailShape'
  BY <1>6, BailKept DEF ExecuteScheduled, BailShape
<1>7. ASSUME NEW o \in DOMAIN scheduled PROVE ~mode.bail /\ ~bailed
  BY <1>7 DEF BailShape, NoFunction
<1>8. ASSUME NEW o \in DOMAIN scheduled, StartScheduled(o) PROVE BailShape'
  BY <1>7, <1>8, BailKept DEF StartScheduled
<1>9. ASSUME NEW o \in DOMAIN scheduled, FinishScheduled(o) PROVE BailShape'
  BY <1>7, <1>9, BailKept DEF FinishScheduled
<1>10. ASSUME NEW o \in DOMAIN scheduled, ScheduledRaises(o) PROVE BailShape'
  BY <1>7, <1>10, BailKept DEF ScheduledRaises
<1>11. ASSUME NEW o \in DOMAIN scheduled, CollectOutcome(o) PROVE BailShape'
  BY <1>7, <1>11 DEF CollectOutcome, BailShape
<1>12. ASSUME NEW o \in DOMAIN scheduled, CollectFailure(o) PROVE BailShape'
  <2>1. CASE Jobs > 1
    BY <1>12, <2>1, BailKept DEF CollectFailure
  <2>2. CASE ~(Jobs > 1)
    BY <1>12, <2>2, BailFresh DEF CollectFailure, Fail
  <2> QED BY <2>1, <2>2
<1>13. ASSUME Finish PROVE BailShape'
  BY <1>13, BailKept DEF Finish
<1>14. ASSUME UNCHANGED run PROVE BailShape'
  BY <1>14, BailKept DEF run
<1>15. ASSUME Fail PROVE BailShape'
  BY <1>15, BailFresh DEF Fail
<1>16. ASSUME Work PROVE BailShape'
  BY <1>1, <1>2, <1>3, <1>4, <1>5, <1>6, <1>8, <1>9, <1>11, <1>12, <1>13, <1>15, <1>16
  DEF Work, PrepareStep, ToolReturns, OwnStep, PoolDrained
<1>17. ASSUME Fault PROVE BailShape'
  BY <1>10, <1>15, <1>17 DEF Fault, PreparationFails, ImmediateRaises, Killed
<1>18. ASSUME Environment PROVE BailShape'
  BY <1>14, <1>18, BailFresh
  DEF Environment, BeginRun, Exit, EditFile, UpgradeTool, Rest, vars
<1> QED BY <1>14, <1>16, <1>17, <1>18 DEF Next, vars

-----------------------------------------------------------------------------
(* The progress hooks                                                      *)

\* The slots are finitely many, as many as the walk has given out.
LEMMA SlotsFinite ==
  ASSUME TypeInv, SlotsFollowPlan
  PROVE  /\ IsFiniteSet(DOMAIN outcomes) /\ Cardinality(DOMAIN outcomes) <= order
         /\ Cardinality(0..(order - 1)) = order
<1>1. order \in Nat
  BY LenPlan DEF TypeInv, TypeOK
<1>2. IsFiniteSet(0..(order - 1)) /\ Cardinality(0..(order - 1)) = order
  BY <1>1, FS_Interval
<1>3. DOMAIN outcomes \in SUBSET (0..(order - 1))
  BY DEF SlotsFollowPlan
<1> QED BY <1>2, <1>3, FS_Subset

\* Each outcome recorded is one more and one tick more.
LEMMA OutcomeCounted ==
  ASSUME TypeInv, SlotsFollowPlan, CountsMatch, NEW o, o \notin DOMAIN outcomes,
         DOMAIN outcomes' = DOMAIN outcomes \cup {o}, ticks' = ticks + 1
  PROVE  ticks' = Cardinality(DOMAIN outcomes')
<1>1. Cardinality(DOMAIN outcomes \cup {o}) = Cardinality(DOMAIN outcomes) + 1
  BY SlotsFinite, FS_AddElement
<1> QED BY <1>1 DEF CountsMatch

LEMMA CountsFresh == ASSUME FreshState PROVE ticks' = Cardinality(DOMAIN outcomes')
<1>1. DOMAIN outcomes' = {} /\ ticks' = 0
  BY DEF FreshState, NoFunction
<1> QED BY <1>1, FS_EmptySet

LEMMA CountsStep ==
  ASSUME TypeInv, SlotsFollowPlan, CountsMatch, [Next]_vars
  PROVE  CountsMatch'
<1>1. ASSUME ticks' = ticks, outcomes' = outcomes, mode' = mode, total' = total, phase # "idle"
      PROVE  CountsMatch'
  BY <1>1 DEF CountsMatch, Wanted
<1>2. ASSUME NEW o, o \notin DOMAIN outcomes, DOMAIN outcomes' = DOMAIN outcomes \cup {o},
             ticks' = ticks + 1, mode' = mode, total' = total, phase # "idle"
      PROVE  CountsMatch'
  BY <1>2, OutcomeCounted DEF CountsMatch, Wanted
<1>3. ASSUME NEW k \in Indices, UseCachedOutcome(k) PROVE CountsMatch'
  <2>1. DOMAIN outcomes' = DOMAIN outcomes \cup {order} /\ ticks' = ticks + 1
    BY <1>3 DEF UseCachedOutcome, Record, Put
  <2>2. order \notin DOMAIN outcomes
    BY LenPlan DEF TypeInv, TypeOK, SlotsBounded
  <2> QED BY <1>2, <1>3, <2>1, <2>2 DEF UseCachedOutcome, AtAction
<1>4. ASSUME NEW k \in Indices, FinishImmediate(k) PROVE CountsMatch'
  <2>1. DOMAIN outcomes' = DOMAIN outcomes \cup {order} /\ ticks' = ticks + 1
    BY <1>4 DEF FinishImmediate, Record, Put
  <2>2. order \notin DOMAIN outcomes
    BY LenPlan DEF TypeInv, TypeOK, SlotsBounded
  <2> QED BY <1>2, <1>4, <2>1, <2>2 DEF FinishImmediate
<1>5. ASSUME NEW o \in DOMAIN scheduled, CollectOutcome(o) PROVE CountsMatch'
  <2>1. DOMAIN outcomes' = DOMAIN outcomes \cup {o} /\ ticks' = ticks + 1
    BY <1>5 DEF CollectOutcome, Record, Put
  <2> QED BY <1>2, <1>5, <2>1 DEF CollectOutcome
<1>6. ASSUME NEW k \in Indices,
             SkipAction(k) \/ StartImmediate(k) \/ QueueAction(k)
      PROVE  CountsMatch'
  BY <1>1, <1>6 DEF SkipAction, StartImmediate, QueueAction, AtAction
<1>7. ASSUME ExecuteScheduled \/ Finish PROVE CountsMatch'
  BY <1>1, <1>7 DEF ExecuteScheduled, Finish
<1>8. ASSUME NEW o \in DOMAIN scheduled,
             StartScheduled(o) \/ FinishScheduled(o) \/ ScheduledRaises(o)
      PROVE  CountsMatch'
  BY <1>1, <1>8 DEF StartScheduled, FinishScheduled, ScheduledRaises
<1>9. ASSUME Fail, phase # "idle" PROVE CountsMatch'
  BY <1>9, CountsFresh DEF Fail, CountsMatch, Wanted
<1>10. ASSUME NEW o \in DOMAIN scheduled, CollectFailure(o) PROVE CountsMatch'
  <2>1. CASE Jobs > 1
    BY <1>1, <1>10, <2>1 DEF CollectFailure
  <2>2. CASE ~(Jobs > 1)
    BY <1>9, <1>10, <2>2 DEF CollectFailure
  <2> QED BY <2>1, <2>2
<1>11. ASSUME UNCHANGED run PROVE CountsMatch'
  BY <1>11 DEF run, CountsMatch, Wanted
<1>12. ASSUME NEW m \in Modes, BeginRun(m) PROVE CountsMatch'
  <2>1. mode' = m /\ total' = Cardinality(Wanted(m)) /\ FreshState
    BY <1>12 DEF BeginRun
  <2>2. Wanted(mode)' = Wanted(m)
    BY <2>1 DEF Wanted
  <2> QED BY <2>1, <2>2, CountsFresh DEF CountsMatch
<1>13. ASSUME Exit PROVE CountsMatch'
  BY <1>13, CountsFresh DEF Exit, CountsMatch
<1>14. ASSUME Work PROVE CountsMatch'
  BY <1>3, <1>4, <1>5, <1>6, <1>7, <1>8, <1>9, <1>10, <1>14
  DEF Work, PrepareStep, ToolReturns, OwnStep, PoolDrained
<1>15. ASSUME Fault PROVE CountsMatch'
  BY <1>8, <1>9, <1>15
  DEF Fault, PreparationFails, ImmediateRaises, Killed, AtAction, Active
<1>16. ASSUME Environment PROVE CountsMatch'
  BY <1>11, <1>12, <1>13, <1>16 DEF Environment, EditFile, UpgradeTool, Rest, vars
<1> QED BY <1>11, <1>14, <1>15, <1>16 DEF Next, vars

-----------------------------------------------------------------------------
(* Theorems                                                                *)

\* ReportInv holds at the start and every step keeps it.
THEOREM ReportInvariant == Spec => []ReportInv
<1>1. Init => ReportInv
  <2> SUFFICES ASSUME Init PROVE ReportInv
    OBVIOUS
  <2>1. TypeInv
    BY TypeInit
  <2>2. Walked = {}
    BY LenPlan DEF Init, Walked, Wanted, Indices
  <2>3. DOMAIN outcomes = {} /\ DOMAIN scheduled = {} /\ order = 0 /\ Cardinality({}) = 0
    BY FS_EmptySet DEF Init, NoFunction
  <2>4. SlotsFollowPlan
    BY <2>2, <2>3 DEF SlotsFollowPlan
  <2>5. BailShape /\ CountsMatch
    BY <2>3 DEF Init, BailShape, CountsMatch
  <2> QED BY <2>1, <2>4, <2>5 DEF ReportInv
<1>2. ReportInv /\ [Next]_vars => ReportInv'
  BY TypeStep, SlotsStep, BailStep, CountsStep DEF ReportInv
<1> QED BY <1>1, <1>2, PTL DEF Spec

\* A run that ends without bailing has passed the whole plan, and its slots hold
\* outcomes.
LEMMA DoneShape ==
  ASSUME ReportInv, phase = "done", ~bailed
  PROVE  /\ DOMAIN outcomes = 0..(order - 1)
         /\ Walked = Wanted(mode) /\ order = Cardinality(Wanted(mode))
         /\ \A o \in DOMAIN outcomes : outcomes[o].act = Slot(o)
<1>1. next = Len(Plan) + 1 /\ DOMAIN scheduled \subseteq DOMAIN outcomes
  BY DEF ReportInv, TypeInv, PhaseShape, AllRecorded
<1>2. Walked = Wanted(mode)
  BY <1>1, LenPlan DEF Walked, Wanted, Indices
<1> QED BY <1>1, <1>2 DEF ReportInv, SlotsFollowPlan

\* Every complete run reports each wanted action once, in plan order, for every
\* plan, pool size, mode and interleaving of the pool with faults.
THEOREM Completeness == Spec => []ReportIsComplete
<1>1. ReportInv => ReportIsComplete
  <2> SUFFICES ASSUME ReportInv, phase = "done", ~bailed
               PROVE  /\ DOMAIN outcomes = 0..(Cardinality(Wanted(mode)) - 1)
                      /\ {outcomes[o].act : o \in DOMAIN outcomes} = Wanted(mode)
                      /\ \A o, p \in DOMAIN outcomes :
                           o < p => outcomes[o].act < outcomes[p].act
    BY DEF ReportIsComplete
  <2>1. {outcomes[o].act : o \in DOMAIN outcomes} = {Slot(o) : o \in 0..(order - 1)}
    BY DoneShape
  <2>2. SlotsFollowPlan
    BY DEF ReportInv
  <2> QED BY <2>1, <2>2, DoneShape DEF SlotsFollowPlan
<1> QED BY <1>1, ReportInvariant, PTL

\* --bail stops at the first failure, whatever the cache answered before it.
THEOREM BailStops == Spec => []BailStopsAtFirstFailure
<1>1. ReportInv => BailStopsAtFirstFailure
  <2> SUFFICES ASSUME ReportInv, bailed PROVE BailStopsAtFirstFailure
    BY DEF BailStopsAtFirstFailure
  <2>1. /\ mode.bail /\ scheduled = NoFunction /\ futures = NoFunction
        /\ order > 0 /\ outcomes[order - 1].returncode # 0
        /\ \A o \in DOMAIN outcomes :
             \/ outcomes[o].returncode = 0
             \/ Plan[outcomes[o].act].ignore_exit /\ ~outcomes[o].cached
             \/ o = order - 1
    BY DEF ReportInv, BailShape
  <2>2. DOMAIN outcomes = 0..(order - 1)
    BY <2>1 DEF ReportInv, SlotsFollowPlan, NoFunction
  <2>3. order \in Nat
    BY LenPlan DEF ReportInv, TypeInv, TypeOK
  <2>4. \A o \in 0..(order - 2) : o \in DOMAIN outcomes /\ o # order - 1
    BY <2>2, <2>3
  <2> QED BY <2>1, <2>2, <2>4 DEF BailStopsAtFirstFailure
<1> QED BY <1>1, ReportInvariant, PTL

\* The progress bar never passes its total and reaches it when a run completes.
THEOREM ProgressCounts == Spec => []ProgressAddsUp
<1>1. ReportInv => ProgressAddsUp
  <2> SUFFICES ASSUME ReportInv PROVE ProgressAddsUp
    OBVIOUS
  <2>1. /\ TypeInv /\ SlotsFollowPlan
        /\ ticks = Cardinality(DOMAIN outcomes)
        /\ phase # "idle" => total = Cardinality(Wanted(mode))
        /\ total \in Nat
    BY DEF ReportInv, CountsMatch, TypeInv, TypeOK
  <2>2. ticks <= order /\ order = Cardinality(Walked) /\ order \in Nat /\ ticks \in Nat
    <3>1. order \in Nat /\ ticks \in Nat
      BY <2>1, LenPlan DEF TypeInv, TypeOK
    <3>2. Cardinality(DOMAIN outcomes) <= order
      BY <2>1, SlotsFinite
    <3> QED BY <2>1, <3>1, <3>2 DEF SlotsFollowPlan
  <2>3. Cardinality(Walked) <= Cardinality(Wanted(mode))
    BY WantedCardinality, FS_Subset DEF Walked
  <2>4. ticks <= total
    <3>1. CASE phase = "idle"
      <4>1. DOMAIN outcomes = {}
        BY <2>1, <3>1 DEF TypeInv, PhaseShape, NoFunction
      <4> QED BY <2>1, <4>1, FS_EmptySet
    <3>2. CASE phase # "idle"
      BY <2>1, <2>2, <2>3, <3>2
    <3> QED BY <3>1, <3>2
  <2>5. phase = "done" /\ ~bailed => ticks = total
    BY <2>1, DoneShape, SlotsFinite
  <2> QED BY <2>1, <2>4, <2>5 DEF ProgressAddsUp
<1> QED BY <1>1, ReportInvariant, PTL

-----------------------------------------------------------------------------
(* Refinement                                                              *)

LEMMA StatusOf ==
  /\ phase \in Active => RunStatus = "running"
  /\ phase = "done" => RunStatus = "complete"
  /\ phase = "failed" => RunStatus = "aborted"
  /\ phase = "idle" => RunStatus = "idle"
BY DEF RunStatus, Active

\* The same after a step.
LEMMA NextStatusOf ==
  /\ phase' \in Active => RunStatus' = "running"
  /\ phase' = "done" => RunStatus' = "complete"
  /\ phase' = "failed" => RunStatus' = "aborted"
  /\ phase' = "idle" => RunStatus' = "idle"
BY DEF RunStatus, Active

LEMMA WantsOfMode == ASSUME TypeOK PROVE Wants[mode] = Wanted(mode)
BY ModeFields DEF Wants

\* The reported actions are those of the slots that hold an outcome.
LEMMA ReportedSlots ==
  ASSUME ReportInv
  PROVE  /\ Reported = {Slot(o) : o \in DOMAIN outcomes}
         /\ DOMAIN outcomes \subseteq 0..(order - 1)
<1>1. \A o \in DOMAIN outcomes : outcomes[o].act = Slot(o)
  BY DEF ReportInv, SlotsFollowPlan
<1> QED BY <1>1 DEF Reported, ReportInv, SlotsFollowPlan

\* A step that adds one outcome reports its action.
LEMMA ReportsOne ==
  ASSUME TypeOK, NEW k \in Wanted(mode), k \notin Reported, Reported' = Reported \cup {k},
         phase \in Active, phase' \in Active, mode' = mode
  PROVE  Report!Next
<1>1. Report!Report(k)
  BY StatusOf, NextStatusOf, WantsOfMode DEF Report!Report
<1> QED BY <1>1, WantsOfMode DEF Report!Next

\* A step of an active run that records nothing cannot be seen.
LEMMA Unseen ==
  ASSUME phase \in Active, phase' \in Active, mode' = mode, outcomes' = outcomes
  PROVE  UNCHANGED Report!vars
BY StatusOf, NextStatusOf DEF Report!vars, Reported

\* An exception that leaves an active run aborts it.
LEMMA Aborts == ASSUME phase \in Active, Fail PROVE Report!Next
<1>1. Reported' = {}
  BY DEF Fail, FreshState, Reported, NoFunction
<1>2. Report!Abort
  BY <1>1, StatusOf, NextStatusOf DEF Report!Abort, Fail
<1> QED BY <1>2 DEF Report!Next

\* The walk reports an action that no slot holds yet.
LEMMA WalkReports ==
  ASSUME ReportInv, NEW k \in Wanted(mode), next = k, mode' = mode, order' = order + 1,
         next' = k + 1, scheduled' = scheduled, phase \in Active, phase' \in Active,
         NEW outcome, outcome.act = k,
         NEW m, NEW d, Record(order, outcome, m, d)
  PROVE  Report!Next
<1>1. TypeInv /\ SlotsFollowPlan /\ TypeOK
  BY DEF ReportInv, TypeInv
<1>2. /\ DOMAIN outcomes' = DOMAIN outcomes \cup {order}
      /\ outcomes'[order] = outcome
      /\ \A o \in DOMAIN outcomes : outcomes'[o] = outcomes[o]
  BY <1>1, SlotRecorded
<1>3. Reported' = Reported \cup {k}
  BY <1>2 DEF Reported
<1>4. k \notin Reported
  <2>1. Wanted(mode) \subseteq Nat
    BY LenPlan DEF Wanted, Indices
  <2>2. \A o \in DOMAIN outcomes : Slot(o) < k
    BY <1>1, ReportedSlots DEF SlotsFollowPlan, Walked
  <2> QED BY <2>1, <2>2, ReportedSlots
<1> QED BY <1>1, <1>3, <1>4, ReportsOne

\* A run that finishes has reported all, or bailed after a prefix.
LEMMA Completes == ASSUME ReportInv, Finish PROVE Report!Next
<1>1. /\ phase = "pool" /\ AllRecorded /\ phase' = "done"
      /\ mode' = mode /\ outcomes' = outcomes
  BY DEF Finish
<1>2. RunStatus = "running" /\ RunStatus' = "complete" /\ Reported' = Reported
  BY <1>1, StatusOf, NextStatusOf DEF Active, Reported
<1>3. TypeOK /\ TypeInv /\ SlotsFollowPlan /\ BailShape
  BY DEF ReportInv, TypeInv
<1>4. DOMAIN outcomes = 0..(order - 1)
  BY <1>1, <1>3 DEF AllRecorded, SlotsFollowPlan
<1>5. Reported = Walked
  BY <1>3, <1>4, ReportedSlots DEF SlotsFollowPlan
<1>6. CASE bailed
  <2>1. mode.bail /\ order \in Nat /\ order > 0
    BY <1>3, <1>6, LenPlan DEF BailShape, TypeOK
  <2>2. Reported # {}
    <3>1. order - 1 \in DOMAIN outcomes
      BY <1>4, <2>1
    <3>2. outcomes[order - 1].act \in Reported
      BY <3>1 DEF Reported
    <3> QED BY <3>2
  <2>3. Wanted(mode) \subseteq Int /\ next \in Int
    BY <1>3, LenPlan DEF Wanted, Indices, TypeOK
  <2>4. \A k \in Reported, j \in Wanted(mode) : j < k => j \in Reported
    BY <1>5, <2>3 DEF Walked
  <2>5. Report!IsPrefix
    BY <1>3, <2>4, WantsOfMode DEF Report!IsPrefix
  <2> QED BY <1>1, <1>2, <2>1, <2>2, <2>5 DEF Report!Complete, Report!Next
<1>7. CASE ~bailed
  <2>1. next = Len(Plan) + 1
    BY <1>1, <1>3, <1>7 DEF TypeInv, PhaseShape
  <2>2. Walked = Wanted(mode)
    BY <2>1, LenPlan DEF Walked, Wanted, Indices
  <2>3. Reported = Wants[mode]
    BY <1>3, <1>5, <2>2, WantsOfMode
  <2> QED BY <1>1, <1>2, <2>3 DEF Report!Complete, Report!Next
<1> QED BY <1>6, <1>7

LEMMA RefinementStep == ASSUME ReportInv, [Next]_vars PROVE [Report!Next]_(Report!vars)
<1>0. TypeInv /\ TypeOK /\ SlotsFollowPlan
  BY DEF ReportInv, TypeInv
<1>1. ASSUME NEW k \in Indices, SkipAction(k) \/ StartImmediate(k) \/ QueueAction(k)
      PROVE  UNCHANGED Report!vars
  BY <1>1, Unseen DEF SkipAction, StartImmediate, QueueAction, AtAction, Active
<1>2. ASSUME NEW k \in Indices, UseCachedOutcome(k) PROVE Report!Next
  <2> DEFINE outcome == Refreshed(entries[Key(k)].outcome)
  <2>1. outcome.act = k
    <3>1. Key(k) \in DOMAIN entries /\ Key(k)[1] = k
      BY <1>2 DEF UseCachedOutcome, Stored, Hit, Key
    <3>2. entries[Key(k)].outcome \in OutcomeType /\ entries[Key(k)].outcome.act = k
      BY <1>0, <3>1 DEF TypeInv, TypeOK, AboutOwnFiles, EntryType
    <3> QED BY <3>2, RefreshedType
  <2>2. Record(order, outcome, entries[Key(k)].metrics, disk)
    BY <1>2 DEF UseCachedOutcome
  <2> HIDE DEF outcome
  <2>3. /\ k \in Wanted(mode) /\ next = k /\ mode' = mode /\ scheduled' = scheduled
        /\ order' = order + 1 /\ next' = k + 1 /\ phase \in Active /\ phase' \in Active
    BY <1>2 DEF UseCachedOutcome, AtAction, Wanted, Advance, Active
  <2> QED BY <2>1, <2>2, <2>3, WalkReports
<1>3. ASSUME NEW k \in Indices, FinishImmediate(k) PROVE Report!Next
  <2>1. PICK result \in Results, fs \in Rewrites(k) :
          Record(order, OutcomeOf(k, result, Rewrite(fs, futures[order].about)),
                 MetricsFor(k, disk'), disk')
    BY <1>3 DEF FinishImmediate
  <2> DEFINE outcome == OutcomeOf(k, result, Rewrite(fs, futures[order].about))
  <2>2. outcome.act = k
    BY DEF OutcomeOf
  <2>3. /\ k \in Wanted(mode) /\ next = k /\ mode' = mode /\ scheduled' = scheduled
        /\ order' = order + 1 /\ next' = k + 1 /\ phase \in Active /\ phase' \in Active
    BY <1>0, <1>3 DEF FinishImmediate, Advance, TypeInv, PhaseShape, Active
  <2> HIDE DEF outcome
  <2>4. Record(order, outcome, MetricsFor(k, disk'), disk')
    BY <2>1 DEF outcome
  <2> QED BY <2>2, <2>3, <2>4, WalkReports
<1>4. ASSUME ExecuteScheduled PROVE UNCHANGED Report!vars
  BY <1>4, Unseen DEF ExecuteScheduled, Active
<1>5. ASSUME NEW o \in DOMAIN scheduled,
             StartScheduled(o) \/ FinishScheduled(o) \/ ScheduledRaises(o)
      PROVE  UNCHANGED Report!vars
  BY <1>5, Unseen DEF StartScheduled, FinishScheduled, ScheduledRaises, Active
<1>6. ASSUME NEW o \in DOMAIN scheduled, CollectOutcome(o) PROVE Report!Next
  <2>1. /\ DOMAIN outcomes' = DOMAIN outcomes \cup {o} /\ o \notin DOMAIN outcomes
        /\ outcomes'[o].act = scheduled[o]
        /\ \A p \in DOMAIN outcomes : outcomes'[p] = outcomes[p]
    BY <1>0, <1>6, SlotCollected
  <2>2. Reported' = Reported \cup {scheduled[o]}
    BY <2>1 DEF Reported
  <2>3. o \in 0..(order - 1) /\ Slot(o) = scheduled[o]
    BY <1>0 DEF SlotsFollowPlan, Slot
  <2>4. scheduled[o] \in Wanted(mode)
    BY <1>0, <2>3 DEF SlotsFollowPlan, Walked
  <2>5. scheduled[o] \notin Reported
    <3>1. \A p \in 0..(order - 1) : p # o => Slot(p) # Slot(o)
      <4> SUFFICES ASSUME NEW p \in 0..(order - 1), p # o PROVE Slot(p) # Slot(o)
        OBVIOUS
      <4>1. Slot(p) \in Int /\ Slot(o) \in Int
        BY <1>0, <2>3, LenPlan DEF SlotsFollowPlan, Walked, Wanted, Indices
      <4>2. p < o \/ o < p
        BY <2>3
      <4>3. Slot(p) < Slot(o) \/ Slot(o) < Slot(p)
        BY <1>0, <2>3, <4>2 DEF SlotsFollowPlan
      <4> QED BY <4>1, <4>3
    <3> QED BY <2>1, <2>3, <3>1, ReportedSlots
  <2>6. phase \in Active /\ phase' \in Active /\ mode' = mode
    BY <1>6 DEF CollectOutcome, Active
  <2> QED BY <1>0, <2>2, <2>4, <2>5, <2>6, ReportsOne
<1>7. ASSUME NEW o \in DOMAIN scheduled, CollectFailure(o) PROVE [Report!Next]_(Report!vars)
  <2>1. CASE Jobs > 1
    BY <1>7, <2>1, Unseen DEF CollectFailure, Active
  <2>2. CASE ~(Jobs > 1)
    BY <1>7, <2>2, Aborts DEF CollectFailure, Active
  <2> QED BY <2>1, <2>2
<1>8. ASSUME PoolDrained PROVE Report!Next
  BY <1>8, Aborts DEF PoolDrained, Active
<1>9. ASSUME Finish PROVE Report!Next
  BY <1>9, Completes
<1>10. ASSUME NEW k \in Indices, PreparationFails(k) PROVE Report!Next
  BY <1>10, Aborts DEF PreparationFails, AtAction, Active
<1>11. ASSUME ImmediateRaises \/ Killed PROVE Report!Next
  BY <1>11, Aborts DEF ImmediateRaises, Killed, Active
<1>12. ASSUME NEW m \in Modes, BeginRun(m) PROVE Report!Next
  <2>1. Reported' = {} /\ mode' = m /\ RunStatus = "idle" /\ RunStatus' = "running"
    BY <1>12, StatusOf, NextStatusOf DEF BeginRun, FreshState, Reported, NoFunction, Active
  <2> QED BY <2>1 DEF Report!Start, Report!Next
<1>13. ASSUME Exit PROVE Report!Next
  <2>1. Reported' = {} /\ RunStatus \in {"complete", "aborted"} /\ RunStatus' = "idle"
    BY <1>13, StatusOf, NextStatusOf DEF Exit, FreshState, Reported, NoFunction
  <2> QED BY <2>1 DEF Report!Leave, Report!Next
<1>14. ASSUME UNCHANGED run PROVE UNCHANGED Report!vars
  BY <1>14 DEF run, Report!vars, RunStatus, Reported
<1>15. ASSUME Work PROVE [Report!Next]_(Report!vars)
  BY <1>1, <1>2, <1>3, <1>4, <1>5, <1>6, <1>7, <1>8, <1>9, <1>15 DEF Work, PrepareStep, ToolReturns, OwnStep
<1>16. ASSUME Fault PROVE [Report!Next]_(Report!vars)
  BY <1>5, <1>10, <1>11, <1>16 DEF Fault
<1>17. ASSUME Environment PROVE [Report!Next]_(Report!vars)
  BY <1>12, <1>13, <1>14, <1>17 DEF Environment, EditFile, UpgradeTool, Rest, vars
<1> QED BY <1>14, <1>15, <1>16, <1>17 DEF Next, vars

\* Spec implements LintReport, for every plan, pool size, mode and fault.
THEOREM Refinement == Spec => ReportSpec
<1>1. Init => Report!Init
  BY StatusOf DEF Init, Report!Init, Reported, NoFunction
<1>2. ReportInv /\ [Next]_vars => [Report!Next]_(Report!vars)
  BY RefinementStep
<1> QED BY <1>1, <1>2, ReportInvariant, PTL DEF Spec, ReportSpec, Report!Spec
-----------------------------------------------------------------------------
(* What the outcomes of a run say about the files, when the user leaves    *)
(* the files alone while a run is active.                                  *)

CacheInv == TypeInv /\ EntriesDescribeStates

-----------------------------------------------------------------------------
(* File states                                                             *)

\* A rewrite of the disk shows in the states of any of its files.
LEMMA RewriteStates ==
  ASSUME TypeOK, NEW k \in Indices, NEW fs
  PROVE  FileStates(Rewrite(fs, disk), Plan[k].files) =
           Rewrite(fs, FileStates(disk, Plan[k].files))
<1>1. Plan[k].files \subseteq Files /\ DOMAIN disk = Files
  BY ActionFields DEF TypeOK
<1> QED BY <1>1 DEF Rewrite, FileStates

\* A tool that writes nothing changes no states.
LEMMA RewriteNothing ==
  ASSUME NEW S, NEW states \in [S -> Stamps]
  PROVE  Rewrite({}, states) = states
BY DEF Rewrite

\* Recording an outcome that describes the files keeps the entries right.
LEMMA RecordDescribes ==
  ASSUME TypeInv, \A key \in DOMAIN entries : entries[key].outcome.about = entries[key].states,
         NEW o, NEW outcome, NEW m, NEW d, Record(o, outcome, m, d),
         Storable(outcome) => outcome.about = FileStates(d, Plan[outcome.act].files)
  PROVE  \A key \in DOMAIN entries' : entries'[key].outcome.about = entries'[key].states
<1> DEFINE key0 == Key(outcome.act)
           entry == NewEntry(outcome, m, d, Plan[outcome.act].files)
<1>1. CASE Storable(outcome)
  <2>1. entry.outcome.about = entry.states
    BY <1>1 DEF NewEntry
  <2>2. entries' = Put(entries, key0, entry)
    BY <1>1 DEF Record
  <2> HIDE DEF entry, key0
  <2> QED BY <2>1, <2>2 DEF Put
<1>2. CASE ~Storable(outcome)
  BY <1>2 DEF Record
<1> QED BY <1>1, <1>2

\* A step that touches neither the files nor what speaks of them.
LEMMA DescribesKept ==
  ASSUME EntriesDescribeStates, UNCHANGED <<disk, entries, scheduled, futures, outcomes>>,
         phase' = phase, next' = next, order' = order
  PROVE  EntriesDescribeStates'
BY DEF EntriesDescribeStates

LEMMA DescribesFresh ==
  ASSUME EntriesDescribeStates, FreshState, entries' = entries, phase' \in {"idle", "plan", "failed"}
  PROVE  EntriesDescribeStates'
BY DEF EntriesDescribeStates, FreshState, NoFunction

-----------------------------------------------------------------------------
LEMMA DescribesStep ==
  ASSUME ~EditsDuringRun, TypeInv, EntriesDescribeStates, [Next]_vars
  PROVE  EntriesDescribeStates'
<1>0. /\ TypeOK
      /\ \A key \in DOMAIN entries : entries[key].outcome.about = entries[key].states
      /\ \A o \in DOMAIN scheduled : ~Plan[scheduled[o]].is_fix
  BY DEF EntriesDescribeStates, TypeInv
<1>1. ASSUME NEW k \in Indices, SkipAction(k) PROVE EntriesDescribeStates'
  BY <1>1 DEF SkipAction, AtAction, EntriesDescribeStates, workspace
<1>2. ASSUME NEW k \in Indices, UseCachedOutcome(k) PROVE EntriesDescribeStates'
  <2>1. phase' = "plan" /\ scheduled' = scheduled
    BY <1>2 DEF UseCachedOutcome, AtAction
  <2>2. ~Storable(Refreshed(entries[Key(k)].outcome))
    <3>1. Key(k) \in DOMAIN entries
      BY <1>2 DEF UseCachedOutcome, Stored, Hit
    <3>2. entries[Key(k)].outcome \in OutcomeType
      BY <1>0, <3>1 DEF TypeOK, EntryType
    <3> QED BY <3>2, RefreshedType DEF Storable
  <2>3. entries' = entries
    BY <1>2, <2>2 DEF UseCachedOutcome, Record
  <2> QED BY <1>0, <2>1, <2>3 DEF EntriesDescribeStates
<1>3. ASSUME NEW k \in Indices, StartImmediate(k) PROVE EntriesDescribeStates'
  <2>1. /\ futures' = Put(futures, order, Execution(k)) /\ phase' = "immediate" /\ next = k
        /\ order' = order /\ next' = next /\ disk' = disk
        /\ scheduled' = scheduled /\ entries' = entries
    BY <1>3 DEF StartImmediate, AtAction, workspace
  <2>2. futures'[order].about = FileStates(disk, Plan[k].files)
    BY <2>1 DEF Put, Execution
  <2> QED BY <1>0, <2>1, <2>2 DEF EntriesDescribeStates
<1>4. ASSUME NEW k \in Indices, FinishImmediate(k) PROVE EntriesDescribeStates'
  <2>1. PICK result \in Results, fs \in Rewrites(k) :
          /\ WriteFiles(fs)
          /\ Record(order, OutcomeOf(k, result, Rewrite(fs, futures[order].about)),
                    MetricsFor(k, disk'), disk')
    BY <1>4 DEF FinishImmediate
  <2> DEFINE outcome == OutcomeOf(k, result, Rewrite(fs, futures[order].about))
  <2>2. outcome.act = k /\ outcome.about = Rewrite(fs, futures[order].about)
    BY DEF OutcomeOf
  <2>3. phase' = "plan" /\ scheduled' = scheduled
        /\ futures[order].about = FileStates(disk, Plan[k].files)
    BY <1>4 DEF FinishImmediate, EntriesDescribeStates
  <2>4. disk' = Rewrite(fs, disk)
    BY <2>1 DEF WriteFiles
  <2>5. outcome.about = FileStates(disk', Plan[outcome.act].files)
    BY <1>0, <2>2, <2>3, <2>4, RewriteStates
  <2> HIDE DEF outcome
  <2>6. Record(order, outcome, MetricsFor(k, disk'), disk')
    BY <2>1 DEF outcome
  <2>7. \A key \in DOMAIN entries' : entries'[key].outcome.about = entries'[key].states
    BY <1>0, <2>5, <2>6, RecordDescribes
  <2> QED BY <1>0, <2>3, <2>7 DEF EntriesDescribeStates
<1>5. ASSUME NEW k \in Indices, QueueAction(k) PROVE EntriesDescribeStates'
  <2>1. /\ scheduled' = Put(scheduled, order, k) /\ ~Plan[k].is_fix
        /\ phase' = "plan" /\ entries' = entries
    BY <1>5 DEF QueueAction, AtAction, Immediate, workspace
  <2>2. \A o \in DOMAIN scheduled' : ~Plan[scheduled'[o]].is_fix
    BY <1>0, <2>1 DEF Put
  <2> QED BY <1>0, <2>1, <2>2 DEF EntriesDescribeStates
<1>6. ASSUME ExecuteScheduled PROVE EntriesDescribeStates'
  <2>1. /\ phase' = "pool" /\ entries' = entries /\ outcomes' = outcomes
        /\ DOMAIN futures' = {}
        /\ (scheduled' = scheduled \/ scheduled' = NoFunction)
        /\ DOMAIN scheduled \cap DOMAIN outcomes = {}
    BY <1>6 DEF ExecuteScheduled, TypeInv, PhaseShape, NoFunction, workspace
  <2>2. /\ DOMAIN scheduled' \cap DOMAIN outcomes' = {}
        /\ \A o \in DOMAIN scheduled' : ~Plan[scheduled'[o]].is_fix
    BY <1>0, <2>1 DEF NoFunction
  <2> QED BY <1>0, <2>1, <2>2 DEF EntriesDescribeStates
<1>7. ASSUME NEW o \in DOMAIN scheduled, StartScheduled(o) PROVE EntriesDescribeStates'
  <2>1. /\ phase \in {"pool", "drain"} /\ phase' = phase /\ o \notin DOMAIN futures
        /\ futures' = Put(futures, o, Execution(scheduled[o]))
        /\ UNCHANGED <<disk, entries, scheduled, outcomes>>
    BY <1>7 DEF StartScheduled, workspace
  <2>2. /\ DOMAIN futures' = DOMAIN futures \cup {o}
        /\ \A p \in DOMAIN futures : futures'[p] = futures[p]
        /\ futures'[o].status = "running"
        /\ futures'[o].about = FileStates(disk, Plan[scheduled[o]].files)
    BY <2>1 DEF Put, Execution
  <2> QED BY <2>1, <2>2 DEF EntriesDescribeStates
<1>8. ASSUME NEW o \in DOMAIN scheduled, FinishScheduled(o) PROVE EntriesDescribeStates'
  <2> DEFINE k == scheduled[o]
  <2>1. PICK result \in Results, fs \in Rewrites(k) :
          /\ WriteFiles(fs)
          /\ futures' = [futures EXCEPT ![o] =
               [status |-> "done",
                outcome |-> OutcomeOf(k, result, Rewrite(fs, futures[o].about))]]
    BY <1>8 DEF FinishScheduled
  <2>2. /\ phase \in {"pool", "drain"} /\ phase' = phase
        /\ o \in DOMAIN futures /\ futures[o].status = "running"
        /\ UNCHANGED <<entries, scheduled, outcomes>>
    BY <1>8 DEF FinishScheduled, InState
  <2>3. fs = {} /\ k \in Indices
    BY <1>0, <2>1 DEF Rewrites, TypeOK
  <2>4. disk \in [Files -> Stamps] /\ futures[o].about \in [Plan[k].files -> Stamps]
    BY <1>0, <2>2 DEF TypeOK, TypeInv, AboutOwnFiles
  <2>5. disk' = disk /\ Rewrite(fs, futures[o].about) = futures[o].about
    BY <2>1, <2>3, <2>4, RewriteNothing DEF WriteFiles
  <2> DEFINE outcome == OutcomeOf(k, result, futures[o].about)
  <2>6. outcome.about = FileStates(disk, Plan[k].files)
    BY <2>2 DEF OutcomeOf, EntriesDescribeStates
  <2> HIDE DEF outcome
  <2>7. futures' = [futures EXCEPT ![o] = [status |-> "done", outcome |-> outcome]]
    BY <2>1, <2>5 DEF outcome
  <2>8. /\ DOMAIN futures' = DOMAIN futures
        /\ \A p \in DOMAIN futures :
             futures'[p] = IF p = o THEN [status |-> "done", outcome |-> outcome]
                           ELSE futures[p]
    BY <2>7
  <2> QED BY <2>2, <2>5, <2>6, <2>8 DEF EntriesDescribeStates
<1>9. ASSUME NEW o \in DOMAIN scheduled, ScheduledRaises(o) PROVE EntriesDescribeStates'
  <2>1. /\ phase \in {"pool", "drain"} /\ phase' = phase
        /\ futures' = [futures EXCEPT ![o] = [status |-> "raised"]]
        /\ UNCHANGED <<disk, entries, scheduled, outcomes>>
    BY <1>9 DEF ScheduledRaises, workspace
  <2>2. /\ DOMAIN futures' = DOMAIN futures
        /\ \A p \in DOMAIN futures :
             futures'[p] = IF p = o THEN [status |-> "raised"] ELSE futures[p]
    BY <2>1
  <2> QED BY <2>1, <2>2 DEF EntriesDescribeStates
<1>10. ASSUME NEW o \in DOMAIN scheduled, CollectOutcome(o) PROVE EntriesDescribeStates'
  <2> DEFINE outcome == futures[o].outcome
  <2>1. /\ phase = "pool" /\ phase' = phase /\ o \in DOMAIN futures
        /\ futures[o].status = "done"
        /\ Record(o, outcome, MetricsFor(scheduled[o], disk), disk)
        /\ UNCHANGED <<disk, scheduled, futures>>
    BY <1>10 DEF CollectOutcome, InState
  <2>2. /\ outcome.act = scheduled[o]
        /\ outcome.about = FileStates(disk, Plan[scheduled[o]].files)
    BY <2>1 DEF EntriesDescribeStates, TypeInv, AboutOwnFiles
  <2> HIDE DEF outcome
  <2>3. \A key \in DOMAIN entries' : entries'[key].outcome.about = entries'[key].states
    BY <1>0, <2>1, <2>2, RecordDescribes
  <2>4. /\ DOMAIN outcomes' = DOMAIN outcomes \cup {o}
        /\ \A p \in DOMAIN outcomes' :
             outcomes'[p] = IF p = o THEN outcome ELSE outcomes[p]
    BY <2>1 DEF Record, Put
  <2> QED BY <1>0, <2>1, <2>2, <2>3, <2>4 DEF EntriesDescribeStates
<1>11. ASSUME Fail PROVE EntriesDescribeStates'
  BY <1>11, DescribesFresh DEF Fail, workspace
<1>12. ASSUME NEW o \in DOMAIN scheduled, CollectFailure(o) PROVE EntriesDescribeStates'
  <2>1. CASE Jobs > 1
    BY <1>12, <2>1 DEF CollectFailure, EntriesDescribeStates, workspace
  <2>2. CASE ~(Jobs > 1)
    BY <1>11, <1>12, <2>2 DEF CollectFailure
  <2> QED BY <2>1, <2>2
<1>13. ASSUME Finish PROVE EntriesDescribeStates'
  BY <1>13 DEF Finish, EntriesDescribeStates
<1>14. ASSUME NEW m \in Modes, BeginRun(m) PROVE EntriesDescribeStates'
  BY <1>14, DescribesFresh DEF BeginRun
<1>15. ASSUME Exit PROVE EntriesDescribeStates'
  BY <1>15, DescribesFresh DEF Exit, workspace
<1>16. ASSUME NEW f \in Files, EditFile(f) PROVE EntriesDescribeStates'
  <2>1. phase = "idle" /\ phase' = phase /\ entries' = entries /\ scheduled' = scheduled
    BY <1>16 DEF EditFile, run
  <2> QED BY <1>0, <2>1 DEF EntriesDescribeStates
<1>17. ASSUME NEW t \in Tools, UpgradeTool(t) PROVE EntriesDescribeStates'
  BY <1>17, DescribesKept DEF UpgradeTool, run
<1>18. CASE UNCHANGED vars
  BY <1>18, DescribesKept DEF vars, workspace, run
<1>19. ASSUME Work PROVE EntriesDescribeStates'
  BY <1>1, <1>2, <1>3, <1>4, <1>5, <1>6, <1>7, <1>8, <1>10, <1>11, <1>12, <1>13, <1>19
  DEF Work, PrepareStep, ToolReturns, OwnStep, PoolDrained
<1>20. ASSUME Fault PROVE EntriesDescribeStates'
  BY <1>9, <1>11, <1>20 DEF Fault, PreparationFails, ImmediateRaises, Killed
<1>21. ASSUME Environment PROVE EntriesDescribeStates'
  BY <1>14, <1>15, <1>16, <1>17, <1>18, <1>21 DEF Environment, Rest
<1> QED BY <1>18, <1>19, <1>20, <1>21 DEF Next

-----------------------------------------------------------------------------
(* Theorems                                                                *)

\* CacheInv holds at the start and every step keeps it.
THEOREM CacheInvariant == ASSUME ~EditsDuringRun PROVE Spec => []CacheInv
<1>1. Init => CacheInv
  <2>1. Init => EntriesDescribeStates
    BY DEF Init, EntriesDescribeStates, NoFunction
  <2> QED BY <2>1, TypeInit DEF CacheInv
<1>2. CacheInv /\ [Next]_vars => CacheInv'
  BY TypeStep, DescribesStep DEF CacheInv
<1> QED BY <1>1, <1>2, PTL DEF Spec

\* A cache entry that answers was computed from the contents its files have, for
\* every plan, pool size and sequence of runs, faults and edits between runs.
THEOREM HitsAreCurrent == ASSUME ~EditsDuringRun PROVE Spec => []HitsDescribeFiles
<1>1. CacheInv => HitsDescribeFiles
  BY DEF CacheInv, EntriesDescribeStates, HitsDescribeFiles, Hit, StatesMatch
<1> QED BY <1>1, CacheInvariant, PTL

\* What a finished run says of its queued checks is about the files as every fix
\* of the run left them.
THEOREM ChecksAreCurrent == ASSUME ~EditsDuringRun PROVE Spec => []QueuedChecksSeeFixedFiles
<1>1. CacheInv => QueuedChecksSeeFixedFiles
  <2> SUFFICES ASSUME CacheInv, phase = "done", NEW o \in DOMAIN scheduled
               PROVE  outcomes[o].about = FileStates(disk, Plan[scheduled[o]].files)
    BY DEF QueuedChecksSeeFixedFiles
  <2>1. o \in DOMAIN outcomes
    BY DEF CacheInv, TypeInv, PhaseShape, AllRecorded
  <2> QED BY <2>1 DEF CacheInv, EntriesDescribeStates
<1> QED BY <1>1, CacheInvariant, PTL

-----------------------------------------------------------------------------
(* What a run leaves behind: its outcomes, the manifest and the cache.     *)

\* The steps that record an outcome, the steps that write files, and the others.
LEMMA RecordingSteps ==
  ASSUME TypeInv, [Next]_vars, phase \in Active, phase' \in Active \cup {"done"}
  PROVE  \/ \E k \in Indices : UseCachedOutcome(k) \/ FinishImmediate(k)
         \/ \E o \in DOMAIN scheduled : CollectOutcome(o)
         \/ UNCHANGED <<outcomes, entries>>
<1> USE DEF Active
<1>1. phase' # "failed" /\ phase' # "idle" /\ ~Fail
  BY DEF Fail
<1>2. CASE Work
  BY <1>1, <1>2 DEF Work, PrepareStep, ToolReturns, OwnStep, SkipAction, QueueAction, StartImmediate,
     ExecuteScheduled, StartScheduled, FinishScheduled, CollectFailure, PoolDrained, Finish,
     workspace
<1>3. CASE Fault
  BY <1>1, <1>3 DEF Fault, PreparationFails, ImmediateRaises, ScheduledRaises, Killed, workspace
<1>4. CASE Environment
  BY <1>1, <1>4 DEF Environment, BeginRun, Exit, EditFile, UpgradeTool, Rest, run, vars, workspace
<1>5. CASE UNCHANGED vars
  BY <1>5 DEF vars, workspace, run
<1> QED BY <1>2, <1>3, <1>4, <1>5 DEF Next

LEMMA OutcomesKept ==
  ASSUME TypeInv, [Next]_vars, phase \in Active, phase' \in Active \cup {"done"},
         NEW p \in DOMAIN outcomes
  PROVE  p \in DOMAIN outcomes' /\ outcomes'[p] = outcomes[p]
<1>1. ASSUME NEW o, NEW outcome, NEW m, NEW d, Record(o, outcome, m, d), o \notin DOMAIN outcomes
      PROVE  p \in DOMAIN outcomes' /\ outcomes'[p] = outcomes[p]
  BY <1>1 DEF Record, Put
<1>2. order \notin DOMAIN outcomes
  <2>1. order \in Nat /\ DOMAIN outcomes \subseteq 0..(order - 1)
    BY LenPlan DEF TypeInv, SlotsBounded, TypeOK
  <2> QED BY <2>1
<1>3. ASSUME NEW k \in Indices, UseCachedOutcome(k)
      PROVE  p \in DOMAIN outcomes' /\ outcomes'[p] = outcomes[p]
  BY <1>1, <1>2, <1>3 DEF UseCachedOutcome
<1>4. ASSUME NEW k \in Indices, FinishImmediate(k)
      PROVE  p \in DOMAIN outcomes' /\ outcomes'[p] = outcomes[p]
  BY <1>1, <1>2, <1>4 DEF FinishImmediate
<1>5. ASSUME NEW o \in DOMAIN scheduled, CollectOutcome(o)
      PROVE  p \in DOMAIN outcomes' /\ outcomes'[p] = outcomes[p]
  BY <1>1, <1>5 DEF CollectOutcome
<1> QED BY <1>3, <1>4, <1>5, RecordingSteps

\* Only the end of a run writes the manifest.
LEMMA ManifestWritten ==
  ASSUME [Next]_vars
  PROVE  Finish \/ manifest' = manifest
<1> USE DEF workspace
<1>1. CASE Work
  BY <1>1 DEF Work, PrepareStep, ToolReturns, OwnStep, SkipAction, QueueAction, StartImmediate, FinishImmediate,
     UseCachedOutcome, ExecuteScheduled, StartScheduled, FinishScheduled, CollectOutcome,
     CollectFailure, PoolDrained, Fail
<1>2. CASE Fault
  BY <1>2 DEF Fault, PreparationFails, ImmediateRaises, ScheduledRaises, Killed, Fail
<1>3. CASE Environment
  BY <1>3 DEF Environment, BeginRun, Exit, EditFile, UpgradeTool, Rest, vars
<1>4. CASE UNCHANGED vars
  BY <1>4 DEF vars
<1> QED BY <1>1, <1>2, <1>3, <1>4 DEF Next

\* No outcome of a run is replaced or lost while the run goes on, and only its
\* end writes the manifest.
THEOREM OutcomesStay == Spec => OutcomesAreFinal
<1> DEFINE Final ==
      /\ (phase \in Active /\ phase' \in Active \cup {"done"}) =>
           \A o \in DOMAIN outcomes : o \in DOMAIN outcomes' /\ outcomes'[o] = outcomes[o]
      /\ manifest' # manifest => phase' = "done"
<1>1. TypeInv /\ [Next]_vars => Final
  BY OutcomesKept, ManifestWritten DEF Finish
<1>2. TypeInv /\ [Next]_vars => [Final]_vars
  BY <1>1
<1> QED BY <1>2, TypeCorrect, PTL DEF Spec, OutcomesAreFinal

-----------------------------------------------------------------------------
(* Versions                                                                *)

\* What the context knows of the tools whose version the run determined, and that
\* it knows what the manifest says unless it is marked.
VersionInv ==
  /\ \A t \in captured : versions[t] = installed[t]
  /\ phase \in Active \cup {"done"} /\ ~dirty => versions = manifest
  /\ phase = "done" => ~dirty

\* update_tool_version forgets no version and marks each change.
LEMMA VersionsUpdated ==
  ASSUME TypeInv, VersionInv, NEW k \in Indices, AtAction(k), UpdateToolVersion(k),
         phase' \in {"plan", "immediate"}, UNCHANGED <<installed, manifest>>
  PROVE  VersionInv'
<1>1. versions \in [Tools -> 0..MaxVersion] /\ captured \subseteq Tools
  BY DEF TypeInv, TypeOK
<1>2. PICK version \in PreparedVersions(k) :
        /\ versions' = IF version = 0 THEN versions
                       ELSE [versions EXCEPT ![Plan[k].tool] = version]
        /\ dirty' = (dirty \/ versions' # versions)
        /\ captured' = IF version = 0 THEN captured ELSE captured \cup {Plan[k].tool}
  BY DEF UpdateToolVersion
<1>3. \A t \in captured' : versions'[t] = installed'[t]
  <2>1. CASE version = 0
    BY <1>2, <2>1 DEF VersionInv
  <2>2. CASE version # 0
    BY <1>1, <1>2, <2>2, ActionFields DEF PreparedVersions, VersionInv
  <2> QED BY <2>1, <2>2
<1>4. ~dirty' => versions' = manifest'
  BY <1>2 DEF VersionInv, AtAction, Active
<1> QED BY <1>3, <1>4 DEF VersionInv

LEMMA VersionStep ==
  ASSUME TypeInv, VersionInv, [Next]_vars
  PROVE  VersionInv'
<1> USE DEF workspace, Active
\* A fresh state has nothing to know.
<1>1. ASSUME FreshState, phase' \in {"idle", "failed"} \/ (phase' = "plan" /\ versions' = manifest')
      PROVE  VersionInv'
  BY <1>1 DEF FreshState, VersionInv
<1>2. ASSUME NEW k \in Indices, PrepareStep(k) PROVE VersionInv'
  BY <1>2, VersionsUpdated
  DEF PrepareStep, UseCachedOutcome, StartImmediate, QueueAction, AtAction
\* Steps of a run after its tools were asked.
<1>3. ASSUME phase \in Active, phase' \in Active,
             UNCHANGED <<installed, manifest, versions, dirty, captured>>
      PROVE  VersionInv'
  BY <1>3 DEF VersionInv
<1>4. ASSUME NEW k \in Indices, SkipAction(k) \/ FinishImmediate(k) PROVE VersionInv'
  BY <1>3, <1>4 DEF SkipAction, AtAction, FinishImmediate
<1>5. ASSUME NEW o \in DOMAIN scheduled,
             \/ StartScheduled(o) \/ FinishScheduled(o) \/ ScheduledRaises(o)
             \/ CollectOutcome(o)
      PROVE  VersionInv'
  BY <1>3, <1>5 DEF StartScheduled, FinishScheduled, ScheduledRaises, CollectOutcome
<1>6. ASSUME ExecuteScheduled PROVE VersionInv'
  BY <1>3, <1>6 DEF ExecuteScheduled
<1>7. ASSUME Fail PROVE VersionInv'
  BY <1>1, <1>7 DEF Fail
<1>8. ASSUME NEW o \in DOMAIN scheduled, CollectFailure(o) PROVE VersionInv'
  BY <1>3, <1>7, <1>8 DEF CollectFailure
<1>9. ASSUME Finish PROVE VersionInv'
  BY <1>9 DEF Finish, VersionInv
<1>10. ASSUME NEW m \in Modes, BeginRun(m) PROVE VersionInv'
  BY <1>1, <1>10 DEF BeginRun
<1>11. ASSUME Exit PROVE VersionInv'
  BY <1>1, <1>11 DEF Exit
<1>12. ASSUME NEW f \in Files, EditFile(f) PROVE VersionInv'
  BY <1>12 DEF EditFile, run, VersionInv
\* A tool is upgraded between runs, when no version is known.
<1>13. ASSUME NEW t \in Tools, UpgradeTool(t) PROVE VersionInv'
  BY <1>13 DEF UpgradeTool, run, VersionInv, TypeInv, PhaseShape
<1>14. CASE UNCHANGED vars
  BY <1>14 DEF vars, run, VersionInv
<1>15. ASSUME Work PROVE VersionInv'
  BY <1>2, <1>4, <1>5, <1>6, <1>7, <1>8, <1>9, <1>15 DEF Work, ToolReturns, OwnStep, PoolDrained
<1>16. ASSUME Fault PROVE VersionInv'
  BY <1>5, <1>7, <1>16 DEF Fault, PreparationFails, ImmediateRaises, Killed
<1>17. ASSUME Environment PROVE VersionInv'
  BY <1>10, <1>11, <1>12, <1>13, <1>14, <1>17 DEF Environment, Rest
<1> QED BY <1>14, <1>15, <1>16, <1>17 DEF Next

\* A finished run leaves in the manifest the installed version of each tool whose
\* version it determined, whether it found an older one, a newer one or none there.
THEOREM VersionsAreRecorded == Spec => []VersionsRecorded
<1>1. Init => TypeInv /\ VersionInv
  BY TypeInit DEF Init, VersionInv, Active
<1>2. TypeInv /\ VersionInv /\ [Next]_vars => (TypeInv /\ VersionInv)'
  BY TypeStep, VersionStep
<1>3. VersionInv => VersionsRecorded
  BY DEF VersionInv, VersionsRecorded
<1> QED BY <1>1, <1>2, <1>3, PTL DEF Spec

-----------------------------------------------------------------------------
(* A run that changes no file leaves its outcomes in the cache             *)

\* Stamps only grow: a file that was written never looks as it did before.
WarmInv ==
  /\ \A f \in Files : disk[f] <= clock
  /\ phase \in Active \cup {"done"} => \A f \in Files : startDisk[f] <= disk[f]
  /\ phase \in Active \cup {"done"} /\ disk = startDisk =>
       \A o \in DOMAIN outcomes : ~Plan[outcomes[o].act].internal => Stored(outcomes[o].act)

\* A run that leaves the files as they were has not written one.
LEMMA WritesShow ==
  ASSUME TypeInv, WarmInv, NEW fs \in SUBSET Files, WriteFiles(fs)
  PROVE  /\ \A f \in Files : disk'[f] <= clock'
         /\ phase \in Active \cup {"done"} =>
              /\ \A f \in Files : startDisk[f] <= disk'[f]
              /\ disk' = startDisk => disk' = disk
<1>1. /\ disk \in [Files -> Nat] /\ startDisk \in [Files -> Nat] /\ clock \in Nat
  BY BoundsAssumption DEF TypeInv, TypeOK, Stamps
<1>2. disk' = [f \in Files |-> IF f \in fs THEN clock + 1 ELSE disk[f]]
  BY <1>1 DEF WriteFiles, Rewrite
<1>3. clock' = IF fs = {} THEN clock ELSE clock + 1
  BY DEF WriteFiles
<1>4. \A f \in Files : disk[f] <= clock
      /\ (phase \in Active \cup {"done"} => startDisk[f] <= disk[f])
  BY DEF WarmInv
<1>5. CASE fs = {}
  BY <1>1, <1>2, <1>3, <1>4, <1>5
<1>6. CASE fs # {}
  <2>1. PICK f \in Files : f \in fs
    BY <1>6
  <2>2. phase \in Active \cup {"done"} => disk' # startDisk
    BY <1>1, <1>2, <1>4, <2>1
  <2> QED BY <1>1, <1>2, <1>3, <1>4, <1>6, <2>2
<1> QED BY <1>5, <1>6

\* Every step writes some files, or none, and gives them the next stamp.
LEMMA FilesWritten ==
  ASSUME TypeInv, [Next]_vars
  PROVE  \E fs \in SUBSET Files : WriteFiles(fs)
<1> USE DEF workspace
<1>1. ASSUME UNCHANGED <<disk, clock>> PROVE \E fs \in SUBSET Files : WriteFiles(fs)
  <2>1. Rewrite({}, disk) = disk
    BY RewriteNothing DEF TypeInv, TypeOK
  <2> QED BY <1>1, <2>1 DEF WriteFiles
<1>2. ASSUME NEW f \in Files, EditFile(f) PROVE \E fs \in SUBSET Files : WriteFiles(fs)
  <2>1. disk' = Rewrite({f}, disk) /\ clock' = clock + 1
    BY <1>2 DEF EditFile, Rewrite, TypeInv, TypeOK
  <2> QED BY <2>1 DEF WriteFiles
<1>3. ASSUME NEW k \in Indices, NEW fs \in Rewrites(k) PROVE fs \in SUBSET Files
  BY <1>3, ActionFields DEF Rewrites
<1>4. ASSUME NEW k \in Indices, FinishImmediate(k) PROVE \E fs \in SUBSET Files : WriteFiles(fs)
  BY <1>3, <1>4 DEF FinishImmediate
<1>5. ASSUME NEW o \in DOMAIN scheduled, FinishScheduled(o)
      PROVE  \E fs \in SUBSET Files : WriteFiles(fs)
  <2>1. scheduled[o] \in Indices
    BY DEF TypeInv, TypeOK
  <2> QED BY <1>3, <1>5, <2>1 DEF FinishScheduled
<1>6. CASE Work
  BY <1>1, <1>4, <1>5, <1>6 DEF Work, PrepareStep, ToolReturns, OwnStep, SkipAction, QueueAction,
     StartImmediate, UseCachedOutcome, ExecuteScheduled, StartScheduled, CollectOutcome,
     CollectFailure, PoolDrained, Finish, Fail
<1>7. CASE Fault
  BY <1>1, <1>7 DEF Fault, PreparationFails, ImmediateRaises, ScheduledRaises, Killed, Fail
<1>8. CASE Environment
  BY <1>1, <1>2, <1>8 DEF Environment, BeginRun, Exit, UpgradeTool, Rest, vars
<1>9. CASE UNCHANGED vars
  BY <1>1, <1>9 DEF vars
<1> QED BY <1>6, <1>7, <1>8, <1>9 DEF Next

\* A run that goes on keeps its mode and remembers the files it found; one that
\* begins has found them as they are.
LEMMA RunGoesOn ==
  ASSUME TypeInv, [Next]_vars, phase' \in Active \cup {"done"}
  PROVE  \/ FreshState /\ startDisk' = disk /\ disk' = disk
         \/ phase \in Active \cup {"done"} /\ mode' = mode /\ startDisk' = startDisk
<1> USE DEF Active, workspace
<1>1. phase' # "failed" /\ phase' # "idle" /\ ~Fail
  BY DEF Fail
<1>2. CASE Work
  BY <1>1, <1>2 DEF Work, PrepareStep, ToolReturns, OwnStep, SkipAction, AtAction, QueueAction, StartImmediate,
     FinishImmediate, UseCachedOutcome, ExecuteScheduled, StartScheduled, FinishScheduled,
     CollectOutcome, CollectFailure, PoolDrained, Finish
<1>3. CASE Fault
  BY <1>1, <1>3 DEF Fault, PreparationFails, ImmediateRaises, ScheduledRaises, Killed
<1>4. CASE Environment
  BY <1>1, <1>4 DEF Environment, BeginRun, Exit, EditFile, UpgradeTool, Rest, run, vars
<1>5. CASE UNCHANGED vars
  BY <1>5 DEF vars, run
<1> QED BY <1>2, <1>3, <1>4, <1>5 DEF Next

\* Recording an executed outcome stores it; a replayed one is stored already.
LEMMA RecordWarms ==
  ASSUME TypeInv, NEW o, NEW outcome, outcome.act \in Indices, NEW m,
         Record(o, outcome, m, disk'), mode' = mode,
         outcome.cached => Stored(outcome.act),
         disk' = disk, \A p \in DOMAIN outcomes :
           ~Plan[outcomes[p].act].internal => Stored(outcomes[p].act)
  PROVE  \A p \in DOMAIN outcomes' :
           ~Plan[outcomes'[p].act].internal => Stored(outcomes[p].act)'
<1>1. /\ DOMAIN outcomes' = DOMAIN outcomes \cup {o}
      /\ \A p \in DOMAIN outcomes' : outcomes'[p] = IF p = o THEN outcome ELSE outcomes[p]
  BY DEF Record, Put
<1>2. \A k : Stored(k) => Stored(k)'
  <2> SUFFICES ASSUME NEW k, Stored(k) PROVE Stored(k)'
    OBVIOUS
  <2>1. Key(k)' = Key(k)
    BY DEF Key
  <2>2. CASE entries' = entries
    BY <2>1, <2>2 DEF Stored, Hit
  <2>3. CASE Storable(outcome)
    <3> DEFINE entry == NewEntry(outcome, m, disk', Plan[outcome.act].files)
    <3>1. entry.states = FileStates(disk', Plan[outcome.act].files)
      BY DEF NewEntry
    <3>2. entries' = Put(entries, Key(outcome.act), entry)
      BY <2>3 DEF Record
    <3> HIDE DEF entry
    <3>3. CASE Key(k) = Key(outcome.act)
      <4>1. k = outcome.act
        BY <3>3 DEF Key
      <4> QED BY <2>1, <3>1, <3>2, <4>1 DEF Stored, Hit, Put, StatesMatch
    <3>4. CASE Key(k) # Key(outcome.act)
      BY <2>1, <3>2, <3>4 DEF Stored, Hit, Put
    <3> QED BY <3>3, <3>4
  <2> QED BY <2>2, <2>3 DEF Record
<1>3. ~Plan[outcome.act].internal => Stored(outcome.act)'
  <2>1. CASE outcome.cached
    BY <1>2, <2>1
  <2>2. CASE ~outcome.cached /\ ~Plan[outcome.act].internal
    <3> DEFINE entry == NewEntry(outcome, m, disk', Plan[outcome.act].files)
               k == outcome.act
    <3>1. entry.states = FileStates(disk', Plan[outcome.act].files)
      BY DEF NewEntry
    <3>2. entries' = Put(entries, Key(k), entry)
      BY <2>2 DEF Record, Storable
    <3>3. Key(k)' = Key(k)
      BY DEF Key
    <3> HIDE DEF entry
    <3> QED BY <2>2, <3>1, <3>2, <3>3 DEF Stored, Hit, Put, StatesMatch
  <2> QED BY <2>1, <2>2
<1> QED BY <1>1, <1>2, <1>3

LEMMA WarmStep ==
  ASSUME TypeInv, WarmInv, [Next]_vars
  PROVE  WarmInv'
<1>1. PICK fs \in SUBSET Files : WriteFiles(fs)
  BY FilesWritten
<1>2. \A f \in Files : disk'[f] <= clock'
  BY <1>1, WritesShow
<1>3. CASE phase' \notin Active \cup {"done"}
  BY <1>2, <1>3 DEF WarmInv, Active
<1>4. CASE FreshState /\ startDisk' = disk /\ disk' = disk
  <2>1. \A f \in Files : disk[f] <= disk[f]
    BY BoundsAssumption DEF TypeInv, TypeOK, Stamps
  <2>2. \A o : o \notin DOMAIN outcomes'
    BY <1>4 DEF FreshState, NoFunction
  <2> QED BY <1>2, <1>4, <2>1, <2>2 DEF WarmInv
<1>5. CASE phase \in Active \cup {"done"} /\ mode' = mode /\ startDisk' = startDisk
           /\ phase' \in Active \cup {"done"}
  <2>1. /\ \A f \in Files : startDisk'[f] <= disk'[f]
        /\ disk' = startDisk' => disk' = disk
    BY <1>1, <1>5, WritesShow
  <2> SUFFICES ASSUME disk' = startDisk'
               PROVE  \A o \in DOMAIN outcomes' :
                        ~Plan[outcomes'[o].act].internal => Stored(outcomes[o].act)'
    BY <1>2, <2>1 DEF WarmInv
  <2>2. /\ disk' = disk
        /\ \A o \in DOMAIN outcomes :
             ~Plan[outcomes[o].act].internal => Stored(outcomes[o].act)
    BY <1>5, <2>1 DEF WarmInv
  <2>3. ASSUME UNCHANGED <<outcomes, entries>>
        PROVE  \A o \in DOMAIN outcomes' :
                 ~Plan[outcomes'[o].act].internal => Stored(outcomes[o].act)'
    BY <1>5, <2>2, <2>3 DEF Stored, Hit, Key
  <2>4. ASSUME NEW k \in Indices, UseCachedOutcome(k)
        PROVE  \A o \in DOMAIN outcomes' :
                 ~Plan[outcomes'[o].act].internal => Stored(outcomes[o].act)'
    <3> DEFINE outcome == Refreshed(entries[Key(k)].outcome)
    <3>1. Record(order, outcome, entries[Key(k)].metrics, disk') /\ Stored(k)
      BY <2>2, <2>4 DEF UseCachedOutcome
    <3>2. outcome.act = k
      <4>1. Key(k) \in DOMAIN entries /\ Key(k)[1] = k
        BY <2>4 DEF UseCachedOutcome, Stored, Hit, Key
      <4>2. entries[Key(k)].outcome \in OutcomeType /\ entries[Key(k)].outcome.act = k
        BY <4>1 DEF TypeInv, TypeOK, AboutOwnFiles, EntryType
      <4> QED BY <4>2, RefreshedType
    <3> HIDE DEF outcome
    <3> QED BY <1>5, <2>2, <3>1, <3>2, RecordWarms
  <2>5. ASSUME NEW k \in Indices, FinishImmediate(k)
        PROVE  \A o \in DOMAIN outcomes' :
                 ~Plan[outcomes'[o].act].internal => Stored(outcomes[o].act)'
    <3>1. PICK result \in Results, gs \in Rewrites(k) :
            Record(order, OutcomeOf(k, result, Rewrite(gs, futures[order].about)),
                   MetricsFor(k, disk'), disk')
      BY <2>5 DEF FinishImmediate
    <3> DEFINE outcome == OutcomeOf(k, result, Rewrite(gs, futures[order].about))
    <3>2. outcome.act = k /\ ~outcome.cached
      BY DEF OutcomeOf
    <3>3. Record(order, outcome, MetricsFor(k, disk'), disk')
      BY <3>1
    <3> HIDE DEF outcome
    <3> QED BY <1>5, <2>2, <3>2, <3>3, RecordWarms
  <2>6. ASSUME NEW o \in DOMAIN scheduled, CollectOutcome(o)
        PROVE  \A p \in DOMAIN outcomes' :
                 ~Plan[outcomes'[p].act].internal => Stored(outcomes[p].act)'
    <3> DEFINE outcome == futures[o].outcome
    <3>1. /\ Record(o, outcome, MetricsFor(scheduled[o], disk), disk')
          /\ o \in DOMAIN futures /\ futures[o].status = "done" /\ phase = "pool"
      BY <2>2, <2>6 DEF CollectOutcome, InState
    <3>2. outcome.act = scheduled[o] /\ ~outcome.cached /\ scheduled[o] \in Indices
      BY <3>1 DEF TypeInv, TypeOK, AboutOwnFiles
    <3> HIDE DEF outcome
    <3> QED BY <1>5, <2>2, <3>1, <3>2, RecordWarms
  <2>7. CASE phase \in Active
    BY <1>5, <2>3, <2>4, <2>5, <2>6, <2>7, RecordingSteps
  <2>8. CASE phase = "done"
    <3>1. UNCHANGED <<outcomes, entries>>
      <4> USE DEF Active, workspace
      <4>1. ~Fail /\ phase' # "idle"
        BY <1>5 DEF Fail
      <4>2. ~Work
        BY <2>8, <4>1 DEF Work, PrepareStep, ToolReturns, OwnStep, SkipAction, AtAction, QueueAction,
           StartImmediate, FinishImmediate, UseCachedOutcome, ExecuteScheduled, StartScheduled,
           FinishScheduled, CollectOutcome, CollectFailure, PoolDrained, Finish
      <4>3. ~Fault
        BY <2>8, <4>1 DEF Fault, PreparationFails, ImmediateRaises, ScheduledRaises, Killed
      <4>4. CASE Environment
        BY <2>8, <4>1, <4>4 DEF Environment, BeginRun, Exit, EditFile, UpgradeTool, Rest, run, vars
      <4> QED BY <4>2, <4>3, <4>4 DEF Next, vars, run
    <3> QED BY <2>3, <3>1
  <2> QED BY <1>5, <2>7, <2>8
<1> QED BY <1>3, <1>4, <1>5, RunGoesOn

\* A complete run that changed no file makes the next one of its mode execute no
\* external tool, for every mixture of hits, fixes, pooled checks and failures.
THEOREM CacheIsWarm == Spec => []QuietRunLeavesCacheWarm
<1>1. Init => TypeInv /\ WarmInv
  <2>1. Init => WarmInv
    BY DEF Init, WarmInv, Active
  <2> QED BY <2>1, TypeInit
<1>2. TypeInv /\ WarmInv /\ [Next]_vars => (TypeInv /\ WarmInv)'
  BY TypeStep, WarmStep
<1>3. Spec => [](TypeInv /\ WarmInv)
  BY <1>1, <1>2, PTL DEF Spec
<1>4. WarmInv /\ ReportIsComplete => QuietRunLeavesCacheWarm
  BY DEF WarmInv, ReportIsComplete, QuietRunLeavesCacheWarm
<1> QED BY <1>3, <1>4, Completeness, PTL
=============================================================================
