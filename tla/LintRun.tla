------------------------------- MODULE LintRun -------------------------------
(***************************************************************************)
(* One workspace linted by successive runs of `pyqa lint`.                 *)
(*                                                                         *)
(* Orchestrator.run walks the actions of the selected tools in order.  An  *)
(* action whose cached outcome still matches its files is answered from    *)
(* the cache; a fix action, and with --bail every action, is executed on   *)
(* the spot; the other actions are queued and executed after the walk, by  *)
(* a thread pool when execution.jobs > 1 and one by one otherwise.  The    *)
(* main thread records the outcomes of the pool in the order in which they *)
(* complete; each outcome goes to the slot (order) its action was given.   *)
(*                                                                         *)
(* The user edits files and upgrades tools between runs, and during a run  *)
(* when EditsDuringRun says so.                                            *)
(***************************************************************************)
EXTENDS Integers, Sequences, FiniteSets, ExitStatus, ResultCache

CONSTANTS
  Files,           \* the discovered files
  Tools,           \* the tools that own the actions
  Plan,            \* the actions of the selected tools, in execution order
  Jobs,            \* execution.jobs
  Modes,           \* the execution flags a run may be given
  Results,         \* what a tool may do: [returncode, diags]
  Faults,          \* TRUE: preparation and execution may raise, a run may be killed
  EditsDuringRun,  \* TRUE: the user may write files while a run is active
  MaxRuns,         \* bound: runs
  MaxClock,        \* bound: writes to files
  MaxVersion       \* bound: version of a tool

ActionType ==
  [tool : Tools, files : SUBSET Files, internal : BOOLEAN, is_fix : BOOLEAN,
   ignore_exit : BOOLEAN, tolerant : BOOLEAN, success : SUBSET Int,
   diagnostic : SUBSET Int, tool_failure : SUBSET Int]

ModeType == [bail : BOOLEAN, fix_only : BOOLEAN, check_only : BOOLEAN]

\* The flags of a default configuration; also the mode outside a run.
DefaultMode == [bail |-> FALSE, fix_only |-> FALSE, check_only |-> FALSE]

ASSUME PlanAssumption == Plan \in Seq(ActionType)
ASSUME ModesAssumption == Modes \subseteq ModeType
ASSUME ResultsAssumption == Results \subseteq [returncode : Int, diags : BOOLEAN]
ASSUME BoundsAssumption ==
  /\ Jobs \in Nat \ {0}
  /\ MaxRuns \in Nat /\ MaxClock \in Nat /\ MaxVersion \in Nat \ {0}
  /\ Faults \in BOOLEAN /\ EditsDuringRun \in BOOLEAN

VARIABLES
  \* the workspace and the cache directory, which outlive a run
  disk,       \* the stamp of each file
  clock,      \* the last stamp given
  installed,  \* the version of each tool on this machine
  entries,    \* the result cache
  manifest,   \* tool-versions.json: tool -> version, 0 when absent
  runs,       \* runs started so far
  \* the run: ExecutionState, CacheContext and the position in Orchestrator.run
  phase, mode,
  next,       \* the action of Plan the walk is at
  order,      \* ExecutionState.order
  outcomes,   \* ExecutionState.outcomes: order -> outcome
  scheduled,  \* ExecutionState.scheduled: order -> index in Plan
  bailed,     \* ExecutionState.bail_triggered
  metrics,    \* ExecutionState.file_metrics: file -> stamp measured, -1 when absent
  futures,    \* executions started in this run: order -> state of the execution
  versions,   \* CacheContext.versions
  dirty,      \* CacheContext.versions_dirty
  ticks,      \* calls of the after_tool hook
  total,      \* the number of actions announced by the after_plan hook
  startDisk,  \* history: the files as the run found them
  captured    \* history: the tools whose version the run could determine

workspace == <<disk, clock, installed, entries, manifest, runs>>
run == <<phase, mode, next, order, outcomes, scheduled, bailed, metrics,
         futures, versions, dirty, ticks, total, startDisk, captured>>
vars == <<workspace, run>>

Absent == -1
NoFunction == [x \in {} |-> 0]
Indices == 1..Len(Plan)
Active == {"plan", "immediate", "pool", "drain"}

\* _should_run_action
ShouldRun(m, action) ==
  /\ m.fix_only => action.is_fix
  /\ m.check_only => ~action.is_fix

Wanted(m) == {k \in Indices : ShouldRun(m, Plan[k])}

\* The part of the cache token the modes vary; bail is not in the token.
Token(m) == <<m.fix_only, m.check_only>>
Key(k) == <<k, Token(mode)>>

Stored(k) == ~Plan[k].internal /\ Hit(entries, Key(k), disk, Plan[k].files)

-----------------------------------------------------------------------------
Init ==
  /\ disk = [f \in Files |-> 0]
  /\ clock = 0
  /\ installed = [t \in Tools |-> 1]
  /\ entries = NoFunction
  /\ manifest = [t \in Tools |-> 0]
  /\ runs = 0
  /\ phase = "idle" /\ mode = DefaultMode
  /\ next = 1 /\ order = 0
  /\ outcomes = NoFunction /\ scheduled = NoFunction /\ futures = NoFunction
  /\ bailed = FALSE
  /\ metrics = [f \in Files |-> Absent]
  /\ versions = [t \in Tools |-> 0] /\ dirty = FALSE
  /\ ticks = 0 /\ total = 0
  /\ startDisk = [f \in Files |-> 0] /\ captured = {}

\* The memory of the process: a fresh ExecutionState and CacheContext.
FreshState ==
  /\ next' = 1 /\ order' = 0
  /\ outcomes' = NoFunction /\ scheduled' = NoFunction /\ futures' = NoFunction
  /\ bailed' = FALSE
  /\ metrics' = [f \in Files |-> Absent]
  /\ dirty' = FALSE
  /\ ticks' = 0
  /\ captured' = {}

\* Orchestrator.run up to _notify_plan.
BeginRun(m) ==
  /\ phase = "idle" /\ runs < MaxRuns
  /\ phase' = "plan" /\ mode' = m /\ runs' = runs + 1
  /\ FreshState
  /\ versions' = manifest
  /\ total' = Cardinality(Wanted(m))
  /\ startDisk' = disk
  /\ UNCHANGED <<disk, clock, installed, entries, manifest>>

\* An exception leaves run: the outcomes, the versions and the hooks are lost.
Fail ==
  /\ phase' = "failed"
  /\ FreshState
  /\ versions' = [t \in Tools |-> 0]
  /\ UNCHANGED <<workspace, mode, total, startDisk>>

\* The process ends and its memory with it.
Exit ==
  /\ phase \in {"done", "failed"}
  /\ phase' = "idle" /\ mode' = DefaultMode
  /\ FreshState
  /\ versions' = [t \in Tools |-> 0]
  /\ total' = 0
  /\ startDisk' = [f \in Files |-> 0]
  /\ UNCHANGED workspace

-----------------------------------------------------------------------------
(* Recording                                                               *)

\* collect_metrics_for_files: a metric already in the state is not recomputed.
MetricsFor(k, d) ==
  [f \in Plan[k].files |-> IF metrics[f] = Absent THEN d[f] ELSE metrics[f]]

\* MUTANT: only clean outcomes are stored.
StorableWhenClean(outcome) ==
  ~outcome.cached /\ ~Plan[outcome.act].internal /\ outcome.returncode = 0

\* _store_outcome_in_cache stores neither replayed nor internal outcomes.
Storable(outcome) == ~outcome.cached /\ ~Plan[outcome.act].internal

\* record_outcome, with the files as d and the metrics as m.
Record(o, outcome, m, d) ==
  LET k == outcome.act IN
  /\ outcomes' = Put(outcomes, o, outcome)
  /\ metrics' = [f \in Files |-> IF f \in DOMAIN m THEN m[f] ELSE metrics[f]]
  /\ entries' = IF Storable(outcome)
                THEN Put(entries, Key(k), NewEntry(outcome, m, d, Plan[k].files))
                ELSE entries
  /\ ticks' = ticks + 1

\* run_action: the outcome of a tool that exited with result, having read (and,
\* for a fix, left) its files as about.
OutcomeOf(k, result, about) ==
  LET eval == EvaluateExitStatus(Plan[k], result.returncode, result.diags) IN
  [act |-> k, about |-> about, version |-> installed[Plan[k].tool],
   returncode |-> eval.returncode, category |-> eval.category,
   diags |-> result.diags, cached |-> FALSE]

\* _refresh_cached_outcome
Refreshed(outcome) ==
  LET eval == EvaluateExitStatus(Plan[outcome.act], outcome.returncode, outcome.diags) IN
  [outcome EXCEPT !.returncode = eval.returncode, !.category = eval.category,
                  !.cached = TRUE]

-----------------------------------------------------------------------------
(* The walk over the actions: _process_tool and _handle_tool_action        *)

AtAction(k) == phase = "plan" /\ ~bailed /\ next = k /\ k \in Indices

\* MUTANT: state.order is not incremented.
AdvanceSameSlot(k) == order' = order /\ next' = k + 1
\* MUTANT: the action is taken again.
AdvanceSameAction(k) == order' = order + 1 /\ next' = k

\* The slot of action k is taken and the walk goes on.
Advance(k) == order' = order + 1 /\ next' = k + 1

SkipAction(k) ==
  /\ AtAction(k) /\ ~ShouldRun(mode, Plan[k])
  /\ next' = k + 1
  /\ UNCHANGED <<workspace, phase, mode, order, outcomes, scheduled, bailed, metrics,
                 futures, versions, dirty, ticks, total, startDisk, captured>>

\* build_command or the preparer raised RuntimeError
PreparationFails(k) ==
  /\ Faults
  /\ AtAction(k) /\ ShouldRun(mode, Plan[k]) /\ ~Plan[k].internal
  /\ Fail

\* PreparedCommand.version, 0 for None: an internal action, a binary runtime, a
\* project's own command and a tool without version_command have none, and the
\* capture of any other may fail.
PreparedVersions(k) == IF Plan[k].internal THEN {0} ELSE {0, installed[Plan[k].tool]}

\* MUTANT: a version that replaces an older one does not mark the manifest dirty.
UpdateToolVersionOnce(k) ==
  \E version \in PreparedVersions(k) :
    /\ versions' = IF version = 0 THEN versions
                   ELSE [versions EXCEPT ![Plan[k].tool] = version]
    /\ dirty' = (dirty \/ (versions' # versions /\ versions[Plan[k].tool] = 0))
    /\ captured' = IF version = 0 THEN captured ELSE captured \cup {Plan[k].tool}

\* update_tool_version, which returns at once when there is no version
UpdateToolVersion(k) ==
  \E version \in PreparedVersions(k) :
    /\ versions' = IF version = 0 THEN versions
                   ELSE [versions EXCEPT ![Plan[k].tool] = version]
    /\ dirty' = (dirty \/ versions' # versions)
    /\ captured' = IF version = 0 THEN captured ELSE captured \cup {Plan[k].tool}

\* _handle_cached_outcome on a hit
UseCachedOutcome(k) ==
  /\ AtAction(k) /\ ShouldRun(mode, Plan[k]) /\ Stored(k)
  /\ UpdateToolVersion(k)
  /\ LET entry == entries[Key(k)]
         outcome == Refreshed(entry.outcome)
     IN /\ Record(order, outcome, entry.metrics, disk)
        /\ bailed' = (mode.bail /\ outcome.returncode # 0)
  /\ Advance(k)
  /\ UNCHANGED <<disk, clock, installed, manifest, runs, phase, mode, scheduled,
                 futures, total, startDisk>>

\* MUTANT: --bail alone does not force immediate execution.
ImmediateFixOnly(k) == Plan[k].is_fix
\* MUTANT: fixes are queued like checks.
ImmediateBailOnly(k) == mode.bail

\* _requires_immediate_execution
Immediate(k) == Plan[k].is_fix \/ mode.bail

Execution(k) == [status |-> "running", about |-> FileStates(disk, Plan[k].files)]

StartImmediate(k) ==
  /\ AtAction(k) /\ ShouldRun(mode, Plan[k]) /\ ~Stored(k) /\ Immediate(k)
  /\ UpdateToolVersion(k)
  /\ futures' = Put(futures, order, Execution(k))
  /\ phase' = "immediate"
  /\ UNCHANGED <<workspace, mode, next, order, outcomes, scheduled, bailed, metrics,
                 ticks, total, startDisk>>

\* A tool returns: a fix may have rewritten some of its files.
Rewrites(k) ==
  IF Plan[k].is_fix /\ clock < MaxClock THEN SUBSET Plan[k].files ELSE {{}}

Rewrite(fs, states) ==
  [f \in DOMAIN states |-> IF f \in fs THEN clock + 1 ELSE states[f]]

WriteFiles(fs) ==
  /\ disk' = Rewrite(fs, disk)
  /\ clock' = IF fs = {} THEN clock ELSE clock + 1

\* _execute_immediate_action from the end of run_action on
FinishImmediate(k) ==
  /\ phase = "immediate" /\ next = k
  /\ \E result \in Results, fs \in Rewrites(k) :
       LET outcome == OutcomeOf(k, result, Rewrite(fs, futures[order].about)) IN
       /\ WriteFiles(fs)
       /\ Record(order, outcome, MetricsFor(k, disk'), disk')
       /\ bailed' = (mode.bail /\ outcome.returncode # 0 /\ ~Plan[k].ignore_exit)
  /\ Advance(k)
  /\ phase' = "plan"
  /\ futures' = NoFunction
  /\ UNCHANGED <<installed, manifest, runs, mode, scheduled, versions, dirty, total,
                 startDisk, captured>>

\* the executable is not on PATH, the parser raised, ...
ImmediateRaises ==
  /\ Faults /\ phase = "immediate"
  /\ Fail

\* _queue_scheduled_action
QueueAction(k) ==
  /\ AtAction(k) /\ ShouldRun(mode, Plan[k]) /\ ~Stored(k) /\ ~Immediate(k)
  /\ UpdateToolVersion(k)
  /\ scheduled' = Put(scheduled, order, k)
  /\ Advance(k)
  /\ UNCHANGED <<workspace, phase, mode, outcomes, bailed, metrics, futures, ticks,
                 total, startDisk>>

-----------------------------------------------------------------------------
(* execute_scheduled: the pool of _execute_in_parallel, or _execute_serial *)

ExecuteScheduled ==
  /\ phase = "plan" /\ (bailed \/ next > Len(Plan))
  /\ scheduled' = IF mode.bail /\ bailed THEN NoFunction ELSE scheduled
  /\ phase' = "pool"
  /\ UNCHANGED <<workspace, mode, next, order, outcomes, bailed, metrics, futures,
                 versions, dirty, ticks, total, startDisk, captured>>

InState(status) == {o \in DOMAIN futures : futures[o].status = status}

\* MUTANT: a failed execution stops the pool from taking further work.
MayStartUnlessRaised(o) ==
  /\ InState("raised") = {}
  /\ Cardinality(InState("running")) < Jobs

\* The pool hands out its queue in submission order and has Jobs threads; the
\* serial loop starts an action when the one before it was recorded.
MayStart(o) ==
  /\ \A p \in DOMAIN scheduled : p < o => p \in DOMAIN futures
  /\ IF Jobs > 1 THEN Cardinality(InState("running")) < Jobs
     ELSE DOMAIN futures \subseteq DOMAIN outcomes

StartScheduled(o) ==
  /\ phase \in {"pool", "drain"}
  /\ o \in DOMAIN scheduled \ DOMAIN futures
  /\ MayStart(o)
  /\ futures' = Put(futures, o, Execution(scheduled[o]))
  /\ UNCHANGED <<workspace, phase, mode, next, order, outcomes, scheduled, bailed,
                 metrics, versions, dirty, ticks, total, startDisk, captured>>

\* run_action returns in its worker
FinishScheduled(o) ==
  /\ phase \in {"pool", "drain"}
  /\ o \in InState("running")
  /\ \E result \in Results, fs \in Rewrites(scheduled[o]) :
       /\ WriteFiles(fs)
       /\ futures' = [futures EXCEPT ![o] =
            [status |-> "done",
             outcome |-> OutcomeOf(scheduled[o], result, Rewrite(fs, futures[o].about))]]
  /\ UNCHANGED <<installed, entries, manifest, runs, phase, mode, next, order, outcomes, scheduled, bailed,
                 metrics, versions, dirty, ticks, total, startDisk, captured>>

\* run_action raises in its worker; the future keeps the exception
ScheduledRaises(o) ==
  /\ Faults
  /\ phase \in {"pool", "drain"}
  /\ o \in InState("running")
  /\ futures' = [futures EXCEPT ![o] = [status |-> "raised"]]
  /\ UNCHANGED <<workspace, phase, mode, next, order, outcomes, scheduled, bailed,
                 metrics, versions, dirty, ticks, total, startDisk, captured>>

\* as_completed yields a finished future and the main thread records it
CollectOutcome(o) ==
  /\ phase = "pool"
  /\ o \in InState("done") \ DOMAIN outcomes
  /\ Record(o, futures[o].outcome, MetricsFor(scheduled[o], disk), disk)
  /\ UNCHANGED <<disk, clock, installed, manifest, runs, phase, mode, next, order,
                 scheduled, bailed, futures, versions, dirty, total, startDisk, captured>>

\* future.result() raises: the serial loop is left at once, the pool's
\* with-block first waits for every action still queued.
CollectFailure(o) ==
  /\ phase = "pool"
  /\ o \in InState("raised")
  /\ IF Jobs > 1
     THEN /\ phase' = "drain"
          /\ UNCHANGED <<workspace, mode, next, order, outcomes, scheduled, bailed,
                         metrics, futures, versions, dirty, ticks, total, startDisk, captured>>
     ELSE Fail

PoolDrained ==
  /\ phase = "drain"
  /\ DOMAIN futures = DOMAIN scheduled /\ InState("running") = {}
  /\ Fail

\* MUTANT: finished executions count as recorded.
AllFinished == \A o \in DOMAIN scheduled :
  o \in DOMAIN futures /\ futures[o].status # "running"

\* Every future has been yielded: the end of execute_scheduled.
AllRecorded == DOMAIN scheduled \subseteq DOMAIN outcomes

\* populate_missing_metrics, the result, persist_versions
Finish ==
  /\ phase = "pool" /\ AllRecorded
  /\ phase' = "done"
  /\ metrics' = [f \in Files |-> IF metrics[f] = Absent THEN disk[f] ELSE metrics[f]]
  /\ manifest' = IF dirty THEN versions ELSE manifest
  /\ dirty' = FALSE
  /\ UNCHANGED <<disk, clock, installed, entries, runs, mode, next, order, outcomes,
                 scheduled, bailed, futures, versions, ticks, total, startDisk, captured>>

\* The user or the system kills the process.
Killed ==
  /\ Faults /\ phase \in Active
  /\ Fail

-----------------------------------------------------------------------------
(* The environment                                                         *)

EditFile(f) ==
  /\ phase = "idle" \/ EditsDuringRun
  /\ clock < MaxClock
  /\ clock' = clock + 1
  /\ disk' = [disk EXCEPT ![f] = clock + 1]
  /\ UNCHANGED <<installed, entries, manifest, runs, run>>

UpgradeTool(t) ==
  /\ phase = "idle" /\ installed[t] < MaxVersion
  /\ installed' = [installed EXCEPT ![t] = @ + 1]
  /\ UNCHANGED <<disk, clock, entries, manifest, runs, run>>

\* All the runs of the bounded workspace are over.
Rest == phase = "idle" /\ runs = MaxRuns /\ UNCHANGED vars

\* A wanted action is prepared, its tool asked for its version, and answered from
\* the cache, started or queued.
PrepareStep(k) == UseCachedOutcome(k) \/ StartImmediate(k) \/ QueueAction(k)

\* A tool, or an internal linter, returns.
ToolReturns ==
  \/ \E k \in Indices : FinishImmediate(k)
  \/ \E o \in DOMAIN scheduled : FinishScheduled(o)

\* What the orchestrator and its threads do by themselves.
OwnStep ==
  \/ \E k \in Indices : SkipAction(k)
  \/ ExecuteScheduled
  \/ \E o \in DOMAIN scheduled : StartScheduled(o) \/ CollectOutcome(o) \/ CollectFailure(o)
  \/ PoolDrained \/ Finish

\* The steps of a run; the rest is faults and environment.
Work == (\E k \in Indices : PrepareStep(k)) \/ ToolReturns \/ OwnStep

Fault ==
  \/ \E k \in Indices : PreparationFails(k)
  \/ ImmediateRaises
  \/ \E o \in DOMAIN scheduled : ScheduledRaises(o)
  \/ Killed

Environment ==
  \/ \E m \in Modes : BeginRun(m)
  \/ Exit
  \/ \E f \in Files : EditFile(f)
  \/ \E t \in Tools : UpgradeTool(t)
  \/ Rest

Next == Work \/ Fault \/ Environment

Spec == Init /\ [][Next]_vars

\* Threads are scheduled.  Nothing makes a tool, an internal linter or the query
\* of a tool's version return: timeout_s is None unless it is configured, and the
\* last two have no timeout at all.
FairSpec == Spec /\ WF_vars(OwnStep)
-----------------------------------------------------------------------------
(* Properties                                                              *)

Stamps == 0..MaxClock
States == UNION {[Plan[k].files -> Stamps] : k \in Indices}

OutcomeType ==
  [act : Indices, about : States, version : 1..MaxVersion, returncode : Int,
   category : Categories, diags : BOOLEAN, cached : BOOLEAN]

FutureType ==
  [status : {"running"}, about : States] \cup
  [status : {"done"}, outcome : OutcomeType] \cup
  [status : {"raised"}]

EntryType == [outcome : OutcomeType, metrics : States, states : States]

\* Every variable holds the kind of value the code keeps there; no run hands out
\* more slots than the plan has actions.
TypeOK ==
  /\ disk \in [Files -> Stamps] /\ clock \in Stamps
  /\ installed \in [Tools -> 1..MaxVersion]
  /\ \A key \in DOMAIN entries : entries[key] \in EntryType
  /\ manifest \in [Tools -> 0..MaxVersion] /\ runs \in 0..MaxRuns
  /\ phase \in {"idle", "done", "failed"} \cup Active
  /\ mode \in Modes \cup {DefaultMode}
  /\ next \in 1..(Len(Plan) + 1) /\ order \in 0..Len(Plan)
  /\ \A o \in DOMAIN outcomes : o \in Nat /\ outcomes[o] \in OutcomeType
  /\ \A o \in DOMAIN scheduled : o \in Nat /\ scheduled[o] \in Indices
  /\ \A o \in DOMAIN futures : o \in Nat /\ futures[o] \in FutureType
  /\ bailed \in BOOLEAN /\ dirty \in BOOLEAN
  /\ metrics \in [Files -> {Absent} \cup Stamps]
  /\ versions \in [Tools -> 0..MaxVersion]
  /\ ticks \in Nat /\ total \in Nat
  /\ startDisk \in [Files -> Stamps] /\ captured \subseteq Tools

\* A run that was not cut short by --bail returns one outcome for each action
\* its mode wants, in slots 0, 1, ... that follow the plan, whatever mixture of
\* cache hits, immediate and pooled executions produced them and in whatever
\* order the pool completed (Orchestrator.run sorts by slot).
ReportIsComplete ==
  phase = "done" /\ ~bailed =>
    /\ DOMAIN outcomes = 0..(Cardinality(Wanted(mode)) - 1)
    /\ {outcomes[o].act : o \in DOMAIN outcomes} = Wanted(mode)
    /\ \A o, p \in DOMAIN outcomes : o < p => outcomes[o].act < outcomes[p].act

\* When --bail stops the walk, the last outcome is a failing one, each earlier
\* outcome succeeded or was an executed action with ignore_exit, no slot is
\* empty and nothing is queued or running.
BailStopsAtFirstFailure ==
  bailed =>
    /\ order > 0 /\ DOMAIN outcomes = 0..(order - 1)
    /\ outcomes[order - 1].returncode # 0
    /\ \A o \in 0..(order - 2) :
         \/ outcomes[o].returncode = 0
         \/ Plan[outcomes[o].act].ignore_exit /\ ~outcomes[o].cached
    /\ scheduled = NoFunction /\ futures = NoFunction

\* A cache entry that would answer now was computed from the very contents its
\* files have now, also after runs that rewrote files or died half way.
HitsDescribeFiles ==
  \A key \in DOMAIN entries :
    LET files == Plan[key[1]].files IN
    Hit(entries, key, disk, files) => entries[key].outcome.about = FileStates(disk, files)

\* A queued check runs after every fix of its run, so that a finished run
\* reports what the check says of the files as the fixes left them.
QueuedChecksSeeFixedFiles ==
  phase = "done" =>
    \A o \in DOMAIN scheduled :
      outcomes[o].about = FileStates(disk, Plan[scheduled[o]].files)

\* A complete run that changed no file leaves a cache that answers every
\* external action of the same mode: linting again executes nothing.
QuietRunLeavesCacheWarm ==
  phase = "done" /\ ~bailed /\ disk = startDisk =>
    \A k \in Wanted(mode) : ~Plan[k].internal => Stored(k)

\* After a finished run the manifest names the installed version of every tool
\* whose version one of the run's actions determined, whatever older version it
\* held and whichever of the tool's other actions got no version.
VersionsRecorded ==
  phase = "done" => \A t \in captured : manifest[t] = installed[t]

\* The progress hooks: one tick for each recorded outcome, never more than the
\* plan announced, and all of them when a run ends without bailing.
ProgressAddsUp ==
  /\ ticks = Cardinality(DOMAIN outcomes)
  /\ ticks <= total
  /\ phase = "done" /\ ~bailed => ticks = total

\* A recorded outcome is never replaced or dropped while its run is active, and
\* the manifest changes only when a run finishes.
OutcomesAreFinal ==
  [][/\ (phase \in Active /\ phase' \in Active \cup {"done"}) =>
          \A o \in DOMAIN outcomes :
            o \in DOMAIN outcomes' /\ outcomes'[o] = outcomes[o]
     /\ manifest' # manifest => phase' = "done"]_vars

\* A run waits for the preparation of action k, or for the execution of slot o.
Preparing(k) == AtAction(k) /\ ShouldRun(mode, Plan[k])
Executing(o) == o \in InState("running")

\* No preparation and no execution lasts for ever.
WaitsEnd ==
  /\ \A k \in Indices : []<>~Preparing(k)
  /\ \A o \in 0..(Len(Plan) - 1) : []<>~Executing(o)

\* A run comes to an end unless one of the tools it waits for never answers: the
\* pool hands out all it was given, and neither an exception nor a bail leaves
\* the main thread waiting for an execution nobody starts.
RunTerminates ==
  WaitsEnd => ((phase \in Active) ~> (phase \in {"done", "failed"}))

\* The cached outcome of a tool is not reported once the tool was upgraded.
HitsMatchInstalledVersion ==
  \A o \in DOMAIN outcomes :
    outcomes[o].version = installed[Plan[outcomes[o].act].tool]

-----------------------------------------------------------------------------
(* What is true of every state of a run, and makes the properties above    *)
(* inductive.                                                              *)

\* Each value speaks about the files of its own action.
AboutOwnFiles ==
  /\ \A key \in DOMAIN entries :
       /\ key \in Indices \X (BOOLEAN \X BOOLEAN)
       /\ entries[key].outcome.act = key[1]
       /\ entries[key].outcome.about \in [Plan[key[1]].files -> Stamps]
       /\ entries[key].metrics \in [Plan[key[1]].files -> Stamps]
       /\ entries[key].states \in [Plan[key[1]].files -> Stamps]
  /\ \A o \in DOMAIN futures :
       LET k == IF phase = "immediate" THEN next ELSE scheduled[o] IN
       /\ futures[o].status = "running" =>
            futures[o].about \in [Plan[k].files -> Stamps]
       /\ futures[o].status = "done" =>
            /\ futures[o].outcome.act = k /\ ~futures[o].outcome.cached
            /\ futures[o].outcome.about \in [Plan[k].files -> Stamps]

\* Which executions and queued actions a phase may have.
PhaseShape ==
  /\ phase \in {"idle", "failed"} =>
       /\ next = 1 /\ ~bailed
       /\ outcomes = NoFunction /\ scheduled = NoFunction /\ futures = NoFunction
       /\ captured = {}
  /\ phase = "plan" => futures = NoFunction
  /\ phase = "immediate" =>
       /\ next \in Wanted(mode) /\ ~bailed
       /\ DOMAIN futures = {order} /\ futures[order].status = "running"
  /\ phase \in {"plan", "immediate"} => DOMAIN outcomes \cap DOMAIN scheduled = {}
  /\ phase \in {"pool", "drain", "done"} =>
       /\ DOMAIN futures \subseteq DOMAIN scheduled
       /\ bailed \/ next = Len(Plan) + 1
       /\ \A o \in DOMAIN scheduled \cap DOMAIN outcomes :
            o \in DOMAIN futures /\ futures[o].status = "done"
  /\ phase = "done" => AllRecorded

\* No slot is taken before order reaches it.
SlotsBounded ==
  /\ order < next
  /\ DOMAIN outcomes \cup DOMAIN scheduled \subseteq 0..(order - 1)

\* The action that holds slot o.
Slot(o) == IF o \in DOMAIN scheduled THEN scheduled[o] ELSE outcomes[o].act

\* The wanted actions the walk has passed.
Walked == {k \in Wanted(mode) : k < next}

\* The slots given out so far follow the walk over the plan.
SlotsFollowPlan ==
  /\ order = Cardinality(Walked)
  /\ DOMAIN outcomes \cup DOMAIN scheduled = 0..(order - 1)
  /\ \A o \in DOMAIN outcomes : outcomes[o].act = Slot(o)
  /\ \A o, p \in 0..(order - 1) : o < p => Slot(o) < Slot(p)
  /\ {Slot(o) : o \in 0..(order - 1)} = Walked

\* The hooks have been told of each outcome, and of the whole plan before.
CountsMatch ==
  /\ ticks = Cardinality(DOMAIN outcomes)
  /\ phase # "idle" => total = Cardinality(Wanted(mode))

\* With --bail nothing is queued, and the outcomes before the one that triggers
\* it did not.
BailShape ==
  /\ bailed => /\ mode.bail /\ futures = NoFunction
               /\ order > 0 /\ outcomes[order - 1].returncode # 0
  /\ mode.bail => scheduled = NoFunction
  /\ mode.bail => \A o \in DOMAIN outcomes :
       \/ outcomes[o].returncode = 0
       \/ Plan[outcomes[o].act].ignore_exit /\ ~outcomes[o].cached
       \/ bailed /\ o = order - 1

\* Without edits during a run, what an execution saw is on the disk until its
\* outcome is stored, so that entries describe the files they were stored with.
EntriesDescribeStates ==
  /\ \A key \in DOMAIN entries : entries[key].outcome.about = entries[key].states
  /\ \A o \in DOMAIN scheduled : ~Plan[scheduled[o]].is_fix
  /\ phase = "immediate" => futures[order].about = FileStates(disk, Plan[next].files)
  /\ phase \in {"pool", "drain"} => \A o \in DOMAIN futures :
       /\ futures[o].status = "running" =>
            futures[o].about = FileStates(disk, Plan[scheduled[o]].files)
       /\ futures[o].status = "done" =>
            futures[o].outcome.about = FileStates(disk, Plan[scheduled[o]].files)
  /\ phase \in {"pool", "drain", "done"} => \A o \in DOMAIN scheduled \cap DOMAIN outcomes :
       outcomes[o].about = FileStates(disk, Plan[scheduled[o]].files)

-----------------------------------------------------------------------------
\* A run, seen from outside.
RunStatus ==
  CASE phase \in Active -> "running"
    [] phase = "done" -> "complete"
    [] phase = "failed" -> "aborted"
    [] OTHER -> "idle"

Wants == [m \in ModeType |-> Wanted(m)]
Reported == {outcomes[o].act : o \in DOMAIN outcomes}

Report == INSTANCE LintReport WITH
  status <- RunStatus, Wants <- Wants, reported <- Reported

\* Every run is a run of LintReport: it reports nothing twice and nothing its
\* mode excludes, and completes only when it reported all, or, bailing, a prefix.
ReportSpec == Report!Spec
=============================================================================
