---------------------------- MODULE CacheProcesses ----------------------------
(***************************************************************************)
(* Several `pyqa lint` processes over one cache directory.                 *)
(*                                                                         *)
(* No file of the directory is locked and none is replaced atomically: a   *)
(* write is an open that truncates, then one write of the whole text.  A   *)
(* process may be killed, and another may read or write, in between.  The  *)
(* manifest of tool versions is read when a run starts and written whole   *)
(* when it ends.  Runs are reduced to what they do to the directory: look  *)
(* every action up, execute the misses one by one, store each outcome.     *)
(***************************************************************************)
EXTENDS Integers, Sequences, FiniteSets, ResultCache

CONSTANTS
  Processes,
  Files, Tools,
  FilesOf,     \* tool -> the files of its action
  PlanOf,      \* process -> the tools its runs select, in order
  Faults,      \* TRUE: writes may fail and processes may be killed
  MaxRuns,     \* bound: runs of all processes
  MaxClock,    \* bound: writes to source files
  MaxVersion   \* bound: version of a tool

ASSUME PlansAssumption ==
  /\ FilesOf \in [Tools -> SUBSET Files]
  /\ PlanOf \in [Processes -> Seq(Tools)]
ASSUME LimitsAssumption ==
  /\ MaxRuns \in Nat /\ MaxClock \in Nat /\ MaxVersion \in Nat \ {0}
  /\ Faults \in BOOLEAN

VARIABLES
  disk, clock,  \* the source files and the last stamp given
  installed,    \* the version of each tool on this machine
  entries,      \* tool -> the content of its entry's file
  manifest,     \* the content of tool-versions.json
  runs,         \* runs started so far
  stage,        \* where each process is
  next,         \* the action its walk is at
  queue,        \* the tools whose actions were not answered, in order
  versions, dirty,  \* CacheContext
  about,        \* the files as the running tool reads them
  payload,      \* the entry that is being stored
  quiet,        \* history: the run was alone, undisturbed and met no failure
  captured      \* history: the tools whose version the quiet run could determine

workspace == <<disk, clock, installed>>
process == <<runs, stage, next, queue, versions, dirty, about, payload>>
history == <<quiet, captured>>
vars == <<workspace, entries, manifest, process, history>>

-----------------------------------------------------------------------------
(* The content of one file of the directory                                *)

Missing == [kind |-> "missing"]
Empty == [kind |-> "empty"]     \* truncated by open("w")
Mixed == [kind |-> "mixed"]     \* the head of one text and the tail of another
Whole(value) == [kind |-> "whole", payload |-> value]

\* A text written from offset 0 replaces what is there unless that is longer.
Written(content, value) ==
  {Whole(value)} \cup (IF content.kind \in {"whole", "mixed"} THEN {Mixed} ELSE {})

NoVersions == [t \in Tools |-> 0]

\* tool_versions.load_versions: a missing file or one that is no JSON is {}.
LoadVersions(content) == IF content.kind = "whole" THEN content.payload ELSE NoVersions

\* The entries that _read_entry can parse.
Readable == [t \in {u \in Tools : entries[u].kind = "whole"} |-> entries[t].payload]

\* ResultCache.load answers
Answers(t) == Hit(Readable, t, disk, FilesOf[t])

\* MUTANT: an entry that exists spares the run, whatever is in it.
MustRunIfMissing(t) == entries[t].kind = "missing"

\* load_cached_outcome: None, so that the action is queued
MustRun(t) == ~Answers(t)

-----------------------------------------------------------------------------
Fresh(p) ==
  /\ next' = [next EXCEPT ![p] = 1]
  /\ queue' = [queue EXCEPT ![p] = <<>>]
  /\ dirty' = [dirty EXCEPT ![p] = FALSE]
  /\ about' = [about EXCEPT ![p] = Missing]
  /\ payload' = [payload EXCEPT ![p] = Missing]

Init ==
  /\ disk = [f \in Files |-> 0] /\ clock = 0
  /\ installed = [t \in Tools |-> 1]
  /\ entries = [t \in Tools |-> Missing]
  /\ manifest = Missing
  /\ runs = 0
  /\ stage = [p \in Processes |-> "idle"]
  /\ next = [p \in Processes |-> 1]
  /\ queue = [p \in Processes |-> <<>>]
  /\ versions = [p \in Processes |-> NoVersions]
  /\ dirty = [p \in Processes |-> FALSE]
  /\ about = [p \in Processes |-> Missing]
  /\ payload = [p \in Processes |-> Missing]
  /\ quiet = [p \in Processes |-> FALSE]
  /\ captured = [p \in Processes |-> {}]

Active(p) == stage[p] # "idle"

\* The runs of the processes that are not in remain have been disturbed.
QuietOnly(remain) ==
  /\ quiet' = [p \in Processes |-> p \in remain]
  /\ captured' = [p \in Processes |-> IF p \in remain THEN captured[p] ELSE {}]

Undisturbed == {p \in Processes : quiet[p]}

\* DefaultCacheContextFactory.build
Start(p) ==
  /\ stage[p] = "idle" /\ runs < MaxRuns
  /\ runs' = runs + 1
  /\ stage' = [stage EXCEPT ![p] = "plan"]
  /\ Fresh(p)
  /\ versions' = [versions EXCEPT ![p] = LoadVersions(manifest)]
  /\ QuietOnly(IF \E q \in Processes : Active(q) THEN {} ELSE {p})
  /\ UNCHANGED <<workspace, entries, manifest>>

Walking(p) == stage[p] = "plan" /\ next[p] \in 1..Len(PlanOf[p])
Tool(p) == PlanOf[p][next[p]]

\* MUTANT: only a version that replaces another makes the manifest dirty.
UpdateToolVersionIfKnown(p, t) ==
  \E version \in {0, installed[t]} :
    /\ versions' = IF version = 0 THEN versions ELSE [versions EXCEPT ![p][t] = version]
    /\ dirty' = [dirty EXCEPT ![p] = @ \/ versions[p][t] \notin {0, versions'[p][t]}]
    /\ captured' = IF version = 0 \/ ~quiet[p] THEN captured
                   ELSE [captured EXCEPT ![p] = @ \cup {t}]

\* update_tool_version, which returns at once when the version is None, written 0:
\* the tool has none to ask for, or the capture failed.
UpdateToolVersion(p, t) ==
  \E version \in {0, installed[t]} :
    /\ versions' = IF version = 0 THEN versions ELSE [versions EXCEPT ![p][t] = version]
    /\ dirty' = [dirty EXCEPT ![p] = @ \/ versions'[p][t] # versions[p][t]]
    /\ captured' = IF version = 0 \/ ~quiet[p] THEN captured
                   ELSE [captured EXCEPT ![p] = @ \cup {t}]

\* load_cached_outcome: a miss queues the action
LookUp(p) ==
  /\ Walking(p)
  /\ UpdateToolVersion(p, Tool(p))
  /\ queue' = [queue EXCEPT ![p] = IF MustRun(Tool(p)) THEN Append(@, Tool(p)) ELSE @]
  /\ next' = [next EXCEPT ![p] = @ + 1]
  /\ UNCHANGED <<workspace, entries, manifest, runs, stage, about, payload, quiet>>

Executing(p) == stage[p] = "plan" /\ next[p] > Len(PlanOf[p])

BeginTool(p) ==
  /\ Executing(p) /\ queue[p] # <<>>
  /\ stage' = [stage EXCEPT ![p] = "tool"]
  /\ about' = [about EXCEPT ![p] = FileStates(disk, FilesOf[Head(queue[p])])]
  /\ UNCHANGED <<workspace, entries, manifest, runs, next, queue, versions, dirty,
                 payload, history>>

\* The tool has returned; store collects the states of its files.
CollectStates(p) ==
  /\ stage[p] = "tool"
  /\ stage' = [stage EXCEPT ![p] = "open"]
  /\ payload' = [payload EXCEPT ![p] =
       [about |-> about[p], states |-> FileStates(disk, FilesOf[Head(queue[p])])]]
  /\ about' = [about EXCEPT ![p] = Missing]
  /\ UNCHANGED <<workspace, entries, manifest, runs, next, queue, versions, dirty, history>>

OpenEntry(p) ==
  /\ stage[p] = "open"
  /\ stage' = [stage EXCEPT ![p] = "write"]
  /\ entries' = [entries EXCEPT ![Head(queue[p])] = Empty]
  /\ UNCHANGED <<workspace, manifest, runs, next, queue, versions, dirty, about,
                 payload, history>>

\* The action is done with, stored or not.
Stored(p) ==
  /\ stage' = [stage EXCEPT ![p] = "plan"]
  /\ queue' = [queue EXCEPT ![p] = Tail(@)]
  /\ payload' = [payload EXCEPT ![p] = Missing]
  /\ UNCHANGED <<workspace, manifest, runs, next, versions, dirty, about>>

WriteEntry(p) ==
  /\ stage[p] = "write"
  /\ LET t == Head(queue[p]) IN
     \E content \in Written(entries[t], payload[p]) :
       entries' = [entries EXCEPT ![t] = content]
  /\ Stored(p)
  /\ UNCHANGED history

\* store swallows the OSError of the open or of the write
StoreFails(p) ==
  /\ Faults /\ stage[p] \in {"open", "write"}
  /\ Stored(p)
  /\ QuietOnly(Undisturbed \ {p})
  /\ UNCHANGED entries

\* persist_versions: save_versions truncates, then writes what this run knows
OpenManifest(p) ==
  /\ Executing(p) /\ queue[p] = <<>> /\ dirty[p]
  /\ stage' = [stage EXCEPT ![p] = "save"]
  /\ manifest' = Empty
  /\ UNCHANGED <<workspace, entries, runs, next, queue, versions, dirty, about,
                 payload, history>>

WriteManifest(p) ==
  /\ stage[p] = "save"
  /\ manifest' \in Written(manifest, versions[p])
  /\ stage' = [stage EXCEPT ![p] = "done"]
  /\ dirty' = [dirty EXCEPT ![p] = FALSE]
  /\ UNCHANGED <<workspace, entries, runs, next, queue, versions, about, payload, history>>

NothingToPersist(p) ==
  /\ Executing(p) /\ queue[p] = <<>> /\ ~dirty[p]
  /\ stage' = [stage EXCEPT ![p] = "done"]
  /\ UNCHANGED <<workspace, entries, manifest, runs, next, queue, versions, dirty,
                 about, payload, history>>

\* The process ends; Killed, or save_versions raised: it ends early.
Leave(p) ==
  /\ stage' = [stage EXCEPT ![p] = "idle"]
  /\ Fresh(p)
  /\ versions' = [versions EXCEPT ![p] = NoVersions]
  /\ QuietOnly(Undisturbed \ {p})
  /\ UNCHANGED <<workspace, entries, manifest, runs>>

Exit(p) == stage[p] = "done" /\ Leave(p)
Killed(p) == Faults /\ stage[p] \notin {"idle", "done"} /\ Leave(p)

\* A file is written, but not between the start of a tool that reads it and the
\* store that records its state.
EditFile(f) ==
  /\ clock < MaxClock
  /\ \A p \in Processes : stage[p] = "tool" => f \notin FilesOf[Head(queue[p])]
  /\ clock' = clock + 1
  /\ disk' = [disk EXCEPT ![f] = clock + 1]
  /\ QuietOnly({})
  /\ UNCHANGED <<installed, entries, manifest, process>>

UpgradeTool(t) ==
  /\ installed[t] < MaxVersion
  /\ installed' = [installed EXCEPT ![t] = @ + 1]
  /\ QuietOnly({})
  /\ UNCHANGED <<disk, clock, entries, manifest, process>>

\* All the runs of the bounded workspace are over.
Rest ==
  /\ \A p \in Processes : stage[p] = "idle"
  /\ runs = MaxRuns
  /\ UNCHANGED vars

ProcessStep(p) ==
  \/ Start(p) \/ LookUp(p)
  \/ BeginTool(p) \/ CollectStates(p) \/ OpenEntry(p) \/ WriteEntry(p) \/ StoreFails(p)
  \/ OpenManifest(p) \/ WriteManifest(p) \/ NothingToPersist(p)
  \/ Exit(p) \/ Killed(p)

Next ==
  \/ \E p \in Processes : ProcessStep(p)
  \/ \E f \in Files : EditFile(f)
  \/ \E t \in Tools : UpgradeTool(t)
  \/ Rest

Spec == Init /\ [][Next]_vars
-----------------------------------------------------------------------------
(* Properties                                                              *)

\* However the writers of an entry interleave and wherever one of them dies, an
\* entry that would answer now was computed from the contents its files have now.
AnswersAreCurrent ==
  \A t \in Tools :
    Answers(t) => entries[t].payload.about = FileStates(disk, FilesOf[t])

\* A run that was alone and undisturbed leaves every one of its actions
\* answerable, whatever torn or mixed files earlier processes left behind.
QuietRunRepairsEntries ==
  \A p \in Processes : stage[p] = "done" /\ quiet[p] =>
    \A k \in 1..Len(PlanOf[p]) : Answers(PlanOf[p][k])

\* Such a run also leaves a manifest that names the installed version of each tool
\* whose version it could determine, although overlapping runs lose each other's
\* updates and a killed one leaves no manifest that can be read.
QuietRunRepairsManifest ==
  \A p \in Processes : stage[p] = "done" /\ quiet[p] =>
    \A t \in captured[p] : LoadVersions(manifest)[t] = installed[t]
=============================================================================
