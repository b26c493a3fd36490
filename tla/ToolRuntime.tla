------------------------------ MODULE ToolRuntime ------------------------------
(***************************************************************************)
(* CommandPreparer and the runtime handlers: where the command of one tool *)
(* comes from, and how a missing tool is installed into the tool cache.    *)
(*                                                                         *)
(* The catalog pins a version of the tool; another release or branch pins  *)
(* another.  Several pyqa processes may prepare the tool at a time; each   *)
(* may be killed between the toolchain's install, the copy of the binary   *)
(* and the metadata file that records the requirement.  npm and rust       *)
(* install into a prefix per requirement; go, lua and perl put the binary  *)
(* of every requirement at one path and keep only the metadata apart.      *)
(***************************************************************************)
EXTENDS Integers

CONSTANTS
  Processes,
  Runtimes,    \* the runtimes the tool may be of
  MaxVersion,  \* bound: versions of the tool
  MaxCalls,    \* bound: preparations by a process
  Faults       \* TRUE: toolchains fail and processes are killed

Versions == 1..MaxVersion
Shared == {"go", "lua", "perl"}    \* one binary path for all requirements
InPlace == {"lua", "perl", "npm"}  \* filled by a copy or by npm, not atomically
Installing == Shared \cup {"npm", "rust"}

ASSUME RuntimesAssumption == Runtimes \subseteq Installing \cup {"python", "binary"}
ASSUME CallsAssumption ==
  MaxVersion \in Nat \ {0} /\ MaxCalls \in Nat /\ Faults \in BOOLEAN

VARIABLES
  runtime,     \* the runtime of the tool
  pin,         \* the version the catalog asks for
  onPath,      \* the tool's version on PATH, 0 when absent
  inProject,   \* the version in the project's bin or node_modules, 0 when absent
  marker,      \* project-installed.json exists
  toolchain,   \* go, luarocks, cargo, cpanm or npm is on PATH
  redirected,  \* GOBIN is set by the user
  binary,      \* place -> the version there, 0 when absent, Torn when half written
  meta,        \* the requirements whose metadata file can be read
  calls, stage, wanted, source,  \* process -> calls, position, requirement, answer
  asked,       \* history: requirements whose install was started
  completed,   \* history: requirements whose metadata was written
  overlapped   \* history: two installs were under way at a time

machine == <<runtime, onPath, inProject, marker, toolchain, redirected>>
cache == <<binary, meta>>
history == <<asked, completed, overlapped>>
vars == <<machine, pin, cache, calls, stage, wanted, source, history>>

Torn == -1

\* layout.<runtime>.bin_dir / name, or the prefix that is named by the slug
Place(v) == IF runtime \in Shared THEN 0 ELSE v
Places == {0} \cup Versions

-----------------------------------------------------------------------------
(* The decision: RuntimeHandler.prepare                                    *)

\* VersionResolver.is_compatible; a tool that is not there has no version
Compatible(actual, expected) == actual # 0 /\ actual >= expected

\* _try_project: only npm and python compare versions
ProjectAnswers(v) ==
  CASE runtime = "npm" -> Compatible(inProject, v)
    [] runtime = "python" -> Compatible(onPath, v)
    [] OTHER -> inProject # 0

\* _try_system
SystemAnswers(v) == runtime = "binary" \/ Compatible(onPath, v)

\* The toolchain is asked for before the cache is looked at.
ToolchainMissing == ~toolchain /\ runtime \in {"go", "lua", "rust"}

\* MUTANT: the metadata is not looked at.
InstalledBinary(v) == binary[Place(v)] # 0

\* The binary is there and its metadata names the requirement: _ensure_local_tool,
\* _is_existing_binary, _ensure_local_package.
Installed(v) == binary[Place(v)] # 0 /\ v \in meta

\* What a run asks for: use_local_override with system_preferred as its opposite;
\* the tool itself may prefer_local, too.
Preferences == {wish \in [local : BOOLEAN, system : BOOLEAN] : wish.local \/ wish.system}

\* The answer of prepare short of an install
Chosen(wish, v) ==
  IF wish.local THEN "local"
  ELSE IF marker /\ ProjectAnswers(v) THEN "project"
  ELSE IF wish.system /\ SystemAnswers(v) THEN "system"
  ELSE IF ProjectAnswers(v) THEN "project"
  ELSE "local"

-----------------------------------------------------------------------------
Init ==
  /\ runtime \in Runtimes
  /\ pin \in Versions
  /\ onPath \in 0..1 /\ inProject \in 0..1
  /\ marker \in BOOLEAN /\ toolchain \in BOOLEAN
  /\ redirected \in (IF runtime = "go" THEN BOOLEAN ELSE {FALSE})
  /\ binary = [place \in Places |-> 0]
  /\ meta = {}
  /\ calls = [p \in Processes |-> 0]
  /\ stage = [p \in Processes |-> "idle"]
  /\ wanted = [p \in Processes |-> 0]
  /\ source = [p \in Processes |-> "none"]
  /\ asked = {} /\ completed = {} /\ overlapped = FALSE

Goto(p, place) == stage' = [stage EXCEPT ![p] = place]
Answer(p, from) == Goto(p, "done") /\ source' = [source EXCEPT ![p] = from]

Begin(p) ==
  /\ stage[p] = "idle" /\ calls[p] < MaxCalls
  /\ calls' = [calls EXCEPT ![p] = @ + 1]
  /\ wanted' = [wanted EXCEPT ![p] = pin]

\* prepare answers without an install
AnswerAtOnce(p) ==
  /\ Begin(p)
  /\ \E wish \in Preferences :
       LET from == Chosen(wish, pin) IN
       /\ from = "local" =>
            runtime \notin Installing \/ (~ToolchainMissing /\ Installed(pin))
       /\ Answer(p, from)
  /\ UNCHANGED <<machine, pin, cache, history>>

UnderWay == {p \in Processes : stage[p] \in {"install", "fill", "meta", "write"}}

\* No metadata for the requirement, or no binary: the install starts.
StartInstall(p) ==
  /\ runtime \in Installing
  /\ Begin(p)
  /\ \E wish \in Preferences : Chosen(wish, pin) = "local"
  /\ ~ToolchainMissing /\ ~Installed(pin)
  /\ Goto(p, "install")
  /\ asked' = asked \cup {pin}
  /\ overlapped' = (overlapped \/ UnderWay # {})
  /\ UNCHANGED <<machine, pin, cache, source, completed>>

\* npm writes into the prefix; luarocks and cpanm have installed elsewhere and
\* copy2 starts to write the binary.
StartFill(p) ==
  /\ runtime \in InPlace /\ toolchain
  /\ stage[p] = "install"
  /\ binary' = [binary EXCEPT ![Place(wanted[p])] = Torn]
  /\ Goto(p, "fill")
  /\ UNCHANGED <<machine, pin, meta, calls, wanted, source, history>>

EndFill(p) ==
  /\ stage[p] = "fill"
  /\ binary' = [binary EXCEPT ![Place(wanted[p])] = wanted[p]]
  /\ Goto(p, "meta")
  /\ UNCHANGED <<machine, pin, meta, calls, wanted, source, history>>

\* go install and cargo install put the finished binary in place, go wherever
\* GOBIN says; the code then only looks whether a binary is there.
InstallBinary(p) ==
  /\ runtime \in {"go", "rust"} /\ toolchain
  /\ stage[p] = "install"
  /\ binary' = IF redirected THEN binary
               ELSE [binary EXCEPT ![Place(wanted[p])] = wanted[p]]
  /\ binary'[Place(wanted[p])] # 0
  /\ Goto(p, "meta")
  /\ UNCHANGED <<machine, pin, meta, calls, wanted, source, history>>

\* write_text opens the metadata file, which truncates it
OpenMeta(p) ==
  /\ stage[p] = "meta"
  /\ meta' = meta \ {wanted[p]}
  /\ Goto(p, "write")
  /\ UNCHANGED <<machine, pin, binary, calls, wanted, source, history>>

\* MUTANT: one metadata file per tool, which names the last requirement.
WriteMetaOfTool(p) ==
  /\ stage[p] = "write"
  /\ meta' = {wanted[p]}
  /\ completed' = completed \cup {wanted[p]}
  /\ Answer(p, "local")
  /\ UNCHANGED <<machine, pin, binary, calls, wanted, asked, overlapped>>

WriteMeta(p) ==
  /\ stage[p] = "write"
  /\ meta' = meta \cup {wanted[p]}
  /\ completed' = completed \cup {wanted[p]}
  /\ Answer(p, "local")
  /\ UNCHANGED <<machine, pin, binary, calls, wanted, asked, overlapped>>

Idle(p) ==
  /\ Goto(p, "idle")
  /\ wanted' = [wanted EXCEPT ![p] = 0]
  /\ source' = [source EXCEPT ![p] = "none"]
  /\ UNCHANGED <<machine, pin, cache, calls, history>>

\* The prepared command has been executed.
Return(p) == stage[p] = "done" /\ Idle(p)

\* The toolchain is missing, or returned without leaving a binary: RuntimeError,
\* FileNotFoundError or SubprocessExecutionError.
RaiseMissing(p) ==
  /\ stage[p] = "install"
  /\ ~toolchain \/ (redirected /\ binary[Place(wanted[p])] = 0)
  /\ Idle(p)

\* The toolchain fails, or the process is killed.
Interrupted(p) ==
  /\ Faults /\ p \in UnderWay
  /\ Idle(p)

\* Another release of the catalog, another branch.
ChangePin(v) ==
  /\ v # pin /\ pin' = v
  /\ UNCHANGED <<machine, cache, calls, stage, wanted, source, history>>

ProcessStep(p) ==
  \/ AnswerAtOnce(p) \/ StartInstall(p)
  \/ StartFill(p) \/ EndFill(p) \/ InstallBinary(p)
  \/ OpenMeta(p) \/ WriteMeta(p)
  \/ Return(p) \/ RaiseMissing(p) \/ Interrupted(p)

Next ==
  \/ \E p \in Processes : ProcessStep(p)
  \/ \E v \in Versions : ChangePin(v)

Spec == Init /\ [][Next]_vars
-----------------------------------------------------------------------------
(* Properties                                                              *)

Stages == {"idle", "install", "fill", "meta", "write", "done"}

\* The tool cache and the progress of every process keep their types.
TypeOK ==
  /\ runtime \in Runtimes /\ pin \in Versions
  /\ onPath \in Nat /\ inProject \in Nat
  /\ marker \in BOOLEAN /\ toolchain \in BOOLEAN /\ redirected \in BOOLEAN
  /\ binary \in [Places -> {Torn, 0} \cup Versions]
  /\ meta \subseteq Versions
  /\ calls \in [Processes -> 0..MaxCalls]
  /\ stage \in [Processes -> Stages]
  /\ wanted \in [Processes -> 0..MaxVersion]
  /\ source \in [Processes -> {"none", "local", "project", "system"}]
  /\ asked \subseteq Versions /\ completed \subseteq Versions
  /\ overlapped \in BOOLEAN

\* When a cached binary may be other than the metadata says: several pins have
\* used the one path of go, lua or perl, or an install that writes in place
\* overlapped another.
Exposed ==
  \/ runtime \in Shared /\ \E v, w \in asked : v # w
  \/ runtime \in InPlace /\ overlapped

\* A command that is answered from the tool cache runs the whole binary of the
\* version that was pinned, after any sequence of pins, failed installs, kills,
\* overlapping preparations and installs that GOBIN sends elsewhere that does not
\* leave the cache exposed.
PinHonoured ==
  ~Exposed =>
    \A p \in Processes :
      runtime \in Installing /\ stage[p] = "done" /\ source[p] = "local" =>
        binary[Place(wanted[p])] = wanted[p]

\* An installation that was completed is used by every later preparation: going
\* back to a former pin, or a crash of another install, repeats nothing.
CompletedInstallIsReused ==
  [][\A p \in Processes :
       stage[p] = "idle" /\ stage'[p] = "install" /\ ~overlapped' =>
         wanted'[p] \notin completed]_vars
=============================================================================
