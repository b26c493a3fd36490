-------------------------- MODULE ToolRuntimeProofs --------------------------
(***************************************************************************)
(* The tool cache serves what was pinned, for any number of processes,     *)
(* versions and preparations: as long as it is not exposed, each metadata  *)
(* file and each answer from the cache speaks of a whole binary of its own *)
(* version.                                                                *)
(***************************************************************************)
EXTENDS ToolRuntime, TLAPS

AtWork(p) == stage[p] \in {"install", "fill", "meta", "write"}
Served(p) == runtime \in Installing /\ stage[p] = "done" /\ source[p] = "local"

(* What is known of a cache in every state *)
Bookkeeping ==
  /\ meta \subseteq asked
  /\ \A p \in Processes : AtWork(p) => runtime \in Installing /\ wanted[p] \in asked
  /\ \A p \in Processes : Served(p) => wanted[p] \in asked
  /\ \A p \in Processes : stage[p] = "fill" => runtime \in InPlace
  /\ \A place \in Places : binary[place] # 0 => \E v \in asked : Place(v) = place
  /\ \A v \in completed : binary[Place(v)] # 0
  /\ \A p \in Processes : stage[p] \in {"meta", "write"} => binary[Place(wanted[p])] # 0

(* With one install at a time, a requirement that is being installed has no *)
(* metadata, and a completed one keeps its metadata.                        *)
OneByOne ==
  ~overlapped =>
    /\ \A p, q \in Processes : AtWork(p) /\ AtWork(q) => p = q
    /\ \A p \in Processes : AtWork(p) => wanted[p] \notin completed
    /\ completed \subseteq meta

(* A cache that is not exposed: the binaries are those of their places, but *)
(* for one that an install in place has begun to write.                     *)
Sound ==
  ~Exposed =>
    /\ \A v \in meta : binary[Place(v)] = v
    /\ \A p \in Processes : stage[p] \in {"meta", "write"} => binary[Place(wanted[p])] = wanted[p]
    /\ \A p \in Processes : Served(p) => binary[Place(wanted[p])] = wanted[p]
    /\ runtime \notin InPlace => \A v \in asked : binary[Place(v)] \in {0, v}
    /\ runtime \in InPlace =>
         /\ \A p \in Processes : AtWork(p) => wanted[p] \notin meta
         /\ \A p \in Processes : Served(p) => wanted[p] \in meta

CacheInv == TypeOK /\ Bookkeeping /\ OneByOne /\ Sound
-----------------------------------------------------------------------------
LEMMA ChosenType == \A wish, v : Chosen(wish, v) \in {"local", "project", "system"}
BY DEF Chosen

\* Requirements have places, and only those of a shared path have the same.
LEMMA PlaceFacts ==
  ASSUME CallsAssumption
  PROVE  /\ \A v \in Versions : Place(v) \in Places /\ v # 0 /\ v # Torn
         /\ runtime \notin Shared => \A v, w : Place(v) = Place(w) => v = w
         /\ 0 \notin Versions /\ Torn \notin Versions
BY DEF CallsAssumption, Place, Places, Versions, Torn

LEMMA TypeStep == TypeOK /\ Bookkeeping /\ [Next]_vars => TypeOK'
<1> SUFFICES ASSUME TypeOK, Bookkeeping, [Next]_vars PROVE TypeOK'
  OBVIOUS
<1> USE CallsAssumption DEF machine, cache, history, Goto, Answer, Stages
<1>0. Versions = 1..MaxVersion /\ Places = {0} \cup Versions
  BY DEF Versions, Places
<1>1. ASSUME NEW p \in Processes, AnswerAtOnce(p) PROVE TypeOK'
  <2>1. PICK wish \in Preferences : source' = [source EXCEPT ![p] = Chosen(wish, pin)]
    BY <1>1 DEF AnswerAtOnce
  <2>2. Chosen(wish, pin) \in {"local", "project", "system"}
    BY ChosenType
  <2>3. source' \in [Processes -> {"none", "local", "project", "system"}]
    BY <2>1, <2>2 DEF TypeOK
  <2> QED BY <1>0, <1>1, <2>3 DEF TypeOK, AnswerAtOnce, Begin
<1>2. ASSUME NEW p \in Processes, StartInstall(p) PROVE TypeOK'
  BY <1>0, <1>2 DEF TypeOK, StartInstall, Begin
<1>3. ASSUME NEW p \in Processes, StartFill(p) PROVE TypeOK'
  BY <1>0, <1>3 DEF TypeOK, StartFill
<1>4. ASSUME NEW p \in Processes, EndFill(p) PROVE TypeOK'
  <2>1. wanted[p] \in Versions
    BY <1>4 DEF EndFill, Bookkeeping, AtWork, TypeOK
  <2> QED BY <1>0, <1>4, <2>1 DEF TypeOK, EndFill
<1>5. ASSUME NEW p \in Processes, InstallBinary(p) PROVE TypeOK'
  <2>1. wanted[p] \in Versions
    BY <1>5 DEF InstallBinary, Bookkeeping, AtWork, TypeOK
  <2> QED BY <1>0, <1>5, <2>1 DEF TypeOK, InstallBinary
<1>6. ASSUME NEW p \in Processes, OpenMeta(p) PROVE TypeOK'
  BY <1>0, <1>6 DEF TypeOK, OpenMeta
<1>7. ASSUME NEW p \in Processes, WriteMeta(p) PROVE TypeOK'
  <2>1. wanted[p] \in Versions
    BY <1>7 DEF WriteMeta, Bookkeeping, AtWork, TypeOK
  <2> QED BY <1>0, <1>7, <2>1 DEF TypeOK, WriteMeta
<1>8. ASSUME NEW p \in Processes, Idle(p) PROVE TypeOK'
  BY <1>0, <1>8 DEF TypeOK, Idle
<1>9. ASSUME NEW v \in Versions, ChangePin(v) PROVE TypeOK'
  BY <1>0, <1>9 DEF TypeOK, ChangePin
<1>10. CASE UNCHANGED vars
  BY <1>10 DEF TypeOK, vars
<1> QED BY <1>1, <1>2, <1>3, <1>4, <1>5, <1>6, <1>7, <1>8, <1>9, <1>10
        DEF Next, ProcessStep, Return, RaiseMissing, Interrupted

LEMMA BookkeepingStep == TypeOK /\ Bookkeeping /\ [Next]_vars => Bookkeeping'
<1> SUFFICES ASSUME TypeOK, Bookkeeping, [Next]_vars PROVE Bookkeeping'
  OBVIOUS
<1> USE PlaceFacts, CallsAssumption DEF machine, cache, history, Goto, Answer, AtWork, Served
<1>1. ASSUME NEW p \in Processes, AnswerAtOnce(p) PROVE Bookkeeping'
  <2>1. PICK wish \in Preferences :
          /\ source' = [source EXCEPT ![p] = Chosen(wish, pin)]
          /\ Chosen(wish, pin) = "local" => runtime \notin Installing \/ Installed(pin)
    BY <1>1 DEF AnswerAtOnce
  <2>2. /\ stage' = [stage EXCEPT ![p] = "done"] /\ wanted' = [wanted EXCEPT ![p] = pin]
        /\ UNCHANGED <<runtime, binary, meta, asked, completed>>
    BY <1>1 DEF AnswerAtOnce, Begin
  <2>3. Served(p)' => pin \in meta
    BY <2>1, <2>2 DEF Installed, TypeOK
  <2> QED BY <2>1, <2>2, <2>3 DEF Bookkeeping, TypeOK, Place
<1>2. ASSUME NEW p \in Processes, StartInstall(p) PROVE Bookkeeping'
  BY <1>2 DEF TypeOK, Bookkeeping, StartInstall, Begin, Place
<1>3. ASSUME NEW p \in Processes, StartFill(p) PROVE Bookkeeping'
  BY <1>3 DEF TypeOK, Bookkeeping, StartFill, Place, Torn
<1>4. ASSUME NEW p \in Processes, EndFill(p) PROVE Bookkeeping'
  BY <1>4 DEF TypeOK, Bookkeeping, EndFill, Place
<1>5. ASSUME NEW p \in Processes, InstallBinary(p) PROVE Bookkeeping'
  BY <1>5 DEF TypeOK, Bookkeeping, InstallBinary, Place
<1>6. ASSUME NEW p \in Processes, OpenMeta(p) PROVE Bookkeeping'
  BY <1>6 DEF TypeOK, Bookkeeping, OpenMeta, Place
<1>7. ASSUME NEW p \in Processes, WriteMeta(p) PROVE Bookkeeping'
  BY <1>7 DEF TypeOK, Bookkeeping, WriteMeta, Place
<1>8. ASSUME NEW p \in Processes, Idle(p) PROVE Bookkeeping'
  BY <1>8 DEF TypeOK, Bookkeeping, Idle, Place
<1>9. ASSUME NEW v \in Versions, ChangePin(v) PROVE Bookkeeping'
  BY <1>9 DEF TypeOK, Bookkeeping, ChangePin, Place
<1>10. CASE UNCHANGED vars
  BY <1>10 DEF TypeOK, Bookkeeping, vars, Place
<1> QED BY <1>1, <1>2, <1>3, <1>4, <1>5, <1>6, <1>7, <1>8, <1>9, <1>10
        DEF Next, ProcessStep, Return, RaiseMissing, Interrupted

LEMMA OneByOneStep == TypeOK /\ Bookkeeping /\ OneByOne /\ [Next]_vars => OneByOne'
<1> SUFFICES ASSUME TypeOK, Bookkeeping, OneByOne, [Next]_vars PROVE OneByOne'
  OBVIOUS
<1> USE DEF machine, cache, history, Goto, Answer, AtWork
<1>1. ASSUME NEW p \in Processes, AnswerAtOnce(p) PROVE OneByOne'
  BY <1>1 DEF TypeOK, OneByOne, AnswerAtOnce, Begin
<1>2. ASSUME NEW p \in Processes, StartInstall(p) PROVE OneByOne'
  BY <1>2 DEF TypeOK, Bookkeeping, OneByOne, StartInstall, Begin, UnderWay, Installed
<1>3. ASSUME NEW p \in Processes, StartFill(p) PROVE OneByOne'
  BY <1>3 DEF TypeOK, OneByOne, StartFill
<1>4. ASSUME NEW p \in Processes, EndFill(p) PROVE OneByOne'
  BY <1>4 DEF TypeOK, OneByOne, EndFill
<1>5. ASSUME NEW p \in Processes, InstallBinary(p) PROVE OneByOne'
  BY <1>5 DEF TypeOK, OneByOne, InstallBinary
<1>6. ASSUME NEW p \in Processes, OpenMeta(p) PROVE OneByOne'
  BY <1>6 DEF TypeOK, OneByOne, OpenMeta
<1>7. ASSUME NEW p \in Processes, WriteMeta(p) PROVE OneByOne'
  BY <1>7 DEF TypeOK, OneByOne, WriteMeta
<1>8. ASSUME NEW p \in Processes, Idle(p) PROVE OneByOne'
  BY <1>8 DEF TypeOK, OneByOne, Idle
<1>9. ASSUME NEW v \in Versions, ChangePin(v) PROVE OneByOne'
  BY <1>9 DEF TypeOK, OneByOne, ChangePin
<1>10. CASE UNCHANGED vars
  BY <1>10 DEF TypeOK, OneByOne, vars
<1> QED BY <1>1, <1>2, <1>3, <1>4, <1>5, <1>6, <1>7, <1>8, <1>9, <1>10
        DEF Next, ProcessStep, Return, RaiseMissing, Interrupted
-----------------------------------------------------------------------------
\* No step ends an exposure.
LEMMA ExposedForGood ==
  ASSUME ~Exposed', runtime' = runtime, asked \subseteq asked',
         overlapped => overlapped'
  PROVE  ~Exposed
BY DEF Exposed

\* Two requirements of a cache that is not exposed have the same place only when
\* they are the same.
LEMMA OwnPlace ==
  ASSUME CallsAssumption, ~Exposed, NEW v \in asked, NEW w \in asked, Place(v) = Place(w)
  PROVE  v = w
BY DEF Exposed, Place

LEMMA SoundStep == CacheInv /\ [Next]_vars => Sound'
<1> SUFFICES ASSUME CacheInv, [Next]_vars, ~Exposed' PROVE Sound'
  BY DEF Sound
<1>0. TypeOK /\ Bookkeeping /\ OneByOne /\ Sound
  BY DEF CacheInv
<1> USE PlaceFacts, CallsAssumption DEF machine, cache, history, Goto, Answer, AtWork, Served
<1>1. ASSUME NEW p \in Processes, AnswerAtOnce(p) PROVE Sound'
  <2>1. PICK wish \in Preferences :
          /\ source' = [source EXCEPT ![p] = Chosen(wish, pin)]
          /\ Chosen(wish, pin) = "local" => runtime \notin Installing \/ Installed(pin)
    BY <1>1 DEF AnswerAtOnce
  <2>2. /\ stage' = [stage EXCEPT ![p] = "done"] /\ wanted' = [wanted EXCEPT ![p] = pin]
        /\ UNCHANGED <<runtime, redirected, binary, meta, asked, completed, overlapped>>
    BY <1>1 DEF AnswerAtOnce, Begin
  <2>3. Served(p)' => pin \in meta
    BY <1>0, <2>1, <2>2 DEF Installed, TypeOK
  <2>4. ~Exposed
    BY <2>2, ExposedForGood
  <2> QED BY <1>0, <2>1, <2>2, <2>3, <2>4 DEF Sound, TypeOK, Place
<1>2. ASSUME NEW p \in Processes, StartInstall(p) PROVE Sound'
  <2>1. /\ stage' = [stage EXCEPT ![p] = "install"] /\ wanted' = [wanted EXCEPT ![p] = pin]
        /\ asked' = asked \cup {pin} /\ overlapped' = (overlapped \/ UnderWay # {})
        /\ UNCHANGED <<runtime, redirected, pin, binary, meta, source>>
        /\ ~Installed(pin) /\ runtime \in Installing
    BY <1>2 DEF StartInstall, Begin
  <2>2. ~Exposed
    BY <2>1, ExposedForGood
  <2>3. pin \notin meta
    BY <1>0, <2>1, <2>2 DEF Sound, Installed, TypeOK
  <2>4. ASSUME runtime \notin InPlace PROVE binary[Place(pin)] \in {0, pin}
    <3>1. CASE pin \in asked
      BY <1>0, <2>2, <2>4, <3>1 DEF Sound
    <3>2. CASE pin \notin asked
      <4>1. SUFFICES ASSUME binary[Place(pin)] # 0 PROVE FALSE
        OBVIOUS
      <4>2. PICK v \in asked : Place(v) = Place(pin)
        BY <1>0, <4>1 DEF Bookkeeping, TypeOK
      <4>3. Place(v)' = Place(v) /\ Place(pin)' = Place(pin) /\ v \in asked' /\ pin \in asked'
        BY <2>1, <4>2 DEF Place
      <4>4. v = pin
        BY <2>1, <4>2, <4>3 DEF Exposed, Place
      <4> QED BY <3>2, <4>2, <4>4
    <3> QED BY <3>1, <3>2
  <2> QED BY <1>0, <2>1, <2>2, <2>3, <2>4 DEF Sound, TypeOK, Place
<1>3. ASSUME NEW p \in Processes, StartFill(p) PROVE Sound'
  <2>1. ~Exposed /\ runtime \in InPlace /\ ~overlapped
    BY <1>3, ExposedForGood DEF StartFill, Exposed
  <2>2. \A v \in asked : Place(v) = Place(wanted[p]) => v = wanted[p]
    BY <1>0, <1>3, <2>1, OwnPlace DEF StartFill, Bookkeeping
  <2>3. \A q \in Processes : Served(q) => wanted[q] \in meta /\ wanted[q] # wanted[p]
    BY <1>0, <1>3, <2>1 DEF Sound, StartFill
  <2>4. \A q \in Processes : ~(AtWork(q) /\ q # p)
    BY <1>0, <1>3, <2>1 DEF OneByOne, StartFill
  <2> QED BY <1>0, <1>3, <2>1, <2>2, <2>3, <2>4
          DEF Sound, TypeOK, StartFill, Bookkeeping, Place
<1>4. ASSUME NEW p \in Processes, EndFill(p) PROVE Sound'
  <2>1. ~Exposed /\ runtime \in InPlace /\ ~overlapped
    BY <1>0, <1>4, ExposedForGood DEF EndFill, Exposed, Bookkeeping
  <2>2. \A v \in asked : Place(v) = Place(wanted[p]) => v = wanted[p]
    BY <1>0, <1>4, <2>1, OwnPlace DEF EndFill, Bookkeeping
  <2> QED BY <1>0, <1>4, <2>1, <2>2 DEF Sound, TypeOK, EndFill, Bookkeeping, Place
<1>5. ASSUME NEW p \in Processes, InstallBinary(p) PROVE Sound'
  <2>1. ~Exposed /\ runtime \notin InPlace
    BY <1>5, ExposedForGood DEF InstallBinary, Exposed, InPlace
  <2>2. \A v \in asked : Place(v) = Place(wanted[p]) => v = wanted[p]
    BY <1>0, <1>5, <2>1, OwnPlace DEF InstallBinary, Bookkeeping
  <2>3. CASE redirected
    <3>1. binary' = binary /\ binary[Place(wanted[p])] = wanted[p]
      BY <1>0, <1>5, <2>1, <2>3 DEF Sound, InstallBinary, Bookkeeping, Place
    <3> QED BY <1>0, <1>5, <2>1, <3>1 DEF Sound, TypeOK, InstallBinary, Place
  <2>4. CASE ~redirected
    BY <1>0, <1>5, <2>1, <2>2, <2>4 DEF Sound, TypeOK, InstallBinary, Bookkeeping, Place
  <2> QED BY <2>3, <2>4
<1>6. ASSUME NEW p \in Processes, OpenMeta(p) PROVE Sound'
  <2>1. ~Exposed
    BY <1>6, ExposedForGood DEF OpenMeta
  <2>2. runtime \in InPlace => \A q \in Processes : Served(q) => wanted[q] # wanted[p]
    BY <1>0, <1>6, <2>1 DEF Sound, OpenMeta
  <2> QED BY <1>0, <1>6, <2>1, <2>2 DEF Sound, TypeOK, OpenMeta, Place
<1>7. ASSUME NEW p \in Processes, WriteMeta(p) PROVE Sound'
  <2>1. ~Exposed
    BY <1>7, ExposedForGood DEF WriteMeta
  <2>2. runtime \in InPlace => \A q \in Processes : AtWork(q) => q = p
    BY <1>0, <1>7, <2>1 DEF Exposed, OneByOne, WriteMeta
  <2> QED BY <1>0, <1>7, <2>1, <2>2 DEF Sound, TypeOK, WriteMeta, Place
<1>8. ASSUME NEW p \in Processes, Idle(p) PROVE Sound'
  <2>1. ~Exposed
    BY <1>8, ExposedForGood DEF Idle
  <2> QED BY <1>0, <1>8, <2>1 DEF Sound, TypeOK, Idle, Place
<1>9. ASSUME NEW v \in Versions, ChangePin(v) PROVE Sound'
  <2>1. ~Exposed
    BY <1>9, ExposedForGood DEF ChangePin
  <2> QED BY <1>0, <1>9, <2>1 DEF Sound, TypeOK, ChangePin, Place
<1>10. CASE UNCHANGED vars
  BY <1>0, <1>10 DEF Sound, TypeOK, Exposed, vars, Place
<1> QED BY <1>1, <1>2, <1>3, <1>4, <1>5, <1>6, <1>7, <1>8, <1>9, <1>10
        DEF Next, ProcessStep, Return, RaiseMissing, Interrupted

LEMMA CacheInit == Init => CacheInv
<1> SUFFICES ASSUME Init PROVE CacheInv
  OBVIOUS
<1> USE CallsAssumption
<1>1. TypeOK
  <2>1. redirected \in BOOLEAN
    <3>1. redirected \in (IF runtime = "go" THEN BOOLEAN ELSE {FALSE})
      BY DEF Init
    <3> QED BY <3>1, Zenon
  <2>2. onPath \in Nat /\ inProject \in Nat
    BY DEF Init
  <2>3. binary \in [Places -> {Torn, 0} \cup Versions]
    BY DEF Init
  <2>4. /\ calls \in [Processes -> 0..MaxCalls] /\ wanted \in [Processes -> 0..MaxVersion]
        /\ stage \in [Processes -> Stages]
        /\ source \in [Processes -> {"none", "local", "project", "system"}]
    BY DEF Init, Stages
  <2> QED BY <2>1, <2>2, <2>3, <2>4 DEF Init, TypeOK
<1>2. Bookkeeping
  BY DEF Init, Bookkeeping, AtWork, Served
<1>3. OneByOne /\ Sound
  BY DEF Init, OneByOne, Sound, AtWork, Served
<1> QED BY <1>1, <1>2, <1>3 DEF CacheInv

LEMMA CacheStep == CacheInv /\ [Next]_vars => CacheInv'
BY TypeStep, BookkeepingStep, OneByOneStep, SoundStep DEF CacheInv

THEOREM CacheInvariant == Spec => []CacheInv
BY CacheInit, CacheStep, PTL DEF Spec
-----------------------------------------------------------------------------
\* The tool cache and the progress of every process keep their types.
THEOREM TypeCorrect == Spec => []TypeOK
BY CacheInvariant, PTL DEF CacheInv

\* Whatever the runtime, the number of processes and the sequence of pins, a
\* command served from a cache that is not exposed runs the pinned version.
THEOREM PinIsHonoured == Spec => []PinHonoured
<1>1. CacheInv => PinHonoured
  BY DEF CacheInv, Sound, Served, PinHonoured
<1> QED BY <1>1, CacheInvariant, PTL

\* A completed installation is not repeated while installs do not overlap.
THEOREM InstallIsReused == Spec => CompletedInstallIsReused
<1> DEFINE Reused == \A p \in Processes :
             stage[p] = "idle" /\ stage'[p] = "install" /\ ~overlapped' =>
               wanted'[p] \notin completed
<1>1. CacheInv /\ [Next]_vars => Reused
  <2> SUFFICES ASSUME CacheInv, [Next]_vars, NEW p \in Processes,
                      stage[p] = "idle", stage'[p] = "install", ~overlapped'
               PROVE  wanted'[p] \notin completed
    OBVIOUS
  <2>1. TypeOK /\ Bookkeeping /\ OneByOne
    BY DEF CacheInv
  <2>2. StartInstall(p)
    BY <2>1 DEF Next, ProcessStep, AnswerAtOnce, StartInstall, StartFill, EndFill, InstallBinary,
                OpenMeta, WriteMeta, Return, RaiseMissing, Interrupted, ChangePin, Begin, Idle,
                Goto, Answer, TypeOK, vars
  <2>3. wanted'[p] = pin /\ ~Installed(pin) /\ ~overlapped
    BY <2>1, <2>2 DEF StartInstall, Begin, TypeOK
  <2> QED BY <2>1, <2>3 DEF Bookkeeping, OneByOne, Installed
<1>2. CacheInv /\ [Next]_vars => [Reused]_vars
  BY <1>1
<1> QED BY <1>2, CacheInvariant, PTL DEF Spec, CompletedInstallIsReused
=============================================================================
