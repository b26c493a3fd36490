------------------------ MODULE CacheProcessesProofs ------------------------
(***************************************************************************)
(* One cache directory and any number of processes that read, truncate and *)
(* overwrite its files: what it answers is current, and a run that nobody  *)
(* disturbs repairs what it finds.                                         *)
(***************************************************************************)
EXTENDS CacheProcesses, TLAPS

TypeInv ==
  /\ disk \in [Files -> Nat] /\ clock \in Nat
  /\ installed \in [Tools -> Nat]
  /\ DOMAIN entries = Tools
  /\ manifest.kind = "whole" => manifest.payload \in [Tools -> Nat]
  /\ runs \in Nat
  /\ stage \in [Processes ->
       {"idle", "plan", "tool", "open", "write", "save", "done"}]
  /\ next \in [Processes -> Nat \ {0}]
  /\ queue \in [Processes -> Seq(Tools)]
  /\ versions \in [Processes -> [Tools -> Nat]]
  /\ dirty \in [Processes -> BOOLEAN] /\ quiet \in [Processes -> BOOLEAN]
  /\ captured \in [Processes -> SUBSET Tools]
  /\ \A p \in Processes : ~quiet[p] => captured[p] = {}
  /\ DOMAIN about = Processes /\ DOMAIN payload = Processes
  /\ \A p \in Processes : stage[p] \in {"tool", "open", "write"} => queue[p] # <<>>
-----------------------------------------------------------------------------
LEMMA TypeInit == Init => TypeInv
<1> SUFFICES ASSUME Init PROVE TypeInv
  OBVIOUS
<1>1. NoVersions \in [Tools -> Nat]
  BY DEF NoVersions
<1>2. queue \in [Processes -> Seq(Tools)]
  BY DEF Init
<1>3. versions \in [Processes -> [Tools -> Nat]]
  BY <1>1 DEF Init
<1> QED BY <1>2, <1>3 DEF Init, TypeInv, Missing

\* Disturbed runs are not quiet any more, and what they learnt is forgotten.
LEMMA QuietOnlyMeans ==
  ASSUME TypeInv, NEW remain \in SUBSET Processes, QuietOnly(remain)
  PROVE  /\ quiet' \in [Processes -> BOOLEAN]
         /\ captured' \in [Processes -> SUBSET Tools]
         /\ \A p \in Processes : ~quiet'[p] => captured'[p] = {}
         /\ \A p \in Processes : quiet'[p] <=> p \in remain
         /\ \A p \in Processes : captured'[p] \subseteq captured[p]
<1>1. quiet' = [p \in Processes |-> p \in remain]
  BY DEF QuietOnly
<1>2. captured' = [p \in Processes |-> IF p \in remain THEN captured[p] ELSE {}]
  BY DEF QuietOnly
<1>3. /\ quiet' \in [Processes -> BOOLEAN]
      /\ \A p \in Processes : quiet'[p] <=> p \in remain
  <2>1. quiet' \in [Processes -> BOOLEAN]
    BY <1>1
  <2>2. \A p \in Processes : quiet'[p] <=> p \in remain
    BY <1>1, Zenon
  <2> QED BY <2>1, <2>2
<1>4. captured' \in [Processes -> SUBSET Tools]
  BY <1>2 DEF TypeInv
<1>5. \A p \in Processes : captured'[p] \subseteq captured[p]
  BY <1>2
<1>6. \A p \in Processes : ~quiet'[p] => captured'[p] = {}
  BY <1>2, <1>3
<1> QED BY <1>3, <1>4, <1>5, <1>6

LEMMA TypeStep == TypeInv /\ [Next]_vars => TypeInv'
<1> SUFFICES ASSUME TypeInv, [Next]_vars PROVE TypeInv'
  OBVIOUS
<1> USE DEF workspace, process, history
<1>0. NoVersions \in [Tools -> Nat] /\ LoadVersions(manifest) \in [Tools -> Nat]
  BY DEF NoVersions, LoadVersions, TypeInv
<1>1. ASSUME NEW p \in Processes, Start(p) PROVE TypeInv'
  <2>1. versions' = [versions EXCEPT ![p] = LoadVersions(manifest)]
    BY <1>1 DEF Start
  <2>2. versions' \in [Processes -> [Tools -> Nat]]
    BY <1>0, <2>1 DEF TypeInv
  <2>3. /\ quiet' \in [Processes -> BOOLEAN] /\ captured' \in [Processes -> SUBSET Tools]
        /\ \A q \in Processes : ~quiet'[q] => captured'[q] = {}
    BY <1>1, QuietOnlyMeans DEF Start
  <2>4. UNCHANGED <<workspace, entries, manifest>> /\ runs' \in Nat
    BY <1>1 DEF Start, TypeInv
  <2>5. /\ next' \in [Processes -> Nat \ {0}] /\ queue' \in [Processes -> Seq(Tools)]
        /\ dirty' \in [Processes -> BOOLEAN]
        /\ DOMAIN about' = Processes /\ DOMAIN payload' = Processes
    BY <1>1 DEF Start, Fresh, TypeInv
  <2>6. stage' = [stage EXCEPT ![p] = "plan"] /\ \A q \in Processes : q # p => queue'[q] = queue[q]
    BY <1>1 DEF Start, Fresh, TypeInv
  <2>7. \A q \in Processes : stage'[q] \in {"tool", "open", "write"} => queue'[q] # <<>>
    BY <2>6 DEF TypeInv
  <2>8. stage' \in [Processes -> {"idle", "plan", "tool", "open", "write", "save", "done"}]
    BY <2>6 DEF TypeInv
  <2> QED BY <2>2, <2>3, <2>4, <2>5, <2>7, <2>8 DEF TypeInv
<1>2. ASSUME NEW p \in Processes, LookUp(p) PROVE TypeInv'
  <2>1. Tool(p) \in Tools
    BY <1>2, PlansAssumption DEF LookUp, Walking, Tool
  <2>2. versions' \in [Processes -> [Tools -> Nat]]
    BY <1>2, <2>1 DEF LookUp, UpdateToolVersion, TypeInv
  <2>3. dirty' \in [Processes -> BOOLEAN]
    BY <1>2, <2>1 DEF LookUp, UpdateToolVersion, TypeInv
  <2>4. queue' \in [Processes -> Seq(Tools)]
    BY <1>2, <2>1 DEF LookUp, TypeInv
  <2>5. stage[p] = "plan" /\ next' \in [Processes -> Nat \ {0}]
    BY <1>2 DEF LookUp, Walking, TypeInv
  <2>6. \A q \in Processes : stage[q] \in {"tool", "open", "write"} => queue'[q] # <<>>
    BY <1>2, <2>5 DEF LookUp, TypeInv
  <2>7. UNCHANGED <<workspace, entries, manifest, runs, stage, about, payload, quiet>>
    BY <1>2 DEF LookUp
  <2>8. /\ captured' \in [Processes -> SUBSET Tools]
        /\ \A q \in Processes : ~quiet'[q] => captured'[q] = {}
    BY <1>2, <2>1 DEF LookUp, UpdateToolVersion, TypeInv
  <2> QED BY <2>2, <2>3, <2>4, <2>5, <2>6, <2>7, <2>8 DEF TypeInv
<1>3. ASSUME NEW p \in Processes, BeginTool(p) PROVE TypeInv'
  BY <1>3 DEF BeginTool, TypeInv
<1>4. ASSUME NEW p \in Processes, CollectStates(p) PROVE TypeInv'
  BY <1>4 DEF CollectStates, TypeInv
<1>5. ASSUME NEW p \in Processes, OpenEntry(p) PROVE TypeInv'
  BY <1>5 DEF OpenEntry, TypeInv
<1>6. ASSUME NEW p \in Processes, Stored(p), stage[p] \in {"open", "write"},
             DOMAIN entries' = Tools, quiet' \in [Processes -> BOOLEAN],
             captured' \in [Processes -> SUBSET Tools],
             \A q \in Processes : ~quiet'[q] => captured'[q] = {}
      PROVE  TypeInv'
  <2>1. queue' \in [Processes -> Seq(Tools)]
    BY <1>6 DEF Stored, TypeInv
  <2> QED BY <1>6, <2>1 DEF Stored, TypeInv
<1>7. ASSUME NEW p \in Processes, WriteEntry(p) PROVE TypeInv'
  <2>1. /\ DOMAIN entries' = Tools /\ quiet' \in [Processes -> BOOLEAN]
        /\ captured' \in [Processes -> SUBSET Tools] /\ Stored(p)
        /\ \A q \in Processes : ~quiet'[q] => captured'[q] = {}
    BY <1>7 DEF WriteEntry, TypeInv
  <2> QED BY <1>6, <1>7, <2>1 DEF WriteEntry
<1>8. ASSUME NEW p \in Processes, StoreFails(p) PROVE TypeInv'
  <2>0. Undisturbed \ {p} \in SUBSET Processes
    BY DEF Undisturbed
  <2>1. /\ DOMAIN entries' = Tools /\ quiet' \in [Processes -> BOOLEAN]
        /\ captured' \in [Processes -> SUBSET Tools] /\ Stored(p)
        /\ \A q \in Processes : ~quiet'[q] => captured'[q] = {}
    BY <1>8, <2>0, QuietOnlyMeans DEF StoreFails, TypeInv
  <2> QED BY <1>6, <1>8, <2>1 DEF StoreFails
<1>9. ASSUME NEW p \in Processes, OpenManifest(p) PROVE TypeInv'
  BY <1>9 DEF OpenManifest, Executing, Empty, TypeInv
<1>10. ASSUME NEW p \in Processes, WriteManifest(p) PROVE TypeInv'
  <2>1. manifest'.kind = "whole" => manifest'.payload \in [Tools -> Nat]
    BY <1>10 DEF WriteManifest, Written, Whole, Mixed, TypeInv
  <2> QED BY <1>10, <2>1 DEF WriteManifest, TypeInv
<1>11. ASSUME NEW p \in Processes, NothingToPersist(p) PROVE TypeInv'
  BY <1>11 DEF NothingToPersist, TypeInv
<1>12. ASSUME NEW p \in Processes, Leave(p) PROVE TypeInv'
  <2>1. versions' \in [Processes -> [Tools -> Nat]]
    BY <1>0, <1>12 DEF Leave, TypeInv
  <2>2. /\ quiet' \in [Processes -> BOOLEAN] /\ captured' \in [Processes -> SUBSET Tools]
        /\ \A q \in Processes : ~quiet'[q] => captured'[q] = {}
    <3>1. Undisturbed \ {p} \in SUBSET Processes
      BY DEF Undisturbed
    <3> QED BY <1>12, <3>1, QuietOnlyMeans DEF Leave
  <2> QED BY <1>12, <2>1, <2>2 DEF Leave, Fresh, TypeInv
<1>13. ASSUME NEW f \in Files, EditFile(f) PROVE TypeInv'
  <2>1. /\ quiet' \in [Processes -> BOOLEAN] /\ captured' \in [Processes -> SUBSET Tools]
        /\ \A q \in Processes : ~quiet'[q] => captured'[q] = {}
    BY <1>13, QuietOnlyMeans DEF EditFile
  <2>2. disk' \in [Files -> Nat] /\ clock' \in Nat
    BY <1>13 DEF EditFile, TypeInv
  <2> QED BY <1>13, <2>1, <2>2 DEF EditFile, TypeInv
<1>14. ASSUME NEW t \in Tools, UpgradeTool(t) PROVE TypeInv'
  BY <1>14, QuietOnlyMeans DEF UpgradeTool, TypeInv
<1>15. CASE UNCHANGED vars
  BY <1>15 DEF vars, TypeInv
<1> QED BY <1>1, <1>2, <1>3, <1>4, <1>5, <1>7, <1>8, <1>9, <1>10, <1>11, <1>12, <1>13,
           <1>14, <1>15
        DEF Next, ProcessStep, Exit, Killed, Rest
-----------------------------------------------------------------------------
(* Part 1: what an entry says of its files is what was found in them.      *)

Consistent ==
  /\ \A t \in Tools : entries[t].kind = "whole" =>
       entries[t].payload.about = entries[t].payload.states
  /\ \A p \in Processes :
       /\ stage[p] = "tool" => about[p] = FileStates(disk, FilesOf[Head(queue[p])])
       /\ stage[p] \in {"open", "write"} => payload[p].about = payload[p].states

LEMMA AnswersMeans ==
  ASSUME NEW t \in Tools
  PROVE  Answers(t) <=> /\ entries[t].kind = "whole"
                        /\ FileStates(disk, FilesOf[t]) = entries[t].payload.states
BY DEF Answers, Hit, Readable, StatesMatch

\* A write leaves the whole of its text or something that cannot be read.
LEMMA WrittenMeans ==
  ASSUME NEW content, NEW value, NEW text \in Written(content, value), text.kind = "whole"
  PROVE  text.payload = value
BY DEF Written, Whole, Mixed

LEMMA ConsistentStep == TypeInv /\ Consistent /\ [Next]_vars => Consistent'
<1> SUFFICES ASSUME TypeInv, Consistent, [Next]_vars PROVE Consistent'
  OBVIOUS
<1> USE DEF workspace, process, history
<1>1. ASSUME NEW p \in Processes, Start(p) PROVE Consistent'
  BY <1>1 DEF Start, Fresh, TypeInv, Consistent, FileStates
<1>2. ASSUME NEW p \in Processes, LookUp(p) PROVE Consistent'
  <2>1. UNCHANGED <<disk, entries, stage, about, payload>>
    BY <1>2 DEF LookUp
  <2>2. \A q \in Processes : stage[q] = "tool" => queue'[q] = queue[q]
    BY <1>2 DEF LookUp, Walking, TypeInv
  <2> QED BY <2>1, <2>2 DEF Consistent
<1>3. ASSUME NEW p \in Processes, BeginTool(p) PROVE Consistent'
  BY <1>3 DEF BeginTool, TypeInv, Consistent, FileStates
<1>4. ASSUME NEW p \in Processes, CollectStates(p) PROVE Consistent'
  BY <1>4 DEF CollectStates, TypeInv, Consistent, FileStates
<1>5. ASSUME NEW p \in Processes, OpenEntry(p) PROVE Consistent'
  BY <1>5 DEF OpenEntry, TypeInv, Consistent, FileStates, Empty
<1>6. ASSUME NEW p \in Processes, Stored(p),
             \A t \in Tools : entries'[t].kind = "whole" =>
               entries'[t].payload.about = entries'[t].payload.states
      PROVE  Consistent'
  BY <1>6 DEF Stored, TypeInv, Consistent, FileStates
<1>7. ASSUME NEW p \in Processes, WriteEntry(p) PROVE Consistent'
  <2> DEFINE t == Head(queue[p])
  <2>1. PICK content \in Written(entries[t], payload[p]) :
          entries' = [entries EXCEPT ![t] = content]
    BY <1>7 DEF WriteEntry
  <2>2. content.kind = "whole" => content.payload = payload[p]
    BY <2>1, WrittenMeans
  <2>3. payload[p].about = payload[p].states
    BY <1>7 DEF WriteEntry, Consistent
  <2>4. \A u \in Tools : entries'[u].kind = "whole" =>
          entries'[u].payload.about = entries'[u].payload.states
    BY <2>1, <2>2, <2>3 DEF TypeInv, Consistent
  <2> QED BY <1>6, <1>7, <2>4 DEF WriteEntry
<1>8. ASSUME NEW p \in Processes, StoreFails(p) PROVE Consistent'
  BY <1>6, <1>8 DEF StoreFails, Consistent
<1>9. ASSUME NEW p \in Processes, OpenManifest(p) PROVE Consistent'
  BY <1>9 DEF OpenManifest, TypeInv, Consistent, FileStates
<1>10. ASSUME NEW p \in Processes, WriteManifest(p) PROVE Consistent'
  BY <1>10 DEF WriteManifest, TypeInv, Consistent, FileStates
<1>11. ASSUME NEW p \in Processes, NothingToPersist(p) PROVE Consistent'
  BY <1>11 DEF NothingToPersist, TypeInv, Consistent, FileStates
<1>12. ASSUME NEW p \in Processes, Leave(p) PROVE Consistent'
  BY <1>12 DEF Leave, Fresh, TypeInv, Consistent, FileStates
<1>13. ASSUME NEW f \in Files, EditFile(f) PROVE Consistent'
  <2>1. \A fs : f \notin fs => FileStates(disk', fs) = FileStates(disk, fs)
    BY <1>13 DEF EditFile, FileStates, TypeInv
  <2> QED BY <1>13, <2>1 DEF EditFile, TypeInv, Consistent
<1>14. ASSUME NEW t \in Tools, UpgradeTool(t) PROVE Consistent'
  BY <1>14 DEF UpgradeTool, TypeInv, Consistent, FileStates
<1>15. CASE UNCHANGED vars
  BY <1>15 DEF vars, TypeInv, Consistent, FileStates
<1> QED BY <1>1, <1>2, <1>3, <1>4, <1>5, <1>7, <1>8, <1>9, <1>10, <1>11, <1>12, <1>13,
           <1>14, <1>15
        DEF Next, ProcessStep, Exit, Killed, Rest

\* However many processes write an entry, and wherever they die, what answers
\* was computed from the contents the files have now.
THEOREM CurrentAnswers == Spec => []AnswersAreCurrent
<1>1. Init => TypeInv /\ Consistent
  BY TypeInit DEF Init, Consistent, Missing
<1>2. TypeInv /\ Consistent /\ [Next]_vars => (TypeInv /\ Consistent)'
  BY TypeStep, ConsistentStep
<1>3. TypeInv /\ Consistent => AnswersAreCurrent
  BY AnswersMeans DEF Consistent, AnswersAreCurrent
<1> QED BY <1>1, <1>2, <1>3, PTL DEF Spec
-----------------------------------------------------------------------------
(* Part 2: a run that was alone and undisturbed.                           *)

Pending(p, t) == \E i \in 1..Len(queue[p]) : queue[p][i] = t
Visited(p) == {k \in 1..Len(PlanOf[p]) : k < next[p]}

\* What the run knows of itself and of the directory, wherever it is.
Orderly(p) ==
  /\ stage[p] # "idle"
  /\ \A q \in Processes : q # p => stage[q] = "idle"
  /\ \A k \in Visited(p) : Answers(PlanOf[p][k]) \/ Pending(p, PlanOf[p][k])
  /\ \A t \in captured[p] : versions[p][t] = installed[t]
  /\ stage[p] \in {"open", "write"} =>
       payload[p].states = FileStates(disk, FilesOf[Head(queue[p])])
  /\ stage[p] = "write" => entries[Head(queue[p])] = Empty
  /\ stage[p] \notin {"save", "done"} /\ ~dirty[p] => versions[p] = LoadVersions(manifest)
  /\ stage[p] = "save" => manifest = Empty
  /\ stage[p] \in {"save", "done"} => queue[p] = <<>> /\ next[p] > Len(PlanOf[p])
  /\ stage[p] = "done" => versions[p] = LoadVersions(manifest)

QuietInv == \A p \in Processes : quiet[p] => Orderly(p)

LEMMA QueueAppended ==
  ASSUME NEW S, NEW q \in Seq(S), NEW t \in S
  PROVE  /\ \A i \in 1..Len(q) : Append(q, t)[i] = q[i]
         /\ Len(Append(q, t)) = Len(q) + 1 /\ Append(q, t)[Len(q) + 1] = t
OBVIOUS

\* What was queued is the head of the queue, or still queued behind it.
LEMMA QueueTail ==
  ASSUME NEW S, NEW q \in Seq(S), q # <<>>, NEW i \in 1..Len(q)
  PROVE  q[i] = Head(q) \/ \E j \in 1..Len(Tail(q)) : Tail(q)[j] = q[i]
<1>1. CASE i = 1
  BY <1>1
<1>2. CASE i # 1
  <2>1. i - 1 \in 1..Len(Tail(q)) /\ Tail(q)[i - 1] = q[i]
    BY <1>2
  <2> QED BY <2>1
<1> QED BY <1>1, <1>2

\* The tools of a plan
LEMMA PlanTools == \A p \in Processes : \A k \in 1..Len(PlanOf[p]) : PlanOf[p][k] \in Tools
BY PlansAssumption

\* A step that leaves alone the directory, the queues and the walks.
LEMMA QuietKept ==
  ASSUME QuietInv, TypeInv,
         UNCHANGED <<workspace, entries, manifest, next, queue, versions, dirty, captured>>,
         NEW p \in Processes, quiet'[p] => quiet[p],
         quiet[p] => stage'[p] \in {"plan", "tool", "open"}
                     /\ stage[p] \notin {"save", "done"},
         quiet[p] => \A q \in Processes : q # p => stage'[q] = stage[q],
         quiet[p] /\ stage'[p] = "open" =>
           payload'[p].states = FileStates(disk, FilesOf[Head(queue[p])])
  PROVE  quiet'[p] => Orderly(p)'
BY PlanTools DEF QuietInv, Orderly, Visited, Pending, workspace, LoadVersions,
   Answers, Readable, Hit

LEMMA QuietStep == TypeInv /\ QuietInv /\ [Next]_vars => QuietInv'
<1> SUFFICES ASSUME TypeInv, QuietInv, [Next]_vars PROVE QuietInv'
  OBVIOUS
<1> USE DEF workspace, process, history
\* While one run is quiet no other process moves.
<1>0. ASSUME NEW p \in Processes, NEW q \in Processes, stage[p] # "idle", quiet[q]
      PROVE  q = p /\ Orderly(p)
  BY <1>0 DEF QuietInv, Orderly
<1>1. ASSUME NEW p \in Processes, Start(p) PROVE QuietInv'
  <2> SUFFICES ASSUME NEW q \in Processes, quiet'[q] PROVE Orderly(q)'
    BY DEF QuietInv
  <2>1. q = p /\ ~quiet[p] /\ \A r \in Processes : stage[r] = "idle"
    <3>1. q \in (IF \E r \in Processes : Active(r) THEN {} ELSE {p})
      BY <1>1, QuietOnlyMeans DEF Start
    <3> QED BY <1>1, <3>1 DEF Start, Active, QuietInv, Orderly
  <2>4. captured'[p] = {}
    BY <1>1, <2>1, QuietOnlyMeans DEF Start, TypeInv
  <2>2. Visited(p)' = {} /\ versions'[p] = LoadVersions(manifest)' /\ stage'[p] = "plan"
    BY <1>1 DEF Start, Fresh, TypeInv, Visited, LoadVersions
  <2>3. \A r \in Processes : r # p => stage'[r] = "idle"
    BY <1>1, <2>1 DEF Start, TypeInv
  <2> QED BY <2>1, <2>2, <2>3, <2>4 DEF Orderly
<1>2. ASSUME NEW p \in Processes, LookUp(p) PROVE QuietInv'
  <2> SUFFICES ASSUME NEW q \in Processes, quiet'[q] PROVE Orderly(q)'
    BY DEF QuietInv
  <2>0. PICK t \in Tools : t = Tool(p)
    BY <1>2, PlanTools DEF LookUp, Walking, Tool
  <2>1. /\ q = p /\ Orderly(p) /\ stage[p] = "plan"
        /\ next[p] \in 1..Len(PlanOf[p]) /\ t = PlanOf[p][next[p]]
    BY <1>0, <1>2, <2>0 DEF LookUp, Walking, Tool
  <2>2. /\ queue' = [queue EXCEPT ![p] = IF ~Answers(t) THEN Append(@, t) ELSE @]
        /\ next' = [next EXCEPT ![p] = @ + 1]
        /\ UpdateToolVersion(p, t)
        /\ UNCHANGED <<disk, installed, entries, manifest, stage>>
    BY <1>2, <2>0 DEF LookUp, MustRun
  <2>3. Visited(p)' = Visited(p) \cup {next[p]}
    <3>1. next'[p] = next[p] + 1 /\ next[p] \in Nat
      BY <2>2 DEF TypeInv
    <3> QED BY <2>1, <3>1 DEF Visited
  <2>4. \A u \in Tools : Answers(u)' <=> Answers(u)
    BY <2>2 DEF Answers, Hit, Readable
  <2>5. \A u \in Tools : Pending(p, u) => Pending(p, u)'
    <3> SUFFICES ASSUME NEW u \in Tools, NEW i \in 1..Len(queue[p]), queue[p][i] = u
                 PROVE  Pending(p, u)'
      BY DEF Pending
    <3>1. /\ queue[p] \in Seq(Tools)
          /\ queue'[p] = IF ~Answers(t) THEN Append(queue[p], t) ELSE queue[p]
      BY <2>2 DEF TypeInv
    <3>2. i \in 1..Len(queue'[p]) /\ queue'[p][i] = u
      BY <3>1, QueueAppended
    <3> QED BY <3>2 DEF Pending
  <2>6. ~Answers(t) => Pending(p, t)'
    <3> SUFFICES ASSUME ~Answers(t) PROVE Pending(p, t)'
      OBVIOUS
    <3>1. queue'[p] = Append(queue[p], t) /\ queue[p] \in Seq(Tools)
      BY <2>2 DEF TypeInv
    <3>2. Len(queue'[p]) \in 1..Len(queue'[p]) /\ queue'[p][Len(queue'[p])] = t
      BY <2>1, <3>1
    <3> QED BY <3>2 DEF Pending
  <2>7. \A k \in Visited(p)' : Answers(PlanOf[p][k])' \/ Pending(p, PlanOf[p][k])'
    BY <2>1, <2>3, <2>4, <2>5, <2>6, PlanTools DEF Orderly, Visited
  <2>8. PICK version \in {0, installed[t]} :
          /\ versions' = IF version = 0 THEN versions ELSE [versions EXCEPT ![p][t] = version]
          /\ dirty' = [dirty EXCEPT ![p] = @ \/ versions'[p][t] # versions[p][t]]
          /\ captured' = IF version = 0 \/ ~quiet[p] THEN captured
                         ELSE [captured EXCEPT ![p] = @ \cup {t}]
    BY <2>2 DEF UpdateToolVersion
  <2>9. \A u \in captured'[p] : versions'[p][u] = installed'[u]
    <3>1. captured[p] \subseteq Tools /\ \A u \in captured[p] : versions[p][u] = installed[u]
      BY <2>1 DEF Orderly, TypeInv
    <3>2. CASE version = 0
      BY <2>2, <2>8, <3>1, <3>2
    <3>3. CASE version # 0
      <4>1. /\ versions'[p][t] = installed[t]
            /\ \A u \in Tools : u # t => versions'[p][u] = versions[p][u]
        BY <2>8, <3>3 DEF TypeInv
      <4>2. captured'[p] \subseteq captured[p] \cup {t}
        BY <2>8, <3>3 DEF TypeInv
      <4> QED BY <2>2, <3>1, <4>1, <4>2
    <3> QED BY <3>2, <3>3
  <2>10. ~dirty'[p] => versions'[p] = LoadVersions(manifest)'
    <3> SUFFICES ASSUME ~dirty'[p] PROVE versions'[p] = LoadVersions(manifest)
      BY <2>2 DEF LoadVersions
    <3>1. ~dirty[p] /\ versions'[p][t] = versions[p][t]
      BY <2>8 DEF TypeInv
    <3>2. versions'[p] = versions[p]
      <4>1. CASE version = 0
        BY <2>8, <4>1
      <4>2. CASE version # 0
        <5>1. versions'[p] = [versions[p] EXCEPT ![t] = version] /\ versions[p] \in [Tools -> Nat]
          BY <2>8, <4>2 DEF TypeInv
        <5> QED BY <3>1, <5>1
      <4> QED BY <4>1, <4>2
    <3> QED BY <2>1, <3>1, <3>2 DEF Orderly
  <2> QED BY <2>1, <2>2, <2>7, <2>9, <2>10 DEF Orderly
<1>3. ASSUME NEW p \in Processes, BeginTool(p) PROVE QuietInv'
  <2> SUFFICES ASSUME NEW q \in Processes, quiet'[q] PROVE Orderly(q)'
    BY DEF QuietInv
  <2>1. q = p /\ quiet[p]
    BY <1>0, <1>3 DEF BeginTool, Executing
  <2> QED BY <1>3, <2>1, QuietKept DEF BeginTool, Executing, TypeInv
<1>4. ASSUME NEW p \in Processes, CollectStates(p) PROVE QuietInv'
  <2> SUFFICES ASSUME NEW q \in Processes, quiet'[q] PROVE Orderly(q)'
    BY DEF QuietInv
  <2>1. q = p /\ quiet[p]
    BY <1>0, <1>4 DEF CollectStates
  <2> QED BY <1>4, <2>1, QuietKept DEF CollectStates, TypeInv
<1>5. ASSUME NEW p \in Processes, OpenEntry(p) PROVE QuietInv'
  <2> SUFFICES ASSUME NEW q \in Processes, quiet'[q] PROVE Orderly(q)'
    BY DEF QuietInv
  <2> DEFINE t == Head(queue[p])
  <2>1. q = p /\ Orderly(p) /\ stage[p] = "open" /\ queue[p] \in Seq(Tools) /\ queue[p] # <<>>
    BY <1>0, <1>5 DEF OpenEntry, TypeInv
  <2>2. /\ stage' = [stage EXCEPT ![p] = "write"] /\ entries' = [entries EXCEPT ![t] = Empty]
        /\ UNCHANGED <<disk, installed, manifest, next, queue, versions, dirty, payload,
                       captured>>
    BY <1>5 DEF OpenEntry
  <2>3. t \in Tools /\ Pending(p, t)
    <3>1. 1 \in 1..Len(queue[p]) /\ queue[p][1] = t
      BY <2>1
    <3> QED BY <2>1, <3>1 DEF Pending
  <2>4. \A u \in Tools : u # t => (Answers(u)' <=> Answers(u))
    <3> HIDE DEF t
    <3>1. ASSUME NEW u \in Tools, u # t PROVE entries'[u] = entries[u]
      BY <2>2, <3>1 DEF TypeInv
    <3>2. \A u \in Tools :
            Answers(u)' <=> /\ entries'[u].kind = "whole"
                            /\ FileStates(disk', FilesOf[u]) = entries'[u].payload.states
      BY DEF Answers, Hit, Readable, StatesMatch
    <3> QED BY <2>2, <3>1, <3>2, AnswersMeans
  <2>5. \A u \in Tools : Pending(p, u)' <=> Pending(p, u)
    BY <2>2 DEF Pending
  <2>6. \A k \in Visited(p)' : Answers(PlanOf[p][k])' \/ Pending(p, PlanOf[p][k])'
    <3> HIDE DEF t
    <3> QED BY <2>1, <2>2, <2>3, <2>4, <2>5, PlanTools DEF Orderly, Visited
  <2>7. entries'[t] = Empty
    BY <2>2, <2>3 DEF TypeInv
  <2> QED BY <2>1, <2>2, <2>6, <2>7 DEF Orderly, Visited, LoadVersions, TypeInv
<1>6. ASSUME NEW p \in Processes, WriteEntry(p) PROVE QuietInv'
  <2> SUFFICES ASSUME NEW q \in Processes, quiet'[q] PROVE Orderly(q)'
    BY DEF QuietInv
  <2>1. q = p /\ Orderly(p) /\ stage[p] = "write" /\ queue[p] \in Seq(Tools) /\ queue[p] # <<>>
    BY <1>0, <1>6 DEF WriteEntry, TypeInv
  <2>2. PICK t \in Tools : t = Head(queue[p])
    BY <2>1
  <2>3. entries' = [entries EXCEPT ![t] = Whole(payload[p])]
    <3>1. PICK content \in Written(entries[t], payload[p]) :
            entries' = [entries EXCEPT ![t] = content]
      BY <1>6, <2>2 DEF WriteEntry
    <3>2. entries[t] = Empty
      BY <2>1, <2>2 DEF Orderly
    <3>3. content = Whole(payload[p])
      BY <3>1, <3>2 DEF Written, Empty
    <3> QED BY <3>1, <3>3
  <2>4. /\ stage' = [stage EXCEPT ![p] = "plan"] /\ queue' = [queue EXCEPT ![p] = Tail(@)]
        /\ UNCHANGED <<disk, installed, manifest, next, versions, dirty, captured>>
    BY <1>6 DEF WriteEntry, Stored
  <2>5. \A u \in Tools :
          Answers(u)' <=> /\ entries'[u].kind = "whole"
                          /\ FileStates(disk, FilesOf[u]) = entries'[u].payload.states
    BY <2>4 DEF Answers, Hit, Readable, StatesMatch
  <2>6. Answers(t)'
    <3>1. entries'[t] = Whole(payload[p])
      BY <2>2, <2>3 DEF TypeInv
    <3>2. payload[p].states = FileStates(disk, FilesOf[t])
      BY <2>1, <2>2 DEF Orderly
    <3> QED BY <2>2, <2>5, <3>1, <3>2 DEF Whole
  <2>7. \A u \in Tools : u # t /\ Answers(u) => Answers(u)'
    <3>1. ASSUME NEW u \in Tools, u # t PROVE entries'[u] = entries[u]
      BY <2>3, <3>1 DEF TypeInv
    <3> QED BY <2>5, <3>1, AnswersMeans
  <2>8. \A u \in Tools : Pending(p, u) => u = t \/ Pending(p, u)'
    <3> SUFFICES ASSUME NEW u \in Tools, NEW i \in 1..Len(queue[p]), queue[p][i] = u
                 PROVE  u = t \/ Pending(p, u)'
      BY DEF Pending
    <3>1. queue'[p] = Tail(queue[p])
      BY <2>4 DEF TypeInv
    <3> QED BY <2>1, <2>2, <3>1, QueueTail DEF Pending
  <2>9. \A k \in Visited(p)' : Answers(PlanOf[p][k])' \/ Pending(p, PlanOf[p][k])'
    <3> QED BY <2>1, <2>2, <2>4, <2>6, <2>7, <2>8, PlanTools DEF Orderly, Visited
  <2> QED BY <2>1, <2>4, <2>9 DEF Orderly, Visited, LoadVersions, TypeInv
<1>7. ASSUME NEW p \in Processes, StoreFails(p) PROVE QuietInv'
  <2>1. Undisturbed \ {p} \in SUBSET Processes
    BY DEF Undisturbed
  <2>2. \A q \in Processes : quiet'[q] => q \in Undisturbed \ {p}
    BY <1>7, <2>1, QuietOnlyMeans DEF StoreFails
  <2> QED BY <1>0, <1>7, <2>2 DEF StoreFails, QuietInv, Undisturbed
<1>8. ASSUME NEW p \in Processes, OpenManifest(p) PROVE QuietInv'
  <2> SUFFICES ASSUME NEW q \in Processes, quiet'[q] PROVE Orderly(q)'
    BY DEF QuietInv
  <2>1. q = p /\ Orderly(p)
    BY <1>0, <1>8 DEF OpenManifest, Executing
  <2>2. \A u \in Tools : Answers(u)' <=> Answers(u)
    BY <1>8 DEF OpenManifest, Answers, Hit, Readable
  <2> QED BY <1>8, <2>1, <2>2, PlanTools
          DEF OpenManifest, Executing, Orderly, Visited, Pending, TypeInv
<1>9. ASSUME NEW p \in Processes, WriteManifest(p) PROVE QuietInv'
  <2> SUFFICES ASSUME NEW q \in Processes, quiet'[q] PROVE Orderly(q)'
    BY DEF QuietInv
  <2>1. q = p /\ Orderly(p) /\ stage[p] = "save"
    BY <1>0, <1>9 DEF WriteManifest
  <2>2. manifest' = Whole(versions[p])
    BY <1>9, <2>1 DEF WriteManifest, Written, Orderly, Empty
  <2>3. LoadVersions(manifest)' = versions'[p]
    BY <1>9, <2>2 DEF WriteManifest, LoadVersions, Whole
  <2>4. \A u \in Tools : Answers(u)' <=> Answers(u)
    BY <1>9 DEF WriteManifest, Answers, Hit, Readable
  <2>5. /\ stage' = [stage EXCEPT ![p] = "done"]
        /\ UNCHANGED <<disk, installed, next, queue, versions, captured>>
    BY <1>9 DEF WriteManifest
  <2>6. \A k \in Visited(p)' : Answers(PlanOf[p][k])' \/ Pending(p, PlanOf[p][k])'
    BY <2>1, <2>4, <2>5, PlanTools DEF Orderly, Visited, Pending
  <2> QED BY <2>1, <2>3, <2>5, <2>6 DEF Orderly, Visited, TypeInv
<1>10. ASSUME NEW p \in Processes, NothingToPersist(p) PROVE QuietInv'
  <2> SUFFICES ASSUME NEW q \in Processes, quiet'[q] PROVE Orderly(q)'
    BY DEF QuietInv
  <2>1. q = p /\ Orderly(p) /\ LoadVersions(manifest)' = LoadVersions(manifest)
    BY <1>0, <1>10 DEF NothingToPersist, Executing, LoadVersions
  <2>2. \A u \in Tools : Answers(u)' <=> Answers(u)
    BY <1>10 DEF NothingToPersist, Answers, Hit, Readable
  <2> QED BY <1>10, <2>1, <2>2, PlanTools
          DEF NothingToPersist, Executing, Orderly, Visited, Pending, TypeInv
<1>11. ASSUME NEW p \in Processes, stage[p] # "idle", Leave(p) PROVE QuietInv'
  <2>1. Undisturbed \ {p} \in SUBSET Processes
    BY DEF Undisturbed
  <2>2. \A q \in Processes : quiet'[q] => q \in Undisturbed \ {p}
    BY <1>11, <2>1, QuietOnlyMeans DEF Leave
  <2> QED BY <1>0, <1>11, <2>2 DEF QuietInv, Undisturbed
<1>12. ASSUME NEW f \in Files, EditFile(f) PROVE QuietInv'
  BY <1>12, QuietOnlyMeans DEF EditFile, QuietInv
<1>13. ASSUME NEW t \in Tools, UpgradeTool(t) PROVE QuietInv'
  BY <1>13, QuietOnlyMeans DEF UpgradeTool, QuietInv
<1>14. CASE UNCHANGED vars
  <2>1. \A u \in Tools : Answers(u)' <=> Answers(u)
    BY <1>14 DEF vars, Answers, Hit, Readable
  <2> QED BY <1>14, <2>1, PlanTools
          DEF vars, QuietInv, Orderly, Visited, Pending, LoadVersions
<1> QED BY <1>1, <1>2, <1>3, <1>4, <1>5, <1>6, <1>7, <1>8, <1>9, <1>10, <1>11, <1>12, <1>13,
           <1>14
        DEF Next, ProcessStep, Exit, Killed, Rest

THEOREM QuietRuns == Spec => [](TypeInv /\ QuietInv)
<1>1. Init => TypeInv /\ QuietInv
  BY TypeInit DEF Init, QuietInv
<1>2. TypeInv /\ QuietInv /\ [Next]_vars => (TypeInv /\ QuietInv)'
  BY TypeStep, QuietStep
<1> QED BY <1>1, <1>2, PTL DEF Spec

\* A run that nobody disturbs leaves each of its actions answerable, whatever it
\* found in the directory.
THEOREM EntriesRepaired == Spec => []QuietRunRepairsEntries
<1>1. TypeInv /\ QuietInv => QuietRunRepairsEntries
  <2> SUFFICES ASSUME TypeInv, QuietInv, NEW p \in Processes, stage[p] = "done", quiet[p],
                      NEW k \in 1..Len(PlanOf[p])
               PROVE  Answers(PlanOf[p][k])
    BY DEF QuietRunRepairsEntries
  <2>1. Orderly(p)
    BY DEF QuietInv
  <2>2. k \in Visited(p) /\ queue[p] = <<>>
    BY <2>1, PlansAssumption DEF Orderly, Visited, TypeInv
  <2>3. ~Pending(p, PlanOf[p][k])
    BY <2>2 DEF Pending
  <2> QED BY <2>1, <2>2, <2>3 DEF Orderly
<1> QED BY <1>1, QuietRuns, PTL

\* It also leaves a manifest with the installed version of each tool whose version
\* it could determine, whatever the manifest said before, or if it said nothing.
THEOREM ManifestRepaired == Spec => []QuietRunRepairsManifest
<1>1. TypeInv /\ QuietInv => QuietRunRepairsManifest
  BY DEF QuietInv, Orderly, QuietRunRepairsManifest
<1> QED BY <1>1, QuietRuns, PTL
=============================================================================
