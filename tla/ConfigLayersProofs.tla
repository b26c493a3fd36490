-------------------------- MODULE ConfigLayersProofs --------------------------
(***************************************************************************)
(* Proofs about ConfigLayers, for every number of sources, any files that  *)
(* include each other, any fields and any command line.                    *)
(***************************************************************************)
EXTENDS ConfigLayers, ListTheorems

Documents == UNION {Contents[file] : file \in Files}
Values == UNION {{d.fields[f] : f \in DOMAIN d.fields} : d \in Documents}
Fragments == UNION {[D -> Values] : D \in SUBSET Fields}

Activations == [file : Files, todo : Seq(Files), merged : Fragments]
Records == [source : DOMAIN Sources, file : Files, fields : Fragments]

TypeOK ==
  /\ disk \in [Files -> Documents]
  /\ \A file \in Files : disk[file] \in Contents[file]
  /\ cli \in CommandLines
  /\ source \in 1..(Len(Sources) + 1)
  /\ stack \in Seq(Activations)
  /\ stack # <<>> => source <= Len(Sources)
  /\ config = [f \in Fields |-> config[f]]
  /\ loaded \in Seq(Records)
  /\ IsList(trace)

(* Reading: what the stack and the documents merged have to do with each   *)
(* other and with the files.                                               *)

\* Each file on the stack is included by the one below, and what is left to
\* include are includes.
Nested ==
  /\ \A i \in DOMAIN stack : \A k \in DOMAIN stack[i].todo :
       Contains(disk[stack[i].file].includes, stack[i].todo[k])
  /\ \A i \in 1..(Len(stack) - 1) :
       Contains(disk[stack[i].file].includes, stack[i + 1].file)
  /\ cause = "circular" => stage = "failed"
  /\ CircularMeansCycle

\* The documents come source by source.
InOrder ==
  /\ \A i \in DOMAIN loaded :
       loaded[i].fields = disk[loaded[i].file].fields /\ loaded[i].source <= source
  /\ \A i, j \in DOMAIN loaded : i <= j => loaded[i].source <= loaded[j].source
  /\ stack = <<>> => \A i \in DOMAIN loaded : loaded[i].source < source
  /\ stage \in {"cli", "preset", "shared", "done"} => source = Len(Sources) + 1

\* The files on the stack that have a value for the field, their own or included
Holding(f) == {i \in DOMAIN stack : f \in DOMAIN stack[i].merged}

\* The innermost value on the stack is the one of the last document merged.
StackCarries ==
  stage = "load" => \A f \in Fields :
    /\ Setting(f, source) = {} <=> Holding(f) = {}
    /\ Setting(f, source) # {} =>
         stack[Latest(Holding(f))].merged[f] = loaded[Latest(Setting(f, source))].fields[f]

(* Merging: what the configuration has of the documents merged so far.     *)

Prior(f) ==
  {i \in DOMAIN loaded : f \in DOMAIN loaded[i].fields /\ loaded[i].source < source}

ConfigCarries ==
  stage = "load" => \A f \in Of(ReplacedKinds) :
    config[f] = IF Prior(f) = {} THEN Defaults[f] ELSE loaded[Latest(Prior(f))].fields[f]

ListsCarry ==
  stage \in {"load", "cli"} => \A f \in Of({"append"}) :
    /\ IsList(config[f]) /\ IsInjective(config[f])
    /\ \A s \in DOMAIN Sources : s < source /\ Setting(f, s) # {} =>
         ToSet(loaded[Latest(Setting(f, s))].fields[f]) \subseteq ToSet(config[f])

\* A source after that of document i, and before the one being read, says
\* something.
SaidBetween(i) ==
  \E j \in DOMAIN loaded :
    /\ loaded[i].source < loaded[j].source /\ loaded[j].source < source
    /\ DOMAIN loaded[j].fields # {}

\* The roots that the documents merged so far make, the last of which that sets
\* them being i
RootsFrom(i) ==
  IF loaded[i].fields["roots"] = <<>> /\ SaidBetween(i) THEN <<ProjectRoot>>
  ELSE Appended(<<>>, loaded[i].fields["roots"])

RootsCarry ==
  stage \in {"load", "cli"} =>
    /\ Prior("roots") = {} => config["roots"] = Defaults["roots"]
    /\ Prior("roots") # {} =>
         /\ IsList(loaded[Latest(Prior("roots"))].fields["roots"])
         /\ config["roots"] = RootsFrom(Latest(Prior("roots")))

TraceCarries ==
  stage \in {"load", "cli"} => \A f \in Fields : config[f] = Replayed(f)

(* The command line and the preset                                         *)

GivenHolds ==
  stage \in {"preset", "shared", "done"} =>
    \A f \in DOMAIN cli.given :
      IF Kind[f] \in ListKinds THEN ToSet(cli.given[f]) \subseteq ToSet(config[f])
      ELSE \/ config[f] = cli.given[f]
           \/ f = "jobs" /\ config["bail"] = "true"
           \/ Kind[f] = "shown" /\ config["quiet"] = "true"

QuietHolds ==
  stage \in {"preset", "shared", "done"} /\ config["quiet"] = "true" =>
    \A f \in Of({"shown"}) : config[f] = "false"

ToolsHold ==
  stage \in {"cli", "preset", "shared", "done"} =>
    \A f \in Of({"tool"}) \ MypyStrict :
      SettingAny(f) # {} =>
        /\ config[f] # Absent
        /\ \/ config[f] = WasSet(f, Absent)
           \/ /\ stage \in {"shared", "done"}
              /\ Overridable(f) /\ WasSet(f, Absent) \in Falsy
              /\ config[f] = PresetTools[Level][f]
-----------------------------------------------------------------------------
(* Lists and indices                                                       *)

\* The latest of a set of indices is one of them, and the greatest.
LEMMA LatestOf ==
  ASSUME NEW n \in Nat, NEW S, S \subseteq 1..n, S # {}
  PROVE  Latest(S) \in S /\ \A j \in S : j <= Latest(S)
<1>1. \E i \in S : \A j \in S : j <= i
  BY GreatestIndex
<1> QED BY <1>1 DEF Latest

LEMMA LatestIs ==
  ASSUME NEW S, S \subseteq Nat, NEW i \in S, \A j \in S : j <= i
  PROVE  Latest(S) = i
<1>1. \A k \in S : (\A j \in S : j <= k) => k = i
  BY SMT
<1>2. Latest(S) \in S /\ \A j \in S : j <= Latest(S)
  BY DEF Latest
<1> QED BY <1>1, <1>2

-----------------------------------------------------------------------------
(* Types                                                                   *)

\* What is in a file that is there
LEMMA DocumentIs ==
  ASSUME TypeOK, NEW file \in Files
  PROVE  /\ disk[file].includes \in Seq(Files) /\ disk[file].fields \in Fragments
         /\ DOMAIN disk[file].fields \subseteq Fields
         /\ \A f \in DOMAIN disk[file].fields :
              /\ disk[file].fields[f] # Absent
              /\ Kind[f] \in ListKinds =>
                   disk[file].fields[f] = "invalid" \/ IsList(disk[file].fields[f])
<1> DEFINE d == disk[file]
<1>1. d \in Contents[file] /\ d \in Documents
  BY DEF TypeOK, Documents
<1> HIDE DEF d
<1>2. /\ d.includes \in Seq(Files) /\ DOMAIN d.fields \subseteq Fields
      /\ d.fields = [f \in DOMAIN d.fields |-> d.fields[f]]
      /\ \A f \in DOMAIN d.fields : d.fields[f] # Absent
      /\ \A f \in DOMAIN d.fields : Kind[f] \in ListKinds =>
           d.fields[f] = "invalid" \/ IsList(d.fields[f])
  BY <1>1, FilesAssumption DEF Of
<1>3. \A f \in DOMAIN d.fields : d.fields[f] \in Values
  BY <1>1 DEF Values
<1>4. d.fields \in [DOMAIN d.fields -> Values]
  BY <1>2, <1>3
<1>5. d.fields \in Fragments
  BY <1>2, <1>4 DEF Fragments
<1> QED BY <1>2, <1>5 DEF d

\* A mapping laid over another has the fields of both.
LEMMA OverlaidIs ==
  ASSUME NEW base \in Fragments, NEW over \in Fragments
  PROVE  /\ Overlaid(base, over) \in Fragments
         /\ DOMAIN Overlaid(base, over) = DOMAIN base \union DOMAIN over
         /\ \A f \in DOMAIN over : Overlaid(base, over)[f] = over[f]
         /\ \A f \in DOMAIN base \ DOMAIN over : Overlaid(base, over)[f] = base[f]
<1> DEFINE D == DOMAIN base \union DOMAIN over
<1>1. /\ base \in [DOMAIN base -> Values] /\ DOMAIN base \subseteq Fields
      /\ over \in [DOMAIN over -> Values] /\ DOMAIN over \subseteq Fields
  BY DEF Fragments
<1>2. Overlaid(base, over) \in [D -> Values]
  BY <1>1 DEF Overlaid
<1>3. Overlaid(base, over) \in Fragments
  BY <1>1, <1>2 DEF Fragments
<1> QED BY <1>3 DEF Overlaid

\* The file on top of the stack
LEMMA TopIs ==
  ASSUME TypeOK, stack # <<>>
  PROVE  /\ Len(stack) \in Nat /\ Len(stack) \in DOMAIN stack /\ DOMAIN stack = 1..Len(stack)
         /\ Top \in Activations /\ Top.file \in Files /\ Top.merged \in Fragments
         /\ source \in DOMAIN Sources
<1>1. Len(stack) \in Nat \ {0} /\ DOMAIN stack = 1..Len(stack)
  BY EmptySeq, LenProperties DEF TypeOK
<1>2. Top \in Activations
  BY <1>1, ElementOfSeq DEF TypeOK, Top
<1>3. source \in DOMAIN Sources
  BY FilesAssumption, LenProperties DEF TypeOK
<1> QED BY <1>1, <1>2, <1>3 DEF Activations

\* The document of the file on top, with what it includes, and its record
LEMMA DocumentType ==
  ASSUME TypeOK, stack # <<>>
  PROVE  /\ Document \in Fragments /\ Recorded \in Seq(Records)
         /\ DOMAIN Document = DOMAIN Top.merged \union DOMAIN disk[Top.file].fields
         /\ \A f \in DOMAIN disk[Top.file].fields : Document[f] = disk[Top.file].fields[f]
         /\ \A f \in DOMAIN Top.merged \ DOMAIN disk[Top.file].fields :
              Document[f] = Top.merged[f]
<1>1. disk[Top.file].fields \in Fragments /\ Top.merged \in Fragments
      /\ source \in DOMAIN Sources /\ Top.file \in Files
  BY TopIs, DocumentIs
<1>2. [source |-> source, file |-> Top.file, fields |-> disk[Top.file].fields] \in Records
  BY <1>1 DEF Records
<1>3. Recorded \in Seq(Records)
  BY <1>2, AppendProperties DEF Recorded, TypeOK
<1> QED BY <1>1, <1>3, OverlaidIs DEF Document

\* A file that is pushed
LEMMA ActivationType ==
  ASSUME TypeOK, NEW file \in Files
  PROVE  Activation(file) \in Activations
<1>1. Empty \in Fragments
  <2>1. Empty \in [{} -> Values]
    BY DEF Empty
  <2> QED BY <2>1 DEF Fragments
<1> QED BY <1>1, DocumentIs DEF Activation, Activations

LEMMA TypesInit == Init => TypeOK
<1> SUFFICES ASSUME Init PROVE TypeOK
  OBVIOUS
<1>1. disk \in [Files -> Documents] /\ \A file \in Files : disk[file] \in Contents[file]
  BY DEF Init, Documents
<1>2. Len(Sources) \in Nat
  BY FilesAssumption, LenProperties
<1>3. <<>> \in Seq(Activations) /\ <<>> \in Seq(Records) /\ <<>> \in Seq(ToSet(<<>>))
  BY EmptySeq
<1> QED BY <1>1, <1>2, <1>3, DefaultsAssumption DEF Init, TypeOK, IsList

\* The top of the stack after one of its includes was taken
LEMMA IncludeStack ==
  ASSUME TypeOK, stack # <<>>, Top.todo # <<>>
  PROVE  LET rest == [stack EXCEPT ![Len(stack)].todo = Tail(@)] IN
         /\ Head(Top.todo) \in Files /\ Head(Top.todo) = Top.todo[1]
         /\ rest \in Seq(Activations) /\ Len(rest) = Len(stack)
         /\ DOMAIN rest = DOMAIN stack
         /\ \A i \in DOMAIN stack :
              /\ rest[i].file = stack[i].file /\ rest[i].merged = stack[i].merged
              /\ \A k \in DOMAIN rest[i].todo : \E l \in DOMAIN stack[i].todo :
                   rest[i].todo[k] = stack[i].todo[l]
<1> DEFINE n == Len(stack)
           top == [Top EXCEPT !.todo = Tail(@)]
           rest == [stack EXCEPT ![Len(stack)].todo = Tail(@)]
<1>1. /\ n \in Nat /\ n \in DOMAIN stack /\ DOMAIN stack = 1..n /\ Top \in Activations
      /\ stack \in Seq(Activations)
  BY TopIs DEF TypeOK
<1>2. Top.todo \in Seq(Files)
  BY <1>1 DEF Activations
<1>3. /\ Head(Top.todo) \in Files /\ Tail(Top.todo) \in Seq(Files)
      /\ Len(Tail(Top.todo)) = Len(Top.todo) - 1 /\ Head(Top.todo) = Top.todo[1]
      /\ \A k \in 1..Len(Tail(Top.todo)) : Tail(Top.todo)[k] = Top.todo[k + 1]
  BY <1>2, HeadTailProperties
<1>4. top \in Activations /\ top.file = Top.file /\ top.merged = Top.merged
      /\ top.todo = Tail(Top.todo)
  BY <1>1, <1>3 DEF Activations
<1>5. \A k \in DOMAIN top.todo : \E l \in DOMAIN Top.todo : top.todo[k] = Top.todo[l]
  <2>1. DOMAIN Tail(Top.todo) = 1..Len(Tail(Top.todo)) /\ DOMAIN Top.todo = 1..Len(Top.todo)
        /\ Len(Top.todo) \in Nat
    BY <1>2, <1>3, LenProperties
  <2>2. \A k \in DOMAIN Tail(Top.todo) : k + 1 \in DOMAIN Top.todo
    BY <2>1, <1>3
  <2> QED BY <2>1, <2>2, <1>3, <1>4
<1>6. rest = [stack EXCEPT ![n] = top]
  BY <1>1 DEF Top
<1> HIDE DEF top, rest
<1>7. /\ rest \in Seq(Activations) /\ Len(rest) = n
      /\ \A i \in 1..n : rest[i] = IF i = n THEN top ELSE stack[i]
  BY <1>1, <1>4, <1>6, ExceptSeq
<1>8. DOMAIN rest = 1..n
  BY <1>7, LenProperties
<1>9. \A i \in DOMAIN stack :
        /\ rest[i].file = stack[i].file /\ rest[i].merged = stack[i].merged
        /\ \A k \in DOMAIN rest[i].todo : \E l \in DOMAIN stack[i].todo :
             rest[i].todo[k] = stack[i].todo[l]
  <2>1. ASSUME NEW i \in DOMAIN stack, i # n PROVE rest[i] = stack[i]
    BY <2>1, <1>1, <1>7
  <2>2. rest[n] = top /\ stack[n] = Top
    BY <1>1, <1>7 DEF Top
  <2>3. TAKE i \in DOMAIN stack
  <2>4. CASE i = n
    BY <2>2, <2>4, <1>4, <1>5
  <2>5. CASE i # n
    BY <2>1, <2>5
  <2> QED BY <2>4, <2>5
<1> QED BY <1>1, <1>3, <1>7, <1>8, <1>9 DEF rest

\* The stack after an included file was closed
LEMMA CloseStack ==
  ASSUME TypeOK, Len(stack) > 1
  PROVE  LET n == Len(stack)
             below == [SubSeq(stack, 1, n - 1) EXCEPT ![n - 1].merged = Overlaid(@, Document)]
         IN
         /\ below \in Seq(Activations) /\ Len(below) = n - 1 /\ DOMAIN below = 1..(n - 1)
         /\ \A i \in 1..(n - 1) : below[i].file = stack[i].file /\ below[i].todo = stack[i].todo
         /\ \A i \in 1..(n - 2) : below[i].merged = stack[i].merged
         /\ below[n - 1].merged = Overlaid(stack[n - 1].merged, Document)
<1> DEFINE n == Len(stack)
           front == SubSeq(stack, 1, n - 1)
           top == [stack[n - 1] EXCEPT !.merged = Overlaid(@, Document)]
           below == [front EXCEPT ![n - 1].merged = Overlaid(@, Document)]
<1>1. stack \in Seq(Activations) /\ n \in Nat /\ n > 1 /\ stack # <<>>
      /\ \A i \in 1..n : stack[i] \in Activations
  BY LenProperties, EmptySeq DEF TypeOK
<1>2. /\ front \in Seq(Activations) /\ Len(front) = n - 1
      /\ \A i \in 1..(n - 1) : front[i] = stack[i]
  <2>1. 1 \in Int /\ n - 1 \in Int /\ \A i \in 1..(n - 1) : stack[i] \in Activations
    BY <1>1
  <2> HIDE DEF n
  <2> QED BY <2>1, <1>1, SubSeqProperties
<1>3. Document \in Fragments /\ stack[n - 1] \in Activations
  BY <1>1, DocumentType
<1>4. /\ top \in Activations /\ top.file = stack[n - 1].file /\ top.todo = stack[n - 1].todo
      /\ top.merged = Overlaid(stack[n - 1].merged, Document)
  <2>1. stack[n - 1].merged \in Fragments
    BY <1>3 DEF Activations
  <2>2. Overlaid(stack[n - 1].merged, Document) \in Fragments
    BY <2>1, <1>3, OverlaidIs
  <2> QED BY <2>2, <1>3 DEF Activations
<1> HIDE DEF front
<1>5. below = [front EXCEPT ![n - 1] = top]
  <2>1. front[n - 1] = stack[n - 1]
    BY <1>1, <1>2
  <2> HIDE DEF n
  <2> QED BY <2>1
<1> HIDE DEF top, below
<1>6. /\ below \in Seq(Activations) /\ Len(below) = n - 1
      /\ \A i \in 1..(n - 1) : below[i] = IF i = n - 1 THEN top ELSE front[i]
  BY <1>1, <1>2, <1>4, <1>5, ExceptSeq
<1>7. DOMAIN below = 1..(n - 1)
  BY <1>6, LenProperties
<1>8. /\ below[n - 1] = top
      /\ \A i \in 1..(n - 1) : i # n - 1 => below[i] = stack[i]
  BY <1>1, <1>2, <1>6
<1>9. \A i \in 1..(n - 1) : below[i].file = stack[i].file /\ below[i].todo = stack[i].todo
  BY <1>4, <1>8
<1>10. \A i \in 1..(n - 2) : below[i].merged = stack[i].merged
  <2>1. \A i \in 1..(n - 2) : i \in 1..(n - 1) /\ i # n - 1
    BY <1>1
  <2> QED BY <2>1, <1>8
<1> QED BY <1>4, <1>6, <1>7, <1>8, <1>9, <1>10 DEF below, front

\* Pushing a file onto a stack
LEMMA PushStack ==
  ASSUME TypeOK, NEW file \in Files, NEW rest \in Seq(Activations)
  PROVE  LET pushed == Append(rest, Activation(file)) IN
         /\ pushed \in Seq(Activations) /\ Len(pushed) = Len(rest) + 1
         /\ DOMAIN pushed = 1..(Len(rest) + 1)
         /\ \A i \in 1..Len(rest) : pushed[i] = rest[i]
         /\ pushed[Len(rest) + 1] = Activation(file)
<1> DEFINE pushed == Append(rest, Activation(file))
<1>1. Activation(file) \in Activations
  BY ActivationType
<1>2. /\ pushed \in Seq(Activations) /\ Len(pushed) = Len(rest) + 1
      /\ \A i \in 1..Len(rest) : pushed[i] = rest[i]
      /\ pushed[Len(rest) + 1] = Activation(file)
  <2> HIDE DEF Activation
  <2> QED BY <1>1, AppendProperties
<1> HIDE DEF pushed
<1>3. DOMAIN pushed = 1..Len(pushed)
  BY <1>2, LenProperties
<1> QED BY <1>2, <1>3 DEF pushed

\* A source's own file alone on the stack
LEMMA OneStack ==
  ASSUME TypeOK, NEW file \in Files
  PROVE  LET stack1 == <<Activation(file)>> IN
         /\ stack1 \in Seq(Activations) /\ Len(stack1) = 1 /\ DOMAIN stack1 = {1}
         /\ stack1[1] = Activation(file)
<1>1. Activation(file) \in Activations
  BY ActivationType
<1> QED BY <1>1

LEMMA TracedIsList ==
  ASSUME IsList(trace), NEW name, NEW changed, NEW new
  PROVE  IsList(Traced(name, changed, new))
BY ListAppend DEF Traced

LEMMA TypesStep == TypeOK /\ [Next]_vars => TypeOK'
<1> SUFFICES ASSUME TypeOK, [Next]_vars PROVE TypeOK'
  OBVIOUS
<1>1. CASE OpenSource
  <2>1. UNCHANGED <<disk, cli, config, trace, loaded>>
        /\ stack = <<>> /\ source \in 1..Len(Sources) /\ Len(Sources) \in Nat
        /\ Sources[source] \in Files
    BY <1>1, FilesAssumption, LenProperties DEF OpenSource, Loading, TypeOK
  <2>2. source' \in 1..(Len(Sources) + 1) /\ stack' \in Seq(Activations)
        /\ (stack' # <<>> => source' <= Len(Sources))
    <3>1. CASE disk[Sources[source]] = Missing
      BY <1>1, <2>1, <3>1 DEF OpenSource, TypeOK
    <3>2. CASE disk[Sources[source]] # Missing
      <4>1. source' = source /\ stack' = <<Activation(Sources[source])>>
        BY <1>1, <3>2 DEF OpenSource
      <4>2. stack' \in Seq(Activations)
        BY <2>1, <4>1, OneStack
      <4> QED BY <2>1, <4>1, <4>2
    <3> QED BY <3>1, <3>2
  <2> QED BY <2>1, <2>2 DEF TypeOK
<1>2. CASE Include
  <2> DEFINE rest == [stack EXCEPT ![Len(stack)].todo = Tail(@)]
             file == Head(Top.todo)
  <2>1. stack # <<>> /\ Top.todo # <<>> /\ UNCHANGED <<disk, cli, config, trace, loaded, source>>
    BY <1>2 DEF Include, Loading
  <2>2. rest \in Seq(Activations) /\ file \in Files
    BY <2>1, IncludeStack
  <2>3. stack' \in {stack, rest, Append(rest, Activation(file))}
    BY <1>2 DEF Include
  <2> HIDE DEF rest, file
  <2>4. stack' \in Seq(Activations)
    <3>1. Append(rest, Activation(file)) \in Seq(Activations)
      BY <2>2, PushStack
    <3> QED BY <2>2, <2>3, <3>1 DEF TypeOK
  <2> QED BY <2>1, <2>4 DEF TypeOK
<1>3. CASE CloseInclude
  <2>1. Len(stack) > 1 /\ UNCHANGED <<disk, cli, config, trace, source>>
        /\ loaded' = Recorded /\ stack # <<>>
    BY <1>3, EmptySeq DEF CloseInclude, Loading
  <2>2. stack' \in Seq(Activations)
    BY <1>3, <2>1, CloseStack DEF CloseInclude
  <2>3. loaded' \in Seq(Records)
    BY <2>1, DocumentType
  <2> QED BY <2>1, <2>2, <2>3 DEF TypeOK
<1>4. CASE CloseSource
  <2>1. stack # <<>> /\ UNCHANGED <<disk, cli>> /\ loaded' \in Seq(Records)
    BY <1>4, EmptySeq, DocumentType DEF CloseSource
  <2>2. source \in 1..Len(Sources) /\ Len(Sources) \in Nat
    BY <2>1, FilesAssumption, LenProperties DEF TypeOK
  <2>3. CASE Invalid(Document)
    BY <1>4, <2>1, <2>3 DEF CloseSource, TypeOK
  <2>4. CASE ~Invalid(Document)
    <3>1. /\ config' = MergedConfig(Document) /\ source' = source + 1 /\ stack' = <<>>
          /\ trace' = Traced(Sources[source], Changed(Document, config'), config')
      BY <1>4, <2>4 DEF CloseSource
    <3>2. config' = [f \in Fields |-> config'[f]]
      BY <3>1 DEF MergedConfig
    <3>3. IsList(trace')
      BY <3>1, TracedIsList DEF TypeOK
    <3>4. <<>> \in Seq(Activations)
      BY EmptySeq
    <3> QED BY <2>1, <2>2, <3>1, <3>2, <3>3, <3>4 DEF TypeOK
  <2> QED BY <2>3, <2>4
<1>5. CASE Discover
  <2> DEFINE found == {f \in DOMAIN Discovered : config[f] = Absent}
  <2>1. /\ UNCHANGED <<disk, cli, source, stack, loaded>>
        /\ config' = [f \in Fields |-> IF f \in found THEN Discovered[f] ELSE config[f]]
        /\ trace' = Traced("auto", found, config')
    BY <1>5 DEF Discover
  <2>2. config' = [f \in Fields |-> config'[f]] /\ IsList(trace')
    BY <2>1, TracedIsList DEF TypeOK
  <2> QED BY <2>1, <2>2 DEF TypeOK
<1>6. ASSUME UNCHANGED <<disk, cli, source, stack, trace, loaded>>,
             config' = [f \in Fields |-> config'[f]]
      PROVE  TypeOK'
  BY <1>6 DEF TypeOK
<1>7. CommandLine => config' = [f \in Fields |-> config'[f]]
  BY DEF CommandLine
<1>8. Preset => config' = [f \in Fields |-> config'[f]]
  BY DEF Preset
<1>9. SharedDefaults => config' = [f \in Fields |-> config'[f]]
  BY DEF SharedDefaults
<1>10. CASE UNCHANGED vars
  BY <1>10 DEF vars, TypeOK
<1> QED BY <1>1, <1>2, <1>3, <1>4, <1>5, <1>6, <1>7, <1>8, <1>9, <1>10
        DEF Next, Stop, CommandLine, Preset, SharedDefaults

\* Every reachable state has the types, for every number of sources and files.
THEOREM TypesHold == Spec => []TypeOK
BY TypesInit, TypesStep, PTL DEF Spec
-----------------------------------------------------------------------------
(* Includes                                                                *)

\* The includes of a file are among its includes.
LEMMA TodoOfActivation ==
  ASSUME TypeOK, NEW file \in Files
  PROVE  \A k \in DOMAIN Activation(file).todo :
           Contains(disk[file].includes, Activation(file).todo[k])
<1>1. disk[file].includes \in Seq(Files)
  BY DocumentIs
<1>2. DOMAIN disk[file].includes = 1..Len(disk[file].includes)
  BY <1>1, LenProperties
<1> QED BY <1>2 DEF Activation, Contains

LEMMA NestedInit == Init => Nested
<1> SUFFICES ASSUME Init PROVE Nested
  OBVIOUS
<1>1. DOMAIN stack = {} /\ Len(stack) = 0 /\ cause = "none"
  BY DEF Init
<1> QED BY <1>1 DEF Nested, CircularMeansCycle

LEMMA NestedStep == TypeOK /\ Nested /\ [Next]_vars => Nested'
<1> SUFFICES ASSUME TypeOK, Nested, [Next]_vars PROVE Nested'
  OBVIOUS
<1> DEFINE Within(s) ==
             /\ \A i \in DOMAIN s : \A k \in DOMAIN s[i].todo :
                  Contains(disk[s[i].file].includes, s[i].todo[k])
             /\ \A i \in 1..(Len(s) - 1) : Contains(disk[s[i].file].includes, s[i + 1].file)
<1>1. Within(stack) /\ Within(<<>>)
  BY DEF Nested
<1>2. disk' = disk /\ Within(stack') /\ cause' # "circular" => Nested'
  BY DEF Nested, CircularMeansCycle
<1>3. stage # "failed" => cause # "circular"
  BY DEF Nested
<1>4. CASE OpenSource
  <2>1. disk' = disk /\ cause' # "circular"
    BY <1>3, <1>4 DEF OpenSource, Loading
  <2>2. CASE stack' = stack
    BY <1>1, <1>2, <2>1, <2>2
  <2>3. CASE stack' = <<Activation(Sources[source])>>
    <3>1. Sources[source] \in Files
      BY <1>4, FilesAssumption, LenProperties DEF OpenSource, TypeOK
    <3>2. DOMAIN stack' = {1} /\ Len(stack') = 1 /\ stack'[1] = Activation(Sources[source])
      BY <2>3, <3>1, OneStack
    <3>3. Activation(Sources[source]).file = Sources[source]
      BY DEF Activation
    <3>4. Within(stack')
      BY <3>1, <3>2, <3>3, TodoOfActivation
    <3> QED BY <1>2, <2>1, <3>4
  <2> QED BY <1>4, <2>2, <2>3 DEF OpenSource
<1>5. CASE Include
  <2> DEFINE n == Len(stack)
             rest == [stack EXCEPT ![Len(stack)].todo = Tail(@)]
             file == Head(Top.todo)
  <2>1. /\ stack # <<>> /\ Top.todo # <<>> /\ disk' = disk /\ cause # "circular"
        /\ n \in Nat /\ n \in DOMAIN stack /\ DOMAIN stack = 1..n /\ Top \in Activations
    BY <1>3, <1>5, TopIs DEF Include, Loading
  <2>2. /\ file \in Files /\ file = Top.todo[1]
        /\ rest \in Seq(Activations) /\ Len(rest) = n /\ DOMAIN rest = DOMAIN stack
        /\ \A i \in DOMAIN stack :
             /\ rest[i].file = stack[i].file
             /\ \A k \in DOMAIN rest[i].todo : \E l \in DOMAIN stack[i].todo :
                  rest[i].todo[k] = stack[i].todo[l]
    BY <2>1, IncludeStack
  <2>3. Contains(disk[Top.file].includes, file)
    <3>1. 1 \in DOMAIN Top.todo
      BY <2>1, EmptySeq, LenProperties DEF Activations
    <3> QED BY <1>1, <2>1, <2>2, <3>1 DEF Top
  <2> HIDE DEF rest, file
  <2>4. Within(rest)
    <3>1. \A i \in DOMAIN rest : \A k \in DOMAIN rest[i].todo :
            Contains(disk[rest[i].file].includes, rest[i].todo[k])
      BY <1>1, <2>2
    <3>2. ASSUME NEW i \in 1..(n - 1)
          PROVE  Contains(disk[rest[i].file].includes, rest[i + 1].file)
      <4>1. i \in DOMAIN stack /\ i + 1 \in DOMAIN stack
        BY <2>1
      <4> QED BY <4>1, <1>1, <2>2
    <3> QED BY <2>2, <3>1, <3>2
  <2>5. CASE disk[file] = Missing
    <3>1. stack' = rest /\ cause' = cause
      BY <1>5, <2>5 DEF Include, rest, file
    <3> QED BY <1>2, <2>1, <2>4, <3>1
  <2>6. CASE disk[file] # Missing /\ InStack(file)
    <3>1. stack' = stack /\ stage' = "failed"
      BY <1>5, <2>6 DEF Include, file
    <3>2. PICK i \in DOMAIN stack : stack[i].file = file
      BY <2>6 DEF InStack
    <3>3. \A j \in i..(n - 1) : Contains(disk[stack[j].file].includes, stack[j + 1].file)
      BY <1>1, <2>1
    <3>4. CircularMeansCycle'
      <4>1. file = Head(Top'.todo)
        BY <3>1 DEF Top, file
      <4> QED BY <2>1, <3>1, <3>2, <3>3, <4>1 DEF CircularMeansCycle
    <3> QED BY <1>1, <2>1, <3>1, <3>4 DEF Nested
  <2>7. CASE disk[file] # Missing /\ ~InStack(file)
    <3> DEFINE pushed == Append(rest, Activation(file))
    <3>1. stack' = pushed /\ cause' = cause
      BY <1>5, <2>7 DEF Include, file, rest
    <3>2. /\ Len(pushed) = n + 1 /\ DOMAIN pushed = 1..(n + 1)
          /\ \A i \in 1..n : pushed[i] = rest[i]
          /\ pushed[n + 1] = Activation(file)
      BY <2>2, PushStack
    <3>3. Activation(file).file = file
      BY DEF Activation
    <3> HIDE DEF pushed
    <3>4. ASSUME NEW i \in DOMAIN pushed, NEW k \in DOMAIN pushed[i].todo
          PROVE  Contains(disk[pushed[i].file].includes, pushed[i].todo[k])
      <4>1. CASE i \in 1..n
        BY <4>1, <2>1, <2>2, <2>4, <3>2
      <4>2. CASE i = n + 1
        BY <4>2, <2>2, <3>2, <3>3, TodoOfActivation
      <4> QED BY <4>1, <4>2, <2>1, <3>2
    <3>5. ASSUME NEW i \in 1..n
          PROVE  Contains(disk[pushed[i].file].includes, pushed[i + 1].file)
      <4>1. CASE i = n
        BY <4>1, <2>1, <2>2, <2>3, <3>2, <3>3 DEF Top
      <4>2. CASE i # n
        <5>1. i \in 1..(n - 1) /\ i + 1 \in 1..n
          <6>1. n \in Nat
            BY <2>1
          <6> HIDE DEF n
          <6> QED BY <6>1, <4>2
        <5> QED BY <5>1, <2>2, <2>4, <3>2
      <4> QED BY <4>1, <4>2
    <3>6. Within(pushed)
      BY <2>1, <3>2, <3>4, <3>5
    <3> QED BY <1>2, <2>1, <3>1, <3>6
  <2> QED BY <2>5, <2>6, <2>7
<1>6. CASE CloseInclude
  <2> DEFINE n == Len(stack)
  <2>1. disk' = disk /\ cause' # "circular" /\ n > 1 /\ n \in Nat /\ DOMAIN stack = 1..n
    BY <1>3, <1>6, LenProperties DEF CloseInclude, Loading, TypeOK
  <2>2. /\ Len(stack') = n - 1 /\ DOMAIN stack' = 1..(n - 1)
        /\ \A i \in 1..(n - 1) : stack'[i].file = stack[i].file /\ stack'[i].todo = stack[i].todo
    BY <1>6, CloseStack DEF CloseInclude
  <2> HIDE DEF n
  <2>3. ASSUME NEW i \in 1..(n - 2)
        PROVE  Contains(disk[stack'[i].file].includes, stack'[i + 1].file)
    <3>1. i \in 1..(n - 1) /\ i + 1 \in 1..(n - 1)
      BY <2>1
    <3> QED BY <3>1, <1>1, <2>2 DEF n
  <2>4. Within(stack')
    <3>1. \A i \in 1..(n - 1) : i \in DOMAIN stack
      BY <2>1
    <3>2. Len(stack') - 1 = n - 2
      BY <2>1, <2>2
    <3> QED BY <3>1, <3>2, <1>1, <2>2, <2>3
  <2> QED BY <1>2, <2>1, <2>4
<1>7. CASE CloseSource
  <2>1. disk' = disk /\ cause' # "circular" /\ (stack' = stack \/ stack' = <<>>)
    BY <1>3, <1>7 DEF CloseSource
  <2> QED BY <1>1, <1>2, <2>1
<1>8. CASE Discover
  <2>1. UNCHANGED <<disk, stack>> /\ cause' # "circular"
    BY <1>3, <1>8 DEF Discover
  <2> QED BY <1>1, <1>2, <2>1
<1>9. CASE CommandLine \/ Preset \/ SharedDefaults
  <2>1. UNCHANGED <<disk, stack, cause>> /\ stage # "failed"
    BY <1>9 DEF CommandLine, Preset, SharedDefaults
  <2> QED BY <1>1, <1>2, <1>3, <2>1
<1>10. CASE UNCHANGED vars
  BY <1>10 DEF vars, Nested, CircularMeansCycle, Top
<1> QED BY <1>4, <1>5, <1>6, <1>7, <1>8, <1>9, <1>10 DEF Next, Stop

\* A load fails for a cycle only when the files on the stack include each other
\* in a circle, however they are nested.
THEOREM CyclesAreReal == Spec => []CircularMeansCycle
<1>1. Init => TypeOK /\ Nested
  BY TypesInit, NestedInit
<1>2. TypeOK /\ Nested /\ [Next]_vars => (TypeOK /\ Nested)'
  BY TypesStep, NestedStep
<1>3. Nested => CircularMeansCycle
  BY DEF Nested
<1> QED BY <1>1, <1>2, <1>3, PTL DEF Spec
-----------------------------------------------------------------------------
(* Documents                                                               *)

\* A document that is merged is the last of its source.
LEMMA RecordedIs ==
  ASSUME TypeOK, stack # <<>>, loaded' = Recorded
  PROVE  /\ Len(loaded) \in Nat /\ DOMAIN loaded = 1..Len(loaded)
         /\ DOMAIN loaded' = 1..(Len(loaded) + 1)
         /\ \A i \in DOMAIN loaded : loaded'[i] = loaded[i]
         /\ loaded'[Len(loaded) + 1] =
              [source |-> source, file |-> Top.file, fields |-> disk[Top.file].fields]
         /\ \A f, s : Setting(f, s)' =
              Setting(f, s) \union {i \in {Len(loaded) + 1} :
                                      s = source /\ f \in DOMAIN disk[Top.file].fields}
<1> DEFINE m == Len(loaded)
           r == [source |-> source, file |-> Top.file, fields |-> disk[Top.file].fields]
<1>1. loaded \in Seq(Records) /\ m \in Nat /\ DOMAIN loaded = 1..m
  BY LenProperties DEF TypeOK
<1>2. IsList(loaded)
  BY <1>1, SeqIsList
<1>3. loaded' = Append(loaded, r)
  BY DEF Recorded
<1> HIDE DEF r
<1>4. /\ DOMAIN loaded' = 1..(m + 1) /\ loaded'[m + 1] = r
      /\ \A i \in 1..m : loaded'[i] = loaded[i]
  BY <1>2, <1>3, ListAppend
<1>5. r.source = source /\ r.fields = disk[Top.file].fields
  BY DEF r
<1>6. ASSUME NEW f, NEW s
      PROVE  Setting(f, s)' =
               Setting(f, s) \union {i \in {m + 1} : s = source /\ f \in DOMAIN disk[Top.file].fields}
  <2>1. Setting(f, s)' = {i \in 1..(m + 1) : f \in DOMAIN loaded'[i].fields /\ loaded'[i].source = s}
    BY <1>4 DEF Setting
  <2>2. Setting(f, s) = {i \in 1..m : f \in DOMAIN loaded[i].fields /\ loaded[i].source = s}
    BY <1>1 DEF Setting
  <2>3. 1..(m + 1) = 1..m \union {m + 1}
    BY <1>1
  <2> HIDE DEF m
  <2> QED BY <2>1, <2>2, <2>3, <1>4, <1>5
<1> QED BY <1>1, <1>4, <1>6 DEF r

\* What a source's document sets is set, what a document does not set is as before.
LEMMA SettingIndices ==
  ASSUME TypeOK, NEW f, NEW s
  PROVE  /\ Len(loaded) \in Nat /\ Setting(f, s) \subseteq 1..Len(loaded)
         /\ \A i \in Setting(f, s) : f \in DOMAIN loaded[i].fields /\ loaded[i].source = s
         /\ Setting(f, s) # {} => Latest(Setting(f, s)) \in Setting(f, s)
<1>1. Len(loaded) \in Nat /\ DOMAIN loaded = 1..Len(loaded)
  BY LenProperties DEF TypeOK
<1>2. Setting(f, s) \subseteq 1..Len(loaded)
  BY <1>1 DEF Setting
<1> QED BY <1>1, <1>2, LatestOf DEF Setting

LEMMA InOrderInit == Init => InOrder
<1> SUFFICES ASSUME Init PROVE InOrder
  OBVIOUS
<1>1. DOMAIN loaded = {} /\ stage = "load"
  BY DEF Init
<1> QED BY <1>1 DEF InOrder

LEMMA InOrderStep == TypeOK /\ InOrder /\ [Next]_vars => InOrder'
<1> SUFFICES ASSUME TypeOK, InOrder, [Next]_vars PROVE InOrder'
  OBVIOUS
<1>1. Len(Sources) \in Nat /\ source \in Nat /\ \A i \in DOMAIN loaded : loaded[i].source \in Nat
  <2>1. \A i \in DOMAIN loaded : loaded[i] \in Records
    BY LenProperties DEF TypeOK
  <2>2. Len(Sources) \in Nat /\ DOMAIN Sources = 1..Len(Sources)
    BY FilesAssumption, LenProperties
  <2> QED BY <2>1, <2>2 DEF TypeOK, Records
<1>2. CASE OpenSource
  <2>1. UNCHANGED <<disk, loaded, stage>> /\ stage = "load" /\ stack = <<>>
        /\ (source' = source + 1 \/ (source' = source /\ stack' = <<Activation(Sources[source])>>))
    <3>1. UNCHANGED <<disk, loaded, stage>> /\ stage = "load" /\ stack = <<>>
      BY <1>2 DEF OpenSource, Loading
    <3>2. CASE disk[Sources[source]] = Missing
      <4>1. source' = source + 1
        BY <1>2, <3>2 DEF OpenSource
      <4> QED BY <3>1, <4>1
    <3>3. CASE disk[Sources[source]] # Missing
      <4>1. source' = source /\ stack' = <<Activation(Sources[source])>>
        BY <1>2, <3>3 DEF OpenSource
      <4> QED BY <3>1, <4>1
    <3> QED BY <3>2, <3>3
  <2>2. <<Activation(Sources[source])>> # <<>>
    OBVIOUS
  <2>3. source <= source' /\ (stack' = <<>> => source < source')
    <3>1. CASE source' = source + 1
      BY <3>1, <1>1
    <3>2. CASE source' = source /\ stack' # <<>>
      BY <3>2, <1>1
    <3> QED BY <2>1, <2>2, <3>1, <3>2
  <2>4. \A i \in DOMAIN loaded : loaded[i].source <= source /\ loaded[i].source < source
    BY <2>1 DEF InOrder
  <2>5. source' \in Nat
    BY <1>1, <2>1
  <2>6. \A i \in DOMAIN loaded : loaded[i].source <= source' /\ loaded[i].source < source'
    BY <2>1, <2>3, <2>4, <1>1, <2>5
  <2> QED BY <2>1, <2>6 DEF InOrder
<1>3. CASE CloseInclude \/ CloseSource
  <2> DEFINE m == Len(loaded)
  <2>1. /\ loaded' = Recorded /\ stack # <<>> /\ UNCHANGED disk /\ stage = "load"
        /\ stage' \in {"load", "failed"} /\ (source' = source \/ source' = source + 1)
        /\ (stack' = <<>> => source' = source + 1)
    <3>1. CASE CloseInclude
      <4>1. Len(stack) > 1 /\ Len(stack') = Len(stack) - 1 /\ Len(stack) \in Nat
        BY <3>1, CloseStack, LenProperties DEF CloseInclude, TypeOK
      <4>2. stack' # <<>> /\ stack # <<>>
        BY <4>1, EmptySeq
      <4> QED BY <3>1, <4>2 DEF CloseInclude, Loading
    <3>2. CASE CloseSource
      <4>1. stack # <<>>
        BY <3>2, EmptySeq DEF CloseSource
      <4> QED BY <3>2, <4>1 DEF CloseSource
    <3> QED BY <1>3, <3>1, <3>2
  <2>2. /\ m \in Nat /\ DOMAIN loaded = 1..m /\ DOMAIN loaded' = 1..(m + 1)
        /\ \A i \in DOMAIN loaded : loaded'[i] = loaded[i]
        /\ loaded'[m + 1].source = source /\ loaded'[m + 1].file = Top.file
        /\ loaded'[m + 1].fields = disk[Top.file].fields
    BY <2>1, RecordedIs
  <2> HIDE DEF m
  <2>3. ASSUME NEW i \in DOMAIN loaded'
        PROVE  /\ loaded'[i].fields = disk'[loaded'[i].file].fields
               /\ loaded'[i].source <= source /\ loaded'[i].source \in Nat
    <3>1. CASE i \in 1..m
      BY <3>1, <1>1, <2>1, <2>2 DEF InOrder
    <3>2. CASE i = m + 1
      BY <3>2, <1>1, <2>1, <2>2
    <3> QED BY <3>1, <3>2, <2>2
  <2>4. ASSUME NEW i \in DOMAIN loaded', NEW j \in DOMAIN loaded', i <= j
        PROVE  loaded'[i].source <= loaded'[j].source
    <3>1. CASE j \in 1..m
      <4>1. i \in 1..m
        BY <2>2, <2>4, <3>1
      <4> QED BY <3>1, <4>1, <2>2, <2>4 DEF InOrder
    <3>2. CASE j = m + 1
      BY <3>2, <2>2, <2>3
    <3> QED BY <3>1, <3>2, <2>2
  <2>5. source <= source' /\ source' \in Nat /\ (stack' = <<>> => source < source')
    BY <1>1, <2>1
  <2>6. \A i \in DOMAIN loaded' : loaded'[i].source <= source'
        /\ (stack' = <<>> => loaded'[i].source < source')
    BY <2>3, <2>5, <1>1
  <2> QED BY <2>1, <2>3, <2>4, <2>6 DEF InOrder
<1>4. CASE Include
  <2>1. UNCHANGED <<disk, source, loaded>> /\ stack # <<>> /\ stage' \in {"load", "failed"}
    BY <1>4 DEF Include, Loading
  <2>2. stack' # <<>>
    <3> DEFINE rest == [stack EXCEPT ![Len(stack)].todo = Tail(@)]
               file == Head(Top.todo)
    <3>1. rest \in Seq(Activations) /\ Len(rest) = Len(stack) /\ file \in Files
      BY <1>4, <2>1, IncludeStack DEF Include
    <3>2. stack' \in {stack, rest, Append(rest, Activation(file))}
      BY <1>4 DEF Include
    <3>3. Len(stack) \in Nat \ {0}
      BY <2>1, EmptySeq DEF TypeOK
    <3> HIDE DEF rest, file
    <3>4. Len(Append(rest, Activation(file))) = Len(rest) + 1
      BY <3>1, PushStack
    <3>5. Len(stack') > 0
      BY <3>1, <3>2, <3>3, <3>4
    <3> QED BY <3>5, EmptySeq
  <2> QED BY <2>1, <2>2 DEF InOrder
<1>5. CASE Discover
  <2>1. /\ UNCHANGED <<disk, source, stack, loaded>> /\ source > Len(Sources)
        /\ source \in 1..(Len(Sources) + 1)
    BY <1>5 DEF Discover, TypeOK
  <2>2. source = Len(Sources) + 1
    BY <1>1, <2>1
  <2> QED BY <2>1, <2>2 DEF InOrder
<1>6. CASE CommandLine \/ Preset \/ SharedDefaults
  <2>1. UNCHANGED <<disk, source, stack, loaded>> /\ stage \in {"cli", "preset", "shared"}
    BY <1>6 DEF CommandLine, Preset, SharedDefaults
  <2> QED BY <2>1 DEF InOrder
<1>7. CASE UNCHANGED vars
  BY <1>7 DEF vars, InOrder
<1> QED BY <1>2, <1>3, <1>4, <1>5, <1>6, <1>7 DEF Next, Stop

\* A value that the file on top has from its includes
LEMMA TopCarries ==
  ASSUME TypeOK, StackCarries, stage = "load", stack # <<>>,
         NEW f \in Fields, f \in DOMAIN Top.merged
  PROVE  /\ Setting(f, source) # {}
         /\ Top.merged[f] = loaded[Latest(Setting(f, source))].fields[f]
<1> DEFINE n == Len(stack)
<1>1. n \in Nat /\ n \in DOMAIN stack /\ DOMAIN stack = 1..n
  BY TopIs
<1>2. n \in Holding(f) /\ Holding(f) \subseteq 1..n
  BY <1>1 DEF Holding, Top
<1> HIDE DEF n
<1>3. Holding(f) \subseteq Nat /\ \A i \in Holding(f) : i <= n
  BY <1>1, <1>2
<1>4. Latest(Holding(f)) = n
  BY <1>2, <1>3, LatestIs
<1> QED BY <1>2, <1>4 DEF StackCarries, Top, n

\* The document of the file on top has for each field what the last document
\* setting it says, the file's own being the last.
LEMMA DocumentCarries ==
  ASSUME TypeOK, StackCarries, stage = "load", stack # <<>>, loaded' = Recorded,
         NEW f \in Fields, NEW s, s = source
  PROVE  /\ f \in DOMAIN Document =>
              /\ Setting(f, s)' # {}
              /\ Document[f] = loaded'[Latest(Setting(f, s)')].fields[f]
         /\ f \notin DOMAIN Document => Setting(f, s)' = Setting(f, s)
<1> DEFINE m == Len(loaded)
           own == disk[Top.file].fields
<1>1. /\ m \in Nat /\ \A i \in 1..m : loaded'[i] = loaded[i]
      /\ loaded'[m + 1].fields = own
      /\ Setting(f, s)' = Setting(f, s) \union {i \in {m + 1} : f \in DOMAIN own}
  <2>1. /\ m \in Nat /\ DOMAIN loaded = 1..m /\ \A i \in DOMAIN loaded : loaded'[i] = loaded[i]
        /\ loaded'[m + 1] = [source |-> source, file |-> Top.file, fields |-> own]
        /\ Setting(f, s)' =
             Setting(f, s) \union {i \in {m + 1} : s = source /\ f \in DOMAIN own}
    BY RecordedIs
  <2> QED BY <2>1
<1>2. Setting(f, s) \subseteq 1..m
      /\ (Setting(f, s) # {} => Latest(Setting(f, s)) \in Setting(f, s))
  BY SettingIndices
<1>3. /\ DOMAIN Document = DOMAIN Top.merged \union DOMAIN own
      /\ \A g \in DOMAIN own : Document[g] = own[g]
      /\ \A g \in DOMAIN Top.merged \ DOMAIN own : Document[g] = Top.merged[g]
  BY DocumentType
<1> HIDE DEF own
<1>4. CASE f \in DOMAIN own
  <2>1. Setting(f, s)' = Setting(f, s) \union {m + 1}
    BY <1>1, <1>4
  <2>2. Latest(Setting(f, s) \union {m + 1}) = m + 1
    <3> DEFINE S == Setting(f, s) \union {m + 1}
    <3>1. S \subseteq Nat /\ m + 1 \in S /\ \A i \in S : i <= m + 1
      BY <1>1, <1>2
    <3> HIDE DEF S
    <3>2. Latest(S) = m + 1
      BY <3>1, LatestIs
    <3> QED BY <3>2 DEF S
  <2> QED BY <1>1, <1>3, <1>4, <2>1, <2>2
<1>5. CASE f \notin DOMAIN own /\ f \in DOMAIN Top.merged
  <2>1. /\ Setting(f, s) # {}
        /\ Top.merged[f] = loaded[Latest(Setting(f, s))].fields[f]
    BY <1>5, TopCarries
  <2>2. Setting(f, s)' = Setting(f, s)
    BY <1>1, <1>5
  <2>3. loaded'[Latest(Setting(f, s))] = loaded[Latest(Setting(f, s))]
    BY <1>1, <1>2, <2>1
  <2> QED BY <1>3, <1>5, <2>1, <2>2, <2>3
<1>6. CASE f \notin DOMAIN own /\ f \notin DOMAIN Top.merged
  BY <1>1, <1>3, <1>6
<1> QED BY <1>4, <1>5, <1>6

LEMMA StackCarriesInit == Init => StackCarries
<1> SUFFICES ASSUME Init PROVE StackCarries
  OBVIOUS
<1>1. DOMAIN stack = {} /\ DOMAIN loaded = {}
  BY DEF Init
<1> QED BY <1>1 DEF StackCarries, Setting, Holding

LEMMA StackCarriesStep ==
  TypeOK /\ InOrder /\ StackCarries /\ TypeOK' /\ InOrder' /\ [Next]_vars => StackCarries'
<1> SUFFICES ASSUME TypeOK, InOrder, StackCarries, TypeOK', InOrder', [Next]_vars,
                    stage' = "load", NEW f \in Fields
             PROVE  /\ Setting(f, source)' = {} <=> Holding(f)' = {}
                    /\ Setting(f, source)' # {} =>
                         stack'[Latest(Holding(f)')].merged[f] =
                           loaded'[Latest(Setting(f, source)')].fields[f]
  BY DEF StackCarries
<1>1. source' \in Nat
  BY FilesAssumption, LenProperties DEF TypeOK
<1>2. ASSUME \A i \in DOMAIN stack' : f \notin DOMAIN stack'[i].merged,
             \A i \in DOMAIN loaded' : loaded'[i].source < source'
      PROVE  Setting(f, source)' = {} /\ Holding(f)' = {}
  BY <1>1, <1>2 DEF Setting, Holding
<1>3. CASE OpenSource
  <2>1. loaded' = loaded /\ stack = <<>>
    BY <1>3 DEF OpenSource
  <2>2. CASE stack' = <<>>
    <3>1. DOMAIN stack' = {} /\ \A i \in DOMAIN loaded' : loaded'[i].source < source'
      BY <2>2 DEF InOrder
    <3> QED BY <1>2, <3>1
  <2>3. CASE stack' # <<>>
    <3>1. source' = source /\ stack' = <<Activation(Sources[source])>>
      BY <1>3, <2>1, <2>3 DEF OpenSource
    <3>2. Sources[source] \in Files
      BY <1>3, FilesAssumption, LenProperties DEF OpenSource, TypeOK
    <3>3. DOMAIN stack' = {1} /\ stack'[1] = Activation(Sources[source])
      BY <3>1, <3>2, OneStack
    <3>4. \A i \in DOMAIN stack' : f \notin DOMAIN stack'[i].merged
      BY <3>3 DEF Activation, Empty
    <3>5. \A i \in DOMAIN loaded' : loaded'[i].source < source'
      BY <2>1, <3>1 DEF InOrder
    <3> QED BY <1>2, <3>4, <3>5
  <2> QED BY <2>2, <2>3
<1>4. CASE Include
  <2> DEFINE n == Len(stack)
             rest == [stack EXCEPT ![Len(stack)].todo = Tail(@)]
             file == Head(Top.todo)
  <2>1. /\ stack # <<>> /\ Top.todo # <<>> /\ UNCHANGED <<source, loaded>> /\ stage = "load"
        /\ n \in Nat /\ DOMAIN stack = 1..n
    BY <1>4, TopIs DEF Include
  <2>2. /\ file \in Files /\ rest \in Seq(Activations) /\ Len(rest) = n
        /\ DOMAIN rest = DOMAIN stack
        /\ \A i \in DOMAIN stack : rest[i].merged = stack[i].merged
    BY <2>1, IncludeStack
  <2>3. stack' = rest \/ stack' = Append(rest, Activation(file))
    BY <1>4 DEF Include
  <2> HIDE DEF rest, file, n
  <2>4. Holding(f)' = Holding(f) /\ \A i \in DOMAIN stack : stack'[i].merged = stack[i].merged
    <3>1. CASE stack' = rest
      BY <2>2, <3>1 DEF Holding
    <3>2. CASE stack' = Append(rest, Activation(file))
      <4>1. /\ DOMAIN stack' = 1..(n + 1) /\ \A i \in 1..n : stack'[i] = rest[i]
            /\ stack'[n + 1] = Activation(file)
        BY <2>2, <3>2, PushStack
      <4>2. f \notin DOMAIN stack'[n + 1].merged
        BY <4>1 DEF Activation, Empty
      <4>3. \A i \in 1..(n + 1) : i \in 1..n \/ i = n + 1
        BY <2>1
      <4>4. 1..n \subseteq 1..(n + 1)
        BY <2>1
      <4> QED BY <2>1, <2>2, <4>1, <4>2, <4>3, <4>4 DEF Holding
    <3> QED BY <2>3, <3>1, <3>2
  <2>5. Setting(f, source)' = Setting(f, source)
    BY <2>1 DEF Setting
  <2>6. Holding(f) # {} => Latest(Holding(f)) \in DOMAIN stack
    <3>1. Holding(f) \subseteq 1..n
      BY <2>1 DEF Holding
    <3> QED BY <2>1, <3>1, LatestOf
  <2> QED BY <2>1, <2>4, <2>5, <2>6 DEF StackCarries
<1>5. CASE CloseInclude
  <2> DEFINE n == Len(stack)
  <2>1. /\ n \in Nat /\ n > 1 /\ DOMAIN stack = 1..n /\ stack # <<>>
        /\ loaded' = Recorded /\ source' = source /\ stage = "load"
    BY <1>5, LenProperties, EmptySeq DEF CloseInclude, TypeOK
  <2>2. /\ DOMAIN stack' = 1..(n - 1)
        /\ \A i \in 1..(n - 2) : stack'[i].merged = stack[i].merged
        /\ stack'[n - 1].merged = Overlaid(stack[n - 1].merged, Document)
    BY <1>5, CloseStack DEF CloseInclude
  <2>3. /\ f \in DOMAIN Document =>
              /\ Setting(f, source)' # {}
              /\ Document[f] = loaded'[Latest(Setting(f, source)')].fields[f]
        /\ f \notin DOMAIN Document => Setting(f, source)' = Setting(f, source)
    <3>1. \A s : s = source =>
            /\ f \in DOMAIN Document =>
                 /\ Setting(f, s)' # {}
                 /\ Document[f] = loaded'[Latest(Setting(f, s)')].fields[f]
            /\ f \notin DOMAIN Document => Setting(f, s)' = Setting(f, s)
      BY <2>1, DocumentCarries
    <3>2. \A s : s = source => Setting(f, source)' = Setting(f, s)'
      BY <2>1 DEF Setting
    <3> QED BY <2>1, <3>1, <3>2
  <2>4. /\ Document \in Fragments /\ stack[n - 1].merged \in Fragments
        /\ DOMAIN Document = DOMAIN Top.merged \union DOMAIN disk[Top.file].fields
    <3>1. n - 1 \in 1..n
      BY <2>1
    <3>2. stack[n - 1] \in Activations
      BY <2>1, <3>1, LenProperties DEF TypeOK
    <3> QED BY <2>1, <3>2, DocumentType DEF Activations
  <2>5. /\ DOMAIN stack'[n - 1].merged = DOMAIN stack[n - 1].merged \union DOMAIN Document
        /\ \A g \in DOMAIN Document : stack'[n - 1].merged[g] = Document[g]
        /\ \A g \in DOMAIN stack[n - 1].merged \ DOMAIN Document :
             stack'[n - 1].merged[g] = stack[n - 1].merged[g]
    <3> DEFINE base == stack[n - 1].merged
               over == Overlaid(base, Document)
    <3>1. base \in Fragments /\ Document \in Fragments
      BY <2>4
    <3>2. stack'[n - 1].merged = over
      BY <2>2
    <3> HIDE DEF base
    <3>3. /\ DOMAIN over = DOMAIN base \union DOMAIN Document
          /\ \A g \in DOMAIN Document : over[g] = Document[g]
          /\ \A g \in DOMAIN base \ DOMAIN Document : over[g] = base[g]
      BY <3>1, OverlaidIs
    <3> HIDE DEF over
    <3> QED BY <3>2, <3>3 DEF base
  <2> HIDE DEF n
  <2>6. CASE f \in DOMAIN Document
    <3>1. n - 1 \in Holding(f)' /\ Holding(f)' \subseteq 1..(n - 1)
      BY <2>1, <2>2, <2>5, <2>6 DEF Holding
    <3>2. Holding(f)' \subseteq Nat /\ \A i \in Holding(f)' : i <= n - 1
      BY <2>1, <3>1
    <3>3. Latest(Holding(f)') = n - 1
      BY <3>1, <3>2, LatestIs
    <3> QED BY <2>3, <2>5, <2>6, <3>1, <3>3
  <2>7. CASE f \notin DOMAIN Document
    <3>1. f \notin DOMAIN stack[n].merged
      BY <2>4, <2>7 DEF Top, n
    <3>2. Holding(f)' = Holding(f)
      <4>1. \A i \in 1..(n - 1) : f \in DOMAIN stack'[i].merged <=> f \in DOMAIN stack[i].merged
        <5>1. \A i \in 1..(n - 1) : i \in 1..(n - 2) \/ i = n - 1
          BY <2>1
        <5> QED BY <5>1, <2>2, <2>5, <2>7
      <4>2. \A i \in 1..n : i \in 1..(n - 1) \/ i = n
        BY <2>1
      <4>3. 1..(n - 1) \subseteq 1..n
        BY <2>1
      <4> QED BY <2>1, <2>2, <3>1, <4>1, <4>2, <4>3 DEF Holding
    <3>3. \A i \in Holding(f) : stack'[i].merged[f] = stack[i].merged[f]
      <4>1. \A i \in Holding(f) : i \in 1..(n - 2) \/ i = n - 1
        BY <2>1, <3>1 DEF Holding
      <4> QED BY <4>1, <2>2, <2>5, <2>7 DEF Holding
    <3>4. Holding(f) # {} => Latest(Holding(f)) \in Holding(f)
      <4>1. Holding(f) \subseteq 1..n
        BY <2>1 DEF Holding
      <4> QED BY <2>1, <4>1, LatestOf
    <3>5. \A i \in Setting(f, source) : loaded'[i] = loaded[i]
      BY <2>1, RecordedIs DEF Setting
    <3>6. Setting(f, source) # {} => Latest(Setting(f, source)) \in Setting(f, source)
      BY SettingIndices
    <3>7. /\ Setting(f, source) = {} <=> Holding(f) = {}
          /\ Setting(f, source) # {} =>
               stack[Latest(Holding(f))].merged[f] = loaded[Latest(Setting(f, source))].fields[f]
      BY <2>1 DEF StackCarries
    <3>8. Setting(f, source)' = Setting(f, source)
      BY <2>3, <2>7
    <3> QED BY <3>2, <3>3, <3>4, <3>5, <3>6, <3>7, <3>8
  <2> QED BY <2>6, <2>7
<1>6. CASE CloseSource
  <2>1. stack' = <<>> /\ DOMAIN stack' = {}
    BY <1>6 DEF CloseSource
  <2> QED BY <1>2, <2>1 DEF InOrder
<1>7. CASE UNCHANGED vars
  BY <1>7 DEF vars, StackCarries, Setting, Holding
<1> QED BY <1>3, <1>4, <1>5, <1>6, <1>7
        DEF Next, Stop, Discover, CommandLine, Preset, SharedDefaults
-----------------------------------------------------------------------------
(* Merging a source                                                        *)

\* The documents of the sources before, when a document of this one is merged
LEMMA EarlierStay ==
  ASSUME TypeOK, stack # <<>>, loaded' = Recorded
  PROVE  /\ \A i \in DOMAIN loaded : i \in DOMAIN loaded' /\ loaded'[i] = loaded[i]
         /\ \A f, s : s # source => Setting(f, s)' = Setting(f, s)
         /\ \A f, s : Setting(f, s) \subseteq Setting(f, s)'
<1>1. /\ Len(loaded) \in Nat /\ DOMAIN loaded = 1..Len(loaded)
      /\ DOMAIN loaded' = 1..(Len(loaded) + 1)
      /\ \A i \in DOMAIN loaded : loaded'[i] = loaded[i]
  BY RecordedIs
<1>2. \A f, s : Setting(f, s)' =
        Setting(f, s) \union {i \in {Len(loaded) + 1} :
                                s = source /\ f \in DOMAIN disk[Top.file].fields}
  BY RecordedIs
<1>3. \A i \in DOMAIN loaded : i \in DOMAIN loaded' /\ loaded'[i] = loaded[i]
  BY <1>1
<1>4. \A f, s : Setting(f, s) \subseteq Setting(f, s)'
  BY <1>2
<1>5. \A f, s : s # source => Setting(f, s)' = Setting(f, s)
  BY <1>2
<1> QED BY <1>3, <1>4, <1>5

\* What is loaded when the source's own file is merged
LEMMA SourceClosed ==
  ASSUME TypeOK, InOrder, StackCarries, InOrder', stage = "load", Len(stack) = 1,
         loaded' = Recorded, source' = source + 1, NEW f \in Fields
  PROVE  /\ f \in DOMAIN Document =>
              /\ Prior(f)' # {} /\ Latest(Prior(f)') \in DOMAIN loaded'
              /\ Document[f] = loaded'[Latest(Prior(f)')].fields[f]
              /\ loaded'[Latest(Prior(f)')].source = source
         /\ f \notin DOMAIN Document =>
              /\ Prior(f)' = Prior(f)
              /\ \A i \in Prior(f) : loaded'[i] = loaded[i]
         /\ \A s : s = source =>
              /\ f \in DOMAIN Document <=> Setting(f, s)' # {}
              /\ f \in DOMAIN Document => Document[f] = loaded'[Latest(Setting(f, s)')].fields[f]
<1> DEFINE m == Len(loaded)
           S == {i \in DOMAIN loaded' : f \in DOMAIN loaded'[i].fields /\ loaded'[i].source = source}
<1>1. stack # <<>> /\ source \in Nat
  <2>1. Len(Sources) \in Nat /\ Len(<<>>) = 0
    BY FilesAssumption, LenProperties
  <2>2. stack # <<>>
    BY <2>1
  <2>3. source \in Nat
    BY <2>1 DEF TypeOK
  <2> QED BY <2>2, <2>3
<1>2. /\ m \in Nat /\ DOMAIN loaded = 1..m /\ DOMAIN loaded' = 1..(m + 1)
      /\ \A i \in DOMAIN loaded : loaded'[i] = loaded[i]
      /\ loaded'[m + 1].source = source
  BY <1>1, RecordedIs
<1>3. \A i \in DOMAIN loaded : loaded[i].source \in Nat /\ loaded[i].source <= source
  <2>1. \A i \in DOMAIN loaded : loaded[i] \in Records
    BY LenProperties DEF TypeOK
  <2>2. DOMAIN Sources = 1..Len(Sources)
    BY FilesAssumption, LenProperties
  <2> QED BY <2>1, <2>2 DEF Records, InOrder
<1>4. \A s : s = source => Setting(f, s)' = S
  BY DEF Setting
<1>5. /\ f \in DOMAIN Document => S # {} /\ Document[f] = loaded'[Latest(S)].fields[f]
      /\ f \notin DOMAIN Document => S = Setting(f, source)
  <2>1. \A s : s = source =>
          /\ f \in DOMAIN Document =>
               Setting(f, s)' # {} /\ Document[f] = loaded'[Latest(Setting(f, s)')].fields[f]
          /\ f \notin DOMAIN Document => Setting(f, s)' = Setting(f, s)
    BY <1>1, DocumentCarries
  <2> HIDE DEF S
  <2> QED BY <1>4, <2>1
<1>6. f \notin DOMAIN Document => S = {}
  <2> SUFFICES ASSUME f \notin DOMAIN Document PROVE S = {}
    OBVIOUS
  <2>1. f \notin DOMAIN Top.merged
    BY <1>1, DocumentType
  <2>2. DOMAIN stack = {1} /\ Top = stack[1]
    BY LenProperties DEF TypeOK, Top
  <2>3. Holding(f) = {}
    BY <2>1, <2>2 DEF Holding
  <2> HIDE DEF S
  <2> QED BY <1>5, <2>3 DEF StackCarries
<1>7. Prior(f)' = Prior(f) \union S
  <2>1. \A i \in DOMAIN loaded' : loaded'[i].source < source + 1 <=>
          loaded'[i].source < source \/ loaded'[i].source = source
    <3>1. \A i \in DOMAIN loaded' : loaded'[i].source \in Nat
      <4>1. \A i \in DOMAIN loaded' : i \in DOMAIN loaded \/ i = m + 1
        BY <1>2
      <4> QED BY <4>1, <1>1, <1>2, <1>3
    <3> QED BY <1>1, <3>1
  <2>2. Prior(f)' = {i \in DOMAIN loaded' :
                       f \in DOMAIN loaded'[i].fields /\ loaded'[i].source < source + 1}
    BY DEF Prior
  <2>3. \A i \in DOMAIN loaded' : loaded'[i].source < source =>
          i \in DOMAIN loaded /\ loaded'[i] = loaded[i]
    <3>1. \A i \in DOMAIN loaded' : i \in DOMAIN loaded \/ i = m + 1
      BY <1>2
    <3> QED BY <3>1, <1>1, <1>2
  <2>4. \A i \in DOMAIN loaded : i \in DOMAIN loaded'
    BY <1>2
  <2> HIDE DEF m
  <2>5. \A i : i \in Prior(f)' <=> i \in Prior(f) \union S
    BY <2>1, <2>2, <2>3, <2>4, <1>2 DEF Prior
  <2> QED BY <2>5
<1>8. f \in DOMAIN Document => Latest(Prior(f) \union S) = Latest(S)
  <2> SUFFICES ASSUME S # {} PROVE Latest(Prior(f) \union S) = Latest(S)
    BY <1>5
  <2>1. Prior(f) \union S \subseteq 1..(m + 1)
    BY <1>2 DEF Prior
  <2>2. ASSUME NEW i \in Prior(f), NEW j \in S PROVE i < j
    <3>1. /\ i \in DOMAIN loaded' /\ j \in DOMAIN loaded' /\ i \in Nat /\ j \in Nat
          /\ loaded'[i].source < source /\ loaded'[j].source = source
          /\ loaded'[i].source \in Nat
      BY <1>2, <1>3, <2>1 DEF Prior
    <3>2. j <= i => loaded'[j].source <= loaded'[i].source
      BY <3>1 DEF InOrder
    <3> QED BY <1>1, <3>1, <3>2
  <2>3. m + 1 \in Nat
    BY <1>2
  <2> DEFINE P == Prior(f)
             U == P \union S
             last == m + 1
  <2>4. /\ last \in Nat /\ U = P \union S /\ U \subseteq 1..last /\ S # {}
        /\ \A i \in P : \A j \in S : i < j
    BY <2>1, <2>2, <2>3
  <2> HIDE DEF S, m, P, U, last
  <2>5. Latest(S) \in S /\ \A j \in S : j <= Latest(S)
    BY <2>4, LatestOf
  <2>6. U \subseteq Nat /\ Latest(S) \in U /\ \A i \in U : i <= Latest(S)
    BY <2>4, <2>5
  <2>7. Latest(U) = Latest(S)
    BY <2>6, LatestIs
  <2> QED BY <2>7 DEF P, U
<1>9. f \in DOMAIN Document => Latest(S) \in S
  <2>1. S \subseteq 1..(m + 1) /\ m + 1 \in Nat
    BY <1>2
  <2> HIDE DEF S, m
  <2> QED BY <1>5, <2>1, LatestOf
<1>10. f \in DOMAIN Document =>
         Latest(S) \in DOMAIN loaded' /\ loaded'[Latest(S)].source = source
  BY <1>9
<1> HIDE DEF S
<1> QED BY <1>2, <1>4, <1>5, <1>6, <1>7, <1>8, <1>10 DEF Prior

LEMMA SourceIsNatural == ASSUME TypeOK PROVE source \in Nat
BY FilesAssumption, LenProperties DEF TypeOK

\* No document is of a later source than the one being merged.
LEMMA ThisIsLast ==
  ASSUME TypeOK, InOrder, stack # <<>>, loaded' = Recorded
  PROVE  \A j \in DOMAIN loaded' : loaded'[j].source \in Nat /\ loaded'[j].source <= source
<1>1. \A j \in DOMAIN loaded : loaded[j].source \in Nat /\ loaded[j].source <= source
  <2>1. \A j \in DOMAIN loaded : loaded[j] \in Records
    BY LenProperties DEF TypeOK
  <2>2. DOMAIN Sources = 1..Len(Sources)
    BY FilesAssumption, LenProperties
  <2> QED BY <2>1, <2>2 DEF Records, InOrder
<1>2. /\ Len(loaded) \in Nat /\ DOMAIN loaded = 1..Len(loaded)
      /\ DOMAIN loaded' = 1..(Len(loaded) + 1)
      /\ \A j \in DOMAIN loaded : loaded'[j] = loaded[j]
      /\ loaded'[Len(loaded) + 1].source = source
  BY RecordedIs
<1>3. \A j \in DOMAIN loaded' : j \in DOMAIN loaded \/ j = Len(loaded) + 1
  BY <1>2
<1> QED BY <1>1, <1>2, <1>3, SourceIsNatural

\* Otherwise the documents of the sources before stay what they are.
LEMMA PriorStays ==
  ASSUME TypeOK, InOrder, NEW f,
         \/ loaded' = loaded /\ source' = source
         \/ loaded' = loaded /\ stack = <<>> /\ source' = source + 1
         \/ loaded' = Recorded /\ stack # <<>> /\ source' = source
  PROVE  Prior(f)' = Prior(f) /\ \A i \in Prior(f) : loaded'[i] = loaded[i]
<1>1. CASE loaded' = loaded /\ source' = source
  BY <1>1 DEF Prior
<1>2. CASE loaded' = loaded /\ stack = <<>> /\ source' = source + 1
  <2>1. source \in Nat /\ \A i \in DOMAIN loaded : loaded[i].source \in Nat
    <3>1. \A i \in DOMAIN loaded : loaded[i] \in Records
      BY LenProperties DEF TypeOK
    <3>2. DOMAIN Sources = 1..Len(Sources) /\ Len(Sources) \in Nat
      BY FilesAssumption, LenProperties
    <3> QED BY <3>1, <3>2 DEF Records, TypeOK
  <2>2. \A i \in DOMAIN loaded : loaded[i].source < source /\ loaded[i].source < source + 1
    BY <1>2, <2>1 DEF InOrder
  <2> QED BY <1>2, <2>2 DEF Prior
<1>3. CASE loaded' = Recorded /\ stack # <<>> /\ source' = source
  <2> DEFINE m == Len(loaded)
  <2>1. /\ m \in Nat /\ DOMAIN loaded = 1..m /\ DOMAIN loaded' = 1..(m + 1)
        /\ \A i \in DOMAIN loaded : loaded'[i] = loaded[i]
        /\ loaded'[m + 1].source = source /\ source \in Nat
    BY <1>3, RecordedIs, FilesAssumption, LenProperties DEF TypeOK
  <2>2. \A i \in DOMAIN loaded' : i \in DOMAIN loaded \/ i = m + 1
    BY <2>1
  <2>3. \A i \in DOMAIN loaded : i \in DOMAIN loaded'
    BY <2>1
  <2>4. ~(loaded'[m + 1].source < source)
    BY <2>1
  <2> HIDE DEF m
  <2>5. \A i : i \in Prior(f)' <=> i \in Prior(f)
    BY <1>3, <2>1, <2>2, <2>3, <2>4 DEF Prior
  <2> QED BY <2>1, <2>5 DEF Prior
<1> QED BY <1>1, <1>2, <1>3

LEMMA PriorIndices ==
  ASSUME TypeOK, NEW f, Prior(f) # {}
  PROVE  Latest(Prior(f)) \in Prior(f) /\ Latest(Prior(f)) \in DOMAIN loaded
<1>1. Len(loaded) \in Nat /\ DOMAIN loaded = 1..Len(loaded)
  BY LenProperties DEF TypeOK
<1>2. Prior(f) \subseteq 1..Len(loaded)
  BY <1>1 DEF Prior
<1> QED BY <1>1, <1>2, LatestOf

\* Which of the three an action of the loader is
LEMMA LoadSteps ==
  ASSUME TypeOK, [Next]_vars, stage' = "load"
  PROVE  /\ stage = "load" /\ UNCHANGED <<disk, cli>>
         /\ \/ UNCHANGED <<loaded, source, config, trace>>
            \/ UNCHANGED <<loaded, config, trace>> /\ stack = <<>> /\ source' = source + 1
            \/ /\ loaded' = Recorded /\ stack # <<>> /\ source' = source
               /\ UNCHANGED <<config, trace>>
            \/ /\ loaded' = Recorded /\ Len(stack) = 1 /\ source' = source + 1
               /\ config' = MergedConfig(Document) /\ ~Invalid(Document)
               /\ trace' = Traced(Sources[source], Changed(Document, config'), config')
<1>1. CASE OpenSource
  BY <1>1 DEF OpenSource, Loading
<1>2. CASE Include
  BY <1>2 DEF Include, Loading
<1>3. CASE CloseInclude
  <2>1. stack # <<>>
    BY <1>3, EmptySeq DEF CloseInclude
  <2> QED BY <1>3, <2>1 DEF CloseInclude, Loading
<1>4. CASE CloseSource
  <2>1. ~Invalid(Document)
    BY <1>4 DEF CloseSource
  <2> QED BY <1>4, <2>1 DEF CloseSource
<1>5. CASE UNCHANGED vars
  BY <1>5 DEF vars
<1> QED BY <1>1, <1>2, <1>3, <1>4, <1>5
        DEF Next, Stop, Discover, CommandLine, Preset, SharedDefaults
-----------------------------------------------------------------------------
(* Bail                                                                    *)

\* bail and jobs are no fields of tools and no knobs.
LEMMA BailAndJobs ==
  /\ "bail" \in Fields /\ "jobs" \in Fields
  /\ Kind["bail"] = "bail" /\ Kind["jobs"] = "jobs"
  /\ \A level \in DOMAIN Presets :
       {"bail", "jobs"} \cap (DOMAIN Presets[level] \union DOMAIN PresetTools[level]) = {}
  /\ {"bail", "jobs"} \cap (DOMAIN Discovered \union MypyFlags \union MypyStrict) = {}
BY FieldsAssumption, ToolsAssumption DEF Of

LEMMA LevelIs == TypeOK => Level \in DOMAIN Presets
BY CommandLinesAssumption, ToolsAssumption DEF TypeOK, Level

LEMMA BailStep == TypeOK /\ BailIsSerial /\ [Next]_vars => BailIsSerial'
<1> SUFFICES ASSUME TypeOK, BailIsSerial, [Next]_vars PROVE BailIsSerial'
  OBVIOUS
<1>1. CASE CloseSource
  <2>1. CASE Invalid(Document)
    BY <1>1, <2>1 DEF CloseSource, BailIsSerial
  <2>2. CASE ~Invalid(Document)
    <3>1. config' = MergedConfig(Document)
      BY <1>1, <2>2 DEF CloseSource
    <3>2. CASE DOMAIN Document = {}
      BY <3>1, <3>2, BailAndJobs DEF MergedConfig, BailIsSerial
    <3>3. CASE DOMAIN Document # {}
      <4>1. /\ config'["bail"] = Given(Document, "bail")
            /\ config'["jobs"] = Jobs(Document, Given(Document, "bail"), Given(Document, "jobs"))
        BY <3>1, <3>3, BailAndJobs DEF MergedConfig
      <4> QED BY <4>1 DEF Jobs, BailIsSerial
    <3> QED BY <3>2, <3>3
  <2> QED BY <2>1, <2>2
<1>2. CASE CommandLine
  <2>1. /\ config'["bail"] = Selected("bail")
        /\ config'["jobs"] = Jobs(cli.given, Selected("bail"), Selected("jobs"))
    BY <1>2, BailAndJobs DEF CommandLine
  <2> QED BY <2>1 DEF Jobs, BailIsSerial
<1>3. ASSUME config'["bail"] = config["bail"], config'["jobs"] = config["jobs"]
      PROVE  BailIsSerial'
  BY <1>3 DEF BailIsSerial
<1>4. CASE Discover
  <2>1. config'["bail"] = config["bail"] /\ config'["jobs"] = config["jobs"]
    BY <1>4, BailAndJobs DEF Discover
  <2> QED BY <1>3, <2>1
<1>5. CASE Preset
  <2>1. \A f \in {"bail", "jobs"} :
          f \in Fields /\ f \notin PresetKnobs /\ f \notin DOMAIN PresetTools[Level]
          /\ f \notin MypyStrict /\ f \notin MypyFlags /\ f # "by"
    BY BailAndJobs, LevelIs DEF PresetKnobs
  <2>2. config'["bail"] = config["bail"] /\ config'["jobs"] = config["jobs"]
    BY <1>5, <2>1 DEF Preset
  <2> QED BY <1>3, <2>2
<1>6. CASE SharedDefaults
  <2>1. config'["bail"] = config["bail"] /\ config'["jobs"] = config["jobs"]
    BY <1>6, BailAndJobs DEF SharedDefaults
  <2> QED BY <1>3, <2>1
<1>7. CASE OpenSource \/ Include \/ CloseInclude \/ UNCHANGED vars
  <2>1. config' = config
    BY <1>7 DEF OpenSource, Include, CloseInclude, Loading, vars
  <2> QED BY <1>3, <2>1
<1> QED BY <1>1, <1>2, <1>4, <1>5, <1>6, <1>7 DEF Next, Stop

\* Whatever layer sets bail, and whichever sets the jobs, bail means one job.
THEOREM BailAlwaysSerial == Spec => []BailIsSerial
<1>1. Init => TypeOK /\ BailIsSerial
  BY TypesInit, DefaultsAssumption DEF Init, BailIsSerial
<1>2. TypeOK /\ BailIsSerial /\ [Next]_vars => (TypeOK /\ BailIsSerial)'
  BY TypesStep, BailStep
<1> QED BY <1>1, <1>2, PTL DEF Spec
-----------------------------------------------------------------------------
(* The configuration that is loaded                                        *)

LEMMA ConfigCarriesInit == Init => ConfigCarries
<1> SUFFICES ASSUME Init PROVE ConfigCarries
  OBVIOUS
<1>1. DOMAIN loaded = {} /\ config = Defaults
  BY DEF Init
<1> QED BY <1>1 DEF ConfigCarries, Prior

\* The fields that each merge replaces
LEMMA ReplacedFields ==
  ASSUME NEW f \in Of(ReplacedKinds)
  PROVE  /\ f \in Fields /\ f # "jobs" /\ f # "roots"
         /\ Kind[f] # "append" /\ Kind[f] # "knob" /\ Kind[f] # "jobs"
<1>1. Kind["roots"] = "roots"
  BY FieldsAssumption DEF Of
<1> QED BY <1>1, FieldsAssumption DEF Of, ReplacedKinds

LEMMA ConfigCarriesStep ==
  TypeOK /\ InOrder /\ StackCarries /\ ConfigCarries /\ InOrder' /\ [Next]_vars
    => ConfigCarries'
<1> SUFFICES ASSUME TypeOK, InOrder, StackCarries, ConfigCarries, InOrder', [Next]_vars,
                    stage' = "load", NEW f \in Of(ReplacedKinds)
             PROVE  config'[f] = IF Prior(f)' = {} THEN Defaults[f]
                                 ELSE loaded'[Latest(Prior(f)')].fields[f]
  BY DEF ConfigCarries
<1>1. /\ f \in Fields /\ stage = "load"
      /\ config[f] = IF Prior(f) = {} THEN Defaults[f] ELSE loaded[Latest(Prior(f))].fields[f]
  BY LoadSteps, ReplacedFields DEF ConfigCarries
<1>2. ASSUME Prior(f)' = Prior(f), \A i \in Prior(f) : loaded'[i] = loaded[i],
             config'[f] = config[f]
      PROVE  config'[f] = IF Prior(f)' = {} THEN Defaults[f]
                          ELSE loaded'[Latest(Prior(f)')].fields[f]
  BY <1>1, <1>2, PriorIndices
<1>3. CASE config' = config /\ \/ loaded' = loaded /\ source' = source
                               \/ loaded' = loaded /\ stack = <<>> /\ source' = source + 1
                               \/ loaded' = Recorded /\ stack # <<>> /\ source' = source
  <2>1. Prior(f)' = Prior(f) /\ \A i \in Prior(f) : loaded'[i] = loaded[i]
    BY <1>3, PriorStays
  <2> QED BY <1>2, <1>3, <2>1
<1>4. CASE /\ loaded' = Recorded /\ Len(stack) = 1 /\ source' = source + 1
           /\ config' = MergedConfig(Document)
  <2>1. config'[f] = Given(Document, f)
    BY <1>4, ReplacedFields DEF MergedConfig, Given
  <2>2. /\ f \in DOMAIN Document =>
             Prior(f)' # {} /\ Document[f] = loaded'[Latest(Prior(f)')].fields[f]
        /\ f \notin DOMAIN Document =>
             Prior(f)' = Prior(f) /\ \A i \in Prior(f) : loaded'[i] = loaded[i]
    BY <1>1, <1>4, SourceClosed
  <2>3. CASE f \in DOMAIN Document
    BY <2>1, <2>2, <2>3 DEF Given
  <2>4. CASE f \notin DOMAIN Document
    <3>1. config'[f] = config[f]
      BY <2>1, <2>4 DEF Given
    <3> QED BY <1>2, <2>2, <2>4, <3>1
  <2> QED BY <2>3, <2>4
<1> QED BY <1>3, <1>4, LoadSteps

\* Once everything is loaded, what was set is what the documents merged say.
LEMMA AllIsPrior ==
  ASSUME TypeOK, InOrder, stack = <<>>, NEW f
  PROVE  SettingAny(f) = Prior(f)
<1>1. \A i \in DOMAIN loaded : loaded[i].source \in DOMAIN Sources /\ loaded[i].source < source
  <2>1. \A i \in DOMAIN loaded : loaded[i] \in Records
    BY LenProperties DEF TypeOK
  <2> QED BY <2>1 DEF Records, InOrder
<1> QED BY <1>1 DEF SettingAny, Setting, Prior

\* What a document sets is something.
LEMMA NeverAbsent ==
  ASSUME TypeOK, InOrder, NEW i \in DOMAIN loaded, NEW f \in DOMAIN loaded[i].fields
  PROVE  /\ loaded[i].fields[f] # Absent
         /\ Kind[f] \in ListKinds =>
              loaded[i].fields[f] = "invalid" \/ IsList(loaded[i].fields[f])
<1>1. loaded[i].fields = disk[loaded[i].file].fields
  BY DEF InOrder
<1>2. loaded[i] \in Records
  BY LenProperties DEF TypeOK
<1>3. loaded[i].file \in Files
  BY <1>2 DEF Records
<1> QED BY <1>1, <1>3, DocumentIs

(* The roots                                                               *)

LEMMA RootsField ==
  /\ "roots" \in Of(ListKinds) /\ "roots" \in Fields /\ Kind["roots"] = "roots"
  /\ "roots" \notin DOMAIN Discovered
  /\ IsList(Defaults["roots"]) /\ Defaults["roots"] # <<>>
<1>1. "roots" \in Fields /\ Kind["roots"] = "roots"
  BY FieldsAssumption DEF Of
<1>2. "roots" \in Of(ListKinds)
  BY <1>1 DEF Of, ListKinds
<1> QED BY <1>1, <1>2, DefaultsAssumption, ToolsAssumption DEF Of

\* Of a list each entry is taken once, so that only of none is none left.
LEMMA DistinctIs ==
  ASSUME NEW list, IsList(list)
  PROVE  /\ IsList(Appended(<<>>, list))
         /\ Appended(<<>>, list) = <<>> <=> list = <<>>
<1>1. IsList(<<>>) /\ ToSet(<<>>) = {}
  BY EmptySeq DEF IsList, ToSet
<1>2. IsList(Appended(<<>>, list)) /\ ToSet(Appended(<<>>, list)) = ToSet(list)
  BY <1>1, AppendedIs
<1>3. ASSUME NEW s, IsList(s) PROVE s = <<>> <=> ToSet(s) = {}
  <2>1. Len(s) \in Nat /\ DOMAIN s = 1..Len(s) /\ s \in Seq(ToSet(s))
    BY <1>3, ListIsSeq
  <2>2. s # <<>> => 1 \in DOMAIN s
    BY <2>1, EmptySeq
  <2> QED BY <1>1, <2>1, <2>2 DEF ToSet
<1> QED BY <1>2, <1>3

\* A list field of the document of a source that loads is a list.
LEMMA DocumentList ==
  ASSUME TypeOK, InOrder, StackCarries, stage = "load", stack # <<>>, ~Invalid(Document),
         NEW f \in Of(ListKinds), f \in DOMAIN Document
  PROVE  IsList(Document[f])
<1>1. f \in Fields /\ Kind[f] \in ListKinds /\ Document[f] # "invalid"
  BY DEF Of, Invalid, ListKinds
<1>2. CASE f \in DOMAIN disk[Top.file].fields
  BY <1>1, <1>2, TopIs, DocumentIs, DocumentType
<1>3. CASE f \notin DOMAIN disk[Top.file].fields
  <2>1. f \in DOMAIN Top.merged /\ Document[f] = Top.merged[f]
    BY <1>3, DocumentType
  <2>2. /\ Setting(f, source) # {}
        /\ Top.merged[f] = loaded[Latest(Setting(f, source))].fields[f]
    BY <1>1, <2>1, TopCarries
  <2>3. Latest(Setting(f, source)) \in Setting(f, source)
    BY <2>2, SettingIndices
  <2>4. /\ Latest(Setting(f, source)) \in DOMAIN loaded
        /\ f \in DOMAIN loaded[Latest(Setting(f, source))].fields
    BY <2>3 DEF Setting
  <2> QED BY <1>1, <2>1, <2>2, <2>4, NeverAbsent
<1> QED BY <1>2, <1>3

\* What was said between two sources stays said.
LEMMA SaidStays ==
  ASSUME TypeOK, InOrder, NEW i \in DOMAIN loaded,
         \/ loaded' = loaded /\ source' = source
         \/ loaded' = loaded /\ stack = <<>> /\ source' = source + 1
         \/ loaded' = Recorded /\ stack # <<>> /\ source' = source
  PROVE  SaidBetween(i)' <=> SaidBetween(i)
<1>0. source \in Nat /\ \A j \in DOMAIN loaded : loaded[j].source \in Nat
  <2>1. \A j \in DOMAIN loaded : loaded[j] \in Records
    BY LenProperties DEF TypeOK
  <2>2. DOMAIN Sources = 1..Len(Sources) /\ Len(Sources) \in Nat
    BY FilesAssumption, LenProperties
  <2> QED BY <2>1, <2>2 DEF Records, TypeOK
<1>1. CASE loaded' = loaded /\ source' = source
  BY <1>1 DEF SaidBetween
<1>2. CASE loaded' = loaded /\ stack = <<>> /\ source' = source + 1
  <2>1. \A j \in DOMAIN loaded : loaded[j].source < source /\ loaded[j].source < source + 1
    BY <1>0, <1>2 DEF InOrder
  <2> QED BY <1>2, <2>1 DEF SaidBetween
<1>3. CASE loaded' = Recorded /\ stack # <<>> /\ source' = source
  <2> DEFINE m == Len(loaded)
  <2>1. /\ m \in Nat /\ DOMAIN loaded = 1..m /\ DOMAIN loaded' = 1..(m + 1)
        /\ \A j \in DOMAIN loaded : loaded'[j] = loaded[j]
        /\ loaded'[m + 1].source = source
    BY <1>3, RecordedIs
  <2>2. \A j \in DOMAIN loaded' : j \in DOMAIN loaded \/ j = m + 1
    BY <2>1
  <2>3. \A j \in DOMAIN loaded : j \in DOMAIN loaded'
    BY <2>1
  <2>4. ~(loaded'[m + 1].source < source)
    BY <1>0, <2>1
  <2> HIDE DEF m
  <2> QED BY <1>3, <2>1, <2>2, <2>3, <2>4 DEF SaidBetween
<1> QED BY <1>1, <1>2, <1>3

\* When a source is merged that does not set the roots, something was said after
\* the document that did, if the source says anything.
LEMMA SaidByThis ==
  ASSUME TypeOK, InOrder, StackCarries, InOrder', stage = "load", Len(stack) = 1,
         loaded' = Recorded, source' = source + 1, NEW i \in DOMAIN loaded,
         loaded[i].source < source
  PROVE  SaidBetween(i)' <=> SaidBetween(i) \/ DOMAIN Document # {}
<1> DEFINE m == Len(loaded)
<1>1. stack # <<>> /\ source \in Nat
  <2>1. stack # <<>>
    BY EmptySeq
  <2> QED BY <2>1, SourceIsNatural
<1>2. /\ m \in Nat /\ DOMAIN loaded = 1..m /\ DOMAIN loaded' = 1..(m + 1)
      /\ \A j \in DOMAIN loaded : loaded'[j] = loaded[j]
      /\ loaded'[m + 1].source = source
      /\ loaded'[m + 1].fields = disk[Top.file].fields
  BY <1>1, RecordedIs
<1>3. \A j \in DOMAIN loaded : loaded[j].source \in Nat
  <2>1. \A j \in DOMAIN loaded : loaded[j] \in Records
    BY LenProperties DEF TypeOK
  <2>2. DOMAIN Sources = 1..Len(Sources)
    BY FilesAssumption, LenProperties
  <2> QED BY <2>1, <2>2 DEF Records
<1>4. \A j \in DOMAIN loaded' : j \in DOMAIN loaded \/ j = m + 1
  BY <1>2
<1>5. \A j \in DOMAIN loaded : j \in DOMAIN loaded'
  BY <1>2
<1>6. \A j \in DOMAIN loaded' : loaded'[j].source \in Nat
  BY <1>1, <1>2, <1>3, <1>4
<1>7. \A j \in DOMAIN loaded' : DOMAIN loaded'[j].fields \subseteq Fields
  <2>1. \A j \in DOMAIN loaded : DOMAIN loaded[j].fields \subseteq Fields
    <3>1. \A j \in DOMAIN loaded : loaded[j] \in Records
      BY LenProperties DEF TypeOK
    <3> QED BY <3>1 DEF Records, Fragments
  <2>2. DOMAIN disk[Top.file].fields \subseteq Fields
    BY <1>1, TopIs, DocumentIs
  <2> QED BY <1>2, <1>4, <2>1, <2>2
<1>8. DOMAIN Document \subseteq Fields
  BY <1>1, DocumentType DEF Fragments
<1>9. DOMAIN Document # {} <=>
        \E j \in DOMAIN loaded' : loaded'[j].source = source /\ DOMAIN loaded'[j].fields # {}
  <2>1. \A f \in Fields : \A s : s = source => (f \in DOMAIN Document <=> Setting(f, s)' # {})
    BY SourceClosed
  <2>2. \A f \in Fields : f \in DOMAIN Document <=>
          \E j \in DOMAIN loaded' : f \in DOMAIN loaded'[j].fields /\ loaded'[j].source = source
    BY <2>1 DEF Setting
  <2> HIDE DEF m
  <2> QED BY <1>7, <1>8, <2>2
<1> HIDE DEF m
<1>10. ASSUME SaidBetween(i)' PROVE SaidBetween(i) \/ DOMAIN Document # {}
  <2>1. PICK j \in DOMAIN loaded' :
          /\ loaded'[i].source < loaded'[j].source /\ loaded'[j].source < source + 1
          /\ DOMAIN loaded'[j].fields # {}
    BY <1>10 DEF SaidBetween
  <2>2. loaded'[j].source < source \/ loaded'[j].source = source
    BY <1>1, <1>6, <2>1
  <2>3. CASE loaded'[j].source = source
    BY <1>9, <2>1, <2>3
  <2>4. CASE loaded'[j].source < source
    <3>1. j \in DOMAIN loaded
      BY <1>1, <1>2, <1>4, <2>4
    <3> QED BY <1>2, <2>1, <2>4, <3>1 DEF SaidBetween
  <2> QED BY <2>2, <2>3, <2>4
<1>11. ASSUME SaidBetween(i) PROVE SaidBetween(i)'
  <2>1. PICK j \in DOMAIN loaded :
          /\ loaded[i].source < loaded[j].source /\ loaded[j].source < source
          /\ DOMAIN loaded[j].fields # {}
    BY <1>11 DEF SaidBetween
  <2>2. loaded[j].source < source + 1
    BY <1>1, <1>3, <2>1
  <2> QED BY <1>2, <1>5, <2>1, <2>2 DEF SaidBetween
<1>12. ASSUME DOMAIN Document # {} PROVE SaidBetween(i)'
  <2>1. PICK j \in DOMAIN loaded' : loaded'[j].source = source /\ DOMAIN loaded'[j].fields # {}
    BY <1>9, <1>12
  <2>2. loaded'[i].source < loaded'[j].source /\ loaded'[j].source < source + 1
    BY <1>1, <1>2, <2>1
  <2> QED BY <2>1, <2>2 DEF SaidBetween
<1> QED BY <1>10, <1>11, <1>12

LEMMA RootsCarryInit == Init => RootsCarry
<1> SUFFICES ASSUME Init PROVE RootsCarry
  OBVIOUS
<1>1. DOMAIN loaded = {} /\ config = Defaults
  BY DEF Init
<1> QED BY <1>1 DEF RootsCarry, Prior

\* The roots are a list as long as there is something to merge.
LEMMA RootsAreList ==
  ASSUME TypeOK, RootsCarry, stage \in {"load", "cli"}
  PROVE  IsList(config["roots"])
<1> DEFINE list == loaded[Latest(Prior("roots"))].fields["roots"]
<1>1. CASE Prior("roots") = {}
  BY <1>1, RootsField DEF RootsCarry
<1>2. CASE Prior("roots") # {}
  <2>1. IsList(list) /\ config["roots"] \in {<<ProjectRoot>>, Appended(<<>>, list)}
    BY <1>2 DEF RootsCarry, RootsFrom
  <2> HIDE DEF list
  <2>2. <<ProjectRoot>> \in Seq({ProjectRoot})
    OBVIOUS
  <2> QED BY <2>1, <2>2, DistinctIs, SeqIsList
<1> QED BY <1>1, <1>2

LEMMA RootsCarryStep ==
  TypeOK /\ InOrder /\ StackCarries /\ RootsCarry /\ InOrder' /\ [Next]_vars => RootsCarry'
<1> SUFFICES ASSUME TypeOK, InOrder, StackCarries, RootsCarry, InOrder', [Next]_vars,
                    stage' \in {"load", "cli"}
             PROVE  RootsCarry'
  BY DEF RootsCarry
<1> DEFINE last == Latest(Prior("roots"))
           list == loaded[last].fields["roots"]
<1>1. stage \in {"load", "cli"}
  BY DEF Next, Stop, OpenSource, Include, CloseInclude, CloseSource, Discover, CommandLine,
         Preset, SharedDefaults, vars
<1>2. /\ Prior("roots") = {} => config["roots"] = Defaults["roots"]
      /\ Prior("roots") # {} => IsList(list) /\ config["roots"] = RootsFrom(last)
  BY <1>1 DEF RootsCarry
<1>3. Prior("roots") # {} => last \in Prior("roots") /\ last \in DOMAIN loaded
  BY PriorIndices
<1>4. ASSUME config'["roots"] = config["roots"],
             \/ loaded' = loaded /\ source' = source
             \/ loaded' = loaded /\ stack = <<>> /\ source' = source + 1
             \/ loaded' = Recorded /\ stack # <<>> /\ source' = source
      PROVE  RootsCarry'
  <2>1. Prior("roots")' = Prior("roots") /\ \A i \in Prior("roots") : loaded'[i] = loaded[i]
    BY <1>4, PriorStays
  <2>2. Prior("roots") # {} => RootsFrom(last)' = RootsFrom(last)
    <3>1. \A i \in DOMAIN loaded : SaidBetween(i)' <=> SaidBetween(i)
      BY <1>4, SaidStays
    <3>2. ASSUME Prior("roots") # {} PROVE loaded'[last] = loaded[last] /\ last' = last
      BY <1>3, <2>1, <3>2
    <3> QED BY <1>3, <2>1, <3>1, <3>2 DEF RootsFrom
  <2> QED BY <1>2, <1>3, <1>4, <2>1, <2>2 DEF RootsCarry
<1>5. CASE /\ loaded' = Recorded /\ Len(stack) = 1 /\ source' = source + 1 /\ stage = "load"
           /\ config' = MergedConfig(Document) /\ ~Invalid(Document)
  <2>1. stack # <<>>
    BY <1>5, EmptySeq
  <2>2. config'["roots"] = IF DOMAIN Document = {} THEN config["roots"]
                           ELSE MergedRoots(Document)
    BY <1>5, RootsField DEF MergedConfig
  <2>3. CASE "roots" \in DOMAIN Document
    <3>1. PICK new \in DOMAIN loaded' :
            /\ Prior("roots")' # {} /\ new = Latest(Prior("roots")')
            /\ Document["roots"] = loaded'[new].fields["roots"]
            /\ loaded'[new].source = source
      BY <1>5, <2>3, SourceClosed, RootsField
    <3>2. IsList(Document["roots"])
      BY <1>5, <2>1, <2>3, DocumentList, RootsField
    <3>3. config'["roots"] = Appended(<<>>, Document["roots"])
      BY <2>2, <2>3 DEF MergedRoots
    <3>4. \A j \in DOMAIN loaded' : ~(source < loaded'[j].source)
      BY <1>5, <2>1, ThisIsLast, SourceIsNatural
    <3>5. ~SaidBetween(new)'
      BY <3>1, <3>4 DEF SaidBetween
    <3>6. RootsFrom(new)' = Appended(<<>>, Document["roots"])
      BY <3>1, <3>5 DEF RootsFrom
    <3> QED BY <3>1, <3>2, <3>3, <3>6 DEF RootsCarry
  <2>4. CASE "roots" \notin DOMAIN Document
    <3>1. Prior("roots")' = Prior("roots") /\ \A i \in Prior("roots") : loaded'[i] = loaded[i]
      BY <1>5, <2>4, SourceClosed, RootsField
    <3>2. config'["roots"] = IF DOMAIN Document # {} /\ config["roots"] = <<>>
                             THEN <<ProjectRoot>> ELSE config["roots"]
      BY <2>2, <2>4 DEF MergedRoots
    <3>3. CASE Prior("roots") = {}
      BY <1>2, <3>1, <3>2, <3>3, RootsField DEF RootsCarry
    <3>4. CASE Prior("roots") # {}
      <4>1. /\ last' = last /\ list' = list /\ IsList(list)
            /\ config["roots"] = RootsFrom(last)
        BY <1>2, <1>3, <3>1, <3>4
      <4>2. loaded[last].source < source
        BY <1>3, <3>4 DEF Prior
      <4>3. SaidBetween(last)' <=> SaidBetween(last) \/ DOMAIN Document # {}
        <5>1. \A i \in DOMAIN loaded : loaded[i].source < source =>
                (SaidBetween(i)' <=> SaidBetween(i) \/ DOMAIN Document # {})
          BY <1>5, SaidByThis
        <5> QED BY <1>3, <3>4, <4>1, <4>2, <5>1 DEF SaidBetween
      <4>4. Appended(<<>>, list) = <<>> <=> list = <<>>
        BY <4>1, DistinctIs
      <4>5. RootsFrom(last)' =
              IF list = <<>> /\ (SaidBetween(last) \/ DOMAIN Document # {}) THEN <<ProjectRoot>>
              ELSE Appended(<<>>, list)
        BY <4>1, <4>3 DEF RootsFrom
      <4>6. config["roots"] = IF list = <<>> /\ SaidBetween(last) THEN <<ProjectRoot>>
                              ELSE Appended(<<>>, list)
        BY <4>1 DEF RootsFrom
      <4>7. <<ProjectRoot>> # <<>>
        OBVIOUS
      <4> HIDE DEF list, last
      <4>8. config'["roots"] = RootsFrom(last)'
        BY <3>2, <4>4, <4>5, <4>6, <4>7
      <4> QED BY <3>1, <3>4, <4>1, <4>8 DEF RootsCarry, last, list
    <3> QED BY <3>3, <3>4
  <2> QED BY <2>3, <2>4
<1>6. CASE stage' = "load"
  BY <1>4, <1>5, <1>6, LoadSteps
<1>7. CASE stage' = "cli"
  <2>1. Discover \/ UNCHANGED vars
    BY <1>7 DEF Next, Stop, OpenSource, Include, CloseInclude, CloseSource, CommandLine, Preset,
         SharedDefaults
  <2>2. config'["roots"] = config["roots"] /\ loaded' = loaded /\ source' = source
    BY <2>1, RootsField DEF Discover, vars
  <2> QED BY <1>4, <2>2
<1> QED BY <1>6, <1>7

\* Once everything is loaded, the roots are what the documents make them.
LEMMA RootsAreSet ==
  ASSUME TypeOK, InOrder, RootsCarry, stage = "load", stack = <<>>
  PROVE  config["roots"] = RootsSet
<1>1. SettingAny("roots") = Prior("roots")
  BY AllIsPrior
<1>2. \A i : SaidBetween(i) <=> SaidAfter(i)
  BY DEF InOrder, SaidBetween, SaidAfter
<1> QED BY <1>1, <1>2 DEF RootsCarry, RootsFrom, RootsSet

(* What the loader hands on                                                *)

LEMMA LaterWinsStep ==
  TypeOK /\ InOrder /\ ConfigCarries /\ RootsCarry /\ LaterSourceWins /\ [Next]_vars
    => LaterSourceWins'
<1> SUFFICES ASSUME TypeOK, InOrder, ConfigCarries, RootsCarry, LaterSourceWins, [Next]_vars,
                    stage' = "cli"
             PROVE  LaterSourceWins'
  BY DEF LaterSourceWins
<1>1. CASE Discover
  <2>1. /\ stage = "load" /\ stack = <<>> /\ loaded' = loaded
        /\ \A f \in Fields : f \notin DOMAIN Discovered => config'[f] = config[f]
    BY <1>1 DEF Discover
  <2>2. ASSUME NEW f \in Of(ReplacedKinds) \ DOMAIN Discovered
        PROVE  config'[f] = WasSet(f, Defaults[f])'
    <3>1. SettingAny(f) = Prior(f)
      BY <2>1, AllIsPrior
    <3>2. config[f] = WasSet(f, Defaults[f])
      BY <2>1, <3>1 DEF ConfigCarries, WasSet
    <3>3. WasSet(f, Defaults[f])' = WasSet(f, Defaults[f])
      BY <2>1 DEF WasSet, SettingAny, Setting
    <3> QED BY <2>1, <3>2, <3>3, ReplacedFields
  <2>3. config["roots"] = RootsSet
    BY <2>1, RootsAreSet
  <2>4. RootsSet' = RootsSet
    BY <2>1 DEF RootsSet, SaidAfter, SettingAny, Setting
  <2> QED BY <2>1, <2>2, <2>3, <2>4, RootsField DEF LaterSourceWins
<1>2. CASE UNCHANGED vars
  <2>1. \A f : SettingAny(f)' = SettingAny(f) /\ UNCHANGED <<stage, config, loaded>>
    BY <1>2 DEF vars, SettingAny, Setting
  <2>2. \A f, d : WasSet(f, d)' = WasSet(f, d)
    BY <2>1 DEF WasSet
  <2>3. RootsSet' = RootsSet
    BY <2>1 DEF RootsSet, SaidAfter
  <2> QED BY <2>1, <2>2, <2>3 DEF LaterSourceWins
<1>3. stage' = "cli" => Discover \/ UNCHANGED vars
  BY DEF Next, Stop, OpenSource, Include, CloseInclude, CloseSource, CommandLine, Preset,
         SharedDefaults
<1> QED BY <1>1, <1>2, <1>3
-----------------------------------------------------------------------------
(* Lists                                                                   *)

LEMMA ListsCarryInit == Init => ListsCarry
<1> SUFFICES ASSUME Init PROVE ListsCarry
  OBVIOUS
<1>1. DOMAIN loaded = {} /\ config = Defaults
  BY DEF Init
<1>2. \A f, s : Setting(f, s) = {}
  BY <1>1 DEF Setting
<1>3. Of({"append"}) \subseteq Of(ListKinds)
  BY DEF Of, ListKinds
<1> QED BY <1>1, <1>2, <1>3, DefaultsAssumption DEF ListsCarry

LEMMA ListsCarryStep ==
  TypeOK /\ InOrder /\ StackCarries /\ ListsCarry /\ InOrder' /\ [Next]_vars => ListsCarry'
<1> SUFFICES ASSUME TypeOK, InOrder, StackCarries, ListsCarry, InOrder', [Next]_vars,
                    stage' \in {"load", "cli"}, NEW f \in Of({"append"})
             PROVE  /\ IsList(config'[f]) /\ IsInjective(config'[f])
                    /\ \A s \in DOMAIN Sources : s < source' /\ Setting(f, s)' # {} =>
                         ToSet(loaded'[Latest(Setting(f, s)')].fields[f]) \subseteq ToSet(config'[f])
  BY DEF ListsCarry
<1> DEFINE Kept(s) == ToSet(loaded[Latest(Setting(f, s))].fields[f])
<1>1. /\ f \in Fields /\ Kind[f] = "append" /\ f # "jobs" /\ f # "roots"
      /\ f \notin DOMAIN Discovered /\ f \in Of(ListKinds)
  BY FieldsAssumption, ToolsAssumption, RootsField DEF Of, ListKinds
<1>2. stage \in {"load", "cli"} /\ source \in Nat /\ \A s \in DOMAIN Sources : s \in Nat
  <2>1. source \in Nat /\ \A s \in DOMAIN Sources : s \in Nat
    BY FilesAssumption, LenProperties DEF TypeOK
  <2>2. stage \in {"load", "cli"}
    BY DEF Next, Stop, OpenSource, Include, CloseInclude, CloseSource, Discover, CommandLine,
           Preset, SharedDefaults, vars
  <2> QED BY <2>1, <2>2
<1>3. /\ IsList(config[f]) /\ IsInjective(config[f])
      /\ \A s \in DOMAIN Sources : s < source /\ Setting(f, s) # {} =>
           Kept(s) \subseteq ToSet(config[f])
  BY <1>2 DEF ListsCarry
<1>4. CASE config'[f] = config[f] /\ loaded' = loaded /\ source' = source
  <2>1. \A s : Setting(f, s)' = Setting(f, s)
    BY <1>4 DEF Setting
  <2> QED BY <1>3, <1>4, <2>1
<1>5. CASE config' = config /\ loaded' = loaded /\ stack = <<>> /\ source' = source + 1
  <2>1. \A s : Setting(f, s)' = Setting(f, s)
    BY <1>5 DEF Setting
  <2>2. Setting(f, source) = {}
    BY <1>2, <1>5 DEF InOrder, Setting
  <2>3. \A s \in DOMAIN Sources : s < source + 1 => s < source \/ s = source
    BY <1>2
  <2> QED BY <1>3, <1>5, <2>1, <2>2, <2>3
<1>6. ASSUME loaded' = Recorded, stack # <<>>, NEW s, s # source, Setting(f, s)' # {}
      PROVE  /\ Setting(f, s) # {}
             /\ ToSet(loaded'[Latest(Setting(f, s)')].fields[f]) = Kept(s)
  <2>1. Setting(f, s)' = Setting(f, s) /\ \A i \in DOMAIN loaded : loaded'[i] = loaded[i]
    BY <1>6, EarlierStay
  <2>2. Latest(Setting(f, s)) \in DOMAIN loaded
    <3>1. Latest(Setting(f, s)) \in Setting(f, s)
      BY <1>6, <2>1, SettingIndices
    <3> QED BY <3>1 DEF Setting
  <2> QED BY <1>6, <2>1, <2>2
<1>7. CASE config' = config /\ loaded' = Recorded /\ stack # <<>> /\ source' = source
  <2>1. \A s \in DOMAIN Sources : s < source => s # source
    BY <1>2
  <2> QED BY <1>3, <1>6, <1>7, <2>1
<1>8. CASE /\ loaded' = Recorded /\ Len(stack) = 1 /\ source' = source + 1 /\ stage = "load"
           /\ config' = MergedConfig(Document) /\ ~Invalid(Document)
  <2>1. stack # <<>>
    BY <1>8, EmptySeq
  <2>2. \A s : s = source =>
          /\ f \in DOMAIN Document <=> Setting(f, s)' # {}
          /\ f \in DOMAIN Document => Document[f] = loaded'[Latest(Setting(f, s)')].fields[f]
    BY <1>1, <1>8, SourceClosed
  <2>3. \A s \in DOMAIN Sources : s < source + 1 => s = source \/ (s < source /\ s # source)
    BY <1>2
  <2>4. CASE f \in DOMAIN Document
    <3>1. config'[f] = Appended(config[f], Document[f])
      BY <1>1, <1>8, <2>4 DEF MergedConfig
    <3>2. IsList(Document[f])
      BY <1>1, <1>8, <2>1, <2>4, DocumentList
    <3>3. /\ IsList(config'[f]) /\ IsInjective(config'[f])
          /\ ToSet(config'[f]) = ToSet(config[f]) \union ToSet(Document[f])
      BY <1>3, <3>1, <3>2, AppendedIs
    <3>4. ASSUME NEW s \in DOMAIN Sources, s < source', Setting(f, s)' # {}
          PROVE  ToSet(loaded'[Latest(Setting(f, s)')].fields[f]) \subseteq ToSet(config'[f])
      <4>1. CASE s = source
        BY <4>1, <2>2, <2>4, <3>3
      <4>2. CASE s < source /\ s # source
        BY <4>2, <1>3, <1>6, <1>8, <2>1, <3>3, <3>4
      <4> QED BY <4>1, <4>2, <1>8, <2>3, <3>4
    <3> QED BY <3>3, <3>4
  <2>5. CASE f \notin DOMAIN Document
    <3>1. config'[f] = config[f]
      BY <1>1, <1>8, <2>5 DEF MergedConfig, Given
    <3>2. ASSUME NEW s \in DOMAIN Sources, s < source', Setting(f, s)' # {}
          PROVE  ToSet(loaded'[Latest(Setting(f, s)')].fields[f]) \subseteq ToSet(config'[f])
      <4>1. s < source /\ s # source
        BY <1>8, <2>2, <2>3, <2>5, <3>2
      <4> QED BY <4>1, <1>3, <1>6, <1>8, <2>1, <3>1, <3>2
    <3> QED BY <1>3, <3>1, <3>2
  <2> QED BY <2>4, <2>5
<1>9. CASE stage' = "load"
  BY <1>4, <1>5, <1>7, <1>8, <1>9, LoadSteps
<1>10. CASE stage' = "cli"
  <2>1. Discover \/ UNCHANGED vars
    BY <1>10 DEF Next, Stop, OpenSource, Include, CloseInclude, CloseSource, CommandLine, Preset,
         SharedDefaults
  <2>2. config'[f] = config[f] /\ loaded' = loaded /\ source' = source
    BY <1>1, <2>1 DEF Discover, vars
  <2> QED BY <1>4, <2>2
<1> QED BY <1>9, <1>10
-----------------------------------------------------------------------------
(* The trace                                                               *)

\* An update that is appended decides what the trace says of its fields.
LEMMA ReplayedTraced ==
  ASSUME IsList(trace), NEW name, NEW changed, NEW new, trace' = Traced(name, changed, new), NEW f
  PROVE  Replayed(f)' = IF f \in changed THEN new[f] ELSE Replayed(f)
<1> DEFINE m == Len(trace)
           u == [source |-> name, changes |-> [g \in changed |-> new[g]]]
<1>1. CASE changed = {}
  BY <1>1 DEF Traced, Replayed, Updates
<1>2. CASE changed # {}
  <2>1. trace' = Append(trace, u)
    BY <1>2 DEF Traced
  <2>2. u.changes = [g \in changed |-> new[g]]
    OBVIOUS
  <2> HIDE DEF u
  <2>3. /\ m \in Nat /\ DOMAIN trace = 1..m /\ DOMAIN trace' = 1..(m + 1)
        /\ trace'[m + 1] = u /\ \A i \in 1..m : trace'[i] = trace[i]
    BY <2>1, ListAppend, ListIsSeq
  <2> HIDE DEF m
  <2>4. Updates(f) \subseteq 1..m
    BY <2>3 DEF Updates
  <2>5. CASE f \in changed
    <3>1. m + 1 \in Updates(f)' /\ Updates(f)' \subseteq 1..(m + 1)
      BY <2>2, <2>3, <2>5 DEF Updates
    <3>2. Updates(f)' \subseteq Nat /\ \A i \in Updates(f)' : i <= m + 1
      BY <2>3, <3>1
    <3>3. Latest(Updates(f)') = m + 1
      BY <3>1, <3>2, LatestIs
    <3> QED BY <2>2, <2>3, <2>5, <3>1, <3>3 DEF Replayed
  <2>6. CASE f \notin changed
    <3>1. Updates(f)' = Updates(f)
      <4>1. \A i \in 1..(m + 1) : i \in 1..m \/ i = m + 1
        BY <2>3
      <4>2. \A i \in 1..m : i \in 1..(m + 1)
        BY <2>3
      <4>3. f \notin DOMAIN trace'[m + 1].changes
        BY <2>2, <2>3, <2>6
      <4> QED BY <2>3, <4>1, <4>2, <4>3 DEF Updates
    <3>2. Updates(f) # {} => Latest(Updates(f)) \in Updates(f)
      BY <2>3, <2>4, LatestOf
    <3> QED BY <2>3, <2>4, <2>6, <3>1, <3>2 DEF Replayed
  <2> QED BY <2>5, <2>6
<1> QED BY <1>1, <1>2

LEMMA TraceCarriesInit == Init => TraceCarries
<1> SUFFICES ASSUME Init PROVE TraceCarries
  OBVIOUS
<1>1. DOMAIN trace = {} /\ config = Defaults
  BY DEF Init
<1> QED BY <1>1 DEF TraceCarries, Replayed, Updates

LEMMA TraceCarriesStep == TypeOK /\ TraceCarries /\ [Next]_vars => TraceCarries'
<1> SUFFICES ASSUME TypeOK, TraceCarries, [Next]_vars, stage' \in {"load", "cli"},
                    NEW f \in Fields
             PROVE  config'[f] = Replayed(f)'
  BY DEF TraceCarries
<1>1. stage \in {"load", "cli"}
  BY DEF Next, Stop, OpenSource, Include, CloseInclude, CloseSource, Discover, CommandLine,
         Preset, SharedDefaults, vars
<1>2. config[f] = Replayed(f) /\ IsList(trace)
  BY <1>1 DEF TraceCarries, TypeOK
<1>3. CASE config' = config /\ trace' = trace
  BY <1>2, <1>3 DEF Replayed, Updates
<1>4. CASE /\ config' = MergedConfig(Document)
           /\ trace' = Traced(Sources[source], Changed(Document, config'), config')
  BY <1>2, <1>4, ReplayedTraced DEF Changed
<1>5. CASE Discover
  <2> DEFINE found == {g \in DOMAIN Discovered : config[g] = Absent}
             new == [g \in Fields |-> IF g \in found THEN Discovered[g] ELSE config[g]]
  <2>1. config' = new /\ trace' = Traced("auto", found, new)
    BY <1>5 DEF Discover
  <2>2. new[f] = IF f \in found THEN new[f] ELSE config[f]
    OBVIOUS
  <2> HIDE DEF found, new
  <2> QED BY <1>2, <2>1, <2>2, ReplayedTraced
<1>6. CASE stage' = "load"
  BY <1>3, <1>4, <1>6, LoadSteps
<1>7. CASE stage' = "cli"
  <2>1. Discover \/ UNCHANGED vars
    BY <1>7 DEF Next, Stop, OpenSource, Include, CloseInclude, CloseSource, CommandLine, Preset,
         SharedDefaults
  <2> QED BY <1>3, <1>5, <2>1 DEF vars
<1> QED BY <1>6, <1>7

\* Documents are only added.
LEMMA SettingGrows ==
  ASSUME TypeOK, [Next]_vars, NEW f, NEW s
  PROVE  Setting(f, s) \subseteq Setting(f, s)'
<1>1. CASE loaded' = loaded
  BY <1>1 DEF Setting
<1>2. CASE CloseInclude \/ CloseSource
  <2>1. CASE CloseInclude
    <3>1. loaded' = Recorded /\ Len(stack) > 1
      BY <2>1 DEF CloseInclude
    <3>2. stack # <<>>
      BY <3>1, EmptySeq
    <3> QED BY <3>1, <3>2, EarlierStay
  <2>2. CASE CloseSource
    <3>1. loaded' = Recorded /\ Len(stack) = 1
      BY <2>2 DEF CloseSource
    <3>2. stack # <<>>
      BY <3>1, EmptySeq
    <3> QED BY <3>1, <3>2, EarlierStay
  <2> QED BY <1>2, <2>1, <2>2
<1> QED BY <1>1, <1>2
        DEF Next, Stop, OpenSource, Include, Discover, CommandLine, Preset, SharedDefaults, vars

\* A source before set the roots to none.
Emptied(s) ==
  \E j \in SettingAny("roots") : loaded[j].source < s /\ loaded[j].fields["roots"] = <<>>

LEMMA EmptiedStays == ASSUME TypeOK, [Next]_vars PROVE \A s : Emptied(s) => Emptied(s)'
<1>1. \A s : Setting("roots", s) \subseteq Setting("roots", s)'
  BY SettingGrows
<1>2. \A j \in DOMAIN loaded : loaded'[j] = loaded[j]
  <2>1. CASE loaded' = loaded
    BY <2>1
  <2>2. CASE CloseInclude
    <3>1. loaded' = Recorded /\ stack # <<>>
      BY <2>2, EmptySeq DEF CloseInclude
    <3> QED BY <3>1, EarlierStay
  <2>3. CASE CloseSource
    <3>1. loaded' = Recorded /\ stack # <<>>
      BY <2>3, EmptySeq DEF CloseSource
    <3> QED BY <3>1, EarlierStay
  <2> QED BY <2>1, <2>2, <2>3
          DEF Next, Stop, OpenSource, Include, Discover, CommandLine, Preset, SharedDefaults, vars
<1>3. SettingAny("roots") \subseteq SettingAny("roots")' \cap DOMAIN loaded
  BY <1>1 DEF SettingAny, Setting
<1> QED BY <1>2, <1>3 DEF Emptied

\* The roots are none only when a source before set them so.
LEMMA EmptyRoots ==
  ASSUME TypeOK, InOrder, RootsCarry, stage = "load", config["roots"] = <<>>
  PROVE  \A s : s = source => Emptied(s)
<1> DEFINE last == Latest(Prior("roots"))
<1>1. Prior("roots") # {}
  BY RootsField DEF RootsCarry
<1>2. /\ last \in DOMAIN loaded /\ "roots" \in DOMAIN loaded[last].fields
      /\ loaded[last].source < source
  BY <1>1, PriorIndices DEF Prior
<1>3. loaded[last].source \in DOMAIN Sources
  <2>1. loaded[last] \in Records
    BY <1>2, LenProperties DEF TypeOK
  <2> QED BY <2>1 DEF Records
<1>4. IsList(loaded[last].fields["roots"]) /\ config["roots"] = RootsFrom(last)
  BY <1>1 DEF RootsCarry
<1> HIDE DEF last
<1>5. loaded[last].fields["roots"] = <<>>
  <2>1. <<ProjectRoot>> # <<>>
    OBVIOUS
  <2> QED BY <1>4, <2>1, DistinctIs DEF RootsFrom
<1>6. last \in SettingAny("roots")
  BY <1>2, <1>3 DEF SettingAny, Setting
<1> QED BY <1>2, <1>5, <1>6 DEF Emptied

LEMMA BlameInit == Init => BlameIsRight
<1> SUFFICES ASSUME Init PROVE BlameIsRight
  OBVIOUS
<1>1. DOMAIN trace = {}
  BY DEF Init
<1> QED BY <1>1 DEF BlameIsRight

LEMMA BlameStep ==
  TypeOK /\ InOrder /\ StackCarries /\ RootsCarry /\ BailIsSerial /\ BlameIsRight /\ InOrder'
  /\ [Next]_vars => BlameIsRight'
<1> SUFFICES ASSUME TypeOK, InOrder, StackCarries, RootsCarry, BailIsSerial, BlameIsRight,
                    InOrder', [Next]_vars
             PROVE  BlameIsRight'
  OBVIOUS
<1> DEFINE Blamed(u) ==
             \E s \in DOMAIN Sources : Sources[s] = u.source /\
               \A f \in DOMAIN u.changes :
                 \/ Setting(f, s)' # {}
                 \/ f = "jobs" /\ Setting("bail", s)' # {}
                 \/ f = "roots" /\ u.changes[f] = <<ProjectRoot>> /\ Emptied(s)'
<1>1. \A i \in DOMAIN trace : trace[i].source = "auto" \/ Blamed(trace[i])
  <2>1. \A f, s : Setting(f, s) # {} => Setting(f, s)' # {}
    BY SettingGrows
  <2>2. \A s : Emptied(s) => Emptied(s)'
    BY EmptiedStays
  <2>3. ASSUME NEW i \in DOMAIN trace, trace[i].source # "auto" PROVE Blamed(trace[i])
    <3>1. PICK s \in DOMAIN Sources : Sources[s] = trace[i].source /\
            \A f \in DOMAIN trace[i].changes :
              \/ Setting(f, s) # {}
              \/ f = "jobs" /\ Setting("bail", s) # {}
              \/ /\ f = "roots" /\ trace[i].changes[f] = <<ProjectRoot>>
                 /\ \E j \in SettingAny(f) : loaded[j].source < s /\ loaded[j].fields[f] = <<>>
      BY <2>3 DEF BlameIsRight
    <3>2. ASSUME NEW f, f = "roots",
                 \E j \in SettingAny(f) : loaded[j].source < s /\ loaded[j].fields[f] = <<>>
          PROVE  Emptied(s)
      BY <3>2 DEF Emptied
    <3> QED BY <2>1, <2>2, <3>1, <3>2
  <2> QED BY <2>3
<1>2. (\A i \in DOMAIN trace' : trace'[i].source = "auto" \/ Blamed(trace'[i])) => BlameIsRight'
  BY DEF BlameIsRight, Emptied
<1>3. ASSUME NEW name, NEW changed, NEW new, trace' = Traced(name, changed, new),
             name = "auto" \/ Blamed([source |-> name, changes |-> [f \in changed |-> new[f]]])
      PROVE  BlameIsRight'
  <2> DEFINE u == [source |-> name, changes |-> [f \in changed |-> new[f]]]
  <2>1. CASE changed = {}
    <3>1. trace' = trace
      BY <1>3, <2>1 DEF Traced
    <3> HIDE DEF Blamed
    <3> QED BY <1>1, <1>2, <3>1
  <2>2. CASE changed # {}
    <3>1. trace' = Append(trace, u) /\ IsList(trace) /\ u.source = name
      BY <1>3, <2>2 DEF Traced, TypeOK
    <3>2. name = "auto" \/ Blamed(u)
      BY <1>3
    <3> HIDE DEF u, Blamed
    <3>3. /\ DOMAIN trace = 1..Len(trace) /\ DOMAIN trace' = 1..(Len(trace) + 1)
          /\ trace'[Len(trace) + 1] = u /\ \A i \in 1..Len(trace) : trace'[i] = trace[i]
          /\ Len(trace) \in Nat
      BY <3>1, ListAppend, ListIsSeq
    <3>4. \A i \in DOMAIN trace' : i \in DOMAIN trace \/ i = Len(trace) + 1
      BY <3>3
    <3> QED BY <1>1, <1>2, <3>1, <3>2, <3>3, <3>4
  <2> QED BY <2>1, <2>2
<1>4. CASE trace' = trace
  <2> HIDE DEF Blamed
  <2> QED BY <1>1, <1>2, <1>4
<1>5. CASE CloseSource /\ ~Invalid(Document)
  <2> DEFINE new == MergedConfig(Document)
             changed == Changed(Document, new)
  <2>1. /\ loaded' = Recorded /\ Len(stack) = 1 /\ source' = source + 1 /\ stage = "load"
        /\ trace' = Traced(Sources[source], changed, new) /\ stack # <<>>
    BY <1>5, EmptySeq DEF CloseSource
  <2>2. source \in DOMAIN Sources
    BY <2>1, TopIs
  <2>3. \A f \in Fields : \A s : s = source => (f \in DOMAIN Document <=> Setting(f, s)' # {})
    BY <2>1, SourceClosed
  <2>4. ASSUME NEW f \in changed, f \notin DOMAIN Document
        PROVE  \/ f = "jobs" /\ "bail" \in DOMAIN Document
               \/ f = "roots" /\ new[f] = <<ProjectRoot>> /\ config[f] = <<>>
    <3>1. f \in Fields /\ new[f] # config[f] /\ DOMAIN Document # {}
      BY <2>4 DEF Changed, MergedConfig
    <3>2. f \in {"jobs", "roots"}
      BY <3>1, <2>4 DEF MergedConfig, Given
    <3>3. CASE f = "jobs"
      <4>1. new["jobs"] = Jobs(Document, Given(Document, "bail"), config["jobs"])
        BY <2>4, <3>1, <3>3, BailAndJobs DEF MergedConfig, Given
      <4>2. Given(Document, "bail") = "true" /\ config["jobs"] # "1"
        BY <3>1, <3>3, <4>1 DEF Jobs
      <4> QED BY <3>3, <4>2 DEF Given, BailIsSerial
    <3>4. CASE f = "roots"
      <4>1. new["roots"] = MergedRoots(Document)
        BY <3>1, <3>4, RootsField DEF MergedConfig
      <4> QED BY <2>4, <3>1, <3>4, <4>1 DEF MergedRoots
    <3> QED BY <3>2, <3>3, <3>4
  <2>7. \A s : s = source /\ config["roots"] = <<>> => Emptied(s)'
    <3>1. \A s : s = source /\ config["roots"] = <<>> => Emptied(s)
      BY <2>1, EmptyRoots
    <3> QED BY <3>1, EmptiedStays
  <2>5. \A s : s = source => \A f \in changed :
          \/ Setting(f, s)' # {}
          \/ f = "jobs" /\ Setting("bail", s)' # {}
          \/ f = "roots" /\ new[f] = <<ProjectRoot>> /\ Emptied(s)'
    <3>1. changed \subseteq Fields /\ "bail" \in Fields
      BY BailAndJobs DEF Changed
    <3> HIDE DEF changed, new
    <3> QED BY <2>3, <2>4, <2>7, <3>1
  <2> HIDE DEF changed, new
  <2>6. Blamed([source |-> Sources[source], changes |-> [f \in changed |-> new[f]]])
    BY <2>2, <2>5
  <2> HIDE DEF Blamed
  <2> QED BY <1>3, <2>1, <2>6
<1>6. CASE Discover
  <2> DEFINE found == {f \in DOMAIN Discovered : config[f] = Absent}
             new == [f \in Fields |-> IF f \in found THEN Discovered[f] ELSE config[f]]
  <2>1. trace' = Traced("auto", found, new)
    BY <1>6 DEF Discover
  <2> HIDE DEF found, new, Blamed
  <2> QED BY <1>3, <2>1
<1> HIDE DEF Blamed
<1>7. CloseSource /\ Invalid(Document) => trace' = trace
  BY DEF CloseSource
<1> QED BY <1>4, <1>5, <1>6, <1>7
        DEF Next, Stop, OpenSource, Include, CloseInclude, Loading, CommandLine, Preset,
            SharedDefaults, vars
-----------------------------------------------------------------------------
(* The command line, the preset and the shared defaults                    *)

\* What the command line gives is no field of a tool.
LEMMA GivenFields ==
  ASSUME TypeOK, NEW f \in DOMAIN cli.given
  PROVE  /\ f \in Fields /\ Kind[f] # "tool" /\ f # "by"
         /\ Kind[f] \in ListKinds => IsList(cli.given[f])
         /\ f \notin MypyFlags \union MypyStrict
         /\ \A level \in DOMAIN Presets : f \notin DOMAIN PresetTools[level]
BY CommandLinesAssumption, ToolsAssumption DEF TypeOK, Of

\* No step changes the files or the command line.
LEMMA InputsStay == [Next]_vars => UNCHANGED <<disk, cli>>
<1>1. OpenSource => UNCHANGED <<disk, cli>>
  BY DEF OpenSource, Loading
<1>2. Include => UNCHANGED <<disk, cli>>
  BY DEF Include, Loading
<1>3. CloseInclude => UNCHANGED <<disk, cli>>
  BY DEF CloseInclude, Loading
<1>4. CloseSource => UNCHANGED <<disk, cli>>
  BY DEF CloseSource
<1>5. Discover => UNCHANGED <<disk, cli>>
  BY DEF Discover
<1>6. CommandLine \/ Preset \/ SharedDefaults => UNCHANGED <<disk, cli>>
  BY DEF CommandLine, Preset, SharedDefaults
<1>7. Stop \/ UNCHANGED vars => UNCHANGED <<disk, cli>>
  BY DEF Stop, vars
<1> QED BY <1>1, <1>2, <1>3, <1>4, <1>5, <1>6, <1>7 DEF Next

\* bail, quiet and what is to be shown are no fields of tools and no knobs.
LEMMA RunFields ==
  ASSUME TypeOK, NEW f \in {"bail", "quiet"} \union Of({"shown"})
  PROVE  /\ f \in Fields /\ f # "jobs" /\ f # "roots" /\ f # "by"
         /\ Kind[f] \in {"bail", "replace", "shown"}
         /\ f = "quiet" => Kind[f] = "replace"
         /\ f \notin MypyFlags \union MypyStrict
         /\ f \notin DOMAIN Presets[Level] \union DOMAIN PresetTools[Level]
<1>1. /\ f \in Fields /\ f # "by" /\ Kind[f] \in {"bail", "replace", "shown"}
      /\ f = "quiet" => Kind[f] = "replace"
  BY FieldsAssumption DEF Of
<1>2. f # "jobs" /\ f # "roots"
  BY <1>1, BailAndJobs, RootsField
<1>3. f \notin Of({"tool"}) /\ f \notin Of({"knob"})
  BY <1>1 DEF Of
<1> QED BY <1>1, <1>2, <1>3, LevelIs, ToolsAssumption

\* The roots of the run are a list with all that the command line adds.
LEMMA RootsGiven ==
  ASSUME TypeOK, RootsCarry, stage = "cli", "roots" \in DOMAIN cli.given
  PROVE  ToSet(cli.given["roots"]) \subseteq ToSet(Roots)
<1> DEFINE own == config["roots"]
           with == WithProjectRoot(own)
           given == cli.given["roots"]
<1>1. IsList(own) /\ IsList(given)
  BY RootsAreList, GivenFields, RootsField DEF Of
<1>2. IsList(<<ProjectRoot>>)
  <2>1. <<ProjectRoot>> \in Seq({ProjectRoot})
    OBVIOUS
  <2> QED BY <2>1, SeqIsList
<1>3. Roots = Appended(with, given)
  BY DEF Roots
<1> HIDE DEF own, given
<1>4. IsList(with)
  BY <1>1, <1>2, ListConcat DEF WithProjectRoot
<1> HIDE DEF with
<1>5. ToSet(Appended(with, given)) = ToSet(with) \union ToSet(given)
  BY <1>1, <1>4, AppendedIs
<1> QED BY <1>3, <1>5 DEF given

LEMMA GivenStep ==
  TypeOK /\ ListsCarry /\ RootsCarry /\ GivenHolds /\ [Next]_vars => GivenHolds'
<1> SUFFICES ASSUME TypeOK, ListsCarry, RootsCarry, GivenHolds, [Next]_vars PROVE GivenHolds'
  OBVIOUS
<1>0. cli' = cli
  BY InputsStay
<1> DEFINE Held(f) ==
             IF Kind[f] \in ListKinds THEN ToSet(cli.given[f]) \subseteq ToSet(config'[f])
             ELSE \/ config'[f] = cli.given[f]
                  \/ f = "jobs" /\ config'["bail"] = "true"
                  \/ Kind[f] = "shown" /\ config'["quiet"] = "true"
<1> SUFFICES ASSUME stage' \in {"preset", "shared", "done"}, NEW f \in DOMAIN cli.given
             PROVE  Held(f)
  BY <1>0 DEF GivenHolds
<1>1. f \in Fields /\ (f = "roots" <=> Kind[f] = "roots") /\ (f = "jobs" => Kind[f] = "jobs")
  <2>1. f \in Fields
    BY GivenFields
  <2> QED BY <2>1, FieldsAssumption DEF Of
<1>2. CASE CommandLine
  <2>1. CASE Kind[f] = "append"
    <3>1. config'[f] = Appended(config[f], cli.given[f])
      BY <1>1, <1>2, <2>1 DEF CommandLine
    <3>2. IsList(cli.given[f])
      BY <2>1, GivenFields DEF ListKinds
    <3>3. f \in Of({"append"}) /\ stage = "cli"
      BY <1>1, <1>2, <2>1 DEF Of, CommandLine
    <3>4. IsList(config[f])
      BY <3>3 DEF ListsCarry
    <3>5. ToSet(Appended(config[f], cli.given[f])) = ToSet(config[f]) \union ToSet(cli.given[f])
      BY <3>2, <3>4, AppendedIs
    <3> QED BY <2>1, <3>1, <3>5 DEF ListKinds
  <2>2. CASE f = "roots"
    <3>1. config'[f] = Roots /\ stage = "cli"
      BY <1>1, <1>2, <2>2 DEF CommandLine
    <3> QED BY <1>1, <2>2, <3>1, RootsGiven DEF ListKinds
  <2>3. CASE f = "jobs"
    <3>1. /\ config'["jobs"] = Jobs(cli.given, Selected("bail"), Selected("jobs"))
          /\ config'["bail"] = Selected("bail")
      BY <1>2, BailAndJobs DEF CommandLine
    <3>2. config'["jobs"] = cli.given["jobs"] \/ config'["bail"] = "true"
      BY <2>3, <3>1 DEF Jobs, Selected
    <3> QED BY <2>3, <3>2, BailAndJobs DEF ListKinds
  <2>4. CASE Kind[f] = "shown"
    <3>1. config'["quiet"] = Selected("quiet")
      <4>1. "quiet" \in Fields /\ "quiet" # "roots" /\ "quiet" # "jobs" /\ Kind["quiet"] = "replace"
        BY RunFields
      <4> QED BY <1>2, <4>1 DEF CommandLine
    <3>2. config'[f] = IF Selected("quiet") = "true" THEN "false" ELSE Selected(f)
      BY <1>1, <1>2, <2>4 DEF CommandLine, Shown
    <3> QED BY <2>4, <3>1, <3>2 DEF Selected, ListKinds
  <2>5. CASE Kind[f] \notin ListKinds /\ f # "jobs" /\ Kind[f] # "shown"
    <3>1. config'[f] = IF Kind[f] = "limit" THEN Boundaries(f) ELSE Selected(f)
      BY <1>1, <1>2, <2>5 DEF CommandLine, ListKinds
    <3> QED BY <2>5, <3>1 DEF Boundaries, Selected
  <2> QED BY <1>1, <2>1, <2>2, <2>3, <2>4, <2>5 DEF ListKinds
<1>3. ASSUME stage \in {"preset", "shared", "done"}, config'[f] = config[f],
             config'["bail"] = config["bail"], config'["quiet"] = config["quiet"]
      PROVE  Held(f)
  BY <1>3 DEF GivenHolds
<1> HIDE DEF Held
<1>4. \A g \in {f, "bail", "quiet"} :
        /\ g \in Fields /\ g \notin PresetKnobs /\ g \notin DOMAIN PresetTools[Level]
        /\ g \notin MypyStrict /\ g \notin MypyFlags /\ g # "by"
  <2>1. \A g \in {"bail", "quiet"} :
          /\ g \in Fields /\ g \notin PresetKnobs /\ g \notin DOMAIN PresetTools[Level]
          /\ g \notin MypyStrict /\ g \notin MypyFlags /\ g # "by"
    BY RunFields DEF PresetKnobs
  <2>2. /\ f \in Fields /\ f \notin PresetKnobs /\ f \notin DOMAIN PresetTools[Level]
        /\ f \notin MypyStrict /\ f \notin MypyFlags /\ f # "by"
    BY GivenFields, LevelIs DEF PresetKnobs
  <2> QED BY <2>1, <2>2
<1>5. CASE Preset
  <2>1. \A g \in {f, "bail", "quiet"} : config'[g] = config[g]
    BY <1>4, <1>5 DEF Preset
  <2>2. stage = "preset"
    BY <1>5 DEF Preset
  <2> QED BY <1>3, <2>1, <2>2
<1>6. CASE SharedDefaults
  <2>1. \A g \in {f, "bail", "quiet"} : config'[g] = config[g]
    BY <1>4, <1>6 DEF SharedDefaults
  <2>2. stage = "shared"
    BY <1>6 DEF SharedDefaults
  <2> QED BY <1>3, <2>1, <2>2
<1>7. CASE UNCHANGED vars
  BY <1>3, <1>7 DEF vars
<1> QED BY <1>2, <1>5, <1>6, <1>7
        DEF Next, Stop, OpenSource, Include, CloseInclude, CloseSource, Discover

LEMMA QuietStep == TypeOK /\ QuietHolds /\ [Next]_vars => QuietHolds'
<1> SUFFICES ASSUME TypeOK, QuietHolds, [Next]_vars, stage' \in {"preset", "shared", "done"},
                    config'["quiet"] = "true", NEW f \in Of({"shown"})
             PROVE  config'[f] = "false"
  BY DEF QuietHolds
<1>1. \A g \in {f, "quiet"} :
        /\ g \in Fields /\ g # "jobs" /\ g # "roots" /\ g \notin PresetKnobs
        /\ g \notin DOMAIN PresetTools[Level]
        /\ g \notin MypyStrict /\ g \notin MypyFlags /\ g # "by"
  BY RunFields DEF PresetKnobs
<1>2. Kind[f] = "shown" /\ Kind["quiet"] = "replace"
  BY FieldsAssumption DEF Of
<1>3. CASE CommandLine
  <2>1. config'["quiet"] = Selected("quiet")
    BY <1>1, <1>2, <1>3 DEF CommandLine
  <2>2. config'[f] = IF Selected("quiet") = "true" THEN "false" ELSE Selected(f)
    BY <1>1, <1>2, <1>3 DEF CommandLine, Shown
  <2> QED BY <2>1, <2>2
<1>4. ASSUME stage \in {"preset", "shared", "done"}, \A g \in {f, "quiet"} : config'[g] = config[g]
      PROVE  config'[f] = "false"
  BY <1>4 DEF QuietHolds
<1>5. CASE Preset
  <2>1. stage = "preset" /\ \A g \in {f, "quiet"} : config'[g] = config[g]
    BY <1>1, <1>5 DEF Preset
  <2> QED BY <1>4, <2>1
<1>6. CASE SharedDefaults
  <2>1. stage = "shared" /\ \A g \in {f, "quiet"} : config'[g] = config[g]
    BY <1>1, <1>6 DEF SharedDefaults
  <2> QED BY <1>4, <2>1
<1>7. CASE UNCHANGED vars
  BY <1>4, <1>7 DEF vars
<1> QED BY <1>3, <1>5, <1>6, <1>7
        DEF Next, Stop, OpenSource, Include, CloseInclude, CloseSource, Discover

LEMMA ToolsStep ==
  TypeOK /\ InOrder /\ ConfigCarries /\ ToolsHold /\ [Next]_vars => ToolsHold'
<1> SUFFICES ASSUME TypeOK, InOrder, ConfigCarries, ToolsHold, [Next]_vars,
                    stage' \in {"cli", "preset", "shared", "done"},
                    NEW f \in Of({"tool"}) \ MypyStrict, SettingAny(f)' # {}
             PROVE  /\ config'[f] # Absent
                    /\ \/ config'[f] = WasSet(f, Absent)'
                       \/ /\ stage' \in {"shared", "done"}
                          /\ Overridable(f)' /\ WasSet(f, Absent)' \in Falsy
                          /\ config'[f] = PresetTools[Level'][f]
  BY DEF ToolsHold
<1>1. /\ f \in Fields /\ Kind[f] = "tool" /\ f # "jobs" /\ f # "roots" /\ f # "by"
      /\ f \notin MypyStrict
  BY FieldsAssumption DEF Of
<1>2. loaded' = loaded
  BY DEF Next, Stop, OpenSource, Include, CloseInclude, CloseSource, Discover, CommandLine,
         Preset, SharedDefaults, vars
<1>3. /\ SettingAny(f)' = SettingAny(f) /\ WasSet(f, Absent)' = WasSet(f, Absent)
      /\ Level' = Level /\ (Overridable(f)' <=> Overridable(f))
  BY <1>2, InputsStay DEF SettingAny, Setting, WasSet, Level, Overridable
<1>4. CASE Discover
  <2>1. stage = "load" /\ stack = <<>>
    BY <1>4 DEF Discover
  <2>2. SettingAny(f) = Prior(f)
    BY <2>1, AllIsPrior
  <2>3. config[f] = loaded[Latest(Prior(f))].fields[f]
    <3>1. f \in Of(ReplacedKinds)
      BY <1>1 DEF Of, ReplacedKinds
    <3> QED BY <1>3, <2>1, <2>2, <3>1 DEF ConfigCarries
  <2>4. /\ Latest(Prior(f)) \in DOMAIN loaded
        /\ f \in DOMAIN loaded[Latest(Prior(f))].fields
    BY <1>3, <2>2, PriorIndices DEF Prior
  <2>5. config[f] # Absent
    BY <2>3, <2>4, NeverAbsent
  <2>6. config'[f] = config[f]
    BY <1>1, <1>4, <2>5 DEF Discover
  <2> QED BY <1>3, <2>2, <2>3, <2>5, <2>6 DEF WasSet
<1>5. ASSUME stage \in {"cli", "preset", "shared", "done"}
      PROVE  /\ config[f] # Absent
             /\ \/ config[f] = WasSet(f, Absent)
                \/ /\ stage \in {"shared", "done"}
                   /\ Overridable(f) /\ WasSet(f, Absent) \in Falsy
                   /\ config[f] = PresetTools[Level][f]
  BY <1>3, <1>5 DEF ToolsHold
<1>6. CASE CommandLine
  <2>1. f \notin DOMAIN cli.given
    BY <1>1, GivenFields
  <2>2. config'[f] = config[f] /\ stage = "cli"
    BY <1>1, <1>6, <2>1 DEF CommandLine, Selected
  <2> QED BY <1>3, <1>5, <2>2
<1>7. CASE Preset
  <2>1. stage = "preset" /\ config[f] # Absent /\ config[f] = WasSet(f, Absent)
        /\ stage' = "shared"
    BY <1>5, <1>7 DEF Preset
  <2>2. f \notin PresetKnobs
    BY <1>1, LevelIs, ToolsAssumption DEF PresetKnobs, Of
  <2>3. CASE f \in DOMAIN PresetTools[Level] /\ f \in SkipIfTruthy /\ config[f] \in Falsy
    <3>1. config'[f] = PresetTools[Level][f]
      BY <1>1, <1>7, <2>2, <2>3 DEF Preset, PresetToolIfUnset
    <3>2. PresetTools[Level][f] # Absent
      BY <2>3, LevelIs, ToolsAssumption
    <3>3. Overridable(f)
      BY <2>3 DEF Overridable
    <3> QED BY <1>3, <2>1, <2>3, <3>1, <3>2, <3>3
  <2>4. CASE ~(f \in DOMAIN PresetTools[Level] /\ f \in SkipIfTruthy /\ config[f] \in Falsy)
    <3>1. config'[f] = config[f]
      BY <1>1, <1>7, <2>1, <2>2, <2>4 DEF Preset, PresetToolIfUnset
    <3> QED BY <1>3, <2>1, <3>1
  <2> QED BY <2>3, <2>4
<1>8. CASE SharedDefaults
  <2>1. stage = "shared" /\ config[f] # Absent /\ stage' = "done"
    BY <1>5, <1>8 DEF SharedDefaults
  <2>2. config'[f] = config[f]
    BY <1>1, <1>8, <2>1 DEF SharedDefaults
  <2> QED BY <1>3, <1>5, <2>1, <2>2
<1>9. CASE UNCHANGED vars
  BY <1>3, <1>5, <1>9 DEF vars
<1> QED BY <1>4, <1>6, <1>7, <1>8, <1>9
        DEF Next, Stop, OpenSource, Include, CloseInclude, CloseSource
-----------------------------------------------------------------------------
(* Theorems                                                                *)

LayersInv ==
  /\ TypeOK /\ InOrder /\ StackCarries
  /\ ConfigCarries /\ RootsCarry /\ LaterSourceWins /\ ListsCarry /\ TraceCarries
  /\ BailIsSerial /\ BlameIsRight /\ GivenHolds /\ QuietHolds /\ ToolsHold

LEMMA LayersInit == Init => LayersInv
<1> SUFFICES ASSUME Init PROVE LayersInv
  OBVIOUS
<1>1. BailIsSerial /\ stage = "load"
  BY DefaultsAssumption DEF Init, BailIsSerial
<1>2. LaterSourceWins /\ GivenHolds /\ QuietHolds /\ ToolsHold
  BY <1>1 DEF LaterSourceWins, GivenHolds, QuietHolds, ToolsHold
<1> QED BY <1>1, <1>2, TypesInit, InOrderInit, StackCarriesInit, ConfigCarriesInit,
           RootsCarryInit, ListsCarryInit, TraceCarriesInit, BlameInit DEF LayersInv

LEMMA LayersStep == LayersInv /\ [Next]_vars => LayersInv'
<1> SUFFICES ASSUME LayersInv, [Next]_vars PROVE LayersInv'
  OBVIOUS
<1>1. TypeOK' /\ InOrder'
  BY TypesStep, InOrderStep DEF LayersInv
<1>2. StackCarries' /\ ConfigCarries' /\ RootsCarry' /\ ListsCarry' /\ TraceCarries'
  BY <1>1, StackCarriesStep, ConfigCarriesStep, RootsCarryStep, ListsCarryStep, TraceCarriesStep
  DEF LayersInv
<1>3. LaterSourceWins' /\ BailIsSerial' /\ BlameIsRight'
  BY <1>1, LaterWinsStep, BailStep, BlameStep DEF LayersInv
<1>4. GivenHolds' /\ QuietHolds' /\ ToolsHold'
  BY GivenStep, QuietStep, ToolsStep DEF LayersInv
<1> QED BY <1>1, <1>2, <1>3, <1>4 DEF LayersInv

\* Every reachable state has merged what its documents say, in their order.
THEOREM LayersInvariant == Spec => []LayersInv
BY LayersInit, LayersStep, PTL DEF Spec

\* A field has the value of the last document that sets it, a file coming after
\* its includes and a source after those before it; the roots are those of the last
\* document that sets them, or the project root when that one sets none and a later
\* source says anything.
THEOREM LaterWins == Spec => []LaterSourceWins
<1>1. LayersInv => LaterSourceWins
  BY DEF LayersInv
<1> QED BY <1>1, LayersInvariant, PTL

\* Lists keep the entries of every source, each once.
THEOREM ListsGrow == Spec => []ListsAccumulate
<1>1. LayersInv => ListsAccumulate
  <2> SUFFICES ASSUME LayersInv, stage = "cli", NEW f \in Of({"append"})
               PROVE  /\ IsInjective(config[f])
                      /\ \A s \in DOMAIN Sources : Setting(f, s) # {} =>
                           ToSet(loaded[Latest(Setting(f, s))].fields[f]) \subseteq ToSet(config[f])
    BY DEF ListsAccumulate
  <2>1. \A s \in DOMAIN Sources : s < source
    BY FilesAssumption, LenProperties DEF LayersInv, InOrder
  <2> QED BY <2>1 DEF LayersInv, ListsCarry
<1> QED BY <1>1, LayersInvariant, PTL

\* The trace replayed over the defaults is the configuration that was loaded.
THEOREM TraceTellsAll == Spec => []TraceReplays
<1>1. LayersInv => TraceReplays
  BY DEF LayersInv, TraceCarries, TraceReplays, TypeOK
<1> QED BY <1>1, LayersInvariant, PTL

\* Each update names a source with a document that sets the field, or bail for the
\* jobs; only when an earlier source set no roots does a later one that does not set
\* them turn them into the project root.
THEOREM BlameHolds == Spec => []BlameIsRight
<1>1. LayersInv => BlameIsRight
  BY DEF LayersInv
<1> QED BY <1>1, LayersInvariant, PTL

\* What the command line gives is the configuration of the run, but for the jobs
\* under bail and what quiet keeps from being shown, wherever these two were set.
THEOREM CommandLineHolds == Spec => []CommandLineWins
<1>1. LayersInv => CommandLineWins
  BY DEF LayersInv, GivenHolds, QuietHolds, CommandLineWins
<1> QED BY <1>1, LayersInvariant, PTL

\* What files set for a tool is still set after the preset, unless they set it to
\* nothing and the preset takes that for not set.
THEOREM PresetsKeep == Spec => []PresetsKeepToolSettings
<1>1. LayersInv => PresetsKeepToolSettings
  BY DEF LayersInv, ToolsHold, PresetsKeepToolSettings
<1> QED BY <1>1, LayersInvariant, PTL
=============================================================================
