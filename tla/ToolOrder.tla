------------------------------ MODULE ToolOrder ------------------------------
(***************************************************************************)
(* The order in which tools run.  ToolRegistry keeps its tools sorted by   *)
(* phase, declared dependencies and name; ToolSelector.order_tools takes   *)
(* the selected tools in the registry's order and sorts them once more,    *)
(* with graphlib.TopologicalSorter.                                        *)
(*                                                                         *)
(* Names are numbers, which compare as the code compares strings.  A       *)
(* catalog gives the number of phases, each name the rank of its phase in  *)
(* PHASE_NAMES, and precedes, the pairs declared by `before` of the one    *)
(* tool or `after` of the other.                                           *)
(***************************************************************************)
EXTENDS Naturals, FiniteSets, Lists

Preds(catalog, tools, n) == {m \in tools : <<m, n>> \in catalog.precedes}

Ranks(catalog) == 1..catalog.phases

OfPhase(catalog, tools, rank) == {n \in tools : catalog.phase[n] = rank}

-----------------------------------------------------------------------------
(* ToolRegistry                                                            *)

\* The names that wait for nothing but what is out.
Ready(catalog, tools, out) ==
  {n \in tools \ ToSet(out) : Preds(catalog, tools, n) \subseteq ToSet(out)}

\* Kahn's algorithm with a heap: the smallest name whose predecessors are out.
Popped(catalog, tools) ==
  LET pop[i \in 0..Cardinality(tools)] ==
        IF i = 0 THEN <<>>
        ELSE LET out == pop[i - 1]
                 ready == Ready(catalog, tools, out) IN
             IF ready = {} THEN out ELSE Append(out, Min(ready))
  IN pop[Cardinality(tools)]

\* _order_phase of the registry: what a cycle holds back follows by name.
RegistryPhase(catalog, tools) ==
  LET popped == Popped(catalog, tools) IN
  popped \o Ascending(tools \ ToSet(popped))

\* _recompute_order
RegistryOrder(catalog, tools) ==
  FlattenSeq([rank \in Ranks(catalog) |-> RegistryPhase(catalog, OfPhase(catalog, tools, rank))])

-----------------------------------------------------------------------------
(* ToolSelector.order_tools                                                *)

\* The keys of the TopologicalSorter: each name, then its predecessors in the
\* order of the input.
Inserted(catalog, names) ==
  LET With(n) == <<n>> \o Among(names, Preds(catalog, ToSet(names), n))
      keys[i \in 0..Len(names)] ==
        IF i = 0 THEN <<>> ELSE Appended(keys[i - 1], With(names[i]))
  IN keys[Len(names)]

\* The names with no predecessor, where the order starts
Free(catalog, names) ==
  Among(Inserted(catalog, names), {n \in ToSet(names) : Preds(catalog, ToSet(names), n) = {}})

\* The names whose last predecessor is the i-th of the queue
Released(catalog, names, queue, i) ==
  Among(names, {n \in ToSet(names) :
    /\ queue[i] \in Preds(catalog, ToSet(names), n)
    /\ Preds(catalog, ToSet(names), n) \subseteq {queue[j] : j \in 1..i}})

\* static_order: a node leaves the sorter when its last predecessor has left,
\* in the order of the nodes before it.
StaticOrder(catalog, names) ==
  LET queue[i \in 0..Len(names)] ==
        IF i = 0 THEN Free(catalog, names)
        ELSE LET sofar == queue[i - 1] IN
             IF i > Len(sofar) THEN sofar ELSE sofar \o Released(catalog, names, sofar, i)
  IN queue[Len(names)]

\* MUTANT: a cycle sorts the names of the phase.
OrderPhaseByName(catalog, names) ==
  LET sorted == StaticOrder(catalog, names) IN
  IF Len(names) <= 1 THEN names
  ELSE IF Len(sorted) < Len(names) THEN Ascending(ToSet(names)) ELSE sorted

\* _order_phase of the selector: a cycle (CycleError) leaves the input order.
OrderPhase(catalog, names) ==
  LET sorted == StaticOrder(catalog, names) IN
  IF Len(names) <= 1 \/ Len(sorted) < Len(names) THEN names ELSE sorted

OrderTools(catalog, names) ==
  FlattenSeq([rank \in Ranks(catalog) |->
    OrderPhase(catalog, Among(names, OfPhase(catalog, ToSet(names), rank)))])
=============================================================================
