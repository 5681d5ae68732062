------------------------------ MODULE CalcDag ------------------------------
(***************************************************************************)
(* CalculationEngine.build_dag: the depth-first search that orders the     *)
(* calculations of the metadata, its cycle check, and the final sort by    *)
(* layer.  One step of the machine is one test or assignment of `visit`;   *)
(* the Python call stack is the variable stack.                            *)
(***************************************************************************)
EXTENDS Naturals, Sequences, FiniteSets

CONSTANTS
  CalcMap,   \* calc_map: ids of the calculations that are defined
  Unknown,   \* ids that occur in depends_on only
  Layers     \* the ranks in use, of LAYER_ORDER: transaction, time_window,
             \* aggregation, derived

ASSUME Disjoint == CalcMap \cap Unknown = {}
ASSUME FourLayers == Layers \subseteq 0 .. 3

Ids == CalcMap \cup Unknown

VARIABLES
  depends,   \* calc_id -> depends_on, as the metadata has it when the call starts
  layer,     \* calc_id -> its rank in LAYER_ORDER
  roots,     \* keys of calc_map the outer loop has not come to
  stack,     \* frames of visit: the id, and the dependencies not yet known visited
  visited,
  order,     \* ids in the order their visit ended
  outcome,   \* "running", then "raised" (ValueError) or "returned"
  dag        \* the list that is returned

metadata == <<depends, layer>>
dagVars == <<depends, layer, roots, stack, visited, order, outcome, dag>>

\* A definition cannot depend on itself (model_validator no_self_dependency).
DagInit ==
  /\ depends \in [CalcMap -> SUBSET Ids]
  /\ \A c \in CalcMap : c \notin depends[c]
  /\ layer \in [CalcMap -> Layers]
  /\ roots = CalcMap
  /\ stack = <<>> /\ visited = {} /\ order = <<>>
  /\ outcome = "running" /\ dag = <<>>

\* An unknown id has no definition, hence nothing to visit first.
Frame(id) == [id |-> id, todo |-> IF id \in CalcMap THEN depends[id] ELSE {}]
Top == stack[Len(stack)]
\* Mutant: in_stack.remove forgotten.
InStackKept == {stack[i].id : i \in 1 .. Len(stack)} \cup visited
InStack == {stack[i].id : i \in 1 .. Len(stack)}

Due(id) == id \notin visited
\* Mutant: the loop stays at a root.
RootsKept(id) == roots
RootsLeft(id) == roots \ {id}

NextRoot ==
  /\ outcome = "running" /\ stack = <<>>
  /\ \E id \in roots :
       /\ roots' = RootsLeft(id)
       /\ stack' = IF Due(id) THEN <<Frame(id)>> ELSE stack
  /\ UNCHANGED <<metadata, visited, order, outcome, dag>>

\* visit(dep).  The dependency leaves the frame when it is known to be visited:
\* at once, or after its own visit ended.
VisitDependency ==
  /\ outcome = "running" /\ stack # <<>>
  /\ \E id \in Top.todo :
       \/ /\ id \in InStack
          /\ outcome' = "raised"
          /\ UNCHANGED stack
       \/ /\ id \notin InStack /\ id \in visited
          /\ stack' = [stack EXCEPT ![Len(stack)].todo = @ \ {id}]
          /\ UNCHANGED outcome
       \/ /\ id \notin InStack /\ id \notin visited
          /\ stack' = Append(stack, Frame(id))
          /\ UNCHANGED outcome
  /\ UNCHANGED <<metadata, roots, visited, order, dag>>

\* Mutant: an id enters the order as soon as it is reached.
FinishedEarly == TRUE
Finished == Top.todo = {}

EndVisit ==
  /\ outcome = "running" /\ stack # <<>> /\ Finished
  /\ visited' = visited \cup {Top.id}
  /\ order' = Append(order, Top.id)
  /\ stack' = SubSeq(stack, 1, Len(stack) - 1)
  /\ UNCHANGED <<metadata, roots, outcome, dag>>

\* The places in the order of what has a definition.
Defined == {i \in 1 .. Len(order) : order[i] \in CalcMap}

\* ordered.sort(key=layer) keeps the order within a layer.
\* Mutant: the last layer first.
BeforeDownwards(i, j) == layer[order[i]] > layer[order[j]] \/ (layer[order[i]] = layer[order[j]] /\ i < j)
Before(i, j) == layer[order[i]] < layer[order[j]] \/ (layer[order[i]] = layer[order[j]] /\ i < j)
Sorted(places) ==
  /\ {places[i] : i \in DOMAIN places} = Defined
  /\ \A i, j \in DOMAIN places : i < j => Before(places[i], places[j])

Return ==
  /\ outcome = "running" /\ stack = <<>> /\ roots = {}
  /\ outcome' = "returned"
  /\ \E places \in [1 .. Cardinality(Defined) -> Defined] :
       Sorted(places) /\ dag' = [i \in DOMAIN places |-> order[places[i]]]
  /\ UNCHANGED <<metadata, roots, stack, visited, order>>

DagNext == NextRoot \/ VisitDependency \/ EndVisit \/ Return

DagSpec == DagInit /\ [][DagNext]_dagVars /\ WF_dagVars(DagNext)

-----------------------------------------------------------------------------
(* Properties *)

DagTypeOK ==
  /\ depends \in [CalcMap -> SUBSET Ids] /\ layer \in [CalcMap -> Layers]
  /\ roots \subseteq CalcMap
  /\ stack \in Seq([id : Ids, todo : SUBSET Ids])
  /\ visited \subseteq Ids /\ order \in Seq(Ids)
  /\ outcome \in {"running", "raised", "returned"}
  /\ dag \in Seq(CalcMap)

\* What id needs is in the first n places of the list ids.
NeedsWithin(ids, id, n) ==
  \A d \in depends[id] \cap CalcMap : \E j \in 1 .. n : ids[j] = d
DependencyOrder(ids) ==
  \A i \in 1 .. Len(ids) : ids[i] \in CalcMap => NeedsWithin(ids, ids[i], i - 1)

\* The order in which visits end lists every calculation after everything it
\* depends on, in every metadata graph and from every root.
VisitsInDependencyOrder == DependencyOrder(order)

\* A set whose members all depend on a member: a cycle, or several.
Cyclic(S) == S # {} /\ \A c \in S : depends[c] \cap S # {}

\* ValueError means that there is a cycle, and a list that there is none.
RaisedIffCycle ==
  /\ outcome = "raised" => \E S \in SUBSET CalcMap : Cyclic(S)
  /\ outcome = "returned" => \A S \in SUBSET CalcMap : ~Cyclic(S)

\* The returned list has every calculation exactly once.
EachCalculationOnce ==
  outcome = "returned" =>
    \A c \in CalcMap : \E i \in 1 .. Len(dag) :
      \A j \in 1 .. Len(dag) : dag[j] = c <=> j = i

\* "return them in topological (dependency) order": the sort by layer does no
\* harm as long as no calculation depends on one of a later layer. Without that,
\* which nothing in the code ensures, it may put one before its dependency.
LayersFollowDependencies ==
  \A c \in CalcMap : \A d \in depends[c] \cap CalcMap : layer[d] <= layer[c]
LayeredDagInDependencyOrder ==
  outcome = "returned" /\ LayersFollowDependencies => DependencyOrder(dag)

\* The search ends, whatever the graph.
Ends == <>(outcome # "running")
=============================================================================
