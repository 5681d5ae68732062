------------------------- MODULE CalculationProofs -------------------------
(***************************************************************************)
(* The search of build_dag, for every dependency graph: the order in which *)
(* visits end respects the dependencies, ValueError is raised exactly when *)
(* the graph has a cycle, and the list that is returned has everything     *)
(* once.  Then the execution of the calculations, over every such list:    *)
(* which tables there are, and from which base data.                       *)
(***************************************************************************)
EXTENDS CalcDag, CalcPipeline, FiniteSetTheorems, SequenceTheorems, WellFoundedInduction, TLAPS

Frames == [id : Ids, todo : SUBSET Ids]

SearchTypes ==
  /\ depends \in [CalcMap -> SUBSET Ids]
  /\ roots \subseteq CalcMap
  /\ stack \in Seq(Frames)
  /\ visited \subseteq Ids /\ order \in Seq(Ids)

\* A frame has struck off only what is visited.
FrameOK(f) ==
  /\ f.id \in CalcMap => depends[f.id] \ f.todo \subseteq visited
  /\ f.todo \subseteq IF f.id \in CalcMap THEN depends[f.id] ELSE {}

\* Each frame waits for the one above it.
Waits == \A i \in 1 .. Len(stack) - 1 : stack[i + 1].id \in stack[i].todo

\* With a calculation everything it needs is visited, so no cycle is among the
\* calculations that are.
Grounded ==
  /\ \A c \in visited \cap CalcMap : depends[c] \subseteq visited
  /\ \A S \in SUBSET (visited \cap CalcMap) : ~Cyclic(S)

\* What is visited is what is in the order, the latter respects dependencies,
\* and every root that was taken is visited or at the bottom of the stack.
Search ==
  /\ SearchTypes
  /\ visited = {order[i] : i \in 1 .. Len(order)}
  /\ VisitsInDependencyOrder
  /\ \A i \in 1 .. Len(stack) : FrameOK(stack[i])
  /\ Waits
  /\ Grounded
  /\ \A c \in CalcMap : c \in roots \/ c \in visited \/ c \in InStack
  /\ RaisedIffCycle

LEMMA FrameType ==
  ASSUME SearchTypes, NEW id \in Ids
  PROVE  Frame(id) \in Frames /\ FrameOK(Frame(id))
  BY DEF Frame, Frames, FrameOK, SearchTypes, Ids

\* The parts of Search that only the graph, the visited and the order determine.
LEMMA OrderPartsStay ==
  ASSUME Search, UNCHANGED <<depends, visited, order>>
  PROVE  /\ (visited = {order[i] : i \in 1 .. Len(order)})'
         /\ VisitsInDependencyOrder' /\ Grounded'
  BY DEF Search, VisitsInDependencyOrder, DependencyOrder, NeedsWithin, Grounded, Cyclic

LEMMA OutcomeStays ==
  ASSUME Search, UNCHANGED <<depends, outcome>>
  PROVE  RaisedIffCycle'
  BY DEF Search, RaisedIffCycle, Cyclic

LEMMA SearchInit == DagInit => Search
<1> SUFFICES ASSUME DagInit PROVE Search
  OBVIOUS
<1>1. SearchTypes
  BY DEF DagInit, SearchTypes
<1>2. Len(stack) = 0 /\ Len(order) = 0
  BY DEF DagInit
<1> QED BY <1>1, <1>2 DEF DagInit, Search, VisitsInDependencyOrder, DependencyOrder,
           Waits, RaisedIffCycle, Grounded, Cyclic

LEMMA RootKeeps == Search /\ NextRoot => Search'
<1> SUFFICES ASSUME Search, NextRoot PROVE Search'
  OBVIOUS
<1>1. PICK id \in roots :
        roots' = roots \ {id} /\ stack' = IF Due(id) THEN <<Frame(id)>> ELSE stack
  BY DEF NextRoot, RootsLeft
<1>2. id \in CalcMap /\ id \in Ids /\ stack = <<>> /\ Len(stack) = 0
  BY DEF NextRoot, Search, SearchTypes, Ids
<1>3. UNCHANGED <<depends, visited, order, outcome>>
  BY DEF NextRoot, metadata
<1>4. CASE Due(id)
  <2>1. stack' = <<Frame(id)>> /\ Len(stack') = 1 /\ stack'[1] = Frame(id)
    BY <1>1, <1>4
  <2>2. Frame(id) \in Frames /\ FrameOK(Frame(id)) /\ Frame(id).id = id
    BY <1>2, FrameType DEF Search, Frame
  <2>3. stack' \in Seq(Frames)
    BY <2>1, <2>2
  <2>4. InStack' = {id}
    BY <2>1, <2>2 DEF InStack
  <2> QED BY <1>1, <1>2, <1>3, <2>1, <2>2, <2>3, <2>4, OrderPartsStay, OutcomeStays
          DEF Search, SearchTypes, FrameOK, Waits, InStack
<1>5. CASE ~Due(id)
  BY <1>1, <1>2, <1>3, <1>5, OrderPartsStay, OutcomeStays
     DEF Search, SearchTypes, FrameOK, Waits, Due, InStack
<1> QED BY <1>4, <1>5

\* A dependency that is on the stack closes a cycle: it, and all above it.
LEMMA StackCycle ==
  ASSUME Search, stack # <<>>, NEW id \in Top.todo, id \in InStack
  PROVE  \E S \in SUBSET CalcMap : Cyclic(S)
<1> DEFINE n == Len(stack)
<1>1. n \in Nat \ {0} /\ \A i \in 1 .. n : stack[i] \in Frames
  BY DEF Search, SearchTypes
<1>2. PICK k \in 1 .. n : stack[k].id = id
  BY DEF InStack
<1> DEFINE S == {stack[i].id : i \in k .. n}
<1>3. \A i \in 1 .. n : stack[i].todo # {} => stack[i].id \in CalcMap
                         /\ stack[i].todo \subseteq depends[stack[i].id]
  BY DEF Search, FrameOK
<1>4. \A i \in k .. n - 1 : i + 1 \in k .. n /\ stack[i + 1].id \in stack[i].todo
  BY <1>1 DEF Search, Waits
<1>5. id \in stack[n].todo
  BY DEF Top
<1>6. \A i \in k .. n : stack[i].todo \cap S # {}
  <2> SUFFICES ASSUME NEW i \in k .. n PROVE stack[i].todo \cap S # {}
    OBVIOUS
  <2>1. CASE i = n
    BY <1>1, <1>2, <1>5, <2>1
  <2>2. CASE i # n
    <3>1. i \in k .. n - 1
      BY <1>1, <2>2
    <3> QED BY <1>4, <3>1
  <2> QED BY <2>1, <2>2
<1>a. \A i \in k .. n : i \in 1 .. n
  BY <1>1
<1>7. S \subseteq CalcMap
  <2> SUFFICES ASSUME NEW i \in k .. n PROVE stack[i].id \in CalcMap
    OBVIOUS
  <2> QED BY <1>3, <1>6, <1>a
<1>8. \A c \in S : depends[c] \cap S # {}
  <2> SUFFICES ASSUME NEW i \in k .. n PROVE depends[stack[i].id] \cap S # {}
    OBVIOUS
  <2>1. PICK x \in stack[i].todo : x \in S
    BY <1>6
  <2>2. x \in depends[stack[i].id]
    BY <1>3, <1>a, <2>1
  <2> QED BY <2>1, <2>2
<1>9. S # {}
  <2>1. k \in k .. n
    BY <1>1
  <2> QED BY <2>1
<1> QED BY <1>7, <1>8, <1>9 DEF Cyclic

LEMMA DependencyKeeps == Search /\ VisitDependency => Search'
<1> SUFFICES ASSUME Search, VisitDependency PROVE Search'
  OBVIOUS
<1> DEFINE n == Len(stack)
<1>1. stack # <<>> /\ stack \in Seq(Frames) /\ n \in Nat \ {0} /\ Top = stack[n]
  BY DEF VisitDependency, Search, SearchTypes, Top
<1>2. UNCHANGED <<depends, roots, visited, order>>
  BY DEF VisitDependency, metadata
<1>3. PICK id \in Top.todo :
       \/ /\ id \in InStack /\ outcome' = "raised" /\ UNCHANGED stack
       \/ /\ id \in visited
          /\ stack' = [stack EXCEPT ![n].todo = @ \ {id}] /\ UNCHANGED outcome
       \/ /\ id \notin InStack /\ id \notin visited
          /\ stack' = Append(stack, Frame(id)) /\ UNCHANGED outcome
  BY DEF VisitDependency
<1>4. id \in Ids /\ stack[n] \in Frames
  <2>1. stack[n] \in Frames
    BY <1>1, ElementOfSeq
  <2> QED BY <1>1, <1>3, <2>1 DEF Frames
<1>5. CASE id \in InStack /\ outcome' = "raised" /\ UNCHANGED stack
  <2>1. \E S \in SUBSET CalcMap : Cyclic(S)
    BY <1>1, <1>5, StackCycle
  <2>2. RaisedIffCycle'
    BY <1>2, <1>5, <2>1 DEF RaisedIffCycle, Cyclic
  <2>3. Waits' /\ InStack' = InStack /\ SearchTypes'
    BY <1>2, <1>5 DEF Search, SearchTypes, Waits, InStack
  <2>4. \A i \in 1 .. Len(stack') : FrameOK(stack[i])'
    BY <1>2, <1>5 DEF Search, FrameOK
  <2> QED BY <1>2, <2>2, <2>3, <2>4, OrderPartsStay DEF Search
<1>6. CASE /\ id \in visited
           /\ stack' = [stack EXCEPT ![n].todo = @ \ {id}] /\ UNCHANGED outcome
  <2>1. stack' \in Seq(Frames) /\ Len(stack') = n
    BY <1>1, <1>4, <1>6, ExceptSeq DEF Frames
  <2>2. \A i \in 1 .. n : stack'[i].id = stack[i].id
    BY <1>1, <1>4, <1>6 DEF Frames
  <2>3. \A i \in 1 .. n - 1 : stack'[i] = stack[i]
    BY <1>1, <1>6
  <2>4. stack'[n].todo = stack[n].todo \ {id}
    BY <1>1, <1>4, <1>6 DEF Frames
  <2>5. \A i \in 1 .. n : FrameOK(stack[i])'
    BY <1>1, <1>2, <1>6, <2>2, <2>3, <2>4 DEF Search, FrameOK
  <2>6. Waits'
    <3>1. \A i \in 1 .. n - 1 : i + 1 \in 1 .. n
      BY <1>1
    <3> QED BY <2>1, <2>2, <2>3, <3>1 DEF Search, Waits
  <2>7. InStack' = InStack
    BY <2>1, <2>2 DEF InStack
  <2>8. \A i \in 1 .. Len(stack') : FrameOK(stack[i])'
    BY <2>1, <2>5
  <2> QED BY <1>2, <1>6, <2>1, <2>6, <2>7, <2>8, OrderPartsStay, OutcomeStays
       DEF Search, SearchTypes
<1>7. CASE /\ id \notin InStack /\ id \notin visited
           /\ stack' = Append(stack, Frame(id)) /\ UNCHANGED outcome
  <2>1. Frame(id) \in Frames /\ FrameOK(Frame(id)) /\ Frame(id).id = id
    BY <1>4, FrameType DEF Search, Frame
  <2>2. stack' \in Seq(Frames) /\ Len(stack') = n + 1 /\ stack'[n + 1] = Frame(id)
    BY <1>1, <1>7, <2>1, AppendProperties
  <2>3. \A i \in 1 .. n : stack'[i] = stack[i]
    BY <1>1, <1>7, <2>1, AppendProperties
  <2>4. \A i \in 1 .. n + 1 : FrameOK(stack[i])'
    BY <1>1, <1>2, <2>1, <2>2, <2>3 DEF Search, FrameOK
  <2>5. Waits'
    <3> SUFFICES ASSUME NEW i \in 1 .. n PROVE stack'[i + 1].id \in stack'[i].todo
      BY <1>1, <2>2 DEF Waits
    <3>1. CASE i = n
      BY <1>1, <2>1, <2>2, <2>3, <3>1
    <3>2. CASE i # n
      <4>1. i \in 1 .. n - 1 /\ i + 1 \in 1 .. n
        BY <1>1, <3>2
      <4> QED BY <2>3, <4>1 DEF Search, Waits
    <3> QED BY <3>1, <3>2
  <2>6. InStack \subseteq InStack'
    BY <1>1, <2>2, <2>3 DEF InStack
  <2> QED BY <1>2, <1>7, <2>2, <2>4, <2>5, <2>6, OrderPartsStay, OutcomeStays
       DEF Search, SearchTypes
<1> QED BY <1>3, <1>5, <1>6, <1>7

\* Dropping the last frame leaves the sequence of the other frames.
LEMMA FrontIsSeq == ASSUME NEW S, NEW s \in Seq(S), Len(s) # 0
                    PROVE  /\ SubSeq(s, 1, Len(s) - 1) \in Seq(S)
                           /\ Len(SubSeq(s, 1, Len(s) - 1)) = Len(s) - 1
                           /\ \A i \in 1 .. Len(s) - 1 :
                                SubSeq(s, 1, Len(s) - 1)[i] = s[i]
<1>1. Len(s) - 1 \in 0 .. Len(s)
  OBVIOUS
<1> QED BY <1>1, SubSeqProperties

LEMMA EndKeeps == Search /\ EndVisit => Search'
<1> SUFFICES ASSUME Search, EndVisit PROVE Search'
  OBVIOUS
<1> DEFINE n == Len(stack)  m == Len(order)
<1>1. stack \in Seq(Frames) /\ n \in Nat \ {0} /\ stack[n] \in Frames /\ Top = stack[n]
  BY DEF EndVisit, Search, SearchTypes, Top
<1>2. order \in Seq(Ids) /\ m \in Nat /\ Top.id \in Ids /\ Top.todo = {}
  BY <1>1 DEF EndVisit, Search, SearchTypes, Frames, Finished
<1>3. UNCHANGED <<depends, roots, outcome>> /\ visited' = visited \cup {Top.id}
  BY DEF EndVisit, metadata
<1>4. order' \in Seq(Ids) /\ Len(order') = m + 1 /\ order'[m + 1] = Top.id
      /\ \A i \in 1 .. m : order'[i] = order[i]
  BY <1>2, AppendProperties DEF EndVisit
<1>5. stack' \in Seq(Frames) /\ Len(stack') = n - 1
      /\ \A i \in 1 .. n - 1 : stack'[i] = stack[i]
  <2>1. stack' = SubSeq(stack, 1, n - 1)
    BY DEF EndVisit
  <2> QED BY <1>1, <2>1, FrontIsSeq
<1>6. visited' = {order'[i] : i \in 1 .. m + 1}
  BY <1>2, <1>3, <1>4 DEF Search
<1>7. VisitsInDependencyOrder'
  <2> SUFFICES ASSUME NEW i \in 1 .. m + 1, order'[i] \in CalcMap,
                      NEW d \in depends[order'[i]] \cap CalcMap
               PROVE  \E j \in 1 .. i - 1 : order'[j] = d
    BY <1>2, <1>3, <1>4 DEF VisitsInDependencyOrder, DependencyOrder, NeedsWithin
  <2>1. CASE i = m + 1
    <3>1. d \in visited
      BY <1>1, <1>2, <1>4, <2>1 DEF Search, FrameOK
    <3>2. PICK j \in 1 .. m : order[j] = d
      BY <3>1 DEF Search
    <3> QED BY <1>2, <1>4, <2>1, <3>2
  <2>2. CASE i # m + 1
    <3>1. i \in 1 .. m
      BY <1>2, <2>2
    <3>2. PICK j \in 1 .. i - 1 : order[j] = d
      BY <1>2, <1>4, <3>1 DEF Search, VisitsInDependencyOrder, DependencyOrder, NeedsWithin
    <3>3. j \in 1 .. m
      BY <1>2, <3>1
    <3> QED BY <1>4, <3>2, <3>3
  <2> QED BY <2>1, <2>2
<1>8. \A i \in 1 .. n - 1 : FrameOK(stack[i])'
  BY <1>1, <1>3, <1>5 DEF Search, FrameOK
<1>9. Waits'
  <2>1. \A i \in 1 .. n - 2 : i \in 1 .. n - 1 /\ i + 1 \in 1 .. n - 1
    BY <1>1
  <2> QED BY <1>1, <1>5, <2>1 DEF Search, Waits
<1>10. \A c \in InStack : c \in InStack' \/ c = Top.id
  <2> SUFFICES ASSUME NEW i \in 1 .. n PROVE stack[i].id \in InStack' \/ stack[i].id = Top.id
    BY DEF InStack
  <2>1. i = n \/ i \in 1 .. n - 1
    BY <1>1
  <2> QED BY <1>1, <1>5, <2>1 DEF InStack
<1>11. SearchTypes'
  BY <1>2, <1>3, <1>4, <1>5 DEF Search, SearchTypes
<1>12. RaisedIffCycle'
  BY <1>3, OutcomeStays
\* A cycle through the calculation just finished would leave, without it, a
\* cycle among those visited before.
<1>13. Grounded'
  <2> DEFINE t == Top.id
  <2>1. t \in CalcMap => depends[t] \subseteq visited
    BY <1>1, <1>2 DEF Search, FrameOK
  <2>2. \A c \in visited' \cap CalcMap : depends'[c] \subseteq visited'
    BY <1>3, <2>1 DEF Search, Grounded
  <2>3. ASSUME NEW S \in SUBSET (visited' \cap CalcMap), Cyclic(S) PROVE FALSE
    <3>1. t \in S /\ t \notin visited
      BY <1>3, <2>3 DEF Search, Grounded
    <3> DEFINE R == S \ {t}
    <3>2. R \in SUBSET (visited \cap CalcMap)
      BY <1>3
    <3>3. \A c \in R : depends[c] \cap R # {}
      BY <2>3, <3>1, <3>2 DEF Search, Grounded, Cyclic
    <3>4. R # {}
      BY <2>1, <2>3, <3>1 DEF Cyclic
    <3> QED BY <3>2, <3>3, <3>4 DEF Search, Grounded, Cyclic
  <2> QED BY <1>3, <2>2, <2>3 DEF Grounded, Cyclic
<1> QED BY <1>3, <1>4, <1>5, <1>6, <1>7, <1>8, <1>9, <1>10, <1>11, <1>12, <1>13 DEF Search

LEMMA ReturnKeeps == Search /\ Return => Search'
<1> SUFFICES ASSUME Search, Return PROVE Search'
  OBVIOUS
<1>1. UNCHANGED <<depends, roots, stack, visited, order>> /\ outcome' = "returned"
  BY DEF Return, metadata
<1>2. CalcMap \subseteq visited
  <2>1. InStack = {} /\ roots = {}
    BY DEF Return, InStack
  <2> QED BY <2>1 DEF Search
<1>3. \A S \in SUBSET CalcMap : ~Cyclic(S)
  BY <1>2 DEF Search, Grounded
<1>4. RaisedIffCycle'
  BY <1>1, <1>3 DEF RaisedIffCycle, Cyclic
<1> QED BY <1>1, <1>4, OrderPartsStay
     DEF Search, SearchTypes, FrameOK, Waits, InStack

LEMMA SearchInvariant == DagSpec => []Search
<1>1. Search /\ [DagNext]_dagVars => Search'
  <2> SUFFICES ASSUME Search, [DagNext]_dagVars PROVE Search'
    OBVIOUS
  <2>1. CASE UNCHANGED dagVars
    BY <2>1, OrderPartsStay, OutcomeStays
       DEF dagVars, metadata, Search, SearchTypes, FrameOK, Waits, InStack
  <2> QED BY <2>1, RootKeeps, DependencyKeeps, EndKeeps, ReturnKeeps DEF DagNext
<1> QED BY SearchInit, <1>1, PTL DEF DagSpec

\* For every graph, acyclic or not, a calculation's visit ends after the visits
\* of everything it depends on.
THEOREM VisitOrder == DagSpec => []VisitsInDependencyOrder
<1>1. Search => VisitsInDependencyOrder
  BY DEF Search
<1> QED BY SearchInvariant, <1>1, PTL

\* build_dag raises ValueError only for a graph with a cycle, and returns only
\* for one without.
THEOREM CycleCheck == DagSpec => []RaisedIffCycle
<1>1. Search => RaisedIffCycle
  BY DEF Search
<1> QED BY SearchInvariant, <1>1, PTL

-----------------------------------------------------------------------------
(* The list that build_dag returns *)

\* No id is visited twice: what is on the stack is there once and not visited.
Once ==
  /\ layer \in [CalcMap -> Layers]
  /\ \A i, j \in 1 .. Len(order) : order[i] = order[j] => i = j
  /\ \A i \in 1 .. Len(stack) : stack[i].id \notin visited
  /\ \A i, j \in 1 .. Len(stack) : stack[i].id = stack[j].id => i = j
  /\ outcome = "returned" => /\ CalcMap \subseteq visited
                             /\ \E n \in Nat : \E places \in [1 .. n -> Defined] :
                                  Sorted(places) /\ dag = [i \in 1 .. n |-> order[places[i]]]

LEMMA OrderStays ==
  ASSUME UNCHANGED <<order, layer, visited, outcome, dag>>, Once,
         \A i \in 1 .. Len(stack') : stack'[i].id \notin visited,
         \A i, j \in 1 .. Len(stack') : stack'[i].id = stack'[j].id => i = j
  PROVE  Once'
<1>1. Defined' = Defined
  BY DEF Defined
<1>2. ASSUME NEW places PROVE Sorted(places)' <=> Sorted(places)
  BY <1>1 DEF Sorted, Before
<1>3. ASSUME NEW n \in Nat, NEW places \in [1 .. n -> Defined], Sorted(places), dag = [i \in 1 .. n |-> order[places[i]]]
      PROVE  places \in [1 .. n -> Defined'] /\ Sorted(places)' /\ dag' = [i \in 1 .. n |-> order'[places[i]]]
  BY <1>1, <1>2, <1>3
<1>4. outcome' = "returned" =>
        \E n \in Nat : \E places \in [1 .. n -> Defined'] : Sorted(places)' /\ dag' = [i \in 1 .. n |-> order'[places[i]]]
  BY <1>3 DEF Once
<1> QED BY <1>4 DEF Once

LEMMA OnceInit == DagInit => Once
<1> SUFFICES ASSUME DagInit PROVE Once
  OBVIOUS
<1>1. Len(stack) = 0 /\ Len(order) = 0
  BY DEF DagInit
<1> QED BY <1>1 DEF DagInit, Once

LEMMA OnceRoot == Search /\ Once /\ NextRoot => Once'
<1> SUFFICES ASSUME Search, Once, NextRoot PROVE Once'
  OBVIOUS
<1>1. UNCHANGED <<order, layer, visited, outcome, dag>> /\ stack = <<>>
  BY DEF NextRoot, metadata
<1>2. PICK id \in roots : stack' = IF Due(id) THEN <<Frame(id)>> ELSE stack
  BY DEF NextRoot
<1>3. CASE Due(id)
  <2>1. Len(stack') = 1 /\ stack'[1] = Frame(id) /\ Frame(id).id = id /\ id \notin visited
    BY <1>2, <1>3 DEF Frame, Due
  <2> QED BY <1>1, <2>1, OrderStays
<1>4. CASE ~Due(id)
  BY <1>1, <1>2, <1>4, OrderStays DEF Once
<1> QED BY <1>3, <1>4

LEMMA OnceDependency == Search /\ Once /\ VisitDependency => Once'
<1> SUFFICES ASSUME Search, Once, VisitDependency PROVE Once'
  OBVIOUS
<1> DEFINE n == Len(stack)
<1>1. /\ stack \in Seq(Frames) /\ n \in Nat \ {0} /\ stack[n] \in Frames /\ outcome = "running"
      /\ UNCHANGED <<order, layer, visited, dag>>
  BY DEF VisitDependency, Search, SearchTypes, metadata
<1>2. PICK id \in Top.todo :
       \/ /\ outcome' = "raised" /\ UNCHANGED stack
       \/ /\ stack' = [stack EXCEPT ![n].todo = @ \ {id}] /\ UNCHANGED outcome
       \/ /\ id \notin InStack /\ id \notin visited
          /\ stack' = Append(stack, Frame(id)) /\ UNCHANGED outcome
  BY DEF VisitDependency
<1>3. CASE outcome' = "raised" /\ UNCHANGED stack
  BY <1>1, <1>3 DEF Once
<1>4. CASE stack' = [stack EXCEPT ![n].todo = @ \ {id}] /\ UNCHANGED outcome
  <2>1. Len(stack') = n /\ \A i \in 1 .. n : stack'[i].id = stack[i].id
    BY <1>1, <1>4 DEF Frames
  <2> QED BY <1>1, <1>4, <2>1, OrderStays DEF Once
<1>5. CASE /\ id \notin InStack /\ id \notin visited
           /\ stack' = Append(stack, Frame(id)) /\ UNCHANGED outcome
  <2>1. Frame(id).id = id
    BY DEF Frame
  <2>2. Len(stack') = n + 1 /\ stack'[n + 1] = Frame(id) /\ \A i \in 1 .. n : stack'[i] = stack[i]
    BY <1>1, <1>5
  <2>3. \A i \in 1 .. n : stack[i].id # id
    BY <1>5 DEF InStack
  <2>4. \A i \in 1 .. n + 1 : i \in 1 .. n \/ i = n + 1
    BY <1>1
  <2> QED BY <1>1, <1>5, <2>1, <2>2, <2>3, <2>4, OrderStays DEF Once
<1> QED BY <1>2, <1>3, <1>4, <1>5

LEMMA OnceEnd == Search /\ Once /\ EndVisit => Once'
<1> SUFFICES ASSUME Search, Once, EndVisit PROVE Once'
  OBVIOUS
<1> DEFINE n == Len(stack)  m == Len(order)
<1>0. stack \in Seq(Frames) /\ n \in Nat \ {0} /\ stack[n] \in Frames /\ Top = stack[n]
  BY DEF EndVisit, Search, SearchTypes, Top
<1>1. /\ stack \in Seq(Frames) /\ n \in Nat \ {0} /\ Top = stack[n]
      /\ order \in Seq(Ids) /\ m \in Nat /\ Top.id \in Ids
  BY <1>0 DEF Search, SearchTypes, Frames
<1>2. UNCHANGED <<layer, outcome>> /\ outcome = "running" /\ visited' = visited \cup {Top.id}
  BY DEF EndVisit, metadata
<1>3. Len(order') = m + 1 /\ order'[m + 1] = Top.id /\ \A i \in 1 .. m : order'[i] = order[i]
  BY <1>1, AppendProperties DEF EndVisit
<1>4. Len(stack') = n - 1 /\ \A i \in 1 .. n - 1 : stack'[i] = stack[i]
  <2>1. stack' = SubSeq(stack, 1, n - 1)
    BY DEF EndVisit
  <2> QED BY <1>1, <2>1, FrontIsSeq
<1>5. \A i \in 1 .. m : order[i] # Top.id
  <2>1. Top.id \notin visited
    BY <1>1 DEF Once
  <2> QED BY <2>1 DEF Search
<1>6. \A i, j \in 1 .. m + 1 : order'[i] = order'[j] => i = j
  <2>1. \A i \in 1 .. m + 1 : i \in 1 .. m \/ i = m + 1
    BY <1>1
  <2> QED BY <1>3, <1>5, <2>1 DEF Once
<1>7. \A i \in 1 .. n - 1 : i \in 1 .. n /\ i # n
  BY <1>1
<1>8. \A i \in 1 .. n - 1 : stack[i].id # Top.id /\ stack[i].id \notin visited
  BY <1>1, <1>7 DEF Once
<1>9. \A i, j \in 1 .. n - 1 : stack'[i].id = stack'[j].id => i = j
  BY <1>4, <1>7 DEF Once
<1> QED BY <1>2, <1>3, <1>4, <1>6, <1>8, <1>9 DEF Once

LEMMA OnceReturn == Search /\ Once /\ Return => Once'
<1> SUFFICES ASSUME Search, Once, Return PROVE Once'
  OBVIOUS
<1>1. UNCHANGED <<layer, stack, visited, order>> /\ stack = <<>> /\ roots = {}
  BY DEF Return, metadata
<1>2. CalcMap \subseteq visited
  <2>1. InStack = {}
    BY <1>1 DEF InStack
  <2> QED BY <1>1, <2>1 DEF Search
<1>3. PICK places \in [1 .. Cardinality(Defined) -> Defined] :
        Sorted(places) /\ dag' = [i \in DOMAIN places |-> order[places[i]]]
  BY DEF Return
<1>4. Cardinality(Defined) \in Nat
  <2>1. Len(order) \in Nat
    BY DEF Search, SearchTypes
  <2>2. IsFiniteSet(1 .. Len(order))
    BY <2>1, FS_Interval
  <2> QED BY <2>2, FS_Subset, FS_CardinalityType DEF Defined
<1>5. Sorted(places)' /\ Defined' = Defined
  BY <1>1, <1>3 DEF Sorted, Defined, Before
<1>6. \E n \in Nat : \E p \in [1 .. n -> Defined'] : Sorted(p)' /\ dag' = [i \in 1 .. n |-> order'[p[i]]]
  BY <1>1, <1>3, <1>4, <1>5
<1> QED BY <1>1, <1>2, <1>6 DEF Once

LEMMA OnceInvariant == DagSpec => [](Search /\ Once)
<1>1. Search /\ Once /\ [DagNext]_dagVars => Once'
  <2> SUFFICES ASSUME Search, Once, [DagNext]_dagVars PROVE Once'
    OBVIOUS
  <2>1. CASE UNCHANGED dagVars
    BY <2>1, OrderStays DEF dagVars, metadata, Once
  <2> QED BY <2>1, OnceRoot, OnceDependency, OnceEnd, OnceReturn DEF DagNext
<1> QED BY SearchInvariant, OnceInit, <1>1, PTL DEF DagSpec

\* What is in the returned list, and in which order.
Listed(n, places) ==
  /\ dag = [i \in 1 .. n |-> order[places[i]]] /\ Len(dag) = n
  /\ \A c \in CalcMap : \E i \in 1 .. n : order[places[i]] = c
  /\ \A k \in Defined : \E i \in 1 .. n : places[i] = k
  /\ \A i, j \in 1 .. n : i < j => Before(places[i], places[j])

LEMMA Listing ==
  ASSUME Search, Once, outcome = "returned"
  PROVE  \E n \in Nat : \E places \in [1 .. n -> Defined] : Listed(n, places)
<1>0. PICK n \in Nat : \E places \in [1 .. n -> Defined] : Sorted(places) /\ dag = [i \in 1 .. n |-> order[places[i]]]
  BY DEF Once
<1>1. PICK places \in [1 .. n -> Defined] : Sorted(places) /\ dag = [i \in 1 .. n |-> order[places[i]]]
  BY <1>0
<1>2. \A k \in Defined : \E i \in 1 .. n : places[i] = k
  BY <1>1 DEF Sorted
<1>3. ASSUME NEW c \in CalcMap PROVE \E i \in 1 .. n : order[places[i]] = c
  <2>1. PICK k \in 1 .. Len(order) : order[k] = c
    BY DEF Once, Search
  <2> QED BY <1>2, <2>1 DEF Defined
<1>4. Len(dag) = n
  BY <1>1
<1> QED BY <1>1, <1>2, <1>3, <1>4 DEF Sorted, Listed

LEMMA PlacesDiffer ==
  ASSUME Once, NEW i \in Defined, NEW j \in Defined, Before(i, j)
  PROVE  i # j /\ ~Before(j, i)
BY FourLayers DEF Once, Defined, Before

\* The list that build_dag returns has every calculation exactly once.
THEOREM AllListedOnce == DagSpec => []EachCalculationOnce
<1>1. ASSUME Search, Once, outcome = "returned", NEW c \in CalcMap
      PROVE  \E i \in 1 .. Len(dag) : \A j \in 1 .. Len(dag) : dag[j] = c <=> j = i
  <2>0. PICK n \in Nat : \E places \in [1 .. n -> Defined] : Listed(n, places)
    BY <1>1, Listing
  <2>1. PICK places \in [1 .. n -> Defined] : Listed(n, places)
    BY <2>0
  <2>2. PICK i \in 1 .. n : order[places[i]] = c
    BY <2>1 DEF Listed
  <2>3. ASSUME NEW j \in 1 .. n, order[places[j]] = c PROVE j = i
    <3>1. places[i] = places[j]
      BY <1>1, <2>2, <2>3 DEF Once, Defined
    <3>2. ~(i < j) /\ ~(j < i)
      BY <1>1, <2>1, <3>1, PlacesDiffer DEF Listed
    <3> QED BY <3>2
  <2>4. Len(dag) = n /\ \A j \in 1 .. n : dag[j] = order[places[j]]
    BY <2>1 DEF Listed
  <2>5. ASSUME NEW j \in 1 .. n PROVE dag[j] = c <=> j = i
    BY <2>2, <2>3, <2>4
  <2> QED BY <2>4, <2>5
<1>2. Search /\ Once => EachCalculationOnce
  BY <1>1 DEF EachCalculationOnce
<1> QED BY OnceInvariant, <1>2, PTL

\* As long as no calculation depends on one of a later layer, it comes after all
\* that it depends on in the list that build_dag returns.
THEOREM DagInOrder == DagSpec => []LayeredDagInDependencyOrder
<1>1. ASSUME Search, Once, outcome = "returned", LayersFollowDependencies,
             NEW i \in 1 .. Len(dag), dag[i] \in CalcMap, NEW d \in depends[dag[i]] \cap CalcMap
      PROVE  \E j \in 1 .. i - 1 : dag[j] = d
  <2>0. PICK n \in Nat : \E places \in [1 .. n -> Defined] : Listed(n, places)
    BY <1>1, Listing
  <2>1. PICK places \in [1 .. n -> Defined] : Listed(n, places)
    BY <2>0
  <2>2. i \in 1 .. n /\ places[i] \in Defined /\ dag[i] = order[places[i]]
    BY <1>1, <2>1 DEF Listed
  <2>3. PICK k \in 1 .. places[i] - 1 : order[k] = d
    BY <1>1, <2>2 DEF Search, VisitsInDependencyOrder, DependencyOrder, NeedsWithin, Defined
  <2>4. k \in Defined /\ k < places[i] /\ layer[d] <= layer[dag[i]] /\ layer[d] \in 0 .. 3 /\ layer[dag[i]] \in 0 .. 3
    <3>1. places[i] \in 1 .. Len(order) /\ Len(order) \in Nat
      BY <2>2 DEF Defined, Search, SearchTypes
    <3>2. layer[d] \in Layers /\ layer[dag[i]] \in Layers
      BY <1>1 DEF Once
    <3>3. layer[d] <= layer[dag[i]]
      BY <1>1 DEF LayersFollowDependencies
    <3>4. k \in 1 .. Len(order) /\ k < places[i] /\ order[k] \in CalcMap
      BY <2>3, <3>1
    <3> QED BY <3>2, <3>3, <3>4, FourLayers DEF Defined
  <2>5. Before(k, places[i])
    BY <2>2, <2>3, <2>4 DEF Before
  <2>6. PICK j \in 1 .. n : places[j] = k
    BY <2>1, <2>4 DEF Listed
  <2>7. ~(i < j) /\ i # j
    BY <1>1, <2>1, <2>2, <2>4, <2>5, <2>6, PlacesDiffer DEF Listed
  <2>8. j \in 1 .. i - 1
    BY <2>2, <2>7
  <2> QED BY <2>1, <2>3, <2>6, <2>8 DEF Listed
<1>2. Search /\ Once => LayeredDagInDependencyOrder
  BY <1>1 DEF LayeredDagInDependencyOrder, DependencyOrder, NeedsWithin
<1> QED BY OnceInvariant, <1>2, PTL

-----------------------------------------------------------------------------
(* CalcPipeline: the order of the work *)

\* Every nonempty set of natural numbers has a least one.
LEMMA LeastNatural ==
  ASSUME NEW T \in SUBSET Nat, T # {}
  PROVE  \E n \in T : \A m \in T : n <= m
<1> DEFINE R == {ss \in Nat \X Nat : ss[1] < ss[2]}
<1>1. IsWellFoundedOn(R, Nat)
  BY NatLessThanWellFounded DEF OpToRel
<1>2. PICK n \in T : \A m \in T : ~(<<m, n>> \in R)
  <2> HIDE DEF R
  <2> QED BY <1>1, WFMin
<1>3. \A m \in T : ~(m < n)
  BY <1>2
<1> QED BY <1>3

LEMMA PlaceIs ==
  ASSUME NEW c \in Calcs
  PROVE  Place(c) \in 1 .. Len(Dag) /\ Place(c) \in Nat /\ Dag[Place(c)] = c
<1>1. Len(Dag) \in Nat /\ \E i \in 1 .. Len(Dag) : Dag[i] = c
  BY DagListsOnce DEF Calcs
<1>2. Place(c) \in 1 .. Len(Dag) /\ Dag[Place(c)] = c
  BY <1>1 DEF Place
<1> QED BY <1>1, <1>2

LEMMA PlaceOnce ==
  ASSUME NEW c \in Calcs, NEW d \in Calcs, Place(c) = Place(d)
  PROVE  c = d
  BY PlaceIs

LEMMA FirstIs ==
  ASSUME NEW S \in SUBSET Calcs, S # {}
  PROVE  /\ First(S) \in S /\ First(S) \in Calcs
         /\ \A d \in S : Place(First(S)) <= Place(d)
<1>1. {Place(c) : c \in S} \in SUBSET Nat /\ {Place(c) : c \in S} # {}
  BY PlaceIs
<1>2. PICK n \in {Place(c) : c \in S} : \A m \in {Place(c) : c \in S} : n <= m
  BY <1>1, LeastNatural
<1>3. \E c \in S : \A d \in S : Place(c) <= Place(d)
  BY <1>2
<1> QED BY <1>3 DEF First

LEMMA ReadsBefore ==
  ASSUME NEW c \in Calcs, NEW d \in Reads[c]
  PROVE  d \in Calcs /\ Place(d) < Place(c)
<1>1. Len(Dag) \in Nat /\ Place(c) \in 1 .. Len(Dag) /\ Dag[Place(c)] = c
  BY PlaceIs, DagListsOnce
<1>2. PICK j \in 1 .. Place(c) - 1 : d = Dag[j]
  BY <1>1, ReadsEarlier
<1>3. j \in 1 .. Len(Dag) /\ d \in Calcs
  BY <1>1, <1>2 DEF Calcs
<1>4. Place(d) = j
  BY <1>2, <1>3, PlaceIs, DagListsOnce
<1> QED BY <1>1, <1>2, <1>3, <1>4

\* What c needs includes it and what it reads needs, and comes no later.
LEMMA NeededIs ==
  ASSUME NEW c \in Calcs
  PROVE  /\ c \in Needed(c) /\ Needed(c) \subseteq Calcs
         /\ \A d \in Reads[c] : Needed(d) \subseteq Needed(c)
         /\ \A d \in Needed(c) : Place(d) <= Place(c)
<1>1. \A d \in Reads[c] : Needed(d) \subseteq Needed(c)
  BY DEF Needed, Closed
<1>2. \A d \in Needed(c) : Place(d) <= Place(c)
  <2> DEFINE S == {d \in Calcs : Place(d) <= Place(c)}
  <2>1. c \in S
    BY PlaceIs
  <2>2. Closed(S)
    <3> SUFFICES ASSUME NEW e \in S, NEW d \in Reads[e] PROVE d \in S
      BY DEF Closed
    <3>1. d \in Calcs /\ Place(d) < Place(e)
      BY ReadsBefore
    <3> QED BY <3>1, PlaceIs
  <2> QED BY <2>1, <2>2 DEF Needed
<1> QED BY <1>1, <1>2 DEF Needed

-----------------------------------------------------------------------------
(* CalcPipeline: requests and their steps *)

Executing == {"select", "drop view", "drop table", "create", "commit", "fetch", "open",
              "write"}
Loading == {"read csv", "open base", "write base"}
Saving == {"forget", "save base", "write base saved", "save", "write saved"}
Copying == {"remove base", "copy base", "write base copy", "remove", "copy", "write copy"}

StepsOf(kind) == CASE Pipeline(kind) -> Executing \cup {"answer"}
                   [] kind = "load" -> Loading \cup {"answer"}
                   [] kind = "reload" -> Loading \cup Registering \cup {"answer"}
                   [] kind = "restore" -> Copying \cup Loading \cup Registering \cup {"answer"}
                   [] kind = "save" -> Saving
                   [] OTHER -> {"idle"}
\* The steps that work on the first calculation of the list.
OnCalc == Executing \cup Registering \cup {"write saved", "write copy"}

\* A demo step restores a snapshot, or only reloads.
KindsOf(w) == serves[w] \cup {"none"}
              \cup IF "demo" \in serves[w] THEN {"restore", "reload"} ELSE {}

\* A record that a request of w may have: it takes the steps of its kind, and those
\* that work on a calculation only when there is one.
Regularly(w, j) ==
  /\ j \in Jobs /\ j.kind \in KindsOf(w) /\ j.at \in StepsOf(j.kind)
  /\ j.at = "idle" => j = Idle
  /\ j.at \in OnCalc => j.todo # {}

\* What is whole has content.
Usable(file) == file.state = "whole" => file.of # {}

Requests == job \in [Workers -> Jobs] /\ \A w \in Workers : Regularly(w, job[w])
\* The other variables.
Holds ==
  /\ serves \in Traffic /\ base \in Files /\ tables \in [Calcs -> Entries]
  /\ parquet \in [Calcs -> Files]
  /\ \A s, t \in snapshot : s \in Snapshots /\ s = t
  /\ seen \subseteq Versions /\ done \subseteq Calcs /\ lost \subseteq Calcs
  /\ crashes \in 0 .. MaxCrashes
  /\ Usable(base) /\ \A s \in snapshot : Usable(s.base)

Regular == Requests /\ Holds

LEMMA StepsDiffer ==
  ASSUME NEW kind, NEW at, at \in StepsOf(kind)
  PROVE  /\ at \in Executing \ {"drop view", "drop table"} => Pipeline(kind)
         /\ at \in {"drop view", "drop table"} => Pipeline(kind) \/ kind \in {"reload", "restore"}
         /\ at = "create view" => kind \in {"reload", "restore"}
         /\ at \in Loading => kind \in {"load", "reload", "restore"}
         /\ at \in Copying => kind = "restore"
         /\ at \in Saving => kind = "save"
         /\ at \in Executing \cup Loading \cup Saving \cup Copying \cup Registering \cup {"answer"} \/ at = "idle"
  BY DEF StepsOf, Executing, Loading, Saving, Copying, Registering, Pipeline

LEMMA IdleRegularly == ASSUME NEW w PROVE Regularly(w, Idle)
  BY DEF Regularly, KindsOf, Idle, Jobs, StepsOf, Pipeline, OnCalc, Executing, Registering

LEMMA RegularInit == Init => Regular
<1> SUFFICES ASSUME Init PROVE Regular
  OBVIOUS
<1>1. base \in Files /\ Usable(base)
  BY DEF Init, Files, Usable
<1>2. Requests
  <2>1. \A w \in Workers : job[w] = Idle /\ Regularly(w, Idle)
    BY IdleRegularly DEF Init
  <2> QED BY <2>1 DEF Init, Requests, Regularly
<1>3. Holds
  BY <1>1, CrashesBounded DEF Init, Holds, Entries, None, Files, Absent
<1> QED BY <1>2, <1>3 DEF Regular

LEMMA Moved ==
  ASSUME Requests, NEW w \in Workers, NEW j, Move(w, j)
  PROVE  job'[w] = j /\ \A v \in Workers : v # w => job'[v] = job[v]
  BY DEF Requests, Move

LEMMA OnwardIs ==
  ASSUME NEW j \in Jobs, j.todo # {}, NEW step \in {"select", "drop view"},
         NEW o, o = Onward(j, step)
  PROVE  /\ o \in Jobs /\ o.kind = j.kind /\ o.todo = Rest(j) /\ o.done = j.done
         /\ o.at = IF Rest(j) = {} THEN "answer" ELSE step
         /\ o.of = {} /\ o.fh = "alone"
  BY DEF Onward, Jobs, Rest

LEMMA DoneIs ==
  ASSUME NEW j \in Jobs, j.todo # {}, NEW o, o = Done(j)
  PROVE  /\ o \in Jobs /\ o.kind = j.kind /\ o.todo = Rest(j)
         /\ o.done = j.done \cup {First(j.todo)}
         /\ o.at = IF Rest(j) = {} THEN "answer" ELSE "select"
<1> DEFINE k == [j EXCEPT !.done = @ \cup {First(j.todo)}]
<1>1. First(j.todo) \in Calcs
  BY FirstIs DEF Jobs
<1>2. k \in Jobs /\ k.kind = j.kind /\ k.todo = j.todo /\ k.done = j.done \cup {First(j.todo)}
  BY <1>1 DEF Jobs
<1>3. Rest(k) = Rest(j) /\ o = Onward(k, "select")
  BY <1>2 DEF Rest, Done
<1> HIDE DEF k
<1>4. ASSUME NEW i \in Jobs, i.todo # {}, o = Onward(i, "select")
      PROVE  o \in Jobs /\ o.kind = i.kind /\ o.todo = Rest(i) /\ o.done = i.done
             /\ o.at = IF Rest(i) = {} THEN "answer" ELSE "select"
  BY <1>4, OnwardIs
<1>5. k \in Jobs /\ k.todo # {}
  BY <1>2
<1> QED BY <1>2, <1>3, <1>4, <1>5

LEMMA RaisedIs ==
  ASSUME NEW j \in Jobs, j.todo # {}, NEW o, o = Raised(j)
  PROVE  /\ o \in Jobs /\ o.kind = j.kind
         /\ j.kind = "run" => /\ o.todo = Rest(j) /\ o.done = j.done
                              /\ o.at = IF Rest(j) = {} THEN "answer" ELSE "select"
         /\ j.kind # "run" => o.at = "answer" /\ o.todo = j.todo
         /\ o.done = j.done \/ o.done = {}
<1>1. CASE j.kind = "run"
  BY <1>1, OnwardIs DEF Raised
<1>2. CASE j.kind # "run"
  BY <1>2 DEF Raised, Jobs
<1> QED BY <1>1, <1>2

LEMMA JobIs ==
  ASSUME Regular, NEW w \in Workers
  PROVE  Regularly(w, job[w])
  BY DEF Regular, Requests

LEMMA CalcIs ==
  ASSUME Regular, NEW w \in Workers, job[w].todo # {}
  PROVE  /\ Calc(w) \in job[w].todo /\ Calc(w) \in Calcs
         /\ \A d \in job[w].todo : Place(Calc(w)) <= Place(d)
         /\ Rest(job[w]) = job[w].todo \ {Calc(w)} /\ Calc(w) = First(job[w].todo)
  BY FirstIs DEF Calc, Rest, Regular, Requests, Jobs

LEMMA SameRegularly ==
  ASSUME NEW w, NEW j, Regularly(w, j), UNCHANGED serves
  PROVE  Regularly(w, j)'
  BY DEF Regularly, KindsOf

LEMMA MovedRegularly ==
  ASSUME Regular, NEW w \in Workers, NEW j, Regularly(w, j), Move(w, j), UNCHANGED serves
  PROVE  Requests'
<1>1. job \in [Workers -> Jobs] /\ job'[w] = j /\ \A v \in Workers : v # w => job'[v] = job[v]
  BY Moved DEF Regular, Requests
<1>2. job' \in [Workers -> Jobs]
  <2>1. j \in Jobs
    BY DEF Regularly
  <2>2. job' = [job EXCEPT ![w] = j]
    BY DEF Move
  <2> QED BY <1>1, <2>1, <2>2
<1>3. \A v \in Workers : Regularly(v, job'[v])
  BY <1>1 DEF Regular, Requests
<1>4. \A v \in Workers : Regularly(v, job[v])'
  BY <1>3 DEF Regularly, KindsOf
<1> QED BY <1>2, <1>4 DEF Requests

LEMMA StartRegular ==
  ASSUME Regular, NEW w \in Workers, Start(w), UNCHANGED serves
  PROVE  Regular'
<1>1. PICK kind \in serves[w] : Start(w)!(kind)
  BY DEF Start
<1>2. kind \in Kinds
  BY <1>1, TrafficKinds DEF Regular, Holds
<1>3. Holds'
  <2>1. base.of \subseteq Versions
    BY DEF Regular, Holds, Files, Absent, Torn
  <2> QED BY <1>1, <2>1 DEF Regular, Holds
<1>4. \A j : Regularly(w, j) /\ Move(w, j) => Regular'
  BY <1>3, MovedRegularly DEF Regular
<1>5. ASSUME NEW todo \in SUBSET Calcs, NEW asked, NEW at,
             asked \in KindsOf(w), asked \in {"run", "stage", "one", "load", "restore", "reload", "save"},
             at \in {"select", "read csv", "forget", "remove base"}, at \in StepsOf(asked),
             at = "select" => todo # {}
      PROVE  Regularly(w, [Idle EXCEPT !.kind = asked, !.at = at, !.todo = todo])
  <2> DEFINE j == [Idle EXCEPT !.kind = asked, !.at = at, !.todo = todo]
  <2>1. j \in Jobs /\ j.kind = asked /\ j.at = at /\ j.todo = todo
    BY <1>5 DEF Idle, Jobs
  <2> HIDE DEF j
  <2>2. j.at \in OnCalc => j.todo # {}
    BY <1>5, <2>1 DEF OnCalc, Executing, Registering
  <2>3. Regularly(w, j)
    BY <1>5, <2>1, <2>2 DEF Regularly
  <2> QED BY <2>3 DEF j
<1>6. CASE kind \in {"run", "stage"}
  <2>1. Calcs # {}
    <3>1. Len(Dag) \in Nat /\ Len(Dag) # 0
      BY DagListsOnce, EmptySeq
    <3>2. 1 \in 1 .. Len(Dag)
      BY <3>1
    <3> QED BY <3>2 DEF Calcs
  <2>2. kind # "one" /\ kind # "load" /\ kind # "demo" /\ kind # "save"
    BY <1>6
  <2>3. Move(w, [Idle EXCEPT !.kind = kind, !.at = "select", !.todo = Calcs])
    BY <1>1, <2>2
  <2>4. kind \in KindsOf(w) /\ "select" \in StepsOf(kind)
    BY <1>1, <1>6 DEF KindsOf, StepsOf, Pipeline, Executing
  <2>5. Regularly(w, [Idle EXCEPT !.kind = kind, !.at = "select", !.todo = Calcs])
    BY <1>5, <1>6, <2>1, <2>4
  <2> QED BY <1>4, <2>3, <2>5
<1>7. CASE kind = "one"
  <2>1. PICK c \in Calcs :
          Move(w, [Idle EXCEPT !.kind = kind, !.at = "select", !.todo = Needed(c)])
    BY <1>1, <1>7
  <2>2. Needed(c) \in SUBSET Calcs /\ Needed(c) # {}
    BY NeededIs
  <2>3. kind \in KindsOf(w) /\ "select" \in StepsOf(kind)
    BY <1>1, <1>7 DEF KindsOf, StepsOf, Pipeline, Executing
  <2>4. Regularly(w, [Idle EXCEPT !.kind = kind, !.at = "select", !.todo = Needed(c)])
    BY <1>5, <1>7, <2>2, <2>3
  <2> QED BY <1>4, <2>1, <2>4
<1>8. ASSUME NEW asked, NEW at, Move(w, [Idle EXCEPT !.kind = asked, !.at = at]),
             asked \in KindsOf(w), asked \in {"load", "restore", "reload", "save"},
             at \in {"read csv", "forget", "remove base"}, at \in StepsOf(asked)
      PROVE  Regular'
  <2> DEFINE j == [Idle EXCEPT !.kind = asked, !.at = at]
  <2>1. j \in Jobs /\ j.kind = asked /\ j.at = at
    BY <1>8 DEF Idle, Jobs
  <2>2. Move(w, j)
    BY <1>8
  <2> HIDE DEF j
  <2>3. j.at \notin OnCalc /\ j.at # "idle"
    BY <1>8, <2>1 DEF OnCalc, Executing, Registering
  <2>4. Regularly(w, j)
    BY <1>8, <2>1, <2>3 DEF Regularly
  <2> QED BY <1>4, <2>2, <2>4
<1>9. CASE kind = "load"
  <2>1. Move(w, [Idle EXCEPT !.kind = kind, !.at = "read csv"])
    BY <1>1, <1>9
  <2> QED BY <1>1, <1>8, <1>9, <2>1 DEF KindsOf, StepsOf, Pipeline, Loading
<1>10. CASE kind = "save"
  <2>1. Move(w, [Idle EXCEPT !.kind = kind, !.at = "forget"])
    BY <1>1, <1>10
  <2> QED BY <1>1, <1>8, <1>10, <2>1 DEF KindsOf, StepsOf, Pipeline, Saving
<1>11. CASE kind = "demo"
  <2>1. \/ Move(w, [Idle EXCEPT !.kind = "reload", !.at = "read csv"])
        \/ Move(w, [Idle EXCEPT !.kind = "restore", !.at = "remove base"])
    BY <1>1, <1>11
  <2>2. {"reload", "restore"} \subseteq KindsOf(w)
    BY <1>1, <1>11 DEF KindsOf
  <2>3. "read csv" \in StepsOf("reload") /\ "remove base" \in StepsOf("restore")
    BY DEF StepsOf, Pipeline, Loading, Copying
  <2> QED BY <1>8, <2>1, <2>2, <2>3
<1> QED BY <1>2, <1>6, <1>7, <1>9, <1>10, <1>11 DEF Kinds

LEMMA GoesOn ==
  ASSUME Regular, NEW w \in Workers, NEW j, j \in Jobs, j.kind = job[w].kind, ~At(w, "idle"),
         j.at \in StepsOf(j.kind), j.at # "idle", j.at \in OnCalc => j.todo # {}
  PROVE  Regularly(w, j)
  BY JobIs DEF Regularly, At

LEMMA WentTo ==
  ASSUME Regular, NEW w \in Workers, NEW step, Goto(w, step),
         step \in StepsOf(job[w].kind), step # "idle", ~At(w, "idle"),
         step \in OnCalc => job[w].todo # {},
         UNCHANGED serves
  PROVE  Requests'
<1> DEFINE j == [job[w] EXCEPT !.at = step]
<1>1. job[w] \in Jobs
  BY JobIs DEF Regularly
<1>2. step \in Executing \cup Loading \cup Saving \cup Copying \cup Registering \cup {"answer"}
  BY StepsDiffer
<1>3. j \in Jobs /\ j.kind = job[w].kind /\ j.at = step /\ j.todo = job[w].todo
  BY <1>1, <1>2 DEF Jobs, Executing, Registering, Loading, Saving, Copying
<1>4. Move(w, j)
  BY DEF Goto
<1> HIDE DEF j
<1> QED BY <1>3, <1>4, GoesOn, MovedRegularly

LEMMA RaisedRegular ==
  ASSUME Regular, NEW w \in Workers, job[w].at \in Executing, Pipeline(job[w].kind)
  PROVE  Regularly(w, Raised(job[w]))
<1> DEFINE j == Raised(job[w])
<1>1. job[w] \in Jobs /\ job[w].todo # {} /\ ~At(w, "idle")
  BY JobIs DEF Regularly, Executing, At, OnCalc
<1>2. j \in Jobs /\ j.kind = job[w].kind /\ j.at \in {"answer", "select"}
      /\ (j.at = "select" => j.todo # {})
  BY <1>1, RaisedIs
<1> HIDE DEF j
<1>3. j.at \in StepsOf(j.kind)
  BY <1>2 DEF StepsOf, Executing, Pipeline
<1>4. j.at # "idle" /\ (j.at \in OnCalc => j.todo # {})
  BY <1>2 DEF Executing, Registering, OnCalc
<1>5. Regularly(w, j)
  BY <1>1, <1>2, <1>3, <1>4, GoesOn
<1> QED BY <1>5 DEF j

LEMMA PipelineStep ==
  ASSUME Regular, NEW w \in Workers,
         job[w].at \in {"select", "create", "commit", "fetch", "open", "write"}
  PROVE  Pipeline(job[w].kind) /\ job[w].at \in Executing /\ job[w].todo # {} /\ ~At(w, "idle")
  BY JobIs, StepsDiffer DEF Regularly, Executing, OnCalc, At

LEMMA RowsAre ==
  ASSUME Regular, NEW c \in Calcs
  PROVE  /\ Rows(tables[c], parquet[c]) \subseteq Versions
         /\ Result(c) \subseteq Versions
<1>1. \A d \in Calcs : Rows(tables[d], parquet[d]) \subseteq Versions
  BY DEF Regular, Holds, Rows, Entries, Files, None, View, Absent, Torn
<1>2. base.of \subseteq Versions
  BY DEF Regular, Holds, Files, Absent, Torn
<1> QED BY <1>1, <1>2, ReadsBefore DEF Result

LEMMA SelectRegular ==
  ASSUME Regular, NEW w \in Workers, Select(w), UNCHANGED serves
  PROVE  Regular'
<1>1. Pipeline(job[w].kind) /\ job[w].at \in Executing /\ job[w].todo # {} /\ ~At(w, "idle")
  BY PipelineStep DEF Select, At
<1>2. Holds'
  BY DEF Select, Regular, Holds
<1>3. CASE Goto(w, "drop view")
  <2>1. "drop view" \in StepsOf(job[w].kind)
    BY <1>1 DEF StepsOf, Executing, Pipeline
  <2> QED BY <1>1, <1>2, <1>3, <2>1, WentTo DEF Regular
<1>4. CASE Move(w, Raised(job[w]))
  BY <1>1, <1>2, <1>4, RaisedRegular, MovedRegularly DEF Regular
<1> QED BY <1>3, <1>4 DEF Select

LEMMA DropRegular ==
  ASSUME Regular, NEW w \in Workers, DropView(w) \/ DropTable(w), UNCHANGED serves
  PROVE  Regular'
<1>1. job[w].at \in {"drop view", "drop table"} /\ job[w].todo # {} /\ ~At(w, "idle")
  BY JobIs DEF DropView, DropTable, At, Regularly, Executing, OnCalc
<1>2. Holds'
  BY DEF DropView, DropTable, Regular, Holds, Entries, None
<1>3. PICK step \in {"drop table", "create", "create view"} :
        Goto(w, step) /\ (step = "create" => Pipeline(job[w].kind))
                      /\ (step = "create view" => ~Pipeline(job[w].kind))
  BY DEF DropView, DropTable
<1>4. Pipeline(job[w].kind) \/ job[w].kind \in {"reload", "restore"}
  BY <1>1, JobIs, StepsDiffer DEF Regularly
<1>5. step \in StepsOf(job[w].kind)
  BY <1>3, <1>4 DEF StepsOf, Executing, Registering, Pipeline
<1> QED BY <1>1, <1>2, <1>3, <1>5, WentTo DEF Regular

LEMMA CreateRegular ==
  ASSUME Regular, NEW w \in Workers, CreateTable(w), UNCHANGED serves
  PROVE  Regular'
<1>1. Pipeline(job[w].kind) /\ job[w].at \in Executing /\ job[w].todo # {} /\ ~At(w, "idle")
  BY PipelineStep DEF CreateTable, At
<1>2. Holds'
  BY DEF CreateTable, Regular, Holds
<1>3. CASE Move(w, [job[w] EXCEPT !.at = "commit", !.of = Result(Calc(w))])
  <2> DEFINE of == Result(Calc(w))  j == [job[w] EXCEPT !.at = "commit", !.of = of]
  <2>1. of \subseteq Versions /\ job[w] \in Jobs
    BY <1>1, CalcIs, RowsAre, JobIs DEF Regularly
  <2>2. j \in Jobs /\ j.kind = job[w].kind /\ j.at = "commit" /\ j.todo # {}
    <3> HIDE DEF of
    <3> QED BY <1>1, <2>1 DEF Jobs
  <2>3. Move(w, j)
    BY <1>3
  <2> HIDE DEF j
  <2>4. j.at \in StepsOf(j.kind) /\ j.at # "idle"
    BY <1>1, <2>2 DEF StepsOf, Executing, Pipeline
  <2> QED BY <1>1, <1>2, <2>2, <2>3, <2>4, GoesOn, MovedRegularly DEF Regular
<1>4. CASE Move(w, Raised(job[w]))
  BY <1>1, <1>2, <1>4, RaisedRegular, MovedRegularly DEF Regular
<1> QED BY <1>3, <1>4 DEF CreateTable

LEMMA CommitRegular ==
  ASSUME Regular, NEW w \in Workers, CommitTable(w), UNCHANGED serves
  PROVE  Regular'
<1>1. Pipeline(job[w].kind) /\ job[w].at \in Executing /\ job[w].todo # {} /\ ~At(w, "idle")
  BY PipelineStep DEF CommitTable, At
<1>2. Table(job[w].of) \in Entries
  BY JobIs DEF Regularly, Jobs, Table, Entries
<1>3. Holds'
  BY <1>2 DEF CommitTable, Regular, Holds
<1>4. "fetch" \in StepsOf(job[w].kind) /\ Goto(w, "fetch")
  BY <1>1 DEF StepsOf, Executing, Pipeline, CommitTable
<1> QED BY <1>1, <1>3, <1>4, WentTo DEF Regular

LEMMA FetchRegular ==
  ASSUME Regular, NEW w \in Workers, Fetch(w), UNCHANGED serves
  PROVE  Regular'
<1>1. Pipeline(job[w].kind) /\ job[w].at \in Executing /\ job[w].todo # {} /\ ~At(w, "idle")
  BY PipelineStep DEF Fetch, At
<1>2. Holds'
  BY DEF Fetch, Regular, Holds
<1>3. CASE Move(w, [job[w] EXCEPT !.at = "open",
                                  !.of = Rows(tables[Calc(w)], parquet[Calc(w)])])
  <2> DEFINE of == Rows(tables[Calc(w)], parquet[Calc(w)])
             j == [job[w] EXCEPT !.at = "open", !.of = of]
  <2>1. of \subseteq Versions /\ job[w] \in Jobs
    BY <1>1, CalcIs, RowsAre, JobIs DEF Regularly
  <2>2. j \in Jobs /\ j.kind = job[w].kind /\ j.at = "open" /\ j.todo # {}
    <3> HIDE DEF of
    <3> QED BY <1>1, <2>1 DEF Jobs
  <2>3. Move(w, j)
    BY <1>3
  <2> HIDE DEF j
  <2>4. j.at \in StepsOf(j.kind) /\ j.at # "idle"
    BY <1>1, <2>2 DEF StepsOf, Executing, Pipeline
  <2> QED BY <1>1, <1>2, <2>2, <2>3, <2>4, GoesOn, MovedRegularly DEF Regular
<1>4. CASE Move(w, Raised(job[w]))
  BY <1>1, <1>2, <1>4, RaisedRegular, MovedRegularly DEF Regular
<1> QED BY <1>3, <1>4 DEF Fetch

\* Two records of a request between which only step and file handle may differ.
Alike(j, k) == k.kind = j.kind /\ k.todo = j.todo /\ k.of = j.of /\ k.done = j.done

LEMMA AlikeRegularly ==
  ASSUME NEW w, NEW j, NEW k \in Jobs, Regularly(w, j), Alike(j, k), k.at = j.at,
         j.at = "idle" => k = j
  PROVE  Regularly(w, k)
  BY DEF Regularly, Alike

\* The request of w goes on to a step, those of others lose the file they have open.
LEMMA Opened ==
  ASSUME Regular, NEW w \in Workers, NEW others, NEW step, Opening(w, others, step),
         step \in Executing \cup Loading \cup Copying
  PROVE  /\ job' \in [Workers -> Jobs]
         /\ Alike(job[w], job'[w]) /\ job'[w].at = step
         /\ others = {} => job'[w].fh = "alone"
         /\ \A v \in Workers : v # w => /\ Alike(job[v], job'[v]) /\ job'[v].at = job[v].at
                                        /\ v \in others \/ job'[v] = job[v]
<1> DEFINE fh == IF others = {} THEN "alone" ELSE "mixed"
           mine == [job[w] EXCEPT !.at = step, !.fh = fh]
           marked(o) == [job[o] EXCEPT !.fh = "mixed"]
<1>1. \A o \in Workers : job[o] \in Jobs
  BY DEF Regular, Requests
<1>2. job' = [o \in Workers |-> IF o = w THEN mine ELSE IF o \in others THEN marked(o) ELSE job[o]]
  BY DEF Opening
<1>3. fh \in {"alone", "mixed"} /\ (others = {} => fh = "alone")
  OBVIOUS
<1>4. mine \in Jobs /\ Alike(job[w], mine) /\ mine.at = step /\ mine.fh = fh
  <2> HIDE DEF fh
  <2> QED BY <1>1, <1>3 DEF Jobs, Alike, Executing, Loading, Copying
<1>5. \A o \in Workers : marked(o) \in Jobs /\ Alike(job[o], marked(o)) /\ marked(o).at = job[o].at
  BY <1>1 DEF Jobs, Alike
<1>6. \A o \in Workers : Alike(job[o], job[o])
  BY DEF Alike
<1> HIDE DEF fh, mine, marked
<1> QED BY <1>1, <1>2, <1>3, <1>4, <1>5, <1>6

LEMMA OpenedRegularly ==
  ASSUME Regular, NEW w \in Workers, NEW others, NEW step, Opening(w, others, step),
         step \in Executing \cup Loading \cup Copying, step \in StepsOf(job[w].kind),
         step \in OnCalc => job[w].todo # {}, ~At(w, "idle"),
         \A o \in others : ~At(o, "idle"), UNCHANGED serves
  PROVE  Requests'
<1>1. step # "idle"
  BY DEF Executing, Loading, Copying
<1>2. Regularly(w, job'[w])
  BY <1>1, Opened, GoesOn DEF Alike
<1>3. ASSUME NEW v \in Workers, v # w PROVE Regularly(v, job'[v])
  BY <1>3, Opened, JobIs, AlikeRegularly DEF At
<1>4. \A v \in Workers : Regularly(v, job[v])'
  BY <1>2, <1>3, Opened DEF Regularly, KindsOf
<1> QED BY <1>4, Opened DEF Requests

LEMMA OpenedResult ==
  ASSUME Regular, NEW w \in Workers, Open(w)
  PROVE  /\ job' \in [Workers -> Jobs]
         /\ job'[w].at = "write" /\ job'[w].todo = job[w].todo /\ job'[w].of = job[w].of
         /\ job'[w].kind = job[w].kind /\ job'[w].done = job[w].done
         /\ {o \in Workers : HasOpen(o, Calc(w))} = {} => job'[w].fh = "alone"
         /\ \A v \in Workers : v # w => /\ job'[v].at = job[v].at /\ job'[v].todo = job[v].todo
                                        /\ job'[v].of = job[v].of /\ job'[v].kind = job[v].kind
<1> DEFINE others == {o \in Workers : HasOpen(o, Calc(w))}
<1>1. Opening(w, others, "write") /\ "write" \in Executing
  BY DEF Open, Executing
<1> HIDE DEF others
<1>2. /\ job' \in [Workers -> Jobs]
      /\ Alike(job[w], job'[w]) /\ job'[w].at = "write" /\ (others = {} => job'[w].fh = "alone")
      /\ \A v \in Workers : v # w => Alike(job[v], job'[v]) /\ job'[v].at = job[v].at
  BY <1>1, Opened
<1> QED BY <1>2 DEF Alike, others

LEMMA OpenRegular ==
  ASSUME Regular, NEW w \in Workers, Open(w), UNCHANGED serves
  PROVE  Regular'
<1>1. Pipeline(job[w].kind) /\ job[w].todo # {} /\ ~At(w, "idle")
  BY PipelineStep DEF Open, At
<1>2. Holds'
  BY DEF Open, Regular, Holds, Files
<1>3. \A o \in {v \in Workers : HasOpen(v, Calc(w))} : ~At(o, "idle")
  BY DEF HasOpen, At
<1>4. "write" \in StepsOf(job[w].kind) /\ "write" \in Executing
  BY <1>1 DEF StepsOf, Executing, Pipeline
<1> QED BY <1>1, <1>2, <1>3, <1>4, OpenedRegularly DEF Open, Regular

LEMMA WriteRegular ==
  ASSUME Regular, NEW w \in Workers, Write(w), UNCHANGED serves
  PROVE  Regular'
<1> DEFINE j == Done(job[w])
<1>1. Pipeline(job[w].kind) /\ job[w].todo # {} /\ ~At(w, "idle") /\ job[w] \in Jobs
  BY PipelineStep, JobIs DEF Write, At, Regularly
<1>2. j \in Jobs /\ j.kind = job[w].kind /\ j.at \in {"answer", "select"}
      /\ (j.at = "select" => j.todo # {})
  BY <1>1, DoneIs
<1>3. Move(w, j)
  BY DEF Write
<1> HIDE DEF j
<1>4. Requests'
  <2>1. j.at \in StepsOf(j.kind)
    BY <1>1, <1>2 DEF StepsOf, Executing, Pipeline
  <2>2. j.at # "idle" /\ (j.at \in OnCalc => j.todo # {})
    BY <1>2 DEF Executing, Registering, OnCalc
  <2> QED BY <1>1, <1>2, <1>3, <2>1, <2>2, GoesOn, MovedRegularly
<1>5. PICK file \in Written(w, Whole(job[w].of), parquet[Calc(w)]) :
        parquet' = [parquet EXCEPT ![Calc(w)] = file]
  BY DEF Write
<1>6. file \in Files
  <2>1. Whole(job[w].of) \in Files /\ Torn \in Files /\ parquet[Calc(w)] \in Files
    BY <1>1, CalcIs DEF Whole, Files, Jobs, Regular, Holds
  <2>2. job[w].fh \in {"alone", "mixed", "unlinked"}
    BY <1>1 DEF Jobs
  <2> QED BY <1>5, <2>1, <2>2 DEF Written
<1>7. Holds'
  BY <1>5, <1>6 DEF Write, Regular, Holds
<1> QED BY <1>4, <1>7 DEF Regular

LEMMA AnswerRegular ==
  ASSUME Regular, NEW w \in Workers, Answer(w), UNCHANGED serves
  PROVE  Regular'
<1>1. job[w].done \subseteq Calcs
  BY JobIs DEF Regularly, Jobs
<1>2. Holds'
  BY <1>1 DEF Answer, Regular, Holds
<1> QED BY <1>2, IdleRegularly, MovedRegularly DEF Answer, Regular

\* The base data.
LEMMA LoadedRegularly ==
  ASSUME NEW w, NEW j, Regularly(w, j), j.at \in Loading
  PROVE  /\ Regularly(w, Loaded(j)) /\ Loaded(j).kind = j.kind /\ Loaded(j).fh = j.fh
         /\ Loaded(j).at \in {"drop view", "answer"}
<1> DEFINE some == Filed
<1>1. j \in Jobs /\ j.kind \in {"load", "restore", "reload"} /\ some \subseteq Calcs
  BY StepsDiffer DEF Regularly, Filed
<1>2. CASE j.kind \in {"restore", "reload"} /\ some # {}
  <2> DEFINE k == [j EXCEPT !.at = "drop view", !.todo = some]
  <2>1. k \in Jobs /\ k.kind = j.kind /\ k.fh = j.fh /\ k.at = "drop view" /\ k.todo = some
    <3> HIDE DEF some
    <3> QED BY <1>1 DEF Jobs
  <2>2. Loaded(j) = k
    BY <1>2 DEF Loaded
  <2> HIDE DEF k, some
  <2>3. k.at \in StepsOf(k.kind)
    BY <1>2, <2>1 DEF StepsOf, Registering, Pipeline
  <2> QED BY <1>2, <2>1, <2>2, <2>3 DEF Regularly
<1>3. CASE ~(j.kind \in {"restore", "reload"} /\ some # {})
  <2> DEFINE k == [j EXCEPT !.at = "answer"]
  <2>1. k \in Jobs /\ k.kind = j.kind /\ k.fh = j.fh /\ k.at = "answer"
    BY <1>1 DEF Jobs
  <2>2. Loaded(j) = k
    BY <1>3 DEF Loaded
  <2> HIDE DEF k
  <2>3. k.at \in StepsOf(k.kind)
    BY <1>1, <2>1 DEF StepsOf, Registering, Pipeline
  <2> QED BY <2>1, <2>2, <2>3 DEF Regularly, OnCalc, Executing, Registering
<1> QED BY <1>2, <1>3

LEMMA ReadCsvRegular ==
  ASSUME Regular, NEW w \in Workers, ReadCsv(w), UNCHANGED serves
  PROVE  Regular'
<1>1. job[w].at \in Loading /\ ~At(w, "idle") /\ Regularly(w, job[w])
  BY JobIs DEF ReadCsv, At, Loading
<1>2. Holds'
  BY DEF ReadCsv, Regular, Holds
<1>3. CASE Move(w, Loaded(job[w]))
  BY <1>1, <1>2, <1>3, LoadedRegularly, MovedRegularly DEF Regular
<1>4. CASE Goto(w, "open base")
  <2>1. job[w].kind \in {"load", "reload", "restore"}
    BY <1>1, StepsDiffer DEF Regularly
  <2>2. "open base" \in StepsOf(job[w].kind)
    BY <2>1 DEF StepsOf, Loading, Pipeline
  <2> QED BY <1>1, <1>2, <1>4, <2>2, WentTo DEF Regular, OnCalc, Executing, Registering
<1> QED BY <1>3, <1>4 DEF ReadCsv

LEMMA HasBaseIs ==
  ASSUME NEW w
  PROVE  \A o \in {v \in Workers : HasBase(v)} : ~At(o, "idle")
  BY DEF HasBase, At

LEMMA OpenBaseRegular ==
  ASSUME Regular, NEW w \in Workers, OpenBase(w), UNCHANGED serves
  PROVE  Regular'
<1>1. job[w].at \in Loading /\ ~At(w, "idle") /\ Regularly(w, job[w])
  BY JobIs DEF OpenBase, At, Loading
<1>2. Holds'
  BY DEF OpenBase, Regular, Holds, Files, Torn, Usable
<1>3. "write base" \in StepsOf(job[w].kind) /\ "write base" \in Loading
  BY <1>1, StepsDiffer DEF Regularly, StepsOf, Loading, Pipeline
<1>4. "write base" \notin OnCalc
  BY DEF OnCalc, Executing, Registering
<1> QED BY <1>1, <1>2, <1>3, <1>4, HasBaseIs, OpenedRegularly DEF OpenBase, Regular

\* What the file can be after a write is what it may be.
LEMMA WrittenBase ==
  ASSUME Regular, NEW w \in Workers, NEW mine \in Files, Usable(mine),
         NEW file \in Written(w, mine, base)
  PROVE  file \in Files /\ Usable(file) /\ file.of \subseteq Versions
<1>1. job[w].fh \in {"alone", "mixed", "unlinked"}
  BY JobIs DEF Regularly, Jobs
<1>2. file \in {mine, Torn, base}
  BY <1>1 DEF Written
<1>3. Torn \in Files /\ Usable(Torn) /\ base \in Files /\ Usable(base)
  BY DEF Files, Torn, Usable, Regular, Holds
<1>4. file \in Files /\ Usable(file)
  BY <1>2, <1>3
<1> QED BY <1>4 DEF Files, Absent, Torn

LEMMA Unopened ==
  ASSUME NEW j \in Jobs
  PROVE  LET k == [j EXCEPT !.fh = "alone"] IN k \in Jobs /\ Alike(j, k) /\ k.at = j.at
  BY DEF Jobs, Alike

LEMMA WriteBaseRegular ==
  ASSUME Regular, NEW w \in Workers, WriteBase(w), UNCHANGED serves
  PROVE  Regular'
<1> DEFINE k == [job[w] EXCEPT !.fh = "alone"]
<1>1. job[w].at \in Loading /\ ~At(w, "idle") /\ Regularly(w, job[w]) /\ job[w] \in Jobs
  BY JobIs DEF WriteBase, At, Loading, Regularly
<1>2. Regularly(w, k) /\ k.at \in Loading
  BY <1>1, Unopened, AlikeRegularly DEF At
<1>3. Requests'
  <2>1. Move(w, Loaded(k))
    BY DEF WriteBase
  <2> HIDE DEF k
  <2> QED BY <1>2, <2>1, LoadedRegularly, MovedRegularly
<1>4. PICK v \in Versions : \E file \in Written(w, Whole({v}), base) : BaseBecomes(file)
  BY DEF WriteBase
<1>5. PICK file \in Written(w, Whole({v}), base) : BaseBecomes(file)
  BY <1>4
<1>6. file \in Files /\ Usable(file) /\ file.of \subseteq Versions
  <2>1. Whole({v}) \in Files /\ Usable(Whole({v}))
    BY DEF Whole, Files, Usable
  <2> QED BY <1>5, <2>1, WrittenBase
<1>7. Holds'
  BY <1>5, <1>6 DEF WriteBase, BaseBecomes, Regular, Holds
<1> QED BY <1>3, <1>7 DEF Regular

LEMMA CreateViewRegular ==
  ASSUME Regular, NEW w \in Workers, CreateView(w), UNCHANGED serves
  PROVE  Regular'
<1> DEFINE j == Onward(job[w], "drop view")
<1>1. /\ job[w].kind \in {"reload", "restore"} /\ ~At(w, "idle") /\ job[w] \in Jobs
      /\ job[w].todo # {}
  BY JobIs, StepsDiffer DEF CreateView, At, Regularly, OnCalc, Registering
<1>2. j \in Jobs /\ j.kind = job[w].kind /\ j.at \in {"answer", "drop view"}
      /\ (j.at = "drop view" => j.todo # {})
  <2>1. j.kind = job[w].kind /\ j.todo = Rest(job[w]) /\ j \in Jobs
        /\ j.at = IF Rest(job[w]) = {} THEN "answer" ELSE "drop view"
    BY <1>1, OnwardIs
  <2> HIDE DEF j
  <2> QED BY <2>1
<1>3. Move(w, j)
  BY DEF CreateView
<1> HIDE DEF j
<1>4. Requests'
  <2>1. j.at \in StepsOf(j.kind)
    BY <1>1, <1>2 DEF StepsOf, Registering, Pipeline
  <2>2. j.at # "idle" /\ (j.at \in OnCalc => j.todo # {})
    BY <1>2 DEF OnCalc, Executing, Registering
  <2> QED BY <1>1, <1>2, <1>3, <2>1, <2>2, GoesOn, MovedRegularly
<1>5. Holds'
  BY DEF CreateView, Regular, Holds, Entries, View
<1> QED BY <1>4, <1>5 DEF Regular

\* Saving a snapshot.
LEMMA SavingStep ==
  ASSUME Regular, NEW w \in Workers, job[w].at \in Saving
  PROVE  /\ job[w].kind = "save" /\ ~At(w, "idle") /\ job[w] \in Jobs /\ Regularly(w, job[w])
         /\ job[w].at = "write saved" => job[w].todo # {}
         /\ StepsOf("save") = Saving /\ OnCalc \cap Saving = {"write saved"}
<1>1. Regularly(w, job[w])
  BY JobIs
<1>2. StepsOf("save") = Saving /\ OnCalc \cap Saving = {"write saved"}
  BY DEF StepsOf, Pipeline, OnCalc, Saving, Executing, Registering
<1>3. job[w].kind = "save"
  <2>1. job[w].at \in StepsOf(job[w].kind)
    BY <1>1 DEF Regularly
  <2> QED BY <2>1 DEF StepsOf, Saving, Executing, Loading, Copying, Registering, Pipeline
<1>4. "idle" \notin Saving /\ "write saved" \in OnCalc
  BY DEF Saving, OnCalc
<1> QED BY <1>1, <1>2, <1>3, <1>4 DEF Regularly, At

\* A record at "save" with the files still to be copied.
LEMMA ToSave ==
  ASSUME Regular, NEW w \in Workers, job[w].at \in Saving, NEW todo \in SUBSET Calcs,
         Move(w, [job[w] EXCEPT !.at = "save", !.todo = todo]), UNCHANGED serves
  PROVE  Requests'
<1> DEFINE j == [job[w] EXCEPT !.at = "save", !.todo = todo]
<1>1. j \in Jobs /\ j.kind = "save" /\ j.at = "save"
  BY SavingStep DEF Jobs
<1>2. j.at \in Saving /\ j.at \notin OnCalc
  BY <1>1 DEF Saving, OnCalc, Executing, Registering
<1> HIDE DEF j
<1>3. Regularly(w, j)
  BY <1>1, <1>2, SavingStep, GoesOn
<1> QED BY <1>3, MovedRegularly DEF j

LEMMA SavingRegular ==
  ASSUME Regular, NEW w \in Workers, UNCHANGED serves,
         \/ Forget(w) \/ SaveBase(w) \/ WriteBaseSaved(w)
         \/ SaveResult(w) \/ WriteSaved(w) \/ EndSave(w)
  PROVE  Regular'
<1>1. job[w].at \in Saving
  BY DEF Forget, SaveBase, WriteBaseSaved, SaveResult, WriteSaved, EndSave, At, Saving
<1>2. /\ UNCHANGED <<serves, base, tables, parquet, seen, done, lost, crashes>>
  BY DEF Forget, SaveBase, WriteBaseSaved, SaveResult, WriteSaved, EndSave
<1>3. ASSUME \A s, t \in snapshot' : s \in Snapshots /\ s = t /\ Usable(s.base)
      PROVE  Holds'
  BY <1>2, <1>3 DEF Regular, Holds
<1>4. \A s, t \in snapshot : s \in Snapshots /\ s = t /\ Usable(s.base)
  BY DEF Regular, Holds
<1>5. Filed \subseteq Calcs
  BY DEF Filed
<1>6. Torn \in Files /\ Usable(Torn) /\ Absent \in Files /\ Usable(Absent)
  BY DEF Files, Torn, Absent, Usable
<1>7. ASSUME Forget(w) PROVE Regular'
  <2>1. CASE Forget(w)!2!1
    <3>1. Requests'
      BY <2>1, <1>2 DEF Regular, Requests, Regularly, KindsOf
    <3>2. PICK s \in snapshot, c \in Calcs :
            \/ snapshot' = {[s EXCEPT !.base = Absent, !.done = {}]}
            \/ snapshot' = {[s EXCEPT !.parquet[c] = Absent, !.done = {}]}
      BY <2>1
    <3>3. /\ [s EXCEPT !.base = Absent, !.done = {}] \in Snapshots
          /\ [s EXCEPT !.base = Absent, !.done = {}].base = Absent
          /\ [s EXCEPT !.parquet[c] = Absent, !.done = {}] \in Snapshots
          /\ [s EXCEPT !.parquet[c] = Absent, !.done = {}].base = s.base
      BY <1>4, <1>6 DEF Snapshots
    <3> QED BY <1>3, <1>4, <1>6, <3>1, <3>2, <3>3 DEF Regular
  <2>2. CASE Forget(w)!2!2
    <3>1. Blank \in Snapshots /\ Usable(Blank.base)
      BY <1>6 DEF Blank, Snapshots
    <3>2. Holds'
      BY <1>3, <2>2, <3>1
    <3>3. CASE Move(w, [job[w] EXCEPT !.at = "save", !.todo = Filed])
      BY <1>1, <1>2, <1>5, <3>2, <3>3, ToSave DEF Regular
    <3>4. CASE Move(w, [job[w] EXCEPT !.at = "save base"])
      <4>1. Goto(w, "save base") /\ "save base" \in Saving /\ "save base" \notin OnCalc
        BY <3>4 DEF Goto, Saving, OnCalc, Executing, Registering
      <4> QED BY <1>1, <1>2, <3>2, <4>1, SavingStep, WentTo DEF Regular
    <3> QED BY <2>2, <3>3, <3>4
  <2> QED BY <1>7, <2>1, <2>2 DEF Forget
<1>8. ASSUME SaveBase(w) PROVE Regular'
  <2>1. Goto(w, "write base saved") /\ "write base saved" \in Saving /\ "write base saved" \notin OnCalc
    BY <1>8 DEF SaveBase, Saving, OnCalc, Executing, Registering
  <2>2. Requests'
    BY <1>1, <1>2, <2>1, SavingStep, WentTo
  <2>3. \A s \in snapshot : [s EXCEPT !.base = Torn] \in Snapshots /\ [s EXCEPT !.base = Torn].base = Torn
    BY <1>4, <1>6 DEF Snapshots
  <2>4. \A s, t \in snapshot' : s \in Snapshots /\ s = t /\ Usable(s.base)
    BY <1>4, <1>6, <1>8, <2>3 DEF SaveBase
  <2> QED BY <1>3, <2>2, <2>4 DEF Regular
<1>9. ASSUME WriteBaseSaved(w) PROVE Regular'
  <2>1. Requests'
    BY <1>1, <1>2, <1>5, <1>9, ToSave DEF WriteBaseSaved
  <2>2. \A s \in snapshot : [s EXCEPT !.base = base] \in Snapshots /\ [s EXCEPT !.base = base].base = base
    BY <1>4 DEF Snapshots, Regular, Holds
  <2>3. \A s, t \in snapshot' : s \in Snapshots /\ s = t /\ Usable(s.base)
    BY <1>4, <1>9, <2>2 DEF WriteBaseSaved, Regular, Holds
  <2> QED BY <1>3, <2>1, <2>3 DEF Regular
<1>10. ASSUME SaveResult(w) PROVE Regular'
  <2>1. Goto(w, "write saved") /\ "write saved" \in Saving /\ job[w].todo # {}
    BY <1>10 DEF SaveResult, Saving
  <2>2. Requests'
    BY <1>1, <1>2, <2>1, SavingStep, WentTo
  <2>3. \A s \in snapshot : /\ [s EXCEPT !.parquet[Calc(w)] = Torn] \in Snapshots
                            /\ [s EXCEPT !.parquet[Calc(w)] = Torn].base = s.base
    BY <1>4, <1>6 DEF Snapshots
  <2>4. \A s, t \in snapshot' : s \in Snapshots /\ s = t /\ Usable(s.base)
    BY <1>4, <1>10, <2>3 DEF SaveResult
  <2> QED BY <1>3, <2>2, <2>4 DEF Regular
<1>11. ASSUME WriteSaved(w) PROVE Regular'
  <2>1. job[w].todo # {} /\ Calc(w) \in Calcs /\ Rest(job[w]) \subseteq Calcs
    BY <1>1, <1>11, SavingStep, CalcIs DEF WriteSaved, At, Jobs
  <2>2. Requests'
    BY <1>1, <1>2, <1>11, <2>1, ToSave DEF WriteSaved
  <2>3. \A s \in snapshot : /\ [s EXCEPT !.parquet[Calc(w)] = parquet[Calc(w)]] \in Snapshots
                            /\ [s EXCEPT !.parquet[Calc(w)] = parquet[Calc(w)]].base = s.base
    <3>1. parquet[Calc(w)] \in Files
      BY <2>1 DEF Regular, Holds
    <3> QED BY <1>4, <3>1 DEF Snapshots
  <2>4. \A s, t \in snapshot' : s \in Snapshots /\ s = t /\ Usable(s.base)
    BY <1>4, <1>11, <2>3 DEF WriteSaved
  <2> QED BY <1>3, <2>2, <2>4 DEF Regular
<1>12. ASSUME EndSave(w) PROVE Regular'
  <2>1. Requests'
    BY <1>2, <1>12, IdleRegularly, MovedRegularly DEF EndSave
  <2>2. \A s \in snapshot : /\ [s EXCEPT !.done = done, !.seen = seen] \in Snapshots
                            /\ [s EXCEPT !.done = done, !.seen = seen].base = s.base
    BY <1>4 DEF Snapshots, Regular, Holds
  <2>3. \A s, t \in snapshot' : s \in Snapshots /\ s = t /\ Usable(s.base)
    <3> SUFFICES ASSUME NEW s \in snapshot', NEW t \in snapshot'
                 PROVE  s \in Snapshots /\ s = t /\ Usable(s.base)
      OBVIOUS
    <3>1. PICK p \in snapshot : s = [p EXCEPT !.done = done, !.seen = seen]
      BY <1>12 DEF EndSave
    <3>2. PICK q \in snapshot : t = [q EXCEPT !.done = done, !.seen = seen]
      BY <1>12 DEF EndSave
    <3>3. p = q /\ Usable(p.base)
      BY <1>4
    <3> QED BY <2>2, <3>1, <3>2, <3>3 DEF Usable
  <2> QED BY <1>3, <2>1, <2>3 DEF Regular
<1> QED BY <1>7, <1>8, <1>9, <1>10, <1>11, <1>12

\* Restoring one.
LEMMA CopyingStep ==
  ASSUME Regular, NEW w \in Workers, job[w].at \in Copying
  PROVE  /\ job[w].kind = "restore" /\ ~At(w, "idle") /\ job[w] \in Jobs /\ Regularly(w, job[w])
         /\ job[w].at = "write copy" => job[w].todo # {}
         /\ Copying \cup {"read csv"} \subseteq StepsOf("restore")
         /\ \A at \in Copying \cup {"read csv"} : at \in OnCalc => at = "write copy"
<1>1. Regularly(w, job[w])
  BY JobIs
<1>2. /\ Copying \cup {"read csv"} \subseteq StepsOf("restore")
      /\ \A at \in Copying \cup {"read csv"} : at \in OnCalc => at = "write copy"
  BY DEF StepsOf, Pipeline, OnCalc, Copying, Loading, Executing, Registering
<1> QED BY <1>1, <1>2, StepsDiffer DEF Regularly, At, Copying, OnCalc

LEMMA ToCopy ==
  ASSUME Regular, NEW w \in Workers, job[w].at \in Copying, NEW todo \in SUBSET Calcs,
         Move(w, [job[w] EXCEPT !.at = "copy", !.todo = todo]), UNCHANGED serves
  PROVE  Requests'
<1> DEFINE j == [job[w] EXCEPT !.at = "copy", !.todo = todo]
<1>1. j \in Jobs /\ j.kind = "restore" /\ j.at = "copy"
  BY CopyingStep DEF Jobs
<1>2. "copy" \in StepsOf("restore") /\ "copy" \notin OnCalc
  BY CopyingStep DEF Copying
<1> HIDE DEF j
<1>3. Regularly(w, j)
  BY <1>1, <1>2, CopyingStep, GoesOn
<1> QED BY <1>3, MovedRegularly DEF j

LEMMA RemoveBaseOthers ==
  ASSUME Regular, NEW w \in Workers, RemoveBase(w)
  PROVE  /\ job' \in [Workers -> Jobs]
         /\ Alike(job[w], job'[w]) /\ job'[w].at = "copy base" /\ job'[w].fh = job[w].fh
         /\ \A v \in Workers : v # w => /\ Alike(job[v], job'[v]) /\ job'[v].at = job[v].at
                                        /\ HasBase(v) \/ job'[v] = job[v]
<1> DEFINE mine == [job[w] EXCEPT !.at = "copy base"]
           marked(o) == [job[o] EXCEPT !.fh = "unlinked"]
<1>1. \A o \in Workers : job[o] \in Jobs
  BY DEF Regular, Requests
<1>2. job' = [o \in Workers |-> IF o = w THEN mine ELSE IF HasBase(o) THEN marked(o) ELSE job[o]]
  BY DEF RemoveBase
<1>3. mine \in Jobs /\ Alike(job[w], mine) /\ mine.at = "copy base" /\ mine.fh = job[w].fh
  BY <1>1 DEF Jobs, Alike
<1>4. \A o \in Workers : marked(o) \in Jobs /\ Alike(job[o], marked(o)) /\ marked(o).at = job[o].at
  BY <1>1 DEF Jobs, Alike
<1>5. \A o \in Workers : Alike(job[o], job[o])
  BY DEF Alike
<1> HIDE DEF mine, marked
<1> QED BY <1>1, <1>2, <1>3, <1>4, <1>5

LEMMA CopyingRegular ==
  ASSUME Regular, NEW w \in Workers, UNCHANGED serves,
         \/ RemoveBase(w) \/ CopyBase(w) \/ WriteBaseCopy(w) \/ RemoveResult(w)
         \/ CopyResult(w) \/ WriteCopy(w) \/ EndRestore(w)
  PROVE  Regular'
<1>1. job[w].at \in Copying
  BY DEF RemoveBase, CopyBase, WriteBaseCopy, RemoveResult, CopyResult, WriteCopy, EndRestore,
         At, Copying
<1>2. Torn \in Files /\ Usable(Torn) /\ Absent \in Files /\ Usable(Absent)
  BY DEF Files, Torn, Absent, Usable
<1>3. ASSUME NEW s \in snapshot
      PROVE  /\ s.base \in Files /\ Usable(s.base) /\ s.parquet \in [Calcs -> Files]
             /\ s.done \subseteq Calcs /\ s.seen \subseteq Versions
  BY <1>3 DEF Regular, Holds, Snapshots
<1>4. ASSUME NEW step \in Copying \cup {"read csv"}, Goto(w, step),
             step = "write copy" => job[w].todo # {}
      PROVE  Requests'
  <2>1. step # "idle"
    BY DEF Copying
  <2> QED BY <1>1, <1>4, <2>1, CopyingStep, WentTo
<1>5. ASSUME RemoveBase(w) PROVE Regular'
  <2>1. Holds'
    BY <1>2, <1>5 DEF RemoveBase, Regular, Holds
  <2>2. Regularly(w, job'[w])
    <3>1. "copy base" \in StepsOf("restore") /\ "copy base" \notin OnCalc /\ job[w].kind = "restore"
          /\ ~At(w, "idle")
      BY <1>1, CopyingStep DEF Copying
    <3>2. job'[w] \in Jobs /\ job'[w].kind = job[w].kind /\ job'[w].at = "copy base"
      BY <1>5, RemoveBaseOthers DEF Alike
    <3> QED BY <3>1, <3>2, GoesOn
  <2>3. \A v \in Workers : v # w => Regularly(v, job'[v])
    BY <1>5, RemoveBaseOthers, JobIs, AlikeRegularly DEF HasBase
  <2>4. \A v \in Workers : Regularly(v, job[v])'
    BY <2>2, <2>3 DEF Regularly, KindsOf
  <2> QED BY <1>5, <2>1, <2>4, RemoveBaseOthers DEF Regular, Requests
<1>6. ASSUME CopyBase(w) PROVE Regular'
  <2>1. Holds'
    BY <1>2, <1>6 DEF CopyBase, Regular, Holds
  <2>2. CASE Opening(w, {o \in Workers : HasBase(o)}, "write base copy")
    <3>1. "write base copy" \in StepsOf(job[w].kind) /\ "write base copy" \in Copying
          /\ "write base copy" \notin OnCalc /\ ~At(w, "idle")
      BY <1>1, CopyingStep DEF Copying
    <3> QED BY <2>1, <2>2, <3>1, HasBaseIs, OpenedRegularly DEF Regular
  <2>3. CASE Move(w, Idle)
    BY <2>1, <2>3, IdleRegularly, MovedRegularly DEF Regular
  <2>4. CASE Goto(w, "remove")
    BY <1>4, <2>1, <2>4 DEF Copying, Regular
  <2> QED BY <1>6, <2>2, <2>3, <2>4 DEF CopyBase
<1>7. ASSUME WriteBaseCopy(w) PROVE Regular'
  <2> DEFINE j == [job[w] EXCEPT !.at = "remove", !.fh = "alone"]
  <2>1. j \in Jobs /\ j.kind = job[w].kind /\ j.at = "remove"
    BY <1>1, CopyingStep DEF Jobs
  <2>2. Move(w, j)
    BY <1>7 DEF WriteBaseCopy
  <2> HIDE DEF j
  <2>3. Requests'
    <3>1. j.at \in Copying /\ j.at # "idle" /\ j.at # "write copy"
      BY <2>1 DEF Copying
    <3> QED BY <1>1, <2>1, <2>2, <3>1, CopyingStep, GoesOn, MovedRegularly
  <2>4. PICK s \in snapshot : \E file \in Written(w, s.base, base) : BaseBecomes(file)
    BY <1>7 DEF WriteBaseCopy
  <2>5. PICK file \in Written(w, s.base, base) : BaseBecomes(file)
    BY <2>4
  <2>6. file \in Files /\ Usable(file) /\ file.of \subseteq Versions
    BY <1>3, <2>5, WrittenBase
  <2>7. Holds'
    BY <1>7, <2>5, <2>6 DEF WriteBaseCopy, BaseBecomes, Regular, Holds
  <2> QED BY <2>3, <2>7 DEF Regular
<1>8. ASSUME RemoveResult(w) PROVE Regular'
  <2>1. CASE RemoveResult(w)!2!1
    <3>1. Requests'
      BY <2>1 DEF Regular, Requests, Regularly, KindsOf
    <3>2. Holds'
      BY <1>2, <1>8, <2>1 DEF RemoveResult, Regular, Holds
    <3> QED BY <3>1, <3>2 DEF Regular
  <2>2. CASE RemoveResult(w)!2!2
    <3>1. PICK s \in snapshot :
            Move(w, [job[w] EXCEPT !.at = "copy", !.todo = {c \in Calcs : s.parquet[c] # Absent}])
      BY <2>2
    <3>2. Requests'
      <4> DEFINE todo == {c \in Calcs : s.parquet[c] # Absent}
      <4>1. todo \in SUBSET Calcs /\ Move(w, [job[w] EXCEPT !.at = "copy", !.todo = todo])
        BY <3>1
      <4> HIDE DEF todo
      <4> QED BY <1>1, <4>1, ToCopy
    <3>3. Holds'
      BY <1>8, <2>2 DEF RemoveResult, Regular, Holds
    <3> QED BY <3>2, <3>3 DEF Regular
  <2> QED BY <1>8, <2>1, <2>2 DEF RemoveResult
<1>9. ASSUME CopyResult(w) PROVE Regular'
  <2>1. Requests'
    BY <1>4, <1>9 DEF CopyResult, Copying
  <2>2. Holds'
    BY <1>2, <1>9 DEF CopyResult, Regular, Holds
  <2> QED BY <2>1, <2>2 DEF Regular
<1>10. ASSUME WriteCopy(w) PROVE Regular'
  <2>1. job[w].todo # {} /\ job[w].todo \subseteq Calcs
    BY <1>1, <1>10, CopyingStep DEF WriteCopy, At, Jobs
  <2>2. Calc(w) \in Calcs /\ Rest(job[w]) \subseteq Calcs
    BY <2>1, CalcIs
  <2>3. Requests'
    BY <1>1, <1>10, <2>2, ToCopy DEF WriteCopy
  <2>4. PICK s \in snapshot : parquet' = [parquet EXCEPT ![Calc(w)] = s.parquet[Calc(w)]]
    BY <1>10 DEF WriteCopy
  <2>5. parquet' \in [Calcs -> Files]
    BY <1>3, <2>2, <2>4 DEF Regular, Holds
  <2>6. Holds'
    BY <1>10, <2>5 DEF WriteCopy, Regular, Holds
  <2> QED BY <2>3, <2>6 DEF Regular
<1>11. ASSUME EndRestore(w) PROVE Regular'
  <2>1. Requests'
    BY <1>4, <1>11 DEF EndRestore
  <2>2. PICK s \in snapshot : done' = s.done /\ seen' = s.seen
    BY <1>11 DEF EndRestore
  <2>3. Holds'
    BY <1>3, <1>11, <2>2 DEF EndRestore, Regular, Holds
  <2> QED BY <2>1, <2>3 DEF Regular
<1> QED BY <1>5, <1>6, <1>7, <1>8, <1>9, <1>10, <1>11

LEMMA RestartRegular == ASSUME Regular, Restart, UNCHANGED serves PROVE Regular'
<1>1. base' \in Files /\ Usable(base')
  BY DEF Restart, Files, Usable, Whole, Absent
<1>2. lost' \subseteq Calcs
  <2>1. ASSUME NEW w \in Workers PROVE CutOff(w) \subseteq Calcs
    <3>1. job[w].todo \subseteq Calcs /\ (job[w].at \in Registering => job[w].todo # {})
      BY JobIs DEF Regularly, Jobs, OnCalc
    <3>2. job[w].at \in Registering => Calc(w) \in Calcs
      BY <3>1, CalcIs
    <3> QED BY <3>1, <3>2 DEF CutOff, Filed, Replacing, Registering
  <2> QED BY <2>1 DEF Restart, Regular, Holds
<1>5. Executed \subseteq Calcs
  <2>1. ASSUME NEW w \in Workers PROVE job[w].done \subseteq Calcs
    BY JobIs DEF Regularly, Jobs
  <2> QED BY <2>1 DEF Executed
<1>3. Holds'
  BY <1>1, <1>2, <1>5, CrashesBounded DEF Restart, Regular, Holds
<1>4. Requests'
  <2>1. \A w \in Workers : Regularly(w, Idle)'
    BY IdleRegularly, SameRegularly
  <2>2. Idle \in Jobs
    BY DEF Idle, Jobs
  <2> QED BY <2>1, <2>2 DEF Restart, Requests
<1> QED BY <1>3, <1>4 DEF Regular

\* The steps that are no work on a calculation's table.
Data(w) == \/ ReadCsv(w) \/ OpenBase(w) \/ WriteBase(w) \/ CreateView(w)
           \/ Forget(w) \/ SaveBase(w) \/ WriteBaseSaved(w) \/ SaveResult(w)
           \/ WriteSaved(w) \/ EndSave(w)
           \/ RemoveBase(w) \/ CopyBase(w) \/ WriteBaseCopy(w) \/ RemoveResult(w)
           \/ CopyResult(w) \/ WriteCopy(w) \/ EndRestore(w)

LEMMA RegularKeeps == Regular /\ [Next]_vars => Regular'
<1> SUFFICES ASSUME Regular, [Next]_vars PROVE Regular'
  OBVIOUS
<1>1. CASE UNCHANGED vars
  BY <1>1 DEF vars, Regular, Requests, Holds, Regularly, KindsOf
<1>2. ASSUME NEW w \in Workers, Steps(w), UNCHANGED serves PROVE Regular'
  <2>1. CASE Data(w)
    BY <1>2, <2>1, ReadCsvRegular, OpenBaseRegular, WriteBaseRegular, CreateViewRegular,
       SavingRegular, CopyingRegular DEF Data
  <2>2. CASE ~Data(w)
    BY <1>2, <2>2, StartRegular, SelectRegular, DropRegular, CreateRegular, CommitRegular,
       FetchRegular, OpenRegular, WriteRegular, AnswerRegular DEF Steps, Data
  <2> QED BY <2>1, <2>2
<1> QED BY <1>1, <1>2, RestartRegular DEF Next
-----------------------------------------------------------------------------
(* CalcPipeline: runs and stages that overlap *)

\* Nothing but requests of these kinds so far, and no crash.
Overlap(kinds) == crashes = 0 /\ Only(kinds)

Rising(S) == \A c \in S, d \in Calcs : Place(c) <= Place(d) => d \in S

\* w creates the table of c unless a table that c needs is missing: c is still to
\* come, and the statement of w that is next does not collide with another one.
Makes(w, c) ==
  /\ c \in job[w].todo
  /\ \/ job[w].at \in {"select", "drop view", "drop table", "commit"}
     \/ At(w, "create") /\ Creatable(Calc(w))
     \/ job[w].at \in {"fetch", "open", "write"} /\ c # Calc(w)
Made(c) == \E w \in Workers : Makes(w, c)

\* Whenever a table is missing, somebody makes it.
NoneLost == \A c \in Calcs : tables[c].kind = "table" \/ Made(c)
Overlapping ==
  Overlap({"run", "stage"}) =>
    /\ base.state = "whole" /\ (~AtRest => seen # {})
    /\ \A c \in Calcs : tables[c].kind # "view"
    /\ \A w \in Workers : Rising(job[w].todo)
    /\ seen # {} => NoneLost

LEMMA RestRises ==
  ASSUME NEW S \in SUBSET Calcs, S # {}, Rising(S)
  PROVE  Rising(S \ {First(S)})
<1> SUFFICES ASSUME NEW c \in S \ {First(S)}, NEW d \in Calcs, Place(c) <= Place(d)
             PROVE  d \in S \ {First(S)}
  BY DEF Rising
<1>1. First(S) \in Calcs /\ Place(First(S)) <= Place(c) /\ Place(First(S)) # Place(c)
  BY FirstIs, PlaceOnce
<1>2. Place(First(S)) < Place(d)
  BY <1>1, PlaceIs
<1> QED BY <1>2, PlaceIs DEF Rising

\* Who makes a calculation makes the later ones.
LEMMA MakesLater ==
  ASSUME Regular, NEW v \in Workers, Rising(job[v].todo),
         NEW d \in Calcs, NEW c \in Calcs, Place(d) <= Place(c), Makes(v, d)
  PROVE  Makes(v, c)
<1>1. d \in job[v].todo /\ job[v].todo # {}
  BY DEF Makes
<1>2. c \in job[v].todo
  BY <1>1 DEF Rising
<1>3. Calc(v) \in Calcs /\ Place(Calc(v)) <= Place(d)
  BY <1>1, CalcIs
<1>4. d # Calc(v) => c # Calc(v)
  BY <1>3, PlaceIs, PlaceOnce
<1> QED BY <1>2, <1>4 DEF Makes

\* Steps of w that change what others see only by dropping a table, or by creating
\* one that they could not create.
OnlyMoves(w) ==
  /\ \A v \in Workers : v # w => /\ job'[v].at = job[v].at /\ job'[v].todo = job[v].todo
                                 /\ job'[v].of = job[v].of /\ job'[v].kind = job[v].kind
  /\ \A d \in Calcs : Creatable(d) => tables'[d] = None

LEMMA OthersMake ==
  ASSUME Regular, NEW w \in Workers, OnlyMoves(w), NEW v \in Workers, v # w, NEW c,
         Makes(v, c), job'[w].at = "commit" => Calc(v) # First(job'[w].todo)
  PROVE  Makes(v, c)'
<1>1. job'[v].at = job[v].at /\ job'[v].todo = job[v].todo /\ Calc(v)' = Calc(v)
  BY DEF OnlyMoves, Calc
<1>2. ASSUME At(v, "create"), Creatable(Calc(v)) PROVE Creatable(Calc(v))'
  <2>1. job[v].todo # {} /\ Calc(v) \in Calcs
    BY CalcIs DEF Makes
  <2>2. \A o \in Workers : o # w => At(o, "commit")' = At(o, "commit") /\ Calc(o)' = Calc(o)
    BY DEF OnlyMoves, At, Calc
  <2>3. At(w, "commit")' => Calc(w)' # Calc(v)
    BY DEF At, Calc
  <2> QED BY <1>1, <1>2, <2>1, <2>2, <2>3 DEF Creatable, OnlyMoves
<1> QED BY <1>1, <1>2 DEF Makes, At

LEMMA KindsOverlapping ==
  ASSUME Regular, Overlap({"run", "stage"}), NEW w \in Workers
  PROVE  /\ job[w].kind \in {"none", "run", "stage"}
         /\ job[w].kind = "none" <=> At(w, "idle")
         /\ ~At(w, "idle") => job[w].at \in Executing \cup {"answer"}
         /\ job[w].at \in Executing => job[w].todo # {}
<1>1. job[w].kind \in {"none", "run", "stage"} /\ Regularly(w, job[w])
  BY JobIs DEF Regularly, Overlap, Only, KindsOf
<1>2. job[w].kind = "none" <=> At(w, "idle")
  <2>1. "idle" \notin StepsOf("run") \cup StepsOf("stage") /\ StepsOf("none") = {"idle"}
    BY DEF StepsOf, Pipeline, Executing
  <2> QED BY <1>1, <2>1 DEF Regularly, At, Idle
<1>3. StepsOf("run") = Executing \cup {"answer"} /\ StepsOf("stage") = Executing \cup {"answer"}
  BY DEF StepsOf, Pipeline
<1> QED BY <1>1, <1>2, <1>3 DEF Regularly, OnCalc

\* The step that takes a calculation off the list of w, when another one makes it.
LEMMA GivesUp ==
  ASSUME Regular, \A v \in Workers : Rising(job[v].todo),
         NEW w \in Workers, OnlyMoves(w), job'[w].at # "commit",
         NEW v \in Workers, v # w, NEW d \in Calcs, Makes(v, d),
         NEW c \in Calcs, Makes(w, c), Place(d) <= Place(c)
  PROVE  Made(c)'
<1>1. Makes(v, c)
  BY MakesLater
<1>2. Makes(v, c)'
  BY <1>1, OthersMake
<1> QED BY <1>2 DEF Made

\* w raises at the first of its calculations, since a table is missing that
\* somebody else makes.
LEMMA RaisedKeepsMade ==
  ASSUME Regular, Overlap({"run", "stage"}), \A v \in Workers : Rising(job[v].todo),
         base.state = "whole", \A d \in Calcs : tables[d].kind # "view", NoneLost,
         NEW w \in Workers, OnlyMoves(w), job'[w].at # "commit", job[w].at \in Executing,
         \/ ~Runs(Calc(w))
         \/ At(w, "fetch") /\ ~Works(tables[Calc(w)], parquet[Calc(w)])
         \/ At(w, "create") /\ ~Creatable(Calc(w)),
         NEW c \in Calcs, Made(c)
  PROVE  Made(c)'
<1>1. PICK u \in Workers : Makes(u, c)
  BY DEF Made
<1>2. CASE u # w
  <2>1. Makes(u, c)'
    BY <1>1, <1>2, OthersMake
  <2> QED BY <2>1 DEF Made
<1>3. CASE u = w
  <2>1. Makes(w, c) /\ job[w].todo # {}
    BY <1>1, <1>3 DEF Makes
  <2> DEFINE h == Calc(w)
  <2>2. h \in Calcs /\ h \in job[w].todo /\ Place(h) <= Place(c)
        /\ \A d \in job[w].todo : Place(h) <= Place(d)
    BY <2>1, CalcIs DEF Makes
  <2>3. PICK d \in Calcs : tables[d].kind # "table" /\ Place(d) <= Place(c) /\ ~Makes(w, d)
    <3>1. CASE ~Runs(h)
      <4>1. PICK d \in Reads[h] : ~Works(tables[d], parquet[d])
        BY <3>1 DEF Runs
      <4>2. d \in Calcs /\ Place(d) < Place(h)
        BY <2>2, <4>1, ReadsBefore
      <4>3. d \notin job[w].todo
        BY <2>2, <4>2, PlaceIs
      <4>4. Place(d) <= Place(c)
        BY <2>2, <4>2, PlaceIs
      <4> QED BY <4>1, <4>2, <4>3, <4>4 DEF Works, Makes
    <3>2. CASE At(w, "fetch") /\ ~Works(tables[h], parquet[h])
      BY <2>2, <3>2 DEF Works, Makes, At
    <3>3. CASE At(w, "create") /\ ~Creatable(h)
      BY <2>1, <3>3 DEF Makes, At
    <3> QED BY <3>1, <3>2, <3>3
  <2>4. PICK v \in Workers : Makes(v, d)
    BY <2>3 DEF NoneLost, Made
  <2>5. v # w
    BY <2>3, <2>4
  <2> QED BY <2>1, <2>3, <2>4, <2>5, GivesUp
<1> QED BY <1>2, <1>3

\* What is made is still made after the step of w, or w has just made it.
KeepsMade(w) ==
  \A c \in Calcs : Made(c) => Made(c)' \/ (At(w, "commit") /\ c = Calc(w))

\* What a step of an overlapping run or stage has to show.
LEMMA OverlappingStep ==
  ASSUME Overlapping, Overlap({"run", "stage"}), NEW w \in Workers, OnlyMoves(w),
         UNCHANGED base, seen' # {}, seen # {} => NoneLost,
         \A c \in Calcs : tables'[c].kind # "view",
         Rising(job'[w].todo),
         NoneLost'
  PROVE  Overlapping'
<1>1. \A v \in Workers : Rising(job'[v].todo)
  BY DEF Overlapping, OnlyMoves
<1>2. base'.state = "whole"
  BY DEF Overlapping
<1> QED BY <1>1, <1>2 DEF Overlapping

\* The parts of the hypothesis, for a request that is under way.
LEMMA UnderWay ==
  ASSUME Regular, Overlapping, Overlap({"run", "stage"}), NEW w \in Workers, ~At(w, "idle")
  PROVE  /\ base.state = "whole" /\ seen # {} /\ NoneLost
         /\ \A c \in Calcs : tables[c].kind # "view"
         /\ \A v \in Workers : Rising(job[v].todo)
  BY DEF Overlapping, AtRest

LEMMA StartOverlapping ==
  ASSUME Regular, Overlapping, Overlap({"run", "stage"}), NEW w \in Workers, Start(w),
         UNCHANGED serves
  PROVE  Overlapping' /\ KeepsMade(w)
<1>1. PICK kind \in serves[w] : Start(w)!(kind)
  BY DEF Start
<1>2. kind \in {"run", "stage"}
  BY <1>1 DEF Overlap, Only
<1> DEFINE j == [Idle EXCEPT !.kind = kind, !.at = "select", !.todo = Calcs]
<1>3. Move(w, j) /\ seen' = base.of
  BY <1>1, <1>2 DEF Pipeline
<1>4. job'[w].at = "select" /\ job'[w].todo = Calcs
  <2>1. j.at = "select" /\ j.todo = Calcs
    BY DEF Idle
  <2>2. job'[w] = j
    BY <1>3, Moved DEF Regular
  <2> QED BY <2>1, <2>2
<1>5. OnlyMoves(w)
  BY <1>1, <1>3, Moved DEF OnlyMoves, Regular, Creatable
<1>6. seen' # {}
  BY <1>3 DEF Overlapping, Regular, Holds, Usable
<1>7. Rising(job'[w].todo)
  BY <1>4 DEF Rising
<1>8. \A c \in Calcs : Made(c)'
  BY <1>4 DEF Made, Makes
<1>9. NoneLost'
  BY <1>8 DEF NoneLost
<1> QED BY <1>1, <1>5, <1>6, <1>7, <1>8, <1>9, OverlappingStep DEF Overlapping, KeepsMade

\* Steps of w after which w still makes what it made.
LEMMA StaysOverlapping ==
  ASSUME Regular, Overlapping, Overlap({"run", "stage"}), NEW w \in Workers, OnlyMoves(w),
         ~At(w, "idle"), UNCHANGED <<base, seen, tables>>, Rising(job'[w].todo),
         job'[w].at # "commit",
         \A c \in Calcs : Makes(w, c) => Makes(w, c)'
  PROVE  Overlapping' /\ KeepsMade(w)
<1>1. ASSUME NEW c \in Calcs, Made(c) PROVE Made(c)'
  <2>1. PICK u \in Workers : Makes(u, c)
    BY <1>1 DEF Made
  <2>2. Makes(u, c)'
    BY <2>1, OthersMake
  <2> QED BY <2>2 DEF Made
<1>2. NoneLost'
  BY <1>1, UnderWay DEF NoneLost
<1> QED BY <1>1, <1>2, UnderWay, OverlappingStep DEF KeepsMade

LEMMA RaisedOverlapping ==
  ASSUME Regular, Overlapping, Overlap({"run", "stage"}), NEW w \in Workers,
         job[w].at \in Executing, Move(w, Raised(job[w])), UNCHANGED <<base, seen, tables>>,
         \/ ~Runs(Calc(w))
         \/ At(w, "fetch") /\ ~Works(tables[Calc(w)], parquet[Calc(w)])
         \/ At(w, "create") /\ ~Creatable(Calc(w))
  PROVE  Overlapping' /\ KeepsMade(w)
<1>1. ~At(w, "idle") /\ job[w].todo # {} /\ job[w] \in Jobs
  BY JobIs DEF Executing, At, Regularly, OnCalc
<1>2. OnlyMoves(w) /\ job'[w] = Raised(job[w])
  BY Moved DEF OnlyMoves, Regular, Creatable
<1>3. job'[w].at # "commit" /\ Rising(job'[w].todo)
  <2>1. job[w].todo \subseteq Calcs /\ Rising(job[w].todo)
    BY <1>1, UnderWay DEF Jobs
  <2>2. job'[w].at # "commit" /\ job'[w].todo \in {job[w].todo, Rest(job[w])}
    BY <1>1, <1>2, RaisedIs
  <2> QED BY <1>1, <2>1, <2>2, RestRises DEF Rest
<1>4. \A c \in Calcs : Made(c) => Made(c)'
  BY <1>1, <1>2, <1>3, UnderWay, RaisedKeepsMade
<1>5. NoneLost'
  BY <1>1, <1>4, UnderWay DEF NoneLost
<1> QED BY <1>1, <1>2, <1>3, <1>4, <1>5, UnderWay, OverlappingStep DEF KeepsMade

\* A step from one state of a request to the next.
LEMMA Went ==
  ASSUME Regular, NEW w \in Workers, NEW step, Goto(w, step),
         NEW v \in Workers
  PROVE  /\ job'[v].todo = job[v].todo /\ job'[v].of = job[v].of /\ job'[v].kind = job[v].kind
         /\ job'[v].done = job[v].done /\ job'[v].fh = job[v].fh
         /\ job'[v].at = IF v = w THEN step ELSE job[v].at
<1>1. job[w] \in Jobs
  BY JobIs DEF Regularly
<1>2. job'[w] = [job[w] EXCEPT !.at = step] /\ (v # w => job'[v] = job[v])
  BY Moved DEF Goto, Regular
<1> QED BY <1>1, <1>2 DEF Jobs

LEMMA SelectOverlapping ==
  ASSUME Regular, Overlapping, Overlap({"run", "stage"}), NEW w \in Workers, Select(w)
  PROVE  Overlapping' /\ KeepsMade(w)
<1>1. job[w].at \in Executing /\ ~At(w, "idle")
  BY PipelineStep DEF Select, At
<1>2. CASE Runs(Calc(w)) /\ Goto(w, "drop view")
  <2>1. OnlyMoves(w) /\ job'[w].at = "drop view" /\ job'[w].todo = job[w].todo
    BY <1>2, Went DEF OnlyMoves, Select, Creatable
  <2>2. \A c \in Calcs : Makes(w, c) => Makes(w, c)'
    BY <2>1 DEF Makes
  <2> QED BY <1>1, <2>1, <2>2, UnderWay, StaysOverlapping DEF Select
<1>3. CASE ~Runs(Calc(w)) /\ Move(w, Raised(job[w]))
  BY <1>1, <1>3, RaisedOverlapping DEF Select
<1> QED BY <1>2, <1>3 DEF Select

LEMMA DropViewOverlapping ==
  ASSUME Regular, Overlapping, Overlap({"run", "stage"}), NEW w \in Workers, DropView(w)
  PROVE  Overlapping' /\ KeepsMade(w)
<1>1. ~At(w, "idle") /\ At(w, "drop view") /\ Goto(w, "drop table")
  BY DEF DropView, At
<1>2. tables' = tables
  <2>1. Calc(w) \in Calcs
    BY CalcIs, JobIs DEF DropView, At, Regularly, Executing, OnCalc
  <2> QED BY <1>1, <2>1, UnderWay DEF DropView, Regular, Holds
<1>3. OnlyMoves(w) /\ job'[w].at = "drop table" /\ job'[w].todo = job[w].todo
  BY <1>1, <1>2, Went DEF OnlyMoves, Creatable
<1>4. \A c \in Calcs : Makes(w, c) => Makes(w, c)'
  BY <1>3 DEF Makes
<1> QED BY <1>1, <1>2, <1>3, <1>4, UnderWay, StaysOverlapping DEF DropView

LEMMA DropTableOverlapping ==
  ASSUME Regular, Overlapping, Overlap({"run", "stage"}), NEW w \in Workers, DropTable(w)
  PROVE  Overlapping' /\ KeepsMade(w)
<1> DEFINE h == Calc(w)
<1>1. ~At(w, "idle") /\ At(w, "drop table") /\ Goto(w, "create")
  BY KindsOverlapping DEF DropTable, At, Pipeline
<1>2. job[w].todo # {}
  BY <1>1, JobIs DEF At, Regularly, Executing, OnCalc
<1>3. h \in job[w].todo /\ h \in Calcs /\ \A d \in job[w].todo : Place(h) <= Place(d)
  BY <1>2, CalcIs
<1>4. \A c \in Calcs : tables'[c] = IF c = h THEN None ELSE tables[c]
  <2>1. tables \in [Calcs -> Entries] /\ tables[h].kind # "view"
    BY <1>1, <1>3, UnderWay DEF Regular, Holds
  <2>2. tables[h].kind = "table" \/ tables[h] = None
    BY <1>3, <2>1 DEF Entries, View
  <2>3. tables' = [tables EXCEPT ![h] = IF @.kind = "table" THEN None ELSE @]
    BY DEF DropTable
  <2> HIDE DEF h
  <2> QED BY <1>3, <2>1, <2>2, <2>3
<1>5. OnlyMoves(w) /\ job'[w].at = "create" /\ job'[w].todo = job[w].todo
  BY <1>1, <1>4, Went DEF OnlyMoves, Creatable
<1>6. ASSUME NEW c \in Calcs, Made(c) PROVE Made(c)'
  <2>1. PICK u \in Workers : Makes(u, c)
    BY <1>6 DEF Made
  <2>2. CASE u # w
    <3>1. Makes(u, c)'
      BY <1>5, <2>1, <2>2, OthersMake
    <3> QED BY <3>1 DEF Made
  <2>3. CASE u = w
    <3>1. c \in job[w].todo
      BY <2>1, <2>3 DEF Makes
    <3>2. CASE \E o \in Workers : At(o, "commit") /\ Calc(o) = h
      <4>1. PICK o \in Workers : At(o, "commit") /\ Calc(o) = h
        BY <3>2
      <4>2. o # w /\ job[o].todo # {}
        BY <1>1, <4>1, JobIs DEF At, Regularly, Executing, OnCalc
      <4>3. Makes(o, h)
        BY <4>1, <4>2, CalcIs DEF Makes, At
      <4>4. Makes(o, c)
        BY <1>1, <1>3, <3>1, <4>3, UnderWay, MakesLater
      <4>5. Makes(o, c)'
        BY <1>5, <4>2, <4>4, OthersMake
      <4> QED BY <4>5 DEF Made
    <3>3. CASE ~\E o \in Workers : At(o, "commit") /\ Calc(o) = h
      <4>1. Calc(w)' = h
        BY <1>5 DEF Calc
      <4>2. \A o \in Workers : At(o, "commit")' => At(o, "commit") /\ Calc(o)' = Calc(o)
        BY <1>5 DEF At, OnlyMoves, Calc
      <4>3. tables'[h] = None /\ \A o \in Workers : At(o, "commit")' => Calc(o)' # h
        BY <1>3, <1>4, <3>3, <4>2
      <4>4. Creatable(Calc(w))'
        BY <4>1, <4>3 DEF Creatable
      <4>5. Makes(w, c)'
        BY <1>5, <3>1, <4>4 DEF Makes, At
      <4> QED BY <4>5 DEF Made
    <3> QED BY <3>2, <3>3
  <2> QED BY <2>2, <2>3
<1>7. Made(h)
  BY <1>1, <1>3 DEF Made, Makes, At
<1>8. NoneLost'
  BY <1>1, <1>4, <1>6, <1>7, UnderWay DEF NoneLost
<1>9. \A c \in Calcs : tables'[c].kind # "view"
  <2>1. None.kind # "view" /\ \A c \in Calcs : tables[c].kind # "view"
    BY <1>1, UnderWay DEF None
  <2> QED BY <1>4, <2>1
<1>10. Rising(job'[w].todo)
  BY <1>1, <1>5, UnderWay
<1> QED BY <1>1, <1>5, <1>6, <1>8, <1>9, <1>10, UnderWay, OverlappingStep DEF DropTable, KeepsMade

LEMMA CreateOverlapping ==
  ASSUME Regular, Overlapping, Overlap({"run", "stage"}), NEW w \in Workers, CreateTable(w)
  PROVE  Overlapping' /\ KeepsMade(w)
<1> DEFINE h == Calc(w)
<1>1. job[w].at \in Executing /\ ~At(w, "idle") /\ At(w, "create")
  BY PipelineStep DEF CreateTable, At
<1>2. job[w].todo # {} /\ job[w] \in Jobs
  BY <1>1, JobIs DEF Regularly, OnCalc
<1>3. h \in job[w].todo /\ h \in Calcs /\ \A d \in job[w].todo : Place(h) <= Place(d)
  BY <1>2, CalcIs
<1>4. CASE /\ Creatable(h) /\ Runs(h)
           /\ Move(w, [job[w] EXCEPT !.at = "commit", !.of = Result(h)])
  <2>1. job'[w].at = "commit" /\ job'[w].todo = job[w].todo /\ \A v \in Workers : v # w => job'[v] = job[v]
    <3> DEFINE of == Result(h)
    <3>1. Move(w, [job[w] EXCEPT !.at = "commit", !.of = of])
      BY <1>4
    <3> HIDE DEF of
    <3>2. /\ job'[w] = [job[w] EXCEPT !.at = "commit", !.of = of]
          /\ \A v \in Workers : v # w => job'[v] = job[v]
      BY <3>1, Moved DEF Regular
    <3> QED BY <1>2, <3>2 DEF Jobs
  <2>2. OnlyMoves(w)
    BY <2>1 DEF OnlyMoves, CreateTable, Creatable
  <2>3. \A c \in job[w].todo : Makes(w, c)'
    BY <2>1 DEF Makes
  <2>4. ASSUME NEW c \in Calcs, Made(c) PROVE Made(c)'
    <3>1. PICK u \in Workers : Makes(u, c)
      BY <2>4 DEF Made
    <3>2. CASE c \in job[w].todo
      BY <2>3, <3>2 DEF Made
    <3>3. CASE u # w /\ c \notin job[w].todo
      <4>1. Rising(job[w].todo) /\ job[u].todo # {}
        BY <1>1, <3>1, UnderWay DEF Makes
      <4>2. Calc(u) # h
        BY <1>3, <3>1, <3>3, <4>1, CalcIs DEF Rising, Makes
      <4>3. Makes(u, c)'
        BY <2>1, <2>2, <3>1, <3>3, <4>2, OthersMake DEF Calc
      <4> QED BY <4>3 DEF Made
    <3>4. CASE u = w
      BY <3>1, <3>2, <3>4 DEF Makes
    <3> QED BY <3>2, <3>3, <3>4
  <2>5. NoneLost'
    BY <1>1, <2>4, UnderWay DEF NoneLost, CreateTable
  <2>6. Rising(job'[w].todo)
    BY <1>1, <2>1, UnderWay
  <2> QED BY <1>1, <2>2, <2>4, <2>5, <2>6, UnderWay, OverlappingStep DEF CreateTable, KeepsMade
<1>5. CASE ~(Creatable(h) /\ Runs(h)) /\ Move(w, Raised(job[w]))
  BY <1>1, <1>5, RaisedOverlapping DEF CreateTable
<1> QED BY <1>4, <1>5 DEF CreateTable

LEMMA CommitOverlapping ==
  ASSUME Regular, Overlapping, Overlap({"run", "stage"}), NEW w \in Workers, CommitTable(w)
  PROVE  Overlapping' /\ KeepsMade(w)
<1> DEFINE h == Calc(w)
<1>1. job[w].at \in Executing /\ ~At(w, "idle") /\ At(w, "commit") /\ Goto(w, "fetch")
  BY PipelineStep DEF CommitTable, At
<1>2. job[w].todo # {} /\ job[w] \in Jobs
  BY <1>1, JobIs DEF Regularly, OnCalc
<1>3. h \in job[w].todo /\ h \in Calcs
  BY <1>2, CalcIs
<1>4. \A c \in Calcs : tables'[c] = IF c = h THEN Table(job[w].of) ELSE tables[c]
  BY <1>3 DEF CommitTable, Regular, Holds
<1>5. ~Creatable(h)
  BY <1>1 DEF Creatable
<1>6. job'[w].at = "fetch" /\ job'[w].todo = job[w].todo /\ Calc(w)' = h
  BY <1>1, Went DEF Calc
<1>7. OnlyMoves(w)
  BY <1>1, <1>4, <1>5, Went DEF OnlyMoves, Creatable
<1>8. ASSUME NEW c \in Calcs, c # h, Made(c) PROVE Made(c)'
  <2>1. PICK u \in Workers : Makes(u, c)
    BY <1>8 DEF Made
  <2>2. CASE u # w
    <3>1. Makes(u, c)'
      BY <1>6, <1>7, <2>1, <2>2, OthersMake
    <3> QED BY <3>1 DEF Made
  <2>3. CASE u = w
    <3>1. Makes(w, c)'
      BY <1>6, <1>8, <2>1, <2>3 DEF Makes
    <3> QED BY <3>1 DEF Made
  <2> QED BY <2>2, <2>3
<1>9. NoneLost'
  <2>1. \A c \in Calcs : tables[c].kind = "table" \/ Made(c)
    BY <1>1, UnderWay DEF NoneLost
  <2> QED BY <1>4, <1>8, <2>1 DEF NoneLost, Table
<1>10. \A c \in Calcs : tables'[c].kind # "view"
  BY <1>1, <1>4, UnderWay DEF Table
<1>11. Rising(job'[w].todo)
  BY <1>1, <1>6, UnderWay
<1> QED BY <1>1, <1>7, <1>8, <1>9, <1>10, <1>11, UnderWay, OverlappingStep
     DEF CommitTable, KeepsMade

LEMMA FetchOverlapping ==
  ASSUME Regular, Overlapping, Overlap({"run", "stage"}), NEW w \in Workers, Fetch(w)
  PROVE  Overlapping' /\ KeepsMade(w)
<1> DEFINE h == Calc(w)  of == Rows(tables[h], parquet[h])
<1>1. job[w].at \in Executing /\ ~At(w, "idle") /\ At(w, "fetch")
  BY PipelineStep DEF Fetch, At
<1>2. job[w] \in Jobs
  BY JobIs DEF Regularly
<1>3. CASE Works(tables[h], parquet[h]) /\ Move(w, [job[w] EXCEPT !.at = "open", !.of = of])
  <2>1. job'[w].at = "open" /\ job'[w].todo = job[w].todo /\ \A v \in Workers : v # w => job'[v] = job[v]
    <3>1. Move(w, [job[w] EXCEPT !.at = "open", !.of = of])
      BY <1>3
    <3> HIDE DEF of
    <3>2. /\ job'[w] = [job[w] EXCEPT !.at = "open", !.of = of]
          /\ \A v \in Workers : v # w => job'[v] = job[v]
      BY <3>1, Moved DEF Regular
    <3> QED BY <1>2, <3>2 DEF Jobs
  <2>2. OnlyMoves(w)
    BY <2>1 DEF OnlyMoves, Fetch, Creatable
  <2>3. \A c \in Calcs : Makes(w, c) => Makes(w, c)'
    BY <1>1, <2>1 DEF Makes, At, Calc
  <2> QED BY <1>1, <2>1, <2>2, <2>3, UnderWay, StaysOverlapping DEF Fetch
<1>4. CASE ~Works(tables[h], parquet[h]) /\ Move(w, Raised(job[w]))
  BY <1>1, <1>4, RaisedOverlapping DEF Fetch
<1> QED BY <1>3, <1>4 DEF Fetch

LEMMA OpenOverlapping ==
  ASSUME Regular, Overlapping, Overlap({"run", "stage"}), NEW w \in Workers, Open(w)
  PROVE  Overlapping' /\ KeepsMade(w)
<1>1. job[w].at \in Executing /\ ~At(w, "idle") /\ At(w, "open")
  BY PipelineStep DEF Open, At
<1>2. \A v \in Workers : job[v] \in Jobs
  BY JobIs DEF Regularly
<1>3. job'[w].at = "write" /\ job'[w].todo = job[w].todo
  BY OpenedResult
<1>4. \A v \in Workers : v # w => /\ job'[v].at = job[v].at /\ job'[v].todo = job[v].todo
                                  /\ job'[v].of = job[v].of /\ job'[v].kind = job[v].kind
  BY OpenedResult
<1>5. OnlyMoves(w)
  BY <1>4 DEF OnlyMoves, Open, Creatable
<1>6. \A c \in Calcs : Makes(w, c) => Makes(w, c)'
  BY <1>1, <1>3 DEF Makes, At, Calc
<1> QED BY <1>1, <1>3, <1>5, <1>6, UnderWay, StaysOverlapping DEF Open

LEMMA WriteOverlapping ==
  ASSUME Regular, Overlapping, Overlap({"run", "stage"}), NEW w \in Workers, Write(w)
  PROVE  Overlapping' /\ KeepsMade(w)
<1> DEFINE j == Done(job[w])
<1>1. job[w].at \in Executing /\ ~At(w, "idle") /\ At(w, "write") /\ job[w].todo # {}
      /\ job[w] \in Jobs
  BY PipelineStep, JobIs DEF Write, At, Regularly
<1>2. j.todo = Rest(job[w]) /\ j.at = IF Rest(job[w]) = {} THEN "answer" ELSE "select"
  BY <1>1, DoneIs
<1>3. job'[w] = j /\ \A v \in Workers : v # w => job'[v] = job[v]
  BY Moved DEF Write, Regular
<1> HIDE DEF j
<1>4. OnlyMoves(w)
  BY <1>3 DEF OnlyMoves, Write, Creatable
<1>5. Rising(job'[w].todo)
  <2>1. job[w].todo \subseteq Calcs /\ Rising(job[w].todo)
    BY <1>1, UnderWay DEF Jobs
  <2> QED BY <1>1, <1>2, <1>3, <2>1, RestRises DEF Rest
<1>6. \A c \in Calcs : Makes(w, c) => Makes(w, c)'
  <2> SUFFICES ASSUME NEW c \in Calcs, Makes(w, c) PROVE Makes(w, c)'
    OBVIOUS
  <2>1. c \in Rest(job[w])
    BY <1>1, CalcIs DEF Makes, At
  <2>2. job'[w].at = "select" /\ c \in job'[w].todo
    BY <1>2, <1>3, <2>1
  <2> QED BY <2>2 DEF Makes
<1>7. job'[w].at # "commit"
  BY <1>2, <1>3
<1> QED BY <1>1, <1>4, <1>5, <1>6, <1>7, StaysOverlapping DEF Write

LEMMA AnswerOverlapping ==
  ASSUME Regular, Overlapping, Overlap({"run", "stage"}), NEW w \in Workers, Answer(w)
  PROVE  Overlapping' /\ KeepsMade(w)
<1>1. ~At(w, "idle") /\ At(w, "answer")
  BY DEF Answer, At
<1>2. job'[w] = Idle /\ \A v \in Workers : v # w => job'[v] = job[v]
  BY Moved DEF Answer, Regular
<1>3. OnlyMoves(w)
  BY <1>2 DEF OnlyMoves, Answer, Creatable
<1>4. job'[w].at = "idle" /\ Rising(job'[w].todo)
  BY <1>2 DEF Idle, Rising
<1>5. \A c \in Calcs : ~Makes(w, c)
  BY <1>1 DEF Makes, At
<1> QED BY <1>1, <1>3, <1>4, <1>5, StaysOverlapping DEF Answer

LEMMA RestartOverlapping ==
  ASSUME Regular, Overlapping, Overlap({"run", "stage"}), Restart, crashes' = 0
  PROVE  Overlapping'
<1>1. AtRest
  BY DEF Restart, Overlap
<1>2. \A c \in Calcs : ~Made(c)
  BY <1>1 DEF AtRest, At, Made, Makes
<1>3. base'.state = "whole"
  BY DEF Restart, Whole, Overlapping, Absent
<1>4. AtRest' /\ \A w \in Workers : Rising(job'[w].todo)
  BY DEF Restart, AtRest, At, Idle, Rising
<1>5. seen' # {} => NoneLost'
  BY <1>2 DEF Restart, Overlapping, NoneLost
<1> QED BY <1>3, <1>4, <1>5 DEF Overlapping, Restart

\* What was so now was so before.
LEMMA OverlapBefore ==
  ASSUME Regular, [Next]_vars, NEW kinds, Overlap(kinds)'
  PROVE  Overlap(kinds) /\ crashes' = crashes
<1>1. crashes \in Nat
  BY CrashesBounded DEF Regular, Holds
<1>2. crashes' = crashes \/ crashes' = crashes + 1
  BY DEF Next, Steps, vars, Start, Select, DropView, DropTable, CreateTable, CommitTable, Fetch,
         Open, Write, Answer, Restart, ReadCsv, OpenBase, WriteBase, CreateView, Forget,
         SaveBase, WriteBaseSaved, SaveResult, WriteSaved, EndSave, RemoveBase, CopyBase,
         WriteBaseCopy, RemoveResult, CopyResult, WriteCopy, EndRestore
<1>3. serves' = serves
  BY DEF Next, vars
<1> QED BY <1>1, <1>2, <1>3 DEF Overlap, Only

LEMMA NoData ==
  ASSUME NEW w, job[w].at \in Executing \cup {"idle", "answer"}
  PROVE  ~Data(w)
  BY DEF Data, Executing, At, ReadCsv, OpenBase, WriteBase, CreateView, Forget, SaveBase,
         WriteBaseSaved, SaveResult, WriteSaved, EndSave, RemoveBase, CopyBase, WriteBaseCopy,
         RemoveResult, CopyResult, WriteCopy, EndRestore

LEMMA StepOverlapping ==
  ASSUME Regular, Overlapping, Overlap({"run", "stage"}), NEW w \in Workers, Steps(w),
         UNCHANGED serves
  PROVE  Overlapping' /\ KeepsMade(w) /\ ~Data(w)
<1>1. ~Data(w)
  BY KindsOverlapping, NoData DEF At
<1> QED BY <1>1, StartOverlapping, SelectOverlapping, DropViewOverlapping,
     DropTableOverlapping, CreateOverlapping, CommitOverlapping, FetchOverlapping,
     OpenOverlapping, WriteOverlapping, AnswerOverlapping DEF Steps, Data

LEMMA OverlappingKeeps == Regular /\ Overlapping /\ [Next]_vars => Overlapping'
<1> SUFFICES ASSUME Regular, Overlapping, [Next]_vars, Overlap({"run", "stage"})'
             PROVE  Overlapping'
  BY DEF Overlapping
<1>1. Overlap({"run", "stage"}) /\ crashes' = 0
  BY OverlapBefore DEF Overlap
<1>2. CASE UNCHANGED vars
  <2>1. UNCHANGED <<base, tables, job, seen>>
    BY <1>2 DEF vars
  <2>2. \A c \in Calcs : Made(c) => Made(c)'
    BY <2>1 DEF Made, Makes, At, Creatable, Calc
  <2>3. AtRest' = AtRest
    BY <2>1 DEF AtRest, At
  <2> QED BY <1>1, <2>1, <2>2, <2>3 DEF Overlapping, NoneLost
<1>3. ASSUME NEW w \in Workers, Steps(w), UNCHANGED serves PROVE Overlapping'
  BY <1>1, <1>3, StepOverlapping
<1> QED BY <1>1, <1>2, <1>3, RestartOverlapping DEF Next

LEMMA RegularInvariant == Spec => []Regular
  BY RegularInit, RegularKeeps, PTL DEF Spec

LEMMA RegularTypes == Regular => TypeOK
  BY DEF Regular, Requests, Holds, TypeOK

\* The types of the calculations' execution, over every DAG and traffic.
THEOREM PipelineTypes == Spec => []TypeOK
  BY RegularInvariant, RegularTypes, PTL

LEMMA OverlappingInvariant == Spec => [](Regular /\ Overlapping)
<1>1. Init => Overlapping
  BY DEF Init, Overlapping, Idle, Rising, None, AtRest, At
<1>2. Regular /\ Overlapping /\ [Next]_vars => (Regular /\ Overlapping)'
  BY RegularKeeps, OverlappingKeeps
<1> QED BY RegularInit, <1>1, <1>2, PTL DEF Spec

\* However many full runs and stages overlap, over whatever DAG: when all have
\* ended, every calculation has its table.
THEOREM TablesThere == Spec => []TablesAtRest
<1>1. Regular /\ Overlapping => TablesAtRest
  <2> SUFFICES ASSUME Regular, Overlapping, Settled({"run", "stage"}), NEW c \in Calcs
               PROVE  tables[c].kind = "table"
    BY DEF TablesAtRest
  <2>1. Overlap({"run", "stage"}) /\ seen # {} /\ AtRest
    BY DEF Settled, Overlap
  <2>2. ~Made(c)
    BY <2>1 DEF AtRest, At, Made, Makes
  <2> QED BY <2>1, <2>2 DEF Overlapping, NoneLost
<1> QED BY OverlappingInvariant, <1>1, PTL

-----------------------------------------------------------------------------
(* CalcPipeline: stages that overlap *)

Current(c) == tables[c] \in {None, Table(seen)}
Behind(w) == Calcs \ job[w].todo
AllCurrent == \A c \in Calcs : tables[c] = Table(seen) \/ Made(c)

\* What a stage has behind it is computed from the base data of now, or missing.
StageCurrent(w) ==
  /\ job[w].at \in Executing => \A c \in Behind(w) : Current(c)
  /\ job[w].at \in {"create", "commit", "fetch", "open", "write"} => Current(Calc(w))
  /\ At(w, "commit") => job[w].of = seen

Staging ==
  Overlap({"stage"}) =>
    /\ ~AtRest => seen = base.of
    /\ \A w \in Workers : StageCurrent(w)
    /\ seen # {} => AllCurrent

\* Only the table that w works on changes, and becomes current or goes missing.
OneTable(w) ==
  \A c \in Calcs :
    /\ c = Calc(w) /\ At(w, "drop table") => tables'[c] = None
    /\ c = Calc(w) /\ At(w, "commit") => tables'[c] = Table(job[w].of)
    /\ tables'[c] = tables[c] \/ (c = Calc(w) /\ job[w].at \in {"drop table", "commit"})

LEMMA StageStep ==
  ASSUME Regular, Staging, Overlap({"stage"}), NEW w \in Workers, ~At(w, "idle"), OneTable(w),
         UNCHANGED <<base, seen>>, seen # {}, KeepsMade(w),
         \A v \in Workers : v # w => /\ job'[v].at = job[v].at /\ job'[v].todo = job[v].todo
                                     /\ job'[v].of = job[v].of /\ job'[v].kind = job[v].kind,
         At(w, "drop table") => Made(Calc(w)),
         (\A c \in Calcs : Current(c) => Current(c)') => StageCurrent(w)'
  PROVE  Staging'
<1>1. ~AtRest /\ StageCurrent(w) /\ AllCurrent
  BY DEF Staging, AtRest
<1>2. \A c \in Calcs : Current(c) => Current(c)'
  BY <1>1 DEF Current, OneTable, StageCurrent, At
<1>3. \A v \in Workers : StageCurrent(v)'
  <2> SUFFICES ASSUME NEW v \in Workers, v # w PROVE StageCurrent(v)'
    BY <1>2
  <2>1. StageCurrent(v) /\ Calc(v)' = Calc(v) /\ Behind(v)' = Behind(v)
    BY DEF Staging, Calc, Behind
  <2>2. job[v].at \in Executing => Calc(v) \in Calcs
    BY CalcIs, JobIs DEF Regularly, OnCalc
  <2> QED BY <1>2, <2>1, <2>2 DEF StageCurrent, At, Behind, Executing
<1>4. AllCurrent'
  <2> SUFFICES ASSUME NEW c \in Calcs PROVE tables'[c] = Table(seen) \/ Made(c)'
    BY DEF AllCurrent
  <2>1. tables[c] = Table(seen) \/ Made(c)
    BY <1>1 DEF AllCurrent
  <2>2. CASE c = Calc(w) /\ At(w, "commit")
    BY <1>1, <2>2 DEF OneTable, StageCurrent
  <2>3. CASE c = Calc(w) /\ At(w, "drop table")
    BY <2>3 DEF KeepsMade, At
  <2>4. CASE tables'[c] = tables[c] /\ ~(c = Calc(w) /\ At(w, "commit"))
    BY <2>1, <2>4 DEF KeepsMade
  <2> QED BY <2>2, <2>3, <2>4 DEF OneTable, At
<1> QED BY <1>1, <1>3, <1>4 DEF Staging

LEMMA StagesOnly ==
  ASSUME Regular, Overlap({"stage"}), NEW w \in Workers
  PROVE  Overlap({"run", "stage"}) /\ job[w].kind \in {"none", "stage"}
  BY JobIs DEF Overlap, Only, Regularly, KindsOf

LEMMA StartStaging ==
  ASSUME Regular, Staging, Overlap({"stage"}), NEW w \in Workers, Start(w)
  PROVE  Staging'
<1>1. PICK kind \in serves[w] : Start(w)!(kind)
  BY DEF Start
<1>2. kind = "stage"
  BY <1>1 DEF Overlap, Only
<1> DEFINE j == [Idle EXCEPT !.kind = kind, !.at = "select", !.todo = Calcs]
<1>3. Move(w, j) /\ seen' = base.of /\ base' = base /\ tables' = tables
  BY <1>1, <1>2 DEF Pipeline
<1>4. /\ job'[w].at = "select" /\ job'[w].todo = Calcs
      /\ \A v \in Workers : v # w => job'[v] = job[v]
  <2>1. j.at = "select" /\ j.todo = Calcs
    BY DEF Idle
  <2>2. job'[w] = j /\ \A v \in Workers : v # w => job'[v] = job[v]
    BY <1>3, Moved DEF Regular
  <2> QED BY <2>1, <2>2
<1>5. \A v \in Workers : StageCurrent(v)'
  <2>1. StageCurrent(w)'
    BY <1>4 DEF StageCurrent, Behind, At
  <2>2. ASSUME NEW v \in Workers, v # w PROVE StageCurrent(v)'
    <3>1. CASE AtRest
      <4>1. job'[v].at = "idle"
        BY <1>4, <2>2, <3>1 DEF AtRest, At
      <4> QED BY <4>1 DEF StageCurrent, At, Executing
    <3>2. CASE ~AtRest
      <4>1. StageCurrent(v) /\ seen' = seen
        BY <1>3, <3>2 DEF Staging
      <4> QED BY <1>3, <1>4, <2>2, <4>1 DEF StageCurrent, At, Behind, Calc, Current
    <3> QED BY <3>1, <3>2
  <2> QED BY <2>1, <2>2
<1>6. AllCurrent'
  BY <1>4 DEF AllCurrent, Made, Makes
<1> QED BY <1>3, <1>5, <1>6 DEF Staging

\* What a stage selects is computed from current tables.
LEMMA ResultCurrent ==
  ASSUME Regular, Overlapping, Staging, Overlap({"stage"}), NEW w \in Workers,
         At(w, "create"), Runs(Calc(w))
  PROVE  Result(Calc(w)) = seen
<1> DEFINE h == Calc(w)
<1>1. job[w].at \in Executing /\ job[w].todo # {} /\ ~AtRest
  BY PipelineStep DEF At, AtRest
<1>2. h \in Calcs /\ \A d \in job[w].todo : Place(h) <= Place(d)
  BY <1>1, CalcIs
<1>3. CASE Reads[h] = {}
  BY <1>1, <1>3 DEF Result, Staging
<1>4. CASE Reads[h] # {}
  <2>1. ASSUME NEW d \in Reads[h] PROVE Rows(tables[d], parquet[d]) = seen
    <3>1. d \in Calcs /\ Place(d) < Place(h)
      BY <1>2, ReadsBefore
    <3>2. d \in Behind(w)
      BY <1>2, <3>1, PlaceIs DEF Behind
    <3>3. Current(d) /\ Works(tables[d], parquet[d])
      BY <1>1, <1>4, <2>1, <3>2 DEF Staging, StageCurrent, Runs
    <3> QED BY <3>3 DEF Current, Works, Rows, None, Table
  <2>2. Result(h) = UNION {Rows(tables[d], parquet[d]) : d \in Reads[h]}
    BY <1>4 DEF Result
  <2> QED BY <1>4, <2>1, <2>2
<1> QED BY <1>3, <1>4

LEMMA RaisedStage ==
  ASSUME Regular, Overlap({"stage"}), NEW w \in Workers, job[w].at \in Executing,
         Move(w, Raised(job[w]))
  PROVE  StageCurrent(w)' /\ \A v \in Workers : v # w => job'[v] = job[v]
<1>1. job[w].kind = "stage" /\ job[w].todo # {} /\ job[w] \in Jobs
  BY StagesOnly, KindsOverlapping, JobIs DEF Regularly, Executing, At
<1>2. job'[w] = Raised(job[w]) /\ \A v \in Workers : v # w => job'[v] = job[v]
  BY Moved DEF Regular
<1>3. Raised(job[w]).at = "answer"
  BY <1>1, RaisedIs
<1>4. job'[w].at = "answer"
  BY <1>2, <1>3
<1> QED BY <1>2, <1>4 DEF StageCurrent, At, Executing

\* The premises of StageStep that are alike.
LEMMA StageMoves ==
  ASSUME Regular, Overlapping, Overlap({"stage"}), NEW w \in Workers, ~At(w, "idle")
  PROVE  /\ seen # {}
         /\ At(w, "drop table") => Made(Calc(w))
         /\ job[w].at \in Executing => Calc(w) \in Calcs /\ Calc(w) \in job[w].todo
                                       /\ job[w].todo \subseteq Calcs
         /\ \A c \in Calcs : tables[c].kind # "view"
<1>1. seen # {} /\ \A c \in Calcs : tables[c].kind # "view"
  BY StagesOnly, UnderWay
<1>2. job[w].at \in Executing => Calc(w) \in Calcs /\ Calc(w) \in job[w].todo
                                 /\ job[w].todo \subseteq Calcs
  BY CalcIs, JobIs DEF Regularly, Jobs, OnCalc
<1>3. At(w, "drop table") => Made(Calc(w))
  BY <1>2 DEF Made, Makes, At, Executing
<1> QED BY <1>1, <1>2, <1>3

LEMMA StepStaging ==
  ASSUME Regular, Overlapping, Staging, Overlap({"stage"}), NEW w \in Workers, Steps(w),
         UNCHANGED serves
  PROVE  Staging'
<1> DEFINE h == Calc(w)
           keep == \A c \in Calcs : Current(c) => Current(c)'
           others == \A v \in Workers : v # w =>
                       /\ job'[v].at = job[v].at /\ job'[v].todo = job[v].todo
                       /\ job'[v].of = job[v].of /\ job'[v].kind = job[v].kind
<1>1. /\ Overlap({"run", "stage"}) /\ KeepsMade(w)
      /\ ~Data(w)
  BY StagesOnly, StepOverlapping
<1>2. CASE Start(w)
  BY <1>2, StartStaging
<1>3. ASSUME ~At(w, "idle"), OneTable(w), UNCHANGED <<base, seen>>, others,
             keep => StageCurrent(w)'
      PROVE  Staging'
  BY <1>1, <1>3, StageMoves, StageStep
<1>4. ASSUME NEW step, Goto(w, step), step \in {"drop view", "drop table", "create", "fetch"},
             ~At(w, "idle"), OneTable(w), UNCHANGED <<base, seen>>, job[w].at \in Executing,
             step = "create" => At(w, "drop table"), step = "fetch" => At(w, "commit")
      PROVE  Staging'
  <2>1. others /\ job'[w].at = step /\ job'[w].todo = job[w].todo
    BY <1>4, Went
  <2>2. h \in Calcs /\ Calc(w)' = h /\ Behind(w)' = Behind(w)
    BY <1>4, <2>1, StageMoves DEF Calc, Behind
  <2>3. StageCurrent(w)
    BY <1>4 DEF Staging
  <2>4. step = "create" => tables'[h] = None
    BY <1>4, <2>2 DEF OneTable
  <2>5. keep => StageCurrent(w)'
    BY <1>4, <2>1, <2>2, <2>3, <2>4 DEF StageCurrent, At, Behind, Executing, Current
  <2> QED BY <1>3, <1>4, <2>1, <2>5
<1>5. ASSUME job[w].at \in Executing, Move(w, Raised(job[w])), OneTable(w), UNCHANGED <<base, seen>>
      PROVE  Staging'
  <2>1. ~At(w, "idle")
    BY <1>5 DEF At, Executing
  <2> QED BY <1>3, <1>5, <2>1, RaisedStage
<1>6. CASE Select(w)
  <2>1. job[w].at \in Executing /\ ~At(w, "idle") /\ OneTable(w) /\ UNCHANGED <<base, seen>>
    BY <1>6 DEF Select, At, Executing, OneTable
  <2> QED BY <1>4, <1>5, <1>6, <2>1 DEF Select
<1>7. CASE DropView(w)
  <2>1. job[w].at \in Executing /\ ~At(w, "idle") /\ UNCHANGED <<base, seen>> /\ At(w, "drop view")
    BY <1>7 DEF DropView, At, Executing
  <2>2. OneTable(w)
    <3>1. h \in Calcs /\ tables[h].kind # "view"
      BY <2>1, StageMoves
    <3>2. tables' = tables
      BY <1>7, <3>1 DEF DropView, Regular, Holds
    <3> QED BY <2>1, <3>2 DEF OneTable, At
  <2> QED BY <1>4, <1>7, <2>1, <2>2 DEF DropView
<1>8. CASE DropTable(w)
  <2>1. job[w].at \in Executing /\ ~At(w, "idle") /\ UNCHANGED <<base, seen>> /\ At(w, "drop table")
    BY <1>8 DEF DropTable, At, Executing
  <2>2. Goto(w, "create")
    BY <1>1, <1>8, KindsOverlapping DEF DropTable, Pipeline, At
  <2>3. OneTable(w)
    <3>1. h \in Calcs /\ tables \in [Calcs -> Entries] /\ tables[h].kind # "view"
      BY <2>1, StageMoves DEF Regular, Holds
    <3>2. tables[h].kind = "table" \/ tables[h] = None
      BY <3>1 DEF Entries, View
    <3>3. tables' = [tables EXCEPT ![h] = IF @.kind = "table" THEN None ELSE @]
      BY <1>8 DEF DropTable
    <3>4. \A c \in Calcs : tables'[c] = IF c = h THEN None ELSE tables[c]
      <4> HIDE DEF h
      <4> QED BY <3>1, <3>2, <3>3
    <3> QED BY <2>1, <3>4 DEF OneTable, At
  <2> QED BY <1>4, <2>1, <2>2, <2>3
<1>9. CASE CreateTable(w)
  <2>1. job[w].at \in Executing /\ ~At(w, "idle") /\ At(w, "create") /\ job[w] \in Jobs
        /\ OneTable(w) /\ UNCHANGED <<base, seen>>
    BY <1>9, JobIs DEF CreateTable, At, Executing, OneTable, Regularly
  <2>2. CASE Runs(h) /\ Move(w, [job[w] EXCEPT !.at = "commit", !.of = Result(h)])
    <3>1. Result(h) = seen
      BY <2>1, <2>2, ResultCurrent
    <3>2. /\ job'[w] = [job[w] EXCEPT !.at = "commit", !.of = seen]
          /\ \A v \in Workers : v # w => job'[v] = job[v]
      BY <2>2, <3>1, Moved DEF Regular
    <3>3. job'[w].at = "commit" /\ job'[w].of = seen /\ job'[w].todo = job[w].todo
      BY <2>1, <3>2 DEF Jobs
    <3>4. h \in Calcs /\ Calc(w)' = h /\ Behind(w)' = Behind(w) /\ StageCurrent(w)
      BY <2>1, <3>3, StageMoves DEF Calc, Behind, Staging
    <3>5. keep => StageCurrent(w)'
      BY <2>1, <3>3, <3>4 DEF StageCurrent, At, Behind
    <3> QED BY <1>3, <2>1, <3>2, <3>5
  <2>3. CASE Move(w, Raised(job[w]))
    BY <1>5, <2>1, <2>3
  <2> QED BY <1>9, <2>2, <2>3 DEF CreateTable
<1>10. CASE CommitTable(w)
  <2>1. job[w].at \in Executing /\ ~At(w, "idle") /\ UNCHANGED <<base, seen>> /\ At(w, "commit")
    BY <1>10 DEF CommitTable, At, Executing
  <2>2. OneTable(w)
    <3>1. h \in Calcs /\ tables \in [Calcs -> Entries]
      BY <2>1, StageMoves DEF Regular, Holds
    <3>2. \A c \in Calcs : tables'[c] = IF c = h THEN Table(job[w].of) ELSE tables[c]
      BY <1>10, <3>1 DEF CommitTable
    <3> QED BY <2>1, <3>2 DEF OneTable, At
  <2> QED BY <1>4, <1>10, <2>1, <2>2 DEF CommitTable
<1>11. CASE Fetch(w)
  <2> DEFINE of == Rows(tables[h], parquet[h])
  <2>1. job[w].at \in Executing /\ ~At(w, "idle") /\ At(w, "fetch") /\ job[w] \in Jobs
        /\ OneTable(w) /\ UNCHANGED <<base, seen>>
    BY <1>11, JobIs DEF Fetch, At, Executing, OneTable, Regularly
  <2>2. CASE Move(w, [job[w] EXCEPT !.at = "open", !.of = of])
    <3> HIDE DEF of
    <3>1. /\ job'[w] = [job[w] EXCEPT !.at = "open", !.of = of]
          /\ \A v \in Workers : v # w => job'[v] = job[v]
      BY <2>2, Moved DEF Regular
    <3>2. job'[w].at = "open" /\ job'[w].todo = job[w].todo
      BY <2>1, <3>1 DEF Jobs
    <3>3. h \in Calcs /\ Calc(w)' = h /\ Behind(w)' = Behind(w) /\ StageCurrent(w)
      BY <2>1, <3>2, StageMoves DEF Calc, Behind, Staging
    <3>4. keep => StageCurrent(w)'
      BY <2>1, <3>2, <3>3 DEF StageCurrent, At, Behind
    <3> QED BY <1>3, <2>1, <3>1, <3>4
  <2>3. CASE Move(w, Raised(job[w]))
    BY <1>5, <2>1, <2>3
  <2> QED BY <1>11, <2>2, <2>3 DEF Fetch
<1>12. CASE Open(w)
  <2>1. job[w].at \in Executing /\ ~At(w, "idle") /\ At(w, "open") /\ \A v \in Workers : job[v] \in Jobs
    BY <1>12, JobIs DEF Open, At, Executing, Regularly
  <2>2. OneTable(w) /\ UNCHANGED <<base, seen>>
    BY <1>12 DEF Open, OneTable, At
  <2>3. others
    BY <1>12, OpenedResult
  <2>4. job'[w].at = "write" /\ job'[w].todo = job[w].todo
    BY <1>12, OpenedResult
  <2>5. h \in Calcs /\ Calc(w)' = h /\ Behind(w)' = Behind(w) /\ StageCurrent(w)
    BY <2>1, <2>4, StageMoves DEF Calc, Behind, Staging
  <2>6. keep => StageCurrent(w)'
    BY <2>1, <2>4, <2>5 DEF StageCurrent, At, Behind
  <2> QED BY <1>3, <2>1, <2>2, <2>3, <2>6
<1>13. CASE Write(w)
  <2>1. job[w].at \in Executing /\ ~At(w, "idle") /\ At(w, "write") /\ job[w] \in Jobs
        /\ job[w].todo # {}
    BY <1>13, JobIs DEF Write, At, Executing, Regularly, OnCalc
  <2>2. OneTable(w) /\ UNCHANGED <<base, seen>>
    BY <1>13 DEF Write, OneTable, At
  <2>3. job'[w] = Done(job[w]) /\ \A v \in Workers : v # w => job'[v] = job[v]
    BY <1>13, Moved DEF Write, Regular
  <2>4. job'[w].todo = job[w].todo \ {h} /\ job'[w].at \in {"select", "answer"}
    BY <2>1, <2>3, DoneIs, CalcIs
  <2>5. StageCurrent(w) /\ h \in Calcs
    BY <2>1, StageMoves DEF Staging
  <2>6. keep => StageCurrent(w)'
    BY <2>1, <2>4, <2>5 DEF StageCurrent, At, Behind, Executing
  <2> QED BY <1>3, <2>1, <2>2, <2>3, <2>6
<1>14. CASE Answer(w)
  <2>1. ~At(w, "idle") /\ OneTable(w) /\ UNCHANGED <<base, seen>>
    BY <1>14 DEF Answer, At, OneTable
  <2>2. job'[w] = Idle /\ \A v \in Workers : v # w => job'[v] = job[v]
    BY <1>14, Moved DEF Answer, Regular
  <2>3. job'[w].at = "idle"
    BY <2>2 DEF Idle
  <2>4. StageCurrent(w)'
    BY <2>3 DEF StageCurrent, At, Executing
  <2> QED BY <1>3, <2>1, <2>2, <2>4
<1> QED BY <1>1, <1>2, <1>6, <1>7, <1>8, <1>9, <1>10, <1>11, <1>12, <1>13, <1>14 DEF Steps, Data

LEMMA StagingKeeps == Regular /\ Overlapping /\ Staging /\ [Next]_vars => Staging'
<1> SUFFICES ASSUME Regular, Overlapping, Staging, [Next]_vars, Overlap({"stage"})'
             PROVE  Staging'
  BY DEF Staging
<1>1. Overlap({"stage"}) /\ crashes' = 0
  BY OverlapBefore DEF Overlap
<1>2. CASE UNCHANGED vars
  <2>1. UNCHANGED <<base, tables, job, seen>>
    BY <1>2 DEF vars
  <2>2. AllCurrent => AllCurrent'
    <3>1. \A c \in Calcs : Made(c) => Made(c)'
      BY <2>1 DEF Made, Makes, At, Creatable, Calc
    <3> QED BY <2>1, <3>1 DEF AllCurrent
  <2>3. \A w \in Workers : StageCurrent(w)'
    BY <1>1, <2>1 DEF Staging, StageCurrent, At, Behind, Current, Calc
  <2>4. AtRest' = AtRest
    BY <2>1 DEF AtRest, At
  <2> QED BY <1>1, <2>1, <2>2, <2>3, <2>4 DEF Staging
<1>4. CASE Restart
  <2>1. AtRest /\ AtRest' /\ \A w \in Workers : job'[w].at = "idle"
    BY <1>1, <1>4 DEF Restart, Overlap, AtRest, At, Idle
  <2>2. \A c \in Calcs : ~Made(c)
    BY <2>1 DEF AtRest, At, Made, Makes
  <2>3. \A w \in Workers : StageCurrent(w)'
    BY <2>1 DEF StageCurrent, At, Executing
  <2>4. seen' # {} => AllCurrent'
    BY <1>1, <1>4, <2>2 DEF Restart, Staging, AllCurrent
  <2> QED BY <2>1, <2>3, <2>4 DEF Staging
<1> QED BY <1>1, <1>2, <1>4, StepStaging DEF Next

LEMMA StagingInvariant == Spec => [](Regular /\ Overlapping /\ Staging)
<1>1. Init => Staging
  <2> SUFFICES ASSUME Init PROVE Staging
    OBVIOUS
  <2>1. AtRest /\ seen = {} /\ \A w \in Workers : job[w].at = "idle"
    BY DEF Init, AtRest, At, Idle
  <2>2. \A w \in Workers : StageCurrent(w)
    BY <2>1 DEF StageCurrent, At, Executing
  <2> QED BY <2>1, <2>2 DEF Staging
<1>2. Regular /\ Overlapping /\ Staging /\ [Next]_vars => Staging'
  BY StagingKeeps
<1>3. Regular /\ Overlapping /\ [Next]_vars => Overlapping'
  BY OverlappingKeeps
<1>4. Init => Overlapping
  BY DEF Init, Overlapping, Idle, Rising, None, AtRest, At
<1> QED BY RegularInit, RegularKeeps, <1>1, <1>2, <1>3, <1>4, PTL DEF Spec

\* However many stages overlap, over whatever DAG: when all have ended, every table
\* is computed from the base data of the time the last of them started.
THEOREM StagesFresh == Spec => []StagesLeaveFresh
<1>1. Regular /\ Overlapping /\ Staging => StagesLeaveFresh
  <2> SUFFICES ASSUME Staging, Settled({"stage"}), NEW c \in Calcs
               PROVE  tables[c] = Table(seen)
    BY DEF StagesLeaveFresh, Fresh
  <2>1. Overlap({"stage"}) /\ seen # {} /\ AtRest
    BY DEF Settled, Overlap
  <2>2. ~Made(c)
    BY <2>1 DEF AtRest, At, Made, Makes
  <2> QED BY <2>1, <2>2 DEF Staging, AllCurrent
<1> QED BY StagingInvariant, <1>1, PTL

-----------------------------------------------------------------------------
(* CalcPipeline: what an answer calls done *)

\* w serves the pipeline and demo requests, one at a time; the others only reload.
TheOne(w) == \A v \in Workers : v = w <=> serves[v] # {"load"}

\* What is done, by the request under way or by the latest answer.
Credited(w) == IF Pipeline(job[w].kind) THEN job[w].done ELSE done

Proper(of) == of # {} /\ of \subseteq seen
FileProper(c) == parquet[c].state = "whole" /\ Proper(parquet[c].of)
EntryProper(c) == tables[c] \in {View, Table(parquet[c].of)}
\* The entry is that of the file, unless it is still to be registered or a crash
\* has prevented that.
Standing(w, c) == FileProper(c) /\ (EntryProper(c) \/ c \in CutOff(w) \/ c \in lost)
Credit(w) == \A c \in Calcs : Needed(c) \subseteq Credited(w) => Standing(w, c)

\* The calculation in work, once all it needs is done.
InWork(w) ==
  /\ At(w, "commit") => Proper(job[w].of)
  /\ At(w, "fetch") => \E of \in SUBSET Versions : Proper(of) /\ tables[Calc(w)] = Table(of)
  /\ job[w].at \in {"open", "write"} => Proper(job[w].of) /\ tables[Calc(w)] = Table(job[w].of)
InTurn(w) == job[w].at \in Executing /\ Needed(Calc(w)) \subseteq job[w].done \cup {Calc(w)}

\* A request has everything it calls done behind it, and its work is proper.
Working(w) ==
  Pipeline(job[w].kind) =>
    /\ \A c \in job[w].done : Needed(c) \cap job[w].todo = {}
    /\ base.of \subseteq seen /\ done = {} /\ job[w].done \cap lost = {}
    /\ job[w].at \in {"fetch", "open", "write"} => Calc(w) \notin lost
    /\ InTurn(w) => InWork(w)
    /\ At(w, "write") => job[w].fh = "alone"

\* A view is created where there is no entry any more.
Dropped(w) ==
  ~Pipeline(job[w].kind) => /\ At(w, "drop table") => tables[Calc(w)].kind # "view"
                            /\ At(w, "create view") => tables[Calc(w)] = None

\* What was done when the snapshot was saved has its file in it.
SnapshotProper ==
  \A s \in snapshot, c \in Calcs : Needed(c) \subseteq s.done =>
    s.parquet[c].state = "whole" /\ s.parquet[c].of # {} /\ s.parquet[c].of \subseteq s.seen

\* While a snapshot is written it says of nothing that it is done, and what is no
\* more to be copied is there.
Saved(w) ==
  /\ job[w].at \in Saving \ {"forget"} => \A s \in snapshot : s.done = {}
  /\ job[w].at \in {"save base", "write base saved"} =>
       \A s \in snapshot, c \in Calcs : s.parquet[c] = Absent
  /\ job[w].at \in {"save", "write saved"} =>
       \A s \in snapshot, c \in Calcs \ job[w].todo : s.parquet[c] = parquet[c]
\* And while it is restored nothing is called done.
Copied(w) ==
  job[w].at \in {"copy", "write copy"} =>
    /\ \A c \in Calcs : ~(Needed(c) \subseteq done)
    /\ \A s \in snapshot, c \in Calcs \ job[w].todo : parquet[c] = s.parquet[c]
Kept(w) == Dropped(w) /\ SnapshotProper /\ Saved(w) /\ Copied(w)

Crediting == \A w \in Workers : TheOne(w) => Working(w) /\ Credit(w) /\ Kept(w)

LEMMA OthersLoad ==
  ASSUME Regular, NEW w \in Workers, TheOne(w), NEW v \in Workers, v # w
  PROVE  /\ serves[v] = {"load"} /\ job[v].kind \in {"none", "load"}
         /\ job[v].at \in Loading \cup {"idle", "answer"}
<1>1. serves[v] = {"load"} /\ Regularly(v, job[v])
  BY JobIs DEF TheOne
<1>2. job[v].kind \in {"none", "load"}
  BY <1>1 DEF Regularly, KindsOf
<1>3. StepsOf("none") = {"idle"} /\ StepsOf("load") = Loading \cup {"answer"}
  BY DEF StepsOf, Pipeline
<1> QED BY <1>1, <1>2, <1>3 DEF Regularly

\* Nothing is cut off while a calculation is executed, or no request is under way.
LEMMA NothingCutOff ==
  ASSUME NEW w, \/ job[w].kind \notin {"restore", "reload"}
                \/ job[w].at \notin Loading \cup Registering
  PROVE  CutOff(w) = {}
  BY DEF CutOff, Loading, Registering, Replacing

LEMMA KindsDiffer ==
  ASSUME NEW w
  PROVE  Pipeline(job[w].kind) => job[w].kind \notin {"restore", "reload", "load", "save", "none"}
  BY DEF Pipeline

\* The entry of what counts as done is proper, if it is not cut off.
LEMMA Entered ==
  ASSUME Regular, NEW w \in Workers, Credit(w), NEW c \in Calcs, Needed(c) \subseteq Credited(w)
  PROVE  /\ FileProper(c) /\ c \in Credited(w)
         /\ EntryProper(c) \/ c \in CutOff(w) \/ c \in lost
         /\ EntryProper(c) => Works(tables[c], parquet[c])
                              /\ Rows(tables[c], parquet[c]) = parquet[c].of
<1>1. FileProper(c) /\ (EntryProper(c) \/ c \in CutOff(w) \/ c \in lost)
  BY DEF Credit, Standing
<1>2. ASSUME EntryProper(c)
      PROVE  Works(tables[c], parquet[c]) /\ Rows(tables[c], parquet[c]) = parquet[c].of
  <2>1. View.kind = "view" /\ Table(parquet[c].of).kind = "table"
        /\ Table(parquet[c].of).of = parquet[c].of
    BY DEF View, Table
  <2>2. tables[c] = View \/ tables[c] = Table(parquet[c].of)
    BY <1>2 DEF EntryProper
  <2> QED BY <1>1, <2>1, <2>2 DEF Rows, Works, FileProper
<1> QED BY <1>1, <1>2, NeededIs

\* A step that changes neither tables nor files, forgets no base data and nothing
\* that is cut off, and counts no more as done.
LEMMA CreditStays ==
  ASSUME Regular, NEW w \in Workers, Credit(w), UNCHANGED <<tables, parquet>>,
         seen \subseteq seen', Credited(w)' \subseteq Credited(w),
         CutOff(w) \subseteq CutOff(w)' \cup lost', lost \subseteq lost'
  PROVE  Credit(w)'
<1> SUFFICES ASSUME NEW c \in Calcs, Needed(c) \subseteq Credited(w)' PROVE Standing(w, c)'
  BY DEF Credit
<1>1. FileProper(c) /\ (EntryProper(c) \/ c \in CutOff(w) \/ c \in lost)
  BY Entered
<1> QED BY <1>1 DEF Standing, FileProper, EntryProper, Proper

\* A step of w after which it neither registers files nor copies any.
LEMMA KeptStays ==
  ASSUME NEW w, UNCHANGED snapshot, SnapshotProper,
         job'[w].at \notin (Saving \ {"forget"}) \cup {"copy", "write copy"},
         Pipeline(job'[w].kind) \/ job'[w].at \notin Replacing
  PROVE  Kept(w)'
<1>1. SnapshotProper'
  BY DEF SnapshotProper
<1>2. Dropped(w)'
  BY DEF Dropped, At, Replacing
<1>3. Saved(w)'
  BY DEF Saved, Saving
<1>4. Copied(w)'
  BY DEF Copied
<1> QED BY <1>1, <1>2, <1>3, <1>4 DEF Kept

\* A step that leaves the request of w where it is, but for the file it has open.
LEMMA Unmoved ==
  ASSUME Regular, NEW w \in Workers, Working(w), Credit(w), Kept(w),
         UNCHANGED <<tables, parquet, snapshot, done, lost>>, seen \subseteq seen',
         Alike(job[w], job'[w]), job'[w].at = job[w].at,
         At(w, "write") => job'[w].fh = job[w].fh,
         Pipeline(job[w].kind) => base'.of \subseteq seen'
  PROVE  Working(w)' /\ Credit(w)' /\ Kept(w)'
<1>1. Calc(w)' = Calc(w) /\ Credited(w)' = Credited(w) /\ InTurn(w)' = InTurn(w)
  BY DEF Alike, Calc, Credited, InTurn
<1>2. InWork(w) => InWork(w)'
  BY <1>1 DEF InWork, At, Proper, Alike
<1>3. Working(w)'
  BY <1>1, <1>2 DEF Working, At, Alike
<1>4. CutOff(w)' = CutOff(w)
  BY <1>1 DEF CutOff, Alike, Filed
<1>5. Credit(w)'
  BY <1>1, <1>4, CreditStays
<1>6. Kept(w)'
  BY <1>1 DEF Kept, Dropped, SnapshotProper, Saved, Copied, At, Alike
<1> QED BY <1>3, <1>5, <1>6

\* A step of another worker: base data are reloaded.
LEMMA OtherCredits ==
  ASSUME Regular, NEW w \in Workers, TheOne(w), Working(w), Credit(w), Kept(w),
         NEW v \in Workers, v # w, Steps(v), UNCHANGED serves
  PROVE  Working(w)' /\ Credit(w)' /\ Kept(w)'
<1>1. serves[v] = {"load"} /\ job[v].kind \in {"none", "load"}
      /\ job[v].at \in Loading \cup {"idle", "answer"}
  BY OthersLoad
<1>2. Start(v) \/ Answer(v) \/ ReadCsv(v) \/ OpenBase(v) \/ WriteBase(v)
  BY <1>1 DEF Steps, Select, DropView, DropTable, CreateTable, CommitTable, Fetch, Open, Write,
              CreateView, Forget, SaveBase, WriteBaseSaved, SaveResult, WriteSaved, EndSave,
              RemoveBase, CopyBase, WriteBaseCopy, RemoveResult, CopyResult, WriteCopy,
              EndRestore, At, Loading
<1>3. Alike(job[w], job[w])
  BY DEF Alike
<1>4. ASSUME UNCHANGED <<base, tables, parquet, snapshot, done, lost, seen>>, job'[w] = job[w]
      PROVE  Working(w)' /\ Credit(w)' /\ Kept(w)'
  BY <1>3, <1>4, Unmoved DEF Working
<1>5. CASE Start(v)
  <2>1. PICK kind \in serves[v] : Start(v)!(kind)
    BY <1>5 DEF Start
  <2>2. kind = "load"
    BY <1>1, <2>1
  <2>3. Move(v, [Idle EXCEPT !.kind = kind, !.at = "read csv"])
    BY <2>1, <2>2
  <2>4. job'[w] = job[w]
    BY <2>3, Moved DEF Regular
  <2> QED BY <1>4, <2>1, <2>2, <2>4 DEF Pipeline
<1>6. CASE Answer(v)
  BY <1>1, <1>4, <1>6, Moved DEF Answer, Pipeline, Regular
<1>7. CASE ReadCsv(v)
  BY <1>4, <1>7, Moved DEF ReadCsv, Goto, Regular
<1>8. CASE OpenBase(v)
  <2> DEFINE others == {o \in Workers : HasBase(o)}
  <2>1. Opening(v, others, "write base") /\ "write base" \in Loading
    BY <1>8 DEF OpenBase, Loading
  <2>2. Alike(job[w], job'[w]) /\ job'[w].at = job[w].at /\ (w \in others \/ job'[w] = job[w])
    <3> HIDE DEF others
    <3> QED BY <2>1, Opened
  <2>3. At(w, "write") => job'[w].fh = job[w].fh
    BY <2>2 DEF HasBase, At
  <2> QED BY <1>8, <2>2, <2>3, Unmoved DEF OpenBase, Torn
<1>9. CASE WriteBase(v)
  <2>1. job'[w] = job[w]
    BY <1>9, Moved DEF WriteBase, Regular
  <2>2. seen \subseteq seen' /\ (Pipeline(job[w].kind) => base'.of \subseteq seen')
    BY <1>9 DEF WriteBase, BaseBecomes, Busy
  <2> QED BY <1>3, <1>9, <2>1, <2>2, Unmoved DEF WriteBase
<1> QED BY <1>2, <1>5, <1>6, <1>7, <1>8, <1>9

\* The calculation in work is not among those that count as done with all they need.
LEMMA NotInWork ==
  ASSUME Regular, NEW w \in Workers, Working(w), Pipeline(job[w].kind), job[w].todo # {},
         NEW c \in Calcs, Needed(c) \subseteq Credited(w)
  PROVE  c # Calc(w) /\ Calc(w) \notin Needed(c)
<1>1. c \in Needed(c) /\ c \in job[w].done
  BY NeededIs DEF Credited
<1>2. Needed(c) \cap job[w].todo = {} /\ Calc(w) \in job[w].todo
  BY <1>1, CalcIs DEF Working
<1> QED BY <1>1, <1>2

\* A pipeline request raises at a calculation.
LEMMA RaisedCredits ==
  ASSUME Regular, NEW w \in Workers, Working(w), Credit(w), Kept(w), job[w].at \in Executing,
         Pipeline(job[w].kind), Move(w, Raised(job[w])),
         UNCHANGED <<base, tables, parquet, snapshot, seen, done, lost>>
  PROVE  Working(w)' /\ Credit(w)' /\ Kept(w)'
<1> DEFINE j == Raised(job[w])
<1>1. job[w] \in Jobs /\ job[w].todo # {}
  BY JobIs DEF Regularly, OnCalc
<1>2. /\ j.kind = job[w].kind /\ j.at \in {"select", "answer"}
      /\ j.todo \subseteq job[w].todo /\ j.done \subseteq job[w].done
  BY <1>1, RaisedIs DEF Rest
<1>3. job'[w] = j
  BY Moved DEF Regular
<1> HIDE DEF j
<1>4. Credited(w)' \subseteq Credited(w)
  BY <1>2, <1>3 DEF Credited
<1>5. CutOff(w) = {}
  BY KindsDiffer, NothingCutOff
<1>6. Credit(w)'
  BY <1>4, <1>5, CreditStays
<1>7. InWork(w)' /\ ~At(w, "write")'
  BY <1>2, <1>3 DEF InWork, At
<1>8. Working(w)'
  BY <1>2, <1>3, <1>7 DEF Working
<1>9. Kept(w)'
  BY <1>2, <1>3, KeptStays DEF Kept, Saving
<1> QED BY <1>6, <1>8, <1>9

LEMMA StartCredits ==
  ASSUME Regular, NEW w \in Workers, Working(w), Credit(w), Kept(w), Start(w)
  PROVE  Working(w)' /\ Credit(w)' /\ Kept(w)'
<1>1. PICK kind \in serves[w] : Start(w)!(kind)
  BY DEF Start
<1>2. kind \in Kinds
  BY <1>1, TrafficKinds DEF Regular, Holds
<1>3. job[w].kind = "none"
  <2>1. At(w, "idle")
    BY <1>1
  <2>2. job[w] = Idle
    BY <2>1, JobIs DEF Regularly, At
  <2> QED BY <2>2 DEF Idle
<1>4. ASSUME NEW asked, NEW todo, NEW at, Move(w, [Idle EXCEPT !.kind = asked, !.at = at, !.todo = todo])
      PROVE  job'[w].kind = asked /\ job'[w].done = {} /\ job'[w].at = at
  <2>1. job'[w] = [Idle EXCEPT !.kind = asked, !.at = at, !.todo = todo]
    BY <1>4, Moved DEF Regular
  <2> QED BY <2>1 DEF Idle
<1>5. ASSUME NEW asked, NEW at, Move(w, [Idle EXCEPT !.kind = asked, !.at = at])
      PROVE  job'[w].kind = asked /\ job'[w].at = at
  <2>1. job'[w] = [Idle EXCEPT !.kind = asked, !.at = at]
    BY <1>5, Moved DEF Regular
  <2> QED BY <2>1 DEF Idle
<1>6. \/ Pipeline(kind) /\ job'[w].kind = kind /\ job'[w].done = {} /\ job'[w].at = "select"
      \/ /\ ~Pipeline(kind) /\ job'[w].kind \in {"load", "save", "reload", "restore"}
         /\ job'[w].at \in {"read csv", "forget", "remove base"}
         /\ job'[w].kind = "restore" => job'[w].at = "remove base"
         /\ job'[w].kind = "reload" => job'[w].at = "read csv"
  <2>1. CASE kind \in {"run", "stage"}
    <3>1. Move(w, [Idle EXCEPT !.kind = kind, !.at = "select", !.todo = Calcs])
      BY <1>1, <2>1
    <3> QED BY <2>1, <3>1, <1>4 DEF Pipeline
  <2>2. CASE kind = "one"
    <3>1. PICK c \in Calcs :
            Move(w, [Idle EXCEPT !.kind = kind, !.at = "select", !.todo = Needed(c)])
      BY <1>1, <2>2
    <3> QED BY <2>2, <3>1, <1>4 DEF Pipeline
  <2>3. CASE kind = "load"
    <3>1. Move(w, [Idle EXCEPT !.kind = kind, !.at = "read csv"])
      BY <1>1, <2>3
    <3> QED BY <2>3, <3>1, <1>5 DEF Pipeline
  <2>4. CASE kind = "save"
    <3>1. Move(w, [Idle EXCEPT !.kind = kind, !.at = "forget"])
      BY <1>1, <2>4
    <3> QED BY <2>4, <3>1, <1>5 DEF Pipeline
  <2>5. CASE kind = "demo"
    <3>1. \/ Move(w, [Idle EXCEPT !.kind = "reload", !.at = "read csv"])
          \/ Move(w, [Idle EXCEPT !.kind = "restore", !.at = "remove base"])
      BY <1>1, <2>5
    <3> QED BY <2>5, <3>1, <1>5 DEF Pipeline
  <2> QED BY <1>2, <2>1, <2>2, <2>3, <2>4, <2>5 DEF Kinds
<1>7. Kept(w)'
  <2>1. job'[w].at \in {"select", "read csv", "forget", "remove base"}
    BY <1>6
  <2>2. UNCHANGED snapshot
    BY <1>1
  <2> QED BY <2>1, <2>2, KeptStays DEF Kept, Saving, Replacing
<1>8. CASE Pipeline(kind)
  <2>1. Credited(w)' = {} /\ base' = base /\ seen' = base.of /\ done' = {}
    BY <1>1, <1>6, <1>8 DEF Credited
  <2>2. Credit(w)'
    BY <2>1, NeededIs DEF Credit
  <2>3. InWork(w)' /\ ~At(w, "write")'
    BY <1>6, <1>8 DEF InWork, At
  <2>4. Working(w)'
    BY <1>6, <1>8, <2>1, <2>3 DEF Working
  <2> QED BY <1>7, <2>2, <2>4
<1>9. CASE ~Pipeline(kind)
  <2>1. UNCHANGED <<tables, parquet, seen, done, lost>>
    BY <1>1, <1>9
  <2>2. Credited(w)' = Credited(w) /\ ~Pipeline(job'[w].kind)
    BY <1>3, <1>6, <1>9, <2>1 DEF Credited, Pipeline
  <2>3. CutOff(w) = {}
    BY <1>3, NothingCutOff
  <2>4. Credit(w)'
    BY <2>1, <2>2, <2>3, CreditStays
  <2> QED BY <1>7, <2>2, <2>4 DEF Working
<1> QED BY <1>8, <1>9

\* What the SQL of a calculation returns when all that it needs is done.
LEMMA ResultProper ==
  ASSUME Regular, NEW w \in Workers, Working(w), Credit(w), Pipeline(job[w].kind),
         job[w].todo # {}, Needed(Calc(w)) \subseteq job[w].done \cup {Calc(w)}, Runs(Calc(w))
  PROVE  Proper(Result(Calc(w)))
<1> DEFINE h == Calc(w)
<1>1. h \in Calcs
  BY CalcIs
<1>2. CASE Reads[h] = {}
  BY <1>2 DEF Runs, Result, Regular, Holds, Usable, Working, Proper
<1>3. CASE Reads[h] # {}
  <2>1. ASSUME NEW d \in Reads[h] PROVE Proper(Rows(tables[d], parquet[d]))
    <3>1. d \in Calcs /\ Place(d) < Place(h)
      BY <1>1, ReadsBefore
    <3>2. Needed(d) \subseteq Needed(h) /\ h \notin Needed(d)
      <4>1. Needed(d) \subseteq Needed(h)
        BY <1>1, NeededIs
      <4>2. \A e \in Needed(d) : Place(e) <= Place(d)
        BY <3>1, NeededIs
      <4> QED BY <1>1, <3>1, <4>1, <4>2, PlaceIs
    <3>3. Needed(d) \subseteq Credited(w)
      BY <3>2 DEF Credited
    <3>4. FileProper(d) /\ (EntryProper(d) => Rows(tables[d], parquet[d]) = parquet[d].of)
          /\ (EntryProper(d) \/ d \in lost) /\ d \in job[w].done
      BY <3>1, <3>3, Entered, KindsDiffer, NothingCutOff DEF Credited
    <3>5. EntryProper(d)
      BY <3>4 DEF Working
    <3> QED BY <3>4, <3>5 DEF FileProper
  <2>2. Result(h) = UNION {Rows(tables[d], parquet[d]) : d \in Reads[h]}
    BY <1>3 DEF Result
  <2> QED BY <1>3, <2>1, <2>2 DEF Proper
<1> QED BY <1>2, <1>3

\* A pipeline request takes a step that keeps its list and credits nothing: of its
\* calculation only, entry and file may change.
LEMMA WorkCredits ==
  ASSUME Regular, NEW w \in Workers, Working(w), Credit(w), Kept(w), Pipeline(job[w].kind),
         job[w].at \in Executing, UNCHANGED <<base, seen, done, snapshot>>,
         \A c \in Calcs : c # Calc(w) => tables'[c] = tables[c] /\ parquet'[c] = parquet[c],
         lost' \subseteq lost,
         job'[w].at \in {"fetch", "open", "write"} => Calc(w) \notin lost',
         job'[w].kind = job[w].kind, job'[w].todo = job[w].todo, job'[w].done = job[w].done,
         job'[w].at \in Executing, job'[w].at = "write" => job'[w].fh = "alone",
         InTurn(w) => InWork(w)'
  PROVE  Working(w)' /\ Credit(w)' /\ Kept(w)'
<1>1. job[w].todo # {} /\ Credited(w)' = Credited(w) /\ InTurn(w)' = InTurn(w) /\ Calc(w)' = Calc(w)
  BY JobIs DEF Regularly, OnCalc, Credited, InTurn, Calc
<1>2. Working(w)'
  BY <1>1 DEF Working, At
<1>3. CutOff(w) = {}
  BY KindsDiffer, NothingCutOff
<1>4. Credit(w)'
  <2> SUFFICES ASSUME NEW c \in Calcs, Needed(c) \subseteq Credited(w) PROVE Standing(w, c)'
    BY <1>1 DEF Credit
  <2>1. c # Calc(w)
    BY <1>1, NotInWork
  <2>2. FileProper(c) /\ (EntryProper(c) \/ c \in lost) /\ c \in job[w].done
    BY <1>3, Entered DEF Credited
  <2>3. EntryProper(c)
    BY <2>2 DEF Working
  <2> QED BY <2>1, <2>2, <2>3 DEF Standing, FileProper, EntryProper, Proper
<1>5. Kept(w)'
  <2>1. job'[w].at \notin (Saving \ {"forget"}) \cup {"copy", "write copy"}
    BY DEF Executing, Saving
  <2> QED BY <2>1, KeptStays DEF Kept
<1> QED BY <1>2, <1>4, <1>5

LEMMA SelectCredits ==
  ASSUME Regular, NEW w \in Workers, Working(w), Credit(w), Kept(w), Select(w)
  PROVE  Working(w)' /\ Credit(w)' /\ Kept(w)'
<1>1. Pipeline(job[w].kind) /\ job[w].at \in Executing
  BY PipelineStep DEF Select, At
<1>2. CASE Goto(w, "drop view")
  <2>1. /\ job'[w].kind = job[w].kind /\ job'[w].todo = job[w].todo /\ job'[w].done = job[w].done
        /\ job'[w].at = "drop view"
    BY <1>2, Went
  <2>2. InTurn(w) => InWork(w)'
    BY <2>1 DEF InWork, At
  <2> QED BY <1>1, <2>1, <2>2, WorkCredits DEF Select, Executing
<1>3. CASE Move(w, Raised(job[w]))
  BY <1>1, <1>3, RaisedCredits DEF Select
<1> QED BY <1>2, <1>3 DEF Select

LEMMA CreateCredits ==
  ASSUME Regular, NEW w \in Workers, Working(w), Credit(w), Kept(w), CreateTable(w)
  PROVE  Working(w)' /\ Credit(w)' /\ Kept(w)'
<1> DEFINE h == Calc(w)  of == Result(h)
<1>1. Pipeline(job[w].kind) /\ job[w].at \in Executing /\ job[w] \in Jobs /\ job[w].todo # {}
  BY PipelineStep, JobIs DEF CreateTable, At, Regularly
<1>2. CASE Runs(h) /\ Move(w, [job[w] EXCEPT !.at = "commit", !.of = of])
  <2>1. InTurn(w) => Proper(of)
    BY <1>1, <1>2, ResultProper DEF InTurn
  <2> HIDE DEF of
  <2>2. job'[w] = [job[w] EXCEPT !.at = "commit", !.of = of]
    BY <1>2, Moved DEF Regular
  <2>3. /\ job'[w].kind = job[w].kind /\ job'[w].todo = job[w].todo /\ job'[w].done = job[w].done
        /\ job'[w].at = "commit" /\ job'[w].of = of
    BY <1>1, <2>2 DEF Jobs
  <2>4. InTurn(w) => InWork(w)'
    BY <2>1, <2>3 DEF InWork, At, Proper, CreateTable
  <2> QED BY <1>1, <2>3, <2>4, WorkCredits DEF CreateTable, Executing
<1>3. CASE Move(w, Raised(job[w]))
  BY <1>1, <1>3, RaisedCredits DEF CreateTable
<1> QED BY <1>2, <1>3 DEF CreateTable

LEMMA CommitCredits ==
  ASSUME Regular, NEW w \in Workers, Working(w), Credit(w), Kept(w), CommitTable(w)
  PROVE  Working(w)' /\ Credit(w)' /\ Kept(w)'
<1> DEFINE h == Calc(w)
<1>1. Pipeline(job[w].kind) /\ job[w].at \in Executing /\ job[w] \in Jobs /\ job[w].todo # {}
      /\ At(w, "commit") /\ Goto(w, "fetch")
  BY PipelineStep, JobIs DEF CommitTable, At, Regularly
<1>2. /\ job'[w].kind = job[w].kind /\ job'[w].todo = job[w].todo /\ job'[w].done = job[w].done
      /\ job'[w].at = "fetch" /\ Calc(w)' = h
  BY <1>1, Went DEF Calc
<1>3. h \in Calcs /\ job[w].of \subseteq Versions
  BY <1>1, CalcIs DEF Jobs
<1>4. \A c \in Calcs : tables'[c] = IF c = h THEN Table(job[w].of) ELSE tables[c]
  BY <1>3 DEF CommitTable, Regular, Holds
<1>5. InTurn(w) => InWork(w)'
  <2> SUFFICES ASSUME InTurn(w) PROVE InWork(w)'
    OBVIOUS
  <2>1. Proper(job[w].of) /\ Proper(job[w].of)' = Proper(job'[w].of) /\ seen' = seen
    BY <1>1 DEF Working, InWork, Proper, CommitTable
  <2>2. \E of \in SUBSET Versions : Proper(of)' /\ tables'[h] = Table(of)
    BY <1>3, <1>4, <2>1 DEF Proper
  <2> QED BY <1>2, <2>2 DEF InWork, At
<1>6. h \notin lost' /\ lost' \subseteq lost
  BY DEF CommitTable
<1> QED BY <1>1, <1>2, <1>4, <1>5, <1>6, WorkCredits DEF CommitTable, Executing

LEMMA FetchCredits ==
  ASSUME Regular, NEW w \in Workers, Working(w), Credit(w), Kept(w), Fetch(w)
  PROVE  Working(w)' /\ Credit(w)' /\ Kept(w)'
<1> DEFINE h == Calc(w)  of == Rows(tables[h], parquet[h])
<1>1. Pipeline(job[w].kind) /\ job[w].at \in Executing /\ job[w] \in Jobs /\ job[w].todo # {}
      /\ At(w, "fetch")
  BY PipelineStep, JobIs DEF Fetch, At, Regularly
<1>2. CASE Move(w, [job[w] EXCEPT !.at = "open", !.of = of])
  <2>1. InTurn(w) => Proper(of) /\ tables[h] = Table(of)
    <3> SUFFICES ASSUME InTurn(w) PROVE Proper(of) /\ tables[h] = Table(of)
      OBVIOUS
    <3>1. PICK r \in SUBSET Versions : Proper(r) /\ tables[h] = Table(r)
      BY <1>1 DEF Working, InWork
    <3>2. of = r
      BY <3>1 DEF Rows, Table
    <3> QED BY <3>1, <3>2
  <2> HIDE DEF of
  <2>2. job'[w] = [job[w] EXCEPT !.at = "open", !.of = of]
    BY <1>2, Moved DEF Regular
  <2>3. /\ job'[w].kind = job[w].kind /\ job'[w].todo = job[w].todo /\ job'[w].done = job[w].done
        /\ job'[w].at = "open" /\ job'[w].of = of
    BY <1>1, <2>2 DEF Jobs
  <2>4. InTurn(w) => InWork(w)'
    BY <2>1, <2>3 DEF InWork, At, Proper, Fetch, Calc
  <2>5. h \notin lost
    BY <1>1 DEF Working, At
  <2> QED BY <1>1, <2>3, <2>4, <2>5, WorkCredits DEF Fetch, Executing
<1>3. CASE Move(w, Raised(job[w]))
  BY <1>1, <1>3, RaisedCredits DEF Fetch
<1> QED BY <1>2, <1>3 DEF Fetch

LEMMA OpenCredits ==
  ASSUME Regular, NEW w \in Workers, TheOne(w), Working(w), Credit(w), Kept(w), Open(w)
  PROVE  Working(w)' /\ Credit(w)' /\ Kept(w)'
<1>1. Pipeline(job[w].kind) /\ job[w].at \in Executing /\ At(w, "open") /\ Calc(w) \notin lost
  BY PipelineStep DEF Open, At, Working
<1>2. \A o \in Workers : ~HasOpen(o, Calc(w))
  <2> SUFFICES ASSUME NEW o \in Workers, HasOpen(o, Calc(w)) PROVE FALSE
    OBVIOUS
  <2>1. o # w /\ job[o].at = "write"
    BY <1>1 DEF HasOpen, At
  <2> QED BY <2>1, OthersLoad DEF Loading
<1>4. /\ job'[w].kind = job[w].kind /\ job'[w].todo = job[w].todo /\ job'[w].done = job[w].done
      /\ job'[w].at = "write" /\ job'[w].of = job[w].of /\ job'[w].fh = "alone"
  BY <1>2, OpenedResult
<1>5. InTurn(w) => InWork(w)'
  BY <1>1, <1>4 DEF Working, InWork, At, Proper, Open, Calc
<1>6. \A c \in Calcs : c # Calc(w) => tables'[c] = tables[c] /\ parquet'[c] = parquet[c]
  BY DEF Open, Regular, Holds
<1> QED BY <1>1, <1>4, <1>5, <1>6, WorkCredits DEF Open, Executing

LEMMA WriteCredits ==
  ASSUME Regular, NEW w \in Workers, Working(w), Credit(w), Kept(w), Write(w)
  PROVE  Working(w)' /\ Credit(w)' /\ Kept(w)'
<1> DEFINE h == Calc(w)  j == Done(job[w])
<1>1. Pipeline(job[w].kind) /\ job[w].at \in Executing /\ job[w] \in Jobs /\ job[w].todo # {}
      /\ At(w, "write") /\ h \notin lost /\ job[w].done \cap lost = {} /\ job[w].fh = "alone"
  BY PipelineStep, JobIs DEF Write, At, Regularly, Working
<1>2. h \in Calcs /\ h \in job[w].todo /\ h = First(job[w].todo)
      /\ Rest(job[w]) = job[w].todo \ {h} /\ \A d \in job[w].todo : Place(h) <= Place(d)
  BY <1>1, CalcIs
<1>3. /\ j.kind = job[w].kind /\ j.todo = job[w].todo \ {h} /\ j.done = job[w].done \cup {h}
      /\ j.at \in {"answer", "select"}
  BY <1>1, <1>2, DoneIs
<1>4. job'[w] = j
  BY Moved DEF Write, Regular
<1> HIDE DEF j
<1>5. \A c \in Calcs : parquet'[c] = IF c = h THEN Whole(job[w].of) ELSE parquet[c]
  BY <1>1, <1>2 DEF Write, Written, Regular, Holds
<1>6. UNCHANGED <<base, seen, done, tables, lost, snapshot>>
  BY DEF Write
<1>7. Working(w)'
  <2>1. InWork(w)' /\ ~At(w, "write")'
    BY <1>3, <1>4 DEF InWork, At
  <2>2. Needed(h) \cap (job[w].todo \ {h}) = {}
    <3> SUFFICES ASSUME NEW d \in Needed(h), d \in job[w].todo PROVE d = h
      OBVIOUS
    <3>1. Place(d) <= Place(h) /\ Place(h) <= Place(d) /\ d \in Calcs
      BY <1>2, NeededIs
    <3> QED BY <1>2, <3>1, PlaceIs, PlaceOnce
  <2>3. \A c \in job[w].done : Needed(c) \cap job[w].todo = {}
    BY <1>1 DEF Working
  <2> QED BY <1>1, <1>3, <1>4, <1>6, <2>1, <2>2, <2>3 DEF Working
<1>8. Credit(w)'
  <2> SUFFICES ASSUME NEW c \in Calcs, Needed(c) \subseteq Credited(w)' PROVE Standing(w, c)'
    BY DEF Credit
  <2>1. Credited(w)' = job[w].done \cup {h} /\ Credited(w) = job[w].done
    BY <1>1, <1>3, <1>4 DEF Credited
  <2>2. CASE c = h
    <3>1. InWork(w)
      BY <1>1, <2>1, <2>2 DEF Working, InTurn
    <3>2. Proper(job[w].of) /\ tables[h] = Table(job[w].of)
      BY <1>1, <3>1 DEF InWork, At
    <3>3. parquet'[h].state = "whole" /\ parquet'[h].of = job[w].of
      BY <1>2, <1>5 DEF Whole
    <3> QED BY <1>6, <2>2, <3>2, <3>3 DEF Standing, FileProper, EntryProper, Proper
  <2>3. CASE c # h
    <3>1. c \in job[w].done
      BY <2>1, <2>3, NeededIs
    <3>2. Needed(c) \subseteq Credited(w)
      BY <1>1, <1>2, <2>1, <3>1 DEF Working
    <3>3. FileProper(c) /\ EntryProper(c)
      BY <1>1, <3>1, <3>2, Entered, KindsDiffer, NothingCutOff
    <3> QED BY <1>5, <1>6, <2>3, <3>3 DEF Standing, FileProper, EntryProper, Proper
  <2> QED BY <2>2, <2>3
<1>9. Kept(w)'
  BY <1>1, <1>3, <1>4, <1>6, KeptStays DEF Kept, Saving
<1> QED BY <1>7, <1>8, <1>9

LEMMA AnswerCredits ==
  ASSUME Regular, NEW w \in Workers, Working(w), Credit(w), Kept(w), Answer(w)
  PROVE  Working(w)' /\ Credit(w)' /\ Kept(w)'
<1>1. job'[w] = Idle /\ At(w, "answer")
  BY Moved DEF Answer, Regular
<1>2. job'[w].kind = "none" /\ job'[w].at = "idle"
  BY <1>1 DEF Idle
<1>3. Credited(w)' = Credited(w)
  BY <1>2 DEF Credited, Pipeline, Answer
<1>4. CutOff(w) = {}
  BY <1>1, NothingCutOff DEF At, Loading, Registering
<1>5. Credit(w)'
  BY <1>3, <1>4, CreditStays DEF Answer
<1>6. Kept(w)'
  BY <1>2, KeptStays DEF Kept, Answer, Saving, Replacing
<1> QED BY <1>2, <1>5, <1>6 DEF Working, Pipeline

\* Loading the base data, by itself or in the course of a demo step: what is still to
\* be registered stays so.
LEMMA LoadCredits ==
  ASSUME Regular, NEW w \in Workers, TheOne(w), Working(w), Credit(w), Kept(w),
         ReadCsv(w) \/ OpenBase(w) \/ WriteBase(w)
  PROVE  Working(w)' /\ Credit(w)' /\ Kept(w)'
<1>1. job[w].at \in Loading /\ Regularly(w, job[w]) /\ job[w] \in Jobs
  BY JobIs DEF ReadCsv, OpenBase, WriteBase, At, Loading, Regularly
<1>2. job[w].kind \in {"load", "reload", "restore"}
  BY <1>1, StepsDiffer DEF Regularly
<1>3. ~Busy
  <2> SUFFICES ASSUME NEW v \in Workers, Pipeline(job[v].kind) PROVE FALSE
    BY DEF Busy
  <2> QED BY <1>2, OthersLoad, KindsDiffer
<1>4. UNCHANGED <<tables, parquet, snapshot, done, lost, seen>>
  BY <1>3 DEF ReadCsv, OpenBase, WriteBase, BaseBecomes
<1>5. ASSUME NEW j, Regularly(w, j), j.kind = job[w].kind, j.at \in Loading, Move(w, Loaded(j))
      PROVE  /\ job'[w].kind = job[w].kind /\ job'[w].at \in {"drop view", "answer"}
             /\ job[w].kind = "restore" /\ Filed # {} => /\ job'[w].at = "drop view"
                                                        /\ job'[w].todo = Filed
  <2> DEFINE some == Filed  k == Loaded(j)
  <2>1. job'[w] = k /\ k.kind = j.kind /\ k.at \in {"drop view", "answer"}
    BY <1>5, Moved, LoadedRegularly DEF Regular
  <2>2. ASSUME job[w].kind = "restore", some # {}
        PROVE  k.at = "drop view" /\ k.todo = some
    <3>1. k = [j EXCEPT !.at = "drop view", !.todo = some] /\ j \in Jobs
      BY <1>5, <2>2 DEF Loaded, Regularly
    <3> HIDE DEF k, some
    <3> QED BY <3>1 DEF Jobs
  <2> HIDE DEF k
  <2> QED BY <1>5, <2>1, <2>2
<1>6. /\ job'[w].kind = job[w].kind /\ job'[w].at \in Loading \cup {"drop view", "answer"}
      /\ job'[w].at \in Loading \/ (job[w].kind = "restore" /\ Filed # {} =>
           job'[w].at = "drop view" /\ job'[w].todo = Filed)
  <2>1. CASE Goto(w, "open base")
    BY <2>1, Went DEF Loading
  <2>2. CASE Move(w, Loaded(job[w]))
    BY <1>1, <1>5, <2>2
  <2>3. CASE OpenBase(w)
    <3> DEFINE others == {o \in Workers : HasBase(o)}
    <3>1. Opening(w, others, "write base") /\ "write base" \in Loading
      BY <2>3 DEF OpenBase, Loading
    <3> HIDE DEF others
    <3>a. Alike(job[w], job'[w]) /\ job'[w].at = "write base"
      BY <3>1, Opened
    <3>2. job'[w].kind = job[w].kind /\ job'[w].at = "write base"
      BY <3>a DEF Alike
    <3> QED BY <3>1, <3>2
  <2>4. CASE WriteBase(w)
    <3> DEFINE k == [job[w] EXCEPT !.fh = "alone"]
    <3>1. k \in Jobs /\ Alike(job[w], k) /\ k.at = job[w].at
      BY <1>1, Unopened
    <3>2. Move(w, Loaded(k))
      BY <2>4 DEF WriteBase
    <3> HIDE DEF k
    <3>3. Regularly(w, k) /\ k.kind = job[w].kind
      BY <1>1, <3>1, AlikeRegularly DEF Loading, Alike
    <3> QED BY <1>1, <1>5, <3>1, <3>2, <3>3
  <2> QED BY <2>1, <2>2, <2>3, <2>4 DEF ReadCsv
<1>7. CutOff(w) \subseteq CutOff(w)'
  <2>1. CASE job[w].kind = "restore" /\ Filed # {}
    BY <1>1, <1>4, <1>6, <2>1 DEF CutOff, Loading, Registering, Filed
  <2>2. CASE ~(job[w].kind = "restore" /\ Filed # {})
    BY <1>1, <1>2, <2>2 DEF CutOff, Loading, Registering, Replacing
  <2> QED BY <2>1, <2>2
<1>8. Credited(w)' = Credited(w) /\ ~Pipeline(job'[w].kind)
  BY <1>2, <1>4, <1>6 DEF Credited, Pipeline
<1>9. Credit(w)'
  BY <1>4, <1>7, <1>8, CreditStays
<1>10. Kept(w)'
  BY <1>4, <1>6, KeptStays DEF Kept, Saving, Replacing, Loading
<1> QED BY <1>8, <1>9, <1>10 DEF Working

\* The two DROPs of a pipeline request.
LEMMA DropWorks ==
  ASSUME Regular, NEW w \in Workers, Working(w), Credit(w), Kept(w), DropView(w) \/ DropTable(w),
         Pipeline(job[w].kind)
  PROVE  Working(w)' /\ Credit(w)' /\ Kept(w)'
<1>1. job[w].at \in Executing /\ job[w].todo # {} /\ Calc(w) \in Calcs
  BY CalcIs, JobIs DEF DropView, DropTable, At, Regularly, Executing, OnCalc
<1>2. PICK step \in {"drop table", "create"} : Goto(w, step)
  BY DEF DropView, DropTable
<1>3. /\ job'[w].kind = job[w].kind /\ job'[w].todo = job[w].todo /\ job'[w].done = job[w].done
      /\ job'[w].at = step
  BY <1>2, Went
<1>4. \A c \in Calcs : c # Calc(w) => tables'[c] = tables[c] /\ parquet'[c] = parquet[c]
  BY <1>1 DEF DropView, DropTable, Regular, Holds
<1>5. InTurn(w) => InWork(w)'
  BY <1>3 DEF InWork, At
<1> QED BY <1>1, <1>3, <1>4, <1>5, WorkCredits DEF DropView, DropTable, Executing

LEMMA RegisteringIs ==
  ASSUME Regular, NEW w \in Workers, job[w].at \in Registering, ~Pipeline(job[w].kind)
  PROVE  /\ job[w].kind \in {"reload", "restore"} /\ job[w] \in Jobs /\ job[w].todo # {}
         /\ Calc(w) \in Calcs /\ Calc(w) \in job[w].todo
<1>1. job[w].at \in StepsOf(job[w].kind) /\ job[w] \in Jobs /\ job[w].todo # {}
  BY JobIs DEF Regularly, OnCalc
<1>2. job[w].kind \in {"reload", "restore"}
  BY <1>1 DEF StepsOf, Registering, Executing, Loading, Saving, Pipeline
<1> QED BY <1>1, <1>2, CalcIs

\* The two DROPs of a demo step.
LEMMA DropRegisters ==
  ASSUME Regular, NEW w \in Workers, Working(w), Credit(w), Kept(w), DropView(w) \/ DropTable(w),
         ~Pipeline(job[w].kind)
  PROVE  Working(w)' /\ Credit(w)' /\ Kept(w)'
<1> DEFINE h == Calc(w)
<1>1. job[w].at \in Registering /\ tables \in [Calcs -> Entries]
  BY DEF DropView, DropTable, At, Registering, Regular, Holds
<1>2. job[w].kind \in {"reload", "restore"} /\ h \in Calcs /\ h \in job[w].todo
  BY <1>1, RegisteringIs
<1>3. PICK step \in Replacing : Goto(w, step) /\ (step = "drop table" <=> DropView(w))
  BY DEF DropView, DropTable, At, Replacing
<1>4. /\ job'[w].kind = job[w].kind /\ job'[w].todo = job[w].todo /\ job'[w].at = step
      /\ Calc(w)' = h
  BY <1>3, Went DEF Calc
<1>5. UNCHANGED <<base, parquet, snapshot, seen, done, lost>>
  BY DEF DropView, DropTable
<1>6. \A c \in Calcs : c # h => tables'[c] = tables[c]
  BY <1>1, <1>2 DEF DropView, DropTable
<1>7. /\ DropView(w) => tables'[h].kind # "view"
      /\ DropTable(w) => tables'[h] = None
  <2>1. DropView(w) => tables'[h] = IF tables[h].kind = "view" THEN None ELSE tables[h]
    BY <1>1, <1>2 DEF DropView
  <2>2. DropTable(w) => tables'[h] = IF tables[h].kind = "table" THEN None ELSE tables[h]
    BY <1>1, <1>2 DEF DropTable
  <2>3. DropTable(w) => tables[h].kind # "view"
    BY DEF DropTable, Kept, Dropped
  <2>4. tables[h] = None \/ tables[h] = View \/ tables[h].kind = "table"
    BY <1>1, <1>2 DEF Entries
  <2>5. None.kind = "none" /\ View.kind = "view"
    BY DEF None, View
  <2> QED BY <2>1, <2>2, <2>3, <2>4, <2>5
<1>8. CutOff(w) \subseteq CutOff(w)' /\ h \in CutOff(w)'
  <2>1. CASE job[w].kind = "restore"
    BY <1>1, <1>2, <1>3, <1>4, <2>1 DEF CutOff, Registering, Replacing
  <2>2. CASE job[w].kind = "reload"
    BY <1>1, <1>2, <1>3, <1>4, <2>2 DEF CutOff, Registering, Replacing
  <2> QED BY <1>2, <2>1, <2>2
<1>9. Credit(w)'
  <2> SUFFICES ASSUME NEW c \in Calcs, Needed(c) \subseteq Credited(w)' PROVE Standing(w, c)'
    BY DEF Credit
  <2>1. Credited(w)' = Credited(w)
    BY <1>4, <1>5 DEF Credited
  <2>2. FileProper(c) /\ (EntryProper(c) \/ c \in CutOff(w) \/ c \in lost)
    BY <2>1, Entered
  <2>3. FileProper(c)'
    BY <1>5, <2>2 DEF FileProper, Proper
  <2>4. c = h \/ (EntryProper(c) => EntryProper(c)')
    BY <1>5, <1>6 DEF EntryProper
  <2> QED BY <1>5, <1>8, <2>2, <2>3, <2>4 DEF Standing
<1>10. Kept(w)'
  <2>1. Dropped(w)'
    <3>1. step = "create view" => DropTable(w)
      BY <1>3 DEF Replacing, DropView
    <3> QED BY <1>3, <1>4, <1>7, <3>1 DEF Dropped, At
  <2>2. SnapshotProper'
    BY <1>5 DEF Kept, SnapshotProper
  <2>3. Saved(w)' /\ Copied(w)'
    BY <1>4 DEF Saved, Copied, Saving, Replacing
  <2> QED BY <2>1, <2>2, <2>3 DEF Kept
<1> QED BY <1>4, <1>9, <1>10 DEF Working

LEMMA CreateViewCredits ==
  ASSUME Regular, NEW w \in Workers, TheOne(w), Working(w), Credit(w), Kept(w), CreateView(w)
  PROVE  Working(w)' /\ Credit(w)' /\ Kept(w)'
<1> DEFINE h == Calc(w)  j == Onward(job[w], "drop view")
<1>1. ~Pipeline(job[w].kind)
  BY JobIs, StepsDiffer DEF CreateView, At, Regularly, Pipeline
<1>2. /\ job[w].kind \in {"reload", "restore"} /\ h \in Calcs /\ h \in job[w].todo
      /\ job[w] \in Jobs /\ At(w, "create view") /\ tables[h] = None
  BY <1>1, RegisteringIs DEF CreateView, At, Registering, Kept, Dropped
<1>3. Rest(job[w]) = job[w].todo \ {h}
  BY <1>2, CalcIs
<1>4. /\ j.kind = job[w].kind /\ j.todo = job[w].todo \ {h}
      /\ j.at = IF job[w].todo \ {h} = {} THEN "answer" ELSE "drop view"
  <2>1. j.kind = job[w].kind /\ j.todo = Rest(job[w])
        /\ j.at = IF Rest(job[w]) = {} THEN "answer" ELSE "drop view"
    BY <1>2, OnwardIs
  <2> HIDE DEF j
  <2> QED BY <1>3, <2>1
<1>5. job'[w] = j
  BY Moved DEF CreateView, Regular
<1> HIDE DEF j
<1>6. UNCHANGED <<base, parquet, snapshot, seen, done>> /\ (lost' = lost \/ lost' = lost \ {h})
  BY DEF CreateView
<1>7. \A c \in Calcs : c # h => tables'[c] = tables[c]
  BY <1>2 DEF CreateView, Regular, Holds
<1>8. Credited(w)' = Credited(w) /\ ~Pipeline(job'[w].kind)
  BY <1>1, <1>4, <1>5, <1>6 DEF Credited
<1>9. CutOff(w) \subseteq CutOff(w)' \cup {h}
  BY <1>2, <1>4, <1>5 DEF CutOff, At, Loading, Registering, Replacing
<1>10. Credit(w)'
  <2> SUFFICES ASSUME NEW c \in Calcs, Needed(c) \subseteq Credited(w) PROVE Standing(w, c)'
    BY <1>8 DEF Credit
  <2>1. FileProper(c) /\ (EntryProper(c) \/ c \in CutOff(w) \/ c \in lost)
    BY Entered
  <2>2. FileProper(c)'
    BY <1>6, <2>1 DEF FileProper, Proper
  <2>3. CASE c # h
    <3>1. EntryProper(c) => EntryProper(c)'
      BY <1>6, <1>7, <2>3 DEF EntryProper
    <3>2. c \in CutOff(w) => c \in CutOff(w)'
      BY <1>9, <2>3
    <3>3. c \in lost => c \in lost'
      BY <1>6, <2>3
    <3> QED BY <2>1, <2>2, <3>1, <3>2, <3>3 DEF Standing
  <2>4. CASE c = h
    <3>1. \A o \in Workers : ~At(o, "commit")
      BY <1>2, OthersLoad DEF At, Loading
    <3>2. Creatable(h)
      BY <1>2, <3>1 DEF Creatable
    <3>3. tables'[h] = View
      BY <1>2, <2>1, <2>4, <3>2 DEF CreateView, FileProper, Regular, Holds
    <3> QED BY <2>2, <2>4, <3>3 DEF Standing, EntryProper
  <2> QED BY <2>3, <2>4
<1>11. Kept(w)'
  BY <1>4, <1>5, <1>6, KeptStays DEF Kept, Saving, Replacing
<1> QED BY <1>8, <1>10, <1>11 DEF Working

\* Saving a snapshot: what is copied last of all are the names of what is done.
LEMMA SaveCredits ==
  ASSUME Regular, NEW w \in Workers, Working(w), Credit(w), Kept(w),
         \/ Forget(w) \/ SaveBase(w) \/ WriteBaseSaved(w)
         \/ SaveResult(w) \/ WriteSaved(w) \/ EndSave(w)
  PROVE  Working(w)' /\ Credit(w)' /\ Kept(w)'
<1>1. job[w].at \in Saving
  BY DEF Forget, SaveBase, WriteBaseSaved, SaveResult, WriteSaved, EndSave, At, Saving
<1>2. UNCHANGED <<base, tables, parquet, seen, done, lost>>
  BY DEF Forget, SaveBase, WriteBaseSaved, SaveResult, WriteSaved, EndSave
<1>3. job[w].kind = "save" /\ job[w] \in Jobs
  BY <1>1, SavingStep
<1>4. ASSUME NEW todo, Move(w, [job[w] EXCEPT !.at = "save", !.todo = todo])
      PROVE  job'[w].kind = "save" /\ job'[w].at = "save" /\ job'[w].todo = todo
  <2>1. job'[w] = [job[w] EXCEPT !.at = "save", !.todo = todo]
    BY <1>4, Moved DEF Regular
  <2> QED BY <1>3, <2>1 DEF Jobs
<1>5. ASSUME NEW step, Goto(w, step)
      PROVE  job'[w].kind = "save" /\ job'[w].at = step /\ job'[w].todo = job[w].todo
  BY <1>3, <1>5, Went
<1>6. ASSUME Move(w, Idle) PROVE job'[w].kind = "none" /\ job'[w].at = "idle"
  <2>1. job'[w] = Idle
    BY <1>6, Moved DEF Regular
  <2> QED BY <2>1 DEF Idle
<1>7. \A s \in snapshot : s \in Snapshots
  BY DEF Regular, Holds
<1>8. SnapshotProper /\ Saved(w)
  BY DEF Kept
\* Of a snapshot that calls nothing done nothing is to be shown.
<1>9. ASSUME \A s \in snapshot' : s.done = {} PROVE SnapshotProper'
  BY <1>9, NeededIs DEF SnapshotProper
<1>10. CASE Forget(w)
  <2>1. CASE Forget(w)!2!1
    <3>1. PICK s \in snapshot, c \in Calcs :
            \/ snapshot' = {[s EXCEPT !.base = Absent, !.done = {}]}
            \/ snapshot' = {[s EXCEPT !.parquet[c] = Absent, !.done = {}]}
      BY <2>1
    <3>2. \A t \in snapshot' : t.done = {}
      BY <1>7, <3>1 DEF Snapshots
    <3>3. job' = job /\ job'[w].at = "forget" /\ job'[w].kind = "save"
      BY <1>3, <1>10, <2>1 DEF Forget, At
    <3>4. Saved(w)' /\ Copied(w)' /\ Dropped(w)'
      BY <3>3 DEF Saved, Copied, Dropped, At
    <3>5. Credit(w)'
      BY <1>2, <1>3, <3>3, NothingCutOff, CreditStays DEF Credited
    <3> QED BY <1>3, <1>9, <3>2, <3>3, <3>4, <3>5 DEF Kept, Working, Pipeline
  <2>2. CASE Forget(w)!2!2
    <3>1. snapshot' = {Blank} /\ Blank.done = {} /\ \A c \in Calcs : Blank.parquet[c] = Absent
      BY <2>2 DEF Blank
    <3>2. \/ job'[w].at = "save" /\ job'[w].todo = Filed
          \/ job'[w].at = "save base"
      BY <1>4, <1>5, <2>2 DEF Goto
    <3>3. job'[w].kind = "save"
      BY <1>4, <1>5, <2>2 DEF Goto
    <3>4. Saved(w)'
      BY <1>2, <3>1, <3>2 DEF Saved, Filed
    <3>5. Copied(w)' /\ Dropped(w)'
      BY <3>2 DEF Copied, Dropped, At
    <3>6. Credit(w)'
      BY <1>2, <1>3, <3>3, NothingCutOff, CreditStays DEF Credited, Pipeline
    <3>7. SnapshotProper'
      BY <1>9, <3>1
    <3> QED BY <3>3, <3>4, <3>5, <3>6, <3>7 DEF Kept, Working, Pipeline
  <2> QED BY <1>10, <2>1, <2>2 DEF Forget
\* The other steps, by what they leave in the snapshot.
<1>11. ASSUME ~Forget(w), Saved(w)', SnapshotProper', job'[w].kind \in {"save", "none"},
              job'[w].at \in Saving \cup {"idle"}
       PROVE  Working(w)' /\ Credit(w)' /\ Kept(w)'
  <2>1. Credit(w)'
    BY <1>2, <1>3, <1>11, NothingCutOff, CreditStays DEF Credited, Pipeline
  <2>2. Copied(w)' /\ Dropped(w)'
    BY <1>11 DEF Copied, Dropped, At, Saving
  <2> QED BY <1>11, <2>1, <2>2 DEF Kept, Working, Pipeline
<1>12. CASE SaveBase(w)
  <2>1. At(w, "save base") /\ job'[w].kind = "save" /\ job'[w].at = "write base saved"
    BY <1>5, <1>12 DEF SaveBase
  <2>2. \A t \in snapshot' : \E s \in snapshot : t.done = s.done /\ t.parquet = s.parquet
    BY <1>7, <1>12 DEF SaveBase, Snapshots
  <2>a. /\ \A s \in snapshot : s.done = {}
        /\ \A s \in snapshot, c \in Calcs : s.parquet[c] = Absent
    BY <1>8, <2>1 DEF Saved, At, Saving
  <2>b. /\ \A t \in snapshot' : t.done = {}
        /\ \A t \in snapshot', c \in Calcs : t.parquet[c] = Absent
    BY <2>2, <2>a
  <2>3. Saved(w)' /\ \A t \in snapshot' : t.done = {}
    BY <2>1, <2>b DEF Saved
  <2>4. ~Forget(w)
    BY <2>1 DEF Forget, At
  <2> QED BY <1>9, <1>11, <2>1, <2>3, <2>4 DEF Saving
<1>13. CASE WriteBaseSaved(w)
  <2>1. /\ At(w, "write base saved") /\ job'[w].kind = "save" /\ job'[w].at = "save"
        /\ job'[w].todo = Filed
    BY <1>4, <1>13 DEF WriteBaseSaved
  <2>2. \A t \in snapshot' : \E s \in snapshot : t.done = s.done /\ t.parquet = s.parquet
    BY <1>7, <1>13 DEF WriteBaseSaved, Snapshots
  <2>a. \A t \in snapshot' : t.done = {}
    BY <1>8, <2>1, <2>2 DEF Saved, At, Saving
  <2>b. \A s \in snapshot, c \in Calcs : s.parquet[c] = Absent
    BY <1>8, <2>1 DEF Saved, At
  <2>d. \A c \in Calcs \ job'[w].todo : parquet'[c] = Absent
    <3>1. \A c \in Calcs : c \notin Filed => parquet[c] = Absent
      BY DEF Filed
    <3>2. job'[w].todo = Filed /\ parquet' = parquet
      BY <1>2, <2>1
    <3> QED BY <3>1, <3>2
  <2>e. \A t \in snapshot', c \in Calcs : t.parquet[c] = Absent
    BY <2>2, <2>b
  <2>c. \A t \in snapshot', c \in Calcs \ job'[w].todo : t.parquet[c] = parquet'[c]
    BY <2>d, <2>e
  <2>3. Saved(w)' /\ \A t \in snapshot' : t.done = {}
    BY <2>1, <2>a, <2>c DEF Saved
  <2>4. ~Forget(w)
    BY <2>1 DEF Forget, At
  <2> QED BY <1>9, <1>11, <2>1, <2>3, <2>4 DEF Saving
<1>14. CASE SaveResult(w)
  <2>1. /\ At(w, "save") /\ job'[w].kind = "save" /\ job'[w].at = "write saved"
        /\ job'[w].todo = job[w].todo /\ job[w].todo # {}
    BY <1>5, <1>14 DEF SaveResult
  <2>2. Calc(w) \in job[w].todo
    BY <2>1, CalcIs
  <2>3. \A t \in snapshot' : \E s \in snapshot :
          t.done = s.done /\ \A c \in Calcs : c # Calc(w) => t.parquet[c] = s.parquet[c]
    BY <1>7, <1>14 DEF SaveResult, Snapshots
  <2>a. \A t \in snapshot' : t.done = {}
    BY <1>8, <2>1, <2>3 DEF Saved, At, Saving
  <2>b. \A s \in snapshot, c \in Calcs \ job[w].todo : s.parquet[c] = parquet[c]
    BY <1>8, <2>1 DEF Saved, At
  <2>c. \A t \in snapshot', c \in Calcs \ job'[w].todo : t.parquet[c] = parquet'[c]
    BY <1>2, <2>1, <2>2, <2>3, <2>b
  <2>4. Saved(w)' /\ \A t \in snapshot' : t.done = {}
    BY <2>1, <2>a, <2>c DEF Saved
  <2>5. ~Forget(w)
    BY <2>1 DEF Forget, At
  <2> QED BY <1>9, <1>11, <2>1, <2>4, <2>5 DEF Saving
<1>15. CASE WriteSaved(w)
  <2>1. /\ At(w, "write saved") /\ job'[w].kind = "save" /\ job'[w].at = "save"
        /\ job'[w].todo = Rest(job[w]) /\ job[w].todo # {}
    BY <1>1, <1>4, <1>15, SavingStep DEF WriteSaved, At
  <2>2. Calc(w) \in Calcs /\ Rest(job[w]) = job[w].todo \ {Calc(w)}
    BY <2>1, CalcIs
  <2>3. \A t \in snapshot' : \E s \in snapshot :
          /\ t.done = s.done /\ t.parquet[Calc(w)] = parquet[Calc(w)]
          /\ \A c \in Calcs : c # Calc(w) => t.parquet[c] = s.parquet[c]
    BY <1>7, <1>15, <2>2 DEF WriteSaved, Snapshots
  <2>a. \A t \in snapshot' : t.done = {}
    BY <1>8, <2>1, <2>3 DEF Saved, At, Saving
  <2>b. \A s \in snapshot, c \in Calcs \ job[w].todo : s.parquet[c] = parquet[c]
    BY <1>8, <2>1 DEF Saved, At
  <2>c. \A t \in snapshot', c \in Calcs \ job'[w].todo : t.parquet[c] = parquet'[c]
    BY <1>2, <2>1, <2>2, <2>3, <2>b
  <2>4. Saved(w)' /\ \A t \in snapshot' : t.done = {}
    BY <2>1, <2>a, <2>c DEF Saved
  <2>5. ~Forget(w)
    BY <2>1 DEF Forget, At
  <2> QED BY <1>9, <1>11, <2>1, <2>4, <2>5 DEF Saving
<1>16. CASE EndSave(w)
  <2>1. At(w, "save") /\ job[w].todo = {} /\ job'[w].kind = "none" /\ job'[w].at = "idle"
    BY <1>6, <1>16 DEF EndSave
  <2>2. \A t \in snapshot' : \E s \in snapshot :
          t.done = done /\ t.seen = seen /\ t.parquet = s.parquet
    <3> SUFFICES ASSUME NEW t \in snapshot'
                 PROVE  \E s \in snapshot : t.done = done /\ t.seen = seen /\ t.parquet = s.parquet
      OBVIOUS
    <3>1. PICK s \in snapshot : t = [s EXCEPT !.done = done, !.seen = seen]
      BY <1>16 DEF EndSave
    <3> QED BY <1>7, <3>1 DEF Snapshots
  <2>3. \A s \in snapshot, c \in Calcs : s.parquet[c] = parquet[c]
    BY <1>8, <2>1 DEF Saved, At
  <2>4. ASSUME NEW c \in Calcs, Needed(c) \subseteq done PROVE FileProper(c)
    <3>1. Credited(w) = done
      BY <1>3 DEF Credited, Pipeline
    <3> QED BY <2>4, <3>1, Entered
  <2>5. SnapshotProper'
    BY <2>2, <2>3, <2>4 DEF SnapshotProper, FileProper, Proper
  <2>6. Saved(w)' /\ ~Forget(w)
    BY <2>1 DEF Saved, Saving, Forget, At
  <2> QED BY <1>11, <2>1, <2>5, <2>6
<1> QED BY <1>10, <1>12, <1>13, <1>14, <1>15, <1>16

\* Restoring one: until the last file is there nothing is called done, and then what
\* was done when it was saved.
LEMMA RestoreCredits ==
  ASSUME Regular, NEW w \in Workers, TheOne(w), Working(w), Credit(w), Kept(w),
         \/ RemoveBase(w) \/ CopyBase(w) \/ WriteBaseCopy(w) \/ RemoveResult(w)
         \/ CopyResult(w) \/ WriteCopy(w) \/ EndRestore(w)
  PROVE  Working(w)' /\ Credit(w)' /\ Kept(w)'
<1>1. job[w].at \in Copying
  BY DEF RemoveBase, CopyBase, WriteBaseCopy, RemoveResult, CopyResult, WriteCopy, EndRestore,
         At, Copying
<1>2. job[w].kind = "restore" /\ job[w] \in Jobs
  BY <1>1, CopyingStep
<1>3. Credited(w) = done /\ CutOff(w) = {}
  <2>1. job[w].at \notin Loading \cup Registering
    BY <1>1 DEF Copying, Loading, Registering
  <2> QED BY <1>2, <2>1, NothingCutOff DEF Credited, Pipeline
<1>4. ~Busy
  <2> SUFFICES ASSUME NEW v \in Workers, Pipeline(job[v].kind) PROVE FALSE
    BY DEF Busy
  <2> QED BY <1>2, OthersLoad, KindsDiffer
<1>5. UNCHANGED <<tables, snapshot, lost>> /\ SnapshotProper
  BY DEF RemoveBase, CopyBase, WriteBaseCopy, RemoveResult, CopyResult, WriteCopy, EndRestore, Kept
<1>6. ASSUME NEW step, Goto(w, step)
      PROVE  job'[w].kind = "restore" /\ job'[w].at = step /\ job'[w].todo = job[w].todo
  BY <1>2, <1>6, Went
<1>7. ASSUME NEW todo, Move(w, [job[w] EXCEPT !.at = "copy", !.todo = todo])
      PROVE  job'[w].kind = "restore" /\ job'[w].at = "copy" /\ job'[w].todo = todo
  <2>1. job'[w] = [job[w] EXCEPT !.at = "copy", !.todo = todo]
    BY <1>7, Moved DEF Regular
  <2> QED BY <1>2, <2>1 DEF Jobs
<1>8. ASSUME \A c \in Calcs : ~(Needed(c) \subseteq done'), job'[w].kind = "restore" PROVE Credit(w)'
  BY <1>8 DEF Credit, Credited, Pipeline
\* Steps that concern the base data only.
<1>9. ASSUME UNCHANGED <<parquet, done, seen>>, job'[w].kind \in {"restore", "none"},
             job'[w].at \in {"copy base", "write base copy", "remove", "idle"}
      PROVE  Working(w)' /\ Credit(w)' /\ Kept(w)'
  <2>1. Credited(w)' = Credited(w)
    BY <1>3, <1>9 DEF Credited, Pipeline
  <2>2. Credit(w)'
    BY <1>3, <1>5, <1>9, <2>1, CreditStays
  <2>3. Kept(w)'
    BY <1>5, <1>9, KeptStays DEF Saving, Replacing
  <2> QED BY <1>9, <2>2, <2>3 DEF Working, Pipeline
<1>10. CASE RemoveBase(w)
  <2>1. job'[w].kind = "restore" /\ job'[w].at = "copy base"
    BY <1>2, <1>10, RemoveBaseOthers DEF Alike
  <2> QED BY <1>9, <1>10, <2>1 DEF RemoveBase
<1>11. CASE CopyBase(w)
  <2>1. CASE Opening(w, {o \in Workers : HasBase(o)}, "write base copy")
    <3> DEFINE others == {o \in Workers : HasBase(o)}
    <3>1. Opening(w, others, "write base copy") /\ "write base copy" \in Copying
      BY <2>1 DEF Copying
    <3> HIDE DEF others
    <3>a. Alike(job[w], job'[w]) /\ job'[w].at = "write base copy"
      BY <3>1, Opened
    <3>2. job'[w].kind = "restore" /\ job'[w].at = "write base copy"
      BY <1>2, <3>a DEF Alike
    <3> QED BY <1>9, <1>11, <3>2 DEF CopyBase
  <2>2. CASE Move(w, Idle)
    <3>1. job'[w] = Idle
      BY <2>2, Moved DEF Regular
    <3>2. job'[w].kind = "none" /\ job'[w].at = "idle"
      BY <3>1 DEF Idle
    <3> QED BY <1>9, <1>11, <3>2 DEF CopyBase
  <2>3. CASE Goto(w, "remove")
    BY <1>6, <1>9, <1>11, <2>3 DEF CopyBase
  <2> QED BY <1>11, <2>1, <2>2, <2>3 DEF CopyBase
<1>12. CASE WriteBaseCopy(w)
  <2> DEFINE j == [job[w] EXCEPT !.at = "remove", !.fh = "alone"]
  <2>1. j.kind = "restore" /\ j.at = "remove"
    BY <1>2 DEF Jobs
  <2>2. job'[w] = j
    BY <1>12, Moved DEF WriteBaseCopy, Regular
  <2> HIDE DEF j
  <2>3. seen' = seen
    BY <1>4, <1>12 DEF WriteBaseCopy, BaseBecomes
  <2> QED BY <1>9, <1>12, <2>1, <2>2, <2>3 DEF WriteBaseCopy
<1>13. CASE RemoveResult(w)
  <2>1. CASE RemoveResult(w)!2!1
    <3>1. done' = {} /\ job' = job /\ At(w, "remove")
      BY <1>13, <2>1 DEF RemoveResult
    <3>2. \A c \in Calcs : ~(Needed(c) \subseteq done')
      BY <3>1, NeededIs
    <3>3. Kept(w)'
      BY <1>5, <3>1, KeptStays DEF At, Saving, Replacing
    <3> QED BY <1>2, <1>8, <3>1, <3>2, <3>3 DEF Working, Pipeline
  <2>2. CASE RemoveResult(w)!2!2
    <3>1. Filed = {} /\ UNCHANGED <<parquet, done>>
      BY <2>2
    <3>2. \A c \in Calcs : parquet[c] = Absent
      BY <3>1 DEF Filed
    <3>3. ASSUME NEW c \in Calcs, Needed(c) \subseteq done PROVE FALSE
      <4>1. parquet[c].state = "whole"
        BY <1>3, <3>3, Entered DEF FileProper
      <4> QED BY <3>2, <4>1 DEF Absent
    <3>4. PICK s \in snapshot :
            Move(w, [job[w] EXCEPT !.at = "copy", !.todo = {c \in Calcs : s.parquet[c] # Absent}])
      BY <2>2
    <3>5. job'[w].kind = "restore" /\ job'[w].at = "copy"
          /\ job'[w].todo = {c \in Calcs : s.parquet[c] # Absent}
      BY <1>7, <3>4
    <3>6. \A t \in snapshot : t = s
      BY DEF Regular, Holds
    <3>7. Copied(w)'
      BY <1>5, <3>1, <3>2, <3>3, <3>5, <3>6 DEF Copied
    <3>8. SnapshotProper' /\ Saved(w)' /\ Dropped(w)'
      BY <1>5, <3>5 DEF SnapshotProper, Saved, Dropped, Saving, At
    <3> QED BY <1>8, <3>1, <3>3, <3>5, <3>7, <3>8 DEF Kept, Working, Pipeline
  <2> QED BY <1>13, <2>1, <2>2 DEF RemoveResult
\* Steps that copy a result.
<1>14. ASSUME done' = done, job[w].at \in {"copy", "write copy"}, job'[w].kind = "restore",
              job'[w].at \in {"copy", "write copy"},
              \A s \in snapshot, c \in Calcs \ job'[w].todo : parquet'[c] = s.parquet[c]
       PROVE  Working(w)' /\ Credit(w)' /\ Kept(w)'
  <2>1. \A c \in Calcs : ~(Needed(c) \subseteq done')
    BY <1>14 DEF Kept, Copied
  <2>2. Copied(w)'
    BY <1>5, <1>14, <2>1 DEF Copied
  <2>3. SnapshotProper' /\ Saved(w)' /\ Dropped(w)'
    BY <1>5, <1>14 DEF SnapshotProper, Saved, Dropped, Saving, At
  <2> QED BY <1>8, <1>14, <2>1, <2>2, <2>3 DEF Kept, Working, Pipeline
<1>15. CASE CopyResult(w)
  <2>1. job[w].at = "copy" /\ job[w].todo # {} /\ done' = done
        /\ parquet' = [parquet EXCEPT ![Calc(w)] = Torn]
    BY <1>15 DEF CopyResult, At
  <2>2. job'[w].kind = "restore" /\ job'[w].at = "write copy" /\ job'[w].todo = job[w].todo
    BY <1>6, <1>15 DEF CopyResult
  <2>3. Calc(w) \in job[w].todo
    BY <2>1, CalcIs
  <2>4. \A c \in Calcs : c # Calc(w) => parquet'[c] = parquet[c]
    BY <2>1 DEF Regular, Holds
  <2>5. \A s \in snapshot, c \in Calcs \ job'[w].todo : parquet'[c] = s.parquet[c]
    BY <2>1, <2>2, <2>3, <2>4 DEF Kept, Copied
  <2> QED BY <1>14, <2>1, <2>2, <2>5
<1>16. CASE WriteCopy(w)
  <2>1. job[w].at = "write copy" /\ job[w].todo # {} /\ done' = done
    BY <1>1, <1>16, CopyingStep DEF WriteCopy, At
  <2>2. job'[w].kind = "restore" /\ job'[w].at = "copy" /\ job'[w].todo = Rest(job[w])
    BY <1>7, <1>16 DEF WriteCopy
  <2>3. Calc(w) \in Calcs /\ Rest(job[w]) = job[w].todo \ {Calc(w)}
    BY <2>1, CalcIs
  <2>4. PICK s \in snapshot : parquet' = [parquet EXCEPT ![Calc(w)] = s.parquet[Calc(w)]]
    BY <1>16 DEF WriteCopy
  <2>5. \A t \in snapshot : t = s
    BY DEF Regular, Holds
  <2>6. \A c \in Calcs : parquet'[c] = IF c = Calc(w) THEN s.parquet[c] ELSE parquet[c]
    BY <2>3, <2>4 DEF Regular, Holds
  <2>7. \A t \in snapshot, c \in Calcs \ job'[w].todo : parquet'[c] = t.parquet[c]
    BY <2>1, <2>2, <2>3, <2>5, <2>6 DEF Kept, Copied
  <2> QED BY <1>14, <2>1, <2>2, <2>7
<1>17. CASE EndRestore(w)
  <2>1. job[w].at = "copy" /\ job[w].todo = {} /\ parquet' = parquet
    BY <1>17 DEF EndRestore, At
  <2>2. job'[w].kind = "restore" /\ job'[w].at = "read csv"
    BY <1>6, <1>17 DEF EndRestore
  <2>3. PICK s \in snapshot : done' = s.done /\ seen' = s.seen
    BY <1>17 DEF EndRestore
  <2>4. \A c \in Calcs : parquet[c] = s.parquet[c]
    BY <2>1 DEF Kept, Copied
  <2>a. Filed' = Filed
    BY <2>1 DEF Filed
  <2>b. CutOff(w)' = Filed'
    BY <2>2 DEF CutOff, Registering, Replacing
  <2>c. Credited(w)' = done'
    BY <2>2 DEF Credited, Pipeline
  <2>5. CutOff(w)' = Filed /\ Credited(w)' = done'
    BY <2>a, <2>b, <2>c
  <2>6. Credit(w)'
    <3> SUFFICES ASSUME NEW c \in Calcs, Needed(c) \subseteq done' PROVE Standing(w, c)'
      BY <2>5 DEF Credit
    <3>1. s.parquet[c].state = "whole" /\ s.parquet[c].of # {} /\ s.parquet[c].of \subseteq s.seen
      BY <1>5, <2>3 DEF SnapshotProper
    <3>2. FileProper(c)'
      BY <2>1, <2>3, <2>4, <3>1 DEF FileProper, Proper
    <3>3. c \in Filed
      BY <2>4, <3>1 DEF Filed, Absent
    <3> QED BY <2>5, <3>2, <3>3 DEF Standing
  <2>7. Kept(w)'
    BY <1>5, <2>2, KeptStays DEF Saving, Replacing
  <2> QED BY <2>2, <2>6, <2>7 DEF Working, Pipeline
<1> QED BY <1>10, <1>11, <1>12, <1>13, <1>15, <1>16, <1>17

LEMMA CreditingKeeps == Regular /\ Crediting /\ [Next]_vars => Crediting'
<1> SUFFICES ASSUME Regular, Crediting, [Next]_vars, NEW w \in Workers, TheOne(w)'
             PROVE  Working(w)' /\ Credit(w)' /\ Kept(w)'
  BY DEF Crediting
<1>1. serves' = serves
  BY DEF Next, vars
<1>2. TheOne(w) /\ Working(w) /\ Credit(w) /\ Kept(w)
  BY <1>1 DEF TheOne, Crediting
<1>3. CASE UNCHANGED vars
  <2>1. Alike(job[w], job'[w]) /\ job' = job
    BY <1>3 DEF Alike, vars
  <2> QED BY <1>2, <1>3, <2>1, Unmoved DEF vars, Working
<1>4. ASSUME NEW v \in Workers, Steps(v) PROVE Working(w)' /\ Credit(w)' /\ Kept(w)'
  <2>1. CASE v # w
    BY <1>1, <1>2, <1>4, <2>1, OtherCredits
  <2>2. CASE v = w /\ Data(w)
    BY <1>2, <1>4, <2>2, LoadCredits, CreateViewCredits, SaveCredits, RestoreCredits DEF Data
  <2>3. CASE v = w /\ ~Data(w)
    BY <1>2, <1>4, <2>3, StartCredits, SelectCredits, DropWorks, DropRegisters, CreateCredits,
       CommitCredits, FetchCredits, OpenCredits, WriteCredits, AnswerCredits DEF Steps, Data
  <2> QED BY <2>1, <2>2, <2>3
<1>5. CASE Restart
  <2>1. job'[w].kind = "none" /\ job'[w].at = "idle"
    BY <1>5 DEF Restart, Idle
  <2>2. UNCHANGED <<tables, parquet, snapshot, seen>> /\ lost \subseteq lost' /\ CutOff(w) \subseteq lost'
    BY <1>5 DEF Restart
  <2>6. ASSUME NEW v \in Workers, v # w PROVE ~Pipeline(job[v].kind)
    BY <1>2, <2>6, JobIs DEF TheOne, Regularly, KindsOf, Pipeline
  <2>7. IF Pipeline(job[w].kind) THEN Executed = job[w].done ELSE Executed = {}
    BY <2>6 DEF Executed
  <2>3. Credited(w)' \subseteq Credited(w)
    <3>1. Credited(w)' = done \cup Executed
      BY <1>5, <2>1 DEF Restart, Credited, Pipeline
    <3> QED BY <1>2, <2>7, <3>1 DEF Credited, Working
  <2>4. Credit(w)'
    BY <1>2, <2>2, <2>3, CreditStays
  <2>5. Kept(w)'
    BY <1>2, <2>1, <2>2, KeptStays DEF Kept, Saving, Replacing
  <2> QED BY <2>1, <2>4, <2>5 DEF Working, Pipeline
<1> QED BY <1>3, <1>4, <1>5 DEF Next

LEMMA CreditingInvariant == Spec => [](Regular /\ Crediting)
<1>1. Init => Crediting
  <2> SUFFICES ASSUME Init, NEW w \in Workers PROVE Working(w) /\ Credit(w) /\ Kept(w)
    BY DEF Crediting
  <2>1. job[w].kind = "none" /\ job[w].at = "idle" /\ done = {} /\ snapshot = {}
    BY DEF Init, Idle
  <2>2. Credited(w) = {}
    BY <2>1 DEF Credited, Pipeline
  <2>3. Kept(w)
    BY <2>1 DEF Kept, Dropped, SnapshotProper, Saved, Copied, At, Saving
  <2> QED BY <2>1, <2>2, <2>3, NeededIs DEF Working, Pipeline, Credit
<1>2. Regular /\ Crediting /\ [Next]_vars => Crediting'
  BY CreditingKeeps
<1> QED BY RegularInit, RegularKeeps, <1>1, <1>2, PTL DEF Spec

\* With one pipeline or demo request at a time, over whatever DAG, and whatever
\* reloads, snapshots, demo steps and crashes there are: what counts as done, with
\* all that it needs, has a whole file of base data there was, and an entry with the
\* same rows, unless a crash came before the file was registered.
THEOREM DoneFresh == Spec => []DoneIsFresh
<1>1. Regular /\ Crediting => DoneIsFresh
  <2> SUFFICES ASSUME Regular, Crediting, OneAtATime, AtRest, NEW c \in Calcs, Needed(c) \subseteq done
               PROVE  /\ parquet[c].state = "whole"
                      /\ parquet[c].of # {} /\ parquet[c].of \subseteq seen
                      /\ c \notin lost => /\ Works(tables[c], parquet[c])
                                          /\ Rows(tables[c], parquet[c]) = parquet[c].of
    BY DEF DoneIsFresh
  <2>1. PICK w \in Workers : TheOne(w)
    BY DEF OneAtATime, TheOne
  <2>2. job[w] = Idle
    BY JobIs DEF AtRest, Regularly, At
  <2>3. Credited(w) = done /\ CutOff(w) = {}
    BY <2>2, NothingCutOff DEF Credited, Pipeline, Idle
  <2> QED BY <2>1, <2>3, Entered DEF Crediting, FileProper, Proper
<1> QED BY CreditingInvariant, <1>1, PTL
=============================================================================
