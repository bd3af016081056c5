--------------------------- MODULE AstHeapProofs ---------------------------
(***************************************************************************)
(* AstHeap's invariants, proved for every number of slots and NodeRcs.     *)
(***************************************************************************)
EXTENDS AstHeapInv, FiniteSetTheorems, SequenceTheorems, TLAPS

(* Node and element slots do not overlap, and neither is null.             *)
LEMMA SlotsDisjoint ==
  /\ Node \cap Elem = {}
  /\ Null \notin Obj
  /\ Node \subseteq Obj /\ Elem \subseteq Obj
  /\ Obj \subseteq Nat
BY BoundsAssumption DEF Node, Elem, Obj, Null

(* What setting the mark bit of a word in use does.                        *)
LEMMA MarkbitSet ==
  ASSUME NEW w \in {CtxId, CtxId + MarkBit}, NEW b \in BOOLEAN
  PROVE  /\ SetMarkbit(w, b) \in {CtxId, CtxId + MarkBit}
         /\ SetMarkbit(w, b) # Free
         /\ (SetMarkbit(w, b) >= MarkBit) = b
BY CtxIdAssumption DEF SetMarkbit, Free

(* A fresh entry is in use, and not marked.                                *)
LEMMA FreshIsUnmarked ==
  ASSUME markedBit \in BOOLEAN
  PROVE  /\ FreshWord \in {CtxId, CtxId + MarkBit}
         /\ FreshWord # Free
         /\ (FreshWord >= MarkBit) # markedBit
BY MarkbitSet DEF FreshWord

\* What the program can reach is among the slots.
LEMMA AccessibleAreSlots ==
  /\ Accessible \subseteq Obj
  /\ TypeOK => ListsInHand \subseteq Elem
<1>1. Accessible \subseteq Obj
  BY DEF Accessible
<1>2. ASSUME TypeOK PROVE ListsInHand \subseteq Elem
  BY <1>2 DEF TypeOK, ListsInHand, NonNull, Null
<1>. QED  BY <1>1, <1>2

-----------------------------------------------------------------------------
(* Type correctness.                                                       *)

\* A new Context has the types.
LEMMA TypeInit == Init => TypeOK
BY BoundsAssumption, CtxIdAssumption, SlotsDisjoint
   DEF Init, TypeOK, Null, Free

\* alloc takes a slot that is not live: the free list's last, or the next new one.
LEMMA AllocSlot ==
  ASSUME IInv, NEW k, NEW l, NEW a, Alloc(k, l, a)
  PROVE  /\ NodeSlot \in Node /\ ~Live(NodeSlot)
         /\ \/ /\ NodeSlot \in 1..numNodes
               /\ freeNodes # <<>>
               /\ freeNodes' = SubSeq(freeNodes, 1, Len(freeNodes) - 1)
               /\ UNCHANGED <<numNodes, count>>
            \/ /\ NodeSlot = numNodes + 1 /\ numNodes < MaxNodes
               /\ freeNodes = <<>>
               /\ numNodes' = NodeSlot
               /\ count' = [count EXCEPT ![NodeSlot] = 0]
               /\ UNCHANGED freeNodes
<1> USE DEF IInv
<1>1. CASE freeNodes # <<>>
  <2>1. Len(freeNodes) \in 1..Len(freeNodes)
    BY <1>1 DEF TypeOK
  <2>2. NodeSlot \in 1..numNodes /\ InSeq(NodeSlot, freeNodes)
    BY <1>1, <2>1 DEF NodeSlot, FreeListInv, InSeq
  <2>3. ~Live(NodeSlot)
    BY <2>2 DEF FreeListInv
  <2>4. NodeSlot \in Node
    BY <2>2, BoundsAssumption DEF TypeOK, Node
  <2>. QED  BY <1>1, <2>2, <2>3, <2>4 DEF Alloc
<1>2. CASE freeNodes = <<>>
  <2>1. NodeSlot = numNodes + 1 /\ numNodes < MaxNodes
    BY <1>2 DEF NodeSlot, Alloc
  <2>2. NodeSlot \in Node /\ NodeSlot \notin Pushed
    BY <2>1, BoundsAssumption DEF TypeOK, Node, Pushed
  <2>3. ~Live(NodeSlot)
    BY <2>2, SlotsDisjoint DEF FreeListInv, LiveObj
  <2>. QED  BY <1>2, <2>1, <2>2, <2>3 DEF Alloc
<1>. QED  BY <1>1, <1>2

\* append_list_element takes a slot that is not live, and not one of the unfinished list.
LEMMA AppendSlot ==
  ASSUME IInv, NEW n \in Node, AppendElement(n)
  PROVE  /\ ElemSlot \in Elem /\ ~Live(ElemSlot)
         /\ \/ /\ ElemSlot \in (MaxNodes + 1)..(MaxNodes + numElems)
               /\ freeElems # <<>>
               /\ freeElems' = SubSeq(freeElems, 1, Len(freeElems) - 1)
               /\ UNCHANGED numElems
            \/ /\ ElemSlot = MaxNodes + numElems + 1 /\ numElems < MaxElems
               /\ freeElems = <<>>
               /\ numElems' = numElems + 1
               /\ UNCHANGED freeElems
<1> USE DEF IInv
<1>1. CASE freeElems # <<>>
  <2>1. Len(freeElems) \in 1..Len(freeElems)
    BY <1>1 DEF TypeOK
  <2>2. /\ ElemSlot \in (MaxNodes + 1)..(MaxNodes + numElems)
        /\ InSeq(ElemSlot, freeElems)
    BY <1>1, <2>1 DEF ElemSlot, FreeListInv, InSeq
  <2>3. ~Live(ElemSlot)
    BY <2>2 DEF FreeListInv
  <2>4. ElemSlot \in Elem
    BY <2>2, BoundsAssumption DEF TypeOK, Elem
  <2>. QED  BY <1>1, <2>2, <2>3, <2>4 DEF AppendElement
<1>2. CASE freeElems = <<>>
  <2>1. ElemSlot = MaxNodes + numElems + 1 /\ numElems < MaxElems
    BY <1>2 DEF ElemSlot, AppendElement
  <2>2. ElemSlot \in Elem /\ ElemSlot \notin Pushed
    BY <2>1, BoundsAssumption DEF TypeOK, Elem, Pushed
  <2>3. ~Live(ElemSlot)
    BY <2>2, SlotsDisjoint DEF FreeListInv, LiveObj
  <2>. QED  BY <1>2, <2>1, <2>2, <2>3 DEF AppendElement
<1>. QED  BY <1>1, <1>2

\* alloc keeps the types.
LEMMA TypeAlloc ==
  ASSUME IInv, NEW k \in Node \cup {Null}, NEW l \in Elem \cup {Null},
         NEW a \in Elem \cup {Null}, Alloc(k, l, a)
  PROVE  TypeOK'
<1>t. TypeOK
  BY DEF IInv
<1> USE <1>t
<1>3. NodeSlot \in Node
  BY AllocSlot
<1>4. /\ word' = [word EXCEPT ![NodeSlot] = FreshWord]
      /\ kid' = [kid EXCEPT ![NodeSlot] = k]
      /\ list' = [list EXCEPT ![NodeSlot] = l]
      /\ attrs' = [attrs EXCEPT ![NodeSlot] = a]
      /\ held' = held \cup {NodeSlot}
      /\ UNCHANGED <<inner, next, numElems, freeElems, markedBit, rcTotal, rc,
                     building, ctxLive, lock, phase, cursor, marker>>
  BY DEF Alloc
<1>5. word' \in [Obj -> {Free, CtxId, CtxId + MarkBit}]
  BY <1>3, <1>4, FreshIsUnmarked, SlotsDisjoint DEF TypeOK
<1>6. /\ kid' \in [Node -> Node \cup {Null}]
      /\ list' \in [Node -> Elem \cup {Null}]
      /\ attrs' \in [Node -> Elem \cup {Null}]
      /\ held' \subseteq Obj
  BY <1>3, <1>4, SlotsDisjoint DEF TypeOK
<1>7. /\ count' \in [Node -> Nat]
      /\ numNodes' \in 0..MaxNodes
  <2>1. CASE UNCHANGED <<numNodes, count>>
    BY <2>1 DEF TypeOK
  <2>2. CASE /\ numNodes' = NodeSlot /\ NodeSlot = numNodes + 1
             /\ numNodes < MaxNodes
             /\ count' = [count EXCEPT ![NodeSlot] = 0]
    BY <1>3, <2>2, BoundsAssumption DEF TypeOK
  <2>. QED  BY <2>1, <2>2, AllocSlot
<1>8. freeNodes' \in Seq(Node)
  <2>1. freeNodes # <<>> => SubSeq(freeNodes, 1, Len(freeNodes) - 1) \in Seq(Node)
    BY DEF TypeOK
  <2>. QED  BY <2>1, AllocSlot DEF TypeOK
<1>. QED  BY <1>4, <1>5, <1>6, <1>7, <1>8 DEF TypeOK, marker

\* append_list_element keeps the types.
LEMMA TypeAppend ==
  ASSUME IInv, NEW n \in Node, AppendElement(n)
  PROVE  TypeOK'
<1>t. TypeOK
  BY DEF IInv
<1> USE <1>t
<1>1. ElemSlot \in Elem
  BY AppendSlot
<1>2. /\ word' = [word EXCEPT ![ElemSlot] = FreshWord]
      /\ inner' = [inner EXCEPT ![ElemSlot] = n]
      /\ next' = IF building = <<>>
                   THEN [next EXCEPT ![ElemSlot] = Null]
                   ELSE [next EXCEPT ![ElemSlot] = Null,
                                     ![building[Len(building)]] = ElemSlot]
      /\ building' = Append(building, ElemSlot)
      /\ UNCHANGED <<kid, list, attrs, numNodes, freeNodes, markedBit,
                     handleVars, held, ctxLive, lock, phase, cursor, marker>>
  BY DEF AppendElement
<1>3. numElems' \in 0..MaxElems
  BY AppendSlot, BoundsAssumption DEF TypeOK
<1>4. freeElems' \in Seq(Elem)
  <2>1. freeElems # <<>> => SubSeq(freeElems, 1, Len(freeElems) - 1) \in Seq(Elem)
    BY DEF TypeOK
  <2>. QED  BY <2>1, AppendSlot DEF TypeOK
<1>5. word' \in [Obj -> {Free, CtxId, CtxId + MarkBit}]
  BY <1>1, <1>2, FreshIsUnmarked, SlotsDisjoint DEF TypeOK
<1>6. inner' \in [Elem -> Node \cup {Null}]
  BY <1>1, <1>2 DEF TypeOK
<1>7. next' \in [Elem -> Elem \cup {Null}]
  <2>1. CASE building = <<>>
    BY <1>1, <1>2, <2>1 DEF TypeOK
  <2>2. CASE building # <<>>
    <3>1. building[Len(building)] \in Elem
      BY <2>2 DEF TypeOK
    <3>. QED  BY <1>1, <1>2, <2>2, <3>1 DEF TypeOK
  <2>. QED  BY <2>1, <2>2
<1>8. building' \in Seq(Elem)
  BY <1>1, <1>2 DEF TypeOK
<1>. QED
  BY <1>2, <1>3, <1>4, <1>5, <1>6, <1>7, <1>8 DEF TypeOK, marker, handleVars

\* The fields given to alloc are nodes and lists, and no Option<NodeList>.
LEMMA AllocNodeFields ==
  ASSUME IInv, AllocNode
  PROVE  \E k \in (Accessible \cap Node) \cup {Null},
            l \in ListsInHand \cup {Null}, a \in ListsInHand \cup {Null} :
           Alloc(k, l, a) /\ (~AttributeLists => a = Null)
BY DEF AllocNode

\* Every step keeps the types.
LEMMA TypeNext == IInv /\ [Next]_vars => TypeOK'
<1> SUFFICES ASSUME IInv, [Next]_vars PROVE TypeOK'
  OBVIOUS
<1>t. /\ TypeOK /\ CountsMatchHandles /\ ElementInv
      /\ phase = "mark" => MarkInv
      /\ phase \in {"sweepNodes", "sweepElements"} => SweepInv
  BY DEF IInv
<1> USE <1>t
<1> USE DEF content, storage, program, marker, handleVars, NonNull
<1>1. CASE AcquireLock
  BY <1>1 DEF AcquireLock, TypeOK
<1>2. CASE ReleaseLock
  BY <1>2 DEF ReleaseLock, TypeOK
<1>3. CASE AllocNode
  BY <1>3, TypeAlloc, AllocNodeFields, AccessibleAreSlots
<1>4. ASSUME NEW n \in Node, AppendElement(n) PROVE TypeOK'
  BY <1>4, TypeAppend
<1>5. CASE FinishList
  <2>1. building[1] \in Obj
    <3>1. building \in Seq(Elem) /\ building # <<>>
      BY <1>5 DEF FinishList, TypeOK
    <3>2. building[1] \in Elem
      BY <3>1
    <3>. QED  BY <3>2, SlotsDisjoint
  <2>. QED  BY <1>5, <2>1 DEF FinishList, TypeOK
<1>6. ASSUME NEW h \in Handles, NEW n \in Node, PointHandle(h, n) PROVE TypeOK'
  BY <1>6 DEF PointHandle, TypeOK
<1>6a. ASSUME NEW h \in Handles, NEW g \in Handles, CloneRc(h, g) PROVE TypeOK'
  <2>1. rc[g] \in Node /\ PointHandle(h, rc[g])
    BY <1>6a DEF CloneRc, TypeOK
  <2>. QED  BY <1>6, <2>1
<1>7. ASSUME NEW h \in Handles, DropRc(h) PROVE TypeOK'
  <2>1. rc[h] \in Node /\ rc[h] \in Obj
    BY <1>7, SlotsDisjoint DEF DropRc, TypeOK
  <2>2. count[rc[h]] - 1 \in Nat /\ rcTotal - 1 \in Nat
    <3>1. /\ IsFiniteSet({g \in Handles : rc[g] = rc[h]})
          /\ IsFiniteSet({g \in Handles : rc[g] # Null})
      BY BoundsAssumption, FS_Subset
    <3>2. /\ h \in {g \in Handles : rc[g] = rc[h]}
          /\ h \in {g \in Handles : rc[g] # Null}
      BY <1>7 DEF DropRc
    <3>3. /\ Cardinality({g \in Handles : rc[g] = rc[h]}) \in Nat \ {0}
          /\ Cardinality({g \in Handles : rc[g] # Null}) \in Nat \ {0}
      BY <3>1, <3>2, FS_CardinalityType, FS_EmptySet
    <3>4. /\ count[rc[h]] = Cardinality({g \in Handles : rc[g] = rc[h]})
          /\ rcTotal = Cardinality({g \in Handles : rc[g] # Null})
      BY <2>1 DEF CountsMatchHandles
    <3>. QED  BY <3>3, <3>4
  <2>3. count' \in [Node -> Nat] /\ rcTotal' \in Nat
    BY <1>7, <2>1, <2>2 DEF DropRc, TypeOK
  <2>4. rc' \in [Handles -> Node \cup {Null}] /\ held' \subseteq Obj
    BY <1>7, <2>1 DEF DropRc, TypeOK
  <2>. QED  BY <1>7, <2>3, <2>4 DEF DropRc, TypeOK
<1>8. CASE DropContext
  BY <1>8 DEF DropContext, TypeOK
<1>9. CASE BeginGc
  <2>1. pending' \subseteq Node
    BY <1>9, BoundsAssumption DEF BeginGc, TypeOK, Node
  <2>. QED  BY <1>9, <2>1 DEF BeginGc, TypeOK
<1>10. ASSUME NEW n \in Node, MarkNode(n) PROVE TypeOK'
  <2>1. word' \in [Obj -> {Free, CtxId, CtxId + MarkBit}]
    <3>1. Live(n)
      BY <1>10 DEF MarkNode, MarkInv, LiveObj
    <3>2. SetMarkbit(word[n], markedBit) \in {CtxId, CtxId + MarkBit}
      BY <3>1, MarkbitSet, SlotsDisjoint DEF TypeOK, Live
    <3>. QED  BY <1>10, <3>2 DEF MarkNode, TypeOK
  <2>2. pending' \subseteq Node /\ toMark' \subseteq Elem /\ toVisit' \subseteq Elem
    BY <1>10 DEF MarkNode, TypeOK
  <2>. QED  BY <1>10, <2>1, <2>2 DEF MarkNode, TypeOK
<1>11. ASSUME NEW e \in Elem, MarkElement(e) PROVE TypeOK'
  <2>1. word' \in [Obj -> {Free, CtxId, CtxId + MarkBit}]
    <3>1. Live(e)
      BY <1>11 DEF MarkElement, MarkInv, LiveObj
    <3>2. SetMarkbit(word[e], markedBit) \in {CtxId, CtxId + MarkBit}
      BY <3>1, MarkbitSet, SlotsDisjoint DEF TypeOK, Live
    <3>. QED  BY <1>11, <3>2 DEF MarkElement, TypeOK
  <2>2. toMark' \subseteq Elem
    BY <1>11 DEF MarkElement, TypeOK
  <2>. QED  BY <1>11, <2>1, <2>2 DEF MarkElement, TypeOK
<1>12. ASSUME NEW e \in Elem, VisitElement(e) PROVE TypeOK'
  <2>1. e \in LiveObj
    BY <1>12 DEF VisitElement, MarkInv
  <2>2. inner[e] \in Node
    BY <1>12, <2>1 DEF ElementInv
  <2>. QED  BY <1>12, <2>2 DEF VisitElement, TypeOK
<1>13. CASE EndMark
  BY <1>13 DEF EndMark, TypeOK
<1>14. CASE SweepNode
  <2>1. cursor \in Node
    BY <1>14, BoundsAssumption DEF SweepNode, TypeOK, Node
  <2>2. word' \in [Obj -> {Free, CtxId, CtxId + MarkBit}]
    BY <1>14 DEF SweepNode, TypeOK
  <2>3. freeNodes' \in Seq(Node)
    <3>1. freeNodes \in Seq(Node) /\ Append(freeNodes, cursor) \in Seq(Node)
      BY <2>1 DEF TypeOK
    <3>2. freeNodes' \in {freeNodes, Append(freeNodes, cursor)} /\ cursor' = cursor + 1
      BY <1>14 DEF SweepNode
    <3>. QED  BY <3>1, <3>2
  <2>4. cursor' \in Nat \ {0}
    BY <1>14 DEF SweepNode, TypeOK
  <2>. QED  BY <2>4, <1>14, <2>2, <2>3 DEF SweepNode, TypeOK
<1>15. CASE EndSweepNodes
  BY <1>15, BoundsAssumption DEF EndSweepNodes, TypeOK
<1>16. CASE SweepElement
  <2>1. cursor \in Elem
    BY <1>16, BoundsAssumption DEF SweepElement, SweepInv, TypeOK, Elem
  <2>2. word' \in [Obj -> {Free, CtxId, CtxId + MarkBit}]
    BY <1>16 DEF SweepElement, TypeOK
  <2>3. freeElems' \in Seq(Elem)
    <3>1. freeElems \in Seq(Elem) /\ Append(freeElems, cursor) \in Seq(Elem)
      BY <2>1 DEF TypeOK
    <3>2. freeElems' \in {freeElems, Append(freeElems, cursor)} /\ cursor' = cursor + 1
      BY <1>16 DEF SweepElement
    <3>. QED  BY <3>1, <3>2
  <2>4. cursor' \in Nat \ {0}
    BY <1>16 DEF SweepElement, TypeOK
  <2>. QED  BY <2>4, <1>16, <2>2, <2>3 DEF SweepElement, TypeOK
<1>17. CASE EndGc
  BY <1>17 DEF EndGc, TypeOK
<1>18. CASE UNCHANGED vars
  BY <1>18 DEF vars, TypeOK
<1>. QED
  BY <1>1, <1>2, <1>3, <1>4, <1>5, <1>6, <1>6a, <1>7, <1>8, <1>9, <1>10, <1>11,
     <1>12, <1>13, <1>14, <1>15, <1>16, <1>17, <1>18 DEF Next, GcStep, FromNode

-----------------------------------------------------------------------------
(* Reference counts.                                                       *)

(* Pointing a NodeRc that points nowhere at n adds one to n's NodeRcs.     *)
LEMMA CountAdded ==
  ASSUME TypeOK, NEW h \in Handles, NEW n \in Node, PointHandle(h, n)
  PROVE  /\ \A m \in Node : Cardinality({g \in Handles : rc'[g] = m}) =
              IF m = n THEN Cardinality({g \in Handles : rc[g] = m}) + 1
                       ELSE Cardinality({g \in Handles : rc[g] = m})
         /\ Cardinality({g \in Handles : rc'[g] # Null}) =
              Cardinality({g \in Handles : rc[g] # Null}) + 1
<1>1. rc[h] = Null /\ rc' = [rc EXCEPT ![h] = n] /\ rc \in [Handles -> Node \cup {Null}]
  BY DEF PointHandle, TypeOK
<1>2. n # Null /\ Null \notin Node
  BY SlotsDisjoint
<1>3. ASSUME NEW m \in Node
      PROVE  Cardinality({g \in Handles : rc'[g] = m}) =
               IF m = n THEN Cardinality({g \in Handles : rc[g] = m}) + 1
                        ELSE Cardinality({g \in Handles : rc[g] = m})
  <2>1. CASE m # n
    <3>1. {g \in Handles : rc'[g] = m} = {g \in Handles : rc[g] = m}
      BY <1>1, <1>2, <1>3, <2>1
    <3>2. Cardinality({g \in Handles : rc[g] = m}) \in Nat
      BY BoundsAssumption, FS_Subset, FS_CardinalityType
    <3>. QED  BY <2>1, <3>1, <3>2
  <2>2. CASE m = n
    <3>1. /\ {g \in Handles : rc'[g] = m} = {g \in Handles : rc[g] = m} \cup {h}
          /\ h \notin {g \in Handles : rc[g] = m}
      BY <1>1, <1>2, <2>2
    <3>2. IsFiniteSet({g \in Handles : rc[g] = m})
      BY BoundsAssumption, FS_Subset
    <3>. QED  BY <2>2, <3>1, <3>2, FS_AddElement
  <2>. QED  BY <2>1, <2>2
<1>4. Cardinality({g \in Handles : rc'[g] # Null}) =
        Cardinality({g \in Handles : rc[g] # Null}) + 1
  <2>1. /\ {g \in Handles : rc'[g] # Null} = {g \in Handles : rc[g] # Null} \cup {h}
        /\ h \notin {g \in Handles : rc[g] # Null}
    BY <1>1, <1>2
  <2>2. IsFiniteSet({g \in Handles : rc[g] # Null})
    BY BoundsAssumption, FS_Subset
  <2>. QED  BY <2>1, <2>2, FS_AddElement
<1>. QED  BY <1>3, <1>4

(* Dropping a NodeRc takes one from its node's NodeRcs.                    *)
LEMMA CountRemoved ==
  ASSUME TypeOK, NEW h \in Handles, DropRc(h)
  PROVE  /\ \A m \in Node : Cardinality({g \in Handles : rc'[g] = m}) =
              IF m = rc[h] THEN Cardinality({g \in Handles : rc[g] = m}) - 1
                           ELSE Cardinality({g \in Handles : rc[g] = m})
         /\ Cardinality({g \in Handles : rc'[g] # Null}) =
              Cardinality({g \in Handles : rc[g] # Null}) - 1
<1>1. rc[h] # Null /\ rc' = [rc EXCEPT ![h] = Null] /\ rc \in [Handles -> Node \cup {Null}]
  BY DEF DropRc, TypeOK
<1>2. Null \notin Node
  BY SlotsDisjoint
<1>3. ASSUME NEW m \in Node
      PROVE  Cardinality({g \in Handles : rc'[g] = m}) =
               IF m = rc[h] THEN Cardinality({g \in Handles : rc[g] = m}) - 1
                            ELSE Cardinality({g \in Handles : rc[g] = m})
  <2>1. CASE m # rc[h]
    <3>1. {g \in Handles : rc'[g] = m} = {g \in Handles : rc[g] = m}
      BY <1>1, <1>2, <1>3, <2>1
    <3>2. Cardinality({g \in Handles : rc[g] = m}) \in Nat
      BY BoundsAssumption, FS_Subset, FS_CardinalityType
    <3>. QED  BY <2>1, <3>1, <3>2
  <2>2. CASE m = rc[h]
    <3>1. /\ {g \in Handles : rc'[g] = m} = {g \in Handles : rc[g] = m} \ {h}
          /\ h \in {g \in Handles : rc[g] = m}
      BY <1>1, <1>2, <2>2
    <3>2. IsFiniteSet({g \in Handles : rc[g] = m})
      BY BoundsAssumption, FS_Subset
    <3>. QED  BY <2>2, <3>1, <3>2, FS_RemoveElement
  <2>. QED  BY <2>1, <2>2
<1>4. Cardinality({g \in Handles : rc'[g] # Null}) =
        Cardinality({g \in Handles : rc[g] # Null}) - 1
  <2>1. /\ {g \in Handles : rc'[g] # Null} = {g \in Handles : rc[g] # Null} \ {h}
        /\ h \in {g \in Handles : rc[g] # Null}
    BY <1>1, <1>2
  <2>2. IsFiniteSet({g \in Handles : rc[g] # Null})
    BY BoundsAssumption, FS_Subset
  <2>. QED  BY <2>1, <2>2, FS_RemoveElement
<1>. QED  BY <1>3, <1>4

(* An entry has a positive count exactly when a NodeRc points to it.       *)
LEMMA CountPositive ==
  ASSUME TypeOK, CountsMatchHandles, NEW n \in Node
  PROVE  count[n] > 0 <=> n \in Targets
<1>1. count[n] = Cardinality({h \in Handles : rc[h] = n})
  BY DEF CountsMatchHandles
<1>2. IsFiniteSet({h \in Handles : rc[h] = n})
  BY BoundsAssumption, FS_Subset
<1>3. /\ Cardinality({h \in Handles : rc[h] = n}) \in Nat
      /\ Cardinality({h \in Handles : rc[h] = n}) = 0 <=> {h \in Handles : rc[h] = n} = {}
  BY <1>2, FS_CardinalityType, FS_EmptySet
<1>4. n \in Targets <=> {h \in Handles : rc[h] = n} # {}
  BY SlotsDisjoint DEF Targets, NonNull
<1>. QED  BY <1>1, <1>3, <1>4

\* Every step keeps an entry's count equal to the number of NodeRcs to it.
LEMMA CountsNext == IInv /\ [Next]_vars => CountsMatchHandles'
<1> SUFFICES ASSUME IInv, [Next]_vars PROVE CountsMatchHandles'
  OBVIOUS
<1>t. TypeOK /\ CountsMatchHandles
  BY DEF IInv
<1>1. ASSUME NEW k, NEW l, NEW a, Alloc(k, l, a) PROVE CountsMatchHandles'
  <2>1. UNCHANGED <<rcTotal, rc>>
    BY <1>1 DEF Alloc
  <2>2. CASE UNCHANGED count
    BY <1>t, <2>1, <2>2 DEF CountsMatchHandles
  <2>3. CASE NodeSlot = numNodes + 1 /\ count' = [count EXCEPT ![NodeSlot] = 0]
    <3>1. ~Live(NodeSlot) /\ phase = "idle" /\ NodeSlot \in Node
      BY <1>1, AllocSlot DEF Alloc, Locked, Running
    <3>2. NodeSlot \notin Targets
      BY <3>1 DEF IInv, NoDanglingPointer, LiveObj
    <3>3. Cardinality({h \in Handles : rc[h] = NodeSlot}) = 0
      <4>1. {h \in Handles : rc[h] = NodeSlot} = {}
        BY <3>1, <3>2, SlotsDisjoint DEF Targets, NonNull
      <4>. QED  BY <4>1, FS_EmptySet
    <3>. QED  BY <1>t, <2>1, <2>3, <3>1, <3>3 DEF CountsMatchHandles, TypeOK
  <2>. QED  BY <1>1, <2>2, <2>3, AllocSlot
<1>2. ASSUME NEW h \in Handles, NEW n \in Node, PointHandle(h, n)
      PROVE  CountsMatchHandles'
  <2>1. count' = [count EXCEPT ![n] = @ + 1] /\ rcTotal' = rcTotal + 1
    BY <1>2 DEF PointHandle
  <2>2. rcTotal' = Cardinality({g \in Handles : rc'[g] # Null})
    BY <1>t, <1>2, <2>1, CountAdded DEF CountsMatchHandles
  <2>3. ASSUME NEW m \in Node
        PROVE  count'[m] = Cardinality({g \in Handles : rc'[g] = m})
    <3>1. count'[m] = IF m = n THEN count[m] + 1 ELSE count[m]
      BY <1>t, <2>1 DEF TypeOK
    <3>2. count[m] = Cardinality({g \in Handles : rc[g] = m})
      BY <1>t DEF CountsMatchHandles
    <3>. QED  BY <1>t, <1>2, <3>1, <3>2, CountAdded
  <2>. QED  BY <2>2, <2>3 DEF CountsMatchHandles
<1>3. ASSUME NEW h \in Handles, DropRc(h) PROVE CountsMatchHandles'
  <2>1. count' = [count EXCEPT ![rc[h]] = @ - 1] /\ rcTotal' = rcTotal - 1
        /\ rc[h] \in Node
    BY <1>t, <1>3 DEF DropRc, TypeOK
  <2>2. rcTotal' = Cardinality({g \in Handles : rc'[g] # Null})
    BY <1>t, <1>3, <2>1, CountRemoved DEF CountsMatchHandles
  <2>3. ASSUME NEW m \in Node
        PROVE  count'[m] = Cardinality({g \in Handles : rc'[g] = m})
    <3>1. count'[m] = IF m = rc[h] THEN count[m] - 1 ELSE count[m]
      BY <1>t, <2>1 DEF TypeOK
    <3>2. count[m] = Cardinality({g \in Handles : rc[g] = m})
      BY <1>t DEF CountsMatchHandles
    <3>. QED  BY <1>t, <1>3, <3>1, <3>2, CountRemoved
  <2>. QED  BY <2>2, <2>3 DEF CountsMatchHandles
<1>4. CASE UNCHANGED handleVars
  BY <1>t, <1>4 DEF CountsMatchHandles, handleVars
<1>5. \/ AllocNode
      \/ \E h \in Handles, n \in Node : PointHandle(h, n)
      \/ \E h \in Handles : DropRc(h)
      \/ UNCHANGED handleVars
  <2>1. ASSUME NEW h \in Handles, NEW g \in Handles, CloneRc(h, g)
        PROVE \E n \in Node : PointHandle(h, n)
    BY <1>t, <2>1 DEF CloneRc, TypeOK
  <2>. QED
    BY <2>1 DEF Next, vars, FromNode, AcquireLock, ReleaseLock, AppendElement,
       FinishList, DropContext, BeginGc, GcStep, MarkNode, MarkElement,
       VisitElement, EndMark, SweepNode, EndSweepNodes, SweepElement, EndGc
<1>. QED  BY <1>1, <1>2, <1>3, <1>4, <1>5, AllocNodeFields

-----------------------------------------------------------------------------
(* What the steps do to the sets of live and of marked objects.            *)

(* Allocation makes one free slot live, unmarked.                          *)
LEMMA FreshSlot ==
  ASSUME TypeOK, NEW o \in Obj, ~Live(o),
         word' = [word EXCEPT ![o] = FreshWord], UNCHANGED markedBit
  PROVE  /\ LiveObj' = LiveObj \cup {o}
         /\ MarkedObj' = MarkedObj
         /\ o \notin LiveObj
<1>1. /\ FreshWord # Free /\ (FreshWord >= MarkBit) # markedBit
  BY FreshIsUnmarked DEF TypeOK
<1>2. word'[o] = FreshWord /\ \A p \in Obj \ {o} : word'[p] = word[p]
  BY DEF TypeOK
<1>3. Live(o)' /\ ~Marked(o)'
  BY <1>1, <1>2 DEF Live, Marked
<1>4. \A p \in Obj \ {o} : (Live(p)' <=> Live(p)) /\ (Marked(p)' <=> Marked(p))
  BY <1>2 DEF Live, Marked
<1>5. LiveObj' = LiveObj \cup {o} /\ o \notin LiveObj
  BY <1>3, <1>4 DEF LiveObj
<1>. QED  BY <1>3, <1>4, <1>5 DEF MarkedObj, LiveObj

(* Marking an object keeps it live.                                        *)
LEMMA MarkSlot ==
  ASSUME TypeOK, NEW o \in LiveObj,
         word' = [word EXCEPT ![o] = SetMarkbit(@, markedBit)],
         UNCHANGED markedBit
  PROVE  LiveObj' = LiveObj /\ MarkedObj' = MarkedObj \cup {o}
<1>1. o \in Obj /\ word[o] \in {CtxId, CtxId + MarkBit}
  BY DEF LiveObj, Live, TypeOK
<1>2. /\ SetMarkbit(word[o], markedBit) # Free
      /\ (SetMarkbit(word[o], markedBit) >= MarkBit) = markedBit
  BY <1>1, MarkbitSet DEF TypeOK
<1>3. /\ word'[o] = SetMarkbit(word[o], markedBit)
      /\ \A p \in Obj \ {o} : word'[p] = word[p]
  BY <1>1 DEF TypeOK
<1>4. Live(o)' /\ Marked(o)'
  BY <1>2, <1>3 DEF Live, Marked
<1>5. \A p \in Obj \ {o} : (Live(p)' <=> Live(p)) /\ (Marked(p)' <=> Marked(p))
  BY <1>3 DEF Live, Marked
<1>6. LiveObj' = LiveObj
  BY <1>1, <1>4, <1>5 DEF LiveObj
<1>. QED  BY <1>1, <1>4, <1>5, <1>6 DEF MarkedObj, LiveObj

(* Freeing an unmarked object takes it from the live ones.                 *)
LEMMA FreeSlot ==
  ASSUME TypeOK, NEW o \in Obj, Live(o), ~Marked(o),
         word' = [word EXCEPT ![o] = Free], UNCHANGED markedBit
  PROVE  LiveObj' = LiveObj \ {o} /\ MarkedObj' = MarkedObj
<1>1. word'[o] = Free /\ \A p \in Obj \ {o} : word'[p] = word[p]
  BY DEF TypeOK
<1>2. ~Live(o)'
  BY <1>1 DEF Live
<1>3. \A p \in Obj \ {o} : (Live(p)' <=> Live(p)) /\ (Marked(p)' <=> Marked(p))
  BY <1>1 DEF Live, Marked
<1>4. LiveObj' = LiveObj \ {o}
  BY <1>2, <1>3 DEF LiveObj
<1>5. \A p \in LiveObj : p = o => ~Marked(p)
  OBVIOUS
<1>. QED  BY <1>3, <1>4, <1>5 DEF MarkedObj, LiveObj

\* A step that leaves the words alone leaves what is live and marked alone.
LEMMA SameSlots ==
  ASSUME UNCHANGED <<word, markedBit>>
  PROVE  LiveObj' = LiveObj /\ MarkedObj' = MarkedObj
BY DEF LiveObj, MarkedObj, Live, Marked

\* alloc makes one slot live, unmarked.
LEMMA AllocEffect ==
  ASSUME IInv, NEW k, NEW l, NEW a, Alloc(k, l, a)
  PROVE  /\ NodeSlot \in Node \ LiveObj
         /\ LiveObj' = LiveObj \cup {NodeSlot} /\ MarkedObj' = MarkedObj
<1>1. NodeSlot \in Node /\ NodeSlot \in Obj /\ ~Live(NodeSlot)
  BY AllocSlot, SlotsDisjoint
<1>2. word' = [word EXCEPT ![NodeSlot] = FreshWord] /\ UNCHANGED markedBit
  BY DEF Alloc
<1>3. TypeOK
  BY DEF IInv
<1>. QED  BY <1>1, <1>2, <1>3, FreshSlot

\* append_list_element makes one slot live, unmarked.
LEMMA AppendEffect ==
  ASSUME IInv, NEW n \in Node, AppendElement(n)
  PROVE  /\ ElemSlot \in Elem \ LiveObj
         /\ LiveObj' = LiveObj \cup {ElemSlot} /\ MarkedObj' = MarkedObj
<1>1. ElemSlot \in Elem /\ ElemSlot \in Obj /\ ~Live(ElemSlot)
  BY AppendSlot, SlotsDisjoint
<1>2. word' = [word EXCEPT ![ElemSlot] = FreshWord] /\ UNCHANGED markedBit
  BY DEF AppendElement
<1>3. TypeOK
  BY DEF IInv
<1>. QED  BY <1>1, <1>2, <1>3, FreshSlot

\* Marking a node frees nothing and marks at most that node.
LEMMA MarkNodeEffect ==
  ASSUME IInv, NEW n \in Node, MarkNode(n)
  PROVE  /\ LiveObj' = LiveObj /\ n \in LiveObj
         /\ MarkedObj' = MarkedObj \cup {n}
<1>1. n \in LiveObj /\ TypeOK /\ UNCHANGED markedBit
  BY DEF IInv, MarkInv, MarkNode
<1>2. CASE Marked(n)
  BY <1>1, <1>2, SameSlots DEF MarkNode, MarkedObj
<1>3. CASE ~Marked(n)
  BY <1>1, <1>3, MarkSlot DEF MarkNode
<1>. QED  BY <1>2, <1>3

\* Marking an element frees nothing and marks that element.
LEMMA MarkElementEffect ==
  ASSUME IInv, NEW e \in Elem, MarkElement(e)
  PROVE  /\ LiveObj' = LiveObj /\ e \in LiveObj
         /\ MarkedObj' = MarkedObj \cup {e}
BY MarkSlot DEF IInv, MarkInv, MarkElement

\* The sweep of the nodes frees at most the node at the cursor, unmarked.
LEMMA SweepNodeEffect ==
  ASSUME IInv, SweepNode
  PROVE  /\ cursor \in 1..numNodes /\ cursor \in Node
         /\ MarkedObj' = MarkedObj
         /\ \/ /\ ~Live(cursor) \/ cursor \in MarkedObj
               /\ LiveObj' = LiveObj
               /\ UNCHANGED <<word, freeNodes>>
            \/ /\ Live(cursor) /\ LiveObj' = LiveObj \ {cursor}
               /\ word' = [word EXCEPT ![cursor] = Free]
               /\ freeNodes' = Append(freeNodes, cursor)
<1>1. TypeOK /\ CountsMatchHandles /\ SweepInv
  BY DEF IInv, SweepNode
<1>2. cursor \in 1..numNodes
  BY <1>1 DEF SweepNode, TypeOK
<1>3. cursor \in Node /\ cursor \in Obj
  BY <1>1, <1>2, BoundsAssumption, SlotsDisjoint DEF TypeOK, Node
<1>4. UNCHANGED markedBit
  BY DEF SweepNode
<1>5. CASE ~Live(cursor) \/ Kept(cursor)
  <2>1. UNCHANGED <<word, freeNodes>>
    BY <1>5 DEF SweepNode
  <2>2. ~Live(cursor) \/ cursor \in MarkedObj
    <3>1. CASE count[cursor] > 0
      BY <1>1, <1>3, <3>1, CountPositive DEF SweepInv
    <3>. QED  BY <1>3, <1>5, <3>1 DEF Kept, MarkedObj, LiveObj
  <2>. QED  BY <1>2, <1>3, <1>4, <2>1, <2>2, SameSlots
<1>6. CASE Live(cursor) /\ ~Kept(cursor)
  <2>1. /\ word' = [word EXCEPT ![cursor] = Free]
        /\ freeNodes' = Append(freeNodes, cursor)
    BY <1>6 DEF SweepNode
  <2>2. ~Marked(cursor)
    BY <1>6 DEF Kept
  <2>. QED  BY <1>1, <1>2, <1>3, <1>4, <1>6, <2>1, <2>2, FreeSlot
<1>. QED  BY <1>5, <1>6

\* The sweep of the elements frees at most the one at the cursor, unmarked.
LEMMA SweepElementEffect ==
  ASSUME IInv, SweepElement
  PROVE  /\ cursor \in (MaxNodes + 1)..(MaxNodes + numElems) /\ cursor \in Elem
         /\ MarkedObj' = MarkedObj
         /\ \/ /\ ~Live(cursor) \/ cursor \in MarkedObj
               /\ LiveObj' = LiveObj
               /\ UNCHANGED <<word, freeElems>>
            \/ /\ Live(cursor) /\ LiveObj' = LiveObj \ {cursor}
               /\ word' = [word EXCEPT ![cursor] = Free]
               /\ freeElems' = Append(freeElems, cursor)
<1>1. TypeOK /\ SweepInv
  BY DEF IInv, SweepElement
<1>2. cursor \in (MaxNodes + 1)..(MaxNodes + numElems)
  BY <1>1, BoundsAssumption DEF SweepElement, SweepInv, TypeOK
<1>3. cursor \in Elem /\ cursor \in Obj
  BY <1>1, <1>2, BoundsAssumption, SlotsDisjoint DEF TypeOK, Elem
<1>4. UNCHANGED markedBit
  BY DEF SweepElement
<1>5. CASE ~Live(cursor) \/ Marked(cursor)
  <2>1. UNCHANGED <<word, freeElems>>
    BY <1>5 DEF SweepElement
  <2>. QED  BY <1>2, <1>3, <1>4, <1>5, <2>1, SameSlots DEF MarkedObj, LiveObj
<1>6. CASE Live(cursor) /\ ~Marked(cursor)
  <2>1. /\ word' = [word EXCEPT ![cursor] = Free]
        /\ freeElems' = Append(freeElems, cursor)
    BY <1>6 DEF SweepElement
  <2>. QED  BY <1>1, <1>2, <1>3, <1>4, <1>6, <2>1, FreeSlot
<1>. QED  BY <1>5, <1>6

-----------------------------------------------------------------------------
(* Free lists.                                                             *)

\* A free list: each free slot of the range once, and nothing else.
FreeListOf(s, slots) ==
  /\ \A o \in slots : ~Live(o) <=> InSeq(o, s)
  /\ \A i \in 1..Len(s) : s[i] \in slots
  /\ NoDuplicates(s)

NodeSlots == 1..numNodes
ElemSlots == (MaxNodes + 1)..(MaxNodes + numElems)

\* The free lists' invariant, one list at a time.
LEMMA FreeListParts ==
  FreeListInv <=> /\ LiveObj \subseteq NodeSlots \cup ElemSlots
                  /\ FreeListOf(freeNodes, NodeSlots)
                  /\ FreeListOf(freeElems, ElemSlots)
BY DEF FreeListInv, FreeListOf, NodeSlots, ElemSlots, Pushed

\* A sequence without its last element.
LEMMA FrontOf ==
  ASSUME NEW T, NEW s \in Seq(T), s # <<>>
  PROVE  /\ Len(s) \in Nat \ {0}
         /\ Len(SubSeq(s, 1, Len(s) - 1)) = Len(s) - 1
         /\ \A i \in 1..(Len(s) - 1) : SubSeq(s, 1, Len(s) - 1)[i] = s[i]
<1> DEFINE t == SubSeq(s, 1, Len(s) - 1)
<1>1. Len(s) \in Nat \ {0}
  OBVIOUS
<1>2. /\ \A i \in 1..(Len(s) - 1) : s[i] \in T
      /\ Len(s) - 1 \in Int /\ 1 \in Int
  BY <1>1
<1>3. /\ Len(t) = IF 1 <= Len(s) - 1 THEN Len(s) - 1 - 1 + 1 ELSE 0
      /\ \A i \in 1..(Len(s) - 1 - 1 + 1) : t[i] = s[1 + i - 1]
  BY <1>2, SubSeqProperties
<1> HIDE DEF t
<1>4. Len(t) = Len(s) - 1
  <2>1. \A L \in Nat \ {0} : L - 1 = IF 1 <= L - 1 THEN L - 1 - 1 + 1 ELSE 0
    OBVIOUS
  <2>. QED  BY <1>1, <1>3, <2>1, Zenon
<1>5. ASSUME NEW i \in 1..(Len(s) - 1) PROVE t[i] = s[i]
  <2>1. i \in 1..(Len(s) - 1 - 1 + 1) /\ 1 + i - 1 = i
    BY <1>1
  <2>. QED  BY <1>3, <2>1
<1>. QED  BY <1>1, <1>4, <1>5 DEF t

\* Without its last element, a list without duplicates holds everything but that.
LEMMA PopLast ==
  ASSUME NEW s, NEW t, NoDuplicates(s), Len(s) \in Nat \ {0},
         Len(t) = Len(s) - 1, \A i \in 1..(Len(s) - 1) : t[i] = s[i]
  PROVE  /\ \A y : InSeq(y, t) <=> InSeq(y, s) /\ y # s[Len(s)]
         /\ NoDuplicates(t)
         /\ \A i \in 1..Len(t) : \E j \in 1..Len(s) : t[i] = s[j]
<1>1. Len(s) \in Nat \ {0}
  OBVIOUS
<1>2. Len(t) = Len(s) - 1 /\ \A i \in 1..Len(t) : i \in 1..Len(s) /\ t[i] = s[i]
  BY <1>1
<1>3. NoDuplicates(t)
  BY <1>2 DEF NoDuplicates
<1>4. ASSUME NEW y PROVE InSeq(y, t) <=> InSeq(y, s) /\ y # s[Len(s)]
  <2>1. ASSUME InSeq(y, t) PROVE InSeq(y, s) /\ y # s[Len(s)]
    <3>1. PICK i \in 1..Len(t) : t[i] = y
      BY <2>1 DEF InSeq
    <3>2. i \in 1..Len(s) /\ s[i] = y /\ i # Len(s) /\ Len(s) \in 1..Len(s)
      BY <1>1, <1>2, <3>1
    <3>. QED  BY <3>2 DEF InSeq, NoDuplicates
  <2>2. ASSUME InSeq(y, s), y # s[Len(s)] PROVE InSeq(y, t)
    <3>1. PICK i \in 1..Len(s) : s[i] = y
      BY <2>2 DEF InSeq
    <3>2. i \in 1..Len(t)
      BY <1>1, <1>2, <2>2, <3>1
    <3>. QED  BY <1>2, <3>1, <3>2 DEF InSeq
  <2>. QED  BY <2>1, <2>2
<1>. QED  BY <1>2, <1>3, <1>4

\* With a new element at its end, a list without duplicates has none either.
LEMMA PushLast ==
  ASSUME NEW s, NEW t, NEW x, ~InSeq(x, s), NoDuplicates(s),
         Len(s) \in Nat, Len(t) = Len(s) + 1, t[Len(t)] = x,
         \A i \in 1..Len(s) : t[i] = s[i]
  PROVE  /\ \A y : InSeq(y, t) <=> InSeq(y, s) \/ y = x
         /\ NoDuplicates(t)
         /\ \A i \in 1..Len(t) : t[i] = x \/ \E j \in 1..Len(s) : t[i] = s[j]
<1>1. Len(s) \in Nat
  OBVIOUS
<1>2. /\ Len(t) = Len(s) + 1 /\ t[Len(t)] = x
      /\ \A i \in 1..Len(s) : t[i] = s[i]
  OBVIOUS
<1>3. ASSUME NEW y PROVE InSeq(y, t) <=> InSeq(y, s) \/ y = x
  <2>1. ASSUME InSeq(y, t) PROVE InSeq(y, s) \/ y = x
    <3>1. PICK i \in 1..Len(t) : t[i] = y
      BY <2>1 DEF InSeq
    <3>2. i = Len(t) \/ i \in 1..Len(s)
      BY <1>1, <1>2, <3>1
    <3>. QED  BY <1>2, <3>1, <3>2 DEF InSeq
  <2>2. ASSUME InSeq(y, s) PROVE InSeq(y, t)
    <3>1. PICK i \in 1..Len(s) : s[i] = y
      BY <2>2 DEF InSeq
    <3>2. i \in 1..Len(t)
      BY <1>1, <1>2, <3>1
    <3>. QED  BY <1>2, <3>1, <3>2 DEF InSeq
  <2>3. Len(t) \in 1..Len(t)
    BY <1>1, <1>2
  <2>4. InSeq(x, t)
    BY <1>2, <2>3 DEF InSeq
  <2>. QED  BY <2>1, <2>2, <2>4
<1>4. NoDuplicates(t)
  <2>1. SUFFICES ASSUME NEW i \in 1..Len(t), NEW j \in 1..Len(t), t[i] = t[j]
                 PROVE  i = j
    BY DEF NoDuplicates
  <2>2. /\ i = Len(t) \/ i \in 1..Len(s)
        /\ j = Len(t) \/ j \in 1..Len(s)
    BY <1>1, <1>2
  <2>. QED  BY <1>2, <2>1, <2>2 DEF InSeq, NoDuplicates
<1>5. \A i \in 1..Len(t) : i = Len(t) \/ i \in 1..Len(s)
  BY <1>1, <1>2
<1>. QED  BY <1>2, <1>3, <1>4, <1>5

\* A list of free slots depends only on which of its slots are live.
LEMMA FreeListSame ==
  ASSUME NEW s, NEW slots \in SUBSET Obj, FreeListOf(s, slots),
         \A o \in slots : Live(o)' <=> Live(o)
  PROVE  /\ \A o \in slots : ~Live(o)' <=> InSeq(o, s)
         /\ \A i \in 1..Len(s) : s[i] \in slots
         /\ NoDuplicates(s)
BY DEF FreeListOf

\* The pushed nodes and the pushed elements are apart.
LEMMA SlotRanges ==
  ASSUME TypeOK
  PROVE  NodeSlots \subseteq Node /\ ElemSlots \subseteq Elem
BY BoundsAssumption DEF TypeOK, NodeSlots, ElemSlots, Node, Elem

\* Popping a slot and making it live leaves an exact free list.
LEMMA FreeListPop ==
  ASSUME NEW T, NEW s \in Seq(T), NEW slots, FreeListOf(s, slots), s # <<>>,
         NEW t, t = SubSeq(s, 1, Len(s) - 1),
         \A o \in slots : Live(o)' <=> Live(o) \/ o = s[Len(s)]
  PROVE  /\ \A o \in slots : ~Live(o)' <=> InSeq(o, t)
         /\ \A i \in 1..Len(t) : t[i] \in slots
         /\ NoDuplicates(t)
<1>1. NoDuplicates(s)
  BY DEF FreeListOf
<1>2. /\ \A y : InSeq(y, t) <=> InSeq(y, s) /\ y # s[Len(s)]
      /\ NoDuplicates(t)
      /\ \A i \in 1..Len(t) : \E j \in 1..Len(s) : t[i] = s[j]
  <2>1. /\ Len(s) \in Nat \ {0} /\ Len(t) = Len(s) - 1
        /\ \A i \in 1..(Len(s) - 1) : t[i] = s[i]
    BY FrontOf
  <2>. QED  BY ONLY <1>1, <2>1, PopLast
<1>. QED  BY <1>2 DEF FreeListOf

\* s with x pushed onto it.
IsPush(t, s, x) == t = Append(s, x)

\* Freeing a live slot and pushing it leaves an exact free list.
LEMMA FreeListPush ==
  ASSUME NEW T, NEW s \in Seq(T), NEW slots, FreeListOf(s, slots),
         NEW x \in T, x \in slots, Live(x), NEW t, IsPush(t, s, x),
         \A o \in slots : Live(o)' <=> Live(o) /\ o # x
  PROVE  /\ \A o \in slots : ~Live(o)' <=> InSeq(o, t)
         /\ \A i \in 1..Len(t) : t[i] \in slots
         /\ NoDuplicates(t)
<1>1. ~InSeq(x, s) /\ NoDuplicates(s)
  BY DEF FreeListOf
<1>2. /\ \A y : InSeq(y, t) <=> InSeq(y, s) \/ y = x
      /\ NoDuplicates(t)
      /\ \A i \in 1..Len(t) : t[i] = x \/ \E j \in 1..Len(s) : t[i] = s[j]
  <2>1. /\ Len(s) \in Nat /\ Len(t) = Len(s) + 1 /\ t[Len(t)] = x
        /\ \A i \in 1..Len(s) : t[i] = s[i]
    BY DEF IsPush
  <2>. QED  BY ONLY <1>1, <2>1, PushLast
<1>. QED  BY <1>2 DEF FreeListOf

\* A slot that is pushed to the Deque is live.
LEMMA FreeListGrow ==
  ASSUME NEW s, NEW slots, FreeListOf(s, slots), NEW x, x \notin slots,
         Live(x)', \A o \in slots : Live(o)' <=> Live(o)
  PROVE  /\ \A o \in slots \cup {x} : ~Live(o)' <=> InSeq(o, s)
         /\ \A i \in 1..Len(s) : s[i] \in slots \cup {x}
         /\ NoDuplicates(s)
BY DEF FreeListOf, InSeq

\* Being live is being in the set of live slots.
LEMMA LiveSet ==
  ASSUME NEW o \in Obj
  PROVE  (Live(o) <=> o \in LiveObj) /\ (Live(o)' <=> o \in LiveObj')
BY DEF LiveObj

\* Every step keeps the free lists exact.
LEMMA FreeListNext == IInv /\ [Next]_vars => FreeListInv'
<1> SUFFICES ASSUME IInv, [Next]_vars PROVE FreeListInv'
  OBVIOUS
<1>t. TypeOK /\ FreeListInv
  BY DEF IInv
<1>f. /\ LiveObj \subseteq NodeSlots \cup ElemSlots
      /\ FreeListOf(freeNodes, NodeSlots)
      /\ FreeListOf(freeElems, ElemSlots)
  BY <1>t, FreeListParts
<1>s. NodeSlots \subseteq Node /\ ElemSlots \subseteq Elem
  BY <1>t, SlotRanges
<1>1. ASSUME NEW k, NEW l, NEW a, Alloc(k, l, a) PROVE FreeListInv'
  <2>1. /\ NodeSlot \in Node \ LiveObj /\ LiveObj' = LiveObj \cup {NodeSlot}
    BY <1>1, AllocEffect
  <2>2. UNCHANGED <<numElems, freeElems>> /\ ElemSlots' = ElemSlots
    BY <1>1 DEF Alloc, ElemSlots
  <2>3. \A o \in ElemSlots : Live(o)' <=> Live(o)
    BY <1>s, <2>1, LiveSet, SlotsDisjoint
  <2>4. FreeListOf(freeElems, ElemSlots)'
    BY <1>f, <1>s, <2>2, <2>3, FreeListSame, SlotsDisjoint DEF FreeListOf
  <2>5. CASE /\ NodeSlot \in 1..numNodes /\ freeNodes # <<>>
             /\ freeNodes' = SubSeq(freeNodes, 1, Len(freeNodes) - 1)
             /\ UNCHANGED <<numNodes, count>>
    <3>1. NodeSlots' = NodeSlots /\ NodeSlot \in NodeSlots
      BY <2>5 DEF NodeSlots
    <3>2. NodeSlot = freeNodes[Len(freeNodes)]
      BY <2>5 DEF NodeSlot
    <3>3. \A o \in NodeSlots : Live(o)' <=> Live(o) \/ o = freeNodes[Len(freeNodes)]
      BY <1>s, <2>1, <3>2, LiveSet, SlotsDisjoint
    <3>4. freeNodes \in Seq(Node)
      BY <1>t DEF TypeOK
    <3>5. FreeListOf(freeNodes, NodeSlots)'
      BY <1>f, <2>5, <3>1, <3>3, <3>4, FreeListPop DEF FreeListOf
    <3>6. LiveObj' \subseteq (NodeSlots \cup ElemSlots)'
      BY <1>f, <2>1, <2>2, <3>1
    <3>. QED  BY <2>4, <3>5, <3>6
      DEF FreeListInv, FreeListOf, NodeSlots, ElemSlots, Pushed
  <2>6. CASE /\ NodeSlot = numNodes + 1 /\ numNodes < MaxNodes
             /\ freeNodes = <<>> /\ numNodes' = NodeSlot
             /\ UNCHANGED freeNodes
    <3>1. /\ NodeSlots' = NodeSlots \cup {NodeSlot}
          /\ NodeSlot \notin NodeSlots
      BY <1>t, <2>6, BoundsAssumption DEF NodeSlots, TypeOK
    <3>2. /\ \A o \in NodeSlots : Live(o)' <=> Live(o)
          /\ NodeSlot \in LiveObj' /\ NodeSlot \in Obj
      BY <1>s, <2>1, <3>1, LiveSet, SlotsDisjoint
    <3>. DEFINE x == NodeSlot
    <3>3. x \in NodeSlots' /\ \A o \in NodeSlots' : o \in NodeSlots \/ o = NodeSlot
      BY <3>1
    <3>4. \A o \in NodeSlots' : ~Live(o)' <=> InSeq(o, freeNodes)
      <4>1. \A o \in Obj : Live(o)' <=> o \in LiveObj'
        BY LiveSet
      <4>2. ~InSeq(NodeSlot, freeNodes)
        BY <2>6 DEF InSeq
      <4>. QED  BY <1>f, <3>2, <3>3, <4>1, <4>2 DEF FreeListOf
    <3>5. FreeListOf(freeNodes, NodeSlots)'
      BY <1>f, <2>6, <3>1, <3>4 DEF FreeListOf
    <3>6. LiveObj' \subseteq (NodeSlots \cup ElemSlots)'
      BY <1>f, <2>1, <2>2, <3>1
    <3>. QED  BY <2>4, <3>5, <3>6
      DEF FreeListInv, FreeListOf, NodeSlots, ElemSlots, Pushed
  <2>. QED  BY <1>1, <2>5, <2>6, AllocSlot
<1>2. ASSUME NEW n \in Node, AppendElement(n) PROVE FreeListInv'
  <2>1. ElemSlot \in Elem \ LiveObj /\ LiveObj' = LiveObj \cup {ElemSlot}
    BY <1>2, AppendEffect
  <2>2. UNCHANGED <<numNodes, freeNodes>> /\ NodeSlots' = NodeSlots
    BY <1>2 DEF AppendElement, NodeSlots
  <2>3. \A o \in NodeSlots : Live(o)' <=> Live(o)
    BY <1>s, <2>1, LiveSet, SlotsDisjoint
  <2>4. FreeListOf(freeNodes, NodeSlots)'
    BY <1>f, <1>s, <2>2, <2>3, FreeListSame, SlotsDisjoint DEF FreeListOf
  <2>5. CASE /\ ElemSlot \in (MaxNodes + 1)..(MaxNodes + numElems)
             /\ freeElems # <<>>
             /\ freeElems' = SubSeq(freeElems, 1, Len(freeElems) - 1)
             /\ UNCHANGED numElems
    <3>1. ElemSlots' = ElemSlots /\ ElemSlot \in ElemSlots
      BY <2>5 DEF ElemSlots
    <3>2. ElemSlot = freeElems[Len(freeElems)]
      BY <2>5 DEF ElemSlot
    <3>3. \A o \in ElemSlots : Live(o)' <=> Live(o) \/ o = freeElems[Len(freeElems)]
      BY <1>s, <2>1, <3>2, LiveSet, SlotsDisjoint
    <3>4. freeElems \in Seq(Elem)
      BY <1>t DEF TypeOK
    <3>5. FreeListOf(freeElems, ElemSlots)'
      <4>1. /\ \A o \in ElemSlots : ~Live(o)' <=> InSeq(o, freeElems')
            /\ \A i \in 1..Len(freeElems') : freeElems'[i] \in ElemSlots
            /\ NoDuplicates(freeElems')
        BY ONLY <1>f, <2>5, <3>3, <3>4, FreeListPop
      <4>. QED  BY <3>1, <4>1 DEF FreeListOf
    <3>6. LiveObj' \subseteq (NodeSlots \cup ElemSlots)'
      BY <1>f, <2>1, <2>2, <3>1
    <3>. QED  BY <2>4, <3>5, <3>6
      DEF FreeListInv, FreeListOf, NodeSlots, ElemSlots, Pushed
  <2>6. CASE /\ ElemSlot = MaxNodes + numElems + 1 /\ numElems < MaxElems
             /\ freeElems = <<>> /\ numElems' = numElems + 1
             /\ UNCHANGED freeElems
    <3>1. /\ ElemSlots' = ElemSlots \cup {ElemSlot}
          /\ ElemSlot \notin ElemSlots
      <4>1. numElems \in Nat /\ MaxNodes \in Nat
        BY <1>t, BoundsAssumption DEF TypeOK
      <4>. QED  BY <2>6, <4>1 DEF ElemSlots
    <3>2. /\ \A o \in ElemSlots : Live(o)' <=> Live(o)
          /\ ElemSlot \in LiveObj' /\ ElemSlot \in Obj
      BY <1>s, <2>1, <3>1, LiveSet, SlotsDisjoint
    <3>3. \A o \in ElemSlots' : o \in ElemSlots \/ o = ElemSlot
      BY <3>1
    <3>4. \A o \in ElemSlots' : ~Live(o)' <=> InSeq(o, freeElems)
      <4>1. \A o \in Obj : Live(o)' <=> o \in LiveObj'
        BY LiveSet
      <4>2. ~InSeq(ElemSlot, freeElems)
        BY <2>6 DEF InSeq
      <4>. QED  BY <1>f, <3>2, <3>3, <4>1, <4>2 DEF FreeListOf
    <3>5. FreeListOf(freeElems, ElemSlots)'
      BY <1>f, <2>6, <3>1, <3>4 DEF FreeListOf
    <3>6. LiveObj' \subseteq (NodeSlots \cup ElemSlots)'
      BY <1>f, <2>1, <2>2, <3>1
    <3>. QED  BY <2>4, <3>5, <3>6
      DEF FreeListInv, FreeListOf, NodeSlots, ElemSlots, Pushed
  <2>. QED  BY <1>2, <2>5, <2>6, AppendSlot
<1>3. ASSUME LiveObj' = LiveObj, UNCHANGED storage PROVE FreeListInv'
  <2>1. \A o \in Obj : Live(o)' <=> Live(o)
    BY <1>3, LiveSet
  <2>2. NodeSlots' = NodeSlots /\ ElemSlots' = ElemSlots
        /\ UNCHANGED <<freeNodes, freeElems>>
    BY <1>3 DEF storage, NodeSlots, ElemSlots
  <2>3. FreeListOf(freeNodes, NodeSlots)' /\ FreeListOf(freeElems, ElemSlots)'
    BY <1>f, <1>s, <2>1, <2>2, SlotsDisjoint DEF FreeListOf
  <2>4. LiveObj' \subseteq (NodeSlots \cup ElemSlots)'
    BY <1>3, <1>f, <2>2
  <2>. QED  BY <2>3, <2>4
    DEF FreeListInv, FreeListOf, NodeSlots, ElemSlots, Pushed
<1>4. ASSUME SweepNode, Live(cursor), LiveObj' = LiveObj \ {cursor},
             cursor \in 1..numNodes, cursor \in Node,
             freeNodes' = Append(freeNodes, cursor)
      PROVE  FreeListInv'
  <2>1. NodeSlots' = NodeSlots /\ ElemSlots' = ElemSlots /\ UNCHANGED freeElems
    BY <1>4 DEF SweepNode, NodeSlots, ElemSlots
  <2>2. \A o \in NodeSlots \cup ElemSlots : Live(o)' <=> Live(o) /\ o # cursor
    BY <1>4, <1>s, LiveSet, SlotsDisjoint
  <2>3. freeNodes \in Seq(Node) /\ cursor \in NodeSlots /\ cursor \notin ElemSlots
    BY <1>4, <1>s, <1>t, SlotsDisjoint DEF TypeOK, NodeSlots
  <2>4. FreeListOf(freeNodes, NodeSlots)'
    <3>1. \A o \in NodeSlots : Live(o)' <=> Live(o) /\ o # cursor
      BY <2>2
    <3>2. /\ \A o \in NodeSlots : ~Live(o)' <=> InSeq(o, freeNodes')
          /\ \A i \in 1..Len(freeNodes') : freeNodes'[i] \in NodeSlots
          /\ NoDuplicates(freeNodes')
      <4>1. /\ freeNodes \in Seq(Node) /\ FreeListOf(freeNodes, NodeSlots)
            /\ cursor \in Node /\ cursor \in NodeSlots /\ Live(cursor)
            /\ IsPush(freeNodes', freeNodes, cursor)
        BY <1>4, <1>f, <2>3 DEF IsPush
      <4>. QED  BY ONLY <3>1, <4>1, FreeListPush
    <3>. QED  BY <2>1, <3>2 DEF FreeListOf
  <2>5. FreeListOf(freeElems, ElemSlots)'
    BY <1>f, <2>1, <2>2, <2>3 DEF FreeListOf
  <2>6. LiveObj' \subseteq (NodeSlots \cup ElemSlots)'
    BY <1>4, <1>f, <2>1
  <2>. QED  BY <2>4, <2>5, <2>6
    DEF FreeListInv, FreeListOf, NodeSlots, ElemSlots, Pushed
<1>5. ASSUME SweepElement, Live(cursor), LiveObj' = LiveObj \ {cursor},
             cursor \in (MaxNodes + 1)..(MaxNodes + numElems), cursor \in Elem,
             freeElems' = Append(freeElems, cursor)
      PROVE  FreeListInv'
  <2>1. NodeSlots' = NodeSlots /\ ElemSlots' = ElemSlots /\ UNCHANGED freeNodes
    BY <1>5 DEF SweepElement, NodeSlots, ElemSlots
  <2>2. \A o \in NodeSlots \cup ElemSlots : Live(o)' <=> Live(o) /\ o # cursor
    BY <1>5, <1>s, LiveSet, SlotsDisjoint
  <2>3. freeElems \in Seq(Elem) /\ cursor \in ElemSlots /\ cursor \notin NodeSlots
    BY <1>5, <1>s, <1>t, SlotsDisjoint DEF TypeOK, ElemSlots
  <2>4. FreeListOf(freeElems, ElemSlots)'
    <3>1. \A o \in ElemSlots : Live(o)' <=> Live(o) /\ o # cursor
      BY <2>2
    <3>2. /\ \A o \in ElemSlots : ~Live(o)' <=> InSeq(o, freeElems')
          /\ \A i \in 1..Len(freeElems') : freeElems'[i] \in ElemSlots
          /\ NoDuplicates(freeElems')
      <4>1. /\ freeElems \in Seq(Elem) /\ FreeListOf(freeElems, ElemSlots)
            /\ cursor \in Elem /\ cursor \in ElemSlots /\ Live(cursor)
            /\ IsPush(freeElems', freeElems, cursor)
        BY <1>5, <1>f, <2>3 DEF IsPush
      <4>. QED  BY ONLY <3>1, <4>1, FreeListPush
    <3>. QED  BY <2>1, <3>2 DEF FreeListOf
  <2>5. FreeListOf(freeNodes, NodeSlots)'
    BY <1>f, <2>1, <2>2, <2>3 DEF FreeListOf
  <2>6. LiveObj' \subseteq (NodeSlots \cup ElemSlots)'
    BY <1>5, <1>f, <2>1
  <2>. QED  BY <2>4, <2>5, <2>6
    DEF FreeListInv, FreeListOf, NodeSlots, ElemSlots, Pushed
<1>6. CASE SweepNode
  BY <1>3, <1>4, <1>6, SweepNodeEffect DEF SweepNode, storage
<1>7. CASE SweepElement
  BY <1>3, <1>5, <1>7, SweepElementEffect DEF SweepElement, storage
<1>8. ASSUME NEW n \in Node, MarkNode(n) PROVE FreeListInv'
  BY <1>3, <1>8, MarkNodeEffect DEF MarkNode
<1>9. ASSUME NEW e \in Elem, MarkElement(e) PROVE FreeListInv'
  BY <1>3, <1>9, MarkElementEffect DEF MarkElement
<1>10. CASE UNCHANGED <<word, storage>>
  BY <1>3, <1>10 DEF LiveObj, Live
<1>11. \/ AllocNode \/ \E n \in Node : AppendElement(n)
       \/ SweepNode \/ SweepElement
       \/ \E n \in Node : MarkNode(n)
       \/ \E e \in Elem : MarkElement(e)
       \/ UNCHANGED <<word, storage>>
  BY DEF Next, vars, FromNode, CloneRc, PointHandle, DropRc, AcquireLock,
     ReleaseLock, FinishList, DropContext, BeginGc, GcStep, VisitElement,
     EndMark, EndSweepNodes, EndGc
<1>. QED
  BY <1>1, <1>2, <1>6, <1>7, <1>8, <1>9, <1>10, <1>11, AllocNodeFields

-----------------------------------------------------------------------------

-----------------------------------------------------------------------------
(* The rest of the inductive invariant: the lock, the lists under          *)
(* construction, and what the collector's two phases establish.            *)

(* The lock and the phases of a collection exclude one another.            *)
LEMMA LockNext == IInv /\ [Next]_vars => LockInv'
<1> SUFFICES ASSUME IInv, [Next]_vars PROVE LockInv'
  OBVIOUS
<1>t. LockInv /\ building \in Seq(Elem)
  BY DEF IInv, TypeOK
<1> USE <1>t DEF LockInv, program, marker, handleVars, Running, Locked
<1>1. CASE AcquireLock
  BY <1>1 DEF AcquireLock
<1>2. CASE ReleaseLock
  BY <1>2 DEF ReleaseLock
<1>3. ASSUME NEW k, NEW l, NEW a, Alloc(k, l, a) PROVE LockInv'
  BY <1>3 DEF Alloc
<1>4. ASSUME NEW n \in Node, AppendElement(n) PROVE LockInv'
  BY <1>4 DEF AppendElement
<1>5. CASE FinishList
  BY <1>5 DEF FinishList
<1>6. ASSUME NEW h \in Handles, NEW n \in Node, FromNode(h, n) PROVE LockInv'
  BY <1>6 DEF FromNode, PointHandle
<1>7. ASSUME NEW h \in Handles, NEW g \in Handles, CloneRc(h, g) PROVE LockInv'
  BY <1>7 DEF CloneRc, PointHandle
<1>8. ASSUME NEW h \in Handles, DropRc(h) PROVE LockInv'
  BY <1>8 DEF DropRc
<1>9. CASE DropContext
  BY <1>9 DEF DropContext
<1>10. CASE BeginGc
  BY <1>10 DEF BeginGc
<1>11. ASSUME NEW n \in Node, MarkNode(n) PROVE LockInv'
  BY <1>11 DEF MarkNode
<1>12. ASSUME NEW e \in Elem, MarkElement(e) PROVE LockInv'
  BY <1>12 DEF MarkElement
<1>13. ASSUME NEW e \in Elem, VisitElement(e) PROVE LockInv'
  BY <1>13 DEF VisitElement
<1>14. CASE EndMark
  BY <1>14 DEF EndMark
<1>15. CASE SweepNode
  BY <1>15 DEF SweepNode
<1>16. CASE EndSweepNodes
  BY <1>16 DEF EndSweepNodes
<1>17. CASE SweepElement
  BY <1>17 DEF SweepElement
<1>18. CASE EndGc
  BY <1>18 DEF EndGc
<1>19. CASE UNCHANGED vars
  BY <1>19 DEF vars
<1>. QED
  BY <1>1, <1>2, <1>3, <1>4, <1>5, <1>6, <1>7, <1>8, <1>9, <1>10, <1>11, <1>12,
     <1>13, <1>14, <1>15, <1>16, <1>17, <1>18, <1>19, AllocNodeFields
  DEF Next, GcStep

(* Only allocation writes an Option<NodeList>.                             *)
LEMMA NoAttributeListsNext ==
  ASSUME AttributeLists = FALSE
  PROVE  IInv /\ [Next]_vars => NoAttributeLists'
<1> SUFFICES ASSUME IInv, [Next]_vars PROVE NoAttributeLists'
  OBVIOUS
<1>t. NoAttributeLists /\ attrs \in [Node -> Elem \cup {Null}]
  BY DEF IInv, TypeOK
<1>1. ASSUME NEW k, NEW l, Alloc(k, l, Null) PROVE NoAttributeLists'
  <2>1. attrs' = [attrs EXCEPT ![NodeSlot] = Null]
    BY <1>1 DEF Alloc
  <2>. QED  BY <1>t, <2>1 DEF NoAttributeLists
<1>2. CASE UNCHANGED attrs
  BY <1>t, <1>2 DEF NoAttributeLists
<1>3. AllocNode \/ UNCHANGED attrs
  BY DEF Next, vars, content, FromNode, CloneRc, PointHandle, DropRc,
     AcquireLock, ReleaseLock, AppendElement, FinishList, DropContext, BeginGc,
     GcStep, MarkNode, MarkElement, VisitElement, EndMark, SweepNode,
     EndSweepNodes, SweepElement, EndGc
<1>. QED  BY <1>1, <1>2, <1>3, AllocNodeFields

(* Every step either is one of these or leaves content and live objects.   *)
LEMMA StepsByEffect ==
  ASSUME IInv, [Next]_vars
  PROVE  \/ AllocNode
         \/ \E n \in Node : AppendElement(n)
         \/ SweepNode \/ SweepElement
         \/ LiveObj' = LiveObj /\ UNCHANGED content
<1>1. ASSUME NEW n \in Node, MarkNode(n)
      PROVE  LiveObj' = LiveObj /\ UNCHANGED content
  BY <1>1, MarkNodeEffect DEF MarkNode
<1>2. ASSUME NEW e \in Elem, MarkElement(e)
      PROVE  LiveObj' = LiveObj /\ UNCHANGED content
  BY <1>2, MarkElementEffect DEF MarkElement
<1>3. ASSUME UNCHANGED <<word, content>>
      PROVE  LiveObj' = LiveObj /\ UNCHANGED content
  BY <1>3 DEF LiveObj, Live
<1>4. \/ AllocNode \/ \E n \in Node : AppendElement(n)
      \/ SweepNode \/ SweepElement
      \/ \E n \in Node : MarkNode(n)
      \/ \E e \in Elem : MarkElement(e)
      \/ UNCHANGED <<word, content>>
  BY DEF Next, vars, FromNode, CloneRc, PointHandle, DropRc, AcquireLock,
     ReleaseLock, FinishList, DropContext, BeginGc, GcStep, VisitElement,
     EndMark, EndSweepNodes, EndGc
<1>. QED  BY <1>1, <1>2, <1>3, <1>4

(* An element is live only when its node was written.                      *)
LEMMA ElementNext == IInv /\ [Next]_vars => ElementInv'
<1> SUFFICES ASSUME IInv, [Next]_vars PROVE ElementInv'
  OBVIOUS
<1>t. ElementInv /\ TypeOK
  BY DEF IInv
<1>1. ASSUME NEW k, NEW l, NEW a, Alloc(k, l, a) PROVE ElementInv'
  <2>1. LiveObj' \cap Elem = LiveObj \cap Elem
    BY <1>1, AllocEffect, SlotsDisjoint
  <2>. QED  BY <1>t, <1>1, <2>1 DEF ElementInv, Alloc
<1>2. ASSUME NEW n \in Node, AppendElement(n) PROVE ElementInv'
  <2>1. LiveObj' = LiveObj \cup {ElemSlot} /\ ElemSlot \in Elem
    BY <1>2, AppendEffect
  <2>2. inner' = [inner EXCEPT ![ElemSlot] = n] /\ inner \in [Elem -> Node \cup {Null}]
    BY <1>t, <1>2 DEF AppendElement, TypeOK
  <2>. QED  BY <1>t, <2>1, <2>2 DEF ElementInv
<1>3. ASSUME SweepNode PROVE LiveObj' \subseteq LiveObj /\ UNCHANGED content
  BY <1>3, SweepNodeEffect DEF SweepNode
<1>4. ASSUME SweepElement PROVE LiveObj' \subseteq LiveObj /\ UNCHANGED content
  BY <1>4, SweepElementEffect DEF SweepElement
<1>5. ASSUME LiveObj' \subseteq LiveObj, UNCHANGED content PROVE ElementInv'
  BY <1>t, <1>5 DEF ElementInv, content
<1>. QED
  BY <1>1, <1>2, <1>3, <1>4, <1>5, StepsByEffect, AllocNodeFields

(* No step but an append writes to the list under construction.            *)
LEMMA BuildingNext == IInv /\ [Next]_vars => BuildingInv'
<1> SUFFICES ASSUME IInv, [Next]_vars PROVE BuildingInv'
  OBVIOUS
<1>t. BuildingInv /\ TypeOK /\ LockInv
  BY DEF IInv
<1>1. ASSUME building' = <<>> PROVE BuildingInv'
  BY <1>1 DEF BuildingInv
<1>2. ASSUME UNCHANGED <<building, next>>, LiveObj \subseteq LiveObj' PROVE BuildingInv'
  <2>1. \A i \in 1..Len(building) : building[i] \in LiveObj
    <3>1. \A i \in 1..Len(building) : building[i] \in Elem
      BY <1>t DEF TypeOK
    <3>. QED  BY <1>t, <3>1, SlotsDisjoint DEF BuildingInv, LiveObj
  <2>2. \A i \in 1..Len(building) : Live(building[i])'
    <3>1. \A o \in LiveObj' : Live(o)'
      BY DEF LiveObj
    <3>. QED  BY <1>2, <2>1, <3>1
  <2>. QED  BY <1>t, <1>2, <2>2 DEF BuildingInv
<1>3. ASSUME NEW n \in Node, AppendElement(n) PROVE BuildingInv'
  <2>1. /\ ElemSlot \in Elem /\ ElemSlot \notin LiveObj
        /\ LiveObj' = LiveObj \cup {ElemSlot}
    BY <1>3, AppendEffect
  <2>2. /\ building' = Append(building, ElemSlot)
        /\ next' = IF building = <<>>
                     THEN [next EXCEPT ![ElemSlot] = Null]
                     ELSE [next EXCEPT ![ElemSlot] = Null,
                                       ![building[Len(building)]] = ElemSlot]
    BY <1>3 DEF AppendElement
  <2>3. \A i \in 1..Len(building) : building[i] \in LiveObj
    <3>1. \A i \in 1..Len(building) : building[i] \in Elem
      BY <1>t DEF TypeOK
    <3>. QED  BY <1>t, <3>1, SlotsDisjoint DEF BuildingInv, LiveObj
  <2>4. building \in Seq(Elem) /\ next \in [Elem -> Elem \cup {Null}]
    BY <1>t DEF TypeOK
  <2>5. /\ Len(building') = Len(building) + 1
        /\ building'[Len(building')] = ElemSlot
        /\ \A i \in 1..Len(building) : building'[i] = building[i]
        /\ Len(building) \in Nat
    BY <2>1, <2>2, <2>4
  <2>6. \A i \in 1..Len(building') : building'[i] \in LiveObj'
    BY <2>1, <2>3, <2>5
  <2>7. next'[ElemSlot] = Null
    <3>1. CASE building = <<>>
      BY <2>1, <2>2, <2>4, <3>1
    <3>2. CASE building # <<>>
      <4>1. Len(building) \in 1..Len(building)
        BY <2>4, <3>2
      <4>2. building[Len(building)] # ElemSlot
        BY <2>1, <2>3, <4>1
      <4>. QED  BY <2>1, <2>2, <2>4, <3>2, <4>2
    <3>. QED  BY <3>1, <3>2
  <2>8. \A o \in LiveObj' : Live(o)'
    BY DEF LiveObj
  <2>. QED  BY <2>5, <2>6, <2>7, <2>8 DEF BuildingInv
<1>4. CASE phase # "idle"
  <2>1. building = <<>>
    BY <1>t, <1>4 DEF LockInv
  <2>2. UNCHANGED building
    BY <1>4 DEF Next, vars, program, AcquireLock, ReleaseLock, AllocNode, Alloc,
      AppendElement, FinishList, FromNode, CloneRc, DropRc, DropContext,
      BeginGc, Running, Locked, GcStep, MarkNode, MarkElement, VisitElement,
      EndMark, SweepNode, EndSweepNodes, SweepElement, EndGc
  <2>. QED  BY <1>1, <2>1, <2>2
<1>5. CASE phase = "idle"
  <2>1. ASSUME NEW k, NEW l, NEW a, Alloc(k, l, a) PROVE BuildingInv'
    BY <1>2, <2>1, AllocEffect DEF Alloc
  <2>2. ASSUME UNCHANGED <<building, next, word>> PROVE BuildingInv'
    BY <1>2, <2>2 DEF LiveObj, Live
  <2>3. \/ AllocNode \/ \E n \in Node : AppendElement(n)
        \/ building' = <<>>
        \/ UNCHANGED <<building, next, word>>
    BY <1>5 DEF Next, vars, content, program, AcquireLock, ReleaseLock,
      FinishList, FromNode, CloneRc, PointHandle, DropRc, DropContext,
      BeginGc, GcStep, MarkNode, MarkElement, VisitElement,
      EndMark, SweepNode, EndSweepNodes, SweepElement, EndGc
  <2>. QED  BY <1>1, <1>3, <2>1, <2>2, <2>3, AllocNodeFields
<1>. QED  BY <1>4, <1>5

(* Once the elements are swept, all that is live is marked.                *)
LEMMA SweptAll ==
  ASSUME IInv, EndGc
  PROVE  LiveObj = MarkedObj /\ Targets \subseteq LiveObj /\ Closed(LiveObj)
<1>1. /\ SweepInv /\ FreeListInv /\ TypeOK
      /\ phase = "sweepElements" /\ cursor = MaxNodes + numElems + 1
  BY DEF IInv, EndGc
<1>2. LiveObj \cap (1..(cursor - 1)) \subseteq MarkedObj
  BY <1>1 DEF SweepInv
<1>3. Pushed \subseteq 1..(cursor - 1)
  BY <1>1, BoundsAssumption DEF Pushed, TypeOK
<1>4. LiveObj = MarkedObj
  BY <1>1, <1>2, <1>3 DEF FreeListInv, MarkedObj
<1>. QED  BY <1>1, <1>4 DEF SweepInv

(* The flip of the mark bit unmarks what the collection has marked.        *)
LEMMA NoStaleMarkNext == IInv /\ [Next]_vars => NoStaleMark'
<1> SUFFICES ASSUME IInv, [Next]_vars PROVE NoStaleMark'
  OBVIOUS
<1>t. TypeOK /\ NoStaleMark
  BY DEF IInv
<1>1. ASSUME phase = "idle", MarkedObj' = MarkedObj PROVE NoStaleMark'
  <2>1. MarkedObj = {}
    BY <1>t, <1>1 DEF NoStaleMark, MarkedObj
  <2>. QED  BY <1>1, <2>1 DEF NoStaleMark, MarkedObj
<1>2. CASE EndGc
  <2>1. LiveObj = MarkedObj
    BY <1>2, SweptAll
  <2>2. \A o \in LiveObj : Marked(o)
    BY <2>1 DEF MarkedObj
  <2>3. LiveObj' = LiveObj /\ \A o \in Obj : Marked(o)' <=> ~Marked(o)
    BY <1>t, <1>2 DEF EndGc, LiveObj, Live, Marked, TypeOK
  <2>. QED  BY <2>2, <2>3 DEF NoStaleMark, LiveObj
<1>3. ASSUME NEW k, NEW l, NEW a, Alloc(k, l, a) PROVE NoStaleMark'
  BY <1>1, <1>3, AllocEffect DEF Alloc, Locked, Running
<1>4. ASSUME NEW n \in Node, AppendElement(n) PROVE NoStaleMark'
  BY <1>1, <1>4, AppendEffect DEF AppendElement, Locked, Running
<1>5. CASE phase = "idle" /\ UNCHANGED <<word, markedBit>>
  BY <1>1, <1>5, SameSlots
<1>6. CASE phase' # "idle"
  BY <1>6 DEF NoStaleMark
<1>7. \/ AllocNode \/ \E n \in Node : AppendElement(n)
      \/ EndGc
      \/ phase = "idle" /\ UNCHANGED <<word, markedBit>>
      \/ phase' # "idle"
  BY DEF Next, vars, AcquireLock, ReleaseLock, FinishList, FromNode, CloneRc,
    PointHandle, DropRc, DropContext, BeginGc, Running, Locked, GcStep,
    MarkNode, MarkElement, VisitElement, EndMark, SweepNode, EndSweepNodes,
    SweepElement
<1>. QED  BY <1>2, <1>3, <1>4, <1>5, <1>6, <1>7, AllocNodeFields

-----------------------------------------------------------------------------
(* Nothing dangles between collections.                                    *)

(* What the program can reach under the lock is live.                      *)
LEMMA AccessibleAreLive ==
  ASSUME TypeOK, NoDanglingPointer, phase = "idle"
  PROVE  /\ Accessible \subseteq LiveObj
         /\ ListsInHand \subseteq LiveObj
<1>1. Targets \cup held \subseteq LiveObj /\ Closed(LiveObj) /\ LiveObj \in SUBSET Obj
  BY DEF NoDanglingPointer, LiveObj
<1>2. Accessible \subseteq LiveObj
  BY <1>1 DEF Accessible
<1>3. ASSUME NEW n \in Accessible \cap Node
      PROVE  NonNull({list[n], attrs[n]}) \subseteq LiveObj
  BY <1>1, <1>2 DEF Closed, Points, NonNull
<1>4. ListsInHand \subseteq LiveObj
  BY <1>1, <1>3 DEF ListsInHand, NonNull
<1>. QED  BY <1>2, <1>4

(* The pointers of every object but o are left alone.                      *)
LEMMA ClosedGrown ==
  ASSUME Closed(LiveObj), NEW o, LiveObj' = LiveObj \cup {o},
         \A p \in LiveObj : Points(p)' \subseteq Points(p) \cup {o},
         Points(o)' \subseteq LiveObj'
  PROVE  Closed(LiveObj)'
BY DEF Closed

\* Every step leaves live what the program and live objects point to.
LEMMA NoDanglingNext == IInv /\ [Next]_vars => NoDanglingPointer'
<1> SUFFICES ASSUME IInv, [Next]_vars, phase' = "idle" PROVE NoDanglingPointer'
  BY DEF NoDanglingPointer
<1>t. TypeOK /\ NoDanglingPointer /\ LockInv /\ BuildingInv
  BY DEF IInv
<1>d. ASSUME phase = "idle"
      PROVE  /\ Targets \subseteq LiveObj /\ held \subseteq LiveObj
             /\ Drafted \subseteq LiveObj /\ Closed(LiveObj)
  BY <1>t, <1>d DEF NoDanglingPointer
<1>1. CASE EndGc
  <2>1. /\ Targets \subseteq LiveObj /\ Closed(LiveObj)
        /\ held = {} /\ building = <<>>
    BY <1>t, <1>1, SweptAll DEF EndGc, LockInv
  <2>2. LiveObj' = LiveObj /\ Targets' = Targets /\ held' = {} /\ building' = <<>>
    BY <1>1, <2>1 DEF EndGc, LiveObj, Live, Targets, NonNull, handleVars, program
  <2>3. Closed(LiveObj)'
    BY <1>1, <2>1, <2>2 DEF EndGc, Closed, Points, NonNull, content
  <2>4. Drafted' = {}
    BY <2>2 DEF Drafted
  <2>. QED  BY <2>1, <2>2, <2>3, <2>4 DEF NoDanglingPointer
<1>2. ASSUME NEW k \in (Accessible \cap Node) \cup {Null},
             NEW l \in ListsInHand \cup {Null}, NEW a \in ListsInHand \cup {Null},
             Alloc(k, l, a)
      PROVE  NoDanglingPointer'
  <2>0. PICK s \in Node : s = NodeSlot
    BY <1>2, AllocEffect
  <2>1. s \notin LiveObj /\ LiveObj' = LiveObj \cup {s}
    BY <1>2, <2>0, AllocEffect
  <2>2. phase = "idle"
    BY <1>2 DEF Alloc, Locked, Running
  <2>3. /\ kid' = [kid EXCEPT ![s] = k]
        /\ list' = [list EXCEPT ![s] = l]
        /\ attrs' = [attrs EXCEPT ![s] = a]
        /\ held' = held \cup {s}
        /\ UNCHANGED <<inner, next, rc, building>>
    BY <1>2, <2>0 DEF Alloc
  <2>4. \A p \in LiveObj : Points(p)' = Points(p)
    <3>1. \A p \in Node \ {s} :
            kid'[p] = kid[p] /\ list'[p] = list[p] /\ attrs'[p] = attrs[p]
      BY <1>t, <2>3 DEF TypeOK
    <3>. QED  BY <2>1, <2>3, <3>1 DEF Points, NonNull
  <2>5. Points(s)' \subseteq LiveObj'
    <3>1. kid'[s] = k /\ list'[s] = l /\ attrs'[s] = a
      BY <1>t, <2>3 DEF TypeOK
    <3>2. {k, l, a} \subseteq LiveObj \cup {Null}
      BY <1>t, <2>2, AccessibleAreLive
    <3>. QED  BY <2>1, <3>1, <3>2 DEF NonNull, Points
  <2>6. Closed(LiveObj)'
    BY <1>d, <2>1, <2>2, <2>4, <2>5, ClosedGrown
  <2>7. Targets' = Targets /\ Drafted' = Drafted
    BY <2>3 DEF Targets, NonNull, Drafted
  <2>. QED  BY <1>d, <2>1, <2>2, <2>3, <2>6, <2>7 DEF NoDanglingPointer
<1>3. ASSUME NEW n \in Node, AppendElement(n) PROVE NoDanglingPointer'
  <2>0. PICK e \in Elem : e = ElemSlot
    BY <1>3, AppendEffect
  <2>1. e \notin LiveObj /\ LiveObj' = LiveObj \cup {e}
    BY <1>3, <2>0, AppendEffect
  <2>2. phase = "idle" /\ n \in LiveObj
    BY <1>t, <1>3, AccessibleAreLive DEF AppendElement, Locked, Running
  <2>3. /\ inner' = [inner EXCEPT ![e] = n]
        /\ next' = IF building = <<>>
                     THEN [next EXCEPT ![e] = Null]
                     ELSE [next EXCEPT ![e] = Null,
                                       ![building[Len(building)]] = e]
        /\ building' = Append(building, e)
        /\ UNCHANGED <<kid, list, attrs, rc, held>>
    BY <1>3, <2>0 DEF AppendElement, handleVars
  <2>4. building \in Seq(Elem) /\ inner \in [Elem -> Node \cup {Null}]
        /\ next \in [Elem -> Elem \cup {Null}]
    BY <1>t DEF TypeOK
  <2>5. \A i \in 1..Len(building) : building[i] \in LiveObj
    BY <1>d, <2>2 DEF Drafted
  <2>6. Drafted' \subseteq LiveObj'
    <3>1. \A i \in 1..Len(building') : building'[i] = e \/ building'[i] \in LiveObj
      BY <2>3, <2>4, <2>5
    <3>. QED  BY <2>1, <3>1 DEF Drafted
  <2>7. \A p \in Elem \ {e} : inner'[p] = inner[p] /\ next'[p] \in {next[p], e}
    <3>1. CASE building = <<>>
      BY <2>3, <2>4, <3>1
    <3>2. CASE building # <<>>
      BY <2>3, <2>4, <3>2
    <3>. QED  BY <3>1, <3>2
  <2>8. inner'[e] = n /\ next'[e] = Null
    <3>1. CASE building = <<>>
      BY <2>3, <2>4, <3>1
    <3>2. CASE building # <<>>
      <4>1. Len(building) \in 1..Len(building)
        BY <2>4, <3>2
      <4>2. building[Len(building)] # e
        BY <2>1, <2>5, <4>1
      <4>. QED  BY <2>3, <2>4, <3>2, <4>2
    <3>. QED  BY <3>1, <3>2
  <2>9. \A p \in LiveObj : Points(p)' \subseteq Points(p) \cup {e}
    <3>1. ASSUME NEW p \in LiveObj, p \in Node PROVE Points(p)' = Points(p)
      BY <2>3, <3>1 DEF Points, NonNull
    <3>2. ASSUME NEW p \in LiveObj, p \notin Node
          PROVE  Points(p)' \subseteq Points(p) \cup {e}
      <4>1. p \in Elem \ {e}
        BY <2>1, <3>2 DEF LiveObj, Obj
      <4>. QED  BY <2>7, <3>2, <4>1 DEF Points, NonNull
    <3>. QED  BY <3>1, <3>2
  <2>10. Points(e)' \subseteq LiveObj'
    <3>1. e \notin Node
      BY SlotsDisjoint
    <3>. QED  BY <2>1, <2>2, <2>8, <3>1 DEF Points, NonNull
  <2>11. Closed(LiveObj)'
    BY <1>d, <2>1, <2>2, <2>9, <2>10, ClosedGrown
  <2>12. Targets' = Targets
    BY <2>3 DEF Targets, NonNull
  <2>. QED  BY <1>d, <2>1, <2>2, <2>3, <2>6, <2>11, <2>12 DEF NoDanglingPointer
<1>4. ASSUME phase = "idle", UNCHANGED <<word, content>>,
             Targets' \cup held' \cup Drafted' \subseteq LiveObj
      PROVE  NoDanglingPointer'
  <2>1. LiveObj' = LiveObj
    BY <1>4 DEF LiveObj, Live
  <2>2. Closed(LiveObj)'
    BY <1>4, <1>d, <2>1 DEF Closed, Points, NonNull, content
  <2>. QED  BY <1>4, <2>1, <2>2 DEF NoDanglingPointer
<1>5. CASE FinishList
  <2>1. building[1] \in LiveObj
    <3>1. building \in Seq(Elem) /\ building # <<>> /\ phase = "idle"
      BY <1>t, <1>5 DEF FinishList, Locked, Running, TypeOK
    <3>2. 1 \in 1..Len(building)
      BY <3>1
    <3>. QED  BY <1>d, <3>1, <3>2 DEF Drafted
  <2>2. Drafted' = {}
    BY <1>5 DEF FinishList, Drafted
  <2>. QED  BY <1>4, <1>5, <1>d, <2>1, <2>2
    DEF FinishList, Locked, Running, Targets, NonNull, handleVars
<1>6. ASSUME NEW h \in Handles, NEW n \in LiveObj, phase = "idle", PointHandle(h, n)
      PROVE  NoDanglingPointer'
  <2>1. Targets' \subseteq Targets \cup {n}
    BY <1>t, <1>6 DEF PointHandle, Targets, NonNull, TypeOK
  <2>. QED  BY <1>4, <1>6, <1>d, <2>1 DEF PointHandle, program, Drafted
<1>7. ASSUME NEW h \in Handles, NEW n \in Node, FromNode(h, n)
      PROVE  NoDanglingPointer'
  BY <1>t, <1>6, <1>7, AccessibleAreLive DEF FromNode, Locked, Running
<1>8. ASSUME NEW h \in Handles, NEW g \in Handles, CloneRc(h, g)
      PROVE  NoDanglingPointer'
  <2>1. rc[g] \in LiveObj /\ phase = "idle"
    BY <1>8, <1>d DEF CloneRc, Running, Targets, NonNull
  <2>. QED  BY <1>6, <1>8, <2>1 DEF CloneRc
<1>9. ASSUME NEW h \in Handles, DropRc(h) PROVE NoDanglingPointer'
  <2>1. rc[h] \in LiveObj /\ phase = "idle"
    BY <1>9, <1>d DEF DropRc, Running, Targets, NonNull
  <2>2. Targets' \subseteq Targets
    BY <1>t, <1>9 DEF DropRc, Targets, NonNull, TypeOK
  <2>3. held' \subseteq held \cup {rc[h]} /\ Drafted' = Drafted
    BY <1>9 DEF DropRc, Drafted
  <2>. QED  BY <1>4, <1>9, <1>d, <2>1, <2>2, <2>3 DEF DropRc
<1>10. CASE ReleaseLock
  <2>1. Drafted' = {} /\ held' = {} /\ Targets' = Targets
    BY <1>10 DEF ReleaseLock, Drafted, Targets, NonNull, handleVars
  <2>. QED  BY <1>4, <1>10, <1>d, <2>1 DEF ReleaseLock, Running
<1>11. CASE phase = "idle" /\ UNCHANGED <<word, content, rc, held, building>>
  <2>1. Drafted' = Drafted /\ Targets' = Targets /\ held' = held
    BY <1>11 DEF Drafted, Targets, NonNull
  <2>. QED  BY <1>4, <1>11, <1>d, <2>1
<1>12. \/ EndGc \/ AllocNode
       \/ \E n \in Node : AppendElement(n)
       \/ FinishList \/ ReleaseLock
       \/ \E h \in Handles, n \in Node : FromNode(h, n)
       \/ \E h, g \in Handles : CloneRc(h, g)
       \/ \E h \in Handles : DropRc(h)
       \/ phase = "idle" /\ UNCHANGED <<word, content, rc, held, building>>
       \/ phase' # "idle"
  BY DEF Next, vars, program, handleVars, AcquireLock, DropContext, BeginGc,
    Running, GcStep, MarkNode, MarkElement, VisitElement, EndMark, SweepNode,
    EndSweepNodes, SweepElement
<1>. QED
  BY <1>1, <1>2, <1>3, <1>5, <1>7, <1>8, <1>9, <1>10, <1>11, <1>12, AllocNodeFields

-----------------------------------------------------------------------------
(* The marking phase.                                                      *)

(* What depends only on the content of objects and on the NodeRcs.         *)
LEMMA SameContent ==
  ASSUME UNCHANGED content, UNCHANGED handleVars
  PROVE  /\ \A o : Points(o)' = Points(o)
         /\ Targets' = Targets
         /\ \A S : NextClosed(S)' <=> NextClosed(S)
         /\ \A S : Closed(S)' <=> Closed(S)
BY DEF Points, NonNull, Targets, NextClosed, Closed, content, handleVars

(* With no list being visited, nothing lies on a walk.                     *)
LEMMA NoWalk == toVisit = {} => \A e : ~OnWalk(e)
<1> SUFFICES ASSUME toVisit = {}, NEW e PROVE ~OnWalk(e)
  OBVIOUS
<1>1. {} \in SUBSET Elem /\ toVisit \subseteq {} /\ NextClosed({})
  BY DEF NextClosed
<1>. QED  BY <1>1 DEF OnWalk

\* A collection starts with every NodeRc's node before the Marker.
LEMMA MarkInvBegin == IInv /\ BeginGc => MarkInv'
<1> SUFFICES ASSUME IInv, BeginGc PROVE MarkInv'
  OBVIOUS
<1>1. /\ TypeOK /\ CountsMatchHandles /\ FreeListInv /\ LockInv
      /\ phase = "idle" /\ NoDanglingPointer /\ NoStaleMark
  BY DEF IInv, BeginGc, Running
<1>2. /\ UNCHANGED <<word, markedBit>> /\ UNCHANGED content /\ UNCHANGED handleVars
      /\ pending' = {n \in 1..numNodes : Live(n) /\ count[n] > 0}
      /\ toMark' = {} /\ toVisit' = {}
  BY <1>1 DEF BeginGc, LockInv
<1>3. LiveObj' = LiveObj /\ MarkedObj' = {}
  <2>1. MarkedObj = {}
    BY <1>1 DEF NoStaleMark, MarkedObj
  <2>. QED  BY <1>2, <2>1, SameSlots
<1>4. Targets \subseteq LiveObj /\ Closed(LiveObj)
  BY <1>1 DEF NoDanglingPointer
<1>5. Targets' \subseteq LiveObj' /\ Closed(LiveObj)'
  BY <1>2, <1>3, <1>4, SameContent DEF Closed
<1>6. Targets \subseteq pending'
  <2>1. SUFFICES ASSUME NEW n \in Targets PROVE n \in pending'
    OBVIOUS
  <2>2. n \in Node /\ Live(n)
    BY <1>1, <1>4 DEF Targets, NonNull, LiveObj, TypeOK
  <2>3. count[n] > 0
    BY <1>1, <2>2, CountPositive
  <2>4. n \in 1..numNodes
    <3>1. n \in Pushed /\ n \notin Elem
      BY <1>1, <1>4, <2>2, SlotsDisjoint DEF FreeListInv
    <3>. QED  BY <1>1, <2>2, <3>1, BoundsAssumption DEF Pushed, Node, TypeOK
  <2>. QED  BY <1>2, <2>2, <2>3, <2>4
<1>7. pending' \subseteq LiveObj'
  <2>1. 1..numNodes \subseteq Obj
    BY <1>1, BoundsAssumption DEF TypeOK, Obj, Node
  <2>. QED  BY <1>2, <1>3, <2>1 DEF LiveObj
<1>8. Targets' \subseteq Reached'
  BY <1>2, <1>6, SameContent DEF Reached
<1>. QED  BY <1>2, <1>3, <1>5, <1>7, <1>8 DEF MarkInv

\* Marking a node puts its children before the Marker.
LEMMA MarkInvMarkNode ==
  ASSUME IInv, NEW n \in Node, MarkNode(n)
  PROVE  MarkInv'
<1>1. /\ TypeOK /\ MarkInv /\ toMark = {} /\ toVisit = {} /\ n \in pending
      /\ UNCHANGED content /\ UNCHANGED handleVars
  BY DEF IInv, MarkNode
<1>2. LiveObj' = LiveObj /\ n \in LiveObj /\ MarkedObj' = MarkedObj \cup {n}
  BY MarkNodeEffect
<1>3. Targets' \subseteq LiveObj' /\ Closed(LiveObj)'
  BY <1>1, <1>2, SameContent DEF Closed, MarkInv
<1>4. pending \subseteq pending' \cup {n}
  BY DEF MarkNode
<1>5. Reached \subseteq Reached'
  BY <1>2, <1>4 DEF Reached
<1>6. Targets' \subseteq Reached'
  BY <1>1, <1>5, SameContent DEF MarkInv
<1>7. UNCHANGED <<kid, list, inner, next>>
  BY <1>1 DEF content
<1>8. \A e \in MarkedObj \cap Elem : inner[e] \in Reached
  BY <1>1, NoWalk DEF MarkInv
<1>9. \A e \in MarkedObj' \cap Elem :
        /\ next'[e] # Null => next'[e] \in MarkedObj' \cup toMark'
        /\ inner'[e] \in Reached'
  <2>1. MarkedObj' \cap Elem = MarkedObj \cap Elem
    BY <1>2, SlotsDisjoint
  <2>2. \A e \in MarkedObj \cap Elem :
          /\ next[e] # Null => next[e] \in MarkedObj'
          /\ inner[e] \in Reached'
    BY <1>1, <1>2, <1>5, <1>8 DEF MarkInv
  <2>. QED  BY <1>7, <2>1, <2>2 DEF Reached
<1>10. Points(n) \subseteq LiveObj
  BY <1>1, <1>2 DEF MarkInv, Closed
<1>11. CASE Marked(n)
  <2>1. /\ pending' \subseteq pending /\ toMark' = {} /\ toVisit' = {}
        /\ MarkedObj' = MarkedObj
    BY <1>1, <1>2, <1>11 DEF MarkNode, MarkedObj
  <2>2. \A m \in MarkedObj' \cap Node :
          /\ kid'[m] # Null => kid'[m] \in Reached'
          /\ list'[m] # Null => list'[m] \in MarkedObj' \cup toMark'
    <3>1. \A m \in MarkedObj \cap Node :
            /\ kid[m] # Null => kid[m] \in Reached'
            /\ list[m] # Null => list[m] \in MarkedObj
      BY <1>1, <1>5 DEF MarkInv
    <3>. QED  BY <1>7, <2>1, <3>1 DEF Reached
  <2>. QED  BY <1>1, <1>2, <1>3, <1>6, <1>9, <2>1, <2>2 DEF MarkInv
<1>12. CASE ~Marked(n)
  <2>1. /\ pending' = (pending \ {n}) \cup NonNull({kid[n]})
        /\ toMark' = NonNull({list[n]})
        /\ toVisit' = NonNull({list[n], attrs[n]})
    BY <1>12 DEF MarkNode
  <2>2. \A m \in MarkedObj' \cap Node :
          /\ kid'[m] # Null => kid'[m] \in Reached'
          /\ list'[m] # Null => list'[m] \in MarkedObj' \cup toMark'
    <3>1. \A m \in MarkedObj \cap Node :
            /\ kid[m] # Null => kid[m] \in Reached'
            /\ list[m] # Null => list[m] \in MarkedObj
      BY <1>1, <1>5 DEF MarkInv
    <3>2. /\ kid[n] # Null => kid[n] \in pending'
          /\ list[n] # Null => list[n] \in toMark'
      BY <2>1 DEF NonNull
    <3>. QED  BY <1>2, <1>7, <3>1, <3>2 DEF Reached
  <2>3. pending' \cup toMark' \cup toVisit' \subseteq LiveObj'
    BY <1>1, <1>2, <1>10, <2>1 DEF Points, NonNull, MarkInv
  <2>4. \A e \in toMark' : OnWalk(e)'
    BY <2>1 DEF NonNull, OnWalk
  <2>. QED  BY <1>3, <1>6, <1>9, <2>2, <2>3, <2>4 DEF MarkInv
<1>. QED  BY <1>11, <1>12

\* Marking an element leaves the rest of its list to mark_list.
LEMMA MarkInvMarkElement ==
  ASSUME IInv, NEW e \in Elem, MarkElement(e)
  PROVE  MarkInv'
<1>1. /\ MarkInv /\ TypeOK /\ e \in toMark
      /\ UNCHANGED content /\ UNCHANGED handleVars /\ UNCHANGED <<pending, toVisit>>
      /\ toMark' = (toMark \ {e}) \cup NonNull({next[e]})
  BY DEF IInv, MarkElement
<1>2. LiveObj' = LiveObj /\ e \in LiveObj /\ MarkedObj' = MarkedObj \cup {e}
  BY MarkElementEffect
<1>3. Targets' \subseteq LiveObj' /\ Closed(LiveObj)'
  BY <1>1, <1>2, SameContent DEF Closed, MarkInv
<1>4. MarkedObj \cup toMark \subseteq MarkedObj' \cup toMark'
  BY <1>1, <1>2
<1>5. Reached \subseteq Reached'
  BY <1>1, <1>2 DEF Reached
<1>6. Targets' \subseteq Reached'
  BY <1>1, <1>5, SameContent DEF MarkInv
<1>7. UNCHANGED <<kid, list, inner, next>>
  BY <1>1 DEF content
<1>8. \A x : OnWalk(x)' <=> OnWalk(x)
  BY <1>1, SameContent DEF OnWalk
<1>9. next[e] # Null => next[e] \in Elem /\ OnWalk(next[e]) /\ next[e] \in LiveObj
  <2>1. OnWalk(e)
    BY <1>1 DEF MarkInv
  <2>2. next[e] # Null => next[e] \in LiveObj
    BY <1>1, <1>2, SlotsDisjoint DEF MarkInv, Closed, Points, NonNull
  <2>. QED  BY <1>1, <2>1, <2>2 DEF OnWalk, NextClosed, TypeOK
<1>10. \A m \in MarkedObj' \cap Node :
         /\ kid'[m] # Null => kid'[m] \in Reached'
         /\ list'[m] # Null => list'[m] \in MarkedObj' \cup toMark'
  <2>1. MarkedObj' \cap Node = MarkedObj \cap Node
    BY <1>2, SlotsDisjoint
  <2>2. \A m \in MarkedObj \cap Node :
          /\ kid[m] # Null => kid[m] \in Reached'
          /\ list[m] # Null => list[m] \in MarkedObj' \cup toMark'
    BY <1>1, <1>4, <1>5 DEF MarkInv
  <2>. QED  BY <1>7, <2>1, <2>2 DEF Reached
<1>11. \A x \in MarkedObj' \cap Elem :
         /\ next'[x] # Null => next'[x] \in MarkedObj' \cup toMark'
         /\ inner'[x] \in Reached' \/ OnWalk(x)'
  <2>1. \A x \in MarkedObj \cap Elem :
          /\ next[x] # Null => next[x] \in MarkedObj' \cup toMark'
          /\ inner[x] \in Reached' \/ OnWalk(x)'
    BY <1>1, <1>4, <1>5, <1>8 DEF MarkInv
  <2>2. (next[e] # Null => next[e] \in toMark') /\ OnWalk(e)'
    BY <1>1, <1>8 DEF MarkInv, NonNull
  <2>. QED  BY <1>2, <1>7, <2>1, <2>2 DEF Reached
<1>12. \A x \in toMark' : OnWalk(x)' /\ x \in LiveObj'
  BY <1>1, <1>2, <1>8, <1>9 DEF MarkInv, NonNull
<1>. QED
  BY <1>1, <1>2, <1>3, <1>6, <1>10, <1>11, <1>12 DEF MarkInv

\* Visiting an element puts its node before the Marker.
LEMMA MarkInvVisitElement ==
  ASSUME IInv, NEW e \in Elem, VisitElement(e)
  PROVE  MarkInv'
<1>1. /\ MarkInv /\ TypeOK /\ ElementInv /\ e \in toVisit /\ toMark = {}
      /\ UNCHANGED content /\ UNCHANGED handleVars /\ UNCHANGED <<word, markedBit>>
      /\ toMark' = {}
      /\ pending' = pending \cup {inner[e]}
      /\ toVisit' = (toVisit \ {e}) \cup NonNull({next[e]})
  BY DEF IInv, VisitElement
<1>2. LiveObj' = LiveObj /\ MarkedObj' = MarkedObj
  BY <1>1, SameSlots
<1>3. Targets' \subseteq LiveObj' /\ Closed(LiveObj)'
  BY <1>1, <1>2, SameContent DEF Closed, MarkInv
<1>4. Reached \subseteq Reached'
  BY <1>1, <1>2 DEF Reached
<1>5. Targets' \subseteq Reached'
  BY <1>1, <1>4, SameContent DEF MarkInv
<1>6. UNCHANGED <<kid, list, inner, next>>
  BY <1>1 DEF content
<1>7. e \in LiveObj /\ inner[e] \in Node
  BY <1>1 DEF MarkInv, ElementInv
<1>8. Points(e) \subseteq LiveObj
  BY <1>1, <1>7 DEF MarkInv, Closed
<1>9. pending' \cup toMark' \cup toVisit' \subseteq LiveObj'
  <2>1. inner[e] \in LiveObj /\ NonNull({next[e]}) \subseteq LiveObj
    BY <1>7, <1>8, SlotsDisjoint DEF Points, NonNull
  <2>. QED  BY <1>1, <1>2, <2>1 DEF MarkInv
<1>10. \A m \in MarkedObj' \cap Node :
         /\ kid'[m] # Null => kid'[m] \in Reached'
         /\ list'[m] # Null => list'[m] \in MarkedObj' \cup toMark'
  <2>1. \A m \in MarkedObj \cap Node :
          /\ kid[m] # Null => kid[m] \in Reached'
          /\ list[m] # Null => list[m] \in MarkedObj
    BY <1>1, <1>4 DEF MarkInv
  <2>. QED  BY <1>2, <1>6, <2>1 DEF Reached
<1>11. ASSUME NEW x \in MarkedObj \cap Elem PROVE inner[x] \in Reached' \/ OnWalk(x)'
  <2>1. CASE inner[x] \in Reached
    BY <1>4, <1>6, <2>1 DEF Reached
  <2>2. CASE OnWalk(x) /\ x = e
    BY <1>1, <1>6, <2>2 DEF Reached
  <2>3. CASE OnWalk(x) /\ x # e
    <3>1. SUFFICES ASSUME NEW S \in SUBSET Elem, toVisit' \subseteq S, NextClosed(S)'
                   PROVE  x \in S
      BY DEF OnWalk
    <3>2. NextClosed(S)
      BY <1>1, <3>1, SameContent
    <3>3. S \cup {e} \in SUBSET Elem /\ toVisit \subseteq S \cup {e}
          /\ NextClosed(S \cup {e})
      BY <1>1, <3>1, <3>2 DEF NextClosed, NonNull
    <3>. QED  BY <2>3, <3>3 DEF OnWalk
  <2>. QED  BY <1>1, <2>1, <2>2, <2>3 DEF MarkInv
<1>12. \A x \in MarkedObj' \cap Elem :
         /\ next'[x] # Null => next'[x] \in MarkedObj' \cup toMark'
         /\ inner'[x] \in Reached' \/ OnWalk(x)'
  <2>1. \A x \in MarkedObj \cap Elem : next[x] # Null => next[x] \in MarkedObj
    BY <1>1 DEF MarkInv
  <2>. QED  BY <1>2, <1>6, <1>11, <2>1 DEF Reached
<1>. QED  BY <1>1, <1>3, <1>5, <1>9, <1>10, <1>12 DEF MarkInv

\* Every step keeps the marking's invariant.
LEMMA MarkInvNext == IInv /\ [Next]_vars => (phase = "mark" => MarkInv)'
<1> SUFFICES ASSUME IInv, [Next]_vars, phase' = "mark" PROVE MarkInv'
  OBVIOUS
<1>1. CASE UNCHANGED vars
  <2>1. /\ MarkInv /\ UNCHANGED content /\ UNCHANGED handleVars
        /\ UNCHANGED <<word, markedBit>> /\ UNCHANGED marker
    BY <1>1 DEF IInv, vars
  <2>2. /\ LiveObj' = LiveObj /\ MarkedObj' = MarkedObj
    BY <2>1, SameSlots
  <2>3. /\ \A x : OnWalk(x)' <=> OnWalk(x)
        /\ Reached' = Reached
    BY <2>1, <2>2, SameContent DEF OnWalk, Reached, marker
  <2>4. Targets' = Targets /\ (Closed(LiveObj)' <=> Closed(LiveObj))
    BY <2>1, <2>2, SameContent DEF Closed
  <2>. QED  BY <2>1, <2>2, <2>3, <2>4 DEF MarkInv, content, marker, Reached
<1>2. \/ BeginGc \/ UNCHANGED vars
      \/ \E n \in Node : MarkNode(n)
      \/ \E e \in Elem : MarkElement(e) \/ VisitElement(e)
  BY DEF Next, AcquireLock, ReleaseLock, AllocNode, Alloc, AppendElement,
    FinishList, FromNode, CloneRc, PointHandle, DropRc, DropContext, Running,
    Locked, GcStep, EndMark, SweepNode, EndSweepNodes, SweepElement, EndGc
<1>. QED
  BY <1>1, <1>2, MarkInvBegin, MarkInvMarkNode, MarkInvMarkElement,
     MarkInvVisitElement

(* Whatever the Marker comes to, a NodeRc leads to.                        *)
LEMMA MarkExactNext == IInv /\ [Next]_vars => MarkExact'
<1> SUFFICES ASSUME IInv, [Next]_vars, phase' # "idle", NEW S \in SUBSET Obj,
                    Targets' \subseteq S, Closed(S)'
             PROVE  (MarkedObj \cup pending \cup toMark \cup toVisit)' \subseteq S
  BY DEF MarkExact
<1>t. /\ TypeOK /\ CountsMatchHandles /\ LockInv /\ MarkExact
      /\ phase = "mark" => MarkInv
  BY DEF IInv
<1>c. ASSUME UNCHANGED content, UNCHANGED handleVars, phase # "idle"
      PROVE  /\ Closed(S)
             /\ MarkedObj \cup pending \cup toMark \cup toVisit \subseteq S
  BY <1>c, <1>t, SameContent DEF MarkExact
<1>1. CASE BeginGc
  <2>1. /\ UNCHANGED <<word, markedBit>> /\ UNCHANGED content
        /\ UNCHANGED handleVars /\ NoStaleMark /\ phase = "idle"
        /\ pending' = {n \in 1..numNodes : Live(n) /\ count[n] > 0}
        /\ toMark' = {} /\ toVisit' = {}
    BY <1>t, <1>1 DEF BeginGc, IInv, Running, LockInv
  <2>2. MarkedObj' = {}
    <3>1. MarkedObj = {}
      BY <2>1 DEF NoStaleMark, MarkedObj
    <3>. QED  BY <2>1, <3>1, SameSlots
  <2>3. pending' \subseteq Targets
    <3>1. 1..numNodes \subseteq Node
      BY <1>t, BoundsAssumption DEF TypeOK, Node
    <3>. QED  BY <1>t, <2>1, <3>1, CountPositive
  <2>. QED  BY <2>1, <2>2, <2>3, SameContent
<1>2. ASSUME NEW n \in Node, MarkNode(n)
      PROVE  (MarkedObj \cup pending \cup toMark \cup toVisit)' \subseteq S
  <2>1. /\ UNCHANGED content /\ UNCHANGED handleVars /\ phase # "idle"
        /\ n \in pending /\ toMark = {} /\ toVisit = {}
    BY <1>2 DEF MarkNode
  <2>2. n \in S /\ Points(n) \subseteq S /\ MarkedObj \cup pending \subseteq S
    BY <1>c, <2>1 DEF Closed
  <2>3. pending' \cup toMark' \cup toVisit' \subseteq pending \cup Points(n)
    BY <1>2, <2>1 DEF MarkNode, Points, NonNull
  <2>. QED  BY <1>2, <2>2, <2>3, MarkNodeEffect
<1>3. ASSUME NEW e \in Elem, MarkElement(e)
      PROVE  (MarkedObj \cup pending \cup toMark \cup toVisit)' \subseteq S
  <2>1. /\ UNCHANGED content /\ UNCHANGED handleVars /\ phase # "idle"
        /\ e \in toMark /\ UNCHANGED <<pending, toVisit>>
        /\ toMark' = (toMark \ {e}) \cup NonNull({next[e]})
    BY <1>3 DEF MarkElement
  <2>2. /\ Points(e) \subseteq S
        /\ MarkedObj \cup pending \cup toMark \cup toVisit \subseteq S
    BY <1>c, <2>1 DEF Closed
  <2>3. toMark' \subseteq toMark \cup Points(e)
    BY <2>1, SlotsDisjoint DEF Points, NonNull
  <2>. QED  BY <1>3, <2>1, <2>2, <2>3, MarkElementEffect
<1>4. ASSUME NEW e \in Elem, VisitElement(e)
      PROVE  (MarkedObj \cup pending \cup toMark \cup toVisit)' \subseteq S
  <2>1. /\ UNCHANGED content /\ UNCHANGED handleVars /\ phase = "mark"
        /\ UNCHANGED <<word, markedBit>> /\ MarkInv /\ ElementInv
        /\ e \in toVisit /\ UNCHANGED toMark
        /\ pending' = pending \cup {inner[e]}
        /\ toVisit' = (toVisit \ {e}) \cup NonNull({next[e]})
    BY <1>4 DEF VisitElement, IInv
  <2>2. /\ Points(e) \subseteq S
        /\ MarkedObj \cup pending \cup toMark \cup toVisit \subseteq S
    BY <1>c, <2>1 DEF Closed
  <2>3. inner[e] \in Points(e) /\ NonNull({next[e]}) \subseteq Points(e)
    BY <2>1, SlotsDisjoint DEF Points, NonNull, MarkInv, ElementInv
  <2>. QED  BY <2>1, <2>2, <2>3, SameSlots
<1>5. ASSUME MarkedObj' = MarkedObj, UNCHANGED content, UNCHANGED handleVars,
             UNCHANGED marker, phase # "idle"
      PROVE  (MarkedObj \cup pending \cup toMark \cup toVisit)' \subseteq S
  BY <1>c, <1>5 DEF marker
<1>6. CASE SweepNode
  BY <1>5, <1>6, SweepNodeEffect DEF SweepNode
<1>7. CASE SweepElement
  BY <1>5, <1>7, SweepElementEffect DEF SweepElement
<1>8. CASE EndMark \/ EndSweepNodes \/ UNCHANGED vars
  <2>1. /\ UNCHANGED <<word, markedBit>> /\ UNCHANGED content
        /\ UNCHANGED handleVars /\ UNCHANGED marker /\ phase # "idle"
    BY <1>8 DEF EndMark, EndSweepNodes, vars
  <2>. QED  BY <1>5, <2>1, SameSlots
<1>9. \/ BeginGc
      \/ \E n \in Node : MarkNode(n)
      \/ \E e \in Elem : MarkElement(e) \/ VisitElement(e)
      \/ SweepNode \/ SweepElement
      \/ EndMark \/ EndSweepNodes \/ UNCHANGED vars
  BY DEF Next, AcquireLock, ReleaseLock, AllocNode, Alloc, AppendElement,
    FinishList, FromNode, CloneRc, PointHandle, DropRc, DropContext, Running,
    Locked, GcStep, EndGc
<1>. QED  BY <1>1, <1>2, <1>3, <1>4, <1>6, <1>7, <1>8, <1>9

-----------------------------------------------------------------------------
(* The sweep.                                                              *)

(* When the Marker has nothing before it, what is marked is closed: this   *)
(* is where a node's Option<NodeList> would be missed.                     *)
LEMMA SweepInvBegin == IInv /\ EndMark => SweepInv'
<1> SUFFICES ASSUME IInv, EndMark PROVE SweepInv'
  OBVIOUS
<1>1. /\ MarkInv /\ TypeOK /\ NoAttributeLists
      /\ pending = {} /\ toMark = {} /\ toVisit = {}
      /\ UNCHANGED content /\ UNCHANGED handleVars /\ UNCHANGED <<word, markedBit>>
      /\ phase' = "sweepNodes" /\ cursor' = 1 /\ UNCHANGED numNodes
  BY DEF IInv, EndMark, storage
<1>2. MarkedObj' = MarkedObj
  BY <1>1, SameSlots
<1>3. Targets \subseteq MarkedObj
  BY <1>1 DEF MarkInv, Reached
<1>4. Closed(MarkedObj)
  <2>1. ASSUME NEW n \in MarkedObj, n \in Node PROVE Points(n) \subseteq MarkedObj
    BY <1>1, <2>1 DEF MarkInv, Reached, Points, NonNull, NoAttributeLists
  <2>2. ASSUME NEW e \in MarkedObj, e \notin Node PROVE Points(e) \subseteq MarkedObj
    <3>1. e \in Elem
      BY <2>2 DEF MarkedObj, LiveObj, Obj
    <3>2. /\ next[e] # Null => next[e] \in MarkedObj
          /\ inner[e] \in MarkedObj
      BY <1>1, <3>1, NoWalk DEF MarkInv, Reached
    <3>. QED  BY <2>2, <3>2 DEF Points, NonNull
  <2>. QED  BY <2>1, <2>2 DEF Closed
<1>5. Targets' \subseteq MarkedObj' /\ Closed(MarkedObj)'
  BY <1>1, <1>2, <1>3, <1>4, SameContent DEF Closed
<1>6. cursor' \in 1..(numNodes' + 1) /\ 1..(cursor' - 1) = {}
  BY <1>1 DEF TypeOK
<1>. QED  BY <1>1, <1>5, <1>6 DEF SweepInv

\* Every step keeps what is marked closed while sweeping.
LEMMA SweepInvNext ==
  IInv /\ [Next]_vars => (phase \in {"sweepNodes", "sweepElements"} => SweepInv)'
<1> SUFFICES ASSUME IInv, [Next]_vars, phase' \in {"sweepNodes", "sweepElements"}
             PROVE  SweepInv'
  OBVIOUS
<1>t. TypeOK /\ FreeListInv
  BY DEF IInv
<1>k. ASSUME SweepInv, MarkedObj' = MarkedObj, UNCHANGED content, UNCHANGED handleVars
      PROVE  Targets' \subseteq MarkedObj' /\ Closed(MarkedObj)'
  BY <1>k, SameContent DEF SweepInv, Closed
<1>1. CASE SweepNode
  <2>1. /\ SweepInv /\ phase = "sweepNodes" /\ phase' = phase /\ cursor' = cursor + 1
        /\ UNCHANGED numNodes /\ UNCHANGED content /\ UNCHANGED handleVars
    BY <1>1 DEF SweepNode, IInv
  <2>2. /\ cursor \in 1..numNodes /\ MarkedObj' = MarkedObj
        /\ LiveObj' \subseteq LiveObj
        /\ cursor \in LiveObj' => cursor \in MarkedObj
    BY <1>1, SweepNodeEffect, SlotsDisjoint DEF LiveObj
  <2>3. cursor' \in 1..(numNodes' + 1)
    BY <1>t, <2>1, <2>2 DEF TypeOK
  <2>4. LiveObj \cap (1..(cursor - 1)) \subseteq MarkedObj
    BY <2>1 DEF SweepInv
  <2>5. \A i \in 1..(cursor' - 1) : i = cursor \/ i \in 1..(cursor - 1)
    BY <1>t, <2>1 DEF TypeOK
  <2>6. LiveObj' \cap (1..(cursor' - 1)) \subseteq MarkedObj'
    BY <2>2, <2>4, <2>5
  <2>. QED  BY <1>k, <2>1, <2>2, <2>3, <2>6 DEF SweepInv
<1>2. CASE EndSweepNodes
  <2>1. /\ SweepInv /\ phase = "sweepNodes" /\ cursor = numNodes + 1
        /\ phase' = "sweepElements" /\ cursor' = MaxNodes + 1
        /\ UNCHANGED content /\ UNCHANGED handleVars
        /\ UNCHANGED <<word, markedBit>> /\ UNCHANGED numElems
    BY <1>2 DEF EndSweepNodes, IInv, storage
  <2>2. LiveObj' = LiveObj /\ MarkedObj' = MarkedObj
    BY <2>1, SameSlots
  <2>3. LiveObj \cap (1..(cursor - 1)) \subseteq MarkedObj
    BY <2>1 DEF SweepInv
  <2>4. \A i \in Pushed \cap (1..MaxNodes) : i \in 1..(cursor - 1)
    BY <1>t, <2>1, BoundsAssumption DEF Pushed, TypeOK
  <2>5. cursor' - 1 = MaxNodes
    BY <2>1, BoundsAssumption
  <2>6. LiveObj' \cap (1..(cursor' - 1)) \subseteq MarkedObj'
    BY <1>t, <2>2, <2>3, <2>4, <2>5 DEF FreeListInv
  <2>7. cursor' \in (MaxNodes + 1)..(MaxNodes + numElems' + 1)
    BY <1>t, <2>1, BoundsAssumption DEF TypeOK
  <2>. QED  BY <1>k, <2>1, <2>2, <2>6, <2>7 DEF SweepInv
<1>3. CASE SweepElement
  <2>1. /\ SweepInv /\ phase = "sweepElements" /\ phase' = phase /\ cursor' = cursor + 1
        /\ UNCHANGED numElems /\ UNCHANGED content /\ UNCHANGED handleVars
    BY <1>3 DEF SweepElement, IInv
  <2>2. /\ cursor \in (MaxNodes + 1)..(MaxNodes + numElems) /\ MarkedObj' = MarkedObj
        /\ LiveObj' \subseteq LiveObj
        /\ cursor \in LiveObj' => cursor \in MarkedObj
    BY <1>3, SweepElementEffect, SlotsDisjoint DEF LiveObj
  <2>3. cursor' \in (MaxNodes + 1)..(MaxNodes + numElems' + 1)
    BY <1>t, <2>1, <2>2, BoundsAssumption DEF TypeOK
  <2>4. LiveObj \cap (1..(cursor - 1)) \subseteq MarkedObj
    BY <2>1 DEF SweepInv
  <2>5. \A i \in 1..(cursor' - 1) : i = cursor \/ i \in 1..(cursor - 1)
    BY <1>t, <2>1 DEF TypeOK
  <2>6. LiveObj' \cap (1..(cursor' - 1)) \subseteq MarkedObj'
    BY <2>2, <2>4, <2>5
  <2>. QED  BY <1>k, <2>1, <2>2, <2>3, <2>6 DEF SweepInv
<1>4. CASE UNCHANGED vars
  <2>1. /\ SweepInv /\ UNCHANGED content /\ UNCHANGED handleVars
        /\ UNCHANGED <<word, markedBit>> /\ UNCHANGED <<phase, cursor>>
        /\ UNCHANGED <<numNodes, numElems>>
    BY <1>4 DEF vars, IInv, storage
  <2>2. LiveObj' = LiveObj /\ MarkedObj' = MarkedObj
    BY <2>1, SameSlots
  <2>. QED  BY <1>k, <2>1, <2>2 DEF SweepInv
<1>5. \/ EndMark \/ SweepNode \/ EndSweepNodes \/ SweepElement
      \/ UNCHANGED vars
  BY DEF Next, AcquireLock, ReleaseLock, AllocNode, Alloc, AppendElement,
    FinishList, FromNode, CloneRc, PointHandle, DropRc, DropContext, Running,
    Locked, BeginGc, GcStep, MarkNode, MarkElement, VisitElement, EndGc
<1>. QED  BY <1>1, <1>2, <1>3, <1>4, <1>5, SweepInvBegin

-----------------------------------------------------------------------------
(* The theorems.                                                           *)

\* A new Context has the invariant.
LEMMA InvariantInit == Init => IInv
<1> SUFFICES ASSUME Init PROVE IInv
  OBVIOUS
<1>1. TypeOK
  BY TypeInit
<1>2. LiveObj = {}
  BY DEF Init, LiveObj, Live
<1>3. MarkedObj = {} /\ Targets = {} /\ Drafted = {} /\ held = {}
  BY <1>2 DEF Init, MarkedObj, Targets, NonNull, Drafted
<1>4. CountsMatchHandles
  <2>1. \A n \in Node : {h \in Handles : rc[h] = n} = {}
    BY SlotsDisjoint DEF Init
  <2>2. {h \in Handles : rc[h] # Null} = {}
    BY DEF Init
  <2>. QED  BY <2>1, <2>2, FS_EmptySet DEF Init, CountsMatchHandles
<1>5. FreeListInv
  <2>1. 1..numNodes = {} /\ (MaxNodes + 1)..(MaxNodes + numElems) = {}
    BY BoundsAssumption DEF Init
  <2>2. Len(freeNodes) = 0 /\ Len(freeElems) = 0
    BY DEF Init
  <2>. QED  BY <1>2, <2>1, <2>2 DEF FreeListInv, NoDuplicates
<1>6. LockInv /\ BuildingInv /\ NoAttributeLists
  BY DEF Init, LockInv, BuildingInv, NoAttributeLists
<1>7. ElementInv /\ NoDanglingPointer /\ NoStaleMark
  BY <1>2, <1>3 DEF ElementInv, NoDanglingPointer, NoStaleMark, Closed
<1>. QED
  BY <1>1, <1>4, <1>5, <1>6, <1>7 DEF IInv, Init, MarkExact

\* Every step keeps the invariant.
LEMMA InvariantNext ==
  ASSUME AttributeLists = FALSE
  PROVE  IInv /\ [Next]_vars => IInv'
BY TypeNext, NoAttributeListsNext, CountsNext, FreeListNext, LockNext,
   BuildingNext, ElementNext, NoDanglingNext, NoStaleMarkNext, MarkInvNext,
   MarkExactNext, SweepInvNext
   DEF IInv

(* The inductive invariant holds of every behaviour in which no node has   *)
(* an Option<NodeList>: what the other theorems rest on.                   *)
THEOREM Invariance ==
  ASSUME AttributeLists = FALSE
  PROVE  Spec => []IInv
<1>1. IInv /\ [Next]_vars => IInv'
  BY InvariantNext
<1>. QED  BY <1>1, InvariantInit, PTL DEF Spec

(* Every variable of the storage keeps its type.                           *)
THEOREM TypeCorrect ==
  ASSUME AttributeLists = FALSE
  PROVE  Spec => []TypeOK
<1>1. IInv => TypeOK
  BY DEF IInv
<1>. QED  BY <1>1, Invariance, PTL

(* gc never frees a node or element that a NodeRc, the program or a live   *)
(* object still refers to.                                                 *)
THEOREM GcIsSafe ==
  ASSUME AttributeLists = FALSE
  PROVE  Spec => []NoDanglingPointer
<1>1. IInv => NoDanglingPointer
  BY DEF IInv
<1>. QED  BY <1>1, Invariance, PTL

(* The reference counts of entries and of the Context are exact.           *)
THEOREM CountsAreExact ==
  ASSUME AttributeLists = FALSE
  PROVE  Spec => []CountsMatchHandles
<1>1. IInv => CountsMatchHandles
  BY DEF IInv
<1>. QED  BY <1>1, Invariance, PTL

(* The free lists hold each free slot once and nothing else.               *)
THEOREM FreeListsAreExact ==
  ASSUME AttributeLists = FALSE
  PROVE  Spec => []FreeListExact
<1>1. IInv => FreeListExact
  BY DEF IInv, FreeListInv, FreeListExact, InSeq, NoDuplicates
<1>. QED  BY <1>1, Invariance, PTL

(* The mark bit is never stale when a collection begins.                   *)
THEOREM MarksAreFresh ==
  ASSUME AttributeLists = FALSE
  PROVE  Spec => []NoStaleMark
<1>1. IInv => NoStaleMark
  BY DEF IInv
<1>. QED  BY <1>1, Invariance, PTL

(* A Context that has been dropped has left no NodeRc behind.              *)
THEOREM HandlesDieFirst ==
  ASSUME AttributeLists = FALSE
  PROVE  Spec => []NoHandleOutlivesContext
<1>1. ASSUME IInv, ~ctxLive PROVE Targets = {}
  <2>1. Cardinality({h \in Handles : rc[h] # Null}) = 0
    BY <1>1 DEF IInv, LockInv, CountsMatchHandles
  <2>2. {h \in Handles : rc[h] # Null} = {}
    <3>1. IsFiniteSet({h \in Handles : rc[h] # Null})
      BY BoundsAssumption, FS_Subset
    <3>. QED  BY <2>1, <3>1, FS_EmptySet
  <2>. QED  BY <2>2 DEF Targets, NonNull
<1>2. IInv => NoHandleOutlivesContext
  BY <1>1 DEF NoHandleOutlivesContext
<1>. QED  BY <1>2, Invariance, PTL

(* A collection leaves only what the NodeRcs lead to.                      *)
THEOREM GcIsComplete ==
  ASSUME AttributeLists = FALSE
  PROVE  Spec => GcComplete
<1>1. ASSUME IInv, EndGc, NEW S \in SUBSET Obj, Targets \subseteq S, Closed(S)
      PROVE  LiveObj \subseteq S
  <2>1. MarkExact /\ phase # "idle"
    BY <1>1 DEF IInv, EndGc
  <2>2. MarkedObj \subseteq S
    BY <1>1, <2>1 DEF MarkExact
  <2>. QED  BY <1>1, <2>2, SweptAll
<1>2. IInv => (EndGc => \A S \in SUBSET Obj :
                 Targets \subseteq S /\ Closed(S) => LiveObj \subseteq S)
  BY <1>1
<1>. QED  BY <1>2, Invariance, PTL DEF Spec, GcComplete
=============================================================================
