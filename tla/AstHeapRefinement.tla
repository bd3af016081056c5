-------------------------- MODULE AstHeapRefinement --------------------------
(***************************************************************************)
(* AstHeap implements ReachableHeap: each step of the storage is a step of *)
(* a heap that only ever reclaims what cannot be reached, or none.         *)
(***************************************************************************)
EXTENDS AstHeapProofs

(* The two modules mean the same by reachable.                             *)
LEMMA SameReached ==
  /\ \A S \in SUBSET Obj : Heap!Closed(S) <=> Closed(S)
  /\ Heap!Reached(Targets \cup held) = Accessible
<1>1. ASSUME NEW S \in SUBSET Obj PROVE Heap!Closed(S) <=> Closed(S)
  BY DEF Heap!Closed, Closed
<1>. QED  BY <1>1 DEF Heap!Reached, Accessible

(* What the program can reach holds its roots, and is closed.              *)
LEMMA AccessibleClosed ==
  /\ (Targets \cup held) \cap Obj \subseteq Accessible
  /\ \A o \in Accessible : Points(o) \cap Obj \subseteq Accessible
<1>1. (Targets \cup held) \cap Obj \subseteq Accessible
  BY DEF Accessible
<1>2. ASSUME NEW o \in Accessible, NEW p \in Points(o) \cap Obj PROVE p \in Accessible
  BY <1>2 DEF Accessible, Closed
<1>. QED  BY <1>1, <1>2

(* All that an object refers to is a slot.                                 *)
LEMMA PointsAreSlots ==
  ASSUME TypeOK, NEW o \in Obj
  PROVE  Points(o) \subseteq Obj
BY SlotsDisjoint DEF TypeOK, Points, NonNull, Obj

(* The roots are slots, and within reach.                                  *)
LEMMA RootsAccessible ==
  ASSUME TypeOK
  PROVE  Targets \cup held \subseteq Accessible
<1>1. Targets \subseteq Obj
  BY SlotsDisjoint DEF TypeOK, Targets, NonNull
<1>2. held \subseteq Obj
  BY DEF TypeOK
<1>. QED  BY <1>1, <1>2, AccessibleClosed

(* The lists that the program has in hand are within reach.                *)
LEMMA ListsAccessible ==
  ASSUME TypeOK
  PROVE  ListsInHand \subseteq Accessible
<1>1. ASSUME NEW n \in Accessible \cap Node
      PROVE  NonNull({list[n], attrs[n]}) \subseteq Accessible
  <2>1. NonNull({list[n], attrs[n]}) \subseteq Points(n) \cap Obj
    BY PointsAreSlots, SlotsDisjoint DEF Points, NonNull
  <2>. QED  BY <2>1, AccessibleClosed
<1>2. held \cap Elem \subseteq Accessible
  BY RootsAccessible
<1>. QED  BY <1>1, <1>2 DEF ListsInHand, NonNull

-----------------------------------------------------------------------------
(* The program's steps.                                                    *)

(* alloc is a new object, built from what the program can reach.           *)
LEMMA AllocIsNew ==
  ASSUME IInv, NEW k \in (Accessible \cap Node) \cup {Null},
         NEW l \in ListsInHand \cup {Null}, NEW a \in ListsInHand \cup {Null},
         Alloc(k, l, a)
  PROVE  Heap!Next
<1>t. TypeOK
  BY DEF IInv
<1>0. PICK s \in Node : s = NodeSlot
  BY AllocEffect
<1>1. s \in Obj /\ s \notin LiveObj /\ LiveObj' = LiveObj \cup {s}
  BY <1>0, AllocEffect, SlotsDisjoint
<1>2. /\ kid' = [kid EXCEPT ![s] = k]
      /\ list' = [list EXCEPT ![s] = l]
      /\ attrs' = [attrs EXCEPT ![s] = a]
      /\ held' = held \cup {s}
      /\ UNCHANGED <<inner, next, rc, building>>
  BY <1>0 DEF Alloc
<1> DEFINE P == NonNull({k, l, a})
<1>3. P \in SUBSET Obj /\ P \subseteq Accessible
  BY <1>t, AccessibleAreSlots, ListsAccessible DEF NonNull
<1>4. Points(s)' = P
  <2>1. kid'[s] = k /\ list'[s] = l /\ attrs'[s] = a
    BY <1>t, <1>2 DEF TypeOK
  <2>. QED  BY <2>1 DEF Points
<1>5. \A p \in Obj \ {s} : Points(p)' = Points(p)
  <2>1. \A p \in Node \ {s} :
          kid'[p] = kid[p] /\ list'[p] = list[p] /\ attrs'[p] = attrs[p]
    BY <1>t, <1>2 DEF TypeOK
  <2>. QED  BY <1>2, <2>1 DEF Points
<1>6. [o \in Obj |-> Points(o)]' = [[o \in Obj |-> Points(o)] EXCEPT ![s] = P]
  BY <1>1, <1>4, <1>5
<1>7. Targets' = Targets /\ Drafted' = Drafted
  BY <1>2 DEF Targets, NonNull, Drafted
<1>8. Heap!New(s, P)
  BY <1>1, <1>2, <1>3, <1>6, <1>7, SameReached DEF Heap!New
<1>. QED  BY <1>1, <1>3, <1>8 DEF Heap!Next

(* A turn of from_iter extends the draft.                                  *)
LEMMA AppendExtends ==
  ASSUME IInv, NEW n \in Node, AppendElement(n)
  PROVE  Heap!Next
<1>t. TypeOK /\ BuildingInv
  BY DEF IInv
<1>0. PICK e \in Elem : e = ElemSlot
  BY AppendEffect
<1>1. e \in Obj /\ e \notin LiveObj /\ LiveObj' = LiveObj \cup {e} /\ e \notin Node
  BY <1>0, AppendEffect, SlotsDisjoint
<1>2. /\ inner' = [inner EXCEPT ![e] = n]
      /\ next' = IF building = <<>>
                   THEN [next EXCEPT ![e] = Null]
                   ELSE [next EXCEPT ![e] = Null,
                                     ![building[Len(building)]] = e]
      /\ building' = Append(building, e)
      /\ UNCHANGED <<kid, list, attrs, rc, held>>
  BY <1>0 DEF AppendElement, handleVars
<1>3. building \in Seq(Elem) /\ inner \in [Elem -> Node \cup {Null}]
      /\ next \in [Elem -> Elem \cup {Null}]
  BY <1>t DEF TypeOK
<1>4. {n} \in SUBSET Obj /\ {n} \subseteq Accessible
  BY SlotsDisjoint DEF AppendElement
<1>5. Targets' = Targets /\ held' = held
  BY <1>2 DEF Targets, NonNull
<1>6. Drafted' = Drafted \cup {e}
  <2>1. Len(building') = Len(building) + 1 /\ building'[Len(building) + 1] = e
        /\ \A i \in 1..Len(building) : building'[i] = building[i]
    BY <1>2, <1>3
  <2>2. 1..Len(building') = 1..Len(building) \cup {Len(building) + 1}
    BY <1>3, <2>1
  <2>. QED  BY <2>1, <2>2 DEF Drafted
<1>7. \A p \in Node : Points(p)' = Points(p)
  BY <1>2 DEF Points
<1>8. n # Null /\ e # Null
  BY <1>1, SlotsDisjoint
<1>9. CASE building = <<>>
  <2>1. next' = [next EXCEPT ![e] = Null]
    BY <1>2, <1>9
  <2>2. /\ inner'[e] = n /\ next'[e] = Null
        /\ \A p \in Elem \ {e} : inner'[p] = inner[p] /\ next'[p] = next[p]
    BY <1>2, <1>3, <2>1
  <2>3. Points(e)' = {n}
    BY <1>1, <1>8, <2>2 DEF Points, NonNull
  <2>4. \A p \in Obj \ {e} : Points(p)' = Points(p)
    BY <1>7, <2>2 DEF Points, Obj
  <2>5. [o \in Obj |-> Points(o)]' = [[o \in Obj |-> Points(o)] EXCEPT ![e] = {n}]
    BY <1>1, <2>3, <2>4
  <2>6. Drafted = {}
    BY <1>9 DEF Drafted
  <2>7. Heap!Extend(e, {n})
    BY <1>1, <1>4, <1>5, <1>6, <2>5, <2>6, SameReached DEF Heap!Extend
  <2>. QED  BY <1>1, <1>4, <2>7 DEF Heap!Next
<1>10. CASE building # <<>>
  <2>0. PICK t \in Elem : t = building[Len(building)]
    BY <1>3, <1>10
  <2>1. Len(building) \in 1..Len(building)
    BY <1>3, <1>10
  <2>2. t \in Drafted /\ Live(t) /\ next[t] = Null
    BY <1>t, <1>10, <2>0, <2>1 DEF Drafted, BuildingInv
  <2>3. t # e /\ t \in Obj /\ t \notin Node
    BY <1>1, <2>2, SlotsDisjoint DEF LiveObj
  <2>4. next' = [next EXCEPT ![e] = Null, ![t] = e]
    BY <1>2, <1>10, <2>0
  <2>5. /\ inner'[e] = n /\ next'[e] = Null
        /\ inner'[t] = inner[t] /\ next'[t] = e
        /\ \A p \in Elem \ {e, t} : inner'[p] = inner[p] /\ next'[p] = next[p]
    BY <1>2, <1>3, <2>3, <2>4
  <2>6. Points(e)' = {n}
    BY <1>1, <1>8, <2>5 DEF Points, NonNull
  <2>7. Points(t)' = Points(t) \cup {e}
    BY <1>8, <2>2, <2>3, <2>5 DEF Points, NonNull
  <2>8. \A p \in Obj \ {e, t} : Points(p)' = Points(p)
    BY <1>7, <2>5 DEF Points, Obj
  <2>9. [o \in Obj |-> Points(o)]'
          = [[o \in Obj |-> Points(o)] EXCEPT ![e] = {n}, ![t] = @ \cup {e}]
    BY <1>1, <2>3, <2>6, <2>7, <2>8
  <2>10. Heap!Extend(e, {n})
    BY <1>1, <1>4, <1>5, <1>6, <2>2, <2>9, SameReached DEF Heap!Extend
  <2>. QED  BY <1>1, <1>4, <2>10 DEF Heap!Next
<1>. QED  BY <1>9, <1>10

(* The end of from_iter publishes the list.                                *)
LEMMA FinishPublishes ==
  ASSUME IInv, FinishList
  PROVE  Heap!Next
<1>1. building \in Seq(Elem) /\ building # <<>>
  BY DEF IInv, TypeOK, FinishList
<1>2. building[1] \in Drafted
  BY <1>1 DEF Drafted
<1>3. /\ held' = held \cup {building[1]} /\ Drafted' = {} /\ Targets' = Targets
      /\ UNCHANGED <<word, content>>
  BY DEF FinishList, Drafted, Targets, NonNull, handleVars
<1>4. LiveObj' = LiveObj /\ [o \in Obj |-> Points(o)]' = [o \in Obj |-> Points(o)]
  BY <1>3 DEF LiveObj, Live, Points, content
<1>5. Heap!Publish
  BY <1>2, <1>3, <1>4 DEF Heap!Publish
<1>. QED  BY <1>5 DEF Heap!Next

(* The steps that only take or drop references.                            *)
LEMMA HoldStep ==
  ASSUME UNCHANGED <<word, content>>, Drafted' \in {Drafted, {}},
         (Targets \cup held)' \subseteq Accessible
  PROVE  Heap!Next
<1>1. LiveObj' = LiveObj /\ [o \in Obj |-> Points(o)]' = [o \in Obj |-> Points(o)]
  BY DEF LiveObj, Live, Points, content
<1>2. Heap!Hold
  BY <1>1, SameReached DEF Heap!Hold
<1>. QED  BY <1>2 DEF Heap!Next

(* ReleaseLock, FromNode, CloneRc and DropRc do.                           *)
LEMMA ReferencesHold ==
  ASSUME IInv,
         \/ ReleaseLock
         \/ \E h \in Handles, n \in Node : FromNode(h, n)
         \/ \E h, g \in Handles : CloneRc(h, g)
         \/ \E h \in Handles : DropRc(h)
  PROVE  Heap!Next
<1>t. TypeOK /\ Targets \cup held \subseteq Accessible
  BY RootsAccessible DEF IInv
<1>1. CASE ReleaseLock
  <2>1. Drafted' = {} /\ held' = {} /\ Targets' = Targets /\ UNCHANGED <<word, content>>
    BY <1>1 DEF ReleaseLock, Drafted, Targets, NonNull, handleVars
  <2>. QED  BY <1>t, <2>1, HoldStep
<1>2. ASSUME NEW h \in Handles, NEW n \in Accessible, PointHandle(h, n)
      PROVE  Heap!Next
  <2>1. Targets' \subseteq Targets \cup {n}
    BY <1>t, <1>2 DEF PointHandle, Targets, NonNull, TypeOK
  <2>2. held' = held /\ Drafted' = Drafted /\ UNCHANGED <<word, content>>
    BY <1>2 DEF PointHandle, program, Drafted
  <2>. QED  BY <1>t, <1>2, <2>1, <2>2, HoldStep
<1>3. ASSUME NEW h \in Handles, NEW n \in Node, FromNode(h, n) PROVE Heap!Next
  BY <1>2, <1>3 DEF FromNode
<1>4. ASSUME NEW h \in Handles, NEW g \in Handles, CloneRc(h, g) PROVE Heap!Next
  <2>1. rc[g] \in Accessible
    BY <1>t, <1>4 DEF CloneRc, Targets, NonNull
  <2>. QED  BY <1>2, <1>4, <2>1 DEF CloneRc
<1>5. ASSUME NEW h \in Handles, DropRc(h) PROVE Heap!Next
  <2>1. rc[h] \in Targets /\ Targets' \subseteq Targets
    BY <1>t, <1>5 DEF DropRc, Targets, NonNull, TypeOK
  <2>2. held' \subseteq held \cup {rc[h]} /\ Drafted' = Drafted /\ UNCHANGED <<word, content>>
    BY <1>5 DEF DropRc, Drafted
  <2>. QED  BY <1>t, <2>1, <2>2, HoldStep
<1>. QED  BY <1>1, <1>3, <1>4, <1>5

-----------------------------------------------------------------------------
(* The collector's steps.                                                  *)

(* A step that frees nothing, and lets go of nothing, changes nothing.     *)
LEMMA StutterStep ==
  ASSUME LiveObj' = LiveObj, UNCHANGED <<content, rc, held, building>>
  PROVE  UNCHANGED Heap!vars
<1>1. [o \in Obj |-> Points(o)]' = [o \in Obj |-> Points(o)]
  BY DEF Points, content
<1>2. Targets' = Targets /\ Drafted' = Drafted
  BY DEF Targets, NonNull, Drafted
<1>. QED  BY <1>1, <1>2 DEF Heap!vars

(* What a sweep frees cannot be reached: the marked objects are closed and *)
(* hold every NodeRc's node, and nobody holds anything else.               *)
LEMMA SweepReclaims ==
  ASSUME IInv, phase \in {"sweepNodes", "sweepElements"},
         NEW o \in Obj, Live(o), o \notin MarkedObj, LiveObj' = LiveObj \ {o},
         UNCHANGED <<content, rc, held, building>>
  PROVE  Heap!Next
<1>1. Targets \subseteq MarkedObj /\ Closed(MarkedObj)
  BY DEF IInv, SweepInv
<1>2. held = {} /\ Drafted = {}
  BY DEF IInv, LockInv, Drafted
<1>3. MarkedObj \in SUBSET Obj
  BY DEF MarkedObj, LiveObj
<1>4. o \notin Accessible
  BY <1>1, <1>2, <1>3 DEF Accessible
<1>5. /\ [p \in Obj |-> Points(p)]' = [p \in Obj |-> Points(p)]
      /\ Targets' = Targets /\ Drafted' = Drafted
  BY DEF Points, content, Targets, NonNull, Drafted
<1>6. o \in LiveObj
  BY DEF LiveObj
<1>7. Heap!Reclaim(o)
  BY <1>2, <1>4, <1>5, <1>6, SameReached DEF Heap!Reclaim
<1>. QED  BY <1>7 DEF Heap!Next

(* Every step of the storage is one of the abstract heap, or none.         *)
LEMMA StepRefined == IInv /\ [Next]_vars => [Heap!Next]_Heap!vars
<1> SUFFICES ASSUME IInv, [Next]_vars PROVE Heap!Next \/ UNCHANGED Heap!vars
  OBVIOUS
<1>1. CASE AllocNode
  <2>1. PICK k \in (Accessible \cap Node) \cup {Null}, l \in ListsInHand \cup {Null},
             a \in ListsInHand \cup {Null} : Alloc(k, l, a)
    BY <1>1, AllocNodeFields
  <2>. QED  BY <2>1, AllocIsNew
<1>2. ASSUME NEW n \in Node, MarkNode(n) PROVE UNCHANGED Heap!vars
  BY <1>2, MarkNodeEffect, StutterStep DEF MarkNode, handleVars, program
<1>3. ASSUME NEW e \in Elem, MarkElement(e) PROVE UNCHANGED Heap!vars
  BY <1>3, MarkElementEffect, StutterStep DEF MarkElement, handleVars, program
<1>4. CASE SweepNode
  <2>1. UNCHANGED <<content, rc, held, building>> /\ phase = "sweepNodes"
    BY <1>4 DEF SweepNode, handleVars, program
  <2>2. cursor \in Obj
    BY <1>4, SweepNodeEffect, SlotsDisjoint
  <2>3. CASE LiveObj' = LiveObj
    BY <2>1, <2>3, StutterStep
  <2>4. CASE Live(cursor) /\ LiveObj' = LiveObj \ {cursor} /\ ~Kept(cursor)
    <3>1. cursor \notin MarkedObj
      BY <2>4 DEF Kept, MarkedObj
    <3>. QED  BY <2>1, <2>2, <2>4, <3>1, SweepReclaims
  <2>5. LiveObj' = LiveObj \/ (Live(cursor) /\ LiveObj' = LiveObj \ {cursor} /\ ~Kept(cursor))
    <3>1. CASE UNCHANGED word
      BY <3>1 DEF LiveObj, Live
    <3>2. CASE ~(UNCHANGED word)
      <4>1. Live(cursor) /\ ~Kept(cursor)
        BY <1>4, <3>2 DEF SweepNode
      <4>. QED  BY <1>4, <3>2, <4>1, SweepNodeEffect
    <3>. QED  BY <3>1, <3>2
  <2>. QED  BY <2>3, <2>4, <2>5
<1>5. CASE SweepElement
  <2>1. UNCHANGED <<content, rc, held, building>> /\ phase = "sweepElements"
    BY <1>5 DEF SweepElement, handleVars, program
  <2>2. cursor \in Obj
    BY <1>5, SweepElementEffect, SlotsDisjoint
  <2>3. CASE LiveObj' = LiveObj
    BY <2>1, <2>3, StutterStep
  <2>4. CASE Live(cursor) /\ LiveObj' = LiveObj \ {cursor} /\ ~Marked(cursor)
    <3>1. cursor \notin MarkedObj
      BY <2>4 DEF MarkedObj
    <3>. QED  BY <2>1, <2>2, <2>4, <3>1, SweepReclaims
  <2>5. LiveObj' = LiveObj \/ (Live(cursor) /\ LiveObj' = LiveObj \ {cursor} /\ ~Marked(cursor))
    <3>1. CASE UNCHANGED word
      BY <3>1 DEF LiveObj, Live
    <3>2. CASE ~(UNCHANGED word)
      <4>1. Live(cursor) /\ ~Marked(cursor)
        BY <1>5, <3>2 DEF SweepElement
      <4>. QED  BY <1>5, <3>2, <4>1, SweepElementEffect
    <3>. QED  BY <3>1, <3>2
  <2>. QED  BY <2>3, <2>4, <2>5
<1>6. CASE UNCHANGED <<word, content, rc, held, building>>
  <2>1. LiveObj' = LiveObj
    BY <1>6 DEF LiveObj, Live
  <2>. QED  BY <1>6, <2>1, StutterStep
<1>7. \/ AllocNode \/ \E n \in Node : AppendElement(n)
      \/ FinishList \/ ReleaseLock
      \/ \E h \in Handles, n \in Node : FromNode(h, n)
      \/ \E h, g \in Handles : CloneRc(h, g)
      \/ \E h \in Handles : DropRc(h)
      \/ \E n \in Node : MarkNode(n)
      \/ \E e \in Elem : MarkElement(e)
      \/ SweepNode \/ SweepElement
      \/ UNCHANGED <<word, content, rc, held, building>>
  BY DEF Next, vars, handleVars, program, AcquireLock, DropContext, BeginGc,
     GcStep, VisitElement, EndMark, EndSweepNodes, EndGc
<1>. QED
  BY <1>1, <1>2, <1>3, <1>4, <1>5, <1>6, <1>7, AppendExtends, FinishPublishes,
     ReferencesHold

(* The storage behaves as a heap that never reclaims or rewrites what the  *)
(* program can reach: allocation, list building, NodeRcs and collections   *)
(* in any order.                                                           *)
THEOREM Refinement ==
  ASSUME AttributeLists = FALSE
  PROVE  Spec => ImplementsReachableHeap
<1>1. Init => Heap!Init
  <2> SUFFICES ASSUME Init PROVE Heap!Init
    OBVIOUS
  <2>1. LiveObj = {} /\ Targets \cup held = {} /\ Drafted = {}
    BY DEF Init, LiveObj, Live, Targets, NonNull, Drafted
  <2>2. \A o \in Obj : Points(o) = {}
    BY DEF Init, Points, NonNull, Obj
  <2>. QED  BY <2>1, <2>2 DEF Heap!Init
<1>2. IInv /\ [Next]_vars => [Heap!Next]_Heap!vars
  BY StepRefined
<1>. QED  BY <1>1, <1>2, Invariance, PTL DEF Spec, ImplementsReachableHeap, Heap!Spec
=============================================================================
