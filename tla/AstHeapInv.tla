---------------------------- MODULE AstHeapInv ----------------------------
(***************************************************************************)
(* The inductive invariant of AstHeap, for programs without Option<NodeList>*)
(* fields (AttributeLists = FALSE): with them, the storage does not have   *)
(* these properties.                                                       *)
(***************************************************************************)
EXTENDS AstHeap

\* A slot never pushed is not live.
Pushed == (1..numNodes) \cup ((MaxNodes + 1)..(MaxNodes + numElems))

\* The three kinds of field other than Option<NodeList>; see above.
NoAttributeLists == \A n \in Node : attrs[n] = Null

InSeq(x, s) == \E i \in 1..Len(s) : s[i] = x
NoDuplicates(s) == \A i, j \in 1..Len(s) : s[i] = s[j] => i = j

FreeListInv ==
  /\ LiveObj \subseteq Pushed
  /\ \A n \in 1..numNodes : ~Live(n) <=> InSeq(n, freeNodes)
  /\ \A i \in 1..Len(freeNodes) : freeNodes[i] \in 1..numNodes
  /\ NoDuplicates(freeNodes)
  /\ \A e \in (MaxNodes + 1)..(MaxNodes + numElems) :
       ~Live(e) <=> InSeq(e, freeElems)
  /\ \A i \in 1..Len(freeElems) :
       freeElems[i] \in (MaxNodes + 1)..(MaxNodes + numElems)
  /\ NoDuplicates(freeElems)

(* The lock keeps references and unfinished lists out of a collection.     *)
LockInv ==
  /\ phase = "mark" => lock = "this"
  /\ phase \in {"sweepNodes", "sweepElements"} => lock = "none"
  /\ phase # "idle" \/ lock # "this" => held = {} /\ building = <<>>
  /\ phase # "mark" => pending = {} /\ toMark = {} /\ toVisit = {}
  /\ ~ctxLive => phase = "idle" /\ rcTotal = 0

(* The list under construction: apart from its last element, whose next is *)
(* null, it is not written to again.                                       *)
BuildingInv ==
  /\ \A i \in 1..Len(building) : Live(building[i])
  /\ building # <<>> => next[building[Len(building)]] = Null

MarkedObj == {o \in LiveObj : Marked(o)}

NextClosed(S) == \A e \in S : next[e] # Null => next[e] \in S
\* The element e lies on a list that is still being walked.
OnWalk(e) == \A S \in SUBSET Elem : toVisit \subseteq S /\ NextClosed(S) => e \in S

\* What the Marker has been called on, or will be.
Reached == MarkedObj \cup pending

(* While marking: a marked object's successors are marked, or the Marker   *)
(* still has them before it.                                               *)
MarkInv ==
  /\ Targets \subseteq LiveObj
  /\ Closed(LiveObj)
  /\ pending \cup toMark \cup toVisit \subseteq LiveObj
  /\ Targets \subseteq Reached
  /\ \A n \in MarkedObj \cap Node :
       /\ kid[n] # Null => kid[n] \in Reached
       /\ list[n] # Null => list[n] \in MarkedObj \cup toMark
  /\ \A e \in MarkedObj \cap Elem :
       /\ next[e] # Null => next[e] \in MarkedObj \cup toMark
       /\ inner[e] \in Reached \/ OnWalk(e)
  /\ \A e \in toMark : OnWalk(e)

(* Nothing is marked that no NodeRc leads to.                              *)
MarkExact ==
  phase # "idle" =>
    \A S \in SUBSET Obj :
      Targets \subseteq S /\ Closed(S)
        => MarkedObj \cup pending \cup toMark \cup toVisit \subseteq S

(* While sweeping: what is marked is closed and holds every NodeRc's node; *)
(* behind the cursor nothing else is live.                                 *)
SweepInv ==
  /\ Targets \subseteq MarkedObj
  /\ Closed(MarkedObj)
  /\ phase = "sweepNodes" =>
       /\ cursor \in 1..(numNodes + 1)
       /\ LiveObj \cap (1..(cursor - 1)) \subseteq MarkedObj
  /\ phase = "sweepElements" =>
       /\ cursor \in (MaxNodes + 1)..(MaxNodes + numElems + 1)
       /\ LiveObj \cap (1..(cursor - 1)) \subseteq MarkedObj

(* Every element holds a node.                                             *)
ElementInv == \A e \in LiveObj \cap Elem : inner[e] \in Node

IInv ==
  /\ TypeOK
  /\ NoAttributeLists
  /\ CountsMatchHandles
  /\ FreeListInv
  /\ LockInv
  /\ BuildingInv
  /\ ElementInv
  /\ NoDanglingPointer
  /\ NoStaleMark
  /\ phase = "mark" => MarkInv
  /\ MarkExact
  /\ phase \in {"sweepNodes", "sweepElements"} => SweepInv
=============================================================================
