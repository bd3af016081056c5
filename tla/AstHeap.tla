------------------------------ MODULE AstHeap ------------------------------
(***************************************************************************)
(* The garbage-collected storage of AST nodes: Context, GCLock, NodeRc and *)
(* Context::gc of crates/fft_ast/src/context.rs, the NodeList builder of   *)
(* node_child.rs, and the Marker visitor.                                  *)
(*                                                                         *)
(* One Context is modelled, used from one thread; another Context of the   *)
(* same thread is seen only through the thread-local GCLOCK_IN_USE.  A     *)
(* node has one field of each kind of child the AST has: a node, a         *)
(* NodeList, and an Option<NodeList>.  The slots of the two Deques are     *)
(* numbers: nodes are 1..MaxNodes, list elements follow them; 0 is null.   *)
(*                                                                         *)
(* The collector's loops are steps of their own.  Nothing of the program   *)
(* runs between them (gc takes &mut Context), but what a step may find and *)
(* leave is what the collector has to get right.                           *)
(***************************************************************************)
EXTENDS Integers, Sequences, FiniteSets

CONSTANTS
  MaxNodes,        \* bound on the node slots ever pushed
  MaxElems,        \* bound on the list element slots ever pushed
  Handles,         \* the NodeRc values the program may have at a time
  CtxId,           \* Context::id, drawn from NEXT_ID
  MarkBit,         \* the top bit of a 32-bit ctx_id_markbit, 1 << 31
  AttributeLists   \* may a node have a non-empty Option<NodeList>?

Node == 1..MaxNodes
Elem == (MaxNodes + 1)..(MaxNodes + MaxElems)
Obj == Node \cup Elem
Null == 0
Free == 0          \* FREE_ENTRY

ASSUME BoundsAssumption ==
  /\ MaxNodes \in Nat
  /\ MaxElems \in Nat
  /\ IsFiniteSet(Handles)
  /\ AttributeLists \in BOOLEAN

(* NEXT_ID is a u32 that no code keeps from reaching the mark bit or from  *)
(* wrapping around to FREE_ENTRY: the storage works only while it has not. *)
ASSUME CtxIdAssumption ==
  /\ MarkBit \in Nat
  /\ CtxId \in 1..(MarkBit - 1)

VARIABLES
  word,            \* ctx_id_markbit of every slot
  count,           \* StorageEntry::count of every node
  kid, list, attrs,\* the three fields of a node
  inner, next,     \* NodeListElement::{inner, next}
  numNodes,        \* nodes.len()
  numElems,        \* list_elements.len()
  freeNodes,       \* the stack free_nodes
  freeElems,       \* the stack free_list_elements
  markedBit,       \* markbit_marked
  rcTotal,         \* noderc_count.count
  ctxLive,         \* the Context has not been dropped
  rc,              \* the node each NodeRc of the program points to
  lock,            \* GCLOCK_IN_USE, and for which Context
  held,            \* what &Node and NodeList values of this lock refer to
  building,        \* elements of from_iter's unfinished list, head to prev
  phase, cursor,   \* where Context::gc is, and its sweep's position
  pending,         \* nodes the Marker has yet to be called on
  toMark,          \* the element mark_list is at
  toVisit          \* the elements visit_child of NodeLists are at

content == <<kid, list, attrs, inner, next>>
storage == <<numNodes, numElems, freeNodes, freeElems>>
handleVars == <<count, rcTotal, rc>>
program == <<held, building, ctxLive>>
marker == <<pending, toMark, toVisit>>
vars == <<word, content, storage, markedBit, handleVars, program, lock,
          phase, cursor, marker>>

NonNull(s) == s \ {Null}
Live(o) == word[o] # Free                         \* not is_free()
LiveObj == {o \in Obj : Live(o)}
Marked(o) == (word[o] >= MarkBit) = markedBit     \* markbit() == markbit_marked
SetMarkbit(w, b) ==
  IF b THEN (IF w >= MarkBit THEN w ELSE w + MarkBit)
       ELSE (IF w >= MarkBit THEN w - MarkBit ELSE w)
\* Mutant: a fresh entry gets the bit that means marked.
FreshWordMarked == SetMarkbit(CtxId, markedBit)
FreshWord == SetMarkbit(CtxId, ~markedBit)

Points(o) ==
  IF o \in Node THEN NonNull({kid[o], list[o], attrs[o]})
                ELSE NonNull({inner[o], next[o]})
Closed(S) == \A o \in S : Points(o) \subseteq S

Target(h) == rc[h]
Targets == NonNull({rc[h] : h \in Handles})
Drafted == {building[i] : i \in 1..Len(building)}

\* What the program can reach under the lock: the least closed set around it.
Accessible ==
  {o \in Obj : \A S \in SUBSET Obj :
     Targets \cup held \subseteq S /\ Closed(S) => o \in S}
ListsInHand ==
  NonNull(UNION {{list[n], attrs[n]} : n \in Accessible \cap Node})
    \cup (held \cap Elem)

Init ==
  /\ word = [o \in Obj |-> Free]
  /\ count = [n \in Node |-> 0]
  /\ kid = [n \in Node |-> Null]
  /\ list = [n \in Node |-> Null]
  /\ attrs = [n \in Node |-> Null]
  /\ inner = [e \in Elem |-> Null]
  /\ next = [e \in Elem |-> Null]
  /\ numNodes = 0 /\ numElems = 0
  /\ freeNodes = <<>> /\ freeElems = <<>>
  /\ markedBit = TRUE
  /\ rcTotal = 0
  /\ ctxLive = TRUE
  /\ rc = [h \in Handles |-> Null]
  /\ lock = "none"
  /\ held = {}
  /\ building = <<>>
  /\ phase = "idle" /\ cursor = 1
  /\ pending = {} /\ toMark = {} /\ toVisit = {}

-----------------------------------------------------------------------------
(* The program.                                                            *)

Running == ctxLive /\ phase = "idle"
Locked == Running /\ lock = "this"

(* GCLock::new panics when the thread already has a lock, this Context's   *)
(* or another's: no state is changed by the attempt.                       *)
AcquireLock ==
  /\ Running /\ lock = "none"
  /\ lock' \in {"this", "other"}
  /\ UNCHANGED <<word, content, storage, markedBit, handleVars, program,
                 phase, cursor, marker>>

(* Drop of GCLock.  No reference into the Context outlives its lock.       *)
ReleaseLock ==
  /\ Running /\ lock # "none"
  /\ lock' = "none"
  /\ held' = {}
  /\ building' = <<>>
  /\ UNCHANGED <<word, content, storage, markedBit, handleVars, ctxLive,
                 phase, cursor, marker>>

(* Storage comes off the free list, or else is pushed to the Deque.        *)
NodeSlot == IF freeNodes # <<>> THEN freeNodes[Len(freeNodes)]
                                ELSE numNodes + 1
ElemSlot == IF freeElems # <<>> THEN freeElems[Len(freeElems)]
                                ELSE MaxNodes + numElems + 1

Alloc(k, l, a) ==
  LET n == NodeSlot IN
  /\ Locked
  /\ \/ /\ freeNodes # <<>>
        /\ freeNodes' = SubSeq(freeNodes, 1, Len(freeNodes) - 1)
        /\ UNCHANGED <<numNodes, count>>
     \/ /\ freeNodes = <<>> /\ numNodes < MaxNodes
        /\ numNodes' = n
        /\ count' = [count EXCEPT ![n] = 0]
        /\ UNCHANGED freeNodes
  /\ word' = [word EXCEPT ![n] = FreshWord]
  /\ kid' = [kid EXCEPT ![n] = k]
  /\ list' = [list EXCEPT ![n] = l]
  /\ attrs' = [attrs EXCEPT ![n] = a]
  /\ held' = held \cup {n}
  /\ UNCHANGED <<inner, next, numElems, freeElems, markedBit, rcTotal, rc,
                 building, ctxLive, lock, phase, cursor, marker>>

AllocNode ==
  \E k \in (Accessible \cap Node) \cup {Null}, l \in ListsInHand \cup {Null} :
    \E a \in IF AttributeLists THEN ListsInHand \cup {Null} ELSE {Null} :
      Alloc(k, l, a)

\* Mutant: a reused element keeps the next of the list it was on.
AppendElementStaleNext(n) ==
  LET e == ElemSlot IN
  /\ Locked
  /\ n \in Accessible
  /\ \/ /\ freeElems # <<>>
        /\ freeElems' = SubSeq(freeElems, 1, Len(freeElems) - 1)
        /\ UNCHANGED numElems
     \/ /\ freeElems = <<>> /\ numElems < MaxElems
        /\ numElems' = numElems + 1
        /\ UNCHANGED freeElems
  /\ word' = [word EXCEPT ![e] = FreshWord]
  /\ inner' = [inner EXCEPT ![e] = n]
  /\ next' = IF building = <<>>
               THEN next
               ELSE [next EXCEPT ![building[Len(building)]] = e]
  /\ building' = Append(building, e)
  /\ UNCHANGED <<kid, list, attrs, numNodes, freeNodes, markedBit, handleVars,
                 held, ctxLive, lock, phase, cursor, marker>>

(* One turn of NodeList::from_iter: append_list_element(prev, n).          *)
AppendElement(n) ==
  LET e == ElemSlot IN
  /\ Locked
  /\ n \in Accessible
  /\ \/ /\ freeElems # <<>>
        /\ freeElems' = SubSeq(freeElems, 1, Len(freeElems) - 1)
        /\ UNCHANGED numElems
     \/ /\ freeElems = <<>> /\ numElems < MaxElems
        /\ numElems' = numElems + 1
        /\ UNCHANGED freeElems
  /\ word' = [word EXCEPT ![e] = FreshWord]
  /\ inner' = [inner EXCEPT ![e] = n]
  /\ next' = IF building = <<>>
               THEN [next EXCEPT ![e] = Null]
               ELSE [next EXCEPT ![e] = Null, ![building[Len(building)]] = e]
  /\ building' = Append(building, e)
  /\ UNCHANGED <<kid, list, attrs, numNodes, freeNodes, markedBit, handleVars,
                 held, ctxLive, lock, phase, cursor, marker>>

FinishList ==
  /\ Locked
  /\ building # <<>>
  /\ held' = held \cup {building[1]}
  /\ building' = <<>>
  /\ UNCHANGED <<word, content, storage, markedBit, handleVars, ctxLive, lock,
                 phase, cursor, marker>>

\* Mutant: a NodeRc is made without counting it in its entry.
PointHandleUncounted(h, n) ==
  /\ rc[h] = Null
  /\ rc' = [rc EXCEPT ![h] = n]
  /\ rcTotal' = rcTotal + 1
  /\ UNCHANGED <<word, content, storage, markedBit, count, program, lock, phase,
                 cursor, marker>>

\* Mutant: a NodeRc is made without counting it in its Context.
PointHandleUnregistered(h, n) ==
  /\ rc[h] = Null
  /\ rc' = [rc EXCEPT ![h] = n]
  /\ count' = [count EXCEPT ![n] = @ + 1]
  /\ UNCHANGED <<word, content, storage, markedBit, rcTotal, program, lock,
                 phase, cursor, marker>>

(* NodeRc::from_node, and Clone of NodeRc, which needs no lock.            *)
PointHandle(h, n) ==
  /\ rc[h] = Null
  /\ rc' = [rc EXCEPT ![h] = n]
  /\ count' = [count EXCEPT ![n] = @ + 1]
  /\ rcTotal' = rcTotal + 1
  /\ UNCHANGED <<word, content, storage, markedBit, program, lock, phase,
                 cursor, marker>>
FromNode(h, n) == Locked /\ n \in Accessible /\ PointHandle(h, n)
CloneRc(h, g) == Running /\ rc[g] # Null /\ PointHandle(h, rc[g])

\* Mutant: the entry's count is not taken back when a NodeRc goes.
DropRcKeepsCount(h) ==
  /\ Running
  /\ rc[h] # Null
  /\ rc' = [rc EXCEPT ![h] = Null]
  /\ rcTotal' = rcTotal - 1
  /\ held' = IF lock = "this" THEN held \cup {rc[h]} ELSE held
  /\ UNCHANGED <<word, content, storage, markedBit, count, building, ctxLive,
                 lock, phase, cursor, marker>>

(* Drop of NodeRc.  A &Node that NodeRc::node returned may stay in hand:   *)
(* it borrows the lock, not the NodeRc.                                    *)
DropRc(h) ==
  /\ Running
  /\ rc[h] # Null
  /\ rc' = [rc EXCEPT ![h] = Null]
  /\ count' = [count EXCEPT ![rc[h]] = @ - 1]
  /\ rcTotal' = rcTotal - 1
  /\ held' = IF lock = "this" THEN held \cup {rc[h]} ELSE held
  /\ UNCHANGED <<word, content, storage, markedBit, building, ctxLive, lock,
                 phase, cursor, marker>>

(* Drop of Context panics while a NodeRc is outstanding.                   *)
DropContext ==
  /\ Running /\ lock # "this"
  /\ rcTotal = 0
  /\ ctxLive' = FALSE
  /\ UNCHANGED <<word, content, storage, markedBit, handleVars, held, building,
                 lock, phase, cursor, marker>>

-----------------------------------------------------------------------------
(* Context::gc.                                                            *)

\* Mutant: only nodes with more than one NodeRc are roots.
BeginGcSharedRoots ==
  /\ Running /\ lock = "none"
  /\ pending' = {n \in 1..numNodes : Live(n) /\ count[n] > 1}
  /\ lock' = "this"
  /\ phase' = "mark"
  /\ UNCHANGED <<word, content, storage, markedBit, handleVars, program,
                 cursor, toMark, toVisit>>

(* The roots are collected and the lock is taken; GCLock::new panics here  *)
(* when another Context of the thread is locked.                           *)
BeginGc ==
  /\ Running /\ lock = "none"
  /\ pending' = {n \in 1..numNodes : Live(n) /\ count[n] > 0}
  /\ lock' = "this"
  /\ phase' = "mark"
  /\ UNCHANGED <<word, content, storage, markedBit, handleVars, program,
                 cursor, toMark, toVisit>>

\* Mutant: the node's NodeList is visited and not marked.
MarkNodeOnly(n) ==
  /\ phase = "mark" /\ toMark = {} /\ toVisit = {}
  /\ n \in pending
  /\ \/ /\ Marked(n)
        /\ pending' = pending \ {n}
        /\ UNCHANGED <<word, toVisit>>
     \/ /\ ~Marked(n)
        /\ word' = [word EXCEPT ![n] = SetMarkbit(@, markedBit)]
        /\ toVisit' = NonNull({list[n], attrs[n]})
        /\ pending' = (pending \ {n}) \cup NonNull({kid[n]})
  /\ UNCHANGED <<content, storage, markedBit, handleVars, program, lock, phase,
                 cursor, toMark>>

(* Marker::call.  The lists of the node are marked before its children are *)
(* visited; the order in which pending nodes are taken is left open.  An   *)
(* Option<NodeList> is visited but, mark_list having no implementation for *)
(* Option, not marked.                                                     *)
MarkNode(n) ==
  /\ phase = "mark" /\ toMark = {} /\ toVisit = {}
  /\ n \in pending
  /\ \/ /\ Marked(n)
        /\ pending' = pending \ {n}
        /\ UNCHANGED <<word, toMark, toVisit>>
     \/ /\ ~Marked(n)
        /\ word' = [word EXCEPT ![n] = SetMarkbit(@, markedBit)]
        /\ toMark' = NonNull({list[n]})
        /\ toVisit' = NonNull({list[n], attrs[n]})
        /\ pending' = (pending \ {n}) \cup NonNull({kid[n]})
  /\ UNCHANGED <<content, storage, markedBit, handleVars, program, lock, phase,
                 cursor>>

\* Mutant: only the head of a list is marked.
MarkHead(e) ==
  /\ phase = "mark"
  /\ e \in toMark
  /\ word' = [word EXCEPT ![e] = SetMarkbit(@, markedBit)]
  /\ toMark' = toMark \ {e}
  /\ UNCHANGED <<content, storage, markedBit, handleVars, program, lock, phase,
                 cursor, pending, toVisit>>

\* Mutant: the walk over a list does not advance.
MarkElementAgain(e) ==
  /\ phase = "mark"
  /\ e \in toMark
  /\ word' = [word EXCEPT ![e] = SetMarkbit(@, markedBit)]
  /\ UNCHANGED <<content, storage, markedBit, handleVars, program, lock, phase,
                 cursor, marker>>

MarkElement(e) ==
  /\ phase = "mark"
  /\ e \in toMark
  /\ word' = [word EXCEPT ![e] = SetMarkbit(@, markedBit)]
  /\ toMark' = (toMark \ {e}) \cup NonNull({next[e]})
  /\ UNCHANGED <<content, storage, markedBit, handleVars, program, lock, phase,
                 cursor, pending, toVisit>>

VisitElement(e) ==
  /\ phase = "mark" /\ toMark = {}
  /\ e \in toVisit
  /\ pending' = pending \cup {inner[e]}
  /\ toVisit' = (toVisit \ {e}) \cup NonNull({next[e]})
  /\ UNCHANGED <<word, content, storage, markedBit, handleVars, program, lock,
                 phase, cursor, toMark>>

EndMark ==
  /\ phase = "mark"
  /\ pending = {} /\ toMark = {} /\ toVisit = {}
  /\ lock' = "none"
  /\ phase' = "sweepNodes"
  /\ cursor' = 1
  /\ UNCHANGED <<word, content, storage, markedBit, handleVars, program, marker>>

Kept(n) == Marked(n) \/ (n \in Node /\ count[n] > 0)

\* Mutant: the sweep does not skip free entries.
SweepFreeNode ==
  /\ phase = "sweepNodes" /\ cursor <= numNodes
  /\ \/ /\ Kept(cursor)
        /\ UNCHANGED <<word, freeNodes>>
     \/ /\ ~Kept(cursor)
        /\ word' = [word EXCEPT ![cursor] = Free]
        /\ freeNodes' = Append(freeNodes, cursor)
  /\ cursor' = cursor + 1
  /\ UNCHANGED <<content, numNodes, numElems, freeElems, markedBit, handleVars,
                 program, lock, phase, marker>>

SweepNode ==
  /\ phase = "sweepNodes" /\ cursor <= numNodes
  /\ \/ /\ ~Live(cursor) \/ Kept(cursor)
        /\ UNCHANGED <<word, freeNodes>>
     \/ /\ Live(cursor) /\ ~Kept(cursor)
        /\ word' = [word EXCEPT ![cursor] = Free]
        /\ freeNodes' = Append(freeNodes, cursor)
  /\ cursor' = cursor + 1
  /\ UNCHANGED <<content, numNodes, numElems, freeElems, markedBit, handleVars,
                 program, lock, phase, marker>>

EndSweepNodes ==
  /\ phase = "sweepNodes" /\ cursor = numNodes + 1
  /\ phase' = "sweepElements"
  /\ cursor' = MaxNodes + 1
  /\ UNCHANGED <<word, content, storage, markedBit, handleVars, program, lock,
                 marker>>

SweepElement ==
  /\ phase = "sweepElements" /\ cursor <= MaxNodes + numElems
  /\ \/ /\ ~Live(cursor) \/ Marked(cursor)
        /\ UNCHANGED <<word, freeElems>>
     \/ /\ Live(cursor) /\ ~Marked(cursor)
        /\ word' = [word EXCEPT ![cursor] = Free]
        /\ freeElems' = Append(freeElems, cursor)
  /\ cursor' = cursor + 1
  /\ UNCHANGED <<content, numNodes, numElems, freeNodes, markedBit, handleVars,
                 program, lock, phase, marker>>

\* Mutant: the meaning of the mark bit is not flipped.
EndGcUnflipped ==
  /\ phase = "sweepElements" /\ cursor = MaxNodes + numElems + 1
  /\ phase' = "idle"
  /\ cursor' = 1
  /\ UNCHANGED <<word, content, storage, markedBit, handleVars, program, lock,
                 marker>>

EndGc ==
  /\ phase = "sweepElements" /\ cursor = MaxNodes + numElems + 1
  /\ markedBit' = ~markedBit
  /\ phase' = "idle"
  /\ cursor' = 1
  /\ UNCHANGED <<word, content, storage, handleVars, program, lock, marker>>

GcStep ==
  \/ \E n \in Node : MarkNode(n)
  \/ \E e \in Elem : MarkElement(e) \/ VisitElement(e)
  \/ EndMark \/ SweepNode \/ EndSweepNodes \/ SweepElement \/ EndGc

Next ==
  \/ AcquireLock \/ ReleaseLock
  \/ AllocNode
  \/ \E n \in Node : AppendElement(n)
  \/ FinishList
  \/ \E h \in Handles, n \in Node : FromNode(h, n)
  \/ \E h, g \in Handles : CloneRc(h, g)
  \/ \E h \in Handles : DropRc(h)
  \/ DropContext
  \/ BeginGc \/ GcStep

Spec == Init /\ [][Next]_vars

\* gc is a synchronous call: once begun, it runs on.
FairSpec == Spec /\ WF_vars(GcStep)
-----------------------------------------------------------------------------
(* Properties.                                                             *)

(* Every variable has the type of the field or local it stands for.        *)
TypeOK ==
  /\ word \in [Obj -> {Free, CtxId, CtxId + MarkBit}]
  /\ count \in [Node -> Nat]
  /\ kid \in [Node -> Node \cup {Null}]
  /\ list \in [Node -> Elem \cup {Null}]
  /\ attrs \in [Node -> Elem \cup {Null}]
  /\ inner \in [Elem -> Node \cup {Null}]
  /\ next \in [Elem -> Elem \cup {Null}]
  /\ numNodes \in 0..MaxNodes
  /\ numElems \in 0..MaxElems
  /\ freeNodes \in Seq(Node)
  /\ freeElems \in Seq(Elem)
  /\ markedBit \in BOOLEAN
  /\ rcTotal \in Nat
  /\ ctxLive \in BOOLEAN
  /\ rc \in [Handles -> Node \cup {Null}]
  /\ lock \in {"none", "this", "other"}
  /\ held \subseteq Obj
  /\ building \in Seq(Elem)
  /\ phase \in {"idle", "mark", "sweepNodes", "sweepElements"}
  /\ cursor \in Nat \ {0}
  /\ pending \subseteq Node
  /\ toMark \subseteq Elem
  /\ toVisit \subseteq Elem

(* Between collections, whatever a NodeRc, a reference in hand or a live   *)
(* entry points to is itself not free: neither a freed slot nor, since a   *)
(* slot is reused only off the free list, somebody else's object.          *)
NoDanglingPointer ==
  phase = "idle" =>
    /\ Targets \cup held \cup Drafted \subseteq LiveObj
    /\ Closed(LiveObj)

(* The counts an entry and the Context keep are the NodeRcs that exist:    *)
(* on them depend what gc takes as roots and whether a Context may drop.   *)
CountsMatchHandles ==
  /\ \A n \in Node : count[n] = Cardinality({h \in Handles : rc[h] = n})
  /\ rcTotal = Cardinality({h \in Handles : rc[h] # Null})

(* The free lists hold each free slot once and nothing else, so that no    *)
(* slot is handed out twice or lost, across any number of collections.     *)
FreeListExact ==
  /\ \A n \in 1..numNodes :
       ~Live(n) <=> \E i \in 1..Len(freeNodes) : freeNodes[i] = n
  /\ \A i, j \in 1..Len(freeNodes) : freeNodes[i] = freeNodes[j] => i = j
  /\ \A e \in (MaxNodes + 1)..(MaxNodes + numElems) :
       ~Live(e) <=> \E i \in 1..Len(freeElems) : freeElems[i] = e
  /\ \A i, j \in 1..Len(freeElems) : freeElems[i] = freeElems[j] => i = j

(* No entry is marked before a collection starts, although the meaning of  *)
(* the mark bit flips with each one and fresh entries get a bit too.       *)
NoStaleMark ==
  phase = "idle" => \A o \in LiveObj : ~Marked(o)

(* No NodeRc is left when its Context has gone: the count that Drop of     *)
(* Context consults has not missed one.                                    *)
NoHandleOutlivesContext ==
  ~ctxLive => Targets = {}

(* A collection leaves nothing that cannot be reached from a NodeRc: a     *)
(* closed set of slots that holds all targets holds all that is live.      *)
GcComplete ==
  [][EndGc => \A S \in SUBSET Obj :
                Targets \subseteq S /\ Closed(S) => LiveObj \subseteq S]_vars

(* A collection, once begun, finishes, whatever is shared between lists    *)
(* and whatever was marked already.                                        *)
GcTerminates == (phase # "idle") ~> (phase = "idle")

(* The refinement: list elements of an unfinished list are the draft; what *)
(* NodeRcs and the lock's references point to are the roots.               *)
Heap == INSTANCE ReachableHeap WITH
  live <- LiveObj,
  points <- [o \in Obj |-> Points(o)],
  roots <- Targets \cup held,
  draft <- Drafted

(* The storage behaves as a heap that never reclaims or rewrites what the  *)
(* program can reach.                                                      *)
ImplementsReachableHeap == Heap!Spec
=============================================================================
