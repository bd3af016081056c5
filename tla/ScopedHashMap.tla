--------------------------- MODULE ScopedHashMap ---------------------------
(***************************************************************************)
(* ScopedHashMap of crates/fft_support/src/scoped_hashmap.rs: one HashMap  *)
(* of stacks of heap-allocated nodes, with raw pointers from each node to  *)
(* the one it shadows and to the previous one of its scope.                *)
(*                                                                         *)
(* The allocator may hand out an address again as soon as it was freed, so *)
(* a pointer that is left behind would come to point to another node.      *)
(* Popping a scope is one step per node, as its loop is: each turn trusts  *)
(* pointers that the turns before it have rewritten.                       *)
(***************************************************************************)
EXTENDS Naturals, Sequences

CONSTANTS
  Key, Value,
  Ptr,             \* the addresses of nodes
  Null,            \* the null pointer
  Absent,          \* Option::None of a lookup
  MaxScopes        \* bound on the depth of scopes

ASSUME PtrAssumption == Null \notin Ptr
ASSUME AbsentAssumption == Absent \notin Value

VARIABLES
  node,            \* the allocated nodes: a function from their addresses
  map,             \* HashMap of Key to pointer; Null where there is no entry
  scopes,          \* the last node of every scope
  phase,           \* "idle", in pop_scope, in Drop, or dropped
  current,         \* pop_scope_impl's current
  result           \* what the last operation returned

vars == <<node, map, scopes, phase, current, result>>

Pointer == Ptr \cup {Null}
Heap == DOMAIN node
Depth == Len(scopes) - 1           \* current_scope_depth()

Init ==
  /\ node = [p \in {} |-> Null]
  /\ map = [k \in Key |-> Null]
  /\ scopes = <<Null>>
  /\ phase = "idle" /\ current = Null
  /\ result = Absent

-----------------------------------------------------------------------------
PushScope ==
  /\ phase = "idle"
  /\ Len(scopes) < MaxScopes
  /\ scopes' = Append(scopes, Null)
  /\ UNCHANGED <<node, map, phase, current, result>>

Occupied(k) == map[k] # Null

(* insert_into_scope.  insert is this at the current depth; a depth out of *)
(* range is refused by an assertion.                                       *)
AlreadyShadowed(d, k) ==
  /\ Occupied(k) /\ node[map[k]].depth > d
  /\ result' = "shadowed"
  /\ UNCHANGED <<node, map, scopes>>

ReplaceValue(d, k, v) ==
  /\ Occupied(k) /\ node[map[k]].depth = d
  /\ node' = [node EXCEPT ![map[k]].value = v]
  /\ result' = "ok"
  /\ UNCHANGED <<map, scopes>>

\* Mutant: a node inserted over another forgets what it shadows.
InsertNodeUnlinked(d, k, v) ==
  /\ Occupied(k) => node[map[k]].depth < d
  /\ \E p \in Ptr \ Heap :
       /\ node' = [q \in Heap \cup {p} |->
                     IF q = p
                       THEN [key |-> k, value |-> v, shadowed |-> Null,
                             prev |-> scopes[d + 1], depth |-> d]
                       ELSE node[q]]
       /\ map' = [map EXCEPT ![k] = p]
       /\ scopes' = [scopes EXCEPT ![d + 1] = p]
  /\ result' = "ok"

\* Mutant: the node joins the current scope's list whatever its depth.
InsertNodeOnTop(d, k, v) ==
  /\ Occupied(k) => node[map[k]].depth < d
  /\ \E p \in Ptr \ Heap :
       /\ node' = [q \in Heap \cup {p} |->
                     IF q = p
                       THEN [key |-> k, value |-> v, shadowed |-> map[k],
                             prev |-> scopes[Len(scopes)], depth |-> d]
                       ELSE node[q]]
       /\ map' = [map EXCEPT ![k] = p]
       /\ scopes' = [scopes EXCEPT ![Len(scopes)] = p]
  /\ result' = "ok"

\* Mutant: the node hides the nodes its scope has already.
InsertNodeAlone(d, k, v) ==
  /\ Occupied(k) => node[map[k]].depth < d
  /\ \E p \in Ptr \ Heap :
       /\ node' = [q \in Heap \cup {p} |->
                     IF q = p
                       THEN [key |-> k, value |-> v, shadowed |-> map[k],
                             prev |-> Null, depth |-> d]
                       ELSE node[q]]
       /\ map' = [map EXCEPT ![k] = p]
       /\ scopes' = [scopes EXCEPT ![d + 1] = p]
  /\ result' = "ok"

InsertNode(d, k, v) ==
  /\ Occupied(k) => node[map[k]].depth < d
  /\ \E p \in Ptr \ Heap :
       /\ node' = [q \in Heap \cup {p} |->
                     IF q = p
                       THEN [key |-> k, value |-> v, shadowed |-> map[k],
                             prev |-> scopes[d + 1], depth |-> d]
                       ELSE node[q]]
       /\ map' = [map EXCEPT ![k] = p]
       /\ scopes' = [scopes EXCEPT ![d + 1] = p]
  /\ result' = "ok"

InsertIntoScope(d, k, v) ==
  /\ phase = "idle"
  /\ d \in 0..Depth
  /\ \/ AlreadyShadowed(d, k)
     \/ ReplaceValue(d, k, v)
     \/ InsertNode(d, k, v)
  /\ UNCHANGED <<phase, current>>

Get(k) ==
  /\ phase = "idle"
  /\ result' = IF Occupied(k) THEN node[map[k]].value ELSE Absent
  /\ UNCHANGED <<node, map, scopes, phase, current>>

(* A write through the reference that get_mut returned.                    *)
Update(k, v) ==
  /\ phase = "idle"
  /\ Occupied(k)
  /\ node' = [node EXCEPT ![map[k]].value = v]
  /\ UNCHANGED <<map, scopes, phase, current, result>>

\* scopes.pop().unwrap().last
TakeLastScope ==
  /\ current' = scopes[Len(scopes)]
  /\ scopes' = SubSeq(scopes, 1, Len(scopes) - 1)

\* Mutant: the root scope may be popped.
PopScopeRoot ==
  /\ phase = "idle"
  /\ TakeLastScope
  /\ phase' = "pop"
  /\ UNCHANGED <<node, map, result>>

PopScope ==
  /\ phase = "idle"
  /\ Len(scopes) > 1
  /\ TakeLastScope
  /\ phase' = "pop"
  /\ UNCHANGED <<node, map, result>>

\* Mutant: the entry of a key that is bound no more is not removed.
PopNodeKeepsEntry ==
  /\ current # Null
  /\ LET popped == map[node[current].key] IN
       /\ map' = IF node[popped].shadowed = Null THEN map
                 ELSE [map EXCEPT ![node[current].key] = node[popped].shadowed]
       /\ current' = node[current].prev
       /\ node' = [q \in Heap \ {popped} |-> node[q]]
  /\ UNCHANGED <<scopes, phase, result>>

(* One turn of pop_scope_impl's loop, with pop_node: the innermost node of *)
(* the current node's key is unlinked and freed.                           *)
PopNode ==
  /\ current # Null
  /\ LET popped == map[node[current].key] IN
       /\ map' = [map EXCEPT ![node[current].key] = node[popped].shadowed]
       /\ current' = node[current].prev
       /\ node' = [q \in Heap \ {popped} |-> node[q]]
  /\ UNCHANGED <<scopes, phase, result>>

PopDone ==
  /\ phase = "pop" /\ current = Null
  /\ phase' = "idle"
  /\ UNCHANGED <<node, map, scopes, current, result>>

(* Drop pops every scope, the root too.                                    *)
BeginDrop ==
  /\ phase = "idle"
  /\ phase' = "drop"
  /\ UNCHANGED <<node, map, scopes, current, result>>

DropScope ==
  /\ phase = "drop" /\ current = Null /\ scopes # <<>>
  /\ TakeLastScope
  /\ UNCHANGED <<node, map, phase, result>>

\* Mutant: Drop stops at the root scope, as pop_scope does.
DropDoneAtRoot ==
  /\ phase = "drop" /\ current = Null /\ Len(scopes) = 1
  /\ phase' = "dropped"
  /\ UNCHANGED <<node, map, scopes, current, result>>

DropDone ==
  /\ phase = "drop" /\ current = Null /\ scopes = <<>>
  /\ phase' = "dropped"
  /\ UNCHANGED <<node, map, scopes, current, result>>

Next ==
  \/ PushScope
  \/ \E d \in 0..Depth, k \in Key, v \in Value : InsertIntoScope(d, k, v)
  \/ \E k \in Key : Get(k)
  \/ \E k \in Key, v \in Value : Update(k, v)
  \/ PopScope \/ PopNode \/ PopDone
  \/ BeginDrop \/ DropScope \/ DropDone

Spec == Init /\ [][Next]_vars
-----------------------------------------------------------------------------
(* Properties.                                                             *)

NodeRecord ==
  [key : Key, value : Value, shadowed : Pointer, prev : Pointer, depth : Nat]

(* Every field has its type; there is always a root scope to insert into.  *)
TypeOK ==
  /\ Heap \subseteq Ptr
  /\ node \in [Heap -> NodeRecord]
  /\ map \in [Key -> Pointer]
  /\ scopes \in Seq(Pointer)
  /\ phase \in {"idle", "pop", "drop", "dropped"}
  /\ phase \in {"idle", "pop"} => scopes # <<>>
  /\ current \in Pointer
  /\ result \in Value \cup {Absent, "ok", "shadowed"}

(* No pointer is left to a node that was freed, whose address the next     *)
(* insertion may be given.                                                 *)
NoStalePointer ==
  /\ \A k \in Key : map[k] \in Heap \cup {Null}
  /\ \A p \in Heap : {node[p].shadowed, node[p].prev} \subseteq Heap \cup {Null}
  /\ \A i \in 1..Len(scopes) : scopes[i] \in Heap \cup {Null}
  /\ current \in Heap \cup {Null}

(* The assertions of pop_scope_impl, "Bad scope link" and "Unexpected      *)
(* innermost value for key": the node a scope ends with is the innermost   *)
(* of its key, although insertions came in any order and at any depth.     *)
PopsInnermost ==
  current # Null =>
    /\ node[current].depth = Len(scopes)
    /\ map[node[current].key] = current

(* A node belongs to a scope that is still there, so that inserting at the *)
(* current depth never finds the key shadowed; and none is left at the end.*)
NoNodeOutlivesScope ==
  /\ phase = "idle" => \A p \in Heap : node[p].depth <= Depth
  /\ phase = "dropped" => Heap = {}

(* The refinement: the map at depth d holds what the nodes of depth d say. *)
At(d, k) == {p \in Heap : node[p].key = k /\ node[p].depth = d}
Stack ==
  IF phase \in {"drop", "dropped"} THEN <<>>
  ELSE [i \in 1..Len(scopes) |->
          [k \in Key |->
             IF At(i - 1, k) = {} THEN Absent
                                  ELSE node[CHOOSE p \in At(i - 1, k) : TRUE].value]]

Maps == INSTANCE ScopeStack WITH maps <- Stack

(* Lookups, insertions and their errors are those of a stack of HashMaps.  *)
ImplementsScopeStack == Maps!Spec

-----------------------------------------------------------------------------
(* The inductive invariant.                                                *)

SameKey(p, q) == node[p].key = node[q].key

(* The map's entry of a key is the innermost of the key's nodes.           *)
MapInv ==
  \A k \in Key :
    /\ ~Occupied(k) => \A p \in Heap : node[p].key # k
    /\ Occupied(k) =>
         /\ node[map[k]].key = k
         /\ \A p \in Heap : node[p].key = k => node[p].depth <= node[map[k]].depth

(* A node shadows the next one out among its key's nodes, if there is one. *)
ShadowInv ==
  \A p \in Heap :
    /\ node[p].shadowed # Null =>
         /\ SameKey(node[p].shadowed, p)
         /\ node[node[p].shadowed].depth < node[p].depth
    /\ \A q \in Heap :
         SameKey(p, q) /\ node[q].depth < node[p].depth =>
           /\ node[p].shadowed # Null
           /\ node[q].depth <= node[node[p].shadowed].depth

OneNodePerScope ==
  \A p, q \in Heap : SameKey(p, q) /\ node[p].depth = node[q].depth => p = q

(* The scopes' lists are apart, and each node but the last of a list has   *)
(* one successor.                                                          *)
ListInv ==
  /\ \A i \in 1..Len(scopes) : scopes[i] # Null => node[scopes[i]].depth = i - 1
  /\ current # Null => node[current].depth = Len(scopes)
  /\ \A p \in Heap : node[p].prev # Null =>
       /\ node[node[p].prev].depth = node[p].depth
       /\ node[p].prev # current
       /\ \A i \in 1..Len(scopes) : node[p].prev # scopes[i]
       /\ \A q \in Heap : node[q].prev = node[p].prev => q = p

\* p can be reached from the pointer s through prev_in_scope.
PrevClosed(S) == \A q \in S \cap Heap : node[q].prev # Null => node[q].prev \in S
OnList(p, s) ==
  \A S \in SUBSET Ptr : (s # Null => s \in S) /\ PrevClosed(S) => p \in S

(* Every node is on its scope's list, or on what is left of it.            *)
OnListInv ==
  \A p \in Heap :
    /\ node[p].depth <= Len(scopes)
    /\ \A i \in 1..Len(scopes) : node[p].depth = i - 1 => OnList(p, scopes[i])
    /\ node[p].depth = Len(scopes) => OnList(p, current)

PhaseInv ==
  /\ current # Null => phase \in {"pop", "drop"}
  /\ phase = "dropped" => scopes = <<>>

Inv ==
  /\ TypeOK /\ NoStalePointer
  /\ MapInv /\ ShadowInv /\ OneNodePerScope
  /\ ListInv /\ OnListInv /\ PhaseInv
=============================================================================
