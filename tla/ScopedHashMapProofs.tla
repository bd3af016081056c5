------------------------ MODULE ScopedHashMapProofs ------------------------
(***************************************************************************)
(* ScopedHashMap's invariant, for every number of keys, nodes and scopes.  *)
(***************************************************************************)
EXTENDS ScopedHashMap, SequenceTheorems, TLAPS

(* A list that ends at null has no nodes.                                  *)
LEMMA NotOnNull == \A p : ~OnList(p, Null)
<1> SUFFICES ASSUME NEW p PROVE ~OnList(p, Null)
  OBVIOUS
<1>1. {} \in SUBSET Ptr /\ PrevClosed({})
  BY DEF PrevClosed
<1>. QED  BY <1>1 DEF OnList

\* A new map has the invariant.
LEMMA InvInit == Init => Inv
<1> SUFFICES ASSUME Init PROVE Inv
  OBVIOUS
<1>1. Heap = {} /\ node = [p \in {} |-> Null]
  BY DEF Init, Heap
<1>2. scopes = <<Null>> /\ Len(scopes) = 1 /\ scopes \in Seq(Pointer)
      /\ \A i \in 1..Len(scopes) : scopes[i] = Null
  BY DEF Init, Pointer
<1>3. TypeOK
  BY <1>1, <1>2 DEF Init, TypeOK, Pointer
<1>. QED
  BY <1>1, <1>2, <1>3 DEF Init, Inv, NoStalePointer, MapInv, ShadowInv,
    OneNodePerScope, ListInv, OnListInv, PhaseInv, Occupied

-----------------------------------------------------------------------------
(* The steps, one at a time.                                               *)

(* A step that changes no node's links and no pointer.                     *)
LEMMA SameLinks ==
  ASSUME Inv, UNCHANGED <<map, scopes, current>>,
         Heap' = Heap, node' \in [Heap -> NodeRecord],
         \A p \in Heap : /\ node'[p].key = node[p].key
                         /\ node'[p].shadowed = node[p].shadowed
                         /\ node'[p].prev = node[p].prev
                         /\ node'[p].depth = node[p].depth,
         phase' \in {"idle", "pop", "drop", "dropped"},
         phase' \in {"idle", "pop"} => scopes # <<>>,
         current # Null => phase' \in {"pop", "drop"},
         phase' = "dropped" => scopes = <<>>,
         result' \in Value \cup {Absent, "ok", "shadowed"}
  PROVE  Inv'
<1>t. TypeOK /\ NoStalePointer
  BY DEF Inv
<1>1. TypeOK'
  BY <1>t DEF TypeOK, NodeRecord, Pointer
<1>2. NoStalePointer'
  BY <1>t DEF NoStalePointer
<1>3. MapInv'
  BY <1>t DEF Inv, MapInv, Occupied, NoStalePointer
<1>4. ShadowInv' /\ OneNodePerScope'
  BY <1>t DEF Inv, ShadowInv, OneNodePerScope, SameKey, NoStalePointer
<1>5. ListInv'
  BY <1>t DEF Inv, ListInv, NoStalePointer
<1>6. \A S : PrevClosed(S)' <=> PrevClosed(S)
  BY DEF PrevClosed
<1>7. \A p, s : OnList(p, s)' <=> OnList(p, s)
  BY <1>6 DEF OnList
<1>8. OnListInv'
  BY <1>7 DEF Inv, OnListInv
<1>9. PhaseInv'
  BY DEF PhaseInv
<1>. QED  BY <1>1, <1>2, <1>3, <1>4, <1>5, <1>8, <1>9 DEF Inv

\* Replacing a value changes no link.
LEMMA InvSetValue ==
  ASSUME Inv, phase = "idle", NEW k \in Key, NEW v \in Value, Occupied(k),
         node' = [node EXCEPT ![map[k]].value = v],
         UNCHANGED <<map, scopes, phase, current>>,
         result' \in Value \cup {Absent, "ok", "shadowed"}
  PROVE  Inv'
<1>1. TypeOK /\ map[k] \in Heap /\ current = Null
  BY DEF Inv, NoStalePointer, Occupied, PhaseInv
<1>2. node \in [Heap -> NodeRecord] /\ Heap' = Heap
  BY <1>1 DEF TypeOK, Heap
<1>3. \A p \in Heap : node'[p] = IF p = map[k] THEN [node[p] EXCEPT !.value = v]
                                               ELSE node[p]
  BY <1>1, <1>2
<1>4. \A p \in Heap : node'[p] \in NodeRecord
  BY <1>2, <1>3 DEF NodeRecord
<1>5. node' \in [Heap -> NodeRecord]
  BY <1>2, <1>4 DEF Heap
<1>6. \A p \in Heap : /\ node'[p].key = node[p].key
                      /\ node'[p].shadowed = node[p].shadowed
                      /\ node'[p].prev = node[p].prev
                      /\ node'[p].depth = node[p].depth
  BY <1>2, <1>3 DEF NodeRecord
<1>. QED  BY <1>1, <1>2, <1>5, <1>6, SameLinks DEF TypeOK

(* What is left of a sequence without its last element.                    *)
LEMMA Front ==
  ASSUME NEW T, NEW s \in Seq(T), s # <<>>, NEW t, t = SubSeq(s, 1, Len(s) - 1)
  PROVE  /\ Len(s) \in Nat \ {0}
         /\ t \in Seq(T)
         /\ Len(t) = Len(s) - 1
         /\ \A i \in 1..Len(t) : t[i] = s[i]
<1>1. Len(s) \in Nat \ {0}
  BY EmptySeq
<1>2. /\ \A i \in 1..(Len(s) - 1) : s[i] \in T
      /\ Len(s) - 1 \in Int /\ 1 \in Int
  BY <1>1
<1>3. /\ Len(t) = IF 1 <= Len(s) - 1 THEN Len(s) - 1 - 1 + 1 ELSE 0
      /\ \A i \in 1..(Len(s) - 1 - 1 + 1) : t[i] = s[1 + i - 1]
  BY <1>2, SubSeqProperties
<1>4. t \in Seq(T)
  BY <1>2, SubSeqProperties
<1>5. Len(t) = Len(s) - 1
  <2>1. \A L \in Nat \ {0} : L - 1 = IF 1 <= L - 1 THEN L - 1 - 1 + 1 ELSE 0
    OBVIOUS
  <2>. QED  BY <1>1, <1>3, <2>1, Zenon
<1>6. ASSUME NEW i \in 1..Len(t) PROVE t[i] = s[i]
  <2>1. i \in 1..(Len(s) - 1 - 1 + 1) /\ 1 + i - 1 = i
    BY <1>1, <1>5
  <2>. QED  BY <1>3, <2>1
<1>. QED  BY <1>1, <1>4, <1>5, <1>6

(* The last scope is taken off: its list is what current has still to pop. *)
LEMMA InvTakeScope ==
  ASSUME Inv, current = Null, scopes # <<>>, TakeLastScope,
         phase' \in {"pop", "drop"}, phase' = "pop" => Len(scopes) > 1,
         UNCHANGED <<node, map, result>>
  PROVE  Inv'
<1>t. TypeOK /\ NoStalePointer
  BY DEF Inv
<1>0. scopes \in Seq(Pointer) /\ scopes' = SubSeq(scopes, 1, Len(scopes) - 1)
      /\ current' = scopes[Len(scopes)]
  BY <1>t DEF TypeOK, TakeLastScope
<1>f. /\ Len(scopes) \in Nat \ {0} /\ scopes' \in Seq(Pointer)
      /\ Len(scopes') = Len(scopes) - 1
      /\ \A i \in 1..Len(scopes') : scopes'[i] = scopes[i]
  BY <1>0, Front
<1>1. Len(scopes) \in Nat \ {0} /\ current' = scopes[Len(scopes)]
  BY <1>0, <1>f
<1>2. /\ scopes' \in Seq(Pointer) /\ Len(scopes') = Len(scopes) - 1
      /\ \A i \in 1..Len(scopes') : scopes'[i] = scopes[i] /\ i \in 1..Len(scopes)
  BY <1>f
<1>3. Len(scopes) \in 1..Len(scopes)
  BY <1>1
<1>4. Heap' = Heap
  BY DEF Heap
<1>5. TypeOK'
  <2>1. phase' = "pop" => scopes' # <<>>
    BY <1>1, <1>2
  <2>. QED  BY <1>t, <1>1, <1>2, <1>3, <1>4, <2>1 DEF TypeOK, Pointer
<1>6. NoStalePointer'
  BY <1>t, <1>1, <1>2, <1>3, <1>4 DEF NoStalePointer
<1>7. MapInv' /\ ShadowInv' /\ OneNodePerScope'
  BY <1>4 DEF Inv, MapInv, ShadowInv, OneNodePerScope, SameKey, Occupied
<1>8. ListInv'
  <2>1. \A i \in 1..Len(scopes') : scopes'[i] # Null => node[scopes'[i]].depth = i - 1
    BY <1>2 DEF Inv, ListInv
  <2>2. current' # Null => node[current'].depth = Len(scopes')
    BY <1>1, <1>2, <1>3 DEF Inv, ListInv
  <2>3. \A p \in Heap : node[p].prev # Null =>
          /\ node[node[p].prev].depth = node[p].depth
          /\ node[p].prev # current'
          /\ \A i \in 1..Len(scopes') : node[p].prev # scopes'[i]
          /\ \A q \in Heap : node[q].prev = node[p].prev => q = p
    BY <1>1, <1>2, <1>3 DEF Inv, ListInv
  <2>. QED  BY <1>4, <2>1, <2>2, <2>3 DEF ListInv
<1>9. OnListInv'
  <2>1. \A p, s : OnList(p, s)' <=> OnList(p, s)
    BY <1>4 DEF OnList, PrevClosed
  <2>2. ASSUME NEW p \in Heap
        PROVE  /\ node[p].depth <= Len(scopes')
               /\ \A i \in 1..Len(scopes') : node[p].depth = i - 1 => OnList(p, scopes'[i])
               /\ node[p].depth = Len(scopes') => OnList(p, current')
    <3>1. /\ node[p].depth <= Len(scopes) /\ node[p].depth \in Nat
          /\ \A i \in 1..Len(scopes) : node[p].depth = i - 1 => OnList(p, scopes[i])
          /\ node[p].depth # Len(scopes)
      BY <1>t, NotOnNull DEF Inv, OnListInv, TypeOK, NodeRecord
    <3>. QED  BY <1>1, <1>2, <1>3, <3>1
  <2>. QED  BY <1>4, <2>1, <2>2 DEF OnListInv
<1>10. PhaseInv'
  BY DEF PhaseInv
<1>. QED  BY <1>5, <1>6, <1>7, <1>8, <1>9, <1>10 DEF Inv

(* The new scope has no nodes: no node has its depth.                      *)
LEMMA InvPushScope ==
  ASSUME Inv, PushScope
  PROVE  Inv'
<1>t. TypeOK /\ NoStalePointer /\ current = Null
  BY DEF Inv, PhaseInv, PushScope
<1>0. scopes \in Seq(Pointer) /\ Null \in Pointer /\ scopes' = Append(scopes, Null)
  BY <1>t DEF TypeOK, Pointer, PushScope
<1>1. /\ scopes' \in Seq(Pointer) /\ Len(scopes) \in Nat
      /\ Len(scopes') = Len(scopes) + 1
      /\ \A i \in 1..Len(scopes) : scopes'[i] = scopes[i]
      /\ scopes'[Len(scopes) + 1] = Null
  BY <1>0, AppendProperties
<1>2. \A i \in 1..Len(scopes') : i \in 1..Len(scopes) \/ scopes'[i] = Null
  BY <1>1
<1>3. UNCHANGED <<node, map, phase, current, result>> /\ phase = "idle" /\ Heap' = Heap
  BY DEF PushScope, Heap
<1>4. TypeOK'
  <2>1. scopes' # <<>>
    BY <1>1
  <2>. QED  BY <1>t, <1>1, <1>3, <2>1 DEF TypeOK
<1>5. NoStalePointer'
  BY <1>t, <1>1, <1>2, <1>3 DEF NoStalePointer
<1>6. MapInv' /\ ShadowInv' /\ OneNodePerScope'
  BY <1>3 DEF Inv, MapInv, ShadowInv, OneNodePerScope, SameKey, Occupied
<1>7. ListInv'
  BY <1>t, <1>1, <1>2, <1>3 DEF Inv, ListInv
<1>8. OnListInv'
  <2>1. \A p, s : OnList(p, s)' <=> OnList(p, s)
    BY <1>3 DEF OnList, PrevClosed
  <2>2. ASSUME NEW p \in Heap
        PROVE  /\ node[p].depth <= Len(scopes')
               /\ \A i \in 1..Len(scopes') : node[p].depth = i - 1 => OnList(p, scopes'[i])
               /\ node[p].depth = Len(scopes') => OnList(p, current')
    <3>1. /\ node[p].depth <= Len(scopes) /\ node[p].depth \in Nat
          /\ \A i \in 1..Len(scopes) : node[p].depth = i - 1 => OnList(p, scopes[i])
          /\ node[p].depth # Len(scopes)
      BY <1>t, NotOnNull DEF Inv, OnListInv, TypeOK, NodeRecord
    <3>. QED  BY <1>1, <3>1
  <2>. QED  BY <1>3, <2>1, <2>2 DEF OnListInv
<1>9. PhaseInv'
  BY <1>3 DEF Inv, PhaseInv
<1>. QED  BY <1>4, <1>5, <1>6, <1>7, <1>8, <1>9 DEF Inv

(* The new node is the innermost of its key and the last of its scope.     *)
LEMMA InvInsertNode ==
  ASSUME Inv, phase = "idle", NEW d \in 0..Depth, NEW k \in Key, NEW v \in Value,
         InsertNode(d, k, v), UNCHANGED <<phase, current>>
  PROVE  Inv'
<1>t. TypeOK /\ NoStalePointer /\ current = Null
  BY DEF Inv, PhaseInv
<1>0. PICK p \in Ptr \ Heap :
        /\ node' = [q \in Heap \cup {p} |->
                     IF q = p
                       THEN [key |-> k, value |-> v, shadowed |-> map[k],
                             prev |-> scopes[d + 1], depth |-> d]
                       ELSE node[q]]
        /\ map' = [map EXCEPT ![k] = p]
        /\ scopes' = [scopes EXCEPT ![d + 1] = p]
  BY DEF InsertNode
<1>1. Heap' = Heap \cup {p} /\ p \notin Heap /\ p # Null /\ p \in Pointer
  BY <1>0, PtrAssumption DEF Heap, Pointer
<1>2. /\ node'[p].key = k /\ node'[p].shadowed = map[k]
      /\ node'[p].prev = scopes[d + 1] /\ node'[p].depth = d
      /\ \A q \in Heap : node'[q] = node[q] /\ q # p
  BY <1>0, <1>1
<1>3. /\ d + 1 \in 1..Len(scopes) /\ d \in Nat /\ d < Len(scopes)
      /\ Len(scopes) \in Nat
      /\ scopes[d + 1] \in Pointer /\ scopes[d + 1] \in Heap \cup {Null}
      /\ map[k] \in Pointer /\ map[k] \in Heap \cup {Null}
  BY <1>t DEF TypeOK, Depth, NoStalePointer
<1>4. /\ scopes' \in Seq(Pointer) /\ Len(scopes') = Len(scopes)
      /\ \A i \in 1..Len(scopes) : scopes'[i] = IF i = d + 1 THEN p ELSE scopes[i]
  BY <1>t, <1>0, <1>1, <1>3 DEF TypeOK
<1>5. map' \in [Key -> Pointer] /\ \A l \in Key : map'[l] = IF l = k THEN p ELSE map[l]
  BY <1>t, <1>0, <1>1 DEF TypeOK
<1>6. Occupied(k) => node[map[k]].depth < d
  BY DEF InsertNode
<1>7. \A q \in Heap : /\ node[q].depth \in Nat /\ node[q].depth <= Len(scopes)
                      /\ node[q].shadowed \in Heap \cup {Null}
                      /\ node[q].prev \in Heap \cup {Null}
  BY <1>t DEF Inv, TypeOK, NodeRecord, NoStalePointer, OnListInv
<1>8. TypeOK'
  <2>1. node' \in [Heap' -> NodeRecord]
    <3>1. [key |-> k, value |-> v, shadowed |-> map[k], prev |-> scopes[d + 1],
           depth |-> d] \in NodeRecord
      BY <1>3 DEF NodeRecord
    <3>. QED  BY <1>t, <1>0, <1>1, <3>1 DEF TypeOK
  <2>2. scopes' # <<>>
    BY <1>3, <1>4
  <2>3. result' = "ok"
    BY DEF InsertNode
  <2>. QED  BY <1>t, <1>0, <1>1, <1>4, <1>5, <2>1, <2>2, <2>3 DEF TypeOK
<1>9. NoStalePointer'
  BY <1>t, <1>1, <1>2, <1>3, <1>4, <1>5 DEF NoStalePointer
<1>10. \A q \in Heap : node[q].key = k => Occupied(k) /\ node[q].depth < d
  BY <1>3, <1>6, <1>7 DEF Inv, MapInv, Occupied
<1>11. MapInv'
  <2>1. ASSUME NEW l \in Key, l = k
        PROVE  /\ map'[l] # Null /\ node'[map'[l]].key = l
               /\ \A q \in Heap' : node'[q].key = l => node'[q].depth <= node'[map'[l]].depth
    BY <1>1, <1>2, <1>3, <1>5, <1>7, <1>10, <2>1
  <2>2. ASSUME NEW l \in Key, l # k
        PROVE  /\ map'[l] = Null => \A q \in Heap' : node'[q].key # l
               /\ map'[l] # Null =>
                    /\ node'[map'[l]].key = l
                    /\ \A q \in Heap' : node'[q].key = l => node'[q].depth <= node'[map'[l]].depth
    BY <1>t, <1>1, <1>2, <1>5, <2>2 DEF Inv, MapInv, Occupied, NoStalePointer
  <2>. QED  BY <2>1, <2>2 DEF MapInv, Occupied
<1>12. ShadowInv'
  <2>1. ASSUME NEW q \in Heap, node'[q].shadowed # Null
        PROVE  /\ node'[node'[q].shadowed].key = node'[q].key
               /\ node'[node'[q].shadowed].depth < node'[q].depth
    BY <1>2, <1>7, <2>1 DEF Inv, ShadowInv, SameKey
  <2>2. ASSUME node'[p].shadowed # Null
        PROVE  /\ node'[node'[p].shadowed].key = node'[p].key
               /\ node'[node'[p].shadowed].depth < node'[p].depth
    BY <1>2, <1>3, <1>6, <2>2 DEF Inv, MapInv, Occupied
  <2>3. ASSUME NEW q \in Heap, NEW r \in Heap', node'[q].key = node'[r].key,
               node'[r].depth < node'[q].depth
        PROVE  node'[q].shadowed # Null /\ node'[r].depth <= node'[node'[q].shadowed].depth
    <3>1. r # p
      BY <1>2, <1>3, <1>7, <1>10, <2>3
    <3>. QED  BY <1>1, <1>2, <1>7, <2>3, <3>1 DEF Inv, ShadowInv, SameKey
  <2>4. ASSUME NEW r \in Heap', node'[p].key = node'[r].key, node'[r].depth < node'[p].depth
        PROVE  node'[p].shadowed # Null /\ node'[r].depth <= node'[node'[p].shadowed].depth
    <3>1. r \in Heap
      BY <1>1, <1>2, <1>3, <2>4
    <3>. QED  BY <1>2, <1>3, <1>10, <2>4, <3>1 DEF Inv, MapInv, Occupied
  <2>. QED  BY <1>1, <2>1, <2>2, <2>3, <2>4 DEF ShadowInv, SameKey
<1>13. OneNodePerScope'
  <2>1. ASSUME NEW q \in Heap
        PROVE  node'[q].key = k => node'[q].depth # d
    BY <1>2, <1>3, <1>7, <1>10
  <2>. QED  BY <1>1, <1>2, <2>1 DEF Inv, OneNodePerScope, SameKey
<1>14. ListInv'
  <2>1. \A i \in 1..Len(scopes') : scopes'[i] # Null => node'[scopes'[i]].depth = i - 1
    BY <1>t, <1>2, <1>3, <1>4 DEF Inv, ListInv, NoStalePointer
  <2>2. ASSUME NEW q \in Heap, node'[q].prev # Null
        PROVE  /\ node'[node'[q].prev].depth = node'[q].depth
               /\ node'[q].prev # current
               /\ \A i \in 1..Len(scopes') : node'[q].prev # scopes'[i]
               /\ \A r \in Heap' : node'[r].prev = node'[q].prev => r = q
    BY <1>1, <1>2, <1>3, <1>4, <1>7, <2>2 DEF Inv, ListInv
  <2>3. ASSUME node'[p].prev # Null
        PROVE  /\ node'[node'[p].prev].depth = node'[p].depth
               /\ node'[p].prev # current
               /\ \A i \in 1..Len(scopes') : node'[p].prev # scopes'[i]
               /\ \A r \in Heap' : node'[r].prev = node'[p].prev => r = p
    <3>1. scopes[d + 1] \in Heap /\ node[scopes[d + 1]].depth = d
      BY <1>2, <1>3, <2>3 DEF Inv, ListInv
    <3>2. \A i \in 1..Len(scopes) : i # d + 1 => scopes[i] # scopes[d + 1]
      BY <1>3, <3>1, PtrAssumption DEF Inv, ListInv, TypeOK
    <3>3. \A r \in Heap : node[r].prev # scopes[d + 1]
      BY <1>3, <2>3, <1>2 DEF Inv, ListInv
    <3>. QED  BY <1>t, <1>1, <1>2, <1>3, <1>4, <2>3, <3>1, <3>2, <3>3
  <2>. QED  BY <1>t, <1>1, <2>1, <2>2, <2>3 DEF ListInv
<1>15. OnListInv'
  <2> DEFINE After(q, s) == \A S \in SUBSET Ptr :
                (s # Null => s \in S) /\ PrevClosed(S)' => q \in S
  <2>0. \A q, s : OnList(q, s)' <=> After(q, s)
    BY DEF OnList
  <2>1. \A S : PrevClosed(S)' => PrevClosed(S)
    BY <1>1, <1>2 DEF PrevClosed
  <2>2. \A q, s : OnList(q, s) => After(q, s)
    BY <2>1 DEF OnList
  <2>3. ASSUME NEW q \in Heap, OnList(q, scopes[d + 1]) PROVE After(q, p)
    <3> SUFFICES ASSUME NEW S \in SUBSET Ptr, p \in S, PrevClosed(S)'
                 PROVE  q \in S
      BY <1>1
    <3>1. scopes[d + 1] # Null => scopes[d + 1] \in S
      BY <1>1, <1>2 DEF PrevClosed
    <3>. QED  BY <2>1, <2>3, <3>1 DEF OnList
  <2>4. After(p, p)
    BY <1>1
  <2> HIDE DEF After
  <2>5. ASSUME NEW q \in Heap'
        PROVE  /\ node'[q].depth <= Len(scopes')
               /\ \A i \in 1..Len(scopes') :
                    node'[q].depth = i - 1 => After(q, scopes'[i])
               /\ node'[q].depth = Len(scopes') => After(q, current')
    <3>1. CASE q = p
      BY <1>2, <1>3, <1>4, <2>4, <3>1
    <3>2. CASE q \in Heap
      <4>1. /\ node[q].depth <= Len(scopes)
            /\ \A i \in 1..Len(scopes) : node[q].depth = i - 1 => OnList(q, scopes[i])
            /\ node[q].depth # Len(scopes)
        BY <1>t, <3>2, NotOnNull DEF Inv, OnListInv
      <4>. QED  BY <1>2, <1>3, <1>4, <2>2, <2>3, <3>2, <4>1
    <3>. QED  BY <1>1, <3>1, <3>2
  <2>. QED  BY <2>0, <2>5 DEF OnListInv
<1>16. PhaseInv'
  BY DEF Inv, PhaseInv
<1>. QED  BY <1>8, <1>9, <1>11, <1>12, <1>13, <1>14, <1>15, <1>16 DEF Inv

(* The node popped is current itself, and no pointer to it is left.        *)
LEMMA InvPopNode ==
  ASSUME Inv, PopNode
  PROVE  Inv'
<1>t. TypeOK /\ NoStalePointer /\ UNCHANGED <<scopes, phase, result>>
  BY DEF Inv, PopNode
<1> DEFINE k == node[current].key
<1>1. /\ current \in Heap /\ current # Null /\ k \in Key
      /\ node[current] \in NodeRecord /\ node[current].depth = Len(scopes)
      /\ Len(scopes) \in Nat
  BY <1>t DEF Inv, PopNode, NoStalePointer, TypeOK, NodeRecord, ListInv
<1>2. \A q \in Heap : /\ node[q].depth \in Nat /\ node[q].depth <= Len(scopes)
                      /\ node[q].shadowed \in Heap \cup {Null}
                      /\ node[q].prev \in Heap \cup {Null}
  BY <1>t DEF Inv, TypeOK, NodeRecord, NoStalePointer, OnListInv
<1>3. map[k] = current
  <2>1. map[k] \in Heap /\ node[map[k]].key = k /\ node[current].depth <= node[map[k]].depth
    BY <1>t, <1>1 DEF Inv, MapInv, Occupied, NoStalePointer
  <2>2. node[map[k]].depth = node[current].depth
    BY <1>1, <1>2, <2>1
  <2>. QED  BY <1>1, <2>1, <2>2 DEF Inv, OneNodePerScope, SameKey
<1>4. /\ map' = [map EXCEPT ![k] = node[current].shadowed]
      /\ current' = node[current].prev
      /\ node' = [q \in Heap \ {current} |-> node[q]]
  BY <1>3 DEF PopNode
<1>5. /\ Heap' = Heap \ {current}
      /\ \A q \in Heap' : node'[q] = node[q] /\ q \in Heap /\ q # current
  BY <1>4 DEF Heap
<1>6. \A l \in Key : map'[l] = IF l = k THEN node[current].shadowed ELSE map[l]
  BY <1>t, <1>4 DEF TypeOK
<1>7. \A q \in Heap : node[q].shadowed # current
  BY <1>1, <1>2 DEF Inv, ShadowInv
<1>8. \A q \in Heap : node[q].prev # current
  BY <1>1 DEF Inv, ListInv
<1>9. TypeOK'
  <2>1. node' \in [Heap' -> NodeRecord]
    BY <1>t, <1>4, <1>5 DEF TypeOK
  <2>2. map' \in [Key -> Pointer] /\ current' \in Pointer
    BY <1>t, <1>1, <1>4 DEF TypeOK, NodeRecord
  <2>. QED  BY <1>t, <1>5, <2>1, <2>2 DEF TypeOK
<1>10. NoStalePointer'
  <2>1. \A l \in Key : map'[l] \in Heap' \cup {Null}
    <3>1. \A l \in Key : l # k => map[l] # current
      BY <1>t, <1>1 DEF Inv, MapInv, Occupied
    <3>. QED  BY <1>t, <1>1, <1>2, <1>5, <1>6, <1>7, <3>1 DEF NoStalePointer
  <2>2. \A q \in Heap' : {node'[q].shadowed, node'[q].prev} \subseteq Heap' \cup {Null}
    BY <1>2, <1>5, <1>7, <1>8
  <2>3. \A i \in 1..Len(scopes') : scopes'[i] \in Heap' \cup {Null}
    BY <1>t, <1>1, <1>5 DEF Inv, ListInv, NoStalePointer
  <2>4. current' \in Heap' \cup {Null}
    BY <1>1, <1>2, <1>4, <1>5, <1>8
  <2>. QED  BY <2>1, <2>2, <2>3, <2>4 DEF NoStalePointer
<1>11. MapInv'
  <2>1. ASSUME NEW l \in Key, l = k
        PROVE  /\ map'[l] = Null => \A q \in Heap' : node'[q].key # l
               /\ map'[l] # Null =>
                    /\ node'[map'[l]].key = l
                    /\ \A q \in Heap' : node'[q].key = l => node'[q].depth <= node'[map'[l]].depth
    <3>1. \A q \in Heap' : node'[q].key = l => node[q].depth < node[current].depth
      BY <1>1, <1>2, <1>5, <2>1 DEF Inv, OneNodePerScope, SameKey
    <3>2. \A q \in Heap' : node'[q].key = l =>
            /\ node[current].shadowed # Null
            /\ node[q].depth <= node[node[current].shadowed].depth
      BY <1>1, <1>5, <2>1, <3>1 DEF Inv, ShadowInv, SameKey
    <3>3. node[current].shadowed # Null =>
            /\ node[node[current].shadowed].key = k
            /\ node[current].shadowed \in Heap'
      BY <1>1, <1>2, <1>5, <1>7 DEF Inv, ShadowInv, SameKey
    <3>. QED  BY <1>5, <1>6, <2>1, <3>2, <3>3
  <2>2. ASSUME NEW l \in Key, l # k
        PROVE  /\ map'[l] = Null => \A q \in Heap' : node'[q].key # l
               /\ map'[l] # Null =>
                    /\ node'[map'[l]].key = l
                    /\ \A q \in Heap' : node'[q].key = l => node'[q].depth <= node'[map'[l]].depth
    <3>1. map'[l] = map[l] /\ (map[l] # Null => map[l] \in Heap')
      BY <1>6, <1>10, <2>2 DEF NoStalePointer
    <3>. QED  BY <1>5, <2>2, <3>1 DEF Inv, MapInv, Occupied
  <2>. QED  BY <2>1, <2>2 DEF MapInv, Occupied
<1>12. ShadowInv'
  <2>1. \A q \in Heap' : node'[q].shadowed # Null => node'[q].shadowed \in Heap'
    BY <1>10 DEF NoStalePointer
  <2>. QED  BY <1>5, <2>1 DEF Inv, ShadowInv, SameKey
<1>13. OneNodePerScope'
  BY <1>5 DEF Inv, OneNodePerScope, SameKey
<1>14. ListInv'
  <2>1. \A q \in Heap' : node'[q].prev # Null => node'[q].prev \in Heap'
    BY <1>10 DEF NoStalePointer
  <2>2. \A i \in 1..Len(scopes') : scopes'[i] # Null => node'[scopes'[i]].depth = i - 1
    BY <1>t, <1>5, <1>10 DEF Inv, ListInv, NoStalePointer
  <2>3. current' # Null => node'[current'].depth = Len(scopes')
    BY <1>t, <1>1, <1>4, <1>5, <1>10 DEF Inv, ListInv, NoStalePointer
  <2>4. ASSUME NEW q \in Heap', node'[q].prev # Null
        PROVE  /\ node'[node'[q].prev].depth = node'[q].depth
               /\ node'[q].prev # current'
               /\ \A i \in 1..Len(scopes') : node'[q].prev # scopes'[i]
               /\ \A r \in Heap' : node'[r].prev = node'[q].prev => r = q
    BY <1>t, <1>1, <1>4, <1>5, <2>1, <2>4 DEF Inv, ListInv
  <2>. QED  BY <2>2, <2>3, <2>4 DEF ListInv
<1>15. OnListInv'
  <2> DEFINE After(q, s) == \A S \in SUBSET Ptr :
                (s # Null => s \in S) /\ PrevClosed(S)' => q \in S
  <2>0. \A q, s : OnList(q, s)' <=> After(q, s)
    BY DEF OnList
  <2>1. ASSUME NEW q \in Heap', NEW s, s # current, OnList(q, s) PROVE After(q, s)
    <3> SUFFICES ASSUME NEW S \in SUBSET Ptr, s # Null => s \in S, PrevClosed(S)'
                 PROVE  q \in S
      OBVIOUS
    <3>1. PrevClosed(S \ {current})
      BY <1>5, <1>8 DEF PrevClosed
    <3>2. s # Null => s \in S \ {current}
      BY <2>1
    <3>. QED  BY <2>1, <3>1, <3>2 DEF OnList
  <2>2. ASSUME NEW q \in Heap', OnList(q, current) PROVE After(q, current')
    <3> SUFFICES ASSUME NEW S \in SUBSET Ptr, current' # Null => current' \in S,
                        PrevClosed(S)'
                 PROVE  q \in S
      OBVIOUS
    <3>1. PrevClosed(S \cup {current})
      BY <1>4, <1>5 DEF PrevClosed
    <3>2. S \cup {current} \in SUBSET Ptr
      BY <1>t, <1>1 DEF TypeOK
    <3>. QED  BY <1>5, <2>2, <3>1, <3>2 DEF OnList
  <2> HIDE DEF After
  <2>3. \A i \in 1..Len(scopes) : scopes[i] # current
    BY <1>1 DEF Inv, ListInv
  <2>4. ASSUME NEW q \in Heap'
        PROVE  /\ node'[q].depth <= Len(scopes')
               /\ \A i \in 1..Len(scopes') :
                    node'[q].depth = i - 1 => After(q, scopes'[i])
               /\ node'[q].depth = Len(scopes') => After(q, current')
    BY <1>t, <1>5, <2>1, <2>2, <2>3 DEF Inv, OnListInv
  <2>. QED  BY <2>0, <2>4 DEF OnListInv
<1>16. PhaseInv'
  BY <1>t, <1>1 DEF Inv, PhaseInv
<1>. QED  BY <1>9, <1>10, <1>11, <1>12, <1>13, <1>14, <1>15, <1>16 DEF Inv

(* Every step keeps the invariant.                                         *)
LEMMA InvNext == Inv /\ [Next]_vars => Inv'
<1> SUFFICES ASSUME Inv, [Next]_vars PROVE Inv'
  OBVIOUS
<1>t. TypeOK /\ PhaseInv /\ NoStalePointer
  BY DEF Inv
<1>n. /\ phase \in {"idle", "pop", "drop", "dropped"} /\ result \in Value \cup {Absent, "ok", "shadowed"}
      /\ phase \in {"idle", "pop"} => scopes # <<>>
      /\ node \in [Heap -> NodeRecord]
  BY <1>t DEF TypeOK
<1>1. CASE UNCHANGED vars
  <2>1. Heap' = Heap /\ UNCHANGED <<node, map, scopes, phase, current, result>>
    BY <1>1 DEF vars, Heap
  <2>. QED  BY <1>t, <1>n, <2>1, SameLinks DEF PhaseInv
<1>2. CASE PushScope
  BY <1>2, InvPushScope
<1>3. ASSUME NEW d \in 0..Depth, NEW k \in Key, NEW v \in Value, InsertIntoScope(d, k, v)
      PROVE  Inv'
  <2>1. CASE AlreadyShadowed(d, k)
    <3>1. UNCHANGED <<node, map, scopes, phase, current>> /\ Heap' = Heap /\ result' = "shadowed"
      BY <1>3, <2>1 DEF AlreadyShadowed, InsertIntoScope, Heap
    <3>. QED  BY <1>t, <1>n, <3>1, SameLinks DEF PhaseInv
  <2>2. CASE ReplaceValue(d, k, v)
    BY <1>3, <2>2, InvSetValue DEF ReplaceValue, InsertIntoScope
  <2>3. CASE InsertNode(d, k, v)
    BY <1>3, <2>3, InvInsertNode DEF InsertIntoScope
  <2>. QED  BY <1>3, <2>1, <2>2, <2>3 DEF InsertIntoScope
<1>4. ASSUME NEW k \in Key, Get(k)
      PROVE  Inv'
  <2>1. UNCHANGED <<node, map, scopes, phase, current>> /\ Heap' = Heap
    BY <1>4 DEF Get, Heap
  <2>2. result' \in Value \cup {Absent}
    BY <1>n, <1>t, <1>4 DEF Get, Occupied, NoStalePointer, NodeRecord
  <2>. QED  BY <1>t, <1>n, <2>1, <2>2, SameLinks DEF PhaseInv
<1>5. ASSUME NEW k \in Key, NEW v \in Value, Update(k, v)
      PROVE  Inv'
  BY <1>n, <1>5, InvSetValue DEF Update
<1>6. CASE PopScope
  <2>1. current = Null /\ scopes # <<>>
    BY <1>6, <1>t, <1>n DEF PopScope, PhaseInv
  <2>. QED  BY <1>6, <2>1, InvTakeScope DEF PopScope
<1>7. CASE PopNode
  BY <1>7, InvPopNode
<1>8. CASE PopDone \/ BeginDrop \/ DropDone
  <2>1. UNCHANGED <<node, map, scopes, current, result>> /\ Heap' = Heap
    BY <1>8 DEF PopDone, BeginDrop, DropDone, Heap
  <2>2. /\ phase' \in {"idle", "pop", "drop", "dropped"}
        /\ phase' \in {"idle", "pop"} => scopes # <<>>
        /\ current # Null => phase' \in {"pop", "drop"}
        /\ phase' = "dropped" => scopes = <<>>
    BY <1>8, <1>t, <1>n DEF PopDone, BeginDrop, DropDone, PhaseInv
  <2>. QED  BY <1>n, <2>1, <2>2, SameLinks
<1>9. CASE DropScope
  BY <1>9, InvTakeScope DEF DropScope
<1>. QED
  BY <1>1, <1>2, <1>3, <1>4, <1>5, <1>6, <1>7, <1>8, <1>9 DEF Next

-----------------------------------------------------------------------------
(* What the invariant says of the places where the code trusts pointers.   *)

(* Between operations every node belongs to a scope that is there.         *)
LEMMA IdleDepth ==
  ASSUME Inv, current = Null
  PROVE  \A p \in Heap : node[p].depth \in Nat /\ node[p].depth < Len(scopes)
<1>1. \A p \in Heap : /\ node[p].depth \in Nat /\ node[p].depth <= Len(scopes)
                      /\ node[p].depth # Len(scopes)
  BY NotOnNull DEF Inv, OnListInv, TypeOK, NodeRecord
<1>2. Len(scopes) \in Nat
  BY DEF Inv, TypeOK
<1>. QED  BY <1>1, <1>2

(* The node that current points to is the innermost of its key.            *)
LEMMA CurrentInnermost == Inv => PopsInnermost
<1> SUFFICES ASSUME Inv, current # Null
             PROVE  /\ node[current].depth = Len(scopes)
                    /\ map[node[current].key] = current
  BY DEF PopsInnermost
<1> DEFINE k == node[current].key
<1>1. /\ TypeOK /\ NoStalePointer /\ current \in Heap /\ k \in Key
      /\ node[current].depth = Len(scopes) /\ Len(scopes) \in Nat
  BY DEF Inv, NoStalePointer, TypeOK, NodeRecord, ListInv
<1>2. map[k] \in Heap /\ node[map[k]].key = k /\ node[current].depth <= node[map[k]].depth
  BY <1>1 DEF Inv, MapInv, Occupied, NoStalePointer
<1>3. node[map[k]].depth = node[current].depth
  BY <1>1, <1>2 DEF Inv, OnListInv, TypeOK, NodeRecord
<1>. QED  BY <1>1, <1>2, <1>3 DEF Inv, OneNodePerScope, SameKey

(* No node is deeper than the scopes; without scopes there is none.        *)
LEMMA NodesHaveScopes == Inv => NoNodeOutlivesScope
<1> SUFFICES ASSUME Inv PROVE NoNodeOutlivesScope
  OBVIOUS
<1>0. PhaseInv /\ Len(scopes) \in Nat
  BY DEF Inv, TypeOK
<1>1. ASSUME phase = "idle", NEW p \in Heap PROVE node[p].depth <= Depth
  BY <1>0, <1>1, IdleDepth DEF PhaseInv, Depth
<1>2. ASSUME phase = "dropped", NEW p \in Heap PROVE FALSE
  <2>1. current = Null /\ Len(scopes) = 0
    BY <1>0, <1>2 DEF PhaseInv
  <2>2. node[p].depth \in Nat /\ node[p].depth < Len(scopes)
    BY <1>2, <2>1, IdleDepth
  <2>. QED  BY <2>1, <2>2
<1>. QED  BY <1>1, <1>2 DEF NoNodeOutlivesScope

(* ScopedHashMap's structure is kept, whatever is inserted and popped.     *)
THEOREM Invariance == Spec => []Inv
<1>1. Init => Inv
  BY InvInit
<1>2. Inv /\ [Next]_vars => Inv'
  BY InvNext
<1>. QED  BY <1>1, <1>2, PTL DEF Spec

(* Every field keeps its type and the root scope its place.                *)
THEOREM TypeCorrect == Spec => []TypeOK
<1>1. Inv => TypeOK
  BY DEF Inv
<1>. QED  BY <1>1, Invariance, PTL

(* The map, the scopes and the nodes never point to a freed node: the      *)
(* unsafe dereferences of ScopedHashMap are of nodes that are there.       *)
THEOREM PointersAreSafe == Spec => []NoStalePointer
<1>1. Inv => NoStalePointer
  BY DEF Inv
<1>. QED  BY <1>1, Invariance, PTL

(* The assertions of pop_scope_impl and pop_node hold.                     *)
THEOREM PopAssertions == Spec => []PopsInnermost
<1>. QED  BY CurrentInnermost, Invariance, PTL

(* A scope's nodes go with it, and all go when the map is dropped.         *)
THEOREM ScopesOwnNodes == Spec => []NoNodeOutlivesScope
<1>. QED  BY NodesHaveScopes, Invariance, PTL

-----------------------------------------------------------------------------
(* The stack of maps that the nodes stand for.                             *)

MapSet == [Key -> Value \cup {Absent}]
SomeNode(d, k) == \E p \in Heap : node[p].key = k /\ node[p].depth = d

(* Each map of the stack holds the values of the nodes of its depth.       *)
StackHolds ==
  /\ phase \in {"drop", "dropped"} => Stack = <<>>
  /\ phase \in {"idle", "pop"} =>
       /\ Stack \in Seq(MapSet)
       /\ Len(Stack) = Len(scopes)
       /\ \A i \in 1..Len(scopes), k \in Key :
            /\ ~SomeNode(i - 1, k) => Stack[i][k] = Absent
            /\ \A p \in Heap : node[p].key = k /\ node[p].depth = i - 1
                                 => Stack[i][k] = node[p].value

\* The nodes are that stack of maps.
LEMMA StackIs == Inv => StackHolds
<1> SUFFICES ASSUME Inv, phase \in {"idle", "pop"}
             PROVE  /\ Stack \in Seq(MapSet)
                    /\ Len(Stack) = Len(scopes)
                    /\ \A i \in 1..Len(scopes), k \in Key :
                         /\ ~SomeNode(i - 1, k) => Stack[i][k] = Absent
                         /\ \A p \in Heap : node[p].key = k /\ node[p].depth = i - 1
                                              => Stack[i][k] = node[p].value
  BY DEF StackHolds, Stack
<1> DEFINE Val(d, k) == IF At(d, k) = {} THEN Absent
                        ELSE node[CHOOSE p \in At(d, k) : TRUE].value
<1>1. TypeOK /\ Len(scopes) \in Nat
  BY DEF Inv, TypeOK
<1>2. Stack = [i \in 1..Len(scopes) |-> [k \in Key |-> Val(i - 1, k)]]
  BY DEF Stack
<1>3. \A d, k : ~SomeNode(d, k) => Val(d, k) = Absent
  BY DEF At, SomeNode
<1>4. ASSUME NEW d, NEW k, NEW p \in Heap, node[p].key = k, node[p].depth = d
      PROVE  Val(d, k) = node[p].value
  <2>1. At(d, k) = {p}
    BY <1>4 DEF At, Inv, OneNodePerScope, SameKey
  <2>. QED  BY <2>1
<1> HIDE DEF Val
<1>5. ASSUME NEW d, NEW k PROVE Val(d, k) \in Value \cup {Absent}
  <2>1. CASE SomeNode(d, k)
    <3>1. PICK p \in Heap : node[p].key = k /\ node[p].depth = d
      BY <2>1 DEF SomeNode
    <3>2. node[p].value \in Value
      BY <1>1 DEF TypeOK, NodeRecord
    <3>. QED  BY <1>4, <3>1, <3>2
  <2>. QED  BY <1>3, <2>1
<1>6. \A i \in 1..Len(scopes) : [k \in Key |-> Val(i - 1, k)] \in MapSet
  BY <1>5 DEF MapSet
<1>7. Stack \in Seq(MapSet) /\ Len(Stack) = Len(scopes)
  <2>1. Stack \in [1..Len(scopes) -> MapSet]
    BY <1>2, <1>6
  <2>2. Stack \in Seq(MapSet)
    BY <1>1, <2>1, SeqDef
  <2>3. DOMAIN Stack = 1..Len(Stack) /\ Len(Stack) \in Nat
    BY <2>2, LenProperties
  <2>. QED  BY <1>1, <2>1, <2>2, <2>3
<1>8. \A i \in 1..Len(scopes), k \in Key : Stack[i][k] = Val(i - 1, k)
  BY <1>2
<1>. QED  BY <1>3, <1>4, <1>7, <1>8

\* So they are after a step.
LEMMA StackIsNext == Inv' => StackHolds'
<1>. QED  BY StackIs, PTL

(* Two stacks of maps that agree at every depth and key are the same.      *)
LEMMA SameStack ==
  ASSUME NEW s \in Seq(MapSet), NEW t \in Seq(MapSet), Len(s) = Len(t),
         \A i \in 1..Len(t), k \in Key : s[i][k] = t[i][k]
  PROVE  s = t
<1>1. \A i \in 1..Len(t) : s[i] \in MapSet /\ t[i] \in MapSet
  OBVIOUS
<1>2. ASSUME NEW i \in 1..Len(t) PROVE s[i] = t[i]
  BY <1>1 DEF MapSet
<1>. QED  BY <1>2, SeqEqual

(* A key is held by the maps at whose depth it has a node; the topmost of  *)
(* them is the depth of the map's entry.                                   *)
LEMMA HoldersAre ==
  ASSUME Inv, phase = "idle", NEW k \in Key
  PROVE  /\ \A i : i \in Maps!Holders(k) <=> i \in 1..Len(scopes) /\ SomeNode(i - 1, k)
         /\ ~Occupied(k) => Maps!Holders(k) = {}
         /\ Occupied(k) =>
              /\ map[k] \in Heap /\ node[map[k]].key = k
              /\ node[map[k]].depth + 1 \in Maps!Holders(k)
              /\ \A i \in Maps!Holders(k) : i <= node[map[k]].depth + 1
              /\ Maps!Topmost(k) = node[map[k]].depth + 1
<1>1. TypeOK /\ current = Null /\ Len(scopes) \in Nat
  BY DEF Inv, TypeOK, PhaseInv
<1>2. StackHolds
  BY StackIs
<1>3. \A p \in Heap : node[p].value # Absent
  BY <1>1, AbsentAssumption DEF TypeOK, NodeRecord
<1>4. \A i : i \in Maps!Holders(k) <=> i \in 1..Len(scopes) /\ SomeNode(i - 1, k)
  BY <1>2, <1>3 DEF Maps!Holders, StackHolds, SomeNode
<1>5. ~Occupied(k) => Maps!Holders(k) = {}
  BY <1>4 DEF Inv, MapInv, SomeNode
<1>6. ASSUME Occupied(k)
      PROVE  /\ map[k] \in Heap /\ node[map[k]].key = k
             /\ node[map[k]].depth + 1 \in Maps!Holders(k)
             /\ \A i \in Maps!Holders(k) : i <= node[map[k]].depth + 1
             /\ Maps!Topmost(k) = node[map[k]].depth + 1
  <2>1. /\ map[k] \in Heap /\ node[map[k]].key = k
        /\ node[map[k]].depth \in Nat /\ node[map[k]].depth < Len(scopes)
    BY <1>1, <1>6, IdleDepth DEF Inv, MapInv, Occupied, NoStalePointer
  <2>2. node[map[k]].depth + 1 \in Maps!Holders(k)
    <3>1. node[map[k]].depth + 1 \in 1..Len(scopes)
      BY <1>1, <2>1
    <3>2. SomeNode(node[map[k]].depth, k)
      BY <2>1 DEF SomeNode
    <3>3. (node[map[k]].depth + 1) - 1 = node[map[k]].depth
      BY <2>1
    <3>. QED  BY <1>4, <3>1, <3>2, <3>3
  <2>3. \A i \in Maps!Holders(k) : i \in Nat /\ i <= node[map[k]].depth + 1
    <3>1. \A p \in Heap : node[p].key = k => node[p].depth <= node[map[k]].depth
      BY <1>6 DEF Inv, MapInv
    <3>. QED  BY <1>1, <1>4, <2>1, <3>1 DEF SomeNode
  <2>4. Maps!Topmost(k) = node[map[k]].depth + 1
    <3>1. \A d \in Maps!Holders(k) :
            (\A e \in Maps!Holders(k) : e <= d) => d = node[map[k]].depth + 1
      BY <2>1, <2>2, <2>3
    <3>. QED  BY <2>2, <2>3, <3>1 DEF Maps!Topmost
  <2>. QED  BY <2>1, <2>2, <2>3, <2>4
<1>. QED  BY <1>4, <1>5, <1>6

(* A step that binds one key at one depth, in the nodes as in the maps.    *)
LEMMA SetOne ==
  ASSUME StackHolds, StackHolds', phase = "idle", phase' = "idle",
         Len(scopes') = Len(scopes), NEW i \in 1..Len(scopes), NEW k \in Key,
         NEW v \in Value,
         \A j \in 1..Len(scopes), l \in Key :
           Stack'[j][l] = IF j = i /\ l = k THEN v ELSE Stack[j][l]
  PROVE  Stack' = [Stack EXCEPT ![i][k] = v]
<1>1. /\ Stack \in Seq(MapSet) /\ Stack' \in Seq(MapSet)
      /\ Len(Stack) = Len(scopes) /\ Len(Stack') = Len(scopes)
  BY DEF StackHolds
<1>2. Stack[i] \in MapSet
  BY <1>1, ElementOfSeq
<1> DEFINE m == [Stack[i] EXCEPT ![k] = v]
           t == [Stack EXCEPT ![i] = m]
<1>3. m \in MapSet /\ \A l \in Key : m[l] = IF l = k THEN v ELSE Stack[i][l]
  BY <1>2 DEF MapSet
<1> HIDE DEF m
<1>4. t \in Seq(MapSet) /\ Len(t) = Len(scopes)
      /\ \A j \in 1..Len(scopes) : t[j] = IF j = i THEN m ELSE Stack[j]
  BY <1>1, <1>3, ExceptSeq
<1> HIDE DEF t
<1>5. \A j \in 1..Len(scopes), l \in Key : Stack'[j][l] = t[j][l]
  BY <1>3, <1>4
<1>6. Stack' = t
  BY <1>1, <1>4, <1>5, SameStack
<1>. QED  BY <1>6 DEF t, m

(* Writing a node's value writes its map's.                                *)
LEMMA SetValueRefines ==
  ASSUME Inv, Inv', phase = "idle", NEW k \in Key, NEW v \in Value, Occupied(k),
         node' = [node EXCEPT ![map[k]].value = v], UNCHANGED <<map, scopes, phase>>
  PROVE  Stack' = [Stack EXCEPT ![node[map[k]].depth + 1][k] = v]
<1> DEFINE i == node[map[k]].depth + 1
<1>1. /\ TypeOK /\ current = Null /\ Len(scopes) \in Nat
      /\ map[k] \in Heap /\ node[map[k]].key = k
      /\ node[map[k]].depth \in Nat /\ node[map[k]].depth < Len(scopes)
  BY IdleDepth DEF Inv, TypeOK, PhaseInv, MapInv, Occupied, NoStalePointer
<1>2. i \in 1..Len(scopes) /\ i - 1 = node[map[k]].depth
  BY <1>1
<1>3. StackHolds /\ StackHolds'
  BY StackIs, StackIsNext
<1>4. /\ Heap' = Heap /\ node'[map[k]].value = v
      /\ \A p \in Heap : /\ node'[p].key = node[p].key
                         /\ node'[p].depth = node[p].depth
                         /\ p # map[k] => node'[p].value = node[p].value
  <2>1. node \in [Heap -> NodeRecord] /\ Heap' = Heap
    BY <1>1 DEF TypeOK, Heap
  <2>2. \A p \in Heap : node'[p] = IF p = map[k] THEN [node[p] EXCEPT !.value = v]
                                                 ELSE node[p]
    BY <1>1, <2>1
  <2>. QED  BY <1>1, <2>1, <2>2 DEF NodeRecord
<1>5. ASSUME NEW j \in 1..Len(scopes), NEW l \in Key
      PROVE  Stack'[j][l] = IF j = i /\ l = k THEN v ELSE Stack[j][l]
  <2>1. CASE SomeNode(j - 1, l)
    <3>1. PICK p \in Heap : node[p].key = l /\ node[p].depth = j - 1
      BY <2>1 DEF SomeNode
    <3>2. Stack[j][l] = node[p].value /\ Stack'[j][l] = node'[p].value
      BY <1>3, <1>4, <3>1 DEF StackHolds
    <3>3. p = map[k] <=> j = i /\ l = k
      BY <1>1, <1>2, <3>1 DEF Inv, OneNodePerScope, SameKey
    <3>. QED  BY <1>4, <3>1, <3>2, <3>3
  <2>2. CASE ~SomeNode(j - 1, l)
    <3>1. ~SomeNode(j - 1, l)'
      BY <1>4, <2>2 DEF SomeNode
    <3>2. ~(j = i /\ l = k)
      BY <1>1, <1>2, <2>2 DEF SomeNode
    <3>. QED  BY <1>3, <2>2, <3>1, <3>2 DEF StackHolds
  <2>. QED  BY <2>1, <2>2
<1> HIDE DEF i
<1>6. Stack' = [Stack EXCEPT ![i][k] = v]
  BY <1>2, <1>3, <1>5, SetOne
<1>. QED  BY <1>6 DEF i

(* A new node is a new binding of its map.                                 *)
LEMMA InsertNodeRefines ==
  ASSUME Inv, Inv', phase = "idle", NEW d \in 0..Depth, NEW k \in Key, NEW v \in Value,
         InsertNode(d, k, v), UNCHANGED phase
  PROVE  Stack' = [Stack EXCEPT ![d + 1][k] = v]
<1>1. /\ TypeOK /\ current = Null /\ Len(scopes) \in Nat
      /\ d + 1 \in 1..Len(scopes) /\ (d + 1) - 1 = d
  BY DEF Inv, TypeOK, PhaseInv, Depth
<1>2. PICK p \in Ptr \ Heap :
        /\ node' = [q \in Heap \cup {p} |->
                     IF q = p
                       THEN [key |-> k, value |-> v, shadowed |-> map[k],
                             prev |-> scopes[d + 1], depth |-> d]
                       ELSE node[q]]
        /\ scopes' = [scopes EXCEPT ![d + 1] = p]
  BY DEF InsertNode
<1>3. /\ Heap' = Heap \cup {p} /\ p \notin Heap
      /\ node'[p].key = k /\ node'[p].depth = d /\ node'[p].value = v
      /\ \A q \in Heap : node'[q] = node[q]
  BY <1>2 DEF Heap
<1>4. Len(scopes') = Len(scopes)
  BY <1>1, <1>2 DEF TypeOK
<1>5. StackHolds /\ StackHolds'
  BY StackIs, StackIsNext
<1>6. ASSUME NEW j \in 1..Len(scopes), NEW l \in Key
      PROVE  Stack'[j][l] = IF j = d + 1 /\ l = k THEN v ELSE Stack[j][l]
  <2>1. CASE j = d + 1 /\ l = k
    BY <1>1, <1>3, <1>4, <1>5, <2>1 DEF StackHolds
  <2>2. CASE ~(j = d + 1 /\ l = k)
    <3>1. CASE SomeNode(j - 1, l)
      <4>1. PICK q \in Heap : node[q].key = l /\ node[q].depth = j - 1
        BY <3>1 DEF SomeNode
      <4>. QED  BY <1>3, <1>4, <1>5, <2>2, <4>1 DEF StackHolds
    <3>2. CASE ~SomeNode(j - 1, l)
      <4>1. ~SomeNode(j - 1, l)'
        BY <1>1, <1>3, <2>2, <3>2 DEF SomeNode
      <4>. QED  BY <1>4, <1>5, <2>2, <3>2, <4>1 DEF StackHolds
    <3>. QED  BY <3>1, <3>2
  <2>. QED  BY <2>1, <2>2
<1>. QED  BY <1>1, <1>4, <1>5, <1>6, SetOne

(* An insertion succeeds or is refused as in a stack of maps.              *)
LEMMA InsertRefines ==
  ASSUME Inv, Inv', NEW d \in 0..Depth, NEW k \in Key, NEW v \in Value,
         InsertIntoScope(d, k, v)
  PROVE  Maps!Insert(d + 1, k, v)
<1>1. /\ phase = "idle" /\ UNCHANGED <<phase, current>>
      /\ StackHolds /\ StackHolds'
      /\ Len(scopes) \in Nat /\ d + 1 \in 1..Len(scopes) /\ d \in Nat
  BY StackIs, StackIsNext DEF InsertIntoScope, Inv, TypeOK, Depth
<1>2. d + 1 \in 1..Len(Stack)
  BY <1>1 DEF StackHolds
<1>3. Occupied(k) => map[k] \in Heap /\ node[map[k]].depth \in Nat
  BY DEF Inv, TypeOK, NodeRecord, NoStalePointer, Occupied
<1>4. CASE AlreadyShadowed(d, k)
  <2>1. node[map[k]].depth + 1 \in Maps!Holders(k) /\ node[map[k]].depth + 1 > d + 1
    BY <1>1, <1>3, <1>4, HoldersAre DEF AlreadyShadowed
  <2>2. Stack' = Stack
    BY <1>1, <1>4 DEF AlreadyShadowed, Stack, At, Heap
  <2>. QED  BY <1>2, <1>4, <2>1, <2>2 DEF AlreadyShadowed, Maps!Insert
<1>5. CASE ReplaceValue(d, k, v)
  <2>1. \A e \in Maps!Holders(k) : e <= d + 1
    BY <1>1, <1>5, HoldersAre DEF ReplaceValue
  <2>2. Stack' = [Stack EXCEPT ![d + 1][k] = v]
    BY <1>1, <1>5, SetValueRefines DEF ReplaceValue
  <2>. QED  BY <1>2, <1>5, <2>1, <2>2 DEF ReplaceValue, Maps!Insert
<1>6. CASE InsertNode(d, k, v)
  <2>1. \A e \in Maps!Holders(k) : e <= d + 1
    <3>1. CASE Occupied(k)
      <4>1. node[map[k]].depth < d
        BY <1>6, <3>1 DEF InsertNode
      <4>2. \A e \in Maps!Holders(k) : e \in Nat /\ e <= node[map[k]].depth + 1
        BY <1>1, <3>1, HoldersAre
      <4>. QED  BY <1>1, <1>3, <3>1, <4>1, <4>2
    <3>2. CASE ~Occupied(k)
      BY <1>1, <3>2, HoldersAre
    <3>. QED  BY <3>1, <3>2
  <2>2. Stack' = [Stack EXCEPT ![d + 1][k] = v]
    BY <1>1, <1>6, InsertNodeRefines
  <2>. QED  BY <1>2, <1>6, <2>1, <2>2 DEF InsertNode, Maps!Insert
<1>. QED  BY <1>4, <1>5, <1>6 DEF InsertIntoScope

(* A new scope is a new map on top.                                        *)
LEMMA PushRefines ==
  ASSUME Inv, Inv', PushScope
  PROVE  Maps!Push
<1>1. /\ StackHolds /\ StackHolds' /\ phase = "idle" /\ phase' = "idle"
      /\ current = Null /\ Len(scopes) \in Nat /\ scopes \in Seq(Pointer)
      /\ UNCHANGED <<node, result>> /\ Heap' = Heap
  BY StackIs, StackIsNext DEF Inv, PhaseInv, TypeOK, PushScope, Heap
<1>2. Len(scopes') = Len(scopes) + 1
  BY <1>1, AppendProperties DEF PushScope, Pointer
<1>3. /\ Stack \in Seq(MapSet) /\ Len(Stack) = Len(scopes)
      /\ Stack' \in Seq(MapSet) /\ Len(Stack') = Len(scopes) + 1
      /\ Maps!NewMap \in MapSet
  BY <1>1, <1>2 DEF StackHolds, MapSet, Maps!NewMap
<1> DEFINE t == Append(Stack, Maps!NewMap)
<1>4. /\ t \in Seq(MapSet) /\ Len(t) = Len(scopes) + 1
      /\ \A i \in 1..Len(scopes) : t[i] = Stack[i]
      /\ t[Len(scopes) + 1] = Maps!NewMap
  BY <1>3, AppendProperties
<1> HIDE DEF t
<1>5. ASSUME NEW i \in 1..Len(t), NEW k \in Key PROVE Stack'[i][k] = t[i][k]
  <2>1. CASE i = Len(scopes) + 1
    <3>1. ~SomeNode(i - 1, k)'
      BY <1>1, <2>1, IdleDepth DEF SomeNode
    <3>2. Stack'[i][k] = Absent
      BY <1>1, <1>2, <1>4, <3>1 DEF StackHolds
    <3>. QED  BY <1>4, <2>1, <3>2 DEF Maps!NewMap
  <2>2. CASE i \in 1..Len(scopes)
    <3>1. Stack'[i][k] = Stack[i][k]
      <4>1. SomeNode(i - 1, k)' <=> SomeNode(i - 1, k)
        BY <1>1 DEF SomeNode
      <4>2. CASE SomeNode(i - 1, k)
        BY <1>1, <1>2, <1>4, <2>2, <4>2 DEF StackHolds, SomeNode
      <4>3. CASE ~SomeNode(i - 1, k)
        BY <1>1, <1>2, <1>4, <2>2, <4>1, <4>3 DEF StackHolds
      <4>. QED  BY <4>2, <4>3
    <3>. QED  BY <1>4, <2>2, <3>1
  <2>. QED  BY <1>1, <1>4, <2>1, <2>2
<1>6. Stack' = t
  BY <1>3, <1>4, <1>5, SameStack
<1>. QED  BY <1>1, <1>6 DEF Maps!Push, t

(* Taking the last scope's list is taking the top map: what is left to     *)
(* free belongs to no map of the stack.                                    *)
LEMMA PopRefines ==
  ASSUME Inv, Inv', PopScope
  PROVE  Maps!Pop
<1>1. /\ StackHolds /\ StackHolds' /\ phase = "idle" /\ phase' = "pop"
      /\ Len(scopes) \in Nat /\ scopes \in Seq(Pointer) /\ Len(scopes) > 1
      /\ UNCHANGED <<node, result>> /\ Heap' = Heap
      /\ scopes' = SubSeq(scopes, 1, Len(scopes) - 1)
  BY StackIs, StackIsNext DEF Inv, TypeOK, PopScope, TakeLastScope, Heap
<1>2. Len(scopes') = Len(scopes) - 1
  BY <1>1, Front
<1>3. /\ Stack \in Seq(MapSet) /\ Len(Stack) = Len(scopes) /\ Stack # <<>>
      /\ Stack' \in Seq(MapSet) /\ Len(Stack') = Len(scopes) - 1
  BY <1>1, <1>2 DEF StackHolds
<1> DEFINE t == SubSeq(Stack, 1, Len(Stack) - 1)
<1>4. /\ t \in Seq(MapSet) /\ Len(t) = Len(scopes) - 1
      /\ \A i \in 1..Len(t) : t[i] = Stack[i]
  BY <1>3, Front
<1> HIDE DEF t
<1>5. ASSUME NEW i \in 1..Len(t), NEW k \in Key PROVE Stack'[i][k] = t[i][k]
  <2>1. i \in 1..Len(scopes) /\ i \in 1..Len(scopes')
    BY <1>1, <1>2, <1>4
  <2>2. SomeNode(i - 1, k)' <=> SomeNode(i - 1, k)
    BY <1>1 DEF SomeNode
  <2>3. CASE SomeNode(i - 1, k)
    BY <1>1, <1>4, <2>1, <2>3 DEF StackHolds, SomeNode
  <2>4. CASE ~SomeNode(i - 1, k)
    <3>1. Stack[i][k] = Absent /\ Stack'[i][k] = Absent
      BY <1>1, <2>1, <2>2, <2>4 DEF StackHolds
    <3>. QED  BY <1>4, <3>1
  <2>. QED  BY <2>3, <2>4
<1>6. Stack' = t
  BY <1>3, <1>4, <1>5, SameStack
<1>. QED  BY <1>1, <1>3, <1>6 DEF Maps!Pop, t

(* Freeing a node of the scope that was taken changes no map.              *)
LEMMA PopNodeRefines ==
  ASSUME Inv, Inv', PopNode
  PROVE  UNCHANGED <<Stack, result>>
<1>1. /\ StackHolds /\ StackHolds' /\ UNCHANGED <<scopes, phase, result>>
      /\ current # Null /\ phase \in {"pop", "drop"}
      /\ PopsInnermost /\ Len(scopes) \in Nat
  BY StackIs, StackIsNext, CurrentInnermost DEF Inv, TypeOK, PhaseInv, PopNode
<1>2. /\ node[current].depth = Len(scopes)
      /\ node' = [q \in Heap \ {current} |-> node[q]]
  BY <1>1 DEF PopsInnermost, PopNode
<1>3. CASE phase = "drop"
  BY <1>1, <1>3 DEF Stack
<1>4. CASE phase = "pop"
  <2>1. Heap' = Heap \ {current} /\ \A q \in Heap' : node'[q] = node[q]
    BY <1>2 DEF Heap
  <2>2. /\ Stack \in Seq(MapSet) /\ Len(Stack) = Len(scopes)
        /\ Stack' \in Seq(MapSet) /\ Len(Stack') = Len(scopes)
    BY <1>1, <1>4 DEF StackHolds
  <2>3. ASSUME NEW i \in 1..Len(scopes), NEW k \in Key PROVE Stack'[i][k] = Stack[i][k]
    <3>1. \A q \in Heap : node[q].depth = i - 1 => q \in Heap'
      BY <1>1, <1>2, <2>1
    <3>2. CASE SomeNode(i - 1, k)
      <4>1. PICK q \in Heap : node[q].key = k /\ node[q].depth = i - 1
        BY <3>2 DEF SomeNode
      <4>. QED  BY <1>1, <1>4, <2>1, <3>1, <4>1 DEF StackHolds
    <3>3. CASE ~SomeNode(i - 1, k)
      <4>1. ~SomeNode(i - 1, k)'
        BY <2>1, <3>3 DEF SomeNode
      <4>. QED  BY <1>1, <1>4, <3>3, <4>1 DEF StackHolds
    <3>. QED  BY <3>2, <3>3
  <2>4. Stack' = Stack
    BY <2>2, <2>3, SameStack
  <2>. QED  BY <1>1, <2>4
<1>. QED  BY <1>1, <1>3, <1>4

(* A lookup answers from the topmost map that holds the key.               *)
LEMMA GetRefines ==
  ASSUME Inv, NEW k \in Key, Get(k)
  PROVE  Maps!Get(k)
<1>1. /\ StackHolds /\ phase = "idle" /\ current = Null /\ scopes # <<>>
      /\ Len(scopes) \in Nat /\ scopes \in Seq(Pointer)
  BY StackIs DEF Inv, TypeOK, PhaseInv, Get
<1>2. Stack' = Stack
  BY <1>1 DEF Get, Stack, At, Heap
<1>3. Stack # <<>>
  BY <1>1 DEF StackHolds
<1>4. CASE Occupied(k)
  <2>1. /\ Maps!Holders(k) # {} /\ Maps!Topmost(k) = node[map[k]].depth + 1
        /\ map[k] \in Heap /\ node[map[k]].key = k
        /\ node[map[k]].depth \in Nat /\ node[map[k]].depth < Len(scopes)
    BY <1>1, <1>4, HoldersAre, IdleDepth
  <2>2. /\ Maps!Topmost(k) \in 1..Len(scopes)
        /\ node[map[k]].depth = Maps!Topmost(k) - 1
    BY <1>1, <2>1
  <2>3. Stack[Maps!Topmost(k)][k] = node[map[k]].value
    BY <1>1, <2>1, <2>2 DEF StackHolds
  <2>. QED  BY <1>2, <1>3, <1>4, <2>1, <2>3 DEF Get, Maps!Get
<1>5. CASE ~Occupied(k)
  <2>1. Maps!Holders(k) = {}
    BY <1>1, <1>5, HoldersAre
  <2>. QED  BY <1>2, <1>3, <1>5, <2>1 DEF Get, Maps!Get
<1>. QED  BY <1>4, <1>5

(* get_mut reaches the topmost map's value.                                *)
LEMMA UpdateRefines ==
  ASSUME Inv, Inv', NEW k \in Key, NEW v \in Value, Update(k, v)
  PROVE  Maps!Update(k, v)
<1>1. /\ Maps!Holders(k) # {} /\ Maps!Topmost(k) = node[map[k]].depth + 1
  BY HoldersAre DEF Update
<1>2. Stack' = [Stack EXCEPT ![node[map[k]].depth + 1][k] = v]
  BY SetValueRefines DEF Update
<1>. QED  BY <1>1, <1>2 DEF Update, Maps!Update

(* Every step of ScopedHashMap is a step of the stack of maps, or none.    *)
LEMMA StepRefines ==
  ASSUME Inv, Inv', [Next]_vars
  PROVE  [Maps!Next]_(Maps!vars)
<1>1. CASE UNCHANGED vars
  BY <1>1 DEF vars, Maps!vars, Stack, At, Heap
<1>2. CASE PushScope
  BY <1>2, PushRefines DEF Maps!Next
<1>3. ASSUME NEW d \in 0..Depth, NEW k \in Key, NEW v \in Value, InsertIntoScope(d, k, v)
      PROVE  Maps!Next
  <2>1. Maps!Insert(d + 1, k, v)
    BY <1>3, InsertRefines
  <2>2. d + 1 \in 1..Len(Stack)
    BY <2>1 DEF Maps!Insert
  <2>. QED  BY <2>1, <2>2 DEF Maps!Next
<1>4. ASSUME NEW k \in Key, Get(k)
      PROVE  Maps!Next
  BY <1>4, GetRefines DEF Maps!Next
<1>5. ASSUME NEW k \in Key, NEW v \in Value, Update(k, v)
      PROVE  Maps!Next
  BY <1>5, UpdateRefines DEF Maps!Next
<1>6. CASE PopScope
  BY <1>6, PopRefines DEF Maps!Next
<1>7. CASE PopNode
  BY <1>7, PopNodeRefines DEF Maps!vars
<1>8. CASE BeginDrop
  BY <1>8 DEF BeginDrop, Stack, Maps!Next, Maps!Drop
<1>9. CASE PopDone
  <2>1. Stack' = Stack
    BY <1>9 DEF PopDone, Stack, At, Heap
  <2>. QED  BY <1>9, <2>1 DEF PopDone, Maps!vars
<1>10. CASE DropScope \/ DropDone
  BY <1>10 DEF DropScope, DropDone, Stack, Maps!vars
<1>. QED
  BY <1>1, <1>2, <1>3, <1>4, <1>5, <1>6, <1>7, <1>8, <1>9, <1>10 DEF Next

(* An empty map is a stack of one empty HashMap.                           *)
LEMMA InitRefines == Init => Maps!Init
<1> SUFFICES ASSUME Init PROVE Maps!Init
  OBVIOUS
<1>1. /\ Len(scopes) = 1 /\ phase = "idle" /\ result = Absent /\ Heap = {}
  BY DEF Init, Heap
<1>2. Stack = [i \in 1..1 |-> Maps!NewMap]
  BY <1>1 DEF Stack, At, Maps!NewMap
<1>. QED  BY <1>1, <1>2 DEF Maps!Init

(* ScopedHashMap behaves as the stack of HashMaps its documentation says   *)
(* it conceptually is.                                                     *)
THEOREM Refinement == Spec => ImplementsScopeStack
<1>1. Inv /\ Inv' /\ [Next]_vars => [Maps!Next]_(Maps!vars)
  BY StepRefines
<1>. QED  BY <1>1, InitRefines, Invariance, PTL DEF Spec, ImplementsScopeStack, Maps!Spec
=============================================================================
