----------------------------- MODULE ScopeStack -----------------------------
(***************************************************************************)
(* What ScopedHashMap of crates/fft_support promises: "conceptually a      *)
(* stack of HashMap-s", searched from top to bottom.  Nothing here is      *)
(* shared between the maps of the stack.                                   *)
(*                                                                         *)
(* ScopedHashMap implements this module under the mapping it states.       *)
(***************************************************************************)
EXTENDS Naturals, Sequences

CONSTANTS Key, Value, Absent

VARIABLES
  maps,            \* the stack of HashMaps; the top is last
  result           \* what the last operation returned

vars == <<maps, result>>

NewMap == [k \in Key |-> Absent]
Holders(k) == {d \in 1..Len(maps) : maps[d][k] # Absent}
Topmost(k) == CHOOSE d \in Holders(k) : \A e \in Holders(k) : e <= d

Init == maps = <<NewMap>> /\ result = Absent

Push == maps' = Append(maps, NewMap) /\ UNCHANGED result

(* The root map stays until all is dropped.                                *)
Pop ==
  /\ Len(maps) > 1
  /\ maps' = SubSeq(maps, 1, Len(maps) - 1)
  /\ UNCHANGED result

(* A key is not inserted below a map that has it already.                  *)
Insert(d, k, v) ==
  /\ d \in 1..Len(maps)
  /\ \/ /\ \E e \in Holders(k) : e > d
        /\ result' = "shadowed"
        /\ UNCHANGED maps
     \/ /\ \A e \in Holders(k) : e <= d
        /\ result' = "ok"
        /\ maps' = [maps EXCEPT ![d][k] = v]

Get(k) ==
  /\ maps # <<>>
  /\ result' = IF Holders(k) = {} THEN Absent ELSE maps[Topmost(k)][k]
  /\ UNCHANGED maps

(* Through get_mut: the value that Get would return is replaced.           *)
Update(k, v) ==
  /\ Holders(k) # {}
  /\ maps' = [maps EXCEPT ![Topmost(k)][k] = v]
  /\ UNCHANGED result

Drop == maps' = <<>> /\ UNCHANGED result

Next ==
  \/ Push \/ Pop \/ Drop
  \/ \E k \in Key : Get(k)
  \/ \E k \in Key, v \in Value :
       \/ Update(k, v)
       \/ \E d \in 1..Len(maps) : Insert(d, k, v)

Spec == Init /\ [][Next]_vars
=============================================================================
