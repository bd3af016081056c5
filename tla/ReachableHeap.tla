--------------------------- MODULE ReachableHeap ---------------------------
(***************************************************************************)
(* What the AST storage of crates/fft_ast promises its users, with no mark *)
(* bits, reference counts, free lists or collector phases: an object that  *)
(* can be reached from something the program holds is neither reclaimed    *)
(* nor changed.  Only the elements of a list still being built are         *)
(* written to, and nothing can reach those yet.                            *)
(*                                                                         *)
(* AstHeap implements this module under the refinement mapping it states.  *)
(***************************************************************************)
CONSTANT Obj             \* the storage slots: AST nodes and list elements

VARIABLES
  live,                  \* the slots that hold an object
  points,                \* points[o]: the slots object o refers to
  roots,                 \* what the program holds (NodeRc, &Node, NodeList)
  draft                  \* the elements of a list that is being built

vars == <<live, points, roots, draft>>

Closed(S) == \A o \in S : points[o] \subseteq S

\* The objects that can be reached from R: the least closed set around it.
Reached(R) ==
  {o \in Obj : \A S \in SUBSET Obj : R \subseteq S /\ Closed(S) => o \in S}

TypeOK ==
  /\ live \subseteq Obj
  /\ points \in [Obj -> SUBSET Obj]
  /\ roots \subseteq Obj
  /\ draft \subseteq Obj

Init ==
  /\ live = {}
  /\ points = [o \in Obj |-> {}]
  /\ roots = {}
  /\ draft = {}

-----------------------------------------------------------------------------
(* A new object is built from what the program can reach.                  *)
New(o, P) ==
  /\ o \notin live
  /\ P \subseteq Reached(roots)
  /\ live' = live \cup {o}
  /\ points' = [points EXCEPT ![o] = P]
  /\ roots' = roots \cup {o}
  /\ UNCHANGED draft

(* A list is built element by element: the new element o joins the draft,  *)
(* and an element t of the draft is made to refer to it.                   *)
Extend(o, P) ==
  /\ o \notin live
  /\ P \subseteq Reached(roots)
  /\ live' = live \cup {o}
  /\ draft' = draft \cup {o}
  /\ \/ /\ draft = {}
        /\ points' = [points EXCEPT ![o] = P]
     \/ \E t \in draft :
          points' = [points EXCEPT ![o] = P, ![t] = @ \cup {o}]
  /\ UNCHANGED roots

(* The finished list is held by its head.                                  *)
Publish ==
  /\ \E h \in draft : roots' = roots \cup {h}
  /\ draft' = {}
  /\ UNCHANGED <<live, points>>

(* The program takes and drops references, among what it can reach.  It    *)
(* may give up a list before it is finished.                               *)
Hold ==
  /\ roots' \in SUBSET Reached(roots)
  /\ draft' \in {draft, {}}
  /\ UNCHANGED <<live, points>>

(* Storage is reclaimed only when nothing can reach it.                    *)
Reclaim(o) ==
  /\ o \in live \ (Reached(roots) \cup draft)
  /\ live' = live \ {o}
  /\ UNCHANGED <<points, roots, draft>>

Next ==
  \/ \E o \in Obj, P \in SUBSET Obj : New(o, P) \/ Extend(o, P)
  \/ Publish
  \/ Hold
  \/ \E o \in Obj : Reclaim(o)

Spec == Init /\ [][Next]_vars
=============================================================================
