------------------------------- MODULE AstNode -------------------------------
(***************************************************************************)
(* Nodes of the AST as values: crates/fft_ast/src/def.rs.                  *)
(*                                                                         *)
(* A node has a kind, the one string or enum field that its kind has (an   *)
(* operator, a name, a literal), the names of its boolean fields that are  *)
(* true, and its fields that hold nodes.  Each of the last is a sequence:  *)
(* of any length for a NodeList, of length 0 or 1 for an Option, of length *)
(* 1 for a node.                                                           *)
(***************************************************************************)
LOCAL INSTANCE Sequences

Node(kind, op, flags, kids) == [kind |-> kind, op |-> op, flags |-> flags, k |-> kids]
Leaf(kind, op) == Node(kind, op, {}, [none |-> <<>>])

None == <<>>
Some(n) == <<n>>
IsSome(option) == option # <<>>

Fields(n) == DOMAIN n.k
Children(n) == UNION {{n.k[f][i] : i \in DOMAIN n.k[f]} : f \in Fields(n)}

Is(n, kinds) == n.kind \in kinds
Has(n, flag) == flag \in n.flags
=============================================================================
