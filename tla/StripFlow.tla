------------------------------ MODULE StripFlow ------------------------------
(***************************************************************************)
(* The passes over the AST (crates/fft_pass) and the visitor they run on   *)
(* (visit_child_mut in crates/fft_ast/src/node_child.rs, visit_children_mut*)
(* and replace_with_* in kind.rs).                                         *)
(*                                                                         *)
(* A pass gives an outcome for a node.  What a node replaces is not        *)
(* visited again: only its children are, which is what makes the order of  *)
(* the handlers matter.  The identity of nodes is left out, so a node that *)
(* is rebuilt the same is the same node.                                   *)
(***************************************************************************)
EXTENDS AstKinds, SequencesExt

CONSTANTS
  \* @type: Set of trees: what the parser may return.
  Programs,
  \* @type: (Node, Str) => Outcome: StripFlow::call on a node, as it calls
  \* itself on what is below.  What StripFlowCall says of it is the recursion.
  StripCall(_, _)

VARIABLES
  program,  \* the tree the pass is given
  pass,     \* "StripFlow" or "ReduceConditional"
  target,   \* react_runtime_target: "V18" or "V19"
  result    \* the tree it returns, Nothing before it ran

vars == <<program, pass, target, result>>
Nothing == Leaf("Nothing", "")

-----------------------------------------------------------------------------
(* Outcomes, and what they do to the field they are the outcome of.        *)

Outcome(is, nodes) == [is |-> is, nodes |-> nodes]
Unchanged == Outcome("Unchanged", <<>>)
Removed == Outcome("Removed", <<>>)
Changed(n) == Outcome("Changed", <<n>>)
Expanded(nodes) == Outcome("Expanded", nodes)

\* The program stops with a panic here.
Panic == Leaf("Panic", "")

\* A node must stay one node: nothing becomes an empty statement, and several
\* are ignored, or, in an optional field, a panic.
VisitNode(n, outcome) ==
  CASE outcome.is = "Unchanged" -> n
    [] outcome.is = "Removed" -> Node("EmptyStatement", "", {}, <<>>)
    [] outcome.is = "Changed" -> outcome.nodes[1]
    [] outcome.is = "Expanded" -> n
VisitOption(n, outcome) == IF outcome.is = "Expanded" THEN Panic ELSE VisitNode(n, outcome)
\* Mutant: nothing becomes an empty statement in a list too.
VisitElementEmpty(n, outcome) ==
  IF outcome.is = "Expanded" THEN outcome.nodes ELSE <<VisitNode(n, outcome)>>

VisitElement(n, outcome) == IF outcome.is = "Unchanged" THEN <<n>> ELSE outcome.nodes

VisitField(sort, nodes, outcomes) ==
  CASE sort = "One" -> <<VisitNode(nodes[1], outcomes[1])>>
    [] sort = "Maybe" -> [i \in DOMAIN nodes |-> VisitOption(nodes[i], outcomes[i])]
    [] sort \in {"List", "MaybeList"} ->
         FlattenSeq([i \in DOMAIN nodes |-> VisitElement(nodes[i], outcomes[i])])

\* outcomes: for each field, those of the nodes in it.
VisitChildren(n, outcomes) ==
  [n EXCEPT !.k = [f \in Fields(n) |->
                     VisitField(Kinds[n.kind].fields[f].sort, n.k[f], outcomes[f])]]

-----------------------------------------------------------------------------
(* StripFlow.                                                              *)

Identifier(name) == Node("Identifier", name, {}, [type_annotation |-> None])
\* Mutant: what is optional or declared stays so.
WithoutFields(n, fields, flags) ==
  [n EXCEPT !.k = [f \in DOMAIN @ |-> IF f \in fields THEN None ELSE @[f]]]

\* A node with its fields for types emptied and its flags for types cleared.
Without(n, fields, flags) ==
  [n EXCEPT !.flags = @ \ flags, !.k = [f \in DOMAIN @ |-> IF f \in fields THEN None ELSE @[f]]]

Declarations ==
  {"InterfaceDeclaration", "TypeAlias", "OpaqueType", "DeclareTypeAlias", "DeclareOpaqueType",
   "DeclareInterface", "DeclareClass", "DeclareFunction", "DeclareHook", "DeclareVariable",
   "DeclareComponent", "DeclareEnum", "DeclareExportDeclaration",
   "DeclareExportAllDeclaration", "DeclareModule", "DeclareModuleExports"}
Casts == {"TypeCastExpression", "AsExpression", "AsConstExpression"}

should_remove_empty_import(decl) ==
  /\ decl.op = "value"
  /\ decl.k.specifiers # <<>>
  /\ \A i \in DOMAIN decl.k.specifiers :
       decl.k.specifiers[i].kind = "ImportSpecifier" /\ decl.k.specifiers[i].op # "value"

IsThis(param) == param.kind = "Identifier" /\ param.op = "this"
WithoutThis(n) ==
  [n EXCEPT !.k.params = FlattenSeq([i \in DOMAIN @ |-> IF IsThis(@[i]) THEN <<>> ELSE <<@[i]>>])]

FunctionTypes == {"type_parameters", "return_type", "predicate"}
ClassTypes == {"implements", "super_type_arguments", "type_parameters"}
FieldTypes == {"type_annotation", "variance"}

(* Components become functions of their props.                             *)

Property(flags, key, value) ==
  Node("Property", "init", flags, [key |-> <<key>>, value |-> <<value>>])
Placeholder == Identifier("_$$empty_props_placeholder$$")
IsComponentParameter(p) == p.kind = "ComponentParameter"
IsRef(p, react) ==
  /\ react = "V18" /\ IsComponentParameter(p)
  /\ p.k.name[1].kind = "Identifier" /\ p.k.name[1].op = "ref"

\* What a parameter contributes to the pattern of the props.
PropsOf(param) ==
  IF IsComponentParameter(param)
  THEN <<Property(param.flags \cap {"shorthand"}, param.k.name[1], param.k.local[1])>>
  ELSE IF param.k.argument[1].kind = "ObjectPattern" THEN param.k.argument[1].k.properties
       ELSE <<Node("RestElement", "", {}, [argument |-> param.k.argument])>>

\* Mutant: a ref alone is taken for the props.
build_component_props_parameter_bare(params_without_ref, has_ref) ==
  IF params_without_ref = <<>> THEN None
  ELSE Some(Node("ObjectPattern", "", {},
         [properties |-> FlattenSeq([i \in DOMAIN params_without_ref |-> PropsOf(params_without_ref[i])]),
          type_annotation |-> None]))

build_component_props_parameter(params_without_ref, has_ref) ==
  LET properties == FlattenSeq([i \in DOMAIN params_without_ref |-> PropsOf(params_without_ref[i])])
      only == params_without_ref[1]
  IN  CASE properties = <<>> -> IF has_ref THEN Some(Placeholder) ELSE None
        [] /\ Len(params_without_ref) = 1 /\ only.kind = "RestElement"
           /\ only.k.argument[1].kind = "Identifier" -> only.k.argument
        [] OTHER -> Some(Node("ObjectPattern", "", {},
                              [properties |-> properties, type_annotation |-> None]))

FunctionDeclaration(id, params, n) ==
  Node("FunctionDeclaration", "", n.flags \cap {"is_async"},
       [id |-> <<id>>, params |-> params, body |-> n.k.body, type_parameters |-> None,
        return_type |-> None, predicate |-> None])
Call1(callee, argument) ==
  Node("CallExpression", "", {}, [callee |-> <<callee>>, type_arguments |-> None,
                                  arguments |-> <<argument>>])
Member(object, name) ==
  Node("MemberExpression", "", {}, [object |-> <<object>>, property |-> <<Identifier(name)>>])
Const(id, init) ==
  Node("VariableDeclaration", "const", {},
       [declarations |-> <<Node("VariableDeclarator", "", {}, [id |-> <<id>>, init |-> <<init>>])>>])

\* The declarations a component becomes.
lower_component_declaration(n, react) ==
  LET params == n.k.params
      refs == FlattenSeq([i \in DOMAIN params |-> IF IsRef(params[i], react) THEN <<params[i]>> ELSE <<>>])
      has_ref == refs # <<>>
      params_without_ref ==
        FlattenSeq([i \in DOMAIN params |-> IF IsRef(params[i], react) THEN <<>> ELSE <<params[i]>>])
      ref_param == IF has_ref THEN Last(refs).k.local ELSE None
      id == n.k.id[1]
      function_id == IF has_ref THEN Identifier(id.op \o "_withRef") ELSE id
      function == FunctionDeclaration(function_id,
                    build_component_props_parameter(params_without_ref, has_ref) \o ref_param, n)
  IN  IF has_ref
      THEN <<Const(id, Call1(Member(Identifier("React"), "forwardRef"), function_id)), function>>
      ELSE <<function>>

NamedExport(declaration, specifiers) ==
  Node("ExportNamedDeclaration", "value", {},
       [declaration |-> declaration, specifiers |-> specifiers, source |-> None])
\* Mutant: the export has the name of the function with the ref.
build_named_export_inner(id) ==
  LET inner == Identifier(id.op \o "_withRef")
  IN  NamedExport(None, <<Node("ExportSpecifier", "", {}, [exported |-> <<inner>>, local |-> <<inner>>])>>)

build_named_export(id) ==
  NamedExport(None, <<Node("ExportSpecifier", "", {}, [exported |-> <<id>>, local |-> <<id>>])>>)
build_default_export(declaration) ==
  Node("ExportDefaultDeclaration", "", {}, [declaration |-> <<declaration>>])

(* Enums become calls of the runtime of Flow enums.                        *)

String(text) == Node("StringLiteral", text, {}, <<>>)
Mirrored(body) ==
  /\ body.kind = "EnumStringBody"
  /\ body.k.members # <<>> /\ body.k.members[1].kind = "EnumDefaultedMember"
MemberProperty(m) ==
  Property({}, m.k.id[1], IF m.kind = "EnumDefaultedMember"
                          THEN Call1(Identifier("Symbol"), String(m.k.id[1].op)) ELSE m.k.init[1])

transform_enum(n) ==
  LET body == n.k.body[1]
      count == DOMAIN body.k.members
      runtime == Call1(Identifier("require"), String("flow-enums-runtime"))
      names == Node("ArrayExpression", "", {},
                    [elements |-> [i \in count |-> String(body.k.members[i].k.id[1].op)]])
      properties == Node("ObjectExpression", "", {},
                         [properties |-> [i \in count |-> MemberProperty(body.k.members[i])]])
  IN  CASE Mirrored(body) -> Const(n.k.id[1], Call1(Member(runtime, "Mirrored"), names))
        [] body.kind = "EnumBigIntBody" -> Panic
        [] OTHER -> Const(n.k.id[1], Call1(runtime, properties))

(* The visitor.                                                            *)

StripChildren(n, react) ==
  VisitChildren(n, [f \in Fields(n) |-> [i \in DOMAIN n.k[f] |-> StripCall(n.k[f][i], react)]])
ReplaceWith(n, react) == Changed(StripChildren(n, react))
ReplaceWithAll(nodes, react) == Expanded([i \in DOMAIN nodes |-> StripChildren(nodes[i], react)])
\* Mutant: the expression of a cast is taken as it is.
StrippedNot(n, react) == n

Stripped(n, react) ==
  LET outcome == StripCall(n, react) IN IF outcome.is = "Unchanged" THEN n ELSE outcome.nodes[1]

ExportedComponent(n, component, react) ==
  LET lowered == lower_component_declaration(component, react)
      named == n.kind = "ExportNamedDeclaration"
      id == component.k.id[1]
  IN  IF Len(lowered) = 1
      THEN ReplaceWith(IF named THEN NamedExport(lowered, <<>>) ELSE build_default_export(lowered[1]), react)
      ELSE ReplaceWithAll(lowered \o <<IF named THEN build_named_export(id)
                                       ELSE build_default_export(id)>>, react)
ComponentDeclaration(n, react) ==
  LET lowered == lower_component_declaration(n, react)
  IN  IF Len(lowered) = 1 THEN ReplaceWith(lowered[1], react) ELSE ReplaceWithAll(lowered, react)

Declared(n) == n.k.declaration # None
DeclaredKind(n) == IF Declared(n) THEN n.k.declaration[1].kind ELSE "none"

OnlyTypes(n) ==
  \/ n.kind \in Declarations
  \/ n.kind = "ImportDeclaration" /\ (n.op # "value" \/ should_remove_empty_import(n))
  \/ n.kind \in {"ImportSpecifier", "ExportNamedDeclaration", "ExportAllDeclaration"} /\ n.op # "value"
  \/ n.kind = "ClassProperty" /\ (n.k.value = None \/ Has(n, "declare"))
  \/ n.kind = "ClassPrivateProperty" /\ Has(n, "declare")

\* StripFlow::call, the recursive calls of which are StripCall.
StripFlowCall(n, react) ==
  CASE OnlyTypes(n) -> Removed
    [] n.kind \in Casts -> ReplaceWith(Stripped(n.k.expression[1], react), react)
    [] n.kind = "ComponentParameter" -> ReplaceWith(Stripped(n.k.local[1], react), react)
    [] n.kind \in {"Identifier", "ObjectPattern", "ArrayPattern"} ->
         ReplaceWith(Without(n, {"type_annotation"}, {"optional"}), react)
    [] n.kind \in {"FunctionDeclaration", "FunctionExpression"} ->
         ReplaceWith(Without(WithoutThis(n), FunctionTypes, {}), react)
    [] n.kind = "ArrowFunctionExpression" -> ReplaceWith(Without(n, FunctionTypes, {}), react)
    [] n.kind \in {"ClassDeclaration", "ClassExpression"} -> ReplaceWith(Without(n, ClassTypes, {}), react)
    [] n.kind \in {"ClassProperty", "ClassPrivateProperty"} /\ ~OnlyTypes(n) ->
         ReplaceWith(Without(n, FieldTypes, {"declare", "optional"}), react)
    [] n.kind \in {"CallExpression", "NewExpression", "OptionalCallExpression"} ->
         ReplaceWith(Without(n, {"type_arguments"}, {}), react)
    [] /\ n.kind = "ExportNamedDeclaration" /\ n.op = "value" /\ DeclaredKind(n) = "ComponentDeclaration"
         -> ExportedComponent(n, n.k.declaration[1], react)
    [] n.kind = "ExportDefaultDeclaration" /\ DeclaredKind(n) = "ComponentDeclaration" ->
         ExportedComponent(n, n.k.declaration[1], react)
    [] n.kind = "ExportDefaultDeclaration" /\ DeclaredKind(n) = "EnumDeclaration" ->
         ReplaceWithAll(<<transform_enum(n.k.declaration[1]),
                          build_default_export(n.k.declaration[1].k.id[1])>>, react)
    [] n.kind = "ComponentDeclaration" -> ComponentDeclaration(n, react)
    [] n.kind = "HookDeclaration" -> ReplaceWith(FunctionDeclaration(n.k.id[1], n.k.params, n), react)
    [] n.kind = "EnumDeclaration" -> ReplaceWith(transform_enum(n), react)
    [] OTHER -> Changed(StripChildren(n, react))
=============================================================================
