------------------------------- MODULE AstKinds -------------------------------
(***************************************************************************)
(* The kinds of nodes, crates/fft_ast/src/def.rs, and the validation of a  *)
(* tree against them, crates/fft_ast/src/validate.rs.                      *)
(*                                                                         *)
(* For each kind: the variant it is a special case of, and its fields that *)
(* hold nodes, each with the variants it accepts.  The fields of kinds of  *)
(* types are left out: nothing here looks into a type.  So are the kinds   *)
(* of TypeScript, which the Flow parser does not return.                   *)
(***************************************************************************)
EXTENDS AstNode, Integers, Sequences, TLC

CONSTANT
  \* @type: Node => Set of nodes: the node and what is below it.  What
  \* SubtreesOf says of it is the recursion.
  Subtrees(_)

SubtreesOf(n) == {n} \cup UNION {Subtrees(c) : c \in Children(n)}

Kind(variant, fields) == [parent |-> variant, fields |-> fields]
Field(sort, accepts) == [sort |-> sort, accepts |-> accepts]
One(accepts) == Field("One", accepts)
Maybe(accepts) == Field("Maybe", accepts)
List(accepts) == Field("List", accepts)
MaybeList(accepts) == Field("MaybeList", accepts)

FunctionKinds ==
  [Program |-> Kind("", [body |-> List({"Directive", "Statement"})]),
   Module |-> Kind("", [body |-> List({"Directive", "Statement"})]),
   FunctionExpression |-> Kind("Expression",
     [id |-> Maybe({"Identifier"}), params |-> List({"Pattern"}), body |-> One({"BlockStatement"}),
      type_parameters |-> Maybe({"TypeParameterDeclaration"}),
      return_type |-> Maybe({"TypeAnnotation"}), predicate |-> Maybe({"FlowPredicate"})]),
   ArrowFunctionExpression |-> Kind("Expression",
     [params |-> List({"Pattern"}), body |-> One({"Expression", "BlockStatement"}),
      type_parameters |-> Maybe({"TypeParameterDeclaration"}),
      return_type |-> Maybe({"TypeAnnotation"}), predicate |-> Maybe({"FlowPredicate"})]),
   FunctionDeclaration |-> Kind("Declaration",
     [id |-> Maybe({"Identifier"}), params |-> List({"Pattern"}), body |-> One({"BlockStatement"}),
      type_parameters |-> Maybe({"TypeParameterDeclaration"}),
      return_type |-> Maybe({"TypeAnnotation"}),
      predicate |-> Maybe({"InferredPredicate", "DeclaredPredicate"})]),
   ComponentDeclaration |-> Kind("Declaration",
     [id |-> One({"Identifier"}), params |-> List({"Pattern"}), body |-> One({"BlockStatement"}),
      type_parameters |-> Maybe({"TypeParameterDeclaration"}),
      renders_type |-> Maybe({"TypeAnnotation"})]),
   HookDeclaration |-> Kind("Declaration",
     [id |-> One({"Identifier"}), params |-> List({"Pattern"}), body |-> One({"BlockStatement"}),
      type_parameters |-> Maybe({"TypeParameterDeclaration"}),
      return_type |-> Maybe({"TypeAnnotation"})])] @@
  [k \in {"Empty", "Metadata"} |-> Kind("", <<>>)]

StatementKinds ==
  [MatchStatement |-> Kind("Statement",
     [argument |-> One({"Expression"}), cases |-> List({"MatchStatementCase"})]),
   WhileStatement |-> Kind("Statement", [body |-> One({"Statement"}), test |-> One({"Expression"})]),
   DoWhileStatement |-> Kind("Statement",
     [body |-> One({"Statement"}), test |-> One({"Expression"})]),
   ForInStatement |-> Kind("Statement",
     [left |-> One({"VariableDeclaration", "Pattern"}), right |-> One({"Expression"}),
      body |-> One({"Statement"})]),
   ForOfStatement |-> Kind("ForInStatement",
     [left |-> One({"VariableDeclaration", "Pattern"}), right |-> One({"Expression"}),
      body |-> One({"Statement"})]),
   ForStatement |-> Kind("Statement",
     [init |-> Maybe({"VariableDeclaration", "Expression"}), test |-> Maybe({"Expression"}),
      update |-> Maybe({"Expression"}), body |-> One({"Statement"})]),
   BlockStatement |-> Kind("Statement", [body |-> List({"Statement"})]),
   StaticBlock |-> Kind("", [body |-> List({"Statement"})]),
   BreakStatement |-> Kind("Statement", [label |-> Maybe({"Identifier"})]),
   ContinueStatement |-> Kind("Statement", [label |-> Maybe({"Identifier"})]),
   ThrowStatement |-> Kind("Statement", [argument |-> One({"Expression"})]),
   ReturnStatement |-> Kind("Statement", [argument |-> Maybe({"Expression"})]),
   WithStatement |-> Kind("Statement",
     [object |-> One({"Expression"}), body |-> One({"Statement"})]),
   SwitchStatement |-> Kind("Statement",
     [discriminant |-> One({"Expression"}), cases |-> List({"SwitchCase"})]),
   LabeledStatement |-> Kind("Statement",
     [label |-> One({"Identifier"}), body |-> One({"Statement"})]),
   ExpressionStatement |-> Kind("Statement", [expression |-> One({"Expression"})]),
   TryStatement |-> Kind("Statement",
     [block |-> One({"BlockStatement"}), handler |-> Maybe({"CatchClause"}),
      finalizer |-> Maybe({"BlockStatement"})]),
   IfStatement |-> Kind("Statement",
     [test |-> One({"Expression"}), consequent |-> One({"Statement"}),
      alternate |-> Maybe({"Statement"})])] @@
  [k \in {"DebuggerStatement", "EmptyStatement"} |-> Kind("Statement", <<>>)]

ExpressionKinds ==
  [SequenceExpression |-> Kind("Expression", [expressions |-> List({"Expression"})]),
   ObjectExpression |-> Kind("Expression", [properties |-> List({"Property", "SpreadElement"})]),
   ArrayExpression |-> Kind("Expression",
     [elements |-> List({"Expression", "SpreadElement", "Empty"})]),
   SpreadElement |-> Kind("", [argument |-> One({"Expression"})]),
   NewExpression |-> Kind("Expression",
     [callee |-> One({"Expression"}), type_arguments |-> Maybe({"TypeParameterInstantiation"}),
      arguments |-> List({"Expression", "SpreadElement"})]),
   YieldExpression |-> Kind("Expression", [argument |-> Maybe({"Expression"})]),
   AwaitExpression |-> Kind("Expression", [argument |-> One({"Expression"})]),
   ImportExpression |-> Kind("Expression",
     [source |-> One({"Expression"}), options |-> Maybe({"Expression"})]),
   CallExpression |-> Kind("Expression",
     [callee |-> One({"Expression", "Super"}),
      type_arguments |-> Maybe({"TypeParameterInstantiation"}),
      arguments |-> List({"Expression", "SpreadElement"})]),
   OptionalCallExpression |-> Kind("Expression",
     [callee |-> One({"Expression", "Super"}),
      type_arguments |-> Maybe({"TypeParameterInstantiation"}),
      arguments |-> List({"Expression", "SpreadElement"})]),
   AssignmentExpression |-> Kind("Expression",
     [left |-> One({"LVal"}), right |-> One({"Expression"})]),
   UnaryExpression |-> Kind("Expression", [argument |-> One({"Expression"})]),
   UpdateExpression |-> Kind("Expression", [argument |-> One({"Expression"})]),
   MemberExpression |-> Kind("LVal",
     [object |-> One({"Super", "Expression"}), property |-> One({"Expression"})]),
   OptionalMemberExpression |-> Kind("Expression",
     [object |-> One({"Super", "Expression"}), property |-> One({"Expression"})]),
   LogicalExpression |-> Kind("Expression",
     [left |-> One({"Expression"}), right |-> One({"Expression"})]),
   ConditionalExpression |-> Kind("Expression",
     [test |-> One({"Expression"}), alternate |-> One({"Expression"}),
      consequent |-> One({"Expression"})]),
   BinaryExpression |-> Kind("Expression",
     [left |-> One({"Expression"}), right |-> One({"Expression"})])] @@
  [k \in {"NullLiteral", "BooleanLiteral", "StringLiteral", "NumericLiteral", "BigIntLiteral",
     "RegExpLiteral"} |-> Kind("Literal", <<>>)] @@
  [k \in {"ThisExpression"} |-> Kind("Expression", <<>>)] @@
  [k \in {"Super"} |-> Kind("", <<>>)]

DeclarationKinds ==
  [Directive |-> Kind("Statement", [value |-> One({"StringLiteral"})]),
   Identifier |-> Kind("Pattern", [type_annotation |-> Maybe({"TypeAnnotation"})]),
   PrivateName |-> Kind("LVal", [id |-> One({"Identifier"})]),
   MetaProperty |-> Kind("LVal", [meta |-> One({"Identifier"}), property |-> One({"Identifier"})]),
   SwitchCase |-> Kind("", [test |-> Maybe({"Expression"}), consequent |-> List({"Statement"})]),
   CatchClause |-> Kind("", [param |-> Maybe({"Pattern"}), body |-> One({"BlockStatement"})]),
   VariableDeclarator |-> Kind("Declaration",
     [init |-> Maybe({"Expression"}), id |-> One({"Pattern"})]),
   VariableDeclaration |-> Kind("Declaration", [declarations |-> List({"VariableDeclarator"})]),
   TemplateLiteral |-> Kind("Expression",
     [quasis |-> List({"TemplateElement"}), expressions |-> List({"Expression"})]),
   TaggedTemplateExpression |-> Kind("Expression",
     [tag |-> One({"Expression"}), quasi |-> One({"TemplateLiteral"})]),
   Property |-> Kind("",
     [key |-> One({"Literal", "Identifier", "Expression"}), value |-> One({"Expression"})]),
   Decorator |-> Kind("", [expression |-> One({"Expression"})]),
   ClassDeclaration |-> Kind("Declaration",
     [id |-> Maybe({"Identifier"}), type_parameters |-> Maybe({"TypeParameterDeclaration"}),
      super_class |-> Maybe({"Expression"}),
      super_type_arguments |-> Maybe({"TypeParameterInstantiation"}),
      implements |-> List({"ClassImplements"}), decorators |-> List({"Decorator"}),
      body |-> One({"ClassBody"})]),
   ClassExpression |-> Kind("Expression",
     [id |-> Maybe({"Identifier"}), type_parameters |-> Maybe({"TypeParameterDeclaration"}),
      super_class |-> Maybe({"Expression"}),
      super_type_arguments |-> Maybe({"TypeParameterInstantiation"}),
      implements |-> List({"ClassImplements"}), decorators |-> List({"Decorator"}),
      body |-> One({"ClassBody"})]),
   ClassBody |-> Kind("",
     [body |-> List({"ClassProperty", "ClassPrivateProperty", "MethodDefinition", "StaticBlock"})]),
   ClassProperty |-> Kind("",
     [key |-> One({"Expression"}), value |-> Maybe({"Expression"}),
      decorators |-> List({"Decorator"}), variance |-> Maybe({"Variance"}),
      type_annotation |-> Maybe({"TypeAnnotation"})]),
   ClassPrivateProperty |-> Kind("",
     [key |-> One({"PrivateName"}), value |-> Maybe({"Expression"}),
      decorators |-> List({"Decorator"}), variance |-> Maybe({"Variance"}),
      type_annotation |-> Maybe({"TypeAnnotation"})]),
   MethodDefinition |-> Kind("",
     [key |-> One({"Expression"}), value |-> One({"FunctionExpression"}),
      decorators |-> List({"Decorator"})])] @@
  [k \in {"DirectiveLiteral"} |-> Kind("Literal", <<>>)] @@
  [k \in {"TemplateElement"} |-> Kind("", <<>>)]

ModuleKinds ==
  [ImportDeclaration |-> Kind("Declaration",
     [specifiers |-> List({"ImportSpecifier"}), source |-> One({"StringLiteral"}),
      attributes |-> MaybeList({"ImportAttribute"})]),
   ImportSpecifier |-> Kind("", [imported |-> One({"Identifier"}), local |-> One({"Identifier"})]),
   ImportDefaultSpecifier |-> Kind("ImportSpecifier", [local |-> One({"Identifier"})]),
   ImportNamespaceSpecifier |-> Kind("ImportSpecifier", [local |-> One({"Identifier"})]),
   ImportAttribute |-> Kind("", [key |-> One({"StringLiteral"}), value |-> One({"Expression"})]),
   ExportNamedDeclaration |-> Kind("Declaration",
     [declaration |-> Maybe({"Declaration", "Identifier"}),
      specifiers |-> List({"ExportSpecifier", "ExportNamespaceSpecifier"}),
      source |-> Maybe({"StringLiteral"})]),
   ExportSpecifier |-> Kind("", [exported |-> One({"Identifier"}), local |-> One({"Identifier"})]),
   ExportNamespaceSpecifier |-> Kind("", [exported |-> One({"Identifier"})]),
   ExportDefaultDeclaration |-> Kind("Declaration",
     [declaration |-> One({"Declaration", "Expression"})]),
   ExportAllDeclaration |-> Kind("Declaration", [source |-> One({"StringLiteral"})]),
   ObjectPattern |-> Kind("Pattern",
     [properties |-> List({"Property", "RestElement"}),
      type_annotation |-> Maybe({"TypeAnnotation"})]),
   ArrayPattern |-> Kind("Pattern",
     [elements |-> List({"Empty", "Pattern", "MemberExpression", "RestElement"}),
      type_annotation |-> Maybe({"TypeAnnotation"})]),
   RestElement |-> Kind("Pattern", [argument |-> One({"Pattern"})]),
   AssignmentPattern |-> Kind("Pattern", [left |-> One({"Pattern"}), right |-> One({"Expression"})])]

MatchKinds ==
  [MatchStatementCase |-> Kind("", [pattern |-> One({}), body |-> One({}), guard |-> Maybe({})]),
   MatchExpression |-> Kind("Expression",
     [argument |-> One({"Expression"}), cases |-> List({"MatchExpressionCase"})]),
   MatchExpressionCase |-> Kind("", [pattern |-> One({}), body |-> One({}), guard |-> Maybe({})]),
   MatchLiteralPattern |-> Kind("", [literal |-> One({})]),
   MatchUnaryPattern |-> Kind("", [argument |-> One({})]),
   MatchIdentifierPattern |-> Kind("", [id |-> One({"Identifier"})]),
   MatchBindingPattern |-> Kind("", [id |-> One({"Identifier"})]),
   MatchObjectPattern |-> Kind("",
     [properties |-> List({"MatchObjectPatternProperty"}), rest |-> Maybe({})]),
   MatchArrayPattern |-> Kind("", [elements |-> List({}), rest |-> Maybe({})]),
   MatchOrPattern |-> Kind("", [patterns |-> List({})]),
   MatchAsPattern |-> Kind("", [pattern |-> One({}), target |-> One({"Identifier"})]),
   MatchMemberPattern |-> Kind("", [base |-> One({}), property |-> One({})]),
   MatchInstancePattern |-> Kind("",
     [target_constructor |-> One({"MatchIdentifierPattern", "MatchMemberPattern"}),
      properties |-> One({"MatchInstanceObjectPattern"})]),
   MatchObjectPatternProperty |-> Kind("", [key |-> One({}), pattern |-> One({})]),
   MatchInstanceObjectPattern |-> Kind("",
     [properties |-> List({"MatchObjectPatternProperty"}), rest |-> Maybe({"MatchRestPattern"})]),
   MatchRestPattern |-> Kind("", [argument |-> Maybe({})])] @@
  [k \in {"MatchWildcardPattern"} |-> Kind("", <<>>)]

JsxKinds ==
  [JSXMemberExpression |-> Kind("",
     [object |-> One({"JSXMemberExpression", "JSXIdentifier"}), property |-> One({"JSXIdentifier"})]),
   JSXNamespacedName |-> Kind("",
     [namespace |-> One({"JSXIdentifier"}), name |-> One({"JSXIdentifier"})]),
   JSXExpressionContainer |-> Kind("JSXChild", [expression |-> One({"Expression"})]),
   JSXSpreadChild |-> Kind("JSXChild", [expression |-> One({"Expression"})]),
   JSXOpeningElement |-> Kind("",
     [name |-> One({"JSXIdentifier", "JSXMemberExpression", "JSXNamespacedName"}),
      attributes |-> List({"JSXAttribute", "JSXSpreadAttribute"}),
      type_arguments |-> Maybe({"TypeParameterInstantiation"})]),
   JSXClosingElement |-> Kind("",
     [name |-> One({"JSXIdentifier", "JSXMemberExpression", "JSXNamespacedName"})]),
   JSXAttribute |-> Kind("",
     [name |-> One({"JSXIdentifier", "JSXMemberExpression", "JSXNamespacedName"}),
      value |-> Maybe({"JSXExpressionContainer", "JSXStringLiteral"})]),
   JSXSpreadAttribute |-> Kind("", [argument |-> One({"Expression"})]),
   JSXElement |-> Kind("Expression",
     [opening_element |-> One({"JSXOpeningElement"}),
      children |-> List({"JSXElement", "JSXFragment", "JSXChild"}),
      closing_element |-> Maybe({"JSXClosingElement"})]),
   JSXFragment |-> Kind("Expression",
     [opening_fragment |-> One({"JSXOpeningFragment"}),
      children |-> List({"JSXElement", "JSXFragment", "JSXChild"}),
      closing_fragment |-> One({"JSXClosingFragment"})])] @@
  [k \in {"JSXIdentifier", "JSXStringLiteral", "JSXOpeningFragment", "JSXClosingFragment"} |->
     Kind("", <<>>)] @@
  [k \in {"JSXEmptyExpression"} |-> Kind("Expression", <<>>)] @@
  [k \in {"JSXText"} |-> Kind("JSXChild", <<>>)]

TypeKinds ==
  [k \in {"ExistsTypeAnnotation", "EmptyTypeAnnotation", "StringTypeAnnotation",
     "BigIntTypeAnnotation", "NumberTypeAnnotation", "BigIntLiteralTypeAnnotation",
     "StringLiteralTypeAnnotation", "NumberLiteralTypeAnnotation", "BooleanTypeAnnotation",
     "BooleanLiteralTypeAnnotation", "NullLiteralTypeAnnotation", "SymbolTypeAnnotation",
     "AnyTypeAnnotation", "UnknownTypeAnnotation", "UndefinedTypeAnnotation",
     "MixedTypeAnnotation", "VoidTypeAnnotation", "NeverTypeAnnotation", "FunctionTypeAnnotation",
     "HookTypeAnnotation", "FunctionTypeParam", "ComponentTypeAnnotation",
     "ComponentTypeParameter", "NullableTypeAnnotation", "TypeofTypeAnnotation",
     "KeyofTypeAnnotation", "TypeOperator", "TupleTypeAnnotation", "TupleTypeSpreadElement",
     "TupleTypeLabeledElement", "ArrayTypeAnnotation"} |-> Kind("FlowType", <<>>)] @@
  [k \in {"QualifiedTypeIdentifier", "QualifiedTypeofIdentifier"} |-> Kind("Flow", <<>>)]

MoreTypeKinds ==
  [k \in {"InferTypeAnnotation", "UnionTypeAnnotation", "IntersectionTypeAnnotation",
     "GenericTypeAnnotation", "IndexedAccessType", "OptionalIndexedAccessType",
     "ConditionalTypeAnnotation", "TypePredicate", "InterfaceTypeAnnotation"} |-> Kind("FlowType",
     <<>>)]

FlowDeclarationKinds ==
  [k \in {"TypeAlias", "OpaqueType", "InterfaceDeclaration", "DeclareTypeAlias",
     "DeclareOpaqueType", "DeclareInterface", "DeclareClass", "DeclareFunction", "DeclareHook",
     "DeclareVariable", "DeclareEnum", "DeclareExportDeclaration", "DeclareExportAllDeclaration",
     "DeclareModule", "DeclareNamespace", "DeclareModuleExports"} |-> Kind("FlowDeclaration",
     <<>>)] @@
  [k \in {"DeclareComponent"} |-> Kind("Declaration", <<>>)]

TypeMemberKinds ==
  [k \in {"InterfaceExtends", "ClassImplements", "TypeAnnotation", "ObjectTypeProperty",
     "ObjectTypeSpreadProperty", "ObjectTypeInternalSlot", "ObjectTypeCallProperty",
     "ObjectTypeIndexer", "ObjectTypeMappedTypeProperty", "Variance", "TypeParameterDeclaration",
     "TypeParameter", "TypeParameterInstantiation"} |-> Kind("Flow", <<>>)] @@
  [k \in {"ObjectTypeAnnotation"} |-> Kind("FlowType", <<>>)]

FlowExpressionKinds ==
  [TypeCastExpression |-> Kind("FlowExpression",
     [expression |-> One({"Expression"}), type_annotation |-> One({"TypeAnnotation"})]),
   AsExpression |-> Kind("FlowExpression",
     [expression |-> One({"Expression"}), type_annotation |-> One({"TypeAnnotation"})]),
   AsConstExpression |-> Kind("FlowExpression", [expression |-> One({"Expression"})]),
   DeclaredPredicate |-> Kind("FlowPredicate", [value |-> One({"Flow", "Expression"})]),
   EnumDeclaration |-> Kind("Declaration",
     [id |-> One({"Identifier"}), body |-> One({"FlowEnumBody"})]),
   EnumStringBody |-> Kind("FlowEnumBody",
     [members |-> List({"EnumStringMember", "EnumDefaultedMember"})]),
   EnumNumberBody |-> Kind("FlowEnumBody",
     [members |-> List({"EnumNumberMember", "EnumDefaultedMember"})]),
   EnumBigIntBody |-> Kind("FlowEnumBody",
     [members |-> List({"EnumBigIntMember", "EnumDefaultedMember"})]),
   EnumBooleanBody |-> Kind("FlowEnumBody",
     [members |-> List({"EnumBooleanMember", "EnumDefaultedMember"})]),
   EnumSymbolBody |-> Kind("FlowEnumBody", [members |-> List({"EnumDefaultedMember"})]),
   EnumDefaultedMember |-> Kind("", [id |-> One({"Identifier"})]),
   EnumStringMember |-> Kind("", [id |-> One({"Identifier"}), init |-> One({"StringLiteral"})]),
   EnumNumberMember |-> Kind("", [id |-> One({"Identifier"}), init |-> One({"NumericLiteral"})]),
   EnumBigIntMember |-> Kind("", [id |-> One({"Identifier"}), init |-> One({"BigIntLiteral"})]),
   EnumBooleanMember |-> Kind("", [id |-> One({"Identifier"}), init |-> One({"BooleanLiteral"})]),
   ComponentParameter |-> Kind("", [name |-> One({"Identifier"}), local |-> One({"Identifier"})])] @@
  [k \in {"InferredPredicate"} |-> Kind("FlowPredicate", <<>>)]

RecordKinds ==
  [RecordDeclaration |-> Kind("FlowDeclaration",
     [id |-> One({"Identifier"}), type_parameters |-> Maybe({"TypeParameterDeclaration"}),
      implements |-> List({"RecordDeclarationImplements"}), body |-> One({"RecordDeclarationBody"})]),
   RecordDeclarationImplements |-> Kind("Flow",
     [id |-> One({"Identifier", "QualifiedTypeIdentifier"}),
      type_arguments |-> Maybe({"TypeParameterInstantiation"})]),
   RecordDeclarationBody |-> Kind("",
     [elements |-> List({"RecordDeclarationProperty", "RecordDeclarationStaticProperty",
                       "MethodDefinition"})]),
   RecordDeclarationProperty |-> Kind("",
     [key |-> One({"Literal", "Identifier"}), type_annotation |-> One({"TypeAnnotation"}),
      default_value |-> Maybe({"Expression"})]),
   RecordDeclarationStaticProperty |-> Kind("",
     [key |-> One({"Literal", "Identifier"}), type_annotation |-> One({"TypeAnnotation"}),
      value |-> One({"Expression"})]),
   RecordExpression |-> Kind("Expression",
     [record_constructor |-> One({"Expression"}),
      type_arguments |-> Maybe({"TypeParameterInstantiation"}),
      properties |-> One({"RecordExpressionProperties"})]),
   RecordExpressionProperties |-> Kind("", [properties |-> List({"Property", "SpreadElement"})]),
   ImplicitCheckedCast |-> Kind("Expression", [argument |-> One({"Expression"})])] @@
  [k \in {"SHBuiltin"} |-> Kind("Expression", <<>>)]

Kinds ==
  FunctionKinds @@ StatementKinds @@ ExpressionKinds @@ DeclarationKinds @@ ModuleKinds @@
  MatchKinds @@ JsxKinds @@ TypeKinds @@ MoreTypeKinds @@ FlowDeclarationKinds @@
  TypeMemberKinds @@ FlowExpressionKinds @@ RecordKinds

\* The variants that are no kinds of nodes.
Parents ==
  [Expression |-> "", Statement |-> "", Declaration |-> "Statement", Literal |-> "Expression",
   Pattern |-> "LVal", LVal |-> "Expression", JSXChild |-> "", Flow |-> "", FlowType |-> "Flow",
   FlowDeclaration |-> "Declaration", FlowExpression |-> "Expression",
   FlowPredicate |-> "Flow", FlowEnumBody |-> ""]

-----------------------------------------------------------------------------
(* Validation.                                                             *)

parent(variant) ==
  IF variant \in DOMAIN Kinds THEN Kinds[variant].parent
  ELSE IF variant \in DOMAIN Parents THEN Parents[variant] ELSE ""

\* No chain of parents is longer than that of MemberExpression or Identifier.
instanceof(subtype, supertype) ==
  supertype \in {subtype, parent(subtype), parent(parent(subtype)), parent(parent(parent(subtype))),
                 parent(parent(parent(parent(subtype))))}

validate_child(nodes, accepts) ==
  \A i \in DOMAIN nodes : \E a \in accepts : instanceof(nodes[i].kind, a)

validate_custom(n) ==
  CASE n.kind \in {"MemberExpression", "OptionalMemberExpression"} ->
         validate_child(n.k.property, {IF Has(n, "computed") THEN "Expression" ELSE "Identifier"})
    [] n.kind = "Property" ->
         /\ ~(Has(n, "computed") /\ Has(n, "shorthand"))
         /\ Has(n, "computed") \/ validate_child(n.k.key, {"Identifier", "Literal"})
         /\ (Has(n, "method") \/ n.op \in {"get", "set"})
              => validate_child(n.k.value, {"FunctionExpression"})
    [] OTHER -> TRUE

validate_node(n) ==
  /\ n.kind \in DOMAIN Kinds
  /\ \A f \in DOMAIN Kinds[n.kind].fields :
       validate_child(n.k[f], Kinds[n.kind].fields[f].accepts)
  /\ validate_custom(n)

validate_tree(n) == \A m \in Subtrees(n) : validate_node(m)
=============================================================================
