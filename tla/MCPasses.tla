------------------------------ MODULE MCPasses ------------------------------
(***************************************************************************)
(* Instances of Passes.  The trees are made from the table of kinds: every *)
(* kind that the parser returns in every place that accepts it, bare and   *)
(* with all its types, in every kind of node.                              *)
(***************************************************************************)
EXTENDS Passes

\* The recursions: each call is what the operator of the module says of it.
Subtrees1(n) == LET step == SubtreesOf(n) IN step
StripCall1(n, react) == LET step == StripFlowCall(n, react) IN step
ReduceCall1(n) == LET step == ReduceConditionalCall(n) IN step
Erase1(n) == LET step == EraseNode(n) IN step
Branches1(n) == LET step == BranchesOf(n) IN step

Id(x) == Identifier(x)
Annotation == Node("TypeAnnotation", "", {}, <<>>)
Typed(x) == Node("Identifier", x, {"optional"}, [type_annotation |-> Some(Annotation)])

\* The kinds that the parser returns where an expression, a statement or a
\* pattern stands.
ReturnedExpressions ==
  {"Identifier", "FunctionExpression", "ArrowFunctionExpression", "NullLiteral", "ThisExpression",
   "SequenceExpression", "ObjectExpression", "ArrayExpression", "NewExpression",
   "YieldExpression", "AwaitExpression", "ImportExpression", "CallExpression",
   "OptionalCallExpression", "AssignmentExpression", "UnaryExpression", "UpdateExpression",
   "MemberExpression", "OptionalMemberExpression", "LogicalExpression",
   "ConditionalExpression", "BinaryExpression", "MetaProperty", "TemplateLiteral",
   "TaggedTemplateExpression", "ClassExpression", "JSXElement", "JSXFragment",
   "TypeCastExpression", "AsExpression", "AsConstExpression"}
ReturnedStatements ==
  {"WhileStatement", "DoWhileStatement", "ForInStatement", "ForOfStatement", "ForStatement",
   "DebuggerStatement", "EmptyStatement", "BlockStatement", "BreakStatement",
   "ContinueStatement", "ThrowStatement", "ReturnStatement", "WithStatement",
   "SwitchStatement", "LabeledStatement", "ExpressionStatement", "TryStatement", "IfStatement"}
ReturnedDeclarations ==
  {"FunctionDeclaration", "VariableDeclaration", "ClassDeclaration", "TypeAlias", "OpaqueType",
   "InterfaceDeclaration", "DeclareTypeAlias", "DeclareOpaqueType", "DeclareInterface",
   "DeclareClass", "DeclareFunction", "DeclareHook", "DeclareComponent", "DeclareVariable",
   "DeclareEnum", "DeclareModule", "DeclareModuleExports", "DeclareExportDeclaration",
   "DeclareExportAllDeclaration"}
Returned(accepts, sort) ==
  UNION {CASE v = "Expression" -> ReturnedExpressions
           [] v = "Statement" ->
                ReturnedStatements \cup IF sort = "List" THEN ReturnedDeclarations ELSE {}
           [] v = "Declaration" -> {"FunctionDeclaration", "VariableDeclaration", "ClassDeclaration"}
           [] v = "Pattern" -> {"Identifier", "ObjectPattern", "ArrayPattern", "AssignmentPattern"}
           [] v = "LVal" -> {"Identifier", "ObjectPattern", "ArrayPattern", "MemberExpression"}
           [] v = "Literal" -> {"StringLiteral"}
           [] v = "FlowType" -> {"AnyTypeAnnotation"}
           [] v = "FlowPredicate" -> {"InferredPredicate", "DeclaredPredicate"}
           [] v = "JSXChild" -> {"JSXExpressionContainer", "JSXSpreadChild", "JSXText"}
           [] v \in {"FlowEnumBody", "Flow", "FlowDeclaration", "ImplicitCheckedCast", "Super"} -> {}
           [] OTHER -> {v} : v \in accepts}

\* The kind that stands in a place by default.
Usual(accepts) ==
  LET first == SelectSeq(<<"Identifier", "Expression", "Pattern", "LVal", "Statement", "JSXIdentifier">>,
                         LAMBDA v : v \in accepts)
  IN  IF first = <<>> THEN CHOOSE k \in Returned(accepts, "One") : TRUE
      ELSE CASE first[1] = "Statement" -> "EmptyStatement" [] first[1] = "JSXIdentifier" -> first[1]
             [] OTHER -> "Identifier"

Ops(kind) ==
  CASE kind = "Identifier" -> "x"
    [] kind \in {"ImportDeclaration", "ImportSpecifier", "ExportNamedDeclaration",
                 "ExportAllDeclaration"} -> "value"
    [] kind = "Property" -> "init" [] OTHER -> ""

\* The smallest node of a kind, and the one with all its types.
RECURSIVE Bare(_)
Bare(kind) ==
  LET fields == Kinds[kind].fields
  IN  Node(kind, Ops(kind), {},
           [f \in DOMAIN fields |->
              IF fields[f].sort = "One" THEN <<Bare(Usual(fields[f].accepts))>> ELSE <<>>])
Full(kind) ==
  LET fields == Kinds[kind].fields
      bare == Bare(kind)
  IN  [bare EXCEPT !.flags = IF kind \in {"Identifier", "ClassProperty", "ClassPrivateProperty"}
                             THEN {"optional"} ELSE {},
                   !.k = [f \in DOMAIN fields |->
                            IF f \in TypeFields(kind)
                            THEN <<Bare(CHOOSE k \in Returned(fields[f].accepts, "One") : TRUE)>>
                            ELSE bare.k[f]]]

\* The node with a child in one of its fields.
Put(n, f, child) ==
  [n EXCEPT !.k[f] = <<child>>,
            !.flags = @ \cup IF /\ n.kind \in {"Property", "MemberExpression", "OptionalMemberExpression"}
                               /\ f \in {"key", "property"} /\ child.kind # "Identifier"
                            THEN {"computed"} ELSE {}]

\* Where a node that is no expression and no statement stands.
Places ==
  [Property |-> <<"ObjectExpression", "properties">>, SpreadElement |-> <<"ArrayExpression", "elements">>,
   SwitchCase |-> <<"SwitchStatement", "cases">>, CatchClause |-> <<"TryStatement", "handler">>,
   VariableDeclarator |-> <<"VariableDeclaration", "declarations">>,
   TemplateElement |-> <<"TemplateLiteral", "quasis">>,
   ClassBody |-> <<"ClassDeclaration", "body">>, ClassProperty |-> <<"ClassBody", "body">>,
   ClassPrivateProperty |-> <<"ClassBody", "body">>, MethodDefinition |-> <<"ClassBody", "body">>,
   StaticBlock |-> <<"ClassBody", "body">>, Decorator |-> <<"ClassDeclaration", "decorators">>,
   RestElement |-> <<"ArrayPattern", "elements">>, AssignmentPattern |-> <<"ArrayPattern", "elements">>,
   ObjectPattern |-> <<"VariableDeclarator", "id">>, ArrayPattern |-> <<"VariableDeclarator", "id">>,
   ImportSpecifier |-> <<"ImportDeclaration", "specifiers">>,
   ImportDefaultSpecifier |-> <<"ImportDeclaration", "specifiers">>,
   ImportNamespaceSpecifier |-> <<"ImportDeclaration", "specifiers">>,
   ImportAttribute |-> <<"ImportDeclaration", "attributes">>,
   ExportSpecifier |-> <<"ExportNamedDeclaration", "specifiers">>,
   ExportNamespaceSpecifier |-> <<"ExportNamedDeclaration", "specifiers">>,
   JSXMemberExpression |-> <<"JSXOpeningElement", "name">>,
   JSXNamespacedName |-> <<"JSXOpeningElement", "name">>,
   JSXExpressionContainer |-> <<"JSXElement", "children">>,
   JSXSpreadChild |-> <<"JSXElement", "children">>, JSXOpeningElement |-> <<"JSXElement", "opening_element">>,
   JSXClosingElement |-> <<"JSXElement", "closing_element">>,
   JSXAttribute |-> <<"JSXOpeningElement", "attributes">>,
   JSXSpreadAttribute |-> <<"JSXOpeningElement", "attributes">>]

\* The node in a program.
RECURSIVE InProgram(_)
InProgram(n) ==
  CASE n.kind = "Program" -> n
    [] n.kind \in DOMAIN Places ->
         LET place == Places[n.kind] IN InProgram(Put(Bare(place[1]), place[2], n))
    [] instanceof(n.kind, "Statement") -> Node("Program", "", {}, [body |-> <<n>>])
    [] OTHER -> InProgram(Put(Bare("ExpressionStatement"), "expression", n))

\* Every kind with fields that the parser returns, in every place each kind
\* that it accepts: bare, with all its types, and around a cast.
ValueKinds ==
  {"Program"} \cup DOMAIN Places \cup
  {k \in ReturnedExpressions \cup ReturnedStatements \cup
         {"FunctionDeclaration", "VariableDeclaration", "ClassDeclaration", "ExportNamedDeclaration",
          "ExportDefaultDeclaration", "ExportAllDeclaration", "ImportDeclaration"} :
     Kinds[k].fields # <<>>}
Cast(kind, n) ==
  Node(kind, "", {}, IF kind = "AsConstExpression" THEN [expression |-> <<n>>]
                     ELSE [expression |-> <<n>>, type_annotation |-> <<Annotation>>])
Children2(accepts, sort) ==
  LET kinds == Returned(accepts, sort)
  IN  {Bare(c) : c \in kinds} \cup {Full(c) : c \in kinds} \cup
      (IF "Expression" \in accepts
       THEN {Cast("AsExpression", Cast("TypeCastExpression", Typed("x"))),
             Cast("AsConstExpression", Full("ArrowFunctionExpression"))} ELSE {})
Nested ==
  UNION {UNION {{InProgram(Put(Bare(k), f, c)) : c \in
                   Children2(Kinds[k].fields[f].accepts, Kinds[k].fields[f].sort)}
                : f \in DOMAIN Kinds[k].fields} : k \in ValueKinds}

-----------------------------------------------------------------------------
(* The trees that the table does not give: flags, components, enums.       *)

Program(body) == Node("Program", "", {}, [body |-> body])
Block(body) == Node("BlockStatement", "", {}, [body |-> body])
Return(n) == Node("ReturnStatement", "", {}, [argument |-> <<n>>])
Default(left) ==
  Node("AssignmentPattern", "", {}, [left |-> <<left>>, right |-> <<Cast("AsExpression", Id("y"))>>])
Pattern(properties) ==
  Node("ObjectPattern", "", {}, [properties |-> properties, type_annotation |-> <<Annotation>>])
Rest(argument) == Node("RestElement", "", {}, [argument |-> <<argument>>])

Param(name, local, flags) ==
  Node("ComponentParameter", "", flags, [name |-> <<Id(name)>>, local |-> <<local>>])
NamedParams ==
  {Param("a", Typed("a"), {"shorthand"}), Param("b", Default(Typed("c")), {}),
   Param("d", Pattern(<<Property({"shorthand"}, Id("e"), Id("e"))>>), {}),
   Param("ref", Typed("ref"), {"shorthand"}), Param("ref", Typed("r"), {})}
Rests ==
  {<<>>, <<Rest(Typed("rest"))>>, <<Rest(Pattern(<<>>))>>,
   <<Rest(Pattern(<<Property({}, Id("f"), Typed("g")), Rest(Id("h"))>>))>>}
ParamLists ==
  {<<>>} \cup {<<p>> : p \in NamedParams}
  \cup {<<p, q>> : p \in NamedParams, q \in {r \in NamedParams : r.k.name[1].op # "ref"}}
Component(params) ==
  Node("ComponentDeclaration", "", {},
       [id |-> <<Id("C")>>, params |-> params, body |-> <<Block(<<Return(Cast("AsExpression", Id("a")))>>)>>,
        type_parameters |-> <<Bare("TypeParameterDeclaration")>>, renders_type |-> <<Annotation>>])
Components ==
  {Component(named \o rest) : named \in {l \in ParamLists : Len(l) < 2 \/ l[1].k.name # l[2].k.name},
                              rest \in Rests}
Hooks ==
  {Node("HookDeclaration", "", {},
        [id |-> <<Id("useIt")>>, params |-> params, body |-> <<Block(<<Return(Cast("AsExpression", Id("a")))>>)>>,
         type_parameters |-> <<Bare("TypeParameterDeclaration")>>, return_type |-> <<Annotation>>]) :
     params \in {<<>>, <<Typed("a")>>, <<Default(Typed("a")), Rest(Typed("b"))>>}}

Defaulted(name) == Node("EnumDefaultedMember", "", {}, [id |-> <<Id(name)>>])
Valued(kind, name, init) == Node(kind, "", {}, [id |-> <<Id(name)>>, init |-> <<init>>])
Enum(kind, members) ==
  Node("EnumDeclaration", "", {},
       [id |-> <<Id("E")>>, body |-> <<Node(kind, "", {}, [members |-> members])>>])
Enums ==
  {Enum("EnumStringBody", <<>>), Enum("EnumStringBody", <<Defaulted("A"), Defaulted("B")>>),
   Enum("EnumStringBody", <<Valued("EnumStringMember", "A", String("a")),
                            Valued("EnumStringMember", "B", String("b"))>>),
   Enum("EnumSymbolBody", <<>>), Enum("EnumSymbolBody", <<Defaulted("A"), Defaulted("B")>>),
   Enum("EnumNumberBody", <<Valued("EnumNumberMember", "A", Node("NumericLiteral", "1", {}, <<>>))>>),
   Enum("EnumBooleanBody", <<Valued("EnumBooleanMember", "A", Node("BooleanLiteral", "true", {}, <<>>))>>)}

\* Each alone, exported, exported as the default, and beside other statements.
LoweredPrograms ==
  UNION {{Program(<<d>>), Program(<<NamedExport(<<d>>, <<>>)>>), Program(<<build_default_export(d)>>),
          Program(<<Bare("TypeAlias"), NamedExport(<<d>>, <<>>), Bare("ExpressionStatement")>>)} :
           d \in Components \cup Hooks \cup Enums}

Import(op, specifiers) ==
  Node("ImportDeclaration", op, {},
       [specifiers |-> specifiers, source |-> <<String("m")>>, attributes |-> <<>>])
Specifiers ==
  {Node("ImportSpecifier", op, {}, [imported |-> <<Id("x")>>, local |-> <<Id("x")>>]) :
     op \in {"value", "type", "typeof"}} \cup {Bare("ImportDefaultSpecifier")}
ThisParam == [Id("this") EXCEPT !.k.type_annotation = <<Annotation>>]
Members ==
  {[Full(kind) EXCEPT !.k.value = value, !.flags = flags] :
     kind \in {"ClassProperty", "ClassPrivateProperty"}, value \in {<<>>, <<Cast("AsExpression", Id("y"))>>},
     flags \in {{}, {"declare"}, {"optional"}, {"static"}}}
Flagged ==
  {Program(<<Import("value", specifiers)>>) :
     specifiers \in {<<s, t>> : s \in Specifiers, t \in Specifiers} \cup {<<s>> : s \in Specifiers}}
  \cup {Program(<<Import(op, <<Bare("ImportDefaultSpecifier")>>)>>) : op \in {"type", "typeof"}}
  \cup {Program(<<[Bare(kind) EXCEPT !.op = "type"], Bare("DebuggerStatement")>>) :
          kind \in {"ExportNamedDeclaration", "ExportAllDeclaration"}}
  \cup {InProgram([Bare(kind) EXCEPT !.k.params = <<ThisParam, Typed("a")>>]) :
          kind \in {"FunctionDeclaration", "FunctionExpression"}}
  \cup {InProgram([Bare("ClassBody") EXCEPT !.k.body = <<m, Bare("StaticBlock")>>]) : m \in Members}

(* Conditions.                                                             *)

Boolean(text) == Node("BooleanLiteral", text, {}, <<>>)
Tests == {Boolean("true"), Boolean("false"), Id("x")}
Conditionals(branches) ==
  {Node("ConditionalExpression", "", {}, [test |-> <<t>>, consequent |-> <<c>>, alternate |-> <<a>>]) :
     t \in Tests, c \in branches, a \in branches}
Ifs(branches) ==
  {Node("IfStatement", "", {}, [test |-> <<t>>, consequent |-> <<c>>, alternate |-> a]) :
     t \in Tests, c \in branches, a \in {<<b>> : b \in branches} \cup {<<>>}}
Run(n) == Node("ExpressionStatement", "", {}, [expression |-> <<n>>])
While(n) == Node("WhileStatement", "", {}, [test |-> <<Id("x")>>, body |-> <<n>>])
Conditions ==
  LET one == Conditionals({Id("a"), Id("b")})
      if == Ifs({Run(Id("a")), Block(<<Run(Id("b"))>>)})
      \* A test that comes to a literal when it is reduced itself.
      tests == Conditionals({Boolean("false"), Id("c")})
  IN  {Run(c) : c \in Conditionals({Id("a")} \cup one)} \cup if
      \cup Ifs({Run(Id("c"))} \cup if) \cup {While(i) : i \in if}
      \cup {[i EXCEPT !.k.test = <<t>>] : i \in if, t \in tests}

\* Left out: an element with type arguments, which StripFlow leaves (see the README).
Trees ==
  LoweredPrograms \cup Flagged \cup {Program(<<c, Bare("DebuggerStatement")>>) : c \in Conditions}
  \cup {t \in Nested : ~Uses(t, {"JSXOpeningElement"}) \/ ~Uses(t, {"TypeParameterInstantiation"})}

\* What the theorem on valid trees supposes of the programs holds of these.
ASSUME ProgramsAccepted == AllAccepted
=============================================================================
