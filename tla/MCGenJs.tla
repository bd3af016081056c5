------------------------------ MODULE MCGenJs ------------------------------
(***************************************************************************)
(* Instances of GenJs.  The trees are those that a parser can return: an   *)
(* expression in every place of an expression, two deep everywhere and     *)
(* three deep for the operators whose precedence matters, in every kind of *)
(* statement; every kind of statement in every kind of body; every kind of *)
(* type in every place of a type; and one tree or more for each of the     *)
(* other kinds and flags.                                                  *)
(***************************************************************************)
EXTENDS GenJs

N(kind, kids) == Node(kind, "", {}, kids)
L(kind, text) == Leaf(kind, text)
Id(x) == Node("Identifier", x, {}, [type_annotation |-> None])

-----------------------------------------------------------------------------
(* Builders.                                                               *)

Bin(op, l, r) == Node("BinaryExpression", op, {}, [left |-> <<l>>, right |-> <<r>>])
Logical(op, l, r) == Node("LogicalExpression", op, {}, [left |-> <<l>>, right |-> <<r>>])
Unary(op, e) == Node("UnaryExpression", op, {"prefix"}, [argument |-> <<e>>])
Update(op, flags, e) == Node("UpdateExpression", op, flags, [argument |-> <<e>>])
Assign(l, r) == Node("AssignmentExpression", "=", {}, [left |-> <<l>>, right |-> <<r>>])
Cond(a, b, c) ==
  N("ConditionalExpression", [test |-> <<a>>, consequent |-> <<b>>, alternate |-> <<c>>])
MemberOf(kind, flags, o, p) == Node(kind, "", flags, [object |-> <<o>>, property |-> <<p>>])
Dot(o, x) == MemberOf("MemberExpression", {}, o, Id(x))
Index(o, p) == MemberOf("MemberExpression", {"computed"}, o, p)
OptDot(flags, o, x) == MemberOf("OptionalMemberExpression", flags, o, Id(x))
Call(kind, flags, f, args) ==
  Node(kind, "", flags, [callee |-> <<f>>, type_arguments |-> None, arguments |-> args])
New(f, args) == Call("NewExpression", {}, f, args)
Seq2(a, b) == N("SequenceExpression", [expressions |-> <<a, b>>])
Spread(e) == N("SpreadElement", [argument |-> <<e>>])
Array(flags, es) == Node("ArrayExpression", "", flags, [elements |-> es])
Object(ps) == N("ObjectExpression", [properties |-> ps])
Template(es) ==
  N("TemplateLiteral", [quasis |-> [i \in 1..(Len(es) + 1) |-> L("TemplateElement", "")],
                        expressions |-> es])
Tagged(e) == N("TaggedTemplateExpression", [tag |-> <<e>>, quasi |-> <<Template(<<>>)>>])

Block(ss) == N("BlockStatement", [body |-> ss])
Function(kind, flags, id, params, body) ==
  Node(kind, "", flags,
       [id |-> id, type_parameters |-> None, params |-> params, return_type |-> None,
        predicate |-> None, body |-> <<body>>])
FunExp(flags, id) == Function("FunctionExpression", flags, id, <<>>, Block(<<>>))
FunDecl(flags, x) == Function("FunctionDeclaration", flags, Some(Id(x)), <<>>, Block(<<>>))
Arrow(flags, params, body) == Function("ArrowFunctionExpression", flags, None, params, body)
Class(kind, id, super, members) ==
  N(kind, [decorators |-> <<>>, id |-> id, type_parameters |-> None, super_class |-> super,
           super_type_arguments |-> None, implements |-> <<>>,
           body |-> <<N("ClassBody", [body |-> members])>>])
Prop(flags, k, v) == Node("Property", "", flags, [key |-> <<k>>, value |-> <<v>>])
Method(op, flags, k, f) ==
  Node("MethodDefinition", op, flags, [decorators |-> <<>>, key |-> <<k>>, value |-> <<f>>])
Field(kind, flags, k, v) ==
  Node(kind, "", flags, [decorators |-> <<>>, variance |-> None, key |-> <<k>>,
                         type_annotation |-> None, value |-> v])
JSX(name, attributes, children) ==
  N("JSXElement",
    [opening_element |->
       <<Node("JSXOpeningElement", "", IF children = <<>> THEN {"self_closing"} ELSE {},
              [name |-> <<name>>, type_arguments |-> None, attributes |-> attributes])>>,
     children |-> children,
     closing_element |-> IF children = <<>> THEN None
                         ELSE Some(N("JSXClosingElement", [name |-> <<name>>]))])
Fragment(children) ==
  N("JSXFragment", [opening_fragment |-> <<L("JSXOpeningFragment", "")>>,
                    children |-> children,
                    closing_fragment |-> <<L("JSXClosingFragment", "")>>])
Hole(e) == N("JSXExpressionContainer", [expression |-> <<e>>])
Tag == L("JSXIdentifier", "T")

Exp(e) == N("ExpressionStatement", [expression |-> <<e>>])
Var(op, x, init) ==
  Node("VariableDeclaration", op, {},
       [declarations |-> <<N("VariableDeclarator", [id |-> <<x>>, init |-> init])>>])
If(a, b, c) == N("IfStatement", [test |-> <<a>>, consequent |-> <<b>>, alternate |-> c])
For(init, test, update, body) ==
  N("ForStatement", [init |-> init, test |-> test, update |-> update, body |-> <<body>>])
ForEach(kind, flags, l, r, body) ==
  Node(kind, "", flags, [left |-> <<l>>, right |-> <<r>>, body |-> <<body>>])
Loop(kind, test, body) == N(kind, [test |-> <<test>>, body |-> <<body>>])
WithDo(o, body) == N("WithStatement", [object |-> <<o>>, body |-> <<body>>])
Label(x, body) == N("LabeledStatement", [label |-> <<Id(x)>>, body |-> <<body>>])
Catch(param, ss) == Some(N("CatchClause", [param |-> param, body |-> <<Block(ss)>>]))
Try(ss, handler, finalizer) ==
  N("TryStatement", [block |-> <<Block(ss)>>, handler |-> handler, finalizer |-> finalizer])
Switch(e, cases) == N("SwitchStatement", [discriminant |-> <<e>>, cases |-> cases])
MatchOf(kind, e, cases) == N(kind, [argument |-> <<e>>, cases |-> cases])
MatchCaseOf(pattern, guard, body) ==
  N("MatchCase", [pattern |-> <<pattern>>, guard |-> guard, body |-> <<body>>])
Wild == L("MatchWildcardPattern", "")
Bind(x) == Node("MatchBindingPattern", "const", {}, [id |-> <<Id(x)>>])
Case(test, ss) == N("SwitchCase", [test |-> test, consequent |-> ss])
Program1(s) == N("Program", [body |-> <<s>>])
Empty == L("EmptyStatement", "")

-----------------------------------------------------------------------------
(* Expressions.                                                            *)

Target(e) == e.kind \in {"Identifier", "MemberExpression"}

\* The expression as an operand, with operands y, c and a
\* name d of its own.
Operand(e, y, c, d) ==
  {Bin(op, e, y) : op \in {"+", "**", "<", "in", "&"}} \cup
  {Bin(op, y, e) : op \in {"-", "**", "instanceof", "=="}} \cup
  {Logical(op, e, y) : op \in {"&&", "??"}} \cup {Logical(op, y, e) : op \in {"||", "??"}} \cup
  {Unary(op, e) : op \in {"-", "typeof"}} \cup
  (IF Target(e) THEN {Update("++", {"prefix"}, e), Update("--", {}, e), Assign(e, y)} ELSE {}) \cup
  {Cond(e, y, c), Cond(y, e, c), Assign(y, e), Dot(e, d),
   OptDot({"optional"}, e, d), Call("CallExpression", {}, e, <<y>>),
   Call("OptionalCallExpression", {"optional"}, e, <<y>>), New(e, <<>>), Arrow({}, <<y>>, e)}

\* The expression in the other places of an expression.
Place(e, y, c, d) ==
  {Bin(op, e, y) : op \in {"*", "<<", "===", "^", "|"}} \cup
  {Unary(op, e) : op \in {"+", "!", "delete"}} \cup
  {Cond(y, c, e), Index(y, e), Tagged(e), Template(<<e>>), Seq2(e, y), Seq2(y, e),
   N("AwaitExpression", [argument |-> <<e>>]), N("YieldExpression", [argument |-> <<e>>]),
   Node("YieldExpression", "", {"delegate"}, [argument |-> <<e>>]),
   N("ImportExpression", [source |-> <<e>>, options |-> <<y>>]),
   Call("CallExpression", {}, y, <<e, Spread(c)>>), New(y, <<Spread(e)>>),
   OptDot({}, OptDot({"optional"}, e, d), c.op),
   MemberOf("OptionalMemberExpression", {"optional", "computed"}, y, e),
   Array({}, <<e, L("Empty", ""), Spread(y)>>), Array({"trailing_comma"}, <<Spread(e)>>),
   Object(<<Prop({}, L("StringLiteral", "k"), e), Spread(y)>>), Object(<<Prop({"computed"}, e, y)>>),
   Arrow({"is_async", "expression"}, <<c>>, e),
   Arrow({}, <<N("AssignmentPattern", [left |-> <<y>>, right |-> <<e>>])>>, Block(<<>>)),
   Class("ClassExpression", None, Some(e), <<Field("ClassProperty", {"computed"}, y, None)>>),
   JSX(Tag, <<N("JSXAttribute", [name |-> <<Tag>>, value |-> Some(Hole(e))]),
              N("JSXSpreadAttribute", [argument |-> <<y>>])>>, <<>>),
   JSX(Tag, <<>>, <<Hole(e), L("JSXText", "text")>>),
   Fragment(<<N("JSXSpreadChild", [expression |-> <<e>>]), Hole(L("JSXEmptyExpression", ""))>>),
   MatchOf("MatchExpression", e, <<MatchCaseOf(Bind("b" \o d), None, y)>>),
   MatchOf("MatchExpression", y, <<MatchCaseOf(Wild, None, e)>>),
   N("TypeCastExpression",
     [expression |-> <<e>>,
      type_annotation |-> <<N("TypeAnnotation",
                              [type_annotation |-> <<L("AnyTypeAnnotation", "any")>>])>>])}

Meta(x, y) == N("MetaProperty", [meta |-> <<Id(x)>>, property |-> <<Id(y)>>])
Private(x) == N("PrivateName", [id |-> <<Id(x)>>])
Leaves ==
  {Id("x"), L("NumericLiteral", "1"), L("StringLiteral", "s"), L("NullLiteral", "null"),
   L("BooleanLiteral", "true"), L("BigIntLiteral", "1n"), L("RegExpLiteral", "/re/"),
   L("ThisExpression", "this"), Node("NumericLiteral", "1.5", {"fraction"}, [none |-> <<>>]),
   Template(<<>>), Object(<<>>), Array({}, <<>>), FunExp({}, None),
   FunExp({"is_async"}, Some(Id("f"))), FunExp({"generator"}, Some(Id("f"))),
   FunExp({"is_async", "generator"}, None), Class("ClassExpression", None, None, <<>>),
   Arrow({}, <<>>, Block(<<>>)), Arrow({"is_async"}, <<Id("p")>>, Block(<<>>)),
   Arrow({}, <<Id("p"), Id("q")>>, Block(<<>>)), JSX(Tag, <<>>, <<>>), Fragment(<<>>),
   Meta("new", "target"), Meta("import", "meta"),
   MemberOf("MemberExpression", {}, Id("x"), Private("p")),
   MemberOf("MemberExpression", {}, L("Super", "super"), Id("p")),
   Call("CallExpression", {}, L("Super", "super"), <<>>), L("SHBuiltin", "$SHBuiltin"),
   N("YieldExpression", [argument |-> None]),
   N("ImplicitCheckedCast", [argument |-> <<Id("x")>>])}

Operands(e, k) == Operand(e, Id("y" \o k), Id("c" \o k), "d" \o k)
Around(e, k) == Operands(e, k) \cup Place(e, Id("y" \o k), Id("c" \o k), "d" \o k)
One == Leaves \cup Around(Id("x"), "1")
Expressions == Leaves \cup UNION {Around(e, "2") : e \in One}
Deep ==
  UNION {Operands(e, "3") : e \in UNION {Operands(d, "2") :
    d \in {e \in Operands(Id("x"), "1") :
             \/ e.kind \in {"UnaryExpression", "OptionalMemberExpression"}
             \/ e.kind = "BinaryExpression" /\ e.op \in {"+", "**"}
             \/ e.kind = "LogicalExpression" /\ e.op \in {"??", "||"}}}}

RECURSIVE Leftmost(_)
Leftmost(n) == {n.kind} \cup IF IsSome(FirstChild(n)) THEN Leftmost(FirstChild(n)[1]) ELSE {}

\* The sign that an operator expression starts with.
RECURSIVE Sign(_)
Sign(n) ==
  CASE n.kind \in {"UnaryExpression", "UpdateExpression"} /\ Has(n, "prefix") -> n.op
    [] n.kind \in {"BinaryExpression", "LogicalExpression"} -> Sign(n.k.left[1])
    [] n.kind = "ConditionalExpression" -> Sign(n.k.test[1])
    [] OTHER -> "none"

\* What need_parens gets wrong: see the runs GenJsRoundTrip and README.
SignDefect(n) ==
  LET Operators2(e) == e.kind \in {"LogicalExpression", "ConditionalExpression"}
                         \/ (e.kind = "BinaryExpression" /\
                               (n.kind = "UnaryExpression" \/ e.op \notin {"*", "**"}))
      Meets(e) == \/ n.op = "-" /\ Sign(e) \in {"-", "--"}
                  \/ n.op = "+" /\ Sign(e) \in {"+", "++"}
  IN  \/ n.kind = "UnaryExpression" /\ Operators2(n.k.argument[1]) /\ Meets(n.k.argument[1])
      \/ n.kind = "BinaryExpression" /\ Operators2(n.k.right[1]) /\ Meets(n.k.right[1])
Defect(n) ==
  \/ SignDefect(n)
  \/ /\ n.kind = "BinaryExpression" /\ n.op = "**"
     /\ \/ n.k.left[1].kind = "UnaryExpression"
        \/ n.k.left[1].kind = "BinaryExpression" /\ n.k.left[1].op = "**"
  \/ /\ n.kind = "AwaitExpression"
     /\ n.k.argument[1].kind \in {"BinaryExpression", "LogicalExpression", "YieldExpression",
          "ConditionalExpression", "AssignmentExpression", "ArrowFunctionExpression"}
  \/ /\ n.kind = "NewExpression"
     /\ \/ n.k.callee[1].kind \in Optional
        \/ "MatchExpression" \in Leftmost(n.k.callee[1])
  \/ n.kind = "TaggedTemplateExpression" /\ n.k.tag[1].kind \in Optional
  \/ /\ n.kind \in {"ClassExpression", "ClassDeclaration"} /\ IsSome(n.k.super_class)
     /\ n.k.super_class[1].kind \in {"BinaryExpression", "LogicalExpression",
          "ConditionalExpression", "AssignmentExpression", "ArrowFunctionExpression",
          "YieldExpression", "UnaryExpression", "AwaitExpression", "UpdateExpression"}
  \/ /\ n.kind = "BinaryExpression" /\ n.op = "/" /\ n.k.right[1].kind = "RegExpLiteral"

RECURSIVE HasDefect(_)
HasDefect(n) == Defect(n) \/ \E c \in Children(n) : HasDefect(c)

ExpressionTrees == {Exp(e) : e \in {d \in Expressions \cup Deep : ~HasDefect(d)}}

-----------------------------------------------------------------------------
(* Statements.                                                             *)

InFunction(s, k) ==
  Function("FunctionDeclaration", {}, Some(Id("f" \o k)), <<Id("p" \o k)>>, Block(<<s>>))
Return(option) == N("ReturnStatement", [argument |-> option])
Jump(kind, label) == N(kind, [label |-> label])
ExportDefault(d) == N("ExportDefaultDeclaration", [declaration |-> <<d>>])

\* The expression in the places that statements and declarations have for one.
StatementPlace(e) ==
  {InFunction(Return(Some(e)), "1"), N("ThrowStatement", [argument |-> <<e>>]),
   Loop("WhileStatement", e, Empty), Loop("DoWhileStatement", e, Empty), If(e, Empty, None),
   WithDo(e, Empty), Switch(e, <<>>), Switch(Id("s"), <<Case(Some(e), <<Empty>>), Case(None, <<>>)>>),
   For(None, Some(e), None, Empty), For(None, None, Some(e), Empty), Var("let", Id("v"), Some(e)),
   ForEach("ForInStatement", {}, Var("const", Id("v"), None), e, Empty),
   ForEach("ForOfStatement", {"is_await"}, Id("v"), e, Block(<<>>)), Label("l", Exp(e)),
   Var("var", N("ObjectPattern",
                [properties |-> <<Prop({}, L("StringLiteral", "k"),
                                       N("AssignmentPattern", [left |-> <<Id("v")>>, right |-> <<e>>])),
                                  N("RestElement", [argument |-> <<Id("r")>>])>>,
                 type_annotation |-> None]), Some(Id("w")))}
  \cup {Class("ClassDeclaration", Some(Id("K")), None, <<member>>) : member \in
          {Field("ClassProperty", {"is_static"}, Id("v"), Some(e)),
           Field("ClassPrivateProperty", {"optional"}, Id("v"), Some(e)),
           Method("method", {"computed"}, e, FunExp({"is_async", "generator"}, None)),
           N("StaticBlock", [body |-> <<Exp(e)>>])}}
  \cup (IF e.kind # "BinaryExpression" \/ e.op # "in" THEN {} ELSE {For(Some(e), None, None, Empty)})
  \cup (IF Leftmost(e) \cap {"FunctionExpression", "ClassExpression"} # {} THEN {}
        ELSE {ExportDefault(e)})

\* The statement in the places of a statement; k keeps the names of
\* two levels apart.
Body(s, k) ==
  {Loop("WhileStatement", Id("t" \o k), s), Loop("DoWhileStatement", Id("t" \o k), s),
   For(Some(Var("let", Id("i" \o k), Some(Id("j" \o k)))), None, None, s), Label("l" \o k, s),
   MatchOf("MatchStatement", Id("o" \o k), <<MatchCaseOf(Wild, None, s)>>),
   ForEach("ForInStatement", {}, Id("i" \o k), Id("j" \o k), s), WithDo(Id("o" \o k), s),
   If(Id("t" \o k), s, None), If(Id("t" \o k), Exp(Id("a" \o k)), Some(s)), Block(<<s, Exp(Id("a" \o k))>>),
   Try(<<s>>, Catch(None, <<>>), None), Try(<<>>, Catch(Some(Id("e" \o k)), <<s>>), Some(Block(<<>>))),
   Try(<<>>, None, Some(Block(<<s>>))), Switch(Id("t" \o k), <<Case(None, <<s, Empty>>)>>),
   InFunction(s, k)}
\* No parser returns an if with else around a longer statement that ends
\* with an if without.
EndsOpen(s) ==
  s.kind \in {"WhileStatement", "ForStatement", "ForInStatement", "LabeledStatement",
              "WithStatement", "IfStatement"} /\ ~is_if_without_else(s)
IfElse(s, k) == IF EndsOpen(s) THEN {} ELSE {If(Id("t" \o k), s, Some(Exp(Id("a" \o k))))}

Simple ==
  {Empty, Exp(Id("x")), L("DebuggerStatement", "debugger"), Block(<<>>), Block(<<Exp(Id("x"))>>),
   Loop("WhileStatement", Id("x"), Jump("BreakStatement", None)),
   Label("m", Loop("DoWhileStatement", Id("x"), Block(<<Jump("ContinueStatement", None)>>))),
   If(Id("x"), Empty, None), If(Id("x"), Exp(Id("y")), Some(Exp(Id("z")))),
   Class("ClassDeclaration", Some(Id("K")), Some(Id("x")), <<>>), Return(None)}
-----------------------------------------------------------------------------
(* Types.                                                                  *)

Any == L("AnyTypeAnnotation", "any")
Annotation(t) == N("TypeAnnotation", [type_annotation |-> <<t>>])
Typing(x, flags, t) == Node("Identifier", x, flags, [type_annotation |-> Some(Annotation(t))])
Generic(x, args) ==
  N("GenericTypeAnnotation", [id |-> <<Id(x)>>, type_parameters |->
     IF args = <<>> THEN None ELSE Some(N("TypeParameterInstantiation", [params |-> args]))])
Param(name, flags, t) ==
  Node("FunctionTypeParam", "", flags, [name |-> name, type_annotation |-> <<t>>])
FunType(parameters, this, params, rest, result) ==
  N("FunctionTypeAnnotation", [type_parameters |-> parameters, this |-> this, params |-> params,
                               rest |-> rest, return_type |-> <<result>>])
Types2(kind, a, b) == N(kind, [types |-> <<a, b>>])
TypeParam(x, variance, bound, default) ==
  Node("TypeParameter", x, {}, [variance |-> variance, bound |-> bound, default |-> default])
TypeParams(ps) == Some(N("TypeParameterDeclaration", [params |-> ps]))
ObjectType(flags, ps, is, cs, ss) ==
  Node("ObjectTypeAnnotation", "", flags,
       [properties |-> ps, indexers |-> is, call_properties |-> cs, internal_slots |-> ss])
Plus == Some(L("Variance", "+"))
TypeProp(flags, x, variance, t) ==
  Node("ObjectTypeProperty", "", flags, [key |-> <<Id(x)>>, value |-> <<t>>, variance |-> variance])
EmptyType == ObjectType({}, <<>>, <<>>, <<>>, <<>>)
Extends(x, args) ==
  N("InterfaceExtends", [id |-> <<Id(x)>>, type_parameters |->
     IF args = <<>> THEN None ELSE Some(N("TypeParameterInstantiation", [params |-> args]))])
Alias(kind, x, params, t) ==
  N(kind, [id |-> <<Id(x)>>, type_parameters |-> params, right |-> <<t>>])
Opaque(kind, x, super, lower, upper, impl) ==
  N(kind, [id |-> <<Id(x)>>, type_parameters |-> None, supertype |-> super,
           lower_bound |-> lower, upper_bound |-> upper, impltype |-> impl])

\* Element types that the printer gives no parentheses: see README.
Weak == {"NullableTypeAnnotation", "UnionTypeAnnotation", "IntersectionTypeAnnotation",
         "FunctionTypeAnnotation"}

\* The type in the places of a type.
TypePlace(t, k) ==
  LET u == Generic("U" \o k, <<>>)
      f == FunType(None, None, <<Param(None, {}, u)>>, None, t)
  IN  {N("NullableTypeAnnotation", [type_annotation |-> <<t>>]),
       Types2("UnionTypeAnnotation", t, u), Types2("UnionTypeAnnotation", u, t),
       Types2("IntersectionTypeAnnotation", t, u), Types2("IntersectionTypeAnnotation", u, t),
       N("TupleTypeAnnotation", [element_types |-> <<t, u>>]), Generic("G" \o k, <<t, u>>), f,
       FunType(TypeParams(<<TypeParam("P", None, Some(Annotation(t)), Some(u))>>),
               Some(Param(None, {}, Any)), <<Param(Some(Id("a" \o k)), {"optional"}, Any)>>,
               None, Any),
       FunType(None, Some(Param(None, {}, t)), <<>>, Some(Param(Some(Id("r" \o k)), {}, u)), Any),
       N("IndexedAccessType", [object_type |-> <<u>>, index_type |-> <<t>>]),
       ObjectType({"inexact"}, <<TypeProp({"optional"}, "p" \o k, Plus, t)>>, <<>>, <<>>, <<>>),
       ObjectType({"exact"},
         <<TypeProp({"method", "is_static"}, "p" \o k, None, f),
           N("ObjectTypeSpreadProperty", [argument |-> <<Generic("S" \o k, <<>>)>>])>>,
         <<>>, <<>>, <<>>),
       ObjectType({},
         <<TypeProp({"proto"}, "p" \o k, None, u)>>,
         <<Node("ObjectTypeIndexer", "", {"is_static"},
                [id |-> Some(Id("i" \o k)), key |-> <<t>>, value |-> <<Any>>, variance |-> Plus]),
           N("ObjectTypeIndexer",
             [id |-> None, key |-> <<Any>>, value |-> <<Any>>, variance |-> None])>>,
         <<>>, <<>>),
       ObjectType({"inexact"}, <<>>, <<>>,
         <<Node("ObjectTypeCallProperty", "", {"is_static"}, [value |-> <<f>>])>>,
         <<Node("ObjectTypeInternalSlot", "", {"optional", "is_static"},
                [id |-> <<Id("s" \o k)>>, value |-> <<Any>>])>>),
       N("InterfaceTypeAnnotation", [extends |-> <<Extends("E" \o k, <<t>>)>>,
                                     body |-> Some(EmptyType)])}
  \cup (IF t.kind \in Weak THEN {}
        ELSE {N("ArrayTypeAnnotation", [element_type |-> <<t>>]),
              Node("OptionalIndexedAccessType", "", {"optional"},
                   [object_type |-> <<t>>, index_type |-> <<u>>])})

TypeLeaves ==
  {Any, Generic("T", <<>>), L("ExistsTypeAnnotation", "*"), EmptyType,
   L("StringLiteralTypeAnnotation", "s"), N("TupleTypeAnnotation", [element_types |-> <<>>]),
   N("TypeofTypeAnnotation", [argument |-> <<Id("T")>>]),
   Generic("Q", <<L("NullLiteralTypeAnnotation", "null")>>),
   N("GenericTypeAnnotation", [id |-> <<N("QualifiedTypeIdentifier",
       [qualification |-> <<Id("M")>>, id |-> <<Id("T")>>])>>, type_parameters |-> None])}

Predicate == Some(N("DeclaredPredicate", [value |-> <<Id("p")>>]))
DeclareFun(t, predicate) ==
  N("DeclareFunction", [id |-> <<Typing("f", {}, t)>>, predicate |-> predicate])
DeclareClassOf(t) ==
  N("DeclareClass", [id |-> <<Id("K")>>, type_parameters |-> None,
                     extends |-> <<Extends("E", <<t>>)>>, mixins |-> <<Extends("X", <<>>)>>,
                     implements |-> <<Extends("I", <<>>), Extends("J", <<>>)>>,
                     body |-> <<EmptyType>>])
Interface(kind, extends) ==
  N(kind, [id |-> <<Id("I")>>, type_parameters |-> None, extends |-> extends,
           body |-> <<EmptyType>>])
Exported(d, flags) ==
  Node("DeclareExportDeclaration", "", flags, [declaration |-> Some(d), source |-> None,
                                               specifiers |-> <<>>])
\* The type in the places that declarations and expressions have for one.
TypedPlace(t) ==
  LET f == FunType(None, None, <<>>, None, t)
      declarations == {DeclareFun(f, None), DeclareFun(f, Predicate), DeclareClassOf(t),
                       Node("DeclareVariable", "let", {}, [id |-> <<Typing("v", {}, t)>>]),
                       Opaque("DeclareOpaqueType", "O", Some(t), None, None, None)}
  IN  {Alias("TypeAlias", "A", TypeParams(<<TypeParam("P", Plus, None, None)>>), t),
       Alias("DeclareTypeAlias", "A", None, t), Opaque("OpaqueType", "O", None, Some(t), None, Some(Any)),
       Opaque("OpaqueType", "O", None, None, Some(t), Some(Any)),
       Interface("InterfaceDeclaration", <<Extends("E", <<t>>)>>), Interface("DeclareInterface", <<>>),
       N("DeclareModuleExports", [type_annotation |-> <<Annotation(t)>>]),
       Node("FunctionDeclaration", "", {},
            [id |-> Some(Id("f")), type_parameters |-> None,
             params |-> <<Typing("p", {"optional"}, t)>>, return_type |-> Some(Annotation(Any)),
             predicate |-> Some(L("InferredPredicate", "%checks")), body |-> <<Block(<<>>)>>]),
       Exp(Node("ArrowFunctionExpression", "", {"is_async"},
                [id |-> None, type_parameters |-> TypeParams(<<TypeParam("P", None, None, None)>>),
                 params |-> <<>>, return_type |-> Some(Annotation(t)), predicate |-> Predicate,
                 body |-> <<Id("e")>>])),
       Exp(N("TypeCastExpression", [expression |-> <<Id("e")>>, type_annotation |-> <<Annotation(t)>>])),
       N("DeclareModule", [id |-> <<Id("m")>>, body |-> <<Block(<<Alias("TypeAlias", "A", None, t)>>)>>])}
      \cup declarations \cup {Exported(d, {}) : d \in declarations} \cup {Exported(t, {"default"})}

-----------------------------------------------------------------------------
(* The other declarations.                                                 *)

Import(op, specifiers, attributes) ==
  Node("ImportDeclaration", op, {}, [specifiers |-> specifiers, attributes |-> attributes,
                                     source |-> <<L("StringLiteral", "m")>>])
Default(x) == N("ImportDefaultSpecifier", [local |-> <<Id(x)>>])
Namespace(x) == N("ImportNamespaceSpecifier", [local |-> <<Id(x)>>])
Named(op, x, y) == Node("ImportSpecifier", op, {}, [imported |-> <<Id(x)>>, local |-> <<Id(y)>>])
Export(op, declaration, specifiers, source) ==
  Node("ExportNamedDeclaration", op, {}, [declaration |-> declaration, specifiers |-> specifiers,
                                          source |-> source])
ExportAs(x, y) == N("ExportSpecifier", [local |-> <<Id(x)>>, exported |-> <<Id(y)>>])
Enum(op, flags, members) ==
  N("EnumDeclaration", [id |-> <<Id("E")>>, body |-> <<Node("EnumBody", op, flags, [members |-> members])>>])
EnumMemberOf(x, init) == N("EnumMember", [id |-> <<Id(x)>>, init |-> init])
String == L("StringLiteral", "s")

Accessor(kind, flags) == Exp(Object(<<Prop({kind} \cup flags, Id("k"), FunExp({}, None))>>))
Declarations ==
  {Import("value", <<>>, <<>>), Import("type", <<Default("d")>>, <<>>),
   Import("value", <<Default("d"), Namespace("n")>>, <<>>),
   Import("value", <<Default("d"), Named("value", "a", "b"), Named("type", "c", "e")>>,
          <<N("ImportAttribute", [key |-> <<Id("k")>>, value |-> <<String>>])>>),
   Import("typeof", <<Named("value", "a", "b")>>, <<>>),
   Export("value", None, <<ExportAs("a", "b"), ExportAs("c", "d")>>, Some(String)),
   Export("type", None, <<>>, None), Export("value", Some(Var("let", Id("v"), None)), <<>>, None),
   Export("value", Some(FunDecl({"is_async"}, "f")), <<>>, None),
   Export("type", Some(Alias("TypeAlias", "A", None, Any)), <<>>, None),
   Node("ExportAllDeclaration", "type", {}, [source |-> <<String>>]),
   ExportDefault(FunDecl({"generator"}, "f")), ExportDefault(Class("ClassDeclaration", None, None, <<>>)),
   N("DeclareExportAllDeclaration", [source |-> <<String>>]),
   Node("DeclareExportDeclaration", "", {},
        [declaration |-> None, source |-> Some(String), specifiers |-> <<ExportAs("a", "b")>>]),
   Enum("string", {"explicit_type"}, <<EnumMemberOf("A", Some(String)), EnumMemberOf("B", Some(String))>>),
   Enum("symbol", {"has_unknown_members"}, <<EnumMemberOf("A", None)>>),
   Enum("boolean", {"has_unknown_members"}, <<>>)}
  \cup {Accessor(kind, flags) : kind \in {"kind get", "kind set"}, flags \in {{}, {"computed"}}}
  \cup {Exp(Object(<<Prop({"method"} \cup flags, Id("k"), FunExp(f, None))>>)) :
          flags \in {{}, {"computed"}},
          f \in {{}, {"is_async"}, {"generator"}, {"is_async", "generator"}}}
  \cup {Exp(Object(<<Prop({"shorthand"}, L("StringLiteral", "k"), Id("v"))>>)),
        Exp(Assign(N("ArrayPattern", [elements |-> <<Id("a"), L("Empty", ""), Id("b")>>,
                                      type_annotation |-> None]), Id("c"))),
        Exp(JSX(N("JSXMemberExpression", [object |-> <<Tag>>, property |-> <<Tag>>]), <<>>, <<>>)),
        Exp(JSX(N("JSXNamespacedName", [namespace |-> <<Tag>>, name |-> <<Tag>>]),
                <<N("JSXAttribute", [name |-> <<Tag>>, value |-> Some(L("JSXStringLiteral", "'"))]),
                  N("JSXAttribute", [name |-> <<Tag>>, value |-> None])>>, <<>>)),
        N("ClassDeclaration",
          [decorators |-> <<N("Decorator", [expression |-> <<Id("d")>>])>>, id |-> Some(Id("K")),
           type_parameters |-> TypeParams(<<TypeParam("P", None, None, None)>>),
           super_class |-> Some(Id("S")),
           super_type_arguments |-> Some(N("TypeParameterInstantiation", [params |-> <<Any>>])),
           implements |-> <<N("ClassImplements", [id |-> <<Id("I")>>, type_parameters |-> None])>>,
           body |-> <<N("ClassBody",
             [body |-> <<Node("ClassProperty", "", {"declare"},
                              [decorators |-> <<>>, variance |-> Plus, key |-> <<Id("k")>>,
                               type_annotation |-> Some(Annotation(Any)), value |-> None]),
                         Method("get", {"is_static"}, Id("g"), FunExp({}, None)),
                         Method("set", {}, Id("h"), FunExp({}, None)),
                         Method("method", {"is_static"}, Id("m"), FunExp({"is_async"}, None))>>])>>])}

-----------------------------------------------------------------------------
(* Match: two cases, the first with every pattern, with a guard or not.    *)

Lit(x) == N("MatchLiteralPattern", [literal |-> <<L("NumericLiteral", x)>>])
Rest(option) == Some(N("MatchRestPattern", [argument |-> option]))
ObjectPatternOf(fields, rest) ==
  N("MatchObjectPattern",
    [properties |-> [i \in DOMAIN fields |->
       N("MatchObjectPatternProperty", [key |-> <<Id(fields[i][1])>>, pattern |-> <<fields[i][2]>>])],
     rest |-> rest])
ArrayPatternOf(elements, rest) == N("MatchArrayPattern", [elements |-> elements, rest |-> rest])
OrOf(patterns) == N("MatchOrPattern", [patterns |-> patterns])
As(p, target) == N("MatchAsPattern", [pattern |-> <<p>>, target |-> <<target>>])
Named1 == N("MatchIdentifierPattern", [id |-> <<Id("one")>>])

SimplePatterns ==
  {Wild, Bind("a"), Lit("1"), Named1,
   Node("MatchUnaryPattern", "-", {}, [argument |-> <<Lit("1")>>]),
   N("MatchMemberPattern",
     [base |-> <<N("MatchIdentifierPattern", [id |-> <<Id("box")>>])>>, property |-> <<Id("k")>>]),
   OrOf(<<Lit("2"), Lit("1")>>), As(OrOf(<<Lit("1"), Wild>>), Id("c"))}
Patterns ==
  SimplePatterns \cup
  {ObjectPatternOf(<<<<"k", p>>>>, r) : p \in SimplePatterns, r \in {None, Rest(Some(Bind("r")))}} \cup
  {ArrayPatternOf(<<p, Wild>>, r) : p \in SimplePatterns, r \in {None, Rest(Some(Id("r"))), Rest(None)}} \cup
  {ObjectPatternOf(<<<<"k", ObjectPatternOf(<<<<"k", Bind("a")>>>>, None)>>>>, None),
   ObjectPatternOf(<<<<"k", ArrayPatternOf(<<Bind("a")>>, None)>>, <<"j", Bind("b")>>>>, None),
   ArrayPatternOf(<<ObjectPatternOf(<<<<"k", Bind("a")>>>>, None), Bind("b")>>, None),
   ArrayPatternOf(<<>>, Rest(Some(Bind("r")))), ObjectPatternOf(<<>>, None),
   OrOf(<<ObjectPatternOf(<<<<"k", Lit("1")>>>>, None), ArrayPatternOf(<<Lit("1")>>, None)>>),
   As(ObjectPatternOf(<<<<"k", Bind("a")>>>>, None), Bind("w"))}

MCValues ==
  LET one == Primitive("1")
  IN  {Undefined, Null, one, Primitive("2"), Primitive("-1"), ArrayOf(<<>>), ArrayOf(<<one>>),
       ArrayOf(<<Null, one, one>>), ArrayOf(<<one, Undefined>>), ArrayOf(<<ObjectOf([k |-> one]), one>>),
       ObjectOf(<<>>), ObjectOf([k |-> one]), ObjectOf([k |-> Null]), ObjectOf([j |-> one]),
       ObjectOf([k |-> ObjectOf([k |-> Primitive("2")]), j |-> one]),
       ObjectOf([k |-> ArrayOf(<<one>>), j |-> Undefined])}

MatchTrees ==
  {MatchOf("MatchStatement", Id("x"),
           <<MatchCaseOf(p, guard, Block(<<>>)), MatchCaseOf(q, None, Block(<<>>))>>) :
     p \in Patterns, q \in {Lit("1"), Wild, ObjectPatternOf(<<<<"k", Bind("z")>>>>, None)},
     guard \in {None, Some(Id("g"))}}

-----------------------------------------------------------------------------

StatementTrees ==
  UNION {StatementPlace(e) : e \in {d \in One : ~HasDefect(d)}} \cup Simple \cup
  UNION {Body(s, "2") \cup IfElse(s, "2") :
           s \in Simple \cup UNION {Body(s, "1") \cup IfElse(s, "1") : s \in Simple}}
TypeTrees ==
  UNION {TypedPlace(t) : t \in TypeLeaves \cup UNION {TypePlace(u, "1") : u \in TypeLeaves}} \cup
  {Alias("TypeAlias", "A", None, t) :
     t \in UNION {TypePlace(u, "2") : u \in UNION {TypePlace(v, "1") : v \in {Any, Generic("T", <<>>)}}}}
Trees ==
  {Program1(s) : s \in ExpressionTrees \cup StatementTrees \cup TypeTrees \cup Declarations \cup MatchTrees}

(* The trees that do not read back.                                        *)
X == Id("x")
Y == Id("y")
Z == Id("z")
ParsedTrees ==
  {Program1(s) : s \in
     {Exp(Unary("-", Bin("+", Unary("-", X), Y))), Exp(Bin("-", X, Bin("+", Unary("-", Y), Z))),
      Exp(Bin("**", Bin("**", X, Y), Z)), Exp(Bin("**", Unary("-", X), Y)),
      Exp(N("AwaitExpression", [argument |-> <<Logical("||", X, Y)>>])),
      Exp(New(MatchOf("MatchExpression", X, <<MatchCaseOf(Wild, None, Y)>>), <<>>)),
      Exp(New(OptDot({"optional"}, X, "y"), <<>>)), Exp(Tagged(OptDot({"optional"}, X, "y"))),
      Exp(Assign(X, Class("ClassExpression", None, Some(Logical("||", Y, Z)), <<>>))),
      ExportDefault(Call("CallExpression", {}, FunExp({}, None), <<>>)),
      For(Some(Logical("||", Bin("in", X, Y), Z)), None, None, Empty),
      Alias("TypeAlias", "A", None, N("ArrayTypeAnnotation",
        [element_type |-> <<N("NullableTypeAnnotation", [type_annotation |-> <<Any>>])>>]))}}
=============================================================================
