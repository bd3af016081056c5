-------------------------------- MODULE GenJs --------------------------------
(***************************************************************************)
(* The code generator: GenJS of crates/fft/src/gen_js.rs.                  *)
(*                                                                         *)
(* Gen(n) is what is printed for the node n: its kind, and in order the    *)
(* tokens and the printed children.  Parentheses that print_parens puts    *)
(* around a child are a part of their own.  Spaces and newlines are tokens *)
(* too, since in the compact format the code leaves them out wherever it   *)
(* thinks it can.  Indentation, the text of literals, source positions and *)
(* comments are left out.                                                  *)
(*                                                                         *)
(* Each arm of gen_node is an operator with the name of its node kind.     *)
(***************************************************************************)
EXTENDS AstNode, JsGrammar, MatchLowering, FiniteSets

LOCAL INSTANCE SequencesExt

CONSTANTS
  Programs,                    \* the trees to print
  Values                       \* the values to match

VARIABLES
  program,                     \* the tree
  pretty,                      \* Opt::pretty
  printed                      \* what has been printed, or Nothing

vars == <<program, pretty, printed>>

Part(of, text, parts) == [of |-> of, text |-> text, parts |-> parts]
Nothing == Part("nothing", "", <<>>)

-----------------------------------------------------------------------------
(* Tokens.                                                                 *)

T(text) == <<Part("token", text, <<>>)>>
Blank == T(" ")
\* space(ForceSpace::No), newline and comma.
Space == IF pretty THEN Blank ELSE <<>>
Newline == IF pretty THEN T("\n") ELSE <<>>
Comma == T(",") \o Space

Cat(parts) == FlattenSeq(parts)
\* The items of a sequence of sequences with a separator in between.
Separated(items, separator) ==
  Cat([i \in DOMAIN items |-> IF i = 1 THEN items[i] ELSE separator \o items[i]])

-----------------------------------------------------------------------------
(* Precedence.                                                             *)

ALWAYS_PAREN == 0
BIN_START == 6

get_binary_precedence(op) ==
  BIN_START +
  CASE op = "**" -> 12
    [] op \in {"*", "%", "/"} -> 11
    [] op \in {"+", "-"} -> 10
    [] op \in {"<<", ">>", ">>>"} -> 9
    [] op \in {"<", ">", "<=", ">=", "in", "instanceof"} -> 8
    [] op \in {"==", "!=", "===", "!=="} -> 7
    [] op = "&" -> 6
    [] op = "^" -> 5
    [] op = "|" -> 4

get_logical_precedence(op) ==
  BIN_START + CASE op = "&&" -> 3 [] op = "||" -> 2 [] op = "??" -> 1

(* The precedence of a node and whether it associates to the right.        *)
get_precedence(n) ==
  LET P(prec, rtl) == [prec |-> prec, rtl |-> rtl]
  IN  CASE n.kind \in {"Identifier", "NullLiteral", "BooleanLiteral", "StringLiteral",
                       "NumericLiteral", "RegExpLiteral", "ThisExpression", "Super",
                       "ArrayExpression", "ObjectExpression", "ObjectPattern",
                       "FunctionExpression", "ClassExpression", "TemplateLiteral",
                       "JSXElement", "JSXFragment", "TypeCastExpression"} -> P(31, FALSE)
        [] n.kind \in {"MemberExpression", "OptionalMemberExpression", "MetaProperty",
                       "CallExpression", "OptionalCallExpression"} -> P(30, FALSE)
        [] n.kind = "NewExpression" ->
             P(IF pretty \/ n.k.arguments # <<>> THEN 30 ELSE 29, FALSE)
        [] n.kind \in {"TaggedTemplateExpression", "ImportExpression"} -> P(28, FALSE)
        [] n.kind = "UpdateExpression" ->
             IF Has(n, "prefix") THEN P(27, FALSE) ELSE P(26, TRUE)
        [] n.kind = "UnaryExpression" -> P(26, TRUE)
        [] n.kind = "BinaryExpression" -> P(get_binary_precedence(n.op), FALSE)
        [] n.kind = "LogicalExpression" -> P(get_logical_precedence(n.op), FALSE)
        [] n.kind = "ConditionalExpression" -> P(5, TRUE)
        [] n.kind = "AssignmentExpression" -> P(4, TRUE)
        [] n.kind = "ArrowFunctionExpression" -> P(2, FALSE)
        [] n.kind = "YieldExpression" -> P(3, FALSE)
        [] n.kind = "SequenceExpression" -> P(1, TRUE)
        [] n.kind \in {"ExistsTypeAnnotation", "EmptyTypeAnnotation",
                       "StringTypeAnnotation", "BigIntTypeAnnotation",
                       "NumberTypeAnnotation", "StringLiteralTypeAnnotation",
                       "NumberLiteralTypeAnnotation", "BooleanTypeAnnotation",
                       "BooleanLiteralTypeAnnotation", "NullLiteralTypeAnnotation",
                       "SymbolTypeAnnotation", "AnyTypeAnnotation",
                       "UnknownTypeAnnotation", "MixedTypeAnnotation",
                       "VoidTypeAnnotation", "MatchExpression"} -> P(31, FALSE)
        [] n.kind = "NullableTypeAnnotation" -> P(26, FALSE)
        [] n.kind = "UnionTypeAnnotation" -> P(1, FALSE)
        [] n.kind = "IntersectionTypeAnnotation" -> P(2, FALSE)
        [] OTHER -> P(ALWAYS_PAREN, FALSE)

is_unary_op(n, op) == n.kind = "UnaryExpression" /\ n.op = op
is_update_prefix(n, op) == n.kind = "UpdateExpression" /\ n.op = op /\ Has(n, "prefix")
is_binary_op(n, op) == n.kind = "BinaryExpression" /\ n.op = op
is_negative_number(n) == n.kind = "NumericLiteral" /\ Has(n, "negative")
check_plus(n) == is_unary_op(n, "+") \/ is_update_prefix(n, "++")
check_minus(n) == is_unary_op(n, "-") \/ is_update_prefix(n, "--") \/ is_negative_number(n)
check_and_or(n) == n.kind = "LogicalExpression" /\ n.op \in {"&&", "||"}
check_nullish(n) == n.kind = "LogicalExpression" /\ n.op = "??"

RECURSIVE contains_call(_)
contains_call(n) ==
  \/ n.kind = "CallExpression"
  \/ n.kind = "OptionalCallExpression" /\ ~Has(n, "optional")
  \/ \E c \in Children(n) : contains_call(c)

RECURSIVE NeedParens(_, _, _)

\* The child that an expression starts with, if any.
FirstChild(n) ==
  CASE n.kind \in {"CallExpression", "OptionalCallExpression"} -> n.k.callee
    [] n.kind \in {"BinaryExpression", "LogicalExpression", "AssignmentExpression"} -> n.k.left
    [] n.kind = "ConditionalExpression" -> n.k.test
    [] n.kind \in {"UpdateExpression", "UnaryExpression"} /\ ~Has(n, "prefix") -> n.k.argument
    [] n.kind \in {"MemberExpression", "OptionalMemberExpression"} -> n.k.object
    [] n.kind = "TaggedTemplateExpression" -> n.k.tag
    [] OTHER -> None

(* The expressions that start where this one does, outermost first.        *)
RECURSIVE StartsWith(_)
StartsWith(n) ==
  <<n>> \o (IF IsSome(FirstChild(n)) /\ NeedParens(n, FirstChild(n)[1], "Left") # "Yes"
            THEN StartsWith(FirstChild(n)[1]) ELSE <<>>)

SomeIn(s, P(_)) == \E i \in DOMAIN s : P(s[i])

\* Whether a sign would run into the sign that the child starts with.
SignsMeet(parent, child, pos) ==
  \/ /\ is_unary_op(parent, "-") \/ (pos = "Right" /\ is_binary_op(parent, "-"))
     /\ SomeIn(StartsWith(child), check_minus)
  \/ /\ is_unary_op(parent, "+") \/ (pos = "Right" /\ is_binary_op(parent, "+"))
     /\ SomeIn(StartsWith(child), check_plus)

\* The comparison of precedences at the end of need_parens.
Weaker(parent, child, pos) ==
  LET c == get_precedence(child)
      p == get_precedence(parent)
  IN  \/ c.prec = ALWAYS_PAREN
      \/ c.prec < p.prec
      \/ /\ c.prec = p.prec
         /\ pos \in {"Anywhere", IF p.rtl THEN "Left" ELSE "Right"}

\* Mutant: a logical operator may be mixed with ??.
MixesNever(parent, child) == FALSE

Optional == {"OptionalMemberExpression", "OptionalCallExpression"}

Mixes(parent, child) ==
  \/ check_and_or(parent) /\ check_nullish(child)
  \/ check_nullish(parent) /\ check_and_or(child)

(* Whether a child at this place needs parentheses: Yes, No or Space.      *)
NeedParens(parent, child, pos) ==
  LET YesIf(b) == IF b THEN "Yes" ELSE "No"
      StartsObject(e) == e.kind = "ObjectExpression"
      StartsStatement(e) == Is(e, {"FunctionExpression", "ClassExpression",
                                   "ObjectExpression", "ObjectPattern"})
      Exempt ==
        \/ parent.kind \in {"NewExpression", "CallExpression", "OptionalCallExpression"}
           /\ child.kind = "SpreadElement"
        \/ /\ parent.kind = "AssignmentExpression" /\ pos = "Left"
           /\ child.kind \in {"ObjectPattern", "ArrayPattern"}
      Danger ==
        \/ /\ parent.kind = "ArrowFunctionExpression" /\ pos = "Right"
           /\ NeedParens(parent, child, "Left") # "Yes"
           /\ SomeIn(StartsWith(child), StartsObject)
        \/ parent.kind = "NewExpression" /\ pos = "Left" /\ contains_call(child)
        \/ /\ parent.kind \in {"MemberExpression", "CallExpression"} /\ pos = "Left"
           /\ child.kind \in Optional
        \/ Mixes(parent, child)
  IN  CASE parent.kind = "ForStatement" -> YesIf(is_binary_op(child, "in"))
        [] parent.kind = "ExpressionStatement" ->
             YesIf(SomeIn(StartsWith(child), StartsStatement))
        [] SignsMeet(parent, child, pos) -> IF pretty THEN "Yes" ELSE "Space"
        [] OTHER -> YesIf(Danger \/ (~Exempt /\ Weaker(parent, child, pos)))

-----------------------------------------------------------------------------
(* Visiting.                                                               *)

RECURSIVE Gen(_)

Visit(list) == [i \in DOMAIN list |-> Gen(list[i])]
VisitList(list) == Separated([i \in DOMAIN list |-> <<Gen(list[i])>>], Comma)
\* An optional child behind what is printed before it.
With(before, option) == IF IsSome(option) THEN before \o Visit(option) ELSE <<>>
Flag(n, flag, text) == IF Has(n, flag) THEN T(text) ELSE <<>>

print_parens(child, need) ==
  CASE need = "Yes" -> <<Part("parens", "", T("(") \o <<Gen(child)>> \o T(")"))>>
    [] need = "Space" -> Blank \o <<Gen(child)>>
    [] need = "No" -> <<Gen(child)>>

print_child(parent, option, pos) ==
  IF IsSome(option) THEN print_parens(option[1], NeedParens(parent, option[1], pos)) ELSE <<>>

print_comma_expression(child) ==
  print_parens(child, IF get_precedence(child).prec <= 1 THEN "Yes" ELSE "No")

Arguments(n) ==
  T("(") \o Separated([i \in DOMAIN n.k.arguments |->
                         print_child(n, <<n.k.arguments[i]>>, "Anywhere")], Comma) \o T(")")

\* A type annotation behind its colon.
Typed(option) == With(T(":") \o Space, option)

-----------------------------------------------------------------------------
(* Statements.                                                             *)

is_if_without_else(n) == n.kind = "IfStatement" /\ ~IsSome(n.k.alternate)

(* Whether the statement ends without a semicolon of its own.              *)
RECURSIVE stmt_skip_semi(_)
stmt_skip_semi(n) ==
  CASE n.kind \in {"BlockStatement", "FunctionDeclaration", "WhileStatement",
                   "ForStatement", "ForInStatement", "ForOfStatement", "IfStatement",
                   "MatchStatement", "WithStatement", "InterfaceDeclaration",
                   "DeclareInterface", "DeclareClass", "DeclareModule",
                   "SwitchStatement", "ClassDeclaration", "EnumDeclaration"} -> TRUE
    [] n.kind \in {"LabeledStatement", "CatchClause"} -> stmt_skip_semi(n.k.body[1])
    [] n.kind = "TryStatement" ->
         IF IsSome(n.k.finalizer) THEN stmt_skip_semi(n.k.finalizer[1])
         ELSE IsSome(n.k.handler) /\ stmt_skip_semi(n.k.handler[1])
    [] n.kind \in {"ExportDefaultDeclaration", "ExportNamedDeclaration"} ->
         IsSome(n.k.declaration) /\ stmt_skip_semi(n.k.declaration[1])
    [] n.kind = "DeclareExportDeclaration" ->
         /\ ~IsSome(n.k.source)
         /\ IsSome(n.k.declaration) /\ stmt_skip_semi(n.k.declaration[1])
    [] OTHER -> FALSE

visit_stmt_in_block(n) == <<Gen(n)>> \o IF stmt_skip_semi(n) THEN <<>> ELSE T(";")

visit_stmt_list(list) ==
  Separated([i \in DOMAIN list |-> visit_stmt_in_block(list[i])], Newline)

emit_braced_body(body) ==
  IF body = <<>> THEN T("{") \o T("}")
  ELSE T("{") \o Newline \o visit_stmt_list(body) \o Newline \o T("}")

(* The body of a loop or clause.                                           *)
visit_stmt_or_block(option, force) ==
  LET n == option[1]
  IN  CASE n.kind = "BlockStatement" -> Space \o emit_braced_body(n.k.body)
        [] n.kind # "BlockStatement" /\ force ->
             Space \o T("{") \o Newline \o visit_stmt_in_block(n) \o Newline \o T("}") \o Newline
        [] OTHER -> Newline \o visit_stmt_in_block(n)

Program(n) == visit_stmt_list(n.k.body)
WhileStatement(n) ==
  T("while") \o Space \o T("(") \o Visit(n.k.test) \o T(")")
    \o visit_stmt_or_block(n.k.body, FALSE)
DoWhileStatement(n) ==
  T("do") \o Blank \o visit_stmt_or_block(n.k.body, FALSE)
    \o (IF n.k.body[1].kind = "BlockStatement" THEN Space ELSE Newline)
    \o T("while") \o Space \o T("(") \o Visit(n.k.test) \o T(")")
ForInStatement(n) ==
  T("for") \o T("(") \o Visit(n.k.left) \o Blank \o T("in") \o Blank \o Visit(n.k.right)
    \o T(")") \o visit_stmt_or_block(n.k.body, FALSE)
ForOfStatement(n) ==
  T("for") \o Flag(n, "is_await", " ") \o Flag(n, "is_await", "await") \o T("(")
    \o Visit(n.k.left) \o Blank \o T("of") \o Blank \o Visit(n.k.right) \o T(")")
    \o visit_stmt_or_block(n.k.body, FALSE)
ForStatement(n) ==
  T("for") \o T("(") \o print_child(n, n.k.init, "Left") \o T(";") \o With(Space, n.k.test)
    \o T(";") \o With(Space, n.k.update) \o T(")") \o visit_stmt_or_block(n.k.body, FALSE)
BlockStatement(n) == emit_braced_body(n.k.body)
StaticBlock(n) == T("static") \o Blank \o emit_braced_body(n.k.body)
BreakStatement(n) == T("break") \o With(Blank, n.k.label)
ContinueStatement(n) == T("continue") \o With(Blank, n.k.label)
ThrowStatement(n) == T("throw") \o Blank \o Visit(n.k.argument)
ReturnStatement(n) == T("return") \o With(Blank, n.k.argument)
WithStatement(n) ==
  T("with") \o Space \o T("(") \o Visit(n.k.object) \o T(")")
    \o visit_stmt_or_block(n.k.body, FALSE)
SwitchStatement(n) ==
  T("switch") \o Space \o T("(") \o Visit(n.k.discriminant) \o T(")") \o Space \o T("{")
    \o Newline \o Cat([i \in DOMAIN n.k.cases |-> <<Gen(n.k.cases[i])>> \o Newline]) \o T("}")
SwitchCase(n) ==
  (IF IsSome(n.k.test) THEN T("case") \o Blank \o Visit(n.k.test) ELSE T("default"))
    \o T(":") \o (IF n.k.consequent = <<>> THEN <<>>
                   ELSE Newline \o visit_stmt_list(n.k.consequent))
LabeledStatement(n) == Visit(n.k.label) \o T(":") \o Newline \o Visit(n.k.body)
ExpressionStatement(n) == print_child(n, n.k.expression, "Anywhere")
TryStatement(n) ==
  T("try") \o visit_stmt_or_block(n.k.block, TRUE) \o Visit(n.k.handler)
    \o (IF IsSome(n.k.finalizer)
        THEN T("finally") \o Space \o visit_stmt_or_block(n.k.finalizer, TRUE) ELSE <<>>)
CatchClause(n) ==
  Space \o T("catch")
    \o (IF IsSome(n.k.param) THEN Space \o T("(") \o Visit(n.k.param) \o T(")") ELSE <<>>)
    \o visit_stmt_or_block(n.k.body, TRUE)

\* Mutant: an if without else may stand before an else.
IfStatementBare(n) ==
  T("if") \o Space \o T("(") \o Visit(n.k.test) \o T(")")
    \o visit_stmt_or_block(n.k.consequent, FALSE)
    \o (IF IsSome(n.k.alternate)
        THEN T("else") \o Blank \o visit_stmt_or_block(n.k.alternate, FALSE) ELSE <<>>)

IfStatement(n) ==
  T("if") \o Space \o T("(") \o Visit(n.k.test) \o T(")")
    \o visit_stmt_or_block(n.k.consequent,
                           IsSome(n.k.alternate) /\ is_if_without_else(n.k.consequent[1]))
    \o (IF IsSome(n.k.alternate)
        THEN T("else")
               \o (IF n.k.alternate[1].kind = "BlockStatement" THEN Space ELSE Blank)
               \o visit_stmt_or_block(n.k.alternate, FALSE)
        ELSE <<>>)

\* What both forms of match start with: the value, and whether a case was taken.
MatchHead(n) ==
  T("const") \o Blank \o T("subject") \o Blank \o T("=") \o Blank \o Visit(n.k.argument) \o T(";")
    \o Newline \o T("let") \o Blank \o T("done") \o Blank \o T("=") \o Blank \o T("false") \o T(";")
\* A case: its condition and values are what MatchLowering compiles.
MatchCase(case, body) ==
  LET plan == PlanOf(case)
      bindings == [b \in DOMAIN plan.bindings |->
                     T(plan.bindings[b].kind) \o Blank \o T(plan.bindings[b].name) \o Blank
                       \o T("=") \o Blank \o T("value") \o T(";") \o Newline]
      guarded == IsSome(case.k.guard)
  IN  Newline \o T("if") \o T("(") \o T("!") \o T("done")
        \o (IF plan.condition = True THEN <<>>
            ELSE T("&&") \o T("(") \o T("condition") \o T(")"))
        \o T(")") \o T("{") \o Newline \o Cat(bindings)
        \o (IF guarded
            THEN T("if") \o T("(") \o Visit(case.k.guard) \o T(")") \o T("{") \o Newline ELSE <<>>)
        \o T("done") \o Blank \o T("=") \o Blank \o T("true") \o T(";") \o Newline \o body
        \o (IF guarded THEN Newline \o T("}") ELSE <<>>) \o Newline \o T("}")
MatchStatement(n) ==
  T("{") \o Newline \o MatchHead(n)
    \o Cat([i \in DOMAIN n.k.cases |->
              MatchCase(n.k.cases[i], visit_stmt_or_block(n.k.cases[i].k.body, TRUE))])
    \o Newline \o T("}")
MatchExpression(n) ==
  T("(") \o T("(") \o T(")") \o T("=>") \o T("{") \o Newline \o MatchHead(n) \o Newline
    \o T("let") \o Blank \o T("result") \o T(";")
    \o Cat([i \in DOMAIN n.k.cases |->
              MatchCase(n.k.cases[i],
                T("result") \o Blank \o T("=") \o Blank
                  \o print_child(n.k.cases[i], n.k.cases[i].k.body, "Anywhere") \o T(";"))])
    \o Newline \o T("return") \o Blank \o T("result") \o T(";") \o Newline
    \o T("}") \o T(")") \o T("(") \o T(")")

VariableDeclaration(n) == T(n.op) \o Blank \o VisitList(n.k.declarations)
VariableDeclarator(n) == Visit(n.k.id) \o With(Space \o T("=") \o Space, n.k.init)

-----------------------------------------------------------------------------
(* Expressions.                                                            *)

\* The name of an identifier or the text of a literal is its op.
Literal(n) == T(n.op)
StringLiteral(n) == T("'")
TemplateLiteral(n) ==
  T("template") \o Cat([i \in DOMAIN n.k.quasis |->
                   IF i \in DOMAIN n.k.expressions
                   THEN T("${") \o Visit(<<n.k.expressions[i]>>) \o T("}") ELSE <<>>]) \o T("template")
TaggedTemplateExpression(n) ==
  print_child(n, n.k.tag, "Left") \o print_child(n, n.k.quasi, "Right")

SequenceExpression(n) ==
  T("(") \o Separated([i \in DOMAIN n.k.expressions |->
                         print_child(n, <<n.k.expressions[i]>>,
                                     IF i = 2 THEN "Left" ELSE "Right")], Comma) \o T(")")
ObjectExpression(n) == T("{") \o VisitList(n.k.properties) \o T("}")
ArrayExpression(n) ==
  T("[") \o Separated([i \in DOMAIN n.k.elements |->
                         LET e == n.k.elements[i]
                         IN  CASE e.kind = "SpreadElement" -> <<Gen(e)>>
                               [] e.kind = "Empty" -> <<>>
                               [] OTHER -> print_comma_expression(e)], Comma)
    \o (IF Has(n, "trailing_comma") THEN Comma ELSE <<>>) \o T("]")
SpreadElement(n) == T("...") \o Visit(n.k.argument)
NewExpression(n) ==
  T("new") \o Blank \o print_child(n, n.k.callee, "Left") \o Visit(n.k.type_arguments)
    \o Arguments(n)
YieldExpression(n) ==
  T("yield")
    \o (IF Has(n, "delegate") THEN T("*") \o Space
        ELSE IF IsSome(n.k.argument) THEN Blank ELSE <<>>)
    \o print_child(n, n.k.argument, "Right")
AwaitExpression(n) == T("await") \o Blank \o print_child(n, n.k.argument, "Right")
ImportExpression(n) ==
  T("import") \o T("(") \o Visit(n.k.source) \o With(T(",") \o Space, n.k.options) \o T(")")
CallExpression(n) ==
  print_child(n, n.k.callee, "Left") \o Visit(n.k.type_arguments) \o Arguments(n)
OptionalCallExpression(n) ==
  print_child(n, n.k.callee, "Left") \o Visit(n.k.type_arguments)
    \o Flag(n, "optional", "?.") \o Arguments(n)
AssignmentExpression(n) ==
  print_child(n, n.k.left, "Left") \o Space \o T(n.op) \o Space
    \o print_child(n, n.k.right, "Right")

IsWord(op) == op \in {"typeof", "void", "delete", "in", "instanceof"}
UnaryExpression(n) ==
  LET gap == IF IsWord(n.op) THEN Blank ELSE <<>>
  IN  IF Has(n, "prefix") THEN T(n.op) \o gap \o print_child(n, n.k.argument, "Right")
      ELSE print_child(n, n.k.argument, "Left") \o gap \o T(n.op)
UpdateExpression(n) ==
  IF Has(n, "prefix") THEN T(n.op) \o print_child(n, n.k.argument, "Right")
  ELSE print_child(n, n.k.argument, "Left") \o T(n.op)

\* A private name is visited, as it would get parentheses.
Member(n) ==
  IF ~Has(n, "computed") /\ n.k.property[1].kind = "PrivateName" THEN Visit(n.k.property)
  ELSE print_child(n, n.k.property, "Right")
MemberExpression(n) ==
  (IF n.k.object[1].kind = "NumericLiteral"
   THEN T(n.k.object[1].op) \o IF Has(n.k.object[1], "fraction") THEN <<>> ELSE T(".")
   ELSE print_child(n, n.k.object, "Left"))
    \o (IF Has(n, "computed") THEN T("[") \o Member(n) \o T("]") ELSE T(".") \o Member(n))
OptionalMemberExpression(n) ==
  print_child(n, n.k.object, "Left")
    \o (IF Has(n, "computed")
        THEN Flag(n, "optional", "?.") \o T("[") \o Member(n) \o T("]")
        ELSE T(IF Has(n, "optional") THEN "?." ELSE ".") \o Member(n))
BinaryExpression(n) ==
  LET gap == IF IsWord(n.op) THEN Blank ELSE Space
  IN  print_child(n, n.k.left, "Left") \o gap \o T(n.op) \o gap
        \o print_child(n, n.k.right, "Right")
LogicalExpression(n) ==
  print_child(n, n.k.left, "Left") \o Space \o T(n.op) \o Space
    \o print_child(n, n.k.right, "Right")
ConditionalExpression(n) ==
  print_child(n, n.k.test, "Left") \o Space \o T("?") \o Space
    \o print_child(n, n.k.consequent, "Anywhere") \o Space \o T(":") \o Space
    \o print_child(n, n.k.alternate, "Right")
Identifier(n) == T(n.op) \o Flag(n, "optional", "?") \o Typed(n.k.type_annotation)
PrivateName(n) == T("#") \o Visit(n.k.id)
MetaProperty(n) == Visit(n.k.meta) \o T(".") \o Visit(n.k.property)

-----------------------------------------------------------------------------
(* Functions, classes, patterns and modules.                               *)

\* What follows the name of a function or method.
visit_func_params_body(f) ==
  Visit(f.k.type_parameters) \o T("(") \o VisitList(f.k.params) \o T(")")
    \o (IF IsSome(f.k.return_type) \/ IsSome(f.k.predicate) THEN T(":") ELSE <<>>)
    \o With(Space, f.k.return_type) \o With(Blank, f.k.predicate)
    \o Space \o Visit(f.k.body)
FunctionExpression(n) ==
  Flag(n, "is_async", "async") \o Flag(n, "is_async", " ") \o T("function")
    \o Flag(n, "generator", "*")
    \o (IF IsSome(n.k.id) THEN IF Has(n, "generator") THEN Space ELSE Blank ELSE <<>>)
    \o Visit(n.k.id) \o visit_func_params_body(n)

\* A single parameter without type needs no parentheses in the short form.
BareParam(n) ==
  /\ Len(n.k.params) = 1
  /\ ~IsSome(n.k.type_parameters) /\ ~IsSome(n.k.return_type) /\ ~IsSome(n.k.predicate)
  /\ LET p == n.k.params[1]
     IN  p.kind = "Identifier" /\ ~IsSome(p.k.type_annotation) /\ ~Has(p, "optional")
  /\ Has(n, "expression") \/ ~pretty
ArrowFunctionExpression(n) ==
  Flag(n, "is_async", "async") \o Flag(n, "is_async", " ") \o Visit(n.k.type_parameters)
    \o (IF BareParam(n) THEN Visit(n.k.params)
        ELSE T("(") \o VisitList(n.k.params) \o T(")"))
    \o (IF IsSome(n.k.return_type) \/ IsSome(n.k.predicate) THEN T(":") ELSE <<>>)
    \o (IF IsSome(n.k.return_type)
        THEN Space \o print_child(n, n.k.return_type, "Anywhere") ELSE <<>>)
    \o With(Blank, n.k.predicate) \o Space \o T("=>") \o Space
    \o (IF n.k.body[1].kind = "BlockStatement" THEN Visit(n.k.body)
        ELSE print_child(n, n.k.body, "Right"))

\* Mutant: the key of a getter or setter follows without a space.
PropertyUnspaced(n) ==
  LET value == n.k.value[1]
  IN  Flag(n, "kind get", "get") \o Flag(n, "kind set", "set") \o Visit(n.k.key)
        \o (IF Has(n, "method") THEN visit_func_params_body(value)
            ELSE T(":") \o Space \o <<Gen(value)>>)

Property(n) ==
  LET accessor == Has(n, "kind get") \/ Has(n, "kind set")
      value == n.k.value[1]
      method == ~accessor /\ Has(n, "method")
      async == method /\ Has(value, "is_async")
      star == method /\ Has(value, "generator")
      needSep == accessor \/ (async /\ ~star)
      key == IF Has(n, "shorthand") THEN n.k.value ELSE n.k.key
  IN  Flag(n, "kind get", "get") \o Flag(n, "kind set", "set")
        \o (IF async THEN T("async") ELSE <<>>) \o (IF star THEN T("*") ELSE <<>>)
        \o (IF Has(n, "computed")
            THEN (IF needSep THEN Space ELSE <<>>) \o T("[") \o Visit(key) \o T("]")
            ELSE (IF needSep THEN Blank ELSE <<>>) \o Visit(key))
        \o (IF Has(n, "shorthand") THEN <<>>
            ELSE IF accessor \/ method THEN visit_func_params_body(value)
            ELSE T(":") \o Space \o <<Gen(value)>>)

Decorators(n) == Cat([i \in DOMAIN n.k.decorators |-> <<Gen(n.k.decorators[i])>> \o T("\n")])
Decorator(n) == T("@") \o Visit(n.k.expression)
ClassExpression(n) ==
  Decorators(n) \o T("class") \o With(Blank, n.k.id) \o Visit(n.k.type_parameters)
    \o With(Blank \o T("extends") \o Blank, n.k.super_class) \o Visit(n.k.super_type_arguments)
    \o (IF n.k.implements # <<>>
        THEN Blank \o T("implements") \o Blank \o VisitList(n.k.implements) ELSE <<>>)
    \o Space \o Visit(n.k.body)
ClassBody(n) ==
  IF n.k.body = <<>> THEN T("{") \o T("}")
  ELSE T("{") \o Newline \o Cat([i \in DOMAIN n.k.body |-> <<Gen(n.k.body[i])>> \o Newline])
         \o T("}") \o Newline

Static(n) == Flag(n, "is_static", "static") \o Flag(n, "is_static", " ")
Key(n) == Flag(n, "computed", "[") \o Visit(n.k.key) \o Flag(n, "computed", "]")
ClassProperty(n) ==
  Decorators(n) \o Flag(n, "declare", "declare") \o Flag(n, "declare", " ") \o Static(n)
    \o Visit(n.k.variance) \o Key(n) \o Flag(n, "optional", "?") \o Typed(n.k.type_annotation)
    \o With(Space \o T("=") \o Space, n.k.value) \o T(";")
ClassPrivateProperty(n) ==
  Decorators(n) \o Visit(n.k.variance) \o Static(n)
    \o Flag(n, "declare", "static") \o Flag(n, "declare", " ") \o T("#") \o Visit(n.k.key)
    \o Flag(n, "optional", "?") \o Typed(n.k.type_annotation)
    \o Space \o With(T("=") \o Space, n.k.value) \o T(";")
MethodDefinition(n) ==
  LET f == n.k.value[1]
  IN  Decorators(n) \o Static(n) \o Flag(f, "is_async", "async") \o Flag(f, "is_async", " ")
        \o Flag(f, "generator", "*")
        \o (IF n.op \in {"get", "set"} THEN T(n.op) \o Blank ELSE <<>>)
        \o Key(n) \o visit_func_params_body(f)

\* The braces open at the first named specifier and close after the last.
ImportDeclaration(n) ==
  LET specs == n.k.specifiers
      named == {i \in DOMAIN specs : specs[i].kind = "ImportSpecifier"}
      First(i) == \A j \in named : i <= j
  IN  T("import") \o Blank \o (IF n.op # "value" THEN T(n.op) \o Blank ELSE <<>>)
        \o Separated([i \in DOMAIN specs |->
                        (IF i \in named /\ First(i) THEN T("{") ELSE <<>>)
                          \o <<Gen(specs[i])>>], Comma)
        \o (IF specs = <<>> THEN <<>>
            ELSE (IF named # {} THEN T("}") \o Space ELSE Blank) \o T("from") \o Blank)
        \o Visit(n.k.source)
        \o (IF n.k.attributes # <<>>
            THEN Blank \o T("with") \o Blank \o T("{") \o VisitList(n.k.attributes) \o T("}")
            ELSE <<>>)
ImportSpecifier(n) ==
  (IF n.op # "value" THEN T(n.op) \o Blank ELSE <<>>)
    \o Visit(n.k.imported) \o Blank \o T("as") \o Blank \o Visit(n.k.local)
ImportDefaultSpecifier(n) == Visit(n.k.local)
ImportNamespaceSpecifier(n) == T("*") \o Blank \o T("as") \o Blank \o Visit(n.k.local)
ImportAttribute(n) == Visit(n.k.key) \o T(":") \o Space \o Visit(n.k.value)
ExportNamedDeclaration(n) ==
  T("export") \o Blank
    \o (IF IsSome(n.k.declaration) THEN Visit(n.k.declaration)
        ELSE (IF n.op # "value" THEN T(n.op) \o Blank ELSE <<>>)
               \o T("{") \o VisitList(n.k.specifiers) \o T("}")
               \o With(Blank \o T("from") \o Blank, n.k.source))
ExportSpecifier(n) ==
  Visit(n.k.local) \o Blank \o T("as") \o Blank \o Visit(n.k.exported)
ExportNamespaceSpecifier(n) == T("*") \o Blank \o T("as") \o Blank \o Visit(n.k.exported)
ExportDefaultDeclaration(n) ==
  T("export") \o Blank \o T("default") \o Blank \o Visit(n.k.declaration)
ExportAllDeclaration(n) ==
  T("export") \o Blank \o (IF n.op # "value" THEN T(n.op) \o Blank ELSE <<>>)
    \o T("*") \o Blank \o T("from") \o Blank \o Visit(n.k.source)

ObjectPattern(n) == T("{") \o VisitList(n.k.properties) \o T("}") \o Typed(n.k.type_annotation)
ArrayPattern(n) == T("[") \o VisitList(n.k.elements) \o T("]") \o Typed(n.k.type_annotation)
RestElement(n) == T("...") \o Visit(n.k.argument)
AssignmentPattern(n) == Visit(n.k.left) \o Space \o T("=") \o Space \o Visit(n.k.right)

-----------------------------------------------------------------------------
(* JSX.                                                                    *)

JSXMemberExpression(n) == Visit(n.k.object) \o T(".") \o Visit(n.k.property)
JSXNamespacedName(n) == Visit(n.k.namespace) \o T(":") \o Visit(n.k.name)
JSXExpressionContainer(n) == T("{") \o Visit(n.k.expression) \o T("}")
JSXSpreadChild(n) == T("{") \o T("...") \o Visit(n.k.expression) \o T("}")
JSXOpeningElement(n) ==
  T("<") \o Visit(n.k.name) \o Visit(n.k.type_arguments)
    \o Cat([i \in DOMAIN n.k.attributes |-> Blank \o <<Gen(n.k.attributes[i])>>])
    \o (IF Has(n, "self_closing") THEN Blank \o T("/>") ELSE T(">"))
JSXClosingElement(n) == T("</") \o Visit(n.k.name) \o T(">")
JSXAttribute(n) == Visit(n.k.name) \o With(T("="), n.k.value)
JSXSpreadAttribute(n) == T("{") \o T("...") \o Visit(n.k.argument) \o T("}")
JSXElement(n) ==
  Visit(n.k.opening_element)
    \o (IF IsSome(n.k.closing_element)
        THEN Visit(n.k.children) \o Visit(n.k.closing_element) ELSE <<>>)
JSXFragment(n) ==
  Visit(n.k.opening_fragment) \o Visit(n.k.children) \o Visit(n.k.closing_fragment)
JSXOpeningFragment(n) == T("<") \o T(">")
JSXClosingFragment(n) == T("</") \o T(">")

-----------------------------------------------------------------------------
(* Types.                                                                  *)

QualifiedTypeIdentifier(n) == Visit(n.k.qualification) \o T(".") \o Visit(n.k.id)
TypeofTypeAnnotation(n) == T("typeof") \o Blank \o Visit(n.k.argument)
TupleTypeAnnotation(n) == T("[") \o VisitList(n.k.element_types) \o T("]")
ArrayTypeAnnotation(n) == Visit(n.k.element_type) \o T("[") \o T("]")
NullableTypeAnnotation(n) == T("?") \o print_child(n, n.k.type_annotation, "Right")
\* The types of a union or an intersection.
Joined(n, op) ==
  Separated([i \in DOMAIN n.k.types |-> print_child(n, <<n.k.types[i]>>, "Anywhere")],
            Space \o T(op) \o Space)
GenericTypeAnnotation(n) == Visit(n.k.id) \o Visit(n.k.type_parameters)
IndexedAccessType(n) ==
  Visit(n.k.object_type) \o Flag(n, "optional", "?.")
    \o T("[") \o Visit(n.k.index_type) \o T("]")
InterfaceTypeAnnotation(n) ==
  T("interface")
    \o (IF n.k.extends = <<>> THEN Space
        ELSE Blank \o T("extends") \o Blank \o VisitList(n.k.extends))
    \o Visit(n.k.body)

visit_func_type_params(f) ==
  LET this == IF IsSome(f.k.this)
              THEN <<T("this") \o T(":") \o Space \o Visit(f.k.this[1].k.type_annotation)>>
              ELSE <<>>
      rest == IF IsSome(f.k.rest) THEN <<T("...") \o Visit(f.k.rest)>> ELSE <<>>
      params == [i \in DOMAIN f.k.params |-> <<Gen(f.k.params[i])>>]
  IN  Visit(f.k.type_parameters) \o T("(") \o Separated(this \o params \o rest, Comma) \o T(")")
FunctionTypeAnnotation(n) ==
  visit_func_type_params(n) \o Space \o T("=>") \o Space \o Visit(n.k.return_type)
FunctionTypeParam(n) ==
  (IF IsSome(n.k.name)
   THEN Visit(n.k.name) \o Flag(n, "optional", "?") \o T(":") \o Space ELSE <<>>)
    \o Visit(n.k.type_annotation)

\* A function type behind a name: as a method, or for a declared function.
MethodType(f) == visit_func_type_params(f) \o T(":") \o Space \o Visit(f.k.return_type)
ValueType(n) ==
  IF Has(n, "method") THEN MethodType(n.k.value[1]) ELSE T(":") \o Space \o Visit(n.k.value)
\* Mutant: an object type forgets its call properties and internal slots.
ObjectTypeAnnotationShort(n) ==
  T("{") \o VisitList(n.k.properties \o n.k.indexers) \o T("}")

ObjectTypeAnnotation(n) ==
  LET members == n.k.properties \o n.k.indexers \o n.k.call_properties \o n.k.internal_slots
      items == [i \in DOMAIN members |-> <<Gen(members[i])>> \o Newline]
  IN  T(IF Has(n, "exact") THEN "{|" ELSE "{") \o Newline
        \o Separated(items \o (IF Has(n, "inexact") THEN <<T("...")>> ELSE <<>>), Comma)
        \o Newline \o T(IF Has(n, "exact") THEN "|}" ELSE "}")
ObjectTypeProperty(n) ==
  Visit(n.k.variance) \o Static(n) \o Flag(n, "proto", "proto") \o Flag(n, "proto", " ")
    \o Visit(n.k.key) \o Flag(n, "optional", "?") \o ValueType(n)
ObjectTypeSpreadProperty(n) == T("...") \o Visit(n.k.argument)
ObjectTypeInternalSlot(n) ==
  Static(n) \o T("[[") \o Visit(n.k.id) \o T("]]") \o Flag(n, "optional", "?") \o ValueType(n)
ObjectTypeCallProperty(n) == Static(n) \o MethodType(n.k.value[1])
ObjectTypeIndexer(n) ==
  Static(n) \o Visit(n.k.variance) \o T("[")
    \o (IF IsSome(n.k.id) THEN Visit(n.k.id) \o T(":") \o Space ELSE <<>>)
    \o Visit(n.k.key) \o T("]") \o T(":") \o Space \o Visit(n.k.value)
TypeParameterDeclaration(n) == T("<") \o VisitList(n.k.params) \o T(">")
TypeParameter(n) ==
  Visit(n.k.variance) \o T(n.op) \o Typed(n.k.bound) \o With(T("=") \o Space, n.k.default)
TypeCastExpression(n) ==
  T("(") \o print_child(n, n.k.expression, "Left") \o T(":") \o Space
    \o print_child(n, n.k.type_annotation, "Right") \o T(")")
DeclaredPredicate(n) == T("%checks") \o T("(") \o Visit(n.k.value) \o T(")")

-----------------------------------------------------------------------------
(* Declarations of types and enums.                                        *)

TypeAlias(n) ==
  T("type") \o Blank \o Visit(n.k.id) \o Visit(n.k.type_parameters)
    \o Space \o T("=") \o Space \o Visit(n.k.right)
OpaqueType(n) ==
  T("opaque") \o Blank \o T("type") \o Blank \o Visit(n.k.id) \o Visit(n.k.type_parameters)
    \o Typed(n.k.supertype) \o With(Blank \o T("super") \o Blank, n.k.lower_bound)
    \o With(Blank \o T("extends") \o Blank, n.k.upper_bound)
    \o With(Space \o T("=") \o Space, n.k.impltype)
Clause(word, list) ==
  IF list = <<>> THEN <<>> ELSE Blank \o T(word) \o Blank \o VisitList(list)
visit_interface(n) ==
  T("interface") \o Blank \o Visit(n.k.id) \o Visit(n.k.type_parameters) \o Space
    \o Clause("extends", n.k.extends) \o (IF n.k.extends = <<>> THEN <<>> ELSE Space)
    \o Visit(n.k.body)
DeclareClass(n) ==
  T("class") \o Blank \o Visit(n.k.id) \o Visit(n.k.type_parameters)
    \o Clause("extends", n.k.extends) \o Clause("mixins", n.k.mixins)
    \o Clause("implements", n.k.implements) \o Space \o Visit(n.k.body)
DeclareFunction(n) ==
  LET id == n.k.id[1]
  IN  T("function") \o Blank \o T(id.op)
        \o MethodType(id.k.type_annotation[1].k.type_annotation[1])
        \o With(Space, n.k.predicate)
DeclareVariable(n) == T(n.op) \o Blank \o Visit(n.k.id)

\* The arms that leave "declare" out below a DeclareExportDeclaration.
Declared(n) ==
  CASE n.kind = "DeclareOpaqueType" -> OpaqueType(n)
    [] n.kind = "DeclareClass" -> DeclareClass(n)
    [] n.kind = "DeclareFunction" -> DeclareFunction(n)
    [] n.kind = "DeclareVariable" -> DeclareVariable(n)
DeclaredKinds == {"DeclareOpaqueType", "DeclareClass", "DeclareFunction", "DeclareVariable"}
Declare == T("declare") \o Blank

DeclareExportDeclaration(n) ==
  LET declaration == n.k.declaration[1]
  IN  Declare \o T("export") \o Blank \o Flag(n, "default", "default") \o Flag(n, "default", " ")
        \o (IF IsSome(n.k.declaration)
            THEN IF declaration.kind \in DeclaredKinds
                 THEN <<Part(declaration.kind, "", Declared(declaration))>>
                 ELSE <<Gen(declaration)>>
            ELSE T("{") \o VisitList(n.k.specifiers) \o T("}")
                   \o With(Blank \o T("from") \o Blank, n.k.source))
DeclareExportAllDeclaration(n) ==
  Declare \o T("export") \o Blank \o T("*") \o Blank \o T("from") \o Blank \o Visit(n.k.source)
DeclareModule(n) == Declare \o T("module") \o Blank \o Visit(n.k.id) \o Space \o Visit(n.k.body)
DeclareModuleExports(n) ==
  Declare \o T("module") \o T(".") \o T("exports") \o T(":") \o Space \o Visit(n.k.type_annotation)

EnumDeclaration(n) == T("enum") \o Blank \o Visit(n.k.id) \o Visit(n.k.body)
\* The kind of the members is the op of the body.
visit_enum_body(n) ==
  LET rest == IF Has(n, "has_unknown_members") THEN <<T("...")>> ELSE <<>>
      members == [i \in DOMAIN n.k.members |-> <<Gen(n.k.members[i])>>]
  IN  (IF Has(n, "explicit_type") \/ n.op = "symbol"
       THEN Blank \o T("of") \o Blank \o T(n.op) ELSE <<>>)
        \o Space \o T("{") \o Newline
        \o Separated(members \o rest, Comma \o Newline) \o Newline \o T("}")
EnumMember(n) == Visit(n.k.id) \o With(Space \o T("=") \o Space, n.k.init)

-----------------------------------------------------------------------------
(* gen_node: the arm of each kind.                                         *)

\* Printed as their text.
Words == {"BooleanLiteral", "NullLiteral", "NumericLiteral", "BigIntLiteral",
          "RegExpLiteral", "ThisExpression", "Super", "DebuggerStatement", "JSXIdentifier",
          "JSXText", "JSXStringLiteral", "InferredPredicate", "Variance",
          "ExistsTypeAnnotation", "EmptyTypeAnnotation", "StringTypeAnnotation",
          "BigIntTypeAnnotation", "NumberTypeAnnotation", "StringLiteralTypeAnnotation",
          "NumberLiteralTypeAnnotation", "BigIntLiteralTypeAnnotation",
          "BooleanTypeAnnotation", "BooleanLiteralTypeAnnotation",
          "NullLiteralTypeAnnotation", "SymbolTypeAnnotation", "AnyTypeAnnotation",
          "UnknownTypeAnnotation", "MixedTypeAnnotation", "VoidTypeAnnotation",
          "UndefinedTypeAnnotation", "SHBuiltin"}
\* Printed as nothing.
Silent == {"Empty", "Metadata", "EmptyStatement", "JSXEmptyExpression"}

TypeArm(n) ==
  CASE n.kind = "TypeAnnotation" -> Visit(n.k.type_annotation)
    [] n.kind = "QualifiedTypeIdentifier" -> QualifiedTypeIdentifier(n)
    [] n.kind = "TypeofTypeAnnotation" -> TypeofTypeAnnotation(n)
    [] n.kind = "TupleTypeAnnotation" -> TupleTypeAnnotation(n)
    [] n.kind = "ArrayTypeAnnotation" -> ArrayTypeAnnotation(n)
    [] n.kind = "NullableTypeAnnotation" -> NullableTypeAnnotation(n)
    [] n.kind = "UnionTypeAnnotation" -> Joined(n, "|")
    [] n.kind = "IntersectionTypeAnnotation" -> Joined(n, "&")
    [] n.kind \in {"GenericTypeAnnotation", "InterfaceExtends", "ClassImplements"} ->
         GenericTypeAnnotation(n)
    [] n.kind \in {"IndexedAccessType", "OptionalIndexedAccessType"} -> IndexedAccessType(n)
    [] n.kind = "InterfaceTypeAnnotation" -> InterfaceTypeAnnotation(n)
    [] n.kind = "FunctionTypeAnnotation" -> FunctionTypeAnnotation(n)
    [] n.kind = "FunctionTypeParam" -> FunctionTypeParam(n)
    [] n.kind = "ObjectTypeAnnotation" -> ObjectTypeAnnotation(n)
    [] n.kind = "ObjectTypeProperty" -> ObjectTypeProperty(n)
    [] n.kind = "ObjectTypeSpreadProperty" -> ObjectTypeSpreadProperty(n)
    [] n.kind = "ObjectTypeInternalSlot" -> ObjectTypeInternalSlot(n)
    [] n.kind = "ObjectTypeCallProperty" -> ObjectTypeCallProperty(n)
    [] n.kind = "ObjectTypeIndexer" -> ObjectTypeIndexer(n)
    [] n.kind \in {"TypeParameterDeclaration", "TypeParameterInstantiation"} ->
         TypeParameterDeclaration(n)
    [] n.kind = "TypeParameter" -> TypeParameter(n)
    [] n.kind = "DeclaredPredicate" -> DeclaredPredicate(n)
    [] n.kind = "TypeAlias" -> TypeAlias(n)
    [] n.kind = "DeclareTypeAlias" -> Declare \o TypeAlias(n)
    [] n.kind = "OpaqueType" -> OpaqueType(n)
    [] n.kind = "InterfaceDeclaration" -> visit_interface(n)
    [] n.kind = "DeclareInterface" -> Declare \o visit_interface(n)
    [] n.kind \in DeclaredKinds -> Declare \o Declared(n)
    [] n.kind = "DeclareExportDeclaration" -> DeclareExportDeclaration(n)
    [] n.kind = "DeclareExportAllDeclaration" -> DeclareExportAllDeclaration(n)
    [] n.kind = "DeclareModule" -> DeclareModule(n)
    [] n.kind = "DeclareModuleExports" -> DeclareModuleExports(n)
    [] n.kind = "EnumDeclaration" -> EnumDeclaration(n)
    [] n.kind = "EnumBody" -> visit_enum_body(n)
    [] n.kind = "EnumMember" -> EnumMember(n)

ExpressionArm(n) ==
  CASE n.kind = "ImplicitCheckedCast" -> Visit(n.k.argument)
    [] n.kind = "StringLiteral" -> StringLiteral(n)
    [] n.kind = "MatchExpression" -> MatchExpression(n)
    [] n.kind = "TemplateLiteral" -> TemplateLiteral(n)
    [] n.kind = "TaggedTemplateExpression" -> TaggedTemplateExpression(n)
    [] n.kind = "SequenceExpression" -> SequenceExpression(n)
    [] n.kind = "ObjectExpression" -> ObjectExpression(n)
    [] n.kind = "ArrayExpression" -> ArrayExpression(n)
    [] n.kind = "SpreadElement" -> SpreadElement(n)
    [] n.kind = "NewExpression" -> NewExpression(n)
    [] n.kind = "YieldExpression" -> YieldExpression(n)
    [] n.kind = "AwaitExpression" -> AwaitExpression(n)
    [] n.kind = "ImportExpression" -> ImportExpression(n)
    [] n.kind = "CallExpression" -> CallExpression(n)
    [] n.kind = "OptionalCallExpression" -> OptionalCallExpression(n)
    [] n.kind = "AssignmentExpression" -> AssignmentExpression(n)
    [] n.kind = "UnaryExpression" -> UnaryExpression(n)
    [] n.kind = "UpdateExpression" -> UpdateExpression(n)
    [] n.kind = "MemberExpression" -> MemberExpression(n)
    [] n.kind = "OptionalMemberExpression" -> OptionalMemberExpression(n)
    [] n.kind = "BinaryExpression" -> BinaryExpression(n)
    [] n.kind = "LogicalExpression" -> LogicalExpression(n)
    [] n.kind = "ConditionalExpression" -> ConditionalExpression(n)
    [] n.kind = "Identifier" -> Identifier(n)
    [] n.kind = "PrivateName" -> PrivateName(n)
    [] n.kind = "MetaProperty" -> MetaProperty(n)
    [] n.kind \in {"FunctionExpression", "FunctionDeclaration"} -> FunctionExpression(n)
    [] n.kind = "ArrowFunctionExpression" -> ArrowFunctionExpression(n)
    [] n.kind = "Property" -> Property(n)
    [] n.kind \in {"ClassExpression", "ClassDeclaration"} -> ClassExpression(n)
    [] n.kind = "Decorator" -> Decorator(n)
    [] n.kind = "ClassBody" -> ClassBody(n)
    [] n.kind = "ClassProperty" -> ClassProperty(n)
    [] n.kind = "ClassPrivateProperty" -> ClassPrivateProperty(n)
    [] n.kind = "MethodDefinition" -> MethodDefinition(n)
    [] n.kind = "ObjectPattern" -> ObjectPattern(n)
    [] n.kind = "ArrayPattern" -> ArrayPattern(n)
    [] n.kind = "RestElement" -> RestElement(n)
    [] n.kind = "AssignmentPattern" -> AssignmentPattern(n)
    [] n.kind = "JSXMemberExpression" -> JSXMemberExpression(n)
    [] n.kind = "JSXNamespacedName" -> JSXNamespacedName(n)
    [] n.kind = "JSXExpressionContainer" -> JSXExpressionContainer(n)
    [] n.kind = "JSXSpreadChild" -> JSXSpreadChild(n)
    [] n.kind = "JSXOpeningElement" -> JSXOpeningElement(n)
    [] n.kind = "JSXClosingElement" -> JSXClosingElement(n)
    [] n.kind = "JSXAttribute" -> JSXAttribute(n)
    [] n.kind = "JSXSpreadAttribute" -> JSXSpreadAttribute(n)
    [] n.kind = "JSXElement" -> JSXElement(n)
    [] n.kind = "JSXFragment" -> JSXFragment(n)
    [] n.kind = "JSXOpeningFragment" -> JSXOpeningFragment(n)
    [] n.kind = "JSXClosingFragment" -> JSXClosingFragment(n)
    [] n.kind = "TypeCastExpression" -> TypeCastExpression(n)
    [] OTHER -> TypeArm(n)

StatementArm(n) ==
  CASE n.kind \in {"Program", "Module"} -> visit_stmt_list(n.k.body)
    [] n.kind = "WhileStatement" -> WhileStatement(n)
    [] n.kind = "DoWhileStatement" -> DoWhileStatement(n)
    [] n.kind = "ForInStatement" -> ForInStatement(n)
    [] n.kind = "ForOfStatement" -> ForOfStatement(n)
    [] n.kind = "ForStatement" -> ForStatement(n)
    [] n.kind = "BlockStatement" -> BlockStatement(n)
    [] n.kind = "StaticBlock" -> StaticBlock(n)
    [] n.kind = "BreakStatement" -> BreakStatement(n)
    [] n.kind = "ContinueStatement" -> ContinueStatement(n)
    [] n.kind = "ThrowStatement" -> ThrowStatement(n)
    [] n.kind = "ReturnStatement" -> ReturnStatement(n)
    [] n.kind = "WithStatement" -> WithStatement(n)
    [] n.kind = "SwitchStatement" -> SwitchStatement(n)
    [] n.kind = "SwitchCase" -> SwitchCase(n)
    [] n.kind = "MatchStatement" -> MatchStatement(n)
    [] n.kind = "LabeledStatement" -> LabeledStatement(n)
    [] n.kind = "ExpressionStatement" -> ExpressionStatement(n)
    [] n.kind = "TryStatement" -> TryStatement(n)
    [] n.kind = "CatchClause" -> CatchClause(n)
    [] n.kind = "IfStatement" -> IfStatement(n)
    [] n.kind = "VariableDeclaration" -> VariableDeclaration(n)
    [] n.kind = "VariableDeclarator" -> VariableDeclarator(n)
    [] n.kind = "ImportDeclaration" -> ImportDeclaration(n)
    [] n.kind = "ImportSpecifier" -> ImportSpecifier(n)
    [] n.kind = "ImportDefaultSpecifier" -> ImportDefaultSpecifier(n)
    [] n.kind = "ImportNamespaceSpecifier" -> ImportNamespaceSpecifier(n)
    [] n.kind = "ImportAttribute" -> ImportAttribute(n)
    [] n.kind = "ExportNamedDeclaration" -> ExportNamedDeclaration(n)
    [] n.kind = "ExportSpecifier" -> ExportSpecifier(n)
    [] n.kind = "ExportNamespaceSpecifier" -> ExportNamespaceSpecifier(n)
    [] n.kind = "ExportDefaultDeclaration" -> ExportDefaultDeclaration(n)
    [] n.kind = "ExportAllDeclaration" -> ExportAllDeclaration(n)
    [] OTHER -> ExpressionArm(n)

Gen(n) ==
  CASE n.kind \in Words -> Part(n.kind, "", T(n.op))
    [] n.kind \in Silent -> Part(n.kind, "", <<>>)
    [] OTHER -> Part(n.kind, "", StatementArm(n))

-----------------------------------------------------------------------------

Init == program \in Programs /\ pretty \in BOOLEAN /\ printed = Nothing

generate ==
  /\ printed = Nothing
  /\ printed' = Gen(program)
  /\ UNCHANGED <<program, pretty>>

Spec == Init /\ [][generate]_vars

-----------------------------------------------------------------------------
(* Properties.                                                             *)

\* The text reads back as the tree: every printed node stands where the
\* grammar accepts its production, the first tokens of a statement, an arrow
\* body or a default export do not start something else, every else has the
\* if it was printed for, and semicolons end exactly the statements that end
\* with one.  need_parens, expr_starts_with, stmt_skip_semi and ForceBlock
\* decide these things, each from a few levels of the tree.
ReadsBack == printed # Nothing => Reads(printed)

\* No two tokens run into each other where the compact format leaves out the
\* space between them (ForceSpace, and NeedParens::Space for signs).
TokensApart == printed # Nothing => Apart(Tokens(printed))

\* The names in a tree, except new.target, import.meta and those in patterns
\* of match, which are compiled.
RECURSIVE Names(_)
Names(n) ==
  IF n.kind \in {"MetaProperty", "MatchObjectPattern", "MatchArrayPattern", "MatchOrPattern",
                 "MatchIdentifierPattern", "MatchMemberPattern", "MatchAsPattern"} THEN {}
  ELSE (IF n.kind = "Identifier" THEN {n.op} ELSE {}) \cup UNION {Names(c) : c \in Children(n)}

\* Every name of the tree is printed once: no arm forgets a child or prints
\* it twice.  (The trees use a name once.)
NamesPrinted ==
  LET tokens == Tokens(printed)
  IN  printed # Nothing =>
        \A x \in Names(program) : Cardinality({i \in DOMAIN tokens : tokens[i] = x}) = 1

\* What is printed for match does what its patterns mean, for every value and
\* however the guards come out: see Agrees in MatchLowering.
Matched(n) == n.kind \in {"MatchStatement", "MatchExpression"}
MatchAgrees ==
  printed # Nothing =>
    \A n \in Children(program) : Matched(n) => \A v \in Values : Agrees(n.k.cases, v)
=============================================================================
