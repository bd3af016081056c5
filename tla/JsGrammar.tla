------------------------------ MODULE JsGrammar ------------------------------
(***************************************************************************)
(* How printed JavaScript and Flow reads: the reference for the printer.   *)
(*                                                                         *)
(* A printed program is a tree of parts, see GenJs: tokens, printed nodes, *)
(* and parentheses with what they enclose.  The language's grammar says    *)
(* which production each node is (its level) and which one each place      *)
(* accepts (ECMA-262, sections 13 to 16, and Flow's type grammar).  If     *)
(* every node stands where its production is accepted, then the text reads *)
(* back as the tree that was printed.                                      *)
(***************************************************************************)
EXTENDS Integers, Sequences

LOCAL INSTANCE SequencesExt

IsToken(p) == p.of = "token"
IsBlank(p) == IsToken(p) /\ p.text \in {" ", "\n"}

RECURSIVE Tokens(_)
Tokens(p) ==
  IF IsToken(p) THEN <<p.text>>
  ELSE FlattenSeq([i \in DOMAIN p.parts |-> Tokens(p.parts[i])])
Solid(tokens) == SelectSeq(tokens, LAMBDA t : t \notin {" ", "\n"})

HasToken(p, text) == \E i \in DOMAIN p.parts : IsToken(p.parts[i]) /\ p.parts[i].text = text
\* The parts of p that are not blank, up to a position or from one on.
Before(p, i) == SelectSeq(SubSeq(p.parts, 1, i - 1), LAMBDA q : ~IsBlank(q))
After(p, i) == SelectSeq(SubSeq(p.parts, i + 1, Len(p.parts)), LAMBDA q : ~IsBlank(q))
Follows(p, i, text) == Before(p, i) # <<>> /\ Last(Before(p, i)).text = text

-----------------------------------------------------------------------------
(* The levels of the expression grammar, weakest first.                    *)

ASSIGN == 0
CONDITION == 1
COALESCE == 2
OR == 3
AND == 4
BIT_OR == 5
BIT_XOR == 6
BIT_AND == 7
EQUALITY == 8
RELATION == 9
SHIFT == 10
SUM == 11
PRODUCT == 12
POWER == 13
UNARY == 14
UPDATE == 15
CHAIN == 16
CALL == 17
MEMBER == 18
PRIMARY == 20

Operators ==
  [power |-> {"**"}, product |-> {"*", "/", "%"}, sum |-> {"+", "-"},
   shift |-> {"<<", ">>", ">>>"},
   relation |-> {"<", ">", "<=", ">=", "in", "instanceof"},
   equality |-> {"==", "!=", "===", "!=="}]
OperatorLevel(p) ==
  LET Uses(ops) == \E op \in ops : HasToken(p, op)
  IN  CASE Uses({"??"}) -> COALESCE [] Uses({"||"}) -> OR [] Uses({"&&"}) -> AND
        [] Uses({"|"}) -> BIT_OR [] Uses({"^"}) -> BIT_XOR [] Uses({"&"}) -> BIT_AND
        [] Uses(Operators.equality) -> EQUALITY [] Uses(Operators.relation) -> RELATION
        [] Uses(Operators.shift) -> SHIFT [] Uses(Operators.sum) -> SUM
        [] Uses(Operators.product) -> PRODUCT [] Uses(Operators.power) -> POWER

\* The levels of the type grammar.
FUNCTION_TYPE == 0
UNION_TYPE == 1
INTERSECTION_TYPE == 2
PREFIX_TYPE == 3
POSTFIX_TYPE == 4

RECURSIVE Level(_)
Level(p) ==
  CASE p.of \in {"AssignmentExpression", "ArrowFunctionExpression", "YieldExpression"} -> ASSIGN
    [] p.of = "ConditionalExpression" -> CONDITION
    [] p.of \in {"BinaryExpression", "LogicalExpression"} -> OperatorLevel(p)
    [] p.of \in {"UnaryExpression", "AwaitExpression"} -> UNARY
    [] p.of = "UpdateExpression" -> UPDATE
    [] p.of \in {"OptionalMemberExpression", "OptionalCallExpression"} -> CHAIN
    [] p.of \in {"CallExpression", "ImportExpression", "MatchExpression"} -> CALL
    [] p.of \in {"MemberExpression", "TaggedTemplateExpression"} ->
         IF Level(p.parts[1]) < MEMBER THEN CALL ELSE MEMBER
    [] p.of = "NewExpression" -> MEMBER
    [] p.of = "FunctionTypeAnnotation" -> FUNCTION_TYPE
    [] p.of = "UnionTypeAnnotation" /\ HasToken(p, "|") -> UNION_TYPE
    [] p.of = "IntersectionTypeAnnotation" /\ HasToken(p, "&") -> INTERSECTION_TYPE
    [] p.of = "NullableTypeAnnotation" -> PREFIX_TYPE
    [] p.of \in {"ArrayTypeAnnotation", "IndexedAccessType"} -> POSTFIX_TYPE
    [] p.of = "TypeAnnotation" -> Level(p.parts[1])
    [] OTHER -> PRIMARY

\* Whether the place of part i of p accepts a node of the level.
Accepts(p, i, level) ==
  LET first == Before(p, i) = <<>>
  IN  CASE p.of = "BinaryExpression" /\ HasToken(p, "**") ->
             level >= IF first THEN UPDATE ELSE POWER
        [] p.of = "LogicalExpression" /\ HasToken(p, "??") ->
             level >= BIT_OR \/ (first /\ level = COALESCE)
        [] p.of \in {"BinaryExpression", "LogicalExpression"} ->
             level >= IF first THEN OperatorLevel(p) ELSE OperatorLevel(p) + 1
        [] p.of = "ConditionalExpression" -> level >= IF first THEN COALESCE ELSE ASSIGN
        [] p.of = "AssignmentExpression" -> first => level >= CHAIN
        [] p.of \in {"UnaryExpression", "AwaitExpression"} -> level >= UNARY
        [] p.of = "UpdateExpression" -> level >= CHAIN
        [] p.of \in {"MemberExpression", "TaggedTemplateExpression", "CallExpression"} ->
             first => level >= CALL
        [] p.of \in {"OptionalMemberExpression", "OptionalCallExpression"} ->
             first => level >= CHAIN
        [] p.of = "NewExpression" -> Follows(p, i, "new") => level >= MEMBER
        [] p.of \in {"ClassExpression", "ClassDeclaration"} ->
             Follows(p, i, "extends") => level >= CHAIN
        [] p.of = "ArrowFunctionExpression" -> Follows(p, i, ":") => level > FUNCTION_TYPE
        [] p.of = "UnionTypeAnnotation" -> level > UNION_TYPE
        [] p.of = "IntersectionTypeAnnotation" -> level > INTERSECTION_TYPE
        [] p.of = "NullableTypeAnnotation" -> level >= PREFIX_TYPE
        [] p.of \in {"ArrayTypeAnnotation", "IndexedAccessType"} -> first => level >= POSTFIX_TYPE
        [] OTHER -> TRUE

-----------------------------------------------------------------------------
(* Places where the first tokens decide how the rest is read.              *)

Opens(p) == LET s == Solid(Tokens(p)) IN IF s # <<>> /\ s[1] = "async" THEN s[2] ELSE s[1]
IsExpression(p) ==
  p.of \notin {"FunctionDeclaration", "ClassDeclaration", "EnumDeclaration", "DeclareFunction"}

\* An operator "in" of p that no parentheses or brackets enclose.
RECURSIVE BareIn(_)
BareIn(p) ==
  \/ p.of = "BinaryExpression" /\ HasToken(p, "in")
  \/ /\ p.of \in {"BinaryExpression", "LogicalExpression", "ConditionalExpression",
                  "AssignmentExpression", "UnaryExpression", "AwaitExpression",
                  "VariableDeclaration", "VariableDeclarator"}
     /\ \E i \in DOMAIN p.parts : BareIn(p.parts[i])

\* An if whose else, if one followed, would be its own.
RECURSIVE OpenIf(_)
OpenIf(p) ==
  \/ p.of = "IfStatement" /\ ~HasToken(p, "else")
  \/ /\ p.of \in {"IfStatement", "WhileStatement", "ForStatement", "ForInStatement",
                  "ForOfStatement", "WithStatement", "LabeledStatement"}
     /\ OpenIf(Last(p.parts))

ReadsFrom(p, i) ==
  LET c == p.parts[i]
  IN  CASE p.of = "ExpressionStatement" -> Opens(c) \notin {"{", "function", "class"}
        [] p.of = "ExportDefaultDeclaration" ->
             IsExpression(c) => Opens(c) \notin {"function", "class"}
        [] p.of = "ArrowFunctionExpression" ->
             Follows(p, i, "=>") /\ c.of # "BlockStatement" => Opens(c) # "{"
        [] p.of = "ForStatement" -> Follows(p, i, "(") => ~BareIn(c)
        [] p.of = "IfStatement" ->
             (After(p, i) # <<>> /\ After(p, i)[1].text = "else") => ~OpenIf(c)
        [] OTHER -> TRUE

-----------------------------------------------------------------------------
(* Semicolons: one behind each statement that ends with one, and no other, *)
(* since it would be a statement of its own.                               *)

RECURSIVE EndsWithSemicolon(_)
EndsWithSemicolon(p) ==
  \/ p.of \in {"ExpressionStatement", "VariableDeclaration", "DoWhileStatement",
               "BreakStatement", "ContinueStatement", "ThrowStatement", "ReturnStatement",
               "DebuggerStatement", "EmptyStatement", "ImportDeclaration",
               "ExportAllDeclaration", "TypeAlias", "OpaqueType", "DeclareTypeAlias",
               "DeclareOpaqueType", "DeclareFunction", "DeclareVariable",
               "DeclareExportAllDeclaration", "DeclareModuleExports"}
  \/ /\ p.of = "LabeledStatement"
     /\ EndsWithSemicolon(Last(p.parts))
  \/ /\ p.of \in {"ExportNamedDeclaration", "ExportDefaultDeclaration",
                  "DeclareExportDeclaration"}
     /\ \/ HasToken(p, "{")
        \/ EndsWithSemicolon(Last(p.parts))
        \/ Last(p.parts).of \notin {"FunctionDeclaration", "ClassDeclaration",
                                    "EnumDeclaration", "DeclareClass", "InterfaceDeclaration"}

Lists == {"Program", "Module", "BlockStatement", "StaticBlock", "SwitchCase", "WhileStatement",
          "DoWhileStatement", "ForStatement", "ForInStatement", "ForOfStatement",
          "WithStatement", "IfStatement", "TryStatement", "CatchClause", "MatchStatement"}
Statements ==
  {"BlockStatement", "WhileStatement", "ForStatement", "ForInStatement", "ForOfStatement",
   "MatchStatement", "IfStatement", "WithStatement", "SwitchStatement", "TryStatement", "LabeledStatement",
   "FunctionDeclaration", "ClassDeclaration", "EnumDeclaration", "InterfaceDeclaration",
   "DeclareInterface", "DeclareClass", "DeclareModule"}
\* The head of a for statement may be a declaration.
Terminated(p, i) ==
  LET c == p.parts[i]
      semicolon == After(p, i) # <<>> /\ After(p, i)[1].text = ";"
  IN  (p.of \in Lists /\ ~Follows(p, i, "(")) =>
        /\ EndsWithSemicolon(c) => semicolon
        /\ c.of \in Statements /\ ~EndsWithSemicolon(c) => ~semicolon

RECURSIVE Reads(_)
Reads(p) ==
  \A i \in {j \in DOMAIN p.parts : ~IsToken(p.parts[j])} :
    /\ Accepts(p, i, Level(p.parts[i]))
    /\ ReadsFrom(p, i)
    /\ Terminated(p, i)
    /\ Reads(p.parts[i])

-----------------------------------------------------------------------------
(* Tokens side by side.                                                    *)

Punctuation ==
  {"(", ")", "[", "]", "{", "}", "{|", "|}", "[[", "]]", ";", ",", ":", "?", "?.", ".", "...",
   "=", "=>", "+", "++", "-", "--", "*", "**", "/", "%", "<", ">", "<=", ">=", "==", "!=",
   "===", "!==", "<<", ">>", ">>>", "&", "|", "^", "~", "!", "&&", "||", "??", "+=", "#",
   "@", "'", "template", "${", "/>", "</", "/re/", "%checks"}
Word(t) == t \notin Punctuation \cup {" ", "\n"}

\* Whether the two would be read as one token, or as the start of a comment.
Merge(a, b) ==
  \/ Word(a) /\ Word(b)
  \/ a \in {"+", "++"} /\ b \in {"+", "++"}
  \/ a \in {"-", "--"} /\ b \in {"-", "--"}
  \/ a = "/" /\ b = "/re/"
Apart(tokens) == \A i \in 1..(Len(tokens) - 1) : ~Merge(tokens[i], tokens[i + 1])
=============================================================================
