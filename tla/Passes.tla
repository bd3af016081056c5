------------------------------- MODULE Passes -------------------------------
(***************************************************************************)
(* A run of a pass: PassManager::run in crates/fft_pass/src/manager.rs,    *)
(* with StripFlow or ReduceConditional, and what each of them promises.    *)
(***************************************************************************)
EXTENDS StripFlow, FiniteSets

CONSTANTS
  \* @type: Node => Outcome: ReduceConditional::call on a node, as it calls
  \* itself: ReduceConditionalCall is the recursion.
  ReduceCall(_),
  \* @type: Node => Seq of nodes: what stripping and reducing mean, below.
  Erase(_),
  Branches(_)

(* ReduceConditional: a condition with a literal test becomes its branch.  *)

Literal(n) == n.k.test[1].kind = "BooleanLiteral"
\* Mutant: the branches are swapped where there is no else.
TakenSwapped(n) ==
  IF n.k.test[1].op = "true" \/ n.k.alternate = None THEN n.k.consequent ELSE n.k.alternate

Taken(n) == IF n.k.test[1].op = "true" THEN n.k.consequent ELSE n.k.alternate

ReduceChildren(n) ==
  VisitChildren(n, [f \in Fields(n) |-> [i \in DOMAIN n.k[f] |-> ReduceCall(n.k[f][i])]])
\* ReduceConditional::call, the recursive calls of which are ReduceCall.
ReduceConditionalCall(n) ==
  CASE n.kind \in {"ConditionalExpression", "IfStatement"} /\ Literal(n) ->
         IF Taken(n) = None THEN Removed ELSE Changed(ReduceChildren(Taken(n)[1]))
    [] OTHER -> Changed(ReduceChildren(n))

Strip(n) == StripCall(n, target).nodes[1]

-----------------------------------------------------------------------------
(* What the parser returns.                                                *)

SortOf(n, f) == Kinds[n.kind].fields[f].sort
InList(n, f) == SortOf(n, f) \in {"List", "MaybeList"}
Shaped(n) ==
  /\ n.kind \in DOMAIN Kinds /\ Fields(n) = DOMAIN Kinds[n.kind].fields
  /\ \A f \in Fields(n) : /\ SortOf(n, f) = "One" => Len(n.k[f]) = 1
                          /\ SortOf(n, f) = "Maybe" => Len(n.k[f]) <= 1

PatternKinds == {"Identifier", "ObjectPattern", "ArrayPattern"}
ThisKinds == {"FunctionDeclaration", "FunctionExpression"}
ClassKinds == {"ClassDeclaration", "ClassExpression"}
PropertyKinds == {"ClassProperty", "ClassPrivateProperty"}
CallKinds == {"CallExpression", "NewExpression", "OptionalCallExpression"}
ExportKinds == {"ExportNamedDeclaration", "ExportDefaultDeclaration"}
Lowered == {"ComponentDeclaration", "HookDeclaration", "EnumDeclaration"}
EnumBodies == {"EnumStringBody", "EnumNumberBody", "EnumBooleanBody", "EnumSymbolBody"}
EnumMembers == {"EnumDefaultedMember", "EnumStringMember", "EnumNumberMember", "EnumBooleanMember"}
TypedKinds ==
  PatternKinds \cup ThisKinds \cup {"ArrowFunctionExpression"} \cup ClassKinds \cup PropertyKinds
  \cup CallKinds \cup Casts \cup Lowered

TypeKind(kind) == (\E v \in {"Flow", "FlowDeclaration"} : instanceof(kind, v)) \/ kind = "DeclareComponent"
Type(n) == TypeKind(n.kind)
\* The fields that hold nothing but types.
TypeFields(kind) ==
  {f \in DOMAIN Kinds[kind].fields :
     LET accepts == Kinds[kind].fields[f].accepts
     IN  accepts # {} /\ \A v \in accepts : instanceof(v, "Flow")}
ForTypes(n) ==
  \/ /\ n.kind \in {"ImportDeclaration", "ImportSpecifier", "ExportNamedDeclaration", "ExportAllDeclaration"}
     /\ n.op # "value"
  \/ /\ n.kind = "ImportDeclaration" /\ n.k.specifiers # <<>>
     /\ \A i \in DOMAIN n.k.specifiers : n.k.specifiers[i].op \in {"type", "typeof"}
  \/ n.kind = "ClassProperty" /\ (Has(n, "declare") \/ n.k.value = None)
  \/ n.kind = "ClassPrivateProperty" /\ Has(n, "declare")

\* Types stand in the fields for types, and in lists if they are declarations.
\* What goes, or can become several nodes, stands in a list, and a component
\* in one or in an export.
Placed(n) ==
  \A f \in Fields(n) : \A i \in DOMAIN n.k[f] :
    LET c == n.k[f][i]
    IN  IF f \in TypeFields(n.kind) THEN n.kind \in TypedKinds /\ Type(c)
        ELSE /\ Type(c) => c.kind \in Declarations
             /\ Type(c) \/ ForTypes(c) \/ c.kind \in ExportKinds => InList(n, f)
             /\ c.kind = "ComponentDeclaration" => InList(n, f) \/ (n.kind \in ExportKinds /\ f = "declaration")
             /\ c.kind = "ComponentParameter" => n.kind = "ComponentDeclaration" /\ f = "params"

Parameter(p) == p.kind \notin Casts \cup Lowered \cup ExportKinds \cup {"ComponentParameter"}
\* The flags and the kinds in places that the grammar narrows further.
Grammatical(n) ==
  /\ n.kind = "Identifier" => ~Has(n, "declare")
  /\ n.kind \in {"ObjectPattern", "ArrayPattern"} => ~Has(n, "optional")
  /\ n.kind = "ImportDeclaration" =>
       \A s \in ToSet(n.k.specifiers) : s.op \in {"type", "typeof"} <=> s.kind = "ImportSpecifier" /\ s.op # "value"
  /\ n.kind \in ThisKinds \cup {"ArrowFunctionExpression", "HookDeclaration"} => \A p \in ToSet(n.k.params) : Parameter(p)
  /\ n.kind \in {"ArrowFunctionExpression", "HookDeclaration"} => \A p \in ToSet(n.k.params) : ~IsThis(p)
  /\ n.kind = "ComponentDeclaration" =>
       \A p \in ToSet(n.k.params) :
         /\ p.kind \in {"ComponentParameter", "RestElement"}
         /\ \A c \in Children(p) : Parameter(c) /\ ~IsThis(c)
  /\ n.kind \in {"ComponentDeclaration", "HookDeclaration", "EnumDeclaration"} => n.k.id[1].kind = "Identifier"
  /\ n.kind = "EnumDeclaration" =>
       n.k.body[1].kind \in EnumBodies /\ \A m \in ToSet(n.k.body[1].k.members) : m.kind \in EnumMembers

Uses(n, kinds) == \E m \in Subtrees(n) : m.kind \in kinds

\* Of the trees that the parser returns those that the README names are left out.
ASSUME ProgramsAssumption ==
  \A p \in Programs :
    p.kind = "Program" /\ \A n \in Subtrees(p) : Shaped(n) /\ (Type(n) \/ Placed(n)) /\ Grammatical(n)

\* What the table says of the fields that the passes name.
Sorts(kind, fields, sorts) ==
  fields \subseteq DOMAIN Kinds[kind].fields /\ \A f \in fields : Kinds[kind].fields[f].sort \in sorts
ASSUME TableAssumption ==
  /\ \A k \in DOMAIN Kinds : Sorts(k, DOMAIN Kinds[k].fields, {"One", "Maybe", "List", "MaybeList"})
  /\ \A k \in {"ConditionalExpression", "IfStatement"} :
       Sorts(k, {"test", "consequent"}, {"One"}) /\ Sorts(k, {"alternate"}, {"One", "Maybe"})
ASSUME TypesAssumption ==
  /\ \A k \in PatternKinds : TypeFields(k) = {"type_annotation"}
  /\ \A k \in ThisKinds \cup {"ArrowFunctionExpression"} : TypeFields(k) = FunctionTypes
  /\ \A k \in ClassKinds : TypeFields(k) = ClassTypes
  /\ \A k \in PropertyKinds : TypeFields(k) = FieldTypes
  /\ \A k \in CallKinds : TypeFields(k) = {"type_arguments"}
  /\ \A k \in TypedKinds \ Casts : Sorts(k, TypeFields(k), {"Maybe", "List"})
  /\ \A k \in DOMAIN Kinds : instanceof(k, "FlowExpression") <=> k \in Casts
  /\ \A k \in Casts : ~TypeKind(k)
  /\ \A k \in Declarations : TypeKind(k)
  /\ ~TypeKind("Program") /\ ~TypeKind("ComponentParameter")
ASSUME SortsAssumption ==
  /\ \A k \in Casts : Sorts(k, {"expression"}, {"One"}) /\ "expression" \notin TypeFields(k)
  /\ \A k \in PropertyKinds : Sorts(k, {"value"}, {"Maybe"})
  /\ Sorts("ImportDeclaration", {"specifiers"}, {"List"})
  /\ Sorts("ExportNamedDeclaration", {"declaration"}, {"Maybe"})
  /\ Sorts("ExportDefaultDeclaration", {"declaration"}, {"One"})
  /\ Sorts("ComponentParameter", {"name", "local"}, {"One"})
  /\ Sorts("RestElement", {"argument"}, {"One"})
  /\ Sorts("ObjectPattern", {"properties"}, {"List"})
  /\ \A k \in ThisKinds \cup {"ArrowFunctionExpression", "ComponentDeclaration", "HookDeclaration"} :
       Sorts(k, {"params"}, {"List"}) /\ "params" \notin TypeFields(k)
  /\ \A k \in DOMAIN Kinds :
       "params" \in DOMAIN Kinds[k].fields =>
         k \in ThisKinds \cup {"ArrowFunctionExpression", "ComponentDeclaration", "HookDeclaration"}

\* The kinds of the nodes that StripFlow makes, with the sorts of their fields.
Made ==
  [Identifier |-> [type_annotation |-> "Maybe"],
   StringLiteral |-> <<>>,
   Property |-> [key |-> "One", value |-> "One"],
   RestElement |-> [argument |-> "One"],
   ObjectPattern |-> [properties |-> "List", type_annotation |-> "Maybe"],
   FunctionDeclaration |-> [id |-> "Maybe", params |-> "List", body |-> "One", type_parameters |-> "Maybe",
                            return_type |-> "Maybe", predicate |-> "Maybe"],
   CallExpression |-> [callee |-> "One", type_arguments |-> "Maybe", arguments |-> "List"],
   MemberExpression |-> [object |-> "One", property |-> "One"],
   VariableDeclaration |-> [declarations |-> "List"],
   VariableDeclarator |-> [id |-> "One", init |-> "Maybe"],
   ArrayExpression |-> [elements |-> "List"],
   ObjectExpression |-> [properties |-> "List"],
   ExportNamedDeclaration |-> [declaration |-> "Maybe", specifiers |-> "List", source |-> "Maybe"],
   ExportSpecifier |-> [exported |-> "One", local |-> "One"],
   ExportDefaultDeclaration |-> [declaration |-> "One"]]
ASSUME MadeAssumption ==
  /\ \A k \in DOMAIN Made :
       /\ k \in DOMAIN Kinds /\ DOMAIN Kinds[k].fields = DOMAIN Made[k]
       /\ \A f \in DOMAIN Made[k] : Kinds[k].fields[f].sort = Made[k][f]
       /\ k \notin TypedKinds => TypeFields(k) = {}
  /\ \A k \in {"ComponentDeclaration", "HookDeclaration"} : Sorts(k, {"id", "body"}, {"One"})
  /\ Sorts("EnumDeclaration", {"id", "body"}, {"One"})
  /\ \A k \in EnumBodies : ~TypeKind(k) /\ Sorts(k, {"members"}, {"List"}) /\ "members" \notin TypeFields(k)
  /\ \A k \in EnumMembers :
       /\ ~TypeKind(k) /\ Sorts(k, {"id"}, {"One"})
       /\ k # "EnumDefaultedMember" => Sorts(k, {"init"}, {"One"})
  /\ \A k \in {"RestElement", "ObjectPattern"} \cup Lowered : ~TypeKind(k)

(* What the validation says of the trees that the parser returns.          *)

accepted(kind, accepts) == \E a \in accepts : instanceof(kind, a)
\* What a field can ask of the node in it, validate_custom included.
AcceptSets ==
  (UNION {{Kinds[k].fields[f].accepts : f \in DOMAIN Kinds[k].fields} : k \in DOMAIN Kinds})
  \cup {{"Expression"}, {"Identifier"}, {"Identifier", "Literal"}, {"FunctionExpression"}}
Within(a, b) == \A k \in DOMAIN Kinds : accepted(k, a) => accepted(k, b)
\* A node of the first kind can stand wherever one of the second can.
StandsFor(by, kind) == \A a \in AcceptSets : accepted(kind, a) => accepted(by, a)

\* The parser returns more kinds in the parameters of components than def.rs has.
Accepted(n) ==
  CASE n.kind = "ComponentDeclaration" -> validate_child(n.k.body, {"BlockStatement"})
    [] n.kind = "ComponentParameter" ->
         validate_child(n.k.name, {"Identifier", "StringLiteral"}) /\ validate_child(n.k.local, {"Pattern"})
    [] OTHER -> validate_node(n)
\* What StripFlow needs of the trees for its result to be valid.
AllAccepted == \A p \in Programs : \A n \in Subtrees(p) : Type(n) \/ Accepted(n)

\* What stands in the field of the node can stand for the node.
Yields(kind, f) == \A a \in AcceptSets : accepted(kind, a) => Within(Kinds[kind].fields[f].accepts, a)
Allows(kind, f, kinds) == \A k \in kinds : accepted(k, Kinds[kind].fields[f].accepts)
ASSUME AcceptsAssumption ==
  /\ \A k \in Casts : Yields(k, "expression")
  /\ \A k \in {"ConditionalExpression", "IfStatement"} : Yields(k, "consequent") /\ Yields(k, "alternate")
  /\ Sorts("ConditionalExpression", {"alternate"}, {"One"})
  /\ "EmptyStatement" \in DOMAIN Kinds /\ DOMAIN Kinds["EmptyStatement"].fields = {}
  /\ StandsFor("EmptyStatement", "IfStatement")
  /\ \A k \in Lowered \cup ExportKinds :
       \A by \in {"FunctionDeclaration", "VariableDeclaration"} \cup ExportKinds : StandsFor(by, k)
  /\ \A k \in {"MemberExpression", "OptionalMemberExpression"} : "property" \in DOMAIN Kinds[k].fields
ASSUME TakesAssumption ==
  /\ Allows("Property", "key", {"Identifier", "StringLiteral"}) /\ Allows("Property", "value", {"CallExpression"})
  /\ \A k \in EnumMembers :
       /\ Within(Kinds[k].fields.id.accepts, {"Identifier"})
       /\ k # "EnumDefaultedMember" => Within(Kinds[k].fields.init.accepts, Kinds["Property"].fields.value.accepts)
  /\ Within({"Pattern"}, Kinds["Property"].fields.value.accepts)
  /\ Within({"Identifier", "StringLiteral"}, Kinds["Property"].fields.key.accepts)
  /\ Within({"Identifier", "StringLiteral"}, {"Identifier", "Literal"})
  /\ Within({"Identifier"}, Kinds["Property"].fields.key.accepts) /\ Within({"Identifier"}, {"Identifier", "Literal"})
  /\ Allows("ObjectPattern", "properties", {"Property", "RestElement"})
  /\ \A k \in {"FunctionDeclaration", "HookDeclaration"} : Kinds[k].fields.params.accepts = {"Pattern"}
  /\ \A k \in {"FunctionDeclaration", "HookDeclaration"} : Kinds[k].fields.body.accepts = {"BlockStatement"}
  /\ Allows("FunctionDeclaration", "id", {"Identifier"})
  /\ Allows("FunctionDeclaration", "params", {"Identifier", "ObjectPattern"})
  /\ Allows("CallExpression", "callee", {"Identifier", "MemberExpression", "CallExpression"})
  /\ Allows("CallExpression", "arguments", {"Identifier", "StringLiteral", "ArrayExpression", "ObjectExpression"})
  /\ Allows("MemberExpression", "object", {"Identifier", "CallExpression"})
  /\ Allows("MemberExpression", "property", {"Identifier"})
  /\ Allows("ArrayExpression", "elements", {"StringLiteral"}) /\ Allows("ObjectExpression", "properties", {"Property"})
  /\ Allows("VariableDeclarator", "id", {"Identifier"}) /\ Allows("VariableDeclarator", "init", {"CallExpression"})
  /\ Allows("VariableDeclaration", "declarations", {"VariableDeclarator"})
  /\ Allows("ExportSpecifier", "exported", {"Identifier"}) /\ Allows("ExportSpecifier", "local", {"Identifier"})
  /\ Allows("ExportNamedDeclaration", "declaration", {"FunctionDeclaration"})
  /\ Allows("ExportNamedDeclaration", "specifiers", {"ExportSpecifier"})
  /\ Allows("ExportDefaultDeclaration", "declaration", {"FunctionDeclaration", "Identifier"})

-----------------------------------------------------------------------------

Init ==
  /\ program \in Programs
  /\ pass \in {"StripFlow", "ReduceConditional"}
  /\ target \in {"V18", "V19"}
  /\ result = Nothing

run ==
  /\ result = Nothing
  /\ result' = IF pass = "StripFlow" THEN Strip(program) ELSE ReduceCall(program).nodes[1]
  /\ UNCHANGED <<program, pass, target>>

Spec == Init /\ [][run]_vars

-----------------------------------------------------------------------------
(* What stripping means.  A node of a kind of types vanishes wherever it   *)
(* stands, a cast is its expression, and the rest stays as it is.          *)

TypeFlags(n) ==
  IF n.kind \in {"Identifier", "ClassProperty", "ClassPrivateProperty"}
  THEN {"optional", "declare"} ELSE {}

\* Erase(n).
EraseNode(n) ==
  IF instanceof(n.kind, "FlowExpression") THEN Erase(n.k.expression[1])
  ELSE IF Type(n) \/ ForTypes(n) THEN <<>>
  ELSE LET erased(f, c) == IF f = "params" /\ IsThis(c) THEN <<>> ELSE Erase(c)
       IN  <<[n EXCEPT !.flags = @ \ TypeFlags(n),
                       !.k = [f \in Fields(n) |->
                                FlattenSeq([i \in DOMAIN n.k[f] |-> erased(f, n.k[f][i])])]]>>

\* After it ran on the tree.
Ran(p) == pass = p /\ result # Nothing

\* Nothing but types is removed and all of them are: the kinds are handled one
\* by one in StripFlow::call, where a kind or a field can be forgotten.
TypesErased == Ran("StripFlow") /\ ~Uses(program, Lowered) => <<result>> = Erase(program)

\* A second run finds nothing to do, even though a node that replaces another
\* is not visited itself.
Idempotent == Ran("StripFlow") => Strip(result) = result

\* The tree a pass returns is valid: where one node must stand, one stands,
\* and nothing panicked.  What is stripped may have been invalid: def.rs has
\* the parameters of components narrower than the parser returns them.
StaysValid ==
  result # Nothing /\ (pass = "StripFlow" \/ validate_tree(program)) => validate_tree(result)

(* Components: what each parameter gets.                                   *)

Gets(pattern, from, without) == [pattern |-> pattern, from |-> from, without |-> without]
Keys(properties) == {properties[i].k.key[1].op : i \in {j \in DOMAIN properties : properties[j].kind = "Property"}}
\* What the properties of an object pattern get, when some are already taken.
PatternGets(properties, taken) ==
  {IF p.kind = "Property" THEN Gets(p.k.value[1], p.k.key[1].op, {})
   ELSE Gets(p.k.argument[1], "props", taken \cup Keys(properties)) : p \in ToSet(properties)}

Parameters(component) ==
  LET params == component.k.params
      names == {params[i].k.name[1].op : i \in
                  {j \in DOMAIN params : IsComponentParameter(params[j]) /\ ~IsRef(params[j], target)}}
  IN  UNION {CASE IsRef(p, target) -> {Gets(Erase(p.k.local[1])[1], "the ref", {})}
               [] IsComponentParameter(p) -> {Gets(Erase(p.k.local[1])[1], p.k.name[1].op, {})}
               [] p.k.argument[1].kind = "ObjectPattern" ->
                    PatternGets(Erase(p.k.argument[1])[1].k.properties, names)
               [] OTHER -> {Gets(Erase(p.k.argument[1])[1], "props", names)} : p \in ToSet(params)}

FunctionGets(function) ==
  UNION {LET p == function.k.params[i]
         IN  CASE i = 2 -> {Gets(p, "the ref", {})}
               [] p = Placeholder -> {}
               [] p.kind = "ObjectPattern" -> PatternGets(p.k.properties, {})
               [] OTHER -> {Gets(p, "props", {})} : i \in DOMAIN function.k.params}

(* Enums: the value of each member.                                        *)

MembersOf(enum) ==
  LET members == enum.k.body[1].k.members
  IN  [i \in DOMAIN members |->
         <<members[i].k.id[1].op,
           CASE members[i].kind # "EnumDefaultedMember" -> members[i].k.init[1]
             [] enum.k.body[1].kind = "EnumSymbolBody" ->
                  Call1(Identifier("Symbol"), String(members[i].k.id[1].op))
             [] OTHER -> String(members[i].k.id[1].op)>>]
RuntimeMembers(const) ==
  LET call == const.k.declarations[1].k.init[1]
      list == call.k.arguments[1]
  IN  IF call.k.callee[1].kind = "MemberExpression"
      THEN [i \in DOMAIN list.k.elements |-> <<list.k.elements[i].op, list.k.elements[i]>>]
      ELSE [i \in DOMAIN list.k.properties |->
              <<list.k.properties[i].k.key[1].op, list.k.properties[i].k.value[1]>>]

\* The declarations at the top of a tree, exported or not.
TopLevel(tree) ==
  LET held(n) == IF n.kind \in {"ExportNamedDeclaration", "ExportDefaultDeclaration"}
                 THEN n.k.declaration ELSE <<n>>
  IN  FlattenSeq([i \in DOMAIN tree.k.body |-> held(tree.k.body[i])])
NameOf(d) ==
  CASE d.kind = "VariableDeclaration" -> {d.k.declarations[1].k.id[1].op}
    [] d.kind \in Lowered \cup {"FunctionDeclaration", "ClassDeclaration"} /\ d.k.id # None -> {d.k.id[1].op}
    [] OTHER -> {}
Declaring(tree, name) == SelectSeq(TopLevel(tree), LAMBDA d : name \in NameOf(d))

\* The function with the parameters and the body of what it stands for.
Means(function, d) ==
  /\ function.kind = "FunctionDeclaration" /\ function.k.body = Erase(d.k.body[1])
  /\ IF d.kind = "HookDeclaration"
     THEN function.k.params = FlattenSeq([i \in DOMAIN d.k.params |-> Erase(d.k.params[i])])
     ELSE FunctionGets(function) = Parameters(d)

\* Every component becomes a function that gives each parameter the prop, the
\* rest or the ref that it had, every hook a function, and every enum an object
\* with the same members.
LoweringKeepsMeaning ==
  Ran("StripFlow") =>
    \A d \in ToSet(TopLevel(program)) :
      LET name == d.k.id[1].op
          now == Declaring(result, name)[1]
          \* forwardRef(inner)
          inner(const) == const.k.declarations[1].k.init[1].k.arguments[1].op
      IN  CASE d.kind \in {"ComponentDeclaration", "HookDeclaration"} ->
                 Means(IF now.kind = "VariableDeclaration" THEN Declaring(result, inner(now))[1] ELSE now, d)
            [] d.kind = "EnumDeclaration" -> RuntimeMembers(now) = MembersOf(d)
            [] OTHER -> TRUE

Exports(tree) ==
  UNION {LET n == tree.k.body[i]
         IN  CASE n.kind = "ExportNamedDeclaration" ->
                    {<<s.k.exported[1].op, s.k.local[1].op>> : s \in ToSet(n.k.specifiers)}
                      \cup UNION {{<<x, x>> : x \in NameOf(d)} : d \in ToSet(n.k.declaration)}
               [] n.kind = "ExportDefaultDeclaration" ->
                    LET d == n.k.declaration[1]
                    IN  {<<"default", x>> : x \in IF d.kind = "Identifier" THEN {d.op} ELSE NameOf(d)}
               [] OTHER -> {} : i \in DOMAIN tree.k.body}

\* Lowering one declaration into several exports what was exported, under its
\* names, and declares each name once.
NamesStay ==
  Ran("StripFlow") /\ Uses(program, Lowered) =>
    /\ Exports(result) = Exports(program)
    /\ \A d \in ToSet(TopLevel(program)) : \A x \in NameOf(d) : Len(Declaring(result, x)) = 1

(* What reducing means: a condition with a test that comes to a literal is *)
(* its branch, as often as one shows up.                                   *)

\* Branches(n).
BranchesOf(n) ==
  LET test == Branches(n.k.test[1])[1]
      taken == IF test.op = "true" THEN n.k.consequent ELSE n.k.alternate
  IN  IF n.kind = "EmptyStatement" THEN <<>>
      ELSE IF n.kind \in {"ConditionalExpression", "IfStatement"} /\ test.kind = "BooleanLiteral"
      THEN IF taken = None THEN <<>> ELSE Branches(taken[1])
      ELSE <<[n EXCEPT !.k = [f \in Fields(n) |->
                FlattenSeq([i \in DOMAIN n.k[f] |-> Branches(n.k[f][i])])]]>>

\* The tree does the same after the reduction, wherever the condition stood.
BranchesTaken == Ran("ReduceConditional") => Branches(result) = Branches(program)
=============================================================================
