---------------------------- MODULE MatchLowering ----------------------------
(***************************************************************************)
(* How the printer compiles match statements and expressions: the          *)
(* compile_match_* functions of crates/fft/src/gen_js.rs.                  *)
(*                                                                         *)
(* A pattern is compiled for the expression that holds the value, into a   *)
(* condition and the bindings to declare under it.  The code builds both   *)
(* as text; here they are trees, since what matters is what they do when   *)
(* they run: Condition and Value below, against Matches, which says what a *)
(* pattern means.                                                          *)
(***************************************************************************)
EXTENDS AstNode, Integers, Sequences

LOCAL INSTANCE SequencesExt

-----------------------------------------------------------------------------
(* The generated code.                                                     *)

Code(e, of, x, parts) == [e |-> e, of |-> of, x |-> x, parts |-> parts]
Const(e) == Code(e, <<>>, "", <<>>)
True == Const("true")
False == Const("false")

combine_match_all(parts) ==
  LET filtered == SelectSeq(parts, LAMBDA p : p # True)
  IN  CASE False \in ToSet(filtered) -> False
        [] filtered = <<>> -> True
        [] OTHER -> Code("&&", <<>>, "", filtered)
combine_match_any(parts) ==
  CASE parts = <<>> -> False
    [] True \in ToSet(parts) -> True
    [] OTHER -> Code("||", <<>>, "", parts)

\* The text of a key or a name.
Text(n) == IF n.kind = "MatchIdentifierPattern" THEN n.k.id[1].op ELSE n.op
match_property_access(subject, key) == Code("property", <<subject>>, Text(key), <<>>)

Plan(condition, bindings) == [condition |-> condition, bindings |-> bindings]
Binding(kind, name, value) == [kind |-> kind, name |-> name, value |-> value]

compile_match_binding(target, value) ==
  CASE target.kind = "Identifier" -> <<Binding("const", target.op, value)>>
    [] target.kind = "MatchBindingPattern" -> <<Binding(target.op, target.k.id[1].op, value)>>
    [] OTHER -> <<>>

\* A pattern that is a value: None or its code.
RECURSIVE compile_match_value_expression(_)
compile_match_value_expression(p) ==
  CASE p.kind = "MatchLiteralPattern" -> Some(Code("literal", <<>>, p.k.literal[1].op, <<>>))
    [] p.kind = "MatchIdentifierPattern" -> Some(Code("name", <<>>, p.k.id[1].op, <<>>))
    [] p.kind = "MatchUnaryPattern" ->
         LET inner == compile_match_value_expression(p.k.argument[1])
         IN  IF IsSome(inner) THEN Some(Code("unary", inner, p.op, <<>>)) ELSE None
    [] p.kind = "MatchAsPattern" -> compile_match_value_expression(p.k.pattern[1])
    [] p.kind = "MatchMemberPattern" ->
         LET base == compile_match_value_expression(p.k.base[1])
         IN  IF IsSome(base) THEN Some(match_property_access(base[1], p.k.property[1])) ELSE None
    [] OTHER -> None

\* What a rest pattern binds: None without a name.
RestBinding(rest, value) ==
  IF IsSome(rest) /\ IsSome(rest[1].k.argument)
  THEN compile_match_binding(rest[1].k.argument[1], value) ELSE <<>>
compile_match_array_rest_binding(rest, subject, start) ==
  RestBinding(rest, Code("slice", <<subject>>, "", [i \in 1..start |-> Const("skipped")]))
compile_match_object_rest_binding(rest, subject, keys) ==
  RestBinding(rest, Code("omit", <<subject>>, "", [i \in DOMAIN keys |-> Const(keys[i])]))

RECURSIVE compile_match_pattern(_, _)

compile_match_or_pattern(patterns, subject) ==
  LET plans == [i \in DOMAIN patterns |-> compile_match_pattern(patterns[i], subject)]
  IN  IF \E i \in DOMAIN plans : plans[i].bindings # <<>> THEN Plan(False, <<>>)
      ELSE Plan(combine_match_any([i \in DOMAIN plans |-> plans[i].condition]), <<>>)

\* Mutant: the properties are read without looking whether they are there.
compile_match_object_pattern_unchecked(properties, rest, subject) ==
  LET key(i) == properties[i].k.key[1]
      plan(i) == compile_match_pattern(properties[i].k.pattern[1],
                                       match_property_access(subject, key(i)))
  IN  Plan(combine_match_all([i \in DOMAIN properties |-> plan(i).condition]),
           FlattenSeq([i \in DOMAIN properties |-> plan(i).bindings]))

compile_match_object_pattern(properties, rest, subject) ==
  LET key(i) == properties[i].k.key[1]
      plan(i) == compile_match_pattern(properties[i].k.pattern[1],
                                       match_property_access(subject, key(i)))
      keys == [i \in DOMAIN properties |-> Text(key(i))]
  IN  Plan(combine_match_all(
             <<Code("isObject", <<subject>>, "", <<>>)>> \o
             FlattenSeq([i \in DOMAIN properties |->
                           <<Code("hasOwn", <<subject>>, keys[i], <<>>), plan(i).condition>>])),
           FlattenSeq([i \in DOMAIN properties |-> plan(i).bindings])
             \o compile_match_object_rest_binding(rest, subject, keys))

compile_match_array_pattern(elements, rest, subject) ==
  LET item(i) == Code("index", <<subject>>, "", [j \in 1..i |-> Const("before")])
      plan(i) == compile_match_pattern(elements[i], item(i))
  IN  Plan(combine_match_all(
             <<Code("isArray", <<subject>>, "", <<>>),
               Code(IF IsSome(rest) THEN "length>=" ELSE "length===", <<subject>>, "",
                    [i \in DOMAIN elements |-> Const("item")])>>
             \o [i \in DOMAIN elements |-> plan(i).condition]),
           FlattenSeq([i \in DOMAIN elements |-> plan(i).bindings])
             \o compile_match_array_rest_binding(rest, subject, Len(elements)))

compile_match_pattern(p, subject) ==
  CASE p.kind = "MatchWildcardPattern" -> Plan(True, <<>>)
    [] p.kind = "MatchBindingPattern" -> Plan(True, compile_match_binding(p, subject))
    [] p.kind = "MatchAsPattern" ->
         LET inner == compile_match_pattern(p.k.pattern[1], subject)
         IN  Plan(inner.condition,
                  inner.bindings \o compile_match_binding(p.k.target[1], subject))
    [] p.kind = "MatchObjectPattern" ->
         compile_match_object_pattern(p.k.properties, p.k.rest, subject)
    [] p.kind = "MatchArrayPattern" ->
         compile_match_array_pattern(p.k.elements, p.k.rest, subject)
    [] p.kind = "MatchOrPattern" -> compile_match_or_pattern(p.k.patterns, subject)
    [] OTHER ->
         LET value == compile_match_value_expression(p)
         IN  Plan(IF IsSome(value) THEN Code("===", <<subject>>, "", value) ELSE False, <<>>)

Subject == Const("subject")
PlanOf(case) == compile_match_pattern(case.k.pattern[1], Subject)

-----------------------------------------------------------------------------
(* Running the code on a value.  Values are null, undefined, primitive     *)
(* values by their text, arrays, and objects with their own properties.    *)

Primitive(x) == [t |-> "primitive", x |-> x, items |-> <<>>, props |-> <<>>]
Undefined == Primitive("undefined")
Null == Primitive("null")
ArrayOf(items) == [t |-> "array", x |-> "", items |-> items, props |-> <<>>]
ObjectOf(props) == [t |-> "object", x |-> "", items |-> <<>>, props |-> props]
Throws == [t |-> "throws", x |-> "", items |-> <<>>, props |-> <<>>]

\* The values of the names that patterns refer to.
Scope == [one |-> Primitive("1"), box |-> ObjectOf([k |-> Primitive("2")])]

Without(props, keys) == [k \in DOMAIN props \ keys |-> props[k]]

RECURSIVE Value(_, _)
Value(code, v) ==
  LET of == IF code.of = <<>> THEN Undefined ELSE Value(code.of[1], v)
      size == Len(code.parts)
  IN  CASE code.e = "subject" -> v
        [] code.e = "literal" -> Primitive(code.x)
        [] code.e = "name" -> Scope[code.x]
        [] of \in {Null, Throws} \/ (of = Undefined /\ code.of # <<>>) -> Throws
        [] code.e = "unary" -> Primitive(IF code.x = "-" THEN "-" \o of.x ELSE of.x)
        [] code.e = "property" ->
             IF of.t = "object" /\ code.x \in DOMAIN of.props THEN of.props[code.x] ELSE Undefined
        [] code.e = "index" -> IF size \in DOMAIN of.items THEN of.items[size] ELSE Undefined
        [] code.e = "slice" -> ArrayOf(SubSeq(of.items, size + 1, Len(of.items)))
        [] code.e = "omit" ->
             ObjectOf(Without(of.props, {code.parts[i].e : i \in DOMAIN code.parts}))

RECURSIVE Condition(_, _)
Condition(code, v) ==
  LET of == IF code.of = <<>> THEN Undefined ELSE Value(code.of[1], v)
      size == Len(code.parts)
      Holds(b) == IF b THEN "yes" ELSE "no"
      \* The outcome of the first part that decides.
      Until(outcome) ==
        LET decided == {i \in DOMAIN code.parts : Condition(code.parts[i], v) # outcome}
        IN  IF decided = {} THEN outcome
            ELSE Condition(code.parts[CHOOSE i \in decided : \A j \in decided : i <= j], v)
  IN  CASE code.e \in {"true", "false"} -> Holds(code.e = "true")
        [] code.e = "&&" -> Until("yes")
        [] code.e = "||" -> Until("no")
        [] of.t = "throws" -> "throws"
        [] code.e = "isObject" -> Holds(of.t \in {"object", "array"})
        [] code.e = "isArray" -> Holds(of.t = "array")
        [] code.e = "===" -> Holds(of = Value(code.parts[1], v))
        [] of \in {Null, Undefined} -> "throws"
        [] code.e = "hasOwn" -> Holds(of.t = "object" /\ code.x \in DOMAIN of.props)
        [] code.e = "length>=" -> Holds(Len(of.items) >= size)
        [] code.e = "length===" -> Holds(Len(of.items) = size)

(* The generated statement: one if per case, while none is done.  A guard  *)
(* may come out either way.  It yields the cases whose bodies run, with    *)
(* what they bind.                                                         *)
Ran(i, plan, v) ==
  [case |-> i, bound |-> {<<plan.bindings[b].name, Value(plan.bindings[b].value, v)>> :
                            b \in DOMAIN plan.bindings}]
RunCases(cases, guards, v) ==
  LET Step(state, i) ==
        LET plan == PlanOf(cases[i])
            condition == Condition(plan.condition, v)
        IN  CASE state.done \/ state.threw -> state
              [] condition = "throws" -> [state EXCEPT !.threw = TRUE]
              [] condition = "yes" /\ guards[i] ->
                   [state EXCEPT !.done = TRUE, !.ran = Append(@, Ran(i, plan, v))]
              [] OTHER -> state
  IN  FoldLeft(Step, [done |-> FALSE, threw |-> FALSE, ran |-> <<>>],
               [i \in DOMAIN cases |-> i])

-----------------------------------------------------------------------------
(* What a pattern means: None, or what it binds.                           *)

BindingOf(target, v) ==
  {<<IF target.kind = "Identifier" THEN target.op ELSE target.k.id[1].op, v>>}
RestOf(rest, v) ==
  IF IsSome(rest) /\ IsSome(rest[1].k.argument) THEN BindingOf(rest[1].k.argument[1], v) ELSE {}

RECURSIVE ValueOf(_)
ValueOf(p) ==
  CASE p.kind = "MatchLiteralPattern" -> Primitive(p.k.literal[1].op)
    [] p.kind = "MatchIdentifierPattern" -> Scope[p.k.id[1].op]
    [] p.kind = "MatchUnaryPattern" ->
         Primitive((IF p.op = "-" THEN "-" ELSE "") \o ValueOf(p.k.argument[1]).x)
    [] p.kind = "MatchMemberPattern" -> ValueOf(p.k.base[1]).props[p.k.property[1].op]

Both(a, b) == IF IsSome(a) /\ IsSome(b) THEN Some(a[1] \cup b[1]) ELSE None

RECURSIVE Matches(_, _)
MatchesAll(patterns, values) ==
  FoldLeft(LAMBDA found, i : Both(found, Matches(patterns[i], values[i])),
           Some({}), [i \in DOMAIN patterns |-> i])

Matches(p, v) ==
  CASE p.kind = "MatchWildcardPattern" -> Some({})
    [] p.kind = "MatchBindingPattern" -> Some(BindingOf(p, v))
    [] p.kind = "MatchAsPattern" -> Both(Matches(p.k.pattern[1], v), Some(BindingOf(p.k.target[1], v)))
    [] p.kind = "MatchObjectPattern" ->
         LET count == Len(p.k.properties)
             keys == [i \in 1..count |-> Text(p.k.properties[i].k.key[1])]
         IN  IF v.t \in {"object", "array"} /\ \A i \in 1..count : v.t = "object" /\ keys[i] \in DOMAIN v.props
             THEN Both(MatchesAll([i \in 1..count |-> p.k.properties[i].k.pattern[1]],
                                  [i \in 1..count |-> v.props[keys[i]]]),
                       Some(RestOf(p.k.rest, ObjectOf(Without(v.props, ToSet(keys))))))
             ELSE None
    [] p.kind = "MatchArrayPattern" ->
         LET count == Len(p.k.elements)
         IN  IF /\ v.t = "array"
                /\ Len(v.items) = count \/ (IsSome(p.k.rest) /\ Len(v.items) > count)
             THEN Both(MatchesAll(p.k.elements, v.items),
                       Some(RestOf(p.k.rest, ArrayOf(SubSeq(v.items, count + 1, Len(v.items))))))
             ELSE None
    [] p.kind = "MatchOrPattern" ->
         LET found == {i \in DOMAIN p.k.patterns : IsSome(Matches(p.k.patterns[i], v))}
         IN  IF found = {} THEN None
             ELSE Matches(p.k.patterns[CHOOSE i \in found : \A j \in found : i <= j], v)
    [] OTHER -> IF v = ValueOf(p) THEN Some({}) ELSE None

\* The generated code runs the first case that matches the value and whose
\* guard holds, with what its pattern binds, and no other, and it never
\* throws: a condition looks into a value only behind the conditions that
\* make it safe.
Agrees(cases, v) ==
  \A guards \in [DOMAIN cases -> BOOLEAN] :
    (\A i \in DOMAIN cases : IsSome(cases[i].k.guard) \/ guards[i]) =>
      LET run == RunCases(cases, guards, v)
          takes == {i \in DOMAIN cases : guards[i] /\ IsSome(Matches(cases[i].k.pattern[1], v))}
          first == CHOOSE i \in takes : \A j \in takes : i <= j
      IN  /\ ~run.threw
          /\ run.ran = IF takes = {} THEN <<>>
                       ELSE <<[case |-> first,
                               bound |-> Matches(cases[first].k.pattern[1], v)[1]]>>
=============================================================================
