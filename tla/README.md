# Verification of fast-flow-transform

TLA+ models of fast-flow-transform (a Hermes-backed Flow stripper: Rust crates
with a TypeScript package in front), TLC runs over small instances of the
models, and theorems about them checked by TLAPS. Paths below are relative to
the repository. `PROJECT.json` lists, for every definition, the lines it
models; for every property, a plausible bug that violates it; and every hazard
the models are aimed at.

## 1. The system

A transform request passes through these parts.

| Part | Source | State | Operations | Talks to |
|---|---|---|---|---|
| TypeScript API | `packages/core/src/transform` | the cached native binding | normalise options, call the binding, merge an input source map | native module |
| CLI | `packages/core/src/cli` | the arguments read so far; files | parse arguments, read the source and an input map, write the code, then the map; exit status | TypeScript API, files |
| Bundler adapters | `packages/core/src/adapters` | none between calls | decide about maps, call the API, answer the host | TypeScript API, the bundler |
| Transform pipeline | `crates/fft_node/src/transform.rs` | one `Context` per attempt | parse, strip, print; retry with dialect `flow` when `flow-detect` fails, reporting the first error | all below |
| Layout-preserving transform | `crates/fft_node/src/preserve*.rs` | list of byte spans to delete | collect spans over the AST, merge, emit text and source map | parser bridge |
| Parser bridge | `crates/fft/src/hparser` | one cached source line | convert the C++ AST, convert locations | Hermes (external), AST heap |
| AST heap | `crates/fft_ast/src/context.rs`, `node_child.rs`, `kind.rs` | slots with id and mark bit, free lists, reference counts, the thread's lock | allocate nodes, build lists, count `NodeRc`s, collect | every pass |
| Visitors, passes | `crates/fft_ast/src/visitor.rs`, `crates/fft_pass` | the tree under rewriting | visit and rebuild; run passes with collections between them | AST heap |
| Semantic resolver | `crates/fft/src/sema` | function, scope and declaration tables, a binding table | collect declarations, promote block functions, resolve identifiers | ScopedHashMap |
| ScopedHashMap | `crates/fft_support/src/scoped_hashmap.rs` | a hash map of stacks of heap nodes with raw pointers | push, insert at any depth, look up, pop, drop | resolver |
| Comment attachment | `crates/fft_node/src/printer_comments.rs` | table from node to comments | find the surviving container of each comment | code generator |
| Code generator | `crates/fft/src/gen_js.rs` | output text, position, source map | print each node kind | pipeline |
| Containers | `crates/fft_support/src/{deque,atom_table,...}.rs` | chunks; interned strings | push; intern | AST heap |

What is hard here is not concurrency between threads - everything is `!Send`
and one transform is one synchronous call - but state that many steps share:
raw pointers that stay valid only as long as a count, a mark bit or a list
link is right; slots and addresses that are used again; a mark bit whose
meaning flips; spans that overlap; declarations moved between scopes while
scopes are being walked.

For each part, what makes it correct:

* **AST heap.** Nothing the program can reach is freed or changed; nothing
  unreachable survives a collection; counts are exact; no slot is handed out
  twice; no mark is left over; a collection terminates.
* **ScopedHashMap.** It is a stack of maps; no pointer is left to a freed node;
  its own assertions hold; nothing outlives its scope.
* **Semantic resolver.** A promoted function moves, and nothing else is lost;
  promotion never crosses a visible `let`; an identifier gets the innermost
  declaration.
* **Layout-preserving transform.** The output is the source minus the spans; each
  mapping joins a character to its own place in the source.
* **Passes.** The types go and nothing else; the tree stays valid; components,
  hooks and enums keep their meaning and their exports; running twice changes
  nothing more.
* **Code generator.** The text reads back as the tree, in both formats; compiled
  `match` does what its patterns mean.
* **Comments.** Each comment that is not lost with its declaration is printed
  once, can be read, and keeps its place among the statements.
* **Pipeline, API, CLI, adapters.** The first error is reported; the exit status
  and the files agree; a host is answered once, with a map exactly when it
  composes maps, and the map leads to the original.

## 2. Modules

| Module | Models |
|---|---|
| `ReachableHeap` | abstract: a heap that never reclaims what can be reached |
| `AstHeap` | `Context`, `GCLock`, `NodeRc`, `NodeList::from_iter`, `Context::gc` |
| `AstHeapInv` | the inductive invariant of `AstHeap` |
| `AstHeapProofs` | its proofs: the program's steps, the collector's steps and the theorems |
| `AstHeapRefinement` | the proof that `AstHeap` implements `ReachableHeap` |
| `MCAstHeap` | instances for TLC |
| `ScopeStack` | abstract: a stack of maps |
| `ScopedHashMap` | the pointer structure, with its inductive invariant |
| `ScopedHashMapProofs` | its proofs, and the refinement |
| `MCScopedHashMap` | instances for TLC |
| `ParsedText` | a text, what the parser accepts of it, and the texts the collector's searches find their way in |
| `PreserveEdits` | the collector of the layout-preserving path: which spans it deletes for each construct |
| `PreserveEditsProofs` | its proofs, for texts of any length |
| `MCPreserveEdits` | the texts it is checked with |
| `PreserveOutput` | merging those spans, copying the rest, the source map |
| `PreserveOutputProofs` | its proofs |
| `MCPreserveOutput` | instances for TLC |
| `AstNode` | a node of the AST as a value |
| `AstKinds` | the table of kinds with their fields, and the validator |
| `StripFlow` | the mutating visitor, every arm of `StripFlow`, the lowering of components, hooks and enums |
| `Passes` | a run of a pass (`StripFlow` or `ReduceConditional`), and what each promises |
| `PassesProofs` | its proofs, for trees of any size |
| `MCPasses` | the trees it is checked with |
| `GenJs` | the code generator: parentheses, tokens and spaces of every kind of node |
| `MatchLowering` | how it compiles `match`, and what a pattern means |
| `JsGrammar` | reference: which production may stand where, which tokens run together |
| `MCGenJs` | the trees it is checked with |
| `SourceText` | a text as symbols, shared by the modules below |
| `CommentPlacement` | the place of a comment among the statements of a body |
| `CommentPlacementProofs` | its proofs, for bodies of any length |
| `CommentAttachment` | the places of all comments, and the printing of comments between statements |
| `TransformRequest` | one transform: options, both attempts, the formats, the map and its merging |
| `TransformCallers` | the command line with its files, the API, the adapters; what may fail |
| `TransformCallersProofs` | its proofs, for any requests and any printer |
| `PrintedComments` | `TransformCallers` with the printer of `CommentAttachment` |
| `MCTransformCallers` | the requests it is checked with |

### AstHeap

State. A slot is a number: node slots are `1..MaxNodes`, element slots follow,
0 is null. `word` is `ctx_id_markbit` with the id and the mark bit added
together (`SetMarkbit` sets or clears the top bit); `count` is
`StorageEntry::count`; `kid`, `list`, `attrs` are the fields of a node, one for
each way a field can hold children (a node, a `NodeList`, an
`Option<NodeList>`); `inner`, `next` are a `NodeListElement`. `held` and
`building` are what Rust's borrows keep in the program's hands while the lock
is held: references to nodes and lists, and the list `from_iter` has not
finished. `rc` are the `NodeRc`s.

Actions. `AcquireLock`, `ReleaseLock` (all references end, because they borrow
the lock), `AllocNode` (a slot off the free list, or a pushed one),
`AppendElement` (one turn of `from_iter`), `FinishList`, `FromNode`, `CloneRc`,
`DropRc`, `DropContext`. `Context::gc` is `BeginGc` (roots), `MarkNode`
(`Marker::call`), `MarkElement` (`mark_list`), `VisitElement` (the visit of a
list's elements), `EndMark`, `SweepNode`, `EndSweepNodes`, `SweepElement`,
`EndGc` (the flip). `gc` takes `&mut Context`, so the program does not step in
between; the loop turns are separate steps because each depends on what
earlier ones wrote. The order in which pending nodes are visited is left open:
the code's depth-first order is one of them.

The children of a new node are chosen among what the program can reach, which
is what Rust's lifetimes guarantee. Cycles cannot be built by `alloc`, but can
arise through a list whose element is appended later; the models do not
exclude them.

`CtxIdAssumption` states what the code takes for granted: `NEXT_ID` has not
reached the mark bit.

### ScopedHashMap

`node` is the heap of `Node`s as a function on the allocated addresses,
`map` the `HashMap` (Null for no entry), `scopes` the `last` of every scope.
`InsertIntoScope` has the code's three outcomes. An insertion takes any free
address, so a freed one may come back at once. `PopScope` takes the last scope
and `PopNode` is one turn of the loop, with `pop_node`; `BeginDrop`,
`DropScope` and `DropDone` are `Drop`.

### PreserveEdits

A text is one construct (an import, a function head, a class head, a field, a
cast, a declaration that goes as a whole, one that is not supported), as a
sequence of symbols: one for a token, a name or a type, one for a blank or a
newline, three for a comment. `ParsedText` is what the parser makes of it: the
tokens, the comments and, as a relation between neighbours, the grammar of each
construct (`IsImport`, `IsFunction`, ...). The searches
(`Forward`, `Back`, `AsSpan`, ...) see the symbols as the code sees bytes, those
within comments too. `Parse` is the return with the parser's first error,
`RemoveComments` the comments, then there is one action per node kind of
`PreserveCollector::call`, and one `VisitParam` per parameter. The spans of each
construct are operators of their own (`ImportSpans`, `FunctionSpans`, ...); they
go through `Push` (`push_span`). `OutputParses` compares the tokens that are left
with the grammar of the output (`Follows`).

Three conditions name the texts on which the searches find what they look for:
`WordsClear` (no comment holds a brace, a word or a question mark that is
searched for), `MarkersClear` (a question mark and the colon of `%checks` stand
where they are looked for) and `CommasClear` (so does a comma). The passing run
has texts that satisfy all of them, which `MCPreserveEdits` checks as an
assumption; each of the two violations leaves one of them.

### PreserveOutput

The text is what matters of its UTF-8 bytes: a newline, the first byte of
another character, a later byte. `MergeSpan` is one turn of `merge_spans`,
`SliceChunk` the first `slice`, with its failure, `CopyByte` one byte of
`append_chunk` (a token and a character for each first byte), `EndChunk` the
second `slice`, `SkipByte` one byte of `advance_chunk`. The spans are any that
`push_span` lets through, not only those of `PreserveEdits`, so that whatever
the collector does the output is what was asked for. Each byte is a step for
the sake of the invariant; nothing runs in between.

### AstKinds, StripFlow and Passes

A tree is a value (`AstNode`): the identity of nodes, which `AstHeap` has, is
left out. `AstKinds` is the table of `def.rs` and `kind.rs`: for each kind its
parent and, for each field that holds nodes, the sort of field and the kinds
that `validate.rs` accepts there. `VisitField` says what each outcome of a
handler does in each sort of field (`node_child.rs`); `StripFlowCall` is
`StripFlow::call` with one operator per group of arms, and hands children to
`StripCall`, as `visit_children_mut` does, so that a handler's result is not
visited again. `run` is `PassManager::run` with a pipeline of one pass. The state
is the program, the pass, the React target and the result.

What calls itself is a constant that is an operator (`StripCall`, `ReduceCall`,
`Subtrees`, `Erase`, `Branches`), and a definition says what it is on a node,
given what it is on the children (`StripFlowCall`, `ReduceConditionalCall`,
`SubtreesOf`, `EraseNode`, `BranchesOf`). For TLC `MCPasses` makes each the same
as its definition; the proofs take the equation as a hypothesis, since nothing can
be proved where an operator is declared recursive.

The section "What the parser returns" is what the passes rely on: `Shaped` (the
table), `Placed` (where types, and nodes that become none or several, may stand)
and `Grammatical` (flags and kinds in places that the grammar narrows further).
TLC finds all of it true of the programs of the run (`ProgramsAssumption`), and the
proofs need nothing else of a program; what they need of the table of kinds is in
`TableAssumption`, `TypesAssumption`, `SortsAssumption` and `MadeAssumption` (the
kinds that StripFlow makes, with their fields, `Made`), which TLC evaluates. What
stands in a field is checked against sets of kinds (`AcceptSets`); `AcceptsAssumption` and
`TakesAssumption` say which kinds these sets take together (`StandsFor`, `Within`)
and that each kind that is made has fields that take what is put in them (`Allows`).
`AllAccepted` says that the validation accepts the nodes of a program that are not
types, but of a component and its parameters only the fields that lowering uses,
because `def.rs` has the parameters narrower than the parser returns them. TLC
evaluates it for the programs of the run (`ProgramsAccepted` in `MCPasses`).

`Erase` says in a few lines what the forty arms amount to, `Means` and `Gets` what a
component's parameters must receive, `Branches` what a literal condition
becomes. The trees come from the table: every kind the parser returns, in
every field that accepts it, bare, with all of its types, and around casts; and
then flags, components with all parameter lists of length two and every sort of
rest, each alone, exported, as default and beside others.

### GenJs, MatchLowering and JsGrammar

`Gen(n)` is what `gen_node` prints for a node, as a tree of tokens, with the
parentheses of `print_parens` as parts of their own and spaces and line breaks as
tokens, since the compact format leaves them out. One operator per arm carries
the name of its kind; `NeedParens`, `StartsWith`, `get_precedence` and
`stmt_skip_semi` are the functions of those names. `generate` is the one step;
`pretty` is `Opt::pretty`.

`JsGrammar` does not know the printer: it has the levels of the expression
grammar, which level each place accepts, the statements that swallow an `else`,
what a statement, an arrow body or a default export may not start with, and
which neighbouring tokens lex as another. `Reads` and `Apart` are decided by it.
`MatchLowering` compiles a pattern to a condition and bindings as the code does,
runs both on a value (`Condition`, `Value`) and compares with `Matches`.

### CommentAttachment, TransformRequest, TransformCallers and PrintedComments

A text is a sequence of symbols (code, newline, blank, comment of one of five
kinds) and an offset a position in it. `ClassifyComment`, in a module of its own
without recursion, is `classify_comment`. `CommentTable` is
`build_comment_table` over the stripped tree; `Generate` is the statement lists
and comment hooks of `gen_js.rs`, with each comment taken from the table where it is
printed. `TransformRequest` is one transform as values: the options, both
attempts of `flow-detect`, the three formats and the map. `Transform` is
`transform.rs` from the request to the response, `OutputMap` and
`MergeSourceMaps` the API's part. What the parser says of a text in each
dialect is part of the program, and what is printed of a program is a constant
operator (`PrinterOutput`, `LayoutOutput`), so that the callers can be proved
about for any printer; `PrintedComments` gives it the one of
`CommentAttachment`. So are the places that get a segment in the map
(`MappedAt`): the layout-preserving transform adds one for each character, the
printer one where the text of a node starts (`StartsNode`), not one for each token.
`LayoutSupported` and `LayoutAligned` are the two ways the layout-preserving
transform can fail: the collector's refusal has a place, the failure of
`build_output` on an edit within a character, which `PreserveOutput` has in
detail, has none.

`TransformCallers` has the steps, and what may go wrong in between.
`ReadArgument` is a turn of the loop of `parseCliArgs`, `ExecuteCommand` is
`runCli` from there to the reads, `ReadFile` and `ReadFails` the
reads (of files in any order, of Parcel's asset the map, if maps are wanted,
and then the code), `LoadNativeBinding` the cached binding, `NativeTransform`
and `ComposeMap` the API's `transform`, `WriteCode` and `WriteMap` the two
writes of `emitTransformedOutput`; `WriteFails` leaves a file as it was or
partly written. `StartAdapter`, `SkipModule`, `LoaderImportFails`,
`OptionsThrow` (webpack's `getOptions`), `AnswerHost` and `CallbackThrows` are
the adapters; Parcel's sets the code of its asset (`SetCode`), then builds and
sets the map (`SetMap`), or fails to (`SetMapFails`) and leaves the new code with
the old map behind its error. `asset` has what has been set, and `files` has the contents by path, so that the
input may also be the output; `answers` has every call of a host's callback.

## 3. Runs

| Run | Instance | Shows |
|---|---|---|
| `AstHeap` | 3 nodes, 1 element, 2 NodeRcs, no bound on collections | safety invariants, exact counts and free lists, completeness of a collection |
| `AstHeapLists` | 2 nodes, 2 elements, 1 NodeRc | shared and nested lists, list building, termination, refinement of `ReachableHeap`, and `IInv` itself |
| `AstHeapAttributes` | the same with `Option<NodeList>` | the violation described below |
| `ScopedHashMap` | 2 keys, 2 values, 3 scopes, 5 addresses | pointer safety, the code's assertions, refinement of `ScopeStack` |
| `PreserveOutput` | all texts of the instance, all sets of up to 3 spans | merging, output, source map and failures |
| `PreserveEdits` | 5747 texts, comments kept or not; 49 636 states | the output parses, keeps all values, no type and no half comment |
| `PreserveEditsCommas` | imports with a comment before a comma | the violation described below |
| `PreserveEditsComments` | casts with the word `as` in a comment | the violation described below |
| `Passes` | some 5000 trees, both passes, both React targets; 40 736 states | types erased and nothing else, valid results, lowering keeps meaning and names, a second run does nothing |
| `GenJs` | some 19 700 trees, pretty and compact | the text reads back, tokens stay apart, no name is lost, `match` agrees |
| `GenJsRoundTrip` | twelve trees | the violation described below |
| `TransformCallers` | 14 441 requests; 139 518 states | comments in place, the exit status true, the host's answer true |

Bounds. Three nodes give a chain with a shared child and a slot that is freed
and reused while the others live; two collections, which the models do not
bound, give both meanings of the mark bit. Two list elements give `next`, a
list shared by two nodes, and a reused element with an old `next`. Two keys in
three scopes give a node that shadows two, insertion into a middle scope and a
scope list that is out of order; five addresses let a freed one be reused while
others are live. The theorems remove the bounds.

For the printer, what matters of an expression is its parent, its side and its left
edge: three levels of the operators that differ in these, two of everything
else, and statements two deep for `else` and braces. For the passes, a handler
sees a node and its children; casts and literal conditions, where a result is
not visited again, are two deep. A text for comments has up to two statements,
a block with up to two within, and in each gap up to three comments, so that
every arm of `classify_comment` meets every kind of comment on either side. A
command line has a source and up to three further groups of arguments in any
order, among them each flag twice.

Fairness. `AstHeap!FairSpec` has weak fairness of the collector's steps only:
`gc` is a synchronous loop that nothing can preempt. The program itself need
never do anything. The remaining modules state no fairness: a pass, the
printer and the output are loops without waiting. `TransformCallers` checks
deadlock instead: every request comes to `done`, where it may stay, and its
graph has no other cycle.

Deadlock is not checked where the modelled object ends: a dropped Context, a
dropped map or a finished traversal does nothing more.

### Findings

* `AstHeapAttributes`: `mark_list` is not forwarded by `Option<T>`
  (`crates/fft_ast/src/node_child.rs:306`), so a collection frees the elements
  of a non-empty `Option<NodeList>` (`attributes` of imports and exports)
  while the declaration is live, against the comment at
  `crates/fft_ast/src/kind.rs:98`. It is latent: collections run only between
  passes, and the pipelines in use have one pass.
* `GenJsRoundTrip`: `need_parens` leaves out parentheses that are needed.
  It returns `Space` for a sign that meets a sign before it compares
  precedences (`crates/fft/src/gen_js.rs:4543`), so `-(-x + y)` is printed as
  `- -x+y`. It also prints none in `(a**b)**c`, `(-a)**b`, `await (a||b)`,
  `new (a?.b)()`, a tag `(a?.b)`, `class extends (a||b)`,
  `export default (function(){})()`, an `in` in the head of a `for`, and an
  array of a nullable type.
* `PreserveEditsCommas`: `remove_list_item`
  (`crates/fft_node/src/preserve.rs:311`) skips only white space to find the
  comma after a specifier. `import { type A /* c */, b } from 'm'` becomes
  `import { /* c */, b } from 'm'`, which does not parse, with or without
  comments; `packages/core/__tests__/correctness.test.ts:160` says that these
  outputs parse.
* `PreserveEditsComments`: `remove_as_expression_syntax`
  (`crates/fft_node/src/preserve.rs:158`) finds the bytes `as` in a comment
  too. `e /* same as T */ as T;` becomes `e /* same;` when comments are kept;
  `packages/core/README.md:103` promises to keep comments as intact as
  possible.

The passing run `PreserveEdits` has comments everywhere the searches step over
them, and leaves them out where they do not: between a type specifier, or a
`this` parameter, and its comma; between a default import's comma and the
brace; within `: %checks`; comments that hold a searched byte or word
(`CommasClear`, `MarkersClear`, `WordsClear`). In some
of these places a newline is out too: after a default import's comma, before
`%checks` and before the question mark of a parameter without annotation.

### Inputs left out of the passing runs

Where the code does not keep a property, the passing run leaves the input out.
Besides the places above, these are:

* Comments. (a) Trailing comments of a statement are printed on one line
  (`crates/fft/src/gen_js.rs:440`): `f(a, // one` newline `b /* two */); g();`
  becomes, compact, `f(a,b);// one/* two */g();`, which hides `g()`; and a block
  comment over two lines behind a line comment leaves its second line to be
  read as code. (b) A block comment that touches the statement before or behind
  it is in no gap, because ends are exclusive and the comparisons strict
  (`crates/fft_node/src/printer_comments.rs:213`), and goes to the end of
  its block. (c) In a file that is exactly one block, a comment in it goes
  behind the block, since the tie is the program's.
* Command line. When `--out-file` and `--source-map-file` name one file, the code
  is written, then replaced by the map, and the status is 0. The run has such
  commands; `ExitStatusTrue` says nothing of the code for them.
* StripFlow. The type arguments of a JSX opening element have no arm
  (`crates/fft_pass/src/passes/strip_flow.rs:603`) and are printed; such elements,
  records and `declare namespace` are not among the programs of `Passes`. An enum of
  big integers panics (`:898`). A `ref` parameter named by a string is not taken
  out for React 18; the name `X_withRef` may already be there; a class field
  without value goes even if it has a computed key or decorators; a
  hook's `this` parameter stays.
* Printing. `export * as ns` within braces, attributes of exports, a private
  field with `declare` (printed as `static`), a regular expression behind a
  division and `<!--` in compact output, `await` and `yield` in a `match`
  expression, type arguments of `typeof`, inexact tuples, or-patterns with bindings.

They were met while modelling, most of them because a property failed there
(`CommentsInPlace`, `ExitStatusTrue`, `TypesErased`, `StaysValid`, `ReadsBack`).

## 4. Proofs

All theorems hold for every value of the constants.

**AstHeap** (`AstHeapProofs`), under `AttributeLists = FALSE` (with it the
storage does not have these properties). The invariant `IInv` joins the types,
exact counts, exact free lists, what the lock excludes in each phase, and for
each phase of a collection what is already known: while marking (`MarkInv`), a
marked object's successors are marked or still before the Marker, with the
elements on lists still being walked (`OnWalk`, a least closed set) accounting
for `inner`s; while sweeping (`SweepInv`), the marked set is closed, holds all
targets, and nothing unmarked is live behind the cursor; `MarkExact` says that
only what NodeRcs lead to was marked. None of the stated properties is
inductive alone: safety after a sweep needs closure of the marked set before
it, and that needs the tri-colour argument of `MarkInv`. `AstHeapProofs` proves
the invariant step by step for the program's actions, then for the collector's, then `GcIsSafe`, `GcIsComplete`, `CountsAreExact`,
`FreeListsAreExact`, `MarksAreFresh`, `HandlesDieFirst`, `TypeCorrect`.
`AstHeapRefinement` proves that `AstHeap` implements `ReachableHeap`, step by
step: `AllocNode` is a new object, a turn of `from_iter` extends the list,
`FinishList` publishes it, taking and dropping references changes what is held,
locks and marking stutter, and a turn of the sweep reclaims one object. That it
is out of reach is again the invariant: when a sweep starts the marked set is
closed and holds every target, so everything reachable is marked and what the
sweep frees is not.

**ScopedHashMap** (`ScopedHashMapProofs`). `Inv` says that the map's entry of a
key is the innermost of its nodes, that `prev_shadowed` is the next one out,
that the lists of scopes are disjoint, each node has at most one successor,
and each node is on its scope's list. `Refinement` maps the state to a stack of
maps: pushing, inserting, replacing, looking up and updating are the abstract
steps, `PopScope` is the abstract pop, and the turns of its loop stutter.

**PreserveOutput** (`PreserveOutputProofs`). `Inv` says that the merged spans
are in order and apart and have boundaries of the given ones; while merging,
that the merged and the remaining spans delete the same bytes as the given
ones and the last merged span starts no later than what remains; while copying,
that the output is exactly the kept characters before the offset (`Copied`),
where the offset is relative to the spans (`AtInv`), and which slices were
aligned (`AlignedInv`). `MergeTouching` is the heart of the merge: order by
start makes the union of two touching spans an interval. For the source map,
`MapInv` says that the two positions are counts of newlines and of characters
since, and `PositionStep` that one more character changes these counts as
`advance_char` does. `OutputIsExact`, `MergedIsExact`, `FailureIsMisaligned`
and `MapIsExact` follow, for every text and any number of spans
that the code could be given. `TextsAssumption` is that a text is a sequence of
such bytes that does not start within a character.

**TransformCallers** (`TransformCallersProofs`), from `RequestsAssumption`: a
request has a caller, every option with any value, what its host says of maps
and an input map with places of its text. `IInv` goes by the place of the
program counter: until the transform has succeeded nothing has gone out
(`Clean`); from the first read on, what is asked of the transform about maps is
what the command's files or the host's options say (`Asked`); a result is whole
and, behind `outputMap`, its map covers the places of `MappedAt` and leads to the
original (`Composed`); between the two writes the code is out and nothing else
(`CodeIsOut`), and likewise for Parcel's asset (`CodeIsSet`). `ExitStatusTrue` alone is not inductive: status 0 is set by the
last write from what earlier steps left. `MergedIsTraced` needs that the
nearest mapping to the left exists, hence `GreatestOffset`. `ExitStatus` and
`Answers` then hold for any program, any printer and any faults.

**PreserveEdits** (`PreserveEditsProofs`). The grammar is a relation between
neighbours, so every argument goes from a token to the next (`Pre`, `Suc`) and
holds for a list of any length; `AllAfter` is the one induction, by taking the
first token that would be an exception. The lemmas on searches (`ForwardToken`,
`BackToken`, `BackOverCommaIs`) say that a search over white space stops between
tokens, never within a comment (`Boundary`), and which token it reaches. For each
construct there is its shape (`ImportBraces`, `FunctionShape`, ...) and then a lemma
about its spans, with three parts: `Sound` (they begin and end outside of comments
and cover no token of the program), `Erasing` (they cover every token of a type) and
`Parsing` (the tokens they leave follow one another as `Follows` allows). The hard
one is `ImportSpansAre`: a comma goes with the specifier before it, or with the one
behind it if that is the last, so between two names that stay exactly one comma
stays, whichever specifiers between them go. `IInv` says that the edits are those of
the comments and of what has been visited; for a function, `Visited` has the
parameters that are no longer to be visited. None of the properties is inductive,
as an edit says nothing of why it was asked for. `Typing` holds for every text;
`KeepsValues` and `CutsNoComment` need `WordsClear`, `ErasesTypes` also
`MarkersClear`, and `LeavesProgram` all three; `PreserveEditsComments` shows that
`CutsNoComment` needs its condition, `PreserveEditsCommas` that `LeavesProgram` needs
`CommasClear`. From `TextsAssumption`: a text is a sequence of strings.

**Comments** (`CommentPlacementProofs`). The half of `CommentsInPlace` that decides
where a comment goes, before anything is printed: `StaysBetween` says that its
place is between the statements it stands between, or right behind the one it is
within, and `KeepsOrder` that a later comment of the same body is not placed before
an earlier one. From two conditions: the statements are in the order of the
source (`Sorted`; the halves of a component share a range), and no comment touches
one from outside (`Apart`, see above for what happens otherwise). TLC evaluates
both for every comment of the run's programs. `PlaceIs` turns the loop with its
early returns into five cases, `GapIs` says that where a comment stands decides
which; comments in one gap keep their order because lines only grow
(`LinesGrow`): once one is on a later line than the statement, so are those behind it.

**Passes** (`PassesProofs`). A run is one step, so the temporal part is no more than
a lemma (`PassRuns`); what the step makes of a program is proved for every tree that
the parser may return, however large. A tree (`Tree`) is a node
in a set of nodes that holds the children of each and is well founded;
`TreeInduction` is induction over such a set, for a set of good nodes, since an
induction theorem with an operator as a parameter is out of reach. The hypotheses of the theorems are
the equations of the recursive operators (`SubtreesUnfolds`, `ReduceUnfolds`,
`BranchesUnfolds`, `StripUnfolds`, `EraseUnfolds`), which determine them on trees,
and that programs are trees (`ProgramsAreTrees`).

`ReducingKeepsBranches` (`BranchesTaken`): of each node, reducing keeps what its branches
come to (`Reduces`). For a node that is not a condition it is a matter of the
fields: what stays in a field of each sort has the branches of what was there,
with an empty statement where one node must stand. For a condition, its test is
reduced before the branch is chosen in `Branches` but not by the code, which
chooses from the test as written; the two agree because a literal reduces to itself.

`StrippingErasesTypes` (`TypesErased`): for a node that stands where the parser puts
it, the outcome of the handler holds exactly the erased tree (`Erases`). The
argument is about the fields that hold types (`TypeFields`): the arm for a kind
empties exactly these, so what is left stands where a removal is a removal from a list. Casts
need that the expression of a cast, stripped, is not stripped again by the visit
of its children (`Done`, `Settles`): what a handler returns is not itself visited, so
this is proved of the outcome of every kind of node.

`StrippingIsDone` (`Idempotent`): a second run changes nothing, for programs with
components, hooks and enums as well. `Done` says of a node that the pass leaves it as it is,
whether it is called on it or on its children, and `Strips` that the outcome of
a handler is made of such nodes. What a handler makes is never visited itself, so each
node it makes must be `Ready`: without types, in a kind that no handler replaces,
over nodes that strip. There is a lemma for each kind that is made (`Made`) and for each
way a parameter of a component becomes part of the props (`PropsParameterTakes`);
`ComponentLowers`, `EnumLowers`, `NodeLowers` and `DeclaredLowers` put them together, the
last for exports, which lower what they export and expand to several statements.
The induction is over what is below a node, not only its children (`Known`): lowering takes
the parameters, the patterns in them and the members of an enum from deeper down.

`PassesKeepTreesValid` (`StaysValid`): the tree that a pass returns is valid. For
`ReduceConditional`, of a valid program: a branch can stand for its condition, since every
field that takes a condition takes what the field of the branch takes (`Yields`);
only an `if` without an `else` goes, and an empty statement can stand for it (`Leaves`,
`LeftInField`). For StripFlow, which must also repair what was not valid, of a program
with `AllAccepted`: `Done` says of an outcome that it is a valid tree (`Valid`), and
`Settles` that it can stand for the node it was made of (`Suits`), so
each field of a visited node accepts what it accepted before (`NodeStays`, with
`validate_custom`). The lemmas on the nodes that are made prove both together with
`Ready`.

Only model-checked: liveness (`GcTerminates`); of `Passes`, what lowering keeps of
components, hooks and enums (`LoweringKeepsMeaning`, `NamesStay`), which holds
for declarations at the top and not in general: `Erase` does not lower what is declared in
the body of another, and names must not clash with `X_withRef`;
everything about `GenJs`; and of `CommentsInPlace` what the printer does with the
places. `GenJs` walks its trees by recursive operators, which are out of the
prover's reach.

## 5. Plan

In order of importance; each with an MC module, runs, mutants and the theorem
named.

1. AST heap and ScopedHashMap (done).
2. `PreserveOutput` and `PreserveEdits` (done; left: nesting of constructs,
   `loc_to_offset`).
3. `StripFlow` with the visitor, the validator and the pass manager (done).
4. `GenJs` with `match` (done; left: escapes, source positions).
5. Comments, pipeline, API, command line and adapters (done; left: contents of
   sources in merged maps).
6. `SemanticResolver` over `ScopeStack`: `DeclCollector`, `FunctionPromoter`,
   scopes, labels and loops of `resolver.rs`. Properties: a promotion moves one
   function and loses no other declaration, never crosses a visible `let`;
   every identifier gets the innermost declaration. Reading suggests that
   promotion drops declarations beside the function (`resolver.rs:1736`), pops a
   scope before its children (`resolver.rs:1673`), and that loop targets leak
   into nested functions (`resolver.rs:226`).
7. `LineCache` and `loc_to_offset`: the cached line of `convert.rs` against a
   recomputed one.
8. `Deque`, `AtomTable`: stable references while chunks grow; one number per
   string.

## 6. Not modelled

* The semantic resolver: no transform runs it. `resolve_program` has no caller in
  the repository, and the printer is given `Annotation::No`. It is the first
  thing to add when it is put to use (see the plan).
* Generated code (`generated_cvt.rs`, `generated_ffi.rs`), the bindings, and the
  external Hermes parser: what a text parses to is an input of the models.
* The line cache of the parser bridge, the deque, the atom table, and the value
  wrappers beside them.
* Escapes in strings, indentation and the positions in generated maps (which places
  of the source are mapped is in `TransformRequest`); JSON and
  AST dumps.
* URL fetching and timing; release, benchmark and example tooling.

`PROJECT.json` lists every part with the reason.
