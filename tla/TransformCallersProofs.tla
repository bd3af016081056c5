------------------------ MODULE TransformCallersProofs ------------------------
(***************************************************************************)
(* For any requests and any printer: the exit status of the command line   *)
(* tells the truth, and so does the answer of an adapter.                  *)
(***************************************************************************)
EXTENDS TransformCallers, WellFoundedInduction, TLAPS

(***************************************************************************)
(* The inductive invariant                                                 *)
(***************************************************************************)
MaybePath == Paths \cup {"none"}

IsCommand(cmd) ==
  /\ cmd = [name \in DOMAIN CreateParseState |-> cmd[name]]
  /\ IsRaw(cmd.raw)
  /\ cmd.outputFile \in MaybePath
  /\ cmd.sourceMapFile \in MaybePath

Phases == {"start", "read", "native", "map", "emit", "emitMap", "setMap", "done"}

TypesInv ==
  /\ request \in Requests
  /\ pc \in Phases
  /\ IsCommand(command)
  /\ IsRaw(input.raw)
  /\ input.outputFile \in MaybePath
  /\ input.sourceMapFile \in MaybePath
  /\ input.inputMap \in {<<>>, request.inputMap}

(* Nothing has gone out yet.                                               *)
Clean ==
  /\ files = Before
  /\ stdout = <<>>
  /\ exit = "none"
  /\ answers = <<>>
  /\ asset = AsGiven
  /\ "write" \notin faults
  /\ "callback" \notin faults

(* What a caller asks of transform agrees with what it will do about maps. *)
Asked ==
  /\ IsCli => (WantsMap <=> input.sourceMapFile # "none")
  /\ ~IsCli => (WantsMap <=> HostWantsMap) /\ ~IsSkipped

(* What a successful transform returns, before and behind outputMap.       *)
Whole ==
  /\ result.ok
  /\ result.what = "none"
  /\ result.place = "none"
  /\ result.hasMap = WantsMap

MapPlaces == MappedAt(request.program, result.code, Options)

Native == Whole /\ (WantsMap => result.map = NativeMap(MapPlaces))

Composed ==
  /\ Whole
  /\ WantsMap => DOMAIN result.map = MapPlaces
  /\ Traced(result.map)

(* Between the two writes of the command line.                             *)
CodeIsOut ==
  /\ IsCli
  /\ input.sourceMapFile # "none"
  /\ exit = "none"
  /\ "write" \notin faults
  /\ IF input.outputFile = "none" THEN stdout = result.code /\ files = Before
     ELSE /\ stdout = <<>>
          /\ files = [Before EXCEPT ![input.outputFile] =
                         File("code", result.code, input.sourceMapFile, <<>>)]

(* Between the code and the map of Parcel's asset.                         *)
CodeIsSet ==
  /\ request.caller = "parcel"
  /\ answers = <<>>
  /\ "callback" \notin faults
  /\ asset = Asset("code", result.code, FALSE, <<>>)

PhaseInv ==
  /\ pc \in {"start", "read", "native", "map", "emit"} => Clean
  /\ pc \in {"read", "native", "map", "emit", "emitMap", "setMap"} => Asked
  /\ pc \in {"start", "read", "native"} => ~result.ok
  /\ pc \in {"native", "map"} => Options.sourcemap \in Booleans
  /\ pc = "map" => Native
  /\ pc \in {"emit", "emitMap", "setMap"} => Composed
  /\ pc = "emitMap" => CodeIsOut
  /\ pc = "setMap" => CodeIsSet
  /\ IsCli => answers = <<>> /\ asset = AsGiven
  /\ ~IsCli => files = Before /\ stdout = <<>> /\ exit = "none"

IInv == TypesInv /\ PhaseInv /\ ExitStatusTrue /\ AnswerTrue

-----------------------------------------------------------------------------
(* Helpers                                                                 *)

LEMMA NoneIsNoPath == "none" \notin Paths
BY DEF Paths

(* A written file is no longer what it was.                                *)
LEMMA WrittenDiffers ==
  /\ \A code, url, map, path : path \in Paths => File("code", code, url, map) # Before[path]
  /\ \A code, url, map, path : path \in Paths => File("map", code, url, map) # Before[path]
BY DEF Before, File, Absent

(* An attempt fails with a place of its own dialect or none, or prints.    *)
LEMMA AttemptShape ==
  ASSUME NEW program, NEW dialect, NEW options
  PROVE  LET a == Attempt(program, dialect, options)
         IN  \/ /\ a.ok = FALSE
                /\ a.what \in {"syntax", "convert", "unsupported", "misaligned"}
                /\ a.place \in {dialect, "none"}
             \/ \E code : a = Printed(program, code, options)
BY DEF Attempt, TransformOnce, TransformPreservingLayout, Failure

(* The two attempts together.                                              *)
LEMMA TransformShape ==
  ASSUME NEW program, NEW options
  PROVE  LET a == Transform(program, options)
         IN  /\ a.ok \in BOOLEAN
             /\ ~a.ok =>
                  /\ a.what \in {"syntax", "convert", "unsupported", "misaligned"}
                  /\ a.place \in {options.dialect, "none"}
                  /\ options.dialect = "flow-detect" =>
                        ~Attempt(program, "flow", options).ok
             /\ a.ok =>
                  /\ a.what = "none"
                  /\ a.place = "none"
                  /\ a.hasMap = (options.sourcemap = "true")
                  /\ options.sourcemap = "true" => a.map = NativeMap(MappedAt(program, a.code, options))
<1> DEFINE p == Attempt(program, options.dialect, options)
           q == Attempt(program, "flow", options)
<1>1. \/ p.ok = FALSE /\ p.what \in {"syntax", "convert", "unsupported", "misaligned"}
                      /\ p.place \in {options.dialect, "none"}
      \/ \E code : p = Printed(program, code, options)
  BY AttemptShape
<1>2. \/ q.ok = FALSE
      \/ \E code : q = Printed(program, code, options)
  BY AttemptShape
<1>3. Transform(program, options) = IF options.dialect = "flow-detect" /\ ~p.ok /\ q.ok
                                    THEN q ELSE p
  BY DEF Transform, ChooseAttempt
<1>4. ASSUME NEW a, NEW code, a = Printed(program, code, options)
      PROVE  /\ a.ok = TRUE /\ a.what = "none" /\ a.place = "none"
             /\ a.hasMap = (options.sourcemap = "true")
             /\ options.sourcemap = "true" => a.map = NativeMap(MappedAt(program, a.code, options))
  BY <1>4 DEF Printed, Success
<1>5. q = Attempt(program, "flow", options)
  OBVIOUS
<1> HIDE DEF p, q
<1>6. CASE options.dialect = "flow-detect" /\ ~p.ok /\ q.ok
  <2>1. PICK code : q = Printed(program, code, options)
    BY <1>2, <1>6
  <2>2. Transform(program, options) = q
    BY <1>3, <1>6
  <2>3. /\ q.ok = TRUE /\ q.what = "none" /\ q.place = "none"
        /\ q.hasMap = (options.sourcemap = "true")
        /\ options.sourcemap = "true" => q.map = NativeMap(MappedAt(program, q.code, options))
    BY <2>1, <1>4
  <2>. QED  BY <2>2, <2>3
<1>7. CASE ~(options.dialect = "flow-detect" /\ ~p.ok /\ q.ok)
  <2>1. Transform(program, options) = p
    BY <1>3, <1>7
  <2>2. CASE p.ok = FALSE /\ p.what \in {"syntax", "convert", "unsupported", "misaligned"}
                          /\ p.place \in {options.dialect, "none"}
    BY <2>1, <2>2, <1>5, <1>7
  <2>3. CASE \E code : p = Printed(program, code, options)
    <3>1. PICK code : p = Printed(program, code, options)
      BY <2>3
    <3>2. /\ p.ok = TRUE /\ p.what = "none" /\ p.place = "none"
          /\ p.hasMap = (options.sourcemap = "true")
          /\ options.sourcemap = "true" => p.map = NativeMap(MappedAt(program, p.code, options))
      BY <3>1, <1>4
    <3>. QED  BY <3>2, <2>1
  <2>. QED  BY <2>2, <2>3, <1>1
<1>. QED  BY <1>6, <1>7

(* A set of offsets in a text has a greatest one.                          *)
LEMMA GreatestOffset ==
  ASSUME NEW n \in Nat, NEW S \in SUBSET (1 .. n), S # {}
  PROVE  \E m \in S : \A k \in S : k <= m
<1> DEFINE T == {n - k : k \in S}
<1>1. \A k \in S : k \in Nat /\ n - k \in Nat
  OBVIOUS
<1>2. T \subseteq Nat /\ T # {}
  BY <1>1
<1>3. PICK x \in T : \A y \in T : ~ (<<y, x>> \in OpToRel(<, Nat))
  <2> HIDE DEF T
  <2>. QED  BY <1>2, WFMin, NatLessThanWellFounded
<1>4. \A y \in T : ~ (y < x)
  <2> HIDE DEF T
  <2>. QED  BY <1>2, <1>3 DEF OpToRel
<1>5. PICK m \in S : x = n - m
  OBVIOUS
<1>6. \A k \in S : ~ (n - k < n - m)
  BY <1>4, <1>5
<1>. QED  BY <1>1, <1>6

(* A map the native module gives leads to the source, and merged with the  *)
(* host's to the original wherever that has the place itself.              *)
LEMMA MergedIsTraced ==
  ASSUME NEW inputMap, NEW text \in Seq(STRING), NEW map,
         DOMAIN inputMap \subseteq DOMAIN text,
         \A at \in DOMAIN inputMap : inputMap[at].source \in {"original", "none"},
         \A at \in DOMAIN map : map[at].source = "file" /\ map[at].at = at
  PROVE  LET merged == MergeSourceMaps(inputMap, text, map)
         IN  /\ DOMAIN merged = DOMAIN map
             /\ \A at \in DOMAIN merged :
                  /\ at \in DOMAIN inputMap /\ inputMap[at].source # "none"
                        => merged[at] = inputMap[at]
                  /\ merged[at].source = "file" => merged[at].at = at
<1> DEFINE Left(at) == {i \in DOMAIN inputMap :
                          i <= at /\ LineNumber(text, i) = LineNumber(text, at)}
           Nearest(at) == CHOOSE i \in Left(at) : \A j \in Left(at) : j <= i
           Upstream(at) == OriginalPositionFor(inputMap, text, at)
<1>1. ASSUME NEW at
      PROVE  Upstream(at) = IF Left(at) = {} THEN [source |-> "none", at |-> 0]
                            ELSE inputMap[Nearest(at)]
  BY DEF OriginalPositionFor
<1>2. ASSUME NEW at, Left(at) # {}
      PROVE  Nearest(at) \in Left(at) /\ \A j \in Left(at) : j <= Nearest(at)
  <2>1. Left(at) \subseteq 1 .. Len(text)
    OBVIOUS
  <2> HIDE DEF Left
  <2>2. Len(text) \in Nat
    OBVIOUS
  <2>3. \E m \in Left(at) : \A k \in Left(at) : k <= m
    BY <1>2, <2>1, <2>2, GreatestOffset
  <2>. QED  BY <2>3
<1>3. ASSUME NEW at \in DOMAIN inputMap  PROVE Upstream(at) = inputMap[at]
  <2>1. at \in Left(at)
    OBVIOUS
  <2>2. Nearest(at) \in Left(at) /\ \A j \in Left(at) : j <= Nearest(at)
    BY <1>2, <2>1
  <2>3. Nearest(at) <= at /\ at <= Nearest(at)
    BY <2>1, <2>2
  <2>4. Nearest(at) \in Nat /\ at \in Nat
    BY <2>2
  <2>5. Nearest(at) = at
    BY <2>3, <2>4
  <2>. QED  BY <1>1, <2>1, <2>5
<1>4. ASSUME NEW at PROVE Upstream(at).source \in {"original", "none"}
  BY <1>1, <1>2
<1>5. MergeSourceMaps(inputMap, text, map) =
        [at \in DOMAIN map |-> IF Upstream(at).source = "none" THEN map[at] ELSE Upstream(at)]
  BY DEF MergeSourceMaps
<1> HIDE DEF Upstream
<1>. QED  BY <1>3, <1>4, <1>5

-----------------------------------------------------------------------------
(* Steps before anything goes out                                          *)

LEMMA CleanIsTrue ==
  ASSUME Clean', pc' # "done"
  PROVE  ExitStatusTrue' /\ AnswerTrue'
BY DEF Clean, ExitStatusTrue, AnswerTrue, HelpText

(* A failure that is told before anything has gone out.                    *)
LEMMA CleanFailure ==
  ASSUME TypesInv, PhaseInv, Clean, NEW failure, Fail(failure), ~IsSkipped,
         failure.ok = FALSE,
         failure.what \notin {"none", "skipped"},
         failure.what \in {"syntax", "convert", "unsupported", "misaligned"} => ~result'.ok,
         failure.place # "none" =>
            /\ failure.place = Options.dialect
            /\ Options.dialect = "flow-detect" =>
                  ~Attempt(request.program, "flow", Options).ok,
         "write" \notin faults', "callback" \notin faults',
         UNCHANGED <<request, unread, command, input, asset, files, stdout>>
  PROVE  IInv'
<1>1. pc' = "done" /\ Options' = Options /\ (IsCli' <=> IsCli) /\ (IsSkipped' <=> IsSkipped)
  BY DEF Fail, Options, IsCli, IsSkipped
<1>2. TypesInv'
  BY <1>1 DEF TypesInv, Phases
<1>3. CASE IsCli
  <2>1. exit' = "1" /\ answers' = answers
    BY <1>3 DEF Fail
  <2>2. PhaseInv'
    BY <1>1, <1>3, <2>1 DEF PhaseInv
  <2>3. ExitStatusTrue' /\ AnswerTrue'
    BY <1>1, <1>3, <2>1 DEF Clean, ExitStatusTrue, AnswerTrue, HelpText
  <2>. QED  BY <1>2, <2>2, <2>3 DEF IInv
<1>4. CASE ~IsCli
  <2>1. exit' = exit /\ answers' = <<[what |-> failure.what, place |-> failure.place,
                                      code |-> <<>>, hasMap |-> FALSE, map |-> <<>>]>>
    BY <1>4 DEF Fail, Clean, Answer
  <2>2. PhaseInv'
    BY <1>1, <1>4, <2>1 DEF PhaseInv, Clean
  <2>3. ExitStatusTrue'
    BY <1>1, <1>4, <2>1 DEF Clean, ExitStatusTrue, HelpText
  <2>4. Len(answers') = 1 /\ answers'[1].what = failure.what /\ answers'[1].place = failure.place
    BY <2>1
  <2>5. AnswerTrue'
    BY <1>1, <2>4 DEF AnswerTrue, Clean
  <2>. QED  BY <1>2, <2>2, <2>3, <2>5 DEF IInv
<1>. QED  BY <1>3, <1>4

(* IInv does not depend on what has been read, nor on the binding.         *)
LEMMA UnchangedKeeps ==
  ASSUME IInv,
         UNCHANGED <<request, pc, command, input, result, asset, faults, files,
                     stdout, exit, answers>>
  PROVE  IInv'
<1>1. /\ (IsCli' <=> IsCli) /\ (IsSkipped' <=> IsSkipped) /\ (HostWantsMap' <=> HostWantsMap)
      /\ Options' = Options /\ (WantsMap' <=> WantsMap)
  BY DEF IsCli, IsSkipped, HostWantsMap, Options, WantsMap
<1>2. MapPlaces' = MapPlaces
  BY <1>1 DEF MapPlaces
<1>3. /\ Traced(result.map)' <=> Traced(result.map)
      /\ Traced(answers[1].map)' <=> Traced(answers[1].map)
      /\ Traced(files[input.sourceMapFile].map)' <=> Traced(files[input.sourceMapFile].map)
  BY DEF Traced
<1>4. TypesInv'
  BY DEF IInv, TypesInv
<1>5. /\ Clean' <=> Clean
      /\ Asked' <=> Asked
      /\ CodeIsOut' <=> CodeIsOut
      /\ CodeIsSet' <=> CodeIsSet
  BY <1>1 DEF Clean, Asked, CodeIsOut, CodeIsSet
<1>6. (Native' <=> Native) /\ (Composed' <=> Composed)
  <2>1. Whole' <=> Whole
    BY <1>1 DEF Whole, WantsMap
  <2>2. Native' <=> Native
    BY <1>1, <1>2, <2>1 DEF Native
  <2>3. Composed' <=> Composed
    BY <1>1, <1>2, <1>3, <2>1 DEF Composed
  <2>. QED  BY <2>2, <2>3
<1>7. PhaseInv'
  BY <1>1, <1>5, <1>6 DEF IInv, PhaseInv
<1>8. ExitStatusTrue'
  BY <1>1, <1>3 DEF IInv, ExitStatusTrue
<1>9. AnswerTrue'
  BY <1>1, <1>3 DEF IInv, AnswerTrue
<1>. QED  BY <1>4, <1>7, <1>8, <1>9 DEF IInv

LEMMA InitIsTrue == Init => IInv
<1> SUFFICES ASSUME Init PROVE IInv
  OBVIOUS
<1>1. /\ request \in Requests /\ pc = "start" /\ ~result.ok /\ Clean
  BY DEF Init, Clean, Failure
<1>2. IsCommand(CreateParseState) /\ IsRaw(Unset)
  <2>1. IsRaw(Unset)
    BY DEF Unset, IsRaw
  <2>. QED  BY <2>1 DEF CreateParseState, IsCommand, MaybePath
<1>3. TypesInv
  BY <1>1, <1>2, RequestsAssumption
     DEF Init, TypesInv, Phases, NoInput, Input, MaybePath
<1>4. PhaseInv
  BY <1>1 DEF PhaseInv, Clean
<1>5. ExitStatusTrue /\ AnswerTrue
  BY <1>1 DEF Clean, ExitStatusTrue, AnswerTrue, HelpText
<1>. QED  BY <1>3, <1>4, <1>5 DEF IInv

(* The arguments, one by one.                                              *)
LEMMA RawStaysRaw ==
  ASSUME NEW raw, IsRaw(raw), NEW value
  PROVE  /\ IsRaw([raw EXCEPT !.comments = value])
         /\ IsRaw([raw EXCEPT !.dialect = value])
         /\ IsRaw([raw EXCEPT !.format = value])
         /\ IsRaw([raw EXCEPT !.reactRuntimeTarget = value])
         /\ IsRaw([raw EXCEPT !.sourcemap = value])
         /\ [raw EXCEPT !.sourcemap = value].sourcemap = value
BY DEF IsRaw, Unset

LEMMA CommandStaysTyped ==
  ASSUME NEW cmd, IsCommand(cmd)
  PROVE  /\ \A raw : IsRaw(raw) => IsCommand([cmd EXCEPT !.raw = raw])
         /\ \A path \in MaybePath :
              /\ IsCommand([cmd EXCEPT !.inputFile = path])
              /\ IsCommand([cmd EXCEPT !.outputFile = path])
              /\ IsCommand([cmd EXCEPT !.sourceMapFile = path])
              /\ IsCommand([cmd EXCEPT !.inputSourceMapFile = path])
         /\ \A stop : IsCommand([cmd EXCEPT !.stop = stop])
BY DEF IsCommand, CreateParseState

LEMMA CommandIsTyped ==
  ASSUME NEW cmd, IsCommand(cmd), NEW value, NEW flag
  PROVE  /\ IsCommand(Refuse(cmd))
         /\ IsCommand(FinalCommand(cmd))
         /\ flag \notin ValueFlags => IsCommand(NextArgument(cmd, flag))
         /\ flag \in ValueFlags => IsCommand(ValueFlag(cmd, flag, value))
<1>1. \A arg : Resolve(arg) \in MaybePath
  BY DEF Resolve, MaybePath, Paths
<1>2. IsRaw(cmd.raw)
  BY DEF IsCommand
<1>3. IsCommand(Refuse(cmd)) /\ IsCommand(FinalCommand(cmd))
  BY CommandStaysTyped DEF Refuse, FinalCommand
<1>4. ASSUME flag \in BooleanFlags PROVE IsCommand(BooleanFlag(cmd, flag))
  BY <1>2, <1>4, CommandStaysTyped, RawStaysRaw DEF BooleanFlags, BooleanFlag
<1>5. IsCommand(NextArgument(cmd, flag))
  BY <1>1, <1>3, <1>4, CommandStaysTyped DEF NextArgument
<1>6. ASSUME flag \in ValueFlags PROVE IsCommand(ValueFlag(cmd, flag, value))
  BY <1>1, <1>2, <1>6, CommandStaysTyped, RawStaysRaw DEF ValueFlags, ValueFlag
<1>. QED  BY <1>3, <1>5, <1>6

LEMMA ReadArgumentKeeps == IInv /\ ReadArgument => IInv'
<1> SUFFICES ASSUME IInv, ReadArgument PROVE IInv'
  OBVIOUS
<1>1. pc = "start" /\ Clean
  BY DEF IInv, PhaseInv, ReadArgument
<1>2. UNCHANGED <<request, pc, input, result, asset, faults, files, stdout, exit, answers>>
  BY DEF ReadArgument
<1>3. IsCommand(command')
  BY CommandIsTyped DEF IInv, TypesInv, ReadArgument
<1>4. TypesInv'
  BY <1>2, <1>3 DEF IInv, TypesInv
<1>5. Clean'
  BY <1>1, <1>2 DEF Clean
<1>6. PhaseInv'
  BY <1>1, <1>2, <1>5 DEF IInv, PhaseInv, IsCli
<1>. QED  BY <1>1, <1>2, <1>4, <1>5, <1>6, CleanIsTrue DEF IInv

(* The option for maps, when it is not given and when it is.               *)
LEMMA FilledSourcemap ==
  ASSUME NEW raw
  PROVE  Filled(raw).sourcemap = IF raw.sourcemap = "unset" THEN "true" ELSE raw.sourcemap
BY DEF Filled, DEFAULT_OPTIONS

(* A command that is not refused asks for a map exactly when it has a file *)
(* for it.                                                                 *)
LEMMA CommandAsks ==
  ASSUME NEW cmd, IsCommand(cmd), CommandValid(cmd)
  PROVE  LET prepared == PrepareCommand(cmd)
         IN  /\ IsRaw(prepared.raw)
             /\ prepared.outputFile \in MaybePath
             /\ prepared.sourceMapFile \in MaybePath
             /\ prepared.inputMap \in {<<>>, request.inputMap}
             /\ Filled(prepared.raw).sourcemap = "true" <=> prepared.sourceMapFile # "none"
<1> DEFINE raw == ResolvedRawOptions(cmd)
<1>1. IsRaw(cmd.raw)
  BY DEF IsCommand
<1>2. IsRaw(raw) /\ raw.sourcemap # "unset"
  <2> DEFINE asked == IF cmd.sourceMapFile # "none" THEN "true" ELSE "false"
  <2>1. asked # "unset"
    OBVIOUS
  <2>2. raw = IF cmd.raw.sourcemap # "unset" THEN cmd.raw
              ELSE [cmd.raw EXCEPT !.sourcemap = asked]
    BY DEF ResolvedRawOptions
  <2> HIDE DEF asked, raw
  <2>3. /\ IsRaw([cmd.raw EXCEPT !.sourcemap = asked])
        /\ [cmd.raw EXCEPT !.sourcemap = asked].sourcemap = asked
    BY <1>1, RawStaysRaw
  <2>. QED  BY <1>1, <2>1, <2>2, <2>3
<1>3. Filled(raw).sourcemap = raw.sourcemap
  BY <1>2, FilledSourcemap
<1>4. raw.sourcemap \in {"true", "false"}
  BY <1>3 DEF CommandValid, OptionsValid, Booleans
<1>5. ResolvedSourceMapFile(cmd, raw.sourcemap) \in MaybePath
  BY <1>4 DEF ResolvedSourceMapFile, IsCommand, MaybePath, DefaultSourceMapFile, Paths
<1>6. raw.sourcemap = "true" <=> ResolvedSourceMapFile(cmd, raw.sourcemap) # "none"
  BY <1>4 DEF ResolvedSourceMapFile, CommandValid
<1>7. cmd.outputFile \in MaybePath
  BY DEF IsCommand
<1> HIDE DEF raw
<1>8. /\ PrepareCommand(cmd).raw = raw
      /\ PrepareCommand(cmd).outputFile = cmd.outputFile
      /\ PrepareCommand(cmd).sourceMapFile = ResolvedSourceMapFile(cmd, raw.sourcemap)
      /\ PrepareCommand(cmd).inputMap \in {<<>>, request.inputMap}
  BY DEF PrepareCommand, Input, raw
<1>. QED  BY <1>2, <1>3, <1>5, <1>6, <1>7, <1>8

LEMMA ExecuteCommandKeeps == IInv /\ ExecuteCommand => IInv'
<1> SUFFICES ASSUME IInv, ExecuteCommand PROVE IInv'
  OBVIOUS
<1> DEFINE final == FinalCommand(command)
<1>1. /\ pc = "start" /\ IsCli /\ Clean /\ ~result.ok
      /\ TypesInv /\ PhaseInv /\ ~IsSkipped
  BY DEF IInv, PhaseInv, ExecuteCommand, IsCli, IsSkipped
<1>2. UNCHANGED <<request, unread, command, result, asset, faults, files>>
  BY DEF ExecuteCommand
<1>3. IsCommand(final)
  BY <1>1, CommandIsTyped DEF TypesInv
<1>4. CASE /\ stdout' = HelpText /\ exit' = "0" /\ pc' = "done"
           /\ UNCHANGED <<input, answers>>
  <2>1. TypesInv'
    BY <1>1, <1>2, <1>4 DEF TypesInv, Phases
  <2>2. PhaseInv'
    BY <1>1, <1>2, <1>4 DEF PhaseInv, IsCli
  <2>3. ExitStatusTrue' /\ AnswerTrue'
    BY <1>1, <1>2, <1>4 DEF ExitStatusTrue, AnswerTrue, Clean, IsCli
  <2>. QED  BY <2>1, <2>2, <2>3 DEF IInv
<1>5. CASE Fail(Failure("command", "none")) /\ UNCHANGED <<input, stdout>>
  BY <1>1, <1>2, <1>5, CleanFailure DEF Failure, Clean
<1>6. CASE /\ CommandValid(final)
           /\ input' = PrepareCommand(final) /\ pc' = "read"
           /\ UNCHANGED <<stdout, exit, answers>>
  <2>1. /\ IsRaw(input'.raw)
        /\ input'.outputFile \in MaybePath
        /\ input'.sourceMapFile \in MaybePath
        /\ input'.inputMap \in {<<>>, request.inputMap}
        /\ Filled(input'.raw).sourcemap = "true" <=> input'.sourceMapFile # "none"
    BY <1>3, <1>6, CommandAsks
  <2>2. TypesInv'
    BY <1>1, <1>2, <1>6, <2>1 DEF TypesInv, Phases
  <2>3. Clean' /\ IsCli'
    BY <1>1, <1>2, <1>6 DEF Clean, IsCli
  <2>4. Asked'
    BY <2>1, <2>3 DEF Asked, WantsMap, Options
  <2>5. PhaseInv'
    BY <1>1, <1>2, <1>6, <2>3, <2>4 DEF PhaseInv, Clean
  <2>. QED  BY <1>6, <2>2, <2>3, <2>5, CleanIsTrue DEF IInv
<1>. QED  BY <1>4, <1>5, <1>6 DEF ExecuteCommand

(* The adapters start.                                                     *)
LEMMA SkipModuleKeeps == IInv /\ SkipModule => IInv'
<1> SUFFICES ASSUME IInv, SkipModule PROVE IInv'
  OBVIOUS
<1>1. pc = "start" /\ IsSkipped /\ ~IsCli /\ Clean /\ TypesInv /\ PhaseInv
  BY DEF IInv, PhaseInv, SkipModule, IsSkipped, IsCli
<1>2. UNCHANGED <<request, unread, command, input, result, asset, faults, files, stdout, exit>>
  BY DEF SkipModule
<1>3. pc' = "done" /\ IsSkipped' /\ ~IsCli'
  BY <1>1, <1>2 DEF SkipModule, IsSkipped, IsCli
<1>4. Len(answers') = 1 /\ answers'[1].what = "skipped" /\ answers'[1].place = "none"
  BY DEF SkipModule
<1>5. TypesInv'
  BY <1>1, <1>2, <1>3 DEF TypesInv, Phases
<1>6. PhaseInv'
  BY <1>1, <1>2, <1>3 DEF PhaseInv
<1>7. ExitStatusTrue'
  BY <1>1, <1>2 DEF ExitStatusTrue, Clean
<1>8. AnswerTrue'
  BY <1>1, <1>2, <1>3, <1>4 DEF AnswerTrue, Clean
<1>. QED  BY <1>5, <1>6, <1>7, <1>8 DEF IInv

(* What an adapter asks of transform is what it will tell its host.        *)
LEMMA AdapterAsks ==
  ASSUME request \in Requests, ~IsCli
  PROVE  LET configured == Configure(request)
         IN  /\ IsRaw(configured.raw)
             /\ configured.outputFile = "none"
             /\ configured.sourceMapFile = "none"
             /\ configured.inputMap \in {<<>>, request.inputMap}
             /\ Filled(configured.raw).sourcemap = "true" <=> HostWantsMap
<1> DEFINE With(sourcemap) == [request.raw EXCEPT !.sourcemap = sourcemap]
           host == HostSourceMap(request.raw, request.context)
<1>1. /\ request.caller \in Adapters
      /\ IsRaw(request.raw)
      /\ request.context \in {"true", "false", "unset"}
  BY RequestsAssumption DEF IsCli, Booleans
<1>2. \A sourcemap : IsRaw(With(sourcemap)) /\ With(sourcemap).sourcemap = sourcemap
  BY <1>1, RawStaysRaw
<1>3. /\ host \in {"true", "false"}
      /\ host = "true" <=> \/ request.raw.sourcemap = "true"
                           \/ request.raw.sourcemap # "false" /\ request.context # "false"
  BY <1>1 DEF HostSourceMap, Booleans
<1>4. PICK sourcemap \in {"true", "false"} :
        /\ Configure(request).raw = With(sourcemap)
        /\ Configure(request).outputFile = "none"
        /\ Configure(request).sourceMapFile = "none"
        /\ Configure(request).inputMap \in {<<>>, request.inputMap}
        /\ sourcemap = "true" <=> HostWantsMap
  <2>1. CASE request.caller = "webpack"
    BY <2>1, <1>3 DEF Configure, Input, HostWantsMap
  <2>2. CASE request.caller = "parcel"
    BY <2>2, <1>3 DEF Configure, Input, HostWantsMap
  <2>3. CASE request.caller = "esbuild"
    BY <2>3 DEF Configure, Input, HostWantsMap
  <2>4. CASE request.caller \in {"rollup", "vite"}
    BY <2>4 DEF Configure, Input, HostWantsMap
  <2>. QED  BY <1>1, <2>1, <2>2, <2>3, <2>4 DEF Adapters
<1> HIDE DEF With, host
<1>5. Filled(Configure(request).raw).sourcemap = sourcemap
  BY <1>2, <1>4, FilledSourcemap
<1>. QED  BY <1>2, <1>4, <1>5

LEMMA StartAdapterKeeps == IInv /\ StartAdapter => IInv'
<1> SUFFICES ASSUME IInv, StartAdapter PROVE IInv'
  OBVIOUS
<1>1. pc = "start" /\ ~IsSkipped /\ ~IsCli /\ Clean /\ ~result.ok /\ TypesInv
  BY DEF IInv, PhaseInv, StartAdapter
<1>2. UNCHANGED <<request, unread, command, result, asset, faults, files, stdout, exit, answers>>
  BY DEF StartAdapter
<1>3. pc' = "read" /\ input' = Configure(request)
  BY DEF StartAdapter
<1>4. /\ IsRaw(input'.raw)
      /\ input'.outputFile = "none"
      /\ input'.sourceMapFile = "none"
      /\ input'.inputMap \in {<<>>, request.inputMap}
      /\ Filled(input'.raw).sourcemap = "true" <=> HostWantsMap
  BY <1>1, <1>3, AdapterAsks DEF TypesInv
<1>5. ~IsSkipped' /\ ~IsCli' /\ (HostWantsMap' <=> HostWantsMap)
  BY <1>1, <1>2 DEF IsSkipped, IsCli, HostWantsMap
<1>6. TypesInv'
  BY <1>1, <1>2, <1>3, <1>4 DEF TypesInv, Phases, MaybePath
<1>7. Clean'
  BY <1>1, <1>2 DEF Clean
<1>8. Asked'
  BY <1>4, <1>5 DEF Asked, WantsMap, Options
<1>9. PhaseInv'
  BY <1>1, <1>2, <1>3, <1>5, <1>7, <1>8 DEF PhaseInv, Clean
<1>. QED  BY <1>3, <1>6, <1>7, <1>9, CleanIsTrue DEF IInv

LEMMA LoaderImportFailsKeeps == IInv /\ LoaderImportFails => IInv'
<1> SUFFICES ASSUME IInv, LoaderImportFails PROVE IInv'
  OBVIOUS
<1>1. ~IsSkipped /\ Clean /\ TypesInv /\ PhaseInv
  BY DEF IInv, PhaseInv, LoaderImportFails, IsSkipped
<1>2. /\ faults' = faults \cup {"import"}
      /\ Fail(Failure("import", "none"))
      /\ UNCHANGED <<request, unread, command, input, asset, files, stdout>>
  BY DEF LoaderImportFails
<1>. QED  BY <1>1, <1>2, CleanFailure DEF Failure, Clean

LEMMA OptionsThrowKeeps == IInv /\ OptionsThrow => IInv'
<1> SUFFICES ASSUME IInv, OptionsThrow PROVE IInv'
  OBVIOUS
<1>1. ~IsSkipped /\ Clean /\ TypesInv /\ PhaseInv
  BY DEF IInv, PhaseInv, OptionsThrow, IsSkipped
<1>2. /\ faults' = faults \cup {"options"}
      /\ Fail(Failure("options", "none"))
      /\ UNCHANGED <<request, unread, command, input, asset, files, stdout>>
  BY DEF OptionsThrow
<1>. QED  BY <1>1, <1>2, CleanFailure DEF Failure, Clean

-----------------------------------------------------------------------------
(* Reads, the native module and the map                                    *)

LEMMA ReadFileKeeps == \A source \in Sources : IInv /\ ReadFile(source) => IInv'
  BY UnchangedKeeps DEF ReadFile

LEMMA ReadFailsKeeps == \A source \in Sources : IInv /\ ReadFails(source) => IInv'
<1> SUFFICES ASSUME NEW source \in Sources, IInv, ReadFails(source) PROVE IInv'
  OBVIOUS
<1>1. ~IsSkipped /\ Clean /\ TypesInv /\ PhaseInv
  BY DEF IInv, PhaseInv, ReadFails, Reading, Asked, IsSkipped, IsCli
<1>2. /\ faults' = faults \cup {"read"}
      /\ Fail(Failure("read", "none"))
      /\ UNCHANGED <<request, unread, command, input, asset, files, stdout>>
  BY DEF ReadFails
<1>. QED  BY <1>1, <1>2, CleanFailure DEF Failure, Clean

LEMMA LoadNativeBindingKeeps == IInv /\ LoadNativeBinding => IInv'
<1> SUFFICES ASSUME IInv, LoadNativeBinding PROVE IInv'
  OBVIOUS
<1>1. pc = "read" /\ ~IsSkipped /\ Clean /\ ~result.ok /\ TypesInv /\ PhaseInv /\ Asked
  BY DEF IInv, PhaseInv, LoadNativeBinding, Asked, IsSkipped, IsCli
<1>2. UNCHANGED <<request, unread, command, input, result, asset, files, stdout>>
  BY DEF LoadNativeBinding
<1>3. CASE Fail(Failure("option", "none")) /\ UNCHANGED faults
  BY <1>1, <1>2, <1>3, CleanFailure DEF Failure, Clean
<1>4. CASE faults' = faults \cup {"binding"} /\ Fail(Failure("binding", "none"))
  BY <1>1, <1>2, <1>4, CleanFailure DEF Failure, Clean
<1>5. CASE OptionsValid(input.raw) /\ pc' = "native" /\ UNCHANGED <<exit, answers, faults>>
  <2>1. TypesInv' /\ Clean'
    BY <1>1, <1>2, <1>5 DEF TypesInv, Phases, Clean
  <2>2. Asked'
    BY <1>1, <1>2 DEF Asked, WantsMap, HostWantsMap, IsSkipped, IsCli, Options
  <2>3. Options'.sourcemap \in Booleans
    BY <1>2, <1>5 DEF OptionsValid, Options
  <2>4. PhaseInv'
    BY <1>1, <1>2, <1>5, <2>1, <2>2, <2>3 DEF PhaseInv, Clean, IsCli
  <2>. QED  BY <1>5, <2>1, <2>4, CleanIsTrue DEF IInv
<1>. QED  BY <1>3, <1>4, <1>5 DEF LoadNativeBinding

LEMMA NativeTransformKeeps == IInv /\ NativeTransform => IInv'
<1> SUFFICES ASSUME IInv, NativeTransform PROVE IInv'
  OBVIOUS
<1>1. pc = "native" /\ ~IsSkipped /\ Clean /\ TypesInv /\ PhaseInv /\ Asked
  BY DEF IInv, PhaseInv, NativeTransform, Asked, IsSkipped, IsCli
<1> DEFINE response == Transform(request.program, Options)
<1>2. /\ result' = response
      /\ IF response.ok THEN pc' = "map" /\ UNCHANGED <<exit, answers>> ELSE Fail(response)
      /\ UNCHANGED <<request, unread, command, input, binding, asset, faults, files, stdout>>
  BY DEF NativeTransform, Options
<1>3. /\ response.ok \in BOOLEAN
      /\ ~response.ok =>
           /\ response.what \in {"syntax", "convert", "unsupported", "misaligned"}
           /\ response.place \in {Options.dialect, "none"}
           /\ Options.dialect = "flow-detect" =>
                 ~Attempt(request.program, "flow", Options).ok
      /\ response.ok =>
           /\ response.what = "none"
           /\ response.place = "none"
           /\ response.hasMap = WantsMap
           /\ WantsMap => response.map = NativeMap(MappedAt(request.program, response.code, Options))
  BY TransformShape DEF WantsMap
<1> HIDE DEF response
<1>4. CASE response.ok
  <2>1. pc' = "map" /\ UNCHANGED <<exit, answers>>
    BY <1>2, <1>4
  <2>2. TypesInv' /\ Clean'
    BY <1>1, <1>2, <2>1 DEF TypesInv, Phases, Clean
  <2>3. Asked' /\ (WantsMap' <=> WantsMap)
    BY <1>1, <1>2 DEF Asked, WantsMap, HostWantsMap, IsSkipped, IsCli, Options
  <2>4. Native'
    BY <1>2, <1>3, <1>4, <2>3 DEF Native, Whole, MapPlaces, WantsMap, Options
  <2>5. PhaseInv'
    BY <1>1, <1>2, <2>1, <2>2, <2>3, <2>4 DEF PhaseInv, Clean, IsCli, Options
  <2>. QED  BY <2>1, <2>2, <2>5, CleanIsTrue DEF IInv
<1>5. CASE ~response.ok
  BY <1>1, <1>2, <1>3, <1>5, CleanFailure DEF Clean
<1>. QED  BY <1>4, <1>5

LEMMA ComposeMapKeeps == IInv /\ ComposeMap => IInv'
<1> SUFFICES ASSUME IInv, ComposeMap PROVE IInv'
  OBVIOUS
<1>1. pc = "map" /\ ~IsSkipped /\ Clean /\ TypesInv /\ PhaseInv /\ Asked /\ Native
  BY DEF IInv, PhaseInv, ComposeMap, Asked, IsSkipped, IsCli
<1> DEFINE composed == OutputMap(result, Options, input.inputMap, request.program.text)
<1>2. UNCHANGED <<request, unread, command, input, binding, asset, files, stdout>>
  BY DEF ComposeMap
<1>3. CASE composed.ok /\ result' = composed /\ pc' = "emit" /\ UNCHANGED <<exit, answers, faults>>
  <2>1. ASSUME ~WantsMap PROVE Composed'
    <3>1. composed = Success(result.code, FALSE, <<>>)
      BY <2>1, <1>1 DEF OutputMap, WantsMap, Booleans, PhaseInv
    <3>2. result'.map = <<>> /\ result'.ok = TRUE /\ result'.hasMap = FALSE
          /\ result'.what = "none" /\ result'.place = "none"
      BY <3>1, <1>3 DEF Success
    <3>3. DOMAIN result'.map = {}
      <4>1. DOMAIN <<>> = {}
        OBVIOUS
      <4>. QED  BY <3>2, <4>1
    <3>4. Traced(result.map)'
      BY <3>3 DEF Traced
    <3>. QED  BY <2>1, <3>2, <3>4, <1>2 DEF Composed, Whole, WantsMap, Options
  <2>2. ASSUME WantsMap PROVE Composed'
    <3> DEFINE map == IF input.inputMap = <<>> THEN result.map
                      ELSE MergeSourceMaps(input.inputMap, request.program.text, result.map)
    <3>1. composed = Success(result.code, TRUE, map)
      BY <2>2, <1>1 DEF OutputMap, WantsMap, Native, Whole
    <3>2. result'.map = map /\ result'.code = result.code /\ result'.ok = TRUE
          /\ result'.hasMap = TRUE /\ result'.what = "none" /\ result'.place = "none"
      BY <3>1, <1>3 DEF Success
    <3>3. /\ DOMAIN result.map = MapPlaces
          /\ \A at \in DOMAIN result.map :
                result.map[at].source = "file" /\ result.map[at].at = at
      BY <2>2, <1>1 DEF Native, NativeMap
    <3>4. DOMAIN map = MapPlaces /\ Traced(map)
      <4>1. CASE input.inputMap = <<>>
        BY <4>1, <3>3 DEF Traced
      <4>2. CASE input.inputMap # <<>>
        <5>1. input.inputMap = request.inputMap /\ request \in Requests
          BY <4>2, <1>1 DEF TypesInv
        <5>2. /\ request.program.text \in Seq(STRING)
              /\ DOMAIN request.inputMap \subseteq DOMAIN request.program.text
              /\ \A at \in DOMAIN request.inputMap :
                    request.inputMap[at].source \in {"original", "none"}
          BY <5>1, RequestsAssumption
        <5>3. map = MergeSourceMaps(request.inputMap, request.program.text, result.map)
          BY <4>2, <5>1
        <5> DEFINE inputMap == request.inputMap
                   text == request.program.text
                   native == result.map
                   merged == MergeSourceMaps(inputMap, text, native)
        <5>4. map = merged
          BY <5>3
        <5> HIDE DEF map
        <5>5. /\ DOMAIN inputMap \subseteq DOMAIN text /\ text \in Seq(STRING)
              /\ \A at \in DOMAIN inputMap : inputMap[at].source \in {"original", "none"}
              /\ \A at \in DOMAIN native : native[at].source = "file" /\ native[at].at = at
          BY <3>3, <5>2
        <5> HIDE DEF inputMap, text, native
        <5>6. /\ DOMAIN merged = DOMAIN native
              /\ \A at \in DOMAIN merged :
                  /\ at \in DOMAIN inputMap /\ inputMap[at].source # "none"
                        => merged[at] = inputMap[at]
                  /\ merged[at].source = "file" => merged[at].at = at
          BY <5>5, MergedIsTraced
        <5> HIDE DEF merged
        <5>. QED  BY <3>3, <5>4, <5>6 DEF Traced, inputMap, native
      <4>. QED  BY <4>1, <4>2
    <3> HIDE DEF map
    <3>5. Traced(result.map)'
      BY <3>2, <3>4, <1>2 DEF Traced
    <3>6. MapPlaces' = MapPlaces
      BY <3>2, <1>2 DEF MapPlaces, Options
    <3>. QED  BY <2>2, <3>2, <3>4, <3>5, <3>6, <1>2 DEF Composed, Whole, WantsMap, Options
  <2>3. Composed'
    BY <2>1, <2>2
  <2>4. TypesInv' /\ Clean'
    BY <1>1, <1>2, <1>3 DEF TypesInv, Phases, Clean
  <2>5. Asked'
    BY <1>1, <1>2 DEF Asked, WantsMap, HostWantsMap, IsSkipped, IsCli, Options
  <2>6. PhaseInv'
    BY <1>1, <1>2, <1>3, <2>3, <2>4, <2>5 DEF PhaseInv, Clean, IsCli
  <2>. QED  BY <1>3, <2>4, <2>6, CleanIsTrue DEF IInv
<1>4. CASE /\ faults' = faults \cup {"map"}
           /\ result' = Failure("map", "none") /\ Fail(Failure("map", "none"))
  BY <1>1, <1>2, <1>4, CleanFailure DEF Failure, Clean
<1>. QED  BY <1>3, <1>4 DEF ComposeMap, Options

-----------------------------------------------------------------------------
(* What goes out                                                           *)

LEMMA WriteCodeKeeps == IInv /\ WriteCode => IInv'
<1> SUFFICES ASSUME IInv, WriteCode PROVE IInv'
  OBVIOUS
<1>1. /\ pc = "emit" /\ IsCli /\ Clean /\ TypesInv /\ PhaseInv /\ Asked /\ Composed
      /\ (WantsMap <=> input.sourceMapFile # "none")
  BY DEF IInv, PhaseInv, WriteCode, Asked
<1>2. UNCHANGED <<request, unread, command, input, result, asset, faults, answers>>
  BY DEF WriteCode
<1>3. /\ IsCli' /\ Asked' /\ Composed' /\ Options' = Options /\ (WantsMap' <=> WantsMap)
  BY <1>1, <1>2 DEF IsCli, Asked, Composed, Whole, MapPlaces, Traced, WantsMap, HostWantsMap,
                    IsSkipped, Options
<1>4. IF input.outputFile = "none" THEN stdout' = result.code /\ files' = Before
      ELSE /\ stdout' = <<>>
           /\ input.outputFile \in Paths
           /\ files' = [Before EXCEPT ![input.outputFile] =
                           File("code", result.code, input.sourceMapFile, <<>>)]
  BY <1>1 DEF WriteCode, Clean, TypesInv, MaybePath
<1>5. CASE pc' = "emitMap" /\ input.sourceMapFile # "none" /\ UNCHANGED exit
  <2>1. TypesInv'
    BY <1>1, <1>2, <1>5 DEF TypesInv, Phases
  <2>2. CodeIsOut'
    BY <1>1, <1>2, <1>3, <1>4, <1>5 DEF CodeIsOut, Clean
  <2>3. PhaseInv'
    BY <1>1, <1>2, <1>3, <1>5, <2>2 DEF PhaseInv, Clean
  <2>4. ExitStatusTrue'
    BY <1>1, <1>2, <1>4, <1>5 DEF ExitStatusTrue, Composed, Whole, Clean, Before
  <2>5. AnswerTrue'
    BY <1>1, <1>2, <1>3 DEF AnswerTrue, Clean
  <2>. QED  BY <2>1, <2>3, <2>4, <2>5 DEF IInv
<1>6. CASE pc' = "done" /\ exit' = "0" /\ input.sourceMapFile = "none"
  <2>1. TypesInv'
    BY <1>1, <1>2, <1>6 DEF TypesInv, Phases
  <2>2. PhaseInv'
    BY <1>1, <1>2, <1>3, <1>6 DEF PhaseInv, Clean
  <2>3. result'.ok /\ ~WantsMap'
    BY <1>1, <1>2, <1>3, <1>6 DEF Composed, Whole
  <2>4. ExitStatusTrue'
    <3>1. CASE input.outputFile = "none"
      BY <1>2, <1>4, <1>6, <2>3, <3>1 DEF ExitStatusTrue
    <3>2. CASE input.outputFile # "none"
      <4>1. /\ files'[input.outputFile] =
                 File("code", result.code, input.sourceMapFile, <<>>)
            /\ {path \in Paths : files'[path] # Before[path]} = {input.outputFile}
        BY <1>4, <3>2, WrittenDiffers DEF Before
      <4>. QED  BY <1>2, <1>6, <2>3, <3>2, <4>1 DEF ExitStatusTrue
    <3>. QED  BY <3>1, <3>2
  <2>5. AnswerTrue'
    BY <1>1, <1>2, <1>3 DEF AnswerTrue, Clean
  <2>. QED  BY <2>1, <2>2, <2>4, <2>5 DEF IInv
<1>7. input.sourceMapFile # "none" => result.hasMap
  BY DEF WriteCode
<1>. QED  BY <1>5, <1>6, <1>7 DEF WriteCode, AfterCode

LEMMA WriteMapKeeps == IInv /\ WriteMap => IInv'
<1> SUFFICES ASSUME IInv, WriteMap PROVE IInv'
  OBVIOUS
<1>1. /\ pc = "emitMap" /\ IsCli /\ TypesInv /\ PhaseInv /\ Asked /\ Composed /\ CodeIsOut
      /\ (WantsMap <=> input.sourceMapFile # "none")
  BY DEF IInv, PhaseInv, WriteMap, Asked, CodeIsOut
<1>2. /\ UNCHANGED <<request, unread, command, input, result, asset, faults, stdout, answers>>
      /\ files' = [files EXCEPT ![input.sourceMapFile] = File("map", <<>>, "none", result.map)]
      /\ pc' = "done" /\ exit' = "0"
  BY DEF WriteMap
<1>3. IsCli' /\ WantsMap' /\ input.sourceMapFile # "none"
  BY <1>1, <1>2 DEF IsCli, WantsMap, Options, CodeIsOut
<1>4. TypesInv'
  BY <1>1, <1>2 DEF TypesInv, Phases
<1>5. PhaseInv'
  BY <1>1, <1>2, <1>3 DEF PhaseInv
<1>6. input.sourceMapFile \in Paths
  BY <1>1 DEF TypesInv, MaybePath, CodeIsOut
<1>7. /\ result'.ok
      /\ DOMAIN result.map = MapPlaces
      /\ Traced(result.map)'
  BY <1>1, <1>2, <1>3 DEF Composed, Whole, Traced
<1> DEFINE map == File("map", <<>>, "none", result.map)
           code == File("code", result.code, input.sourceMapFile, <<>>)
           written == {path \in Paths : files'[path] # Before[path]}
<1>8. map.kind = "map" /\ map.map = result.map
  BY DEF File
<1>9. /\ \A path \in Paths : map # Before[path]
      /\ \A path \in Paths : code # Before[path]
  BY WrittenDiffers
<1>10. files'[input.sourceMapFile] = map
  BY <1>1, <1>2, <1>6 DEF CodeIsOut, Before
<1> HIDE DEF map, code
<1>11. written = {input.outputFile, input.sourceMapFile} \ {"none"}
  <2>1. CASE input.outputFile = "none"
    <3>1. files' = [Before EXCEPT ![input.sourceMapFile] = map]
      BY <1>1, <1>2, <2>1 DEF CodeIsOut, map
    <3>. QED  BY <1>6, <1>9, <2>1, <3>1, NoneIsNoPath DEF Before
  <2>2. CASE input.outputFile # "none"
    <3>1. files' = [[Before EXCEPT ![input.outputFile] = code]
                       EXCEPT ![input.sourceMapFile] = map]
      BY <1>1, <1>2, <2>2 DEF CodeIsOut, map, code
    <3>2. input.outputFile \in Paths
      BY <1>1, <2>2 DEF TypesInv, MaybePath
    <3>. QED  BY <1>6, <1>9, <2>2, <3>1, <3>2, NoneIsNoPath DEF Before
  <2>. QED  BY <2>1, <2>2
<1>12. input.outputFile \notin {"none", input.sourceMapFile} => files'[input.outputFile] = code
  BY <1>1, <1>2 DEF CodeIsOut, TypesInv, MaybePath, Before, code
<1>13. input.outputFile = "none" => stdout' = result.code
  BY <1>1, <1>2 DEF CodeIsOut
<1>14. /\ files'[input'.sourceMapFile].kind = "map"
       /\ files'[input'.sourceMapFile].map = result'.map
  BY <1>2, <1>8, <1>10
<1>15. Traced(files[input.sourceMapFile].map)'
  BY <1>7, <1>14 DEF Traced
<1> HIDE DEF written
<1>16. ExitStatusTrue'
  <2>1. written = {path \in Paths : files'[path] # Before[path]}
    BY DEF written
  <2>2. DOMAIN files'[input'.sourceMapFile].map =
           MappedAt(request.program, result.code, Options)'
    BY <1>2, <1>7, <1>14 DEF MapPlaces, Options
  <2>3. Traced(files[input.sourceMapFile].map)'
    BY <1>15
  <2>. QED  BY <1>2, <1>3, <1>7, <1>11, <1>12, <1>13, <1>14, <2>1, <2>2, <2>3
            DEF ExitStatusTrue, code
<1>17. AnswerTrue'
  BY <1>1, <1>2, <1>3 DEF AnswerTrue, PhaseInv
<1>. QED  BY <1>4, <1>5, <1>16, <1>17 DEF IInv

LEMMA WriteFailsKeeps == IInv /\ WriteFails => IInv'
<1> SUFFICES ASSUME IInv, WriteFails PROVE IInv'
  OBVIOUS
<1> DEFINE path == IF pc = "emit" THEN input.outputFile ELSE input.sourceMapFile
           written == {p \in Paths : files'[p] # Before[p]}
           asked == {input.outputFile, input.sourceMapFile} \ {"none"}
<1>1. /\ pc \in {"emit", "emitMap"} /\ IsCli /\ TypesInv /\ PhaseInv /\ Composed
      /\ path \in asked
  BY DEF IInv, PhaseInv, WriteFails
<1>2. /\ UNCHANGED <<request, unread, command, input, result, asset, stdout, answers>>
      /\ files' \in {files, [files EXCEPT ![path] = Partial]}
      /\ "write" \in faults'
      /\ pc' = "done" /\ exit' = "1"
  BY <1>1 DEF WriteFails, Fail
<1>3. IsCli' /\ result'.ok
  BY <1>1, <1>2 DEF IsCli, Composed, Whole
<1>4. TypesInv'
  BY <1>1, <1>2 DEF TypesInv, Phases
<1>5. PhaseInv'
  BY <1>1, <1>2, <1>3 DEF PhaseInv
<1>6. \A p \in Paths : files[p] # Before[p] => p \in asked
  <2>1. CASE pc = "emit"
    BY <1>1, <2>1 DEF PhaseInv, Clean
  <2>2. CASE pc = "emitMap"
    BY <1>1, <2>2, NoneIsNoPath DEF PhaseInv, CodeIsOut, Before
  <2>. QED  BY <1>1, <2>1, <2>2
<1>7. DOMAIN files = Paths
  BY <1>1 DEF PhaseInv, Clean, CodeIsOut, Before
<1>8. written \subseteq asked
  <2> HIDE DEF path, asked
  <2>1. \A p \in Paths : p # path => files'[p] = files[p]
    BY <1>2, <1>7
  <2>. QED  BY <1>1, <1>6, <2>1
<1> HIDE DEF path, written
<1>9. ExitStatusTrue'
  BY <1>2, <1>3, <1>8 DEF ExitStatusTrue, written
<1>10. AnswerTrue'
  BY <1>1, <1>2, <1>3 DEF AnswerTrue, PhaseInv
<1>. QED  BY <1>4, <1>5, <1>9, <1>10 DEF IInv

(* What an adapter answers when the transform has succeeded.               *)
LEMMA AnswerOfResult ==
  ASSUME Composed
  PROVE  Answer(result) = <<[what |-> "none", place |-> "none", code |-> result.code,
                             hasMap |-> result.hasMap, map |-> result.map]>>
BY DEF Composed, Whole, Answer

LEMMA AnsweredIsTrue ==
  ASSUME pc \in {"emit", "setMap"}, IInv, ~IsCli,
         NEW rest \in Seq({Answer(Failure("callback", "none"))[1]}),
         Len(rest) = (IF "callback" \in faults' THEN 1 ELSE 0),
         answers' = Answer(result) \o rest, pc' = "done",
         asset' = IF request.caller = "parcel"
                  THEN Asset("both", result.code, result.hasMap, result.map) ELSE AsGiven,
         UNCHANGED <<request, unread, command, input, result, files, stdout, exit>>
  PROVE  IInv'
<1>1. /\ TypesInv /\ PhaseInv /\ Asked /\ Composed
      /\ files = Before /\ stdout = <<>> /\ exit = "none"
  BY DEF IInv, PhaseInv
<1>2. /\ ~IsCli' /\ ~IsSkipped' /\ (HostWantsMap' <=> WantsMap) /\ Traced(result.map)
  BY <1>1 DEF IsCli, IsSkipped, Asked, HostWantsMap, Composed
<1>3. TypesInv'
  BY <1>1 DEF TypesInv, Phases
<1>4. PhaseInv'
  BY <1>1, <1>2 DEF PhaseInv
<1>5. ExitStatusTrue'
  BY <1>1 DEF ExitStatusTrue, HelpText
<1> DEFINE first == [what |-> "none", place |-> "none", code |-> result.code,
                     hasMap |-> result.hasMap, map |-> result.map]
<1>6. answers' = <<first>> \o rest
  BY <1>1, AnswerOfResult
<1>7. first.what = "none" /\ first.place = "none" /\ (first.hasMap <=> WantsMap)
      /\ first.code = result.code /\ first.hasMap = result.hasMap /\ first.map = result.map
      /\ result.ok
  BY <1>1 DEF Composed, Whole
<1>8. answers'[1] = first /\ Len(answers') = 1 + Len(rest)
  <2> HIDE DEF first
  <2>. QED  BY <1>6
<1> HIDE DEF first
<1>9. Traced(answers[1].map)'
  BY <1>2, <1>7, <1>8 DEF Traced
<1>10. AnswerTrue'
  BY <1>2, <1>7, <1>8, <1>9 DEF AnswerTrue
<1>. QED  BY <1>3, <1>4, <1>5, <1>10 DEF IInv

LEMMA AnswerHostKeeps == IInv /\ AnswerHost => IInv'
<1> SUFFICES ASSUME IInv, AnswerHost PROVE IInv'
  OBVIOUS
<1>1. /\ pc = "emit" /\ ~IsCli /\ Clean /\ Composed
  BY DEF IInv, PhaseInv, AnswerHost
<1>2. /\ UNCHANGED <<request, unread, command, input, result, asset, faults, files, stdout, exit>>
      /\ pc' = "done" /\ answers' = answers \o Answer(result)
      /\ request.caller # "parcel"
  BY DEF AnswerHost
<1>3. answers' = Answer(result) \o <<>>
  BY <1>1, <1>2, AnswerOfResult DEF Clean
<1>4. "callback" \notin faults' /\ asset' = AsGiven
  BY <1>1, <1>2 DEF Clean
<1>5. \A S : <<>> \in Seq(S) /\ Len(<<>>) = 0
  OBVIOUS
<1>. QED  BY <1>1, <1>2, <1>3, <1>4, <1>5, AnsweredIsTrue

(* Parcel's asset: the code, then the map.                                 *)
LEMMA SetCodeKeeps == IInv /\ SetCode => IInv'
<1> SUFFICES ASSUME IInv, SetCode PROVE IInv'
  OBVIOUS
<1>1. /\ pc = "emit" /\ request.caller = "parcel" /\ ~IsCli
      /\ Clean /\ TypesInv /\ PhaseInv /\ Asked /\ Composed
  BY DEF IInv, PhaseInv, SetCode, IsCli
<1>2. /\ UNCHANGED <<request, unread, command, input, result, faults, files, stdout, exit, answers>>
      /\ pc' = "setMap" /\ asset' = Asset("code", result.code, FALSE, <<>>)
  BY DEF SetCode
<1>3. /\ ~IsCli' /\ Asked' /\ Composed'
  BY <1>1, <1>2 DEF IsCli, Asked, Composed, Whole, MapPlaces, Traced, WantsMap, HostWantsMap,
                    IsSkipped, Options
<1>4. TypesInv'
  BY <1>1, <1>2 DEF TypesInv, Phases
<1>5. CodeIsSet'
  BY <1>1, <1>2 DEF CodeIsSet, Clean
<1>6. PhaseInv'
  BY <1>1, <1>2, <1>3, <1>5 DEF PhaseInv
<1>7. ExitStatusTrue'
  BY <1>1, <1>2 DEF ExitStatusTrue, Clean, HelpText
<1>8. AnswerTrue'
  BY <1>1, <1>2 DEF AnswerTrue, Composed, Whole
<1>. QED  BY <1>4, <1>6, <1>7, <1>8 DEF IInv

LEMMA SetMapKeeps == IInv /\ SetMap => IInv'
<1> SUFFICES ASSUME IInv, SetMap PROVE IInv'
  OBVIOUS
<1>1. /\ pc = "setMap" /\ ~IsCli /\ CodeIsSet /\ Composed
  BY DEF IInv, PhaseInv, SetMap, CodeIsSet, IsCli
<1>2. /\ UNCHANGED <<request, unread, command, input, result, faults, files, stdout, exit>>
      /\ pc' = "done" /\ answers' = answers \o Answer(result)
      /\ asset' = [asset EXCEPT !.set = "both", !.hasMap = result.hasMap, !.map = result.map]
  BY DEF SetMap
<1>3. answers' = Answer(result) \o <<>>
  BY <1>1, <1>2, AnswerOfResult DEF CodeIsSet
<1>4. /\ request.caller = "parcel" /\ "callback" \notin faults'
      /\ asset' = Asset("both", result.code, result.hasMap, result.map)
  BY <1>1, <1>2 DEF CodeIsSet, Asset
<1>5. \A S : <<>> \in Seq(S) /\ Len(<<>>) = 0
  OBVIOUS
<1>. QED  BY <1>1, <1>2, <1>3, <1>4, <1>5, AnsweredIsTrue

LEMMA SetMapFailsKeeps == IInv /\ SetMapFails => IInv'
<1> SUFFICES ASSUME IInv, SetMapFails PROVE IInv'
  OBVIOUS
<1>1. /\ pc = "setMap" /\ ~IsCli /\ ~IsSkipped /\ CodeIsSet /\ result.ok
      /\ TypesInv /\ PhaseInv /\ files = Before /\ stdout = <<>> /\ exit = "none"
  BY DEF IInv, PhaseInv, SetMapFails, CodeIsSet, Composed, Whole, IsCli, IsSkipped
<1>2. /\ UNCHANGED <<request, unread, command, input, result, asset, files, stdout>>
      /\ faults' = faults \cup {"setMap"} /\ Fail(Failure("setMap", "none"))
  BY DEF SetMapFails
<1>3. /\ pc' = "done" /\ exit' = exit
      /\ answers' = <<[what |-> "setMap", place |-> "none", code |-> <<>>,
                        hasMap |-> FALSE, map |-> <<>>]>>
  BY <1>1, <1>2 DEF Fail, Answer, Failure, CodeIsSet
<1>4. ~IsCli' /\ ~IsSkipped' /\ "callback" \notin faults'
  BY <1>1, <1>2 DEF IsCli, IsSkipped, CodeIsSet
<1>5. Len(answers') = 1 /\ answers'[1].what = "setMap" /\ answers'[1].place = "none"
  BY <1>3
<1>6. TypesInv'
  BY <1>1, <1>2, <1>3 DEF TypesInv, Phases
<1>7. PhaseInv'
  BY <1>1, <1>2, <1>3, <1>4 DEF PhaseInv
<1>8. ExitStatusTrue'
  BY <1>1, <1>2, <1>3 DEF ExitStatusTrue, HelpText
<1>9. AnswerTrue'
  BY <1>1, <1>2, <1>4, <1>5 DEF AnswerTrue, CodeIsSet
<1>. QED  BY <1>6, <1>7, <1>8, <1>9 DEF IInv

LEMMA CallbackThrowsKeeps == IInv /\ CallbackThrows => IInv'
<1> SUFFICES ASSUME IInv, CallbackThrows PROVE IInv'
  OBVIOUS
<1>1. /\ pc = "emit" /\ ~IsCli /\ Clean /\ Composed /\ request.caller # "parcel"
  BY DEF IInv, PhaseInv, CallbackThrows, IsCli
<1>2. /\ UNCHANGED <<request, unread, command, input, result, asset, files, stdout, exit>>
      /\ pc' = "done" /\ "callback" \in faults'
      /\ answers' = answers \o Answer(result) \o Answer(Failure("callback", "none"))
  BY DEF CallbackThrows
<1> DEFINE rest == Answer(Failure("callback", "none"))
<1>3. rest \in Seq({rest[1]}) /\ Len(rest) = 1
  BY DEF Answer, Failure
<1>4. answers' = Answer(result) \o rest
  BY <1>1, <1>2, AnswerOfResult DEF Clean
<1>5. asset' = AsGiven
  BY <1>1, <1>2 DEF Clean
<1>. QED  BY <1>1, <1>2, <1>3, <1>4, <1>5, AnsweredIsTrue

LEMMA StutterKeeps == IInv /\ UNCHANGED vars => IInv'
  BY UnchangedKeeps DEF vars

-----------------------------------------------------------------------------
(* For any requests, with any faults, IInv is an invariant.                *)
THEOREM Invariance == Spec => []IInv
<1>1. Init => IInv
  BY InitIsTrue
<1>2. IInv /\ [Next]_vars => IInv'
  <2> SUFFICES ASSUME IInv, [Next]_vars PROVE IInv'
    OBVIOUS
  <2>1. ASSUME NEW source \in Sources, ReadFile(source) \/ ReadFails(source) PROVE IInv'
    BY <2>1, ReadFileKeeps, ReadFailsKeeps
  <2>. QED  BY <2>1, ReadArgumentKeeps, ExecuteCommandKeeps, SkipModuleKeeps, StartAdapterKeeps,
               LoaderImportFailsKeeps, OptionsThrowKeeps, LoadNativeBindingKeeps, NativeTransformKeeps,
               ComposeMapKeeps, WriteCodeKeeps, WriteMapKeeps, WriteFailsKeeps,
               AnswerHostKeeps, SetCodeKeeps, SetMapKeeps, SetMapFailsKeeps, CallbackThrowsKeeps, StutterKeeps DEF Next, Done
<1>. QED  BY <1>1, <1>2, PTL DEF Spec

(* The exit status of the command line agrees with what has been written,  *)
(* whatever fails and when: with status 0 the code and the map are where   *)
(* they were asked for, with status 1 nothing is, unless a write failed.   *)
(* (run.ts, args.ts)                                                       *)
THEOREM ExitStatus == Spec => []ExitStatusTrue
<1>1. IInv => ExitStatusTrue
  BY DEF IInv
<1>. QED  BY <1>1, Invariance, PTL

(* An adapter answers its host once, with a map exactly when the host      *)
(* composes maps, which leads back to the original, and with a failure     *)
(* only when no attempt would have gone through.  (the adapters, index.ts, *)
(* mergeSourceMaps.ts, transform.rs)                                       *)
THEOREM Answers == Spec => []AnswerTrue
<1>1. IInv => AnswerTrue
  BY DEF IInv
<1>. QED  BY <1>1, Invariance, PTL
=============================================================================
