--------------------------- MODULE TransformCallers ---------------------------
(* A transform request as its callers see it: the command line with the     *)
(* files it reads and writes, and the bundler adapters with what they       *)
(* answer their host.  Any read, any write, the load of the native module   *)
(* and the host's callback can fail.                                        *)
EXTENDS TransformRequest

CONSTANT
    Requests    \* the requests a behaviour may start with

Adapters == {"webpack", "parcel", "esbuild", "rollup", "vite"}

\* Options as they are given: every option, with any value.
IsRaw(raw) == raw = [name \in DOMAIN Unset |-> raw[name]]

\* A host says yes, no or nothing of maps, and an input map has places of the
\* text that come from the original or from nowhere.
ASSUME RequestsAssumption ==
    \A r \in Requests :
        /\ r.caller \in Adapters \cup {"cli"}
        /\ IsRaw(r.raw)
        /\ r.context \in Booleans \cup {"unset"}
        /\ r.program.text \in Seq(STRING)
        /\ DOMAIN r.inputMap \subseteq DOMAIN r.program.text
        /\ \A at \in DOMAIN r.inputMap : r.inputMap[at].source \in {"original", "none"}

VARIABLES
    request,    \* the request under way
    pc,         \* what is to be done next
    unread,     \* the arguments that are not yet read
    command,    \* the ParseState of the command line
    input,      \* the argument of transform, once it is known
    got,        \* which reads have come back
    result,     \* what the native module, then transform, returned
    binding,    \* "missing", "installed", or "cached" in cachedBinding
    asset,      \* what the transformer has set of Parcel's asset
    faults,     \* which operations of the outside failed
    files,      \* contents by path
    stdout,     \* what was written to it
    exit,       \* the exit status, "none" while running
    answers     \* what an adapter answered, one record for each call

vars == <<request, pc, unread, command, input, got, result, binding, asset,
          faults, files, stdout, exit, answers>>

(***************************************************************************)
(* Files: the source, an input map, the code with the path its last line    *)
(* names as map, a map.                                                     *)
(***************************************************************************)
File(kind, code, url, map) == [kind |-> kind, code |-> code, url |-> url, map |-> map]
Absent == File("absent", <<>>, "none", <<>>)
Partial == File("partial", <<>>, "none", <<>>)

Paths == {"a.js", "b.js", "a.js.map", "b.js.map", "c.map", "in.map",
          "other", "other.map"}
Resolve(arg) == IF arg \in Paths THEN arg ELSE "other"
DefaultSourceMapFile(path) ==
    CASE path = "a.js" -> "a.js.map"
      [] path = "b.js" -> "b.js.map"
      [] OTHER -> "other.map"
Before == [path \in Paths |->
            IF path \in {"a.js", "in.map"} THEN File("given", <<>>, "none", <<>>)
            ELSE Absent]

\* Parcel's asset has what its host gave it, then the new code, then both.
Asset(set, code, hasMap, map) == [set |-> set, code |-> code, hasMap |-> hasMap, map |-> map]
AsGiven == Asset("nothing", <<>>, FALSE, <<>>)

\* What is read before the transform: files, and the map and code of the asset.
Sources == Paths \cup {"asset map", "asset code"}

(***************************************************************************)
(* args.ts                                                                  *)
(***************************************************************************)
BooleanFlags == {"--comments", "--source-map", "--no-source-map"}
ValueFlags == {"--dialect", "--format", "--input-source-map", "--out-file",
               "--react-runtime-target", "--source-map-file"}
Flags == BooleanFlags \cup ValueFlags \cup {"-h", "--help", "--bogus"}

HelpText == <<[symbol |-> "help", at |-> 0]>>

\* ParseState, with stop "no" while arguments are read, then "help" or "error".
CreateParseState ==
    [stop |-> "no", inputFile |-> "none", outputFile |-> "none",
     inputSourceMapFile |-> "none", sourceMapFile |-> "none", raw |-> Unset]

Refuse(cmd) == [cmd EXCEPT !.stop = "error"]

BooleanFlag(cmd, flag) ==
    CASE flag = "--comments" -> [cmd EXCEPT !.raw.comments = "true"]
      [] flag = "--source-map" -> [cmd EXCEPT !.raw.sourcemap = "true"]
      [] flag = "--no-source-map" -> [cmd EXCEPT !.raw.sourcemap = "false"]

ValueFlag(cmd, flag, value) ==
    CASE flag = "--dialect" -> [cmd EXCEPT !.raw.dialect = value]
      [] flag = "--format" -> [cmd EXCEPT !.raw.format = value]
      [] flag = "--react-runtime-target" -> [cmd EXCEPT !.raw.reactRuntimeTarget = value]
      [] flag = "--out-file" -> [cmd EXCEPT !.outputFile = Resolve(value)]
      [] flag = "--input-source-map" -> [cmd EXCEPT !.inputSourceMapFile = Resolve(value)]
      [] flag = "--source-map-file" -> [cmd EXCEPT !.sourceMapFile = Resolve(value)]

\* An argument that takes no value.
NextArgument(cmd, arg) ==
    CASE arg = "" -> cmd
      [] arg \in {"-h", "--help"} -> [cmd EXCEPT !.stop = "help"]
      [] arg \in BooleanFlags -> BooleanFlag(cmd, arg)
      [] arg \notin Flags \cup {""} /\ cmd.inputFile = "none" ->
            [cmd EXCEPT !.inputFile = Resolve(arg)]
      [] OTHER -> Refuse(cmd)

FinalCommand(cmd) ==
    IF cmd.stop = "no" /\ cmd.inputFile = "none" THEN Refuse(cmd) ELSE cmd

(***************************************************************************)
(* run.ts: prepareCommand up to the reads                                   *)
(***************************************************************************)
ResolvedRawOptions(cmd) ==
    IF cmd.raw.sourcemap # "unset" THEN cmd.raw
    ELSE [cmd.raw EXCEPT !.sourcemap =
            IF cmd.sourceMapFile # "none" THEN "true" ELSE "false"]

ResolvedSourceMapFile(cmd, sourcemap) ==
    CASE sourcemap = "false" -> "none"
      [] sourcemap = "true" /\ cmd.sourceMapFile # "none" -> cmd.sourceMapFile
      [] sourcemap = "true" /\ cmd.sourceMapFile = "none" ->
            IF cmd.outputFile = "none" THEN "none"
            ELSE DefaultSourceMapFile(cmd.outputFile)

CommandValid(cmd) ==
    LET raw == ResolvedRawOptions(cmd)
        sourcemap == raw.sourcemap
    IN  /\ cmd.stop = "no"
        /\ OptionsValid(raw)
        /\ sourcemap = "false" => cmd.sourceMapFile = "none"
        /\ sourcemap = "true" => ResolvedSourceMapFile(cmd, sourcemap) # "none"

\* What transform is called with.  reads is what is to be read before.
Input(raw, reads, outputFile, sourceMapFile, inputMap) ==
    [raw |-> raw, reads |-> reads, outputFile |-> outputFile,
     sourceMapFile |-> sourceMapFile, inputMap |-> inputMap]
NoInput == Input(Unset, {}, "none", "none", <<>>)

PrepareCommand(cmd) ==
    LET raw == ResolvedRawOptions(cmd)
        HasInputMap == cmd.inputSourceMapFile # "none"
    IN  Input(raw,
              {cmd.inputFile} \cup (IF HasInputMap THEN {cmd.inputSourceMapFile} ELSE {}),
              cmd.outputFile, ResolvedSourceMapFile(cmd, raw.sourcemap),
              IF HasInputMap THEN request.inputMap ELSE <<>>)

(***************************************************************************)
(* The adapters: the option for maps and the input map they pass on         *)
(***************************************************************************)
\* resolvedSourceMapOption of webpack.ts and parcel.ts; context is what the
\* host says of maps.
HostSourceMap(raw, context) ==
    CASE raw.sourcemap \in Booleans -> raw.sourcemap
      [] raw.sourcemap \notin Booleans -> IF context = "unset" THEN "true" ELSE context

Configure(r) ==
    LET With(sourcemap, reads, inputMap) ==
            Input([r.raw EXCEPT !.sourcemap = sourcemap], reads, "none", "none", inputMap)
        host == HostSourceMap(r.raw, r.context)
    IN  CASE r.caller = "webpack" -> With(host, {}, r.inputMap)
          [] r.caller = "parcel" ->
                IF host = "true" THEN With(host, {"asset map", "asset code"}, r.inputMap)
                                 ELSE With(host, {"asset code"}, <<>>)
          [] r.caller = "esbuild" -> With("false", {"a.js"}, <<>>)
          [] r.caller \in {"rollup", "vite"} -> With("true", {}, <<>>)

(***************************************************************************)
(* The steps                                                                *)
(***************************************************************************)
Init ==
    /\ request \in Requests
    /\ pc = "start"
    /\ unread = request.args
    /\ command = CreateParseState
    /\ input = NoInput
    /\ got = {}
    /\ result = Failure("none", "none")
    /\ binding = request.binding
    /\ asset = AsGiven
    /\ faults = {}
    /\ files = Before
    /\ stdout = <<>>
    /\ exit = "none"
    /\ answers = <<>>

IsCli == request.caller = "cli"

\* A rejected promise: runCli reports it, webpack.ts calls back, the other
\* adapters reject the promise they returned.
Answer(r) == IF r.ok THEN <<[what |-> "none", place |-> "none", code |-> r.code,
                            hasMap |-> r.hasMap, map |-> r.map]>>
             ELSE <<[what |-> r.what, place |-> r.place, code |-> <<>>,
                     hasMap |-> FALSE, map |-> <<>>]>>

\* toTransformError and the catch of each caller.
Fail(failure) ==
    /\ pc' = "done"
    /\ IF IsCli THEN exit' = "1" /\ UNCHANGED answers
                ELSE answers' = answers \o Answer(failure) /\ UNCHANGED exit

\* One turn of the loop of parseCliArgs.
ReadArgument ==
    LET arg == Head(unread)
        HasValue == Len(unread) > 1 /\ unread[2] # ""
    IN  /\ pc = "start" /\ IsCli /\ unread # <<>> /\ command.stop = "no"
        /\ \/ /\ arg \notin ValueFlags
              /\ command' = NextArgument(command, arg) /\ unread' = Tail(unread)
           \/ /\ arg \in ValueFlags /\ HasValue
              /\ command' = ValueFlag(command, arg, unread[2])
              /\ unread' = Tail(Tail(unread))
           \/ /\ arg \in ValueFlags /\ ~HasValue
              /\ command' = Refuse(command) /\ unread' = Tail(unread)
        /\ UNCHANGED <<request, pc, input, got, result, binding, asset, faults,
                       files, stdout, exit, answers>>

\* runCli: help, a command that is refused, or the reads.
ExecuteCommand ==
    LET final == FinalCommand(command)
    IN  /\ pc = "start" /\ IsCli
        /\ unread = <<>> \/ command.stop # "no"
        /\ \/ /\ final.stop = "help"
              /\ stdout' = HelpText /\ exit' = "0" /\ pc' = "done"
              /\ UNCHANGED <<input, answers>>
           \/ /\ final.stop # "help" /\ ~CommandValid(final)
              /\ Fail(Failure("command", "none")) /\ UNCHANGED <<input, stdout>>
           \/ /\ final.stop # "help" /\ CommandValid(final)
              /\ input' = PrepareCommand(final) /\ pc' = "read"
              /\ UNCHANGED <<stdout, exit, answers>>
        /\ UNCHANGED <<request, unread, command, got, result, binding, asset,
                       faults, files>>

\* rollup.ts and vite.ts leave alone what is not a JavaScript module.
IsSkipped == request.caller \in {"rollup", "vite"} /\ ~request.isModule

SkipModule ==
    /\ pc = "start" /\ IsSkipped
    /\ answers' = <<[what |-> "skipped", place |-> "none", code |-> <<>>,
                     hasMap |-> FALSE, map |-> <<>>]>>
    /\ pc' = "done"
    /\ UNCHANGED <<request, unread, command, input, got, result, binding, asset,
                   faults, files, stdout, exit>>

StartAdapter ==
    /\ pc = "start" /\ ~IsCli /\ ~IsSkipped
    /\ input' = Configure(request)
    /\ pc' = "read"
    /\ UNCHANGED <<request, unread, command, got, result, binding, asset,
                   faults, files, stdout, exit, answers>>

\* webpack.cts: the import of the loader itself may fail.
LoaderImportFails ==
    /\ pc = "start" /\ request.caller = "webpack"
    /\ faults' = faults \cup {"import"}
    /\ Fail(Failure("import", "none"))
    /\ UNCHANGED <<request, unread, command, input, got, result, binding, asset,
                   files, stdout>>

\* webpack.ts asks its host for the options, which may throw; the loader of
\* webpack.cts or webpack's own loader runner calls back then.
OptionsThrow ==
    /\ pc = "start" /\ request.caller = "webpack"
    /\ faults' = faults \cup {"options"}
    /\ Fail(Failure("options", "none"))
    /\ UNCHANGED <<request, unread, command, input, got, result, binding, asset,
                   files, stdout>>

\* Promise.all of prepareCommand reads in any order, parcel.ts awaits the map
\* of the asset before its code.
Reading(source) ==
    /\ pc = "read" /\ source \in input.reads \ got
    /\ source = "asset code" => "asset map" \notin input.reads \ got

ReadFile(source) ==
    /\ Reading(source)
    /\ source \in Paths => files[source].kind # "absent"
    /\ got' = got \cup {source}
    /\ UNCHANGED <<request, pc, unread, command, input, result, binding, asset,
                   faults, files, stdout, exit, answers>>

\* A file that is not there or cannot be read, a map that is not JSON, an
\* asset that rejects.
ReadFails(source) ==
    /\ Reading(source)
    /\ faults' = faults \cup {"read"}
    /\ Fail(Failure("read", "none"))
    /\ UNCHANGED <<request, unread, command, input, got, result, binding, asset,
                   files, stdout>>

\* transform up to the call: parseOptions, then loadNativeBinding.
LoadNativeBinding ==
    /\ pc = "read" /\ input.reads \subseteq got
    /\ \/ /\ ~OptionsValid(input.raw)
          /\ Fail(Failure("option", "none")) /\ UNCHANGED <<binding, faults>>
       \/ /\ OptionsValid(input.raw) /\ binding = "missing"
          /\ faults' = faults \cup {"binding"}
          /\ Fail(Failure("binding", "none")) /\ UNCHANGED binding
       \/ /\ OptionsValid(input.raw) /\ binding # "missing"
          /\ binding' = "cached" /\ pc' = "native"
          /\ UNCHANGED <<exit, answers, faults>>
    /\ UNCHANGED <<request, unread, command, input, got, result, asset, files,
                   stdout>>

\* The binding's transform and normalizeResponse.
NativeTransform ==
    /\ pc = "native"
    /\ \E response \in {Transform(request.program, Filled(input.raw))} :
          /\ IF response.ok THEN pc' = "map" /\ UNCHANGED <<exit, answers>>
                            ELSE Fail(response)
          /\ result' = response
    /\ UNCHANGED <<request, unread, command, input, got, binding, asset, faults,
                   files, stdout>>

\* outputMap, awaited; a map the consumer refuses makes it throw.
ComposeMap ==
    LET composed == OutputMap(result, Filled(input.raw), input.inputMap, request.program.text)
    IN  /\ pc = "map"
        /\ \/ /\ composed.ok /\ result' = composed /\ pc' = "emit"
              /\ UNCHANGED <<exit, answers, faults>>
           \/ /\ input.inputMap # <<>> /\ Filled(input.raw).sourcemap = "true"
              /\ faults' = faults \cup {"map"}
              /\ result' = Failure("map", "none") /\ Fail(Failure("map", "none"))
        /\ UNCHANGED <<request, unread, command, input, got, binding, asset, files,
                       stdout>>

(***************************************************************************)
(* emitTransformedOutput: the code first, then the map                      *)
(***************************************************************************)
\* Mutant: done once the code is written.
AfterCodeEarly == pc' = "done" /\ exit' = "0"

AfterCode == IF input.sourceMapFile # "none" /\ result.hasMap
             THEN pc' = "emitMap" /\ UNCHANGED exit
             ELSE pc' = "done" /\ exit' = "0"

WriteCode ==
    /\ pc = "emit" /\ IsCli /\ (input.sourceMapFile # "none" => result.hasMap)
    /\ IF input.outputFile = "none"
       THEN stdout' = result.code /\ UNCHANGED files
       ELSE /\ files' = [files EXCEPT ![input.outputFile] =
                            File("code", result.code, input.sourceMapFile, <<>>)]
            /\ UNCHANGED stdout
    /\ AfterCode
    /\ UNCHANGED <<request, unread, command, input, got, result, binding, asset,
                   faults, answers>>

WriteMap ==
    /\ pc = "emitMap"
    /\ files' = [files EXCEPT ![input.sourceMapFile] = File("map", <<>>, "none", result.map)]
    /\ pc' = "done" /\ exit' = "0"
    /\ UNCHANGED <<request, unread, command, input, got, result, binding, asset,
                   faults, stdout, answers>>

\* writeFile empties the file before it writes, so it can fail half way.
WriteFails ==
    LET path == IF pc = "emit" THEN input.outputFile ELSE input.sourceMapFile
    IN  /\ pc \in {"emit", "emitMap"} /\ IsCli /\ path # "none"
        /\ files' \in {files, [files EXCEPT ![path] = Partial]}
        /\ faults' = faults \cup {"write"}
        /\ Fail(Failure("write", "none"))
        /\ UNCHANGED <<request, unread, command, input, got, result, binding, asset,
                       stdout>>

(***************************************************************************)
(* The adapters hand over the result                                        *)
(***************************************************************************)
AnswerHost ==
    /\ pc = "emit" /\ ~IsCli /\ request.caller # "parcel"
    /\ answers' = answers \o Answer(result)
    /\ pc' = "done"
    /\ UNCHANGED <<request, unread, command, input, got, result, binding, asset,
                   faults, files, stdout, exit>>

\* parcel.ts sets the code of the asset before it builds the map, which may
\* throw; the asset then has the new code and the map of the old.
SetCode ==
    /\ pc = "emit" /\ request.caller = "parcel"
    /\ asset' = Asset("code", result.code, FALSE, <<>>)
    /\ pc' = "setMap"
    /\ UNCHANGED <<request, unread, command, input, got, result, binding, faults,
                   files, stdout, exit, answers>>

SetMap ==
    /\ pc = "setMap"
    /\ asset' = [asset EXCEPT !.set = "both", !.hasMap = result.hasMap, !.map = result.map]
    /\ answers' = answers \o Answer(result)
    /\ pc' = "done"
    /\ UNCHANGED <<request, unread, command, input, got, result, binding, faults,
                   files, stdout, exit>>

SetMapFails ==
    /\ pc = "setMap" /\ result.hasMap
    /\ faults' = faults \cup {"setMap"}
    /\ Fail(Failure("setMap", "none"))
    /\ UNCHANGED <<request, unread, command, input, got, result, binding, asset,
                   files, stdout>>

\* webpack.ts calls back within then, before its catch: when the callback
\* throws, it is called again with the error.
CallbackThrows ==
    /\ pc = "emit" /\ request.caller = "webpack"
    /\ faults' = faults \cup {"callback"}
    /\ answers' = answers \o Answer(result) \o Answer(Failure("callback", "none"))
    /\ pc' = "done"
    /\ UNCHANGED <<request, unread, command, input, got, result, binding, asset,
                   files, stdout, exit>>

Done == pc = "done" /\ UNCHANGED vars

Next ==
    \/ ReadArgument \/ ExecuteCommand \/ SkipModule \/ StartAdapter
    \/ LoaderImportFails \/ OptionsThrow
    \/ \E source \in Sources : ReadFile(source) \/ ReadFails(source)
    \/ LoadNativeBinding \/ NativeTransform \/ ComposeMap
    \/ WriteCode \/ WriteMap \/ WriteFails
    \/ AnswerHost \/ SetCode \/ SetMap \/ SetMapFails \/ CallbackThrows
    \/ Done

Spec == Init /\ [][Next]_vars

(***************************************************************************)
(* Properties                                                               *)
(***************************************************************************)
Options == Filled(input.raw)
WantsMap == Options.sourcemap = "true"
Text == request.program.text

\* What a map may say: the original's place where the input map has it.
Traced(map) ==
    \A at \in DOMAIN map :
        /\ (/\ input.inputMap # <<>>
            /\ at \in DOMAIN request.inputMap
            /\ request.inputMap[at].source # "none")  =>  map[at] = request.inputMap[at]
        /\ map[at].source = "file" => map[at].at = at

\* The exit status of the command line tells the truth.  With status 0 the
\* code is where it was asked for, whole, and names a map exactly when one
\* was asked for, which is then in that file, maps each node that is printed and
\* leads back to the original - unless one file was named for both.  With
\* status 1, unless a write itself failed, nothing was written anywhere.  At
\* no time is a file touched before the transform has succeeded.  (run.ts)
ExitStatusTrue ==
    LET written == {path \in Paths : files[path] # Before[path]}
        asked == {input.outputFile, input.sourceMapFile} \ {"none"}
    IN  /\ written # {} \/ stdout \notin {<<>>, HelpText} => result.ok
        /\ written \subseteq asked
        /\ exit = "0" /\ stdout # HelpText =>
              /\ written = asked
              /\ (WantsMap <=> input.sourceMapFile # "none")
              /\ input.outputFile = "none" => stdout = result.code
              /\ input.outputFile \notin {"none", input.sourceMapFile} =>
                    files[input.outputFile] =
                        File("code", result.code, input.sourceMapFile, <<>>)
              /\ WantsMap => LET file == files[input.sourceMapFile]
                             IN  /\ file.kind = "map"
                                 /\ DOMAIN file.map =
                                      MappedAt(request.program, result.code, Options)
                                 /\ Traced(file.map)
        /\ exit = "1" /\ "write" \notin faults => written = {} /\ stdout = <<>>

\* What each adapter does about maps, as the hosts are told.
HostWantsMap ==
    CASE request.caller = "esbuild" -> FALSE
      [] request.caller \in {"rollup", "vite"} -> TRUE
      [] OTHER -> \/ request.raw.sourcemap = "true"
                  \/ request.raw.sourcemap # "false" /\ request.context # "false"

\* An adapter answers its host once - only a callback that throws is called
\* again -, with a map exactly when the host composes maps, which leads back
\* to the original if the host had a map; and when the answer is an error with
\* a place, it is the place that the dialect asked for complains of, and no
\* dialect that flow-detect stands for would have gone through.  Parcel's
\* asset is touched only once the transform has succeeded, and when all is
\* well it has the code together with its map.  (the adapters, index.ts,
\* transform.rs)
AnswerTrue ==
    /\ asset # AsGiven => request.caller = "parcel" /\ result.ok
    /\ ~IsCli /\ pc = "done" =>
        LET answer == answers[1]
        IN  /\ Len(answers) = IF "callback" \in faults THEN 2 ELSE 1
            /\ answer.what = "none" =>
                  (answer.hasMap <=> HostWantsMap) /\ Traced(answer.map)
            /\ answer.what = "none" /\ request.caller = "parcel" =>
                  asset = Asset("both", answer.code, answer.hasMap, answer.map)
            /\ answer.place # "none" =>
                  /\ answer.place = Options.dialect
                  /\ Options.dialect = "flow-detect" =>
                        ~Attempt(request.program, "flow", Options).ok
            /\ answer.what = "skipped" <=> IsSkipped
            /\ answer.what \in {"syntax", "convert", "unsupported", "misaligned"} =>
                  ~result.ok
=============================================================================
