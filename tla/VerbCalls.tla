------------------------------ MODULE VerbCalls ------------------------------
(***************************************************************************)
(* `uncad` processes answering calls over one file system: what a verb, or *)
(* the plain command, does to files, and what it answers, when every read  *)
(* decodes the file it is given.  Nothing is kept between calls here: this *)
(* is the contract of verbs.rs ("holds no state an answer depends on"),    *)
(* and VerbServer, where servers keep models, is shown to implement it.    *)
(*                                                                         *)
(* A process runs one call at a time (an MCP server runs its calls on a    *)
(* single thread without an await in between); processes interleave with   *)
(* each other and with whoever else replaces or removes files.             *)
(***************************************************************************)
EXTENDS Naturals, Sequences

CONSTANTS
  Process,      \* running `uncad` processes: servers, or one-shot commands one after another
  Server,       \* those among them that serve MCP
  Call,         \* the calls made
  NoCall,       \* what a process that never ran has in place of a call
  Path,         \* the paths calls name
  NoPath,       \* no path
  Ext,          \* a path's extension: [Path -> {"json", "dxf", "dwg", "svg", "png"}]
  Disk,         \* the file systems a behaviour may start from
  Bytes,        \* whole contents of files
  Change,       \* what others do to files: a path, and what they put there
  Model,        \* drawing models
  Undecodable,  \* what decoding contents that are no drawing gives
  Decode,       \* the decoder: [Reading \X Contents -> Model \cup {Undecodable}]
  Arg,          \* what edits and pictures are asked for
  Refused,      \* an edit or a picture that cannot be made as asked
  Edited,       \* iron-hand-cad: [Arg \X Model -> Model \cup {Refused}]
  ToJson,       \* a model's JSON: [Model -> Bytes]
  Picture       \* iron-render-cad: [Arg \X Model \X Model -> Bytes \cup {Refused}]

(* What a path may hold beside bytes some writer finished writing.         *)
CONSTANTS Absent, Directory, Empty, Torn

Reading == {"json", "dwg", "dxf"}
Verb == {"summarize", "diff", "set", "redline", "balloon", "plain"}
Contents == Bytes \cup {Empty, Torn}
Place == Contents \cup {Absent, Directory}

(* `summarize` stands for the four verbs that ask one drawing a question.  *)
(* `fits`: the arguments pass `Verb::check` (the plain command: its option *)
(* check); `listed`: a balloon list passes `balloon_list`.                 *)
CallType ==
  [verb : Verb, inputs : {<<a>> : a \in Path} \cup {<<a, b>> : a, b \in Path},
   output : Path \cup {NoPath}, arg : Arg, fits : BOOLEAN, listed : BOOLEAN]

(* A write that stops early leaves no model JSON: `{` is closed last.      *)
ASSUME VerbCallsAssumption ==
  /\ Server \subseteq Process
  /\ NoPath \notin Path /\ NoCall \notin Call
  /\ Call \subseteq CallType
  /\ Ext \in [Path -> {"json", "dxf", "dwg", "svg", "png"}]
  /\ Disk \subseteq [Path -> Bytes \cup {Absent, Directory}]
  /\ Change \subseteq [path : Path, place : Bytes \cup {Absent, Directory}]
  /\ Undecodable \notin Model /\ Refused \notin Model \cup Bytes
  /\ {Absent, Directory, Empty, Torn} \cap Bytes = {}
  /\ Absent \notin {Directory, Empty, Torn} /\ Directory \notin {Empty, Torn}
  /\ Decode \in [Reading \X Contents -> Model \cup {Undecodable}]
  /\ \A r \in Reading : Decode[<<r, Empty>>] = Undecodable
  /\ Decode[<<"json", Torn>>] = Undecodable
  /\ Edited \in [Arg \X Model -> Model \cup {Refused}]
  /\ ToJson \in [Model -> Bytes]
  /\ \A m \in Model : Decode[<<"json", ToJson[m]>>] = m
  /\ Picture \in [Arg \X Model \X Model -> Bytes \cup {Refused}]

VARIABLES
  files,   \* what each path holds
  pc,      \* where each process's call is
  call,    \* the call it runs, or ran last
  bytes,   \* the file it read last
  models,  \* the models it has for this call, in the order of the inputs
  open,    \* whether the file it opened for writing is the one at its output path
  reply    \* what it answered last

callVars == <<files, pc, call, bytes, models, open, reply>>

NoReply == [verdict |-> "none", models |-> <<>>]
Error == [verdict |-> "error", models |-> <<>>]
Ok(ms) == [verdict |-> "ok", models |-> ms]

-----------------------------------------------------------------------------
(* `is_model_json`, then `Format::from_path`: all but .dxf is a DWG.       *)
ReadingOf(path) ==
  IF Ext[path] \in {"json", "dxf"} THEN Ext[path] ELSE "dwg"

(* The extensions a call may write: `set` model JSON, `redline` a picture, *)
(* `balloon` SVG only, the plain command any of the three.                 *)
Writes(c) ==
  CASE c.verb = "set" -> {"json"}
    [] c.verb = "redline" -> {"svg", "png"}
    [] c.verb = "balloon" -> {"svg"}
    [] c.verb = "plain" -> {"json", "svg", "png"}
    [] OTHER -> {}

CreatesFile(c) == c.verb \in {"set", "redline", "balloon"}

(* `output` is a required parameter of every verb that writes.             *)
ASSUME OutputIsRequired ==
  \A c \in Call : c.fits /\ CreatesFile(c) => c.output \in Path

Overwrites(c) == c.verb = "plain" /\ c.output # NoPath

(* The models a call's answer is about: an edit's is about its result too. *)
Subject(c, ms) ==
  IF c.verb = "set" THEN <<ms[1], Edited[<<c.arg, ms[1]>>]>> ELSE ms

(* The bytes a call writes, or Refused.                                    *)
Product(c, ms) ==
  IF Ext[c.output] \notin Writes(c) THEN Refused
  ELSE IF c.verb = "set"
    THEN LET m == Edited[<<c.arg, ms[1]>>] IN IF m = Refused THEN Refused ELSE ToJson[m]
  ELSE IF Ext[c.output] = "json" THEN ToJson[ms[1]]
  ELSE Picture[<<c.arg, ms[1], ms[Len(ms)]>>]

NextInput(p) == call[p].inputs[Len(models[p]) + 1]

CallInit ==
  /\ files \in Disk
  /\ pc = [p \in Process |-> "idle"]
  /\ call = [p \in Process |-> NoCall]
  /\ bytes = [p \in Process |-> Empty]
  /\ models = [p \in Process |-> <<>>]
  /\ open = [p \in Process |-> FALSE]
  /\ reply = [p \in Process |-> NoReply]

Goto(p, label) == pc' = [pc EXCEPT ![p] = label]

(* A call is answered: what it had in memory goes with it.                 *)
Answer(p, r) ==
  /\ Goto(p, "idle")
  /\ call' = [call EXCEPT ![p] = NoCall]
  /\ bytes' = [bytes EXCEPT ![p] = Empty]
  /\ models' = [models EXCEPT ![p] = <<>>]
  /\ open' = [open EXCEPT ![p] = FALSE]
  /\ reply' = [reply EXCEPT ![p] = r]

(* A call arrives.  A server runs verbs only; arguments that do not fit    *)
(* are refused before anything is touched.                                 *)
MayAsk(p, c) == pc[p] = "idle" /\ (c.verb = "plain" => p \notin Server)

Begin(p, c) ==
  /\ MayAsk(p, c) /\ c.fits
  /\ call' = [call EXCEPT ![p] = c]
  /\ Goto(p, IF CreatesFile(c) THEN "output" ELSE "read")
  /\ reply' = [reply EXCEPT ![p] = NoReply]
  /\ UNCHANGED <<files, bytes, models, open>>

RefuseArguments(p, c) ==
  /\ MayAsk(p, c) /\ ~c.fits
  /\ Answer(p, Error)
  /\ UNCHANGED files

(* The checks a writing verb makes before it reads anything.               *)
OutputFits(p) ==
  /\ Ext[call[p].output] \in Writes(call[p])
  /\ files[call[p].output] = Absent
  /\ call[p].verb = "balloon" => call[p].listed

CheckOutput(p) ==
  /\ pc[p] = "output"
  /\ IF OutputFits(p)
       THEN Goto(p, "read") /\ UNCHANGED <<call, bytes, models, open, reply>>
       ELSE Answer(p, Error)
  /\ UNCHANGED files

(* `read` takes the whole file in; the operating system may refuse to.     *)
ReadFile(p) ==
  /\ pc[p] = "read"
  /\ files[NextInput(p)] \in Contents
  /\ bytes' = [bytes EXCEPT ![p] = files[NextInput(p)]]
  /\ Goto(p, "decode")
  /\ UNCHANGED <<files, call, models, open, reply>>

ReadFails(p) ==
  /\ pc[p] = "read"
  /\ Answer(p, Error)
  /\ UNCHANGED files

Decoded(p) == Decode[<<ReadingOf(NextInput(p)), bytes[p]>>]

(* The read returns `model`: on to the call's next input, or its answer.   *)
Take(p, model) ==
  /\ models' = [models EXCEPT ![p] = Append(@, model)]
  /\ Goto(p, IF Len(models[p]) + 1 < Len(call[p].inputs) THEN "read" ELSE "answer")
  /\ UNCHANGED <<files, call, bytes, open, reply>>

(* A slip of `read`: what did not decode is handed on.                     *)
TakeAnything(p) == pc[p] = "decode" /\ Take(p, Decoded(p))

TakeModel(p) ==
  /\ pc[p] = "decode"
  /\ Decoded(p) # Undecodable
  /\ Take(p, Decoded(p))

NotADrawing(p) ==
  /\ pc[p] = "decode"
  /\ Decoded(p) = Undecodable
  /\ Answer(p, Error)
  /\ UNCHANGED files

(* With its models read, a question is answered from them and nothing is   *)
(* written; a picture or an edit is made in memory, or refused.            *)
AnswerQuestion(p) ==
  /\ pc[p] = "answer"
  /\ ~CreatesFile(call[p]) /\ ~Overwrites(call[p])
  /\ Answer(p, Ok(Subject(call[p], models[p])))
  /\ UNCHANGED files

(* A verb's question may be refused still: an end or a unit the drawing    *)
(* does not have, an answer that cannot be serialized.                     *)
QuestionFails(p) ==
  /\ pc[p] = "answer"
  /\ ~CreatesFile(call[p]) /\ call[p].verb # "plain"
  /\ Answer(p, Error)
  /\ UNCHANGED files

Make(p) ==
  /\ pc[p] = "answer"
  /\ CreatesFile(call[p]) \/ Overwrites(call[p])
  /\ IF Product(call[p], models[p]) = Refused
       THEN Answer(p, Error)
       ELSE Goto(p, "open") /\ UNCHANGED <<call, bytes, models, open, reply>>
  /\ UNCHANGED files

(* A slip of `create_new`: the file is opened to be created or truncated,  *)
(* on the strength of the check made before the drawing was read.          *)
MayCreateOver(p) == files[call[p].output] # Directory

(* `create_new`: refused, atomically, when anything is at the path.        *)
MayCreate(p) == files[call[p].output] = Absent

(* The output is there now, empty, and this process has it open.  What     *)
(* another process has open at that path is this same file, or was         *)
(* unlinked before.                                                        *)
Opened(p) ==
  /\ files' = [files EXCEPT ![call[p].output] = Empty]
  /\ open' = [open EXCEPT ![p] = TRUE]
  /\ Goto(p, "write")
  /\ UNCHANGED <<call, bytes, models, reply>>

Create(p) ==
  /\ pc[p] = "open" /\ CreatesFile(call[p])
  /\ MayCreate(p)
  /\ Opened(p)

(* The plain command's `fs::write` truncates what is there.                *)
Truncate(p) ==
  /\ pc[p] = "open" /\ Overwrites(call[p])
  /\ files[call[p].output] # Directory
  /\ Opened(p)

OpenFails(p) ==
  /\ pc[p] = "open"
  /\ Answer(p, Error)
  /\ UNCHANGED files

(* Its file, if it is still the one at the path, holds `contents` now.     *)
Leaves(p, contents) ==
  files' = IF open[p] THEN [files EXCEPT ![call[p].output] = contents] ELSE files

(* What a finished `write_all` leaves: the bytes, in a file that was still *)
(* empty; possibly a mixture, over what another writer put in it.          *)
Outcomes(p) ==
  {Product(call[p], models[p])} \cup
  (IF files[call[p].output] = Empty THEN {} ELSE {Torn})

(* A slip of the write: one `write` call, taken to have written it all.    *)
ShortOutcomes(p) == Outcomes(p) \cup {Torn}

WriteOutcomes(p) == Outcomes(p)

Write(p) ==
  /\ pc[p] = "write"
  /\ \E contents \in WriteOutcomes(p) : Leaves(p, contents)
  /\ Answer(p, Ok(Subject(call[p], models[p])))

(* The write fails part way -- or the answer cannot be serialized after    *)
(* it.  What was written so far stays at the path.                         *)
StoppedOutcomes(p) == {files[call[p].output], Torn} \cup Outcomes(p)

WriteFails(p) ==
  /\ pc[p] = "write"
  /\ \E contents \in StoppedOutcomes(p) : Leaves(p, contents)
  /\ Answer(p, Error)

(* The process is killed, in the middle of a write or not; the next call   *)
(* is to a process started anew.                                           *)
Crash(p) ==
  /\ IF pc[p] = "write"
       THEN \E contents \in StoppedOutcomes(p) : Leaves(p, contents)
       ELSE UNCHANGED files
  /\ Answer(p, NoReply)

(* Someone else puts another file at a path, or removes what is there.  A  *)
(* process that has the old file open goes on writing to the old file.     *)
Replace(path, place) ==
  /\ files' = [files EXCEPT ![path] = place]
  /\ open' = [p \in Process |-> open[p] /\ call[p].output # path]
  /\ UNCHANGED <<pc, call, bytes, models, reply>>

(* All a process does but ask for models and die.                          *)
FileStep(p) ==
  \/ CheckOutput(p)
  \/ ReadFile(p) \/ ReadFails(p)
  \/ AnswerQuestion(p) \/ QuestionFails(p) \/ Make(p)
  \/ Create(p) \/ Truncate(p) \/ OpenFails(p)
  \/ Write(p) \/ WriteFails(p)

(* A step where `calls` are made, and others change files by `changes`.    *)
CallNextAmong(calls, changes) ==
  \/ \E p \in Process, c \in calls : Begin(p, c) \/ RefuseArguments(p, c)
  \/ \E p \in Process : FileStep(p) \/ TakeModel(p) \/ NotADrawing(p) \/ Crash(p)
  \/ \E change \in changes : Replace(change.path, change.place)

CallNext == CallNextAmong(Call, Change)

CallSpec == CallInit /\ [][CallNext]_callVars

-----------------------------------------------------------------------------
CallTypeOK ==
  /\ files \in [Path -> Place]
  /\ pc \in [Process -> {"idle", "output", "read", "decode", "answer", "open", "write"}]
  /\ call \in [Process -> Call \cup {NoCall}]
  /\ bytes \in [Process -> Contents]
  /\ models \in [Process -> Seq(Model)]
  /\ open \in [Process -> BOOLEAN]
  /\ reply \in [Process -> [verdict : {"none", "ok", "error"}, models : Seq(Model)]]

(* A verb never writes over a file: a step of its call changes a path only *)
(* to create what is not there, or to fill the file it created itself --   *)
(* however long ago it looked, and whatever others did since ("None writes *)
(* over an existing file, and none changes its input", verbs.rs).          *)
NeverWritesOver ==
  [][\A p \in Process : pc[p] # "idle" /\ CreatesFile(call[p]) /\ (FileStep(p) \/ Crash(p)) =>
       \A path \in Path : files'[path] # files[path] =>
         path = call[p].output /\ (files[path] = Absent \/ open[p])]_callVars

(* Where only verbs run, a file being written has one writer, and holds    *)
(* nothing yet: of two calls given the same new path, one creates it and   *)
(* the other is refused.                                                   *)
OneWriter ==
  \A p \in Process : open[p] =>
    /\ pc[p] = "write"
    /\ files[call[p].output] = Empty
    /\ \A q \in Process : open[q] /\ call[q].output = call[p].output => q = p

(* Where only verbs run, an answer from a verb that writes is given with   *)
(* the whole file in place (unless someone replaced it meanwhile), and an  *)
(* edit's file reads back as the result the answer is about, so that       *)
(* edits chain.                                                            *)
AnswersWhatIsWritten ==
  \A p \in Process :
    pc[p] = "write" /\ open[p] /\ reply'[p].verdict = "ok" =>
      LET out == call[p].output
      IN  /\ files'[out] = Product(call[p], models[p])
          /\ call[p].verb = "set" =>
               Decode[<<ReadingOf(out), files'[out]>>] = reply'[p].models[2]
=============================================================================
