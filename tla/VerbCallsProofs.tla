--------------------------- MODULE VerbCallsProofs ---------------------------
(* What calls do to files, and that an answer is about what was written,   *)
(* for every set of processes, calls, paths and drawings.  A property of   *)
(* CallSpec is one of a server that keeps models too (VerbServerProofs).   *)
EXTENDS VerbCalls, TLAPS

(* What each stage of a call has behind it.  Without it the types do not   *)
(* keep: that an edit's answer is a pair of models needs that the edit was *)
(* not refused, that a model is read for each input in turn that no stage  *)
(* is reached twice.                                                       *)
UnderWay(p) ==
  /\ pc[p] = "idle" => models[p] = <<>>
  /\ pc[p] # "idle" => call[p] \in Call /\ call[p].fits /\ reply[p] = NoReply
  /\ pc[p] = "output" => CreatesFile(call[p]) /\ models[p] = <<>>
  /\ pc[p] \in {"read", "decode"} => Len(models[p]) < Len(call[p].inputs)
  /\ pc[p] \in {"answer", "open", "write"} => Len(models[p]) = Len(call[p].inputs)
  /\ pc[p] \in {"open", "write"} =>
       /\ CreatesFile(call[p]) \/ Overwrites(call[p])
       /\ Product(call[p], models[p]) # Refused
  /\ open[p] => pc[p] = "write"

CInv == CallTypeOK /\ \A p \in Process : UnderWay(p)

Replies == [verdict : {"none", "ok", "error"}, models : Seq(Model)]

-----------------------------------------------------------------------------
LEMMA Inputs ==
  ASSUME NEW c \in Call
  PROVE  /\ Len(c.inputs) \in {1, 2}
         /\ \A i \in 1 .. Len(c.inputs) : c.inputs[i] \in Path
         /\ c.output \in Path \cup {NoPath} /\ c.arg \in Arg
         /\ c.verb \in Verb
<1>1. c \in CallType
  BY VerbCallsAssumption
<1>2. c.inputs \in {<<a>> : a \in Path} \cup {<<a, b>> : a, b \in Path}
  BY <1>1 DEF CallType
<1> QED
  BY <1>1, <1>2 DEF CallType

(* What is written is whole contents, and the path it is written to is one *)
(* the call names.                                                         *)
LEMMA ProductIsWhole ==
  ASSUME NEW c \in Call, NEW ms \in Seq(Model), Len(ms) = Len(c.inputs), c.fits,
         CreatesFile(c) \/ Overwrites(c), Product(c, ms) # Refused
  PROVE  /\ c.output \in Path
         /\ Product(c, ms) \in Bytes
         /\ Subject(c, ms) \in Seq(Model)
         /\ c.verb = "set" =>
              /\ Len(Subject(c, ms)) = 2
              /\ Decode[<<ReadingOf(c.output), Product(c, ms)>>] = Subject(c, ms)[2]
<1>1. c.output \in Path
  BY Inputs, OutputIsRequired DEF Overwrites
<1>2. Len(ms) \in {1, 2} /\ ms[1] \in Model /\ ms[Len(ms)] \in Model
  <2>1. Len(ms) \in {1, 2}
    BY Inputs
  <2> QED BY <2>1
<1>3. c.arg \in Arg /\ Ext[c.output] \in Writes(c)
  BY Inputs DEF Product
<1>4. CASE c.verb = "set"
  <2> DEFINE m == Edited[<<c.arg, ms[1]>>]
  <2>1. Product(c, ms) = (IF m = Refused THEN Refused ELSE ToJson[m]) /\ m # Refused
    BY <1>3, <1>4 DEF Product
  <2>2. m \in Model
    BY <1>2, <1>3, <2>1, VerbCallsAssumption
  <2> HIDE DEF m
  <2>3. Product(c, ms) = ToJson[m] /\ ToJson[m] \in Bytes /\ Decode[<<"json", ToJson[m]>>] = m
    BY <2>1, <2>2, VerbCallsAssumption
  <2>4. Subject(c, ms) = <<ms[1], m>>
    BY <1>4 DEF Subject, m
  <2>5. ReadingOf(c.output) = "json"
    BY <1>3, <1>4 DEF Writes, ReadingOf
  <2> QED BY <1>1, <1>2, <2>2, <2>3, <2>4, <2>5
<1>5. CASE c.verb # "set"
  <2>1. Subject(c, ms) = ms
    BY <1>5 DEF Subject
  <2>2. Product(c, ms) = IF Ext[c.output] = "json" THEN ToJson[ms[1]]
                         ELSE Picture[<<c.arg, ms[1], ms[Len(ms)]>>]
    BY <1>3, <1>5 DEF Product
  <2>3. ToJson[ms[1]] \in Bytes
    BY <1>2, VerbCallsAssumption
  <2>4. Picture[<<c.arg, ms[1], ms[Len(ms)]>>] \in Bytes \cup {Refused}
    BY <1>2, <1>3, VerbCallsAssumption
  <2> QED BY <1>1, <1>5, <2>1, <2>2, <2>3, <2>4
<1> QED
  BY <1>4, <1>5

LEMMA DecodedType ==
  ASSUME CallTypeOK, NEW p \in Process
  PROVE  Decoded(p) \in Model \cup {Undecodable}
<1>1. ReadingOf(NextInput(p)) \in Reading
  BY DEF ReadingOf, Reading
<1>2. bytes[p] \in Contents
  BY DEF CallTypeOK
<1> QED
  BY <1>1, <1>2, VerbCallsAssumption DEF Decoded

(* Only the process a step is of gets anywhere.                            *)
LEMMA OthersStay ==
  ASSUME CInv, NEW p \in Process, NEW q \in Process, q # p,
         pc'[q] = pc[q], call'[q] = call[q], models'[q] = models[q],
         open'[q] = open[q], reply'[q] = reply[q]
  PROVE  UnderWay(q)'
BY DEF CInv, UnderWay

(* Being answered leaves a process as it started, but for its answer.      *)
LEMMA AnswerKeeps ==
  ASSUME CInv, NEW p \in Process, NEW r \in Replies, Answer(p, r),
         files' \in [Path -> Place]
  PROVE  CInv'
<1>1. CallTypeOK'
  <2>1. Empty \in Contents /\ <<>> \in Seq(Model)
    BY DEF Contents
  <2>2. /\ pc' \in [Process -> {"idle", "output", "read", "decode", "answer", "open", "write"}]
        /\ call' \in [Process -> Call \cup {NoCall}]
        /\ bytes' \in [Process -> Contents]
        /\ models' \in [Process -> Seq(Model)]
        /\ open' \in [Process -> BOOLEAN]
        /\ reply' \in [Process -> Replies]
    BY <2>1 DEF CInv, CallTypeOK, Answer, Goto, Replies
  <2> QED BY <2>2 DEF CallTypeOK, Replies
<1>2. ASSUME NEW q \in Process PROVE UnderWay(q)'
  <2>1. CASE q = p
    BY <2>1 DEF CInv, CallTypeOK, Answer, Goto, UnderWay
  <2>2. CASE q # p
    BY <2>2, OthersStay DEF CInv, CallTypeOK, Answer, Goto
  <2> QED BY <2>1, <2>2
<1> QED
  BY <1>1, <1>2 DEF CInv

LEMMA RepliesType ==
  /\ Error \in Replies /\ NoReply \in Replies
  /\ \A ms \in Seq(Model) : Ok(ms) \in Replies
BY DEF Error, NoReply, Ok, Replies

(* Whatever is left by a write that ended or was stopped is contents.      *)
LEMMA OutcomesAreContents ==
  ASSUME CInv, NEW p \in Process, pc[p] = "write"
  PROVE  /\ call[p].output \in Path
         /\ Product(call[p], models[p]) \in Bytes
         /\ Subject(call[p], models[p]) \in Seq(Model)
         /\ Outcomes(p) \subseteq Contents
         /\ StoppedOutcomes(p) \subseteq Place
<1>1. /\ call[p] \in Call /\ call[p].fits /\ models[p] \in Seq(Model)
      /\ Len(models[p]) = Len(call[p].inputs)
      /\ CreatesFile(call[p]) \/ Overwrites(call[p])
      /\ Product(call[p], models[p]) # Refused
  BY DEF CInv, CallTypeOK, UnderWay
<1>2. /\ call[p].output \in Path /\ Product(call[p], models[p]) \in Bytes
      /\ Subject(call[p], models[p]) \in Seq(Model)
  BY <1>1, ProductIsWhole
<1>3. Outcomes(p) \subseteq Contents
  BY <1>2 DEF Outcomes, Contents
<1>4. files[call[p].output] \in Place
  BY <1>2 DEF CInv, CallTypeOK
<1> QED
  BY <1>2, <1>3, <1>4 DEF StoppedOutcomes, Place, Contents

LEMMA LeavesType ==
  ASSUME CInv, NEW p \in Process, NEW contents \in Place, Leaves(p, contents)
  PROVE  files' \in [Path -> Place]
BY DEF CInv, CallTypeOK, Leaves

-----------------------------------------------------------------------------
LEMMA CallInitial == CallInit => CInv
<1> SUFFICES ASSUME CallInit PROVE CInv
  OBVIOUS
<1>1. CallTypeOK
  <2>1. files \in [Path -> Place]
    <3>1. files \in [Path -> Bytes \cup {Absent, Directory}]
      BY VerbCallsAssumption DEF CallInit
    <3> QED BY <3>1 DEF Place, Contents
  <2>2. Empty \in Contents /\ NoReply \in Replies /\ <<>> \in Seq(Model)
    BY RepliesType DEF Contents
  <2> QED BY <2>1, <2>2 DEF CallInit, CallTypeOK, Replies
<1>2. \A p \in Process : UnderWay(p)
  BY DEF CallInit, UnderWay
<1> QED
  BY <1>1, <1>2 DEF CInv

LEMMA BeginKeeps ==
  ASSUME CInv, NEW p \in Process, NEW c \in Call, Begin(p, c)
  PROVE  CInv'
<1>1. Len(c.inputs) \in {1, 2}
  BY Inputs
<1>2. models[p] = <<>> /\ pc[p] = "idle" /\ ~open[p] /\ c.fits
  BY DEF Begin, MayAsk, CInv, UnderWay
<1>3. CallTypeOK'
  <2>1. NoReply \in Replies
    BY RepliesType
  <2> QED BY <2>1 DEF Begin, Goto, CInv, CallTypeOK, Replies
<1>4. UnderWay(p)'
  <2>1. /\ pc'[p] = IF CreatesFile(c) THEN "output" ELSE "read"
        /\ call'[p] = c /\ reply'[p] = NoReply /\ models'[p] = <<>> /\ ~open'[p]
    BY <1>2 DEF Begin, Goto, CInv, CallTypeOK
  <2>2. Len(models'[p]) = 0
    BY <2>1
  <2>3. (pc[p] = "output" => CreatesFile(call[p]) /\ models[p] = <<>>)'
    BY <2>1 DEF CreatesFile
  <2>4. Len(models'[p]) < Len(call'[p].inputs)
    <3>1. 0 < Len(c.inputs)
      BY <1>1
    <3>2. Len(call'[p].inputs) = Len(c.inputs)
      BY <2>1
    <3> QED BY <2>2, <3>1, <3>2, Zenon
  <2>5. pc'[p] \notin {"idle", "answer", "open", "write"}
    BY <2>1
  <2> QED BY <1>2, <2>1, <2>3, <2>4, <2>5 DEF UnderWay
<1>5. \A q \in Process \ {p} : UnderWay(q)'
  BY OthersStay DEF Begin, Goto, CInv, CallTypeOK
<1> QED
  BY <1>3, <1>4, <1>5 DEF CInv

LEMMA FileStepKeeps ==
  ASSUME CInv, NEW p \in Process, FileStep(p)
  PROVE  CInv'
<1>1. files \in [Path -> Place]
  BY DEF CInv, CallTypeOK
<1>2. CASE CheckOutput(p)
  <2>1. CASE Answer(p, Error)
    BY <1>1, <1>2, <2>1, RepliesType, AnswerKeeps DEF CheckOutput
  <2>2. CASE Goto(p, "read") /\ UNCHANGED <<call, bytes, models, open, reply>>
    <3>1. CallTypeOK'
      BY <1>2, <2>2 DEF CheckOutput, Goto, CInv, CallTypeOK
    <3>2. /\ pc[p] = "output" /\ call[p] \in Call /\ call[p].fits /\ reply[p] = NoReply
          /\ models[p] = <<>> /\ Len(models[p]) = 0 /\ ~open[p] /\ Len(call[p].inputs) \in {1, 2}
      BY <1>2, Inputs DEF CheckOutput, CInv, UnderWay
    <3>3. pc'[p] = "read" /\ UNCHANGED <<call, models, open, reply>>
      BY <2>2 DEF Goto, CInv, CallTypeOK
    <3>4. UnderWay(p)'
      <4>1. Len(models'[p]) < Len(call'[p].inputs)
        <5>1. Len(models'[p]) = 0 /\ Len(call'[p].inputs) \in {1, 2}
          BY <3>2, <3>3
        <5> QED BY <5>1
      <4>2. pc'[p] \notin {"idle", "output", "answer", "open", "write"}
        BY <3>3
      <4> QED BY <3>2, <3>3, <4>1, <4>2 DEF UnderWay
    <3>5. \A q \in Process \ {p} : UnderWay(q)'
      BY <2>2, OthersStay DEF Goto, CInv, CallTypeOK
    <3> QED BY <3>1, <3>4, <3>5 DEF CInv
  <2> QED BY <1>2, <2>1, <2>2 DEF CheckOutput
<1>3. CASE ReadFile(p)
  <2>1. CallTypeOK'
    BY <1>3 DEF ReadFile, Goto, CInv, CallTypeOK
  <2>2. UnderWay(p)'
    BY <1>3 DEF ReadFile, Goto, CInv, CallTypeOK, UnderWay
  <2>3. \A q \in Process \ {p} : UnderWay(q)'
    BY <1>3, OthersStay DEF ReadFile, Goto, CInv, CallTypeOK
  <2> QED BY <2>1, <2>2, <2>3 DEF CInv
<1>4. CASE ReadFails(p) \/ QuestionFails(p) \/ OpenFails(p)
  BY <1>1, <1>4, RepliesType, AnswerKeeps DEF ReadFails, QuestionFails, OpenFails
<1>5. CASE AnswerQuestion(p)
  <2>1. models[p] \in Seq(Model) /\ Subject(call[p], models[p]) = models[p]
    BY <1>5 DEF AnswerQuestion, Subject, CreatesFile, CInv, CallTypeOK
  <2> QED BY <1>1, <1>5, <2>1, RepliesType, AnswerKeeps DEF AnswerQuestion
<1>6. CASE Make(p)
  <2>1. CASE Answer(p, Error)
    BY <1>1, <1>6, <2>1, RepliesType, AnswerKeeps DEF Make
  <2>2. CASE /\ Product(call[p], models[p]) # Refused
             /\ Goto(p, "open") /\ UNCHANGED <<call, bytes, models, open, reply>>
    <3>1. CallTypeOK'
      BY <1>6, <2>2 DEF Make, Goto, CInv, CallTypeOK
    <3>2. UnderWay(p)'
      BY <1>6, <2>2 DEF Make, Goto, CInv, CallTypeOK, UnderWay
    <3>3. \A q \in Process \ {p} : UnderWay(q)'
      BY <2>2, OthersStay DEF Goto, CInv, CallTypeOK
    <3> QED BY <3>1, <3>2, <3>3 DEF CInv
  <2> QED BY <1>6, <2>1, <2>2 DEF Make
<1>7. CASE pc[p] = "open" /\ Opened(p)
  <2>1. CallTypeOK'
    <3>1. Empty \in Place
      BY DEF Place, Contents
    <3> QED BY <1>7, <3>1 DEF Opened, Goto, CInv, CallTypeOK
  <2>2. UnderWay(p)'
    BY <1>7 DEF Opened, Goto, CInv, CallTypeOK, UnderWay
  <2>3. \A q \in Process \ {p} : UnderWay(q)'
    BY <1>7, OthersStay DEF Opened, Goto, CInv, CallTypeOK
  <2> QED BY <2>1, <2>2, <2>3 DEF CInv
<1>8. CASE Write(p)
  <2>1. pc[p] = "write" /\ Answer(p, Ok(Subject(call[p], models[p])))
    BY <1>8 DEF Write
  <2>2. PICK contents \in Outcomes(p) : Leaves(p, contents)
    BY <1>8 DEF Write, WriteOutcomes
  <2>3. files' \in [Path -> Place]
    BY <2>1, <2>2, OutcomesAreContents, LeavesType DEF Place
  <2> QED BY <2>1, <2>3, OutcomesAreContents, RepliesType, AnswerKeeps
<1>9. CASE WriteFails(p)
  <2>1. pc[p] = "write" /\ Answer(p, Error)
    BY <1>9 DEF WriteFails
  <2>2. PICK contents \in StoppedOutcomes(p) : Leaves(p, contents)
    BY <1>9 DEF WriteFails
  <2>3. files' \in [Path -> Place]
    BY <2>1, <2>2, OutcomesAreContents, LeavesType
  <2> QED BY <2>1, <2>3, RepliesType, AnswerKeeps
<1> QED
  BY <1>2, <1>3, <1>4, <1>5, <1>6, <1>7, <1>8, <1>9 DEF FileStep, Create, Truncate

LEMMA TakeModelKeeps ==
  ASSUME CInv, NEW p \in Process, TakeModel(p)
  PROVE  CInv'
<1> DEFINE n == Len(models[p])
<1>1. Decoded(p) \in Model /\ pc[p] = "decode" /\ models[p] \in Seq(Model)
  BY DecodedType DEF TakeModel, CInv, CallTypeOK
<1>2. call[p] \in Call /\ n < Len(call[p].inputs) /\ Len(call[p].inputs) \in {1, 2}
  BY <1>1, Inputs DEF CInv, UnderWay
<1>3. Append(models[p], Decoded(p)) \in Seq(Model) /\ Len(Append(models[p], Decoded(p))) = n + 1
  BY <1>1
<1>4. /\ models' = [models EXCEPT ![p] = Append(models[p], Decoded(p))]
      /\ pc' = [pc EXCEPT ![p] = IF n + 1 < Len(call[p].inputs) THEN "read" ELSE "answer"]
      /\ UNCHANGED <<files, call, bytes, open, reply>>
  BY DEF TakeModel, Take, Goto
<1>5. CallTypeOK'
  BY <1>3, <1>4 DEF CInv, CallTypeOK
<1>6. UnderWay(p)'
  <2>1. n \in Nat
    BY <1>1
  <2> QED BY <1>1, <1>2, <1>3, <1>4, <2>1 DEF CInv, CallTypeOK, UnderWay
<1>7. \A q \in Process \ {p} : UnderWay(q)'
  BY <1>4, OthersStay DEF CInv, CallTypeOK
<1> QED
  BY <1>5, <1>6, <1>7 DEF CInv

LEMMA CrashKeeps ==
  ASSUME CInv, NEW p \in Process, Crash(p)
  PROVE  CInv'
<1>1. files' \in [Path -> Place]
  <2>1. CASE pc[p] = "write"
    <3>1. PICK contents \in StoppedOutcomes(p) : Leaves(p, contents)
      BY <2>1 DEF Crash
    <3> QED BY <2>1, <3>1, OutcomesAreContents, LeavesType
  <2>2. CASE pc[p] # "write"
    BY <2>2 DEF Crash, CInv, CallTypeOK
  <2> QED BY <2>1, <2>2
<1> QED
  BY <1>1, RepliesType, AnswerKeeps DEF Crash

LEMMA ReplaceKeeps ==
  ASSUME CInv, NEW change \in Change, Replace(change.path, change.place)
  PROVE  CInv'
<1>1. change.place \in Place
  <2>1. change \in [path : Path, place : Bytes \cup {Absent, Directory}]
    BY VerbCallsAssumption
  <2> QED BY <2>1 DEF Place, Contents
<1>2. /\ files' \in [Path -> Place]
      /\ UNCHANGED <<pc, call, bytes, models, reply>>
  BY <1>1 DEF Replace, CInv, CallTypeOK
<1>3. open' \in [Process -> BOOLEAN] /\ \A p \in Process : open'[p] => open[p]
  BY DEF Replace
<1>4. CallTypeOK'
  BY <1>2, <1>3 DEF CInv, CallTypeOK
<1>5. \A p \in Process : UnderWay(p)'
  BY <1>2, <1>3 DEF CInv, UnderWay
<1> QED
  BY <1>4, <1>5 DEF CInv

LEMMA CallInductive == CInv /\ [CallNext]_callVars => CInv'
<1> SUFFICES ASSUME CInv, [CallNext]_callVars PROVE CInv'
  OBVIOUS
<1>1. files \in [Path -> Place]
  BY DEF CInv, CallTypeOK
<1>2. ASSUME NEW p \in Process, NEW c \in Call, Begin(p, c) PROVE CInv'
  BY <1>2, BeginKeeps
<1>3. ASSUME NEW p \in Process, NEW c \in Call, RefuseArguments(p, c) PROVE CInv'
  BY <1>1, <1>3, RepliesType, AnswerKeeps DEF RefuseArguments
<1>4. ASSUME NEW p \in Process, FileStep(p) PROVE CInv'
  BY <1>4, FileStepKeeps
<1>5. ASSUME NEW p \in Process, TakeModel(p) PROVE CInv'
  BY <1>5, TakeModelKeeps
<1>6. ASSUME NEW p \in Process, NotADrawing(p) PROVE CInv'
  BY <1>1, <1>6, RepliesType, AnswerKeeps DEF NotADrawing
<1>7. ASSUME NEW p \in Process, Crash(p) PROVE CInv'
  BY <1>7, CrashKeeps
<1>8. ASSUME NEW change \in Change, Replace(change.path, change.place) PROVE CInv'
  BY <1>8, ReplaceKeeps
<1>9. CASE UNCHANGED callVars
  BY <1>9 DEF callVars, CInv, CallTypeOK, UnderWay
<1> QED
  BY <1>2, <1>3, <1>4, <1>5, <1>6, <1>7, <1>8, <1>9 DEF CallNext, CallNextAmong

(* Whatever calls are made in whatever order, by however many processes,   *)
(* with crashes, failing writes and files replaced: what a call knows and  *)
(* what is in the files stays of its type.                                 *)
THEOREM CallsAreTyped == CallSpec => []CallTypeOK
<1>1. CInv => CallTypeOK
  BY DEF CInv
<1> QED
  BY <1>1, CallInitial, CallInductive, PTL DEF CallSpec

(* A step of a verb's call touches no path but its output, and that only   *)
(* to create it or while the file there is its own.                        *)
LEMMA VerbStepsAreTheirOutputs ==
  ASSUME CInv, NEW p \in Process, CreatesFile(call[p]), FileStep(p) \/ Crash(p),
         NEW path \in Path, files'[path] # files[path]
  PROVE  path = call[p].output /\ (files[path] = Absent \/ open[p])
<1> USE DEF CInv, CallTypeOK
<1>1. CASE Create(p)
  BY <1>1 DEF Create, MayCreate, Opened
<1>2. CASE Truncate(p)
  BY <1>2 DEF Truncate, Overwrites, CreatesFile
<1>3. ASSUME NEW contents, Leaves(p, contents)
      PROVE  path = call[p].output /\ open[p]
  BY <1>3 DEF Leaves
<1>4. CASE Write(p) \/ WriteFails(p)
  BY <1>3, <1>4 DEF Write, WriteFails
<1>5. CASE Crash(p)
  BY <1>3, <1>5 DEF Crash
<1>6. CASE \/ CheckOutput(p) \/ ReadFile(p) \/ ReadFails(p)
           \/ AnswerQuestion(p) \/ QuestionFails(p) \/ Make(p) \/ OpenFails(p)
  BY <1>6 DEF CheckOutput, ReadFile, ReadFails, AnswerQuestion, QuestionFails, Make, OpenFails
<1> QED
  BY <1>1, <1>2, <1>4, <1>5, <1>6 DEF FileStep

(* No verb writes over a file that someone else put at its output path,    *)
(* and none changes any other path, its inputs among them.                 *)
THEOREM VerbsNeverWriteOver == CallSpec => NeverWritesOver
<1> DEFINE Keeps ==
      \A p \in Process : pc[p] # "idle" /\ CreatesFile(call[p]) /\ (FileStep(p) \/ Crash(p)) =>
        \A path \in Path : files'[path] # files[path] =>
          path = call[p].output /\ (files[path] = Absent \/ open[p])
<1>1. CInv => Keeps
  BY VerbStepsAreTheirOutputs
<1>2. CInv /\ [CallNext]_callVars => [Keeps]_callVars
  BY <1>1
<1>3. (CallSpec => [][Keeps]_callVars) <=> (CallSpec => NeverWritesOver)
  BY DEF NeverWritesOver
<1> HIDE DEF Keeps
<1> QED
  BY <1>2, <1>3, CallInitial, CallInductive, PTL DEF CallSpec

-----------------------------------------------------------------------------
NoPlain(calls) == \A c \in calls : c.verb # "plain"

(* Where only `calls` are made, each process is at one of them.  One       *)
(* writer per file is inductive because what is created was absent, and    *)
(* what is open is not: who has a path open is the last who created it.    *)
Asked(calls) == \A p \in Process : pc[p] # "idle" => call[p] \in calls

VInv(calls) == CInv /\ Asked(calls) /\ (NoPlain(calls) => OneWriter)

LEMMA AskedKeeps ==
  ASSUME NEW calls \in SUBSET Call, NEW changes \in SUBSET Change,
         CInv, Asked(calls), CallNextAmong(calls, changes)
  PROVE  Asked(calls)'
<1> USE DEF CInv, CallTypeOK, Asked, Goto
<1>1. ASSUME NEW p \in Process, NEW r, Answer(p, r) PROVE Asked(calls)'
  BY <1>1 DEF Answer
<1>2. ASSUME NEW p \in Process, NEW c \in calls, Begin(p, c) \/ RefuseArguments(p, c)
      PROVE  Asked(calls)'
  BY <1>1, <1>2 DEF Begin, RefuseArguments
<1>3. ASSUME NEW p \in Process, pc[p] # "idle", UNCHANGED call, NEW label, Goto(p, label)
      PROVE  Asked(calls)'
  BY <1>3
<1>4. ASSUME NEW p \in Process, FileStep(p) PROVE Asked(calls)'
  BY <1>1, <1>3, <1>4 DEF FileStep, CheckOutput, ReadFile, ReadFails, AnswerQuestion, QuestionFails,
       Make, Create, Truncate, Opened, OpenFails, Write, WriteFails
<1>5. ASSUME NEW p \in Process, TakeModel(p) \/ NotADrawing(p) \/ Crash(p) PROVE Asked(calls)'
  BY <1>1, <1>3, <1>5 DEF TakeModel, Take, NotADrawing, Crash
<1>6. ASSUME NEW change \in changes, Replace(change.path, change.place) PROVE Asked(calls)'
  BY <1>6 DEF Replace
<1> QED
  BY <1>2, <1>4, <1>5, <1>6 DEF CallNextAmong

(* A file is filled only by the process that created it.                   *)
LEMMA LeavesToOthers ==
  ASSUME CInv, OneWriter, NEW p \in Process, NEW r, Answer(p, r), NEW contents,
         UNCHANGED files \/ Leaves(p, contents)
  PROVE  OneWriter'
<1> USE DEF CInv, CallTypeOK, Goto
<1>1. ~open'[p] /\ \A q \in Process : q # p =>
        open'[q] = open[q] /\ call'[q] = call[q] /\ pc'[q] = pc[q]
  BY DEF Answer
<1>2. ASSUME NEW q \in Process, open'[q]
      PROVE  /\ pc'[q] = "write" /\ files'[call'[q].output] = Empty
             /\ \A o \in Process : open'[o] /\ call'[o].output = call'[q].output => o = q
  <2>1. q # p /\ open[q] /\ pc'[q] = "write" /\ call'[q] = call[q] /\ files[call[q].output] = Empty
    BY <1>1, <1>2 DEF OneWriter
  <2>2. files'[call[q].output] = Empty
    <3>1. open[p] => call[p].output # call[q].output
      BY <2>1 DEF OneWriter
    <3>2. call[q].output \in Path
      BY <2>1, OutcomesAreContents DEF OneWriter
    <3>3. CASE UNCHANGED files
      BY <2>1, <3>3
    <3>4. CASE Leaves(p, contents)
      BY <2>1, <3>1, <3>2, <3>4 DEF Leaves
    <3> QED BY <3>3, <3>4
  <2>3. \A o \in Process : open'[o] /\ call'[o].output = call'[q].output => o = q
    BY <1>1, <2>1 DEF OneWriter
  <2> QED BY <2>1, <2>2, <2>3
<1> QED
  BY <1>2 DEF OneWriter

LEMMA OneWriterKeeps ==
  ASSUME NEW calls \in SUBSET Call, NEW changes \in SUBSET Change,
         CInv, Asked(calls), NoPlain(calls), OneWriter, CallNextAmong(calls, changes)
  PROVE  OneWriter'
<1> USE DEF CInv, CallTypeOK, Goto
<1>1. ASSUME NEW p \in Process, NEW r, Answer(p, r), UNCHANGED files PROVE OneWriter'
  BY <1>1, LeavesToOthers
<1>2. ASSUME NEW p \in Process, NEW label, pc[p] # "write", Goto(p, label),
             UNCHANGED <<files, open>>, \A q \in Process : q # p => call'[q] = call[q]
      PROVE  OneWriter'
  <2>1. ~open'[p] /\ \A q \in Process : open'[q] => q # p /\ pc'[q] = pc[q] /\ call'[q] = call[q]
    BY <1>2 DEF OneWriter
  <2> QED BY <1>2, <2>1 DEF OneWriter
<1>3. ASSUME NEW p \in Process, NEW c \in calls, Begin(p, c) \/ RefuseArguments(p, c)
      PROVE  OneWriter'
  BY <1>1, <1>2, <1>3 DEF Begin, RefuseArguments, MayAsk
<1>4. ASSUME NEW p \in Process, Create(p) PROVE OneWriter'
  <2>1. files[call[p].output] = Absent /\ call[p].output \in Path
    BY <1>4, Inputs, OutputIsRequired DEF Create, MayCreate, UnderWay
  <2>2. /\ files' = [files EXCEPT ![call[p].output] = Empty]
        /\ UNCHANGED call /\ pc'[p] = "write"
        /\ \A q \in Process : q # p => open'[q] = open[q] /\ pc'[q] = pc[q]
    BY <1>4 DEF Create, Opened
  <2>3. \A q \in Process : q # p /\ open[q] => call[q].output # call[p].output
    BY <2>1, VerbCallsAssumption DEF OneWriter
  <2>4. \A q \in Process : open[q] => call[q].output \in Path /\ pc[q] = "write"
    BY OutcomesAreContents DEF OneWriter
  <2>5. \A q \in Process : open'[q] => files'[call'[q].output] = Empty /\ pc'[q] = "write"
    BY <2>1, <2>2, <2>3, <2>4 DEF OneWriter
  <2> QED BY <2>2, <2>3, <2>5 DEF OneWriter
<1>5. ASSUME NEW p \in Process, FileStep(p) PROVE OneWriter'
  <2>1. ~Truncate(p)
    BY DEF Truncate, Overwrites, Asked, NoPlain
  <2>2. CASE Write(p)
    BY <2>2, LeavesToOthers DEF Write
  <2>3. CASE WriteFails(p)
    BY <2>3, LeavesToOthers DEF WriteFails
  <2>4. CASE CheckOutput(p) \/ Make(p)
    BY <1>1, <1>2, <2>4 DEF CheckOutput, Make
  <2>5. CASE ReadFile(p)
    BY <1>2, <2>5 DEF ReadFile
  <2>6. CASE ReadFails(p) \/ AnswerQuestion(p) \/ QuestionFails(p) \/ OpenFails(p)
    BY <1>1, <2>6 DEF ReadFails, AnswerQuestion, QuestionFails, OpenFails
  <2> QED BY <1>4, <1>5, <2>1, <2>2, <2>3, <2>4, <2>5, <2>6 DEF FileStep
<1>6. ASSUME NEW p \in Process, TakeModel(p) \/ NotADrawing(p) PROVE OneWriter'
  BY <1>1, <1>2, <1>6 DEF TakeModel, Take, NotADrawing
<1>7. ASSUME NEW p \in Process, Crash(p) PROVE OneWriter'
  BY <1>1, <1>7, LeavesToOthers DEF Crash
<1>8. ASSUME NEW change \in changes, Replace(change.path, change.place) PROVE OneWriter'
  <2>1. \A p \in Process : open'[p] =>
          open[p] /\ call'[p].output = call[p].output /\ call[p].output # change.path /\ pc'[p] = pc[p]
    BY <1>8 DEF Replace
  <2>2. \A p \in Process : open'[p] => files'[call[p].output] = files[call[p].output]
    BY <1>8, <2>1 DEF Replace
  <2> QED BY <1>8, <2>1, <2>2 DEF OneWriter
<1> QED
  BY <1>3, <1>5, <1>6, <1>7, <1>8 DEF CallNextAmong

LEMMA VerbsInitial == ASSUME NEW calls PROVE CallInit => VInv(calls)
BY CallInitial DEF CallInit, VInv, Asked, OneWriter

LEMMA VerbsInductive ==
  ASSUME NEW calls \in SUBSET Call, NEW changes \in SUBSET Change,
         VInv(calls), [CallNextAmong(calls, changes)]_callVars
  PROVE  VInv(calls)'
<1>1. CASE CallNextAmong(calls, changes)
  <2>1. CallNext
    BY <1>1 DEF CallNext, CallNextAmong
  <2>2. CInv' /\ Asked(calls)'
    BY <1>1, <2>1, CallInductive, AskedKeeps DEF VInv
  <2>3. NoPlain(calls) => OneWriter'
    BY <1>1, OneWriterKeeps DEF VInv
  <2> QED BY <2>2, <2>3 DEF VInv, NoPlain
<1>2. CASE UNCHANGED callVars
  <2>1. CInv'
    BY <1>2, CallInductive DEF VInv
  <2> QED BY <1>2, <2>1 DEF VInv, Asked, OneWriter, callVars
<1> QED
  BY <1>1, <1>2

(* Only a whole write ends with an answer that is no error.                *)
LEMMA AnswersAreOfWholeFiles ==
  ASSUME NEW calls \in SUBSET Call, NEW changes \in SUBSET Change,
         VInv(calls), NoPlain(calls), CallNextAmong(calls, changes)
  PROVE  AnswersWhatIsWritten
<1> SUFFICES ASSUME NEW p \in Process, pc[p] = "write", open[p], reply'[p].verdict = "ok"
             PROVE  LET out == call[p].output
                    IN  /\ files'[out] = Product(call[p], models[p])
                        /\ call[p].verb = "set" =>
                             Decode[<<ReadingOf(out), files'[out]>>] = reply'[p].models[2]
  BY DEF AnswersWhatIsWritten
<1> USE DEF CInv, CallTypeOK, Goto
<1>1. /\ call[p] \in Call /\ call[p].fits /\ models[p] \in Seq(Model)
      /\ Len(models[p]) = Len(call[p].inputs)
      /\ CreatesFile(call[p]) \/ Overwrites(call[p])
      /\ Product(call[p], models[p]) # Refused
      /\ reply[p] = NoReply /\ files[call[p].output] = Empty
  BY DEF VInv, UnderWay, OneWriter
<1>2. CInv /\ reply[p].verdict # "ok"
  BY <1>1 DEF NoReply, VInv
<1>3. ASSUME NEW q \in Process, NEW r, r.verdict # "ok" \/ q # p, Answer(q, r) PROVE FALSE
  BY <1>2, <1>3 DEF Answer
<1>4. reply' # reply
  BY <1>2
<1>5. ASSUME NEW q \in Process, NEW c \in calls, Begin(q, c) \/ RefuseArguments(q, c) PROVE FALSE
  <2>1. CASE RefuseArguments(q, c)
    BY <1>3, <2>1 DEF RefuseArguments, Error
  <2>2. CASE Begin(q, c)
    <3>1. q # p
      BY <2>2 DEF Begin, MayAsk
    <3>2. reply'[p] = reply[p]
      BY <1>2, <2>2, <3>1 DEF Begin
    <3> QED BY <1>2, <3>2
  <2> QED BY <1>5, <2>1, <2>2
<1>6. ASSUME NEW q \in Process, FileStep(q) PROVE q = p /\ Write(p)
  BY <1>2, <1>3, <1>4, <1>6 DEF FileStep, CheckOutput, ReadFile, ReadFails, AnswerQuestion, QuestionFails,
       Make, Create, Truncate, Opened, OpenFails, Write, WriteFails, Error
<1>7. ASSUME NEW q \in Process, TakeModel(q) \/ NotADrawing(q) \/ Crash(q) PROVE FALSE
  BY <1>3, <1>4, <1>7 DEF TakeModel, Take, NotADrawing, Crash, Error, NoReply
<1>8. ASSUME NEW change \in changes, Replace(change.path, change.place) PROVE FALSE
  BY <1>4, <1>8 DEF Replace
<1>9. Write(p)
  BY <1>5, <1>6, <1>7, <1>8 DEF CallNextAmong
<1>10. call[p].output \in Path
  BY <1>1, ProductIsWhole
<1>11. files'[call[p].output] = Product(call[p], models[p])
  <2>1. PICK contents \in Outcomes(p) : Leaves(p, contents)
    BY <1>9 DEF Write, WriteOutcomes
  <2>2. contents = Product(call[p], models[p])
    BY <1>1, <2>1 DEF Outcomes
  <2> QED BY <1>2, <1>10, <2>1, <2>2 DEF Leaves
<1>12. reply'[p].models = Subject(call[p], models[p])
  BY <1>2, <1>9 DEF Write, Answer, Ok
<1>13. call[p].verb = "set" =>
         Decode[<<ReadingOf(call[p].output), Product(call[p], models[p])>>] = Subject(call[p], models[p])[2]
  BY <1>1, ProductIsWhole
<1> QED
  BY <1>11, <1>12, <1>13
=============================================================================
