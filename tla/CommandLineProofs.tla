--------------------------- MODULE CommandLineProofs ---------------------------
(* Whatever is typed, and whatever a client sends: no word is passed over  *)
(* on the way to a drawing that is read, every option a command succeeds   *)
(* with was looked at, and a verb is called only with what its schema      *)
(* allows and its code understands.                                        *)
EXTENDS VerbArguments, SequenceTheorems, WellFoundedInduction, TLAPS

(* A word is accounted for as what it was taken for, a call for help until *)
(* the words end.                                                          *)
Accounted(k) ==
  \/ k = 1 /\ argv[k] = "export"
  \/ <<argv[k]>> = input \/ argv[k] \in {"-o"} \cup given
  \/ IsValueOf(k)

CommandInv ==
  /\ TypeOK
  /\ mode \in {"parse", "export"} =>
       \A k \in 1 .. i - 1 : Accounted(k) \/ (mode = "parse" /\ help /\ argv[k] = "-h")
  /\ mode \in {"run", "write", "package"} => \A k \in DOMAIN argv : Accounted(k)
  /\ mode = "write" => given \ {"-o"} \subseteq Usable
  /\ exit = "verb" => First \in Verbs

LEMMA WordsOfALine ==
  ASSUME argv \in CommandLines
  PROVE  Len(argv) \in Nat /\ DOMAIN argv = 1 .. Len(argv) /\ (First # "" => Len(argv) \in Nat \ {0})
<1>1. argv \in Seq(STRING)
  BY WordsAssumption
<1>2. Len(argv) \in Nat /\ DOMAIN argv = 1 .. Len(argv)
  BY <1>1, LenProperties, Zenon
<1>3. argv # <<>> => Len(argv) \in Nat \ {0}
  BY <1>1, EmptySeq, Zenon
<1> QED
  BY <1>2, <1>3 DEF First

(* The command ends: nothing it took is changed.                           *)
LEMMA EndingKeeps ==
  ASSUME CommandInv, NEW how \in {"success", "failure", "serving", "verb"}, End(how),
         how = "verb" => First \in Verbs,
         UNCHANGED <<argv, i, Taken>>, used' \subseteq given,
         disk' \in {"as before", "cut short", "written"}
  PROVE  CommandInv'
<1>1. /\ mode' = "ended" /\ exit' = how /\ argv' = argv /\ i' = i
      /\ input' = input /\ output' = output /\ given' = given /\ value' = value
      /\ help' = help /\ levels' = levels
  BY DEF End, Taken
<1>2. TypeOK'
  BY <1>1 DEF CommandInv, TypeOK
<1> QED
  BY <1>1, <1>2 DEF CommandInv, First

LEMMA StartsKeep ==
  ASSUME CommandInv, AnswerVersion \/ StartMcp \/ StartVerb \/ StartExport \/ StartPlain
  PROVE  CommandInv'
<1>1. used \subseteq given /\ disk \in {"as before", "cut short", "written"}
  BY DEF CommandInv, TypeOK
<1>2. CASE AnswerVersion
  BY <1>1, <1>2, EndingKeeps DEF AnswerVersion, Succeed
<1>3. CASE StartMcp
  BY <1>1, <1>3, EndingKeeps DEF StartMcp, Fail
<1>4. CASE StartVerb
  BY <1>1, <1>4, EndingKeeps DEF StartVerb
<1>5. CASE StartExport
  <2>1. /\ mode' = "export" /\ i' = 2 /\ argv' = argv /\ First = "export"
        /\ input' = input /\ output' = output /\ given' = given /\ value' = value
        /\ help' = help /\ levels' = levels /\ used' = used /\ disk' = disk /\ exit' = exit
    BY <1>5 DEF StartExport, Go, Taken
  <2>2. i' \in 1 .. Len(argv) + 1
    <3>1. Len(argv) \in Nat \ {0}
      BY <2>1, WordsOfALine DEF CommandInv, TypeOK
    <3> QED BY <2>1, <3>1
  <2>3. TypeOK'
    BY <2>1, <2>2 DEF CommandInv, TypeOK
  <2>4. argv[1] = "export"
    BY <2>1 DEF First
  <2>5. \A k \in 1 .. i' - 1 : Accounted(k)'
    BY <2>1, <2>4 DEF Accounted
  <2> QED BY <2>1, <2>3, <2>5 DEF CommandInv, First
<1>6. CASE StartPlain
  <2>1. /\ mode' = "parse" /\ i' = 1 /\ argv' = argv
        /\ input' = input /\ output' = output /\ given' = given /\ value' = value
        /\ help' = help /\ levels' = levels /\ used' = used /\ disk' = disk /\ exit' = exit
    BY <1>6 DEF StartPlain, Go, Taken
  <2>2. i' \in 1 .. Len(argv) + 1
    <3>1. Len(argv) \in Nat
      BY WordsOfALine DEF CommandInv, TypeOK
    <3> QED BY <2>1, <3>1
  <2>3. TypeOK'
    BY <2>1, <2>2 DEF CommandInv, TypeOK
  <2>4. 1 .. i' - 1 = {}
    BY <2>1
  <2> QED BY <2>1, <2>3, <2>4 DEF CommandInv, First
<1> QED
  BY <1>2, <1>3, <1>4, <1>5, <1>6

LEMMA LastWord ==
  ASSUME CommandInv, mode \in {"parse", "export"}, NEW m, m = i, m <= Len(argv)
  PROVE  /\ m \in Nat \ {0} /\ Len(argv) \in Nat /\ m \in DOMAIN argv
         /\ m + 1 \in 1 .. Len(argv) + 1
         /\ i < Len(argv) => m + 1 \in DOMAIN argv /\ m + 2 \in 1 .. Len(argv) + 1
<1>1. Len(argv) \in Nat /\ DOMAIN argv = 1 .. Len(argv)
  BY WordsOfALine DEF CommandInv, TypeOK
<1>2. m \in 1 .. Len(argv) + 1
  BY DEF CommandInv, TypeOK
<1>3. \A j, n \in Nat : j \in 1 .. n + 1 /\ j <= n =>
        /\ j \in Nat \ {0} /\ j \in 1 .. n /\ j + 1 \in 1 .. n + 1
        /\ j < n => j + 1 \in 1 .. n /\ j + 2 \in 1 .. n + 1
  OBVIOUS
<1>4. m \in Nat
  BY <1>1, <1>2
<1> QED
  BY <1>1, <1>2, <1>3, <1>4, Zenon

(* One or two words are taken: they are accounted for, and the words       *)
(* before them stay so.                                                    *)
LEMMA TakingKeeps ==
  ASSUME CommandInv, mode \in {"parse", "export"}, NEW m, m = i, NEW n \in {1, 2},
         i' = m + n, m + n \in 1 .. Len(argv) + 1, m \in Nat \ {0}, Stay,
         input' = input \/ (input = <<>> /\ input' = <<argv[m]>>), m \in DOMAIN argv,
         output' = output \/ (\E k \in DOMAIN argv : output' = <<argv[k]>>),
         given \subseteq given', given' \subseteq Options, DOMAIN value' \subseteq given',
         help' \in BOOLEAN, help => help', levels' \in 0 .. U32 - 1,
         Accounted(m)' \/ (mode = "parse" /\ help' /\ argv[m] = "-h"),
         n = 2 => Accounted(m + 1)'
  PROVE  CommandInv'
<1>1. argv' = argv /\ mode' = mode /\ used' = used /\ disk' = disk /\ exit' = exit
  BY DEF Stay
<1>2. TypeOK'
  <2>1. {input', output'} \subseteq {<<>>} \cup {<<argv[k]>> : k \in DOMAIN argv}
    BY DEF CommandInv, TypeOK
  <2> QED BY <1>1, <2>1 DEF CommandInv, TypeOK
<1>3. \A k : Accounted(k) => Accounted(k)'
  BY <1>1 DEF Accounted, IsValueOf
<1>4. \A k \in 1 .. m - 1 : Accounted(k)' \/ (mode = "parse" /\ help' /\ argv[k] = "-h")
  BY <1>3 DEF CommandInv
<1>5. \A k \in 1 .. m + n - 1 : k \in 1 .. m - 1 \/ k = m \/ (n = 2 /\ k = m + 1)
  <2>1. \A j \in Nat \ {0} : \A l \in {1, 2} : \A k \in 1 .. j + l - 1 :
          k \in 1 .. j - 1 \/ k = j \/ (l = 2 /\ k = j + 1)
    OBVIOUS
  <2> QED BY <2>1, Zenon
<1>6. \A k \in 1 .. i' - 1 : Accounted(k)' \/ (mode' = "parse" /\ help' /\ argv'[k] = "-h")
  <2>1. i' - 1 = m + n - 1
    OBVIOUS
  <2> SUFFICES ASSUME NEW k \in 1 .. m + n - 1
              PROVE  Accounted(k)' \/ (mode' = "parse" /\ help' /\ argv'[k] = "-h")
    BY <2>1, Zenon
  <2>2. CASE k \in 1 .. m - 1
    BY <1>1, <1>4, <2>2, Zenon
  <2>3. CASE k = m
    BY <1>1, <2>3, Zenon
  <2>4. CASE n = 2 /\ k = m + 1
    BY <2>4, Zenon
  <2> QED BY <1>5, <2>2, <2>3, <2>4, Zenon
<1>7. /\ ~ mode' \in {"run", "write", "package"}
      /\ exit' = "verb" => First' \in Verbs
  BY <1>1 DEF CommandInv, First
<1> QED
  BY <1>2, <1>6, <1>7, Zenon DEF CommandInv

LEMMA ValuesAreOfOptions ==
  ASSUME NEW option, NEW v
  PROVE  DOMAIN WithValue(option, v) = DOMAIN value \cup {option}
BY DEF WithValue

(* What is refused, or answered at once.                                   *)
LEMMA AnswersKeep ==
  ASSUME CommandInv, Fail \/ Succeed
  PROVE  CommandInv'
<1>1. used \subseteq given /\ disk \in {"as before", "cut short", "written"}
  BY DEF CommandInv, TypeOK
<1> QED
  BY <1>1, EndingKeeps DEF Fail, Succeed

LEMMA ParsesKeep ==
  ASSUME CommandInv,
         TakeValueOption \/ TakeFlag \/ TakeHelp \/ TakeInput("parse") \/ TakeInput("export")
         \/ TakeExportOutput \/ TakeProfile \/ TakeCount \/ TakeExportFlag
  PROVE  CommandInv'
<1> PICK m : m = i
  OBVIOUS
<1> DEFINE Line == mode \in {"parse", "export"} /\ m <= Len(argv)
<1>a. Line
  BY DEF TakeValueOption, TakeFlag, TakeHelp, TakeInput, TakeExportOutput, TakeProfile,
         TakeCount, TakeExportFlag, Parsing
<1>b. /\ m \in Nat \ {0} /\ Len(argv) \in Nat /\ m \in DOMAIN argv
      /\ m + 1 \in 1 .. Len(argv) + 1
      /\ i < Len(argv) => m + 1 \in DOMAIN argv /\ m + 2 \in 1 .. Len(argv) + 1
  BY <1>a, LastWord
<1>c. /\ given \subseteq Options /\ DOMAIN value \subseteq given /\ help \in BOOLEAN
      /\ levels \in 0 .. U32 - 1
  BY DEF CommandInv, TypeOK
<1>d. \A j \in Nat \ {0} : j + 1 > 1 /\ (j + 1) - 1 = j
  OBVIOUS
<1>e. m + 1 > 1 /\ (m + 1) - 1 = m
  BY <1>b, <1>d
<1>1. CASE TakeValueOption
  <2>1. CASE ~ TakesNext
    BY <1>1, <2>1, AnswersKeep DEF TakeValueOption
  <2>2. CASE TakesNext
    <3>1. /\ argv[m] \in ValueOptions /\ given' = given \cup {argv[m]} /\ i' = m + 2 /\ Stay
          /\ input' = input /\ help' = help /\ levels' = levels
          /\ \/ output' = <<argv[m + 1]>> /\ value' = value
             \/ output' = output /\ value' = WithValue(argv[m], argv[m + 1])
      BY <1>1, <2>2 DEF TakeValueOption, Word, Next1
    <3>2. /\ m + 1 \in DOMAIN argv /\ m + 2 \in 1 .. Len(argv) + 1
      BY <1>b, <2>2 DEF TakesNext
    <3>3. DOMAIN value' \subseteq given'
      BY <1>c, <3>1, ValuesAreOfOptions
    <3>4. given' \subseteq Options
      BY <1>c, <3>1 DEF Options
    <3>5. argv' = argv
      BY <3>1 DEF Stay
    <3>6. Accounted(m)' /\ Accounted(m + 1)'
      BY <1>e, <3>1, <3>5 DEF Accounted, IsValueOf
    <3> QED BY <1>a, <1>b, <1>c, <3>1, <3>2, <3>3, <3>4, <3>6, TakingKeeps
  <2> QED BY <2>1, <2>2
<1>2. CASE TakeFlag
  <2>1. /\ argv[m] \in Flags /\ given' = given \cup {argv[m]} /\ i' = m + 1 /\ Stay
        /\ input' = input /\ output' = output /\ value' = value /\ help' = help /\ levels' = levels
    BY <1>2 DEF TakeFlag, Word
  <2>2. given' \subseteq Options
    BY <1>c, <2>1 DEF Options
  <2>3. Accounted(m)'
    BY <2>1 DEF Accounted, Stay
  <2> QED BY <1>a, <1>b, <1>c, <2>1, <2>2, <2>3, TakingKeeps
<1>3. CASE TakeHelp
  <2>1. /\ mode = "parse" /\ argv[m] = "-h" /\ i' = m + 1 /\ Stay /\ help' = TRUE
        /\ input' = input /\ output' = output /\ value' = value /\ given' = given /\ levels' = levels
    BY <1>3 DEF TakeHelp, Word, Parsing
  <2> QED BY <1>a, <1>b, <1>c, <2>1, TakingKeeps
<1>4. CASE TakeInput("parse") \/ TakeInput("export")
  <2>1. CASE input # <<>>
    BY <1>4, <2>1, AnswersKeep DEF TakeInput
  <2>2. CASE input = <<>>
    <3>1. /\ input' = <<argv[m]>> /\ i' = m + 1 /\ Stay
          /\ given' = given /\ output' = output /\ value' = value /\ help' = help /\ levels' = levels
      BY <1>4, <2>2 DEF TakeInput, Word
    <3>2. Accounted(m)'
      BY <3>1 DEF Accounted, Stay
    <3> QED BY <1>a, <1>b, <1>c, <2>2, <3>1, <3>2, TakingKeeps
  <2> QED BY <2>1, <2>2
<1>5. CASE TakeExportOutput
  <2>1. CASE ~ TakesNext
    BY <1>5, <2>1, AnswersKeep DEF TakeExportOutput
  <2>2. CASE TakesNext
    <3>1. /\ argv[m] = "-o" /\ i' = m + 2 /\ Stay /\ output' = <<argv[m + 1]>>
          /\ input' = input /\ given' = given /\ value' = value /\ help' = help /\ levels' = levels
      BY <1>5, <2>2 DEF TakeExportOutput, Word, Next1
    <3>2. /\ m + 1 \in DOMAIN argv /\ m + 2 \in 1 .. Len(argv) + 1
      BY <1>b, <2>2 DEF TakesNext
    <3>3. argv' = argv /\ argv[m] \in ValueOptions
      BY <3>1 DEF Stay, ValueOptions
    <3>4. Accounted(m)' /\ Accounted(m + 1)'
      BY <1>e, <3>1, <3>3 DEF Accounted, IsValueOf
    <3> QED BY <1>a, <1>b, <1>c, <3>1, <3>2, <3>4, TakingKeeps
  <2> QED BY <2>1, <2>2
<1>6. CASE TakeProfile
  <2>1. CASE ~ TakesNext \/ Next1 # "good"
    BY <1>6, <2>1, AnswersKeep DEF TakeProfile
  <2>2. CASE TakesNext /\ Next1 = "good"
    <3>1. /\ argv[m] = "--profile" /\ i' = m + 2 /\ Stay /\ given' = given \cup {argv[m]}
          /\ input' = input /\ output' = output /\ value' = value /\ help' = help /\ levels' = levels
      BY <1>6, <2>2 DEF TakeProfile, Word
    <3>2. /\ m + 1 \in DOMAIN argv /\ m + 2 \in 1 .. Len(argv) + 1
      BY <1>b, <2>2 DEF TakesNext
    <3>3. argv' = argv /\ given' \subseteq Options
      BY <1>c, <3>1 DEF Stay, Options
    <3>4. Accounted(m)' /\ Accounted(m + 1)'
      BY <1>e, <3>1, <3>3 DEF Accounted, IsValueOf
    <3> QED BY <1>a, <1>b, <1>c, <3>1, <3>2, <3>3, <3>4, TakingKeeps
  <2> QED BY <2>1, <2>2
<1>7. CASE TakeCount
  <2>1. CASE ~ TakesNext \/ Next1 \notin DOMAIN NumberOf
    BY <1>7, <2>1, AnswersKeep DEF TakeCount
  <2>2. CASE TakesNext /\ Next1 \in DOMAIN NumberOf
    <3>1. /\ argv[m] \in CountOptions /\ i' = m + 2 /\ Stay /\ given' = given \cup {argv[m]}
          /\ input' = input /\ output' = output /\ help' = help
          /\ value' = WithValue(argv[m], argv[m + 1])
          /\ levels' = levels \/ levels' = NumberOf[argv[m + 1]] % U32
          /\ argv[m + 1] \in DOMAIN NumberOf
      BY <1>7, <2>2 DEF TakeCount, Word, Next1
    <3>2. /\ m + 1 \in DOMAIN argv /\ m + 2 \in 1 .. Len(argv) + 1
      BY <1>b, <2>2 DEF TakesNext
    <3>3. argv' = argv /\ given' \subseteq Options
      BY <1>c, <3>1 DEF Stay, Options
    <3>4. Accounted(m)' /\ Accounted(m + 1)'
      BY <1>e, <3>1, <3>3 DEF Accounted, IsValueOf
    <3>5. DOMAIN value' \subseteq given'
      <4>1. value' = WithValue(argv[m], argv[m + 1]) /\ given' = given \cup {argv[m]}
        BY <3>1
      <4>2. DOMAIN WithValue(argv[m], argv[m + 1]) = DOMAIN value \cup {argv[m]}
        BY ValuesAreOfOptions, Zenon
      <4>3. DOMAIN value \subseteq given
        BY <1>c
      <4> QED BY <4>1, <4>2, <4>3
    <3>6. levels' \in 0 .. U32 - 1
      <4>1. U32 \in Nat \ {0} /\ NumberOf[argv[m + 1]] \in Nat
        BY <3>1, NumbersAssumption
      <4>2. \A n \in Nat : \A w \in Nat \ {0} : n % w \in 0 .. w - 1
        OBVIOUS
      <4> QED BY <1>c, <3>1, <4>1, <4>2
    <3> QED BY <1>a, <1>b, <1>c, <3>1, <3>2, <3>3, <3>4, <3>5, <3>6, TakingKeeps
  <2> QED BY <2>1, <2>2
<1>8. CASE TakeExportFlag
  <2>1. /\ argv[m] \in ExportFlags /\ given' = given \cup {argv[m]} /\ i' = m + 1 /\ Stay
        /\ input' = input /\ output' = output /\ value' = value /\ help' = help /\ levels' = levels
    BY <1>8 DEF TakeExportFlag, Word
  <2>2. given' \subseteq Options
    BY <1>c, <2>1 DEF Options
  <2>3. Accounted(m)'
    BY <2>1 DEF Accounted, Stay
  <2> QED BY <1>a, <1>b, <1>c, <2>1, <2>2, <2>3, TakingKeeps
<1> QED
  BY <1>1, <1>2, <1>3, <1>4, <1>5, <1>6, <1>7, <1>8

(* Where the words end, all are accounted for, or help was asked for.      *)
LEMMA EndsKeep ==
  ASSUME CommandInv,
         EndOfWords \/ EndOfExportWords \/ RefuseUnknown \/ AnswerExportHelp \/ RefuseExportUnknown
  PROVE  CommandInv'
<1>1. CASE RefuseUnknown \/ AnswerExportHelp \/ RefuseExportUnknown
  BY <1>1, AnswersKeep DEF RefuseUnknown, AnswerExportHelp, RefuseExportUnknown
<1>2. CASE EndOfWords \/ EndOfExportWords
  <2>1. CASE Fail \/ Succeed
    BY <2>1, AnswersKeep
  <2>2. CASE ~ (Fail \/ Succeed)
    <3>1. /\ mode \in {"parse", "export"} /\ i > Len(argv) /\ (mode = "parse" => ~ help)
          /\ mode' \in {"run", "package"} /\ i' = i /\ argv' = argv
          /\ input' = input /\ output' = output /\ given' = given /\ value' = value
          /\ help' = help /\ levels' = levels /\ used' = used /\ disk' = disk /\ exit' = exit
      BY <1>2, <2>2 DEF EndOfWords, EndOfExportWords, Go, Taken
    <3>2. DOMAIN argv \subseteq 1 .. i - 1
      <4>1. Len(argv) \in Nat /\ DOMAIN argv = 1 .. Len(argv) /\ i \in 1 .. Len(argv) + 1
        BY WordsOfALine DEF CommandInv, TypeOK
      <4>2. \A n \in Nat : \A j \in 1 .. n + 1 : j > n => 1 .. n \subseteq 1 .. j - 1
        OBVIOUS
      <4>3. i > Len(argv)
        BY <3>1
      <4> QED BY <4>1, <4>2, <4>3, Zenon
    <3>3. \A k \in DOMAIN argv : Accounted(k)
      BY <3>1, <3>2 DEF CommandInv
    <3>4. \A k \in DOMAIN argv : Accounted(k)'
      BY <3>1, <3>3 DEF Accounted, IsValueOf
    <3>5. TypeOK'
      BY <3>1 DEF CommandInv, TypeOK
    <3>6. exit' = "verb" => First' \in Verbs
      BY <3>1 DEF CommandInv, First
    <3> QED BY <3>1, <3>4, <3>5, <3>6 DEF CommandInv
  <2> QED BY <2>1, <2>2
<1> QED
  BY <1>1, <1>2

(* What run, write_output and run_export do once the words are taken.      *)
LEMMA RunsKeep ==
  ASSUME CommandInv,
         RefuseUnusedOptions \/ Read \/ Summarise \/ RefuseExtension
         \/ WriteJson \/ WriteSvg \/ WritePng \/ Package
  PROVE  CommandInv'
<1>1. CASE Fail \/ Succeed
  BY <1>1, AnswersKeep
<1>2. CASE Read /\ ~ Fail
  <2>1. /\ mode = "run" /\ mode' = "write" /\ i' = i /\ argv' = argv
        /\ input' = input /\ output' = output /\ given' = given /\ value' = value
        /\ help' = help /\ levels' = levels /\ used' = used /\ disk' = disk /\ exit' = exit
        /\ given \ {"-o"} \subseteq Usable
    BY <1>2 DEF Read, Go, Taken
  <2>2. TypeOK'
    BY <2>1 DEF CommandInv, TypeOK
  <2>3. \A k \in DOMAIN argv : Accounted(k)'
    BY <2>1 DEF CommandInv, Accounted, IsValueOf
  <2>4. Usable' = Usable
    BY <2>1 DEF Usable
  <2>5. exit' = "verb" => First' \in Verbs
    BY <2>1 DEF CommandInv, First
  <2> QED BY <2>1, <2>2, <2>3, <2>4, <2>5 DEF CommandInv
<1>3. CASE (WriteJson \/ WriteSvg \/ WritePng \/ Package) /\ ~ Fail
  <2>1. /\ used' \subseteq used \cup given
        /\ \/ End("success") /\ disk' = "written"
           \/ End("failure") /\ disk' \in {"as before", "cut short"}
        /\ UNCHANGED <<argv, i, Taken>>
    BY <1>3 DEF WriteJson, WriteSvg, WritePng, Package, Look, Write
  <2>2. used' \subseteq given
    BY <2>1 DEF CommandInv, TypeOK
  <2> QED BY <2>1, <2>2, EndingKeeps
<1> QED
  BY <1>1, <1>2, <1>3 DEF RefuseUnusedOptions, Summarise, RefuseExtension

LEMMA CommandInvHolds ==
  /\ Init => CommandInv
  /\ CommandInv /\ [Next]_vars => CommandInv'
<1>1. ASSUME Init PROVE CommandInv
  <2>1. Len(argv) \in Nat
    BY <1>1, WordsOfALine DEF Init
  <2>2. U32 \in Nat /\ U32 > 5
    BY NumbersAssumption
  <2>3. DOMAIN <<>> = {}
    OBVIOUS
  <2>4. /\ mode = "main" /\ i = 1 /\ argv \in CommandLines /\ input = <<>> /\ output = <<>>
        /\ given = {} /\ value = <<>> /\ help = FALSE /\ levels = 5 /\ used = {}
        /\ disk = "as before" /\ exit = "no"
    BY <1>1 DEF Init
  <2>5. TypeOK
    <3>1. i \in 1 .. Len(argv) + 1
      <4>1. i = 1
        BY <2>4
      <4> QED BY <2>1, <4>1
    <3>2. levels \in 0 .. U32 - 1
      <4>1. levels = 5
        BY <2>4
      <4> QED BY <2>2, <4>1
    <3> QED BY <2>3, <2>4, <3>1, <3>2 DEF TypeOK
  <2> QED BY <2>4, <2>5 DEF CommandInv
<1>2. ASSUME CommandInv, UNCHANGED vars PROVE CommandInv'
  <2>1. /\ mode' = mode /\ i' = i /\ argv' = argv
        /\ input' = input /\ output' = output /\ given' = given /\ value' = value
        /\ help' = help /\ levels' = levels /\ used' = used /\ disk' = disk /\ exit' = exit
    BY <1>2 DEF vars
  <2>2. TypeOK'
    BY <1>2, <2>1 DEF CommandInv, TypeOK
  <2> QED BY <1>2, <2>1, <2>2 DEF CommandInv, Accounted, IsValueOf, Usable, First
<1> QED
  BY <1>1, <1>2, StartsKeep, ParsesKeep, EndsKeep, RunsKeep DEF Next

-----------------------------------------------------------------------------
(* The place of the next word is a place of the line, or the one after it. *)
LEMMA LeastOfNaturals ==
  ASSUME NEW S \in SUBSET Nat, S # {}
  PROVE  \E j \in S : \A l \in S : j <= l
<1>1. IsWellFoundedOn(OpToRel(<, Nat), Nat)
  BY NatLessThanWellFounded
<1>2. PICK j \in S : \A l \in S : ~ (<<l, j>> \in OpToRel(<, Nat))
  BY <1>1, WFMin
<1>3. \A l \in S : ~ (l < j)
  BY <1>2 DEF OpToRel
<1> QED
  BY <1>3

LEMMA NextWordIsOnTheLine ==
  ASSUME argv \in CommandLines, NEW k \in Nat
  PROVE  WordAfter(k) \in 1 .. Len(argv) + 1
<1> DEFINE later == {j \in k + 1 .. Len(argv) : argv[j] # "--pretty"}
<1>1. Len(argv) \in Nat
  BY WordsOfALine
<1>2. later \subseteq 1 .. Len(argv) + 1 /\ later \subseteq Nat
  BY <1>1
<1>3. CASE later = {}
  BY <1>1, <1>3 DEF WordAfter
<1>4. CASE later # {}
  <2>1. \E j \in later : \A l \in later : j <= l
    BY <1>2, <1>4, LeastOfNaturals
  <2>2. (CHOOSE j \in later : \A l \in later : j <= l) \in later
    BY <2>1
  <2>3. WordAfter(k) = CHOOSE j \in later : \A l \in later : j <= l
    BY <1>4, Zenon DEF WordAfter
  <2> QED BY <1>2, <2>2, <2>3
<1> QED
  BY <1>3, <1>4

(* The kinds of the verb table, each of which check, the schema and the    *)
(* code of the verbs know.                                                 *)
Kinds == {"path", "text", "integer", "id", "json", "number", "nonnegative", "positive",
          "choice", "color", "window", "flag", "choices"}
ParamNames == {"--matching", "--length-tolerance", "--angle-tolerance",
               "--min-similarity", "--min-margin", "--max-pairs", "--omit",
               "input", "--type", "--layer", "--within", "--space", "--id",
               "--limit", "--detail", "--x", "--y", "--tolerance", "--anchor",
               "--join-gap-um", "before", "after", "--path", "--value",
               "--output", "--fit", "--stroke", "--paper", "--frame",
               "--proposal-color", "--balloons", "--color", "--size"}

LEMMA TableIsOfKinds ==
  ASSUME NEW v \in VerbNames, NEW p \in ParamSet(v)
  PROVE  p.kind \in Kinds
<1> DEFINE P == [name : ParamNames, kind : Kinds, required : BOOLEAN, positional : BOOLEAN]
<1>1. \A n \in ParamNames : \A k \in Kinds : Given(n, k) \in P
  BY DEF Given
<1>2. \A n \in ParamNames : \A k \in Kinds : Needed(n, k) \in P
  BY DEF Given, Needed
<1>3. \A n \in ParamNames : Placed(n) \in P
  BY DEF Given, Needed, Placed, Kinds
<1> HIDE DEF P
<1>4. /\ "path" \in Kinds /\ "text" \in Kinds /\ "integer" \in Kinds /\ "id" \in Kinds
      /\ "json" \in Kinds /\ "number" \in Kinds /\ "nonnegative" \in Kinds
      /\ "positive" \in Kinds /\ "choice" \in Kinds /\ "color" \in Kinds
      /\ "window" \in Kinds /\ "flag" \in Kinds /\ "choices" \in Kinds
  BY DEF Kinds
<1>n. /\ "--matching" \in ParamNames /\ "--length-tolerance" \in ParamNames
      /\ "--angle-tolerance" \in ParamNames /\ "--min-similarity" \in ParamNames
      /\ "--min-margin" \in ParamNames /\ "--max-pairs" \in ParamNames
      /\ "--omit" \in ParamNames /\ "input" \in ParamNames
      /\ "--type" \in ParamNames /\ "--layer" \in ParamNames
      /\ "--within" \in ParamNames /\ "--space" \in ParamNames
      /\ "--id" \in ParamNames /\ "--limit" \in ParamNames
      /\ "--detail" \in ParamNames /\ "--x" \in ParamNames
      /\ "--y" \in ParamNames /\ "--tolerance" \in ParamNames
      /\ "--anchor" \in ParamNames /\ "--join-gap-um" \in ParamNames
      /\ "before" \in ParamNames /\ "after" \in ParamNames
      /\ "--path" \in ParamNames /\ "--value" \in ParamNames
      /\ "--output" \in ParamNames /\ "--fit" \in ParamNames
      /\ "--stroke" \in ParamNames /\ "--paper" \in ParamNames
      /\ "--frame" \in ParamNames /\ "--proposal-color" \in ParamNames
      /\ "--balloons" \in ParamNames /\ "--color" \in ParamNames
      /\ "--size" \in ParamNames
  BY DEF ParamNames
<1> HIDE DEF Kinds
<1>5. \A s, t \in Seq(P) : s \o t \in Seq(P)
  OBVIOUS
<1>6. Pairing \in Seq(P)
  <2>1. \A p1, p2, p3, p4, p5, p6, p7 \in P : <<p1, p2, p3, p4, p5, p6, p7>> \in Seq(P)
    OBVIOUS
  <2>2. /\ Given("--matching", "choice") \in P
        /\ Given("--length-tolerance", "nonnegative") \in P
        /\ Given("--angle-tolerance", "nonnegative") \in P
        /\ Given("--min-similarity", "nonnegative") \in P
        /\ Given("--min-margin", "nonnegative") \in P
        /\ Given("--max-pairs", "integer") \in P
        /\ Given("--omit", "choices") \in P
    BY <1>1, <1>2, <1>3, <1>4, <1>n, Zenon
  <2> QED BY <2>1, <2>2, Zenon DEF Pairing
<1>7. Summarize \in Seq(P)
  <2>1. \A p1, p2, p3, p4, p5, p6, p7, p8, p9 \in P : <<p1, p2, p3, p4, p5, p6, p7, p8, p9>> \in Seq(P)
    OBVIOUS
  <2>2. /\ Placed("input") \in P /\ Given("--type", "text") \in P
        /\ Given("--layer", "text") \in P /\ Given("--within", "window") \in P
        /\ Given("--space", "choice") \in P /\ Given("--id", "id") \in P
        /\ Given("--limit", "integer") \in P /\ Given("--detail", "flag") \in P
        /\ Given("--omit", "choices") \in P
    BY <1>1, <1>2, <1>3, <1>4, <1>n, Zenon
  <2> QED BY <2>1, <2>2, Zenon DEF Summarize
<1>8. HitTest \in Seq(P)
  <2>1. \A p1, p2, p3, p4, p5 \in P : <<p1, p2, p3, p4, p5>> \in Seq(P)
    OBVIOUS
  <2>2. /\ Placed("input") \in P /\ Needed("--x", "number") \in P
        /\ Needed("--y", "number") \in P
        /\ Needed("--tolerance", "nonnegative") \in P
        /\ Given("--limit", "integer") \in P
    BY <1>1, <1>2, <1>3, <1>4, <1>n, Zenon
  <2> QED BY <2>1, <2>2, Zenon DEF HitTest
<1>9. Relate \in Seq(P)
  <2>1. \A p1, p2, p3 \in P : <<p1, p2, p3>> \in Seq(P)
    OBVIOUS
  <2>2. /\ Placed("input") \in P /\ Given("--tolerance", "positive") \in P
        /\ Given("--id", "id") \in P
    BY <1>1, <1>2, <1>3, <1>4, <1>n, Zenon
  <2> QED BY <2>1, <2>2, Zenon DEF Relate
<1>10. CoincidentEnds \in Seq(P)
  <2>1. \A p1, p2, p3, p4 \in P : <<p1, p2, p3, p4>> \in Seq(P)
    OBVIOUS
  <2>2. /\ Placed("input") \in P /\ Needed("--id", "id") \in P
        /\ Needed("--anchor", "text") \in P
        /\ Needed("--join-gap-um", "integer") \in P
    BY <1>1, <1>2, <1>3, <1>4, <1>n, Zenon
  <2> QED BY <2>1, <2>2, Zenon DEF CoincidentEnds
<1>11. SetVerb \in Seq(P)
  <2>1. \A p1, p2, p3, p4, p5, p6 \in P : <<p1, p2, p3, p4, p5, p6>> \in Seq(P)
    OBVIOUS
  <2>2. /\ Placed("input") \in P /\ Needed("--id", "id") \in P
        /\ Needed("--path", "text") \in P /\ Needed("--value", "json") \in P
        /\ Needed("--output", "path") \in P /\ Given("--omit", "choices") \in P
    BY <1>1, <1>2, <1>3, <1>4, <1>n, Zenon
  <2> QED BY <2>1, <2>2, Zenon DEF SetVerb
<1>12. Balloon \in Seq(P)
  <2>1. \A p1, p2, p3, p4, p5, p6 \in P : <<p1, p2, p3, p4, p5, p6>> \in Seq(P)
    OBVIOUS
  <2>2. /\ Placed("input") \in P /\ Needed("--balloons", "json") \in P
        /\ Needed("--output", "path") \in P /\ Given("--color", "color") \in P
        /\ Given("--size", "positive") \in P /\ Given("--space", "choice") \in P
    BY <1>1, <1>2, <1>3, <1>4, <1>n, Zenon
  <2> QED BY <2>1, <2>2, Zenon DEF Balloon
<1>13. Diff \in Seq(P)
  <2>1. <<Placed("before"), Placed("after")>> \in Seq(P)
    <3>1. \A p1, p2 \in P : <<p1, p2>> \in Seq(P)
      OBVIOUS
    <3>2. /\ Placed("before") \in P /\ Placed("after") \in P
      BY <1>1, <1>2, <1>3, <1>4, <1>n, Zenon
    <3> QED BY <3>1, <3>2, Zenon
  <2> QED BY <1>5, <1>6, <2>1, Zenon DEF Diff
<1>14. Redline \in Seq(P)
  <2>1. <<Placed("before"), Placed("after"), Needed("--output", "path"),
          Given("--fit", "integer"), Given("--stroke", "positive"),
          Given("--paper", "choice"), Given("--frame", "choice"),
          Given("--proposal-color", "color")>> \in Seq(P)
    <3>1. \A p1, p2, p3, p4, p5, p6, p7, p8 \in P : <<p1, p2, p3, p4, p5, p6, p7, p8>> \in Seq(P)
      OBVIOUS
    <3>2. /\ Placed("before") \in P /\ Placed("after") \in P
          /\ Needed("--output", "path") \in P /\ Given("--fit", "integer") \in P
          /\ Given("--stroke", "positive") \in P /\ Given("--paper", "choice") \in P
          /\ Given("--frame", "choice") \in P
          /\ Given("--proposal-color", "color") \in P
      BY <1>1, <1>2, <1>3, <1>4, <1>n, Zenon
    <3> QED BY <3>1, <3>2, Zenon
  <2> QED BY <1>5, <1>6, <2>1, Zenon DEF Redline
<1>15. Params(v) \in Seq(P)
  BY <1>6, <1>7, <1>8, <1>9, <1>10, <1>11, <1>12, <1>13, <1>14, Zenon
     DEF Params, VerbNames
<1>16. \A s \in Seq(P) : \A k \in DOMAIN s : s[k] \in P
  OBVIOUS
<1>17. p \in P
  BY <1>15, <1>16, Zenon DEF ParamSet
<1> QED
  BY <1>17 DEF P

(* What passes check is what the schema allows and the code understands.   *)
LEMMA FittingIsAllowed ==
  ASSUME NEW kind \in Kinds, NEW json, Fits(kind, json)
  PROVE  SchemaAllows(kind, json) /\ Understood(kind, json)
<1>1. CASE kind = "window"
  <2>1. IsBox(json)
    BY <1>1 DEF Fits
  <2>2. DOMAIN json.items = DOMAIN [k \in DOMAIN json.items |-> json.items[k].v]
    OBVIOUS
  <2>3. DOMAIN json.items = 1 .. 4
    BY <2>1, <2>2, BoxesAssumption DEF IsBox
  <2>4. IsFourNumbers(json)
    BY <2>1, <2>3 DEF IsBox, IsFourNumbers
  <2> QED BY <1>1, <2>1, <2>4 DEF SchemaAllows, Understood
<1>2. CASE kind = "choices"
  BY <1>2 DEF Fits, SchemaAllows, Understood, IsListOfDistinct
<1>3. CASE kind \notin {"window", "choices"}
  <2>1. FitsOneValue(kind, json)
    BY <1>3 DEF Fits
  <2> QED BY <1>3, <2>1, NumberWordsAssumption
          DEF Kinds, FitsOneValue, SchemaAllows, Understood, IsStr, IsNum
<1> QED
  BY <1>1, <1>2, <1>3

-----------------------------------------------------------------------------
(* What check has found of the arguments of a verb that is called.         *)
Checked ==
  /\ DOMAIN args \subseteq Names(verb)
  /\ \A p \in ParamSet(verb) :
       IF p.name \in DOMAIN args THEN Fits(p.kind, args[p.name]) ELSE ~ p.required

VerbInv ==
  /\ CommandInv /\ VerbTypeOK
  /\ stage \in {"words", "check", "called"} => verb \in VerbNames
  /\ stage = "called" => Checked

LEMMA CommandsKeepTheirWords ==
  ASSUME [Next]_vars
  PROVE  argv' = argv
BY DEF Next, vars, AnswerVersion, StartMcp, StartVerb, StartExport, StartPlain,
       TakeValueOption, TakeFlag, TakeHelp, RefuseUnknown, TakeInput, EndOfWords,
       RefuseUnusedOptions, Read, Summarise, RefuseExtension, WriteJson, WriteSvg, WritePng,
       TakeExportOutput, TakeProfile, TakeCount, TakeExportFlag, AnswerExportHelp,
       RefuseExportUnknown, EndOfExportWords, Package, Fail, Succeed, Go, Stay, Write

(* A step of a verb's arguments leaves the command as it was.              *)
LEMMA CommandStays ==
  ASSUME CommandInv, UNCHANGED vars
  PROVE  CommandInv' /\ argv' = argv /\ TypeOK'
BY CommandInvHolds DEF vars, CommandInv

(* The words of a verb are taken in the verb they began with.              *)
LEMMA VerbWordsKeep ==
  ASSUME VerbInv, UNCHANGED vars,
         AnswerVerbHelp \/ StartWords \/ TakeBareFlag \/ TakeFlagValue \/ RefuseVerbUnknown
         \/ TakePositional \/ EndOfVerbWords
  PROVE  VerbInv'
<1>1. CommandInv' /\ argv' = argv /\ TypeOK'
  BY CommandStays DEF VerbInv
<1>2. argv \in CommandLines /\ Len(argv) \in Nat
  BY WordsOfALine DEF VerbInv, VerbTypeOK, TypeOK
<1>3. /\ \A k \in Nat : WordAfter(k) \in 1 .. Len(argv) + 1
      /\ at \in 1 .. Len(argv) + 1 /\ at \in Nat
  <2>1. \A k \in Nat : WordAfter(k) \in 1 .. Len(argv) + 1
    BY <1>2, NextWordIsOnTheLine
  <2>2. at \in 1 .. Len(argv) + 1
    BY DEF VerbInv, VerbTypeOK
  <2>3. at \in Nat
    BY <1>2, <2>2
  <2> QED BY <2>1, <2>2, <2>3
<1>4. placed \in 0 .. 2 /\ verb \in {""} \cup VerbNames
  BY DEF VerbInv, VerbTypeOK
<1>5. exit = "verb" => First \in VerbNames
  BY VerbsAssumption DEF VerbInv, CommandInv
<1>6. CASE AnswerVerbHelp
  <2>1. stage' = "helped" /\ verb' \in VerbNames /\ at' = at /\ placed' = placed
    BY <1>5, <1>6 DEF AnswerVerbHelp
  <2> QED BY <1>1, <1>3, <1>4, <2>1 DEF VerbInv, VerbTypeOK
<1>7. CASE StartWords
  <2>1. stage' = "words" /\ verb' \in VerbNames /\ at' = WordAfter(1) /\ placed' = placed
    BY <1>5, <1>7 DEF StartWords
  <2>2. at' \in 1 .. Len(argv) + 1
    BY <1>3, <2>1
  <2> QED BY <1>1, <1>4, <2>1, <2>2 DEF VerbInv, VerbTypeOK
<1>8. CASE TakeBareFlag
  <2>1. stage = "words" /\ stage' = stage /\ verb' = verb /\ at' = WordAfter(at) /\ placed' = placed
    BY <1>8 DEF TakeBareFlag, AtWord
  <2>2. at' \in 1 .. Len(argv) + 1
    BY <1>3, <2>1
  <2> QED BY <1>1, <1>4, <2>1, <2>2 DEF VerbInv, VerbTypeOK
<1>9. CASE Refuse
  <2>1. stage' = "refused" /\ verb' = verb /\ at' = at /\ placed' = placed
    BY <1>9 DEF Refuse
  <2> QED BY <1>1, <1>3, <1>4, <2>1 DEF VerbInv, VerbTypeOK
<1>10. CASE TakeFlagValue /\ ~ Refuse
  <2>1. /\ stage = "words" /\ stage' = stage /\ verb' = verb /\ placed' = placed
        /\ at' = WordAfter(WordAfter(at))
    BY <1>10 DEF TakeFlagValue, AtWord
  <2>2. WordAfter(at) \in Nat
    BY <1>2, <1>3
  <2>3. at' \in 1 .. Len(argv) + 1
    BY <1>3, <2>1, <2>2
  <2> QED BY <1>1, <1>4, <2>1, <2>3 DEF VerbInv, VerbTypeOK
<1>11. CASE TakePositional /\ ~ Refuse
  <2>1. /\ stage = "words" /\ stage' = stage /\ verb' = verb /\ at' = WordAfter(at)
        /\ placed' = placed + 1 /\ placed + 1 \in Positionals(verb)
    BY <1>11 DEF TakePositional, AtWord
  <2>2. at' \in 1 .. Len(argv) + 1
    BY <1>3, <2>1
  <2>3. verb \in VerbNames
    BY <2>1 DEF VerbInv
  <2>4. placed' \in 0 .. 2
    BY <2>1, <2>3, VerbsAssumption
  <2> QED BY <1>1, <1>4, <2>1, <2>2, <2>4 DEF VerbInv, VerbTypeOK
<1>12. CASE EndOfVerbWords
  <2>1. stage = "words" /\ stage' = "check" /\ verb' = verb /\ at' = at /\ placed' = placed
    BY <1>12 DEF EndOfVerbWords
  <2> QED BY <1>1, <1>3, <1>4, <2>1 DEF VerbInv, VerbTypeOK
<1> QED
  BY <1>6, <1>7, <1>8, <1>9, <1>10, <1>11, <1>12 DEF RefuseVerbUnknown

LEMMA VerbInvHolds ==
  /\ VerbInit => VerbInv
  /\ VerbInv /\ [VerbNext]_<<vars, verb_vars>> => VerbInv'
<1>1. ASSUME VerbInit PROVE VerbInv
  <2>1. CommandInv /\ TypeOK /\ Len(argv) \in Nat
    BY <1>1, CommandInvHolds, WordsOfALine DEF VerbInit, CommandInv, TypeOK
  <2>2. stage = "none" /\ verb = "" /\ at = 1 /\ placed = 0
    BY <1>1 DEF VerbInit
  <2>3. at \in 1 .. Len(argv) + 1
    <3>1. at = 1
      BY <2>2
    <3> QED BY <2>1, <3>1
  <2>4. placed \in 0 .. 2
    <3>1. placed = 0
      BY <2>2
    <3> QED BY <3>1
  <2> QED BY <2>1, <2>2, <2>3, <2>4 DEF VerbInv, VerbTypeOK
<1>2. ASSUME VerbInv, [Next]_vars, UNCHANGED verb_vars PROVE VerbInv'
  <2>1. CommandInv' /\ TypeOK' /\ argv' = argv
    BY <1>2, CommandInvHolds, CommandsKeepTheirWords DEF VerbInv, CommandInv
  <2>2. stage' = stage /\ verb' = verb /\ at' = at /\ placed' = placed /\ args' = args
    BY <1>2 DEF verb_vars
  <2>3. Checked => Checked'
    BY <2>2 DEF Checked
  <2> QED BY <1>2, <2>1, <2>2, <2>3 DEF VerbInv, VerbTypeOK
<1>3. ASSUME VerbInv, UNCHANGED vars, CallTool PROVE VerbInv'
  <2>1. CommandInv' /\ TypeOK' /\ argv' = argv
    BY <1>3, CommandStays DEF VerbInv
  <2>2. /\ at' = at /\ placed' = placed
        /\ \/ stage' = "check" /\ verb' \in VerbNames
           \/ stage' = "refused" /\ verb' = verb
    BY <1>3 DEF CallTool
  <2> QED BY <1>3, <2>1, <2>2 DEF VerbInv, VerbTypeOK
<1>4. ASSUME VerbInv, UNCHANGED vars, Check PROVE VerbInv'
  <2>1. CommandInv' /\ TypeOK' /\ argv' = argv
    BY <1>4, CommandStays DEF VerbInv
  <2>2. /\ stage = "check" /\ stage' \in {"called", "refused"}
        /\ stage' = "called" => Checked
        /\ verb' = verb /\ at' = at /\ placed' = placed /\ args' = args
    BY <1>4 DEF Check, Checked
  <2>3. Checked => Checked'
    BY <2>2 DEF Checked
  <2> QED BY <1>4, <2>1, <2>2, <2>3 DEF VerbInv, VerbTypeOK
<1> QED
  BY <1>1, <1>2, <1>3, <1>4, VerbWordsKeep DEF VerbNext, vars

(* Every state of the command line, of a verb's words and of a client's    *)
(* call holds values of its kind, --max-levels within a u32 too.           *)
THEOREM CommandLinesAreTyped == VerbSpec => []VerbTypeOK
<1>1. VerbInv => VerbTypeOK
  BY DEF VerbInv
<1> QED
  BY <1>1, VerbInvHolds, PTL DEF VerbSpec

(* No word of a command line is passed over on the way to a drawing that   *)
(* is read: parse_args and run_export take it, or the command ends.        *)
THEOREM NoWordIsPassedOver == VerbSpec => []NoWordIsDropped
<1>1. VerbInv => NoWordIsDropped
  BY DEF VerbInv, CommandInv, NoWordIsDropped, Accounted
<1> QED
  BY <1>1, VerbInvHolds, PTL DEF VerbSpec

(* A verb is called with what its published schema allows, from either     *)
(* front end (Verb::check, Verb::input_schema).                            *)
THEOREM VerbsAreCalledBySchema == VerbSpec => []CalledBySchema
<1>1. ASSUME VerbInv, stage = "called" PROVE InputSchema(verb, args)
  <2>1. Checked /\ verb \in VerbNames
    BY <1>1 DEF VerbInv
  <2>2. ASSUME NEW p \in ParamSet(verb), p.name \in DOMAIN args
        PROVE  SchemaAllows(p.kind, args[p.name])
    BY <2>1, <2>2, TableIsOfKinds, FittingIsAllowed DEF Checked
  <2> QED BY <2>1, <2>2 DEF Checked, InputSchema
<1>2. VerbInv => CalledBySchema
  BY <1>1 DEF CalledBySchema
<1> QED
  BY <1>2, VerbInvHolds, PTL DEF VerbSpec

(* No argument a verb is called with makes an expect of its code panic, or *)
(* is an Option its code passes over.                                      *)
THEOREM VerbsUnderstandTheirArguments == VerbSpec => []CalledWithWhatItUnderstands
<1>1. ASSUME VerbInv, stage = "called", NEW p \in ParamSet(verb), p.name \in DOMAIN args
      PROVE  Understood(p.kind, args[p.name])
  BY <1>1, TableIsOfKinds, FittingIsAllowed DEF VerbInv, Checked
<1>2. VerbInv => CalledWithWhatItUnderstands
  BY <1>1 DEF VerbInv, Checked, CalledWithWhatItUnderstands
<1> QED
  BY <1>2, VerbInvHolds, PTL DEF VerbSpec

(* The writer of each kind of output looks at every option usable there.   *)
LEMMA WritersUseTheirOptions ==
  ASSUME CommandInv, Next, exit = "no", exit' = "success", mode \in {"write", "package"}
  PROVE  given \ {"-o"} \subseteq used'
<1>1. given \subseteq Options
  BY DEF CommandInv, TypeOK
<1>2. <<"json">> # <<"svg">> /\ <<"json">> # <<"png">> /\ <<"svg">> # <<"png">>
  <2>1. \A a, b : a # b => <<a>> # <<b>>
    OBVIOUS
  <2>2. "json" # "svg" /\ "json" # "png" /\ "svg" # "png"
    OBVIOUS
  <2> QED BY <2>1, <2>2, Zenon
<1>3. \A a : <<a>> # <<>>
  OBVIOUS
<1>4. Package \/ Summarise \/ WriteJson \/ WriteSvg \/ WritePng
  BY DEF Next, AnswerVersion, StartMcp, StartVerb, StartExport, StartPlain,
         TakeValueOption, TakeFlag, TakeHelp, RefuseUnknown, TakeInput, EndOfWords,
         RefuseUnusedOptions, Read, RefuseExtension, TakeExportOutput, TakeProfile, TakeCount,
         TakeExportFlag, AnswerExportHelp, RefuseExportUnknown, EndOfExportWords,
         Parsing, Fail, End
<1>5. CASE Package
  BY <1>1, <1>5 DEF Package, Look
<1>6. ASSUME mode = "write" PROVE given \ {"-o"} \subseteq Usable
  BY <1>6 DEF CommandInv
<1>7. CASE Summarise
  <2>1. mode = "write" /\ Usable = {}
    BY <1>7 DEF Summarise, Usable
  <2> QED BY <1>6, <2>1
<1>8. CASE WriteJson
  <2>1. mode = "write" /\ output = <<"json">> /\ used' = used \cup ({"--pretty"} \cap given)
    BY <1>8 DEF WriteJson, Look
  <2>2. Usable = {"--pretty"}
    BY <1>3, <2>1, Zenon DEF Usable
  <2> QED BY <1>6, <2>1, <2>2
<1>9. CASE WriteSvg
  <2>1. /\ mode = "write" /\ output = <<"svg">>
        /\ used' = used \cup ((SvgOptions \cup {"--stroke"}) \cap given)
    BY <1>9 DEF WriteSvg, Look, Fail, End
  <2>2. Usable = ImageValueOptions \cup ImageFlags
    BY <1>2, <1>3, <2>1, Zenon DEF Usable
  <2>3. Usable \subseteq SvgOptions \cup {"--stroke"}
    BY <2>2 DEF ImageValueOptions, ImageFlags, SvgOptions
  <2> QED BY <1>6, <2>1, <2>3
<1>10. CASE WritePng
  <2>1. /\ mode = "write" /\ output = <<"png">>
        /\ used' = used \cup ((SvgOptions \cup PngValueOptions \cup {"--stroke"}) \cap given)
    BY <1>10 DEF WritePng, Look, Fail, End
  <2>2. Usable = ImageValueOptions \cup ImageFlags \cup PngValueOptions
    BY <1>2, <1>3, <2>1, Zenon DEF Usable
  <2>3. Usable \subseteq SvgOptions \cup PngValueOptions \cup {"--stroke"}
    BY <2>2 DEF ImageValueOptions, ImageFlags, SvgOptions
  <2> QED BY <1>6, <2>1, <2>3
<1> QED
  BY <1>4, <1>5, <1>7, <1>8, <1>9, <1>10

(* The depth of an export is what the last --max-levels left of its number.*)
DepthTaken ==
  IF "--max-levels" \in given
  THEN /\ "--max-levels" \in DOMAIN value
       /\ value["--max-levels"] \in DOMAIN NumberOf
       /\ levels = NumberOf[value["--max-levels"]] % U32
  ELSE levels = 5

DepthInv ==
  /\ mode = "main" => given = {} /\ levels = 5
  /\ mode \in {"export", "package"} => DepthTaken

LEMMA DepthStays ==
  ASSUME DepthTaken, levels' = levels, value' = value,
         "--max-levels" \in given' <=> "--max-levels" \in given
  PROVE  DepthTaken'
BY DEF DepthTaken

LEMMA CountsAreDepths ==
  ASSUME DepthTaken, TakeCount, ~ Fail
  PROVE  DepthTaken'
<1>1. /\ Word \in CountOptions /\ Next1 \in DOMAIN NumberOf
      /\ levels' = IF Word = "--max-levels" THEN NumberOf[Next1] % U32 ELSE levels
      /\ given' = given \cup {Word} /\ value' = WithValue(Word, Next1)
  BY DEF TakeCount
<1>2. CASE Word = "--max-levels"
  <2>1. "--max-levels" \in DOMAIN value' /\ value'["--max-levels"] = Next1
    BY <1>1, <1>2 DEF WithValue
  <2> QED BY <1>1, <1>2, <2>1 DEF DepthTaken
<1>3. CASE Word # "--max-levels"
  <2>1. "--max-levels" \in given' <=> "--max-levels" \in given
    BY <1>1, <1>3
  <2>2. "--max-levels" \in DOMAIN value =>
          "--max-levels" \in DOMAIN value' /\ value'["--max-levels"] = value["--max-levels"]
    BY <1>1, <1>3 DEF WithValue
  <2>3. levels' = levels
    BY <1>1, <1>3
  <2> QED BY <2>1, <2>2, <2>3 DEF DepthTaken
<1> QED
  BY <1>2, <1>3

LEMMA DepthKeeps ==
  ASSUME DepthInv, Next
  PROVE  DepthInv'
<1>1. CASE StartExport
  <2>1. mode = "main" /\ mode' = "export" /\ given' = given /\ levels' = levels
    BY <1>1 DEF StartExport, Go, Taken
  <2> QED BY <2>1 DEF DepthInv, DepthTaken
<1>2. CASE mode' \notin {"main", "export", "package"}
  BY <1>2 DEF DepthInv
<1>3. CASE Fail \/ Succeed
  BY <1>3 DEF DepthInv, Fail, Succeed, End
<1>4. CASE TakeCount /\ ~ Fail
  <2>1. mode = "export" /\ mode' = mode
    BY <1>4 DEF TakeCount, Parsing, Stay
  <2>2. DepthTaken'
    BY <1>4, <2>1, CountsAreDepths DEF DepthInv
  <2> QED BY <2>1, <2>2 DEF DepthInv
<1>5. CASE (TakeExportOutput \/ TakeProfile \/ TakeExportFlag \/ TakeInput("export")) /\ ~ Fail
  <2>1. /\ mode = "export" /\ mode' = mode /\ levels' = levels /\ value' = value
        /\ \/ given' = given
           \/ given' = given \cup {Word} /\ Word \in ExportFlags \cup {"--profile"}
    BY <1>5 DEF TakeExportOutput, TakeProfile, TakeExportFlag, TakeInput, Parsing, Stay
  <2>2. "--max-levels" \notin ExportFlags \cup {"--profile"}
    BY DEF ExportFlags
  <2>3. "--max-levels" \in given' <=> "--max-levels" \in given
    BY <2>1, <2>2
  <2> QED BY <2>1, <2>3, DepthStays DEF DepthInv
<1>6. CASE EndOfExportWords /\ ~ Fail
  <2>1. /\ mode = "export" /\ mode' = "package"
        /\ levels' = levels /\ value' = value /\ given' = given
    BY <1>6 DEF EndOfExportWords, Go, Taken
  <2> QED BY <2>1, DepthStays DEF DepthInv
<1>7. CASE \/ StartMcp \/ StartVerb \/ StartPlain
           \/ TakeValueOption \/ TakeFlag \/ TakeHelp \/ TakeInput("parse") \/ EndOfWords
           \/ Read \/ WriteJson \/ WriteSvg \/ WritePng \/ Package
  <2>1. Fail \/ Succeed \/ mode' \notin {"main", "export", "package"}
    BY <1>7 DEF StartMcp, StartVerb, StartPlain, TakeValueOption, TakeFlag, TakeHelp, TakeInput,
         EndOfWords, Read, WriteJson, WriteSvg, WritePng, Package, Write, End, Go, Stay, Parsing
  <2> QED BY <1>2, <1>3, <2>1
<1>8. CASE AnswerVersion \/ RefuseUnknown \/ RefuseUnusedOptions \/ Summarise \/ RefuseExtension
           \/ AnswerExportHelp \/ RefuseExportUnknown
  BY <1>3, <1>8 DEF AnswerVersion, RefuseUnknown, RefuseUnusedOptions, Summarise, RefuseExtension,
     AnswerExportHelp, RefuseExportUnknown
<1> QED
  BY <1>1, <1>3, <1>4, <1>5, <1>6, <1>7, <1>8 DEF Next

LEMMA CastKeepsWhatFits ==
  ASSUME NEW n \in Nat, NEW w \in Nat \ {0}
  PROVE  n % w = n <=> n < w
OBVIOUS

LEMMA DepthsAreAsAsked ==
  ASSUME DepthTaken
  PROVE  DepthIsAsAsked
<1>1. CASE "--max-levels" \in given
  <2>1. Depth \in Nat /\ U32 \in Nat \ {0} /\ levels = Depth % U32
    BY <1>1, NumbersAssumption DEF DepthTaken, Depth
  <2>2. Depth % U32 = Depth <=> Depth < U32
    BY <2>1, CastKeepsWhatFits
  <2> QED BY <1>1, <2>1, <2>2 DEF DepthIsAsAsked
<1>2. CASE "--max-levels" \notin given
  BY <1>2 DEF DepthTaken, DepthIsAsAsked
<1> QED
  BY <1>1, <1>2

(* An option the output has no use for is an error (main.rs 629): a        *)
(* command that succeeds has looked at every option it was given; and an   *)
(* export's tiles go as deep as was asked last, where a u32 holds it.      *)
THEOREM OptionsAreUsedOrRefused == VerbSpec => OptionsAreUsed
<1> DEFINE Uses ==
      exit = "no" /\ exit' = "success" /\ mode \in {"write", "package"} =>
        /\ given \ {"-o"} \subseteq used'
        /\ mode = "package" => DepthIsAsAsked
<1>1. VerbInit => DepthInv
  BY DEF VerbInit, Init, DepthInv
<1>2. VerbInv /\ DepthInv /\ [VerbNext]_<<vars, verb_vars>> => DepthInv'
  <2>1. DepthInv /\ UNCHANGED vars => DepthInv'
    BY DEF DepthInv, DepthTaken, vars
  <2> QED BY <2>1, DepthKeeps DEF VerbNext, vars
<1>3. CommandInv /\ DepthInv /\ [Next]_vars => [Uses]_vars
  BY WritersUseTheirOptions, DepthsAreAsAsked DEF DepthInv
<1>4. VerbInv /\ DepthInv /\ [VerbNext]_<<vars, verb_vars>> => [Uses]_vars
  BY <1>3 DEF VerbInv, VerbNext
<1>5. (VerbSpec => [][Uses]_vars) <=> (VerbSpec => OptionsAreUsed)
  BY DEF OptionsAreUsed
<1> HIDE DEF Uses
<1> QED
  BY <1>1, <1>2, <1>4, <1>5, VerbInvHolds, PTL DEF VerbSpec

=============================================================================
