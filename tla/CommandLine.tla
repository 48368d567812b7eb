----------------------------- MODULE CommandLine -----------------------------
(***************************************************************************)
(* The command line of uncad: `uncad <input> [-o <output>] [options]`, and *)
(* `uncad export <input> -o <dir> [options]`.  The words of the command    *)
(* line are taken one by one; then the input is read and the output        *)
(* written.  `uncad <verb>` and `uncad mcp` start here and go on as        *)
(* VerbArguments and VerbServer say.                                       *)
(*                                                                         *)
(* A word is an option, or a value: "good" where every option accepts it,  *)
(* "json", "svg", "png" for a name with that extension, a number.          *)
(***************************************************************************)
EXTENDS Integers, Sequences, FiniteSets

CONSTANTS
  CommandLines,  \* the argument lists looked at
  Verbs,         \* their names; either spelling (`hit-test`, `hit_test`) is one word here
  NumberOf,      \* the words that are whole numbers, and which
  U32            \* 2^32: what a u32 counts to

ASSUME WordsAssumption == \A line \in CommandLines : line \in Seq(STRING)
ASSUME NumbersAssumption == U32 \in Nat \ 0 .. 5 /\ NumberOf \in [DOMAIN NumberOf -> Nat]

ImageValueOptions == {"--space", "--window", "--padding", "--paper", "--stroke"}
ImageFlags == {"--no-trim", "--include-hidden"}
PngValueOptions == {"--scale", "--fit", "--max-edge", "--background"}
ValueOptions == {"-o"} \cup ImageValueOptions \cup PngValueOptions
Flags == ImageFlags \cup {"--pretty"}
CountOptions == {"--max-levels", "--max-tiles"}
ExportFlags == {"--no-sheets", "--svg"}
(* Every word that starts with a dash.                                     *)
Options == ValueOptions \cup Flags \cup CountOptions \cup ExportFlags
           \cup {"-h", "-V", "--profile", "--unknown"}

VARIABLES
  argv,
  mode,     \* "main", "parse", "run", "write", "export", "package", "ended"
  i,        \* the next word
  input, output,   \* <<word>> as taken, <<>> where none is
  given,    \* the options taken
  value,    \* and their values, the last where one is given twice
  help,
  levels,   \* ExportOptions::max_levels
  used,     \* the options a writer has looked at
  disk,     \* the output: "as before", "cut short", "written"
  exit      \* "no", "success", "failure", "serving", "verb"
vars == <<argv, mode, i, input, output, given, value, help, levels, used, disk, exit>>

Word == argv[i]
Value(option) == IF option \in DOMAIN value THEN value[option] ELSE "good"
WithValue(option, v) == [o \in DOMAIN value \cup {option} |-> IF o = option THEN v ELSE value[o]]

Init ==
  /\ argv \in CommandLines
  /\ mode = "main" /\ i = 1
  /\ input = <<>> /\ output = <<>> /\ given = {} /\ value = <<>> /\ help = FALSE
  /\ levels = 5
  /\ used = {} /\ disk = "as before" /\ exit = "no"

Taken == <<input, output, given, value, help, levels>>

End(how) == mode' = "ended" /\ exit' = how
Fail == End("failure") /\ UNCHANGED <<argv, i, Taken, used, disk>>
Succeed == End("success") /\ UNCHANGED <<argv, i, Taken, used, disk>>
Go(to) == mode' = to /\ UNCHANGED <<argv, Taken, used, disk, exit>>

-----------------------------------------------------------------------------
(* main: which command this is.                                            *)
First == IF argv = <<>> THEN "" ELSE argv[1]
AsksVersion == \E k \in DOMAIN argv : argv[k] = "-V"

AnswerVersion == mode = "main" /\ AsksVersion /\ Succeed
StartMcp ==
  /\ mode = "main" /\ ~ AsksVersion /\ First = "mcp"
  /\ IF Len(argv) > 1 THEN Fail
     ELSE End("serving") /\ UNCHANGED <<argv, i, Taken, used, disk>>
StartVerb ==
  /\ mode = "main" /\ ~ AsksVersion /\ First \in Verbs
  /\ End("verb") /\ UNCHANGED <<argv, i, Taken, used, disk>>
StartExport ==
  /\ mode = "main" /\ ~ AsksVersion /\ First = "export"
  /\ i' = 2 /\ Go("export")
StartPlain ==
  /\ mode = "main" /\ ~ AsksVersion /\ First \notin Verbs \cup {"mcp", "export"}
  /\ i' = 1 /\ Go("parse")

-----------------------------------------------------------------------------
(* parse_args: one word, or an option and its value.                       *)
Parsing(m) == mode = m /\ i <= Len(argv)
TakesNext == i < Len(argv)
Next1 == argv[i + 1]
Stay == UNCHANGED <<argv, mode, used, disk, exit>>

TakeValueOption ==
  /\ Parsing("parse") /\ Word \in ValueOptions
  /\ IF ~ TakesNext THEN Fail
     ELSE /\ given' = given \cup {Word}
          /\ IF Word = "-o" THEN output' = <<Next1>> /\ value' = value
             ELSE output' = output /\ value' = WithValue(Word, Next1)
          /\ i' = i + 2
          /\ Stay /\ UNCHANGED <<input, help, levels>>
TakeFlag ==
  /\ Parsing("parse") /\ Word \in Flags
  /\ given' = given \cup {Word}
  /\ i' = i + 1
  /\ Stay /\ UNCHANGED <<input, output, value, help, levels>>
TakeHelp ==
  /\ Parsing("parse") /\ Word = "-h"
  /\ help' = TRUE /\ i' = i + 1
  /\ Stay /\ UNCHANGED <<input, output, given, value, levels>>
RefuseUnknown ==
  /\ Parsing("parse") /\ Word \in Options \ (ValueOptions \cup Flags \cup {"-h"})
  /\ Fail
(* A slip: the last of two inputs is taken.                                *)
TakeLastInput(m) ==
  /\ Parsing(m) /\ Word \notin Options
  /\ input' = <<Word>> /\ i' = i + 1
  /\ Stay /\ UNCHANGED <<output, given, value, help, levels>>

TakeInput(m) ==
  /\ Parsing(m) /\ Word \notin Options
  /\ IF input # <<>> THEN Fail
     ELSE /\ input' = <<Word>> /\ i' = i + 1
          /\ Stay /\ UNCHANGED <<output, given, value, help, levels>>

(* Help that is asked for is the answer; without an input there is none.   *)
EndOfWords ==
  /\ mode = "parse" /\ i > Len(argv)
  /\ IF help THEN Succeed
     ELSE IF input = <<>> THEN Fail
     ELSE i' = i /\ Go("run")

-----------------------------------------------------------------------------
(* run: options the output has no use for are refused before the input is  *)
(* read; an extension no writer has is refused only after.                 *)
(* A slip: an SVG takes the options of a PNG, and does nothing with them.  *)
UsableByAnyImage ==
  CASE output = <<>> -> {}
    [] output = <<"json">> -> {"--pretty"}
    [] output \in {<<"svg">>, <<"png">>} -> ImageValueOptions \cup ImageFlags \cup PngValueOptions
    [] OTHER -> Options

Usable ==
  CASE output = <<>> -> {}
    [] output = <<"json">> -> {"--pretty"}
    [] output = <<"svg">> -> ImageValueOptions \cup ImageFlags
    [] output = <<"png">> -> ImageValueOptions \cup ImageFlags \cup PngValueOptions
    [] OTHER -> Options
RefuseUnusedOptions == mode = "run" /\ ~ (given \ {"-o"} \subseteq Usable) /\ Fail

Read ==
  /\ mode = "run" /\ given \ {"-o"} \subseteq Usable
  /\ \/ Fail
     \/ i' = i /\ Go("write")

Summarise == mode = "write" /\ output = <<>> /\ Succeed
RefuseExtension == mode = "write" /\ output \notin {<<>>, <<"json">>, <<"svg">>, <<"png">>} /\ Fail

(* A write that fails may have cut the old file short.                     *)
Write ==
  /\ \/ End("success") /\ disk' = "written"
     \/ End("failure") /\ disk' \in {"as before", "cut short"}
  /\ UNCHANGED <<argv, i, Taken>>
Look(options) == used' = used \cup (options \cap given)

WriteJson == mode = "write" /\ output = <<"json">> /\ Look({"--pretty"}) /\ Write

SvgOptionsAreGood ==
  /\ ~ ("--window" \in given /\ "--no-trim" \in given)
  /\ \A o \in {"--space", "--window", "--paper", "--padding"} : Value(o) = "good"
SvgOptions == {"--space", "--window", "--paper", "--padding", "--no-trim", "--include-hidden"}
StrokeIsGood == Value("--stroke") = "good"
WriteSvg ==
  /\ mode = "write" /\ output = <<"svg">>
  /\ IF SvgOptionsAreGood /\ StrokeIsGood
     THEN Look(SvgOptions \cup {"--stroke"}) /\ Write
     ELSE Fail

(* An image too large for --max-edge is refused by the renderer.           *)
PngOptionsAreGood ==
  /\ ~ ("--scale" \in given /\ "--fit" \in given)
  /\ \A o \in {"--scale", "--fit", "--max-edge", "--background"} : Value(o) = "good"
WritePng ==
  /\ mode = "write" /\ output = <<"png">>
  /\ \/ /\ PngOptionsAreGood /\ StrokeIsGood /\ SvgOptionsAreGood
        /\ Look(SvgOptions \cup PngValueOptions \cup {"--stroke"}) /\ Write
     \/ Fail
-----------------------------------------------------------------------------
(* run_export.                                                             *)
TakeExportOutput ==
  /\ Parsing("export") /\ Word = "-o"
  /\ IF ~ TakesNext THEN Fail
     ELSE /\ output' = <<Next1>> /\ i' = i + 2
          /\ Stay /\ UNCHANGED <<input, given, value, help, levels>>
TakeProfile ==
  /\ Parsing("export") /\ Word = "--profile"
  /\ IF ~ TakesNext THEN Fail
     ELSE IF Next1 # "good" THEN Fail
     ELSE /\ given' = given \cup {Word} /\ i' = i + 2
          /\ Stay /\ UNCHANGED <<input, output, value, help, levels>>
(* A slip: a number is not checked where it is cast.                       *)
TakeCountAsIs ==
  /\ Parsing("export") /\ Word \in CountOptions
  /\ IF ~ TakesNext \/ Next1 \notin DOMAIN NumberOf THEN Fail
     ELSE /\ levels' = IF Word = "--max-levels" THEN NumberOf[Next1] ELSE levels
          /\ given' = given \cup {Word} /\ value' = WithValue(Word, Next1)
          /\ i' = i + 2
          /\ Stay /\ UNCHANGED <<input, output, help>>

TakeCount ==
  /\ Parsing("export") /\ Word \in CountOptions
  /\ IF ~ TakesNext THEN Fail
     ELSE IF Next1 \notin DOMAIN NumberOf THEN Fail
     ELSE /\ levels' = IF Word = "--max-levels" THEN NumberOf[Next1] % U32 ELSE levels
          /\ given' = given \cup {Word} /\ value' = WithValue(Word, Next1)
          /\ i' = i + 2
          /\ Stay /\ UNCHANGED <<input, output, help>>
TakeExportFlag ==
  /\ Parsing("export") /\ Word \in ExportFlags
  /\ given' = given \cup {Word} /\ i' = i + 1
  /\ Stay /\ UNCHANGED <<input, output, value, help, levels>>
AnswerExportHelp == Parsing("export") /\ Word = "-h" /\ Succeed
RefuseExportUnknown ==
  /\ Parsing("export")
  /\ Word \in Options \ ({"-o", "--profile", "-h"} \cup CountOptions \cup ExportFlags)
  /\ Fail
(* The input is read by parse_input: a drawing, never model JSON.          *)
EndOfExportWords ==
  /\ mode = "export" /\ i > Len(argv)
  /\ IF input = <<>> \/ output = <<>> \/ input = <<"json">> THEN Fail
     ELSE i' = i /\ (Fail \/ Go("package"))
Package ==
  /\ mode = "package"
  /\ Look(Options) /\ Write

Next ==
  \/ AnswerVersion \/ StartMcp \/ StartVerb \/ StartExport \/ StartPlain
  \/ TakeValueOption \/ TakeFlag \/ TakeHelp \/ RefuseUnknown
  \/ TakeInput("parse") \/ EndOfWords
  \/ RefuseUnusedOptions \/ Read \/ Summarise \/ RefuseExtension
  \/ WriteJson \/ WriteSvg \/ WritePng
  \/ TakeExportOutput \/ TakeProfile \/ TakeCount \/ TakeExportFlag
  \/ AnswerExportHelp \/ RefuseExportUnknown \/ TakeInput("export")
  \/ EndOfExportWords \/ Package
Spec == Init /\ [][Next]_vars
-----------------------------------------------------------------------------
(* Every state holds values of its kind: --max-levels within a u32 too.    *)
TypeOK ==
  /\ argv \in CommandLines
  /\ mode \in {"main", "parse", "run", "write", "export", "package", "ended"}
  /\ i \in 1 .. Len(argv) + 1
  /\ {input, output} \subseteq {<<>>} \cup {<<argv[k]>> : k \in DOMAIN argv}
  /\ given \subseteq Options /\ DOMAIN value \subseteq given /\ used \subseteq given
  /\ help \in BOOLEAN /\ levels \in 0 .. U32 - 1
  /\ disk \in {"as before", "cut short", "written"}
  /\ exit \in {"no", "success", "failure", "serving", "verb"}

(* The tiles of an export go as deep as was asked last, exactly where a    *)
(* u32 counts that far: from U32 on the cast says another depth.           *)
Depth == NumberOf[value["--max-levels"]]
DepthIsAsAsked ==
  IF "--max-levels" \in given THEN levels = Depth <=> Depth < U32 ELSE levels = 5

(* main.rs:629: an option the requested output has no use for is an error; *)
(* so a command that succeeds has looked at every option it was given, and *)
(* an export is as deep as was asked, or wrapped around (main.rs:839).     *)
OptionsAreUsed ==
  [][exit = "no" /\ exit' = "success" /\ mode \in {"write", "package"} =>
       /\ given \ {"-o"} \subseteq used'
       /\ mode = "package" => DepthIsAsAsked]_vars

(* Nothing on the command line is passed over: when the drawing is read,   *)
(* each word is the command, the one input, an option taken or its value.  *)
IsValueOf(k) == k > 1 /\ argv[k - 1] \in ValueOptions \cup CountOptions \cup {"--profile"}
NoWordIsDropped ==
  mode \in {"run", "write", "package"} =>
    \A k \in DOMAIN argv :
      \/ k = 1 /\ argv[k] = "export"
      \/ <<argv[k]>> = input \/ argv[k] \in {"-o"} \cup given
      \/ IsValueOf(k)
=============================================================================
