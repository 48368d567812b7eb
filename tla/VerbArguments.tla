---------------------------- MODULE VerbArguments ----------------------------
(***************************************************************************)
(* The arguments of a verb, from either front end: words after the verb on *)
(* the command line (parse_cli), or the argument object of a client of     *)
(* `uncad mcp`.  Both are checked by Verb::check before the verb runs, and *)
(* the client has the verb's input schema to go by.  CommandLine says how  *)
(* a command line comes to a verb or to the server; VerbCalls, what a verb *)
(* that is called goes on to do.                                           *)
(*                                                                         *)
(* A word is known by the sets it is in: whether it reads as a number, as  *)
(* an ID, as one of the words listed.                                      *)
(***************************************************************************)
EXTENDS CommandLine

CONSTANTS
  Floats,        \* words that read as finite f64s, and numbers of JSON
  NonNegatives, Positives,
  Wholes,        \* what a JSON schema calls integers, and U64s, what as_u64 does
  U64s,
  Ids,           \* canonical decimal strings
  Listed,        \* words of the lists of Choice and Choices
  Colors, JsonTexts, Files,
  SplitAt,       \* the words at whose commas there are more than one, split
  Boxes,         \* four numbers in order
  ToolCalls      \* what a client asks: a verb and an argument object

ASSUME NumberWordsAssumption ==
  Positives \subseteq NonNegatives /\ NonNegatives \subseteq Floats /\ U64s \subseteq Wholes \cap NonNegatives
ASSUME BoxesAssumption == Boxes \subseteq [1 .. 4 -> Floats]

(* --- The verb table: a parameter is given by its place or by its flag.   *)
Given(name, kind) == [name |-> name, kind |-> kind, required |-> FALSE, positional |-> FALSE]
Needed(name, kind) == [Given(name, kind) EXCEPT !.required = TRUE]
Placed(name) == [Needed(name, "path") EXCEPT !.positional = TRUE]

Pairing ==
  <<Given("--matching", "choice"), Given("--length-tolerance", "nonnegative"),
    Given("--angle-tolerance", "nonnegative"), Given("--min-similarity", "nonnegative"),
    Given("--min-margin", "nonnegative"), Given("--max-pairs", "integer"), Given("--omit", "choices")>>
Summarize ==
  <<Placed("input"), Given("--type", "text"), Given("--layer", "text"), Given("--within", "window"),
    Given("--space", "choice"), Given("--id", "id"), Given("--limit", "integer"),
    Given("--detail", "flag"), Given("--omit", "choices")>>
HitTest ==
  <<Placed("input"), Needed("--x", "number"), Needed("--y", "number"),
    Needed("--tolerance", "nonnegative"), Given("--limit", "integer")>>
Relate == <<Placed("input"), Given("--tolerance", "positive"), Given("--id", "id")>>
CoincidentEnds ==
  <<Placed("input"), Needed("--id", "id"), Needed("--anchor", "text"), Needed("--join-gap-um", "integer")>>
Diff == <<Placed("before"), Placed("after")>> \o Pairing
SetVerb ==
  <<Placed("input"), Needed("--id", "id"), Needed("--path", "text"), Needed("--value", "json"),
    Needed("--output", "path"), Given("--omit", "choices")>>
Redline ==
  <<Placed("before"), Placed("after"), Needed("--output", "path"), Given("--fit", "integer"),
    Given("--stroke", "positive"), Given("--paper", "choice"), Given("--frame", "choice"),
    Given("--proposal-color", "color")>> \o Pairing
Balloon ==
  <<Placed("input"), Needed("--balloons", "json"), Needed("--output", "path"),
    Given("--color", "color"), Given("--size", "positive"), Given("--space", "choice")>>
Params(v) ==
  CASE v = "summarize" -> Summarize [] v = "hit-test" -> HitTest [] v = "relate" -> Relate
    [] v = "coincident-ends" -> CoincidentEnds [] v = "diff" -> Diff [] v = "set" -> SetVerb
    [] v = "redline" -> Redline [] v = "balloon" -> Balloon
VerbNames == {"summarize", "hit-test", "relate", "coincident-ends", "diff", "set", "redline", "balloon"}
ParamSet(v) == {Params(v)[k] : k \in DOMAIN Params(v)}
Positionals(v) == {k \in DOMAIN Params(v) : Params(v)[k].positional}
FlagsOf(v) == {p.name : p \in {q \in ParamSet(v) : ~ q.positional}}
KindOf(v, name) == (CHOOSE p \in ParamSet(v) : p.name = name).kind
Dashed(w) == w \in Options \cup UNION {FlagsOf(v) : v \in VerbNames} \/ w \in Floats \ NonNegatives

ASSUME VerbsAssumption ==
  /\ Verbs = VerbNames
  /\ \A v \in VerbNames : Positionals(v) \in {1 .. 1, 1 .. 2}  \* they come first

VARIABLES
  stage,   \* "none", "words", "check", "called", "refused", "helped"
  verb,
  at,      \* the place on the command line
  placed,  \* positional parameters taken
  args     \* the argument object: a JSON value under each name
verb_vars == <<stage, verb, at, placed, args>>

VerbInit ==
  /\ Init
  /\ stage = "none" /\ verb = "" /\ at = 1 /\ placed = 0 /\ args = <<>>

(* JSON values.                                                            *)
Str(w) == [t |-> "string", v |-> w]
Num(w) == [t |-> "number", v |-> w]
Arr(s) == [t |-> "array", items |-> s]
True == [t |-> "boolean", v |-> "true"]
IsStr(json) == json.t = "string"
IsNum(json, S) == json.t = "number" /\ json.v \in S

-----------------------------------------------------------------------------
(* run_verb, and parse_cli: the words one by one.                          *)
Refuse == stage' = "refused" /\ UNCHANGED <<verb, at, placed, args>>

AnswerVerbHelp ==
  /\ stage = "none" /\ exit = "verb" /\ \E k \in 2 .. Len(argv) : argv[k] = "-h"
  /\ stage' = "helped" /\ verb' = First
  /\ UNCHANGED <<at, placed, args>>

(* --pretty is how the answer is printed: it is taken out wherever it is.  *)
WordAfter(k) ==
  LET later == {j \in k + 1 .. Len(argv) : argv[j] # "--pretty"}
  IN  IF later = {} THEN Len(argv) + 1 ELSE CHOOSE j \in later : \A l \in later : j <= l

StartWords ==
  /\ stage = "none" /\ exit = "verb" /\ \A k \in 2 .. Len(argv) : argv[k] # "-h"
  /\ stage' = "words" /\ verb' = First
  /\ at' = WordAfter(1)
  /\ UNCHANGED <<placed, args>>

AtWord == stage = "words" /\ at <= Len(argv)
VerbWord == IF argv[at] = "-o" THEN "--output" ELSE argv[at]
Insert(name, json) ==
  args' = [n \in DOMAIN args \cup {name} |-> IF n = name THEN json ELSE args[n]]

TakeBareFlag ==
  /\ AtWord /\ VerbWord \in FlagsOf(verb) /\ KindOf(verb, VerbWord) = "flag"
  /\ Insert(VerbWord, True) /\ at' = WordAfter(at)
  /\ UNCHANGED <<stage, verb, placed>>

(* A word as the value it is for a parameter of a kind, or none.           *)
Parts(w) == IF w \in DOMAIN SplitAt THEN SplitAt[w] ELSE <<w>>
NoValue == [t |-> "none"]
Valued(kind, raw) ==
  CASE kind \in {"number", "nonnegative", "positive"} -> IF raw \in Floats THEN Num(raw) ELSE NoValue
    [] kind = "integer" -> IF raw \in U64s THEN Num(raw) ELSE NoValue
    [] kind = "id"      -> IF raw \in Ids THEN Str(raw) ELSE NoValue
    [] kind = "window"  -> IF \A k \in DOMAIN Parts(raw) : Parts(raw)[k] \in Floats
                           THEN Arr([k \in DOMAIN Parts(raw) |-> Num(Parts(raw)[k])]) ELSE NoValue
    [] kind = "choices" -> Arr([k \in DOMAIN Parts(raw) |-> Str(Parts(raw)[k])])
    [] OTHER            -> Str(raw)

(* A JSON text is the value it says: what, no property asks.  A file of it *)
(* may be unreadable, or hold something else.                              *)
Values(kind, raw) ==
  IF kind # "json" THEN {Valued(kind, raw)}
  ELSE IF raw \in Files THEN {Str("from a file"), NoValue}
  ELSE IF raw \in JsonTexts THEN {Str(raw)} ELSE {NoValue}

TakeFlagValue ==
  /\ AtWord /\ VerbWord \in FlagsOf(verb) /\ KindOf(verb, VerbWord) # "flag"
  /\ IF WordAfter(at) > Len(argv) THEN Refuse
     ELSE \E json \in Values(KindOf(verb, VerbWord), argv[WordAfter(at)]) :
            IF json = NoValue THEN Refuse
            ELSE /\ Insert(VerbWord, json) /\ at' = WordAfter(WordAfter(at))
                 /\ UNCHANGED <<stage, verb, placed>>

RefuseVerbUnknown == AtWord /\ Dashed(VerbWord) /\ VerbWord \notin FlagsOf(verb) /\ Refuse

TakePositional ==
  /\ AtWord /\ ~ Dashed(VerbWord)
  /\ IF placed + 1 \notin Positionals(verb) THEN Refuse
     ELSE /\ Insert(Params(verb)[placed + 1].name, Str(VerbWord))
          /\ placed' = placed + 1 /\ at' = WordAfter(at)
          /\ UNCHANGED <<stage, verb>>

EndOfVerbWords ==
  /\ stage = "words" /\ at > Len(argv)
  /\ stage' = "check" /\ UNCHANGED <<verb, at, placed, args>>

(* The other front end: a call of a tool, the verb's name and an object.   *)
CallTool ==
  /\ stage = "none" /\ exit = "serving"
  /\ \E c \in ToolCalls :
       IF c.verb \in VerbNames THEN stage' = "check" /\ verb' = c.verb /\ args' = c.args
       ELSE stage' = "refused" /\ UNCHANGED <<verb, args>>
  /\ UNCHANGED <<at, placed>>

-----------------------------------------------------------------------------
(* Verb::check.                                                            *)
IsBox(json) ==
  /\ json.t = "array" /\ \A k \in DOMAIN json.items : IsNum(json.items[k], Floats)
  /\ [k \in DOMAIN json.items |-> json.items[k].v] \in Boxes
IsFourNumbers(json) ==
  json.t = "array" /\ DOMAIN json.items = 1 .. 4 /\ \A k \in DOMAIN json.items : IsNum(json.items[k], Floats)
IsListOfDistinct(json) ==
  /\ json.t = "array" /\ \A k \in DOMAIN json.items : IsStr(json.items[k]) /\ json.items[k].v \in Listed
  /\ \A k, l \in DOMAIN json.items : json.items[k] = json.items[l] => k = l

FitsOneValue(kind, json) ==
  CASE kind \in {"path", "text"} -> IsStr(json) /\ json.v # ""
    [] kind = "integer"     -> IsNum(json, U64s)
    [] kind = "id"          -> IsStr(json) /\ json.v \in Ids
    [] kind = "json"        -> TRUE
    [] kind = "number"      -> IsNum(json, Floats)
    [] kind = "nonnegative" -> IsNum(json, NonNegatives)
    [] kind = "positive"    -> IsNum(json, Positives)
    [] kind = "choice"      -> IsStr(json) /\ json.v \in Listed
    [] kind = "color"       -> IsStr(json) /\ json.v \in Colors
    [] kind = "flag"        -> json.t = "boolean"

(* A slip: a window is any four numbers.                                   *)
FitsUnordered(kind, json) ==
  CASE kind = "window"  -> IsFourNumbers(json)
    [] kind = "choices" -> IsListOfDistinct(json)
    [] OTHER            -> FitsOneValue(kind, json)

(* A slip: words of a list are not compared with one another.              *)
FitsRepeated(kind, json) ==
  CASE kind = "window"  -> IsBox(json)
    [] kind = "choices" -> json.t = "array" /\ \A k \in DOMAIN json.items : FitsOneValue("choice", json.items[k])
    [] OTHER            -> FitsOneValue(kind, json)

Fits(kind, json) ==
  CASE kind = "window"  -> IsBox(json)
    [] kind = "choices" -> IsListOfDistinct(json)
    [] OTHER            -> FitsOneValue(kind, json)

Names(v) == {p.name : p \in ParamSet(v)}
Check ==
  /\ stage = "check"
  /\ stage' = IF /\ DOMAIN args \subseteq Names(verb)
                 /\ \A p \in ParamSet(verb) :
                      IF p.name \in DOMAIN args THEN Fits(p.kind, args[p.name]) ELSE ~ p.required
              THEN "called" ELSE "refused"
  /\ UNCHANGED <<verb, at, placed, args>>

VerbNext ==
  \/ Next /\ UNCHANGED verb_vars
  \/ /\ \/ AnswerVerbHelp \/ StartWords \/ TakeBareFlag \/ TakeFlagValue \/ RefuseVerbUnknown
        \/ TakePositional \/ EndOfVerbWords \/ CallTool \/ Check
     /\ UNCHANGED vars
VerbSpec == VerbInit /\ [][VerbNext]_<<vars, verb_vars>>
-----------------------------------------------------------------------------
(* Verb::input_schema, as a client validates by it.                        *)
SchemaAllows(kind, json) ==
  CASE kind \in {"path", "text"} -> IsStr(json)
    [] kind = "integer"     -> IsNum(json, Wholes \cap NonNegatives)
    [] kind = "id"          -> IsStr(json) /\ json.v \in Ids
    [] kind = "json"        -> TRUE
    [] kind = "number"      -> IsNum(json, Floats)
    [] kind = "nonnegative" -> IsNum(json, NonNegatives)
    [] kind = "positive"    -> IsNum(json, Positives)
    [] kind = "choice"      -> IsStr(json) /\ json.v \in Listed
    [] kind = "color"       -> IsStr(json) /\ json.v \in Colors
    [] kind = "window"      -> IsFourNumbers(json)
    [] kind = "flag"        -> json.t = "boolean"
    [] kind = "choices"     -> IsListOfDistinct(json)
InputSchema(v, object) ==
  /\ DOMAIN object \subseteq Names(v)
  /\ \A p \in ParamSet(v) :
       IF p.name \in DOMAIN object THEN SchemaAllows(p.kind, object[p.name]) ELSE ~ p.required

(* What the verbs' own code makes of a value, with an expect or an Option  *)
(* that is passed over when it is None.                                    *)
Understood(kind, json) ==
  CASE kind \in {"path", "text", "choice"} -> IsStr(json)
    [] kind = "integer" -> IsNum(json, U64s)
    [] kind = "id"      -> IsStr(json) /\ json.v \in Ids
    [] kind = "json"    -> TRUE
    [] kind \in {"number", "nonnegative", "positive"} -> json.t = "number"
    [] kind = "color"   -> IsStr(json) /\ json.v \in Colors
    [] kind = "window"  -> IsBox(json)
    [] kind = "flag"    -> json.t = "boolean"
    [] kind = "choices" -> json.t = "array"

(* Every state holds values of its kind.                                   *)
VerbTypeOK ==
  /\ TypeOK
  /\ stage \in {"none", "words", "check", "called", "refused", "helped"}
  /\ verb \in {""} \cup VerbNames
  /\ at \in 1 .. Len(argv) + 1
  /\ placed \in 0 .. 2

(* The two front ends take the same arguments: whatever a verb is called   *)
(* with, from the command line too, its published schema allows.           *)
CalledBySchema == stage = "called" => InputSchema(verb, args)

(* No argument a verb is called with makes it panic, or is passed over in  *)
(* silence: each is a value its code understands.                          *)
CalledWithWhatItUnderstands ==
  stage = "called" =>
    /\ DOMAIN args \subseteq Names(verb)
    /\ \A p \in ParamSet(verb) : p.name \in DOMAIN args => Understood(p.kind, args[p.name])
=============================================================================
