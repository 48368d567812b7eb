---------------------------- MODULE MCCommandLine ----------------------------
(* Every line of up to three words of a small vocabulary, and every line   *)
(* that names an input and an output with up to two more options; each     *)
(* also after `export`.  Every verb with its required arguments and one    *)
(* more, or one twice, of every word; and the same of a client's objects,  *)
(* with one value exchanged or left out.  A u32 counts to 8 here.          *)
EXTENDS VerbArguments

MCNumberOf == [w \in {"0", "3", "8"} |-> IF w = "0" THEN 0 ELSE IF w = "3" THEN 3 ELSE 8]
MCFloats == {"0", "3", "05", "1.5", "5.0", "-5"}
MCNonNegatives == MCFloats \ {"-5"}
MCPositives == MCNonNegatives \ {"0"}
MCWholes == MCFloats \ {"1.5"}
MCU64s == {"0", "3", "05"}
MCIds == {"0", "3"}
MCListed == {"word", "other"}
MCColors == {"#aabbcc"}
MCJsonTexts == {"3", "{}"}
MCFiles == {"@file"}
MCSplitAt ==
  [w \in {"word,word", "word,other", "0,0,3,3", "3,3,0,0", "0,0,3"} |->
     CASE w = "word,word" -> <<"word", "word">> [] w = "word,other" -> <<"word", "other">>
       [] w = "0,0,3,3" -> <<"0", "0", "3", "3">> [] w = "3,3,0,0" -> <<"3", "3", "0", "0">>
       [] OTHER -> <<"0", "0", "3">>]
MCBoxes == {<<"0", "0", "3", "3">>}

Words(n, vocabulary) == UNION {[1 .. k -> vocabulary] : k \in 0 .. n}
Loose == Words(3, {"drawing", "json", "-o", "--stroke", "--pretty", "-h", "-V", "--unknown", "mcp",
                   "summarize", "good", ""})
PlainUnits == {<<o, v>> : o \in ValueOptions \ {"-o"}, v \in {"good", "bad"}}
              \cup {<<o>> : o \in Flags \cup {"-h", "--unknown", "drawing"}}
              \cup {<<"-o", "png">>, <<"-o">>}
ExportUnits == {<<o, v>> : o \in CountOptions \cup {"--profile"}, v \in {"0", "3", "8", "good"}}
               \cup {<<o>> : o \in ExportFlags \cup {"-h", "--pretty", "drawing", "--max-tiles", "--profile"}}
               \cup {<<"-o">>, <<"-o", "json">>}
UpToTwo(units) == {<<>>} \cup units \cup {u \o v : u \in units, v \in units}

GoodWord(kind) ==
  CASE kind = "json" -> "{}" [] kind = "id" -> "3" [] kind = "choice" -> "word" [] kind = "color" -> "#aabbcc"
    [] kind = "window" -> "0,0,3,3" [] kind = "choices" -> "word,other" [] kind = "text" -> "good"
    [] kind = "path" -> "drawing" [] OTHER -> "3"
RequiredWords(v) ==
  LET required == SelectSeq(Params(v), LAMBDA p : p.required)
      Unit(p) == IF p.positional THEN <<"drawing">> ELSE <<p.name, GoodWord(p.kind)>>
      ws[k \in 0 .. Len(required)] == IF k = 0 THEN <<>> ELSE ws[k - 1] \o Unit(required[k])
  IN  ws[Len(required)]
Values1 == MCFloats \cup MCListed \cup MCColors \cup MCJsonTexts \cup MCFiles \cup DOMAIN MCSplitAt \cup {"", "good"}
VerbUnits(v) ==
  {<<o, w>> : o \in FlagsOf(v), w \in Values1}
  \cup {<<o>> : o \in FlagsOf(v) \cup {"-h", "--pretty", "--unknown", "-5", "drawing"}}
  \cup {<<o, "--pretty", w>> : o \in FlagsOf(v), w \in {"3"}}
VerbLines ==
  UNION {{<<v>> \o RequiredWords(v) \o u : u \in VerbUnits(v)} \cup {<<v>> \o u \o RequiredWords(v) : u \in VerbUnits(v)}
         \cup {<<v>> \o u : u \in VerbUnits(v)} : v \in VerbNames}

MCCommandLines ==
  Loose \cup VerbLines
  \cup {<<"drawing">> \o u : u \in UpToTwo(PlainUnits)}
  \cup {<<"drawing", "-o", o>> \o u : o \in {"json", "svg", "png", "txt"}, u \in UpToTwo(PlainUnits)}
  \cup {<<"export", n, "-o", "dir">> \o u : n \in {"drawing", "json"}, u \in UpToTwo(ExportUnits)}
  \cup {<<"export">> \o u : u \in UpToTwo(ExportUnits)}

JsonValues ==
  {Num(w) : w \in MCFloats} \cup {Str(w) : w \in Values1} \cup {True, [t |-> "null", v |-> "null"]}
  \cup {Arr(s) : s \in {<<>>, <<Str("word")>>, <<Str("word"), Str("word")>>, <<Num("3")>>,
                       <<Num("0"), Num("0"), Num("3"), Num("3")>>, <<Num("3"), Num("0"), Num("0"), Num("3")>>}}
GoodObject(v) ==
  [n \in {p.name : p \in {q \in ParamSet(v) : q.required}} |->
     IF KindOf(v, n) \in {"path", "text", "id", "json"} THEN Str(GoodWord(KindOf(v, n))) ELSE Num("3")]
ObjectsOf(v) ==
  {[n \in DOMAIN GoodObject(v) \cup {m} |-> IF n = m THEN json ELSE GoodObject(v)[n]]
     : m \in Names(v) \cup {"--unknown"}, json \in JsonValues}
  \cup {[n \in DOMAIN GoodObject(v) \ {m} |-> GoodObject(v)[n]] : m \in DOMAIN GoodObject(v)}
MCToolCalls ==
  UNION {{[verb |-> v, args |-> o] : o \in ObjectsOf(v)} : v \in VerbNames}
  \cup {[verb |-> "no tool", args |-> <<>>]}
=============================================================================
