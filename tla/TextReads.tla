------------------------------ MODULE TextReads ------------------------------
(***************************************************************************)
(* How the strings of one drawing become text (TextDecoder, dynapi).  A    *)
(* string is met at a place of the drawing and in one of six ways; the     *)
(* library hands it out, as a copy it has converted or as it is stored; it *)
(* is taken in the layout it has, and decoded; what could not be decoded   *)
(* is replaced and said in the read's warnings, which grow over the whole  *)
(* read.  The entities of a block are converted twice, so a string may be  *)
(* met again.                                                              *)
(*                                                                         *)
(* A string of 8-bit bytes in a codepage with tables is walked byte by     *)
(* byte: a byte or a pair of bytes makes a character, or the replacement   *)
(* where the tables have none.  Bytes are 0 .. 2 * Half - 1; those below   *)
(* Half are ASCII.  The tables are the set of codes they answer to.        *)
(* Escapes in the text (\U+XXXX) are undone after that, and not modelled.  *)
(***************************************************************************)
EXTENDS Integers, Sequences, FiniteSets

CONSTANTS
  Half,      \* 0x80
  Leads,     \* the bytes that open a pair in a double-byte codepage
  Table,     \* the codes, one byte or two, that have a character
  Places,    \* what a diagnostic calls a string by
  MaxLength, \* of a string
  Reads      \* strings met, at most

Byte == 0 .. 2 * Half - 1
High(b) == b >= Half
Strings == UNION {[1 .. n -> Byte] : n \in 0 .. MaxLength}

(* dos: GB2312 and Big5.  none: undefined, or past the library's tables.   *)
Codepages == {"utf8", "none", "single", "double", "gb2312", "big5"}
Tabled == {"single", "double", "gb2312", "big5"}

VARIABLES
  storage,   \* "wide": R2007 and later, "narrow": before
  codepage,
  reading,   \* the string being read
  handed,    \* what the library handed out for it
  raw,       \* how it was taken: "converted", "wide", "bytes"
  heap,      \* copies the library made that are not freed
  text,      \* its characters so far: the bytes of each, and whether it shows
  i,         \* the next byte
  unmapped,
  warnings,  \* in the order the strings were met
  reads
vars == <<storage, codepage, reading, handed, raw, heap, text, i, unmapped, warnings, reads>>
Drawing == <<storage, codepage>>

Char == [from : Nat, to : Nat, shown : BOOLEAN]
Warning == [place : Places, of : {"utf16", "utf8", "codepage"}, count : Nat]

(* A text field of an object the library finds, or of a struct within one; *)
(* an object's name; a table entry's; a header variable; a style override  *)
(* in extended data.                                                       *)
Ways == {"field", "embedded", "name", "entry", "header", "override"}
(* As Unicode, or UTF-8 for 8-bit bytes: good, good and with characters of *)
(* two UTF-16 units, or broken.                                            *)
Stored == [place : Places, way : Ways, bytes : Strings, unicode : {"good", "pairs", "broken"}]
Handed == [layout : {"converted", "wide", "bytes"}, copied : BOOLEAN]
Nothing == [place |-> "none"]
NotHanded == [layout |-> "none"]
Idle == reading = Nothing
Met == ~ Idle /\ raw = "none"
Decoding == ~ Idle /\ raw # "none"

Init ==
  /\ storage \in {"wide", "narrow"} /\ codepage \in Codepages
  /\ reading = Nothing /\ handed = NotHanded /\ raw = "none" /\ heap = 0
  /\ text = <<>> /\ i = 1 /\ unmapped = 0
  /\ warnings = <<>> /\ reads = 0

(* A text accessor converts what a wide drawing holds into a copy; the     *)
(* name of a table entry is a copy always; a struct within an object and   *)
(* extended data are no accessor's.                                        *)
StoredWidth == IF storage = "wide" THEN "wide" ELSE "bytes"
AsStored == [layout |-> StoredWidth, copied |-> FALSE]
Utf8Text == IF storage = "wide" THEN [layout |-> "converted", copied |-> TRUE] ELSE AsStored
DwgHandleName == [Utf8Text EXCEPT !.copied = TRUE]
HandOut(way) ==
  CASE way \in {"field", "name", "header"} -> Utf8Text
    [] way = "entry" -> DwgHandleName
    [] way \in {"embedded", "override"} -> AsStored

Meet ==
  /\ Idle /\ reads < Reads
  /\ \E s \in Stored :
       /\ s.unicode = "good" \/ \E k \in DOMAIN s.bytes : High(s.bytes[k])
       /\ s.unicode = "pairs" => storage = "wide"
       /\ reading' = s
       /\ handed' = HandOut(s.way)
       /\ heap' = IF HandOut(s.way).copied THEN heap + 1 ELSE heap
  /\ raw' = "none" /\ text' = <<>> /\ i' = 1 /\ unmapped' = 0
  /\ reads' = reads + 1
  /\ UNCHANGED <<Drawing, warnings>>

(* The layout a string is taken in, by what the reader knows of it: that   *)
(* it is a copy, or the width it would be stored in.                       *)
TakeText(stored) == IF handed.copied THEN "converted" ELSE stored
TableEntryName == IF storage = "wide" THEN "converted" ELSE "bytes"
StyleOverride == handed.layout   \* each item says
TakenAs ==
  CASE reading.way \in {"field", "name"} -> TakeText(StoredWidth)
    [] reading.way = "embedded" -> StoredWidth
    [] reading.way = "header"   -> TakeText("bytes")
    [] reading.way = "entry"    -> TableEntryName
    [] reading.way = "override" -> StyleOverride

Take ==
  /\ Met
  /\ raw' = TakenAs
  /\ heap' = IF handed.copied THEN heap - 1 ELSE heap
  /\ UNCHANGED <<Drawing, reading, handed, text, i, unmapped, warnings, reads>>

WithWarning(w) ==
  IF \E k \in DOMAIN warnings : warnings[k] = w THEN warnings ELSE Append(warnings, w)

-----------------------------------------------------------------------------
(* Strings taken as Unicode: replaced in one piece where they are not.     *)
IsAscii == \A k \in DOMAIN reading.bytes : ~ High(reading.bytes[k])
PlainAscii == raw = "bytes" /\ IsAscii
AsUnicode ==
  \/ raw \in {"converted", "wide"}
  \/ raw = "bytes" /\ ~ IsAscii /\ (storage = "wide" \/ codepage \notin Tabled)

(* What is converted is well formed: bit_convert_TU puts the replacement   *)
(* for each unit of a pair, or of half a one.                              *)
Shows == IF raw = "converted" THEN reading.unicode = "good" ELSE reading.unicode # "broken"
WellFormed == raw = "converted" \/ Shows
UnicodeOf == IF raw = "wide" THEN "utf16" ELSE "utf8"

Whole(shown) == <<[from |-> 1, to |-> Len(reading.bytes), shown |-> shown]>>
Done == reading' = Nothing /\ UNCHANGED <<Drawing, handed, raw, heap, i, unmapped, reads>>

TakeAscii ==
  /\ Decoding /\ PlainAscii
  /\ text' = Whole(TRUE) /\ Done /\ UNCHANGED warnings

(* A wide style override is taken with from_utf16_lossy where it is met.   *)
Lossy == reading.way = "override" /\ raw = "wide"

TakeUnicode ==
  /\ Decoding /\ AsUnicode
  /\ text' = Whole(Shows)
  /\ warnings' = IF WellFormed \/ Lossy THEN warnings
                 ELSE WithWarning([place |-> reading.place, of |-> UnicodeOf, count |-> 0])
  /\ Done

-----------------------------------------------------------------------------
(* The walk over codepage bytes.                                           *)
ByCodepage == Decoding /\ ~ PlainAscii /\ ~ AsUnicode
AtByte == ByCodepage /\ i <= Len(reading.bytes)
Lead == reading.bytes[i]

OpensPair(lead) ==
  \/ codepage \in {"gb2312", "big5"}
  \/ codepage = "double" /\ lead \in Leads

(* A pair of GB2312 is looked up in its seven-bit form.                    *)
PairCode(lead, trail) ==
  IF codepage = "gb2312" THEN <<lead % Half, trail % Half>> ELSE <<lead, trail>>

(* A slip: a pair's second byte is read again.                             *)
PushKeepingTheTrail(length, shown) ==
  /\ text' = Append(text, [from |-> i, to |-> i + length - 1, shown |-> shown])
  /\ i' = i + 1
  /\ unmapped' = IF shown THEN unmapped ELSE unmapped + 1
  /\ UNCHANGED <<Drawing, reading, handed, raw, heap, warnings, reads>>

Push(length, shown) ==
  /\ text' = Append(text, [from |-> i, to |-> i + length - 1, shown |-> shown])
  /\ i' = i + length
  /\ unmapped' = IF shown THEN unmapped ELSE unmapped + 1
  /\ UNCHANGED <<Drawing, reading, handed, raw, heap, warnings, reads>>

PushAscii == AtByte /\ ~ High(Lead) /\ Push(1, TRUE)

PushAlone ==
  /\ AtByte /\ High(Lead) /\ ~ OpensPair(Lead)
  /\ Push(1, <<Lead>> \in Table)

PushPair ==
  /\ AtByte /\ High(Lead) /\ OpensPair(Lead) /\ i < Len(reading.bytes)
  /\ Push(2, PairCode(Lead, reading.bytes[i + 1]) \in Table)

(* A lead byte at the very end: nothing to pair it with.                   *)
PushLeadAtTheEnd ==
  /\ AtByte /\ High(Lead) /\ OpensPair(Lead) /\ i = Len(reading.bytes)
  /\ Push(1, FALSE)

(* A slip: a single replacement passes for none.                           *)
EndUnreported ==
  /\ ByCodepage /\ i > Len(reading.bytes)
  /\ warnings' = IF unmapped <= 1 THEN warnings
                 ELSE WithWarning([place |-> reading.place, of |-> "codepage",
                                   count |-> unmapped])
  /\ Done /\ UNCHANGED text

EndOfBytes ==
  /\ ByCodepage /\ i > Len(reading.bytes)
  /\ warnings' = IF unmapped = 0 THEN warnings
                 ELSE WithWarning([place |-> reading.place, of |-> "codepage",
                                   count |-> unmapped])
  /\ Done /\ UNCHANGED text

Next ==
  \/ Meet \/ Take \/ TakeAscii \/ TakeUnicode
  \/ PushAscii \/ PushAlone \/ PushPair \/ PushLeadAtTheEnd \/ EndOfBytes
Spec == Init /\ [][Next]_vars
-----------------------------------------------------------------------------
(* Every state holds values of its kind.                                   *)
TypeOK ==
  /\ storage \in {"wide", "narrow"} /\ codepage \in Codepages
  /\ Idle \/ reading \in Stored
  /\ handed \in Handed \cup {NotHanded}
  /\ raw \in {"none", "converted", "wide", "bytes"} /\ heap \in 0 .. Reads
  /\ text \in Seq(Char)
  /\ i \in 1 .. MaxLength + 1 /\ unmapped \in 0 .. MaxLength
  /\ warnings \in Seq(Warning)
  /\ reads \in 0 .. Reads

(* The walk reads each byte once, in order, into one character of the      *)
(* text, and counts the characters it replaced.                            *)
WalkCoversTheBytes ==
  ByCodepage =>
    /\ \A k \in DOMAIN text :
         /\ text[k].from = IF k = 1 THEN 1 ELSE text[k - 1].to + 1
         /\ text[k].to >= text[k].from
    /\ i = IF text = <<>> THEN 1 ELSE text[Len(text)].to + 1
    /\ i <= Len(reading.bytes) + 1
    /\ unmapped = Cardinality({k \in DOMAIN text : ~ text[k].shown})

(* A string is read in the layout it has: 8-bit bytes read as 16-bit units *)
(* would run past their end (read_stored).  And the library's copies,      *)
(* which are the reader's to free, are freed once and nothing else is.     *)
StringsAreTakenAsHanded ==
  /\ Decoding => raw = handed.layout
  /\ heap = IF Met /\ handed.copied THEN 1 ELSE 0

(* What the decoder replaces is named by a warning, and a warning is made  *)
(* for nothing else.                                                       *)
Replaced == \E k \in DOMAIN text' : ~ text'[k].shown
Named == \E k \in DOMAIN warnings' : warnings'[k].place = reading.place
ReportsWhatItReplaces ==
  /\ Decoding /\ reading' = Nothing /\ Replaced /\ raw # "converted" /\ ~ Lossy => Named
  /\ warnings' # warnings => Replaced
ReplacedIsReported == [][ReportsWhatItReplaces]_vars

(* text.rs:17: the decoder "reports whatever it could not decode ... rather *)
(* than replacing it in silence: a string that is wrong is never presented *)
(* as one that is right".  The library has replaced characters of its own  *)
(* in what it converts, and style overrides are not decoded there.         *)
NothingIsReplacedInSilence ==
  [][Decoding /\ reading' = Nothing /\ Replaced => Named]_vars

(* text.rs:133: "Big5 and GB2312 pair only bytes >= 0x80".  The walk looks *)
(* at the lead byte alone: a lead before an ASCII byte takes that byte in, *)
(* and GB2312's seven-bit form of the pair then even has a character, so   *)
(* that nothing is reported.                                               *)
PairsOnlyHighBytes ==
  ByCodepage /\ codepage = "gb2312" =>
    \A k \in DOMAIN text :
      text[k].shown /\ text[k].from # text[k].to => High(reading.bytes[text[k].to])
=============================================================================
