----------------------------- MODULE Conversions -----------------------------
(***************************************************************************)
(* The parts of a drawing's conversion that have steps of their own, one   *)
(* of them in each behaviour: the blocks' names, the edges of a polyface   *)
(* or a mesh, the reads of single fields, strings, the header variables,   *)
(* an entity's common properties, layers, the leaders of a multileader,    *)
(* the grid of a table, a dimension style's overrides; and with them the   *)
(* redline's stroke.  All that passes between them is a value.             *)
(***************************************************************************)
EXTENDS BlockNames

CONSTANTS
  Polylines,                                      \* of Wireframes
  Asks,                                           \* of FieldReads
  Half, Leads, Codes, Labels, MaxLength, Reads,   \* of TextReads
  Dwgs,                                           \* of Headers
  Asked, Drawn, Rounds,                           \* of StrokeRounds
  Entities,                                       \* of EntityStyles
  Layers, Palette,                                \* of LayerRecords
  Multileaders,                                   \* of MultileaderLines
  Tables, MaxCells,                               \* of TableGrids
  ExtendedData                                    \* of StyleOverrides

VARIABLES
  part,
  polyline, record, positions, faces, drawn, side, edges, skipped, stage,
  ask, step, copies, count, answer,
  storage, codepage, reading, handed, raw, heap, text, i, unmapped, warnings, reads,
  w1, w2, w3, w4, w5, w6   \* of each other part, in the order its module declares them

nameVars == vars
wireVars == <<polyline, record, positions, faces, drawn, side, edges, skipped, stage>>
fieldVars == <<ask, step, copies, count, answer>>
textVars == <<storage, codepage, reading, handed, raw, heap, text, i, unmapped, warnings, reads>>
recordVars == <<w1, w2, w3, w4, w5, w6>>

W == INSTANCE Wireframes WITH at <- record, phase <- stage
F == INSTANCE FieldReads
T == INSTANCE TextReads WITH Table <- Codes, Places <- Labels
H == INSTANCE Headers WITH drawing <- w1, run <- w2, decoded <- w3, header <- w4
R == INSTANCE StrokeRounds WITH job <- w1, width <- w2, round <- w3, stage <- w4
S == INSTANCE EntityStyles WITH entity <- w1, struct <- w2, decode <- w3, common <- w4
L == INSTANCE LayerRecords WITH layer <- w1, struct <- w2, stage <- w3, record <- w4
M == INSTANCE MultileaderLines WITH nodes <- w1, lines <- w2, next <- w3, leaders <- w4, stage <- w5, place <- w6
G == INSTANCE TableGrids WITH table <- w1, phase <- w2, read <- w3, unread <- w4, result <- w5
O == INSTANCE StyleOverrides WITH eed <- w1, at <- w2, acad <- w3, list <- w4, overrides <- w5, stage <- w6

(* What the parts' inputs may be.  LibreDWG allocates as                   *)
(* many cells as a table's rows and columns say, or none.                  *)
ASSUME ConversionAssumption ==
  /\ Polylines \subseteq W!PolylineType
  /\ Asks \subseteq F!AskType
  /\ MaxLength \in Nat /\ Reads \in Nat
  /\ Dwgs \subseteq H!DwgType
  /\ Asked \subseteq R!AskedType /\ Drawn \subseteq R!DrawnType /\ Rounds \in Nat
  /\ Entities \subseteq S!EntityType
  /\ Layers \subseteq L!LayerType /\ Palette \in [0 .. 255 -> 0 .. 256]
  /\ ExtendedData \subseteq Seq(O!ItemType) /\ \A e \in ExtendedData : e # <<>> => e[1].first
  /\ Multileaders \subseteq Seq(Seq(M!LineType))
  /\ Tables \subseteq G!TableType /\ \A t \in Tables : t.cells = <<>> \/ Len(t.cells) >= t.rows * t.cols

RecordParts == {"header", "stroke", "style", "layer", "multileader", "table", "overrides"}
Idle(w) == w = <<>>
RecordsAside == Idle(w1) /\ Idle(w2) /\ Idle(w3) /\ Idle(w4) /\ Idle(w5) /\ Idle(w6)

NamesAside ==
  /\ d = "aside" /\ header = <<>> /\ entity = <<>> /\ highest = <<>> /\ phase = "done"
  /\ at = 1 /\ fresh = {} /\ records = <<>>
WireAside ==
  /\ polyline = "aside" /\ record = 1 /\ positions = <<>> /\ faces = <<>>
  /\ drawn = 0 /\ side = 0 /\ edges = <<>> /\ skipped = 0 /\ stage = "done"
FieldAside == ask = "aside" /\ step = "done" /\ copies = <<>> /\ count = 0 /\ answer = "none"
TextAside ==
  /\ storage = "aside" /\ codepage = "aside" /\ reading = T!Nothing /\ handed = T!NotHanded
  /\ raw = "none" /\ heap = 0 /\ text = <<>> /\ i = 1 /\ unmapped = 0 /\ warnings = <<>> /\ reads = 0

RecordInit ==
  \/ part = "header" /\ H!Init /\ Idle(w5) /\ Idle(w6)
  \/ part = "stroke" /\ R!Init /\ Idle(w5) /\ Idle(w6)
  \/ part = "style" /\ S!Init /\ Idle(w5) /\ Idle(w6)
  \/ part = "layer" /\ L!Init /\ Idle(w5) /\ Idle(w6)
  \/ part = "multileader" /\ M!Init
  \/ part = "table" /\ G!Init /\ Idle(w6)
  \/ part = "overrides" /\ O!Init

RecordNext ==
  \/ part = "header" /\ H!Next /\ UNCHANGED <<w5, w6>>
  \/ part = "stroke" /\ R!Next /\ UNCHANGED <<w5, w6>>
  \/ part = "style" /\ S!Next /\ UNCHANGED <<w5, w6>>
  \/ part = "layer" /\ L!Next /\ UNCHANGED <<w5, w6>>
  \/ part = "multileader" /\ M!Next
  \/ part = "table" /\ G!Next /\ UNCHANGED w6
  \/ part = "overrides" /\ O!Next

ConversionInit ==
  \/ part = "names" /\ Init /\ WireAside /\ FieldAside /\ TextAside /\ RecordsAside
  \/ part = "wireframe" /\ W!Init /\ NamesAside /\ FieldAside /\ TextAside /\ RecordsAside
  \/ part = "field" /\ F!Init /\ NamesAside /\ WireAside /\ TextAside /\ RecordsAside
  \/ part = "text" /\ T!Init /\ NamesAside /\ WireAside /\ FieldAside /\ RecordsAside
  \/ RecordInit /\ NamesAside /\ WireAside /\ FieldAside /\ TextAside

ConversionNext ==
  /\ UNCHANGED part
  /\ \/ part = "names" /\ Next /\ UNCHANGED <<wireVars, fieldVars, textVars, recordVars>>
     \/ part = "wireframe" /\ W!Next /\ UNCHANGED <<nameVars, fieldVars, textVars, recordVars>>
     \/ part = "field" /\ F!Next /\ UNCHANGED <<nameVars, wireVars, textVars, recordVars>>
     \/ part = "text" /\ T!Next /\ UNCHANGED <<nameVars, wireVars, fieldVars, recordVars>>
     \/ RecordNext /\ UNCHANGED <<nameVars, wireVars, fieldVars, textVars>>

conversionVars == <<part, nameVars, wireVars, fieldVars, textVars, recordVars>>

ConversionSpec == ConversionInit /\ [][ConversionNext]_conversionVars

-----------------------------------------------------------------------------
RecordTypeOK ==
  CASE part = "header" -> H!TypeOK [] part = "stroke" -> R!TypeOK [] part = "style" -> S!TypeOK
    [] part = "layer" -> L!TypeOK [] part = "multileader" -> M!TypeOK [] part = "table" -> G!TypeOK [] part = "overrides" -> O!TypeOK

(* Every state of the part at work holds values of its kind: each module's *)
(* own TypeOK.                                                             *)
PartTypeOK ==
  CASE part = "names" -> TypeOK [] part = "wireframe" -> W!TypeOK
    [] part = "field" -> F!TypeOK [] part = "text" -> T!TypeOK
    [] OTHER -> RecordTypeOK

(* BlockNames: a number LibreDWG makes up for a block is no other block's, *)
(* and a reference to a block leads to the record of that block.           *)
BlocksAreFound == part = "names" => FreshNumbersAreUnused /\ ReferencesLeadToTheirBlock

(* Wireframes: each side of a polyface's face is an edge or is counted, a  *)
(* polygon mesh is drawn whole or counted whole.                           *)
WireframesAreDrawn == part = "wireframe" => W!FacesAreDrawnOrCounted /\ W!MeshIsWholeOrCounted

(* FieldReads: the library's copy fills the caller's buffer, no more, and  *)
(* an array is read whole, or is empty.                                    *)
FieldsAreReadWhole == part = "field" => F!CopiesFit /\ F!ArraysAreWhole

(* TextReads: a string is read in the layout it has, each byte once, and   *)
(* its copy is freed once.                                                 *)
StringsAreTakenAsHanded == part = "text" => T!WalkCoversTheBytes /\ T!StringsAreTakenAsHanded

(* TextReads: what the decoder replaces, a warning names.                  *)
ReplacedIsReported == [][T!ReportsWhatItReplaces]_textVars

(* Headers: the Header holds the variables LibreDWG decoded, and no other. *)
HeaderIsWhatWasDecoded == part = "header" => H!HeaderIsWhatWasDecoded

(* StrokeRounds: each round at least halves what the stroke misses.        *)
EachRoundHalvesTheMiss == [][part = "stroke" => R!HalvesTheMiss]_recordVars

(* EntityStyles: an entity has the style it was given, from R13 on.        *)
StyledAsStatedFromR13 == part = "style" => S!StyledAsStatedFromR13

(* LayerRecords: a layer is read as it was set, in every release.          *)
LayerIsAsSet == part = "layer" => L!LayerIsAsSet

(* MultileaderLines: a line hangs under its own leader.                    *)
LinesHangUnderTheirLeader == part = "multileader" => M!LinesHangUnderTheirLeader

(* TableGrids: a table's grid is handed out whole, or a warning says why.  *)
GridIsWholeOrWarned == part = "table" => G!GridIsWholeOrWarned

(* StyleOverrides: the overrides kept are ACAD's list, pair by pair.       *)
OverridesAreTheList == part = "overrides" => O!OverridesAreTheList
=============================================================================
