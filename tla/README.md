# uncad in TLA+

Specifications of [uncad](../src/README.md), checked with TLC and proved with
TLAPS. uncad reads DWG and DXF drawings into one model, answers questions
about them, compares, edits and draws them, on the command line and as an MCP
server. A DWG is decoded by LibreDWG, a C library vendored in the repository.

Part 1 is the inventory, part 2 the modules and how they correspond to the
code, part 3 what is checked and within which bounds, part 4 what is proved,
part 5 what is left out and what is planned.

## 1. The system

| Component | State it keeps | Operations | Works with |
|---|---|---|---|
| Verbs (`uncad-cli/src/verbs.rs`) | none of its own; files on disk | `Verb::call`: check the arguments, read one or two drawings, answer, or create one new file (`set`, `redline`, `balloon`); settle a stroke (`redline`) | kept models, the file system, the `iron-*` crates |
| Kept models (`HELD`, `verbs.rs`) | list of up to four models with the bytes they were decoded from | `get`, `put`, `hold_reads` | every read of a process |
| Command line (`main.rs`, `verbs.rs`) | the arguments taken so far | `main`, `parse_args`, `refuse_unused_options`, `parse_cli`; `Verb::check`, `input_schema` | the plain command, export, the verbs |
| Plain command (`uncad-cli/src/main.rs`) | files on disk | read, print a summary, or write JSON/SVG/PNG over what is there | the same `read` |
| MCP front end (`uncad-cli/src/mcp.rs`) | none (the `rmcp` crate's) | `serve`, `list_tools`, `call_tool`, on one thread | verbs; turns keeping on |
| Export (`main.rs`) | files on disk | `run_export` | `uncad`, `iron-pack-cad` |
| Read life cycle (`uncad/src/lib.rs`) | `LIBREDWG_LOCK`, a `Dwg_Data` on the heap | choose a reader, lock, decode, walk, free | the shim, the conversion |
| Entity walks (`uncad/src/convert.rs`) | the place LibreDWG keeps in the structure | `owned_entities` and the walks of attributes and vertices | LibreDWG's walkers (`dwg.c`) |
| Entity conversion (`convert.rs`) | none | one record of LibreDWG to one `Entity` | `dynapi`, `text`, `acis` |
| Table conversion (`table_convert.rs`) | maps by name under construction | layers, block records, styles | entity walks |
| Text (`text.rs`) | warnings so far | decode strings of a drawing's encoding | LibreDWG's code pages |
| Field access (`dynapi.rs`) | a buffer per read | a field, a common field, an embedded one, an array, a string, by name | LibreDWG's tables and accessors |
| Header (`header.rs`) | none | which variables a release states, and their values | `dynapi`, LibreDWG's header section |
| Bindings, shim (`libredwg-sys`) | C globals | accessors; `uncad_dwg_read_bytes` | vendored LibreDWG |

How they interact: a front end calls a verb; the verb reads files through
`verbs::read`, which looks among the kept models and otherwise calls the
`uncad` crate; that takes the lock for a DWG, has LibreDWG decode the bytes
into a C structure, walks the structure twice (entities, then tables), copies
everything out and frees it. A verb that writes then creates its output.

What is hard, component by component, and what makes each correct:

* *Verbs and files.* Several processes, one file system, no locks. The output
  is looked at before the drawing is read and opened after. Writes fail half
  way, processes die, others replace files. A verb must never write over a
  file, and an answer given with a file must be about what is in it.
* *Kept models.* A kept model may be stale in every way a cache can be. No
  answer may depend on whether a model was kept; the list must stay bounded
  and keep what was used last.
* *Read life cycle.* C code with global state under Rust threads; errors,
  panics and a poisoned mutex in the middle of a cycle; manual memory. Reads
  must not influence each other.
* *Entity walks.* The links are data from the file. Intact links must give
  each entity once, in the right place, for three families of versions; damaged
  ones may give anything but an endless or unbounded walk, or an access past an
  array.

* *Command line.* A word has many ways to be lost: taken as another option's
  value, given twice, or accepted where the output has no use for it. The verbs
  have two front ends, and a client of the server goes by a published schema. No
  word may be passed over, and what reaches a verb must be what it understands.
* *Blocks by name.* A reference and the record it leads to get their names in
  different places, from different parts of LibreDWG's structure, and before R13
  partly from an index. They must meet.
* *Fields by name.* LibreDWG copies as many bytes as its own tables say, found by
  rules other than those the caller compared sizes by. They must agree.
* *Text.* Who frees a string, how wide its characters are and what has already
  been converted depends on the version and on the accessor. Bytes must be taken
  once each, and what cannot be decoded must be said.
* *Meshes.* Faces name vertices by their order among records of other kinds; a
  grid closes or does not in two directions. An edge is drawn or is counted.
* *Eras of the format.* An entity's style, a layer's state and a header's variables
  are stated in other fields by each era. LibreDWG decodes all of them into one
  struct that starts as zeros, and zero is a value. What the file states must come
  out, and what it does not state must not.
* *Flattened records.* The C shim copies leaders, table cells and style overrides
  into arrays; counts can lie and allocations fail. What is copied must keep its
  place, and what is not must not look like an empty one.
* *Strokes in pixels.* How wide a pixel is follows from the window, and the window
  from the stroke. Drawing again must bring the two together.

Every hazard is listed at its line in `PROJECT.json` with the properties that
would catch it.

## 2. Modules

```
HeldModels ── HeldReads ── HeldReadsProofs          one process's cache, step by step
    │  └───── HeldModelsLemmas ──┘ │
    └──────── VerbServer ── VerbSites ── VerbServerProofs    servers, commands and files
VerbCalls ────────┘                           │      (CallSpec is what VerbServer implements)
    └──────── VerbCallsProofs ────────────────┘
DrawingReads ◁── DwgReads ── DwgReadsProofs          threads and LibreDWG's lock
EntityWalks ── EntityWalksProofs                     the walks over a decoded drawing
BlockNames, Wireframes,
FieldReads, TextReads,   │
Headers, EntityStyles,   ├── Conversions ── ConversionProofs    parts of the conversion
LayerRecords,            │
MultileaderLines,        │
TableGrids,              │
StyleOverrides,          │
StrokeRounds ────────────┘                           and redline's stroke
CommandLine ── VerbArguments ── CommandLineProofs    the words of a command line
```

They meet at values: `CommandLine` and `VerbArguments` end where a call of
`VerbCalls` begins, with arguments that passed `Verb::check`; a read of
`VerbCalls` is one of `HeldReads`; its decoding is a cycle of `DwgReads`; the
`Walk` of a cycle is `EntityWalks`, and the objects a walk takes are converted
by the parts below it. They are composed where their state is shared
(`HeldModels` in `HeldReads` and `VerbServer`) and checked apart where all that
passes between them is a value.

`MC*` modules give the constants values for TLC. An operator commented as "a
slip" is not part of a specification: it is a plausible error in the operator
it stands before, and each property is known to catch one of them.

**HeldModels** has the list operations of `Held` as operators: `Used` is the
removal and `push_back` of `Held::get`, `Kept` is `Held::put` after its loop,
`Truncated` is `hold_reads`. **HeldReads** is `verbs::read` in one process, a
step per lock section and a step per turn of `put`'s `while`: `Ask` (the file's
bytes are there), `Hit`, `MissUndecodable` (`?` after `decode`), `Miss`,
`PutNothing` (the early return for capacity 0), `Evict`, `Push`. `Serve` is
`mcp::serve` calling `hold_reads(HELD_DRAWINGS)`. Decoding is a constant
function of the reading (`Reading` in the code) and the bytes.

**VerbCalls** is the contract: processes run calls over a shared file system and
every read decodes what it read. `Begin`/`RefuseArguments` are `Verb::call` and
`check`; `CheckOutput` the extension and `exists()` checks that come before any
read (for `balloon` also `balloon_list`); `ReadFile`, `TakeModel`,
`NotADrawing` are `read` and `decode`, once per input; `AnswerQuestion` and
`QuestionFails` what follows when nothing is written (a question that names an end
or a unit the drawing has not is refused after the read); `Make` the edit or
picture made in memory; `Create` and `Write` are `create_new`; `Truncate` and
`Write` the plain command's `fs::write`. `OpenFails`, `ReadFails` and
`WriteFails` are what the operating system may answer, `Crash` the process
ending anywhere, `Replace` other programs. A file is `Empty` from its creation
until its bytes are written, and `Torn` when they are not all there. That no
prefix of a model JSON decodes is an assumption (`VerbCallsAssumption`): its
last byte closes the object. `write_all` is one step, with everything a writer
stopped half way may leave in `WriteFails` and `Crash`: a reader in between finds `Empty`,
which is no drawing, as a part of a model JSON is none.

**VerbServer** adds `held`, each process's kept models: `Hit` and `Miss` replace
the decoding steps. `CallSpec` of VerbCalls, with `held` hidden, is the property
it is checked and proved against. **VerbSites** is VerbServer where it is installed:
`site` settles for a whole behaviour which calls are made and what others do to
the files. `OnlyVerbs` says that the plain command, which writes over what is
there, is not among the calls; some properties hold only then.

**DrawingReads** is what a caller of the `uncad` crate may rely on: each read
returns what its own request says; a read returns unless it must wait for its turn
(`Turns`) behind one that never ends (`Unending`). **DwgReads** is how: `Ask`
dispatches as `parse_bytes_with_header` and `parse_dwg` do; `Lock`, `Decode`,
`Refuse` or `Walk`, `Free`, `Unlock` are `parse_dwg_libredwg` in order; `Panic`
is a panic in the conversion, whose unwinding drops the guard and poisons the
mutex. `mixed` records the threads whose C calls ran inside another thread's
cycle; the comment on `LIBREDWG_LOCK` says what that leads to, and `Made` lets
such a read return anything.

**EntityWalks** is `owned_entities` over a block and the second walk it makes
from an INSERT or POLYLINE. A walk is a frame on `stack` named after its loop:
`list` (`owned_entities`), `chain` (`chained_block_entities`), `array` and
`attrib chain` (`chained_insert_attribs`), `owned` (`owned_insert_attribs`),
`stream` (`stream_insert_attribs`), `vertices` and `vertex stream`
(`polyline_vertex_records`). `Over` is the loop's condition and its `break`s,
`Skips` its `continue`s, `After` the next object. `iterator` is
`Dwg_Object_Entity.__iterator`, which LibreDWG's `get_next_owned_subentity`
advances. `pass` says whose call is running: `convert_entities`, which goes through
what the walk gave one entity at a time (`ListEntity`) and lists an INSERT's
attributes again behind it, or, after `NextPass`, `convert_tables`, which takes the
whole (`Collect`). A drawing is a record of objects and links; objects are
their numbers in file order, and the kinds that no loop tells apart are one kind
(`line`).

**BlockNames** is LibreDWG's numbering of the anonymous blocks of a drawing before
R13 (`CountNumbers`, then one of `KeepName`, `TakeOwnNumber`, `TakeNextNumber` for
each block header) and the pass of `convert_tables` that puts records under
names (`TakeBlock`). The operators `ReferenceByIndex` and `ReferenceByObject` are
what the entity conversion makes of a reference. A name is a stem and a number.

**Wireframes** has the walks over the records of a polyface or a polygon mesh:
`TakeRecord` gathers vertices and faces, `DrawFace` goes over one face side by
side and joins the corners of each, `DrawGrid` is the two loops over rows and columns.
A position is the record it was read from, so an edge is a pair of places in the chain.

**FieldReads** is a read of `dynapi.rs` in its parts: the look and comparison of
sizes (`Look`, `Fits`), then the copy the library makes by a look of its own
(`CopyField`, `Found`), and `get_array_field`'s two reads and its slice
(`TakeCount`, `TakeSlice`). `AskType` says what a caller can ask and what LibreDWG's
tables can say. It is the release build; in a debug build a size that
differs panics, which is the `Panic` of DwgReads.

**TextReads** is the life of a string: `Meet` (the library hands it out), `Take`
(the reader takes it in the layout it should have, and frees a copy), then
`TakeAscii`, `TakeUnicode` or the walk over codepage bytes (`PushAscii`,
`PushAlone`, `PushPair`, `PushLeadAtTheEnd`, `EndOfBytes`). `warnings` grows over a
read, as a `TextDecoder`'s do.

**Headers** is LibreDWG's decoder of the header section, one run of variables
between two places where the header may end (`RunsBeforeR13`), and `read_header`
with its own table `dwg_layout_has` (`Has`). Values are left out.

**EntityStyles** is an entity's common data and handles as LibreDWG decodes them in
each era (`DecodeOld`, `DecodeData`, `DecodeHandles`) into a struct of zeros, and
the `EntityCommon` made of it (`Convert`). **LayerRecords** is the same for a
layer: `DecodeState`, `DecodeColour`, `DecodeSign`, `ConvertLayer`.

**MultileaderLines** is the shim's two passes over the leaders: `CountLines`, then
`CopyLine` and `EndNode` line by line and node by node, with every allocation that
may fail, and `HandOver`; and `multileader_leaders`, which hangs the lines under
their roots again (`AttachLine`, `FreeLines`). A line is the pair of its node's
number and its own. A count without its array is left out (`uncad_shim.c:173`
does not look for one, line 241 does): the DWG decoder takes such a count back or
fails the read with `DWG_ERR_OUTOFMEM`, and the DXF importer leaves one only where
`realloc` fails. **TableGrids** is
`uncad_table_get_cells` and the loops of `convert_table_grid`.
**StyleOverrides** is `uncad_entity_style_overrides`: `SeekList` goes through the
items, `FindEnd` makes room, `CopyPair` copies.

**StrokeRounds** is redline's loop: `DrawAgain` while the overlay's width is not
what its window asks for, `WritePicture` then or after `STROKE_ROUNDS`. The window
is the renderer's: as its comment says, a revision cloud's margin is a multiple of
the stroke. Widths are whole numbers of a unit as small as wanted, so that the
code's tolerance of 1e-9 is equality. `NoFit` is the absent `--fit`; `--fit 0` is
refused once the overlay is drawn (`Refuse`).

**Conversions** composes these eleven: `part` says which of them is at work in a
behaviour, and the others stand aside, since all that passes between them is a
value. `ConversionAssumption` says what the inputs may be, each set as wide as the
decoder can make it; MCConversions gives the sets their values.

**CommandLine** is `main`, `parse_args`, `run` and `run_export`, one action per kind
of word and per outcome. **VerbArguments** extends it with `run_verb`, `parse_cli`
and the verb table, a client's argument objects (`CallTool`), and `Check`, which is
`Verb::check`. `WordAfter` passes over `--pretty`, which is taken out
of a verb's words wherever it stands. A verb's two spellings (`hit-test` and
`hit_test`, both of which `verbs::find` takes) are one word here. Words are known by the sets they belong to (`Floats`, `U64s`,
`Listed`, ...), which stand for the parsers of Rust's standard library.

## 3. What TLC checks

| Run | Shows | Bounds |
|---|---|---|
| `held_reads` | the cache is sound, bounded, least-recently-used; reads end | 2 byte strings × 3 readings (6 keys, more than the 4 kept), 6 reads: enough to fill the list, evict twice and hit what survived |
| `verb_server` | `OneWriterOfVerbs`, `VerbsAnswerWhatIsWritten`, `NeverWritesOver`, and the refinement of `CallSpec` | one server with 2 models kept, one command, 4 paths, 2 drawings, at two sites: 6 calls of verbs (two writers of the same path, a call whose second input is another's output, an input replaced between calls), where `OneWriterOfVerbs` and `VerbsAnswerWhatIsWritten` say something, or 5 calls of verbs and of the plain command, which reads and overwrites the paths `set` and `balloon` create |
| `server_memory` | *violated*: "the server keeps no state" | as `verb_server` |
| `dwg_reads` | `CyclesNeverMix`, `HeldForPanicsOnly`, `DxfNeedsNoLock`, refinement of `DrawingReads` with its fairness | 2 threads, 2 reads each, every format, reader and kind of bytes: good, refused, one whose conversion panics, one whose decode never ends |
| `walks` | `IntactIsRead`, `WalksStayInBounds`, `PassesAgreeUnlessLeft`, `OpenRunsAreReported`, `WalksEnd` | every sequence of 5 objects whose runs are whole, as each version family links it (with and without links, with and without the array, one erased record); and 3 or 4 objects with handles to each of them, to none and to nowhere, own lists of up to 4 with `MaxOwned` 3, so that the cap is met |
| `walked_twice` | *violated*: the passes agree for every drawing | own lists as above |
| `conversions` | blocks are found; faces and meshes are drawn or counted; fields read whole; strings taken as handed out, replacements reported; the header is what was decoded; styles from R13 on and layers are as stated; lines hang under their leader; a grid is whole or a warning is given; overrides are ACAD's list; each round halves the miss | 3 blocks over 6 block tables; polyfaces of up to 4 records, grids of up to 3 by 3 open and closed with 0 to 10 vertices; every field of 6 tables by every size and of every object; 2 strings of up to 3 bytes in every storage, codepage and way; all 26 releases with headers ended before and after each limit; every style 8 releases can state, every layer 6 can; 3 nodes of up to 2 lines; tables of up to 2 by 2 and one past the limit; lists of up to 4 items of 7 kinds; 3 strokes, 5 sizes, none and 0 among them, clouds inside and outside |
| `stroke_as_asked` | *violated*: lines are as wide as asked | strokes and sizes as above |
| `old_styles` | *violated*: values are what the file states, in every release | R11 entities of 40 colours and a line type of their own |
| `paired_ascii` | *violated*: GB2312 pairs only high bytes | strings as above |
| `silent_replacements` | *violated*: nothing is replaced in silence | strings as above |
| `command_line` | `NoWordIsDropped`, `OptionsAreUsed`, `CalledBySchema`, `CalledWithWhatItUnderstands` | 9 000 command lines: all of up to 3 words of a small vocabulary, an input and an output with up to 2 more options, each verb with one argument more, twice or missing; each verb's object with one value exchanged; `U32` is 8 |

Two objects make every ring, and five every whole run beside another entity:
larger drawings repeat these cases. `MAX_OWNED_SUBENTITIES` (100 000) is 3 in
the drawings checked: damaged ones have more, intact ones at most that many.
`HELD_DRAWINGS` is 4 in `held_reads`, as in the code.

In `conversions` one part is at work in each behaviour and the others stand
aside. Three blocks are a bare one, one that has the number the first would get,
and one beside them; three bytes are a pair and what follows or precedes it. Of
256 bytes four are kept: two ASCII, a high one and a high one that opens a pair. The
limits of a header are those of the code, not smaller ones. Four items are two
pairs, a pair and a half with a brace, or any gap in them; what follows repeats.
`MaxCells` is 4 for the shim's 4 000 000.

Deadlock is not checked where the system may stop: reads and calls are
bounded, and a conversion ends.

**Fairness.** `HeldReads`: weak fairness of the read under way, a function call
on a running thread. `DwgReads`: weak fairness of each thread's read; the mutex
is not assumed fair (threads make finitely many reads, so a waiting thread is not
overtaken for ever), and a decode that never ends is disabled. A read that wants
the lock behind such a decode waits for ever, and a DXF's does not: `DrawingReads`
promises a return to every read that is not in `Turns`, and to those as long as
nothing in `Unending` is pending.
`EntityWalks`: weak fairness of the whole, which is sequential. `VerbServer`,
`CommandLine` and the parts of the conversion have no fairness and no liveness
property: the latter are loops over finite lists, or of eight rounds at most.

**Findings.** (1) The documents say a server keeps nothing between calls; it
keeps up to four models (`server_memory`). What they promise about answers
holds: `VerbServer` implements `CallSpec`. (2) `lib.rs` says that none of the
walks mutates LibreDWG's structure. From R2004 on, a walk over an entity's own
list that breaks off leaves LibreDWG's place in the entity, and the next walk of
the same entity continues from there: a layout's entity list and its block
record then differ (`walked_twice`). `PassesAgreeUnlessLeft` says exactly when:
never for an intact drawing, nor for another version. (3) The comments in
`text.rs` say that GB2312 and Big5 pair only bytes from 0x80 on; the walk pairs a
lead byte with whatever follows, and in GB2312's seven-bit form the table can
have that pair, so an ASCII byte is lost without a word (`paired_ascii`). (4)
`text.rs` says that nothing is replaced in silence. From R2007 on LibreDWG converts
most strings before the decoder sees them and replaces every surrogate, those of
well-formed pairs included; and a wide style override is converted past the
decoder (`silent_replacements`). `ReplacedIsReported` says what does hold: the
decoder reports all that the decoder replaces. (5) `redline` promises lines of as
many pixels as asked, and a comment that a few rounds settle the width far below
one. Where the margins of a revision cloud, twenty strokes, are as large as the
picture, each round only asks for more, and after eight the picture is written as
it is (`stroke_as_asked`). `EachRoundHalvesTheMiss` says where the comment
holds: in pictures at least forty strokes large. (6) `convert.rs` says of the common
properties that they are what the file states. Before R13 LibreDWG puts an entity's
colour into `color_r11` and its line type into `ltype`, and the conversion reads
`color` and `ltype_flags`, which stay zero: every such entity is BYBLOCK, of line type
ByLayer and scale 0 (`old_styles`). `StyledAsStatedFromR13` holds.

Two more things met while reading, which no run shows. In a drawing before R13
whose BLOCK entity has an empty name, the record is named after the header
and a reference by index after the BLOCK entity, so they do not meet
(`convert.rs:3166`, `table_convert.rs:479`); `BlocksAreApart`, the premise of
`BlocksAreFound`, leaves such drawings out. And `--max-levels` is cast to `u32`
(`main.rs:839`): a number from 2^32 on wraps to a small one, where `main.rs:137`
promises the deepest level asked for. `TakeCount` models the wrap, and
`OptionsAreUsed` says how far it reaches (`DepthIsAsAsked`): the depth of an export
is the last one asked for exactly where a `u32` counts that far.

## 4. What is proved

For every value of the constants that satisfies the modules' assumptions: any
number of processes, files, models, threads, objects, records, words. The
assumptions are the `ASSUME`s with a name in the modules; TLC evaluates each on the
values of the runs. Of the properties passing runs check, all but the four that
say something is live are theorems; `PROJECT.json` lists which theorem states which.
Hardly an invariant is inductive as it stands, and what each was strengthened by says why it holds.

*HeldReadsProofs.* `IInv` is TypeOK, HeldAsDecoded and HeldOnce with one part
more, `PutIsOfNew`: while a read is putting a model, its key is not in the list.
Without it HeldOnce is not inductive, as `Push` would be free to append a key
already there. `RecencyInv` relates the list to the history of uses: an entry's last
use is after those of the entries before it, whatever is no longer held was last used
before all that is, and something is missing only if the list is full, but for the
room `Evict` makes before `Push`. HeldIsMostRecent says the same by counting keys,
so `HeldIsRecent` and `DroppedIsNotRecent` count: the keys used since a held one are
the entries behind it, those used since a dropped one are at least the whole list.
The list operations are in *HeldModelsLemmas*: the position found holds the key,
`Used` is a permutation of the list, and every entry of `Kept` is the new one or
was there.

*VerbCallsProofs.* `CInv` is CallTypeOK with `UnderWay`, what each stage of a call
has behind it: how many inputs are read, that the arguments fitted, that an edit
being written was not refused. From it follow the types and `NeverWritesOver`: a verb
touches its output only where `create_new` found nothing. `VInv` adds that who has a
file open is the only one and is the last that created it.

*VerbServerProofs.* `HInv` is HeldAsDecoded and HeldWithinCapacity with the type
of `held`. `ServerKeepsItsContract` is the refinement: every step but `Hit` is a
step of CallNext or leaves its variables alone; a `Hit` takes `held[p][i].model`,
which by HeldAsDecoded is `Decoded(p)`, so it is a `TakeModel`. With it what was
proved of CallSpec holds of a server that keeps models: the types and
`NeverWritesOver`. `SiteInv` keeps the calls within those of the site, whence
`OneWriterOfVerbs`; and an answer is given by the one writer of a file just written,
whence `VerbsAnswerWhatIsWritten`.

*DwgReadsProofs.* The invariant says that a thread past `Lock` holds the lock and
is the only one with a structure open, that its request is a DWG for LibreDWG,
and that `unfreed` counts the panics and the structure open now. From it follow
CyclesNeverMix, HeldForPanicsOnly, and the step simulation of DrawingReads:
`Ask` maps to Ask, `ReadWithoutLock`, `Panic` and `Unlock` to Return, all others
stutter.

*EntityWalksProofs.* `WInv` says what each walk under way has behind it: how far it
has got bounds what it has collected (`BlockWalkOK`, `SubWalkOK`), the block's walk
waits at the entity whose own entities are walked, and the records a vertex stream
has passed are vertices. The last is what makes the report right: the stream ends
at the first record that is no vertex, so it ends at a SEQEND just when the run is
closed. LibreDWG's place stays in its list (`IteratorInBounds`) though nothing sets it
back, because it is set back where the list ends and a walk uses it only at an
object.

That the two passes agree (`PassesAgreeUnlessLeft`) is shown without saying what
they give: a walk is settled by where it starts. `LeadsTo` is a run of a step from
a start to an end, and two runs that have ended came to the same (`RunsEndAlike`).
`BlockTurn` is the step of a block's walk by the numbers of what it gives, which does
not look at what LibreDWG keeps in the entities; `SubTurn` that of the walk over
what an entity owns, from the start of its list. In `AInv` each walk under way is on
such a run, what the first pass listed is the end of the block's, and, unless a
list leads astray, LibreDWG's place is at the start wherever no walk is under way:
a walk leaves it there (`SubEndsAtTheStart`), which is where the next one needs it.
So both passes come to the same numbers, and make the same of each (`MadeAlike`).
The same run says that whatever was reported is among what is given.

What they give is settled where the links are as the owners say (`Intact`, which is a
premise of `IntactIsRead`: each entity of a run follows its owner or one of the same
run, a run ends with a SEQEND where the format asks for one, is no longer than
`MAX_OWNED_SUBENTITIES`, and lists, chains and ends name just what is owned). What an
entity owns is then an interval of the file (`SubsAreARun`), and each version's
links are ways to go through it: a list has its place i at the i-th (`ListsOfRuns`), a
chain leads to the next (`NextOfARun`), a stream meets something else behind the last
(`StreamGoesOn`). `RInv` says of a block's walk that it has passed just what it
gave, each whole (`PlaceRead`, `GivesRead`); of a walk over what an entity owns
that turn n is at the n-th of the run (`SubRead`), so that it is over just where the
run is (`SubEndsWithTheRun`); and of LibreDWG's place that it is that turn, and the
first again when the walk is over (`IsAtPlace`).

*CommandLineProofs.* `CommandInv` says that every word before the one looked at is
accounted for, and that before a file is written every option given has a use;
`DepthInv` that an export's depth is what the cast left of the last `--max-levels`;
`VerbInv` that the verb is one of the table's and, once it is called, that its
arguments are those `Check` passed. `TableIsOfKinds` and `FittingIsAllowed` compare
the published schema with what is understood, kind by kind.

*ConversionProofs.* One part is at work in a behaviour, so each has an invariant of
its own, named after it, and `PartsStay` says that the others stay aside.
- `LayerInv`, `StyleInv`, `HeaderInv`: what the struct holds after each run of the
  decoder, as a function of what was stated and the era. For a header,
  `TableIsRight` compares the decoder's runs with `dwg_layout_has`, release by
  release and limit by limit.
- `NamesInv`: no number LibreDWG has made up so far is above its count, nor that of
  a name it met, so the numbers are fresh; and records put under a name stay there.
- `WireInv`: the records taken are numbered as they are met, so the k-th vertex taken is
  the one a face calls k; the sides gone over are those joined and those counted; and
  the loops over rows and columns have joined just the neighbours behind them. From it
  follows `WireframesAreDrawn`.
- `FieldInv`: the looks by which the caller and the library find a field agree
  (`LooksAgree`), which is the point of the module. `TablesSay` and
  `CommonFieldsAgree` are what LibreDWG's tables are assumed to say.
- `TextInv`: with `Walked`, the characters taken so far are a row without gaps from
  the first byte to the one looked at, and `unmapped` counts those not shown.
- `GridInv`: the cells read are those of the table in order, their spans inside it.
- `OverrideInv`: the list found is the first of ACAD's, and each pair copied comes
  from the place its number says.
- `LeaderInv`: the lines copied are those with points before `place`, in order, so
  they fit the array counted for them (`OrderedFits`); those under the roots are the
  lines before `next`.
- `WindowMoves`, `UnitsMove` and `RoundHalves`: the window grows by at most the
  margins of what the width grows by, so the width asked for moves by at most half of
  that, plus one for the rounding of the division, when twice the margins fit into
  the picture.

`PartTypeOK` follows from these invariants and, where they leave a type open, from
another of the part (`FieldTyped`, `TextTyped`, `OverridesTyped`, all in `Typed`);
`PartsAreTyped` puts the parts together.

HeldAsDecoded and HeldWithinCapacity of VerbServer are proved and no longer run;
the run checks `CallSpec`, which fails with either.

Every invariant a passing run checks is proved, and every action property. Only
model-checked: what is live (ReadsEnd, DxfNeedsNoLock, WalksEnd and the fairness of
ReadsAsAsked, whose safety part is proved), since the prover reaches neither
fairness nor ENABLED. What is assumed of the constants is what the code or the format
says of them: that MAX_SUBENTITY_DEPTH, which is 2, lets one level of entities be
walked; that the records of a polyline are of the kinds the format has; that
counts and lengths are natural numbers.

## 5. Not modelled, and the plan

Not modelled: the fields of each entity type (one read per field, no state) and the
geometry computed from them; the header of a DXF, which comes from `undxf` variable
by variable; the bindings and build scripts; ACIS parsing; the `iron-*`, `undxf`,
`undwg` and `rmcp` crates, which are not in the repository and appear as functions of
their inputs; the rest of LibreDWG's decoder, which is what `Decode` of DwgReads
stands for; JUMP records of drawings before R13.

Planned, in this order:

1. The rest of the conversion that has logic of its own: the identifiers given to
   entities, bulges and widths of lightweight polylines, hatch boundaries, clip
   boundaries (`convert.rs`).
2. Diagnostics: the error bits and `missing_required_groups` (`lib.rs`), which looks
   at the top level of entities only; collisions of names in the other tables
   (`table_convert.rs`).
