------------------------------ MODULE EntityWalks ------------------------------
(***************************************************************************)
(* How the entities of a block are collected from a decoded drawing        *)
(* (convert.rs): `owned_entities` over the block, and from an INSERT or a  *)
(* POLYLINE it meets a second walk, over what that entity owns.  A block   *)
(* that is a layout is walked twice in one read: for the drawing's         *)
(* entities (`convert_entities`), then for its block record                *)
(* (`convert_tables`).                                                     *)
(*                                                                         *)
(* Links are data from the file.  Depending on the drawing's version they  *)
(* are a list of handles, a chain from entity to entity, or no more than   *)
(* the order of the objects in the file, and damage may make of them       *)
(* anything: dangling handles, rings, chains into other entities.          *)
(*                                                                         *)
(* From R2004 on, LibreDWG keeps the place of a walk over an entity's own  *)
(* list in the entity itself (`__iterator`), sets it back only when that   *)
(* walk reaches the end of the list, and not when a walk begins.           *)
(***************************************************************************)
EXTENDS Naturals, Sequences, SequencesExt

CONSTANTS
  Drawing,   \* the drawings read; see IsDrawing
  MaxDepth,  \* MAX_SUBENTITY_DEPTH
  MaxOwned   \* MAX_OWNED_SUBENTITIES

Kind == {"insert", "attrib", "attdef", "polyline", "vertex", "seqend", "endblk", "line", "object"}

(* A drawing of n objects, numbered in file order; "line" is any entity    *)
(* not named, "object" what is no entity.  A reference is the number of an *)
(* object, 0 where there is none, n + 1 where it leads nowhere.            *)
IsDrawing(w) ==
  LET n == Len(w.kind)
      Ref == 0 .. n + 1
  IN  /\ w.era \in {"pre-R13", "R13 to R2000", "R2004 on"}
      /\ w.kind \in Seq(Kind)
      /\ w.owner \in [1 .. n -> 0 .. n]   \* the owner each names; 0: the block
      /\ w.erased \subseteq 1 .. n        \* pre-R13: the high bit of the type
      /\ w.entities \in Seq(Ref)          \* the block's own list
      /\ w.first \in Ref /\ w.last \in Ref
      /\ w.next \in [1 .. n -> Ref]       \* R13 to R2000: next_entity
      /\ w.owned \in [1 .. n -> Seq(Ref)] \* attribs or vertex: an entity's own list
      /\ w.firstSub \in [1 .. n -> Ref] /\ w.lastSub \in [1 .. n -> Ref]

ASSUME EntityWalksAssumption ==
  /\ \A w \in Drawing : IsDrawing(w)
  /\ MaxDepth \in Nat \ {0} /\ MaxOwned \in Nat \ {0}

VARIABLES
  d,         \* the drawing
  iterator,  \* each entity's __iterator
  pass,      \* whose entities are collected: "entities", "block record", or "done"
  stack,     \* the walks under way, the block's first
  lists,     \* what each pass has collected
  warned     \* the polylines POLYLINE_VERTICES was reported for

vars == <<d, iterator, pass, stack, lists, warned>>

Object == 1 .. Len(d.kind)
Resolve(ref) == IF ref \in Object THEN ref ELSE 0

IsVertex(o) == o \in Object /\ d.kind[o] = "vertex"
IsAttrib(o) == o \in Object /\ d.kind[o] = "attrib"

(* A slip the library's own walker makes: ATTDEFs are taken for attributes. *)
IsSubEntityOrAttdef(o) == d.kind[o] \in {"attrib", "attdef", "seqend", "vertex"}

IsSubEntity(o) == d.kind[o] \in {"attrib", "seqend", "vertex"}
IsErased(o) == d.era = "pre-R13" /\ o \in d.erased

(* A slip: the end of the objects is not looked for.                       *)
NextObjectUnchecked(o) == o + 1

(* `dwg_next_object`, and the next object that is an entity.               *)
NextObject(o) == Resolve(o + 1)
NextEntityInFile(o) ==
  LET later == {p \in Object : p > o /\ d.kind[p] # "object"}
  IN  IF later = {} THEN 0 ELSE CHOOSE p \in later : \A q \in later : p <= q

(* `dwg_next_entity`: the link, unless it leads to the entity itself or to *)
(* no entity; the file order where there is no link.                       *)
NextEntity(o) ==
  IF d.kind[o] = "object" THEN 0
  ELSE IF d.next[o] = 0 THEN NextEntityInFile(o)
  ELSE LET p == Resolve(d.next[o])
       IN  IF p \in Object /\ p # o /\ d.kind[p] # "object" THEN p ELSE 0

(* The place of the first handle after place i of the block's list that    *)
(* leads somewhere, or the end of the list.                                *)
ListedAfter(i) ==
  LET places == {j \in i + 1 .. Len(d.entities) : Resolve(d.entities[j]) # 0}
  IN  IF places = {} THEN Len(d.entities) + 1 ELSE CHOOSE j \in places : \A k \in places : j <= k
Listed(i) == IF i <= Len(d.entities) THEN Resolve(d.entities[i]) ELSE 0

(* A walk under way: which loop, over what `of` owns, at which object, how *)
(* many turns so far (in "list": at which place), what it has collected,   *)
(* and the depth it converts at.                                           *)
Walk(loop, of, at, steps, depth) ==
  [loop |-> loop, of |-> of, at |-> at, steps |-> steps, got |-> <<>>, depth |-> depth]

BlockWalk ==
  IF d.era = "R13 to R2000"
    THEN Walk("chain", 0, Resolve(d.first), 0, 0)
    ELSE Walk("list", 0, Listed(ListedAfter(0)), ListedAfter(0), 0)

FirstOf(refs) == IF refs = <<>> THEN 0 ELSE Resolve(refs[1])

(* `entity_insert` chooses by the version; up to R2000 an array that is    *)
(* there goes before the chain.                                            *)
AttribWalk(o, depth) ==
  CASE d.era = "R2004 on" -> Walk("owned", o, FirstOf(d.owned[o]), 0, depth)
    [] d.era = "pre-R13" -> Walk("stream", o, NextObject(o), 0, depth)
    [] OTHER -> IF d.owned[o] # <<>>
                  THEN Walk("array", o, FirstOf(d.owned[o]), 0, depth)
                  ELSE Walk("attrib chain", o, Resolve(d.firstSub[o]), 0, depth)

VertexStream(o, depth) == Walk("vertex stream", o, NextObject(o), 0, depth)
VertexWalk(o, depth) ==
  CASE d.era = "pre-R13" -> VertexStream(o, depth)
    [] d.era = "R2004 on" -> Walk("vertices", o, FirstOf(d.owned[o]), 0, depth)
    [] OTHER -> Walk("vertices", o, Resolve(d.firstSub[o]), 0, depth)

(* The walk makes no further turn: its loop condition fails, or the object *)
(* it is at ends it.                                                       *)
Over(w) ==
  CASE w.loop = "list" -> w.at = 0
    [] w.loop = "chain" -> w.at = 0 \/ w.steps > Len(d.kind)
    [] w.loop = "array" -> w.steps >= Len(d.owned[w.of]) \/ w.steps >= MaxOwned
    [] w.loop = "owned" -> w.steps >= MaxOwned \/ ~IsAttrib(w.at)
    [] w.loop \in {"attrib chain", "stream"} ->
         w.steps > Len(d.kind) \/ Len(w.got) >= MaxOwned \/ ~IsAttrib(w.at)
    [] w.loop = "vertices" -> w.at = 0 \/ Len(w.got) >= MaxOwned
    [] w.loop = "vertex stream" -> w.steps > Len(d.kind) \/ ~IsVertex(w.at)

(* What a walk steps over without converting it.                           *)
Skips(w) ==
  CASE w.loop = "list" ->
         IsVertex(w.at) \/ (d.era = "pre-R13" /\ (IsSubEntity(w.at) \/ IsErased(w.at)))
    [] w.loop = "chain" -> IsSubEntity(w.at)
    [] w.loop = "array" -> ~IsAttrib(w.at)
    [] w.loop = "stream" -> IsErased(w.at)
    [] OTHER -> FALSE

(* Whether the walk goes through an entity's list by its __iterator.       *)
ByIterator(w) == d.era = "R2004 on" /\ w.loop \in {"owned", "vertices"}
LastOwned(w) == iterator[w.of] + 1 = Len(d.owned[w.of])

(* The object the walk goes on to, 0 where there is none.                  *)
After(w) ==
  CASE w.loop = "list" -> Listed(ListedAfter(w.steps))
    [] w.loop = "chain" -> IF w.at = Resolve(d.last) THEN 0 ELSE NextEntity(w.at)
    [] w.loop = "array" ->
         IF w.steps + 2 <= Len(d.owned[w.of]) THEN Resolve(d.owned[w.of][w.steps + 2]) ELSE 0
    [] w.loop = "attrib chain" ->
         IF w.at = Resolve(d.lastSub[w.of]) THEN 0 ELSE NextEntity(w.at)
    [] w.loop \in {"stream", "vertex stream"} -> NextObject(w.at)
    [] ByIterator(w) ->
         IF LastOwned(w) THEN 0 ELSE Resolve(d.owned[w.of][iterator[w.of] + 2])
    [] OTHER ->                    \* vertices up to R2000: in file order, to the last
         IF d.lastSub[w.of] = 0 \/ w.at = Resolve(d.lastSub[w.of]) THEN 0 ELSE NextObject(w.at)

Advanced(w) ==
  [w EXCEPT !.at = After(w), !.steps = IF w.loop = "list" THEN ListedAfter(@) ELSE @ + 1]

(* A slip: the walk's end does not set the place back.                     *)
IteratorNotReset(w) == IF ByIterator(w) THEN [iterator EXCEPT ![w.of] = @ + 1] ELSE iterator

(* `get_next_owned_subentity` counts in the entity it walks.               *)
IteratorAfter(w) ==
  IF ByIterator(w)
    THEN [iterator EXCEPT ![w.of] = IF LastOwned(w) THEN 0 ELSE @ + 1]
    ELSE iterator

-----------------------------------------------------------------------------
Entity(o, subs) == [id |-> o, subs |-> subs]

Init ==
  /\ d \in Drawing
  /\ iterator = [o \in 1 .. Len(d.kind) |-> 0]
  /\ pass = "entities"
  /\ stack = <<BlockWalk>>
  /\ lists = [entities |-> <<>>, record |-> <<>>]
  /\ warned = {}

Top == Last(stack)
Turning == stack # <<>> /\ ~Over(Top)

(* The walk on top turns: it has made these of the object it is at.        *)
Turn(made) ==
  /\ stack' = Append(Front(stack), Advanced([Top EXCEPT !.got = @ \o made]))
  /\ iterator' = IteratorAfter(Top)
  /\ UNCHANGED <<d, pass, lists, warned>>

(* A slip: a step over a sub-entity is not counted.                        *)
SkipUncounted ==
  /\ Turning /\ Skips(Top)
  /\ stack' = Append(Front(stack),
                 [Advanced(Top) EXCEPT !.steps = IF Top.loop = "chain" THEN Top.steps ELSE @])
  /\ iterator' = IteratorAfter(Top)
  /\ UNCHANGED <<d, pass, lists, warned>>

Skip == Turning /\ Skips(Top) /\ Turn(<<>>)

InVertices(w) == w.loop \in {"vertices", "vertex stream"}

(* A vertex walk takes the records themselves.                             *)
TakeRecord == Turning /\ InVertices(Top) /\ Turn(<<Entity(Top.at, <<>>)>>)

(* `convert_entity` gives nothing past the depth limit, for what is no     *)
(* entity, and for what only marks an end.                                 *)
Converts(w) == w.depth <= MaxDepth /\ d.kind[w.at] \notin {"object", "endblk", "seqend"}
Converting == Turning /\ ~Skips(Top) /\ ~InVertices(Top)

ConvertNothing == Converting /\ ~Converts(Top) /\ Turn(<<>>)

IsBlocks(w) == w.loop \in {"list", "chain"}

(* The block's walk takes every entity, an INSERT's its attributes only.   *)
ConvertPlain ==
  /\ Converting /\ Converts(Top)
  /\ d.kind[Top.at] \notin {"insert", "polyline"}
  /\ Turn(IF IsBlocks(Top) \/ IsAttrib(Top.at) THEN <<Entity(Top.at, <<>>)>> ELSE <<>>)

(* An INSERT or a POLYLINE: what it owns is walked first.                  *)
Enter ==
  /\ Converting /\ Converts(Top)
  /\ d.kind[Top.at] \in {"insert", "polyline"}
  /\ stack' = Append(stack, IF d.kind[Top.at] = "insert"
                              THEN AttribWalk(Top.at, Top.depth + 1)
                              ELSE VertexWalk(Top.at, Top.depth + 1))
  /\ UNCHANGED <<d, iterator, pass, lists, warned>>

(* From R13 on, a polyline whose own list gave nothing takes the records   *)
(* that follow it in the file, as before R13.                              *)
TryStream ==
  /\ stack # <<>> /\ Over(Top)
  /\ Top.loop = "vertices" /\ Top.got = <<>>
  /\ stack' = Append(Front(stack), VertexStream(Top.of, Top.depth))
  /\ UNCHANGED <<d, iterator, pass, lists, warned>>

EndsAnywhere(w) == w.at # 0 \* a slip: any end of a run will do
EndsAtSeqend(w) == w.at # 0 /\ w.steps <= Len(d.kind) /\ d.kind[w.at] = "seqend"

(* Of the records, the vertices are the polyline's.                        *)
Vertices == {p \in Object : IsVertex(p)}
Among(records, objects) ==
  FlattenSeq([i \in 1 .. Len(records) |->
                IF records[i].id \in objects THEN <<records[i]>> ELSE <<>>])

(* The walk over what an entity owns is over, and with it the entity's     *)
(* conversion: the walk that met it goes on.                               *)
Leave ==
  /\ Len(stack) > 1 /\ Over(Top)
  /\ ~(Top.loop = "vertices" /\ Top.got = <<>>)
  /\ LET outer == stack[Len(stack) - 1]
         subs == IF InVertices(Top) THEN Among(Top.got, Vertices) ELSE Top.got
         made == IF IsBlocks(outer) THEN <<Entity(Top.of, subs)>> ELSE <<>>
     IN  /\ stack' = Append(SubSeq(stack, 1, Len(stack) - 2),
                            Advanced([outer EXCEPT !.got = @ \o made]))
         /\ iterator' = IteratorAfter(outer)
  /\ warned' = IF Top.loop = "vertex stream" /\ ~EndsAtSeqend(Top)
                 THEN warned \cup {Top.of} ELSE warned
  /\ UNCHANGED <<d, pass, lists>>

(* An INSERT's attributes are listed again behind it among a layout's      *)
(* entities, not in the block record.                                      *)
WithAttribs(e) == IF d.kind[e.id] = "insert" THEN <<e>> \o e.subs ELSE <<e>>
AllWithAttribs(es) == FlattenSeq([i \in 1 .. Len(es) |-> WithAttribs(es[i])])

(* `convert_entities` goes through what the walk over the block gave.      *)
BlockIsWalked == Len(stack) = 1 /\ Over(Top)

ListEntity ==
  /\ BlockIsWalked /\ pass = "entities" /\ Top.got # <<>>
  /\ lists' = [lists EXCEPT !.entities = @ \o WithAttribs(Head(Top.got))]
  /\ stack' = <<[Top EXCEPT !.got = Tail(@)]>>
  /\ UNCHANGED <<d, iterator, pass, warned>>

NextPass ==
  /\ BlockIsWalked /\ pass = "entities" /\ Top.got = <<>>
  /\ pass' = "block record"
  /\ stack' = <<BlockWalk>>
  /\ UNCHANGED <<d, iterator, lists, warned>>

(* A slip: the duplication is made where both passes share it.             *)
CollectWithAttribs ==
  /\ BlockIsWalked /\ pass = "block record"
  /\ lists' = [lists EXCEPT !.record = AllWithAttribs(Top.got)]
  /\ pass' = "done"
  /\ stack' = <<>>
  /\ UNCHANGED <<d, iterator, warned>>

(* A block record has the entities the walk over the block gave.           *)
Collect ==
  /\ BlockIsWalked /\ pass = "block record"
  /\ lists' = [lists EXCEPT !.record = Top.got]
  /\ pass' = "done"
  /\ stack' = <<>>
  /\ UNCHANGED <<d, iterator, warned>>

Next ==
  \/ Skip \/ TakeRecord \/ ConvertNothing \/ ConvertPlain
  \/ Enter \/ TryStream \/ Leave
  \/ ListEntity \/ NextPass \/ Collect

Spec == Init /\ [][Next]_vars /\ WF_vars(Next)

-----------------------------------------------------------------------------
(* What a drawing gives when its links are as its owners say.              *)
OwnedBy(o) == {p \in Object : d.owner[p] = o /\ d.kind[p] # "object"}
Subs(o) == {p \in OwnedBy(o) : d.kind[p] # "seqend"}
Contents(o) == {p \in Subs(o) : d.kind[p] # "endblk" /\ ~IsErased(p)}

(* Just these, each once and in file order; the ends of such a list.       *)
InOrder(refs, objects) ==
  /\ {refs[i] : i \in DOMAIN refs} = objects
  /\ \A i, j \in DOMAIN refs : i < j => refs[i] < refs[j]
AreEnds(first, last, objects) ==
  IF objects = {} THEN first = 0 /\ last = 0
  ELSE first \in objects /\ last \in objects /\ \A p \in objects : first <= p /\ p <= last

(* An owner's run: it, its attributes or vertices, the SEQEND; no more of  *)
(* them than are collected.                                                *)
RunsAreWhole ==
  \A p \in Object :
    /\ d.owner[p] # 0 <=> (d.kind[p] \in {"attrib", "seqend", "vertex"})
    /\ d.owner[p] # 0 =>
         /\ d.owner[p] = p - 1 \/ (p > 1 /\ d.owner[p - 1] = d.owner[p] /\ d.kind[p - 1] # "seqend")
         /\ \/ d.kind[d.owner[p]] = "insert" /\ d.kind[p] \in {"attrib", "seqend"}
            \/ d.kind[d.owner[p]] = "polyline" /\ d.kind[p] \in {"vertex", "seqend"}
         /\ d.kind[p] # "seqend" => p <= d.owner[p] + MaxOwned
    /\ d.kind[p] = "polyline" \/ (d.kind[p] = "insert" /\ Subs(p) # {}) =>
         \E q \in Object : d.owner[q] = p /\ d.kind[q] = "seqend"
    /\ p \in d.erased => d.kind[p] \notin {"vertex", "seqend"}

FollowingSibling(p) ==
  LET later == {q \in OwnedBy(d.owner[p]) : q > p}
  IN  IF later = {} THEN 0 ELSE CHOOSE q \in later : \A r \in later : q <= r

LinksFollowOwners ==
  CASE d.era = "pre-R13" -> InOrder(d.entities, {p \in Object : d.kind[p] # "object"})
    [] d.era = "R2004 on" ->
         InOrder(d.entities, OwnedBy(0)) /\ \A o \in Object : InOrder(d.owned[o], Subs(o))
    [] OTHER ->
         /\ AreEnds(d.first, d.last, OwnedBy(0))
         /\ \A o \in Object : /\ d.next[o] \in {0, FollowingSibling(o)}
                              /\ AreEnds(d.firstSub[o], d.lastSub[o], Subs(o))
                              /\ d.owned[o] = <<>> \/ InOrder(d.owned[o], Subs(o))
Intact == RunsAreWhole /\ LinksFollowOwners

Ids(es) == [k \in 1 .. Len(es) |-> es[k].id]
GivenWhole(e) ==
  InOrder(Ids(e.subs), Contents(e.id)) /\ \A sub \in Range(e.subs) : sub.subs = <<>>
ReadAsOwned(es) == InOrder(Ids(es), Contents(0)) /\ \A e \in Range(es) : GivenWhole(e)

(* What a step over the links may leave where: each walk is at an object   *)
(* or at none, and nothing is under way once both passes are done.         *)
TypeOK ==
  /\ IsDrawing(d)
  /\ iterator \in [Object -> Nat]
  /\ pass \in {"entities", "block record", "done"}
  /\ pass = "done" <=> stack = <<>>
  /\ \A i \in DOMAIN stack : /\ stack[i].at \in Object \cup {0} /\ stack[i].of \in Object \cup {0}
                             /\ \A e \in Range(stack[i].got) : e.id \in Object
  /\ \A p \in DOMAIN lists : \A e \in Range(lists[p]) : e.id \in Object
  /\ warned \subseteq Object

(* No link of a file makes a walk turn more often than there are objects,  *)
(* or collect more than MAX_OWNED_SUBENTITIES, or convert what an          *)
(* entity's own entity owns ("One level is what the format has").          *)
WalksAreBounded ==
  /\ Len(stack) <= 2
  /\ \A i \in DOMAIN stack : LET w == stack[i] IN
       /\ w.loop \notin {"list", "vertices"} => w.steps <= Len(d.kind) + 1 \/ w.steps <= MaxOwned
       /\ w.loop \notin {"list", "chain", "vertex stream"} => Len(w.got) <= MaxOwned

(* LibreDWG's place in an entity's own list is one of that list's whenever *)
(* it is used: `_obj->attribs[ent->__iterator]` is not past the array,     *)
(* even where an earlier walk left the place behind.                       *)
IteratorInBounds ==
  \A o \in Object : iterator[o] = 0 \/ iterator[o] < Len(d.owned[o])

(* Whatever the links of a file are, no walk outgrows its bounds, on this  *)
(* side of the library or inside it.                                       *)
WalksStayInBounds == WalksAreBounded /\ IteratorInBounds

(* A layout's entities and its block record "stay in sync", as both are    *)
(* read by walks "none of which mutates" the structure: the same entities  *)
(* with the same sub-entities, apart from the attributes listed again      *)
(* behind their INSERT.                                                    *)
PassesAgree == pass = "done" => lists.entities = AllWithAttribs(lists.record)

(* From a drawing whose links say what its owners say, in every version,   *)
(* both passes give each entity of the block once and in file order, with  *)
(* its own attributes or vertices; nothing erased, no end mark, and no     *)
(* attribute definition lost ("one came back").                            *)
IntactIsRead ==
  pass = "done" /\ Intact => ReadAsOwned(lists.record) /\ PassesAgree /\ warned = {}

(* The passes agree for every drawing but one from R2004 on with an entity whose    *)
(* own list leads astray behind its first place, or is longer than the cap *)
(* on it, as such a list is left in the middle.                            *)
LeftInTheMiddle(o) ==
  \/ Len(d.owned[o]) > MaxOwned
  \/ \E i \in 2 .. Len(d.owned[o]) :
       LET p == Resolve(d.owned[o][i]) IN p = 0 \/ (d.kind[o] = "insert" /\ ~IsAttrib(p))
PassesAgreeUnlessLeft ==
  ~(d.era = "R2004 on" /\ \E o \in Object : LeftInTheMiddle(o)) => PassesAgree

(* POLYLINE_VERTICES is reported for just the polylines of the block whose *)
(* vertices are taken from the records behind it in the file and end       *)
(* before a SEQEND.                                                        *)
RunIsClosed(o) ==
  \E q \in Object : /\ q > o /\ d.kind[q] = "seqend"
                   /\ \A p \in o + 1 .. q - 1 : IsVertex(p)
HasNoList(o) ==
  CASE d.era = "pre-R13" -> TRUE
    [] d.era = "R2004 on" -> FirstOf(d.owned[o]) = 0
    [] OTHER -> Resolve(d.firstSub[o]) = 0
IsOpenRun(o) == d.kind[o] = "polyline" /\ HasNoList(o) /\ ~RunIsClosed(o)

ReportsAreOfOpenRuns == \A o \in warned : IsOpenRun(o)
NoOpenRunIsMissed ==
  \A p \in DOMAIN lists : \A e \in Range(lists[p]) : IsOpenRun(e.id) => e.id \in warned
OpenRunsAreReported ==
  /\ ReportsAreOfOpenRuns /\ NoOpenRunIsMissed
  /\ pass = "done" => warned \subseteq {e.id : e \in Range(lists.record)}

(* Every read ends, whatever the links are.                                *)
WalksEnd == <>(pass = "done")
=============================================================================
