--------------------------- MODULE EntityWalksProofs ---------------------------
(* Whatever the links of a file are: the walks over a drawing of any size  *)
(* turn and collect no more than they may, LibreDWG's place in a list is   *)
(* one of that list's, the polylines reported are those whose records are  *)
(* not closed, and the two passes over a block agree unless a list is left *)
(* in the middle.  And if the links are as the owners say, each entity of  *)
(* the block is given once, in file order and with what it owns.           *)
EXTENDS EntityWalks, SequenceTheorems, WellFoundedInduction, TLAPS

BlockLoops == {"list", "chain"}
AttribLoops == {"owned", "array", "attrib chain", "stream"}
VertexLoops == {"vertices", "vertex stream"}

(* What the drawing says of its objects, as sets.                          *)
OpenRuns == {o \in Object : IsOpenRun(o)}
Unlisted == {o \in Object : HasNoList(o)}
FirstRecord == [o \in Object |-> IF d.era = "R2004 on" THEN FirstOf(d.owned[o])
                                                       ELSE Resolve(d.firstSub[o])]

(* What is converted: a record or an attribute has nothing of its own, an  *)
(* entity of the block may have some, an INSERT attributes.                *)
Plain == [id : Object, subs : {<<>>}]
Attribs == {e \in Plain : d.kind[e.id] = "attrib"}
Entities == [id : Object, subs : Seq(Plain) \cup {Among(g, Vertices) : g \in Seq(Plain)}]
OfBlock == {e \in Entities : d.kind[e.id] = "insert" => e.subs \in Seq(Attribs)}
Reported == {e \in OfBlock : e.id \in OpenRuns => e.id \in warned}

WalkType ==
  [loop : BlockLoops \cup AttribLoops \cup VertexLoops, of : Object \cup {0},
   at : Object \cup {0}, steps : Nat, got : Seq(Entities), depth : Nat]

(* The block's walk.                                                       *)
BlockWalkOK(w) ==
  /\ w.loop \in BlockLoops
  /\ w.loop = "chain" => w.steps <= Len(d.kind) + 1

(* The walk over what an entity owns.  How far it has got bounds what it   *)
(* has collected; one that goes by the __iterator is over unless there is  *)
(* a list; the records behind a polyline are taken only when its own list  *)
(* gave none, and are vertices up to the one the walk is at.               *)
SubWalkOK(w) ==
  /\ w.loop \in AttribLoops \cup VertexLoops
  /\ w.of \in Object
  /\ w.loop \in AttribLoops => d.kind[w.of] = "insert" /\ w.got \in Seq(Attribs)
  /\ w.loop \in VertexLoops => d.kind[w.of] = "polyline" /\ w.got \in Seq(Plain)
  /\ w.loop \in {"owned", "array"} => w.steps <= MaxOwned /\ Len(w.got) <= w.steps
  /\ w.loop \in {"attrib chain", "stream"} =>
       w.steps <= Len(d.kind) + 1 /\ Len(w.got) <= MaxOwned
  /\ d.era = "R2004 on" /\ w.loop \in {"owned", "vertices"} /\ w.at # 0 => d.owned[w.of] # <<>>
  /\ w.loop = "vertices" =>
       /\ d.era # "pre-R13"
       /\ Len(w.got) <= MaxOwned
       /\ IF Len(w.got) = 0 THEN w.at = FirstRecord[w.of] ELSE FirstRecord[w.of] # 0
  /\ w.loop = "vertex stream" =>
       /\ w.of \in Unlisted
       /\ w.at = IF w.of + 1 + w.steps \in Object THEN w.of + 1 + w.steps ELSE 0
       /\ \A p \in w.of + 1 .. w.of + w.steps : p \in Vertices

(* While what an entity owns is walked, the block's walk waits at it, and  *)
(* is not over.                                                            *)
StackOK ==
  /\ stack \in Seq(WalkType)
  /\ IF pass = "done" THEN Len(stack) = 0 ELSE Len(stack) \in {1, 2}
  /\ Len(stack) > 0 => BlockWalkOK(stack[1]) /\ stack[1].got \in Seq(Reported)
  /\ Len(stack) = 2 =>
       /\ SubWalkOK(stack[2])
       /\ stack[2].of = stack[1].at
       /\ stack[1].loop = "chain" => stack[1].steps <= Len(d.kind)

WInv ==
  /\ d \in Drawing
  /\ pass \in {"entities", "block record", "done"}
  /\ iterator \in [Object -> Nat]
  /\ IteratorInBounds
  /\ warned \subseteq OpenRuns
  /\ StackOK
  /\ lists \in [entities : Seq(Reported), record : Seq(Reported)]

-----------------------------------------------------------------------------
LEMMA LeastExists ==
  ASSUME NEW S, S \subseteq Nat, S # {}
  PROVE  \E i \in S : \A j \in S : i <= j
<1> DEFINE less == OpToRel(<, Nat)
<1>1. IsWellFoundedOn(less, Nat)
  BY NatLessThanWellFounded, Zenon
<1>2. \A i, j \in Nat : i < j => <<i, j>> \in less
  BY DEF OpToRel
<1> HIDE DEF less
<1>3. PICK i \in S : \A j \in S : ~(<<j, i>> \in less)
  BY <1>1, WFMin, Zenon
<1>4. \A j \in S : ~(j < i)
  BY <1>2, <1>3, Zenon
<1> QED
  BY <1>4

LEMMA DrawingType ==
  ASSUME d \in Drawing
  PROVE  /\ Len(d.kind) \in Nat /\ Object \subseteq Nat
         /\ d.kind \in [Object -> Kind]
         /\ d.era \in {"pre-R13", "R13 to R2000", "R2004 on"}
         /\ d.entities \in Seq(0 .. Len(d.kind) + 1)
         /\ d.owned \in [Object -> Seq(0 .. Len(d.kind) + 1)]
<1>1. IsDrawing(d)
  BY EntityWalksAssumption
<1>2. /\ d.kind \in Seq(Kind) /\ d.era \in {"pre-R13", "R13 to R2000", "R2004 on"}
      /\ d.entities \in Seq(0 .. Len(d.kind) + 1)
      /\ d.owned \in [1 .. Len(d.kind) -> Seq(0 .. Len(d.kind) + 1)]
  BY <1>1 DEF IsDrawing
<1>3. Len(d.kind) \in Nat /\ d.kind \in [1 .. Len(d.kind) -> Kind]
  <2>1. \A s \in Seq(Kind) : Len(s) \in Nat /\ s \in [1 .. Len(s) -> Kind]
    OBVIOUS
  <2> QED BY <1>2, <2>1, Zenon
<1>4. Object = 1 .. Len(d.kind) /\ Object \subseteq Nat
  BY <1>3 DEF Object
<1> QED
  BY <1>2, <1>3, <1>4, Zenon

(* What is left of a link that leads nowhere is no object.                 *)
LEMMA LinksLeadToObjects ==
  ASSUME d \in Drawing
  PROVE  /\ \A x : Resolve(x) \in Object \cup {0}
         /\ \A i : Listed(i) \in Object \cup {0}
         /\ \A i \in Nat : ListedAfter(i) \in Nat
         /\ \A refs : FirstOf(refs) \in Object \cup {0}
         /\ \A o \in Object : NextObject(o) \in Object \cup {0} /\ NextEntity(o) \in Object \cup {0}
<1>1. \A x : Resolve(x) \in Object \cup {0}
  BY DEF Resolve
<1>2. \A i : Listed(i) \in Object \cup {0}
  BY <1>1 DEF Listed
<1>3. ASSUME NEW i \in Nat PROVE ListedAfter(i) \in Nat
  <2> DEFINE places == {j \in i + 1 .. Len(d.entities) : Resolve(d.entities[j]) # 0}
  <2>1. Len(d.entities) \in Nat /\ places \subseteq Nat
    <3>1. d.entities \in Seq(0 .. Len(d.kind) + 1)
      BY DrawingType
    <3> QED BY <3>1
  <2>2. CASE places = {}
    BY <2>1, <2>2 DEF ListedAfter
  <2>3. CASE places # {}
    <3>1. \E j \in places : \A k \in places : j <= k
      BY <2>1, <2>3, LeastExists
    <3>2. ListedAfter(i) = CHOOSE j \in places : \A k \in places : j <= k
      BY <2>3 DEF ListedAfter
    <3> HIDE DEF places
    <3>3. ListedAfter(i) \in places
      BY <3>1, <3>2
    <3> QED BY <2>1, <3>3
  <2> QED BY <2>2, <2>3
<1>4. ASSUME NEW o \in Object PROVE NextEntityInFile(o) \in Object \cup {0}
  <2> DEFINE later == {p \in Object : p > o /\ d.kind[p] # "object"}
  <2>1. CASE later = {}
    BY <2>1 DEF NextEntityInFile
  <2>2. CASE later # {}
    <3>1. \E p \in later : \A q \in later : p <= q
      BY <2>2, DrawingType, LeastExists
    <3>2. NextEntityInFile(o) = CHOOSE p \in later : \A q \in later : p <= q
      BY <2>2 DEF NextEntityInFile
    <3>3. later \subseteq Object
      OBVIOUS
    <3> HIDE DEF later
    <3> QED BY <3>1, <3>2, <3>3
  <2> QED BY <2>1, <2>2
<1>5. \A o \in Object : NextEntity(o) \in Object \cup {0}
  BY <1>1, <1>4 DEF NextEntity
<1> QED
  BY <1>1, <1>2, <1>3, <1>5 DEF FirstOf, NextObject

(* A walk that goes on goes on to an object, or to none.                   *)
LEMMA AdvancedType ==
  ASSUME d \in Drawing, NEW w \in WalkType, ~Over(w), NEW made \in Seq(Entities)
  PROVE  LET a == Advanced([w EXCEPT !.got = @ \o made])
         IN  /\ a \in WalkType
             /\ a.loop = w.loop /\ a.of = w.of /\ a.depth = w.depth /\ a.got = w.got \o made
             /\ w.loop # "list" => a.steps = w.steps + 1
             /\ a.at = After([w EXCEPT !.got = @ \o made])
<1> DEFINE v == [w EXCEPT !.got = @ \o made]
<1>1. /\ v \in WalkType
      /\ v.loop = w.loop /\ v.of = w.of /\ v.depth = w.depth /\ v.steps = w.steps
      /\ v.at = w.at /\ v.got = w.got \o made
  <2>1. w.got \o made \in Seq(Entities)
    BY ConcatProperties DEF WalkType
  <2> QED BY <2>1 DEF WalkType
<1>2. After(v) \in Object \cup {0}
  <2>1. CASE w.loop = "chain"
    BY <1>1, <2>1, LinksLeadToObjects DEF After, Over, WalkType
  <2>2. CASE w.loop = "attrib chain"
    BY <1>1, <2>2, LinksLeadToObjects DEF After, Over, IsAttrib
  <2>3. CASE w.loop \in {"list", "array"}
    BY <1>1, <2>3, LinksLeadToObjects DEF After
  <2>4. CASE w.loop \in {"stream", "vertex stream", "owned", "vertices"}
    BY <1>1, <2>4, LinksLeadToObjects DEF After, NextObject
  <2> QED BY <2>1, <2>2, <2>3, <2>4 DEF WalkType, BlockLoops, AttribLoops, VertexLoops
<1> HIDE DEF v
<1>3. ListedAfter(v.steps) \in Nat /\ v.steps + 1 \in Nat
  <2>1. v.steps \in Nat
    BY <1>1 DEF WalkType
  <2>2. \A n \in Nat : n + 1 \in Nat
    OBVIOUS
  <2>3. \A n \in Nat : ListedAfter(n) \in Nat
    BY LinksLeadToObjects, Zenon
  <2> QED BY <2>1, <2>2, <2>3, Zenon
<1>4. Advanced(v) = [v EXCEPT !.at = After(v),
                       !.steps = IF v.loop = "list" THEN ListedAfter(v.steps) ELSE v.steps + 1]
  BY DEF Advanced
<1>5. Advanced(v) \in WalkType
  BY <1>1, <1>2, <1>3, <1>4 DEF WalkType
<1>6. /\ Advanced(v).loop = w.loop /\ Advanced(v).of = w.of /\ Advanced(v).depth = w.depth
      /\ Advanced(v).got = w.got \o made
      /\ w.loop # "list" => Advanced(v).steps = w.steps + 1
      /\ Advanced(v).at = After(v)
  BY <1>1, <1>4 DEF WalkType
<1> QED
  BY <1>5, <1>6 DEF v

LEMMA PlainAreEntities ==
  /\ Plain \subseteq Entities /\ Attribs \subseteq Plain /\ Reported \subseteq Entities
  /\ \A s \in Seq(Plain) : s \in Seq(Entities)
  /\ \A s \in Seq(Attribs) : s \in Seq(Plain)
  /\ \A s \in Seq(Reported) : s \in Seq(Entities)
<1>1. <<>> \in Seq(Plain)
  OBVIOUS
<1>2. Plain \subseteq Entities /\ Attribs \subseteq Plain /\ Reported \subseteq Entities
  BY <1>1 DEF Plain, Attribs, Entities, Reported, OfBlock
<1>3. \A S, T : S \subseteq T => \A s \in Seq(S) : s \in Seq(T)
  BY SeqMonotonic, Zenon
<1> QED
  BY <1>2, <1>3, Zenon

(* No turn takes the block's walk past its bound.                          *)
LEMMA BlockAdvances ==
  ASSUME d \in Drawing, NEW w \in WalkType, BlockWalkOK(w), ~Over(w), NEW made \in Seq(Entities)
  PROVE  BlockWalkOK(Advanced([w EXCEPT !.got = @ \o made]))
<1> DEFINE a == Advanced([w EXCEPT !.got = @ \o made])
<1>1. a.loop = w.loop /\ (w.loop # "list" => a.steps = w.steps + 1)
  BY AdvancedType
<1> HIDE DEF a
<1>2. ASSUME w.loop = "chain" PROVE a.steps <= Len(d.kind) + 1
  <2>1. w.steps \in Nat /\ Len(d.kind) \in Nat /\ a.steps = w.steps + 1
    BY <1>1, <1>2, DrawingType DEF WalkType
  <2>2. ~(w.steps > Len(d.kind))
    BY <1>2 DEF Over
  <2> QED BY <2>1, <2>2
<1> QED
  BY <1>1, <1>2 DEF a, BlockWalkOK

(* Nor the walk over what an entity owns.                                  *)
LEMMA SubAdvances ==
  ASSUME d \in Drawing, NEW w \in WalkType, SubWalkOK(w), ~Over(w),
         NEW made \in Seq(Plain), Len(made) <= 1,
         w.loop \in AttribLoops => made \in Seq(Attribs),
         w.loop = "vertices" => Len(made) = 1
  PROVE  SubWalkOK(Advanced([w EXCEPT !.got = @ \o made]))
<1> DEFINE v == [w EXCEPT !.got = @ \o made]
           a == Advanced(v)
<1>1. /\ a \in WalkType /\ a.loop = w.loop /\ a.of = w.of /\ a.got = w.got \o made
      /\ a.steps = w.steps + 1 /\ a.at = After(v)
  <2>1. w.loop # "list" /\ made \in Seq(Entities)
    BY PlainAreEntities DEF SubWalkOK, AttribLoops, VertexLoops
  <2> QED BY <2>1, AdvancedType
<1>3. v.loop = w.loop /\ v.at = w.at
  BY DEF WalkType
<1> HIDE DEF v, a
<1>2. /\ w.loop \in AttribLoops => a.got \in Seq(Attribs)
      /\ w.loop \in VertexLoops => a.got \in Seq(Plain)
      /\ Len(a.got) = Len(w.got) + Len(made)
      /\ Len(made) \in Nat /\ Len(w.got) \in Nat /\ w.steps \in Nat
  <2>1. w.got \in Seq(Entities) /\ made \in Seq(Entities) /\ w.steps \in Nat
    BY PlainAreEntities DEF WalkType
  <2>6. Len(made) \in Nat /\ Len(w.got) \in Nat
    BY <2>1, LenProperties, Zenon
  <2>3. \A S : \A s, t \in Seq(S) : s \o t \in Seq(S) /\ Len(s \o t) = Len(s) + Len(t)
    BY ConcatProperties, Zenon
  <2>2. Len(a.got) = Len(w.got) + Len(made)
    BY <1>1, <2>1, <2>3, Zenon
  <2>4. w.loop \in AttribLoops => w.got \in Seq(Attribs)
    BY DEF SubWalkOK
  <2>5. w.loop \in VertexLoops => w.got \in Seq(Plain)
    BY DEF SubWalkOK
  <2> QED BY <1>1, <2>1, <2>2, <2>3, <2>4, <2>5, <2>6, Zenon
<1>10. \A g, m, s, n \in Nat : m <= 1 =>
         /\ ~(s >= n) /\ g <= s => s + 1 <= n /\ g + m <= s + 1
         /\ ~(g >= n) => g + m <= n
         /\ ~(s > n) => s + 1 <= n + 1
         /\ m = 1 => g + m # 0
  OBVIOUS
<1>4. Len(d.kind) \in Nat /\ MaxOwned \in Nat \ {0} /\ 0 \notin Object /\ Object = 1 .. Len(d.kind)
  <2>1. Len(d.kind) \in Nat /\ MaxOwned \in Nat \ {0}
    BY DrawingType, EntityWalksAssumption
  <2> QED BY <2>1 DEF Object
<1>5. /\ w.loop \in {"owned", "array"} => a.steps <= MaxOwned /\ Len(a.got) <= a.steps
      /\ w.loop \in {"attrib chain", "stream"} =>
           a.steps <= Len(d.kind) + 1 /\ Len(a.got) <= MaxOwned
      /\ w.loop = "vertices" => Len(a.got) <= MaxOwned
  <2>1. CASE w.loop \in {"owned", "array"}
    <3>1. ~(w.steps >= MaxOwned) /\ Len(w.got) <= w.steps
      BY <2>1 DEF Over, SubWalkOK
    <3>2. w.steps + 1 <= MaxOwned /\ Len(w.got) + Len(made) <= w.steps + 1
      BY <1>2, <1>4, <1>10, <3>1
    <3> QED BY <1>1, <1>2, <2>1, <3>2
  <2>2. CASE w.loop \in {"attrib chain", "stream"}
    <3>1. ~(w.steps > Len(d.kind)) /\ ~(Len(w.got) >= MaxOwned)
      BY <2>2 DEF Over
    <3>2. w.steps + 1 <= Len(d.kind) + 1 /\ Len(w.got) + Len(made) <= MaxOwned
      BY <1>2, <1>4, <1>10, <3>1
    <3> QED BY <1>1, <1>2, <2>2, <3>2
  <2>3. CASE w.loop = "vertices"
    <3>1. ~(Len(w.got) >= MaxOwned)
      BY <2>3 DEF Over
    <3> QED BY <1>1, <1>2, <1>4, <1>10, <2>3, <3>1, Zenon
  <2> QED BY <2>1, <2>2, <2>3
<1>6. w.loop \in {"owned", "vertices"} => w.at # 0
  BY <1>4 DEF Over, IsAttrib
<1>7. w.loop = "vertices" =>
        d.era # "pre-R13" /\ Len(a.got) # 0 /\ FirstRecord[a.of] # 0
  <2> SUFFICES ASSUME w.loop = "vertices"
               PROVE  d.era # "pre-R13" /\ Len(a.got) # 0 /\ FirstRecord[a.of] # 0
    OBVIOUS
  <2>1. /\ d.era # "pre-R13"
        /\ IF Len(w.got) = 0 THEN w.at = FirstRecord[w.of] ELSE FirstRecord[w.of] # 0
    BY DEF SubWalkOK
  <2>2. Len(a.got) # 0
    BY <1>2, <1>4, <1>10, Zenon
  <2> QED BY <1>1, <1>6, <2>1, <2>2
<1>8. CASE w.loop = "vertex stream"
  <2>1. /\ w.of \in Unlisted /\ w.of \in Object
        /\ w.at = IF w.of + 1 + w.steps \in Object THEN w.of + 1 + w.steps ELSE 0
        /\ \A p \in w.of + 1 .. w.of + w.steps : p \in Vertices
    BY <1>8 DEF SubWalkOK
  <2>2. IsVertex(w.at)
    BY <1>8 DEF Over
  <2>3. w.at \in Vertices /\ w.at \in Object
    BY <2>2 DEF IsVertex, Vertices
  <2>4. w.at = w.of + 1 + w.steps
    BY <1>4, <2>1, <2>3
  <2>5. a.at = IF w.at + 1 \in Object THEN w.at + 1 ELSE 0
    <3>1. After(v) = NextObject(v.at)
      BY <1>3, <1>8 DEF After, ByIterator
    <3> QED BY <1>1, <1>3, <3>1 DEF NextObject, Resolve
  <2>11. w.of \in Nat /\ w.steps \in Nat
    BY <1>2, <1>4, <2>1
  <2>12. \A o, n \in Nat : o + 1 + (n + 1) = (o + 1 + n) + 1 /\ o + (n + 1) = o + 1 + n
    OBVIOUS
  <2>6. a.of + 1 + a.steps = w.at + 1 /\ a.of + a.steps = w.at /\ a.of = w.of
    BY <1>1, <2>4, <2>11, <2>12, Zenon
  <2>13. \A o, n \in Nat : \A p \in o + 1 .. o + 1 + n : p \in o + 1 .. o + n \/ p = o + 1 + n
    OBVIOUS
  <2>7. \A p \in a.of + 1 .. a.of + a.steps : p \in Vertices
    BY <2>1, <2>3, <2>4, <2>6, <2>11, <2>13, Zenon
  <2>8. a.loop = "vertex stream" /\ a.got \in Seq(Plain) /\ d.kind[a.of] = "polyline"
    BY <1>1, <1>2, <1>8 DEF SubWalkOK, VertexLoops
  <2>9. a.at = IF a.of + 1 + a.steps \in Object THEN a.of + 1 + a.steps ELSE 0
    BY <2>5, <2>6
  <2>10. SubWalkOK(a)
    BY <2>1, <2>6, <2>7, <2>8, <2>9 DEF SubWalkOK, AttribLoops, VertexLoops
  <2> QED BY <2>10 DEF a, v
<1>9. CASE w.loop # "vertex stream"
  <2>1. /\ w.loop \in AttribLoops \cup VertexLoops /\ w.of \in Object
        /\ w.loop \in AttribLoops => d.kind[w.of] = "insert"
        /\ w.loop \in VertexLoops => d.kind[w.of] = "polyline"
        /\ d.era = "R2004 on" /\ w.loop \in {"owned", "vertices"} /\ w.at # 0 =>
             d.owned[w.of] # <<>>
    BY DEF SubWalkOK
  <2>2. SubWalkOK(a)
    BY <1>1, <1>2, <1>5, <1>6, <1>7, <1>9, <2>1 DEF SubWalkOK
  <2> QED BY <2>2 DEF a, v
<1> QED
  BY <1>8, <1>9

(* LibreDWG's place in a list moves to another of the list's, or back to   *)
(* the first, wherever it was left.                                        *)
LEMMA IteratorStays ==
  ASSUME d \in Drawing, iterator \in [Object -> Nat], IteratorInBounds, NEW w,
         ByIterator(w) => w.of \in Object /\ d.owned[w.of] # <<>>
  PROVE  /\ IteratorAfter(w) \in [Object -> Nat]
         /\ \A o \in Object : IteratorAfter(w)[o] = 0 \/ IteratorAfter(w)[o] < Len(d.owned[o])
<1>1. CASE ~ByIterator(w)
  BY <1>1 DEF IteratorAfter, IteratorInBounds
<1>2. CASE ByIterator(w)
  <2> DEFINE n == Len(d.owned[w.of])
             i == iterator[w.of]
  <2>1. n \in Nat \ {0} /\ i \in Nat
    <3>1. d.owned[w.of] \in Seq(0 .. Len(d.kind) + 1) /\ d.owned[w.of] # <<>>
      BY <1>2, DrawingType
    <3>2. \A S : \A s \in Seq(S) : s # <<>> => Len(s) \in Nat \ {0}
      OBVIOUS
    <3> QED BY <1>2, <3>1, <3>2
  <2>2. i = 0 \/ i < n
    BY <1>2 DEF IteratorInBounds
  <2>3. IteratorAfter(w) = [iterator EXCEPT ![w.of] = IF i + 1 = n THEN 0 ELSE i + 1]
    BY <1>2 DEF IteratorAfter, LastOwned
  <2> HIDE DEF n, i
  <2>4. i + 1 # n => i + 1 < n
    BY <2>1, <2>2
  <2>5. (IF i + 1 = n THEN 0 ELSE i + 1) \in Nat
    BY <2>1
  <2>6. \A o \in Object : IteratorAfter(w)[o] =
          IF o = w.of THEN IF i + 1 = n THEN 0 ELSE i + 1 ELSE iterator[o]
    BY <2>3
  <2> QED
    BY <2>3, <2>4, <2>5, <2>6 DEF n, IteratorInBounds
<1> QED
  BY <1>1, <1>2

(* What stays as it is while the drawing does.                             *)
LEMMA DrawingStays ==
  ASSUME d' = d
  PROVE  /\ Object' = Object /\ Vertices' = Vertices
         /\ OpenRuns' = OpenRuns /\ Unlisted' = Unlisted /\ FirstRecord' = FirstRecord
         /\ Plain' = Plain /\ Attribs' = Attribs /\ Entities' = Entities /\ OfBlock' = OfBlock
         /\ WalkType' = WalkType
<1>1. Object' = Object
  BY DEF Object
<1>2. Vertices' = Vertices
  BY <1>1 DEF Vertices, IsVertex
<1>3. \A x : Resolve(x)' = Resolve(x) /\ FirstOf(x)' = FirstOf(x)
  BY <1>1 DEF Resolve, FirstOf
<1>4. Unlisted' = Unlisted
  BY <1>1, <1>3 DEF Unlisted, HasNoList
<1>5. OpenRuns' = OpenRuns
  BY <1>1, <1>3 DEF OpenRuns, IsOpenRun, HasNoList, RunIsClosed, IsVertex
<1>6. FirstRecord' = FirstRecord
  BY <1>1, <1>3 DEF FirstRecord
<1>7. Plain' = Plain
  BY <1>1 DEF Plain
<1>8. Attribs' = Attribs
  BY <1>7 DEF Attribs
<1>9. Entities' = Entities
  BY <1>1, <1>2, <1>7 DEF Entities
<1>10. OfBlock' = OfBlock
  BY <1>8, <1>9 DEF OfBlock
<1>11. WalkType' = WalkType
  BY <1>1, <1>9 DEF WalkType
<1> QED
  BY <1>1, <1>2, <1>4, <1>5, <1>6, <1>7, <1>8, <1>9, <1>10, <1>11

LEMMA WalksStay ==
  ASSUME d' = d, NEW w
  PROVE  /\ BlockWalkOK(w)' <=> BlockWalkOK(w)
         /\ SubWalkOK(w)' <=> SubWalkOK(w)
  BY DrawingStays DEF BlockWalkOK, SubWalkOK

LEMMA ReportedGrows ==
  ASSUME d' = d, warned \subseteq warned'
  PROVE  /\ Reported \subseteq Reported'
         /\ \A s \in Seq(Reported) : s \in Seq(Reported')
<1>1. Reported \subseteq Reported'
  BY DrawingStays DEF Reported
<1> QED
  BY <1>1, SeqMonotonic, Zenon

LEMMA AppendToOne ==
  ASSUME NEW a, NEW x
  PROVE  Append(<<a>>, x) = <<a, x>>
<1> DEFINE S == {a, x}
<1>1. <<a>> \in Seq(S) /\ Len(<<a>>) = 1 /\ x \in S
  OBVIOUS
<1>2. /\ Append(<<a>>, x) \in Seq(S) /\ Len(Append(<<a>>, x)) = 2
      /\ Append(<<a>>, x)[1] = a /\ Append(<<a>>, x)[2] = x
  BY <1>1, AppendProperties
<1>3. <<a, x>> \in Seq(S) /\ Len(<<a, x>>) = 2
  OBVIOUS
<1>4. <<a, x>>[1] = a /\ <<a, x>>[2] = x
  OBVIOUS
<1>5. \A s1, s2 \in Seq(S) :
        Len(s1) = 2 /\ Len(s2) = 2 /\ s1[1] = s2[1] /\ s1[2] = s2[2] => s1 = s2
  BY SeqEqual
<1> QED BY <1>2, <1>3, <1>4, <1>5, Zenon

(* The walk on top of the stack, and the stack once another is put in its  *)
(* place.                                                                  *)
LEMMA TopOfStack ==
  ASSUME NEW s \in Seq(WalkType)
  PROVE  /\ Len(s) = 1 => /\ s = <<s[1]>> /\ Last(s) = s[1] /\ s[1] \in WalkType
                          /\ \A x : Append(Front(s), x) = <<x>>
         /\ Len(s) = 2 => /\ s = <<s[1], s[2]>> /\ Last(s) = s[2]
                          /\ s[1] \in WalkType /\ s[2] \in WalkType
                          /\ \A x : Append(Front(s), x) = <<s[1], x>>
         /\ \A x : Append(SubSeq(s, 1, 0), x) = <<x>>
         /\ s = <<>> <=> Len(s) = 0
<1>1. \A x : Append(<<>>, x) = <<x>>
  OBVIOUS
<1>2. \A a, x : Append(<<a>>, x) = <<a, x>>
  BY AppendToOne
<1>3. SubSeq(s, 1, 0) = <<>>
  BY SubSeqEmpty
<1>4. ASSUME Len(s) = 1
      PROVE  /\ s = <<s[1]>> /\ Last(s) = s[1] /\ s[1] \in WalkType
             /\ Front(s) = <<>>
  <2>1. s[1] \in WalkType
    BY <1>4
  <2>2. s = <<s[1]>>
    BY <1>4, <2>1
  <2>3. Last(s) = s[1] /\ Front(s) = SubSeq(s, 1, 0)
    BY <1>4 DEF Last, Front
  <2> QED BY <1>3, <2>1, <2>2, <2>3, Zenon
<1>5. ASSUME Len(s) = 2
      PROVE  /\ s = <<s[1], s[2]>> /\ Last(s) = s[2]
             /\ s[1] \in WalkType /\ s[2] \in WalkType
             /\ Front(s) = <<s[1]>>
  <2>1. s[1] \in WalkType /\ s[2] \in WalkType
    BY <1>5
  <2>2. s = <<s[1], s[2]>>
    BY <1>5, <2>1
  <2>3. Last(s) = s[2] /\ Front(s) = SubSeq(s, 1, 1)
    BY <1>5 DEF Last, Front
  <2>4. SubSeq(s, 1, 1) = <<s[1]>>
    <3>1. /\ SubSeq(s, 1, 1) \in Seq(WalkType) /\ Len(SubSeq(s, 1, 1)) = 1
          /\ SubSeq(s, 1, 1)[1] = s[1]
      BY <2>1, SubSeqProperties
    <3>2. <<s[1]>> \in Seq(WalkType) /\ Len(<<s[1]>>) = 1 /\ <<s[1]>>[1] = s[1]
      BY <2>1
    <3>3. \A s1, s2 \in Seq(WalkType) :
            Len(s1) = 1 /\ Len(s2) = 1 /\ s1[1] = s2[1] => s1 = s2
      BY SeqEqual
    <3> QED BY <3>1, <3>2, <3>3, Zenon
  <2> QED BY <2>1, <2>2, <2>3, <2>4, Zenon
<1>6. s = <<>> <=> Len(s) = 0
  BY EmptySeq
<1> QED
  BY <1>1, <1>2, <1>3, <1>4, <1>5, <1>6, Zenon

(* One walk under way, the block's, or two.                                *)
LEMMA OneWalk ==
  ASSUME NEW b \in WalkType, stack' = <<b>>, d' = d,
         pass' # "done", BlockWalkOK(b), b.got \in Seq(Reported')
  PROVE  StackOK'
<1>1. Len(stack') = 1 /\ stack'[1] = b /\ stack' \in Seq(WalkType)
  OBVIOUS
<1> QED
  BY <1>1, DrawingStays, WalksStay DEF StackOK

LEMMA TwoWalks ==
  ASSUME NEW b \in WalkType, NEW t \in WalkType, stack' = <<b, t>>, d' = d,
         pass' # "done", BlockWalkOK(b), b.got \in Seq(Reported'), SubWalkOK(t), t.of = b.at,
         b.loop = "chain" => b.steps <= Len(d.kind)
  PROVE  StackOK'
<1>1. Len(stack') = 2 /\ stack'[1] = b /\ stack'[2] = t /\ stack' \in Seq(WalkType)
  OBVIOUS
<1> QED
  BY <1>1, DrawingStays, WalksStay DEF StackOK

(* A run of V from behind o, as far as n on and as far as q.               *)
LEMMA RunsMeet ==
  ASSUME NEW k \in Nat, NEW o \in Nat, NEW n \in Nat, NEW V, \A p \in V : p \in 1 .. k,
         1 <= o, o <= k, \A p \in o + 1 .. o + n : p \in V
  PROVE  /\ n <= k
         /\ o + 1 + n > o /\ (o + 1 + n) - 1 = o + n
         /\ \A q \in Nat : /\ q > o /\ q \notin V /\ o + 1 + n \notin V
                           /\ \A p \in o + 1 .. q - 1 : p \in V
                         => q = o + 1 + n
<1>1. n <= k
  <2>1. n = 0 \/ o + n \in o + 1 .. o + n
    OBVIOUS
  <2>2. n = 0 \/ o + n \in 1 .. k
    BY <2>1
  <2> QED BY <2>2
<1>2. ASSUME NEW q \in Nat, q > o, q \notin V, o + 1 + n \notin V,
             \A p \in o + 1 .. q - 1 : p \in V
      PROVE  q = o + 1 + n
  <2>1. ~(q <= o + n)
    BY <1>2
  <2>2. ~(q > o + 1 + n)
    <3>1. q > o + 1 + n => o + 1 + n \in o + 1 .. q - 1
      BY <1>2
    <3> QED BY <1>2, <3>1
  <2> QED BY <1>2, <2>1, <2>2
<1> QED
  BY <1>1, <1>2

(* A walk over the records behind a polyline is over at a SEQEND just if   *)
(* the polyline's run is closed.                                           *)
LEMMA RunEnds ==
  ASSUME d \in Drawing, NEW w \in WalkType, SubWalkOK(w)
  PROVE  w.loop = "vertex stream" =>
           /\ w.steps <= Len(d.kind)
           /\ Over(w) => (EndsAtSeqend(w) <=> RunIsClosed(w.of))
<1>0. SUFFICES ASSUME w.loop = "vertex stream"
               PROVE  /\ w.steps <= Len(d.kind)
                      /\ Over(w) => (EndsAtSeqend(w) <=> RunIsClosed(w.of))
  OBVIOUS
<1>1. w.of \in Object /\ w.steps \in Nat /\ Len(d.kind) \in Nat /\ Object = 1 .. Len(d.kind)
  BY DrawingType DEF SubWalkOK, WalkType, Object
<1>2. w.of \in Nat /\ 1 <= w.of /\ w.of <= Len(d.kind) /\ 0 \notin Object /\ Object \subseteq Nat
  <2>1. \A k \in Nat : 0 \notin 1 .. k /\ \A o \in 1 .. k : o \in Nat /\ 1 <= o /\ o <= k
    OBVIOUS
  <2> QED BY <1>1, <2>1, Zenon
<1>3. /\ w.at = IF w.of + 1 + w.steps \in Object THEN w.of + 1 + w.steps ELSE 0
      /\ \A p \in w.of + 1 .. w.of + w.steps : p \in Vertices
  BY <1>0 DEF SubWalkOK
<1>4. \A p \in Vertices : p \in 1 .. Len(d.kind)
  BY <1>1 DEF Vertices
<1>5. /\ w.steps <= Len(d.kind)
      /\ w.of + 1 + w.steps > w.of /\ (w.of + 1 + w.steps) - 1 = w.of + w.steps
      /\ \A q \in Nat : /\ q > w.of /\ q \notin Vertices /\ w.of + 1 + w.steps \notin Vertices
                        /\ \A p \in w.of + 1 .. q - 1 : p \in Vertices
                      => q = w.of + 1 + w.steps
  <2> DEFINE RunOf(k, o, n, V) ==
               (\A p \in V : p \in 1 .. k) /\ 1 <= o /\ o <= k /\ \A p \in o + 1 .. o + n : p \in V
             Meets(k, o, n, V) ==
               /\ n <= k
               /\ o + 1 + n > o /\ (o + 1 + n) - 1 = o + n
               /\ \A q \in Nat : /\ q > o /\ q \notin V /\ o + 1 + n \notin V
                                 /\ \A p \in o + 1 .. q - 1 : p \in V
                               => q = o + 1 + n
  <2>1. \A k, o, n \in Nat : \A V : RunOf(k, o, n, V) => Meets(k, o, n, V)
    BY RunsMeet
  <2>2. RunOf(Len(d.kind), w.of, w.steps, Vertices)
    BY <1>2, <1>3, <1>4, Zenon
  <2> HIDE DEF RunOf, Meets
  <2>3. Meets(Len(d.kind), w.of, w.steps, Vertices)
    BY <1>1, <1>2, <2>1, <2>2, Zenon
  <2> QED BY <2>3 DEF Meets
<1>6. \A p : p \in Vertices <=> IsVertex(p)
  BY DEF Vertices, IsVertex
<1>7. ASSUME EndsAtSeqend(w) PROVE RunIsClosed(w.of)
  <2>1. w.at # 0 /\ d.kind[w.at] = "seqend"
    BY <1>7 DEF EndsAtSeqend
  <2>2. w.at = w.of + 1 + w.steps /\ w.at \in Object
    BY <1>3, <2>1, Zenon
  <2>3. w.at > w.of /\ \A p \in w.of + 1 .. w.at - 1 : IsVertex(p)
    BY <1>3, <1>5, <1>6, <2>2, Zenon
  <2> QED BY <2>1, <2>2, <2>3 DEF RunIsClosed
<1>8. ASSUME Over(w), RunIsClosed(w.of) PROVE EndsAtSeqend(w)
  <2>1. PICK q \in Object : /\ q > w.of /\ d.kind[q] = "seqend"
                            /\ \A p \in w.of + 1 .. q - 1 : IsVertex(p)
    BY <1>8 DEF RunIsClosed
  <2>2. w.steps > Len(d.kind) \/ ~IsVertex(w.at)
    BY <1>0, <1>8 DEF Over
  <2>3. ~(w.steps > Len(d.kind))
    <3>1. \A m, n \in Nat : m <= n => ~(m > n)
      OBVIOUS
    <3> QED BY <1>1, <1>5, <3>1, Zenon
  <2>4. w.of + 1 + w.steps \notin Vertices
    <3>1. ~IsVertex(w.at)
      BY <2>2, <2>3, Zenon DEF IsVertex
    <3>2. w.of + 1 + w.steps \in Vertices => w.at = w.of + 1 + w.steps
      BY <1>3, Zenon DEF Vertices
    <3> QED BY <1>6, <3>1, <3>2, Zenon
  <2>5. q \in Nat /\ q \notin Vertices
    BY <1>2, <2>1 DEF Vertices, IsVertex
  <2>6. q = w.of + 1 + w.steps
    BY <1>5, <1>6, <2>1, <2>4, <2>5, Zenon
  <2>7. w.at = q /\ w.at # 0
    BY <1>2, <1>3, <2>1, <2>6, Zenon
  <2> QED
    BY <1>5, <2>1, <2>7 DEF EndsAtSeqend
<1>9. EndsAtSeqend(w) \in BOOLEAN /\ RunIsClosed(w.of) \in BOOLEAN
  BY DEF EndsAtSeqend, RunIsClosed
<1> QED
  BY <1>5, <1>7, <1>8, <1>9, Zenon

(* The walks under way, by name.                                           *)
LEMMA BlocksWalk ==
  ASSUME WInv, Len(stack) = 1
  PROVE  \E b \in WalkType :
           /\ stack = <<b>> /\ Top = b /\ stack[1] = b /\ pass # "done"
           /\ BlockWalkOK(b) /\ b.got \in Seq(Reported)
           /\ \A x : Append(Front(stack), x) = <<x>>
<1>1. Len(stack) > 0 /\ ~(Len(stack) = 0)
  OBVIOUS
<1>2. stack \in Seq(WalkType) /\ pass # "done" /\ BlockWalkOK(stack[1]) /\ stack[1].got \in Seq(Reported)
  BY <1>1, Zenon DEF WInv, StackOK
<1> QED
  BY <1>2, TopOfStack, Zenon DEF Top

LEMMA SubWalk ==
  ASSUME WInv, Len(stack) = 2
  PROVE  \E b \in WalkType, t \in WalkType :
           /\ stack = <<b, t>> /\ Top = t /\ stack[1] = b /\ pass # "done"
           /\ BlockWalkOK(b) /\ b.got \in Seq(Reported) /\ SubWalkOK(t)
           /\ t.of = b.at /\ (b.loop = "chain" => b.steps <= Len(d.kind))
           /\ \A x : Append(Front(stack), x) = <<b, x>>
           /\ \A x : Append(SubSeq(stack, 1, Len(stack) - 2), x) = <<x>>
<1>3. Len(stack) > 0 /\ ~(Len(stack) = 0)
  OBVIOUS
<1>1. /\ stack \in Seq(WalkType) /\ pass # "done"
      /\ BlockWalkOK(stack[1]) /\ stack[1].got \in Seq(Reported)
      /\ SubWalkOK(stack[2]) /\ stack[2].of = stack[1].at
      /\ stack[1].loop = "chain" => stack[1].steps <= Len(d.kind)
  BY <1>3, Zenon DEF WInv, StackOK
<1>2. Len(stack) - 2 = 0
  OBVIOUS
<1> QED
  BY <1>1, <1>2, TopOfStack, Zenon DEF Top

LEMMA OneOrTwo ==
  ASSUME WInv
  PROVE  stack # <<>> => Len(stack) = 1 \/ Len(stack) = 2
<1>1. stack \in Seq(WalkType) /\ (Len(stack) = 0 \/ Len(stack) = 1 \/ Len(stack) = 2)
  BY DEF WInv, StackOK
<1> QED
  BY <1>1, TopOfStack, Zenon

(* While a walk turns it is at an object; one by the __iterator has a list *)
(* to be in.                                                               *)
LEMMA TurningIsAtAnObject ==
  ASSUME d \in Drawing, NEW w \in WalkType, ~Over(w)
  PROVE  /\ w.loop # "array" => w.at \in Object /\ w.at # 0
         /\ SubWalkOK(w) /\ ByIterator(w) => w.of \in Object /\ d.owned[w.of] # <<>>
         /\ w.loop \in {"owned", "attrib chain", "stream"} => d.kind[w.at] = "attrib"
         /\ w.loop = "chain" => w.steps <= Len(d.kind)
<1>1. /\ w.loop \in BlockLoops \cup AttribLoops \cup VertexLoops
      /\ w.at \in Object \cup {0} /\ w.steps \in Nat /\ Len(d.kind) \in Nat
  BY DrawingType DEF WalkType
<1>2. 0 \notin Object
  BY <1>1 DEF Object
<1>3. CASE w.loop = "list"
  BY <1>1, <1>2, <1>3 DEF Over, ByIterator
<1>4. CASE w.loop = "chain"
  <2>1. w.at # 0 /\ ~(w.steps > Len(d.kind))
    BY <1>4 DEF Over
  <2> QED BY <1>1, <1>2, <1>4, <2>1 DEF ByIterator
<1>5. CASE w.loop = "array"
  BY <1>1, <1>2, <1>5 DEF Over, ByIterator
<1>6. CASE w.loop = "owned"
  BY <1>1, <1>2, <1>6 DEF Over, ByIterator, IsAttrib, SubWalkOK
<1>7. CASE w.loop \in {"attrib chain", "stream"}
  BY <1>1, <1>2, <1>7 DEF Over, ByIterator, IsAttrib
<1>8. CASE w.loop = "vertices"
  BY <1>1, <1>2, <1>8 DEF Over, ByIterator, SubWalkOK
<1>9. CASE w.loop = "vertex stream"
  BY <1>1, <1>2, <1>9 DEF Over, ByIterator, IsVertex
<1> QED
  BY <1>1, <1>3, <1>4, <1>5, <1>6, <1>7, <1>8, <1>9 DEF BlockLoops, AttribLoops, VertexLoops

(* The rest of the state is as it was, or the report is one of an open run.*)
LEMMA OthersKept ==
  ASSUME WInv, d' = d, StackOK', pass' \in {"entities", "block record", "done"},
         iterator' \in [Object -> Nat],
         \A o \in Object : iterator'[o] = 0 \/ iterator'[o] < Len(d.owned[o]),
         warned \subseteq warned', warned' \subseteq OpenRuns,
         lists' \in [entities : Seq(Reported'), record : Seq(Reported')]
  PROVE  WInv'
  BY DrawingStays DEF WInv, IteratorInBounds

LEMMA ListsStay ==
  ASSUME WInv, d' = d, warned \subseteq warned', lists' = lists
  PROVE  lists' \in [entities : Seq(Reported'), record : Seq(Reported')]
<1>1. lists \in [entities : Seq(Reported), record : Seq(Reported)]
  BY DEF WInv
<1>2. \A s \in Seq(Reported) : s \in Seq(Reported')
  BY ReportedGrows
<1> QED
  BY <1>1, <1>2

(* A walk that turns, having made these.                                   *)
LEMMA TurnKeeps ==
  ASSUME WInv, Turning, NEW made, Turn(made),
         Len(stack) = 1 => made \in Seq(Reported),
         Len(stack) = 2 =>
           /\ made \in Seq(Plain) /\ Len(made) <= 1
           /\ Top.loop \in AttribLoops => made \in Seq(Attribs)
           /\ Top.loop = "vertices" => Len(made) = 1
  PROVE  WInv'
<1>1. /\ d' = d /\ pass' = pass /\ lists' = lists /\ warned' = warned
      /\ stack' = Append(Front(stack), Advanced([Top EXCEPT !.got = @ \o made]))
      /\ iterator' = IteratorAfter(Top)
  BY DEF Turn
<1>2. /\ d \in Drawing /\ iterator \in [Object -> Nat] /\ IteratorInBounds
      /\ pass \in {"entities", "block record", "done"} /\ warned \subseteq OpenRuns
  BY DEF WInv
<1>3. Reported' = Reported
  BY <1>1, DrawingStays DEF Reported
<1>4. stack # <<>> /\ ~Over(Top)
  BY DEF Turning
<1>5. ASSUME StackOK', ByIterator(Top) => Top.of \in Object /\ d.owned[Top.of] # <<>>
      PROVE  WInv'
  <2>1. /\ iterator' \in [Object -> Nat]
        /\ \A o \in Object : iterator'[o] = 0 \/ iterator'[o] < Len(d.owned[o])
    BY <1>1, <1>2, <1>5, IteratorStays
  <2>2. lists' \in [entities : Seq(Reported'), record : Seq(Reported')]
    BY <1>1, ListsStay
  <2> QED BY <1>1, <1>2, <1>5, <2>1, <2>2, OthersKept
<1>6. CASE Len(stack) = 1
  <2>1. PICK b \in WalkType :
           /\ stack = <<b>> /\ Top = b /\ stack[1] = b /\ pass # "done"
           /\ BlockWalkOK(b) /\ b.got \in Seq(Reported)
           /\ \A x : Append(Front(stack), x) = <<x>>
    BY <1>6, BlocksWalk
  <2> DEFINE a == Advanced([b EXCEPT !.got = @ \o made])
  <2>2. made \in Seq(Reported) /\ made \in Seq(Entities) /\ ~Over(b)
    BY <1>4, <1>6, <2>1, PlainAreEntities
  <2>3. a \in WalkType /\ BlockWalkOK(a) /\ a.got = b.got \o made
    BY <1>2, <2>1, <2>2, AdvancedType, BlockAdvances
  <2>4. a.got \in Seq(Reported)
    BY <2>1, <2>2, <2>3, ConcatProperties
  <2>5. stack' = <<a>>
    BY <1>1, <2>1
  <2> HIDE DEF a
  <2>6. StackOK'
    BY <1>1, <1>3, <2>1, <2>3, <2>4, <2>5, OneWalk
  <2>7. ~ByIterator(Top)
    BY <2>1 DEF ByIterator, BlockWalkOK, BlockLoops
  <2> QED BY <1>5, <2>6, <2>7
<1>7. CASE Len(stack) = 2
  <2>1. PICK b \in WalkType, t \in WalkType :
           /\ stack = <<b, t>> /\ Top = t /\ stack[1] = b /\ pass # "done"
           /\ BlockWalkOK(b) /\ b.got \in Seq(Reported) /\ SubWalkOK(t)
           /\ t.of = b.at /\ (b.loop = "chain" => b.steps <= Len(d.kind))
           /\ \A x : Append(Front(stack), x) = <<b, x>>
    BY <1>7, SubWalk
  <2> DEFINE a == Advanced([t EXCEPT !.got = @ \o made])
  <2>2. /\ ~Over(t) /\ made \in Seq(Plain) /\ made \in Seq(Entities) /\ Len(made) <= 1
        /\ t.loop \in AttribLoops => made \in Seq(Attribs)
        /\ t.loop = "vertices" => Len(made) = 1
    BY <1>4, <1>7, <2>1, PlainAreEntities
  <2>3. a \in WalkType /\ a.of = t.of
    BY <1>2, <2>1, <2>2, AdvancedType
  <2>4. SubWalkOK(a)
    BY <1>2, <2>1, <2>2, SubAdvances
  <2>5. stack' = <<b, a>>
    BY <1>1, <2>1
  <2> HIDE DEF a
  <2>6. StackOK'
    BY <1>1, <1>3, <2>1, <2>3, <2>4, <2>5, TwoWalks
  <2>7. ByIterator(Top) => Top.of \in Object /\ d.owned[Top.of] # <<>>
    BY <1>2, <2>1, <2>2, TurningIsAtAnObject
  <2> QED BY <1>5, <2>6, <2>7
<1> QED
  BY <1>4, <1>6, <1>7, OneOrTwo

LEMMA NoneMade ==
  /\ <<>> \in Seq(Reported) /\ <<>> \in Seq(Plain) /\ <<>> \in Seq(Attribs)
  /\ <<>> \in Seq(Entities) /\ Len(<<>>) <= 1
  OBVIOUS

(* What is made of the object a walk is at.                                *)
LEMMA OneMade ==
  ASSUME NEW o \in Object
  PROVE  /\ <<Entity(o, <<>>)>> \in Seq(Plain) /\ Len(<<Entity(o, <<>>)>>) = 1 /\ 1 <= 1
         /\ IsAttrib(o) => <<Entity(o, <<>>)>> \in Seq(Attribs)
         /\ d.kind[o] \notin {"insert", "polyline"} => <<Entity(o, <<>>)>> \in Seq(Reported)
<1> DEFINE e == Entity(o, <<>>)
<1>1. e \in Plain /\ e.id = o /\ e.subs = <<>>
  BY DEF Entity, Plain
<1>2. IsAttrib(o) => e \in Attribs
  BY <1>1 DEF IsAttrib, Attribs
<1>3. ASSUME d.kind[o] \notin {"insert", "polyline"} PROVE e \in Reported
  BY <1>1, <1>3, PlainAreEntities DEF Reported, OfBlock, OpenRuns, IsOpenRun
<1> HIDE DEF e
<1>4. \A S : \A x \in S : <<x>> \in Seq(S) /\ Len(<<x>>) = 1
  OBVIOUS
<1>5. /\ <<e>> \in Seq(Plain) /\ Len(<<e>>) = 1
      /\ IsAttrib(o) => <<e>> \in Seq(Attribs)
      /\ d.kind[o] \notin {"insert", "polyline"} => <<e>> \in Seq(Reported)
  BY <1>1, <1>2, <1>3, <1>4, Zenon
<1> QED
  BY <1>5 DEF e

LEMMA SkipKeeps ==
  ASSUME WInv, Skip
  PROVE  WInv'
<1>1. Turning /\ Skips(Top) /\ Turn(<<>>) /\ stack # <<>>
  BY DEF Skip, Turning
<1>2. Top.loop # "vertices"
  BY <1>1 DEF Skips
<1>3. PICK made : made = <<>>
  OBVIOUS
<1> QED
  BY <1>1, <1>2, <1>3, NoneMade, TurnKeeps

LEMMA TakeRecordKeeps ==
  ASSUME WInv, TakeRecord
  PROVE  WInv'
<1>1. Turning /\ InVertices(Top) /\ Turn(<<Entity(Top.at, <<>>)>>) /\ stack # <<>> /\ ~Over(Top)
  BY DEF TakeRecord, Turning
<1>2. Len(stack) = 2
  <2>1. CASE Len(stack) = 1
    BY <1>1, <2>1, BlocksWalk DEF InVertices, BlockWalkOK, BlockLoops
  <2> QED BY <1>1, <2>1, OneOrTwo
<1>3. PICK t \in WalkType : t = Top
  BY <1>2, SubWalk
<1>4. Top.at \in Object
  BY <1>1, <1>3, TurningIsAtAnObject DEF InVertices, WInv
<1>5. PICK made : made = <<Entity(Top.at, <<>>)>>
  OBVIOUS
<1>6. made \in Seq(Plain) /\ Len(made) = 1 /\ Len(made) <= 1 /\ Top.loop \notin AttribLoops
  BY <1>1, <1>4, <1>5, OneMade DEF InVertices, AttribLoops
<1>7. Turn(made)
  BY <1>1, <1>5, Zenon
<1>8. Len(stack) # 1
  BY <1>2
<1> QED
  BY <1>1, <1>6, <1>7, <1>8, TurnKeeps, Zenon

LEMMA ConvertNothingKeeps ==
  ASSUME WInv, ConvertNothing
  PROVE  WInv'
<1>1. Turning /\ Turn(<<>>) /\ ~InVertices(Top)
  BY DEF ConvertNothing, Converting
<1>2. Top.loop # "vertices"
  BY <1>1 DEF InVertices
<1>3. PICK made : made = <<>>
  OBVIOUS
<1> QED
  BY <1>1, <1>2, <1>3, NoneMade, TurnKeeps

(* A walk over what an entity owns converts attributes only.               *)
LEMMA SubWalksConvertAttribs ==
  ASSUME WInv, Len(stack) = 2, Converting
  PROVE  Top.loop \in AttribLoops /\ Top.at \in Object /\ d.kind[Top.at] = "attrib"
<1>1. PICK b \in WalkType, t \in WalkType : Top = t /\ SubWalkOK(t)
  BY SubWalk
<1>2. ~Over(t) /\ ~Skips(t) /\ ~InVertices(t)
  BY <1>1 DEF Converting, Turning
<1>3. t.loop \in AttribLoops
  BY <1>1, <1>2 DEF SubWalkOK, InVertices, VertexLoops
<1>4. CASE t.loop = "array"
  BY <1>1, <1>2, <1>3, <1>4 DEF Skips, IsAttrib
<1>5. CASE t.loop # "array"
  BY <1>1, <1>2, <1>3, <1>5, TurningIsAtAnObject DEF AttribLoops, WInv
<1> QED
  BY <1>1, <1>3, <1>4, <1>5

LEMMA ConvertPlainKeeps ==
  ASSUME WInv, ConvertPlain
  PROVE  WInv'
<1>1. /\ Converting /\ Turning /\ ~Over(Top) /\ stack # <<>>
      /\ d.kind[Top.at] \notin {"insert", "polyline"}
      /\ Turn(IF IsBlocks(Top) \/ IsAttrib(Top.at) THEN <<Entity(Top.at, <<>>)>> ELSE <<>>)
  BY DEF ConvertPlain, Converting, Turning
<1>2. PICK made : made = IF IsBlocks(Top) \/ IsAttrib(Top.at) THEN <<Entity(Top.at, <<>>)>> ELSE <<>>
  OBVIOUS
<1>3. Len(stack) = 1 => made \in Seq(Reported)
  <2> SUFFICES ASSUME Len(stack) = 1 PROVE made \in Seq(Reported)
    OBVIOUS
  <2>1. PICK b \in WalkType : b = Top /\ BlockWalkOK(b)
    BY BlocksWalk
  <2>2. Top.at \in Object
    BY <1>1, <2>1, TurningIsAtAnObject DEF BlockWalkOK, BlockLoops, WInv
  <2> QED BY <1>1, <1>2, <2>2, OneMade, NoneMade, Zenon
<1>4. ASSUME Len(stack) = 2
      PROVE  /\ made \in Seq(Plain) /\ Len(made) <= 1
             /\ made \in Seq(Attribs) /\ Top.loop # "vertices"
  <2>1. Top.loop \in AttribLoops /\ Top.at \in Object /\ IsAttrib(Top.at)
    BY <1>1, <1>4, SubWalksConvertAttribs DEF IsAttrib
  <2>2. made = <<Entity(Top.at, <<>>)>>
    BY <1>2, <2>1, Zenon DEF IsAttrib
  <2> QED BY <2>1, <2>2, OneMade DEF AttribLoops
<1> QED
  BY <1>1, <1>2, <1>3, <1>4, TurnKeeps

(* A walk over what an entity owns starts within its bounds.               *)
LEMMA SubWalksStart ==
  ASSUME d \in Drawing, NEW o \in Object, NEW depth \in Nat
  PROVE  /\ d.kind[o] = "insert" =>
              AttribWalk(o, depth) \in WalkType /\ SubWalkOK(AttribWalk(o, depth))
         /\ d.kind[o] = "polyline" =>
              VertexWalk(o, depth) \in WalkType /\ SubWalkOK(VertexWalk(o, depth))
         /\ d.kind[o] = "polyline" /\ o \in Unlisted =>
              VertexStream(o, depth) \in WalkType /\ SubWalkOK(VertexStream(o, depth))
         /\ AttribWalk(o, depth).of = o /\ VertexWalk(o, depth).of = o
         /\ VertexStream(o, depth).of = o
<1>1. /\ 0 \in Nat /\ 0 <= MaxOwned /\ Len(d.kind) \in Nat /\ 0 <= Len(d.kind) + 1 /\ 0 <= 0
      /\ Len(<<>>) = 0 /\ o \in Nat /\ o + 1 + 0 = o + 1 /\ o + 1 .. o + 0 = {}
      /\ d.era \in {"pre-R13", "R13 to R2000", "R2004 on"}
  <2>1. MaxOwned \in Nat /\ Len(d.kind) \in Nat /\ o \in Nat
    BY DrawingType, EntityWalksAssumption
  <2>2. \A i \in Nat : i + 1 + 0 = i + 1 /\ i + 1 .. i + 0 = {} /\ 0 <= i /\ i + 1 \in Nat
    OBVIOUS
  <2>3. 0 \in Nat /\ Len(<<>>) = 0
    OBVIOUS
  <2>4. d.era \in {"pre-R13", "R13 to R2000", "R2004 on"}
    BY DrawingType
  <2> QED BY <2>1, <2>2, <2>3, <2>4, Zenon
<1>2. /\ \A x : Resolve(x) \in Object \cup {0}
      /\ \A refs : FirstOf(refs) \in Object \cup {0}
      /\ NextObject(o) \in Object \cup {0}
  BY LinksLeadToObjects
<1>3. ASSUME NEW loop \in BlockLoops \cup AttribLoops \cup VertexLoops, NEW at \in Object \cup {0}
      PROVE  LET w == Walk(loop, o, at, 0, depth)
             IN  /\ w \in WalkType /\ w.loop = loop /\ w.of = o /\ w.at = at
                 /\ w.steps = 0 /\ w.got = <<>>
  BY NoneMade DEF Walk, WalkType
<1>4. ASSUME d.kind[o] = "insert", NEW loop \in AttribLoops, NEW at \in Object \cup {0},
             d.era = "R2004 on" /\ loop = "owned" /\ at # 0 => d.owned[o] # <<>>
      PROVE  Walk(loop, o, at, 0, depth) \in WalkType /\ SubWalkOK(Walk(loop, o, at, 0, depth))
  <2> DEFINE w == Walk(loop, o, at, 0, depth)
  <2>1. w \in WalkType /\ w.loop = loop /\ w.of = o /\ w.at = at /\ w.steps = 0 /\ w.got = <<>>
    BY <1>3
  <2> HIDE DEF w
  <2>2. loop \notin VertexLoops
    BY DEF AttribLoops, VertexLoops
  <2>3. SubWalkOK(w)
    BY <1>1, <1>4, <2>1, <2>2, NoneMade DEF SubWalkOK, VertexLoops
  <2> QED BY <2>1, <2>3 DEF w
<1>5. ASSUME d.kind[o] = "polyline", o \in Unlisted
      PROVE  VertexStream(o, depth) \in WalkType /\ SubWalkOK(VertexStream(o, depth))
  <2> DEFINE w == VertexStream(o, depth)
  <2>1. /\ w \in WalkType /\ w.loop = "vertex stream" /\ w.of = o /\ w.at = NextObject(o)
        /\ w.steps = 0 /\ w.got = <<>>
    BY <1>2, <1>3 DEF VertexStream, VertexLoops
  <2> HIDE DEF w
  <2>2. w.at = IF w.of + 1 + w.steps \in Object THEN w.of + 1 + w.steps ELSE 0
    BY <1>1, <2>1 DEF NextObject, Resolve
  <2>3. \A p \in w.of + 1 .. w.of + w.steps : p \in Vertices
    BY <1>1, <2>1
  <2>4. SubWalkOK(w)
    BY <1>1, <1>5, <2>1, <2>2, <2>3, NoneMade DEF SubWalkOK, AttribLoops, VertexLoops
  <2> QED BY <2>1, <2>4 DEF w
<1>6. ASSUME d.kind[o] = "polyline", NEW at, at = FirstRecord[o], d.era # "pre-R13",
             d.era = "R2004 on" => at = FirstOf(d.owned[o])
      PROVE  Walk("vertices", o, at, 0, depth) \in WalkType
             /\ SubWalkOK(Walk("vertices", o, at, 0, depth))
  <2> DEFINE w == Walk("vertices", o, at, 0, depth)
  <2>1. at \in Object \cup {0}
    BY <1>2, <1>6 DEF FirstRecord
  <2>2. w \in WalkType /\ w.loop = "vertices" /\ w.of = o /\ w.at = at /\ w.steps = 0 /\ w.got = <<>>
    BY <1>3, <2>1 DEF VertexLoops
  <2>3. d.era = "R2004 on" /\ at # 0 => d.owned[o] # <<>>
    BY <1>6 DEF FirstOf
  <2> HIDE DEF w
  <2>4. SubWalkOK(w)
    BY <1>1, <1>6, <2>2, <2>3, NoneMade DEF SubWalkOK, AttribLoops, VertexLoops
  <2> QED BY <2>2, <2>4 DEF w
<1>7. ASSUME d.kind[o] = "insert"
      PROVE  AttribWalk(o, depth) \in WalkType /\ SubWalkOK(AttribWalk(o, depth))
  <2>1. CASE d.era = "R2004 on"
    <3>1. AttribWalk(o, depth) = Walk("owned", o, FirstOf(d.owned[o]), 0, depth)
      BY <2>1 DEF AttribWalk
    <3>2. FirstOf(d.owned[o]) # 0 => d.owned[o] # <<>>
      BY DEF FirstOf
    <3> QED BY <1>2, <1>4, <1>7, <3>1, <3>2 DEF AttribLoops
  <2>2. CASE d.era # "R2004 on"
    <3>1. \E loop \in AttribLoops, at \in Object \cup {0} :
            AttribWalk(o, depth) = Walk(loop, o, at, 0, depth)
      BY <1>1, <1>2, <2>2 DEF AttribWalk, AttribLoops
    <3> QED BY <1>4, <1>7, <2>2, <3>1
  <2> QED BY <2>1, <2>2
<1>8. ASSUME d.kind[o] = "polyline"
      PROVE  VertexWalk(o, depth) \in WalkType /\ SubWalkOK(VertexWalk(o, depth))
  <2>1. CASE d.era = "pre-R13"
    <3>1. VertexWalk(o, depth) = VertexStream(o, depth)
      BY <2>1 DEF VertexWalk
    <3>2. o \in Unlisted
      BY <2>1 DEF Unlisted, HasNoList
    <3> QED BY <1>5, <1>8, <3>1, <3>2
  <2>2. CASE d.era # "pre-R13"
    <3>1. VertexWalk(o, depth) = Walk("vertices", o, FirstRecord[o], 0, depth)
      BY <1>1, <2>2 DEF VertexWalk, FirstRecord
    <3>2. d.era = "R2004 on" => FirstRecord[o] = FirstOf(d.owned[o])
      BY DEF FirstRecord
    <3> QED BY <1>6, <1>8, <2>2, <3>1, <3>2
  <2> QED BY <2>1, <2>2
<1>9. /\ AttribWalk(o, depth).of = o /\ VertexWalk(o, depth).of = o
      /\ VertexStream(o, depth).of = o
  BY <1>1 DEF AttribWalk, VertexWalk, VertexStream, Walk
<1> QED
  BY <1>5, <1>7, <1>8, <1>9

LEMMA EnterKeeps ==
  ASSUME WInv, Enter
  PROVE  WInv'
<1>1. /\ Converting /\ ~Over(Top) /\ stack # <<>> /\ d.kind[Top.at] \in {"insert", "polyline"}
      /\ stack' = Append(stack, IF d.kind[Top.at] = "insert"
                                  THEN AttribWalk(Top.at, Top.depth + 1)
                                  ELSE VertexWalk(Top.at, Top.depth + 1))
      /\ d' = d /\ iterator' = iterator /\ pass' = pass /\ lists' = lists /\ warned' = warned
  BY DEF Enter, Converting, Turning
<1>2. /\ d \in Drawing /\ iterator \in [Object -> Nat] /\ IteratorInBounds
      /\ pass \in {"entities", "block record", "done"} /\ warned \subseteq OpenRuns
  BY DEF WInv
<1>3. Len(stack) = 1
  <2>1. CASE Len(stack) = 2
    BY <1>1, <2>1, SubWalksConvertAttribs
  <2> QED BY <1>1, <2>1, OneOrTwo
<1>4. PICK b \in WalkType :
         /\ stack = <<b>> /\ Top = b /\ pass # "done"
         /\ BlockWalkOK(b) /\ b.got \in Seq(Reported)
  BY <1>3, BlocksWalk
<1>5. b.at \in Object /\ b.depth + 1 \in Nat /\ (b.loop = "chain" => b.steps <= Len(d.kind))
  <2>1. b.depth \in Nat
    BY DEF WalkType
  <2>2. b.loop # "array"
    BY <1>4 DEF BlockWalkOK, BlockLoops
  <2>3. ~Over(b)
    BY <1>1, <1>4
  <2>4. b.at \in Object /\ (b.loop = "chain" => b.steps <= Len(d.kind))
    BY <1>2, <2>2, <2>3, TurningIsAtAnObject
  <2>5. \A i \in Nat : i + 1 \in Nat
    OBVIOUS
  <2> QED BY <2>1, <2>4, <2>5
<1>6. PICK o \in Object, depth \in Nat : o = b.at /\ depth = b.depth + 1
  BY <1>5
<1>7. PICK t \in WalkType : stack' = <<b, t>> /\ SubWalkOK(t) /\ t.of = b.at
  <2>1. \A x : Append(<<b>>, x) = <<b, x>>
    BY AppendToOne
  <2>2. CASE d.kind[o] = "insert"
    <3>1. stack' = <<b, AttribWalk(o, depth)>>
      BY <1>1, <1>4, <1>6, <2>1, <2>2, Zenon
    <3> QED BY <1>2, <1>6, <2>2, <3>1, SubWalksStart, Zenon
  <2>3. CASE d.kind[o] = "polyline"
    <3>1. d.kind[o] # "insert"
      BY <2>3
    <3>2. stack' = <<b, VertexWalk(o, depth)>>
      BY <1>1, <1>4, <1>6, <2>1, <3>1, Zenon
    <3> QED BY <1>2, <1>6, <2>3, <3>2, SubWalksStart, Zenon
  <2> QED BY <1>1, <1>4, <1>6, <2>2, <2>3
<1>8. Reported' = Reported
  BY <1>1, DrawingStays DEF Reported
<1>9. StackOK'
  BY <1>1, <1>4, <1>5, <1>7, <1>8, TwoWalks
<1>10. lists' \in [entities : Seq(Reported'), record : Seq(Reported')]
  BY <1>1, ListsStay
<1> QED
  BY <1>1, <1>2, <1>9, <1>10, OthersKept DEF IteratorInBounds

(* A polyline whose own list gave nothing has none.                        *)
LEMMA TryStreamKeeps ==
  ASSUME WInv, TryStream
  PROVE  WInv'
<1>1. /\ stack # <<>> /\ Over(Top) /\ Top.loop = "vertices" /\ Top.got = <<>>
      /\ stack' = Append(Front(stack), VertexStream(Top.of, Top.depth))
      /\ d' = d /\ iterator' = iterator /\ pass' = pass /\ lists' = lists /\ warned' = warned
  BY DEF TryStream
<1>2. /\ d \in Drawing /\ iterator \in [Object -> Nat] /\ IteratorInBounds
      /\ pass \in {"entities", "block record", "done"} /\ warned \subseteq OpenRuns
  BY DEF WInv
<1>3. Len(stack) = 2
  <2>1. CASE Len(stack) = 1
    BY <1>1, <2>1, BlocksWalk DEF BlockWalkOK, BlockLoops
  <2> QED BY <1>1, <2>1, OneOrTwo
<1>4. PICK b \in WalkType, w \in WalkType :
         /\ Top = w /\ pass # "done"
         /\ BlockWalkOK(b) /\ b.got \in Seq(Reported) /\ SubWalkOK(w)
         /\ w.of = b.at /\ (b.loop = "chain" => b.steps <= Len(d.kind))
         /\ \A x : Append(Front(stack), x) = <<b, x>>
  BY <1>3, SubWalk
<1>5. /\ w.of \in Object /\ d.kind[w.of] = "polyline" /\ d.era # "pre-R13" /\ w.depth \in Nat
      /\ w.at = FirstRecord[w.of]
  <2>1. Len(w.got) = 0
    BY <1>1, <1>4
  <2> QED BY <1>1, <1>4, <2>1 DEF SubWalkOK, VertexLoops, WalkType
<1>6. w.at = 0
  <2>1. w.at = 0 \/ Len(w.got) >= MaxOwned
    BY <1>1, <1>4 DEF Over
  <2>2. ~(Len(w.got) >= MaxOwned)
    <3>1. Len(w.got) = 0
      BY <1>1, <1>4
    <3>2. \A i \in Nat \ {0} : ~(0 >= i)
      OBVIOUS
    <3> QED BY <3>1, <3>2, EntityWalksAssumption, Zenon
  <2> QED BY <2>1, <2>2
<1>7. w.of \in Unlisted
  BY <1>5, <1>6, DrawingType, <1>2 DEF FirstRecord, Unlisted, HasNoList
<1>8. PICK o \in Object, depth \in Nat : o = w.of /\ depth = w.depth
  BY <1>5
<1>9. PICK t \in WalkType : stack' = <<b, t>> /\ SubWalkOK(t) /\ t.of = b.at
  <2>1. stack' = <<b, VertexStream(o, depth)>>
    BY <1>1, <1>4, <1>8, Zenon
  <2>2. d.kind[o] = "polyline" /\ o \in Unlisted
    BY <1>5, <1>7, <1>8
  <2>3. /\ VertexStream(o, depth) \in WalkType /\ SubWalkOK(VertexStream(o, depth))
        /\ VertexStream(o, depth).of = b.at
    BY <1>2, <1>4, <1>8, <2>2, SubWalksStart
  <2> QED BY <2>1, <2>3, Zenon
<1>10. Reported' = Reported
  BY <1>1, DrawingStays DEF Reported
<1>11. StackOK'
  BY <1>1, <1>4, <1>9, <1>10, TwoWalks
<1>12. lists' \in [entities : Seq(Reported'), record : Seq(Reported')]
  BY <1>1, ListsStay
<1> QED
  BY <1>1, <1>2, <1>11, <1>12, OthersKept DEF IteratorInBounds

(* What the walk over an entity's own gives the block: reported, if its    *)
(* records are of an open run; and only such a run is reported.            *)
LEMMA LeaveReports ==
  ASSUME WInv, Leave, NEW t \in WalkType, Top = t, SubWalkOK(t),
         NEW subs, subs = IF InVertices(t) THEN Among(t.got, Vertices) ELSE t.got
  PROVE  /\ warned \subseteq warned' /\ warned' \subseteq OpenRuns
         /\ <<Entity(t.of, subs)>> \in Seq(Reported')
         /\ <<Entity(t.of, subs)>> \in Seq(Entities)
<1>1. /\ Over(t) /\ ~(t.loop = "vertices" /\ t.got = <<>>) /\ d' = d
      /\ warned' = IF t.loop = "vertex stream" /\ ~EndsAtSeqend(t)
                     THEN warned \cup {t.of} ELSE warned
  BY DEF Leave
<1>2. /\ d \in Drawing /\ warned \subseteq OpenRuns
      /\ t.of \in Object /\ t.loop \in AttribLoops \cup VertexLoops
  BY DEF WInv, SubWalkOK
<1>3. CASE t.loop \in AttribLoops
  <2>1. d.kind[t.of] = "insert" /\ t.got \in Seq(Attribs) /\ t.got \in Seq(Plain)
    BY <1>3, PlainAreEntities DEF SubWalkOK
  <2>2. subs = t.got /\ warned' = warned
    BY <1>1, <1>3 DEF InVertices, AttribLoops
  <2>3. Entity(t.of, subs) \in Entities /\ Entity(t.of, subs).subs \in Seq(Attribs)
        /\ Entity(t.of, subs).id = t.of
    BY <1>2, <2>1, <2>2 DEF Entity, Entities
  <2>4. t.of \notin OpenRuns
    BY <2>1 DEF OpenRuns, IsOpenRun
  <2>5. Entity(t.of, subs) \in Reported
    BY <2>3, <2>4 DEF Reported, OfBlock
  <2>6. Reported' = Reported
    BY <1>1, <2>2, DrawingStays DEF Reported
  <2> QED BY <1>2, <2>2, <2>3, <2>5, <2>6
<1>4. CASE t.loop \in VertexLoops
  <2>1. d.kind[t.of] = "polyline" /\ t.got \in Seq(Plain)
    BY <1>4 DEF SubWalkOK
  <2>2. subs = Among(t.got, Vertices)
    BY <1>4 DEF InVertices, VertexLoops
  <2>3. Entity(t.of, subs) \in Entities /\ Entity(t.of, subs).id = t.of
    BY <1>2, <2>1, <2>2 DEF Entity, Entities
  <2>4. Entity(t.of, subs) \in OfBlock
    BY <2>1, <2>3 DEF OfBlock
  <2>5. CASE t.loop = "vertices"
    <3>1. t.of \notin Unlisted
      <4>1. /\ d.era # "pre-R13"
            /\ IF Len(t.got) = 0 THEN t.at = FirstRecord[t.of] ELSE FirstRecord[t.of] # 0
        BY <2>5 DEF SubWalkOK
      <4>2. Len(t.got) # 0
        <5>1. \A s \in Seq(Plain) : s # <<>> => Len(s) # 0
          OBVIOUS
        <5> QED BY <1>1, <2>1, <2>5, <5>1, Zenon
      <4>3. FirstRecord[t.of] # 0
        BY <4>1, <4>2
      <4> QED BY <1>2, <4>1, <4>3 DEF FirstRecord, Unlisted, HasNoList
    <3>2. t.of \notin OpenRuns /\ warned' = warned
      BY <1>1, <2>5, <3>1 DEF OpenRuns, Unlisted, IsOpenRun
    <3>3. Entity(t.of, subs) \in Reported
      BY <2>3, <2>4, <3>2 DEF Reported
    <3>4. Reported' = Reported
      BY <1>1, <3>2, DrawingStays DEF Reported
    <3> QED BY <1>2, <2>3, <3>2, <3>3, <3>4
  <2>6. CASE t.loop = "vertex stream"
    <3>1. /\ warned' = IF ~RunIsClosed(t.of) THEN warned \cup {t.of} ELSE warned
          /\ t.of \in Unlisted
      <4>1. EndsAtSeqend(t) <=> RunIsClosed(t.of)
        BY <1>1, <1>2, <2>6, RunEnds
      <4> QED BY <1>1, <2>6, <4>1 DEF SubWalkOK
    <3>2. t.of \in OpenRuns <=> ~RunIsClosed(t.of)
      BY <1>2, <2>1, <3>1 DEF OpenRuns, Unlisted, IsOpenRun
    <3>3. warned \subseteq warned' /\ warned' \subseteq OpenRuns /\ (t.of \in OpenRuns => t.of \in warned')
      BY <1>2, <3>1, <3>2
    <3>4. Reported' = {e \in OfBlock : e.id \in OpenRuns => e.id \in warned'}
      BY <1>1, DrawingStays DEF Reported
    <3>5. Entity(t.of, subs) \in Reported'
      BY <2>3, <2>4, <3>3, <3>4
    <3> QED BY <2>3, <3>3, <3>5
  <2> QED BY <1>4, <2>5, <2>6 DEF VertexLoops
<1> QED
  BY <1>2, <1>3, <1>4

LEMMA LeaveKeeps ==
  ASSUME WInv, Leave
  PROVE  WInv'
<1>1. /\ Len(stack) > 1 /\ d' = d /\ pass' = pass /\ lists' = lists
      /\ d \in Drawing /\ iterator \in [Object -> Nat] /\ IteratorInBounds
      /\ pass \in {"entities", "block record", "done"} /\ stack \in Seq(WalkType)
  BY DEF Leave, WInv, StackOK
<1>2. Len(stack) = 2 /\ Len(stack) - 1 = 1
  <2>1. Len(stack) # 0 /\ Len(stack) # 1
    <3>1. Len(stack) \in Nat
      BY <1>1, LenProperties, Zenon
    <3>2. \A n \in Nat : n > 1 => n # 0 /\ n # 1
      OBVIOUS
    <3> QED BY <1>1, <3>1, <3>2, Zenon
  <2>2. Len(stack) = 2
    BY <1>1, <2>1, OneOrTwo, TopOfStack, Zenon
  <2> QED BY <2>2
<1>3. PICK b \in WalkType, t \in WalkType :
         /\ Top = t /\ stack[1] = b /\ pass # "done"
         /\ BlockWalkOK(b) /\ b.got \in Seq(Reported) /\ SubWalkOK(t)
         /\ t.of = b.at /\ (b.loop = "chain" => b.steps <= Len(d.kind))
         /\ \A x : Append(SubSeq(stack, 1, Len(stack) - 2), x) = <<x>>
  BY <1>2, SubWalk
<1>4. PICK subs : subs = IF InVertices(t) THEN Among(t.got, Vertices) ELSE t.got
  OBVIOUS
<1>5. PICK made : made = <<Entity(t.of, subs)>>
  OBVIOUS
<1>6. /\ warned \subseteq warned' /\ warned' \subseteq OpenRuns
      /\ made \in Seq(Reported') /\ made \in Seq(Entities)
  BY <1>3, <1>4, <1>5, LeaveReports
<1>7. IsBlocks(b)
  BY <1>3 DEF IsBlocks, BlockWalkOK, BlockLoops
<1>8. /\ stack' = Append(SubSeq(stack, 1, Len(stack) - 2), Advanced([b EXCEPT !.got = @ \o made]))
      /\ iterator' = IteratorAfter(b)
  BY <1>2, <1>3, <1>4, <1>5, <1>7 DEF Leave
<1> DEFINE a == Advanced([b EXCEPT !.got = @ \o made])
<1>9. ~Over(b) /\ b.loop \in BlockLoops
  <2>1. b.at # 0 /\ b.loop \in BlockLoops
    <3>1. 0 \notin Object
      <4>1. \A k \in Nat : 0 \notin 1 .. k
        OBVIOUS
      <4>2. Len(d.kind) \in Nat
        BY <1>1, DrawingType
      <4> QED BY <4>1, <4>2, Zenon DEF Object
    <3> QED BY <1>3, <3>1 DEF SubWalkOK, BlockWalkOK
  <2>2. b.steps \in Nat /\ Len(d.kind) \in Nat
    BY <1>1, DrawingType DEF WalkType
  <2>3. b.loop = "chain" => ~(b.steps > Len(d.kind))
    BY <1>3, <2>2
  <2> QED BY <2>1, <2>3 DEF Over, BlockLoops
<1>10. a \in WalkType /\ BlockWalkOK(a) /\ a.got = b.got \o made /\ stack' = <<a>>
  BY <1>1, <1>3, <1>6, <1>8, <1>9, AdvancedType, BlockAdvances
<1> HIDE DEF a
<1>11. a.got \in Seq(Reported')
  <2>1. b.got \in Seq(Reported')
    BY <1>1, <1>3, <1>6, ReportedGrows
  <2>2. \A S : \A s1, s2 \in Seq(S) : s1 \o s2 \in Seq(S)
    BY ConcatProperties, Zenon
  <2> QED BY <1>6, <1>10, <2>1, <2>2, Zenon
<1>12. StackOK'
  BY <1>1, <1>3, <1>10, <1>11, OneWalk
<1>13. /\ iterator' \in [Object -> Nat]
       /\ \A o \in Object : iterator'[o] = 0 \/ iterator'[o] < Len(d.owned[o])
  <2>1. ~ByIterator(b)
    BY <1>9 DEF ByIterator, BlockLoops
  <2> QED BY <1>1, <1>8, <2>1, IteratorStays
<1>14. lists' \in [entities : Seq(Reported'), record : Seq(Reported')]
  BY <1>1, <1>6, ListsStay
<1> QED
  BY <1>1, <1>6, <1>12, <1>13, <1>14, OthersKept

LEMMA ListEntityKeeps ==
  ASSUME WInv, ListEntity
  PROVE  WInv'
<1>1. /\ Len(stack) = 1 /\ pass = "entities" /\ Top.got # <<>>
      /\ lists' = [lists EXCEPT !.entities = @ \o WithAttribs(Head(Top.got))]
      /\ stack' = <<[Top EXCEPT !.got = Tail(@)]>>
      /\ d' = d /\ iterator' = iterator /\ pass' = pass /\ warned' = warned
  BY DEF ListEntity, BlockIsWalked
<1>2. /\ d \in Drawing /\ iterator \in [Object -> Nat] /\ IteratorInBounds /\ warned \subseteq OpenRuns
      /\ pass \in {"entities", "block record", "done"}
      /\ lists \in [entities : Seq(Reported), record : Seq(Reported)]
  BY DEF WInv
<1>3. PICK b \in WalkType : Top = b /\ pass # "done" /\ BlockWalkOK(b) /\ b.got \in Seq(Reported)
  BY <1>1, BlocksWalk
<1>4. PICK e \in Reported : e = Head(b.got)
  BY <1>1, <1>3, HeadTailProperties
<1>5. Tail(b.got) \in Seq(Reported) /\ Tail(b.got) \in Seq(Entities)
  BY <1>1, <1>3, HeadTailProperties, PlainAreEntities
<1>6. WithAttribs(e) \in Seq(Reported)
  <2>1. Attribs \subseteq Reported
    <3>1. \A x \in Attribs : x \in Entities /\ d.kind[x.id] = "attrib"
      BY PlainAreEntities DEF Attribs
    <3> QED BY <3>1 DEF Reported, OfBlock, OpenRuns, IsOpenRun
  <2>2. <<e>> \in Seq(Reported)
    OBVIOUS
  <2>3. CASE d.kind[e.id] = "insert"
    <3>1. e.subs \in Seq(Attribs)
      BY <2>3 DEF Reported, OfBlock
    <3>2. e.subs \in Seq(Reported)
      BY <2>1, <3>1, SeqMonotonic, Zenon
    <3>3. <<e>> \o e.subs \in Seq(Reported)
      BY <2>2, <3>2, ConcatProperties, Zenon
    <3> QED BY <2>3, <3>3 DEF WithAttribs
  <2>4. CASE d.kind[e.id] # "insert"
    BY <2>2, <2>4 DEF WithAttribs
  <2> QED BY <2>3, <2>4
<1>7. Reported' = Reported
  BY <1>1, DrawingStays DEF Reported
<1>8. lists' \in [entities : Seq(Reported'), record : Seq(Reported')]
  <2>1. PICK made \in Seq(Reported) : made = WithAttribs(Head(Top.got))
    BY <1>3, <1>4, <1>6
  <2>2. lists.entities \in Seq(Reported)
    BY <1>2
  <2>3. lists.entities \o made \in Seq(Reported)
    BY <2>2, ConcatProperties, Zenon
  <2>4. lists' = [lists EXCEPT !.entities = lists.entities \o made]
    BY <1>1, <2>1
  <2> QED BY <1>2, <1>7, <2>3, <2>4
<1>9. PICK a \in WalkType : stack' = <<a>> /\ BlockWalkOK(a) /\ a.got \in Seq(Reported)
  <2> DEFINE a == [b EXCEPT !.got = Tail(b.got)]
  <2>1. a \in WalkType /\ a.loop = b.loop /\ a.steps = b.steps /\ a.got = Tail(b.got)
    BY <1>5 DEF WalkType
  <2>2. BlockWalkOK(a) /\ a.got \in Seq(Reported)
    BY <1>3, <1>5, <2>1 DEF BlockWalkOK
  <2>3. stack' = <<a>>
    BY <1>1, <1>3
  <2> QED BY <2>1, <2>2, <2>3
<1>10. StackOK'
  BY <1>1, <1>3, <1>7, <1>9, OneWalk
<1> QED
  BY <1>1, <1>2, <1>8, <1>10, OthersKept DEF IteratorInBounds

(* Each pass starts with nothing made.                                     *)
LEMMA BlocksWalkStarts ==
  ASSUME d \in Drawing
  PROVE  BlockWalk \in WalkType /\ BlockWalkOK(BlockWalk) /\ BlockWalk.got = <<>>
<1>1. /\ 0 \in Nat /\ Len(d.kind) \in Nat /\ 0 <= Len(d.kind) + 1
      /\ ListedAfter(0) \in Nat /\ Resolve(d.first) \in Object \cup {0}
      /\ Listed(ListedAfter(0)) \in Object \cup {0}
  <2>1. Len(d.kind) \in Nat
    BY DrawingType
  <2> QED BY <2>1, LinksLeadToObjects
<1>2. CASE d.era = "R13 to R2000"
  <2> DEFINE w == Walk("chain", 0, Resolve(d.first), 0, 0)
  <2>1. BlockWalk = w
    BY <1>2 DEF BlockWalk
  <2>2. w \in WalkType /\ w.loop = "chain" /\ w.steps = 0 /\ w.got = <<>>
    BY <1>1, NoneMade DEF Walk, WalkType, BlockLoops
  <2> HIDE DEF w
  <2> QED BY <1>1, <2>1, <2>2 DEF BlockWalkOK, BlockLoops
<1>3. CASE d.era # "R13 to R2000"
  <2> DEFINE w == Walk("list", 0, Listed(ListedAfter(0)), ListedAfter(0), 0)
  <2>1. BlockWalk = w
    BY <1>3 DEF BlockWalk
  <2>2. w \in WalkType /\ w.loop = "list" /\ w.got = <<>>
    BY <1>1, NoneMade DEF Walk, WalkType, BlockLoops
  <2> HIDE DEF w
  <2> QED BY <2>1, <2>2 DEF BlockWalkOK, BlockLoops
<1> QED
  BY <1>2, <1>3

LEMMA NextPassKeeps ==
  ASSUME WInv, NextPass
  PROVE  WInv'
<1>1. /\ pass' = "block record" /\ stack' = <<BlockWalk>>
      /\ d' = d /\ iterator' = iterator /\ lists' = lists /\ warned' = warned
  BY DEF NextPass
<1>2. /\ d \in Drawing /\ iterator \in [Object -> Nat] /\ IteratorInBounds /\ warned \subseteq OpenRuns
  BY DEF WInv
<1>3. PICK a \in WalkType : stack' = <<a>> /\ BlockWalkOK(a) /\ a.got = <<>>
  BY <1>1, <1>2, BlocksWalkStarts
<1>4. a.got \in Seq(Reported')
  BY <1>3
<1>5. StackOK'
  BY <1>1, <1>3, <1>4, OneWalk
<1>6. lists' \in [entities : Seq(Reported'), record : Seq(Reported')]
  BY <1>1, ListsStay
<1> QED
  BY <1>1, <1>2, <1>5, <1>6, OthersKept DEF IteratorInBounds

LEMMA CollectKeeps ==
  ASSUME WInv, Collect
  PROVE  WInv'
<1>1. /\ Len(stack) = 1 /\ lists' = [lists EXCEPT !.record = Top.got]
      /\ pass' = "done" /\ stack' = <<>>
      /\ d' = d /\ iterator' = iterator /\ warned' = warned
  BY DEF Collect, BlockIsWalked
<1>2. /\ d \in Drawing /\ iterator \in [Object -> Nat] /\ IteratorInBounds /\ warned \subseteq OpenRuns
      /\ lists \in [entities : Seq(Reported), record : Seq(Reported)]
  BY DEF WInv
<1>3. Top.got \in Seq(Reported)
  BY <1>1, BlocksWalk
<1>4. Reported' = Reported
  BY <1>1, DrawingStays DEF Reported
<1>5. lists' \in [entities : Seq(Reported'), record : Seq(Reported')]
  BY <1>1, <1>2, <1>3, <1>4
<1>6. StackOK'
  <2>1. stack' \in Seq(WalkType') /\ Len(stack') = 0 /\ ~(Len(stack') > 0) /\ ~(Len(stack') = 2)
    BY <1>1
  <2> QED BY <1>1, <2>1, Zenon DEF StackOK
<1> QED
  BY <1>1, <1>2, <1>5, <1>6, OthersKept DEF IteratorInBounds

LEMMA WalksBegin ==
  ASSUME Init
  PROVE  WInv
<1>1. /\ d \in Drawing /\ iterator = [o \in 1 .. Len(d.kind) |-> 0] /\ pass = "entities"
      /\ stack = <<BlockWalk>> /\ lists = [entities |-> <<>>, record |-> <<>>] /\ warned = {}
  BY DEF Init
<1>2. PICK b \in WalkType : stack = <<b>> /\ BlockWalkOK(b) /\ b.got = <<>>
  BY <1>1, BlocksWalkStarts
<1>3. StackOK
  <2>1. /\ Len(stack) = 1 /\ stack[1] = b /\ stack \in Seq(WalkType) /\ ~(Len(stack) = 2)
        /\ Len(stack) \in {1, 2} /\ b.got \in Seq(Reported)
    BY <1>2
  <2> QED BY <1>1, <1>2, <2>1, Zenon DEF StackOK
<1>4. iterator \in [Object -> Nat] /\ IteratorInBounds
  BY <1>1 DEF Object, IteratorInBounds
<1>5. lists \in [entities : Seq(Reported), record : Seq(Reported)]
  BY <1>1
<1> QED
  BY <1>1, <1>3, <1>4, <1>5 DEF WInv

-----------------------------------------------------------------------------
(* Every step of `owned_entities`, of the walks below it and of the passes *)
(* over what they gave keeps WInv: whatever the links, each walk under way *)
(* is within its loop's limits, and each list within what it collects.     *)
THEOREM WalksKeep == Spec => []WInv
<1>1. Init => WInv
  BY WalksBegin
<1>2. WInv /\ [Next]_vars => WInv'
  <2> SUFFICES ASSUME WInv, [Next]_vars PROVE WInv'
    OBVIOUS
  <2>1. CASE Next
    BY <2>1, SkipKeeps, TakeRecordKeeps, ConvertNothingKeeps, ConvertPlainKeeps, EnterKeeps,
       TryStreamKeeps, LeaveKeeps, ListEntityKeeps, NextPassKeeps, CollectKeeps, Zenon DEF Next
  <2>2. CASE UNCHANGED vars
    <3>1. /\ d' = d /\ iterator' = iterator /\ pass' = pass /\ stack' = stack
          /\ lists' = lists /\ warned' = warned
      BY <2>2 DEF vars
    <3>2. Reported' = Reported
      BY <3>1, DrawingStays DEF Reported
    <3>3. StackOK'
      BY <3>1, <3>2, DrawingStays, WalksStay DEF WInv, StackOK
    <3>4. lists' \in [entities : Seq(Reported'), record : Seq(Reported')]
      BY <3>1, ListsStay
    <3> QED BY <3>1, <3>3, <3>4, OthersKept DEF WInv, IteratorInBounds
  <2> QED BY <2>1, <2>2
<1> QED
  BY <1>1, <1>2, PTL DEF Spec

LEMMA RangeOfEntities ==
  ASSUME NEW S, NEW g \in Seq(S), NEW e \in Range(g)
  PROVE  e \in S
<1>1. Range(g) = {g[i] : i \in DOMAIN g}
  BY DEF Range
<1> QED
  BY <1>1

(* Whatever the links of a file are, every walk is at one of the drawing's *)
(* objects or at none, and what is collected and reported are objects.     *)
THEOREM WalksAreTyped == Spec => []TypeOK
<1>1. ASSUME WInv PROVE TypeOK
  <2>1. /\ d \in Drawing /\ pass \in {"entities", "block record", "done"}
        /\ iterator \in [Object -> Nat] /\ warned \subseteq OpenRuns
        /\ lists \in [entities : Seq(Reported), record : Seq(Reported)]
        /\ stack \in Seq(WalkType)
        /\ IF pass = "done" THEN Len(stack) = 0 ELSE Len(stack) \in {1, 2}
    BY <1>1 DEF WInv, StackOK
  <2>2. IsDrawing(d)
    BY <2>1, EntityWalksAssumption
  <2>3. pass = "done" <=> stack = <<>>
    <3>1. stack = <<>> <=> Len(stack) = 0
      BY <2>1, TopOfStack
    <3>2. \A n \in {1, 2} : n # 0
      OBVIOUS
    <3> QED BY <2>1, <3>1, <3>2, Zenon
  <2>4. ASSUME NEW i \in DOMAIN stack
        PROVE  /\ stack[i].at \in Object \cup {0} /\ stack[i].of \in Object \cup {0}
               /\ \A e \in Range(stack[i].got) : e.id \in Object
    <3>4. stack[i] \in WalkType
      <4>1. \A S : \A s \in Seq(S) : \A j \in DOMAIN s : s[j] \in S
        OBVIOUS
      <4> QED BY <2>1, <4>1, Zenon
    <3>1. PICK w \in WalkType : w = stack[i]
      BY <3>4
    <3>2. w.at \in Object \cup {0} /\ w.of \in Object \cup {0} /\ w.got \in Seq(Entities)
      BY DEF WalkType
    <3>3. \A e \in Range(w.got) : e \in Entities
      BY <3>2, RangeOfEntities
    <3> QED BY <3>1, <3>2, <3>3 DEF Entities
  <2>5. ASSUME NEW p \in DOMAIN lists, NEW e \in Range(lists[p])
        PROVE  e.id \in Object
    <3>1. lists[p] \in Seq(Reported)
      BY <2>1
    <3>2. e \in Entities
      BY <3>1, RangeOfEntities, PlainAreEntities
    <3> QED BY <3>2 DEF Entities
  <2> QED
    BY <2>1, <2>2, <2>3, <2>4, <2>5 DEF TypeOK, OpenRuns
<1> QED
  BY <1>1, WalksKeep, PTL

(* For a drawing of any size, with whatever links: no walk turns more      *)
(* often than there are objects, or collects more than the cap on it, or   *)
(* goes past one level, and LibreDWG's place in a list never leaves it.    *)
THEOREM NoWalkOutgrowsItsBounds == Spec => []WalksStayInBounds
<1>1. ASSUME WInv PROVE WalksStayInBounds
  <2>1. /\ d \in Drawing /\ stack \in Seq(WalkType) /\ IteratorInBounds
        /\ Len(stack) = 0 \/ Len(stack) = 1 \/ Len(stack) = 2
    BY <1>1 DEF WInv, StackOK
  <2>2. Len(stack) <= 2
    <3>1. \A n : n = 0 \/ n = 1 \/ n = 2 => n <= 2
      OBVIOUS
    <3> QED BY <2>1, <3>1, Zenon
  <2>3. ASSUME NEW w \in WalkType, BlockWalkOK(w)
        PROVE  /\ w.loop \notin {"list", "vertices"} =>
                    w.steps <= Len(d.kind) + 1 \/ w.steps <= MaxOwned
               /\ w.loop \notin {"list", "chain", "vertex stream"} => Len(w.got) <= MaxOwned
    BY <2>3 DEF BlockWalkOK, BlockLoops
  <2>4. ASSUME NEW w \in WalkType, SubWalkOK(w)
        PROVE  /\ w.loop \notin {"list", "vertices"} =>
                    w.steps <= Len(d.kind) + 1 \/ w.steps <= MaxOwned
               /\ w.loop \notin {"list", "chain", "vertex stream"} => Len(w.got) <= MaxOwned
    <3>1. /\ w.loop \in AttribLoops \cup VertexLoops /\ w.steps \in Nat
          /\ Len(d.kind) \in Nat /\ MaxOwned \in Nat /\ Len(w.got) \in Nat
      <4>1. w.got \in Seq(Entities)
        BY DEF WalkType
      <4>2. Len(w.got) \in Nat
        BY <4>1, LenProperties, Zenon
      <4> QED BY <2>1, <2>4, <4>2, DrawingType, EntityWalksAssumption DEF SubWalkOK, WalkType
    <3>2. \A g, s, n \in Nat : g <= s /\ s <= n => g <= n
      OBVIOUS
    <3>3. \A s, n \in Nat : s <= n => s <= n + 1
      OBVIOUS
    <3>4. CASE w.loop \in {"owned", "array"}
      <4>1. w.steps <= MaxOwned /\ Len(w.got) <= w.steps
        BY <2>4, <3>4 DEF SubWalkOK
      <4>2. Len(w.got) <= MaxOwned
        BY <3>1, <3>2, <4>1, Zenon
      <4> QED BY <4>1, <4>2
    <3>5. CASE w.loop \in {"attrib chain", "stream"}
      BY <2>4, <3>5 DEF SubWalkOK
    <3>6. CASE w.loop = "vertices"
      BY <2>4, <3>6 DEF SubWalkOK
    <3>7. CASE w.loop = "vertex stream"
      <4>1. w.steps <= Len(d.kind)
        BY <2>1, <2>4, <3>7, RunEnds
      <4> QED BY <3>1, <3>3, <3>7, <4>1
    <3> QED BY <3>1, <3>4, <3>5, <3>6, <3>7 DEF AttribLoops, VertexLoops
  <2>5. ASSUME NEW i \in DOMAIN stack
        PROVE  stack[i] \in WalkType /\ (BlockWalkOK(stack[i]) \/ SubWalkOK(stack[i]))
    <3>1. stack[i] \in WalkType /\ DOMAIN stack = 1 .. Len(stack)
      BY <2>1
    <3>2. i = 1 \/ (i = 2 /\ Len(stack) = 2)
      BY <2>1, <3>1
    <3>3. Len(stack) > 0
      BY <2>1, <3>1
    <3> QED BY <1>1, <3>1, <3>2, <3>3, Zenon DEF WInv, StackOK
  <2>6. WalksAreBounded
    BY <2>2, <2>3, <2>4, <2>5 DEF WalksAreBounded
  <2> QED BY <2>1, <2>6 DEF WalksStayInBounds
<1> QED
  BY <1>1, WalksKeep, PTL

-----------------------------------------------------------------------------
(* What a walk comes to is settled by where it starts.  A run: `c` is what *)
(* n steps lead to, none of them from an end.                              *)
Run(trace, n, start, step, ends) ==
  /\ trace[0] = start
  /\ \A k \in 0 .. n - 1 : trace[k] \notin ends /\ trace[k + 1] = step[trace[k]]
LeadsTo(start, step, ends, c) ==
  \E n \in Nat : \E trace : trace[n] = c /\ Run(trace, n, start, step, ends)

LEMMA RunBegins ==
  ASSUME NEW start, NEW step, NEW ends
  PROVE  LeadsTo(start, step, ends, start)
<1>1. [k \in {0} |-> start][0] = start
  OBVIOUS
<1>2. 0 .. 0 - 1 = {} /\ 0 \in Nat
  OBVIOUS
<1>3. \E trace : trace[0] = start
  BY <1>1
<1> QED
  BY <1>2, <1>3 DEF LeadsTo, Run

LEMMA RunGoesOn ==
  ASSUME NEW start, NEW step, NEW ends, NEW c, LeadsTo(start, step, ends, c), c \notin ends
  PROVE  LeadsTo(start, step, ends, step[c])
<1>1a. PICK n \in Nat : \E trace : trace[n] = c /\ Run(trace, n, start, step, ends)
  BY DEF LeadsTo
<1>1. PICK trace : trace[n] = c /\ Run(trace, n, start, step, ends)
  BY <1>1a
<1> DEFINE longer == [k \in 0 .. n + 1 |-> IF k = n + 1 THEN step[c] ELSE trace[k]]
<1>2. /\ longer[n + 1] = step[c] /\ \A k \in 0 .. n : longer[k] = trace[k]
  OBVIOUS
<1> HIDE DEF longer
<1>3. longer[0] = start
  BY <1>1, <1>2 DEF Run
<1>4. ASSUME NEW k \in 0 .. (n + 1) - 1
      PROVE  longer[k] \notin ends /\ longer[k + 1] = step[longer[k]]
  <2>1. CASE k = n
    BY <1>1, <1>2, <2>1
  <2>2. CASE k # n
    <3>1. k \in 0 .. n - 1 /\ k \in 0 .. n /\ k + 1 \in 0 .. n
      BY <2>2
    <3> QED BY <1>1, <1>2, <3>1 DEF Run
  <2> QED BY <2>1, <2>2
<1>5. n + 1 \in Nat /\ Run(longer, n + 1, start, step, ends)
  BY <1>3, <1>4 DEF Run
<1> QED
  BY <1>2, <1>5 DEF LeadsTo

(* Two runs that have ended came to the same.                              *)
LEMMA RunsEndAlike ==
  ASSUME NEW start, NEW step, NEW ends, NEW a \in ends, NEW b \in ends,
         LeadsTo(start, step, ends, a), LeadsTo(start, step, ends, b)
  PROVE  a = b
<1>1a. PICK n \in Nat : \E trace : trace[n] = a /\ Run(trace, n, start, step, ends)
  BY DEF LeadsTo
<1>1. PICK trace : trace[n] = a /\ Run(trace, n, start, step, ends)
  BY <1>1a
<1>2a. PICK m \in Nat : \E other : other[m] = b /\ Run(other, m, start, step, ends)
  BY DEF LeadsTo
<1>2. PICK other : other[m] = b /\ Run(other, m, start, step, ends)
  BY <1>2a
<1> DEFINE apart == {k \in Nat : k <= n /\ k <= m /\ trace[k] # other[k]}
<1>3. apart = {}
  <2> SUFFICES ASSUME apart # {} PROVE FALSE
    OBVIOUS
  <2>1. PICK k \in apart : \A j \in apart : k <= j
    <3>1. apart \subseteq Nat
      OBVIOUS
    <3> HIDE DEF apart
    <3> QED BY <3>1, LeastExists
  <2>2. k # 0
    BY <1>1, <1>2 DEF Run
  <2>3. k - 1 \in Nat /\ k - 1 <= n /\ k - 1 <= m /\ ~(k <= k - 1) /\ k - 1 \in 0 .. n - 1 /\ k - 1 \in 0 .. m - 1
        /\ (k - 1) + 1 = k
    BY <2>2
  <2>4. trace[k - 1] = other[k - 1]
    BY <2>1, <2>3
  <2>5. trace[k] = step[trace[k - 1]] /\ other[k] = step[other[k - 1]]
    BY <1>1, <1>2, <2>3 DEF Run
  <2> QED BY <2>4, <2>5
<1>4. \A k \in Nat : k <= n /\ k <= m => trace[k] = other[k]
  BY <1>3
<1>5. CASE n = m
  BY <1>1, <1>2, <1>4, <1>5
<1>6. CASE n < m
  <2>1. n \in 0 .. m - 1 /\ n <= n /\ n <= m
    BY <1>6
  <2> QED BY <1>1, <1>2, <1>4, <2>1 DEF Run
<1>7. CASE m < n
  <2>1. m \in 0 .. n - 1 /\ m <= m /\ m <= n
    BY <1>7
  <2> QED BY <1>1, <1>2, <1>4, <2>1 DEF Run
<1> QED
  BY <1>5, <1>6, <1>7

-----------------------------------------------------------------------------
(* `FlattenSeq` takes one sequence after the other.                        *)
LEMMA FlattenExists ==
  ASSUME NEW ss, Len(ss) \in Nat, Len(ss) # 0
  PROVE  \E f : /\ f = [k \in 1 .. Len(ss) |-> IF k = 1 THEN ss[k] ELSE f[k - 1] \o ss[k]]
                /\ FlattenSeq(ss) = f[Len(ss)]
<1> DEFINE Is(f, n) == f = [k \in 1 .. n |-> IF k = 1 THEN ss[k] ELSE f[k - 1] \o ss[k]]
           none == {n \in Nat : ~ \E f : Is(f, n)}
<1>1. none = {}
  <2> SUFFICES ASSUME none # {} PROVE FALSE
    OBVIOUS
  <2>1. PICK n \in none : \A j \in none : n <= j
    <3>1. none \subseteq Nat
      OBVIOUS
    <3> HIDE DEF none
    <3> QED BY <3>1, LeastExists
  <2>2. CASE n = 0
    <3> DEFINE f == [k \in 1 .. 0 |-> 0]
    <3>1. 1 .. 0 = {}
      OBVIOUS
    <3>2. f = [k \in 1 .. 0 |-> IF k = 1 THEN ss[k] ELSE f[k - 1] \o ss[k]]
      BY <3>1
    <3>3. \E g : Is(g, 0)
      BY <3>2
    <3> QED BY <2>1, <2>2, <3>3
  <2>3. CASE n # 0
    <3>1. n - 1 \in Nat /\ ~(n <= n - 1)
      BY <2>3
    <3>2. PICK f : Is(f, n - 1)
      BY <2>1, <3>1
    <3> DEFINE g == [k \in 1 .. n |-> IF k \in 1 .. n - 1 THEN f[k]
                                      ELSE IF k = 1 THEN ss[k] ELSE f[k - 1] \o ss[k]]
    <3>3. ASSUME NEW k \in 1 .. n
          PROVE  g[k] = IF k = 1 THEN ss[k] ELSE g[k - 1] \o ss[k]
      <4>1. \A j \in 1 .. n - 1 : j \in 1 .. n /\ g[j] = f[j]
        BY <3>1
      <4>2. k = 1 \/ k - 1 \in 1 .. n - 1
        BY <3>1
      <4>3. CASE k \in 1 .. n - 1
        <5>1. f[k] = IF k = 1 THEN ss[k] ELSE f[k - 1] \o ss[k]
          BY <3>2, <4>3
        <5> HIDE DEF g
        <5> QED BY <4>1, <4>2, <4>3, <5>1
      <4>4. CASE k \notin 1 .. n - 1
        <5>1. g[k] = IF k = 1 THEN ss[k] ELSE f[k - 1] \o ss[k]
          BY <4>4
        <5> HIDE DEF g
        <5> QED BY <4>1, <4>2, <5>1
      <4> QED BY <4>3, <4>4
    <3>4. \E h : Is(h, n)
      <4>1. DOMAIN g = 1 .. n /\ g = [k \in 1 .. n |-> g[k]]
        OBVIOUS
      <4> HIDE DEF g
      <4>2. [k \in 1 .. n |-> g[k]] = [k \in 1 .. n |-> IF k = 1 THEN ss[k] ELSE g[k - 1] \o ss[k]]
        BY <3>3
      <4>3. Is(g, n)
        BY <4>1, <4>2
      <4> QED BY <4>3
    <3> QED BY <2>1, <3>4
  <2> QED BY <2>2, <2>3
<1>2. \E f : Is(f, Len(ss))
  BY <1>1
<1> DEFINE f == CHOOSE g : Is(g, Len(ss))
<1>3. Is(f, Len(ss))
  BY <1>2
<1>4. FlattenSeq(ss) = f[Len(ss)]
  BY DEF FlattenSeq
<1> QED
  BY <1>3, <1>4

LEMMA FlattenAppend ==
  ASSUME NEW S, NEW ss \in Seq(Seq(S)), NEW x \in Seq(S)
  PROVE  FlattenSeq(Append(ss, x)) = FlattenSeq(ss) \o x
<1> DEFINE longer == Append(ss, x)
<1>1. /\ Len(ss) \in Nat /\ Len(longer) = Len(ss) + 1 /\ longer[Len(ss) + 1] = x
      /\ \A k \in 1 .. Len(ss) : longer[k] = ss[k]
  BY AppendProperties
<1> HIDE DEF longer
<1>2. Len(longer) \in Nat /\ Len(longer) # 0
  BY <1>1
<1>3. PICK g : /\ g = [k \in 1 .. Len(longer) |-> IF k = 1 THEN longer[k] ELSE g[k - 1] \o longer[k]]
               /\ FlattenSeq(longer) = g[Len(longer)]
  BY <1>2, FlattenExists
<1>4. \A k \in 1 .. Len(ss) + 1 : g[k] = IF k = 1 THEN longer[k] ELSE g[k - 1] \o longer[k]
  BY <1>1, <1>3
<1>5. CASE Len(ss) = 0
  <2>1. ss = <<>>
    BY <1>5, EmptySeq
  <2>2. FlattenSeq(ss) = <<>>
    BY <1>5, <2>1 DEF FlattenSeq
  <2>3. g[1] = x /\ Len(longer) = 1
    BY <1>1, <1>4, <1>5
  <2>4. <<>> \o x = x
    BY ConcatEmptySeq
  <2> QED BY <1>3, <2>2, <2>3, <2>4 DEF longer
<1>6. CASE Len(ss) # 0
  <2>1. PICK f : /\ f = [k \in 1 .. Len(ss) |-> IF k = 1 THEN ss[k] ELSE f[k - 1] \o ss[k]]
                 /\ FlattenSeq(ss) = f[Len(ss)]
    BY <1>1, <1>6, FlattenExists
  <2>2. \A k \in 1 .. Len(ss) : f[k] = IF k = 1 THEN ss[k] ELSE f[k - 1] \o ss[k]
    BY <2>1
  <2> DEFINE apart == {k \in Nat : k \in 1 .. Len(ss) /\ g[k] # f[k]}
  <2>3. apart = {}
    <3> SUFFICES ASSUME apart # {} PROVE FALSE
      OBVIOUS
    <3>1. PICK k \in apart : \A j \in apart : k <= j
      <4>1. apart \subseteq Nat
        OBVIOUS
      <4> HIDE DEF apart
      <4> QED BY <4>1, LeastExists
    <3>2. k \in 1 .. Len(ss) /\ k \in 1 .. Len(ss) + 1 /\ g[k] # f[k]
      BY <1>1
    <3>3. k = 1 \/ (k - 1 \in 1 .. Len(ss) /\ k - 1 \in Nat /\ ~(k <= k - 1))
      BY <1>1, <3>2
    <3>4. k = 1 \/ g[k - 1] = f[k - 1]
      BY <3>1, <3>3
    <3>5. g[k] = f[k]
      BY <1>1, <1>4, <2>2, <3>2, <3>4
    <3> QED BY <3>2, <3>5
  <2>4. g[Len(ss)] = f[Len(ss)]
    BY <1>1, <1>6, <2>3
  <2>5. Len(ss) + 1 \in 1 .. Len(ss) + 1 /\ Len(ss) + 1 # 1 /\ Len(ss) + 1 - 1 = Len(ss)
    BY <1>1, <1>6
  <2>6. g[Len(ss) + 1] = g[Len(ss)] \o longer[Len(ss) + 1]
    <3>1. \A k \in 1 .. Len(ss) + 1 : k # 1 => g[k] = g[k - 1] \o longer[k]
      BY <1>4
    <3>2. PICK k \in 1 .. Len(ss) + 1 : k = Len(ss) + 1
      BY <2>5
    <3>3. k # 1 /\ k - 1 = Len(ss)
      BY <2>5, <3>2
    <3>4. g[k] = g[k - 1] \o longer[k]
      BY <3>1, <3>3, Zenon
    <3> QED BY <3>2, <3>3, <3>4, Zenon
  <2> QED BY <1>1, <1>3, <2>1, <2>4, <2>6 DEF longer
<1> QED
  BY <1>5, <1>6

(* An entity of the block with its attributes behind it.                   *)
LEMMA WithAttribsType ==
  ASSUME NEW e \in OfBlock
  PROVE  WithAttribs(e) \in Seq(OfBlock)
<1>1. Attribs \subseteq OfBlock
  BY PlainAreEntities DEF Attribs, OfBlock
<1>2. <<e>> \in Seq(OfBlock)
  OBVIOUS
<1>3. CASE d.kind[e.id] = "insert"
  <2>1. e.subs \in Seq(OfBlock)
    <3>1. e.subs \in Seq(Attribs)
      BY <1>3 DEF OfBlock
    <3> QED BY <1>1, <3>1, SeqMonotonic, Zenon
  <2>2. <<e>> \o e.subs \in Seq(OfBlock)
    BY <1>2, <2>1, ConcatProperties, Zenon
  <2> QED BY <1>3, <2>2 DEF WithAttribs
<1>4. CASE d.kind[e.id] # "insert"
  BY <1>2, <1>4 DEF WithAttribs
<1> QED
  BY <1>3, <1>4

LEMMA NoneWithAttribs == AllWithAttribs(<<>>) = <<>>
<1>1. Len(<<>>) = 0 /\ 1 .. 0 = {}
  OBVIOUS
<1> DEFINE ss == [k \in 1 .. Len(<<>>) |-> WithAttribs(<<>>[k])]
<1>2. ss = <<>>
  BY <1>1
<1>3. FlattenSeq(<<>>) = <<>>
  BY <1>1 DEF FlattenSeq
<1> QED
  BY <1>2, <1>3 DEF AllWithAttribs

LEMMA OneMoreWithAttribs ==
  ASSUME NEW es \in Seq(OfBlock), NEW e \in OfBlock
  PROVE  AllWithAttribs(Append(es, e)) = AllWithAttribs(es) \o WithAttribs(e)
<1> DEFINE ss == [k \in 1 .. Len(es) |-> WithAttribs(es[k])]
           longer == Append(es, e)
           all == [k \in 1 .. Len(longer) |-> WithAttribs(longer[k])]
<1>1. /\ Len(es) \in Nat /\ Len(longer) = Len(es) + 1 /\ longer[Len(es) + 1] = e
      /\ \A k \in 1 .. Len(es) : longer[k] = es[k] /\ es[k] \in OfBlock
  BY AppendProperties
<1>2. WithAttribs(e) \in Seq(OfBlock) /\ \A k \in 1 .. Len(es) : WithAttribs(es[k]) \in Seq(OfBlock)
  BY <1>1, WithAttribsType
<1>3. ss \in Seq(Seq(OfBlock)) /\ Len(ss) = Len(es) /\ \A k \in 1 .. Len(es) : ss[k] = WithAttribs(es[k])
  BY <1>1, <1>2
<1> HIDE DEF ss, longer
<1>4. /\ Append(ss, WithAttribs(e)) \in Seq(Seq(OfBlock)) /\ Len(Append(ss, WithAttribs(e))) = Len(es) + 1
      /\ \A k \in 1 .. Len(es) : Append(ss, WithAttribs(e))[k] = ss[k]
      /\ Append(ss, WithAttribs(e))[Len(es) + 1] = WithAttribs(e)
  BY <1>2, <1>3, AppendProperties
<1>5. \A k \in 1 .. Len(longer) : all[k] = Append(ss, WithAttribs(e))[k]
  <2> TAKE k \in 1 .. Len(longer)
  <2>1. k \in 1 .. Len(es) \/ k = Len(es) + 1
    BY <1>1
  <2> QED BY <1>1, <1>3, <1>4, <2>1
<1>6. all \in Seq(Seq(OfBlock)) /\ Len(all) = Len(es) + 1
  <2>1. \A k \in 1 .. Len(longer) : all[k] \in Seq(OfBlock)
    BY <1>1, <1>2
  <2>2. Len(longer) \in Nat
    BY <1>1
  <2>3. all \in Seq(Seq(OfBlock)) /\ Len(all) = Len(longer)
    <3>1. \A X : \A n \in Nat : \A f \in [1 .. n -> X] : f \in Seq(X) /\ Len(f) = n
      OBVIOUS
    <3>2. all \in [1 .. Len(longer) -> Seq(OfBlock)]
      BY <2>1
    <3> HIDE DEF all
    <3> QED BY <2>2, <3>1, <3>2, Zenon
  <2> QED BY <1>1, <2>3
<1> HIDE DEF all
<1>7. all = Append(ss, WithAttribs(e))
  BY <1>1, <1>4, <1>5, <1>6, SeqEqual
<1>8. FlattenSeq(all) = FlattenSeq(ss) \o WithAttribs(e)
  BY <1>2, <1>3, <1>7, FlattenAppend
<1> QED
  BY <1>8 DEF AllWithAttribs, all, ss, longer
-----------------------------------------------------------------------------
(* A walk over a block by the numbers of what it gives: what the walks     *)
(* below it make of an entity is left out, so that one step is one turn.   *)
ById(w, es) == [w EXCEPT !.got = Ids(es)]
Gives(w) == ~Skips(w) /\ Converts(w)

BlockPlace ==
  [loop : BlockLoops, of : {0}, at : Object \cup {0}, steps : Nat, got : Seq(Object), depth : {0}]
BlockTurn ==
  [c \in BlockPlace |-> [c EXCEPT !.at = After(c), !.steps = Advanced(c).steps,
                                  !.got = IF Gives(c) THEN Append(@, c.at) ELSE @]]
BlockEnds == {c \in BlockPlace : Over(c)}

LEMMA LookupsStay ==
  ASSUME d' = d
  PROVE  /\ Object' = Object
         /\ \A x : Resolve(x)' = Resolve(x) /\ FirstOf(x)' = FirstOf(x)
         /\ \A o : IsVertex(o)' <=> IsVertex(o)
         /\ \A o : IsAttrib(o)' <=> IsAttrib(o)
         /\ \A o : IsSubEntity(o)' <=> IsSubEntity(o)
         /\ \A o : IsErased(o)' <=> IsErased(o)
         /\ \A o : NextObject(o)' = NextObject(o)
         /\ \A o : NextEntity(o)' = NextEntity(o)
         /\ \A i : ListedAfter(i)' = ListedAfter(i) /\ Listed(i)' = Listed(i)
<1>1. Object' = Object
  BY DEF Object
<1>2. \A x : Resolve(x)' = Resolve(x) /\ FirstOf(x)' = FirstOf(x)
  BY <1>1 DEF Resolve, FirstOf
<1>3. /\ \A o : IsVertex(o)' <=> IsVertex(o)
      /\ \A o : IsAttrib(o)' <=> IsAttrib(o)
      /\ \A o : IsSubEntity(o)' <=> IsSubEntity(o)
      /\ \A o : IsErased(o)' <=> IsErased(o)
  BY <1>1 DEF IsVertex, IsAttrib, IsSubEntity, IsErased
<1>4. \A o : NextObject(o)' = NextObject(o)
  BY <1>2 DEF NextObject
<1>5. \A o : NextEntityInFile(o)' = NextEntityInFile(o)
  BY <1>1 DEF NextEntityInFile
<1>6. \A o : NextEntity(o)' = NextEntity(o)
  BY <1>1, <1>2, <1>5 DEF NextEntity
<1>7. \A i : ListedAfter(i)' = ListedAfter(i) /\ Listed(i)' = Listed(i)
  BY <1>1 DEF ListedAfter, Listed, Resolve
<1> QED
  BY <1>1, <1>2, <1>3, <1>4, <1>6, <1>7

(* Where a walk of a block goes, it goes whatever the iterators are.       *)
LEMMA TurnsStay ==
  ASSUME d' = d
  PROVE  /\ \A c : Over(c)' <=> Over(c)
         /\ \A c : Skips(c)' <=> Skips(c)
         /\ \A c : Converts(c)' <=> Converts(c)
         /\ \A c : ByIterator(c)' <=> ByIterator(c)
         /\ \A c : ~ByIterator(c) => After(c)' = After(c)
         /\ \A c : Advanced(c)'.steps = Advanced(c).steps
<1>1. \A c : Over(c)' <=> Over(c)
  BY LookupsStay DEF Over
<1>2. \A c : Skips(c)' <=> Skips(c)
  BY LookupsStay DEF Skips
<1>3. \A c : Converts(c)' <=> Converts(c)
  BY DEF Converts
<1>4. \A c : ByIterator(c)' <=> ByIterator(c)
  BY DEF ByIterator
<1>5. \A c : ~ByIterator(c) => After(c)' = After(c)
  BY <1>4, LookupsStay DEF After, Resolve
<1>6. \A c : Advanced(c)'.steps = Advanced(c).steps
  BY LookupsStay DEF Advanced
<1> QED
  BY <1>1, <1>2, <1>3, <1>4, <1>5, <1>6

LEMMA BlockStays ==
  ASSUME d' = d
  PROVE  /\ BlockWalk' = BlockWalk /\ BlockPlace' = BlockPlace
         /\ BlockTurn' = BlockTurn /\ BlockEnds' = BlockEnds
<1>1. BlockWalk' = BlockWalk
  <2>1. Object' = Object /\ ListedAfter(0)' = ListedAfter(0)
    BY LookupsStay
  <2>2. Listed(ListedAfter(0))' = Listed(ListedAfter(0)) /\ Resolve(d.first)' = Resolve(d.first)
    BY <2>1 DEF Listed, Resolve
  <2> QED BY <2>1, <2>2 DEF BlockWalk, Walk
<1>2. BlockPlace' = BlockPlace
  BY LookupsStay DEF BlockPlace
<1>3. BlockEnds' = BlockEnds
  BY <1>2, TurnsStay DEF BlockEnds
<1>4. ASSUME NEW c \in BlockPlace
      PROVE  /\ After(c)' = After(c) /\ Advanced(c)'.steps = Advanced(c).steps
             /\ Gives(c)' <=> Gives(c)
  <2>1. ~ByIterator(c)
    BY DEF ByIterator, BlockPlace, BlockLoops
  <2> QED BY <2>1, TurnsStay DEF Gives
<1>5. BlockTurn' = BlockTurn
  BY <1>2, <1>4 DEF BlockTurn
<1> QED
  BY <1>1, <1>2, <1>3, <1>5

(* The numbers of a list of entities, one by one.                          *)
LEMMA NumbersOf ==
  ASSUME NEW S, \A e \in S : e.id \in Object, NEW es \in Seq(S)
  PROVE  /\ Ids(es) \in Seq(Object) /\ Len(Ids(es)) = Len(es) /\ Len(es) \in Nat
         /\ \A k \in 1 .. Len(es) : Ids(es)[k] = es[k].id
         /\ \A e \in S : Ids(Append(es, e)) = Append(Ids(es), e.id)
<1>1. \A e \in S : e.id \in Object
  OBVIOUS
<1>2. ASSUME NEW fs \in Seq(S)
      PROVE  /\ Ids(fs) \in Seq(Object) /\ Len(Ids(fs)) = Len(fs) /\ Len(fs) \in Nat
             /\ \A k \in 1 .. Len(fs) : Ids(fs)[k] = fs[k].id
  <2>1. Len(fs) \in Nat /\ \A k \in 1 .. Len(fs) : fs[k] \in S
    OBVIOUS
  <2>2. Ids(fs) \in [1 .. Len(fs) -> Object] /\ \A k \in 1 .. Len(fs) : Ids(fs)[k] = fs[k].id
    BY <1>1, <2>1 DEF Ids
  <2>3. \A X : \A n \in Nat : \A f \in [1 .. n -> X] : f \in Seq(X) /\ Len(f) = n
    OBVIOUS
  <2> QED BY <2>1, <2>2, <2>3, Zenon
<1>3. ASSUME NEW e \in S PROVE Ids(Append(es, e)) = Append(Ids(es), e.id)
  <2> DEFINE longer == Append(es, e)
             one == Append(Ids(es), e.id)
  <2>1. /\ longer \in Seq(S) /\ Len(longer) = Len(es) + 1 /\ longer[Len(es) + 1] = e
        /\ \A k \in 1 .. Len(es) : longer[k] = es[k]
    BY AppendProperties
  <2>2. /\ one \in Seq(Object) /\ Len(one) = Len(es) + 1 /\ one[Len(es) + 1] = e.id
        /\ \A k \in 1 .. Len(es) : one[k] = es[k].id
    BY <1>1, <1>2, AppendProperties
  <2> HIDE DEF longer, one
  <2>3. /\ Ids(longer) \in Seq(Object) /\ Len(Ids(longer)) = Len(es) + 1
        /\ \A k \in 1 .. Len(es) + 1 : Ids(longer)[k] = longer[k].id
    BY <1>2, <2>1
  <2>4. \A k \in 1 .. Len(es) + 1 : Ids(longer)[k] = one[k]
    <3> TAKE k \in 1 .. Len(es) + 1
    <3>1. k \in 1 .. Len(es) \/ k = Len(es) + 1
      BY <1>2
    <3> QED BY <2>1, <2>2, <2>3, <3>1
  <2>5. Ids(longer) = one
    BY <2>2, <2>3, <2>4, SeqEqual
  <2> QED BY <2>5 DEF longer, one
<1> QED
  BY <1>2, <1>3

(* Those of what a block gives.                                            *)
LEMMA IdsOf ==
  ASSUME NEW S, S \subseteq OfBlock, NEW es \in Seq(S)
  PROVE  /\ Ids(es) \in Seq(Object) /\ Len(Ids(es)) = Len(es) /\ Len(es) \in Nat
         /\ \A k \in 1 .. Len(es) : Ids(es)[k] = es[k].id
         /\ \A e \in S : Ids(Append(es, e)) = Append(Ids(es), e.id)
<1>1. \A e \in S : e.id \in Object
  BY DEF OfBlock, Entities
<1> QED
  BY <1>1, NumbersOf

(* A turn of a block's walk is one of the walk by number.                  *)
Turned(w, made) == Advanced([w EXCEPT !.got = @ \o made])

LEMMA BlockTurns ==
  ASSUME d \in Drawing, NEW b \in WalkType, b.loop \in BlockLoops, b.of = 0, b.depth = 0, ~Over(b),
         NEW S, S \subseteq OfBlock, b.got \in Seq(S), NEW made,
         Gives(b) => \E e \in S : e.id = b.at /\ made = <<e>>, ~Gives(b) => made = <<>>,
         NEW turned, turned = Turned(b, made)
  PROVE  /\ turned \in WalkType /\ turned.of = 0 /\ turned.depth = 0 /\ turned.loop = b.loop
         /\ turned.got \in Seq(S) /\ turned.got = b.got \o made
         /\ ById(b, b.got) \in BlockPlace /\ ById(b, b.got) \notin BlockEnds
         /\ ById(turned, turned.got) = BlockTurn[ById(b, b.got)]
<1> DEFINE a == Advanced([b EXCEPT !.got = @ \o made])
           c == ById(b, b.got)
<1>1. /\ b.loop \in BlockLoops /\ b.of = 0 /\ b.at \in Object \cup {0} /\ b.steps \in Nat
      /\ b.got \in Seq(S) /\ b.depth = 0
      /\ b = [loop |-> b.loop, of |-> 0, at |-> b.at, steps |-> b.steps, got |-> b.got, depth |-> 0]
  BY DEF WalkType
<1>2. Ids(b.got) \in Seq(Object)
  BY <1>1, IdsOf
<1>3. /\ c = [loop |-> b.loop, of |-> 0, at |-> b.at, steps |-> b.steps, got |-> Ids(b.got), depth |-> 0]
      /\ c.loop = b.loop /\ c.of = 0 /\ c.at = b.at /\ c.steps = b.steps /\ c.got = Ids(b.got) /\ c.depth = 0
  BY <1>1 DEF ById
<1>4. c \in BlockPlace
  BY <1>1, <1>2, <1>3 DEF BlockPlace
<1>5. /\ Over(c) <=> Over(b)
      /\ Skips(c) <=> Skips(b)
      /\ Converts(c) <=> Converts(b)
      /\ After(c) = After(b)
  BY <1>1, <1>3 DEF BlockLoops, Over, Skips, Converts, After, ByIterator
<1>6. c \notin BlockEnds
  BY <1>5 DEF BlockEnds
<1> DEFINE n == IF b.loop = "list" THEN ListedAfter(b.steps) ELSE b.steps + 1
<1>7. made \in Seq(S) /\ b.got \o made \in Seq(S)
      /\ Ids(b.got \o made) = IF Gives(b) THEN Append(Ids(b.got), b.at) ELSE Ids(b.got)
  <2>1. CASE Gives(b)
    <3>1. PICK e \in S : e.id = b.at /\ made = <<e>>
      BY <2>1
    <3>2. made \in Seq(S) /\ b.got \o made = Append(b.got, e) /\ Append(b.got, e) \in Seq(S)
      BY <1>1, <3>1, AppendIsConcat, AppendProperties
    <3>3. Ids(Append(b.got, e)) = Append(Ids(b.got), e.id)
      BY <1>1, IdsOf
    <3> QED BY <2>1, <3>1, <3>2, <3>3, Zenon
  <2>2. CASE ~Gives(b)
    BY <1>1, <2>2, ConcatEmptySeq
  <2> QED BY <2>1, <2>2
<1>8. /\ a = [loop |-> b.loop, of |-> 0, at |-> After(b), steps |-> n, got |-> b.got \o made, depth |-> 0]
  <2> DEFINE w == [b EXCEPT !.got = @ \o made]
  <2>1. w = [loop |-> b.loop, of |-> 0, at |-> b.at, steps |-> b.steps, got |-> b.got \o made, depth |-> 0]
    <3>1. \A g : [b EXCEPT !.got = g] =
            [loop |-> b.loop, of |-> 0, at |-> b.at, steps |-> b.steps, got |-> g, depth |-> 0]
      BY <1>1
    <3> QED BY <3>1, Zenon
  <2>2. After(w) = After(b)
    BY <1>1, <2>1 DEF BlockLoops, After, ByIterator
  <2> HIDE DEF w
  <2>3. Advanced(w) = [w EXCEPT !.at = After(b), !.steps = n]
    BY <2>1, <2>2 DEF Advanced
  <2> QED BY <2>1, <2>3 DEF w
<1>9. Advanced(c).steps = n
  BY <1>3 DEF Advanced
<1>10. BlockTurn[c] = [loop |-> b.loop, of |-> 0, at |-> After(b), steps |-> n,
                       got |-> IF Gives(b) THEN Append(Ids(b.got), b.at) ELSE Ids(b.got), depth |-> 0]
  BY <1>3, <1>4, <1>5, <1>9 DEF BlockTurn, Gives
<1>11. a \in WalkType
  <2>1. made \in Seq(Entities)
    <3>1. S \subseteq Entities
      BY DEF OfBlock
    <3> QED BY <1>7, <3>1, SeqMonotonic, Zenon
  <2> QED BY <2>1, AdvancedType
<1> HIDE DEF a
<1>13. a.of = 0 /\ a.depth = 0 /\ a.loop = b.loop /\ a.got = b.got \o made
  <2> DEFINE R(g) == [loop |-> b.loop, of |-> 0, at |-> After(b), steps |-> n, got |-> g, depth |-> 0]
  <2>1. \A g : R(g).got = g /\ R(g).of = 0 /\ R(g).depth = 0 /\ R(g).loop = b.loop
    OBVIOUS
  <2>2. a = R(b.got \o made)
    BY <1>8, Zenon
  <2> HIDE DEF R
  <2> QED BY <2>1, <2>2, Zenon
<1>12. ById(a, a.got) = BlockTurn[c]
  <2>1. a.got = b.got \o made
    BY <1>13
  <2>2. ById(a, a.got) = [a EXCEPT !.got = Ids(b.got \o made)]
    BY <2>1 DEF ById
  <2>3. \A g, h : [[loop |-> b.loop, of |-> 0, at |-> After(b), steps |-> n, got |-> g, depth |-> 0] EXCEPT !.got = h]
                 = [loop |-> b.loop, of |-> 0, at |-> After(b), steps |-> n, got |-> h, depth |-> 0]
    OBVIOUS
  <2>4. [a EXCEPT !.got = Ids(b.got \o made)] =
          [loop |-> b.loop, of |-> 0, at |-> After(b), steps |-> n, got |-> Ids(b.got \o made), depth |-> 0]
    BY <1>8, <2>3, Zenon
  <2> HIDE DEF c, n
  <2> QED BY <1>7, <1>10, <2>2, <2>4, Zenon
<1>14. /\ a \in WalkType /\ a.of = 0 /\ a.depth = 0 /\ a.loop = b.loop
       /\ a.got \in Seq(S) /\ a.got = b.got \o made
       /\ c \in BlockPlace /\ c \notin BlockEnds
       /\ ById(a, a.got) = BlockTurn[c]
  BY <1>4, <1>6, <1>7, <1>11, <1>12, <1>13
<1> QED
  BY <1>14 DEF a, c, Turned
-----------------------------------------------------------------------------
(* What an entity owns, walked with LibreDWG's place at the list's start.  *)
Straight == ~(d.era = "R2004 on" /\ \E o \in Object : LeftInTheMiddle(o))

SubPlace == {w \in WalkType : w.loop \in AttribLoops \cup VertexLoops /\ w.of \in Object}
SubAfter(w) ==
  IF ByIterator(w)
    THEN IF w.steps + 1 = Len(d.owned[w.of]) THEN 0 ELSE Resolve(d.owned[w.of][w.steps + 2])
    ELSE After(w)
SubMade(w) == IF ~Skips(w) /\ (InVertices(w) \/ Converts(w)) THEN <<Entity(w.at, <<>>)>> ELSE <<>>
SubTurn ==
  [w \in SubPlace |->
     IF Over(w) THEN VertexStream(w.of, w.depth)
     ELSE [loop |-> w.loop, of |-> w.of, at |-> SubAfter(w), steps |-> w.steps + 1,
           got |-> w.got \o SubMade(w), depth |-> w.depth]]
SubEnds == {w \in SubPlace : Over(w) /\ ~(w.loop = "vertices" /\ w.got = <<>>)}
OwnWalk(o) == IF d.kind[o] = "insert" THEN AttribWalk(o, 1) ELSE VertexWalk(o, 1)
SubsOf(w) == IF InVertices(w) THEN Among(w.got, Vertices) ELSE w.got

(* An entity with the sub-entities that this walk gives, where no list is  *)
(* left in the middle.                                                     *)
HasItsOwn(e) ==
  IF d.kind[e.id] \in {"insert", "polyline"}
    THEN \E w \in SubEnds : LeadsTo(OwnWalk(e.id), SubTurn, SubEnds, w) /\ e.subs = SubsOf(w)
    ELSE e.subs = <<>>
Made == {e \in OfBlock : Straight => HasItsOwn(e)}

LEMMA SubStays ==
  ASSUME d' = d
  PROVE  /\ Straight' <=> Straight
         /\ SubPlace' = SubPlace /\ SubTurn' = SubTurn /\ SubEnds' = SubEnds
         /\ \A o : OwnWalk(o)' = OwnWalk(o)
         /\ \A o : VertexStream(o, 1)' = VertexStream(o, 1)
         /\ Made' = Made
<1>1. Straight' <=> Straight
  BY LookupsStay DEF Straight, LeftInTheMiddle, Resolve
<1>2. SubPlace' = SubPlace
  BY DrawingStays DEF SubPlace
<1>3. SubEnds' = SubEnds
  BY <1>2, TurnsStay DEF SubEnds
<1>4. \A o, n : /\ VertexStream(o, n)' = VertexStream(o, n)
                /\ AttribWalk(o, n)' = AttribWalk(o, n)
                /\ VertexWalk(o, n)' = VertexWalk(o, n)
  <2>1. \A o, n : VertexStream(o, n)' = VertexStream(o, n)
    BY LookupsStay DEF VertexStream, Walk
  <2>2. \A o, n : VertexWalk(o, n)' = VertexWalk(o, n)
    BY <2>1, LookupsStay DEF VertexWalk, Walk, FirstOf, Resolve
  <2>3. \A o, n : AttribWalk(o, n)' = AttribWalk(o, n)
    BY LookupsStay DEF AttribWalk, Walk, FirstOf, Resolve
  <2> QED BY <2>1, <2>2, <2>3
<1>5. \A o : OwnWalk(o)' = OwnWalk(o)
  BY <1>4 DEF OwnWalk
<1>6. \A w : SubAfter(w)' = SubAfter(w)
  BY TurnsStay, LookupsStay DEF SubAfter, Resolve
<1>7. \A w : SubMade(w)' = SubMade(w)
  BY TurnsStay DEF SubMade, InVertices, Entity
<1>8. SubTurn' = SubTurn
  BY <1>2, <1>4, <1>6, <1>7, TurnsStay DEF SubTurn
<1>9. \A w : SubsOf(w)' = SubsOf(w)
  BY DrawingStays DEF SubsOf, InVertices
<1>10. \A e : HasItsOwn(e)' <=> HasItsOwn(e)
  BY <1>3, <1>5, <1>8, <1>9 DEF HasItsOwn
<1>11. Made' = Made
  BY <1>1, <1>10, DrawingStays DEF Made
<1> QED
  BY <1>1, <1>2, <1>3, <1>4, <1>5, <1>8, <1>11

(* So the two passes cannot make different things of one entity.           *)
LEMMA MadeAlike ==
  ASSUME Straight, NEW e \in Made, NEW f \in Made, e.id = f.id
  PROVE  e = f
<1>1. e.subs = f.subs
  <2>1. CASE d.kind[e.id] \in {"insert", "polyline"}
    <3>1. PICK v \in SubEnds : LeadsTo(OwnWalk(e.id), SubTurn, SubEnds, v) /\ e.subs = SubsOf(v)
      BY <2>1 DEF Made, HasItsOwn
    <3>2. PICK w \in SubEnds : LeadsTo(OwnWalk(e.id), SubTurn, SubEnds, w) /\ f.subs = SubsOf(w)
      BY <2>1 DEF Made, HasItsOwn
    <3>3. v = w
      BY <3>1, <3>2, RunsEndAlike, Zenon
    <3> QED BY <3>1, <3>2, <3>3
  <2>2. CASE d.kind[e.id] \notin {"insert", "polyline"}
    BY <2>2 DEF Made, HasItsOwn
  <2> QED BY <2>1, <2>2
<1>2. e \in Entities /\ f \in Entities
  BY DEF Made, OfBlock
<1>3. e = [id |-> e.id, subs |-> e.subs] /\ f = [id |-> f.id, subs |-> f.subs]
  BY <1>2 DEF Entities
<1> QED
  BY <1>1, <1>3, Zenon
-----------------------------------------------------------------------------
(* Where such a walk is: on its own way from the start, and LibreDWG's     *)
(* place in the list, if it goes by that, as many places on as it turned.  *)
OnItsWay(w) ==
  /\ w.depth = 1
  /\ LeadsTo(OwnWalk(w.of), SubTurn, SubEnds, w)
  /\ ByIterator(w) =>
       /\ w.steps <= Len(d.owned[w.of])
       /\ w.at = IF w.steps = Len(d.owned[w.of]) THEN 0 ELSE Resolve(d.owned[w.of][w.steps + 1])
       /\ w.loop = "vertices" => Len(w.got) = w.steps
PlaceOf(w) == IF ByIterator(w) /\ w.steps # Len(d.owned[w.of]) THEN w.steps ELSE 0

LEMMA OwnListType ==
  ASSUME d \in Drawing, NEW o \in Object
  PROVE  Len(d.owned[o]) \in Nat
<1>1. d.owned[o] \in Seq(0 .. Len(d.kind) + 1)
  BY DrawingType
<1> QED
  BY <1>1, LenProperties

LEMMA SubTurns ==
  ASSUME d \in Drawing, Straight, NEW t \in WalkType, SubWalkOK(t), OnItsWay(t), ~Over(t),
         ByIterator(t) => iterator[t.of] = PlaceOf(t), iterator \in [Object -> Nat],
         NEW made, made = SubMade(t), NEW turned, turned = Turned(t, made)
  PROVE  /\ OnItsWay(turned) /\ turned.of = t.of /\ turned.loop = t.loop
         /\ IteratorAfter(t) = IF ByIterator(t) THEN [iterator EXCEPT ![t.of] = PlaceOf(turned)] ELSE iterator
<1> DEFINE v == [t EXCEPT !.got = @ \o made]
           a == Advanced(v)
<1>1. /\ t.of \in Object /\ t.loop \in AttribLoops \cup VertexLoops /\ t.loop # "list"
      /\ t.steps \in Nat /\ t.got \in Seq(Entities) /\ t.at \in Object \cup {0} /\ t.depth = 1
      /\ t = [loop |-> t.loop, of |-> t.of, at |-> t.at, steps |-> t.steps, got |-> t.got, depth |-> t.depth]
  BY DEF SubWalkOK, WalkType, OnItsWay, AttribLoops, VertexLoops
<1>2. t.loop # "array" => t.at \in Object
  BY TurningIsAtAnObject
<1>3. made \in Seq(Entities) /\ Len(made) <= 1 /\ (t.loop = "vertices" => Len(made) = 1)
  <2>1. made = <<>> \/ (made = <<Entity(t.at, <<>>)>> /\ t.at \in Object)
    <3>1. CASE t.loop = "array"
      BY <3>1 DEF SubMade, Skips, IsAttrib
    <3>2. CASE t.loop # "array"
      BY <1>2, <3>2 DEF SubMade
    <3> QED BY <3>1, <3>2
  <2>2. t.loop = "vertices" => made = <<Entity(t.at, <<>>)>> /\ t.at \in Object
    BY <1>2 DEF SubMade, Skips, InVertices
  <2>3. /\ \A o \in Object : <<Entity(o, <<>>)>> \in Seq(Plain) /\ Len(<<Entity(o, <<>>)>>) = 1
        /\ 1 <= 1 /\ <<>> \in Seq(Plain) /\ Len(<<>>) <= 1
    BY OneMade, NoneMade
  <2>4. \A s \in Seq(Plain) : s \in Seq(Entities)
    BY PlainAreEntities
  <2> QED BY <2>1, <2>2, <2>3, <2>4, Zenon
<1>4. /\ a \in WalkType /\ a.loop = t.loop /\ a.of = t.of /\ a.depth = t.depth /\ a.got = t.got \o made
      /\ a.steps = t.steps + 1
  BY <1>1, <1>3, AdvancedType
<1>5. v = [loop |-> t.loop, of |-> t.of, at |-> t.at, steps |-> t.steps, got |-> t.got \o made, depth |-> t.depth]
  <2>1. \A g : [t EXCEPT !.got = g] =
          [loop |-> t.loop, of |-> t.of, at |-> t.at, steps |-> t.steps, got |-> g, depth |-> t.depth]
    BY <1>1
  <2> QED BY <2>1, Zenon
<1>6. /\ v.loop = t.loop /\ v.of = t.of /\ v.at = t.at /\ v.steps = t.steps
      /\ ByIterator(v) <=> ByIterator(t)
      /\ LastOwned(v) <=> LastOwned(t)
  <2>1. v.loop = t.loop /\ v.of = t.of /\ v.at = t.at /\ v.steps = t.steps
    BY <1>5
  <2> HIDE DEF v
  <2> QED BY <2>1 DEF ByIterator, LastOwned
<1> HIDE DEF v
<1>7. ASSUME ByIterator(t)
      PROVE  /\ Len(d.owned[t.of]) \in Nat /\ t.steps < Len(d.owned[t.of]) /\ iterator[t.of] = t.steps
             /\ LastOwned(t) <=> t.steps + 1 = Len(d.owned[t.of])
  <2>1. Len(d.owned[t.of]) \in Nat
    BY <1>1, OwnListType
  <2>2. t.steps # Len(d.owned[t.of])
    <3>1. 0 \notin Object
      BY DEF Object
    <3>2. t.at \in Object
      BY <1>2, <1>7 DEF ByIterator
    <3> QED BY <1>7, <3>1, <3>2 DEF OnItsWay
  <2>3. t.steps <= Len(d.owned[t.of])
    BY <1>7 DEF OnItsWay
  <2>4. iterator[t.of] = t.steps
    BY <1>7, <2>2 DEF PlaceOf
  <2>5. LastOwned(t) <=> t.steps + 1 = Len(d.owned[t.of])
    BY <2>4 DEF LastOwned
  <2>6. t.steps < Len(d.owned[t.of])
    BY <1>1, <2>1, <2>2, <2>3
  <2> QED BY <2>1, <2>4, <2>5, <2>6
<1>8. After(v) = SubAfter(t)
  <2>1. CASE ByIterator(t)
    <3>1. t.loop \in {"owned", "vertices"}
      BY <2>1 DEF ByIterator
    <3>2. After(v) = IF LastOwned(v) THEN 0 ELSE Resolve(d.owned[t.of][iterator[t.of] + 2])
      BY <1>6, <2>1, <3>1 DEF After
    <3> QED BY <1>6, <1>7, <2>1, <3>2 DEF SubAfter
  <2>2. CASE ~ByIterator(t)
    BY <1>1, <1>6, <2>2 DEF SubAfter, After, AttribLoops, VertexLoops
  <2> QED BY <2>1, <2>2
<1>9. a.at = SubAfter(t)
  BY <1>1, <1>3, <1>8, AdvancedType DEF v
<1>10. t \in SubPlace /\ t \notin SubEnds
  BY <1>1 DEF SubPlace, SubEnds
<1> HIDE DEF a
<1>11. SubTurn[t] = a
  <2>3. SubTurn[t] = [loop |-> t.loop, of |-> t.of, at |-> SubAfter(t), steps |-> t.steps + 1,
                      got |-> t.got \o SubMade(t), depth |-> t.depth]
    BY <1>10 DEF SubTurn
  <2>4. a = [loop |-> a.loop, of |-> a.of, at |-> a.at, steps |-> a.steps, got |-> a.got, depth |-> a.depth]
    BY <1>4 DEF WalkType
  <2> QED BY <1>4, <1>9, <2>3, <2>4, Zenon
<1>12. LeadsTo(OwnWalk(a.of), SubTurn, SubEnds, a)
  <2>1. LeadsTo(OwnWalk(t.of), SubTurn, SubEnds, t)
    BY DEF OnItsWay
  <2>2. LeadsTo(OwnWalk(t.of), SubTurn, SubEnds, SubTurn[t])
    BY <1>10, <2>1, RunGoesOn
  <2> QED BY <1>4, <1>11, <2>2
<1>13. ByIterator(a) <=> ByIterator(t)
  BY <1>4 DEF ByIterator
<1>14. ASSUME ByIterator(t)
       PROVE  /\ a.steps <= Len(d.owned[a.of])
              /\ a.at = IF a.steps = Len(d.owned[a.of]) THEN 0 ELSE Resolve(d.owned[a.of][a.steps + 1])
              /\ a.loop = "vertices" => Len(a.got) = a.steps
  <2>1. a.steps <= Len(d.owned[a.of])
    BY <1>1, <1>4, <1>7, <1>14
  <2>2. t.steps + 2 = a.steps + 1
    BY <1>1, <1>4
  <2>3. a.at = IF a.steps = Len(d.owned[a.of]) THEN 0 ELSE Resolve(d.owned[a.of][a.steps + 1])
    BY <1>4, <1>9, <1>14, <2>2 DEF SubAfter
  <2>4. ASSUME a.loop = "vertices" PROVE Len(a.got) = a.steps
    <3>1. Len(t.got) = t.steps /\ Len(made) = 1
      BY <1>3, <1>4, <1>14, <2>4 DEF OnItsWay
    <3>2. Len(a.got) = Len(t.got) + Len(made)
      BY <1>1, <1>3, <1>4, ConcatProperties
    <3> QED BY <1>4, <3>1, <3>2
  <2> QED BY <2>1, <2>3, <2>4
<1>15. OnItsWay(a)
  BY <1>1, <1>4, <1>12, <1>13, <1>14 DEF OnItsWay
<1>16. IteratorAfter(t) = IF ByIterator(t) THEN [iterator EXCEPT ![t.of] = PlaceOf(a)] ELSE iterator
  <2>1. CASE ~ByIterator(t)
    BY <2>1 DEF IteratorAfter
  <2>2. CASE ByIterator(t)
    <3>1. PlaceOf(a) = IF LastOwned(t) THEN 0 ELSE iterator[t.of] + 1
      BY <1>4, <1>7, <1>13, <2>2 DEF PlaceOf
    <3> QED BY <2>2, <3>1 DEF IteratorAfter
  <2> QED BY <2>1, <2>2
<1> QED
  BY <1>4, <1>15, <1>16 DEF a, v, Turned

(* It leaves the place as it found it: at the start.                       *)
LEMMA SubEndsAtTheStart ==
  ASSUME d \in Drawing, Straight, NEW t \in WalkType, SubWalkOK(t), OnItsWay(t), Over(t)
  PROVE  PlaceOf(t) = 0
<1> SUFFICES ASSUME ByIterator(t), t.steps # Len(d.owned[t.of]), t.steps # 0
             PROVE  FALSE
  BY DEF PlaceOf
<1>1. /\ t.of \in Object /\ t.steps \in Nat /\ Len(d.owned[t.of]) \in Nat /\ MaxOwned \in Nat
      /\ t.steps <= Len(d.owned[t.of]) /\ d.era = "R2004 on" /\ t.loop \in {"owned", "vertices"}
      /\ t.loop = "owned" => d.kind[t.of] = "insert"
      /\ t.at = Resolve(d.owned[t.of][t.steps + 1])
      /\ t.loop = "vertices" => Len(t.got) = t.steps
  <2>1. t.of \in Object /\ (t.loop = "owned" => d.kind[t.of] = "insert")
    BY DEF SubWalkOK, AttribLoops
  <2> QED BY <2>1, OwnListType, EntityWalksAssumption DEF WalkType, OnItsWay, ByIterator
<1>2. t.steps + 1 \in 2 .. Len(d.owned[t.of]) /\ t.steps < Len(d.owned[t.of])
  <2>1. \A s, n \in Nat : s <= n /\ s # n /\ s # 0 => s + 1 \in 2 .. n /\ s < n
    OBVIOUS
  <2> QED BY <1>1, <2>1, Zenon
<1>3. /\ ~(Len(d.owned[t.of]) > MaxOwned)
      /\ t.at # 0
      /\ d.kind[t.of] = "insert" => IsAttrib(t.at)
  BY <1>1, <1>2 DEF Straight, LeftInTheMiddle
<1>4. ~(t.steps >= MaxOwned)
  <2>1. \A s, n, m \in Nat : s < n /\ ~(n > m) => ~(s >= m)
    OBVIOUS
  <2> QED BY <1>1, <1>2, <1>3, <2>1, Zenon
<1>5. CASE t.loop = "owned"
  BY <1>1, <1>3, <1>4, <1>5 DEF Over
<1>6. CASE t.loop = "vertices"
  <2>1. t.at = 0 \/ Len(t.got) >= MaxOwned
    BY <1>6 DEF Over
  <2>2. Len(t.got) = t.steps
    BY <1>1, <1>6
  <2> QED BY <1>3, <1>4, <2>1, <2>2, Zenon
<1> QED
  BY <1>1, <1>5, <1>6
-----------------------------------------------------------------------------
(* How far the passes are.  The block's walk is on its way by number, from *)
(* the same start in both passes; what the first has listed, and what it   *)
(* still has, is what that walk comes to, and so is what the second takes. *)
OnBlocksWay(c) == LeadsTo(BlockWalk, BlockTurn, BlockEnds, c)
CameTo(ids) == \E c \in BlockEnds : OnBlocksWay(c) /\ c.got = ids
Named(o, es) == \E k \in 1 .. Len(es) : es[k].id = o

BlockOK(b) == b.of = 0 /\ b.depth = 0 /\ b.got \in Seq(Made)
SubOK(b, t) == ~Over(b) /\ Gives(b) /\ (Straight => OnItsWay(t))
PlacesOK(places, away, p) == \A o \in Object : places[o] = IF o = away THEN p ELSE 0

PassOK(done) ==
  /\ lists.entities = AllWithAttribs(done)
  /\ pass = "entities" =>
       IF done = <<>>
         THEN OnBlocksWay(ById(stack[1], stack[1].got))
         ELSE Len(stack) = 1 /\ Over(stack[1]) /\ CameTo(Ids(done \o stack[1].got))
  /\ pass = "block record" =>
       OnBlocksWay(ById(stack[1], stack[1].got)) /\ CameTo(Ids(done))
  /\ pass = "done" => lists.record \in Seq(Made) /\ Ids(lists.record) = Ids(done)
  /\ \A o \in warned : Named(o, done) \/ (pass # "done" /\ Named(o, stack[1].got))

AInv ==
  /\ Len(stack) > 0 => BlockOK(stack[1])
  /\ Len(stack) = 2 => SubOK(stack[1], stack[2])
  /\ Straight => IF Len(stack) = 2 THEN PlacesOK(iterator, stack[2].of, PlaceOf(stack[2]))
                                   ELSE PlacesOK(iterator, 0, 0)
  /\ \E done \in Seq(Made) : PassOK(done)

LEMMA PassesStay ==
  ASSUME d' = d
  PROVE  /\ \A c : OnBlocksWay(c)' <=> OnBlocksWay(c)
         /\ \A ids : CameTo(ids)' <=> CameTo(ids)
         /\ \A b : BlockOK(b)' <=> BlockOK(b)
         /\ \A b, t : SubOK(b, t)' <=> SubOK(b, t)
         /\ \A t : PlaceOf(t)' = PlaceOf(t)
         /\ \A places, o, p : PlacesOK(places, o, p)' <=> PlacesOK(places, o, p)
         /\ \A es : AllWithAttribs(es)' = AllWithAttribs(es)
<1>1. \A c : OnBlocksWay(c)' <=> OnBlocksWay(c)
  BY BlockStays DEF OnBlocksWay
<1>2. \A ids : CameTo(ids)' <=> CameTo(ids)
  BY <1>1, BlockStays DEF CameTo
<1>3. \A b : BlockOK(b)' <=> BlockOK(b)
  BY SubStays DEF BlockOK
<1>4. \A t : OnItsWay(t)' <=> OnItsWay(t)
  BY SubStays, TurnsStay, LookupsStay DEF OnItsWay, Resolve
<1>5. \A b, t : SubOK(b, t)' <=> SubOK(b, t)
  BY <1>4, SubStays, TurnsStay DEF SubOK, Gives
<1>6. \A t : PlaceOf(t)' = PlaceOf(t)
  BY TurnsStay DEF PlaceOf
<1>7. \A places, o, p : PlacesOK(places, o, p)' <=> PlacesOK(places, o, p)
  BY LookupsStay DEF PlacesOK
<1>8. \A es : AllWithAttribs(es)' = AllWithAttribs(es)
  BY DEF AllWithAttribs, WithAttribs
<1> QED
  BY <1>1, <1>2, <1>3, <1>5, <1>6, <1>7, <1>8

(* With one walk left under way, and with two.                             *)
LEMMA OneLeft ==
  ASSUME d' = d, NEW a, stack' = <<a>>, BlockOK(a), Straight => PlacesOK(iterator', 0, 0),
         NEW done \in Seq(Made), PassOK(done)'
  PROVE  AInv'
<1>1. Len(stack') = 1 /\ stack'[1] = a /\ ~(Len(stack') = 2)
  OBVIOUS
<1>2. BlockOK(stack[1])'
  BY <1>1, PassesStay
<1>3. Straight' => PlacesOK(iterator, 0, 0)'
  BY PassesStay, SubStays
<1> QED
  BY <1>1, <1>2, <1>3, SubStays DEF AInv

LEMMA TwoLeft ==
  ASSUME d' = d, NEW b, NEW t, stack' = <<b, t>>, BlockOK(b), SubOK(b, t),
         Straight => PlacesOK(iterator', t.of, PlaceOf(t)), NEW done \in Seq(Made), PassOK(done)'
  PROVE  AInv'
<1>1. Len(stack') = 2 /\ stack'[1] = b /\ stack'[2] = t
  OBVIOUS
<1>2. BlockOK(stack[1])' /\ SubOK(stack[1], stack[2])'
  BY <1>1, PassesStay
<1>3. Straight' => PlacesOK(iterator, stack[2].of, PlaceOf(stack[2]))'
  <2>1. PlaceOf(stack[2])' = PlaceOf(t)
    BY <1>1, PassesStay
  <2>2. PlacesOK(iterator, stack[2].of, PlaceOf(stack[2]))' <=>
          \A o \in Object : iterator'[o] = IF o = t.of THEN PlaceOf(t) ELSE 0
    <3>1. Object' = Object
      BY LookupsStay
    <3> QED BY <1>1, <2>1, <3>1 DEF PlacesOK
  <2> QED BY <2>2, SubStays DEF PlacesOK
<1> QED
  BY <1>1, <1>2, <1>3, SubStays DEF AInv
LEMMA NamedOneMore ==
  ASSUME NEW S, NEW es \in Seq(S), NEW e \in S
  PROVE  /\ Named(e.id, Append(es, e))
         /\ \A o : Named(o, es) => Named(o, Append(es, e))
<1>1. /\ Len(es) \in Nat /\ Len(Append(es, e)) = Len(es) + 1 /\ Append(es, e)[Len(es) + 1] = e
      /\ \A k \in 1 .. Len(es) : Append(es, e)[k] = es[k]
  BY AppendProperties
<1>2. Len(es) + 1 \in 1 .. Len(es) + 1 /\ \A k \in 1 .. Len(es) : k \in 1 .. Len(es) + 1
  BY <1>1
<1> QED
  BY <1>1, <1>2, Zenon DEF Named

(* The block's walk makes a turn, under either pass.                       *)
LEMMA BlockTurnKeeps ==
  ASSUME WInv, AInv, d' = d, pass' = pass, lists' = lists, pass # "done",
         NEW b \in WalkType, stack[1] = b, BlockWalkOK(b), BlockOK(b), ~Over(b), NEW made,
         Gives(b) => \E e \in Made : e.id = b.at /\ made = <<e>>, ~Gives(b) => made = <<>>,
         stack' = <<Turned(b, made)>>,
         Straight => PlacesOK(iterator', 0, 0),
         warned' = warned \/ (Gives(b) /\ warned' = warned \cup {b.at})
  PROVE  AInv'
<1> DEFINE c == ById(b, b.got)
<1>0. PICK a : a = Turned(b, made)
  OBVIOUS
<1>1. d \in Drawing /\ pass \in {"entities", "block record", "done"}
  BY DEF WInv
<1>2. Made \subseteq OfBlock
  BY DEF Made
<1>3. /\ a \in WalkType /\ a.of = 0 /\ a.depth = 0 /\ a.loop = b.loop
      /\ a.got \in Seq(Made) /\ a.got = b.got \o made
      /\ c \notin BlockEnds /\ ById(a, a.got) = BlockTurn[c]
  <2>1. b.loop \in BlockLoops /\ b.of = 0 /\ b.depth = 0 /\ b.got \in Seq(Made)
    BY DEF BlockOK, BlockWalkOK
  <2> HIDE DEF c
  <2>3. /\ a \in WalkType /\ a.of = 0 /\ a.depth = 0 /\ a.loop = b.loop
        /\ a.got \in Seq(Made) /\ a.got = b.got \o made
        /\ ById(b, b.got) \in BlockPlace /\ ById(b, b.got) \notin BlockEnds
        /\ ById(a, a.got) = BlockTurn[ById(b, b.got)]
    <3>1. Gives(b) => \E e \in Made : e.id = b.at /\ made = <<e>>
      OBVIOUS
    <3>2. ~Gives(b) => made = <<>>
      OBVIOUS
    <3>4. b \in WalkType /\ ~Over(b) /\ d \in Drawing
      BY <1>1
    <3>3. \A S : S \subseteq OfBlock /\ b.got \in Seq(S) /\ (Gives(b) => \E e \in S : e.id = b.at /\ made = <<e>>)
            => /\ a \in WalkType /\ a.of = 0 /\ a.depth = 0 /\ a.loop = b.loop
               /\ a.got \in Seq(S) /\ a.got = b.got \o made
               /\ ById(b, b.got) \in BlockPlace /\ ById(b, b.got) \notin BlockEnds
               /\ ById(a, a.got) = BlockTurn[ById(b, b.got)]
      BY <1>0, <2>1, <3>2, <3>4, BlockTurns
    <3> QED BY <1>2, <2>1, <3>1, <3>3, Zenon
  <2> QED BY <2>3 DEF c
<1>4. stack' = <<a>> /\ Len(stack') = 1 /\ stack'[1] = a
  BY <1>0
<1> HIDE DEF c
<1>5. BlockOK(a)
  BY <1>3 DEF BlockOK
<1>6. PICK done \in Seq(Made) : PassOK(done)
  BY DEF AInv
<1>7. pass = "entities" => done = <<>>
  BY <1>6 DEF PassOK
<1>8. OnBlocksWay(c)
  BY <1>1, <1>6, <1>7 DEF PassOK, c
<1>9. OnBlocksWay(ById(a, a.got))
  BY <1>3, <1>8, RunGoesOn DEF OnBlocksWay
<1>10. ASSUME NEW o \in warned' PROVE Named(o, done) \/ Named(o, a.got)
  <2>1. b.got \in Seq(Made)
    BY DEF BlockOK
  <2>2. CASE Gives(b)
    <3>1. PICK e \in Made : e.id = b.at /\ made = <<e>>
      BY <2>2
    <3>2. a.got = Append(b.got, e)
      BY <1>3, <2>1, <3>1, AppendIsConcat
    <3>3. Named(b.at, a.got) /\ \A p : Named(p, b.got) => Named(p, a.got)
      BY <2>1, <3>1, <3>2, NamedOneMore
    <3>4. o \in warned \/ o = b.at
      OBVIOUS
    <3> QED BY <1>6, <3>3, <3>4 DEF PassOK
  <2>3. CASE ~Gives(b)
    <3>1. a.got = b.got /\ o \in warned
      BY <1>3, <2>1, <2>3, ConcatEmptySeq
    <3> QED BY <1>6, <3>1 DEF PassOK
  <2> QED BY <2>2, <2>3
<1>11. PassOK(done)'
  <2>1. (lists.entities = AllWithAttribs(done))'
    BY <1>6, PassesStay DEF PassOK
  <2>2. OnBlocksWay(ById(stack[1], stack[1].got))'
    <3>1. ById(stack[1], stack[1].got)' = ById(a, a.got)
      BY <1>4 DEF ById, Ids
    <3> QED BY <1>9, <3>1, PassesStay
  <2>3. pass = "block record" => CameTo(Ids(done))'
    <3>1. pass = "block record" => CameTo(Ids(done))
      BY <1>6 DEF PassOK
    <3>2. Ids(done)' = Ids(done)
      BY DEF Ids
    <3> QED BY <3>1, <3>2, PassesStay
  <2>4. \A o \in warned' : Named(o, done)' \/ Named(o, stack[1].got)'
    BY <1>4, <1>10 DEF Named
  <2> QED BY <1>7, <2>1, <2>2, <2>3, <2>4 DEF PassOK
<1> QED
  BY <1>4, <1>5, <1>11, OneLeft
(* A step that leaves the block's walk where it is.                        *)
LEMMA SameBlock ==
  ASSUME d' = d, pass' = pass, lists' = lists, warned' = warned,
         NEW b, stack[1] = b, stack'[1] = b, ~Over(b), NEW done \in Seq(Made), PassOK(done)
  PROVE  PassOK(done)'
<1>1. pass = "entities" => done = <<>>
  BY DEF PassOK
<1>2. ById(stack[1], stack[1].got)' = ById(b, b.got) /\ Ids(done)' = Ids(done)
  BY DEF ById, Ids
<1>3. pass \in {"entities", "block record"} => OnBlocksWay(ById(stack[1], stack[1].got))'
  BY <1>1, <1>2, PassesStay DEF PassOK
<1>4. pass = "block record" => CameTo(Ids(done))'
  BY <1>2, PassesStay DEF PassOK
<1>5. (lists.entities = AllWithAttribs(done))'
  BY PassesStay DEF PassOK
<1>6. pass = "done" => (lists.record \in Seq(Made) /\ Ids(lists.record) = Ids(done))'
  BY SubStays DEF PassOK, Ids
<1>7. \A o \in warned' : Named(o, done)' \/ (pass # "done" /\ Named(o, stack[1].got)')
  BY DEF PassOK, Named
<1> QED
  BY <1>1, <1>3, <1>4, <1>5, <1>6, <1>7 DEF PassOK

(* The block's walk turns by itself.                                       *)
LEMMA OneTurns ==
  ASSUME WInv, AInv, Len(stack) = 1, Turning, NEW made, Turn(made),
         Gives(Top) => \E e \in Made : e.id = Top.at /\ made = <<e>>, ~Gives(Top) => made = <<>>
  PROVE  AInv'
<1>1. /\ d' = d /\ pass' = pass /\ lists' = lists /\ warned' = warned /\ iterator' = IteratorAfter(Top)
      /\ stack' = Append(Front(stack), Turned(Top, made))
  BY DEF Turn, Turned
<1>2. PICK b \in WalkType :
         /\ Top = b /\ stack[1] = b /\ pass # "done" /\ BlockWalkOK(b)
         /\ \A x : Append(Front(stack), x) = <<x>>
  BY BlocksWalk
<1>3. BlockOK(b) /\ (Straight => PlacesOK(iterator, 0, 0))
  BY <1>2 DEF AInv
<1>4. iterator' = iterator
  BY <1>1, <1>2 DEF IteratorAfter, ByIterator, BlockWalkOK, BlockLoops
<1>5. stack' = <<Turned(b, made)>>
  BY <1>1, <1>2
<1>6. ~Over(b)
  BY <1>2 DEF Turning
<1> QED
  BY <1>1, <1>2, <1>3, <1>4, <1>5, <1>6, BlockTurnKeeps

(* The walk over what an entity owns turns.                                *)
LEMMA SubWalkTurns ==
  ASSUME WInv, AInv, Len(stack) = 2, Turning, NEW made, Turn(made), made = SubMade(Top)
  PROVE  AInv'
<1>1. /\ d' = d /\ pass' = pass /\ lists' = lists /\ warned' = warned /\ iterator' = IteratorAfter(Top)
      /\ stack' = Append(Front(stack), Turned(Top, made))
  BY DEF Turn, Turned
<1>2. PICK b \in WalkType, t \in WalkType :
         /\ stack = <<b, t>> /\ Top = t /\ stack[1] = b /\ SubWalkOK(t)
         /\ \A x : Append(Front(stack), x) = <<b, x>>
  BY SubWalk
<1>3. BlockOK(b) /\ SubOK(b, t) /\ (Straight => PlacesOK(iterator, t.of, PlaceOf(t)))
  <2>1. stack[2] = t
    BY <1>2
  <2> QED BY <1>2, <2>1 DEF AInv
<1>4. PICK done \in Seq(Made) : PassOK(done)
  BY DEF AInv
<1>5. PICK a : a = Turned(t, made)
  OBVIOUS
<1>6. stack' = <<b, a>> /\ stack'[1] = b
  <2>1. stack' = Append(Front(stack), a)
    BY <1>1, <1>2, <1>5
  <2>2. stack' = <<b, a>>
    BY <1>2, <2>1, Zenon
  <2> QED BY <2>2
<1>7. PassOK(done)'
  BY <1>1, <1>2, <1>3, <1>4, <1>6, SameBlock DEF SubOK
<1>8. ASSUME Straight
      PROVE  OnItsWay(a) /\ PlacesOK(iterator', a.of, PlaceOf(a))
  <2>1. d \in Drawing /\ iterator \in [Object -> Nat] /\ t.of \in Object /\ ~Over(t) /\ OnItsWay(t)
    BY <1>2, <1>3, <1>8 DEF WInv, SubWalkOK, Turning, SubOK
  <2>2. PlacesOK(iterator, t.of, PlaceOf(t))
    BY <1>3, <1>8
  <2>3. iterator[t.of] = PlaceOf(t)
    BY <2>1, <2>2 DEF PlacesOK
  <2>4. /\ OnItsWay(a) /\ a.of = t.of /\ a.loop = t.loop
        /\ IteratorAfter(t) = IF ByIterator(t) THEN [iterator EXCEPT ![t.of] = PlaceOf(a)] ELSE iterator
    BY <1>2, <1>5, <1>8, <2>1, <2>3, SubTurns
  <2>5. CASE ByIterator(t)
    <3>1. iterator' = [iterator EXCEPT ![t.of] = PlaceOf(a)]
      BY <1>1, <1>2, <2>4, <2>5
    <3> QED BY <2>1, <2>2, <2>4, <3>1 DEF PlacesOK
  <2>6. CASE ~ByIterator(t)
    <3>1. iterator' = iterator /\ PlaceOf(t) = 0 /\ PlaceOf(a) = 0
      BY <1>1, <1>2, <2>4, <2>6 DEF PlaceOf, ByIterator
    <3> QED BY <2>2, <2>4, <3>1
  <2> QED BY <2>4, <2>5, <2>6
<1>9. SubOK(b, a)
  BY <1>3, <1>8 DEF SubOK
<1> QED
  BY <1>1, <1>3, <1>6, <1>7, <1>8, <1>9, TwoLeft
LEMMA PlainIsMade ==
  ASSUME NEW o \in Object, d.kind[o] \notin {"insert", "polyline"}
  PROVE  Entity(o, <<>>) \in Made /\ Entity(o, <<>>).id = o
<1>1. Entity(o, <<>>).id = o /\ Entity(o, <<>>).subs = <<>> /\ Entity(o, <<>>) \in Plain
  BY DEF Entity, Plain
<1>2. Entity(o, <<>>) \in OfBlock
  BY <1>1, PlainAreEntities DEF OfBlock
<1> QED
  BY <1>1, <1>2 DEF Made, HasItsOwn

LEMMA SkipAgrees ==
  ASSUME WInv, AInv, Skip
  PROVE  AInv'
<1>1. Turning /\ Skips(Top) /\ stack # <<>>
  BY DEF Skip, Turning
<1>2. PICK made : made = <<>> /\ Turn(made)
  BY DEF Skip
<1>3. CASE Len(stack) = 1
  BY <1>1, <1>2, <1>3, OneTurns DEF Gives
<1>4. CASE Len(stack) = 2
  BY <1>1, <1>2, <1>4, SubWalkTurns DEF SubMade
<1> QED
  BY <1>1, <1>3, <1>4, OneOrTwo

LEMMA TakeRecordAgrees ==
  ASSUME WInv, AInv, TakeRecord
  PROVE  AInv'
<1>1. Turning /\ InVertices(Top) /\ stack # <<>>
  BY DEF TakeRecord, Turning
<1>2. PICK made : made = <<Entity(Top.at, <<>>)>> /\ Turn(made)
  BY DEF TakeRecord
<1>3. Len(stack) = 2
  <2>1. CASE Len(stack) = 1
    BY <1>1, <2>1, BlocksWalk DEF InVertices, BlockWalkOK, BlockLoops
  <2> QED BY <1>1, <2>1, OneOrTwo
<1>4. ~Skips(Top)
  BY <1>1 DEF InVertices, Skips
<1>5. made = SubMade(Top)
  BY <1>1, <1>2, <1>4 DEF SubMade
<1> QED
  BY <1>1, <1>2, <1>3, <1>5, SubWalkTurns

LEMMA ConvertNothingAgrees ==
  ASSUME WInv, AInv, ConvertNothing
  PROVE  AInv'
<1>1. Turning /\ ~Skips(Top) /\ ~InVertices(Top) /\ ~Converts(Top) /\ stack # <<>>
  BY DEF ConvertNothing, Converting, Turning
<1>2. PICK made : made = <<>> /\ Turn(made)
  BY DEF ConvertNothing
<1>3. CASE Len(stack) = 1
  BY <1>1, <1>2, <1>3, OneTurns DEF Gives
<1>4. CASE Len(stack) = 2
  BY <1>1, <1>2, <1>4, SubWalkTurns DEF SubMade
<1> QED
  BY <1>1, <1>3, <1>4, OneOrTwo

LEMMA ConvertPlainAgrees ==
  ASSUME WInv, AInv, ConvertPlain
  PROVE  AInv'
<1>1. /\ Converting /\ Turning /\ ~Over(Top) /\ ~Skips(Top) /\ Converts(Top) /\ stack # <<>>
      /\ d.kind[Top.at] \notin {"insert", "polyline"}
  BY DEF ConvertPlain, Converting, Turning
<1>2. PICK made : /\ made = IF IsBlocks(Top) \/ IsAttrib(Top.at) THEN <<Entity(Top.at, <<>>)>> ELSE <<>>
                  /\ Turn(made)
  BY DEF ConvertPlain
<1>3. CASE Len(stack) = 1
  <2>1. PICK b \in WalkType : b = Top /\ BlockWalkOK(b)
    BY <1>3, BlocksWalk
  <2>2. Top.at \in Object
    BY <1>1, <2>1, TurningIsAtAnObject DEF BlockWalkOK, BlockLoops, WInv
  <2>3. Entity(Top.at, <<>>) \in Made /\ Entity(Top.at, <<>>).id = Top.at
    BY <1>1, <2>2, PlainIsMade
  <2>4. IsBlocks(Top)
    BY <2>1 DEF IsBlocks, BlockWalkOK, BlockLoops
  <2>5. made = <<Entity(Top.at, <<>>)>>
    BY <1>2, <2>4
  <2>6. \E e \in Made : e.id = Top.at /\ made = <<e>>
    BY <2>3, <2>5
  <2>7. Gives(Top)
    BY <1>1 DEF Gives
  <2> QED BY <1>1, <1>2, <1>3, <2>6, <2>7, OneTurns
<1>4. CASE Len(stack) = 2
  <2>1. d.kind[Top.at] = "attrib" /\ Top.at \in Object
    BY <1>1, <1>4, SubWalksConvertAttribs
  <2>2. made = SubMade(Top)
    BY <1>1, <1>2, <2>1 DEF SubMade, IsAttrib
  <2> QED BY <1>1, <1>2, <1>4, <2>2, SubWalkTurns
<1> QED
  BY <1>1, <1>3, <1>4, OneOrTwo

(* The walk over what an entity owns starts on its way.                    *)
LEMMA SubBegins ==
  ASSUME d \in Drawing, NEW o \in Object, d.kind[o] \in {"insert", "polyline"}
  PROVE  /\ OnItsWay(OwnWalk(o)) /\ PlaceOf(OwnWalk(o)) = 0 /\ OwnWalk(o).of = o
<1>1. PICK w : w = OwnWalk(o)
  OBVIOUS
<1>2. w.of = o /\ w.depth = 1 /\ w.steps = 0 /\ w.got = <<>>
  <2>1. d.era \in {"pre-R13", "R13 to R2000", "R2004 on"}
    BY DrawingType
  <2> QED BY <1>1, <2>1 DEF OwnWalk, AttribWalk, VertexWalk, VertexStream, Walk
<1>3. LeadsTo(OwnWalk(w.of), SubTurn, SubEnds, w)
  BY <1>1, <1>2, RunBegins
<1>4. ASSUME ByIterator(w)
      PROVE  /\ w.steps <= Len(d.owned[w.of])
             /\ w.at = IF w.steps = Len(d.owned[w.of]) THEN 0 ELSE Resolve(d.owned[w.of][w.steps + 1])
             /\ w.loop = "vertices" => Len(w.got) = w.steps
  <2>1. d.era = "R2004 on"
    BY <1>4 DEF ByIterator
  <2>2. w.at = FirstOf(d.owned[o])
    BY <1>1, <2>1 DEF OwnWalk, AttribWalk, VertexWalk, Walk
  <2>3. d.owned[o] \in Seq(0 .. Len(d.kind) + 1) /\ Len(d.owned[o]) \in Nat
    BY DrawingType, OwnListType
  <2>4. d.owned[o] = <<>> <=> Len(d.owned[o]) = 0
    BY <2>3, EmptySeq
  <2>5. 0 <= Len(d.owned[o]) /\ 0 + 1 = 1 /\ Len(<<>>) = 0
    BY <2>3
  <2>6. w.at = IF w.steps = Len(d.owned[w.of]) THEN 0 ELSE Resolve(d.owned[w.of][w.steps + 1])
    BY <1>2, <2>2, <2>4, <2>5 DEF FirstOf
  <2> QED BY <1>2, <2>5, <2>6
<1>5. OnItsWay(w)
  BY <1>2, <1>3, <1>4 DEF OnItsWay
<1>6. PlaceOf(w) = 0
  BY <1>2 DEF PlaceOf
<1> QED
  BY <1>1, <1>2, <1>5, <1>6

LEMMA EnterAgrees ==
  ASSUME WInv, AInv, Enter
  PROVE  AInv'
<1>1. /\ Converting /\ ~Over(Top) /\ ~Skips(Top) /\ Converts(Top) /\ stack # <<>>
      /\ d.kind[Top.at] \in {"insert", "polyline"}
      /\ stack' = Append(stack, IF d.kind[Top.at] = "insert"
                                  THEN AttribWalk(Top.at, Top.depth + 1)
                                  ELSE VertexWalk(Top.at, Top.depth + 1))
      /\ d' = d /\ iterator' = iterator /\ pass' = pass /\ lists' = lists /\ warned' = warned
  BY DEF Enter, Converting, Turning
<1>2. Len(stack) = 1
  <2>1. CASE Len(stack) = 2
    BY <1>1, <2>1, SubWalksConvertAttribs
  <2> QED BY <1>1, <2>1, OneOrTwo
<1>3. PICK b \in WalkType : stack = <<b>> /\ Top = b /\ stack[1] = b /\ BlockWalkOK(b)
  BY <1>2, BlocksWalk
<1>4. BlockOK(b) /\ (Straight => PlacesOK(iterator, 0, 0))
  BY <1>2, <1>3 DEF AInv
<1>5. b.at \in Object
  BY <1>1, <1>3, TurningIsAtAnObject DEF BlockWalkOK, BlockLoops, WInv
<1>6. PICK t : t = OwnWalk(b.at)
  OBVIOUS
<1>7. stack' = <<b, t>>
  <2>1. b.depth + 1 = 1
    BY <1>4 DEF BlockOK
  <2>2. stack' = Append(<<b>>, t)
    BY <1>1, <1>3, <1>6, <2>1 DEF OwnWalk
  <2> QED BY <2>2, AppendToOne
<1>8. OnItsWay(t) /\ PlaceOf(t) = 0
  BY <1>1, <1>3, <1>5, <1>6, SubBegins DEF WInv
<1>9. SubOK(b, t)
  BY <1>1, <1>3, <1>8 DEF SubOK, Gives
<1>10. Straight => PlacesOK(iterator', t.of, PlaceOf(t))
  BY <1>1, <1>4, <1>8 DEF PlacesOK
<1>11. PICK done \in Seq(Made) : PassOK(done)
  BY DEF AInv
<1>12. PassOK(done)'
  <2>1. stack'[1] = b
    BY <1>7
  <2> QED BY <1>1, <1>3, <1>11, <2>1, SameBlock
<1> QED
  BY <1>1, <1>4, <1>7, <1>9, <1>10, <1>11, <1>12, TwoLeft
LEMMA TryStreamAgrees ==
  ASSUME WInv, AInv, TryStream
  PROVE  AInv'
<1>1. /\ stack # <<>> /\ Over(Top) /\ Top.loop = "vertices" /\ Top.got = <<>>
      /\ stack' = Append(Front(stack), VertexStream(Top.of, Top.depth))
      /\ d' = d /\ iterator' = iterator /\ pass' = pass /\ lists' = lists /\ warned' = warned
  BY DEF TryStream
<1>2. Len(stack) = 2
  <2>1. CASE Len(stack) = 1
    BY <1>1, <2>1, BlocksWalk DEF BlockWalkOK, BlockLoops
  <2> QED BY <1>1, <2>1, OneOrTwo
<1>3. PICK b \in WalkType, t \in WalkType :
         /\ stack = <<b, t>> /\ Top = t /\ stack[1] = b /\ SubWalkOK(t)
         /\ \A x : Append(Front(stack), x) = <<b, x>>
  BY <1>2, SubWalk
<1>4. BlockOK(b) /\ SubOK(b, t) /\ (Straight => PlacesOK(iterator, t.of, PlaceOf(t)))
  <2>1. stack[2] = t
    BY <1>3
  <2> QED BY <1>2, <1>3, <2>1 DEF AInv
<1>5. PICK v : v = VertexStream(t.of, t.depth)
  OBVIOUS
<1>6. stack' = <<b, v>> /\ stack'[1] = b
  <2>1. stack' = Append(Front(stack), v)
    BY <1>1, <1>3, <1>5
  <2>2. stack' = <<b, v>>
    BY <1>3, <2>1, Zenon
  <2> QED BY <2>2
<1>7. v.of = t.of /\ v.depth = t.depth /\ v.loop = "vertex stream"
  BY <1>5 DEF VertexStream, Walk
<1>8. ASSUME Straight
      PROVE  OnItsWay(v) /\ PlacesOK(iterator', v.of, PlaceOf(v))
  <2>1. OnItsWay(t) /\ PlacesOK(iterator, t.of, PlaceOf(t)) /\ Over(t) /\ d \in Drawing
    BY <1>1, <1>3, <1>4, <1>8 DEF SubOK, WInv
  <2>2. PlaceOf(t) = 0
    BY <1>3, <1>8, <2>1, SubEndsAtTheStart
  <2>3. t \in SubPlace /\ t \notin SubEnds
    BY <1>1, <1>3 DEF SubPlace, SubEnds, SubWalkOK
  <2>4. SubTurn[t] = v
    BY <1>5, <2>1, <2>3 DEF SubTurn
  <2>5. LeadsTo(OwnWalk(t.of), SubTurn, SubEnds, t)
    BY <2>1 DEF OnItsWay
  <2>6. LeadsTo(OwnWalk(t.of), SubTurn, SubEnds, SubTurn[t])
    BY <2>3, <2>5, RunGoesOn
  <2>7. ~ByIterator(v)
    BY <1>7 DEF ByIterator
  <2>8. OnItsWay(v)
    BY <1>7, <2>1, <2>4, <2>6, <2>7 DEF OnItsWay
  <2>9. PlaceOf(v) = 0
    BY <2>7 DEF PlaceOf
  <2> QED BY <1>1, <1>7, <2>1, <2>2, <2>8, <2>9
<1>9. SubOK(b, v)
  BY <1>4, <1>8 DEF SubOK
<1>10. PICK done \in Seq(Made) : PassOK(done)
  BY DEF AInv
<1>11. PassOK(done)'
  BY <1>1, <1>3, <1>4, <1>6, <1>10, SameBlock DEF SubOK
<1> QED
  BY <1>1, <1>4, <1>6, <1>8, <1>9, <1>10, <1>11, TwoLeft

LEMMA LeaveAgrees ==
  ASSUME WInv, AInv, Leave
  PROVE  AInv'
<1>1. /\ Len(stack) > 1 /\ Over(Top) /\ ~(Top.loop = "vertices" /\ Top.got = <<>>)
      /\ d' = d /\ pass' = pass /\ lists' = lists /\ d \in Drawing /\ stack \in Seq(WalkType)
      /\ warned' = IF Top.loop = "vertex stream" /\ ~EndsAtSeqend(Top)
                     THEN warned \cup {Top.of} ELSE warned
  BY DEF Leave, WInv, StackOK
<1>2. Len(stack) = 2 /\ Len(stack) - 1 = 1
  <2>1. Len(stack) # 0 /\ Len(stack) # 1
    <3>1. Len(stack) \in Nat
      BY <1>1, LenProperties, Zenon
    <3>2. \A n \in Nat : n > 1 => n # 0 /\ n # 1
      OBVIOUS
    <3> QED BY <1>1, <3>1, <3>2, Zenon
  <2>2. Len(stack) = 2
    BY <1>1, <2>1, OneOrTwo, TopOfStack, Zenon
  <2> QED BY <2>2
<1>3. PICK b \in WalkType, t \in WalkType :
         /\ stack = <<b, t>> /\ Top = t /\ stack[1] = b /\ pass # "done"
         /\ BlockWalkOK(b) /\ SubWalkOK(t) /\ t.of = b.at
         /\ \A x : Append(SubSeq(stack, 1, Len(stack) - 2), x) = <<x>>
  BY <1>2, SubWalk
<1>4. BlockOK(b) /\ SubOK(b, t) /\ (Straight => PlacesOK(iterator, t.of, PlaceOf(t)))
  <2>1. stack[2] = t
    BY <1>3
  <2> QED BY <1>2, <1>3, <2>1 DEF AInv
<1>5. PICK subs : subs = SubsOf(t)
  OBVIOUS
<1>6. PICK e : e = Entity(t.of, subs)
  OBVIOUS
<1>7. e \in Made /\ e.id = b.at
  <2>1. subs = IF InVertices(t) THEN Among(t.got, Vertices) ELSE t.got
    BY <1>5 DEF SubsOf
  <2>2. <<e>> \in Seq(Reported')
    BY <1>3, <1>6, <2>1, LeaveReports
  <2>3. e \in Reported'
    <3>1. \A S : \A x : <<x>> \in Seq(S) => x \in S
      <4> TAKE S
      <4> TAKE x
      <4> HAVE <<x>> \in Seq(S)
      <4>1. Len(<<x>>) = 1 /\ <<x>>[1] = x
        OBVIOUS
      <4> QED BY <4>1, ElementOfSeq
    <3> QED BY <2>2, <3>1, Zenon
  <2>4. e \in OfBlock
    BY <1>1, <2>3, DrawingStays DEF Reported
  <2>5. e.id = t.of /\ e.subs = subs
    BY <1>6 DEF Entity
  <2>6. ASSUME Straight PROVE HasItsOwn(e)
    <3>1. t \in SubEnds /\ d.kind[t.of] \in {"insert", "polyline"}
      BY <1>1, <1>3 DEF SubEnds, SubPlace, SubWalkOK
    <3>2. LeadsTo(OwnWalk(t.of), SubTurn, SubEnds, t)
      BY <1>4, <2>6 DEF SubOK, OnItsWay
    <3> QED BY <1>5, <2>5, <3>1, <3>2 DEF HasItsOwn
  <2> QED BY <1>3, <2>4, <2>5, <2>6 DEF Made
<1>8. PICK made : made = <<e>>
  OBVIOUS
<1>9. IsBlocks(b)
  BY <1>3 DEF IsBlocks, BlockWalkOK, BlockLoops
<1>10. stack' = <<Turned(b, made)>> /\ iterator' = IteratorAfter(b)
  <2>1. subs = IF InVertices(t) THEN Among(t.got, Vertices) ELSE t.got
    BY <1>5 DEF SubsOf
  <2>2. /\ stack' = Append(SubSeq(stack, 1, Len(stack) - 2), Advanced([b EXCEPT !.got = @ \o made]))
        /\ iterator' = IteratorAfter(b)
    BY <1>2, <1>3, <1>6, <1>8, <1>9, <2>1 DEF Leave
  <2>3. stack' = Append(SubSeq(stack, 1, Len(stack) - 2), Turned(b, made))
    BY <2>2 DEF Turned
  <2> QED BY <1>3, <2>2, <2>3, Zenon
<1>11. iterator' = iterator
  BY <1>3, <1>10 DEF IteratorAfter, ByIterator, BlockWalkOK, BlockLoops
<1>12. ASSUME Straight PROVE PlacesOK(iterator', 0, 0)
  <2>1. PlaceOf(t) = 0
    BY <1>1, <1>3, <1>4, <1>12, SubEndsAtTheStart DEF SubOK
  <2> QED BY <1>4, <1>11, <1>12, <2>1 DEF PlacesOK
<1>13. Gives(b) /\ ~Over(b)
  BY <1>4 DEF SubOK
<1>14. warned' = warned \/ (Gives(b) /\ warned' = warned \cup {b.at})
  BY <1>1, <1>3, <1>13
<1>15. \E x \in Made : x.id = b.at /\ made = <<x>>
  BY <1>7, <1>8
<1> QED
  BY <1>1, <1>3, <1>4, <1>10, <1>12, <1>13, <1>14, <1>15, BlockTurnKeeps

(* A block's walk that is over has come to an end by number.               *)
LEMMA EndsByNumber ==
  ASSUME NEW b \in WalkType, BlockWalkOK(b), BlockOK(b), Over(b)
  PROVE  ById(b, b.got) \in BlockEnds /\ ById(b, b.got).got = Ids(b.got)
<1>1. /\ b.loop \in BlockLoops /\ b.of = 0 /\ b.at \in Object \cup {0} /\ b.steps \in Nat
      /\ b.got \in Seq(Made) /\ b.depth = 0
      /\ b = [loop |-> b.loop, of |-> 0, at |-> b.at, steps |-> b.steps, got |-> b.got, depth |-> 0]
  BY DEF WalkType, BlockWalkOK, BlockOK
<1>2. Ids(b.got) \in Seq(Object)
  <2>1. Made \subseteq OfBlock
    BY DEF Made
  <2> QED BY <1>1, <2>1, IdsOf
<1>3. PICK c : c = ById(b, b.got)
  OBVIOUS
<1>4. /\ c = [loop |-> b.loop, of |-> 0, at |-> b.at, steps |-> b.steps, got |-> Ids(b.got), depth |-> 0]
      /\ c.loop = b.loop /\ c.at = b.at /\ c.steps = b.steps /\ c.got = Ids(b.got)
  BY <1>1, <1>3 DEF ById
<1>5. c \in BlockPlace
  BY <1>1, <1>2, <1>4 DEF BlockPlace
<1>6. Over(c)
  BY <1>1, <1>4 DEF Over, BlockLoops
<1> QED
  BY <1>3, <1>4, <1>5, <1>6 DEF BlockEnds
LEMMA HeadThenTail ==
  ASSUME NEW S, NEW done \in Seq(S), NEW got \in Seq(S), got # <<>>
  PROVE  /\ Head(got) \in S /\ Tail(got) \in Seq(S)
         /\ Append(done, Head(got)) \in Seq(S) /\ Append(done, Head(got)) # <<>>
         /\ Append(done, Head(got)) \o Tail(got) = done \o got
         /\ \A o : Named(o, got) => Named(o, Append(done, Head(got))) \/ Named(o, Tail(got))
<1>1. /\ Head(got) \in S /\ Head(got) = got[1] /\ Tail(got) \in Seq(S)
      /\ Len(Tail(got)) = Len(got) - 1 /\ Len(got) \in Nat \ {0}
      /\ \A k \in 1 .. Len(Tail(got)) : Tail(got)[k] = got[k + 1]
  BY HeadTailProperties
<1>2. <<Head(got)>> \in Seq(S) /\ Append(done, Head(got)) = done \o <<Head(got)>>
  BY <1>1, AppendIsConcat
<1>3. /\ Append(done, Head(got)) \in Seq(S) /\ Len(Append(done, Head(got))) = Len(done) + 1
      /\ Len(done) \in Nat
  BY <1>1, AppendProperties
<1>4. Append(done, Head(got)) # <<>>
  <2>1. Len(<<>>) = 0 /\ Len(done) + 1 # 0
    BY <1>3
  <2> QED BY <1>3, <2>1, Zenon
<1>5. got = <<Head(got)>> \o Tail(got)
  <2> DEFINE one == <<Head(got)>>
             both == one \o Tail(got)
  <2>1. one \in Seq(S) /\ Len(one) = 1 /\ one[1] = got[1]
    BY <1>1
  <2> HIDE DEF one
  <2>2. /\ both \in Seq(S) /\ Len(both) = 1 + Len(Tail(got))
        /\ \A k \in 1 .. 1 + Len(Tail(got)) : both[k] = IF k <= 1 THEN one[k] ELSE Tail(got)[k - 1]
    <3>1. /\ both \in Seq(S) /\ Len(both) = Len(one) + Len(Tail(got))
          /\ \A k \in 1 .. Len(one) + Len(Tail(got)) :
               both[k] = IF k <= Len(one) THEN one[k] ELSE Tail(got)[k - Len(one)]
      BY <1>1, <2>1, ConcatProperties, Zenon
    <3> HIDE DEF both
    <3> QED BY <2>1, <3>1
  <2> HIDE DEF both
  <2>3. Len(both) = Len(got)
    BY <1>1, <2>2
  <2>4. \A k \in 1 .. Len(got) : both[k] = got[k]
    <3> TAKE k \in 1 .. Len(got)
    <3>1. k \in 1 .. 1 + Len(Tail(got)) /\ (k <= 1 => k = 1)
      BY <1>1
    <3>2. ~(k <= 1) => k - 1 \in 1 .. Len(Tail(got)) /\ (k - 1) + 1 = k
      BY <1>1
    <3> QED BY <1>1, <2>1, <2>2, <3>1, <3>2
  <2>5. both = got
    BY <2>2, <2>3, <2>4, SeqEqual
  <2> QED BY <2>5 DEF both, one
<1>6. Append(done, Head(got)) \o Tail(got) = done \o got
  <2>1. (done \o <<Head(got)>>) \o Tail(got) = done \o (<<Head(got)>> \o Tail(got))
    BY <1>1, <1>2, ConcatAssociative
  <2> QED BY <1>2, <1>5, <2>1, Zenon
<1>7. ASSUME NEW o, Named(o, got)
      PROVE  Named(o, Append(done, Head(got))) \/ Named(o, Tail(got))
  <2>1. PICK k \in 1 .. Len(got) : got[k].id = o
    BY <1>7 DEF Named
  <2>2. CASE k = 1
    <3>1. Named(Head(got).id, Append(done, Head(got)))
      BY <1>1, NamedOneMore
    <3> QED BY <1>1, <2>1, <2>2, <3>1
  <2>3. CASE k # 1
    <3>1. k - 1 \in 1 .. Len(Tail(got)) /\ (k - 1) + 1 = k
      BY <1>1, <2>3
    <3> QED BY <1>1, <2>1, <3>1 DEF Named
  <2> QED BY <2>2, <2>3
<1> QED
  BY <1>1, <1>3, <1>4, <1>6, <1>7

LEMMA ListEntityAgrees ==
  ASSUME WInv, AInv, ListEntity
  PROVE  AInv'
<1>1. /\ Len(stack) = 1 /\ Over(Top) /\ pass = "entities" /\ Top.got # <<>>
      /\ lists' = [lists EXCEPT !.entities = @ \o WithAttribs(Head(Top.got))]
      /\ stack' = <<[Top EXCEPT !.got = Tail(@)]>>
      /\ d' = d /\ iterator' = iterator /\ pass' = pass /\ warned' = warned
  BY DEF ListEntity, BlockIsWalked
<1>2. PICK b \in WalkType : Top = b /\ stack[1] = b /\ BlockWalkOK(b)
  BY <1>1, BlocksWalk
<1>3. BlockOK(b) /\ (Straight => PlacesOK(iterator, 0, 0))
  BY <1>1, <1>2 DEF AInv
<1>4. PICK done \in Seq(Made) : PassOK(done)
  BY DEF AInv
<1>5. b.got \in Seq(Made) /\ b.got # <<>> /\ Over(b) /\ Made \subseteq OfBlock
  BY <1>1, <1>2, <1>3 DEF BlockOK, Made
<1>6. PICK e \in Made, rest \in Seq(Made), more \in Seq(Made) :
         /\ e = Head(b.got) /\ rest = Tail(b.got) /\ more = Append(done, e)
         /\ more # <<>> /\ more \o rest = done \o b.got
         /\ \A o : Named(o, b.got) => Named(o, more) \/ Named(o, rest)
  <2>1. PICK e, rest, more : e = Head(b.got) /\ rest = Tail(b.got) /\ more = Append(done, e)
    OBVIOUS
  <2>2. /\ e \in Made /\ rest \in Seq(Made) /\ more \in Seq(Made)
        /\ more # <<>> /\ more \o rest = done \o b.got
        /\ \A o : Named(o, b.got) => Named(o, more) \/ Named(o, rest)
    <3>1. /\ Head(b.got) \in Made /\ Tail(b.got) \in Seq(Made)
          /\ Append(done, Head(b.got)) \in Seq(Made) /\ Append(done, Head(b.got)) # <<>>
          /\ Append(done, Head(b.got)) \o Tail(b.got) = done \o b.got
          /\ \A o : Named(o, b.got) => Named(o, Append(done, Head(b.got))) \/ Named(o, Tail(b.got))
      BY <1>5, HeadThenTail, Zenon
    <3> QED BY <2>1, <3>1
  <2> QED BY <2>1, <2>2, Zenon
<1>7. PICK a : a = [b EXCEPT !.got = rest]
  OBVIOUS
<1>8. /\ a.loop = b.loop /\ a.of = b.of /\ a.at = b.at /\ a.steps = b.steps
      /\ a.depth = b.depth /\ a.got = rest
  BY <1>7 DEF WalkType
<1>9. stack' = <<a>> /\ Len(stack') = 1 /\ stack'[1] = a
  BY <1>1, <1>2, <1>6, <1>7
<1>10. BlockOK(a) /\ Over(a)
  <2>1. Over(a)
    BY <1>2, <1>5, <1>8 DEF Over, BlockWalkOK, BlockLoops
  <2> QED BY <1>3, <1>8, <2>1 DEF BlockOK
<1>11. CameTo(Ids(done \o b.got))
  <2>1. CASE done = <<>>
    <3>1. OnBlocksWay(ById(b, b.got))
      BY <1>1, <1>2, <1>4, <2>1 DEF PassOK
    <3>2. CameTo(Ids(b.got))
      BY <1>2, <1>3, <1>5, <3>1, EndsByNumber DEF CameTo
    <3>3. done \o b.got = b.got
      BY <1>5, <2>1, ConcatEmptySeq
    <3> QED BY <3>2, <3>3
  <2>2. CASE done # <<>>
    BY <1>1, <1>2, <1>4, <2>2 DEF PassOK
  <2> QED BY <2>1, <2>2
<1>12. lists'.entities = AllWithAttribs(more)
  <2>1. lists.entities = AllWithAttribs(done)
    BY <1>4 DEF PassOK
  <2>2. done \in Seq(OfBlock) /\ e \in OfBlock
    BY <1>5, SeqMonotonic, Zenon
  <2>3. AllWithAttribs(more) = AllWithAttribs(done) \o WithAttribs(e)
    BY <1>6, <2>2, OneMoreWithAttribs
  <2>4. lists' = [lists EXCEPT !.entities = lists.entities \o WithAttribs(e)]
    BY <1>1, <1>2, <1>6
  <2>5. lists \in [entities : Seq(Reported), record : Seq(Reported)]
    BY DEF WInv
  <2>6. \A x : [lists EXCEPT !.entities = x].entities = x
    BY <2>5
  <2> QED BY <2>1, <2>3, <2>4, <2>6, Zenon
<1>13. ASSUME NEW o \in warned PROVE Named(o, more) \/ Named(o, rest)
  <2>1. Named(o, done) \/ Named(o, b.got)
    BY <1>2, <1>4 DEF PassOK
  <2>2. Named(o, done) => Named(o, more)
    BY <1>6, NamedOneMore
  <2> QED BY <1>6, <2>1, <2>2
<1>14. PassOK(more)'
  <2>1. (lists.entities = AllWithAttribs(more))'
    BY <1>1, <1>12, PassesStay
  <2>2. (Len(stack) = 1 /\ Over(stack[1]))'
    <3>1. Over(a)'
      BY <1>1, <1>10, TurnsStay
    <3> QED BY <1>9, <3>1 DEF Over
  <2>3. CameTo(Ids(more \o stack[1].got))'
    <3>1. Ids(more \o stack[1].got)' = Ids(more \o rest)
      BY <1>8, <1>9 DEF Ids
    <3>2. CameTo(Ids(more \o rest))
      BY <1>6, <1>11
    <3> QED BY <1>1, <3>1, <3>2, PassesStay
  <2>4. \A o \in warned' : Named(o, more)' \/ Named(o, stack[1].got)'
    BY <1>1, <1>8, <1>9, <1>13 DEF Named
  <2>5. pass' = "entities"
    BY <1>1
  <2> QED BY <1>6, <2>1, <2>2, <2>3, <2>4, <2>5 DEF PassOK
<1> QED
  BY <1>1, <1>3, <1>6, <1>9, <1>10, <1>14, OneLeft
LEMMA BlockBegins ==
  /\ BlockOK(BlockWalk) /\ BlockWalk.got = <<>>
  /\ OnBlocksWay(ById(BlockWalk, BlockWalk.got))
<1>1. Ids(<<>>) = <<>>
  <2>1. Len(<<>>) = 0 /\ 1 .. 0 = {}
    OBVIOUS
  <2> QED BY <2>1 DEF Ids
<1>2. PICK w : w = BlockWalk
  OBVIOUS
<1>3. /\ w.of = 0 /\ w.depth = 0 /\ w.got = <<>>
      /\ [w EXCEPT !.got = <<>>] = w
  <2>1. \E loop, at, steps : w = Walk(loop, 0, at, steps, 0)
    BY <1>2 DEF BlockWalk
  <2>2. PICK loop, at, steps : w = Walk(loop, 0, at, steps, 0)
    BY <2>1
  <2> QED BY <2>2 DEF Walk
<1>4. ById(w, w.got) = w
  BY <1>1, <1>3 DEF ById
<1>5. OnBlocksWay(w)
  BY <1>2, RunBegins DEF OnBlocksWay
<1> QED
  BY <1>2, <1>3, <1>4, <1>5 DEF BlockOK

LEMMA NextPassAgrees ==
  ASSUME WInv, AInv, NextPass
  PROVE  AInv'
<1>1. /\ Len(stack) = 1 /\ Over(Top) /\ pass = "entities" /\ Top.got = <<>>
      /\ pass' = "block record" /\ stack' = <<BlockWalk>>
      /\ d' = d /\ iterator' = iterator /\ lists' = lists /\ warned' = warned
  BY DEF NextPass, BlockIsWalked
<1>2. PICK b \in WalkType : Top = b /\ stack[1] = b /\ BlockWalkOK(b)
  BY <1>1, BlocksWalk
<1>3. BlockOK(b) /\ (Straight => PlacesOK(iterator, 0, 0))
  <2>1. Len(stack) = 1
    BY <1>1
  <2>2. Len(stack) > 0 /\ ~(Len(stack) = 2)
    BY <2>1
  <2>3. BlockOK(stack[1]) /\ (Straight => PlacesOK(iterator, 0, 0))
    BY <2>2, Zenon DEF AInv
  <2> QED BY <1>2, <2>3
<1>4. PICK done \in Seq(Made) : PassOK(done)
  BY DEF AInv
<1>5. CameTo(Ids(done))
  <2>1. CASE done = <<>>
    <3>1. OnBlocksWay(ById(b, b.got))
      BY <1>1, <1>2, <1>4, <2>1 DEF PassOK
    <3>2. CameTo(Ids(b.got))
      BY <1>1, <1>2, <1>3, <3>1, EndsByNumber DEF CameTo
    <3> QED BY <1>1, <1>2, <2>1, <3>2
  <2>2. CASE done # <<>>
    <3>1. CameTo(Ids(done \o <<>>))
      BY <1>1, <1>2, <1>4, <2>2 DEF PassOK
    <3>2. done \o <<>> = done
      BY ConcatEmptySeq
    <3> QED BY <3>1, <3>2
  <2> QED BY <2>1, <2>2
<1>6. PICK a : a = BlockWalk
  OBVIOUS
<1>7. stack' = <<a>> /\ Len(stack') = 1 /\ stack'[1] = a
  BY <1>1, <1>6
<1>8. BlockOK(a) /\ OnBlocksWay(ById(a, a.got))
  BY <1>6, BlockBegins
<1>9. ASSUME NEW o \in warned PROVE Named(o, done)
  <2>1. Named(o, done) \/ Named(o, <<>>)
    BY <1>1, <1>2, <1>4 DEF PassOK
  <2>2. Len(<<>>) = 0 /\ 1 .. 0 = {}
    OBVIOUS
  <2> QED BY <2>1, <2>2 DEF Named
<1>10. PassOK(done)'
  <2>1. (lists.entities = AllWithAttribs(done))'
    BY <1>1, <1>4, PassesStay DEF PassOK
  <2>2. OnBlocksWay(ById(stack[1], stack[1].got))'
    <3>1. ById(stack[1], stack[1].got)' = ById(a, a.got)
      BY <1>7 DEF ById, Ids
    <3> QED BY <1>1, <1>8, <3>1, PassesStay
  <2>3. CameTo(Ids(done))'
    <3>1. Ids(done)' = Ids(done)
      BY DEF Ids
    <3> QED BY <1>1, <1>5, <3>1, PassesStay
  <2>4. \A o \in warned' : Named(o, done)'
    BY <1>1, <1>9 DEF Named
  <2> QED BY <1>1, <2>1, <2>2, <2>3, <2>4 DEF PassOK
<1> QED
  BY <1>1, <1>3, <1>7, <1>8, <1>10, OneLeft

LEMMA NamedByIds ==
  ASSUME NEW es \in Seq(Made), NEW fs \in Seq(Made), Ids(es) = Ids(fs)
  PROVE  /\ \A o : Named(o, es) <=> Named(o, fs)
         /\ Straight => es = fs
<1>1. /\ Len(es) = Len(fs) /\ Len(es) \in Nat
      /\ \A k \in 1 .. Len(es) : es[k].id = fs[k].id /\ es[k] \in Made /\ fs[k] \in Made
  <2>1. Made \subseteq OfBlock
    BY DEF Made
  <2>2. /\ Len(Ids(es)) = Len(es) /\ Len(es) \in Nat /\ \A k \in 1 .. Len(es) : Ids(es)[k] = es[k].id
    BY <2>1, IdsOf
  <2>3. /\ Len(Ids(fs)) = Len(fs) /\ Len(fs) \in Nat /\ \A k \in 1 .. Len(fs) : Ids(fs)[k] = fs[k].id
    BY <2>1, IdsOf
  <2>4. Len(es) = Len(fs)
    BY <2>2, <2>3
  <2>5. \A k \in 1 .. Len(es) : es[k] \in Made /\ fs[k] \in Made
    BY <2>4
  <2> QED BY <2>2, <2>3, <2>4, <2>5
<1>2. \A o : Named(o, es) <=> Named(o, fs)
  BY <1>1 DEF Named
<1>3. ASSUME Straight PROVE es = fs
  <2>1. \A k \in 1 .. Len(es) : es[k] = fs[k]
    BY <1>1, <1>3, MadeAlike
  <2> QED BY <1>1, <2>1, SeqEqual
<1> QED
  BY <1>2, <1>3

LEMMA CollectAgrees ==
  ASSUME WInv, AInv, Collect
  PROVE  AInv'
<1>1. /\ Len(stack) = 1 /\ Over(Top) /\ pass = "block record"
      /\ lists' = [lists EXCEPT !.record = Top.got] /\ pass' = "done" /\ stack' = <<>>
      /\ d' = d /\ iterator' = iterator /\ warned' = warned
  BY DEF Collect, BlockIsWalked
<1>2. PICK b \in WalkType : Top = b /\ stack[1] = b /\ BlockWalkOK(b)
  BY <1>1, BlocksWalk
<1>3. BlockOK(b) /\ (Straight => PlacesOK(iterator, 0, 0))
  <2>1. Len(stack) = 1
    BY <1>1
  <2>2. Len(stack) > 0 /\ ~(Len(stack) = 2)
    BY <2>1
  <2>3. BlockOK(stack[1]) /\ (Straight => PlacesOK(iterator, 0, 0))
    BY <2>2, Zenon DEF AInv
  <2> QED BY <1>2, <2>3
<1>4. PICK done \in Seq(Made) : PassOK(done)
  BY DEF AInv
<1>5. b.got \in Seq(Made)
  BY <1>3 DEF BlockOK
<1>6. Ids(b.got) = Ids(done)
  <2>1. OnBlocksWay(ById(b, b.got)) /\ CameTo(Ids(done))
    BY <1>1, <1>2, <1>4 DEF PassOK
  <2>2. PICK c \in BlockEnds : OnBlocksWay(c) /\ c.got = Ids(done)
    BY <2>1 DEF CameTo
  <2>3. ById(b, b.got) \in BlockEnds /\ ById(b, b.got).got = Ids(b.got)
    BY <1>1, <1>2, <1>3, EndsByNumber
  <2>4. ById(b, b.got) = c
    BY <2>1, <2>2, <2>3, RunsEndAlike DEF OnBlocksWay
  <2> QED BY <2>2, <2>3, <2>4
<1>7. lists'.record = b.got /\ lists'.entities = lists.entities
  <2>1. lists \in [entities : Seq(Reported), record : Seq(Reported)]
    BY DEF WInv
  <2> QED BY <1>1, <1>2, <2>1
<1>8. \A o \in warned : Named(o, done)
  <2>1. \A o : Named(o, b.got) => Named(o, done)
    BY <1>5, <1>6, NamedByIds
  <2> QED BY <1>2, <1>4, <2>1 DEF PassOK
<1>9. PassOK(done)'
  <2>1. (lists.entities = AllWithAttribs(done))'
    BY <1>1, <1>4, <1>7, PassesStay DEF PassOK
  <2>2. (lists.record \in Seq(Made) /\ Ids(lists.record) = Ids(done))'
    <3>1. Ids(lists.record)' = Ids(b.got) /\ Ids(done)' = Ids(done)
      BY <1>7 DEF Ids
    <3>2. Made' = Made
      BY <1>1, SubStays
    <3> QED BY <1>5, <1>6, <1>7, <3>1, <3>2
  <2>3. \A o \in warned' : Named(o, done)'
    BY <1>1, <1>8 DEF Named
  <2> QED BY <1>1, <2>1, <2>2, <2>3 DEF PassOK
<1>10. ~(Len(stack') > 0) /\ ~(Len(stack') = 2)
  <2>1. stack' = <<>>
    BY <1>1
  <2>2. ~(Len(<<>>) > 0) /\ ~(Len(<<>>) = 2)
    OBVIOUS
  <2> QED BY <2>1, <2>2, Zenon
<1>11. Straight' => PlacesOK(iterator, 0, 0)'
  BY <1>1, <1>3, PassesStay, SubStays
<1>12. \E x \in Seq(Made') : PassOK(x)'
  BY <1>1, <1>9, SubStays
<1> QED
  BY <1>10, <1>11, <1>12, Zenon DEF AInv

LEMMA PassesBegin ==
  ASSUME Init
  PROVE  AInv
<1>1. /\ d \in Drawing /\ iterator = [o \in 1 .. Len(d.kind) |-> 0] /\ pass = "entities"
      /\ stack = <<BlockWalk>> /\ lists = [entities |-> <<>>, record |-> <<>>] /\ warned = {}
  BY DEF Init
<1>2. PICK a : a = BlockWalk
  OBVIOUS
<1>3. Len(stack) = 1 /\ stack[1] = a /\ ~(Len(stack) = 2)
  BY <1>1, <1>2
<1>4. BlockOK(a) /\ OnBlocksWay(ById(a, a.got))
  BY <1>2, BlockBegins
<1>5. PlacesOK(iterator, 0, 0)
  BY <1>1 DEF PlacesOK, Object
<1>6. <<>> \in Seq(Made) /\ PassOK(<<>>)
  BY <1>1, <1>3, <1>4, NoneWithAttribs DEF PassOK
<1> QED
  BY <1>3, <1>4, <1>5, <1>6 DEF AInv

-----------------------------------------------------------------------------
LEMMA PassesKeep == Spec => [](WInv /\ AInv)
<1>1. Init => AInv
  BY PassesBegin
<1>2. WInv /\ AInv /\ [Next]_vars => AInv'
  <2> SUFFICES ASSUME WInv, AInv, [Next]_vars PROVE AInv'
    OBVIOUS
  <2>1. CASE Next
    BY <2>1, SkipAgrees, TakeRecordAgrees, ConvertNothingAgrees, ConvertPlainAgrees, EnterAgrees,
       TryStreamAgrees, LeaveAgrees, ListEntityAgrees, NextPassAgrees, CollectAgrees, Zenon DEF Next
  <2>2. CASE UNCHANGED vars
    <3>1. /\ d' = d /\ iterator' = iterator /\ pass' = pass /\ stack' = stack
          /\ lists' = lists /\ warned' = warned
      BY <2>2 DEF vars
    <3>2. PICK done \in Seq(Made) : PassOK(done)
      BY DEF AInv
    <3>3. PassOK(done)'
      <4>1. ById(stack[1], stack[1].got)' = ById(stack[1], stack[1].got) /\ Ids(done)' = Ids(done)
            /\ Ids(done \o stack[1].got)' = Ids(done \o stack[1].got) /\ Ids(lists.record)' = Ids(lists.record)
        BY <3>1 DEF ById, Ids
      <4>2. Over(stack[1])' <=> Over(stack[1])
        BY <3>1, TurnsStay
      <4>3. \A o : (Named(o, done)' <=> Named(o, done)) /\ (Named(o, stack[1].got)' <=> Named(o, stack[1].got))
        BY <3>1 DEF Named
      <4> QED BY <3>1, <3>2, <4>1, <4>2, <4>3, PassesStay, SubStays DEF PassOK
    <3>4. Len(stack) > 0 => BlockOK(stack[1])'
      BY <3>1, PassesStay DEF AInv
    <3>5. Len(stack) = 2 => SubOK(stack[1], stack[2])'
      BY <3>1, PassesStay DEF AInv
    <3>6. Straight' => IF Len(stack) = 2 THEN PlacesOK(iterator, stack[2].of, PlaceOf(stack[2]))'
                                         ELSE PlacesOK(iterator, 0, 0)'
      BY <3>1, PassesStay, SubStays DEF AInv
    <3>7. \E x \in Seq(Made') : PassOK(x)'
      BY <3>1, <3>3, SubStays
    <3> QED BY <3>1, <3>4, <3>5, <3>6, <3>7 DEF AInv
  <2> QED BY <2>1, <2>2
<1> QED
  BY <1>1, <1>2, WalksKeep, PTL DEF Spec

(* For a drawing of any size: both passes give the same entities with the  *)
(* same sub-entities, unless an entity's own list is one that LibreDWG's   *)
(* place is left in the middle of.                                         *)
THEOREM PassesAgreeOverWholeLists == Spec => []PassesAgreeUnlessLeft
<1>1. ASSUME WInv, AInv PROVE PassesAgreeUnlessLeft
  <2> SUFFICES ASSUME Straight, pass = "done"
               PROVE  lists.entities = AllWithAttribs(lists.record)
    BY DEF PassesAgreeUnlessLeft, PassesAgree, Straight
  <2>1. PICK done \in Seq(Made) : PassOK(done)
    BY <1>1 DEF AInv
  <2>2. /\ lists.entities = AllWithAttribs(done)
        /\ lists.record \in Seq(Made) /\ Ids(lists.record) = Ids(done)
    BY <2>1 DEF PassOK
  <2>3. PICK record \in Seq(Made) : record = lists.record
    BY <2>2
  <2>4. record = done
    BY <2>2, <2>3, NamedByIds
  <2> QED BY <2>2, <2>3, <2>4
<1> QED
  BY <1>1, PassesKeep, PTL

(* For a drawing of any size, with whatever links: POLYLINE_VERTICES is    *)
(* reported for just the polylines that are given and whose records end    *)
(* before a SEQEND, by either pass.                                        *)
THEOREM OpenRunsAreWarnedOf == Spec => []OpenRunsAreReported
<1>1. ASSUME WInv PROVE ReportsAreOfOpenRuns /\ NoOpenRunIsMissed
  <2>1. /\ warned \subseteq OpenRuns
        /\ lists \in [entities : Seq(Reported), record : Seq(Reported)]
    BY <1>1 DEF WInv
  <2>2. ReportsAreOfOpenRuns
    BY <2>1 DEF ReportsAreOfOpenRuns, OpenRuns
  <2>3. ASSUME NEW p \in DOMAIN lists, NEW e \in Range(lists[p]), IsOpenRun(e.id)
        PROVE  e.id \in warned
    <3>1. lists[p] \in Seq(Reported)
      BY <2>1
    <3>2. e \in Reported
      BY <3>1, RangeOfEntities
    <3>3. e.id \in Object
      BY <3>2, PlainAreEntities DEF Entities
    <3> QED BY <2>3, <3>2, <3>3 DEF Reported, OpenRuns
  <2> QED BY <2>2, <2>3 DEF NoOpenRunIsMissed
<1>2. ASSUME AInv, pass = "done", NEW o \in warned
      PROVE  o \in {e.id : e \in Range(lists.record)}
  <2>1. PICK done \in Seq(Made) : PassOK(done)
    BY <1>2 DEF AInv
  <2>2. Named(o, done) /\ lists.record \in Seq(Made) /\ Ids(lists.record) = Ids(done)
    BY <1>2, <2>1 DEF PassOK
  <2>3. Named(o, lists.record)
    BY <2>2, NamedByIds
  <2>4. PICK k \in 1 .. Len(lists.record) : lists.record[k].id = o
    BY <2>3 DEF Named
  <2>5. lists.record[k] \in Range(lists.record)
    BY <2>2, <2>4 DEF Range
  <2> QED BY <2>4, <2>5
<1>3. WInv /\ AInv => OpenRunsAreReported
  BY <1>1, <1>2 DEF OpenRunsAreReported
<1> QED
  BY <1>3, PassesKeep, PTL

-----------------------------------------------------------------------------
(* From here on the links of the drawing are as its owners say.            *)

LEMMA LinkTypes ==
  ASSUME d \in Drawing
  PROVE  /\ d.owner \in [Object -> Object \cup {0}] /\ d.kind \in [Object -> Kind]
         /\ \A p \in Object : d.owner[p] \in Nat /\ p \in Nat /\ p # 0
         /\ d.next \in [Object -> Nat] /\ d.firstSub \in [Object -> Nat] /\ d.lastSub \in [Object -> Nat]
         /\ d.first \in Nat /\ d.last \in Nat
         /\ d.entities \in Seq(Nat) /\ \A o \in Object : d.owned[o] \in Seq(Nat)
         /\ \A p \in Object, q \in Nat : q # 0 /\ q <= p => q \in Object
<1>1. IsDrawing(d)
  BY EntityWalksAssumption
<1>2. PICK n \in Nat : n = Len(d.kind) /\ Object = 1 .. n /\ d.kind \in [Object -> Kind]
  BY DrawingType DEF Object
<1>3. /\ d.owner \in [1 .. n -> 0 .. n] /\ d.next \in [1 .. n -> 0 .. n + 1]
      /\ d.firstSub \in [1 .. n -> 0 .. n + 1] /\ d.lastSub \in [1 .. n -> 0 .. n + 1]
      /\ d.first \in 0 .. n + 1 /\ d.last \in 0 .. n + 1
      /\ d.entities \in Seq(0 .. n + 1) /\ d.owned \in [1 .. n -> Seq(0 .. n + 1)]
  BY <1>1, <1>2 DEF IsDrawing
<1>4. \A s \in Seq(0 .. n + 1) : s \in Seq(Nat)
  <2>1. 0 .. n + 1 \subseteq Nat
    OBVIOUS
  <2> QED BY <2>1, SeqMonotonic, Zenon
<1>5. 0 .. n = 1 .. n \cup {0} /\ 0 .. n + 1 \subseteq Nat /\ \A p \in 1 .. n : p \in Nat /\ p # 0
  OBVIOUS
<1>6. \A p \in 1 .. n, q \in Nat : q # 0 /\ q <= p => q \in 1 .. n
  OBVIOUS
<1>7. d.owner \in [Object -> Object \cup {0}]
  BY <1>2, <1>3, <1>5
<1>8. \A p \in Object : d.owner[p] \in Nat /\ p \in Nat /\ p # 0
  BY <1>2, <1>5, <1>7
<1>9. d.next \in [Object -> Nat] /\ d.firstSub \in [Object -> Nat] /\ d.lastSub \in [Object -> Nat]
  BY <1>2, <1>3, <1>5
<1>10. d.first \in Nat /\ d.last \in Nat
  BY <1>3, <1>5
<1>11. d.entities \in Seq(Nat) /\ \A o \in Object : d.owned[o] \in Seq(Nat)
  BY <1>2, <1>3, <1>4
<1> QED
  BY <1>2, <1>6, <1>7, <1>8, <1>9, <1>10, <1>11

(* An entity's owner is before it, and is an INSERT or a POLYLINE.         *)
LEMMA OwnersAreBefore ==
  ASSUME d \in Drawing, RunsAreWhole, NEW p \in Object, d.owner[p] # 0
  PROVE  /\ d.owner[p] < p /\ d.owner[p] \in Object
         /\ d.kind[p] \in {"attrib", "seqend", "vertex"}
         /\ d.kind[d.owner[p]] \in {"insert", "polyline"} /\ d.owner[d.owner[p]] = 0
<1>1. ASSUME NEW q \in Object, d.owner[q] # 0
      PROVE  /\ d.owner[q] = q - 1 \/ (q > 1 /\ d.owner[q - 1] = d.owner[q])
             /\ d.kind[d.owner[q]] \in {"insert", "polyline"}
             /\ d.kind[q] \in {"attrib", "seqend", "vertex"}
  BY <1>1 DEF RunsAreWhole
<1>2. \A q \in Object : d.owner[q] # 0 <=> (d.kind[q] \in {"attrib", "seqend", "vertex"})
  BY DEF RunsAreWhole
<1> DEFINE late == {q \in Object : d.owner[q] # 0 /\ ~(d.owner[q] < q)}
<1>3. late = {}
  <2> SUFFICES ASSUME late # {} PROVE FALSE
    OBVIOUS
  <2>1. PICK q \in late : \A r \in late : q <= r
    <3>1. late \subseteq Nat
      BY LinkTypes
    <3> HIDE DEF late
    <3> QED BY <3>1, LeastExists
  <2>2. q \in Object /\ d.owner[q] # 0 /\ ~(d.owner[q] < q) /\ q \in Nat /\ d.owner[q] \in Nat /\ q # 0
    BY LinkTypes
  <2>3. q > 1 /\ d.owner[q - 1] = d.owner[q]
    BY <1>1, <2>2
  <2>4. q - 1 \in Nat /\ q - 1 # 0 /\ q - 1 <= q /\ ~(q <= q - 1)
    BY <2>2, <2>3
  <2>5. q - 1 \in Object
    BY <2>2, <2>4, LinkTypes
  <2>6. q - 1 \notin late
    BY <2>1, <2>4
  <2>7. d.owner[q] < q - 1
    BY <2>2, <2>3, <2>5, <2>6
  <2> QED BY <2>2, <2>7
<1>4. d.owner[p] \in Object
  BY LinkTypes
<1>5. d.kind[p] \in {"attrib", "seqend", "vertex"} /\ d.kind[d.owner[p]] \in {"insert", "polyline"}
  BY <1>1
<1>6. d.owner[d.owner[p]] = 0
  BY <1>2, <1>4, <1>5
<1> QED
  BY <1>3, <1>4, <1>5, <1>6

(* All between an entity and its owner are that owner's.                   *)
LEMMA RunsAreOfOne ==
  ASSUME d \in Drawing, RunsAreWhole, NEW q \in Object, d.owner[q] # 0,
         NEW p \in Nat, d.owner[q] < p, p <= q
  PROVE  /\ p \in Object /\ d.owner[p] = d.owner[q]
         /\ p # q => d.kind[p] # "seqend"
<1> DEFINE o == d.owner[q]
           astray == {k \in Nat : /\ k < q - o
                                  /\ ~(d.owner[q - k] = o /\ (k # 0 => d.kind[q - k] # "seqend"))}
<1>1. q \in Nat /\ o \in Nat /\ o < q /\ o # 0
  BY LinkTypes, OwnersAreBefore
<1>2. \A r \in Object : d.owner[r] # 0 =>
        d.owner[r] = r - 1 \/ (r > 1 /\ d.owner[r - 1] = d.owner[r] /\ d.kind[r - 1] # "seqend")
  BY DEF RunsAreWhole
<1>3. \A k \in Nat : k < q - o => q - k \in Object
  <2>1. \A k \in Nat : k < q - o => q - k \in Nat /\ q - k # 0 /\ q - k <= q
    BY <1>1
  <2> QED BY <2>1, LinkTypes
<1>4. astray = {}
  <2> SUFFICES ASSUME astray # {} PROVE FALSE
    OBVIOUS
  <2>1. PICK k \in astray : \A j \in astray : k <= j
    <3>1. astray \subseteq Nat
      OBVIOUS
    <3> HIDE DEF astray
    <3> QED BY <3>1, LeastExists
  <2>2. k \in Nat /\ k < q - o /\ ~(d.owner[q - k] = o /\ (k # 0 => d.kind[q - k] # "seqend"))
    OBVIOUS
  <2>3. q - 0 = q
    BY <1>1
  <2>4. k # 0
    BY <2>2, <2>3
  <2>5. k - 1 \in Nat /\ k - 1 < q - o /\ ~(k <= k - 1) /\ (q - (k - 1)) - 1 = q - k /\ q - (k - 1) # o + 1
        /\ q - (k - 1) \in Nat /\ (q - (k - 1)) - 1 # o
    BY <1>1, <2>2, <2>4
  <2>6. d.owner[q - (k - 1)] = o
    BY <2>1, <2>5
  <2>7. q - (k - 1) \in Object
    BY <1>3, <2>5
  <2>8. PICK r \in Object : r = q - (k - 1) /\ r - 1 = q - k /\ d.owner[r] = o /\ o # r - 1
    BY <2>5, <2>6, <2>7
  <2>9. d.owner[r - 1] = o /\ d.kind[r - 1] # "seqend"
    BY <1>1, <1>2, <2>8
  <2> QED BY <2>2, <2>8, <2>9
<1>5. q - p \in Nat /\ q - p < q - o /\ q - (q - p) = p /\ (p # q => q - p # 0)
  BY <1>1
<1>6. \A k \in Nat : k < q - o => d.owner[q - k] = o /\ (k # 0 => d.kind[q - k] # "seqend")
  BY <1>4
<1> HIDE DEF astray
<1>7. PICK k \in Nat : k = q - p /\ k < q - o /\ q - k = p /\ (p # q => k # 0)
  BY <1>5
<1> QED
  BY <1>3, <1>6, <1>7

(* What an entity owns follows it in the file without a gap.               *)
LEMMA SubsAreARun ==
  ASSUME d \in Drawing, RunsAreWhole, NEW o \in Object, NEW q \in Subs(o)
  PROVE  /\ o < q /\ q \in Object /\ d.owner[q] = o /\ d.kind[q] \in {"attrib", "vertex"}
         /\ d.kind[o] = IF d.kind[q] = "attrib" THEN "insert" ELSE "polyline"
         /\ q <= o + MaxOwned
         /\ \A p \in Nat : o < p /\ p <= q => p \in Subs(o)
<1>1. /\ q \in Object /\ d.owner[q] = o /\ d.kind[q] # "seqend" /\ o # 0
      /\ q \in Nat /\ o \in Nat
  BY LinkTypes DEF Subs, OwnedBy
<1>2. o < q /\ d.kind[q] \in {"attrib", "vertex"}
  BY <1>1, OwnersAreBefore
<1>3. /\ \/ d.kind[o] = "insert" /\ d.kind[q] \in {"attrib", "seqend"}
         \/ d.kind[o] = "polyline" /\ d.kind[q] \in {"vertex", "seqend"}
      /\ q <= o + MaxOwned
  BY <1>1 DEF RunsAreWhole
<1>4. ASSUME NEW p \in Nat, o < p, p <= q PROVE p \in Subs(o)
  <2>1. p \in Object /\ d.owner[p] = o /\ (p # q => d.kind[p] # "seqend")
    BY <1>1, <1>4, RunsAreOfOne
  <2>2. d.kind[p] \in {"attrib", "seqend", "vertex"}
    BY <1>1, <2>1, OwnersAreBefore
  <2> QED BY <1>1, <2>1, <2>2 DEF Subs, OwnedBy
<1> QED
  BY <1>1, <1>2, <1>3, <1>4

(* Behind what an entity owns, an attribute or a vertex is also its.       *)
LEMMA RunsGoOn ==
  ASSUME d \in Drawing, RunsAreWhole, NEW o \in Object, d.owner[o] = 0,
         NEW p \in Object, d.kind[p] \in {"attrib", "vertex"}, p - 1 = o \/ p - 1 \in Subs(o)
  PROVE  p \in Subs(o)
<1>1. d.owner[p] # 0 /\ (d.owner[p] = p - 1 \/ d.owner[p - 1] = d.owner[p])
  BY DEF RunsAreWhole
<1>2. CASE p - 1 = o
  <2>1. d.owner[p] = o
    BY <1>1, <1>2
  <2> QED BY <2>1 DEF Subs, OwnedBy
<1>3. CASE p - 1 \in Subs(o)
  <2>1. p - 1 \in Object /\ d.owner[p - 1] = o /\ o # 0
    BY <1>3, LinkTypes DEF Subs, OwnedBy
  <2>2. d.kind[p - 1] \in {"attrib", "seqend", "vertex"}
    <3>1. PICK r \in Object : r = p - 1 /\ d.owner[r] # 0
      BY <2>1
    <3> QED BY <3>1, OwnersAreBefore
  <2>3. d.owner[p] # p - 1
    <3>1. d.kind[d.owner[p]] \in {"insert", "polyline"}
      BY <1>1, OwnersAreBefore
    <3> QED BY <2>2, <3>1
  <2>4. d.owner[p] = o
    BY <1>1, <2>1, <2>3
  <2> QED BY <2>4 DEF Subs, OwnedBy
<1> QED
  BY <1>2, <1>3

LEMMA NothingBehindARun ==
  ASSUME d \in Drawing, RunsAreWhole, NEW o \in Object, NEW p \in Nat, o < p, p \notin Subs(o)
  PROVE  \A q \in Subs(o) : q < p
<1> SUFFICES ASSUME NEW q \in Subs(o), ~(q < p) PROVE FALSE
  OBVIOUS
<1>1. q \in Nat
  BY SubsAreARun, LinkTypes
<1>2. p <= q
  BY <1>1
<1> QED
  BY <1>2, SubsAreARun

(* A list of what an entity owns is the run by its places.                 *)
LEMMA ListsOfRuns ==
  ASSUME d \in Drawing, RunsAreWhole, NEW o \in Object, NEW refs \in Seq(Nat), InOrder(refs, Subs(o))
  PROVE  /\ \A i \in 1 .. Len(refs) : refs[i] = o + i /\ refs[i] \in Subs(o)
         /\ \A i \in Nat : i # 0 /\ o + i \in Subs(o) => i <= Len(refs)
<1>1. /\ Len(refs) \in Nat /\ DOMAIN refs = 1 .. Len(refs) /\ o \in Nat
      /\ \A i \in 1 .. Len(refs) : refs[i] \in Nat
  BY LinkTypes
<1>2. /\ \A i \in 1 .. Len(refs) : refs[i] \in Subs(o)
      /\ \A q \in Subs(o) : \E i \in 1 .. Len(refs) : refs[i] = q
      /\ \A i, j \in 1 .. Len(refs) : i < j => refs[i] < refs[j]
  BY <1>1 DEF InOrder
<1> DEFINE off == {i \in Nat : i \in 1 .. Len(refs) /\ refs[i] # o + i}
<1>3. off = {}
  <2> SUFFICES ASSUME off # {} PROVE FALSE
    OBVIOUS
  <2>1. PICK i \in off : \A j \in off : i <= j
    <3>1. off \subseteq Nat
      OBVIOUS
    <3> HIDE DEF off
    <3> QED BY <3>1, LeastExists
  <2>2. i \in Nat /\ i \in 1 .. Len(refs) /\ refs[i] # o + i /\ refs[i] \in Nat
    BY <1>1
  <2>3. refs[i] \in Subs(o) /\ refs[i] > o
    BY <1>2, <2>2, SubsAreARun
  <2>4. \A j \in 1 .. Len(refs) : j < i => refs[j] = o + j
    <3> TAKE j \in 1 .. Len(refs)
    <3>1. j \in Nat /\ (j < i => ~(i <= j))
      BY <1>1, <2>2
    <3> QED BY <2>1, <3>1
  <2>5. refs[i] >= o + i
    <3>1. CASE i = 1
      BY <1>1, <2>2, <2>3, <3>1
    <3>2. CASE i # 1
      <4>1. i - 1 \in 1 .. Len(refs) /\ i - 1 < i
        BY <1>1, <2>2, <3>2
      <4>2. refs[i - 1] = o + (i - 1) /\ refs[i - 1] < refs[i]
        BY <1>2, <2>2, <2>4, <4>1
      <4> QED BY <1>1, <2>2, <4>2
    <3> QED BY <3>1, <3>2
  <2>6. o + i \in Nat /\ o < o + i /\ o + i <= refs[i]
    BY <1>1, <2>2, <2>5
  <2>7. o + i \in Subs(o)
    BY <2>3, <2>6, SubsAreARun
  <2>8. PICK j \in 1 .. Len(refs) : refs[j] = o + i
    BY <1>2, <2>7
  <2>9. j \in Nat /\ j # i /\ (j < i \/ i < j)
    BY <1>1, <2>2, <2>8
  <2>10. ~(j < i)
    <3>1. j < i => o + j = o + i
      BY <2>4, <2>8
    <3> QED BY <1>1, <2>2, <2>9, <3>1
  <2>11. ~(i < j)
    <3>1. i < j => refs[i] < o + i
      BY <1>2, <2>2, <2>8
    <3> QED BY <1>1, <2>2, <2>5, <3>1
  <2> QED BY <2>9, <2>10, <2>11
<1>4. \A i \in 1 .. Len(refs) : refs[i] = o + i
  BY <1>1, <1>3
<1>5. ASSUME NEW i \in Nat, o + i \in Subs(o), i # 0 PROVE i <= Len(refs)
  <2>1. PICK j \in 1 .. Len(refs) : refs[j] = o + i
    BY <1>2, <1>5
  <2>2. j \in Nat /\ o + j = o + i
    BY <1>1, <1>4, <2>1
  <2> QED BY <1>1, <2>1, <2>2
<1> QED
  BY <1>2, <1>4, <1>5

(* And its ends are the run's.                                             *)
LEMMA EndsOfRuns ==
  ASSUME d \in Drawing, RunsAreWhole, NEW o \in Object,
         NEW first \in Nat, NEW last \in Nat, AreEnds(first, last, Subs(o))
  PROVE  /\ Resolve(first) = IF o + 1 \in Subs(o) THEN o + 1 ELSE 0
         /\ Resolve(last) = last
         /\ \A p \in Subs(o) : p + 1 \in Subs(o) <=> p # last
         /\ last = 0 <=> Subs(o) = {}
<1>1. o \in Nat /\ 0 \notin Object /\ Subs(o) \subseteq Object /\ \A p \in Object : p \in Nat
  BY LinkTypes DEF Subs, OwnedBy
<1>2. CASE Subs(o) = {}
  BY <1>1, <1>2 DEF AreEnds, Resolve
<1>3. CASE Subs(o) # {}
  <2>1. first \in Subs(o) /\ last \in Subs(o) /\ \A p \in Subs(o) : first <= p /\ p <= last
    BY <1>3 DEF AreEnds
  <2>2. o < first /\ o < o + 1 /\ o + 1 \in Nat
    BY <1>1, <2>1, SubsAreARun
  <2>3. o + 1 <= first
    BY <1>1, <2>2
  <2>4. o + 1 \in Subs(o)
    BY <2>1, <2>2, <2>3, SubsAreARun
  <2>5. first = o + 1
    <3>1. first <= o + 1
      BY <2>1, <2>4
    <3> QED BY <1>1, <2>3, <3>1
  <2>6. Resolve(first) = first /\ Resolve(last) = last /\ last # 0
    BY <1>1, <2>1 DEF Resolve
  <2>7. ASSUME NEW p \in Subs(o) PROVE p + 1 \in Subs(o) <=> p # last
    <3>1. p \in Nat /\ o < p /\ p <= last
      BY <1>1, <2>1, SubsAreARun
    <3>2. p + 1 \in Nat /\ o < p + 1 /\ (p # last => p + 1 <= last) /\ ~(p + 1 <= p)
      BY <1>1, <3>1
    <3>3. p # last => p + 1 \in Subs(o)
      BY <2>1, <3>2, SubsAreARun
    <3>4. p = last => p + 1 \notin Subs(o)
      BY <2>1, <3>2
    <3> QED BY <3>3, <3>4
  <2> QED BY <1>3, <2>4, <2>5, <2>6, <2>7
<1> QED
  BY <1>2, <1>3

(* Lists in file order.                                                    *)
LEMMA NoneInOrder ==
  /\ InOrder(<<>>, {}) /\ Ids(<<>>) = <<>>
  /\ \A refs \in Seq(Nat) : InOrder(refs, {}) => Len(refs) = 0
<1>1. DOMAIN <<>> = {} /\ Len(<<>>) = 0 /\ 1 .. 0 = {}
  OBVIOUS
<1>2. InOrder(<<>>, {}) /\ Ids(<<>>) = <<>>
  BY <1>1 DEF InOrder, Ids
<1>3. ASSUME NEW refs \in Seq(Nat), InOrder(refs, {}) PROVE Len(refs) = 0
  <2>1. Len(refs) \in Nat /\ DOMAIN refs = 1 .. Len(refs)
    OBVIOUS
  <2>2. \A n \in Nat : n # 0 => 1 \in 1 .. n
    OBVIOUS
  <2>3. 1 \notin DOMAIN refs
    BY <1>3 DEF InOrder
  <2> QED BY <2>1, <2>2, <2>3
<1> QED
  BY <1>2, <1>3

LEMMA OneMoreInOrder ==
  ASSUME NEW refs \in Seq(Nat), NEW S, InOrder(refs, S), NEW p \in Nat, \A q \in S : q < p
  PROVE  InOrder(Append(refs, p), S \cup {p})
<1> DEFINE more == Append(refs, p)
<1>1. /\ Len(refs) \in Nat /\ DOMAIN refs = 1 .. Len(refs)
      /\ DOMAIN more = 1 .. Len(refs) + 1
      /\ \A i \in 1 .. Len(refs) : more[i] = refs[i]
      /\ more[Len(refs) + 1] = p
  <2>1. more \in Seq(Nat) /\ Len(more) = Len(refs) + 1
    BY AppendProperties
  <2> QED BY <2>1, AppendProperties
<1>2. /\ \A i \in 1 .. Len(refs) : refs[i] \in S
      /\ \A q \in S : \E i \in 1 .. Len(refs) : refs[i] = q
      /\ \A i, j \in 1 .. Len(refs) : i < j => refs[i] < refs[j]
  BY <1>1 DEF InOrder
<1> HIDE DEF more
<1>3. PICK n \in Nat : n = Len(refs)
  BY <1>1
<1>4. \A i \in 1 .. n + 1 : i \in 1 .. n \/ i = n + 1
  OBVIOUS
<1>5. \A i \in 1 .. n : i \in 1 .. n + 1
  OBVIOUS
<1>6. n + 1 \in 1 .. n + 1
  OBVIOUS
<1>7. {more[i] : i \in DOMAIN more} = S \cup {p}
  <2>1. \A i \in 1 .. n + 1 : more[i] \in S \cup {p}
    BY <1>1, <1>2, <1>3, <1>4
  <2>2. \A q \in S \cup {p} : \E i \in 1 .. n + 1 : more[i] = q
    BY <1>1, <1>2, <1>3, <1>5, <1>6
  <2> QED BY <1>1, <1>3, <2>1, <2>2
<1>8. ASSUME NEW i \in 1 .. n + 1, NEW j \in 1 .. n + 1, i < j PROVE more[i] < more[j]
  <2>1. i \in 1 .. n
    BY <1>8
  <2>2. more[i] = refs[i] /\ refs[i] \in S
    BY <1>1, <1>2, <1>3, <2>1
  <2>3. CASE j = n + 1
    BY <1>1, <1>3, <2>2, <2>3
  <2>4. CASE j # n + 1
    <3>1. j \in 1 .. n
      BY <1>4, <2>4
    <3>2. more[j] = refs[j] /\ refs[i] < refs[j]
      BY <1>1, <1>2, <1>3, <1>8, <2>1, <3>1
    <3> QED BY <2>2, <3>2
  <2> QED BY <2>3, <2>4
<1>9. InOrder(more, S \cup {p})
  BY <1>1, <1>3, <1>7, <1>8 DEF InOrder
<1> QED
  BY <1>9 DEF more

(* One entity more, behind all there are.                                  *)
LEMMA OneMoreEntity ==
  ASSUME NEW es \in Seq(Entities), NEW S, InOrder(Ids(es), S), NEW e \in Entities,
         d \in Drawing, \A q \in S : q < e.id
  PROVE  InOrder(Ids(es \o <<e>>), S \cup {e.id})
<1>1. \A x \in Entities : x.id \in Object
  BY DEF Entities
<1>2. Object \subseteq Nat
  BY DrawingType
<1>3. Ids(es) \in Seq(Nat) /\ e.id \in Nat
  <2>1. Ids(es) \in Seq(Object)
    BY <1>1, NumbersOf
  <2> QED BY <1>1, <1>2, <2>1, SeqMonotonic, Zenon
<1>4. es \o <<e>> = Append(es, e) /\ Ids(Append(es, e)) = Append(Ids(es), e.id)
  BY <1>1, NumbersOf, AppendIsConcat, Zenon
<1> QED
  BY <1>3, <1>4, OneMoreInOrder

(* Among records that are all taken, all are.                              *)
LEMMA AllAmong ==
  ASSUME NEW S, NEW g \in Seq(S), NEW objects, \A k \in 1 .. Len(g) : g[k].id \in objects
  PROVE  Among(g, objects) = g
<1> DEFINE ss == [k \in 1 .. Len(g) |-> IF g[k].id \in objects THEN <<g[k]>> ELSE <<>>]
<1>1. PICK n \in Nat : n = Len(g) /\ \A k \in 1 .. n : g[k] \in S
  OBVIOUS
<1>2. Len(ss) = n /\ \A k \in 1 .. n : ss[k] = <<g[k]>>
  BY <1>1
<1>3. Among(g, objects) = FlattenSeq(ss)
  BY DEF Among
<1> HIDE DEF ss
<1>4. CASE n = 0
  <2>1. FlattenSeq(ss) = <<>>
    BY <1>2, <1>4 DEF FlattenSeq
  <2>2. g = <<>>
    BY <1>1, <1>4, EmptySeq
  <2> QED BY <1>3, <2>1, <2>2
<1>5. CASE n # 0
  <2>1. PICK f : /\ f = [k \in 1 .. n |-> IF k = 1 THEN ss[k] ELSE f[k - 1] \o ss[k]]
                 /\ FlattenSeq(ss) = f[n]
    <3>1. Len(ss) \in Nat /\ Len(ss) # 0
      BY <1>2, <1>5
    <3>2. \E f : /\ f = [k \in 1 .. Len(ss) |-> IF k = 1 THEN ss[k] ELSE f[k - 1] \o ss[k]]
                 /\ FlattenSeq(ss) = f[Len(ss)]
      BY <3>1, FlattenExists
    <3> QED BY <1>2, <3>2
  <2>2. \A k \in 1 .. n : f[k] = IF k = 1 THEN <<g[k]>> ELSE f[k - 1] \o <<g[k]>>
    BY <1>2, <2>1
  <2>3. \A k \in 1 .. n : SubSeq(g, 1, k) \in Seq(S) /\ Len(SubSeq(g, 1, k)) = k
                          /\ \A i \in 1 .. k : SubSeq(g, 1, k)[i] = g[i]
    <3> TAKE k \in 1 .. n
    <3>1. \A i \in 1 .. k : i \in 1 .. n
      OBVIOUS
    <3>2. \A i \in 1 .. k : g[i] \in S
      BY <1>1, <3>1
    <3> QED BY <1>1, <3>2, SubSeqProperties
  <2> DEFINE off == {k \in Nat : k \in 1 .. n /\ f[k] # SubSeq(g, 1, k)}
  <2>4. off = {}
    <3> SUFFICES ASSUME off # {} PROVE FALSE
      OBVIOUS
    <3>1. PICK k \in off : \A j \in off : k <= j
      <4>1. off \subseteq Nat
        OBVIOUS
      <4> HIDE DEF off
      <4> QED BY <4>1, LeastExists
    <3>2. k \in 1 .. n /\ f[k] # SubSeq(g, 1, k) /\ k \in Nat
      OBVIOUS
    <3>3. g[k] \in S
      BY <1>1, <3>2
    <3>4. CASE k = 1
      <4>1. f[k] = <<g[k]>>
        BY <2>2, <3>2, <3>4
      <4>2. <<g[k]>> \in Seq(S) /\ Len(<<g[k]>>) = 1 /\ <<g[k]>>[1] = g[1]
        BY <3>3, <3>4
      <4>3. SubSeq(g, 1, k) \in Seq(S) /\ Len(SubSeq(g, 1, k)) = 1 /\ SubSeq(g, 1, k)[1] = g[1]
        BY <2>3, <3>2, <3>4
      <4>4. \A s, t \in Seq(S) : Len(s) = 1 /\ Len(t) = 1 /\ s[1] = t[1] => s = t
        BY SeqEqual
      <4> QED BY <3>2, <4>1, <4>2, <4>3, <4>4, Zenon
    <3>5. CASE k # 1
      <4>1. k - 1 \in 1 .. n /\ k - 1 \in Nat /\ ~(k <= k - 1) /\ (k - 1) + 1 = k
        BY <3>2, <3>5
      <4>2. f[k - 1] = SubSeq(g, 1, k - 1)
        BY <3>1, <4>1
      <4> DEFINE front == SubSeq(g, 1, k - 1)
                 one == <<g[k]>>
      <4>3. front \in Seq(S) /\ Len(front) = k - 1 /\ \A i \in 1 .. k - 1 : front[i] = g[i]
        BY <2>3, <4>1
      <4>4. one \in Seq(S) /\ Len(one) = 1 /\ one[1] = g[k]
        BY <3>3
      <4>5. f[k] = front \o one
        BY <2>2, <3>2, <3>5, <4>2
      <4> HIDE DEF front, one
      <4>6. /\ front \o one \in Seq(S) /\ Len(front \o one) = k
            /\ \A i \in 1 .. k : (front \o one)[i] = g[i]
        <5>1. front \o one \in Seq(S) /\ Len(front \o one) = Len(front) + Len(one)
          BY <4>3, <4>4, ConcatProperties, Zenon
        <5>2. \A i \in 1 .. Len(front) + Len(one) :
                (front \o one)[i] = IF i <= Len(front) THEN front[i] ELSE one[i - Len(front)]
          BY <4>3, <4>4, ConcatProperties
        <5>3. Len(front) + Len(one) = k
          BY <3>2, <4>3, <4>4
        <5>4. ASSUME NEW i \in 1 .. k PROVE (front \o one)[i] = g[i]
          <6>1. i <= k - 1 => i \in 1 .. k - 1
            BY <3>2
          <6>2. ~(i <= k - 1) => i = k /\ i - (k - 1) = 1
            BY <3>2
          <6>3. (front \o one)[i] = IF i <= k - 1 THEN front[i] ELSE one[i - (k - 1)]
            BY <4>3, <5>2, <5>3
          <6> QED BY <4>3, <4>4, <6>1, <6>2, <6>3
        <5> QED BY <5>1, <5>3, <5>4
      <4>7. SubSeq(g, 1, k) \in Seq(S) /\ Len(SubSeq(g, 1, k)) = k
            /\ \A i \in 1 .. k : SubSeq(g, 1, k)[i] = g[i]
        BY <2>3, <3>2
      <4>8. \A s, t \in Seq(S) : Len(s) = k /\ Len(t) = k /\ (\A i \in 1 .. k : s[i] = t[i]) => s = t
        BY SeqEqual
      <4>9. front \o one = SubSeq(g, 1, k)
        <5> DEFINE joined == front \o one
                   whole == SubSeq(g, 1, k)
        <5>1. joined \in Seq(S) /\ Len(joined) = k /\ whole \in Seq(S) /\ Len(whole) = k
          BY <4>6, <4>7
        <5>2. \A i \in 1 .. k : joined[i] = whole[i]
          BY <4>6, <4>7
        <5> HIDE DEF joined, whole
        <5>3. joined = whole
          BY <4>8, <5>1, <5>2, Zenon
        <5> QED BY <5>3 DEF joined, whole
      <4> QED BY <3>2, <4>5, <4>9
    <3> QED BY <3>4, <3>5
  <2>5. n \in 1 .. n
    BY <1>5
  <2>6. f[n] = SubSeq(g, 1, n)
    BY <2>4, <2>5
  <2>7. SubSeq(g, 1, Len(g)) = g
    BY SubSeqFull
  <2> QED BY <1>1, <1>3, <2>1, <2>6, <2>7
<1> QED
  BY <1>4, <1>5

-----------------------------------------------------------------------------
(* The block's walk over such links: where it is, and what is behind it.   *)
PlaceRead(b) ==
  /\ b.depth = 0
  /\ b.at # 0 => d.kind[b.at] # "object"
  /\ IF d.era = "R13 to R2000"
       THEN b.loop = "chain" /\ (b.at # 0 => b.steps < b.at)
       ELSE /\ b.loop = "list" /\ b.steps \in 1 .. Len(d.entities) + 1
            /\ b.at = IF b.steps <= Len(d.entities) THEN d.entities[b.steps] ELSE 0
Passed(b) == {p \in Contents(0) : b.at = 0 \/ p < b.at}

(* Nothing of the block is between p and n, and if n is none, behind p.    *)
GoesOn(p, n) ==
  IF n = 0 THEN \A q \in Contents(0) : q <= p
  ELSE n \in Object /\ d.kind[n] # "object" /\ n > p /\ \A q \in Contents(0) : q > p => q >= n

LEMMA LeastIsChosen ==
  ASSUME NEW S, S \subseteq Nat, S # {}
  PROVE  LET p == CHOOSE p \in S : \A q \in S : p <= q IN p \in S /\ \A q \in S : p <= q
  BY LeastExists

LEMMA EntitiesAreListed ==
  ASSUME d \in Drawing, Intact, d.era # "R13 to R2000"
  PROVE  \E S : /\ InOrder(d.entities, S) /\ Contents(0) \subseteq S
                /\ \A p \in S : p \in Object /\ d.kind[p] # "object"
                /\ d.era = "R2004 on" => \A p \in S : d.owner[p] = 0
<1>1. LinksFollowOwners
  BY DEF Intact
<1>2. CASE d.era = "pre-R13"
  <2> DEFINE S == {p \in Object : d.kind[p] # "object"}
  <2>1. InOrder(d.entities, S)
    BY <1>1, <1>2 DEF LinksFollowOwners
  <2>2. Contents(0) \subseteq S
    BY DEF Contents, Subs, OwnedBy
  <2> QED BY <1>2, <2>1, <2>2
<1>3. CASE d.era # "pre-R13"
  <2>1. d.era = "R2004 on"
    BY <1>3, DrawingType
  <2>2. InOrder(d.entities, OwnedBy(0))
    BY <1>1, <2>1 DEF LinksFollowOwners
  <2>3. Contents(0) \subseteq OwnedBy(0)
    BY DEF Contents, Subs
  <2>4. \A p \in OwnedBy(0) : p \in Object /\ d.kind[p] # "object" /\ d.owner[p] = 0
    BY DEF OwnedBy
  <2> QED BY <2>2, <2>3, <2>4
<1> QED
  BY <1>2, <1>3

(* No place of such a list is passed over.                                 *)
LEMMA EveryPlaceIsListed ==
  ASSUME d \in Drawing, NEW S, InOrder(d.entities, S), \A p \in S : p \in Object
  PROVE  /\ Len(d.entities) \in Nat
         /\ \A i \in 1 .. Len(d.entities) : d.entities[i] \in S
         /\ \A i \in Nat : i <= Len(d.entities) => ListedAfter(i) = i + 1
         /\ \A i \in Nat : Listed(i + 1) = IF i + 1 <= Len(d.entities) THEN d.entities[i + 1] ELSE 0
<1>1. PICK n \in Nat : n = Len(d.entities) /\ DOMAIN d.entities = 1 .. n
  BY LinkTypes
<1>2. \A i \in 1 .. n : d.entities[i] \in S /\ Resolve(d.entities[i]) = d.entities[i] /\ d.entities[i] # 0
  BY <1>1, LinkTypes DEF InOrder, Resolve
<1>3. ASSUME NEW i \in Nat, i <= n PROVE ListedAfter(i) = i + 1
  <2> DEFINE places == {j \in i + 1 .. n : Resolve(d.entities[j]) # 0}
  <2>1. ListedAfter(i) = IF places = {} THEN n + 1 ELSE CHOOSE j \in places : \A k \in places : j <= k
    BY <1>1 DEF ListedAfter
  <2>2. \A j \in i + 1 .. n : j \in 1 .. n
    OBVIOUS
  <2>3. places = i + 1 .. n
    BY <1>2, <2>2
  <2> HIDE DEF places
  <2>4. CASE i = n
    <3>1. places = {}
      BY <2>3, <2>4
    <3> QED BY <2>1, <2>4, <3>1
  <2>5. CASE i # n
    <3>1. i + 1 \in places /\ places \subseteq Nat /\ \A k \in places : i + 1 <= k
      BY <1>3, <2>3, <2>5
    <3>2. PICK j : /\ j = CHOOSE c \in places : \A k \in places : c <= k
                   /\ j \in places /\ \A k \in places : j <= k
      BY <3>1, LeastIsChosen
    <3>3. j <= i + 1 /\ i + 1 <= j /\ j \in Nat
      BY <3>1, <3>2
    <3>4. places # {}
      BY <3>1
    <3>5. j = i + 1
      BY <3>3
    <3> QED BY <2>1, <3>2, <3>4, <3>5
  <2> QED BY <2>4, <2>5
<1>4. ASSUME NEW i \in Nat PROVE Listed(i + 1) = IF i + 1 <= n THEN d.entities[i + 1] ELSE 0
  <2>1. i + 1 <= n => i + 1 \in 1 .. n
    OBVIOUS
  <2> QED BY <1>1, <1>2, <2>1 DEF Listed
<1> QED
  BY <1>1, <1>2, <1>3, <1>4

(* The next place of the list is of the next entity.                       *)
LEMMA ListGoesOn ==
  ASSUME d \in Drawing, NEW S, InOrder(d.entities, S), Contents(0) \subseteq S,
         \A p \in S : p \in Object /\ d.kind[p] # "object",
         NEW i \in 1 .. Len(d.entities)
  PROVE  GoesOn(d.entities[i], IF i + 1 <= Len(d.entities) THEN d.entities[i + 1] ELSE 0)
<1>1. PICK n \in Nat : n = Len(d.entities) /\ DOMAIN d.entities = 1 .. n
  BY LinkTypes
<1>2. /\ \A j \in 1 .. n : d.entities[j] \in S /\ d.entities[j] \in Nat /\ d.entities[j] # 0
      /\ \A q \in S : \E j \in 1 .. n : d.entities[j] = q
      /\ \A j, k \in 1 .. n : j < k => d.entities[j] < d.entities[k]
  BY <1>1, LinkTypes DEF InOrder
<1>3. i \in 1 .. n
  BY <1>1
<1>4. ASSUME NEW q \in Contents(0), q > d.entities[i]
      PROVE  i + 1 <= n /\ q >= d.entities[i + 1]
  <2>1. PICK j \in 1 .. n : d.entities[j] = q
    BY <1>2
  <2>2. ~(j < i) /\ j # i
    <3>1. j < i => d.entities[j] < d.entities[i]
      BY <1>2, <1>3, <2>1
    <3>2. q \in Nat /\ d.entities[i] \in Nat
      BY <1>2, <1>3, <2>1
    <3> QED BY <1>4, <2>1, <3>1, <3>2
  <2>3. i + 1 <= n /\ i + 1 \in 1 .. n /\ (j = i + 1 \/ i + 1 < j)
    BY <1>3, <2>1, <2>2
  <2>4. i + 1 < j => d.entities[i + 1] < d.entities[j]
    BY <1>2, <2>1, <2>3
  <2>5. d.entities[i + 1] \in Nat /\ q \in Nat
    BY <1>2, <2>1, <2>3
  <2> QED BY <2>1, <2>3, <2>4, <2>5
<1>5. CASE i + 1 <= n
  <2>1. i + 1 \in 1 .. n /\ i < i + 1
    BY <1>3, <1>5
  <2>2. d.entities[i + 1] > d.entities[i] /\ d.entities[i + 1] \in S /\ d.entities[i + 1] # 0
    BY <1>2, <1>3, <2>1
  <2> QED BY <1>1, <1>4, <1>5, <2>2 DEF GoesOn
<1>6. CASE ~(i + 1 <= n)
  <2>1. \A q \in Contents(0) : q <= d.entities[i]
    <3> TAKE q \in Contents(0)
    <3>1. q \in Nat /\ d.entities[i] \in Nat
      BY <1>2, <1>3
    <3>2. ~(q > d.entities[i])
      BY <1>4, <1>6
    <3> QED BY <3>1, <3>2
  <2> QED BY <1>1, <1>6, <2>1 DEF GoesOn
<1> QED
  BY <1>5, <1>6

LEMMA Before ==
  \A m, n, q \in Nat : /\ ~(q > m) => q <= m
                       /\ n > m => n # m
                       /\ ~(q >= n) => q <= n
                       /\ n < m /\ q > m => n < q
                       /\ m + 1 > m /\ m + 1 # m
  OBVIOUS

(* The chain leads on to the next entity of the block, or of a run that is *)
(* before it.                                                              *)
LEMMA ChainGoesOn ==
  ASSUME d \in Drawing, Intact, d.era = "R13 to R2000", NEW p \in Object, d.kind[p] # "object"
  PROVE  GoesOn(p, IF p = Resolve(d.last) THEN 0 ELSE NextEntity(p))
<1>1. /\ RunsAreWhole /\ AreEnds(d.first, d.last, OwnedBy(0)) /\ d.next[p] \in {0, FollowingSibling(p)}
  BY DEF Intact, LinksFollowOwners
<1>2. /\ Contents(0) \subseteq OwnedBy(0) /\ p \in Nat /\ 0 \notin Object
      /\ \A q : OwnedBy(q) \subseteq Object
      /\ \A q \in Object : q \in Nat
      /\ \A q \in Contents(0) : q \in Nat
      /\ \A q \in OwnedBy(0) : q \in Object /\ d.owner[q] = 0 /\ d.kind[q] # "object"
  BY LinkTypes DEF Contents, Subs, OwnedBy
<1>3. CASE p = Resolve(d.last)
  <2>1. p = d.last
    BY <1>2, <1>3 DEF Resolve
  <2>2. \A q \in OwnedBy(0) : q <= p
    BY <1>1, <2>1 DEF AreEnds
  <2> QED BY <1>2, <1>3, <2>2 DEF GoesOn
<1>4. CASE p # Resolve(d.last) /\ d.next[p] = 0
  <2> DEFINE later == {q \in Object : q > p /\ d.kind[q] # "object"}
  <2>1. NextEntity(p) = IF later = {} THEN 0 ELSE CHOOSE q \in later : \A r \in later : q <= r
    BY <1>4 DEF NextEntity, NextEntityInFile
  <2>2. \A q \in Contents(0) : q > p => q \in later
    BY <1>2
  <2>3. later \subseteq Nat /\ \A q \in later : q \in Object /\ q > p /\ d.kind[q] # "object"
    BY <1>2
  <2> HIDE DEF later
  <2>4. CASE later = {}
    <3>1. \A q \in Contents(0) : ~(q > p)
      BY <2>2, <2>4
    <3>4. \A q \in Contents(0) : q \in Nat
      BY <1>2
    <3>2. p \in Nat
      BY LinkTypes
    <3>3. \A q \in Contents(0) : q <= p
      BY Before, <3>1, <3>2, <3>4, Zenon
    <3> QED BY <1>4, <2>1, <2>4, <3>3 DEF GoesOn
  <2>5. CASE later # {}
    <3>1. PICK n : /\ n = CHOOSE q \in later : \A r \in later : q <= r
                   /\ n \in later /\ \A r \in later : n <= r
      BY <2>3, <2>5, LeastIsChosen
    <3>2. NextEntity(p) = n /\ n # 0
      BY <1>2, <2>1, <2>3, <2>5, <3>1
    <3>3. \A q \in Contents(0) : q > p => q >= n
      BY <2>2, <2>3, <3>1
    <3> QED BY <1>4, <2>3, <3>1, <3>2, <3>3 DEF GoesOn
  <2> QED BY <2>4, <2>5
<1>5. CASE p # Resolve(d.last) /\ d.next[p] # 0
  <2> DEFINE later == {q \in OwnedBy(d.owner[p]) : q > p}
  <2>1. d.next[p] = IF later = {} THEN 0 ELSE CHOOSE q \in later : \A r \in later : q <= r
    BY <1>1, <1>5 DEF FollowingSibling
  <2>2. later \subseteq Nat
    BY <1>2
  <2>3. \A q \in later : q \in Object /\ q > p /\ d.kind[q] # "object" /\ d.owner[q] = d.owner[p]
    BY DEF OwnedBy
  <2>4. d.owner[p] = 0 => \A q \in Contents(0) : q > p => q \in later
    BY <1>2
  <2> HIDE DEF later
  <2>5. PICK n : n = d.next[p] /\ n \in later /\ \A r \in later : n <= r
    BY <1>5, <2>1, <2>2, LeastIsChosen
  <2>6. NextEntity(p) = n
    <3>1. n \in Object /\ n > p /\ n \in Nat /\ d.kind[n] # "object"
      BY <1>2, <2>3, <2>5
    <3>3. p \in Nat
      BY LinkTypes
    <3>4. n # p
      BY Before, <3>1, <3>3, Zenon
    <3>2. Resolve(n) = n /\ n # p
      BY <3>1, <3>4 DEF Resolve
    <3> QED BY <1>5, <2>5, <3>1, <3>2 DEF NextEntity
  <2>7. ASSUME NEW q \in Contents(0), q > p PROVE q >= n
    <3>1. CASE d.owner[p] = 0
      BY <1>2, <2>2, <2>4, <2>5, <2>7, <3>1
    <3>2. CASE d.owner[p] # 0
      <4>1. SUFFICES ASSUME ~(q >= n) PROVE FALSE
        OBVIOUS
      <4>2. q \in Nat /\ n \in Nat /\ n \in Object /\ d.owner[n] = d.owner[p] /\ d.owner[p] \in Nat
        BY <1>2, <2>3, <2>5, LinkTypes
      <4>3. d.owner[p] < p
        BY <1>1, <3>2, OwnersAreBefore
      <4>4. d.owner[n] < q /\ q <= n
        <5>1. PICK o \in Nat : o = d.owner[p] /\ o = d.owner[n] /\ o < p
          BY <4>2, <4>3
        <5>2. p \in Nat /\ q \in Nat /\ n \in Nat
          BY <4>2, LinkTypes
        <5>3. o < q /\ q <= n
          BY Before, <2>7, <4>1, <5>1, <5>2, Zenon
        <5> QED BY <5>1, <5>3
      <4>5. d.owner[q] = d.owner[n]
        BY <1>1, <3>2, <4>2, <4>4, RunsAreOfOne
      <4> QED BY <1>2, <3>2, <4>2, <4>5
    <3> QED BY <3>1, <3>2
  <2> QED BY <1>2, <1>5, <2>3, <2>5, <2>6, <2>7 DEF GoesOn
<1> QED
  BY <1>3, <1>4, <1>5

LEMMA BlockIsOver ==
  ASSUME d \in Drawing, NEW b \in WalkType, PlaceRead(b), Over(b)
  PROVE  b.at = 0 /\ Passed(b) = Contents(0)
<1>1. b.loop \in {"list", "chain"} /\ b.steps \in Nat /\ b.at \in Object \cup {0}
  BY DEF PlaceRead, WalkType
<1>2. PICK n \in Nat : n = Len(d.kind) /\ Object = 1 .. n
  BY DrawingType DEF Object
<1>3. CASE b.loop = "chain"
  <2>1. b.at # 0 => b.steps < b.at
    BY <1>3 DEF PlaceRead
  <2>2. b.at = 0 \/ b.steps > n
    BY <1>2, <1>3 DEF Over
  <2>3. b.at = 0
    BY <1>1, <1>2, <2>1, <2>2
  <2> QED BY <2>3 DEF Passed
<1>4. CASE b.loop = "list"
  <2>1. b.at = 0
    BY <1>4 DEF Over
  <2> QED BY <2>1 DEF Passed
<1> QED
  BY <1>1, <1>3, <1>4

(* What is behind once the walk has gone on.                               *)
LEMMA OnePassed ==
  ASSUME d \in Drawing, NEW a, NEW b, b.at \in Object, GoesOn(b.at, a.at)
  PROVE  /\ Passed(a) = Passed(b) \cup (Contents(0) \cap {b.at})
         /\ \A q \in Passed(b) : q < b.at
<1>1. \A q \in Contents(0) : q \in Nat /\ q \in Object
  BY LinkTypes DEF Contents, Subs, OwnedBy
<1>2. PICK p \in Nat : p = b.at /\ p # 0
  BY LinkTypes
<1>3. PICK n : n = a.at /\ GoesOn(p, n)
  BY <1>2
<1>4. Passed(b) = {q \in Contents(0) : q < p}
  BY <1>2 DEF Passed
<1>5. CASE n = 0
  <2>1. \A q \in Contents(0) : q <= p
    BY <1>3, <1>5 DEF GoesOn
  <2>2. Passed(a) = Contents(0)
    BY <1>3, <1>5 DEF Passed
  <2>3. \A q \in Contents(0) : q < p \/ q = p
    BY <1>1, <2>1
  <2> QED BY <1>2, <1>4, <2>2, <2>3
<1>6. CASE n # 0
  <2>1. n \in Nat /\ n > p /\ \A q \in Contents(0) : q > p => q >= n
    BY <1>3, <1>6, LinkTypes DEF GoesOn
  <2>2. Passed(a) = {q \in Contents(0) : q < n}
    BY <1>3, <1>6 DEF Passed
  <2>3. \A q \in Contents(0) : q < n <=> (q < p \/ q = p)
    BY <1>1, <2>1
  <2> QED BY <1>2, <1>4, <2>2, <2>3
<1> QED
  BY <1>5, <1>6

LEMMA BlockGoesOn ==
  ASSUME d \in Drawing, Intact, NEW b \in WalkType, PlaceRead(b), ~Over(b), NEW made \in Seq(Entities)
  PROVE  LET a == Advanced([b EXCEPT !.got = @ \o made])
         IN  /\ PlaceRead(a) /\ a.got = b.got \o made
             /\ Passed(a) = Passed(b) \cup (Contents(0) \cap {b.at})
             /\ \A q \in Passed(b) : q < b.at
<1> DEFINE v == [b EXCEPT !.got = @ \o made]
           a == Advanced(v)
<1>1. /\ a \in WalkType /\ a.loop = b.loop /\ a.depth = b.depth /\ a.got = b.got \o made
      /\ b.loop # "list" => a.steps = b.steps + 1
      /\ a.at = After(v)
  BY AdvancedType
<1>2. /\ v.loop = b.loop /\ v.at = b.at /\ v.steps = b.steps
      /\ b.loop = "list" => a.steps = ListedAfter(b.steps)
  <2>1. v.loop = b.loop /\ v.at = b.at /\ v.steps = b.steps /\ v \in [DOMAIN b -> {v[x] : x \in DOMAIN b}]
    BY DEF WalkType
  <2>2. DOMAIN v = {"loop", "of", "at", "steps", "got", "depth"}
    BY DEF WalkType
  <2> HIDE DEF v
  <2>3. b.loop = "list" => a.steps = ListedAfter(b.steps)
    BY <2>1, <2>2 DEF Advanced
  <2> QED BY <2>1, <2>3
<1> HIDE DEF v, a
<1>3. b.depth = 0 /\ b.steps \in Nat /\ b.at \in Object \cup {0}
  BY DEF PlaceRead, WalkType
<1>4. CASE d.era = "R13 to R2000"
  <2>1. b.loop = "chain" /\ (b.at # 0 => b.steps < b.at)
    BY <1>4 DEF PlaceRead
  <2>2. b.at # 0 /\ b.at \in Object /\ d.kind[b.at] # "object"
    BY <1>3, <2>1 DEF Over, PlaceRead
  <2>3. a.at = IF b.at = Resolve(d.last) THEN 0 ELSE NextEntity(b.at)
    BY <1>1, <1>2, <2>1 DEF After, ByIterator
  <2>4. GoesOn(b.at, a.at)
    BY <1>4, <2>2, <2>3, ChainGoesOn
  <2>5. a.at # 0 => a.steps < a.at /\ d.kind[a.at] # "object"
    <3>1. ASSUME a.at # 0 PROVE a.at > b.at /\ d.kind[a.at] # "object" /\ a.at \in Nat /\ b.at \in Nat
      BY <2>2, <2>4, <3>1, LinkTypes DEF GoesOn
    <3>2. \A m, n, k \in Nat : m < n /\ k > n => m + 1 < k
      OBVIOUS
    <3>3. a.steps = b.steps + 1 /\ b.steps < b.at
      BY <1>1, <2>1, <2>2
    <3> QED BY <1>3, <3>1, <3>2, <3>3, Zenon
  <2>6. PlaceRead(a)
    BY <1>1, <1>3, <1>4, <2>1, <2>5 DEF PlaceRead
  <2> QED BY <1>1, <2>2, <2>4, <2>6, OnePassed DEF a, v
<1>5. CASE d.era # "R13 to R2000"
  <2>1. /\ b.loop = "list" /\ b.steps \in 1 .. Len(d.entities) + 1
        /\ b.at = IF b.steps <= Len(d.entities) THEN d.entities[b.steps] ELSE 0
    BY <1>5 DEF PlaceRead
  <2>2. b.at # 0
    BY <2>1 DEF Over
  <2>3. PICK S : /\ InOrder(d.entities, S) /\ Contents(0) \subseteq S
                 /\ \A p \in S : p \in Object /\ d.kind[p] # "object"
    BY <1>5, EntitiesAreListed
  <2>4. /\ Len(d.entities) \in Nat
        /\ \A i \in 1 .. Len(d.entities) : d.entities[i] \in S
        /\ \A i \in Nat : i <= Len(d.entities) => ListedAfter(i) = i + 1
        /\ \A i \in Nat : Listed(i + 1) = IF i + 1 <= Len(d.entities) THEN d.entities[i + 1] ELSE 0
    BY <2>3, EveryPlaceIsListed
  <2>5. b.steps <= Len(d.entities) /\ b.steps \in 1 .. Len(d.entities)
    BY <2>1, <2>2, <2>4
  <2>6. a.steps = b.steps + 1 /\ a.at = Listed(b.steps + 1)
    <3>1. ListedAfter(b.steps) = b.steps + 1
      BY <1>3, <2>4, <2>5
    <3> QED BY <1>1, <1>2, <2>1, <3>1 DEF After, ByIterator
  <2>7. a.at = IF b.steps + 1 <= Len(d.entities) THEN d.entities[b.steps + 1] ELSE 0
    BY <1>3, <2>4, <2>6
  <2>8. b.at = d.entities[b.steps] /\ GoesOn(b.at, a.at) /\ b.at \in Object
    <3>1. b.at = d.entities[b.steps] /\ b.at \in Object
      BY <2>1, <2>3, <2>4, <2>5
    <3> QED BY <2>3, <2>5, <2>7, <3>1, ListGoesOn
  <2>9. a.at # 0 => d.kind[a.at] # "object"
    BY <2>8 DEF GoesOn
  <2>10. a.steps \in 1 .. Len(d.entities) + 1
    BY <2>4, <2>5, <2>6
  <2>11. PlaceRead(a)
    BY <1>1, <1>3, <1>5, <2>1, <2>6, <2>7, <2>9, <2>10 DEF PlaceRead
  <2> QED BY <1>1, <2>8, <2>11, OnePassed DEF a, v
<1> QED
  BY <1>4, <1>5

(* Nothing is behind a walk that begins.                                   *)
LEMMA BlockReadBegins ==
  ASSUME d \in Drawing, Intact
  PROVE  PlaceRead(BlockWalk) /\ Passed(BlockWalk) = {} /\ BlockWalk.got = <<>>
<1> DEFINE b == BlockWalk
<1>1. b.depth = 0 /\ b.got = <<>>
  BY DEF BlockWalk, Walk
<1>2. \A q \in Contents(0) : q \in Nat
  BY LinkTypes DEF Contents, Subs, OwnedBy
<1>3. CASE d.era = "R13 to R2000"
  <2>1. b.loop = "chain" /\ b.at = Resolve(d.first) /\ b.steps = 0
    BY <1>3 DEF BlockWalk, Walk
  <2>2. AreEnds(d.first, d.last, OwnedBy(0)) /\ Contents(0) \subseteq OwnedBy(0)
    BY <1>3 DEF Intact, LinksFollowOwners, Contents, Subs
  <2>3. \A q \in OwnedBy(0) : q \in Object /\ d.kind[q] # "object"
    BY DEF OwnedBy
  <2>4. 0 \notin Object /\ \A q \in Object : q \in Nat /\ q # 0
    BY LinkTypes
  <2>5. CASE OwnedBy(0) = {}
    <3>1. b.at = 0 /\ Contents(0) = {}
      BY <2>1, <2>2, <2>4, <2>5 DEF AreEnds, Resolve
    <3> QED BY <1>1, <1>3, <2>1, <3>1 DEF PlaceRead, Passed
  <2>6. CASE OwnedBy(0) # {}
    <3>1. d.first \in OwnedBy(0) /\ \A q \in OwnedBy(0) : d.first <= q
      BY <2>2, <2>6 DEF AreEnds
    <3>2. b.at = d.first /\ b.at \in Nat /\ b.at # 0 /\ d.kind[b.at] # "object"
      BY <2>1, <2>3, <2>4, <3>1 DEF Resolve
    <3>3. \A q \in Contents(0) : ~(q < b.at)
      <4>1. \A m, n \in Nat : m <= n => ~(n < m)
        OBVIOUS
      <4> QED BY <1>2, <2>2, <3>1, <3>2, <4>1
    <3>4. b.steps < b.at
      <4>1. \A n \in Nat : n # 0 => 0 < n
        OBVIOUS
      <4> QED BY <2>1, <3>2, <4>1
    <3> QED BY <1>1, <1>3, <2>1, <3>2, <3>3, <3>4 DEF PlaceRead, Passed
  <2> QED BY <2>5, <2>6
<1>4. CASE d.era # "R13 to R2000"
  <2>1. b.loop = "list" /\ b.at = Listed(ListedAfter(0)) /\ b.steps = ListedAfter(0)
    BY <1>4 DEF BlockWalk, Walk
  <2>2. PICK S : /\ InOrder(d.entities, S) /\ Contents(0) \subseteq S
                 /\ \A p \in S : p \in Object /\ d.kind[p] # "object"
    BY <1>4, EntitiesAreListed
  <2>3. PICK n \in Nat : n = Len(d.entities)
    BY <2>2, EveryPlaceIsListed
  <2>4. /\ \A i \in 1 .. n : d.entities[i] \in S
        /\ \A i \in Nat : i <= n => ListedAfter(i) = i + 1
        /\ \A i \in Nat : Listed(i + 1) = IF i + 1 <= n THEN d.entities[i + 1] ELSE 0
    BY <2>2, <2>3, EveryPlaceIsListed
  <2>5. b.steps = 1 /\ b.at = IF 1 <= n THEN d.entities[1] ELSE 0
    <3>1. ListedAfter(0) = 1
      BY <2>3, <2>4
    <3>2. Listed(0 + 1) = IF 0 + 1 <= n THEN d.entities[0 + 1] ELSE 0
      BY <2>4
    <3> QED BY <2>1, <3>1, <3>2
  <2>6. 1 \in 1 .. n + 1
    BY <2>3
  <2>7. \A q \in S : \E i \in 1 .. n : d.entities[i] = q /\ (1 < i => d.entities[1] < q)
    <3>1. DOMAIN d.entities = 1 .. n
      BY <2>3, LinkTypes
    <3>2. \A i \in 1 .. n : 1 \in 1 .. n
      OBVIOUS
    <3> QED BY <2>2, <3>1, <3>2 DEF InOrder
  <2>8. CASE n = 0
    <3>1. S = {}
      BY <2>7, <2>8
    <3>2. b.at = 0 /\ Contents(0) = {}
      BY <2>2, <2>5, <2>8, <3>1
    <3>3. PlaceRead(b)
      BY <1>1, <1>4, <2>1, <2>3, <2>5, <2>6, <3>2 DEF PlaceRead
    <3> QED BY <1>1, <3>2, <3>3 DEF Passed
  <2>9. CASE n # 0
    <3>1. 1 \in 1 .. n /\ b.at = d.entities[1] /\ b.at \in S
      BY <2>4, <2>5, <2>9
    <3>2. b.at \in Nat /\ b.at # 0 /\ d.kind[b.at] # "object"
      BY <2>2, <3>1, LinkTypes
    <3>3. \A q \in Contents(0) : ~(q < b.at)
      <4> TAKE q \in Contents(0)
      <4>1. PICK i \in 1 .. n : d.entities[i] = q /\ (1 < i => b.at < q)
        BY <2>2, <2>7, <3>1
      <4>2. i = 1 \/ 1 < i
        OBVIOUS
      <4>3. q \in Nat
        BY <1>2
      <4>4. i = 1 => b.at = q
        BY <3>1, <4>1
      <4> QED BY <3>2, <4>1, <4>2, <4>3, <4>4
    <3>4. PlaceRead(b)
      BY <1>1, <1>4, <2>1, <2>3, <2>5, <2>6, <3>2 DEF PlaceRead
    <3> QED BY <1>1, <3>2, <3>3, <3>4 DEF Passed
  <2> QED BY <2>8, <2>9
<1> QED
  BY <1>3, <1>4

-----------------------------------------------------------------------------
(* A walk over what an entity owns: its turns and the run keep step.       *)
NextSub(t) == t.of + 1 + t.steps
SubRead(t) ==
  /\ t.depth = 1
  /\ t.loop = "owned" => d.era = "R2004 on"
  /\ t.loop = "stream" => d.era = "pre-R13"
  /\ t.loop \in {"array", "attrib chain"} => d.era = "R13 to R2000"
  /\ t.loop = "array" => d.owned[t.of] # <<>>
  /\ IF NextSub(t) \in Subs(t.of) THEN t.at = NextSub(t)
     ELSE t.at # 0 => t.loop \in {"stream", "vertex stream"} /\ d.kind[t.at] \notin {"attrib", "vertex"}
  /\ InOrder(Ids(t.got), {p \in Contents(t.of) : p < NextSub(t)})
  /\ Len(t.got) <= t.steps

(* An entity's own list, where it has one, is its run by places.           *)
LEMMA OwnLists ==
  ASSUME d \in Drawing, Intact, NEW o \in Object,
         d.era = "R2004 on" \/ (d.era = "R13 to R2000" /\ d.owned[o] # <<>>)
  PROVE  /\ Len(d.owned[o]) \in Nat
         /\ \A i \in 1 .. Len(d.owned[o]) :
              d.owned[o][i] = o + i /\ d.owned[o][i] \in Subs(o) /\ Resolve(d.owned[o][i]) = o + i
         /\ \A i \in Nat : i # 0 /\ o + i \in Subs(o) => i <= Len(d.owned[o])
<1>1. RunsAreWhole /\ InOrder(d.owned[o], Subs(o))
  BY DEF Intact, LinksFollowOwners
<1>2. d.owned[o] \in Seq(Nat)
  BY LinkTypes
<1>3. /\ \A i \in 1 .. Len(d.owned[o]) : d.owned[o][i] = o + i /\ d.owned[o][i] \in Subs(o)
      /\ \A i \in Nat : i # 0 /\ o + i \in Subs(o) => i <= Len(d.owned[o])
  BY <1>1, <1>2, ListsOfRuns
<1>4. \A q \in Subs(o) : Resolve(q) = q
  BY DEF Subs, OwnedBy, Resolve
<1>5. Len(d.owned[o]) \in Nat
  BY <1>2, LenProperties, Zenon
<1> QED
  BY <1>3, <1>4, <1>5, Zenon

LEMMA WithinARun ==
  \A o, s, g, m, n \in Nat :
    /\ o + (s + 1) = o + 1 + s /\ s + 1 \in Nat /\ s + 1 # 0
    /\ o + 1 + s \in 1 .. n /\ o + 1 + s <= o + m /\ g <= s =>
         /\ ~(s >= m) /\ ~(s > n) /\ ~(g >= m) /\ o + 1 + s # 0
  OBVIOUS

(* A walk is over just at its run's end.                                   *)
LEMMA SubEndsWithTheRun ==
  ASSUME d \in Drawing, Intact, NEW t \in WalkType, SubWalkOK(t), SubRead(t)
  PROVE  Over(t) <=> NextSub(t) \notin Subs(t.of)
<1> DEFINE o == t.of
           p == NextSub(t)
<1>1. /\ t.steps \in Nat /\ o \in Object /\ o \in Nat /\ 0 \notin Object
      /\ t.loop \in {"owned", "array", "attrib chain", "stream", "vertices", "vertex stream"}
      /\ t.loop \in {"owned", "array", "attrib chain", "stream"} => d.kind[o] = "insert"
      /\ t.loop \in {"vertices", "vertex stream"} => d.kind[o] = "polyline"
  BY LinkTypes DEF WalkType, SubWalkOK, AttribLoops, VertexLoops
<1>2. p = o + 1 + t.steps
  BY DEF NextSub
<1>7. RunsAreWhole
  BY DEF Intact
<1>3. PICK n \in Nat : n = Len(d.kind) /\ Object = 1 .. n
  BY DrawingType DEF Object
<1>4. MaxOwned \in Nat
  BY EntityWalksAssumption
<1>10. t.loop = "array" => d.era = "R13 to R2000" /\ d.owned[o] # <<>>
  BY DEF SubRead
<1>11. PICK g \in Nat : g = Len(t.got) /\ g <= t.steps
  <2>1. Len(t.got) \in Nat
    BY DEF WalkType
  <2> QED BY <2>1 DEF SubRead
<1>12. PICK s \in Nat : s = t.steps
  BY <1>1
<1>13. t.loop = "array" =>
         /\ Len(d.owned[o]) \in Nat
         /\ \A i \in 1 .. Len(d.owned[o]) : o + i \in Subs(o)
         /\ \A i \in Nat : i # 0 /\ o + i \in Subs(o) => i <= Len(d.owned[o])
  BY <1>1, <1>10, OwnLists
<1> HIDE DEF o, p
<1>5. ASSUME p \in Subs(o) PROVE ~Over(t)
  <2>1. t.at = p
    BY <1>5 DEF SubRead, o, p
  <2>2. /\ p \in Object /\ d.kind[p] \in {"attrib", "vertex"} /\ p <= o + MaxOwned
        /\ d.kind[o] = IF d.kind[p] = "attrib" THEN "insert" ELSE "polyline"
    BY <1>1, <1>5, <1>7, SubsAreARun
  <2>4. ~(s >= MaxOwned) /\ ~(s > n) /\ ~(g >= MaxOwned) /\ p # 0
    <3>1. o + 1 + s = p /\ p \in 1 .. n /\ g <= s
      BY <1>2, <1>3, <1>11, <1>12, <2>2
    <3> QED BY <1>1, <1>4, <2>2, <3>1, WithinARun, Zenon
  <2>5. t.loop = "array" => ~(s >= Len(d.owned[o]))
    <3>1. o + (s + 1) \in Subs(o) /\ s + 1 \in Nat /\ s + 1 # 0
      <4>1. o + (s + 1) = o + 1 + s /\ s + 1 # 0
        BY <1>1, WithinARun, Zenon
      <4> QED BY <1>2, <1>5, <1>12, <4>1
    <3>2. t.loop = "array" => s + 1 <= Len(d.owned[o]) /\ Len(d.owned[o]) \in Nat
      BY <1>13, <3>1
    <3>3. \A m, k \in Nat : m + 1 <= k => ~(m >= k)
      OBVIOUS
    <3> QED BY <3>2, <3>3
  <2>6. IsAttrib(t.at) \/ IsVertex(t.at)
    BY <2>1, <2>2 DEF IsAttrib, IsVertex
  <2>7. d.kind[o] = "insert" => IsAttrib(t.at)
    BY <2>1, <2>2 DEF IsAttrib
  <2>8. d.kind[o] = "polyline" => IsVertex(t.at)
    BY <2>1, <2>2 DEF IsVertex
  <2> QED
    BY <1>1, <1>3, <1>11, <1>12, <2>1, <2>4, <2>5, <2>7, <2>8 DEF Over, o
<1>6. ASSUME p \notin Subs(o) PROVE Over(t)
  <2>1. t.at # 0 => t.loop \in {"stream", "vertex stream"} /\ d.kind[t.at] \notin {"attrib", "vertex"}
    BY <1>6 DEF SubRead, o, p
  <2>2. ~IsAttrib(t.at) /\ ~IsVertex(t.at)
    BY <1>1, <2>1 DEF IsAttrib, IsVertex
  <2>3. t.loop = "array" => s >= Len(d.owned[o])
    <3> SUFFICES ASSUME t.loop = "array", ~(s >= Len(d.owned[o])) PROVE FALSE
      OBVIOUS
    <3>1. s + 1 \in 1 .. Len(d.owned[o])
      <4>1. \A m, k \in Nat : ~(m >= k) => m + 1 \in 1 .. k
        OBVIOUS
      <4> QED BY <1>13, <4>1
    <3>2. o + (s + 1) \in Subs(o)
      BY <1>13, <3>1
    <3>3. o + (s + 1) = o + 1 + s
      BY <1>1, WithinARun, Zenon
    <3> QED BY <1>2, <1>6, <1>12, <3>2, <3>3
  <2> QED
    BY <1>1, <1>12, <2>1, <2>2, <2>3 DEF Over, o
<1> QED
  BY <1>5, <1>6 DEF o, p

LEMMA NothingYet ==
  ASSUME d \in Drawing, Intact, NEW o \in Object
  PROVE  {p \in Contents(o) : p < o + 1 + 0} = {}
<1>1. \A p \in Contents(o) : o < p /\ p \in Nat
  <2>1. \A p \in Contents(o) : p \in Subs(o)
    BY DEF Contents
  <2> QED BY <2>1, SubsAreARun, LinkTypes DEF Intact
<1>2. o \in Nat
  BY LinkTypes
<1>3. \A m, n \in Nat : m < n => ~(n < m + 1 + 0)
  OBVIOUS
<1> QED
  BY <1>1, <1>2, <1>3

(* What follows an owner, or one of its run, in the file.                  *)
LEMMA StreamGoesOn ==
  ASSUME d \in Drawing, Intact, NEW o \in Object, d.owner[o] = 0, NEW p \in Nat, p = o \/ p \in Subs(o)
  PROVE  IF p + 1 \in Subs(o) THEN Resolve(p + 1) = p + 1
         ELSE Resolve(p + 1) # 0 => d.kind[Resolve(p + 1)] \notin {"attrib", "vertex"}
<1>1. CASE p + 1 \in Subs(o)
  BY <1>1 DEF Subs, OwnedBy, Resolve
<1>2. CASE p + 1 \notin Subs(o) /\ Resolve(p + 1) # 0
  <2>1. Resolve(p + 1) = p + 1 /\ p + 1 \in Object
    BY <1>2 DEF Resolve
  <2>2. PICK q \in Object : q = p + 1 /\ q - 1 = p
    BY <2>1
  <2>3. d.kind[q] \notin {"attrib", "vertex"}
    BY <1>2, <2>2, RunsGoOn DEF Intact
  <2> QED BY <1>2, <2>1, <2>2, <2>3
<1> QED
  BY <1>1, <1>2

(* The walks over what an entity owns begin at its first.                  *)
LEMMA SubReadBegins ==
  ASSUME d \in Drawing, Intact, NEW o \in Object, d.owner[o] = 0
  PROVE  /\ d.kind[o] = "insert" => SubRead(AttribWalk(o, 1))
         /\ d.kind[o] = "polyline" => SubRead(VertexWalk(o, 1)) /\ SubRead(VertexStream(o, 1))
<1> DEFINE Begins(at, loop) ==
             IF o + 1 + 0 \in Subs(o) THEN at = o + 1 + 0
             ELSE at # 0 => loop \in {"stream", "vertex stream"} /\ d.kind[at] \notin {"attrib", "vertex"}
<1>1. ASSUME NEW loop, NEW at, Begins(at, loop),
             loop = "owned" => d.era = "R2004 on",
             loop = "stream" => d.era = "pre-R13",
             loop \in {"array", "attrib chain"} => d.era = "R13 to R2000",
             loop = "array" => d.owned[o] # <<>>
      PROVE  SubRead(Walk(loop, o, at, 0, 1))
  <2> DEFINE t == Walk(loop, o, at, 0, 1)
  <2>1. t.loop = loop /\ t.of = o /\ t.at = at /\ t.steps = 0 /\ t.got = <<>> /\ t.depth = 1
    BY DEF Walk
  <2> HIDE DEF t
  <2>2. NextSub(t) = o + 1 + 0
    BY <2>1 DEF NextSub
  <2>3. {p \in Contents(t.of) : p < NextSub(t)} = {}
    BY <2>1, <2>2, NothingYet
  <2>4. InOrder(Ids(t.got), {p \in Contents(t.of) : p < NextSub(t)})
    BY <2>1, <2>3, NoneInOrder
  <2>5. Len(t.got) <= t.steps
    <3>1. Len(<<>>) = 0 /\ 0 <= 0
      OBVIOUS
    <3> QED BY <2>1, <3>1
  <2>6. SubRead(t)
    BY <1>1, <2>1, <2>2, <2>4, <2>5 DEF SubRead
  <2> QED BY <2>6 DEF t
<1>2. o \in Nat /\ o + 1 + 0 = o + 1 /\ o + 1 \in Nat
  BY LinkTypes
<1>3. Begins(NextObject(o), "stream") /\ Begins(NextObject(o), "vertex stream")
  BY <1>2, StreamGoesOn DEF NextObject
<1>4. ASSUME d.era = "R2004 on" \/ (d.era = "R13 to R2000" /\ d.owned[o] # <<>>), NEW loop
      PROVE  Begins(FirstOf(d.owned[o]), loop)
  <2>1. /\ Len(d.owned[o]) \in Nat
        /\ \A i \in 1 .. Len(d.owned[o]) :
              d.owned[o][i] = o + i /\ d.owned[o][i] \in Subs(o) /\ Resolve(d.owned[o][i]) = o + i
        /\ \A i \in Nat : i # 0 /\ o + i \in Subs(o) => i <= Len(d.owned[o])
    BY <1>4, OwnLists
  <2>2. d.owned[o] = <<>> <=> Len(d.owned[o]) = 0
    <3>1. d.owned[o] \in Seq(Nat)
      BY LinkTypes
    <3> QED BY <3>1, EmptySeq
  <2>3. CASE Len(d.owned[o]) = 0
    <3>1. o + 1 \notin Subs(o)
      <4>1. 1 \in Nat /\ 1 # 0 /\ ~(1 <= 0)
        OBVIOUS
      <4> QED BY <2>1, <2>3, <4>1, Zenon
    <3>2. FirstOf(d.owned[o]) = 0
      BY <2>2, <2>3 DEF FirstOf
    <3> QED BY <1>2, <3>1, <3>2
  <2>4. CASE Len(d.owned[o]) # 0
    <3>1. 1 \in 1 .. Len(d.owned[o])
      <4>1. \A k \in Nat : k # 0 => 1 \in 1 .. k
        OBVIOUS
      <4> QED BY <2>1, <2>4, <4>1, Zenon
    <3>2. FirstOf(d.owned[o]) = Resolve(d.owned[o][1])
      BY <2>2, <2>4 DEF FirstOf
    <3> QED BY <1>2, <2>1, <3>1, <3>2
  <2> QED BY <2>3, <2>4
<1>5. ASSUME d.era = "R13 to R2000", NEW loop PROVE Begins(Resolve(d.firstSub[o]), loop)
  <2>1. AreEnds(d.firstSub[o], d.lastSub[o], Subs(o)) /\ RunsAreWhole
    BY <1>5 DEF Intact, LinksFollowOwners
  <2>2. d.firstSub[o] \in Nat /\ d.lastSub[o] \in Nat
    BY LinkTypes
  <2>3. Resolve(d.firstSub[o]) = IF o + 1 \in Subs(o) THEN o + 1 ELSE 0
    BY <2>1, <2>2, EndsOfRuns
  <2> QED BY <1>2, <2>3
<1>6. d.era \in {"pre-R13", "R13 to R2000", "R2004 on"}
  BY DrawingType
<1> HIDE DEF Begins
<1>7. SubRead(VertexStream(o, 1))
  BY <1>1, <1>3 DEF VertexStream
<1>8. SubRead(VertexWalk(o, 1))
  <2>1. CASE d.era = "pre-R13"
    BY <1>7, <2>1 DEF VertexWalk
  <2>2. CASE d.era = "R2004 on"
    <3>1. SubRead(Walk("vertices", o, FirstOf(d.owned[o]), 0, 1))
      BY <1>1, <1>4, <2>2
    <3> QED BY <2>2, <3>1 DEF VertexWalk
  <2>3. CASE d.era = "R13 to R2000"
    <3>1. SubRead(Walk("vertices", o, Resolve(d.firstSub[o]), 0, 1))
      BY <1>1, <1>5, <2>3
    <3> QED BY <2>3, <3>1 DEF VertexWalk
  <2> QED BY <1>6, <2>1, <2>2, <2>3
<1>9. SubRead(AttribWalk(o, 1))
  <2>1. CASE d.era = "pre-R13"
    <3>1. SubRead(Walk("stream", o, NextObject(o), 0, 1))
      BY <1>1, <1>3, <2>1
    <3> QED BY <2>1, <3>1 DEF AttribWalk
  <2>2. CASE d.era = "R2004 on"
    <3>1. SubRead(Walk("owned", o, FirstOf(d.owned[o]), 0, 1))
      BY <1>1, <1>4, <2>2
    <3> QED BY <2>2, <3>1 DEF AttribWalk
  <2>3. CASE d.era = "R13 to R2000" /\ d.owned[o] # <<>>
    <3>1. SubRead(Walk("array", o, FirstOf(d.owned[o]), 0, 1))
      BY <1>1, <1>4, <2>3
    <3> QED BY <2>3, <3>1 DEF AttribWalk
  <2>4. CASE d.era = "R13 to R2000" /\ d.owned[o] = <<>>
    <3>1. SubRead(Walk("attrib chain", o, Resolve(d.firstSub[o]), 0, 1))
      BY <1>1, <1>5, <2>4
    <3> QED BY <2>4, <3>1 DEF AttribWalk
  <2> QED BY <1>6, <2>1, <2>2, <2>3, <2>4
<1> QED
  BY <1>7, <1>8, <1>9

(* Within a run the next entity is the next object, linked or not.         *)
LEMMA LeastIsNext ==
  ASSUME NEW p \in Nat, NEW S, \A q \in S : q \in Nat /\ q > p, p + 1 \in S
  PROVE  S # {} /\ (CHOOSE q \in S : \A r \in S : q <= r) = p + 1
<1>1. S # {} /\ S \subseteq Nat
  <2>1. S # {}
    OBVIOUS
  <2>2. \A q \in S : q \in Nat
    OBVIOUS
  <2> QED BY <2>1, <2>2
<1>2. PICK n : /\ n = CHOOSE q \in S : \A r \in S : q <= r
               /\ n \in S /\ \A r \in S : n <= r
  BY <1>1, LeastIsChosen
<1>3. n \in Nat /\ n > p /\ n <= p + 1
  BY <1>2
<1> QED
  BY <1>1, <1>2, <1>3

LEMMA NextOfARun ==
  ASSUME d \in Drawing, Intact, d.era = "R13 to R2000", NEW o \in Object,
         NEW p \in Subs(o), p + 1 \in Subs(o)
  PROVE  NextEntity(p) = p + 1
<1>1. /\ d.next[p] \in {0, FollowingSibling(p)} /\ p \in Object /\ d.kind[p] # "object" /\ d.owner[p] = o
      /\ p + 1 \in Object /\ d.kind[p + 1] # "object" /\ d.owner[p + 1] = o
  BY DEF Intact, LinksFollowOwners, Subs, OwnedBy
<1>2. p \in Nat /\ 0 \notin Object /\ \A q \in Object : q \in Nat
  BY <1>1, LinkTypes
<1>3. p + 1 > p /\ p + 1 # p
  BY <1>2, Before, Zenon
<1>4. CASE d.next[p] = 0
  <2> DEFINE later == {q \in Object : q > p /\ d.kind[q] # "object"}
  <2>1. NextEntity(p) = IF later = {} THEN 0 ELSE CHOOSE q \in later : \A r \in later : q <= r
    BY <1>1, <1>4 DEF NextEntity, NextEntityInFile
  <2>2. p + 1 \in later
    BY <1>1, <1>2, <1>3
  <2>3. \A q \in later : q \in Nat /\ q > p
    BY <1>2
  <2> HIDE DEF later
  <2> QED BY <1>2, <2>1, <2>2, <2>3, LeastIsNext
<1>5. CASE d.next[p] # 0
  <2> DEFINE later == {q \in OwnedBy(d.owner[p]) : q > p}
  <2>1. d.next[p] = IF later = {} THEN 0 ELSE CHOOSE q \in later : \A r \in later : q <= r
    BY <1>1, <1>5 DEF FollowingSibling
  <2>2. p + 1 \in later
    BY <1>1, <1>2, <1>3 DEF OwnedBy
  <2>3. \A q \in later : q \in Nat /\ q > p
    BY <1>2 DEF OwnedBy
  <2> HIDE DEF later
  <2>4. d.next[p] = p + 1
    BY <1>2, <2>1, <2>2, <2>3, LeastIsNext
  <2>5. Resolve(d.next[p]) = p + 1 /\ p + 1 # p
    BY <1>1, <1>2, <1>3, <2>4 DEF Resolve
  <2> QED BY <1>1, <1>5, <2>5 DEF NextEntity
<1> QED
  BY <1>4, <1>5

(* Where a walk goes on to from place s of a run.                          *)
GoesOnTo(t, at) ==
  IF NextSub(t) + 1 \in Subs(t.of) THEN at = NextSub(t) + 1
  ELSE at # 0 => t.loop \in {"stream", "vertex stream"} /\ d.kind[at] \notin {"attrib", "vertex"}

LEMMA PlacesOfARun ==
  \A o, s \in Nat : /\ o + (s + 1) = o + 1 + s /\ o + (s + 2) = (o + 1 + s) + 1 /\ s + 1 + 1 = s + 2
                    /\ s + 2 \in Nat /\ s + 2 # 0 /\ s + 1 \in Nat /\ s + 1 # 0
                    /\ \A n \in Nat : /\ s + 2 <= n => s + 2 \in 1 .. n /\ s + 1 # n
                                      /\ s + 1 <= n /\ ~(s + 2 <= n) => s + 1 = n
<1>1. \A o, s \in Nat : /\ o + (s + 1) = o + 1 + s /\ o + (s + 2) = (o + 1 + s) + 1 /\ s + 1 + 1 = s + 2
                        /\ s + 2 \in Nat /\ s + 2 # 0 /\ s + 1 \in Nat /\ s + 1 # 0
  OBVIOUS
<1>2. \A s, n \in Nat : s + 2 <= n => s + 2 \in 1 .. n /\ s + 1 # n
  OBVIOUS
<1>3. \A s, n \in Nat : s + 1 <= n /\ ~(s + 2 <= n) => s + 1 = n
  OBVIOUS
<1> QED
  BY <1>1, <1>2, <1>3, Zenon

LEMMA SubWalkGoesOn ==
  ASSUME d \in Drawing, Intact, NEW t \in WalkType, SubWalkOK(t), SubRead(t), ~Over(t),
         ByIterator(t) => iterator[t.of] = t.steps
  PROVE  /\ GoesOnTo(t, After(t))
         /\ ByIterator(t) => (LastOwned(t) <=> NextSub(t) + 1 \notin Subs(t.of))
<1> DEFINE o == t.of
           p == NextSub(t)
           s == t.steps
<1>1. /\ s \in Nat /\ o \in Object /\ o \in Nat /\ p = o + 1 + s
      /\ t.loop \in {"owned", "array", "attrib chain", "stream", "vertices", "vertex stream"}
  BY LinkTypes DEF WalkType, SubWalkOK, AttribLoops, VertexLoops, NextSub
<1>2. p \in Subs(o) /\ t.at = p
  BY SubEndsWithTheRun DEF SubRead
<1>3. p \in Object /\ d.owner[p] = o /\ o # 0 /\ p \in Nat
  BY <1>1, <1>2, LinkTypes DEF Subs, OwnedBy
<1>4. RunsAreWhole /\ d.owner[o] = 0
  BY <1>3, OwnersAreBefore DEF Intact
<1>5. /\ t.loop = "owned" => d.era = "R2004 on"
      /\ t.loop \in {"array", "attrib chain"} => d.era = "R13 to R2000"
      /\ t.loop = "array" => d.owned[o] # <<>>
      /\ t.loop = "vertices" => d.era \in {"R2004 on", "R13 to R2000"}
  <2>1. t.loop = "vertices" => d.era # "pre-R13"
    BY DEF SubWalkOK
  <2> QED BY <2>1, DrawingType DEF SubRead
<1>6. \A q \in Subs(o) : Resolve(q) = q
  BY DEF Subs, OwnedBy, Resolve
<1>7. d.era = "R2004 on" \/ (d.era = "R13 to R2000" /\ d.owned[o] # <<>>) =>
        /\ Len(d.owned[o]) \in Nat
        /\ \A i \in 1 .. Len(d.owned[o]) :
              d.owned[o][i] = o + i /\ d.owned[o][i] \in Subs(o) /\ Resolve(d.owned[o][i]) = o + i
        /\ \A i \in Nat : i # 0 /\ o + i \in Subs(o) => i <= Len(d.owned[o])
  BY <1>1, OwnLists, Zenon
<1>8. d.era = "R13 to R2000" =>
        /\ Resolve(d.lastSub[o]) = d.lastSub[o]
        /\ p + 1 \in Subs(o) <=> p # d.lastSub[o]
        /\ d.lastSub[o] # 0
  <2> SUFFICES ASSUME d.era = "R13 to R2000"
               PROVE  /\ Resolve(d.lastSub[o]) = d.lastSub[o]
                      /\ p + 1 \in Subs(o) <=> p # d.lastSub[o]
                      /\ d.lastSub[o] # 0
    OBVIOUS
  <2>1. AreEnds(d.firstSub[o], d.lastSub[o], Subs(o))
    BY <1>1 DEF Intact, LinksFollowOwners
  <2>2. d.firstSub[o] \in Nat /\ d.lastSub[o] \in Nat
    BY <1>1, LinkTypes
  <2> HIDE DEF o, p
  <2>3. /\ Resolve(d.lastSub[o]) = d.lastSub[o]
        /\ \A q \in Subs(o) : q + 1 \in Subs(o) <=> q # d.lastSub[o]
        /\ d.lastSub[o] = 0 <=> Subs(o) = {}
    <3>1. PICK first \in Nat, last \in Nat : first = d.firstSub[o] /\ last = d.lastSub[o]
      BY <2>2
    <3>2. AreEnds(first, last, Subs(o))
      BY <2>1, <3>1
    <3>3. o \in Object /\ RunsAreWhole
      BY <1>1, <1>4
    <3>4. /\ Resolve(last) = last
          /\ \A q \in Subs(o) : q + 1 \in Subs(o) <=> q # last
          /\ last = 0 <=> Subs(o) = {}
      BY <3>2, <3>3, EndsOfRuns
    <3> QED BY <3>1, <3>4
  <2> QED BY <1>2, <2>3
<1>9. IF p + 1 \in Subs(o) THEN Resolve(p + 1) = p + 1
      ELSE Resolve(p + 1) # 0 => d.kind[Resolve(p + 1)] \notin {"attrib", "vertex"}
  BY <1>1, <1>2, <1>3, <1>4, StreamGoesOn
<1>10. t.of = o /\ NextSub(t) = p /\ t.steps = s
  OBVIOUS
<1> HIDE DEF o, p, s
<1>11. /\ o + (s + 1) = p /\ o + (s + 2) = p + 1 /\ s + 1 + 1 = s + 2
       /\ s + 2 \in Nat /\ s + 2 # 0 /\ s + 1 \in Nat /\ s + 1 # 0
       /\ \A n \in Nat : /\ s + 2 <= n => s + 2 \in 1 .. n /\ s + 1 # n
                         /\ s + 1 <= n /\ ~(s + 2 <= n) => s + 1 = n
  BY <1>1, PlacesOfARun, Zenon
<1>12. ASSUME d.era = "R2004 on" \/ (d.era = "R13 to R2000" /\ d.owned[o] # <<>>)
       PROVE  /\ s + 2 <= Len(d.owned[o]) <=> p + 1 \in Subs(o)
              /\ s + 2 <= Len(d.owned[o]) => Resolve(d.owned[o][s + 2]) = p + 1
              /\ s + 1 = Len(d.owned[o]) <=> p + 1 \notin Subs(o)
  <2>1. s + 2 <= Len(d.owned[o]) =>
          d.owned[o][s + 2] = p + 1 /\ d.owned[o][s + 2] \in Subs(o) /\ Resolve(d.owned[o][s + 2]) = p + 1
    BY <1>7, <1>11, <1>12, Zenon
  <2>2. p + 1 \in Subs(o) => s + 2 <= Len(d.owned[o])
    BY <1>7, <1>11, <1>12, Zenon
  <2>3. s + 1 <= Len(d.owned[o])
    BY <1>2, <1>7, <1>11, <1>12, Zenon
  <2>4. s + 1 = Len(d.owned[o]) <=> ~(s + 2 <= Len(d.owned[o]))
    BY <1>7, <1>11, <1>12, <2>3, Zenon
  <2> QED BY <2>1, <2>2, <2>4, Zenon
<1>13. CASE t.loop = "array"
  <2>1. After(t) = IF s + 2 <= Len(d.owned[o]) THEN Resolve(d.owned[o][s + 2]) ELSE 0
    BY <1>10, <1>13 DEF After, ByIterator
  <2>2. GoesOnTo(t, After(t))
    BY <1>5, <1>10, <1>12, <1>13, <2>1, Zenon DEF GoesOnTo
  <2> QED BY <1>13, <2>2 DEF ByIterator
<1>14. CASE t.loop = "attrib chain"
  <2>1. After(t) = IF p = Resolve(d.lastSub[o]) THEN 0 ELSE NextEntity(p)
    BY <1>2, <1>10, <1>14 DEF After, ByIterator
  <2>2. p + 1 \in Subs(o) => NextEntity(p) = p + 1
    BY <1>1, <1>2, <1>5, <1>14, NextOfARun
  <2>3. GoesOnTo(t, After(t))
    BY <1>5, <1>8, <1>10, <1>14, <2>1, <2>2, Zenon DEF GoesOnTo
  <2> QED BY <1>14, <2>3 DEF ByIterator
<1>15. CASE t.loop \in {"stream", "vertex stream"}
  <2>1. After(t) = Resolve(p + 1)
    BY <1>2, <1>10, <1>15 DEF After, ByIterator, NextObject
  <2>2. GoesOnTo(t, After(t))
    BY <1>9, <1>10, <1>15, <2>1, Zenon DEF GoesOnTo
  <2> QED BY <1>15, <2>2 DEF ByIterator
<1>16. CASE ByIterator(t)
  <2>1. /\ d.era = "R2004 on" /\ t.loop \in {"owned", "vertices"} /\ iterator[o] = s
        /\ LastOwned(t) <=> s + 1 = Len(d.owned[o])
    BY <1>10, <1>16 DEF ByIterator, LastOwned
  <2>2. After(t) = IF LastOwned(t) THEN 0 ELSE Resolve(d.owned[o][s + 2])
    BY <1>10, <1>16, <2>1 DEF After
  <2>3. LastOwned(t) <=> p + 1 \notin Subs(o)
    BY <1>12, <2>1, Zenon
  <2>4. GoesOnTo(t, After(t))
    BY <1>10, <1>12, <2>1, <2>2, <2>3, Zenon DEF GoesOnTo
  <2> QED BY <1>10, <2>3, <2>4
<1>17. CASE t.loop = "vertices" /\ ~ByIterator(t)
  <2>1. d.era = "R13 to R2000"
    BY <1>5, <1>17 DEF ByIterator
  <2>2. After(t) = IF d.lastSub[o] = 0 \/ p = Resolve(d.lastSub[o]) THEN 0 ELSE Resolve(p + 1)
    BY <1>2, <1>10, <1>17 DEF After, NextObject
  <2>3. GoesOnTo(t, After(t))
    BY <1>8, <1>9, <1>10, <2>1, <2>2, Zenon DEF GoesOnTo
  <2> QED BY <1>17, <2>3
<1>18. CASE t.loop = "owned" /\ ~ByIterator(t)
  BY <1>5, <1>18 DEF ByIterator
<1> QED
  BY <1>1, <1>13, <1>14, <1>15, <1>16, <1>17, <1>18

(* Only where a walk is decides where it goes on to.                       *)
LEMMA AfterByPlace ==
  ASSUME NEW v, NEW w, v.loop = w.loop, v.of = w.of, v.at = w.at, v.steps = w.steps
  PROVE  After(v) = After(w)
  BY DEF After, ByIterator, LastOwned

LEMMA SubReadGoesOn ==
  ASSUME d \in Drawing, Intact, NEW t \in WalkType, SubWalkOK(t), SubRead(t), ~Over(t),
         ByIterator(t) => iterator[t.of] = t.steps, NEW made,
         made = IF NextSub(t) \in Contents(t.of) THEN <<Entity(NextSub(t), <<>>)>> ELSE <<>>
  PROVE  LET a == Advanced([t EXCEPT !.got = @ \o made])
         IN  /\ SubRead(a) /\ a.loop = t.loop /\ a.of = t.of
             /\ a.steps = t.steps + 1 /\ NextSub(a) = NextSub(t) + 1
<1> DEFINE v == [t EXCEPT !.got = @ \o made]
           a == Advanced(v)
           o == t.of
           p == NextSub(t)
<1>1. /\ t.steps \in Nat /\ o \in Object /\ o \in Nat /\ p = o + 1 + t.steps /\ p \in Nat
      /\ t.loop # "list" /\ t.got \in Seq(Entities)
  <2>1. t.steps \in Nat /\ t.got \in Seq(Entities)
    BY DEF WalkType
  <2>2. t.of \in Object /\ t.loop # "list"
    BY DEF SubWalkOK, AttribLoops, VertexLoops
  <2>3. \A m \in Object : m \in Nat
    BY LinkTypes
  <2>4. \A m, n \in Nat : m + 1 + n \in Nat
    OBVIOUS
  <2> QED BY <2>1, <2>2, <2>3, <2>4 DEF NextSub
<1>2. p \in Subs(o) /\ t.at = p
  BY SubEndsWithTheRun DEF SubRead
<1>3. p \in Object
  BY <1>2 DEF Subs, OwnedBy
<1>4. <<Entity(p, <<>>)>> \in Seq(Plain) /\ Len(<<Entity(p, <<>>)>>) = 1
  BY <1>3, OneMade
<1>5. made \in Seq(Entities) /\ Len(made) \in Nat /\ Len(made) <= 1
  <2>1. <<Entity(p, <<>>)>> \in Seq(Entities)
    BY <1>4, PlainAreEntities
  <2>2. Len(<<>>) = 0 /\ 0 <= 1 /\ 1 <= 1 /\ 0 \in Nat /\ 1 \in Nat
    OBVIOUS
  <2> QED BY <1>4, <2>1, <2>2, NoneMade
<1>6. /\ a.loop = t.loop /\ a.of = o /\ a.depth = t.depth /\ a.got = t.got \o made
      /\ a.steps = t.steps + 1 /\ a.at = After(v)
  BY <1>1, <1>5, AdvancedType
<1>7. v.loop = t.loop /\ v.of = t.of /\ v.at = t.at /\ v.steps = t.steps
  BY DEF WalkType
<1> HIDE DEF v, a
<1>8. GoesOnTo(t, a.at)
  <2>1. After(v) = After(t)
    BY <1>7, AfterByPlace
  <2>2. GoesOnTo(t, After(t))
    BY SubWalkGoesOn
  <2> QED BY <1>6, <2>1, <2>2
<1>10. t.of = o /\ NextSub(t) = p
  OBVIOUS
<1> HIDE DEF o, p
<1>9. NextSub(a) = p + 1
  <2>1. \A m, n \in Nat : m + 1 + (n + 1) = (m + 1 + n) + 1
    OBVIOUS
  <2> QED BY <1>1, <1>6, <2>1 DEF NextSub
<1>11. Len(a.got) <= a.steps
  <2>1. Len(t.got \o made) = Len(t.got) + Len(made)
    BY <1>1, <1>5, ConcatProperties
  <2>2. Len(t.got) \in Nat /\ Len(t.got) <= t.steps
    BY <1>1, LenProperties DEF SubRead
  <2>3. \A g, m, s \in Nat : g <= s /\ m <= 1 => g + m <= s + 1
    OBVIOUS
  <2> QED BY <1>1, <1>5, <1>6, <2>1, <2>2, <2>3
<1>12. InOrder(Ids(a.got), {q \in Contents(o) : q < p + 1})
  <2> DEFINE S == {q \in Contents(o) : q < p}
  <2>1. InOrder(Ids(t.got), S)
    BY <1>10 DEF SubRead
  <2>2. \A q \in Contents(o) : q \in Nat
    BY LinkTypes DEF Contents, Subs, OwnedBy
  <2>3. \A q \in Contents(o) : q < p + 1 <=> q < p \/ q = p
    BY <1>1, <2>2
  <2>4. CASE p \in Contents(o)
    <3> DEFINE e == Entity(p, <<>>)
    <3>1. e \in Entities /\ e.id = p
      <4>1. e = [id |-> p, subs |-> <<>>] /\ e \in Plain
        BY <1>3 DEF Entity, Plain
      <4> QED BY <4>1, PlainAreEntities
    <3>2. made = <<e>>
      BY <1>10, <2>4
    <3> HIDE DEF e
    <3>3. \A q \in S : q < e.id
      BY <3>1
    <3> HIDE DEF S
    <3>4. InOrder(Ids(t.got \o <<e>>), S \cup {e.id})
      BY <1>1, <2>1, <3>1, <3>3, OneMoreEntity
    <3>5. S \cup {p} = {q \in Contents(o) : q < p + 1}
      BY <2>3, <2>4 DEF S
    <3> QED BY <1>6, <3>1, <3>2, <3>4, <3>5
  <2>5. CASE p \notin Contents(o)
    <3>1. made = <<>>
      BY <1>10, <2>5
    <3>2. t.got \o <<>> = t.got
      BY <1>1, ConcatEmptySeq
    <3>3. S = {q \in Contents(o) : q < p + 1}
      BY <2>3, <2>5
    <3> QED BY <1>6, <2>1, <3>1, <3>2, <3>3
  <2> QED BY <2>4, <2>5
<1>13. SubRead(a)
  <2>1. IF NextSub(a) \in Subs(a.of) THEN a.at = NextSub(a)
        ELSE a.at # 0 => a.loop \in {"stream", "vertex stream"} /\ d.kind[a.at] \notin {"attrib", "vertex"}
    BY <1>6, <1>8, <1>9, <1>10 DEF GoesOnTo
  <2>2. /\ a.depth = 1
        /\ a.loop = "owned" => d.era = "R2004 on"
        /\ a.loop = "stream" => d.era = "pre-R13"
        /\ a.loop \in {"array", "attrib chain"} => d.era = "R13 to R2000"
        /\ a.loop = "array" => d.owned[a.of] # <<>>
    BY <1>6, <1>10 DEF SubRead
  <2>3. InOrder(Ids(a.got), {q \in Contents(a.of) : q < NextSub(a)})
    BY <1>6, <1>9, <1>12
  <2> QED BY <1>11, <2>1, <2>2, <2>3, Zenon DEF SubRead
<1> QED
  BY <1>6, <1>9, <1>10, <1>13 DEF a, v

(* LibreDWG's place in a list is the walk's, and the first once it is over.*)
IsAtPlace(it, w) ==
  \A o \in Object :
    it[o] = IF w.of = o /\ ByIterator(w) /\ NextSub(w) \in Subs(o) THEN w.steps ELSE 0

LEMMA PlaceGoesOn ==
  ASSUME d \in Drawing, Intact, iterator \in [Object -> Nat],
         NEW t \in WalkType, SubWalkOK(t), SubRead(t), ~Over(t), IsAtPlace(iterator, t),
         NEW a, a.loop = t.loop, a.of = t.of, a.steps = t.steps + 1, NextSub(a) = NextSub(t) + 1
  PROVE  IsAtPlace(IteratorAfter(t), a)
<1>1. t.of \in Object /\ t.steps \in Nat /\ NextSub(t) \in Subs(t.of) /\ (ByIterator(a) <=> ByIterator(t))
  BY SubEndsWithTheRun DEF SubWalkOK, WalkType, ByIterator
<1>2. ByIterator(t) => iterator[t.of] = t.steps
  BY <1>1 DEF IsAtPlace
<1>3. CASE ByIterator(t)
  <2>1. LastOwned(t) <=> NextSub(t) + 1 \notin Subs(t.of)
    BY <1>2, <1>3, SubWalkGoesOn
  <2>2. IteratorAfter(t) = [iterator EXCEPT ![t.of] = IF LastOwned(t) THEN 0 ELSE t.steps + 1]
    BY <1>2, <1>3 DEF IteratorAfter
  <2>3. \A o \in Object : o # t.of => iterator[o] = 0
    BY DEF IsAtPlace
  <2> QED BY <1>1, <1>3, <2>1, <2>2, <2>3 DEF IsAtPlace
<1>4. CASE ~ByIterator(t)
  <2>1. IteratorAfter(t) = iterator
    BY <1>4 DEF IteratorAfter
  <2> QED BY <1>1, <1>4, <2>1 DEF IsAtPlace
<1> QED
  BY <1>3, <1>4

(* The entities the block's walk has passed, each whole.                   *)
GivesRead(b) == InOrder(Ids(b.got), Passed(b)) /\ \A e \in Range(b.got) : GivenWhole(e)

LEMMA LinksStay ==
  ASSUME d' = d
  PROVE  /\ Object' = Object
         /\ \A o : OwnedBy(o)' = OwnedBy(o) /\ Subs(o)' = Subs(o) /\ Contents(o)' = Contents(o)
         /\ Intact' <=> Intact
<1>1. Object' = Object
  BY DEF Object
<1>2. \A o : OwnedBy(o)' = OwnedBy(o)
  BY <1>1 DEF OwnedBy
<1>3. \A o : Subs(o)' = Subs(o)
  BY <1>2 DEF Subs
<1>4. \A o : Contents(o)' = Contents(o)
  BY <1>3 DEF Contents, IsErased
<1>5. RunsAreWhole' <=> RunsAreWhole
  BY <1>1, <1>3 DEF RunsAreWhole
<1>6. \A p : FollowingSibling(p)' = FollowingSibling(p)
  BY <1>1 DEF FollowingSibling, OwnedBy
<1>7. LinksFollowOwners' <=> LinksFollowOwners
  <2>1. /\ InOrder(d.entities, OwnedBy(0))' <=> InOrder(d.entities, OwnedBy(0))
        /\ InOrder(d.entities, {p \in Object : d.kind[p] # "object"})'
             <=> InOrder(d.entities, {p \in Object : d.kind[p] # "object"})
        /\ AreEnds(d.first, d.last, OwnedBy(0))' <=> AreEnds(d.first, d.last, OwnedBy(0))
    BY <1>1, <1>2 DEF InOrder, AreEnds
  <2>2. \A o : /\ InOrder(d.owned[o], Subs(o))' <=> InOrder(d.owned[o], Subs(o))
               /\ AreEnds(d.firstSub[o], d.lastSub[o], Subs(o))'
                    <=> AreEnds(d.firstSub[o], d.lastSub[o], Subs(o))
               /\ (d.next[o] \in {0, FollowingSibling(o)})' <=> d.next[o] \in {0, FollowingSibling(o)}
               /\ (d.owned[o] = <<>>)' <=> d.owned[o] = <<>>
    <3> SUFFICES ASSUME NEW o
                 PROVE /\ InOrder(d.owned[o], Subs(o))' <=> InOrder(d.owned[o], Subs(o))
                       /\ AreEnds(d.firstSub[o], d.lastSub[o], Subs(o))'
                            <=> AreEnds(d.firstSub[o], d.lastSub[o], Subs(o))
                       /\ (d.next[o] \in {0, FollowingSibling(o)})' <=> d.next[o] \in {0, FollowingSibling(o)}
                       /\ (d.owned[o] = <<>>)' <=> d.owned[o] = <<>>
      OBVIOUS
    <3>1. Subs(o)' = Subs(o) /\ FollowingSibling(o)' = FollowingSibling(o)
      BY <1>3, <1>6
    <3> QED BY <3>1 DEF InOrder, AreEnds
  <2> QED BY <1>1, <2>1, <2>2 DEF LinksFollowOwners
<1> QED
  BY <1>1, <1>2, <1>3, <1>4, <1>5, <1>7 DEF Intact

LEMMA ReadStays ==
  ASSUME d' = d
  PROVE  /\ \A b : PlaceRead(b)' <=> PlaceRead(b)
         /\ \A b : GivesRead(b)' <=> GivesRead(b)
         /\ \A t : SubRead(t)' <=> SubRead(t)
         /\ \A es : ReadAsOwned(es)' <=> ReadAsOwned(es)
         /\ \A places, t : IsAtPlace(places, t)' <=> IsAtPlace(places, t)
<1>1. \A e : GivenWhole(e)' <=> GivenWhole(e)
  BY LinksStay DEF GivenWhole, InOrder
<1>2. \A b : Passed(b)' = Passed(b)
  BY LinksStay DEF Passed
<1>3. \A b : PlaceRead(b)' <=> PlaceRead(b)
  BY DEF PlaceRead
<1>4. \A b : GivesRead(b)' <=> GivesRead(b)
  BY <1>1, <1>2 DEF GivesRead
<1>5. \A t : SubRead(t)' <=> SubRead(t)
  BY LinksStay DEF SubRead, NextSub, InOrder
<1>6. \A es : ReadAsOwned(es)' <=> ReadAsOwned(es)
  BY <1>1, LinksStay DEF ReadAsOwned, InOrder
<1>7. \A places, t : IsAtPlace(places, t)' <=> IsAtPlace(places, t)
  <2>1. \A t : ByIterator(t)' <=> ByIterator(t)
    BY TurnsStay
  <2> SUFFICES ASSUME NEW places, NEW t
              PROVE  IsAtPlace(places, t)' <=> IsAtPlace(places, t)
    OBVIOUS
  <2>2. Object' = Object /\ NextSub(t)' = NextSub(t) /\ \A o : Subs(o)' = Subs(o)
    BY LinksStay DEF NextSub
  <2> QED BY <2>1, <2>2 DEF IsAtPlace
<1> QED
  BY <1>3, <1>4, <1>5, <1>6, <1>7

(* Only an INSERT or a POLYLINE owns anything.                             *)
LEMMA WholeAlone ==
  ASSUME d \in Drawing, Intact, NEW o \in Object, d.kind[o] \notin {"insert", "polyline"}
  PROVE  GivenWhole(Entity(o, <<>>))
<1>1. \A p \in Contents(o) : p \in Object /\ d.owner[p] = o
  BY DEF Contents, Subs, OwnedBy
<1>2. o # 0
  BY LinkTypes
<1>3. \A p \in Contents(o) : d.kind[d.owner[p]] \in {"insert", "polyline"}
  BY <1>1, <1>2, OwnersAreBefore DEF Intact
<1>4. Contents(o) = {}
  BY <1>1, <1>3
<1>5. Range(<<>>) = {}
  BY DEF Range
<1>6. Entity(o, <<>>).id = o /\ Entity(o, <<>>).subs = <<>>
  BY DEF Entity
<1> QED
  BY <1>4, <1>5, <1>6, NoneInOrder DEF GivenWhole

(* What the block's walk meets and does not step over is the block's.      *)
LEMMA BlockGives ==
  ASSUME d \in Drawing, Intact, NEW b \in WalkType, PlaceRead(b), ~Over(b)
  PROVE  Gives(b) <=> b.at \in Contents(0)
<1> DEFINE p == b.at
<1>1. b.loop \in BlockLoops /\ b.depth = 0 /\ (b.loop = "chain" <=> d.era = "R13 to R2000")
  BY DEF PlaceRead, BlockLoops
<1>2. p \in Object /\ p # 0
  BY <1>1, TurningIsAtAnObject DEF BlockLoops
<1>3. 0 <= MaxDepth
  BY EntityWalksAssumption
<1>4. d.kind[p] # "object"
  BY <1>2 DEF PlaceRead
<1>5. d.owner[p] # 0 <=> d.kind[p] \in {"attrib", "seqend", "vertex"}
  BY <1>2 DEF Intact, RunsAreWhole
<1>6. Converts(b) <=> d.kind[p] \notin {"endblk", "seqend"}
  BY <1>1, <1>3, <1>4 DEF Converts
<1>7. p \in Contents(0) <=> d.owner[p] = 0 /\ d.kind[p] \notin {"endblk", "seqend"} /\ ~IsErased(p)
  BY <1>2, <1>4 DEF Contents, Subs, OwnedBy
<1>8. CASE d.era = "R13 to R2000"
  <2>1. Skips(b) <=> IsSubEntity(p)
    BY <1>1, <1>8 DEF Skips
  <2> QED BY <1>2, <1>5, <1>6, <1>7, <1>8, <2>1 DEF Gives, IsSubEntity, IsErased
<1>9. CASE d.era = "pre-R13"
  <2>1. Skips(b) <=> IsVertex(p) \/ IsSubEntity(p) \/ IsErased(p)
    BY <1>1, <1>9 DEF Skips, BlockLoops
  <2> QED BY <1>2, <1>5, <1>6, <1>7, <1>9, <2>1 DEF Gives, IsSubEntity, IsVertex
<1>10. CASE d.era = "R2004 on"
  <2>1. Skips(b) <=> IsVertex(p)
    BY <1>1, <1>10 DEF Skips, BlockLoops
  <2>2. d.owner[p] = 0
    <3>1. PICK S : InOrder(d.entities, S) /\ \A q \in S : q \in Object /\ d.owner[q] = 0
      BY <1>10, EntitiesAreListed
    <3>2. p \in S
      <4>1. b.steps \in 1 .. Len(d.entities) /\ p = d.entities[b.steps]
        <5>1. Len(d.entities) \in Nat
          BY <3>1, EveryPlaceIsListed
        <5>2. \A n \in Nat : \A i \in 1 .. n + 1 : i <= n => i \in 1 .. n
          OBVIOUS
        <5>3. b.steps \in 1 .. Len(d.entities) + 1
              /\ p = IF b.steps <= Len(d.entities) THEN d.entities[b.steps] ELSE 0
          BY <1>10 DEF PlaceRead
        <5> QED BY <1>2, <5>1, <5>2, <5>3
      <4> QED BY <3>1, <4>1, EveryPlaceIsListed
    <3> QED BY <3>1, <3>2
  <2> QED BY <1>2, <1>5, <1>6, <1>7, <1>10, <2>1, <2>2 DEF Gives, IsErased, IsVertex
<1> QED
  BY <1>8, <1>9, <1>10, DrawingType

(* A list and one more behind it.                                          *)
LEMMA OneMoreOfARange ==
  ASSUME NEW S, NEW g \in Seq(S), NEW e \in S, NEW f \in Range(g \o <<e>>)
  PROVE  f \in Range(g) \/ f = e
<1>1. g \o <<e>> = Append(g, e)
  BY AppendIsConcat
<1>2. PICK k \in DOMAIN Append(g, e) : f = Append(g, e)[k]
  BY <1>1 DEF Range
<1>3. /\ Append(g, e) \in Seq(S) /\ Len(Append(g, e)) = Len(g) + 1 /\ Len(g) \in Nat
      /\ \A i \in 1 .. Len(g) : Append(g, e)[i] = g[i]
      /\ Append(g, e)[Len(g) + 1] = e
  BY AppendProperties, LenProperties
<1>4. k \in 1 .. Len(g) + 1 /\ DOMAIN g = 1 .. Len(g)
  BY <1>2, <1>3, LenProperties
<1>5. k \in 1 .. Len(g) \/ k = Len(g) + 1
  BY <1>3, <1>4
<1> QED
  BY <1>2, <1>3, <1>4, <1>5 DEF Range

(* The block's walk turns.                                                 *)
LEMMA BlockReadGoesOn ==
  ASSUME d \in Drawing, Intact, NEW b \in WalkType, PlaceRead(b), ~Over(b), NEW made,
         Gives(b) => \E e \in Entities : e.id = b.at /\ made = <<e>> /\ GivenWhole(e),
         ~Gives(b) => made = <<>>
  PROVE  PlaceRead(Turned(b, made)) /\ (GivesRead(b) => GivesRead(Turned(b, made)))
<1> DEFINE a == Turned(b, made)
<1>1. b.got \in Seq(Entities)
  BY DEF WalkType
<1>2. made \in Seq(Entities)
  <2>1. \A e \in Entities : <<e>> \in Seq(Entities)
    OBVIOUS
  <2> QED BY <2>1, NoneMade
<1>3. /\ PlaceRead(a) /\ a.got = b.got \o made
      /\ Passed(a) = Passed(b) \cup (Contents(0) \cap {b.at})
      /\ \A q \in Passed(b) : q < b.at
  BY <1>2, BlockGoesOn DEF Turned
<1>4. Gives(b) <=> b.at \in Contents(0)
  BY BlockGives
<1> HIDE DEF a
<1>5. CASE Gives(b)
  <2>1. PICK e \in Entities : e.id = b.at /\ made = <<e>> /\ GivenWhole(e)
    BY <1>5
  <2>2. Passed(a) = Passed(b) \cup {e.id}
    BY <1>3, <1>4, <1>5, <2>1
  <2>3. ASSUME GivesRead(b) PROVE GivesRead(a)
    <3>1. InOrder(Ids(b.got), Passed(b))
      BY <2>3 DEF GivesRead
    <3>2. InOrder(Ids(b.got \o <<e>>), Passed(b) \cup {e.id})
      BY <1>1, <1>3, <2>1, <3>1, OneMoreEntity
    <3>3. InOrder(Ids(a.got), Passed(a))
      BY <1>3, <2>1, <2>2, <3>2
    <3>4. \A f \in Range(a.got) : f \in Range(b.got) \/ f = e
      BY <1>1, <1>3, <2>1, OneMoreOfARange
    <3>5. \A f \in Range(a.got) : GivenWhole(f)
      BY <2>1, <2>3, <3>4 DEF GivesRead
    <3> QED BY <3>3, <3>5 DEF GivesRead
  <2> QED BY <1>3, <2>3 DEF a
<1>6. CASE ~Gives(b)
  <2>1. a.got = b.got
    BY <1>1, <1>3, <1>6, ConcatEmptySeq
  <2>2. Passed(a) = Passed(b)
    BY <1>3, <1>4, <1>6
  <2> QED BY <1>3, <2>1, <2>2 DEF GivesRead, a
<1> QED
  BY <1>5, <1>6

(* The walks under way in a drawing whose links are as its owners say, and *)
(* LibreDWG's places in the entities' lists meanwhile.                     *)
BlockRead(b) == PlaceRead(b) /\ (pass = "block record" => GivesRead(b))
AllAtFirst(places) == \A o \in Object : places[o] = 0
RInv ==
  Intact =>
    /\ Len(stack) > 0 => BlockRead(stack[1])
    /\ Len(stack) = 2 => SubRead(stack[2])
    /\ IF Len(stack) = 2 THEN IsAtPlace(iterator, stack[2]) ELSE AllAtFirst(iterator)
    /\ pass = "done" => ReadAsOwned(lists.record)

LEMMA OneIsNotTwo ==
  \A n : n = 1 => n # 2 /\ n > 0
OBVIOUS

LEMMA BlockLeft ==
  ASSUME d' = d, pass' # "done", NEW a, stack' = <<a>>,
         Intact => /\ PlaceRead(a) /\ (pass' = "block record" => GivesRead(a))
                   /\ AllAtFirst(iterator')
  PROVE  RInv'
<1>1. Len(stack') = 1 /\ stack'[1] = a
  OBVIOUS
<1>2. Intact' => PlaceRead(a)' /\ (pass' = "block record" => GivesRead(a)') /\ AllAtFirst(iterator)'
  BY LinksStay, ReadStays DEF AllAtFirst
<1>3. Len(stack') # 2 /\ Len(stack') > 0
  BY <1>1, OneIsNotTwo
<1> QED
  BY <1>1, <1>2, <1>3 DEF RInv, BlockRead

LEMMA BothLeft ==
  ASSUME d' = d, pass' # "done", NEW b, NEW t, stack' = <<b, t>>,
         Intact => /\ PlaceRead(b) /\ (pass' = "block record" => GivesRead(b))
                   /\ SubRead(t) /\ IsAtPlace(iterator', t)
  PROVE  RInv'
<1>1. Len(stack') = 2 /\ stack'[1] = b /\ stack'[2] = t
  OBVIOUS
<1>2. /\ Intact' <=> Intact
      /\ PlaceRead(b)' <=> PlaceRead(b)
      /\ GivesRead(b)' <=> GivesRead(b)
      /\ SubRead(t)' <=> SubRead(t)
      /\ IsAtPlace(iterator, t)' <=> IsAtPlace(iterator', t)
  <2>1. Object' = Object /\ (ByIterator(t)' <=> ByIterator(t)) /\ \A o : Subs(o)' = Subs(o)
    BY LinksStay, TurnsStay
  <2>2. IsAtPlace(iterator, t)' <=> IsAtPlace(iterator', t)
    BY <2>1 DEF IsAtPlace, NextSub
  <2> QED BY <2>2, LinksStay, ReadStays
<1> QED
  BY <1>1, <1>2 DEF RInv, BlockRead

(* The object a walk over what an entity owns is at, while it has a turn.  *)
LEMMA SubAtItsOwn ==
  ASSUME d \in Drawing, Intact, NEW t \in WalkType, SubWalkOK(t), SubRead(t), ~Over(t)
  PROVE  /\ t.at = NextSub(t) /\ t.at \in Object
         /\ d.kind[t.at] = IF t.loop \in AttribLoops THEN "attrib" ELSE "vertex"
         /\ t.at \in Contents(t.of) <=> ~Skips(t)
<1>1. t.at = NextSub(t) /\ t.at \in Subs(t.of) /\ t.of \in Object
  BY SubEndsWithTheRun DEF SubRead, SubWalkOK
<1>2. t.at \in Object /\ d.kind[t.at] \in {"attrib", "vertex"}
      /\ d.kind[t.of] = IF d.kind[t.at] = "attrib" THEN "insert" ELSE "polyline"
  BY <1>1, SubsAreARun DEF Intact
<1>3. d.kind[t.at] = IF t.loop \in AttribLoops THEN "attrib" ELSE "vertex"
  BY <1>2 DEF SubWalkOK
<1>4. t.at \in Contents(t.of) <=> ~IsErased(t.at)
  BY <1>1, <1>2 DEF Contents
<1>5. CASE t.loop = "array"
  BY <1>1, <1>2, <1>3, <1>4, <1>5 DEF Skips, IsAttrib, IsErased, SubRead, AttribLoops
<1>6. CASE t.loop = "stream"
  BY <1>1, <1>2, <1>3, <1>4, <1>6 DEF Skips
<1>7. CASE t.loop \in {"owned", "attrib chain"}
  BY <1>1, <1>2, <1>3, <1>4, <1>7 DEF Skips, IsErased, SubRead
<1>8. CASE t.loop \in VertexLoops
  <2>1. d.kind[t.at] = "vertex"
    BY <1>3, <1>8 DEF VertexLoops, AttribLoops
  <2>2. t.at \notin d.erased
    BY <1>2, <2>1 DEF Intact, RunsAreWhole
  <2> QED BY <1>1, <1>2, <1>3, <1>4, <1>8, <2>2 DEF Skips, IsErased, VertexLoops
<1> QED
  BY <1>1, <1>2, <1>3, <1>5, <1>6, <1>7, <1>8 DEF SubWalkOK, AttribLoops

(* The block's walk turns by what it meets, and no list's place moves.     *)
LEMMA BlockReadTurns ==
  ASSUME WInv, AInv, RInv, Len(stack) = 1, Turning, NEW made, Turn(made),
         Gives(Top) => \E e \in Entities : e.id = Top.at /\ made = <<e>> /\ (Intact => GivenWhole(e)),
         ~Gives(Top) => made = <<>>
  PROVE  RInv'
<1>1. PICK b \in WalkType :
        /\ stack = <<b>> /\ Top = b /\ stack[1] = b /\ pass # "done" /\ BlockWalkOK(b)
        /\ \A x : Append(Front(stack), x) = <<x>>
  BY BlocksWalk
<1>2. d' = d /\ pass' = pass /\ stack' = <<Turned(b, made)>>
  BY <1>1 DEF Turn, Turned
<1>3. iterator' = iterator
  BY <1>1 DEF Turn, IteratorAfter, ByIterator, BlockWalkOK, BlockLoops
<1>4. ASSUME Intact
      PROVE  /\ PlaceRead(Turned(b, made)) /\ (pass' = "block record" => GivesRead(Turned(b, made)))
             /\ AllAtFirst(iterator')
  <2>1. PlaceRead(b) /\ (pass = "block record" => GivesRead(b)) /\ AllAtFirst(iterator)
    <3>1. Len(stack) > 0 /\ Len(stack) # 2
      BY <1>1
    <3> QED BY <1>1, <1>4, <3>1 DEF RInv, BlockRead
  <2>2. /\ Gives(b) => \E e \in Entities : e.id = b.at /\ made = <<e>> /\ GivenWhole(e)
        /\ ~Gives(b) => made = <<>>
        /\ ~Over(b) /\ d \in Drawing
    BY <1>1, <1>4 DEF Turning, WInv
  <2>3. PlaceRead(Turned(b, made)) /\ (GivesRead(b) => GivesRead(Turned(b, made)))
    BY <1>4, <2>1, <2>2, BlockReadGoesOn
  <2> QED BY <1>2, <1>3, <2>1, <2>3
<1> QED
  BY <1>1, <1>2, <1>4, BlockLeft

(* A walk over what an entity owns takes what it does not step over.       *)
LEMMA SubReadTurns ==
  ASSUME WInv, AInv, RInv, Len(stack) = 2, Turning, NEW made, Turn(made),
         made = IF Skips(Top) THEN <<>> ELSE <<Entity(Top.at, <<>>)>>
  PROVE  RInv'
<1>1. PICK b \in WalkType, t \in WalkType :
        /\ stack = <<b, t>> /\ Top = t /\ stack[1] = b /\ pass # "done" /\ SubWalkOK(t)
        /\ \A x : Append(Front(stack), x) = <<b, x>>
  BY SubWalk
<1> DEFINE a == Turned(t, made)
<1>2. d' = d /\ pass' = pass /\ stack' = <<b, a>> /\ iterator' = IteratorAfter(t)
  BY <1>1 DEF Turn, Turned
<1>3. d \in Drawing /\ iterator \in [Object -> Nat] /\ ~Over(t)
  BY <1>1 DEF WInv, Turning
<1>4. ASSUME Intact
      PROVE  /\ PlaceRead(b) /\ (pass' = "block record" => GivesRead(b))
             /\ SubRead(a) /\ IsAtPlace(iterator', a)
  <2>1. stack[2] = t /\ Len(stack) > 0
    BY <1>1
  <2>2. BlockRead(b) /\ SubRead(t) /\ IsAtPlace(iterator, t)
    BY <1>1, <1>4, <2>1 DEF RInv
  <2>3. made = IF NextSub(t) \in Contents(t.of) THEN <<Entity(NextSub(t), <<>>)>> ELSE <<>>
    BY <1>1, <1>3, <1>4, <2>2, SubAtItsOwn
  <2>4. ByIterator(t) => iterator[t.of] = t.steps
    <3>1. t.of \in Object /\ NextSub(t) \in Subs(t.of)
      BY <1>1, <1>3, <1>4, <2>2, SubEndsWithTheRun DEF SubWalkOK
    <3> QED BY <2>2, <3>1 DEF IsAtPlace
  <2>5. /\ SubRead(a) /\ a.loop = t.loop /\ a.of = t.of
        /\ a.steps = t.steps + 1 /\ NextSub(a) = NextSub(t) + 1
    BY <1>1, <1>3, <1>4, <2>2, <2>3, <2>4, SubReadGoesOn DEF Turned
  <2> HIDE DEF a
  <2>6. IsAtPlace(IteratorAfter(t), a)
    BY <1>1, <1>3, <1>4, <2>2, <2>5, PlaceGoesOn
  <2> QED BY <1>2, <2>2, <2>5, <2>6 DEF BlockRead
<1> HIDE DEF a
<1> QED
  BY <1>1, <1>2, <1>4, BothLeft

LEMMA SkipReads ==
  ASSUME WInv, AInv, RInv, Skip
  PROVE  RInv'
<1>1. Turning /\ Skips(Top) /\ Turn(<<>>) /\ ~Gives(Top)
  BY DEF Skip, Gives
<1>2. Len(stack) = 1 \/ Len(stack) = 2
  BY <1>1, OneOrTwo DEF Turning
<1>3. CASE Len(stack) = 1
  BY <1>1, <1>3, BlockReadTurns
<1>4. CASE Len(stack) = 2
  BY <1>1, <1>4, SubReadTurns
<1> QED
  BY <1>2, <1>3, <1>4

LEMMA TakeRecordReads ==
  ASSUME WInv, AInv, RInv, TakeRecord
  PROVE  RInv'
<1>1. Turning /\ InVertices(Top) /\ Turn(<<Entity(Top.at, <<>>)>>) /\ ~Skips(Top)
  BY DEF TakeRecord, InVertices, Skips
<1>2. Len(stack) = 2
  <2>1. ASSUME Len(stack) = 1 PROVE FALSE
    <3>1. Top.loop \in BlockLoops
      BY <2>1, BlocksWalk DEF BlockWalkOK
    <3> QED BY <1>1, <3>1 DEF InVertices, BlockLoops
  <2> QED BY <1>1, <2>1, OneOrTwo DEF Turning
<1> QED
  BY <1>1, <1>2, SubReadTurns

(* The walk over what an entity owns steps over or takes what it meets.    *)
LEMMA SubWalksConvert ==
  ASSUME WInv, AInv, RInv, Intact, Len(stack) = 2, Converting
  PROVE  Converts(Top)
<1>1. PICK t \in WalkType : stack[2] = t /\ Top = t
  BY SubWalk
<1>2. Top.at \in Object /\ d.kind[Top.at] = "attrib"
  BY SubWalksConvertAttribs
<1>3. t.depth = 1
  BY <1>1 DEF RInv, SubRead
<1>4. 1 <= MaxDepth
  BY EntityWalksAssumption
<1> QED
  BY <1>1, <1>2, <1>3, <1>4 DEF Converts

LEMMA ConvertNothingReads ==
  ASSUME WInv, AInv, RInv, ConvertNothing
  PROVE  RInv'
<1>1. Turning /\ Converting /\ ~Converts(Top) /\ Turn(<<>>) /\ ~Gives(Top)
  BY DEF ConvertNothing, Converting, Gives
<1>2. Len(stack) = 1 \/ Len(stack) = 2
  BY <1>1, OneOrTwo DEF Turning
<1>3. CASE Len(stack) = 1
  BY <1>1, <1>3, BlockReadTurns
<1>4. CASE Len(stack) = 2
  <2>1. ~Intact
    BY <1>1, <1>4, SubWalksConvert
  <2>2. PICK b \in WalkType, t \in WalkType :
          stack = <<b, t>> /\ Top = t /\ pass # "done" /\ \A x : Append(Front(stack), x) = <<b, x>>
    BY <1>4, SubWalk
  <2>3. d' = d /\ pass' = pass /\ stack' = <<b, Turned(t, <<>>)>>
    BY <1>1, <2>2 DEF Turn, Turned
  <2> QED BY <2>1, <2>2, <2>3, BothLeft
<1> QED
  BY <1>2, <1>3, <1>4

LEMMA ConvertPlainReads ==
  ASSUME WInv, AInv, RInv, ConvertPlain
  PROVE  RInv'
<1>1. /\ Turning /\ Converting /\ ~Skips(Top) /\ Converts(Top) /\ Gives(Top)
      /\ d.kind[Top.at] \notin {"insert", "polyline"}
      /\ Turn(IF IsBlocks(Top) \/ IsAttrib(Top.at) THEN <<Entity(Top.at, <<>>)>> ELSE <<>>)
  BY DEF ConvertPlain, Converting, Gives
<1>2. Len(stack) = 1 \/ Len(stack) = 2
  BY <1>1, OneOrTwo DEF Turning
<1>3. CASE Len(stack) = 1
  <2>1. PICK b \in WalkType : Top = b /\ BlockWalkOK(b)
    BY <1>3, BlocksWalk
  <2>2. IsBlocks(Top) /\ Top.loop # "array"
    BY <2>1 DEF IsBlocks, BlockWalkOK, BlockLoops
  <2>3. d \in Drawing /\ Top.at \in Object
    BY <1>1, <2>1, <2>2, TurningIsAtAnObject DEF WInv, Turning
  <2>4. Entity(Top.at, <<>>) \in Entities /\ Entity(Top.at, <<>>).id = Top.at
    BY <1>1, <2>3, PlainIsMade DEF Made, OfBlock
  <2>5. Intact => GivenWhole(Entity(Top.at, <<>>))
    BY <1>1, <2>3, WholeAlone
  <2> QED BY <1>1, <1>3, <2>2, <2>4, <2>5, BlockReadTurns
<1>4. CASE Len(stack) = 2
  <2>1. Top.at \in Object /\ d.kind[Top.at] = "attrib"
    BY <1>1, <1>4, SubWalksConvertAttribs
  <2> QED BY <1>1, <1>4, <2>1, SubReadTurns DEF IsAttrib
<1> QED
  BY <1>2, <1>3, <1>4

(* A walk that has made no turn leaves every list's place the first.       *)
LEMMA FirstPlaces ==
  ASSUME NEW places, AllAtFirst(places), NEW t, t.steps = 0
  PROVE  IsAtPlace(places, t)
BY DEF AllAtFirst, IsAtPlace

LEMMA OneDeeper ==
  \A n : n = 0 => n + 1 = 1
OBVIOUS

LEMMA EnterReads ==
  ASSUME WInv, AInv, RInv, Enter
  PROVE  RInv'
<1>1. /\ Turning /\ Converting /\ Converts(Top) /\ d.kind[Top.at] \in {"insert", "polyline"}
      /\ stack' = Append(stack, IF d.kind[Top.at] = "insert" THEN AttribWalk(Top.at, Top.depth + 1)
                                                             ELSE VertexWalk(Top.at, Top.depth + 1))
      /\ d' = d /\ iterator' = iterator /\ pass' = pass
  BY DEF Enter, Converting
<1>2. Len(stack) = 1
  <2>1. Len(stack) = 1 \/ Len(stack) = 2
    BY <1>1, OneOrTwo DEF Turning
  <2> QED BY <1>1, <2>1, SubWalksConvertAttribs
<1>3. PICK b \in WalkType : /\ stack = <<b>> /\ Top = b /\ stack[1] = b /\ pass # "done"
                            /\ BlockWalkOK(b)
  BY <1>2, BlocksWalk
<1>4. d \in Drawing /\ b.at \in Object
  BY <1>1, <1>3, TurningIsAtAnObject DEF WInv, Turning, BlockWalkOK, BlockLoops
<1> DEFINE t == IF d.kind[b.at] = "insert" THEN AttribWalk(b.at, b.depth + 1)
                                          ELSE VertexWalk(b.at, b.depth + 1)
<1>5. stack' = <<b, t>>
  BY <1>1, <1>3, AppendToOne
<1>6. ASSUME Intact
      PROVE  /\ PlaceRead(b) /\ (pass' = "block record" => GivesRead(b))
             /\ SubRead(t) /\ IsAtPlace(iterator', t)
  <2>1. Len(stack) > 0 /\ Len(stack) # 2
    BY <1>2, OneIsNotTwo
  <2>2. BlockRead(b) /\ AllAtFirst(iterator)
    BY <1>3, <1>6, <2>1 DEF RInv
  <2>3. b.depth + 1 = 1
    BY <2>2, OneDeeper DEF BlockRead, PlaceRead
  <2>4. d.owner[b.at] = 0
    BY <1>1, <1>3, <1>4, <1>6 DEF Intact, RunsAreWhole
  <2>5. SubRead(t)
    BY <1>1, <1>3, <1>4, <1>6, <2>3, <2>4, SubReadBegins
  <2>6. t.steps = 0
    BY DEF AttribWalk, VertexWalk, VertexStream, Walk
  <2> QED BY <1>1, <2>2, <2>5, <2>6, FirstPlaces DEF BlockRead
<1> HIDE DEF t
<1> QED
  BY <1>1, <1>3, <1>5, <1>6, BothLeft

(* Every list's place is the first once the walk over it is over.          *)
LEMMA PlacesAtTheEnd ==
  ASSUME d \in Drawing, Intact, NEW t \in WalkType, SubWalkOK(t), SubRead(t), Over(t),
         NEW places, IsAtPlace(places, t)
  PROVE  AllAtFirst(places)
BY SubEndsWithTheRun DEF IsAtPlace, AllAtFirst

LEMMA TryStreamReads ==
  ASSUME WInv, AInv, RInv, TryStream
  PROVE  RInv'
<1>1. /\ stack # <<>> /\ Over(Top) /\ Top.loop = "vertices"
      /\ stack' = Append(Front(stack), VertexStream(Top.of, Top.depth))
      /\ d' = d /\ iterator' = iterator /\ pass' = pass
  BY DEF TryStream
<1>2. Len(stack) = 2
  <2>1. ASSUME Len(stack) = 1 PROVE FALSE
    <3>1. Top.loop \in BlockLoops
      BY <2>1, BlocksWalk DEF BlockWalkOK
    <3> QED BY <1>1, <3>1 DEF BlockLoops
  <2> QED BY <1>1, <2>1, OneOrTwo
<1>3. PICK b \in WalkType, t \in WalkType :
        /\ stack = <<b, t>> /\ Top = t /\ stack[1] = b /\ pass # "done" /\ SubWalkOK(t)
        /\ \A x : Append(Front(stack), x) = <<b, x>>
  BY <1>2, SubWalk
<1> DEFINE v == VertexStream(t.of, t.depth)
<1>4. stack' = <<b, v>>
  BY <1>1, <1>3
<1>5. ASSUME Intact
      PROVE  /\ PlaceRead(b) /\ (pass' = "block record" => GivesRead(b))
             /\ SubRead(v) /\ IsAtPlace(iterator', v)
  <2>1. stack[2] = t /\ Len(stack) > 0
    BY <1>3
  <2>2. BlockRead(b) /\ SubRead(t) /\ IsAtPlace(iterator, t)
    BY <1>2, <1>3, <1>5, <2>1 DEF RInv
  <2>3. d \in Drawing /\ t.of \in Object /\ d.kind[t.of] = "polyline" /\ t.depth = 1
    BY <1>1, <1>3, <2>2 DEF WInv, SubWalkOK, VertexLoops, SubRead
  <2>4. d.owner[t.of] = 0
    BY <1>5, <2>3 DEF Intact, RunsAreWhole
  <2>5. SubRead(v)
    BY <1>5, <2>3, <2>4, SubReadBegins
  <2>6. AllAtFirst(iterator)
    BY <1>1, <1>3, <1>5, <2>2, <2>3, PlacesAtTheEnd
  <2>7. v.steps = 0
    BY DEF VertexStream, Walk
  <2> QED BY <1>1, <2>2, <2>5, <2>6, <2>7, FirstPlaces DEF BlockRead
<1> HIDE DEF v
<1> QED
  BY <1>1, <1>3, <1>4, <1>5, BothLeft

(* A walk that is over has collected all that its entity owns.             *)
LEMMA AllCollected ==
  ASSUME d \in Drawing, Intact, NEW t \in WalkType, SubWalkOK(t), SubRead(t), Over(t),
         NEW subs, subs = IF InVertices(t) THEN Among(t.got, Vertices) ELSE t.got
  PROVE  GivenWhole(Entity(t.of, subs))
<1>1. t.of \in Object /\ t.of \in Nat /\ NextSub(t) \in Nat /\ t.of < NextSub(t)
  <2>1. t.of \in Object /\ t.steps \in Nat
    BY DEF SubWalkOK, WalkType
  <2>2. \A m \in Object : m \in Nat
    BY LinkTypes
  <2>3. \A m, n \in Nat : m + 1 + n \in Nat /\ m < m + 1 + n
    OBVIOUS
  <2> QED BY <2>1, <2>2, <2>3 DEF NextSub
<1>2. \A q \in Subs(t.of) : q < NextSub(t)
  BY <1>1, SubEndsWithTheRun, NothingBehindARun DEF Intact
<1>3. {q \in Contents(t.of) : q < NextSub(t)} = Contents(t.of)
  BY <1>2 DEF Contents
<1>4. InOrder(Ids(t.got), Contents(t.of))
  BY <1>3 DEF SubRead
<1>5. t.got \in Seq(Plain)
  BY PlainAreEntities DEF SubWalkOK
<1>6. subs = t.got
  <2>1. CASE InVertices(t)
    <3>1. /\ Len(Ids(t.got)) = Len(t.got) /\ Ids(t.got) \in Seq(Object)
          /\ \A k \in 1 .. Len(t.got) : Ids(t.got)[k] = t.got[k].id
      <4>1. \A e \in Plain : e.id \in Object
        BY DEF Plain
      <4> QED BY <1>5, <4>1, NumbersOf
    <3>2. DOMAIN Ids(t.got) = 1 .. Len(t.got)
      BY <3>1, LenProperties
    <3>3. \A k \in 1 .. Len(t.got) : t.got[k].id \in Contents(t.of)
      BY <1>4, <3>1, <3>2 DEF InOrder
    <3>4. d.kind[t.of] = "polyline"
      BY <2>1 DEF SubWalkOK, InVertices, VertexLoops
    <3>5. \A q \in Contents(t.of) : q \in Vertices
      <4> SUFFICES ASSUME NEW q \in Contents(t.of) PROVE q \in Vertices
        OBVIOUS
      <4>1. q \in Subs(t.of)
        BY DEF Contents
      <4>2. q \in Object /\ d.kind[q] = "vertex"
        BY <1>1, <3>4, <4>1, SubsAreARun DEF Intact
      <4> QED BY <4>2 DEF Vertices, IsVertex
    <3> QED BY <1>5, <2>1, <3>3, <3>5, AllAmong
  <2> QED BY <2>1
<1>7. \A s \in Range(subs) : s.subs = <<>>
  <2>1. \A s \in Range(t.got) : s \in Plain
    BY <1>5, RangeOfEntities
  <2> QED BY <1>6, <2>1 DEF Plain
<1>8. Entity(t.of, subs).id = t.of /\ Entity(t.of, subs).subs = subs
  BY DEF Entity
<1> QED
  BY <1>4, <1>6, <1>7, <1>8 DEF GivenWhole

LEMMA LeaveReads ==
  ASSUME WInv, AInv, RInv, Leave
  PROVE  RInv'
<1>1. Len(stack) = 2
  <2>1. \A n : n > 1 => ~(n = 0) /\ ~(n = 1)
    OBVIOUS
  <2>2. Len(stack) # 0 /\ Len(stack) # 1
    BY <2>1 DEF Leave
  <2>3. stack # <<>>
    BY <2>2
  <2> QED BY <2>2, <2>3, OneOrTwo
<1>2. PICK b \in WalkType, t \in WalkType :
        /\ stack = <<b, t>> /\ Top = t /\ stack[1] = b /\ pass # "done" /\ BlockWalkOK(b)
        /\ SubWalkOK(t) /\ t.of = b.at
        /\ \A x : Append(SubSeq(stack, 1, Len(stack) - 2), x) = <<x>>
  BY <1>1, SubWalk
<1> DEFINE subs == IF InVertices(t) THEN Among(t.got, Vertices) ELSE t.got
           made == <<Entity(t.of, subs)>>
<1>3. IsBlocks(b) /\ ~ByIterator(b)
  BY <1>2 DEF BlockWalkOK, IsBlocks, BlockLoops, ByIterator
<1>4. stack[Len(stack) - 1] = b
  BY <1>1, <1>2
<1>5. /\ Over(t) /\ d' = d /\ pass' = pass /\ stack' = <<Turned(b, made)>> /\ iterator' = iterator
  BY <1>2, <1>3, <1>4 DEF Leave, Turned, IteratorAfter
<1>6. d \in Drawing /\ ~Over(b) /\ Gives(b)
  <2>1. stack[2] = t
    BY <1>2
  <2> QED BY <1>1, <1>2, <2>1 DEF WInv, AInv, SubOK
<1>7. <<Entity(t.of, subs)>> \in Seq(Entities)
  BY <1>2, LeaveReports
<1>8. Entity(t.of, subs) \in Entities /\ Entity(t.of, subs).id = b.at
  <2>1. \A e : <<e>> \in Seq(Entities) => e \in Entities
    OBVIOUS
  <2> HIDE DEF subs
  <2> QED BY <1>2, <1>7, <2>1 DEF Entity
<1>9. ASSUME Intact
      PROVE  /\ PlaceRead(Turned(b, made)) /\ (pass' = "block record" => GivesRead(Turned(b, made)))
             /\ AllAtFirst(iterator')
  <2>1. stack[2] = t /\ Len(stack) > 0
    BY <1>2
  <2>2. BlockRead(b) /\ SubRead(t) /\ IsAtPlace(iterator, t)
    BY <1>1, <1>2, <1>9, <2>1 DEF RInv
  <2>3. GivenWhole(Entity(t.of, subs))
    BY <1>2, <1>5, <1>6, <1>9, <2>2, AllCollected
  <2>4. AllAtFirst(iterator)
    BY <1>2, <1>5, <1>6, <1>9, <2>2, PlacesAtTheEnd
  <2> HIDE DEF subs
  <2>5. PlaceRead(Turned(b, made)) /\ (GivesRead(b) => GivesRead(Turned(b, made)))
    BY <1>2, <1>6, <1>8, <1>9, <2>2, <2>3, BlockReadGoesOn DEF BlockRead
  <2> QED BY <1>5, <2>2, <2>4, <2>5 DEF BlockRead
<1> HIDE DEF made
<1> QED
  BY <1>2, <1>5, <1>9, BlockLeft

LEMMA ListEntityReads ==
  ASSUME WInv, AInv, RInv, ListEntity
  PROVE  RInv'
<1>1. Len(stack) = 1 /\ pass = "entities" /\ stack' = <<[Top EXCEPT !.got = Tail(@)]>>
      /\ d' = d /\ iterator' = iterator /\ pass' = pass
  BY DEF ListEntity, BlockIsWalked
<1>2. PICK b \in WalkType : Top = b /\ stack[1] = b
  BY <1>1, BlocksWalk
<1> DEFINE a == [b EXCEPT !.got = Tail(@)]
<1>3. a.loop = b.loop /\ a.at = b.at /\ a.steps = b.steps /\ a.depth = b.depth
  BY DEF WalkType
<1>4. stack' = <<a>>
  BY <1>1, <1>2
<1> HIDE DEF a
<1>5. ASSUME Intact PROVE PlaceRead(a) /\ AllAtFirst(iterator')
  <2>1. Len(stack) > 0 /\ Len(stack) # 2
    BY <1>1, OneIsNotTwo
  <2>2. PlaceRead(b) /\ AllAtFirst(iterator)
    BY <1>2, <1>5, <2>1 DEF RInv, BlockRead
  <2> QED BY <1>1, <1>3, <2>2 DEF PlaceRead
<1> QED
  BY <1>1, <1>4, <1>5, BlockLeft

(* A walk that begins has passed and given nothing.                        *)
LEMMA NothingGiven ==
  ASSUME d \in Drawing, Intact
  PROVE  PlaceRead(BlockWalk) /\ GivesRead(BlockWalk)
<1>1. Range(<<>>) = {}
  BY DEF Range
<1> QED
  BY <1>1, BlockReadBegins, NoneInOrder DEF GivesRead

LEMMA NextPassReads ==
  ASSUME WInv, AInv, RInv, NextPass
  PROVE  RInv'
<1>1. /\ Len(stack) = 1 /\ pass' = "block record" /\ stack' = <<BlockWalk>>
      /\ d' = d /\ iterator' = iterator
  BY DEF NextPass, BlockIsWalked
<1>2. ASSUME Intact PROVE PlaceRead(BlockWalk) /\ GivesRead(BlockWalk) /\ AllAtFirst(iterator')
  <2>1. Len(stack) # 2
    BY <1>1, OneIsNotTwo
  <2>2. AllAtFirst(iterator)
    BY <1>2, <2>1 DEF RInv
  <2> QED BY <1>1, <1>2, <2>2, NothingGiven DEF WInv
<1>3. pass' # "done"
  BY <1>1
<1> QED
  BY <1>1, <1>2, <1>3, BlockLeft

LEMMA CollectReads ==
  ASSUME WInv, AInv, RInv, Collect
  PROVE  RInv'
<1>1. /\ Len(stack) = 1 /\ Over(Top) /\ pass = "block record"
      /\ lists' = [lists EXCEPT !.record = Top.got] /\ pass' = "done" /\ stack' = <<>>
      /\ d' = d /\ iterator' = iterator
  BY DEF Collect, BlockIsWalked
<1>2. PICK b \in WalkType : Top = b /\ stack[1] = b
  BY <1>1, BlocksWalk
<1>3. d \in Drawing /\ lists'.record = b.got
  BY <1>1, <1>2 DEF WInv
<1>4. ASSUME Intact PROVE ReadAsOwned(b.got) /\ AllAtFirst(iterator)
  <2>1. Len(stack) > 0 /\ Len(stack) # 2
    BY <1>1, OneIsNotTwo
  <2>2. PlaceRead(b) /\ GivesRead(b) /\ AllAtFirst(iterator)
    BY <1>1, <1>2, <1>4, <2>1 DEF RInv, BlockRead
  <2>3. Passed(b) = Contents(0)
    BY <1>1, <1>2, <1>3, <2>2, BlockIsOver
  <2> QED BY <2>2, <2>3 DEF GivesRead, ReadAsOwned
<1>5. Intact' => ReadAsOwned(lists.record)' /\ AllAtFirst(iterator)'
  <2>1. Intact' => Intact
    BY <1>1, LinksStay
  <2>2. ReadAsOwned(lists.record)' <=> ReadAsOwned(lists'.record)
    BY <1>1, LinksStay DEF ReadAsOwned, GivenWhole, InOrder
  <2>3. AllAtFirst(iterator)' <=> AllAtFirst(iterator)
    BY <1>1, LinksStay DEF AllAtFirst
  <2> QED BY <1>3, <1>4, <2>1, <2>2, <2>3
<1>6. ~(Len(stack') > 0) /\ Len(stack') # 2
  <2>1. Len(stack') = 0
    BY <1>1
  <2>2. \A n : n = 0 => ~(n > 0) /\ n # 2
    OBVIOUS
  <2> QED BY <2>1, <2>2
<1> QED
  BY <1>5, <1>6 DEF RInv

LEMMA ReadsBegin ==
  ASSUME Init
  PROVE  RInv
<1>1. d \in Drawing /\ iterator = [o \in Object |-> 0] /\ pass = "entities" /\ stack = <<BlockWalk>>
  BY DEF Init, Object
<1>2. Len(stack) = 1 /\ stack[1] = BlockWalk
  BY <1>1
<1>3. Len(stack) # 2
  BY <1>2, OneIsNotTwo
<1>4. AllAtFirst(iterator)
  BY <1>1 DEF AllAtFirst
<1>5. Intact => PlaceRead(BlockWalk)
  BY <1>1, NothingGiven
<1>6. pass # "done" /\ pass # "block record"
  BY <1>1
<1> QED
  BY <1>2, <1>3, <1>4, <1>5, <1>6 DEF RInv, BlockRead

(* Nothing of such a drawing is left in the middle, and no run is open.    *)
LEMMA NothingLeftOrOpen ==
  ASSUME d \in Drawing, Intact
  PROVE  Straight /\ OpenRuns = {}
<1>1. Straight
  <2>1. SUFFICES ASSUME d.era = "R2004 on", NEW o \in Object, LeftInTheMiddle(o)
                 PROVE  FALSE
    BY DEF Straight
  <2>2. /\ Len(d.owned[o]) \in Nat
        /\ \A i \in 1 .. Len(d.owned[o]) :
             d.owned[o][i] = o + i /\ d.owned[o][i] \in Subs(o) /\ Resolve(d.owned[o][i]) = o + i
    BY <2>1, OwnLists
  <2>3. o \in Nat
    BY LinkTypes
  <2>4. ASSUME Len(d.owned[o]) > MaxOwned PROVE FALSE
    <3> DEFINE n == Len(d.owned[o])
    <3>1. n \in Nat /\ n > MaxOwned
      BY <2>2, <2>4
    <3> HIDE DEF n
    <3>2. MaxOwned \in Nat
      BY EntityWalksAssumption
    <3>3. \A k, m, r \in Nat : k > m => k \in 1 .. k /\ ~(r + k <= r + m)
      OBVIOUS
    <3>4. n \in 1 .. n /\ ~(o + n <= o + MaxOwned)
      BY <2>3, <3>1, <3>2, <3>3
    <3>5. d.owned[o][n] = o + n /\ d.owned[o][n] \in Subs(o)
      BY <2>2, <3>4 DEF n
    <3>6. d.owned[o][n] <= o + MaxOwned
      BY <3>5, SubsAreARun DEF Intact
    <3> QED BY <3>4, <3>5, <3>6
  <2>5. PICK i \in 2 .. Len(d.owned[o]) :
          LET p == Resolve(d.owned[o][i]) IN p = 0 \/ (d.kind[o] = "insert" /\ ~IsAttrib(p))
    BY <2>1, <2>4 DEF LeftInTheMiddle
  <2>6. i \in 1 .. Len(d.owned[o])
    <3>1. \A n \in Nat : \A k \in 2 .. n : k \in 1 .. n
      OBVIOUS
    <3> QED BY <2>2, <3>1
  <2>7. Resolve(d.owned[o][i]) \in Subs(o)
    BY <2>2, <2>6
  <2>8. PICK q \in Subs(o) : q = 0 \/ (d.kind[o] = "insert" /\ ~IsAttrib(q))
    BY <2>5, <2>7
  <2>9. q \in Object /\ q # 0 /\ d.kind[q] \in {"attrib", "vertex"}
        /\ d.kind[o] = IF d.kind[q] = "attrib" THEN "insert" ELSE "polyline"
    BY SubsAreARun, LinkTypes DEF Intact
  <2> QED BY <2>8, <2>9 DEF IsAttrib
<1>2. ASSUME NEW o \in Object, IsOpenRun(o) PROVE FALSE
  <2>1. d.kind[o] = "polyline" /\ ~RunIsClosed(o)
    BY <1>2 DEF IsOpenRun
  <2>2. PICK q \in Object : d.owner[q] = o /\ d.kind[q] = "seqend"
    BY <2>1 DEF Intact, RunsAreWhole
  <2>3. o # 0 /\ o \in Nat /\ q \in Nat
    BY LinkTypes
  <2>4. o < q
    BY <2>2, <2>3, OwnersAreBefore DEF Intact
  <2>5. \A p \in o + 1 .. q - 1 : p \in Nat /\ o < p /\ p <= q /\ p # q
    <3>1. \A m, n \in Nat : \A p \in m + 1 .. n - 1 : p \in Nat /\ m < p /\ p <= n /\ p # n
      OBVIOUS
    <3> QED BY <2>3, <3>1
  <2>6. \A p \in o + 1 .. q - 1 : p \in Object /\ d.owner[p] = o /\ d.kind[p] # "seqend"
    BY <2>2, <2>3, <2>5, RunsAreOfOne DEF Intact
  <2>7. \A p \in o + 1 .. q - 1 : IsVertex(p)
    BY <2>1, <2>3, <2>6 DEF Intact, RunsAreWhole, IsVertex
  <2>8. q > o
    <3>1. \A m, n \in Nat : m < n => n > m
      OBVIOUS
    <3> QED BY <2>3, <2>4, <3>1
  <2> QED BY <2>1, <2>2, <2>7, <2>8 DEF RunIsClosed
<1> QED
  BY <1>1, <1>2 DEF OpenRuns

(* Of a drawing whose links are as its owners say, both passes give each   *)
(* entity of the block once, in file order and with what it owns, in every *)
(* version and by every loop that walks them; and no polyline is reported. *)
THEOREM IntactDrawingsAreRead == Spec => []IntactIsRead
<1>1. Init => RInv
  BY ReadsBegin
<1>2. WInv /\ AInv /\ RInv /\ [Next]_vars => RInv'
  <2> SUFFICES ASSUME WInv, AInv, RInv, [Next]_vars
               PROVE  RInv'
    OBVIOUS
  <2>1. CASE Skip
    BY <2>1, SkipReads
  <2>2. CASE TakeRecord
    BY <2>2, TakeRecordReads
  <2>3. CASE ConvertNothing
    BY <2>3, ConvertNothingReads
  <2>4. CASE ConvertPlain
    BY <2>4, ConvertPlainReads
  <2>5. CASE Enter
    BY <2>5, EnterReads
  <2>6. CASE TryStream
    BY <2>6, TryStreamReads
  <2>7. CASE Leave
    BY <2>7, LeaveReads
  <2>8. CASE ListEntity
    BY <2>8, ListEntityReads
  <2>9. CASE NextPass
    BY <2>9, NextPassReads
  <2>10. CASE Collect
    BY <2>10, CollectReads
  <2>11. CASE UNCHANGED vars
    <3>1. /\ d' = d /\ iterator' = iterator /\ pass' = pass /\ stack' = stack /\ lists' = lists
      BY <2>11 DEF vars
    <3>2. Intact' <=> Intact
      BY <3>1, LinksStay
    <3>3. /\ PlaceRead(stack[1])' <=> PlaceRead(stack[1])
          /\ GivesRead(stack[1])' <=> GivesRead(stack[1])
          /\ SubRead(stack[2])' <=> SubRead(stack[2])
          /\ ReadAsOwned(lists.record)' <=> ReadAsOwned(lists.record)
      BY <3>1, ReadStays
    <3>4. /\ IsAtPlace(iterator, stack[2])' <=> IsAtPlace(iterator, stack[2])
          /\ AllAtFirst(iterator)' <=> AllAtFirst(iterator)
      BY <3>1, ReadStays, LinksStay DEF AllAtFirst
    <3> QED BY <3>1, <3>2, <3>3, <3>4 DEF RInv, BlockRead
  <2> QED BY <2>1, <2>2, <2>3, <2>4, <2>5, <2>6, <2>7, <2>8, <2>9, <2>10, <2>11 DEF Next
<1>3. WInv /\ RInv /\ PassesAgreeUnlessLeft => IntactIsRead
  <2> SUFFICES ASSUME WInv, RInv, PassesAgreeUnlessLeft, pass = "done", Intact
               PROVE  ReadAsOwned(lists.record) /\ PassesAgree /\ warned = {}
    BY DEF IntactIsRead
  <2>1. Straight /\ OpenRuns = {}
    BY NothingLeftOrOpen DEF WInv
  <2> QED BY <2>1 DEF RInv, WInv, PassesAgreeUnlessLeft, Straight
<1> QED
  BY <1>1, <1>2, <1>3, PassesKeep, PassesAgreeOverWholeLists, PTL DEF Spec
=============================================================================
