----------------------------- MODULE MCEntityWalks -----------------------------
(***************************************************************************)
(* EntityWalks on small drawings: every well-formed sequence of five       *)
(* objects as each version links it, and a few objects with whatever links *)
(* damage may make of them.                                                *)
(***************************************************************************)
EXTENDS EntityWalks

CONSTANT IntactObjects \* how many objects an intact drawing has

Refs == 0 .. 4 \* of three objects: 0 none, 4 nowhere

Numbers(n) == [p \in 1 .. n |-> p]
NoLinks(n) == [p \in 1 .. n |-> 0]
NoLists(n) == [p \in 1 .. n |-> <<>>]
EntitiesOf(kind) == SelectSeq(Numbers(Len(kind)), LAMBDA p : kind[p] # "object")

Objects(era, kind, owner, erased) ==
  [era |-> era, kind |-> kind, owner |-> owner, erased |-> erased,
   entities |-> <<>>, first |-> 0, last |-> 0, next |-> NoLinks(Len(kind)),
   owned |-> NoLists(Len(kind)), firstSub |-> NoLinks(Len(kind)), lastSub |-> NoLinks(Len(kind))]

(* --- Intact: runs closed by a SEQEND, links as the owners say.           *)
OwnerIn(kind, p) ==
  IF kind[p] \notin {"attrib", "vertex", "seqend"} THEN 0
  ELSE LET owners == {q \in 1 .. p - 1 : kind[q] \in {"insert", "polyline"}}
       IN  IF owners = {} THEN 0 ELSE CHOOSE q \in owners : \A r \in owners : r <= q
OwnersIn(kind) == [p \in DOMAIN kind |-> OwnerIn(kind, p)]

WholeRuns(kind) ==
  LET Before(p) == IF p = 1 THEN "none" ELSE kind[p - 1]
      After2(p) == IF p = Len(kind) THEN "none" ELSE kind[p + 1]
  IN  \A p \in DOMAIN kind :
        CASE kind[p] = "attrib" -> Before(p) \in {"insert", "attrib"} /\ After2(p) \in {"attrib", "seqend"}
          [] kind[p] = "vertex" -> Before(p) \in {"polyline", "vertex"} /\ After2(p) \in {"vertex", "seqend"}
          [] kind[p] = "polyline" -> After2(p) \in {"vertex", "seqend"}
          [] kind[p] = "seqend" -> Before(p) \in {"attrib", "vertex", "polyline"}
          [] OTHER -> TRUE
IntactKinds == {k \in [1 .. IntactObjects -> Kind \ {"endblk"}] : WholeRuns(k)}

Siblings(own, kind, o) ==
  SelectSeq(EntitiesOf(kind), LAMBDA p : own[p] = o /\ (o = 0 \/ kind[p] # "seqend"))
FirstIn(es) == IF es = <<>> THEN 0 ELSE es[1]
LastIn(es) == IF es = <<>> THEN 0 ELSE es[Len(es)]
NextSibling(own, kind, p) ==
  FirstIn(SelectSeq(EntitiesOf(kind), LAMBDA q : q > p /\ own[q] = own[p]))

Listed2004(kind) ==
  LET own == OwnersIn(kind) IN
  [Objects("R2004 on", kind, own, {}) EXCEPT
     !.entities = Siblings(own, kind, 0),
     !.owned = [o \in DOMAIN kind |-> Siblings(own, kind, o)]]

Chained(kind, linked, array) ==
  LET own == OwnersIn(kind)
      Sub(o) == Siblings(own, kind, o)
  IN  [Objects("R13 to R2000", kind, own, {}) EXCEPT
         !.first = FirstIn(Siblings(own, kind, 0)),
         !.last = LastIn(Siblings(own, kind, 0)),
         !.next = [o \in DOMAIN kind |-> IF linked THEN NextSibling(own, kind, o) ELSE 0],
         !.owned = [o \in DOMAIN kind |-> IF array THEN Sub(o) ELSE <<>>],
         !.firstSub = [o \in DOMAIN kind |-> FirstIn(Sub(o))],
         !.lastSub = [o \in DOMAIN kind |-> LastIn(Sub(o))]]

Streamed(kind, erased) ==
  [Objects("pre-R13", kind, OwnersIn(kind), erased) EXCEPT !.entities = EntitiesOf(kind)]

Erasures(k) == {{}} \cup {{p} : p \in {q \in DOMAIN k : k[q] \notin {"vertex", "seqend"}}}

(* --- Damaged, with the cap on owned entities within reach.               *)
Orphans(n) == [p \in 1 .. n |-> 0]

DamagedList(k1, k2, es, o1) ==
  [Objects("R2004 on", <<k1, k2, "attrib">>, Orphans(3), {}) EXCEPT
     !.entities = es, !.owned = <<o1, IF k2 = "insert" THEN <<1, 3>> ELSE <<>>, <<>>>>]

DamagedChain(k, last, next, sub, array) ==
  [Objects("R13 to R2000", k, Orphans(3), {}) EXCEPT
     !.first = 1, !.last = last, !.next = next, !.owned = <<array, <<>>, <<>>>>,
     !.firstSub = [NoLinks(3) EXCEPT ![1] = sub[1]],
     !.lastSub = [NoLinks(3) EXCEPT ![1] = sub[2]]]

DamagedStream(k, erased) ==
  [Objects("pre-R13", k, Orphans(4), erased) EXCEPT !.entities = <<1, 2, 3, 4>>]

(* --- The drawings, by how each is made: TLC sorts these tuples far       *)
(* faster than the drawings.                                               *)
ListMakings ==
  {"damaged list"} \X {"insert", "polyline"} \X {"attrib", "vertex", "insert", "line"}
    \X {<<1>>, <<4, 2, 1>>, <<1, 1, 0>>, <<1, 2>>} \X BoundedSeq(1 .. 4, 4)

Makings ==
  ({"listed"} \X IntactKinds)
  \cup ({"chained"} \X IntactKinds \X BOOLEAN \X BOOLEAN)
  \cup UNION {{"streamed"} \X {k} \X Erasures(k) : k \in IntactKinds}
  \cup ListMakings
  \cup ({"damaged chain"}
          \X ({"insert", "polyline", "attrib"} \X {"attrib", "insert"} \X {"vertex", "attrib"})
          \X {2, 4} \X (Refs \X Refs \X {0, 1, 2}) \X ({1, 2, 4} \X {0, 3}))
  \cup ({"damaged array"} \X {"attrib", "insert", "object"} \X BoundedSeq(1 .. 4, 4))
  \cup ({"damaged stream"}
          \X [1 .. 4 -> {"insert", "attrib", "polyline", "vertex", "seqend", "endblk"}]
          \X {{}, {2}})

Made(m) ==
  CASE m[1] = "listed" -> Listed2004(m[2])
    [] m[1] = "chained" -> Chained(m[2], m[3], m[4])
    [] m[1] = "streamed" -> Streamed(m[2], m[3])
    [] m[1] = "damaged list" -> DamagedList(m[2], m[3], m[4], m[5])
    [] m[1] = "damaged chain" -> DamagedChain(m[2], m[3], m[4], m[5], <<>>)
    [] m[1] = "damaged array" ->
         DamagedChain(<<"insert", m[2], "attrib">>, 2, NoLinks(3), <<2, 3>>, m[3])
    [] m[1] = "damaged stream" -> DamagedStream(m[2], m[3])

DamagedLists == {Made(m) : m \in ListMakings}
MCDrawing == {Made(m) : m \in Makings}
=============================================================================
