----------------------------- MODULE Wireframes -----------------------------
(***************************************************************************)
(* The edges of polyface and polygon meshes.  Both are read from the       *)
(* records the polyline owns (its chain): a polyface's faces name its      *)
(* vertices by their order in the chain, and may stand before them; a      *)
(* polygon mesh is a grid whose vertices come row by row.                  *)
(*                                                                         *)
(* A position and a face are the records they were read from: an edge is a *)
(* pair of places in the chain.                                            *)
(***************************************************************************)
EXTENDS Integers, Sequences, FiniteSets

CONSTANT Polylines   \* the polylines looked at

(* A record has the four corners of a face, whether or not it is one.      *)
RecordType ==
  [type : {"VERTEX_PFACE", "VERTEX_MESH", "VERTEX_PFACE_FACE", "SEQEND"}, corners : [1 .. 4 -> Int]]
PolylineType ==
  [kind : {"pface", "mesh"}, chain : Seq(RecordType), m : Nat, n : Nat, closedM : BOOLEAN, closedN : BOOLEAN]

VARIABLES
  polyline,
  at,          \* the record the walk of the chain is at
  positions,   \* the records read as vertices, in order
  faces,       \* the face records, in order
  drawn,       \* faces done
  side,        \* sides done of the face at hand
  edges,
  skipped,
  phase        \* "gather", "draw", "done"
vars == <<polyline, at, positions, faces, drawn, side, edges, skipped, phase>>

(* A record: a vertex of a polyface, of a mesh, a face, or neither.        *)
IsVertexOf(kind, record) ==
  \/ record.type = "VERTEX_MESH"
  \/ kind = "pface" /\ record.type = "VERTEX_PFACE"
IsFace(record) == polyline.kind = "pface" /\ record.type = "VERTEX_PFACE_FACE"
Chain == polyline.chain

Init ==
  /\ polyline \in Polylines
  /\ at = 1 /\ positions = <<>> /\ faces = <<>>
  /\ drawn = 0 /\ side = 0 /\ edges = <<>> /\ skipped = 0
  /\ phase = "gather"

TakeRecord ==
  /\ phase = "gather" /\ at <= Len(Chain)
  /\ positions' = IF IsVertexOf(polyline.kind, Chain[at]) THEN Append(positions, at) ELSE positions
  /\ faces' = IF IsFace(Chain[at]) THEN Append(faces, at) ELSE faces
  /\ at' = at + 1
  /\ UNCHANGED <<polyline, drawn, side, edges, skipped, phase>>

EndChain ==
  /\ phase = "gather" /\ at > Len(Chain)
  /\ phase' = "draw"
  /\ UNCHANGED <<polyline, at, positions, faces, drawn, side, edges, skipped>>

-----------------------------------------------------------------------------
(* A face: its corners are 1-based, a negative one counts as positive, and *)
(* 0 is an unused slot.  Each corner is joined to the next, the last to    *)
(* the first.                                                              *)
Abs(i) == IF i < 0 THEN -i ELSE i
(* A slip: a corner whose edge is invisible is left out.                   *)
IsVisible(i) == i > 0
InUse(i) == i # 0

(* The slots in use, and the corners in them.                              *)
Slots(face) ==
  LET Kept(s) == IF InUse(face[s]) THEN <<s>> ELSE <<>>
  IN  Kept(1) \o Kept(2) \o Kept(3) \o Kept(4)
Corners(face) == [k \in DOMAIN Slots(face) |-> Abs(face[Slots(face)[k]])]

SideCount(corners) == IF Len(corners) < 2 THEN 0 ELSE Len(corners)
Side(corners, k) == <<corners[k], corners[(k % Len(corners)) + 1]>>

Known(i) == i \in DOMAIN positions
CanDraw(ends) == Known(ends[1]) /\ Known(ends[2])
Joined(ends) == <<positions[ends[1]], positions[ends[2]]>>

(* The face at hand.                                                       *)
Drawing == phase = "draw" /\ polyline.kind = "pface" /\ drawn < Len(faces)
Face == Corners(Chain[faces[drawn + 1]].corners)

DrawSide ==
  /\ Drawing /\ side < SideCount(Face)
  /\ LET ends == Side(Face, side + 1)
     IN  /\ edges' = IF CanDraw(ends) THEN Append(edges, Joined(ends)) ELSE edges
         /\ skipped' = IF CanDraw(ends) THEN skipped ELSE skipped + 1
  /\ side' = side + 1
  /\ UNCHANGED <<polyline, at, positions, faces, drawn, phase>>

EndFace ==
  /\ Drawing /\ side = SideCount(Face)
  /\ drawn' = drawn + 1 /\ side' = 0
  /\ UNCHANGED <<polyline, at, positions, faces, edges, skipped, phase>>

EndFaces ==
  /\ phase = "draw" /\ polyline.kind = "pface" /\ drawn = Len(faces)
  /\ phase' = "done"
  /\ UNCHANGED <<polyline, at, positions, faces, drawn, side, edges, skipped>>

-----------------------------------------------------------------------------
(* A grid of m rows of n: no edge unless exactly m * n vertices were read, *)
(* and every edge the grid promises is then skipped.                       *)
M == polyline.m
N == polyline.n
LessOne(k) == IF k = 0 THEN 0 ELSE k - 1
RowsJoined == IF polyline.closedM THEN M ELSE LessOne(M)
ColumnsJoined == IF polyline.closedN THEN N ELSE LessOne(N)
EdgeCount == RowsJoined * N + M * ColumnsJoined

Vertex(i, j) == positions[i * N + j + 1]
(* The k-th of the edges of a loop over `wide` columns inside a row.       *)
Row(k, wide) == (k - 1) \div wide
Column(k, wide) == (k - 1) % wide

DownEdges ==
  [k \in 1 .. RowsJoined * N |->
     <<Vertex(Row(k, N), Column(k, N)), Vertex((Row(k, N) + 1) % M, Column(k, N))>>]
AcrossEdges ==
  [k \in 1 .. M * ColumnsJoined |->
     <<Vertex(Row(k, ColumnsJoined), Column(k, ColumnsJoined)),
       Vertex(Row(k, ColumnsJoined), (Column(k, ColumnsJoined) + 1) % N)>>]

IsGrid == positions # <<>> /\ Len(positions) = M * N

DrawGrid ==
  /\ phase = "draw" /\ polyline.kind = "mesh"
  /\ edges' = IF IsGrid THEN DownEdges \o AcrossEdges ELSE <<>>
  /\ skipped' = IF IsGrid THEN 0 ELSE EdgeCount
  /\ phase' = "done"
  /\ UNCHANGED <<polyline, at, positions, faces, drawn, side>>

Next == TakeRecord \/ EndChain \/ DrawSide \/ EndFace \/ EndFaces \/ DrawGrid
Spec == Init /\ [][Next]_vars
-----------------------------------------------------------------------------
(* Every state holds values of its kind; edges join records of the chain.  *)
TypeOK ==
  /\ polyline \in Polylines
  /\ at \in 1 .. Len(Chain) + 1
  /\ positions \in Seq(1 .. Len(Chain))
  /\ faces \in Seq(1 .. Len(Chain)) /\ drawn \in 0 .. Len(faces)
  /\ side \in 0 .. 4
  /\ edges \in Seq((DOMAIN Chain) \X (DOMAIN Chain))
  /\ skipped \in Nat
  /\ phase \in {"gather", "draw", "done"}

(* The chain's vertices by their number, whatever stands between them.     *)
VertexRecords == {p \in DOMAIN Chain : IsVertexOf(polyline.kind, Chain[p])}
NumberOf(p) == Cardinality({q \in VertexRecords : q <= p})
Numbered(i) == CHOOSE p \in VertexRecords : NumberOf(p) = i
IsNumbered(i) == \E p \in VertexRecords : NumberOf(p) = i
Times(e) == Cardinality({k \in DOMAIN edges : edges[k] = e})

(* A side of a face: the face's record, and two corners with no used slot  *)
(* between them, going round.                                              *)
UsedSlots(p) == {s \in 1 .. 4 : Chain[p].corners[s] # 0}
Between(s, t) == IF s < t THEN s + 1 .. t - 1 ELSE (1 .. t - 1) \cup (s + 1 .. 4)
FaceSides ==
  UNION {{<<p, s, t>> : s \in UsedSlots(p), t \in UsedSlots(p)} :
           p \in {q \in DOMAIN Chain : IsFace(Chain[q])}}
SidesInUse ==
  {x \in FaceSides :
     x[2] # x[3] /\ Between(x[2], x[3]) \cap UsedSlots(x[1]) = {}}
End(x, k) == Abs(Chain[x[1]].corners[x[k]])
Drawable(x) == IsNumbered(End(x, 2)) /\ IsNumbered(End(x, 3))
SideEdge(x) == <<Numbered(End(x, 2)), Numbered(End(x, 3))>>

(* A polyface is drawn side by side: each side whose corners are vertices  *)
(* of the chain is an edge between them -- wherever the face's record      *)
(* stands -- and every other side is counted as skipped.                   *)
FacesAreDrawnOrCounted ==
  phase = "done" /\ polyline.kind = "pface" =>
    /\ \A e \in {edges[k] : k \in DOMAIN edges} \cup {SideEdge(x) : x \in {y \in SidesInUse : Drawable(y)}} :
         Times(e) = Cardinality({x \in SidesInUse : Drawable(x) /\ SideEdge(x) = e})
    /\ skipped = Cardinality({x \in SidesInUse : ~ Drawable(x)})

(* A grid's neighbours: a vertex and the one a row down, or a column on,   *)
(* in the chain's own order.                                               *)
Places == (0 .. M - 1) \X (0 .. N - 1)
Follows(k, size, closed) == {l \in 0 .. size - 1 : l = k + 1 \/ (closed /\ k = size - 1 /\ l = 0)}
Neighbours ==
  {p \in Places \X Places :
     \/ p[1][2] = p[2][2] /\ p[2][1] \in Follows(p[1][1], M, polyline.closedM)
     \/ p[1][1] = p[2][1] /\ p[2][2] \in Follows(p[1][2], N, polyline.closedN)}
RecordAt(a) == Numbered(a[1] * N + a[2] + 1)

(* A polygon mesh is drawn whole or not at all: with a vertex for every    *)
(* place of the grid, the edges join exactly the neighbours, and otherwise *)
(* as many are skipped as there would be.                                  *)
MeshIsWholeOrCounted ==
  phase = "done" /\ polyline.kind = "mesh" =>
    LET whole == Cardinality(VertexRecords) = M * N /\ M * N > 0
    IN  /\ whole => {edges[k] : k \in DOMAIN edges} =
                      {<<RecordAt(p[1]), RecordAt(p[2])>> : p \in Neighbours}
        /\ ~ whole => edges = <<>>
        /\ M > 1 /\ N > 1 => Len(edges) + skipped = Cardinality(Neighbours)
=============================================================================
