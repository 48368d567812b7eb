---------------------------- MODULE MCConversions ----------------------------
(***************************************************************************)
(* All small inputs of every part of the conversion.                       *)
(***************************************************************************)
EXTENDS Conversions

(* --- Three blocks: headers and BLOCK entities bare, numbered, named,     *)
(* empty or missing; tables in and out of the objects' order, with a hole, *)
(* with a block left out.                                                  *)
MCLetters == {"D"}
MCLongs == {"Model_Space"}
MCPartNames == {"P"}

MCName(s, n) == [stem |-> s, no |-> n]
Anon(n) == MCName("D", n)
BeforeR13 ==
  [preR13 : {TRUE},
   header : [1 .. 3 -> {Anon(-1), Anon(1), MCName("Model_Space", -1), MCName("P", -1)}],
   entity : [1 .. 3 -> {Unlinked, Empty, Anon(-1), Anon(1), Anon(2), MCName("P", -1)}],
   table  : {<<1, 2, 3>>, <<2, 1, 3>>, <<3, 1, 2>>, <<1, 0, 3>>, <<2, 3>>, <<2, 1, 2, 3>>}]
FromR13 ==
  [preR13 : {FALSE},
   header : [1 .. 3 -> {NoName, Anon(-1), Anon(1), MCName("P", -1)}],
   entity : [1 .. 3 -> {NoName, Unlinked, Empty, Anon(1), Anon(2)}],
   table  : {<<1, 2, 3>>}]
MCDrawings == BeforeR13 \cup FromR13

(* --- Polyfaces of up to four records, with faces of one to four corners, *)
(* of a corner out of range and of an unused slot between corners; grids   *)
(* of up to three by three, open and closed, with vertices missing, too    *)
(* many, and a foreign record among them.                                  *)
OfType(t) == [type |-> t, corners |-> <<0, 0, 0, 0>>]
FaceOf(c) == [type |-> "VERTEX_PFACE_FACE", corners |-> c]
Faces == {<<1, 2, 3, 0>>, <<1, -2, 0, 0>>, <<2, 0, 0, 0>>, <<-3, 1, 2, 4>>, <<0, 1, 0, 3>>}
Records == {OfType("VERTEX_PFACE"), OfType("VERTEX_MESH"), OfType("SEQEND")} \cup {FaceOf(c) : c \in Faces}
Chains == UNION {[1 .. n -> Records] : n \in 0 .. 4}
Pfaces == [kind : {"pface"}, chain : Chains, m : {0}, n : {0}, closedM : {FALSE}, closedN : {FALSE}]

MeshChain(n, foreign) ==
  [k \in 1 .. n |-> OfType(IF k = foreign THEN "VERTEX_PFACE" ELSE "VERTEX_MESH")]
Meshes ==
  [kind : {"mesh"}, chain : {MeshChain(n, f) : n \in 0 .. 10, f \in {0, 1, 3}},
   m : 0 .. 3, n : 0 .. 3, closedM : BOOLEAN, closedN : BOOLEAN]
MCPolylines == Pfaces \cup Meshes

(* --- Reads of the fields the conversion reads, by the type it reads them *)
(* as and by every other; of objects of the right type, of a wrong one, of *)
(* one the library does not find.                                          *)
Read1(kind, dxfname, sub, field, size) ==
  [kind : {kind}, dxfname : {dxfname}, sub_field : {"plotsettings"}, sub_dxfname : {sub},
   type : {"LEADER", "SPLINE", "LAYOUT", "no object"}, supertype : {"entity", "object"},
   field : field, size : size, countField : {"num_points"}, countSize : {4}, length : {0}, pointer : {"null"}]
Sizes == {1, 2, 4, 8}
MCReads ==
  Read1("entity", "LEADER", "", {"path_type", "num_points", "points", "degree"}, Sizes)
  \cup Read1("common", "", "", {"layer", "linewt", "num_eed", "reactors", "degree"}, Sizes)
  \cup Read1("header", "", "", {"DIMSCALE", "INSUNITS", "DIMPOST", "degree"}, Sizes)
  \cup Read1("embedded", "LAYOUT", "PLOTSETTINGS", {"paper_width", "plot_paper_unit", "paper_size", "degree"}, Sizes)
  \cup Read1("embedded", "LEADER", "PLOTSETTINGS", {"paper_width"}, {8})
MCArrays ==
  {[kind |-> "array", dxfname |-> t, sub_field |-> "", sub_dxfname |-> "", type |-> u, supertype |-> "entity",
    field |-> f, size |-> 8, countField |-> c, countSize |-> s,
    length |-> n, pointer |-> IF n = 0 THEN "null" ELSE p]
     : t \in {"LEADER", "SPLINE"}, u \in {"LEADER", "SPLINE"}, f \in {"points", "fit_pts"},
       c \in {"num_points", "num_fit_pts"}, s \in Sizes, n \in 0 .. 3, p \in {"null", "elements"}}
MCAsks == MCReads \cup MCArrays

(* --- Strings, with the bytes and the tables of MCTextReads.              *)
MCCodes == {<<2>>, <<3, 0>>, <<3, 2>>, <<2, 3>>, <<1, 0>>}
MCLeads == {3}
MCLabels == {"p1", "p2"}

(* --- Every release, with headers that end before and after each variable.*)
MCDwgs ==
  [release : {"R_1_1", "R_1_2", "R_1_3", "R_1_4", "R_2_0b", "R_2_0", "R_2_10", "R_2_21", "R_2_22", "R_2_4",
              "R_2_5", "R_2_6", "R_9", "R_9c1", "R_10", "R_11b1", "R_11b2", "R_11", "R_13b1", "R_13", "R_14",
              "R_2000b", "R_2000", "R_2004", "R_2007", "R_2018"},
   count : {0, 74, 75, 83, 84, 101, 102, 104, 105, 114, 115, 120, 121, 122, 129, 158, 160, 161, 204, 205},
   template : BOOLEAN]

(* --- A thin and a thick stroke, in no size and in a small and a large    *)
(* one; clouds inside the drawing and past it, and no drawing at all.      *)
MCAsked == [px : {1, 3, 10}, fit : {-1, 0, 100, 400, 1000}]  \* -1 is StrokeRounds' NoFit
MCDrawn ==
  [drawing : {0, 9000}, clouds : {0}, margins : {0}, own : {1, 700}]
  \cup [drawing : {0, 9000}, clouds : {5000, 9000, 12000}, margins : {20}, own : {1, 700}]

(* --- Every style an entity of each era can state.                        *)
MCEntities ==
  [release : {"R_1_4", "R_2_0b", "R_11", "R_13", "R_14", "R_2000", "R_2004", "R_2018"},
   linetype : {"BYLAYER", "BYBLOCK", "CONTINUOUS", "HIDDEN"}, scale : {1, 2}, index : {0, 1, 256},
   direct : {"None", "rgb", "book"}, weight : {"bylayer", "hundredths", "unused"}, alpha : {"bylayer", "alpha"}]

(* --- Up to three nodes of up to two lines, with points, with none, and   *)
(* with points the record counts and does not have.                        *)
Lines ==
  {[points |-> 2, stored |-> TRUE], [points |-> 0, stored |-> FALSE], [points |-> 1, stored |-> FALSE]}
NodesOf(most) == UNION {[1 .. n -> Lines] : n \in 0 .. most}
MCMultileaders ==
  UNION {[1 .. n -> NodesOf(2)] : n \in 0 .. 2} \cup [1 .. 3 -> NodesOf(1)]

(* --- Grids of up to two by two cells and one past the limit of four,     *)
(* with columns, rows or cells missing, with spans, blocks, and texts in   *)
(* every place a cell has for one.                                         *)
CellOf(type, columns, rows, own, data, value, string) ==
  [type |-> type, merged |-> FALSE, columns |-> columns, rows |-> rows, text_value |-> own,
   data_type |-> data, value_string |-> value, data_string |-> string]
Texts ==
  {CellOf(1, 1, 1, "text", "none", "null", "null"), CellOf(1, 1, 1, "null", "string", "value", "data"),
   CellOf(1, 1, 1, "empty", "string", "empty", "data"), CellOf(1, 1, 1, "null", "other", "null", "data"),
   CellOf(1, 1, 1, "null", "none", "null", "null"), CellOf(2, 2, 1, "null", "other", "null", "null")}
Spans ==
  {CellOf(3, 1, 2, "text", "other", "null", "null"), CellOf(1, 0, 1, "text", "none", "null", "null"),
   CellOf(1, 2, 1, "text", "none", "null", "null")}
TableOf(rows, cols, widths, heights, cells) ==
  [rows |-> rows, cols |-> cols, widths |-> widths, heights |-> heights, cells |-> cells]
MCTables ==
  {TableOf(2, 2, 2, 2, cells) : cells \in [1 .. 4 -> Texts]}
  \cup {TableOf(2, 2, 2, 2, <<a, b, c, a>>) : a \in Texts, b \in Spans, c \in Texts \cup Spans}
  \cup {TableOf(r, c, w, h, cells) : r \in 0 .. 2, c \in 0 .. 2, w \in 0 .. 2, h \in 0 .. 2,
          cells \in {<<>>} \cup {[k \in 1 .. 4 |-> cell] : cell \in Texts \cup Spans}}
  \cup {TableOf(3, 2, 2, 3, [k \in 1 .. 6 |-> cell]) : cell \in Texts}

(* --- A list under ACAD, or a look-alike of another application before    *)
(* it, with up to four items of any kind behind its head, the data of      *)
(* another application among them.                                         *)
Item(first, app, holds) == [first |-> first, app |-> app, holds |-> holds]
Before ==
  {<<>>, <<Item(TRUE, "other", "string")>>, <<Item(TRUE, "other", "DSTYLE"), Item(FALSE, "other", "open")>>}
Heads ==
  {<<Item(TRUE, "ACAD", "DSTYLE")>>, <<Item(TRUE, "ACAD", "string"), Item(FALSE, "ACAD", "DSTYLE")>>,
   <<Item(TRUE, "other", "DSTYLE")>>}
Bodies ==
  UNION {[1 .. n -> {"short", "real", "handle", "open", "close", "point", "null"}] : n \in 0 .. 4}
BodyOf(app, body) == [n \in DOMAIN body |-> Item(FALSE, app, body[n])]
Behind(body, another) == BodyOf("ACAD", body) \o (IF another THEN <<Item(TRUE, "other", "short")>> ELSE <<>>)
MCExtendedData ==
  {before \o head \o Behind(body, another) :
     before \in Before, head \in {h \in Heads : h[1].app = "ACAD"}, body \in Bodies, another \in BOOLEAN}
  \cup {before \o head \o BodyOf("other", body) :
     before \in Before, head \in {h \in Heads : h[1].app = "other"}, body \in Bodies}

(* --- Layers of three colours, one of which the palette has for another;  *)
(* weights of every kind.                                                  *)
MCLayers ==
  [release : {"R_11", "R_13", "R_14", "R_2000", "R_2004", "R_2018"}, off : BOOLEAN, frozen : BOOLEAN,
   locked : BOOLEAN, plots : BOOLEAN, weight : {0, 11, 24, 29, 31}, aci : {1, 104, 255},
   negated : BOOLEAN, bit : BOOLEAN, indexed : BOOLEAN]
MCPalette == [v \in 0 .. 255 |-> IF v = 104 THEN 176 ELSE 256]
=============================================================================
