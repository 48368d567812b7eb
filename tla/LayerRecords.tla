---------------------------- MODULE LayerRecords ----------------------------
(***************************************************************************)
(* A DWG's layer: off, frozen, locked, its colour, whether it plots, its   *)
(* line weight (table_convert.rs over LibreDWG's dwg.spec and bits.c).     *)
(* Each era of the format says them elsewhere: before R13 in a flag word   *)
(* and the colour's sign, in R13 and R14 in bits or that sign, from R2000  *)
(* in one word, and from R2004 the colour in a value of its own, which     *)
(* LibreDWG looks up in the palette and the conversion takes apart again.  *)
(***************************************************************************)
EXTENDS Integers

CONSTANTS
  Layers,   \* layers as their drawing's author set them: see LayerType
  Palette   \* the index LibreDWG's palette has for a small value: [0 .. 255 -> 0 .. 256]

VARIABLES
  layer,   \* the layer, and how its file was written
  struct,  \* LibreDWG's Dwg_Object_LAYER
  stage,   \* "state", "colour", "sign", "convert", "done"
  record   \* the model's LayerRecord, Unread before

vars == <<layer, struct, stage, record>>

Releases == <<"R_11", "R_13", "R_14", "R_2000", "R_2004", "R_2018">>
Age(release) == CHOOSE n \in DOMAIN Releases : Releases[n] = release
Since(release) == Age(layer.release) >= Age(release)

(* Colour `aci`; `weight`: a code of five bits.  How it was written:       *)
(* whether the colour of a layer that is off is negated, with the bit set  *)
(* as well or instead, and whether the index stands beside a colour value. *)
LayerType ==
  [release : {Releases[n] : n \in DOMAIN Releases}, off : BOOLEAN, frozen : BOOLEAN, locked : BOOLEAN,
   plots : BOOLEAN, weight : 0 .. 31, aci : 1 .. 255,
   negated : BOOLEAN, bit : BOOLEAN, indexed : BOOLEAN]

(* What a writer of the layer's release can have written.                  *)
Writable(l) ==
  LET Has(release) == Age(l.release) >= Age(release) IN
  /\ ~l.off => ~l.negated /\ ~l.bit
  /\ l.off => CASE ~Has("R_13") -> l.negated /\ ~l.bit
                [] Has("R_13") /\ ~Has("R_2000") -> l.negated \/ l.bit
                [] OTHER -> l.bit
  /\ ~Has("R_2000") => l.plots /\ l.weight = 31
  /\ ~Has("R_2004") => l.indexed

Zeros ==
  [off |-> FALSE, frozen |-> FALSE, locked |-> FALSE, plotflag |-> FALSE, linewt |-> 0,
   index |-> 0, method |-> "none", rgb |-> 0]
Unread == [off |-> "unread"]
None == <<>>
Some(v) == <<v>>

Init ==
  /\ layer \in {l \in Layers : Writable(l)}
  /\ struct = Zeros /\ stage = "state" /\ record = Unread

GoOn(s) == stage' = s /\ UNCHANGED layer

(* The flag word before R13; the bits of R13 and R14; `flag0` from R2000.  *)
DecodeState ==
  /\ stage = "state"
  /\ struct' =
       [struct EXCEPT !.frozen = layer.frozen, !.locked = layer.locked,
                      !.off = IF Since("R_13") THEN layer.bit ELSE @,
                      !.plotflag = IF Since("R_2000") THEN layer.plots ELSE @,
                      !.linewt = IF Since("R_2000") THEN layer.weight ELSE @]
  /\ GoOn("colour") /\ UNCHANGED record

FileIndex == CASE ~layer.indexed -> 0 [] layer.indexed /\ layer.negated -> -layer.aci [] OTHER -> layer.aci

(* `bit_read_CMC`: an index, and from R2004 a value of method 0xC3, which  *)
(* the palette is asked for when the index is of no use.                   *)
DecodeColour ==
  /\ stage = "colour"
  /\ struct' =
       [struct EXCEPT !.index = IF Since("R_2004") /\ FileIndex \notin 1 .. 255 THEN Palette[layer.aci] ELSE FileIndex,
                      !.method = IF Since("R_2004") THEN "0xC3" ELSE @,
                      !.rgb = IF Since("R_2004") THEN layer.aci ELSE @]
  /\ GoOn(IF Since("R_2000") THEN "convert" ELSE "sign") /\ UNCHANGED record

(* A slip: before R13 and in R13 and R14, the sign alone says it.          *)
DecodeSignAlone ==
  /\ stage = "sign"
  /\ struct' = [struct EXCEPT !.off = struct.index < 0]
  /\ GoOn("convert") /\ UNCHANGED record

(* Off by the sign: alone before R13, beside the bit in R13 and R14.       *)
DecodeSign ==
  /\ stage = "sign"
  /\ struct' = [struct EXCEPT !.off = @ \/ struct.index < 0]
  /\ GoOn("convert") /\ UNCHANGED record

(* `resolve_layer_color_index`, and `layer_lineweight`: the default is -3.  *)
ColorIndex(s) == IF s.method = "0xC3" THEN s.rgb % 256 ELSE s.index
LayerLineweight(code) ==
  CASE code = 31 -> Some(-3) [] code \in 0 .. 23 -> Some(code) [] OTHER -> None

ConvertLayer ==
  /\ stage = "convert"
  /\ record' =
       [color_index |-> ColorIndex(struct), off |-> struct.off \/ struct.index < 0,
        frozen |-> struct.frozen, locked |-> struct.locked,
        plot |-> IF Since("R_2000") THEN Some(struct.plotflag) ELSE None,
        lineweight |-> IF Since("R_2000") THEN LayerLineweight(struct.linewt) ELSE None]
  /\ GoOn("done") /\ UNCHANGED struct

Next == DecodeState \/ DecodeColour \/ DecodeSign \/ ConvertLayer

Spec == Init /\ [][Next]_vars
-----------------------------------------------------------------------------
TypeOK ==
  /\ layer \in LayerType
  /\ struct \in [off : BOOLEAN, frozen : BOOLEAN, locked : BOOLEAN, plotflag : BOOLEAN, linewt : 0 .. 31,
                 index : -255 .. 256, method : {"none", "0xC3"}, rgb : 0 .. 255]
  /\ stage \in {"state", "colour", "sign", "convert", "done"}

(* A layer is read as its author set it, however its release writes that:  *)
(* a layer that is on never comes back off or the other way round, its     *)
(* colour is its own number and not the palette's for the same value, and  *)
(* a release that has no plot flag and no weights states none.             *)
LayerIsAsSet ==
  stage = "done" =>
    /\ record.off = layer.off /\ record.frozen = layer.frozen /\ record.locked = layer.locked
    /\ record.color_index \in {layer.aci} \cup (IF layer.off THEN {-layer.aci} ELSE {})
    /\ record.plot = IF Since("R_2000") THEN Some(layer.plots) ELSE None
    /\ record.lineweight =
         IF ~Since("R_2000") \/ layer.weight \in 24 .. 30 THEN None
         ELSE Some(IF layer.weight = 31 THEN -3 ELSE layer.weight)
=============================================================================
