--------------------------- MODULE ConversionProofs ---------------------------
(***************************************************************************)
(* The parts of the conversion, for inputs of any number and size.         *)
(***************************************************************************)
EXTENDS Conversions, FiniteSetTheorems, SequenceTheorems, WellFoundedInduction, TLAPS

-----------------------------------------------------------------------------
(* Every part keeps to its own variables: those of the others are as they  *)
(* were put aside.                                                         *)
PartStep == ConversionNext \/ UNCHANGED conversionVars

LEMMA PartsStay ==
  ASSUME PartStep
  PROVE  part' = part
BY DEF PartStep, ConversionNext, conversionVars

LEMMA LayersStep ==
  ASSUME part = "layer"
  PROVE  /\ ConversionInit => L!Init
         /\ PartStep => L!Next \/ UNCHANGED L!vars
<1>1. ConversionInit => L!Init
  BY DEF ConversionInit, RecordInit
<1>2. PartStep => L!Next \/ UNCHANGED L!vars
  BY DEF PartStep, ConversionNext, RecordNext, conversionVars, recordVars, L!vars
<1> QED BY <1>1, <1>2

-----------------------------------------------------------------------------
(* Releases by their age.                                                  *)
LEMMA LayerAges ==
  /\ L!Age("R_11") = 1 /\ L!Age("R_13") = 2 /\ L!Age("R_14") = 3
  /\ L!Age("R_2000") = 4 /\ L!Age("R_2004") = 5 /\ L!Age("R_2018") = 6
BY DEF L!Age, L!Releases

LEMMA AgesOfLayers ==
  ASSUME NEW l \in L!LayerType
  PROVE  L!Age(l.release) \in 1 .. 6
<1>1. l.release \in {L!Releases[n] : n \in DOMAIN L!Releases}
  BY DEF L!LayerType
<1>2. l.release \in {"R_11", "R_13", "R_14", "R_2000", "R_2004", "R_2018"}
  BY <1>1 DEF L!Releases
<1> QED BY <1>2, LayerAges

Own == 1 .. 255
Values == 0 .. 255
Colours == 0 .. 256

LEMMA PaletteAnswers ==
  ASSUME NEW n \in Own
  PROVE  Palette[n] \in Colours
<1>1. Palette \in [Values -> Colours]
  BY ConversionAssumption DEF Values, Colours
<1>2. n \in Values
  BY DEF Own, Values
<1> QED BY <1>1, <1>2

LayerIndex == {"none", "0xC3"}
LayerStruct ==
  [off : BOOLEAN, frozen : BOOLEAN, locked : BOOLEAN, plotflag : BOOLEAN, linewt : 0 .. 31,
   index : -255 .. 256, method : LayerIndex, rgb : 0 .. 255]

(* How far the decoding of a layer has come, and what it left.             *)
LayerInv ==
  /\ w1 \in L!LayerType /\ L!Writable(w1) /\ w2 \in LayerStruct
  /\ w3 \in {"state", "colour", "sign", "convert", "done"}
  /\ w3 = "state" => w2 = L!Zeros
  /\ w3 # "state" =>
       /\ w2.frozen = w1.frozen /\ w2.locked = w1.locked
       /\ L!Since("R_2000") => w2.plotflag = w1.plots /\ w2.linewt = w1.weight
  /\ w3 \in {"colour", "sign"} => w2.off <=> (L!Since("R_13") /\ w1.bit)
  /\ w3 = "colour" => w2.method = "none"
  /\ w3 = "sign" => ~L!Since("R_2000") /\ w2.index = L!FileIndex /\ w2.method = "none"
  /\ w3 \in {"convert", "done"} =>
       /\ (w2.off \/ w2.index < 0) <=> w1.off
       /\ L!ColorIndex(w2) \in {w1.aci} \cup (IF w1.off THEN {-w1.aci} ELSE {})
  /\ w3 = "done" =>
       w4 = [color_index |-> L!ColorIndex(w2), off |-> w2.off \/ w2.index < 0,
             frozen |-> w2.frozen, locked |-> w2.locked,
             plot |-> IF L!Since("R_2000") THEN L!Some(w2.plotflag) ELSE L!None,
             lineweight |-> IF L!Since("R_2000") THEN L!LayerLineweight(w2.linewt) ELSE L!None]

LEMMA LayerBegins ==
  ASSUME L!Init
  PROVE  LayerInv
<1>1. w1 \in L!LayerType
  BY ConversionAssumption DEF L!Init
<1>2. L!Zeros \in LayerStruct
  BY DEF L!Zeros, LayerStruct, LayerIndex
<1> QED
  BY <1>1, <1>2 DEF L!Init, LayerInv

LEMMA DecodeStateKeeps ==
  ASSUME LayerInv, L!DecodeState
  PROVE  LayerInv'
<1> DEFINE off == IF L!Since("R_13") THEN w1.bit ELSE w2.off
           plot == IF L!Since("R_2000") THEN w1.plots ELSE w2.plotflag
           weight == IF L!Since("R_2000") THEN w1.weight ELSE w2.linewt
<1>1. /\ w3 = "state" /\ w3' = "colour" /\ w1' = w1
      /\ w2' = [w2 EXCEPT !.frozen = w1.frozen, !.locked = w1.locked, !.off = off,
                          !.plotflag = plot, !.linewt = weight]
  BY DEF L!DecodeState, L!GoOn
<1>2. w2 = L!Zeros /\ w2 \in LayerStruct /\ w1 \in L!LayerType
  BY <1>1 DEF LayerInv
<1>3. /\ w1.frozen \in BOOLEAN /\ w1.locked \in BOOLEAN /\ off \in BOOLEAN /\ plot \in BOOLEAN
      /\ weight \in 0 .. 31
  BY <1>2 DEF LayerStruct, L!LayerType
<1>4. (off <=> (L!Since("R_13") /\ w1.bit)) /\ w2.method = "none"
  <2>1. w2.off = FALSE /\ w2.method = "none"
    BY <1>2 DEF L!Zeros
  <2> QED BY <1>3, <2>1
<1>5. L!Since("R_2000") => plot = w1.plots /\ weight = w1.weight
  OBVIOUS
<1> HIDE DEF off, plot, weight
<1>6. /\ w2' \in LayerStruct /\ w2'.frozen = w1.frozen /\ w2'.locked = w1.locked
      /\ w2'.off = off /\ w2'.plotflag = plot /\ w2'.linewt = weight /\ w2'.method = w2.method
  <2> DEFINE s1 == [w2 EXCEPT !.frozen = w1.frozen]
             s2 == [s1 EXCEPT !.locked = w1.locked]
             s3 == [s2 EXCEPT !.off = off]
             s4 == [s3 EXCEPT !.plotflag = plot]
             s5 == [s4 EXCEPT !.linewt = weight]
  <2>1. s1 \in LayerStruct /\ s1.frozen = w1.frozen /\ s1.method = w2.method
    BY <1>2, <1>3 DEF LayerStruct
  <2> HIDE DEF s1
  <2>2. s2 \in LayerStruct /\ s2.locked = w1.locked /\ s2.frozen = w1.frozen /\ s2.method = w2.method
    BY <1>3, <2>1 DEF LayerStruct
  <2> HIDE DEF s2
  <2>3. /\ s3 \in LayerStruct /\ s3.locked = w1.locked /\ s3.frozen = w1.frozen /\ s3.method = w2.method
        /\ s3.off = off
    BY <1>3, <2>2 DEF LayerStruct
  <2> HIDE DEF s3
  <2>4. /\ s4 \in LayerStruct /\ s4.locked = w1.locked /\ s4.frozen = w1.frozen /\ s4.method = w2.method
        /\ s4.off = off /\ s4.plotflag = plot
    BY <1>3, <2>3 DEF LayerStruct
  <2> HIDE DEF s4
  <2>5. /\ s5 \in LayerStruct /\ s5.locked = w1.locked /\ s5.frozen = w1.frozen /\ s5.method = w2.method
        /\ s5.off = off /\ s5.plotflag = plot /\ s5.linewt = weight
    BY <1>3, <2>4 DEF LayerStruct
  <2>6. w2' = s5
    BY <1>1, Zenon DEF s1, s2, s3, s4
  <2> HIDE DEF s5
  <2> QED BY <2>5, <2>6
<1>7. L!Since("R_13")' = L!Since("R_13") /\ L!Since("R_2000")' = L!Since("R_2000")
  BY <1>1 DEF L!Since
<1> QED
  BY <1>1, <1>4, <1>5, <1>6, <1>7 DEF LayerInv

LEMMA DecodeColourKeeps ==
  ASSUME LayerInv, L!DecodeColour
  PROVE  LayerInv'
<1> DEFINE file == L!FileIndex
           index == IF L!Since("R_2004") /\ file \notin 1 .. 255 THEN Palette[w1.aci] ELSE file
           method == IF L!Since("R_2004") THEN "0xC3" ELSE w2.method
           rgb == IF L!Since("R_2004") THEN w1.aci ELSE w2.rgb
           next == IF L!Since("R_2000") THEN "convert" ELSE "sign"
<1>1. /\ w3 = "colour" /\ w3' = next /\ w1' = w1
      /\ w2' = [w2 EXCEPT !.index = index, !.method = method, !.rgb = rgb]
  BY DEF L!DecodeColour, L!GoOn
<1>2. /\ w1 \in L!LayerType /\ L!Writable(w1) /\ w2 \in LayerStruct /\ w2.method = "none"
      /\ w2.frozen = w1.frozen /\ w2.locked = w1.locked
      /\ L!Since("R_2000") => w2.plotflag = w1.plots /\ w2.linewt = w1.weight
      /\ w2.off <=> (L!Since("R_13") /\ w1.bit)
  BY <1>1 DEF LayerInv
<1>3. /\ w1.aci \in 1 .. 255 /\ w1.off \in BOOLEAN /\ w1.negated \in BOOLEAN /\ w1.bit \in BOOLEAN
      /\ w1.indexed \in BOOLEAN /\ w2.rgb \in 0 .. 255 /\ w2.method \in LayerIndex
  BY <1>2 DEF L!LayerType, LayerStruct
<1>4. Palette[w1.aci] \in 0 .. 256
  <2>1. w1.aci \in Own
    BY <1>3 DEF Own
  <2>2. Palette[w1.aci] \in Colours
    BY <2>1, PaletteAnswers
  <2> QED BY <2>2 DEF Colours
<1>5. file = IF ~w1.indexed THEN 0 ELSE IF w1.negated THEN -w1.aci ELSE w1.aci
  BY <1>3 DEF L!FileIndex
<1>6. file \in -255 .. 255 /\ index \in -255 .. 256 /\ rgb \in 0 .. 255 /\ method \in LayerIndex
  BY <1>3, <1>4, <1>5 DEF LayerIndex
<1>7. /\ L!Since("R_2004") => L!Since("R_2000")
      /\ L!Since("R_2000") => L!Since("R_13")
  BY <1>2, LayerAges, AgesOfLayers DEF L!Since
<1>8. /\ ~w1.off => ~w1.negated /\ ~w1.bit
      /\ L!Since("R_2000") /\ w1.off => w1.bit
      /\ ~L!Since("R_2004") => w1.indexed
  <2>1. ~w1.off => ~w1.negated /\ ~w1.bit
    BY <1>2 DEF L!Writable
  <2>2. ~L!Since("R_2004") => w1.indexed
    BY <1>2 DEF L!Writable, L!Since
  <2>3. L!Since("R_2000") /\ w1.off => w1.bit
    BY <1>2, <1>7 DEF L!Writable, L!Since
  <2> QED BY <2>1, <2>2, <2>3
<1> DEFINE s1 == [w2 EXCEPT !.index = index]
           s2 == [s1 EXCEPT !.method = method]
           s3 == [s2 EXCEPT !.rgb = rgb]
<1> HIDE DEF file, index, method, rgb
<1>9. /\ w2' \in LayerStruct /\ w2'.index = index /\ w2'.method = method /\ w2'.rgb = rgb
      /\ w2'.frozen = w2.frozen /\ w2'.locked = w2.locked /\ w2'.off = w2.off
      /\ w2'.plotflag = w2.plotflag /\ w2'.linewt = w2.linewt
  <2>1. /\ s1 \in LayerStruct /\ s1.index = index
        /\ s1.frozen = w2.frozen /\ s1.locked = w2.locked /\ s1.off = w2.off
        /\ s1.plotflag = w2.plotflag /\ s1.linewt = w2.linewt
    BY <1>2, <1>6 DEF LayerStruct
  <2> HIDE DEF s1
  <2>2. /\ s2 \in LayerStruct /\ s2.index = index /\ s2.method = method
        /\ s2.frozen = w2.frozen /\ s2.locked = w2.locked /\ s2.off = w2.off
        /\ s2.plotflag = w2.plotflag /\ s2.linewt = w2.linewt
    BY <1>6, <2>1 DEF LayerStruct
  <2> HIDE DEF s2
  <2>3. /\ s3 \in LayerStruct /\ s3.index = index /\ s3.method = method /\ s3.rgb = rgb
        /\ s3.frozen = w2.frozen /\ s3.locked = w2.locked /\ s3.off = w2.off
        /\ s3.plotflag = w2.plotflag /\ s3.linewt = w2.linewt
    BY <1>6, <2>2 DEF LayerStruct
  <2>4. w2' = s3
    BY <1>1, Zenon DEF s1, s2
  <2> HIDE DEF s3
  <2> QED BY <2>3, <2>4
<1>10. /\ L!Since("R_13")' = L!Since("R_13") /\ L!Since("R_2000")' = L!Since("R_2000")
       /\ L!FileIndex' = file
  BY <1>1 DEF L!Since, L!FileIndex, file
<1>11. CASE L!Since("R_2000")
  <2>1. w3' = "convert"
    BY <1>1, <1>11
  <2>2. (w2'.off \/ w2'.index < 0) <=> w1.off
    <3>1. w2'.off <=> w1.off
      BY <1>2, <1>7, <1>8, <1>9, <1>11
    <3>2. w1.off \/ index >= 0
      BY <1>3, <1>4, <1>5, <1>8 DEF index
    <3> QED BY <1>6, <1>9, <3>1, <3>2
  <2>3. L!ColorIndex(w2') \in {w1.aci} \cup (IF w1.off THEN {-w1.aci} ELSE {})
    <3>1. CASE L!Since("R_2004")
      <4>1. L!ColorIndex(w2') = w1.aci % 256
        BY <1>9, <3>1 DEF L!ColorIndex, method, rgb
      <4>2. w1.aci % 256 = w1.aci
        BY <1>3, SMT
      <4> QED BY <4>1, <4>2
    <3>2. CASE ~L!Since("R_2004")
      <4>1. L!ColorIndex(w2') = file
        BY <1>2, <1>9, <3>2 DEF L!ColorIndex, method, index
      <4> QED BY <1>3, <1>5, <1>8, <3>2, <4>1
    <3> QED BY <3>1, <3>2
  <2> QED BY <1>1, <1>2, <1>9, <1>10, <2>1, <2>2, <2>3 DEF LayerInv
<1>12. CASE ~L!Since("R_2000")
  <2>1. w3' = "sign" /\ index = file /\ method = "none"
    BY <1>1, <1>2, <1>7, <1>12 DEF index, method
  <2> QED BY <1>1, <1>2, <1>9, <1>10, <1>12, <2>1 DEF LayerInv
<1> QED BY <1>11, <1>12

LEMMA DecodeSignKeeps ==
  ASSUME LayerInv, L!DecodeSign
  PROVE  LayerInv'
<1> DEFINE off == w2.off \/ w2.index < 0
<1>1. /\ w3 = "sign" /\ w3' = "convert" /\ w1' = w1 /\ w2' = [w2 EXCEPT !.off = off]
  BY DEF L!DecodeSign, L!GoOn
<1>2. /\ w1 \in L!LayerType /\ L!Writable(w1) /\ w2 \in LayerStruct
      /\ w2.frozen = w1.frozen /\ w2.locked = w1.locked
      /\ ~L!Since("R_2000") /\ w2.index = L!FileIndex /\ w2.method = "none"
      /\ w2.off <=> (L!Since("R_13") /\ w1.bit)
  BY <1>1 DEF LayerInv
<1>3. /\ w1.aci \in 1 .. 255 /\ w1.off \in BOOLEAN /\ w1.negated \in BOOLEAN /\ w1.bit \in BOOLEAN
      /\ w1.indexed \in BOOLEAN
  BY <1>2 DEF L!LayerType
<1>4. /\ ~w1.off => ~w1.negated /\ ~w1.bit
      /\ ~L!Since("R_13") /\ w1.off => w1.negated
      /\ L!Since("R_13") /\ w1.off => w1.negated \/ w1.bit
      /\ w1.indexed
  <2>1. ~w1.off => ~w1.negated /\ ~w1.bit
    BY <1>2 DEF L!Writable
  <2>2. ~L!Since("R_13") /\ w1.off => w1.negated
    BY <1>2, <1>3 DEF L!Writable, L!Since
  <2>3. L!Since("R_13") /\ w1.off => w1.negated \/ w1.bit
    BY <1>2, <1>3 DEF L!Writable, L!Since
  <2>4. ~L!Since("R_2004")
    BY <1>2, LayerAges, AgesOfLayers DEF L!Since
  <2>5. w1.indexed
    BY <1>2, <2>4 DEF L!Writable, L!Since
  <2> QED BY <2>1, <2>2, <2>3, <2>5
<1>5. w2.index = IF w1.negated THEN -w1.aci ELSE w1.aci
  BY <1>2, <1>3, <1>4 DEF L!FileIndex
<1>6. (off \/ w2.index < 0) <=> w1.off
  BY <1>2, <1>3, <1>4, <1>5
<1>7. off \in BOOLEAN
  OBVIOUS
<1> HIDE DEF off
<1>8. /\ w2' \in LayerStruct /\ w2'.off = off
      /\ w2'.frozen = w1.frozen /\ w2'.locked = w1.locked
      /\ w2'.index = w2.index /\ w2'.method = "none"
  BY <1>1, <1>2, <1>7 DEF LayerStruct
<1>9. L!ColorIndex(w2') \in {w1.aci} \cup (IF w1.off THEN {-w1.aci} ELSE {})
  <2>1. L!ColorIndex(w2') = w2.index
    BY <1>8 DEF L!ColorIndex
  <2> QED BY <1>3, <1>4, <1>5, <2>1
<1>10. L!Since("R_2000")' = L!Since("R_2000")
  BY <1>1 DEF L!Since
<1> QED BY <1>1, <1>2, <1>6, <1>8, <1>9, <1>10 DEF LayerInv

LEMMA ConvertLayerKeeps ==
  ASSUME LayerInv, L!ConvertLayer
  PROVE  LayerInv'
<1>1. w3 = "convert" /\ w3' = "done" /\ w1' = w1 /\ w2' = w2
  BY DEF L!ConvertLayer, L!GoOn
<1>2. L!Since("R_2000")' = L!Since("R_2000") /\ L!ColorIndex(w2)' = L!ColorIndex(w2)
  BY <1>1 DEF L!Since, L!ColorIndex
<1>3. w4' = [color_index |-> L!ColorIndex(w2), off |-> w2.off \/ w2.index < 0,
             frozen |-> w2.frozen, locked |-> w2.locked,
             plot |-> IF L!Since("R_2000") THEN L!Some(w2.plotflag) ELSE L!None,
             lineweight |-> IF L!Since("R_2000") THEN L!LayerLineweight(w2.linewt) ELSE L!None]
  BY DEF L!ConvertLayer
<1>4. /\ w1' \in L!LayerType /\ L!Writable(w1)' /\ w2' \in LayerStruct
      /\ w2'.frozen = w1'.frozen /\ w2'.locked = w1'.locked
      /\ L!Since("R_2000")' => w2'.plotflag = w1'.plots /\ w2'.linewt = w1'.weight
      /\ (w2'.off \/ w2'.index < 0) <=> w1'.off
      /\ L!ColorIndex(w2)' \in {w1'.aci} \cup (IF w1'.off THEN {-w1'.aci} ELSE {})
  BY <1>1, <1>2 DEF LayerInv
<1> QED
  BY <1>1, <1>2, <1>3, <1>4 DEF LayerInv

(* A converted layer's record, put together from what its struct holds.    *)
LEMMA LayerIsSet ==
  ASSUME LayerInv
  PROVE  L!LayerIsAsSet
<1> SUFFICES ASSUME w3 = "done" PROVE L!LayerIsAsSet
  BY DEF L!LayerIsAsSet
<1>1. w4 = [color_index |-> L!ColorIndex(w2), off |-> w2.off \/ w2.index < 0,
            frozen |-> w2.frozen, locked |-> w2.locked,
            plot |-> IF L!Since("R_2000") THEN L!Some(w2.plotflag) ELSE L!None,
            lineweight |-> IF L!Since("R_2000") THEN L!LayerLineweight(w2.linewt) ELSE L!None]
  BY DEF LayerInv
<1>2. /\ w1 \in L!LayerType /\ w2 \in LayerStruct
      /\ w2.frozen = w1.frozen /\ w2.locked = w1.locked
      /\ L!Since("R_2000") => w2.plotflag = w1.plots /\ w2.linewt = w1.weight
      /\ (w2.off \/ w2.index < 0) <=> w1.off
      /\ L!ColorIndex(w2) \in {w1.aci} \cup (IF w1.off THEN {-w1.aci} ELSE {})
  BY DEF LayerInv
<1>3. w1.off \in BOOLEAN /\ w1.weight \in 0 .. 31
  BY <1>2 DEF L!LayerType
<1>4. w4.off = w1.off
  BY <1>1, <1>2, <1>3, Zenon
<1>5. w4.frozen = w1.frozen /\ w4.locked = w1.locked /\ w4.color_index = L!ColorIndex(w2)
  BY <1>1, <1>2
<1>6. w4.plot = IF L!Since("R_2000") THEN L!Some(w1.plots) ELSE L!None
  BY <1>1, <1>2
<1>7. w4.lineweight = IF ~L!Since("R_2000") \/ w1.weight \in 24 .. 30 THEN L!None
                      ELSE L!Some(IF w1.weight = 31 THEN -3 ELSE w1.weight)
  <2>1. w4.lineweight = IF L!Since("R_2000") THEN L!LayerLineweight(w1.weight) ELSE L!None
    BY <1>1, <1>2
  <2>2. L!LayerLineweight(w1.weight) =
          IF w1.weight \in 24 .. 30 THEN L!None ELSE L!Some(IF w1.weight = 31 THEN -3 ELSE w1.weight)
    BY <1>3 DEF L!LayerLineweight
  <2> QED BY <2>1, <2>2
<1> QED BY <1>2, <1>4, <1>5, <1>6, <1>7 DEF L!LayerIsAsSet

LayerPart == part = "layer" => LayerInv

LEMMA LayerPartHolds == ConversionSpec => []LayerPart
<1>1. ConversionInit => LayerPart
  BY LayersStep, LayerBegins DEF LayerPart
<1>2. LayerPart /\ [ConversionNext]_conversionVars => LayerPart'
  <2> SUFFICES ASSUME LayerPart, PartStep, part' = "layer" PROVE LayerInv'
    BY DEF PartStep, LayerPart
  <2>1. part = "layer" /\ LayerInv
    BY PartsStay DEF LayerPart
  <2>2. L!Next \/ UNCHANGED L!vars
    BY <2>1, LayersStep
  <2>3. CASE UNCHANGED L!vars
    BY <2>1, <2>3 DEF LayerInv, L!vars, L!Since, L!FileIndex, L!ColorIndex
  <2> QED
    BY <2>1, <2>2, <2>3, DecodeStateKeeps, DecodeColourKeeps, DecodeSignKeeps, ConvertLayerKeeps DEF L!Next
<1> QED
  BY <1>1, <1>2, PTL DEF ConversionSpec

(* `LayerIsAsSet`, for every layer there can be and every palette: a layer *)
(* that is off is off, whichever way its release says so, and its colour   *)
(* is its own.                                                             *)
THEOREM LayersAreAsSet == ConversionSpec => []LayerIsAsSet
<1>1. LayerPart => LayerIsAsSet
  BY LayerIsSet DEF LayerPart, LayerIsAsSet
<1> QED
  BY <1>1, LayerPartHolds, PTL

-----------------------------------------------------------------------------
(* The stroke of redline.                                                  *)
Job == [px : Nat, fit : Nat \cup {R!NoFit}, drawing : Nat, clouds : Nat, margins : Nat, own : Nat]

(* A window moves by no more than the margins of what the width moves by.  *)
LEMMA WindowMoves ==
  ASSUME NEW j \in Job, NEW v \in Nat, NEW w \in Nat, v <= w
  PROVE  /\ R!Window(j, v) \in Nat /\ R!Window(j, w) \in Nat
         /\ R!Window(j, v) <= R!Window(j, w)
         /\ R!Window(j, w) <= R!Window(j, v) + j.margins * (w - v)
<1> DEFINE m == j.margins
           by == w - v
<1>1. m \in Nat /\ by \in Nat /\ w = v + by /\ j.clouds \in Nat /\ j.drawing \in Nat BY DEF Job
<1>2. m * v \in Nat /\ m * by \in Nat BY <1>1
<1>3. m * w = m * v + m * by
  <2>1. m * (v + by) = m * v + m * by BY <1>1, SMT
  <2> QED BY <2>1, <1>1
<1> HIDE DEF m, by
<1>4. R!Window(j, v) = IF j.clouds + m * v > j.drawing THEN j.clouds + m * v ELSE j.drawing
  BY DEF R!Window, m
<1>5. R!Window(j, w) = IF j.clouds + (m * v + m * by) > j.drawing THEN j.clouds + (m * v + m * by) ELSE j.drawing
  BY <1>3 DEF R!Window, m
<1>6. /\ R!Window(j, v) \in Nat /\ R!Window(j, w) \in Nat
      /\ R!Window(j, v) <= R!Window(j, w) /\ R!Window(j, w) <= R!Window(j, v) + m * by
  BY <1>1, <1>2, <1>4, <1>5
<1> QED BY <1>6 DEF m, by

(* Division rounds down.                                                   *)
LEMMA DivisionBounds ==
  ASSUME NEW a \in Nat, NEW b \in Nat \ {0}
  PROVE  /\ a \div b \in Nat
         /\ b * (a \div b) <= a /\ a < b * (a \div b) + b
<1>1. a = b * (a \div b) + (a % b) /\ (a % b) \in 0 .. (b - 1) /\ a \div b \in Int BY Z3
<1> QED BY <1>1, Z3

(* The width asked for moves by half of what the drawn width moves by.     *)
LEMMA UnitsMove ==
  ASSUME NEW j \in Job, NEW v \in Nat, NEW w \in Nat, v <= w, R!Halves(j), j.fit # 0
  PROVE  /\ R!Units(j, v) \in Nat /\ R!Units(j, w) \in Nat
         /\ R!Units(j, v) <= R!Units(j, w)
         /\ 2 * (R!Units(j, w) - R!Units(j, v)) <= (w - v) + 2
<1>1. j.px \in Nat /\ j.fit \in Nat \cup {R!NoFit} /\ j.margins \in Nat BY DEF Job
<1>2. CASE j.fit = R!NoFit BY <1>1, <1>2 DEF R!Units
<1>3. CASE j.fit # R!NoFit
  <2> DEFINE p == j.px
             f == j.fit
             by == w - v
             A == p * R!Window(j, v)
             B == p * R!Window(j, w)
             md == j.margins * by
  <2>1. /\ R!Window(j, v) \in Nat /\ R!Window(j, w) \in Nat
        /\ R!Window(j, v) <= R!Window(j, w) /\ R!Window(j, w) <= R!Window(j, v) + md
    BY WindowMoves
  <2>2. p \in Nat /\ f \in Nat \ {0} /\ by \in Nat /\ md \in Nat BY <1>1, <1>3
  <2>3. 2 * (p * md) <= f * by
    <3>1. 2 * (p * j.margins) <= f BY <1>1, <1>3 DEF R!Halves
    <3>2. p * md = (p * j.margins) * by BY <1>1, <2>2, SMT
    <3>3. ASSUME NEW a \in Nat, 2 * a <= f PROVE 2 * (a * by) <= f * by BY <2>2, <3>3, SMT
    <3>4. p * j.margins \in Nat BY <1>1
    <3> QED BY <3>1, <3>2, <3>3, <3>4
  <2> HIDE DEF p, f, by, md
  <2>4. A \in Nat /\ B \in Nat /\ A <= B /\ B <= A + p * md
    <3>1. ASSUME NEW x \in Nat, NEW y \in Nat, x <= y, y <= x + md
          PROVE  p * x \in Nat /\ p * y \in Nat /\ p * x <= p * y /\ p * y <= p * x + p * md
      BY <2>2, <3>1, SMT
    <3> QED BY <2>1, <3>1 DEF F!Field
  <2> HIDE DEF A, B
  <2>5. R!Units(j, v) = A \div f /\ R!Units(j, w) = B \div f BY <1>3 DEF R!Units, A, B, f, p
  <2>6. ASSUME NEW a \in Nat, NEW b \in Nat, f * a <= A, A < f * a + f, f * b <= B, B < f * b + f
        PROVE  a <= b /\ 2 * (b - a) <= by + 2
    <3>1. f * a < f * b + f BY <2>2, <2>4, <2>6
    <3>2. a <= b BY <2>2, <2>6, <3>1, SMT
    <3>3. 2 * (f * b) < 2 * (f * a) + 2 * f + f * by
      <4>1. p * md \in Nat BY <2>2
      <4> QED BY <2>2, <2>3, <2>4, <2>6, <4>1
    <3>4. 2 * b < 2 * a + 2 + by BY <2>2, <2>6, <3>3, SMT
    <3> QED BY <2>2, <2>6, <3>2, <3>4
  <2>7. /\ A \div f \in Nat /\ f * (A \div f) <= A /\ A < f * (A \div f) + f
        /\ B \div f \in Nat /\ f * (B \div f) <= B /\ B < f * (B \div f) + f
    BY <2>2, <2>4, DivisionBounds
  <2>8. /\ R!Units(j, v) \in Nat /\ R!Units(j, w) \in Nat
        /\ R!Units(j, v) <= R!Units(j, w) /\ 2 * (R!Units(j, w) - R!Units(j, v)) <= by + 2
    BY <2>5, <2>6, <2>7
  <2> QED BY <2>8 DEF by
<1> QED BY <1>2, <1>3

(* Whichever of the two widths is the larger.                              *)
LEMMA RoundHalves ==
  ASSUME NEW j \in Job, NEW w \in Nat, R!Halves(j), j.fit # 0
  PROVE  2 * R!Miss(j, R!Units(j, w)) <= R!Miss(j, w) + 2
<1>1. R!Units(j, w) \in Nat BY UnitsMove
<1>2. CASE w <= R!Units(j, w)
  <2>1. /\ R!Units(j, w) <= R!Units(j, R!Units(j, w)) /\ R!Units(j, R!Units(j, w)) \in Nat
        /\ 2 * (R!Units(j, R!Units(j, w)) - R!Units(j, w)) <= (R!Units(j, w) - w) + 2
    BY <1>1, <1>2, UnitsMove
  <2> QED BY <1>1, <1>2, <2>1 DEF R!Miss
<1>3. CASE R!Units(j, w) <= w
  <2>1. /\ R!Units(j, R!Units(j, w)) <= R!Units(j, w) /\ R!Units(j, R!Units(j, w)) \in Nat
        /\ 2 * (R!Units(j, w) - R!Units(j, R!Units(j, w))) <= (w - R!Units(j, w)) + 2
    BY <1>1, <1>3, UnitsMove
  <2> QED BY <1>1, <1>3, <2>1 DEF R!Miss
<1> QED BY <1>1, <1>2, <1>3

(* What the loop starts from, and its steps.                               *)
LEMMA StrokeSteps ==
  ASSUME part = "stroke"
  PROVE  /\ ConversionInit => R!Init
         /\ PartStep => R!Next \/ UNCHANGED R!vars
<1>1. ConversionInit => R!Init
  BY DEF ConversionInit, RecordInit
<1>2. PartStep => R!Next \/ UNCHANGED R!vars
  BY DEF PartStep, ConversionNext, RecordNext, conversionVars, recordVars, R!vars
<1> QED BY <1>1, <1>2

LEMMA StrokeBegins ==
  ASSUME R!Init
  PROVE  R!TypeOK
<1>1. PICK a \in Asked, c \in Drawn :
        w1 = [px |-> a.px, fit |-> a.fit, drawing |-> c.drawing, clouds |-> c.clouds,
              margins |-> c.margins, own |-> c.own]
  BY DEF R!Init
<1>2. a \in R!AskedType /\ c \in R!DrawnType /\ Rounds \in Nat
  BY ConversionAssumption
<1>3. w1 \in Job
  BY <1>1, <1>2 DEF Job, R!AskedType, R!DrawnType
<1> QED BY <1>2, <1>3 DEF R!Init, R!TypeOK, Job

LEMMA StrokeStaysTyped ==
  ASSUME R!TypeOK, R!Next \/ UNCHANGED R!vars
  PROVE  R!TypeOK'
<1>1. w1 \in Job /\ w2 \in Nat /\ Rounds \in Nat
  BY ConversionAssumption DEF R!TypeOK, Job
<1>2. CASE R!DrawAgain
  <2>1. R!Units(w1, w2) \in Nat
    <3>1. /\ w1.px \in Nat /\ w1.fit \in Nat \cup {R!NoFit} /\ R!Window(w1, w2) \in Nat
      BY <1>1, WindowMoves DEF Job
    <3>2. CASE w1.fit = R!NoFit
      BY <3>1, <3>2 DEF R!Units
    <3>3. CASE w1.fit # R!NoFit
      <4>2. w1.fit # 0
        BY <1>2, <3>3 DEF R!DrawAgain, R!HasNoScale
      <4>1. w1.px * R!Window(w1, w2) \in Nat
        BY <3>1
      <4> QED BY <3>1, <3>3, <4>1, <4>2, DivisionBounds DEF R!Units
    <3> QED BY <3>2, <3>3
  <2> QED BY <1>1, <1>2, <2>1 DEF R!DrawAgain, R!TypeOK
<1>3. CASE R!Refuse
  BY <1>3 DEF R!Refuse, R!TypeOK
<1>4. CASE R!WritePicture
  BY <1>4 DEF R!WritePicture, R!TypeOK
<1>5. CASE UNCHANGED R!vars
  BY <1>5 DEF R!vars, R!TypeOK
<1> QED BY <1>2, <1>3, <1>4, <1>5 DEF R!Next

LEMMA StrokeHalves ==
  ASSUME R!TypeOK, R!Next \/ UNCHANGED R!vars
  PROVE  R!HalvesTheMiss
<1> SUFFICES ASSUME w3' # w3, R!Halves(w1)
             PROVE  2 * R!Miss(w1', w2') <= R!Miss(w1, w2) + 2
  BY DEF R!HalvesTheMiss
<1>1. R!DrawAgain
  BY DEF R!Next, R!vars, R!Refuse, R!WritePicture
<1>2. w1 \in Job /\ w2 \in Nat
  BY DEF R!TypeOK, Job
<1>3. w1' = w1 /\ w2' = R!Units(w1, w2)
  BY <1>1 DEF R!DrawAgain
<1>4. w1.fit # 0
  <2>1. R!NoFit # 0
    BY DEF R!NoFit
  <2> QED BY <1>1, <2>1 DEF R!DrawAgain, R!HasNoScale
<1>5. 2 * R!Miss(w1, R!Units(w1, w2)) <= R!Miss(w1, w2) + 2
  BY <1>2, <1>4, RoundHalves
<1> QED BY <1>3, <1>5

(* `EachRoundHalvesTheMiss`, for every stroke, size and pair of drawings:  *)
(* in a picture at least twice as large as the clouds' margins, a round of *)
(* redline halves what the stroke misses of the one asked for.             *)
THEOREM RoundsHalveTheMiss == ConversionSpec => EachRoundHalvesTheMiss
<1> DEFINE Inv == part = "stroke" => R!TypeOK
<1>1. ConversionInit => Inv
  BY StrokeSteps, StrokeBegins
<1>2. Inv /\ [ConversionNext]_conversionVars => Inv'
  <2> SUFFICES ASSUME Inv, PartStep, part' = "stroke" PROVE R!TypeOK'
    BY DEF PartStep
  <2>1. part = "stroke" /\ R!TypeOK
    BY PartsStay
  <2> QED BY <2>1, StrokeSteps, StrokeStaysTyped
<1>3. Inv /\ [ConversionNext]_conversionVars => [part = "stroke" => R!HalvesTheMiss]_recordVars
  <2> SUFFICES ASSUME Inv, PartStep, part = "stroke" PROVE R!HalvesTheMiss
    BY DEF PartStep
  <2> QED BY StrokeSteps, StrokeHalves
<1> QED
  BY <1>1, <1>2, <1>3, PTL DEF ConversionSpec, EachRoundHalvesTheMiss

-----------------------------------------------------------------------------
(* An entity's style.                                                      *)
LEMMA StyleSteps ==
  ASSUME part = "style"
  PROVE  /\ ConversionInit => S!Init
         /\ PartStep => S!Next \/ UNCHANGED S!vars
<1>1. ConversionInit => S!Init
  BY DEF ConversionInit, RecordInit
<1>2. PartStep => S!Next \/ UNCHANGED S!vars
  BY DEF PartStep, ConversionNext, RecordNext, conversionVars, recordVars, S!vars
<1> QED BY <1>1, <1>2

(* What LibreDWG's struct holds from R13 on, of the data and the handles.  *)
StyleFlags ==
  CASE S!Since("R_2000") -> S!FlagsFor[w1.linetype]
    [] ~S!Since("R_2000") /\ w1.linetype = "BYLAYER" -> 0
    [] OTHER -> 3
Decoded(ltype) ==
  [ltype_flags |-> StyleFlags, ltype |-> ltype, ltype_scale |-> w1.scale, index |-> w1.index,
   color_r11 |-> 0, inline |-> w1.direct = "rgb", handle |-> w1.direct = "book",
   rgb |-> IF w1.direct = "rgb" THEN "rgb" ELSE 0, alpha_raw |-> w1.alpha,
   linewt |-> IF S!Since("R_2000") THEN w1.weight ELSE "hundredths"]
DecodedWhole == Decoded(IF StyleFlags = 3 THEN w1.linetype ELSE "null")

Converted ==
  [linetype |-> S!EntityLineType(w2), scale |-> w2.ltype_scale, index |-> w2.index,
   rgb |-> S!TrueColor(w2), weight |-> S!EntityLineweight(w2), alpha |-> S!EntityTransparency(w2)]

(* How far the decoding of an entity has come, and what it left.           *)
StyleInv ==
  /\ w1 \in S!EntityType
  /\ w3 = "data" => w2 = S!Zeros
  /\ w3 = "handles" => w2 = Decoded("null")
  /\ w3 \in {"convert", "done"} /\ S!Since("R_13") => w2 = DecodedWhole
  /\ w3 = "done" => w4 = Converted

LEMMA StyleBegins ==
  ASSUME S!Init
  PROVE  StyleInv
<1>1. w1 \in S!EntityType
  BY ConversionAssumption DEF S!Init
<1> QED BY <1>1 DEF S!Init, StyleInv

LEMMA DecodeDataKeeps ==
  ASSUME StyleInv, S!DecodeData
  PROVE  StyleInv'
<1>1. w3 = "data" /\ w3' = "handles" /\ w1' = w1 /\ w2 = S!Zeros
  BY DEF S!DecodeData, StyleInv
<1>2. w2' = [w2 EXCEPT
               !.index = w1.index, !.inline = w1.direct = "rgb", !.handle = w1.direct = "book",
               !.rgb = IF w1.direct = "rgb" THEN "rgb" ELSE @,
               !.alpha_raw = w1.alpha, !.ltype_scale = w1.scale, !.ltype_flags = StyleFlags,
               !.linewt = IF S!Since("R_2000") THEN w1.weight ELSE @]
  BY Zenon DEF S!DecodeData, StyleFlags
<1>3. w2' = Decoded("null")
  BY <1>1, <1>2 DEF S!Zeros, Decoded
<1>4. Decoded("null")' = Decoded("null")
  BY <1>1 DEF Decoded, StyleFlags, S!Since
<1>5. w1' \in S!EntityType
  BY <1>1 DEF StyleInv
<1> QED BY <1>1, <1>3, <1>4, <1>5 DEF StyleInv

LEMMA DecodeHandlesKeeps ==
  ASSUME StyleInv, S!DecodeHandles
  PROVE  StyleInv'
<1>1. w3 = "handles" /\ w3' = "convert" /\ w1' = w1 /\ w2 = Decoded("null") /\ w1 \in S!EntityType
  BY DEF S!DecodeHandles, StyleInv
<1>2. w2' = [w2 EXCEPT !.ltype = IF w2.ltype_flags = 3 THEN w1.linetype ELSE @]
  BY DEF S!DecodeHandles
<1>3. w2.ltype_flags = StyleFlags
  BY <1>1 DEF Decoded
<1>4. w2' = DecodedWhole
  BY <1>1, <1>2, <1>3 DEF Decoded, DecodedWhole
<1>5. DecodedWhole' = DecodedWhole
  BY <1>1 DEF Decoded, DecodedWhole, StyleFlags, S!Since
<1> QED BY <1>1, <1>4, <1>5 DEF StyleInv

LEMMA StyleStays ==
  ASSUME StyleInv, S!Next \/ UNCHANGED S!vars
  PROVE  StyleInv'
<1>1. CASE S!DecodeOld
  BY <1>1 DEF S!DecodeOld, StyleInv, S!Since
<1>2. CASE S!Convert
  <2>1. w3 = "convert" /\ w3' = "done" /\ w1' = w1 /\ w2' = w2 /\ w4' = Converted
    BY <1>2 DEF S!Convert, Converted
  <2>2. Converted' = Converted /\ DecodedWhole' = DecodedWhole /\ S!Since("R_13")' = S!Since("R_13")
    BY <2>1 DEF Converted, DecodedWhole, Decoded, StyleFlags, S!Since, S!EntityLineType, S!TrueColor,
                S!EntityLineweight, S!EntityTransparency
  <2> QED BY <2>1, <2>2 DEF StyleInv
<1>3. CASE UNCHANGED S!vars
  <2>1. w1' = w1 /\ w2' = w2 /\ w3' = w3 /\ w4' = w4
    BY <1>3 DEF S!vars
  <2>2. /\ Converted' = Converted /\ DecodedWhole' = DecodedWhole /\ S!Since("R_13")' = S!Since("R_13")
        /\ Decoded("null")' = Decoded("null")
    BY <2>1 DEF Converted, DecodedWhole, Decoded, StyleFlags, S!Since, S!EntityLineType, S!TrueColor,
                S!EntityLineweight, S!EntityTransparency
  <2> QED BY <2>1, <2>2 DEF StyleInv
<1> QED BY <1>1, <1>2, <1>3, DecodeDataKeeps, DecodeHandlesKeeps DEF S!Next

(* The flags, the bit and the handle lead back to the line type stated.    *)
LEMMA StyleIsStated ==
  ASSUME StyleInv
  PROVE  S!StyledAsStatedFromR13
<1> SUFFICES ASSUME w3 = "done", S!Since("R_13") PROVE w4 = S!AsStated
  BY DEF S!StyledAsStatedFromR13
<1>1. w4 = Converted /\ w2 = DecodedWhole /\ w1 \in S!EntityType
  BY DEF StyleInv
<1>2. /\ w2.ltype_flags = StyleFlags /\ w2.ltype = (IF StyleFlags = 3 THEN w1.linetype ELSE "null")
      /\ w2.ltype_scale = w1.scale /\ w2.index = w1.index
      /\ w2.inline = (w1.direct = "rgb") /\ w2.handle = (w1.direct = "book")
      /\ w2.rgb = (IF w1.direct = "rgb" THEN "rgb" ELSE 0) /\ w2.alpha_raw = w1.alpha
      /\ w2.linewt = (IF S!Since("R_2000") THEN w1.weight ELSE "hundredths")
  BY <1>1 DEF DecodedWhole, Decoded
<1>3. S!EntityLineType(w2) =
        CASE w1.linetype = "BYLAYER" -> S!ByLayer [] w1.linetype = "BYBLOCK" -> S!ByBlock
          [] OTHER -> S!Named(w1.linetype)
  <2>1. w1.linetype \in {"BYLAYER", "BYBLOCK", "CONTINUOUS", "HIDDEN"}
    BY <1>1 DEF S!EntityType, S!LineTypes
  <2>2. StyleFlags =
          IF S!Since("R_2000")
          THEN CASE w1.linetype = "BYLAYER" -> 0 [] w1.linetype = "BYBLOCK" -> 1
                 [] w1.linetype = "CONTINUOUS" -> 2 [] OTHER -> 3
          ELSE IF w1.linetype = "BYLAYER" THEN 0 ELSE 3
    BY <2>1 DEF StyleFlags, S!FlagsFor
  <2> QED BY <1>2, <2>1, <2>2 DEF S!EntityLineType
<1>4. S!TrueColor(w2) = IF w1.direct = "rgb" THEN "rgb" ELSE S!None
  BY <1>2 DEF S!TrueColor
<1>5. S!EntityLineweight(w2) = IF S!Since("R_2000") /\ w1.weight # "unused" THEN w1.weight ELSE S!None
  BY <1>2 DEF S!EntityLineweight
<1>6. S!EntityTransparency(w2) = IF S!Since("R_2004") THEN w1.alpha ELSE S!None
  BY <1>2 DEF S!EntityTransparency
<1> QED BY <1>1, <1>2, <1>3, <1>4, <1>5, <1>6 DEF Converted, S!AsStated

StylePart == part = "style" => StyleInv

LEMMA StylePartHolds == ConversionSpec => []StylePart
<1>1. ConversionInit => StylePart
  BY StyleSteps, StyleBegins DEF StylePart
<1>2. StylePart /\ [ConversionNext]_conversionVars => StylePart'
  <2> SUFFICES ASSUME StylePart, PartStep, part' = "style" PROVE StyleInv'
    BY DEF PartStep, StylePart
  <2>1. part = "style" /\ StyleInv
    BY PartsStay DEF StylePart
  <2> QED BY <2>1, StyleSteps, StyleStays
<1> QED
  BY <1>1, <1>2, PTL DEF ConversionSpec

(* `StyledAsStatedFromR13`, for every style: what an entity is read with   *)
(* is what its drawing's author gave it.                                   *)
THEOREM StylesAreAsStated == ConversionSpec => []StyledAsStatedFromR13
<1>1. StylePart => StyledAsStatedFromR13
  BY StyleIsStated DEF StylePart, StyledAsStatedFromR13
<1> QED
  BY <1>1, StylePartHolds, PTL

-----------------------------------------------------------------------------
(* A table's grid.                                                         *)
LEMMA GridSteps ==
  ASSUME part = "table"
  PROVE  /\ ConversionInit => G!Init
         /\ PartStep => G!Next \/ UNCHANGED G!vars
<1>1. ConversionInit => G!Init
  BY DEF ConversionInit, RecordInit
<1>2. PartStep => G!Next \/ UNCHANGED G!vars
  BY DEF PartStep, ConversionNext, RecordNext, conversionVars, recordVars, G!vars
<1> QED BY <1>1, <1>2

CellsRead ==
  [kind : {"text", "block", "none"}, text : G!Strings, covered : BOOLEAN, columns : Nat, rows : Nat]
CellRead(cell) ==
  [kind |-> G!Kind(cell), text |-> G!CellText(cell), covered |-> cell.merged,
   columns |-> cell.columns, rows |-> cell.rows]

(* The n-th cell has been gone through: its span is inside the grid, and   *)
(* unless it was counted its text is what the record states.               *)
SpanInside(n) ==
  /\ w1.cells[n].columns # 0 /\ w1.cells[n].rows # 0
  /\ ((n - 1) % w1.cols) + w1.cells[n].columns <= w1.cols
  /\ ((n - 1) \div w1.cols) + w1.cells[n].rows <= w1.rows
Gone(n) ==
  /\ w3[n] = CellRead(w1.cells[n]) /\ SpanInside(n)
  /\ w4 = 0 => ~G!IsUnread(w1.cells[n])

GridInv ==
  /\ w1 \in G!TableType /\ (w1.cells = <<>> \/ Len(w1.cells) >= G!Count)
  /\ w2 \in {"counts", "cells", "done"} /\ w3 \in Seq(CellsRead) /\ w4 \in Nat
  /\ Len(w3) <= Len(w1.cells)
  /\ \A n \in 1 .. Len(w3) : Gone(n)
  /\ w2 = "counts" => w3 = <<>> /\ w4 = 0
  /\ w2 = "cells" => G!Count # 0 /\ Len(w1.cells) >= G!Count
  /\ w2 = "done" =>
       IF w5.grid = "grid" THEN Len(w3) = G!Count /\ G!Count # 0 /\ w4 = 0
       ELSE w5.warned # {} \/ G!Count = 0

LEMMA GridTyped ==
  ASSUME GridInv
  PROVE  /\ w1.rows \in Nat /\ w1.cols \in Nat /\ w1.cells \in Seq(G!CellType)
         /\ G!Count \in Nat /\ Len(w1.cells) \in Nat /\ Len(w3) \in Nat
<1>1. w1.rows \in Nat /\ w1.cols \in Nat /\ w1.cells \in Seq(G!CellType)
  BY DEF GridInv, G!TableType
<1>2. G!Count \in Nat
  BY <1>1 DEF G!Count
<1> QED BY <1>1, <1>2 DEF GridInv

LEMMA CellsAreTyped ==
  ASSUME NEW cell \in G!CellType
  PROVE  CellRead(cell) \in CellsRead
<1>1. G!Kind(cell) \in {"text", "block", "none"}
  BY DEF G!Kind
<1>2. G!CellText(cell) \in G!Strings
  BY DEF G!CellText, G!CellType, G!Strings
<1>3. cell.merged \in BOOLEAN /\ cell.columns \in Nat /\ cell.rows \in Nat
  BY DEF G!CellType
<1> QED BY <1>1, <1>2, <1>3 DEF CellRead, CellsRead

LEMMA GridBegins ==
  ASSUME G!Init
  PROVE  GridInv
<1>1. w1 \in Tables /\ w2 = "counts" /\ w3 = <<>> /\ w4 = 0
  BY DEF G!Init
<1>2. w1 \in G!TableType /\ (w1.cells = <<>> \/ Len(w1.cells) >= w1.rows * w1.cols)
  BY <1>1, ConversionAssumption
<1>3. w1.cells \in Seq(G!CellType)
  BY <1>2 DEF G!TableType
<1>4. Len(w3) = 0 /\ Len(w3) <= Len(w1.cells) /\ w3 \in Seq(CellsRead)
  BY <1>1, <1>3
<1> QED BY <1>1, <1>2, <1>4 DEF GridInv, G!Count

LEMMA CopyCellsKeeps ==
  ASSUME GridInv, G!CopyCells
  PROVE  GridInv'
<1>1. w2 = "counts" /\ G!Count # 0 /\ w1' = w1 /\ w3' = w3 /\ w4' = w4
  BY DEF G!CopyCells
<1>2. PICK len \in G!CellCounts :
        IF w1.widths = w1.cols /\ w1.heights = w1.rows /\ len = G!Count
        THEN w2' = "cells" /\ UNCHANGED w5
        ELSE w2' = "done" /\ w5' = G!NoneBecause("TABLE_GRID")
  BY DEF G!CopyCells
<1>3. G!Count' = G!Count
  BY <1>1 DEF G!Count
<1>4. w3 = <<>> /\ Len(w3) = 0
  BY <1>1 DEF GridInv
<1>5. CASE w2' = "cells"
  <2>1. len = G!Count
    BY <1>2, <1>5
  <2>2. w1.cells # <<>>
    BY <1>1, <2>1 DEF G!CellCounts
  <2>3. Len(w1.cells) >= G!Count
    BY <2>2 DEF GridInv
  <2> QED BY <1>1, <1>3, <1>4, <1>5, <2>3 DEF GridInv
<1>6. CASE w2' = "done"
  <2>1. w5' = G!NoneBecause("TABLE_GRID")
    BY <1>2, <1>6
  <2>2. w5'.grid # "grid" /\ w5'.warned # {}
    BY <2>1 DEF G!NoneBecause
  <2> QED BY <1>1, <1>3, <1>4, <1>6, <2>2 DEF GridInv
<1> QED BY <1>2, <1>5, <1>6

LEMMA ReadCellKeeps ==
  ASSUME GridInv, G!ReadCell
  PROVE  GridInv'
<1> DEFINE n == Len(w3) + 1
           cell == w1.cells[n]
<1>1. /\ w2 = "cells" /\ Len(w3) < G!Count /\ G!SpanStaysInside
      /\ w1' = w1 /\ w2' = w2 /\ w5' = w5 /\ w3' = Append(w3, CellRead(cell))
      /\ w4' = IF G!IsUnread(cell) THEN w4 + 1 ELSE w4
  BY DEF G!ReadCell, G!ReadingCell, G!Cell, CellRead
<1>2. /\ Len(w3) \in Nat /\ w3 \in Seq(CellsRead) /\ w4 \in Nat /\ w1.cells \in Seq(G!CellType)
      /\ n \in 1 .. Len(w1.cells)
  BY <1>1, GridTyped DEF GridInv
<1>3. CellRead(cell) \in CellsRead
  <2>1. cell \in G!CellType
    BY <1>2
  <2> QED BY <2>1, CellsAreTyped
<1>4. /\ w3' \in Seq(CellsRead) /\ Len(w3') = n /\ w3'[n] = CellRead(cell)
      /\ \A k \in 1 .. Len(w3) : w3'[k] = w3[k]
  BY <1>1, <1>2, <1>3
<1>5. w4' \in Nat /\ (w4' = 0 => w4 = 0 /\ ~G!IsUnread(cell))
  BY <1>1, <1>2
<1>6. SpanInside(n)
  <2>1. n - 1 = Len(w3)
    BY <1>2
  <2> QED BY <1>1, <2>1 DEF SpanInside, G!SpanStaysInside, G!Cell, G!Row, G!Column
<1>7. \A k \in 1 .. n : Gone(k)'
  <2> TAKE k \in 1 .. n
  <2>1. CASE k = n
    <3>1. w3'[k] = CellRead(w1'.cells[k]) /\ SpanInside(k)'
      BY <1>1, <1>4, <1>6, <2>1 DEF SpanInside
    <3>2. w4' = 0 => ~G!IsUnread(w1'.cells[k])
      BY <1>1, <1>5, <2>1
    <3> QED BY <3>1, <3>2 DEF Gone
  <2>2. CASE k # n
    <3>1. k \in 1 .. Len(w3)
      BY <1>2, <2>2
    <3>2. Gone(k)
      BY <3>1 DEF GridInv
    <3>3. w3'[k] = CellRead(w1'.cells[k]) /\ SpanInside(k)'
      BY <1>1, <1>4, <3>1, <3>2 DEF SpanInside, Gone
    <3>4. w4' = 0 => ~G!IsUnread(w1'.cells[k])
      BY <1>1, <1>5, <3>2 DEF Gone
    <3> QED BY <3>3, <3>4 DEF Gone
  <2> QED BY <2>1, <2>2
<1>8. G!Count' = G!Count
  BY <1>1 DEF G!Count
<1>9. /\ w1' \in G!TableType /\ (w1'.cells = <<>> \/ Len(w1'.cells) >= G!Count')
      /\ w2' = "cells" /\ G!Count' # 0 /\ Len(w1'.cells) >= G!Count'
  BY <1>1, <1>8 DEF GridInv
<1> HIDE DEF n, cell
<1>10. Len(w3') <= Len(w1'.cells) /\ \A k \in 1 .. Len(w3') : Gone(k)'
  BY <1>1, <1>2, <1>4, <1>7
<1> QED BY <1>4, <1>5, <1>9, <1>10 DEF GridInv

LEMMA GridStays ==
  ASSUME GridInv, G!Next \/ UNCHANGED G!vars
  PROVE  GridInv'
<1>1. CASE G!NoGridStated
  <2>1. /\ w2' = "done" /\ w5' = G!None /\ G!Count = 0 /\ w1' = w1 /\ w3' = w3 /\ w4' = w4
    BY <1>1 DEF G!NoGridStated
  <2>2. w5'.grid # "grid" /\ G!Count' = 0
    BY <2>1 DEF G!None, G!Count
  <2> QED BY <2>1, <2>2 DEF GridInv, Gone, SpanInside
<1>2. CASE G!SpanLeavesTheGrid
  <2>1. /\ w2' = "done" /\ w5' = G!NoneBecause("TABLE_GRID") /\ w1' = w1 /\ w3' = w3 /\ w4' = w4
    BY <1>2 DEF G!SpanLeavesTheGrid
  <2>2. w5'.grid # "grid" /\ w5'.warned # {} /\ G!Count' = G!Count
    BY <2>1 DEF G!NoneBecause, G!Count
  <2> QED BY <2>1, <2>2 DEF GridInv, Gone, SpanInside
<1>3. CASE G!FinishGrid
  <2>1. /\ w2 = "cells" /\ Len(w3) = G!Count /\ w2' = "done" /\ w1' = w1 /\ w3' = w3 /\ w4' = w4
        /\ w5' = IF w4 > 0 THEN G!NoneBecause("TABLE_CELL_TEXT") ELSE [grid |-> "grid", warned |-> {}]
    BY <1>3 DEF G!FinishGrid
  <2>2. G!Count' = G!Count /\ G!Count # 0 /\ w4 \in Nat
    BY <2>1 DEF GridInv, G!Count
  <2>3. CASE w4 > 0
    <3>1. w5'.grid # "grid" /\ w5'.warned # {}
      BY <2>1, <2>3 DEF G!NoneBecause
    <3> QED BY <2>1, <2>2, <3>1 DEF GridInv, Gone, SpanInside
  <2>4. CASE ~(w4 > 0)
    <3>1. w5'.grid = "grid" /\ w4 = 0
      BY <2>1, <2>2, <2>4
    <3> QED BY <2>1, <2>2, <3>1 DEF GridInv, Gone, SpanInside
  <2> QED BY <2>3, <2>4
<1>4. CASE UNCHANGED G!vars
  <2>1. w1' = w1 /\ w2' = w2 /\ w3' = w3 /\ w4' = w4 /\ w5' = w5 /\ G!Count' = G!Count
    BY <1>4 DEF G!vars, G!Count
  <2> QED BY <2>1 DEF GridInv, Gone, SpanInside
<1> QED BY <1>1, <1>2, <1>3, <1>4, CopyCellsKeeps, ReadCellKeeps DEF G!Next

(* A cell that was not counted says what the record states of it.          *)
LEMMA ReadCellsSay ==
  ASSUME NEW cell \in G!CellType, ~G!IsUnread(cell)
  PROVE  G!SaysWhatIsStated(CellRead(cell), cell)
<1>1. CellRead(cell).text = G!CellText(cell)
  BY DEF CellRead
<1>2. /\ cell.type \in 0 .. 3 /\ cell.data_type \in {"none", "string", "other"}
      /\ cell.text_value \in G!Strings /\ cell.value_string \in G!Strings
      /\ cell.data_string \in G!Strings
  BY DEF G!CellType
<1>3. CASE cell.type = 2
  BY <1>3 DEF G!SaysWhatIsStated
<1>4. CASE cell.type # 2
  <2>1. G!Kind(cell) # "block"
    BY <1>2, <1>4 DEF G!Kind
  <2>2. G!CellText(cell) # "null" \/ cell.data_type = "none"
    BY <2>1 DEF G!IsUnread
  <2>3. CASE G!IsText(cell.text_value)
    <3>1. G!CellText(cell) = cell.text_value
      BY <2>1, <2>3 DEF G!CellText
    <3> QED BY <1>1, <2>3, <3>1 DEF G!SaysWhatIsStated
  <2>4. CASE ~G!IsText(cell.text_value)
    <3>1. G!CellText(cell) =
            IF cell.data_type # "string" THEN "null"
            ELSE IF G!IsText(cell.value_string) THEN cell.value_string
            ELSE IF G!IsText(cell.data_string) THEN cell.data_string ELSE "null"
      BY <2>1, <2>4 DEF G!CellText
    <3>2. CASE cell.data_type = "none"
      BY <1>1, <2>4, <3>1, <3>2 DEF G!SaysWhatIsStated
    <3>3. CASE cell.data_type = "string"
      BY <1>1, <2>2, <2>4, <3>1, <3>3 DEF G!SaysWhatIsStated
    <3> QED BY <1>2, <2>2, <3>1, <3>2, <3>3
  <2> QED BY <2>3, <2>4
<1> QED BY <1>3, <1>4

LEMMA GridIsWhole ==
  ASSUME GridInv
  PROVE  G!GridIsWholeOrWarned
<1> SUFFICES ASSUME w2 = "done", w5.grid = "grid"
             PROVE  /\ Len(w3) = w1.rows * w1.cols /\ w3 # <<>>
                    /\ \A n \in DOMAIN w3 :
                         LET row == (n - 1) \div w1.cols
                             column == (n - 1) % w1.cols
                         IN  /\ G!SaysWhatIsStated(w3[n], w1.cells[n])
                             /\ column + w3[n].columns \in (column + 1) .. w1.cols
                             /\ row + w3[n].rows \in (row + 1) .. w1.rows
  BY DEF G!GridIsWholeOrWarned, GridInv, G!Count
<1>1. Len(w3) = G!Count /\ G!Count # 0 /\ w4 = 0 /\ w3 \in Seq(CellsRead) /\ Len(w3) <= Len(w1.cells)
  BY DEF GridInv
<1>2. /\ w1.rows \in Nat /\ w1.cols \in Nat /\ w1.cells \in Seq(G!CellType) /\ Len(w3) \in Nat
      /\ Len(w1.cells) \in Nat
  BY GridTyped
<1>3. w1.cols \in Nat \ {0}
  BY <1>1, <1>2 DEF G!Count
<1>4. Len(w3) = w1.rows * w1.cols /\ w3 # <<>>
  BY <1>1 DEF G!Count
<1>5. ASSUME NEW n \in DOMAIN w3
      PROVE  LET row == (n - 1) \div w1.cols
                 column == (n - 1) % w1.cols
             IN  /\ G!SaysWhatIsStated(w3[n], w1.cells[n])
                 /\ column + w3[n].columns \in (column + 1) .. w1.cols
                 /\ row + w3[n].rows \in (row + 1) .. w1.rows
  <2> DEFINE row == (n - 1) \div w1.cols
             column == (n - 1) % w1.cols
             cell == w1.cells[n]
  <2>1. n \in 1 .. Len(w3) /\ n \in 1 .. Len(w1.cells) /\ n - 1 \in Nat
    BY <1>1, <1>2
  <2>2. cell \in G!CellType
    BY <1>2, <2>1
  <2>3. row \in Nat /\ column \in Nat
    <3>1. ASSUME NEW a \in Nat, NEW b \in Nat \ {0}
          PROVE  a \div b \in Nat /\ a % b \in Nat
      <4>1. a \div b \in Nat
        BY DivisionBounds
      <4>2. a % b \in Nat
        BY Z3
      <4> QED BY <4>1, <4>2
    <3> QED BY <1>3, <2>1, <3>1
  <2>4. w3[n] = CellRead(cell) /\ SpanInside(n) /\ ~G!IsUnread(cell)
    BY <1>1, <2>1 DEF GridInv, Gone
  <2>5. G!SaysWhatIsStated(w3[n], cell)
    BY <2>2, <2>4, ReadCellsSay
  <2>6. w3[n].columns = cell.columns /\ w3[n].rows = cell.rows
    BY <2>4 DEF CellRead
  <2>7. cell.columns \in Nat /\ cell.rows \in Nat
    BY <2>2 DEF G!CellType
  <2>8. cell.columns # 0 /\ cell.rows # 0 /\ column + cell.columns <= w1.cols /\ row + cell.rows <= w1.rows
    BY <2>4 DEF SpanInside
  <2> HIDE DEF row, column, cell
  <2>9. column + cell.columns \in (column + 1) .. w1.cols /\ row + cell.rows \in (row + 1) .. w1.rows
    BY <1>2, <2>3, <2>7, <2>8
  <2> QED BY <2>5, <2>6, <2>9 DEF row, column, cell
<1> QED BY <1>4, <1>5

GridPart == part = "table" => GridInv

LEMMA GridPartHolds == ConversionSpec => []GridPart
<1>1. ConversionInit => GridPart
  BY GridSteps, GridBegins DEF GridPart
<1>2. GridPart /\ [ConversionNext]_conversionVars => GridPart'
  <2> SUFFICES ASSUME GridPart, PartStep, part' = "table" PROVE GridInv'
    BY DEF PartStep, GridPart
  <2>1. part = "table" /\ GridInv
    BY PartsStay DEF GridPart
  <2> QED BY <2>1, GridSteps, GridStays
<1> QED
  BY <1>1, <1>2, PTL DEF ConversionSpec

(* `GridIsWholeOrWarned`, for tables of any size and any limit: a cell of  *)
(* a grid that is handed out says all the record says of it.               *)
THEOREM GridsAreWholeOrWarned == ConversionSpec => []GridIsWholeOrWarned
<1>1. GridPart => GridIsWholeOrWarned
  BY GridIsWhole DEF GridPart, GridIsWholeOrWarned
<1> QED
  BY <1>1, GridPartHolds, PTL

-----------------------------------------------------------------------------
(* Fields read by name.                                                    *)
LEMMA FieldSteps ==
  ASSUME part = "field"
  PROVE  /\ ConversionInit => F!Init
         /\ PartStep => F!Next \/ UNCHANGED F!vars
<1>1. ConversionInit => F!Init
  BY DEF ConversionInit, RecordInit
<1>2. PartStep => F!Next \/ UNCHANGED F!vars
  BY DEF PartStep, ConversionNext, RecordNext, conversionVars, fieldVars, F!vars
<1> QED BY <1>1, <1>2

(* What the library's tables say of a field is the field's size in bytes   *)
(* as they lie in memory: an allocated string is its pointer.              *)
LEMMA TablesSay ==
  ASSUME NEW field, NEW name
  PROVE  /\ F!InTable(field, name).size \in Nat
         /\ F!WriteSize(F!InTable(field, name)) = F!InTable(field, name).size
<1> DEFINE none == F!Field(0, FALSE)
           one == F!Field(1, FALSE)
           two == F!Field(2, FALSE)
           four == F!Field(4, FALSE)
           eight == F!Field(8, FALSE)
           settings == F!Field(400, FALSE)
           pointer == F!Field(8, TRUE)
           kinds == {none, one, two, four, eight, settings, pointer}
<1>1. F!InTable(field, name) = IF field \in DOMAIN F!Table(name) THEN F!Table(name)[field] ELSE none
  BY DEF F!InTable, F!Unknown
<1>2. name = "LEADER" => F!Table(name) = [path_type |-> two, num_points |-> four, points |-> pointer]
  BY DEF F!Table, F!Pointer, F!PlotSettings
<1>3. name = "SPLINE" => F!Table(name) = [degree |-> two, num_fit_pts |-> two, fit_pts |-> pointer]
  BY DEF F!Table, F!Pointer, F!PlotSettings
<1>4. name = "LAYOUT" => F!Table(name) = [plotsettings |-> settings, layout_flags |-> two]
  BY DEF F!Table, F!Pointer, F!PlotSettings
<1>5. name = "PLOTSETTINGS" => F!Table(name) = [paper_width |-> eight, plot_paper_unit |-> two, paper_size |-> pointer]
  BY DEF F!Table, F!Pointer, F!PlotSettings
<1>6. name = "entities" => F!Table(name) = [layer |-> eight, linewt |-> one, num_eed |-> four]
  BY DEF F!Table, F!Pointer, F!PlotSettings
<1>7. name = "objects" => F!Table(name) = [reactors |-> pointer, num_eed |-> four]
  BY DEF F!Table, F!Pointer, F!PlotSettings
<1>8. name = "header" => F!Table(name) = [DIMSCALE |-> eight, INSUNITS |-> two, DIMPOST |-> pointer]
  BY DEF F!Table, F!Pointer, F!PlotSettings
<1>9. name \notin {"LEADER", "SPLINE", "LAYOUT", "PLOTSETTINGS",
               "entities", "objects", "header"} => F!Table(name) = <<>>
  BY DEF F!Table
<1>10. \A f \in kinds : f.size \in Nat /\ F!WriteSize(f) = f.size
  BY DEF F!Field, F!WriteSize, F!Pointer
<1> HIDE DEF none, one, two, four, eight, settings, pointer
<1>11. F!InTable(field, name) \in kinds
  <2>1. CASE name = "LEADER"
    BY <1>1, <1>2, <2>1
  <2>2. CASE name = "SPLINE"
    BY <1>1, <1>3, <2>2
  <2>3. CASE name = "LAYOUT"
    BY <1>1, <1>4, <2>3
  <2>4. CASE name = "PLOTSETTINGS"
    BY <1>1, <1>5, <2>4
  <2>5. CASE name = "entities"
    BY <1>1, <1>6, <2>5
  <2>6. CASE name = "objects"
    BY <1>1, <1>7, <2>6
  <2>7. CASE name = "header"
    BY <1>1, <1>8, <2>7
  <2>8. CASE F!Table(name) = <<>>
    BY <1>1, <2>8
  <2> QED BY <1>9, <2>1, <2>2, <2>3, <2>4, <2>5, <2>6, <2>7, <2>8
<1> HIDE DEF kinds
<1> QED BY <1>10, <1>11

(* A field of both entities and objects is the same size in both.          *)
LEMMA CommonFieldsAgree ==
  ASSUME NEW field, F!CommonField(field) # F!Unknown, F!CommonValue(field) # F!Unknown
  PROVE  F!CommonField(field).size = F!CommonValue(field).size
<1>1. F!CommonField(field) \in {F!InTable(field, "entities"), F!InTable(field, "objects")}
  BY DEF F!CommonField
<1>2. F!CommonValue(field) \in {F!InTable(field, "entities"), F!InTable(field, "objects")}
  BY DEF F!CommonValue
<1> QED BY <1>1, <1>2 DEF F!CommonField, F!CommonValue, F!InTable, F!Table, F!Field, F!Unknown, F!Pointer

(* The two looks agree where both find the field.                          *)
LEMMA LooksAgree ==
  ASSUME ask \in F!AskType, NEW field, NEW size, F!Fits(field, size), F!Found(field) # F!Unknown
  PROVE  /\ F!WriteSize(F!Found(field)) = size /\ F!Found(field).size = size /\ size \in Nat
<1>1. F!Described(field) # F!Unknown /\ F!WriteSize(F!Described(field)) = size
  BY DEF F!Fits
<1>2. ask.kind \in {"entity", "common", "header", "embedded", "array"}
  BY DEF F!AskType
<1>3. CASE ask.kind \in {"entity", "array"}
  <2>1. F!Described(field) = F!InTable(field, ask.dxfname) /\ F!Found(field) = F!InTable(field, ask.dxfname)
    BY <1>3 DEF F!Described, F!Found, F!EntityValue
  <2> QED BY <1>1, <2>1, TablesSay
<1>4. CASE ask.kind = "header"
  <2>1. F!Described(field) = F!InTable(field, "header") /\ F!Found(field) = F!InTable(field, "header")
    BY <1>4 DEF F!Described, F!Found
  <2> QED BY <1>1, <2>1, TablesSay
<1>5. CASE ask.kind = "embedded"
  <2>1. F!Described(field) = F!EmbeddedField(field) /\ F!Found(field) = F!InTable(field, ask.sub_dxfname)
    BY <1>5 DEF F!Described, F!Found
  <2>2. F!EmbeddedField(field) = F!InTable(field, ask.sub_dxfname)
    BY <1>1, <2>1 DEF F!EmbeddedField
  <2> QED BY <1>1, <2>1, <2>2, TablesSay
<1>6. CASE ask.kind = "common"
  <2>1. F!Described(field) = F!CommonField(field) /\ F!Found(field) = F!CommonValue(field)
    BY <1>6 DEF F!Described, F!Found
  <2>2. F!CommonField(field).size = F!CommonValue(field).size
    BY <1>1, <2>1, CommonFieldsAgree
  <2>3. F!WriteSize(F!CommonField(field)) = F!CommonField(field).size
    BY TablesSay DEF F!CommonField
  <2>4. /\ F!WriteSize(F!CommonValue(field)) = F!CommonValue(field).size
        /\ F!CommonValue(field).size \in Nat
    BY TablesSay DEF F!CommonValue
  <2> QED BY <1>1, <2>1, <2>2, <2>3, <2>4
<1> QED BY <1>2, <1>3, <1>4, <1>5, <1>6

Copy(size) == [room |-> size, written |-> size]

LEMMA CopiesFill ==
  ASSUME ask \in F!AskType, NEW field, NEW size, F!Fits(field, size), F!Found(field) # F!Unknown,
         F!Copied(field, size)
  PROVE  copies' = Append(copies, Copy(size)) /\ size \in Nat
BY LooksAgree DEF F!Copied, Copy

FieldInv ==
  /\ ask \in F!AskType /\ step \in {"count", "look", "copy", "slice", "done"}
  /\ copies \in Seq([room : Nat, written : Nat]) /\ F!CopiesFit
  /\ step = "count" => copies = <<>>
  /\ step = "copy" => F!Fits(ask.field, ask.size)
  /\ step = "slice" => count = ask.length
  /\ step \in {"look", "copy"} => ask.kind # "array"
  /\ F!ArraysAreWhole

LEMMA FieldBegins ==
  ASSUME F!Init
  PROVE  FieldInv
<1>1. ask \in F!AskType
  BY ConversionAssumption DEF F!Init
<1> QED BY <1>1 DEF F!Init, FieldInv, F!CopiesFit, F!ArraysAreWhole

LEMMA FieldStays ==
  ASSUME FieldInv, F!Next \/ UNCHANGED F!vars
  PROVE  FieldInv'
<1>1. /\ ask \in F!AskType /\ copies \in Seq([room : Nat, written : Nat]) /\ F!CopiesFit
      /\ ask.length \in Nat /\ ask.kind \in {"entity", "common", "header", "embedded", "array"}
  BY DEF FieldInv, F!AskType
<1>2. ASSUME NEW size \in Nat, copies' = Append(copies, Copy(size))
      PROVE  copies' \in Seq([room : Nat, written : Nat]) /\ F!CopiesFit'
  <2>1. Copy(size) \in [room : Nat, written : Nat] /\ Copy(size).room = Copy(size).written
    BY DEF Copy
  <2>2. copies' \in Seq([room : Nat, written : Nat])
    BY <1>1, <1>2, <2>1
  <2>3. ASSUME NEW k \in DOMAIN copies' PROVE copies'[k].written = copies'[k].room
    <3>1. CASE k \in DOMAIN copies
      BY <1>1, <1>2, <3>1 DEF F!CopiesFit
    <3>2. CASE k \notin DOMAIN copies
      <4>1. k = Len(copies) + 1
        BY <1>1, <1>2, <2>1, <3>2
      <4>2. copies'[k] = Copy(size)
        BY <1>1, <1>2, <4>1
      <4> QED BY <2>1, <4>2
    <3> QED BY <3>1, <3>2
  <2> QED BY <2>2, <2>3 DEF F!CopiesFit
<1>3. CASE F!Look
  BY <1>1, <1>3 DEF F!Look, F!Done, FieldInv, F!CopiesFit, F!Fits, F!Described, F!EmbeddedField, F!ArraysAreWhole
<1>4. CASE F!CopyField
  <2>1. /\ step = "copy" /\ F!Found(ask.field) # F!Unknown /\ F!Copied(ask.field, ask.size)
        /\ step' = "done" /\ UNCHANGED <<ask, count>>
    BY <1>4 DEF F!CopyField, F!Done
  <2>2. F!Fits(ask.field, ask.size) /\ ask.kind # "array"
    BY <2>1 DEF FieldInv
  <2>3. copies' = Append(copies, Copy(ask.size)) /\ ask.size \in Nat
    BY <1>1, <2>1, <2>2, CopiesFill
  <2>4. copies' \in Seq([room : Nat, written : Nat]) /\ F!CopiesFit'
    BY <1>2, <2>3
  <2> QED BY <1>1, <2>1, <2>2, <2>4 DEF FieldInv, F!ArraysAreWhole
<1>5. CASE F!NotFound
  BY <1>1, <1>5 DEF F!NotFound, F!Done, FieldInv, F!CopiesFit, F!ArraysAreWhole
<1>6. CASE F!TakeCount
  <2>1. /\ step = "count" /\ F!CanCopy(ask.countField, ask.countSize)
        /\ F!Copied(ask.countField, ask.countSize)
        /\ count' = IF copies'[1].written < ask.countSize THEN F!Random ELSE ask.length
        /\ IF count' = 0 THEN step' = "done" /\ answer' = <<>> ELSE step' = "slice" /\ answer' = answer
        /\ ask' = ask
    BY <1>6 DEF F!TakeCount, F!Done
  <2>2. copies' = Append(copies, Copy(ask.countSize)) /\ ask.countSize \in Nat
    BY <1>1, <2>1, CopiesFill DEF F!CanCopy
  <2>3. copies' \in Seq([room : Nat, written : Nat]) /\ F!CopiesFit'
    BY <1>2, <2>2
  <2>4. copies'[1] = Copy(ask.countSize)
    BY <1>1, <2>1, <2>2 DEF FieldInv
  <2>5. count' = ask.length
    BY <2>1, <2>2, <2>4 DEF Copy
  <2> QED BY <1>1, <2>1, <2>3, <2>5 DEF FieldInv, F!ArraysAreWhole
<1>7. CASE F!TakeSlice
  <2>1. /\ step = "slice" /\ F!CanCopy(ask.field, F!Pointer) /\ F!Copied(ask.field, F!Pointer)
        /\ step' = "done" /\ answer' = (IF ask.pointer = "null" THEN <<>> ELSE F!Slice(count))
        /\ UNCHANGED <<ask, count>>
    BY <1>7 DEF F!TakeSlice, F!Done
  <2>2. copies' = Append(copies, Copy(F!Pointer)) /\ F!Pointer \in Nat
    BY <1>1, <2>1, CopiesFill DEF F!CanCopy
  <2>3. copies' \in Seq([room : Nat, written : Nat]) /\ F!CopiesFit'
    BY <1>2, <2>2
  <2>4. F!Slice(count) = [k \in 1 .. ask.length |-> "element"]
    BY <1>1, <2>1 DEF FieldInv, F!Slice
  <2> QED BY <1>1, <2>1, <2>3, <2>4 DEF FieldInv, F!ArraysAreWhole
<1>8. CASE F!NoArray
  BY <1>1, <1>8 DEF F!NoArray, F!Done, FieldInv, F!CopiesFit, F!ArraysAreWhole
<1>9. CASE UNCHANGED F!vars
  BY <1>1, <1>9 DEF F!vars, FieldInv, F!CopiesFit, F!Fits, F!Described, F!EmbeddedField, F!ArraysAreWhole
<1> QED BY <1>3, <1>4, <1>5, <1>6, <1>7, <1>8, <1>9 DEF F!Next

FieldPart == part = "field" => FieldInv

LEMMA FieldPartHolds == ConversionSpec => []FieldPart
<1>1. ConversionInit => FieldPart
  BY FieldSteps, FieldBegins DEF FieldPart
<1>2. FieldPart /\ [ConversionNext]_conversionVars => FieldPart'
  <2> SUFFICES ASSUME FieldPart, PartStep, part' = "field" PROVE FieldInv'
    BY DEF PartStep, FieldPart
  <2>1. part = "field" /\ FieldInv
    BY PartsStay DEF FieldPart
  <2> QED BY <2>1, FieldSteps, FieldStays
<1> QED
  BY <1>1, <1>2, PTL DEF ConversionSpec

(* `FieldsAreReadWhole`, for every field and type asked for: the library's *)
(* copy is as large as the caller's buffer, though the two look the field  *)
(* up apart, and an array is read whole or not at all.                     *)
THEOREM FieldsAreWhole == ConversionSpec => []FieldsAreReadWhole
<1>1. FieldPart => FieldsAreReadWhole
  BY DEF FieldPart, FieldInv, FieldsAreReadWhole
<1> QED
  BY <1>1, FieldPartHolds, PTL

-----------------------------------------------------------------------------
(* Blocks by their names.                                                  *)
LEMMA NameSteps ==
  ASSUME part = "names"
  PROVE  /\ ConversionInit => Init
         /\ PartStep => Next \/ UNCHANGED vars
<1>1. ConversionInit => Init
  BY DEF ConversionInit, RecordInit
<1>2. PartStep => Next \/ UNCHANGED vars
  BY DEF PartStep, ConversionNext, RecordNext, conversionVars, nameVars
<1> QED BY <1>1, <1>2

HeaderName == Name \cup {NoName}
EntityName == Name \cup {NoName, Empty, Unlinked}

NamesTyped ==
  /\ d \in Drawing
  /\ header \in [Block -> HeaderName] /\ entity \in [Block -> EntityName]
  /\ highest \in [Letters -> Nat]
  /\ phase \in {"count", "number", "take", "done"} /\ at \in Block /\ fresh \subseteq Block

(* Every number met is known: none of its letter is above the highest.     *)
Known(n) == Numbered(n) => n.no <= highest[n.stem]
NumbersAreKnown ==
  /\ phase = "count" => \A b \in Block : b < at => Known(header[b]) /\ Known(entity[b])
  /\ phase = "number" => \A b \in Block : Known(header[b]) /\ Known(entity[b])

FreshAreApart ==
  /\ phase = "count" => fresh = {}
  /\ phase = "number" => \A b \in fresh : b < at
  /\ \A b \in fresh : Numbered(header[b]) /\ \A c \in Block \ {b} :
       header[c] # header[b] /\ entity[c] # header[b]

(* Names are the file's but for the numbers, which LibreDWG makes up before*)
(* R13 alone.                                                              *)
NamesAreTheFiles ==
  /\ phase \in {"count", "number"} => d.preR13
  /\ ~d.preR13 => header = d.header /\ entity = d.entity
  /\ \A b \in Block :
       /\ header[b] = d.header[b] \/ Numbered(header[b])
       /\ entity[b] = d.entity[b] \/ (Numbered(entity[b]) /\ d.entity[b] # Unlinked)

Taken(b) == phase = "done" \/ (phase = "take" /\ b < at)
RecordsAreKept ==
  BlocksAreApart =>
    \A b \in Block : Taken(b) /\ BlockRecordName(b) # NoName =>
      RecordName(b) \in DOMAIN records /\ records[RecordName(b)] = b

NamesInv == NamesTyped /\ NumbersAreKnown /\ FreshAreApart /\ NamesAreTheFiles /\ RecordsAreKept

(* What a name is.                                                         *)
LEMMA NamesAre ==
  ASSUME NEW n \in EntityName
  PROVE  /\ Numbered(n) => n \in Name /\ n.stem \in Letters /\ n.no \in Nat
         /\ n \in Name /\ ~Starred(n) => n.stem \in Parts /\ n.stem \notin Letters \cup Longs
         /\ n \in Name => n # NoName /\ n # Empty /\ n # Unlinked /\ n.stem \in Stem /\ n.no \in Int
<1>1. NoName.stem = "no name" /\ Empty.stem = "" /\ Unlinked.stem = "unlinked"
  BY DEF NoName, Empty, Unlinked, Special
<1>2. "no name" \notin Stem /\ "" \notin Stem /\ "unlinked" \notin Stem
  BY StemsAssumption
<1>3. n \in Name => n.stem \in Stem /\ n.no \in Int /\ (n.no = Bare \/ n.no >= 0)
  BY DEF Name
<1>4. n \in Name => n # NoName /\ n # Empty /\ n # Unlinked
  BY <1>1, <1>2, <1>3
<1>5. n \in Name \/ n.stem \notin Letters
  BY <1>1, <1>2 DEF EntityName, Stem
<1>6. Numbered(n) => n \in Name /\ n.stem \in Letters /\ n.no \in Nat
  <2> SUFFICES ASSUME Numbered(n) PROVE n \in Name /\ n.stem \in Letters /\ n.no \in Nat
    OBVIOUS
  <2>1. n.stem \in Letters /\ n.no >= 0
    BY DEF Numbered
  <2>2. n \in Name
    BY <1>5, <2>1
  <2>3. n.no \in Int
    BY <1>3, <2>2
  <2> QED BY <2>1, <2>2, <2>3
<1>7. n \in Name /\ ~Starred(n) => n.stem \in Parts /\ n.stem \notin Letters \cup Longs
  BY <1>3 DEF Starred, Stem
<1> QED BY <1>3, <1>4, <1>6, <1>7

LEMMA NamesBegin ==
  ASSUME Init
  PROVE  NamesInv
<1>1. d \in Drawing
  BY DrawingsAssumption DEF Init
<1>2. /\ d.header \in [Block -> HeaderName] /\ d.entity \in [Block -> EntityName] /\ d.preR13 \in BOOLEAN
  BY <1>1 DEF Drawing, HeaderName, EntityName
<1>3. 1 \in Block
  BY BlocksAssumption DEF Block
<1>4. NamesTyped
  BY <1>1, <1>2, <1>3 DEF Init, NamesTyped
<1>5. \A b \in Block : ~(b < at)
  BY DEF Init, Block
<1>6. phase # "number" /\ phase # "done" /\ (phase = "count" <=> d.preR13)
  BY <1>2 DEF Init
<1>7. NumbersAreKnown /\ RecordsAreKept
  BY <1>5, <1>6 DEF NumbersAreKnown, RecordsAreKept, Taken
<1>8. FreshAreApart
  BY DEF Init, FreshAreApart
<1>9. NamesAreTheFiles
  BY <1>6 DEF Init, NamesAreTheFiles
<1> QED BY <1>4, <1>7, <1>8, <1>9 DEF NamesInv

(* The loops go from the first block to the last.                          *)
LEMMA OnwardGoes ==
  ASSUME at \in Block, NEW next, Onward(next)
  PROVE  /\ at' \in Block
         /\ phase' = phase \/ (phase' = next /\ at = Blocks /\ at' = 1)
         /\ phase' = phase /\ phase # next => at' = at + 1
         /\ phase' = phase /\ phase # next => \A b \in Block : b < at' => b < at \/ b = at
         /\ phase' # phase => \A b \in Block : b < at \/ b = at
<1>1. Blocks \in Nat /\ Blocks # 0 /\ at \in 1 .. Blocks
  BY BlocksAssumption DEF Block
<1>2. CASE at = Blocks
  BY <1>1, <1>2 DEF Onward, Block
<1>3. CASE at # Blocks
  BY <1>1, <1>3 DEF Onward, Block
<1> QED BY <1>2, <1>3

(* The highest of a number and of those of a block's two names.            *)
LEMMA HighestIs ==
  ASSUME NEW h \in Nat, NEW b, NEW s \in Letters, header[b] \in EntityName, entity[b] \in EntityName
  PROVE  /\ HighestOf({h} \cup NumbersOf(b, s)) \in Nat
         /\ h <= HighestOf({h} \cup NumbersOf(b, s))
         /\ \A n \in {header[b], entity[b]} : Numbered(n) /\ n.stem = s =>
              n.no <= HighestOf({h} \cup NumbersOf(b, s))
<1> DEFINE met == {h} \cup NumbersOf(b, s)
           f == header[b].no
           g == entity[b].no
           inF == Numbered(header[b]) /\ header[b].stem = s
           inG == Numbered(entity[b]) /\ entity[b].stem = s
<1>1. (inF => f \in Nat) /\ (inG => g \in Nat)
  BY NamesAre
<1>2. \A n : n \in met <=> (n = h \/ (inF /\ n = f) \/ (inG /\ n = g))
  BY DEF NumbersOf
<1> HIDE DEF met, f, g, inF, inG
<1>3. \E n \in met : \A m \in met : m <= n
  <2>1. CASE ~inF /\ ~inG
    BY <1>2, <2>1
  <2>2. CASE inF /\ ~inG
    <3>1. CASE f <= h BY <1>1, <1>2, <2>2, <3>1
    <3>2. CASE ~(f <= h) BY <1>1, <1>2, <2>2, <3>2
    <3> QED BY <3>1, <3>2
  <2>3. CASE ~inF /\ inG
    <3>1. CASE g <= h BY <1>1, <1>2, <2>3, <3>1
    <3>2. CASE ~(g <= h) BY <1>1, <1>2, <2>3, <3>2
    <3> QED BY <3>1, <3>2
  <2>4. CASE inF /\ inG
    <3>1. CASE f <= h /\ g <= h BY <1>1, <1>2, <2>4, <3>1
    <3>2. CASE f <= g /\ h <= g BY <1>1, <1>2, <2>4, <3>2
    <3>3. CASE h <= f /\ g <= f BY <1>1, <1>2, <2>4, <3>3
    <3> QED BY <1>1, <2>4, <3>1, <3>2, <3>3
  <2> QED BY <2>1, <2>2, <2>3, <2>4
<1>4. HighestOf(met) \in met /\ \A m \in met : m <= HighestOf(met)
  BY <1>3 DEF HighestOf
<1>5. HighestOf(met) \in Nat /\ h <= HighestOf(met) /\ (inF => f <= HighestOf(met)) /\ (inG => g <= HighestOf(met))
  BY <1>1, <1>2, <1>4
<1> QED BY <1>5 DEF met, f, g, inF, inG

LEMMA CountNumbersKeeps ==
  ASSUME NamesInv, CountNumbers
  PROVE  NamesInv'
<1>1. /\ phase = "count" /\ Onward("number")
      /\ highest' = [s \in Letters |-> HighestOf({highest[s]} \cup NumbersOf(at, s))]
      /\ UNCHANGED <<d, header, entity, fresh, records>>
  BY DEF CountNumbers
<1>2. /\ NamesTyped /\ at \in Block /\ highest \in [Letters -> Nat]
      /\ \A b \in Block : header[b] \in EntityName /\ entity[b] \in EntityName
  BY DEF NamesInv, NamesTyped, HeaderName, EntityName
<1>3. ASSUME NEW s \in Letters
      PROVE  /\ highest'[s] \in Nat /\ highest[s] <= highest'[s]
             /\ \A n \in {header[at], entity[at]} : Numbered(n) /\ n.stem = s => n.no <= highest'[s]
  <2>1. highest'[s] = HighestOf({highest[s]} \cup NumbersOf(at, s))
    BY <1>1
  <2>2. highest[s] \in Nat /\ header[at] \in EntityName /\ entity[at] \in EntityName
    BY <1>2
  <2> QED BY <2>1, <2>2, HighestIs
<1>4. highest' \in [Letters -> Nat]
  BY <1>1, <1>3
<1>5. ASSUME NEW b \in Block, b < at \/ b = at, NEW n \in {header[b], entity[b]}
      PROVE  Known(n)'
  <2> SUFFICES ASSUME Numbered(n) PROVE n.no <= highest'[n.stem]
    BY DEF Known, Numbered
  <2>1. n.stem \in Letters /\ n.no \in Nat
    BY <1>2, NamesAre
  <2>2. CASE b = at
    BY <1>3, <1>5, <2>1, <2>2
  <2>3. CASE b < at
    <3>1. n.no <= highest[n.stem]
      BY <1>1, <1>5, <2>3 DEF NamesInv, NumbersAreKnown, Known
    <3> QED BY <1>2, <1>3, <2>1, <3>1
  <2> QED BY <1>5, <2>2, <2>3
<1>6. /\ at' \in Block /\ phase' \in {"count", "number"}
      /\ phase' = "count" => \A b \in Block : b < at' => b < at \/ b = at
      /\ phase' = "number" => \A b \in Block : b < at \/ b = at
  BY <1>1, <1>2, OnwardGoes
<1>7. NamesTyped'
  BY <1>1, <1>2, <1>4, <1>6 DEF NamesTyped
<1>8. NumbersAreKnown'
  <2>1. ASSUME NEW b \in Block, b < at \/ b = at PROVE Known(header[b])' /\ Known(entity[b])'
    <3>1. Known(header[b])'
      BY <1>1, <1>5, <2>1 DEF Known, Numbered
    <3>2. Known(entity[b])'
      BY <1>1, <1>5, <2>1 DEF Known, Numbered
    <3> QED BY <3>1, <3>2
  <2> QED BY <1>6, <2>1 DEF NumbersAreKnown
<1>9. FreshAreApart' /\ NamesAreTheFiles'
  BY <1>1, <1>6 DEF NamesInv, FreshAreApart, NamesAreTheFiles
<1>10. RecordsAreKept'
  BY <1>6 DEF RecordsAreKept, Taken
<1> QED BY <1>7, <1>8, <1>9, <1>10 DEF NamesInv

LEMMA NumberPasses ==
  ASSUME at \in Block, phase = "number", Onward("take")
  PROVE  /\ at' \in Block /\ phase' \in {"number", "take"}
         /\ phase' = "number" => at' = at + 1
         /\ phase' = "take" => \A b \in Block : ~(b < at')
BY OnwardGoes DEF Block

LEMMA KeepNameKeeps ==
  ASSUME NamesInv, KeepName
  PROVE  NamesInv'
<1>1. phase = "number" /\ Onward("take") /\ UNCHANGED <<d, header, entity, highest, fresh, records>>
  BY DEF KeepName
<1>2. at \in Block
  BY DEF NamesInv, NamesTyped
<1>3. /\ at' \in Block /\ phase' \in {"number", "take"}
      /\ phase' = "number" => at' = at + 1
      /\ phase' = "take" => \A b \in Block : ~(b < at')
  BY <1>1, <1>2, NumberPasses
<1>4. NamesTyped'
  BY <1>1, <1>3 DEF NamesInv, NamesTyped
<1>5. NumbersAreKnown'
  BY <1>1, <1>3 DEF NamesInv, NumbersAreKnown, Known
<1>6. FreshAreApart'
  <2>1. phase' = "number" => \A b \in fresh : b < at'
    BY <1>1, <1>2, <1>3 DEF NamesInv, NamesTyped, FreshAreApart, Block
  <2> QED BY <1>1, <1>3, <2>1 DEF NamesInv, FreshAreApart
<1>7. NamesAreTheFiles'
  BY <1>1, <1>3 DEF NamesInv, NamesAreTheFiles
<1>8. RecordsAreKept'
  BY <1>3 DEF RecordsAreKept, Taken
<1> QED BY <1>4, <1>5, <1>6, <1>7, <1>8 DEF NamesInv

LEMMA TakeOwnNumberKeeps ==
  ASSUME NamesInv, TakeOwnNumber
  PROVE  NamesInv'
<1>1. /\ phase = "number" /\ IsBare(header[at]) /\ HasOwnNumber(at)
      /\ header' = [header EXCEPT ![at] = entity[at]]
      /\ Onward("take") /\ UNCHANGED <<d, entity, highest, fresh, records>>
  BY DEF TakeOwnNumber
<1>2. /\ NamesTyped /\ at \in Block /\ header \in [Block -> HeaderName] /\ entity \in [Block -> EntityName]
      /\ fresh \subseteq Block
  BY DEF NamesInv, NamesTyped
<1>3. /\ at' \in Block /\ phase' \in {"number", "take"}
      /\ phase' = "number" => at' = at + 1
      /\ phase' = "take" => \A b \in Block : ~(b < at')
  BY <1>1, <1>2, NumberPasses
<1>4. Numbered(entity[at]) /\ entity[at] \in Name
  BY <1>1, <1>2, NamesAre DEF HasOwnNumber
<1>5. /\ header'[at] = entity[at] /\ \A b \in Block \ {at} : header'[b] = header[b]
      /\ header' \in [Block -> HeaderName]
  BY <1>1, <1>2, <1>4 DEF HeaderName
<1>6. NamesTyped'
  BY <1>1, <1>2, <1>3, <1>5 DEF NamesTyped
<1>7. NumbersAreKnown'
  <2>1. \A b \in Block : Known(header[b]) /\ Known(entity[b])
    BY <1>1 DEF NamesInv, NumbersAreKnown
  <2>2. ASSUME NEW b \in Block PROVE Known(header[b])' /\ Known(entity[b])'
    BY <1>1, <1>2, <1>5, <2>1 DEF Known, Numbered
  <2> QED BY <1>3, <2>2 DEF NumbersAreKnown
<1>8. FreshAreApart'
  <2>1. \A b \in fresh : b < at
    BY <1>1 DEF NamesInv, FreshAreApart
  <2>2. phase' = "number" => \A b \in fresh : b < at'
    BY <1>2, <1>3, <2>1 DEF Block
  <2>3. ASSUME NEW b \in fresh
        PROVE  Numbered(header'[b]) /\ \A c \in Block \ {b} : header'[c] # header'[b] /\ entity[c] # header'[b]
    <3>1. b \in Block /\ b # at
      BY <1>2, <2>1 DEF Block
    <3>2. header'[b] = header[b]
      BY <1>5, <3>1
    <3>3. /\ Numbered(header[b])
          /\ \A c \in Block \ {b} : header[c] # header[b] /\ entity[c] # header[b]
      BY DEF NamesInv, FreshAreApart
    <3> QED BY <1>2, <1>5, <3>1, <3>2, <3>3
  <2> QED BY <1>1, <1>3, <2>2, <2>3 DEF FreshAreApart, Numbered
<1>9. NamesAreTheFiles'
  <2>1. d.preR13
    BY <1>1 DEF NamesInv, NamesAreTheFiles
  <2>2. ASSUME NEW b \in Block PROVE header'[b] = d.header[b] \/ Numbered(header'[b])
    BY <1>4, <1>5 DEF NamesInv, NamesAreTheFiles
  <2> QED BY <1>1, <1>3, <2>1, <2>2 DEF NamesInv, NamesAreTheFiles, Numbered
<1>10. RecordsAreKept'
  BY <1>3 DEF RecordsAreKept, Taken
<1> QED BY <1>6, <1>7, <1>8, <1>9, <1>10 DEF NamesInv

LEMMA TakeNextNumberKeeps ==
  ASSUME NamesInv, TakeNextNumber
  PROVE  NamesInv'
<1> DEFINE s == header[at].stem
           new == NextNumber(s)
<1>1. /\ phase = "number" /\ IsBare(header[at]) /\ Onward("take")
      /\ header' = [header EXCEPT ![at] = new]
      /\ entity' = (IF entity[at] = Unlinked THEN entity ELSE [entity EXCEPT ![at] = new])
      /\ highest' = [highest EXCEPT ![s] = highest[s] + 1]
      /\ fresh' = fresh \cup {at} /\ UNCHANGED <<d, records>>
  BY DEF TakeNextNumber
<1>2. /\ NamesTyped /\ at \in Block /\ header \in [Block -> HeaderName] /\ entity \in [Block -> EntityName]
      /\ highest \in [Letters -> Nat] /\ fresh \subseteq Block
  BY DEF NamesInv, NamesTyped
<1>3. /\ at' \in Block /\ phase' \in {"number", "take"}
      /\ phase' = "number" => at' = at + 1
      /\ phase' = "take" => \A b \in Block : ~(b < at')
  BY <1>1, <1>2, NumberPasses
<1>4. s \in Letters /\ highest[s] \in Nat
  BY <1>1, <1>2 DEF IsBare
<1>5. new.stem = s /\ new.no = highest[s] + 1
  BY DEF NextNumber
<1>6. new \in Name /\ Numbered(new)
  BY <1>4, <1>5 DEF NextNumber, Name, Stem, Numbered
<1> HIDE DEF s, new
<1>7. /\ header'[at] = new /\ \A b \in Block \ {at} : header'[b] = header[b]
      /\ header' \in [Block -> HeaderName]
  BY <1>1, <1>2, <1>6 DEF HeaderName
<1>8. /\ entity'[at] = entity[at] \/ (entity'[at] = new /\ entity[at] # Unlinked)
      /\ \A b \in Block \ {at} : entity'[b] = entity[b]
      /\ entity' \in [Block -> EntityName]
  BY <1>1, <1>2, <1>6 DEF EntityName
<1>9. /\ highest' \in [Letters -> Nat] /\ highest'[s] = highest[s] + 1
      /\ \A t \in Letters : highest[t] <= highest'[t]
  BY <1>1, <1>2, <1>4
<1>10. NamesTyped'
  BY <1>1, <1>2, <1>3, <1>7, <1>8, <1>9 DEF NamesTyped
<1>11. \A b \in Block : Known(header[b]) /\ Known(entity[b])
  BY <1>1 DEF NamesInv, NumbersAreKnown
<1>12. ASSUME NEW n \in EntityName, Known(n) PROVE Known(n)' /\ n # new
  <2>1. CASE ~Numbered(n)
    BY <1>6, <2>1 DEF Known, Numbered
  <2>2. CASE Numbered(n)
    <3>1. n.stem \in Letters /\ n.no \in Nat /\ n.no <= highest[n.stem]
      BY <1>12, <2>2, NamesAre DEF Known
    <3>2. n # new
      BY <1>4, <1>5, <3>1
    <3>3. n.no <= highest'[n.stem]
      BY <1>2, <1>9, <3>1
    <3> QED BY <3>2, <3>3 DEF Known
  <2> QED BY <2>1, <2>2
<1>13. new.no <= highest'[new.stem]
  BY <1>4, <1>5, <1>9
<1>14. \A b \in Block : header[b] \in EntityName /\ entity[b] \in EntityName
  BY <1>2 DEF HeaderName, EntityName
<1>15. \A b \in Block : header[b] # new /\ entity[b] # new
  BY <1>11, <1>12, <1>14
<1>16. NumbersAreKnown'
  <2>1. ASSUME NEW b \in Block PROVE Known(header[b])' /\ Known(entity[b])'
    <3>1. \A n \in {header[b], entity[b], new} : Numbered(n) => n.no <= highest'[n.stem]
      BY <1>11, <1>12, <1>13, <1>14 DEF Known, Numbered
    <3>2. header'[b] \in {header[b], new} /\ entity'[b] \in {entity[b], new}
      BY <1>7, <1>8
    <3> QED BY <3>1, <3>2 DEF Known, Numbered
  <2> QED BY <1>3, <2>1 DEF NumbersAreKnown
<1>17. FreshAreApart'
  <2>1. \A b \in fresh : b < at
    BY <1>1 DEF NamesInv, FreshAreApart
  <2>2. phase' = "number" => \A b \in fresh' : b < at'
    BY <1>1, <1>2, <1>3, <2>1 DEF Block
  <2>3. ASSUME NEW b \in fresh'
        PROVE  Numbered(header'[b]) /\ \A c \in Block \ {b} : header'[c] # header'[b] /\ entity'[c] # header'[b]
    <3>1. CASE b = at
      <4>1. ASSUME NEW c \in Block \ {b} PROVE header'[c] # new /\ entity'[c] # new
        BY <1>7, <1>8, <1>15, <3>1
      <4> QED BY <1>6, <1>7, <3>1, <4>1
    <3>2. CASE b # at
      <4>1. b \in fresh /\ b \in Block
        BY <1>1, <1>2, <3>2
      <4>2. header'[b] = header[b]
        BY <1>7, <3>2, <4>1
      <4>3. /\ Numbered(header[b])
            /\ \A c \in Block \ {b} : header[c] # header[b] /\ entity[c] # header[b]
        BY <4>1 DEF NamesInv, FreshAreApart
      <4>4. ASSUME NEW c \in Block \ {b} PROVE header'[c] # header[b] /\ entity'[c] # header[b]
        BY <1>7, <1>8, <1>15, <4>1, <4>3
      <4> QED BY <4>2, <4>3, <4>4
    <3> QED BY <3>1, <3>2
  <2> QED BY <1>3, <2>2, <2>3 DEF FreshAreApart, Numbered
<1>18. NamesAreTheFiles'
  <2>1. d.preR13
    BY <1>1 DEF NamesInv, NamesAreTheFiles
  <2>2. ASSUME NEW b \in Block
        PROVE  /\ header'[b] = d.header[b] \/ Numbered(header'[b])
               /\ entity'[b] = d.entity[b] \/ (Numbered(entity'[b]) /\ d.entity[b] # Unlinked)
    <3>1. /\ header[b] = d.header[b] \/ Numbered(header[b])
          /\ entity[b] = d.entity[b] \/ (Numbered(entity[b]) /\ d.entity[b] # Unlinked)
      BY DEF NamesInv, NamesAreTheFiles
    <3>2. header'[b] = d.header[b] \/ Numbered(header'[b])
      BY <1>6, <1>7, <3>1
    <3>3. entity'[b] = d.entity[b] \/ (Numbered(entity'[b]) /\ d.entity[b] # Unlinked)
      BY <1>6, <1>8, <3>1
    <3> QED BY <3>2, <3>3
  <2> QED BY <1>1, <1>3, <2>1, <2>2 DEF NamesAreTheFiles, Numbered
<1>19. RecordsAreKept'
  BY <1>3 DEF RecordsAreKept, Taken
<1> QED BY <1>10, <1>16, <1>17, <1>18, <1>19 DEF NamesInv

(* In a drawing that tells its blocks apart, a block's name is the file's, *)
(* or one with a star.                                                     *)
LEMMA NamesOfBlocks ==
  ASSUME NamesInv, BlocksAreApart, NEW b \in Block
  PROVE  /\ BlockRecordName(b) \in HeaderName
         /\ BlockRecordName(b) = NameInFile(b) \/ (d.preR13 /\ Starred(BlockRecordName(b)))
         /\ d.preR13 => /\ BlockRecordName(b) # NoName
                        /\ BlockRecordName(b) = IF entity[b] = Unlinked THEN header[b] ELSE entity[b]
<1>1. header[b] \in HeaderName /\ entity[b] \in EntityName /\ header[b] \in EntityName
  BY DEF NamesInv, NamesTyped, HeaderName, EntityName
<1>2. BlockRecordName(b) \in HeaderName
  BY <1>1 DEF BlockRecordName, HeaderName, EntityName
<1>3. CASE ~d.preR13
  BY <1>2, <1>3 DEF NamesInv, NamesAreTheFiles, BlockRecordName, NameInFile
<1>4. CASE d.preR13
  <2>1. d.header[b] # NoName /\ d.entity[b] \notin {NoName, Empty}
    BY <1>4 DEF BlocksAreApart
  <2>2. /\ header[b] = d.header[b] \/ Numbered(header[b])
        /\ entity[b] = d.entity[b] \/ (Numbered(entity[b]) /\ d.entity[b] # Unlinked)
    BY DEF NamesInv, NamesAreTheFiles
  <2>3. /\ Numbered(header[b]) => header[b] # NoName /\ Starred(header[b])
        /\ Numbered(entity[b]) => entity[b] \notin {NoName, Empty, Unlinked} /\ Starred(entity[b])
    <3>1. /\ Numbered(header[b]) => header[b] # NoName
          /\ Numbered(entity[b]) => entity[b] \notin {NoName, Empty, Unlinked}
      BY <1>1, NamesAre
    <3>2. /\ Numbered(header[b]) => Starred(header[b])
          /\ Numbered(entity[b]) => Starred(entity[b])
      BY DEF Numbered, Starred
    <3> QED BY <3>1, <3>2
  <2>4. CASE entity[b] = Unlinked
    <3>1. d.entity[b] = Unlinked
      BY <2>2, <2>3, <2>4
    <3>2. BlockRecordName(b) = header[b] /\ NameInFile(b) = d.header[b]
      BY <2>4, <3>1 DEF BlockRecordName, NameInFile
    <3> QED BY <1>2, <1>4, <2>1, <2>2, <2>3, <2>4, <3>2
  <2>5. CASE entity[b] # Unlinked
    <3>1. d.entity[b] # Unlinked /\ entity[b] \notin {NoName, Empty, Unlinked}
      BY <2>1, <2>2, <2>3, <2>5
    <3>2. BlockRecordName(b) = entity[b] /\ NameInFile(b) = d.entity[b]
      BY <2>1, <3>1 DEF BlockRecordName, NameInFile
    <3> QED BY <1>2, <1>4, <2>2, <2>3, <2>5, <3>1, <3>2
  <2> QED BY <2>4, <2>5
<1> QED BY <1>3, <1>4

(* There each block answers to one index of the table.                     *)
LEMMA IndexOfBlock ==
  ASSUME NamesInv, BlocksAreApart, d.preR13, NEW x \in DOMAIN d.table, d.table[x] # 0
  PROVE  /\ d.table[x] \in Block /\ x \in Nat \ {0}
         /\ InTable(d.table[x]) /\ TableIndex(d.table[x]) = x - 1
<1>1. d.table \in Seq(0 .. Blocks) /\ Blocks \in Nat
  BY BlocksAssumption DEF NamesInv, NamesTyped, Drawing
<1>2. d.table[x] \in 0 .. Blocks /\ x \in Nat \ {0}
  BY <1>1
<1>3. d.table[x] \in Block
  BY <1>1, <1>2 DEF Block
<1>4. Answers(d.table[x]) = {x}
  BY DEF Answers, BlocksAreApart
<1>5. (CHOOSE k \in {x} : \A j \in {x} : k <= j) = x
  BY <1>2
<1> QED BY <1>2, <1>3, <1>4, <1>5 DEF InTable, TableIndex

(* No two blocks' records take the same name.                              *)
LEMMA RecordsAreApart ==
  ASSUME NamesInv, BlocksAreApart, NEW b \in Block, NEW c \in Block, b # c,
         BlockRecordName(b) # NoName, BlockRecordName(c) # NoName
  PROVE  RecordName(b) # RecordName(c)
<1> DEFINE n == BlockRecordName(b)
           m == BlockRecordName(c)
<1>1. /\ n \in Name /\ (n = NameInFile(b) \/ (d.preR13 /\ Starred(n)))
      /\ m \in Name /\ (m = NameInFile(c) \/ (d.preR13 /\ Starred(m)))
  <2>1. /\ n \in HeaderName /\ (n = NameInFile(b) \/ (d.preR13 /\ Starred(n)))
        /\ m \in HeaderName /\ (m = NameInFile(c) \/ (d.preR13 /\ Starred(m)))
    BY NamesOfBlocks
  <2> QED BY <2>1 DEF HeaderName
<1>2. NameInFile(b) = NameInFile(c) => d.preR13 /\ Starred(NameInFile(b))
  BY DEF BlocksAreApart
<1>3. CASE ~d.preR13
  BY <1>1, <1>2, <1>3 DEF RecordName
<1>4. CASE d.preR13
  <2>1. PICK x \in DOMAIN d.table, j \in DOMAIN d.table : d.table[x] = b /\ d.table[j] = c
    BY <1>4 DEF BlocksAreApart
  <2>2. b # 0 /\ c # 0 /\ x # j
    BY <2>1 DEF Block
  <2>3. /\ InTable(b) /\ TableIndex(b) = x - 1 /\ x \in Nat \ {0}
        /\ InTable(c) /\ TableIndex(c) = j - 1 /\ j \in Nat \ {0}
    BY <1>4, <2>1, <2>2, IndexOfBlock
  <2>4. RecordName(b) = PreR13BlockName(n, x - 1) /\ RecordName(c) = PreR13BlockName(m, j - 1)
    BY <1>4, <2>3 DEF RecordName
  <2>5. n \in EntityName /\ m \in EntityName
    BY <1>1 DEF EntityName
  <2>6. /\ n \in [stem : Stem, no : Int] /\ m \in [stem : Stem, no : Int]
    BY <1>1 DEF Name
  <2> HIDE DEF n, m
  <2>7. /\ PreR13BlockName(n, x - 1).stem = n.stem /\ PreR13BlockName(m, j - 1).stem = m.stem
        /\ Starred(n) => PreR13BlockName(n, x - 1).no = x - 1
        /\ Starred(m) => PreR13BlockName(m, j - 1).no = j - 1
        /\ ~Starred(n) => PreR13BlockName(n, x - 1) = n
        /\ ~Starred(m) => PreR13BlockName(m, j - 1) = m
    BY <2>6 DEF PreR13BlockName
  <2>8. CASE Starred(n) /\ Starred(m)
    BY <2>2, <2>3, <2>4, <2>7, <2>8
  <2>9. CASE ~(Starred(n) <=> Starred(m))
    <3>1. n.stem # m.stem
      BY <2>9 DEF Starred
    <3> QED BY <2>4, <2>7, <3>1
  <2>10. CASE ~Starred(n) /\ ~Starred(m)
    <3>1. n = NameInFile(b) /\ m = NameInFile(c)
      BY <1>1, <2>10 DEF n, m
    <3>2. n # m
      BY <1>2, <2>10, <3>1
    <3> QED BY <2>4, <2>7, <2>10, <3>2
  <2> QED BY <2>8, <2>9, <2>10
<1> QED BY <1>3, <1>4

LEMMA TakeBlockKeeps ==
  ASSUME NamesInv, TakeBlock
  PROVE  NamesInv'
<1>1. /\ phase = "take" /\ Onward("done") /\ UNCHANGED <<d, header, entity, highest, fresh>>
      /\ records' = IF BlockRecordName(at) = NoName THEN records ELSE Inserted(RecordName(at), at)
  BY DEF TakeBlock
<1>2. at \in Block
  BY DEF NamesInv, NamesTyped
<1>3. /\ at' \in Block /\ phase' \in {"take", "done"}
      /\ phase' = "take" => \A b \in Block : b < at' => b < at \/ b = at
      /\ phase' = "done" => \A b \in Block : b < at \/ b = at
  BY <1>1, <1>2, OnwardGoes
<1>4. NamesTyped'
  BY <1>1, <1>3 DEF NamesInv, NamesTyped
<1>5. NumbersAreKnown' /\ FreshAreApart' /\ NamesAreTheFiles'
  BY <1>1, <1>3 DEF NamesInv, NumbersAreKnown, FreshAreApart, NamesAreTheFiles, Numbered
<1>6. RecordsAreKept'
  <2> SUFFICES ASSUME BlocksAreApart', NEW b \in Block, Taken(b)', BlockRecordName(b)' # NoName
               PROVE  (RecordName(b) \in DOMAIN records /\ records[RecordName(b)] = b)'
    BY DEF RecordsAreKept
  <2>1. BlocksAreApart
    BY <1>1 DEF BlocksAreApart, NameInFile
  <2>2. \A c \in Block : RecordName(c)' = RecordName(c) /\ BlockRecordName(c)' = BlockRecordName(c)
    BY <1>1 DEF RecordName, BlockRecordName, TableIndex, InTable, Answers
  <2>3. b < at \/ b = at
    BY <1>3 DEF Taken
  <2>4. CASE b = at
    <3>1. records' = Inserted(RecordName(b), b)
      BY <1>1, <2>2, <2>4
    <3> QED BY <2>2, <3>1 DEF Inserted
  <2>5. CASE b # at
    <3>1. RecordName(b) \in DOMAIN records /\ records[RecordName(b)] = b
      BY <1>1, <2>1, <2>2, <2>3, <2>5 DEF NamesInv, RecordsAreKept, Taken
    <3>2. CASE BlockRecordName(at) = NoName
      BY <1>1, <2>2, <3>1, <3>2
    <3>3. CASE BlockRecordName(at) # NoName
      <4>1. RecordName(b) # RecordName(at)
        BY <1>2, <2>1, <2>2, <2>5, <3>3, RecordsAreApart
      <4>2. records' = Inserted(RecordName(at), at)
        BY <1>1, <3>3
      <4> QED BY <2>2, <3>1, <4>1, <4>2 DEF Inserted
    <3> QED BY <3>2, <3>3
  <2> QED BY <2>4, <2>5
<1> QED BY <1>4, <1>5, <1>6 DEF NamesInv

LEMMA NamesStay ==
  ASSUME NamesInv, Next \/ UNCHANGED vars
  PROVE  NamesInv'
<1>1. CASE UNCHANGED vars
  <2>1. /\ d' = d /\ header' = header /\ entity' = entity /\ highest' = highest /\ phase' = phase
        /\ at' = at /\ fresh' = fresh /\ records' = records
    BY <1>1 DEF vars
  <2>2. NamesTyped' /\ NumbersAreKnown' /\ FreshAreApart' /\ NamesAreTheFiles'
    BY <2>1 DEF NamesInv, NamesTyped, NumbersAreKnown, Known, FreshAreApart, NamesAreTheFiles, Numbered
  <2>3. RecordsAreKept'
    BY <2>1 DEF NamesInv, RecordsAreKept, BlocksAreApart, NameInFile, Taken, RecordName, BlockRecordName,
                TableIndex, InTable, Answers
  <2> QED BY <2>2, <2>3 DEF NamesInv
<1> QED
  BY <1>1, CountNumbersKeeps, KeepNameKeeps, TakeOwnNumberKeeps, TakeNextNumberKeeps, TakeBlockKeeps DEF Next

LEMMA NamesLead ==
  ASSUME NamesInv
  PROVE  FreshNumbersAreUnused /\ ReferencesLeadToTheirBlock
<1>1. FreshNumbersAreUnused
  BY DEF NamesInv, FreshAreApart, FreshNumbersAreUnused
<1>2. ReferencesLeadToTheirBlock
  <2> SUFFICES ASSUME phase = "done", BlocksAreApart PROVE ReferencesLeadToTheirBlock
    BY DEF ReferencesLeadToTheirBlock
  <2>1. \A b \in Block : BlockRecordName(b) # NoName =>
          RecordName(b) \in DOMAIN records /\ records[RecordName(b)] = b
    BY DEF NamesInv, RecordsAreKept, Taken
  <2>2. CASE d.preR13
    <3>1. ASSUME NEW x \in DOMAIN d.table, d.table[x] # 0
          PROVE  /\ ReferenceByIndex(x - 1) \in DOMAIN records
                 /\ records[ReferenceByIndex(x - 1)] = d.table[x]
      <4> DEFINE b == d.table[x]
      <4>1. b \in Block /\ x \in Nat \ {0} /\ InTable(b) /\ TableIndex(b) = x - 1
        BY <2>2, <3>1, IndexOfBlock
      <4>2. BlockRecordName(b) # NoName /\ BlockRecordName(b) = IF entity[b] = Unlinked THEN header[b] ELSE entity[b]
        BY <2>2, <4>1, NamesOfBlocks
      <4>3. (x - 1) + 1 = x
        BY <4>1
      <4>4. HandleName(x - 1) = BlockRecordName(b)
        BY <3>1, <4>2, <4>3 DEF HandleName
      <4>5. ReferenceByIndex(x - 1) = RecordName(b)
        BY <2>2, <4>1, <4>2, <4>4 DEF ReferenceByIndex, RecordName
      <4> QED BY <2>1, <4>1, <4>2, <4>5
    <3> QED BY <2>2, <3>1 DEF ReferencesLeadToTheirBlock
  <2>3. CASE ~d.preR13
    <3>1. \A b \in Block : RecordName(b) = BlockRecordName(b)
      BY <2>3 DEF RecordName
    <3> QED BY <2>1, <2>3, <3>1 DEF ReferencesLeadToTheirBlock, ReferenceByObject
  <2> QED BY <2>2, <2>3
<1> QED BY <1>1, <1>2

NamesPart == part = "names" => NamesInv

LEMMA NamesPartHolds == ConversionSpec => []NamesPart
<1>1. ConversionInit => NamesPart
  BY NameSteps, NamesBegin DEF NamesPart
<1>2. NamesPart /\ [ConversionNext]_conversionVars => NamesPart'
  <2> SUFFICES ASSUME NamesPart, PartStep, part' = "names" PROVE NamesInv'
    BY DEF PartStep, NamesPart
  <2>1. part = "names" /\ NamesInv
    BY PartsStay DEF NamesPart
  <2> QED BY <2>1, NameSteps, NamesStay
<1> QED
  BY <1>1, <1>2, PTL DEF ConversionSpec

(* `BlocksAreFound`, for drawings of any number of blocks and any names: a *)
(* number made up for a block is no other's, and where the file tells its  *)
(* blocks apart a reference leads to the record of its own block.          *)
THEOREM BlocksAreFoundByName == ConversionSpec => []BlocksAreFound
<1>1. NamesPart => BlocksAreFound
  BY NamesLead DEF NamesPart, BlocksAreFound
<1> QED
  BY <1>1, NamesPartHolds, PTL

-----------------------------------------------------------------------------
(* The overrides of a dimension style.                                     *)
LEMMA OverrideSteps ==
  ASSUME part = "overrides"
  PROVE  /\ ConversionInit => O!Init
         /\ PartStep => O!Next \/ UNCHANGED O!vars
<1>1. ConversionInit => O!Init
  BY DEF ConversionInit, RecordInit
<1>2. PartStep => O!Next \/ UNCHANGED O!vars
  BY DEF PartStep, ConversionNext, RecordNext, conversionVars, recordVars, O!vars
<1> QED BY <1>1, <1>2

LEMMA LeastExists ==
  ASSUME NEW X, X \subseteq Nat, X # {}
  PROVE  \E n \in X : \A m \in X : n <= m
<1> DEFINE less == OpToRel(<, Nat)
<1>1. IsWellFoundedOn(less, Nat)
  BY NatLessThanWellFounded, Zenon
<1>2. \A n, m \in Nat : n < m => <<n, m>> \in less
  BY DEF OpToRel
<1> HIDE DEF less
<1>3. PICK n \in X : \A m \in X : ~(<<m, n>> \in less)
  BY <1>1, WFMin, Zenon
<1>4. \A m \in X : ~(m < n)
  BY <1>2, <1>3, Zenon
<1> QED
  BY <1>4

(* Where the list's items start, behind a brace or not, and where a list   *)
(* from item `s` on ends.                                                  *)
Inside == O!Contents \ {"open", "close", "null"}
Start == IF O!Holds(O!First + 1, {"open"}) THEN O!First + 2 ELSE O!First + 1
EndsAt(s, e) ==
  /\ e \in s .. (Len(w1) + 1) /\ ~O!Holds(e, Inside)
  /\ \A k \in s .. (e - 1) : O!Holds(k, Inside)

PairAt(n) == O!Holds(n, {"short"}) /\ O!Holds(n + 1, O!Values)
Override == [variable : Nat, value : O!Contents]

(* The pairs copied so far, and what the copying comes to next.            *)
NextItem == w4.start + (2 * Len(w5))
PairsCopied ==
  /\ O!Lists # {} /\ w4.start = Start /\ EndsAt(w4.start, w4.end)
  /\ w4.capacity = (w4.end - w4.start) \div 2
  /\ 2 * Len(w5) <= w4.end - w4.start
  /\ \A n \in 1 .. Len(w5) :
       /\ w5[n].variable = w4.start + (2 * n) - 2
       /\ w5[n].value = w1[w5[n].variable + 1].holds
Stopped == NextItem + 1 >= w4.end \/ ~PairAt(NextItem)

OverrideInv ==
  /\ w1 \in Seq(O!ItemType) /\ (w1 # <<>> => w1[1].first)
  /\ w2 \in Nat \ {0} /\ w3 \in BOOLEAN /\ w4.capacity \in Nat /\ w5 \in Seq(Override)
  /\ w6 \in {"seek", "open", "end", "copy", "done"}
  /\ w6 \in {"seek", "open", "end"} => w5 = <<>>
  /\ w6 = "seek" =>
       /\ w2 <= Len(w1) + 1 /\ w4 = O!NoList /\ (\A n \in O!Lists : n >= w2)
       /\ IF w2 = 1 THEN ~w3 ELSE w3 <=> O!Application(w2 - 1) = "ACAD"
  /\ w6 = "open" => w2 - 1 \in O!Lists /\ O!First = w2 - 1
  /\ w6 = "end" => O!Lists # {} /\ w4 = [O!NoList EXCEPT !.start = w2] /\ w2 = Start
  /\ w6 = "copy" => PairsCopied /\ w2 = NextItem
  /\ w6 = "done" => w5 = <<>> \/ (PairsCopied /\ Stopped)

LEMMA OverridesBegin ==
  ASSUME O!Init
  PROVE  OverrideInv
<1>1. w1 \in Seq(O!ItemType) /\ (w1 # <<>> => w1[1].first)
  BY ConversionAssumption DEF O!Init
<1>2. Len(w1) \in Nat /\ O!Lists \subseteq Nat \ {0}
  BY <1>1 DEF O!Lists
<1>3. /\ w2 = 1 /\ w3 = FALSE /\ w4 = O!NoList /\ w5 = <<>> /\ w6 = "seek" /\ w2 <= Len(w1) + 1
      /\ \A n \in O!Lists : n >= w2
  BY <1>2 DEF O!Init
<1>4. /\ w5 \in Seq(Override) /\ w2 \in Nat \ {0} /\ w4.capacity \in Nat
      /\ w6 \in {"seek", "open", "end", "copy", "done"} /\ w6 \notin {"open", "end", "copy", "done"}
  BY <1>3 DEF O!NoList
<1>5. w3 \in BOOLEAN /\ (IF w2 = 1 THEN ~w3 ELSE w3 <=> O!Application(w2 - 1) = "ACAD")
  BY <1>3, Zenon
<1> QED BY <1>1, <1>3, <1>4, <1>5 DEF OverrideInv

(* An item is of the application named last.                               *)
LEMMA ApplicationIs ==
  ASSUME OverrideInv, NEW n \in DOMAIN w1
  PROVE  IF w1[n].first THEN O!Application(n) = w1[n].app
         ELSE n > 1 /\ O!Application(n) = O!Application(n - 1)
<1> DEFINE firsts(m) == {k \in 1 .. m : w1[k].first}
<1>1. n \in Nat \ {0} /\ w1[1].first
  BY DEF OverrideInv
<1>2. CASE w1[n].first
  <2>1. n \in firsts(n) /\ \A k \in firsts(n) : k <= n /\ k \in Nat
    BY <1>1, <1>2
  <2> HIDE DEF firsts
  <2>2. (CHOOSE k \in firsts(n) : \A l \in firsts(n) : l <= k) = n
    BY <1>1, <2>1
  <2> USE DEF firsts
  <2>3. O!Application(n) = w1[CHOOSE k \in firsts(n) : \A l \in firsts(n) : l <= k].app
    BY DEF O!Application
  <2> HIDE DEF firsts
  <2> QED BY <1>2, <2>2, <2>3
<1>3. CASE ~w1[n].first
  <2>1. n > 1
    BY <1>1, <1>3
  <2>2. firsts(n) = firsts(n - 1)
    BY <1>1, <1>3, <2>1
  <2>3. O!Application(n) = O!Application(n - 1)
    BY <2>2, Zenon DEF O!Application
  <2> QED BY <1>3, <2>1, <2>3
<1> QED BY <1>2, <1>3

LEMMA SeekListKeeps ==
  ASSUME OverrideInv, O!SeekList
  PROVE  OverrideInv'
<1> DEFINE n == w2
           here == O!Application(n) = "ACAD"
<1>1. /\ w6 = "seek" /\ n \in DOMAIN w1 /\ w3' = O!IsAcad /\ w2' = n + 1
      /\ w6' = (IF O!IsAcad /\ w1[n].holds = "DSTYLE" THEN "open" ELSE w6)
      /\ w1' = w1 /\ w4' = w4 /\ w5' = w5
  BY DEF O!SeekList
<1>2. /\ w1 \in Seq(O!ItemType) /\ n \in 1 .. Len(w1) /\ Len(w1) \in Nat /\ w5 = <<>> /\ w4 = O!NoList
      /\ w3 \in BOOLEAN /\ w4.capacity \in Nat /\ \A m \in O!Lists : m >= n
      /\ IF n = 1 THEN ~w3 ELSE w3 <=> O!Application(n - 1) = "ACAD"
  BY <1>1 DEF OverrideInv
<1>3. O!IsAcad <=> here
  <2>1. CASE w1[n].first
    <3>1. O!Application(n) = w1[n].app
      BY <1>1, <2>1, ApplicationIs
    <3> QED BY <2>1, <3>1 DEF O!IsAcad
  <2>2. CASE ~w1[n].first
    <3>1. n > 1 /\ O!Application(n) = O!Application(n - 1)
      BY <1>1, <2>2, ApplicationIs
    <3>2. n # 1
      BY <1>2, <3>1
    <3>3. w3 <=> here
      BY <1>2, <3>1, <3>2
    <3> QED BY <2>2, <3>3 DEF O!IsAcad
  <2> QED BY <2>1, <2>2
<1>4. n \in O!Lists <=> here /\ w1[n].holds = "DSTYLE"
  BY <1>1 DEF O!Lists
<1>5. /\ O!Lists' = O!Lists /\ O!First' = O!First /\ w2' - 1 = n
      /\ O!Application(w2 - 1)' = O!Application(n) /\ O!Lists \subseteq Nat
  <2>1. O!Lists' = O!Lists /\ O!First' = O!First
    BY <1>1 DEF O!Lists, O!Application, O!First
  <2>2. w2' - 1 = n
    BY <1>1, <1>2
  <2>3. O!Application(w2 - 1)' = O!Application(n)
    BY <1>1, <2>2 DEF O!Application
  <2>4. O!Lists \subseteq Nat
    BY <1>2 DEF O!Lists
  <2> QED BY <2>1, <2>2, <2>3, <2>4
<1>6. w3' \in BOOLEAN /\ (w3' <=> here)
  BY <1>1, <1>2, <1>3 DEF O!IsAcad, O!ItemType
<1>7. CASE w6' = "open"
  <2>1. n \in O!Lists
    BY <1>1, <1>3, <1>4, <1>7
  <2>2. O!First = n
    <3>1. \A m \in O!Lists : n <= m
      BY <1>2, <1>5
    <3>2. O!First \in O!Lists /\ O!First <= n
      BY <2>1, <3>1 DEF O!First
    <3> QED BY <1>2, <1>5, <3>1, <3>2
  <2> QED BY <1>1, <1>2, <1>5, <1>6, <1>7, <2>1, <2>2 DEF OverrideInv
<1>8. CASE w6' # "open"
  <2>1. w6' = "seek" /\ n \notin O!Lists
    BY <1>1, <1>3, <1>4, <1>8
  <2>2. \A m \in O!Lists : m >= w2'
    BY <1>1, <1>2, <1>5, <2>1
  <2>3. w2' <= Len(w1) + 1 /\ w2' # 1 /\ w2' \in Nat \ {0}
    BY <1>1, <1>2
  <2>4. IF w2' = 1 THEN ~w3' ELSE w3' <=> O!Application(w2 - 1)' = "ACAD"
    BY <1>5, <1>6, <2>3
  <2> HIDE DEF n, here
  <2> QED BY <1>1, <1>2, <1>5, <1>6, <2>1, <2>2, <2>3, <2>4 DEF OverrideInv
<1> QED BY <1>7, <1>8

LEMMA ListsStay ==
  ASSUME w1' = w1
  PROVE  /\ O!Lists' = O!Lists /\ O!First' = O!First /\ Start' = Start
         /\ \A n, c : O!Holds(n, c)' = O!Holds(n, c)
         /\ \A m, e : EndsAt(m, e)' = EndsAt(m, e)
         /\ \A n : PairAt(n)' = PairAt(n)
BY DEF O!Lists, O!Application, O!First, O!Holds, Start, EndsAt, PairAt

LEMMA ItemHolds ==
  ASSUME w1 \in Seq(O!ItemType), NEW k \in 1 .. Len(w1)
  PROVE  w1[k].holds \in O!Contents
<1>1. w1[k] \in O!ItemType
  <2>1. ASSUME NEW X, NEW xs \in Seq(X), NEW j \in 1 .. Len(xs) PROVE xs[j] \in X
    BY <2>1
  <2> QED BY <2>1
<1>2. QED
  BY <1>1, Zenon DEF O!ItemType

LEMMA ListsAreItems ==
  ASSUME OverrideInv, O!Lists # {}
  PROVE  /\ O!First \in O!Lists /\ O!First \in 1 .. Len(w1) /\ Len(w1) \in Nat
         /\ Start \in Nat \ {0} /\ Start <= Len(w1) + 1 /\ Start \in {O!First + 1, O!First + 2}
<1>1. w1 \in Seq(O!ItemType) /\ Len(w1) \in Nat /\ DOMAIN w1 = 1 .. Len(w1)
  BY DEF OverrideInv
<1>2. O!Lists \subseteq 1 .. Len(w1)
  BY <1>1 DEF O!Lists
<1>3. \E n \in O!Lists : \A m \in O!Lists : n <= m
  <2>1. O!Lists \subseteq Nat
    BY <1>1, <1>2
  <2> QED BY <2>1, LeastExists, Zenon
<1>4. O!First \in O!Lists
  BY <1>3, Zenon DEF O!First
<1>5. O!Holds(O!First + 1, {"open"}) => O!First + 1 \in 1 .. Len(w1)
  BY <1>1 DEF O!Holds
<1> QED BY <1>1, <1>2, <1>4, <1>5 DEF Start

LEMMA SkipBraceKeeps ==
  ASSUME OverrideInv, O!SkipBrace
  PROVE  OverrideInv'
<1>1. /\ w6 = "open" /\ w6' = "end" /\ w1' = w1 /\ w3' = w3 /\ w5' = w5
      /\ w2' = IF O!Holds(w2, {"open"}) THEN w2 + 1 ELSE w2
      /\ w4' = [O!NoList EXCEPT !.start = w2']
  BY DEF O!SkipBrace
<1>2. w2 - 1 \in O!Lists /\ O!First = w2 - 1 /\ w2 \in Nat \ {0} /\ w5 = <<>>
  BY <1>1 DEF OverrideInv
<1>3. w2' = Start
  <2>1. w2 = O!First + 1 /\ w2 + 1 = O!First + 2
    BY <1>2
  <2> QED BY <1>1, <2>1 DEF Start
<1>4. w2' \in Nat \ {0} /\ w4'.capacity \in Nat
  BY <1>1, <1>2 DEF O!NoList
<1>5. O!Lists' # {} /\ Start' = Start
  BY <1>1, <1>2, ListsStay
<1> QED BY <1>1, <1>2, <1>3, <1>4, <1>5 DEF OverrideInv

LEMMA EndExists ==
  ASSUME OverrideInv, NEW n \in Nat \ {0}, n <= Len(w1) + 1
  PROVE  \E e \in n .. (Len(w1) + 1) : ~O!Holds(e, Inside) /\ \A k \in n .. (e - 1) : O!Holds(k, Inside)
<1> DEFINE ends == {e \in n .. (Len(w1) + 1) : ~O!Holds(e, Inside)}
<1>1. Len(w1) \in Nat /\ DOMAIN w1 = 1 .. Len(w1)
  BY DEF OverrideInv
<1>2. Len(w1) + 1 \in ends
  BY <1>1 DEF O!Holds
<1>3. ends \subseteq Nat /\ ends # {}
  BY <1>1, <1>2
<1>4. PICK e \in ends : \A m \in ends : e <= m
  <2> HIDE DEF ends
  <2> QED BY <1>3, LeastExists
<1>5. ASSUME NEW k \in n .. (e - 1) PROVE O!Holds(k, Inside)
  BY <1>1, <1>4
<1> QED BY <1>4, <1>5

LEMMA FindEndKeeps ==
  ASSUME OverrideInv, O!FindEnd
  PROVE  OverrideInv'
<1> DEFINE end == CHOOSE n \in w2 .. (Len(w1) + 1) :
                    ~O!Holds(n, Inside) /\ \A k \in w2 .. (n - 1) : O!Holds(k, Inside)
<1>1. /\ w6 = "end" /\ w1' = w1 /\ w2' = w2 /\ w3' = w3 /\ w5' = w5
      /\ w4' = [w4 EXCEPT !.end = end, !.capacity = (end - w2) \div 2]
      /\ w6' \in {"copy", "done"}
  BY DEF O!FindEnd, Inside
<1>2. O!Lists # {} /\ w4 = [start |-> w2, end |-> 0, capacity |-> 0] /\ w2 = Start /\ w5 = <<>>
  BY <1>1 DEF OverrideInv, O!NoList
<1>3. Len(w1) \in Nat /\ w2 \in Nat \ {0} /\ w2 <= Len(w1) + 1
  BY <1>2, ListsAreItems
<1>4. EndsAt(w2, end)
  BY <1>3, EndExists DEF EndsAt
<1>5. end \in Nat /\ end - w2 \in Nat
  BY <1>3, <1>4 DEF EndsAt
<1>6. (end - w2) \div 2 \in Nat
  BY <1>5, DivisionBounds
<1> HIDE DEF end
<1>7. w4'.start = w2 /\ w4'.end = end /\ w4'.capacity = (end - w2) \div 2
  BY <1>1, <1>2
<1>8. Len(w5') = 0
  BY <1>1, <1>2
<1>9. w6' = "copy" => PairsCopied' /\ w2' = NextItem'
  <2>1. O!Lists' # {} /\ Start' = Start
    BY <1>1, <1>2, ListsStay
  <2>2. EndsAt(w4.start, w4.end)'
    BY <1>1, <1>4, <1>7 DEF EndsAt, O!Holds
  <2>3. NextItem' = w2
    BY <1>3, <1>7, <1>8 DEF NextItem
  <2> QED BY <1>1, <1>2, <1>5, <1>7, <1>8, <2>1, <2>2, <2>3 DEF PairsCopied
<1>10. /\ w1' \in Seq(O!ItemType) /\ (w1' # <<>> => w1'[1].first) /\ w2' \in Nat \ {0} /\ w3' \in BOOLEAN
       /\ w4'.capacity \in Nat /\ w5' \in Seq(Override) /\ w5' = <<>>
  BY <1>1, <1>2, <1>6, <1>7 DEF OverrideInv
<1> QED BY <1>1, <1>9, <1>10 DEF OverrideInv

LEMMA CopyPairKeeps ==
  ASSUME OverrideInv, O!CopyPair
  PROVE  OverrideInv'
<1> DEFINE pair == [variable |-> w2, value |-> w1[w2 + 1].holds]
<1>1. /\ w6 = "copy" /\ w2 + 1 < w4.end /\ w1' = w1 /\ w3' = w3 /\ w4' = w4
      /\ IF PairAt(w2) THEN w5' = Append(w5, pair) /\ w2' = w2 + 2 /\ w6' = w6
         ELSE w6' = "done" /\ w5' = w5 /\ w2' = w2
  BY DEF O!CopyPair, PairAt
<1>2. /\ PairsCopied /\ w2 = NextItem /\ w1 \in Seq(O!ItemType) /\ w2 \in Nat \ {0} /\ w5 \in Seq(Override)
      /\ w3 \in BOOLEAN /\ w4.capacity \in Nat /\ (w1 # <<>> => w1[1].first)
  BY <1>1 DEF OverrideInv
<1>3. O!Lists' = O!Lists /\ Start' = Start /\ EndsAt(w4.start, w4.end)' = EndsAt(w4.start, w4.end)
  BY <1>1 DEF O!Lists, O!Application, O!First, O!Holds, Start, EndsAt
<1>4. w4.start \in Nat \ {0} /\ w4.end \in Nat /\ Len(w5) \in Nat /\ Len(w1) \in Nat
  BY <1>2, ListsAreItems DEF PairsCopied, EndsAt
<1>5. CASE PairAt(w2)
  <2>1. w2 + 1 \in 1 .. Len(w1) /\ pair.variable = w2 /\ pair.value = w1[w2 + 1].holds
    BY <1>2, <1>5 DEF PairAt, O!Holds
  <2>2. w1[w2 + 1].holds \in O!Contents
    BY <1>2, <2>1, ItemHolds
  <2>3. pair \in Override
    BY <1>2, <2>2 DEF Override
  <2> HIDE DEF pair
  <2>4. /\ w5' \in Seq(Override) /\ Len(w5') = Len(w5) + 1 /\ w5'[Len(w5) + 1] = pair
        /\ \A n \in 1 .. Len(w5) : w5'[n] = w5[n]
    <3>1. w5' = Append(w5, pair)
      BY <1>1, <1>5
    <3>2. ASSUME NEW X, NEW es \in Seq(X), NEW e \in X
          PROVE  /\ Append(es, e) \in Seq(X) /\ Len(Append(es, e)) = Len(es) + 1
                 /\ Append(es, e)[Len(es) + 1] = e
                 /\ \A n \in 1 .. Len(es) : Append(es, e)[n] = es[n]
      BY <3>2
    <3> QED BY <1>2, <2>3, <3>1, <3>2
  <2>5. w2 = w4.start + (2 * Len(w5))
    BY <1>2 DEF NextItem
  <2>6. w2' = NextItem' /\ 2 * Len(w5') <= w4.end - w4.start
    BY <1>1, <1>4, <1>5, <2>4, <2>5 DEF NextItem
  <2>7. ASSUME NEW n \in 1 .. Len(w5')
        PROVE  /\ w5'[n].variable = w4.start + (2 * n) - 2
               /\ w5'[n].value = w1[w5'[n].variable + 1].holds
    <3>1. CASE n = Len(w5) + 1
      <4>1. w5'[n].variable = w2 /\ w5'[n].value = w1[w2 + 1].holds
        BY <2>1, <2>4, <3>1
      <4>2. w2 = w4.start + (2 * n) - 2
        BY <1>4, <2>5, <3>1
      <4> QED BY <4>1, <4>2
    <3>2. CASE n # Len(w5) + 1
      <4>1. n \in 1 .. Len(w5)
        BY <1>4, <2>4, <3>2
      <4> QED BY <1>2, <2>4, <4>1 DEF PairsCopied
    <3> QED BY <3>1, <3>2
  <2>8. PairsCopied'
    BY <1>1, <1>2, <1>3, <2>6, <2>7 DEF PairsCopied
  <2>9. w6' = "copy" /\ w2' \in Nat \ {0}
    BY <1>1, <1>2, <1>5
  <2> QED BY <1>1, <1>2, <2>4, <2>6, <2>8, <2>9 DEF OverrideInv
<1>6. CASE ~PairAt(w2)
  <2>1. w6' = "done" /\ w5' = w5 /\ w2' = w2
    BY <1>1, <1>6
  <2>2. PairsCopied' /\ Stopped'
    BY <1>1, <1>2, <1>3, <1>6, <2>1 DEF PairsCopied, Stopped, NextItem, PairAt, O!Holds
  <2> QED BY <1>1, <1>2, <2>1, <2>2 DEF OverrideInv
<1> QED BY <1>5, <1>6

LEMMA OverridesStay ==
  ASSUME OverrideInv, O!Next \/ UNCHANGED O!vars
  PROVE  OverrideInv'
<1>1. CASE O!NoListFound
  BY <1>1 DEF O!NoListFound, OverrideInv
<1>2. CASE O!EndOfList
  <2>1. /\ w6 = "copy" /\ w2 + 1 >= w4.end /\ w6' = "done"
        /\ w1' = w1 /\ w2' = w2 /\ w3' = w3 /\ w4' = w4 /\ w5' = w5
    BY <1>2 DEF O!EndOfList
  <2>2. PairsCopied /\ w2 = NextItem
    BY <2>1 DEF OverrideInv
  <2>3. PairsCopied' /\ Stopped'
    <3>1. /\ O!Lists' = O!Lists /\ Start' = Start /\ NextItem' = NextItem
          /\ \A m, e : EndsAt(m, e)' = EndsAt(m, e)
      BY <2>1, ListsStay DEF NextItem
    <3>2. EndsAt(w4.start, w4.end)' = EndsAt(w4.start, w4.end)
      BY <2>1 DEF EndsAt, O!Holds
    <3>3. PairsCopied'
      BY <2>1, <2>2, <3>1, <3>2 DEF PairsCopied
    <3>4. Stopped'
      BY <2>1, <2>2, <3>1 DEF Stopped
    <3> QED BY <3>3, <3>4
  <2> QED BY <2>1, <2>3 DEF OverrideInv
<1>3. CASE UNCHANGED O!vars
  <2>1. w1' = w1 /\ w2' = w2 /\ w3' = w3 /\ w4' = w4 /\ w5' = w5 /\ w6' = w6
    BY <1>3 DEF O!vars
  <2>2. /\ O!Lists' = O!Lists /\ O!First' = O!First /\ Start' = Start
        /\ O!Application(w2 - 1)' = O!Application(w2 - 1)
        /\ PairsCopied' = PairsCopied /\ Stopped' = Stopped /\ NextItem' = NextItem
    BY <2>1 DEF PairsCopied, Stopped, NextItem, O!Lists, O!Application, O!First, O!Holds, Start, EndsAt, PairAt
  <2> QED BY <2>1, <2>2 DEF OverrideInv
<1> QED
  BY <1>1, <1>2, <1>3, SeekListKeeps, SkipBraceKeeps, FindEndKeeps, CopyPairKeeps DEF O!Next

(* A list written out whole, in pairs, is gone through to its brace.       *)
LEMMA WholeListIsCopied ==
  ASSUME OverrideInv, PairsCopied, Stopped, NEW e \in DOMAIN w1, O!Closed(O!First + 2, e),
         \A k \in 1 .. ((e - O!First - 2) \div 2) : O!IsPair(O!First + 2, k)
  PROVE  Len(w5) = (e - O!First - 2) \div 2
<1> DEFINE s == O!First + 2
           pairs == (e - O!First - 2) \div 2
<1>1. /\ w1 \in Seq(O!ItemType) /\ Len(w1) \in Nat /\ DOMAIN w1 = 1 .. Len(w1) /\ Len(w5) \in Nat
  BY DEF OverrideInv
<1>2. O!First \in Nat \ {0} /\ s - 1 = O!First + 1 /\ e - O!First - 2 = e - s
  BY <1>1, ListsAreItems DEF PairsCopied
<1>3. /\ O!Holds(O!First + 1, {"open"}) /\ O!Holds(e, {"close"}) /\ e > s /\ (e - s) % 2 = 0
      /\ \A k \in s .. (e - 1) : w1[k].holds \notin {"open", "close", "null"}
  BY <1>2 DEF O!Closed
<1>4. w4.start = s
  BY <1>3 DEF PairsCopied, Start
<1>5. w4.end = e
  <2>1. e \in s .. (Len(w1) + 1) /\ ~O!Holds(e, Inside)
    BY <1>1, <1>2, <1>3 DEF O!Holds, Inside
  <2>2. ASSUME NEW k \in s .. (e - 1) PROVE O!Holds(k, Inside)
    <3>1. k \in 1 .. Len(w1)
      BY <1>1, <1>2
    <3>2. w1[k].holds \in O!Contents
      BY <1>1, <3>1, ItemHolds
    <3> QED BY <1>1, <1>3, <3>1, <3>2 DEF O!Holds, Inside
  <2>3. /\ w4.end \in s .. (Len(w1) + 1) /\ ~O!Holds(w4.end, Inside)
        /\ \A k \in s .. (w4.end - 1) : O!Holds(k, Inside)
    BY <1>4 DEF PairsCopied, EndsAt
  <2>4. ~(w4.end < e)
    BY <1>1, <1>2, <2>2, <2>3
  <2>5. ~(e < w4.end)
    BY <1>1, <1>2, <2>1, <2>3
  <2> QED BY <1>1, <2>3, <2>4, <2>5
<1>6. pairs \in Nat /\ e = s + (2 * pairs)
  <2>1. e - s \in Nat
    BY <1>1, <1>2, <1>3
  <2>2. ASSUME NEW n \in Nat, n % 2 = 0 PROVE n \div 2 \in Nat /\ n = 2 * (n \div 2)
    BY <2>2, Z3
  <2>3. (e - s) \div 2 \in Nat /\ e - s = 2 * ((e - s) \div 2)
    BY <1>3, <2>1, <2>2
  <2> QED BY <1>1, <1>2, <2>3
<1> HIDE DEF s, pairs
<1>7. Len(w5) <= pairs
  <2>1. 2 * Len(w5) <= e - s
    BY <1>4, <1>5 DEF PairsCopied
  <2> QED BY <1>1, <1>2, <1>6, <2>1 DEF s
<1>8. ASSUME Len(w5) < pairs PROVE FALSE
  <2>1. NextItem = s + (2 * Len(w5))
    BY <1>4 DEF NextItem
  <2>2. ~(NextItem + 1 >= w4.end)
    BY <1>1, <1>2, <1>5, <1>6, <1>8, <2>1 DEF s
  <2>3. O!IsPair(s, Len(w5) + 1)
    BY <1>1, <1>6, <1>8 DEF s, pairs
  <2>4. s + (2 * (Len(w5) + 1)) - 2 = NextItem /\ s + (2 * (Len(w5) + 1)) - 1 = NextItem + 1
    BY <1>1, <1>2, <2>1 DEF s
  <2>5. PairAt(NextItem)
    BY <2>3, <2>4 DEF O!IsPair, PairAt
  <2> QED BY <2>2, <2>5 DEF Stopped
<1>9. Len(w5) = pairs
  BY <1>1, <1>6, <1>7, <1>8
<1> QED BY <1>9 DEF pairs

LEMMA OverridesAreOfTheList ==
  ASSUME OverrideInv
  PROVE  O!OverridesAreTheList
<1>1. CASE w5 = <<>>
  BY <1>1 DEF OverrideInv, O!OverridesAreTheList
<1>2. CASE w5 # <<>>
  <2>1. PairsCopied /\ (w6 = "done" => Stopped) /\ w5 \in Seq(Override) /\ Len(w5) \in Nat
    BY <1>2 DEF OverrideInv
  <2>2. /\ O!Lists # {} /\ Start \in Nat \ {0} /\ Start \in {O!First + 1, O!First + 2}
        /\ w4.start = Start /\ w4.end \in Nat
    BY <2>1, ListsAreItems DEF PairsCopied, EndsAt
  <2>3. Len(w5) <= w4.capacity
    <3>1. ASSUME NEW n \in Int, NEW m \in Int, 2 * n <= m PROVE n <= m \div 2
      BY <3>1, Z3
    <3> QED BY <2>1, <2>2, <3>1 DEF PairsCopied
  <2>4. ASSUME NEW n \in DOMAIN w5
        PROVE  /\ w5[n].variable = w4.start + (2 * n) - 2
               /\ w5[n].value = w1[w5[n].variable + 1].holds
    <3>1. DOMAIN w5 = 1 .. Len(w5)
      BY <2>1
    <3>2. n \in 1 .. Len(w5)
      BY <3>1
    <3>3. \A m \in 1 .. Len(w5) :
            /\ w5[m].variable = w4.start + (2 * m) - 2
            /\ w5[m].value = w1[w5[m].variable + 1].holds
      BY <2>1, Zenon DEF PairsCopied
    <3> QED BY <3>2, <3>3
  <2>5. w5[1].variable \in {O!First + 1, O!First + 2}
    <3>1. 1 \in DOMAIN w5
      BY <1>2, <2>1
    <3>2. w5[1].variable = w4.start + (2 * 1) - 2
      BY <2>4, <3>1
    <3>3. w5[1].variable = Start
      BY <2>2, <3>2
    <3> QED BY <2>2, <3>3
  <2>6. ASSUME w6 = "done", NEW e \in DOMAIN w1, O!Closed(O!First + 2, e),
               \A k \in 1 .. ((e - O!First - 2) \div 2) : O!IsPair(O!First + 2, k)
        PROVE  Len(w5) \in {0, (e - O!First - 2) \div 2}
    BY <2>1, <2>6, WholeListIsCopied
  <2> QED BY <2>2, <2>3, <2>4, <2>5, <2>6 DEF O!OverridesAreTheList
<1> QED BY <1>1, <1>2

OverridePart == part = "overrides" => OverrideInv

LEMMA OverridePartHolds == ConversionSpec => []OverridePart
<1>1. ConversionInit => OverridePart
  BY OverrideSteps, OverridesBegin DEF OverridePart
<1>2. OverridePart /\ [ConversionNext]_conversionVars => OverridePart'
  <2> SUFFICES ASSUME OverridePart, PartStep, part' = "overrides" PROVE OverrideInv'
    BY DEF PartStep, OverridePart
  <2>1. part = "overrides" /\ OverrideInv
    BY PartsStay DEF OverridePart
  <2> QED BY <2>1, OverrideSteps, OverridesStay
<1> QED
  BY <1>1, <1>2, PTL DEF ConversionSpec

(* `OverridesAreTheList`, for extended data of any length: the overrides   *)
(* fit the room made for them, are ACAD's, and a list written out whole is *)
(* copied whole or not at all.                                             *)
THEOREM OverridesAreOfACAD == ConversionSpec => []OverridesAreTheList
<1>1. OverridePart => OverridesAreTheList
  BY OverridesAreOfTheList DEF OverridePart, OverridesAreTheList
<1> QED
  BY <1>1, OverridePartHolds, PTL

-----------------------------------------------------------------------------
(* Strings taken in and decoded.                                           *)
LEMMA TextSteps ==
  ASSUME part = "text"
  PROVE  /\ ConversionInit => T!Init
         /\ PartStep => T!Next \/ UNCHANGED T!vars
<1>1. ConversionInit => T!Init
  BY DEF ConversionInit, RecordInit
<1>2. PartStep => T!Next \/ UNCHANGED T!vars
  BY DEF PartStep, ConversionNext, RecordNext, conversionVars, textVars, T!vars
<1> QED BY <1>1, <1>2

(* The walk so far: the characters lie side by side, from the first byte.  *)
RowOfChars ==
  \A k \in DOMAIN text :
    /\ text[k].from = IF k = 1 THEN 1 ELSE text[k - 1].to + 1
    /\ text[k].to >= text[k].from
AfterChars == IF text = <<>> THEN 1 ELSE text[Len(text)].to + 1
Unshown == {k \in DOMAIN text : ~ text[k].shown}
Walked ==
  RowOfChars /\ i = AfterChars /\ i <= Len(reading.bytes) + 1 /\ unmapped = Cardinality(Unshown)

LEMMA CardinalityIs ==
  ASSUME NEW X
  PROVE  T!Cardinality(X) = Cardinality(X)
BY DEF T!Cardinality, Cardinality

LEMMA WalkedIs == T!WalkCoversTheBytes <=> (T!ByCodepage => Walked)
<1>1. Cardinality(Unshown) = T!Cardinality({k \in DOMAIN text : ~ text[k].shown})
  BY CardinalityIs DEF Unshown
<1> QED BY <1>1 DEF T!WalkCoversTheBytes, Walked, RowOfChars, AfterChars

(* The bytes of a string are met while it is read: it is handed out as its *)
(* way says, its copy is there until it is taken.                          *)
TextInv ==
  /\ storage \in {"wide", "narrow"} /\ warnings \in Seq(T!Warning)
  /\ T!Idle \/ (reading \in T!Stored /\ handed = T!HandOut(reading.way))
  /\ T!Idle => heap = 0
  /\ T!Met => heap = (IF handed.copied THEN 1 ELSE 0) /\ text = <<>> /\ i = 1 /\ unmapped = 0
  /\ T!Decoding => raw = handed.layout /\ heap = 0 /\ text \in Seq(T!Char) /\ i \in Nat \ {0} /\ unmapped \in Nat
  /\ T!ByCodepage => Walked

LEMMA HandedIs ==
  ASSUME storage \in {"wide", "narrow"}, NEW way \in T!Ways
  PROVE  /\ T!HandOut(way).layout = (IF storage = "wide" /\ way \in {"field", "name", "header", "entry"}
                                     THEN "converted" ELSE T!StoredWidth)
         /\ T!HandOut(way).copied <=> (way = "entry" \/ (storage = "wide" /\ way \in {"field", "name", "header"}))
<1>1. CASE way \in {"field", "name", "header"}
  <2>1. T!HandOut(way) = T!Utf8Text
    BY <1>1 DEF T!HandOut
  <2> QED BY <1>1, <2>1 DEF T!Utf8Text, T!AsStored, T!StoredWidth
<1>2. CASE way = "entry"
  <2>1. T!HandOut(way) = T!DwgHandleName
    BY <1>2 DEF T!HandOut
  <2>2. T!DwgHandleName.copied = TRUE /\ T!DwgHandleName.layout = T!Utf8Text.layout
    BY DEF T!DwgHandleName, T!Utf8Text, T!AsStored
  <2>3. T!Utf8Text.layout = IF storage = "wide" THEN "converted" ELSE T!StoredWidth
    BY DEF T!Utf8Text, T!AsStored, T!StoredWidth
  <2> QED BY <1>2, <2>1, <2>2, <2>3
<1>3. CASE way \in {"embedded", "override"}
  <2>1. T!HandOut(way) = T!AsStored
    BY <1>3 DEF T!HandOut
  <2> QED BY <1>3, <2>1 DEF T!AsStored
<1> QED BY <1>1, <1>2, <1>3 DEF T!Ways

LEMMA TextBegins ==
  ASSUME T!Init
  PROVE  TextInv
BY DEF T!Init, TextInv, T!Idle, T!Met, T!Decoding, T!ByCodepage, T!Nothing

LEMMA MeetKeeps ==
  ASSUME TextInv, T!Meet
  PROVE  TextInv'
<1>1. PICK s \in T!Stored : reading' = s /\ handed' = T!HandOut(s.way)
                            /\ heap' = IF T!HandOut(s.way).copied THEN heap + 1 ELSE heap
  BY DEF T!Meet
<1>2. /\ T!Idle /\ raw' = "none" /\ text' = <<>> /\ i' = 1 /\ unmapped' = 0
      /\ storage' = storage /\ codepage' = codepage /\ warnings' = warnings
  BY DEF T!Meet, T!Drawing
<1>3. heap = 0
  BY <1>2 DEF TextInv
<1>4. ~T!Idle'
  <2>1. DOMAIN s = {"place", "way", "bytes", "unicode"} /\ DOMAIN T!Nothing = {"place"}
    BY DEF T!Stored, T!Nothing
  <2> QED BY <1>1, <2>1 DEF T!Idle, T!Nothing
<1>5. handed' = T!HandOut(reading.way)'
  BY <1>1, <1>2 DEF T!HandOut, T!Utf8Text, T!DwgHandleName, T!AsStored, T!StoredWidth
<1> QED
  BY <1>1, <1>2, <1>3, <1>4, <1>5 DEF TextInv, T!Met, T!Decoding, T!ByCodepage

LEMMA TakeKeeps ==
  ASSUME TextInv, T!Take
  PROVE  TextInv'
<1>1. /\ T!Met /\ raw' = T!TakenAs /\ heap' = (IF handed.copied THEN heap - 1 ELSE heap)
      /\ storage' = storage /\ codepage' = codepage /\ reading' = reading /\ handed' = handed
      /\ text' = text /\ i' = i /\ unmapped' = unmapped /\ warnings' = warnings
  BY DEF T!Take, T!Drawing
<1>2. /\ reading \in T!Stored /\ handed = T!HandOut(reading.way) /\ storage \in {"wide", "narrow"}
      /\ heap = (IF handed.copied THEN 1 ELSE 0) /\ text = <<>> /\ i = 1 /\ unmapped = 0
  BY <1>1 DEF TextInv, T!Met
<1>3. reading.way \in T!Ways
  BY <1>2 DEF T!Stored
<1>4. T!TakenAs = handed.layout
  <2>1. /\ handed.layout = (IF storage = "wide" /\ reading.way \in {"field", "name", "header", "entry"}
                            THEN "converted" ELSE T!StoredWidth)
        /\ handed.copied <=> (reading.way = "entry" \/ (storage = "wide" /\ reading.way \in {"field", "name", "header"}))
    BY <1>2, <1>3, HandedIs
  <2>2. reading.way \in {"field", "embedded", "name", "entry", "header", "override"}
    BY <1>3 DEF T!Ways
  <2> HIDE DEF TextInv
  <2>3. CASE reading.way \in {"field", "name"}
    BY <1>2, <2>1, <2>3 DEF T!TakenAs, T!TakeText, T!StoredWidth
  <2>4. CASE reading.way = "embedded"
    BY <1>2, <2>1, <2>4 DEF T!TakenAs
  <2>5. CASE reading.way = "header"
    BY <1>2, <2>1, <2>5 DEF T!TakenAs, T!TakeText, T!StoredWidth
  <2>6. CASE reading.way = "entry"
    BY <1>2, <2>1, <2>6 DEF T!TakenAs, T!TableEntryName, T!StoredWidth
  <2>7. CASE reading.way = "override"
    BY <2>7 DEF T!TakenAs, T!StyleOverride
  <2> QED BY <2>2, <2>3, <2>4, <2>5, <2>6, <2>7
<1>5. handed.layout \in {"converted", "wide", "bytes"}
  BY <1>2, <1>3, HandedIs DEF T!StoredWidth
<1>6. raw' = handed'.layout /\ raw' # "none"
  BY <1>1, <1>4, <1>5
<1>7. heap' = 0
  BY <1>1, <1>2
<1>8. Walked'
  <2>1. text' = <<>> /\ i' = 1 /\ unmapped' = 0 /\ reading'.bytes \in T!Strings
    BY <1>1, <1>2 DEF T!Stored
  <2>2. PICK n \in 0 .. MaxLength : reading'.bytes \in [1 .. n -> T!Byte]
    BY <2>1 DEF T!Strings
  <2>3. Len(reading'.bytes) \in Nat
    <3>1. reading'.bytes \in Seq(T!Byte)
      BY <2>2, SeqDef
    <3> QED BY <3>1, LenProperties
  <2>4. RowOfChars'
    BY <2>1 DEF RowOfChars
  <2>5. Unshown' = {}
    BY <2>1 DEF Unshown
  <2>6. unmapped' = Cardinality(Unshown')
    BY <2>1, <2>5, FS_EmptySet
  <2>7. i' = AfterChars' /\ i' <= Len(reading.bytes)' + 1
    BY <2>1, <2>3 DEF AfterChars
  <2> HIDE DEF TextInv
  <2> QED BY <2>4, <2>6, <2>7 DEF Walked
<1>9. T!HandOut(reading.way)' = T!HandOut(reading.way) /\ ~T!Idle' /\ ~T!Met'
  BY <1>1, <1>6 DEF T!HandOut, T!Utf8Text, T!DwgHandleName, T!AsStored, T!StoredWidth, T!Idle, T!Met
<1> QED
  BY <1>1, <1>2, <1>6, <1>7, <1>8, <1>9 DEF TextInv

LEMMA BytesCounted ==
  ASSUME TextInv, ~T!Idle
  PROVE  Len(reading.bytes) \in Nat
<1>1. reading.bytes \in T!Strings
  BY DEF TextInv, T!Stored
<1>2. PICK n \in 0 .. MaxLength : reading.bytes \in [1 .. n -> T!Byte]
  BY <1>1 DEF T!Strings
<1>3. reading.bytes \in Seq(T!Byte)
  BY <1>2, SeqDef
<1> QED BY <1>3, LenProperties

LEMMA OneFurther ==
  ASSUME NEW n \in Nat, NEW X \in SUBSET (1 .. n), NEW Y \in SUBSET (1 .. (n + 1)),
         \A k \in 1 .. n : k \in Y <=> k \in X
  PROVE  /\ n + 1 \notin Y => Y = X
         /\ n + 1 \in Y => Y = X \cup {n + 1}
<1>1. ASSUME NEW k \in 1 .. (n + 1) PROVE k \in 1 .. n \/ k = n + 1
  OBVIOUS
<1>2. ASSUME n + 1 \notin Y, NEW k PROVE k \in Y <=> k \in X
  BY <1>1, <1>2
<1>3. ASSUME n + 1 \in Y, NEW k PROVE k \in Y <=> k \in X \cup {n + 1}
  BY <1>1, <1>3
<1> QED BY <1>2, <1>3

LEMMA PushKeeps ==
  ASSUME TextInv, T!AtByte, NEW length \in {1, 2}, NEW shown \in BOOLEAN,
         i + length - 1 <= Len(reading.bytes), T!Push(length, shown)
  PROVE  TextInv'
<1> DEFINE new == [from |-> i, to |-> i + length - 1, shown |-> shown]
<1>1. /\ text' = Append(text, new) /\ i' = i + length
      /\ unmapped' = (IF shown THEN unmapped ELSE unmapped + 1)
      /\ storage' = storage /\ codepage' = codepage /\ reading' = reading /\ handed' = handed
      /\ raw' = raw /\ heap' = heap /\ warnings' = warnings
  BY DEF T!Push, T!Drawing
<1>2. T!ByCodepage /\ T!Decoding /\ ~T!Idle /\ ~T!Met
  BY DEF T!AtByte, T!ByCodepage, T!Decoding, T!Met
<1>3. /\ text \in Seq(T!Char) /\ i \in Nat \ {0} /\ unmapped \in Nat /\ Walked
  BY <1>2 DEF TextInv
<1>4. new \in T!Char /\ new.from = i /\ new.to = i + length - 1 /\ new.shown = shown
  BY <1>3 DEF T!Char
<1> HIDE DEF new
<1>5. /\ text' \in Seq(T!Char) /\ text' # <<>> /\ Len(text') = Len(text) + 1
      /\ \A k \in 1 .. Len(text) : text'[k] = text[k]
      /\ text'[Len(text) + 1] = new
  BY <1>1, <1>3, <1>4, AppendProperties
<1>6. /\ Len(text) \in Nat /\ DOMAIN text = 1 .. Len(text) /\ DOMAIN text' = 1 .. (Len(text) + 1)
  BY <1>3, <1>5, LenProperties
<1>7. text = <<>> <=> Len(text) = 0
  BY <1>3, EmptySeq
<1>8. i' = AfterChars'
  <2>1. AfterChars' = new.to + 1
    BY <1>5 DEF AfterChars
  <2> QED BY <1>1, <1>3, <1>4, <2>1
<1>9. RowOfChars'
  <2> SUFFICES ASSUME NEW k \in 1 .. (Len(text) + 1)
               PROVE  /\ text'[k].from = (IF k = 1 THEN 1 ELSE text'[k - 1].to + 1)
                      /\ text'[k].to >= text'[k].from
    BY <1>6 DEF RowOfChars
  <2>1. CASE k \in 1 .. Len(text)
    <3>1. /\ text[k].from = (IF k = 1 THEN 1 ELSE text[k - 1].to + 1)
          /\ text[k].to >= text[k].from
      BY <1>3, <1>6, <2>1 DEF Walked, RowOfChars
    <3>2. k # 1 => text'[k - 1] = text[k - 1]
      BY <1>5, <1>6, <2>1
    <3> QED BY <1>5, <2>1, <3>1, <3>2
  <2>2. CASE k = Len(text) + 1
    <3>1. text'[k] = new /\ new.to >= new.from
      BY <1>3, <1>4, <1>5, <2>2
    <3>2. CASE k = 1
      <4>1. i = 1
        BY <1>3, <1>6, <1>7, <2>2, <3>2 DEF Walked, AfterChars
      <4> QED BY <1>4, <3>1, <3>2, <4>1
    <3>3. CASE k # 1
      <4>1. i = text[Len(text)].to + 1
        BY <1>3, <1>6, <1>7, <2>2, <3>3 DEF Walked, AfterChars
      <4>2. text'[k - 1] = text[Len(text)]
        BY <1>5, <1>6, <2>2, <3>3
      <4> QED BY <1>4, <3>1, <3>3, <4>1, <4>2
    <3> QED BY <3>2, <3>3
  <2> QED BY <1>6, <2>1, <2>2
<1>10. unmapped' = Cardinality(Unshown')
  <2>1. IsFiniteSet(Unshown)
    <3>1. IsFiniteSet(1 .. Len(text))
      BY <1>6, FS_Interval
    <3>2. Unshown \in SUBSET (1 .. Len(text))
      BY <1>6 DEF Unshown
    <3> QED BY <3>1, <3>2, FS_Subset
  <2>2. Len(text) + 1 \notin Unshown
    BY <1>6 DEF Unshown
  <2>3. Unshown' \subseteq 1 .. (Len(text) + 1) /\ Unshown \subseteq 1 .. Len(text)
    BY <1>6 DEF Unshown
  <2>4. \A k \in 1 .. Len(text) : k \in Unshown' <=> k \in Unshown
    BY <1>5, <1>6 DEF Unshown
  <2>5. Len(text) + 1 \in Unshown' <=> ~shown
    BY <1>4, <1>5, <1>6 DEF Unshown
  <2>6. CASE shown
    <3>1. Unshown' = Unshown
      BY <1>6, <2>6, <2>3, <2>4, <2>5, OneFurther
    <3> QED BY <1>1, <1>3, <2>6, <3>1 DEF Walked
  <2>7. CASE ~shown
    <3>1. Unshown' = Unshown \cup {Len(text) + 1}
      BY <1>6, <2>7, <2>3, <2>4, <2>5, OneFurther
    <3>2. Cardinality(Unshown') = Cardinality(Unshown) + 1
      BY <2>1, <2>2, <3>1, FS_AddElement
    <3> QED BY <1>1, <1>3, <2>7, <3>2 DEF Walked
  <2> QED BY <2>6, <2>7
<1>11. i' <= Len(reading'.bytes) + 1 /\ i' \in Nat \ {0} /\ unmapped' \in Nat
  <2>1. Len(reading.bytes) \in Nat
    BY <1>2, BytesCounted
  <2> QED BY <1>1, <1>3, <2>1
<1>12. /\ (T!Decoding <=> T!Decoding') /\ ~T!Idle' /\ ~T!Met' /\ T!HandOut(reading.way)' = T!HandOut(reading.way)
  BY <1>1, <1>2 DEF T!HandOut, T!Utf8Text, T!DwgHandleName, T!AsStored, T!StoredWidth, T!Idle, T!Met, T!Decoding
<1>13. Walked'
  BY <1>8, <1>9, <1>10, <1>11 DEF Walked
<1> HIDE DEF Walked
<1> QED
  BY <1>1, <1>2, <1>5, <1>11, <1>12, <1>13 DEF TextInv

(* Once decoded, a string is forgotten, and what is said of it kept.       *)
LEMMA DoneKeeps ==
  ASSUME TextInv, T!Decoding, T!Done, warnings' \in Seq(T!Warning)
  PROVE  TextInv'
<1>1. /\ reading' = T!Nothing /\ storage' = storage /\ heap' = heap
  BY DEF T!Done, T!Drawing
<1>2. T!Idle' /\ heap' = 0
  BY <1>1 DEF T!Idle, TextInv
<1> QED
  BY <1>1, <1>2 DEF TextInv, T!Met, T!Decoding, T!ByCodepage

LEMMA WarningsGrow ==
  ASSUME TextInv, NEW w \in T!Warning
  PROVE  /\ T!WithWarning(w) \in Seq(T!Warning)
         /\ \E k \in DOMAIN T!WithWarning(w) : T!WithWarning(w)[k] = w
<1>1. warnings \in Seq(T!Warning)
  BY DEF TextInv
<1>2. CASE \E k \in DOMAIN warnings : warnings[k] = w
  <2>1. T!WithWarning(w) = warnings
    BY <1>2 DEF T!WithWarning
  <2> QED BY <1>1, <1>2, <2>1
<1>3. CASE ~ \E k \in DOMAIN warnings : warnings[k] = w
  <2>1. T!WithWarning(w) = Append(warnings, w)
    BY <1>3 DEF T!WithWarning
  <2>2. /\ Append(warnings, w) \in Seq(T!Warning) /\ Len(Append(warnings, w)) = Len(warnings) + 1
        /\ Append(warnings, w)[Len(warnings) + 1] = w
    BY <1>1, AppendProperties
  <2>3. Len(warnings) + 1 \in DOMAIN Append(warnings, w)
    BY <1>1, <2>2, LenProperties
  <2> QED BY <2>1, <2>2, <2>3
<1> QED BY <1>2, <1>3

(* What a string's decoding leaves says what it replaced.                  *)
LEMMA UnicodeSays ==
  ASSUME TextInv, T!TakeUnicode
  PROVE  TextInv' /\ T!ReportsWhatItReplaces
<1> DEFINE w == [place |-> reading.place, of |-> T!UnicodeOf, count |-> 0]
<1>1. /\ T!Decoding /\ T!Done /\ text' = T!Whole(T!Shows)
      /\ warnings' = (IF T!WellFormed \/ T!Lossy THEN warnings ELSE T!WithWarning(w))
  BY DEF T!TakeUnicode
<1>2. ~T!Idle /\ reading \in T!Stored
  BY <1>1 DEF T!Decoding, TextInv
<1>3. w \in T!Warning /\ w.place = reading.place
  BY <1>2 DEF T!Warning, T!Stored, T!UnicodeOf
<1> HIDE DEF w
<1>4. warnings' \in Seq(T!Warning)
  BY <1>1, <1>3, WarningsGrow DEF TextInv
<1>5. T!Replaced <=> ~T!Shows
  <2> DEFINE shows == T!Shows
  <2>1. shows \in BOOLEAN
    BY DEF T!Shows
  <2> HIDE DEF shows
  <2>2. DOMAIN text' = {1} /\ (text'[1].shown <=> shows)
    <3>1. text' = <<[from |-> 1, to |-> Len(reading.bytes), shown |-> shows]>>
      BY <1>1 DEF T!Whole, shows
    <3> QED BY <2>1, <3>1
  <2> USE DEF shows
  <2> QED BY <2>2 DEF T!Replaced
<1>6. warnings' # warnings => T!Replaced
  BY <1>1, <1>5 DEF T!WellFormed
<1>7. T!Replaced /\ raw # "converted" /\ ~T!Lossy => T!Named
  <2> SUFFICES ASSUME T!Replaced, raw # "converted", ~T!Lossy PROVE T!Named
    OBVIOUS
  <2>1. warnings' = T!WithWarning(w)
    BY <1>1, <1>5 DEF T!WellFormed
  <2>2. PICK k \in DOMAIN warnings' : warnings'[k] = w
    BY <1>3, <2>1, WarningsGrow
  <2> QED BY <1>3, <2>2 DEF T!Named
<1>8. TextInv'
  BY <1>1, <1>4, DoneKeeps
<1> QED BY <1>6, <1>7, <1>8 DEF T!ReportsWhatItReplaces

LEMMA BytesSay ==
  ASSUME TextInv, T!EndOfBytes
  PROVE  TextInv' /\ T!ReportsWhatItReplaces
<1> DEFINE w == [place |-> reading.place, of |-> "codepage", count |-> unmapped]
<1>1. /\ T!ByCodepage /\ T!Decoding /\ T!Done /\ text' = text
      /\ warnings' = (IF unmapped = 0 THEN warnings ELSE T!WithWarning(w))
  BY DEF T!EndOfBytes, T!ByCodepage
<1>2. /\ ~T!Idle /\ reading \in T!Stored /\ Walked /\ text \in Seq(T!Char) /\ unmapped \in Nat
  BY <1>1 DEF T!Decoding, TextInv
<1>3. w \in T!Warning /\ w.place = reading.place
  BY <1>2 DEF T!Warning, T!Stored
<1> HIDE DEF w
<1>4. warnings' \in Seq(T!Warning)
  BY <1>1, <1>3, WarningsGrow DEF TextInv
<1>5. T!Replaced <=> unmapped # 0
  <2>1. IsFiniteSet(Unshown)
    <3>1. Len(text) \in Nat /\ DOMAIN text = 1 .. Len(text)
      BY <1>2, LenProperties
    <3>2. IsFiniteSet(1 .. Len(text)) /\ Unshown \in SUBSET (1 .. Len(text))
      BY <3>1, FS_Interval DEF Unshown
    <3> QED BY <3>2, FS_Subset
  <2>2. unmapped = 0 <=> Unshown = {}
    BY <1>2, <2>1, FS_EmptySet DEF Walked
  <2>3. T!Replaced <=> Unshown # {}
    BY <1>1 DEF T!Replaced, Unshown
  <2> QED BY <2>2, <2>3
<1>6. warnings' # warnings => T!Replaced
  BY <1>1, <1>5
<1>7. T!Replaced => T!Named
  <2> SUFFICES ASSUME T!Replaced PROVE T!Named
    OBVIOUS
  <2>1. warnings' = T!WithWarning(w)
    BY <1>1, <1>5
  <2>2. PICK k \in DOMAIN warnings' : warnings'[k] = w
    BY <1>3, <2>1, WarningsGrow
  <2> QED BY <1>3, <2>2 DEF T!Named
<1>8. TextInv'
  BY <1>1, <1>4, DoneKeeps
<1> QED BY <1>6, <1>7, <1>8 DEF T!ReportsWhatItReplaces

LEMMA AsciiSays ==
  ASSUME TextInv, T!TakeAscii
  PROVE  TextInv' /\ T!ReportsWhatItReplaces
<1>1. T!Decoding /\ T!Done /\ text' = T!Whole(TRUE) /\ warnings' = warnings
  BY DEF T!TakeAscii
<1>2. warnings' \in Seq(T!Warning)
  BY <1>1 DEF TextInv
<1>3. ~T!Replaced
  BY <1>1 DEF T!Replaced, T!Whole
<1>4. TextInv'
  BY <1>1, <1>2, DoneKeeps
<1> QED BY <1>1, <1>3, <1>4 DEF T!ReportsWhatItReplaces

(* A step of the walk reads a byte, or two that are both there.            *)
LEMMA OnePush ==
  ASSUME TextInv, T!PushAscii \/ T!PushAlone \/ T!PushPair \/ T!PushLeadAtTheEnd
  PROVE  /\ T!AtByte /\ ~T!Idle
         /\ \E length \in {1, 2}, shown \in BOOLEAN :
              i + length - 1 <= Len(reading.bytes) /\ T!Push(length, shown)
<1>1. T!AtByte /\ ~T!Idle
  BY DEF T!PushAscii, T!PushAlone, T!PushPair, T!PushLeadAtTheEnd, T!AtByte, T!ByCodepage, T!Decoding
<1>2. Len(reading.bytes) \in Nat /\ i \in Nat /\ i <= Len(reading.bytes)
  BY <1>1, BytesCounted DEF T!AtByte, T!ByCodepage, TextInv
<1>3. CASE T!PushPair
  <2> DEFINE found == T!PairCode(T!Lead, reading.bytes[i + 1]) \in Codes
  <2>1. T!Push(2, found) /\ i < Len(reading.bytes) /\ found \in BOOLEAN
    BY <1>3 DEF T!PushPair
  <2> HIDE DEF found
  <2>2. i + 2 - 1 <= Len(reading.bytes)
    BY <1>2, <2>1
  <2> QED BY <1>1, <2>1, <2>2
<1>4. CASE T!PushAscii \/ T!PushAlone \/ T!PushLeadAtTheEnd
  <2> DEFINE found == <<T!Lead>> \in Codes
  <2>1. T!Push(1, TRUE) \/ T!Push(1, FALSE) \/ T!Push(1, found)
    BY <1>4 DEF T!PushAscii, T!PushAlone, T!PushLeadAtTheEnd
  <2>2. found \in BOOLEAN /\ i + 1 - 1 <= Len(reading.bytes)
    BY <1>2
  <2> HIDE DEF found
  <2> QED BY <1>1, <2>1, <2>2
<1> QED BY <1>3, <1>4

LEMMA PushSays ==
  ASSUME TextInv, T!PushAscii \/ T!PushAlone \/ T!PushPair \/ T!PushLeadAtTheEnd
  PROVE  TextInv' /\ T!ReportsWhatItReplaces
<1>1. T!AtByte /\ ~T!Idle
  BY OnePush
<1>2. PICK length \in {1, 2}, shown \in BOOLEAN :
        i + length - 1 <= Len(reading.bytes) /\ T!Push(length, shown)
  BY OnePush
<1>3. TextInv'
  BY <1>1, <1>2, PushKeeps
<1>4. reading' = reading /\ warnings' = warnings
  BY <1>2 DEF T!Push
<1> QED BY <1>1, <1>3, <1>4 DEF T!ReportsWhatItReplaces, T!Idle

LEMMA TextStays ==
  ASSUME TextInv, T!Next \/ UNCHANGED T!vars
  PROVE  TextInv' /\ (T!ReportsWhatItReplaces \/ UNCHANGED textVars)
<1>1. CASE UNCHANGED T!vars
  BY <1>1 DEF T!vars, textVars, TextInv, Walked, RowOfChars, AfterChars, Unshown, T!Idle, T!Met, T!Decoding,
     T!ByCodepage, T!PlainAscii, T!IsAscii, T!AsUnicode, T!HandOut, T!Utf8Text, T!DwgHandleName, T!AsStored, T!StoredWidth
<1>2. CASE T!Meet
  BY <1>2, MeetKeeps DEF T!Meet, T!Idle, T!Decoding, T!ReportsWhatItReplaces
<1>3. CASE T!Take
  BY <1>3, TakeKeeps DEF T!Take, T!Met, T!Decoding, T!ReportsWhatItReplaces
<1> QED
  BY <1>1, <1>2, <1>3, UnicodeSays, BytesSay, AsciiSays, PushSays DEF T!Next

TextPart == part = "text" => TextInv

LEMMA TextPartStays ==
  ASSUME TextPart, PartStep
  PROVE  TextPart' /\ (T!ReportsWhatItReplaces \/ UNCHANGED textVars)
<1>1. part' = part
  BY PartsStay
<1>2. CASE part = "text"
  BY <1>1, <1>2, TextSteps, TextStays DEF TextPart
<1>3. CASE part # "text"
  <2>1. UNCHANGED textVars
    BY <1>3 DEF PartStep, ConversionNext, conversionVars
  <2> QED BY <1>1, <1>3, <2>1 DEF TextPart
<1> QED BY <1>2, <1>3

LEMMA TextPartHolds == ConversionSpec => []TextPart
<1>1. ConversionInit => TextPart
  BY TextSteps, TextBegins DEF TextPart
<1>2. TextPart /\ [ConversionNext]_conversionVars => TextPart'
  BY TextPartStays DEF PartStep
<1> QED BY <1>1, <1>2, PTL DEF ConversionSpec

(* `StringsAreTakenAsHanded`, for strings of any bytes, in any codepage,   *)
(* met in any order: each is read as it was handed out, byte by byte and   *)
(* once, and a copy is freed once.                                         *)
THEOREM StringsAreTaken == ConversionSpec => []StringsAreTakenAsHanded
<1>1. TextPart => StringsAreTakenAsHanded
  BY WalkedIs DEF TextPart, TextInv, StringsAreTakenAsHanded, T!StringsAreTakenAsHanded, T!Met, T!Decoding,
     T!Idle, T!ByCodepage
<1> QED
  BY <1>1, TextPartHolds, PTL

(* `ReplacedIsReported`, for the same: where the decoder puts a replacement*)
(* a warning names the string, and no warning is made otherwise.           *)
THEOREM ReplacementsAreReported == ConversionSpec => ReplacedIsReported
<1>1. TextPart /\ [ConversionNext]_conversionVars => [T!ReportsWhatItReplaces]_textVars
  BY TextPartStays DEF PartStep
<1> QED
  BY <1>1, TextPartHolds, PTL DEF ConversionSpec, ReplacedIsReported

-----------------------------------------------------------------------------
(* The header variables a DWG states.                                      *)
LEMMA HeaderSteps ==
  ASSUME part = "header"
  PROVE  /\ ConversionInit => H!Init
         /\ PartStep => H!Next \/ UNCHANGED H!vars
<1>1. ConversionInit => H!Init
  BY DEF ConversionInit, RecordInit
<1>2. PartStep => H!Next \/ UNCHANGED H!vars
  BY DEF PartStep, ConversionNext, RecordNext, conversionVars, recordVars, H!vars
<1> QED BY <1>1, <1>2

LEMMA HeaderAges ==
  /\ H!Age("R_1_1") = 1 /\ H!Age("R_1_2") = 2 /\ H!Age("R_1_3") = 3 /\ H!Age("R_1_4") = 4
  /\ H!Age("R_2_0b") = 5 /\ H!Age("R_2_0") = 6 /\ H!Age("R_13b1") = 19 /\ H!Age("R_2000b") = 22
BY DEF H!Age, H!Releases

(* The age of the drawing's release stands for the release.                *)
ReleaseAge == H!Age(w1.release)
Old == ReleaseAge < 19

LEMMA ReleaseAges ==
  ASSUME w1 \in H!DwgType
  PROVE  /\ ReleaseAge \in 1 .. 26
         /\ w1.release = "R_1_3" <=> ReleaseAge = 3
         /\ w1.release \in {"R_1_1", "R_1_2"} <=> ReleaseAge \in {1, 2}
         /\ w1.release \in {"R_1_4"} <=> ReleaseAge = 4
         /\ w1.release \in H!Before("R_2_0") <=> ReleaseAge \in 1 .. 5
         /\ H!AtLeast(w1.release, "R_1_1")
         /\ H!AtLeast(w1.release, "R_1_3") <=> ReleaseAge >= 3
         /\ H!AtLeast(w1.release, "R_1_4") <=> ReleaseAge >= 4
         /\ H!AtLeast(w1.release, "R_2_0b") <=> ReleaseAge >= 5
         /\ H!AtLeast(w1.release, "R_2_0") <=> ReleaseAge >= 6
         /\ H!AtLeast(w1.release, "R_13b1") <=> ~Old
         /\ H!AtLeast(w1.release, "R_2000b") <=> ReleaseAge >= 22
<1>1. DOMAIN H!Releases = 1 .. 26
  BY DEF H!Releases
<1>2. \E k \in DOMAIN H!Releases : H!Releases[k] = w1.release
  BY DEF H!DwgType
<1>3. ReleaseAge \in 1 .. 26 /\ H!Releases[ReleaseAge] = w1.release
  BY <1>1, <1>2, Zenon DEF ReleaseAge, H!Age
<1>4. /\ H!Releases[1] = "R_1_1" /\ H!Releases[2] = "R_1_2" /\ H!Releases[3] = "R_1_3"
      /\ H!Releases[4] = "R_1_4" /\ H!Releases[5] = "R_2_0b"
  BY DEF H!Releases
<1>5. /\ w1.release = "R_1_1" <=> ReleaseAge = 1
      /\ w1.release = "R_1_2" <=> ReleaseAge = 2
      /\ w1.release = "R_1_3" <=> ReleaseAge = 3
      /\ w1.release = "R_1_4" <=> ReleaseAge = 4
      /\ w1.release = "R_2_0b" <=> ReleaseAge = 5
  BY <1>3, <1>4, HeaderAges DEF ReleaseAge
<1>6. H!Before("R_2_0") = {"R_1_1", "R_1_2", "R_1_3", "R_1_4", "R_2_0b"}
  <2>1. H!Before("R_2_0") = {H!Releases[k] : k \in 1 .. 5}
    BY HeaderAges DEF H!Before
  <2>2. 1 .. 5 = {1, 2, 3, 4, 5}
    OBVIOUS
  <2> QED BY <1>4, <2>1, <2>2
<1>7. w1.release \in H!Before("R_2_0") <=> ReleaseAge \in 1 .. 5
  BY <1>3, <1>5, <1>6
<1>8. \A r : H!AtLeast(w1.release, r) <=> ReleaseAge >= H!Age(r)
  BY DEF H!AtLeast, ReleaseAge
<1> QED BY <1>3, <1>5, <1>7, <1>8, HeaderAges DEF Old

(* The run before R13 a variable is of, the age it is there since, the     *)
(* runs the drawing's header ends after, and what dwg_layout_has says, in  *)
(* numbers.                                                                *)
PlaceOf(name) ==
  CASE name \in {"EXTMIN", "EXTMAX", "LIMMIN", "LIMMAX"} -> 1
    [] name = "LTSCALE" -> 2
    [] name \in {"TEXTSIZE", "CLAYER"} -> 3
    [] name \in {"LUNITS", "LUPREC"} -> 4
    [] name \in {"AUNITS", "AUPREC", "DIMSCALE", "DIMASZ", "DIMTXT"} -> 5
    [] name \in {"DIMZIN", "DIMRND"} -> 7
    [] name \in {"PDMODE", "PDSIZE"} -> 8
    [] name = "DIMPOST" -> 10
    [] name = "DIMLFAC" -> 11
    [] name \in {"PEXTMIN", "PEXTMAX", "PLIMMIN", "PLIMMAX"} -> 12
    [] OTHER -> 13
SinceAge(k) == CASE k \in {1, 3} -> 1 [] k \in {4, 5} -> 3 [] OTHER -> 6
Ending(k) ==
  \/ k = 3 /\ ReleaseAge \in {1, 2}
  \/ k = 4 /\ ReleaseAge = 4
  \/ k = 5 /\ (ReleaseAge \in 1 .. 5 \/ w1.count <= 74)
  \/ k = 6 /\ w1.count <= 83
  \/ k = 7 /\ w1.count <= 101
  \/ k = 8 /\ w1.count <= 104
  \/ k = 9 /\ w1.count <= 114
  \/ k = 10 /\ w1.count <= 120
  \/ k = 11 /\ w1.count <= 160
  \/ k = 12 /\ w1.count <= 204
StatedAt(k) ==
  \/ k \in {1, 3}
  \/ k = 2 /\ ReleaseAge >= 6
  \/ k = 4 /\ (ReleaseAge = 3 \/ ReleaseAge >= 4)
  \/ k = 5 /\ (ReleaseAge = 3 \/ ReleaseAge >= 5)
  \/ k = 7 /\ ReleaseAge >= 6 /\ w1.count > 83
  \/ k = 8 /\ ReleaseAge >= 6 /\ w1.count > 101
  \/ k = 10 /\ ReleaseAge >= 6 /\ w1.count > 114
  \/ k = 11 /\ ReleaseAge >= 6 /\ w1.count > 120
  \/ k = 12 /\ ReleaseAge >= 6 /\ w1.count > 160

(* The reader's table is right: a variable is stated when its run is one   *)
(* of those up to the first the header ends after.                         *)
LEMMA TableIsRight ==
  ASSUME ReleaseAge \in 1 .. 26, w1.count \in Nat, NEW k \in 1 .. 12, Ending(k) \/ k = 12,
         \A j \in 1 .. (k - 1) : ~Ending(j),
         NEW m \in 1 .. 13, m # 6, m # 9
  PROVE  StatedAt(m) <=> m <= k /\ ReleaseAge >= SinceAge(m)
<1>1. /\ k > 3 => ~Ending(3)
      /\ k > 4 => ~Ending(4)
      /\ k > 5 => ~Ending(5)
      /\ k > 6 => ~Ending(6)
      /\ k > 7 => ~Ending(7)
      /\ k > 8 => ~Ending(8)
      /\ k > 9 => ~Ending(9)
      /\ k > 10 => ~Ending(10)
      /\ k > 11 => ~Ending(11)
  OBVIOUS
<1> QED BY <1>1 DEF Ending, StatedAt, SinceAge

LEMMA PlacesAre ==
  ASSUME NEW name
  PROVE  PlaceOf(name) \in 1 .. 13 /\ PlaceOf(name) # 6 /\ PlaceOf(name) # 9
BY DEF PlaceOf

LEMMA RunsAre ==
  /\ Len(H!RunsBeforeR13) = 12 /\ Len(H!RunsFromR13) = 2
  /\ \A k \in 1 .. 12 : \A name : name \in H!RunsBeforeR13[k].names <=> PlaceOf(name) = k
  /\ w1 \in H!DwgType =>
       \A k \in 1 .. 12 :
         /\ H!AtLeast(w1.release, H!RunsBeforeR13[k].since) <=> ReleaseAge >= SinceAge(k)
         /\ H!Ends(H!RunsBeforeR13[k]) <=> Ending(k)
  /\ H!RunsFromR13[1].names = H!Names \ (H!FromR2000 \cup {"MEASUREMENT"})
  /\ H!RunsFromR13[2].names = H!FromR2000
  /\ H!RunsFromR13[1].since = "R_13b1" /\ H!RunsFromR13[2].since = "R_2000b"
  /\ w1 \in H!DwgType => \A k \in 1 .. 2 : ~H!Ends(H!RunsFromR13[k])
<1>1. Len(H!RunsBeforeR13) = 12 /\ Len(H!RunsFromR13) = 2
  BY DEF H!RunsBeforeR13, H!RunsFromR13
<1>2. ASSUME NEW k \in 1 .. 12, NEW name PROVE name \in H!RunsBeforeR13[k].names <=> PlaceOf(name) = k
  BY DEF H!RunsBeforeR13, H!Run, PlaceOf
<1>3. ASSUME NEW k \in 1 .. 12, w1 \in H!DwgType
      PROVE  /\ H!AtLeast(w1.release, H!RunsBeforeR13[k].since) <=> ReleaseAge >= SinceAge(k)
             /\ H!Ends(H!RunsBeforeR13[k]) <=> Ending(k)
  <2>1. \/ H!RunsBeforeR13[k].since = "R_1_1" /\ k \in {1, 3}
        \/ H!RunsBeforeR13[k].since = "R_1_3" /\ k \in {4, 5}
        \/ H!RunsBeforeR13[k].since = "R_2_0" /\ k \in {2} \cup (6 .. 12)
    <3>1. \A n \in {1, 3} : H!RunsBeforeR13[n].since = "R_1_1"
      BY DEF H!RunsBeforeR13, H!Run
    <3>2. \A n \in {4, 5} : H!RunsBeforeR13[n].since = "R_1_3"
      BY DEF H!RunsBeforeR13, H!Run
    <3>3. \A n \in {2} \cup (6 .. 12) : H!RunsBeforeR13[n].since = "R_2_0"
      BY DEF H!RunsBeforeR13, H!Run
    <3> QED BY <3>1, <3>2, <3>3
  <2>2. H!AtLeast(w1.release, H!RunsBeforeR13[k].since) <=> ReleaseAge >= SinceAge(k)
    <3>1. /\ H!AtLeast(w1.release, "R_1_1") /\ ReleaseAge \in 1 .. 26
          /\ H!AtLeast(w1.release, "R_1_3") <=> ReleaseAge >= 3
          /\ H!AtLeast(w1.release, "R_2_0") <=> ReleaseAge >= 6
      BY <1>3, ReleaseAges
    <3>2. CASE k \in {1, 3}
      <4>1. SinceAge(k) = 1 /\ H!RunsBeforeR13[k].since = "R_1_1"
        BY <2>1, <3>2 DEF SinceAge
      <4> QED BY <3>1, <4>1
    <3>3. CASE k \in {4, 5}
      <4>1. SinceAge(k) = 3 /\ H!RunsBeforeR13[k].since = "R_1_3"
        BY <2>1, <3>3 DEF SinceAge
      <4> QED BY <3>1, <4>1
    <3>4. CASE k \in {2} \cup (6 .. 12)
      <4>1. SinceAge(k) = 6 /\ H!RunsBeforeR13[k].since = "R_2_0"
        BY <2>1, <3>4 DEF SinceAge
      <4> QED BY <3>1, <4>1
    <3> QED BY <3>2, <3>3, <3>4
  <2>3. H!Ends(H!RunsBeforeR13[k]) <=> Ending(k)
    BY <1>3, ReleaseAges DEF H!RunsBeforeR13, H!Run, H!Ends, Ending
  <2> QED BY <2>2, <2>3
<1>4. /\ H!RunsFromR13[1].names = H!Names \ (H!FromR2000 \cup {"MEASUREMENT"})
      /\ H!RunsFromR13[2].names = H!FromR2000
      /\ H!RunsFromR13[1].since = "R_13b1" /\ H!RunsFromR13[2].since = "R_2000b"
  BY DEF H!RunsFromR13, H!Run
<1>5. ASSUME NEW k \in 1 .. 2 PROVE ~H!Ends(H!RunsFromR13[k])
  BY DEF H!RunsFromR13, H!Run, H!Ends
<1> QED BY <1>1, <1>2, <1>3, <1>4, <1>5

(* `dwg_layout_has`, in numbers.                                           *)
LEMMA LayoutHas ==
  ASSUME w1 \in H!DwgType, NEW name \in H!Names, name # "MEASUREMENT"
  PROVE  /\ Old => (H!Has(w1, name) <=> StatedAt(PlaceOf(name)))
         /\ ~Old => (H!Has(w1, name) <=> (name \in H!FromR2000 => ReleaseAge >= 22))
<1>1. CASE Old
  <2>1. H!Has(w1, name) <=>
          \/ name \in {"EXTMIN", "EXTMAX", "LIMMIN", "LIMMAX", "TEXTSIZE", "CLAYER"}
          \/ name \in {"LUNITS", "LUPREC"} /\ (ReleaseAge = 3 \/ ReleaseAge >= 4)
          \/ name \in {"AUNITS", "AUPREC", "DIMSCALE", "DIMASZ", "DIMTXT"} /\ (ReleaseAge = 3 \/ ReleaseAge >= 5)
          \/ name = "LTSCALE" /\ ReleaseAge >= 6
          \/ name \in {"DIMZIN", "DIMRND"} /\ ReleaseAge >= 6 /\ w1.count > 83
          \/ name \in {"PDMODE", "PDSIZE"} /\ ReleaseAge >= 6 /\ w1.count > 101
          \/ name = "DIMPOST" /\ ReleaseAge >= 6 /\ w1.count > 114
          \/ name = "DIMLFAC" /\ ReleaseAge >= 6 /\ w1.count > 120
          \/ name \in {"PEXTMIN", "PEXTMAX", "PLIMMIN", "PLIMMAX"} /\ ReleaseAge >= 6 /\ w1.count > 160
    BY <1>1, ReleaseAges DEF H!Has, H!PointsAfter
  <2> QED BY <1>1, <2>1 DEF StatedAt, PlaceOf
<1>2. CASE ~Old
  BY <1>2, ReleaseAges DEF H!Has
<1> QED BY <1>1, <1>2

LEMMA TemplateHas == H!Has(w1, "MEASUREMENT") <=> w1.template
BY DEF H!Has

(* What the decoder has read, at each run and when it is through.          *)
DecodedBefore(k) == {name \in H!Names : PlaceOf(name) < k /\ ReleaseAge >= SinceAge(PlaceOf(name))}
Stated == {name \in H!Names \ {"MEASUREMENT"} : H!Has(w1, name)}
HeaderInv ==
  /\ w1 \in H!DwgType /\ w2 \in Nat
  /\ w2 = 0 => w4 = w3
  /\ Old /\ w2 \in 1 .. 12 => w3 = DecodedBefore(w2) /\ \A j \in 1 .. (w2 - 1) : ~Ending(j)
  /\ ~Old /\ w2 = 1 => w3 = {}
  /\ ~Old /\ w2 = 2 => w3 = H!Names \ (H!FromR2000 \cup {"MEASUREMENT"})
  /\ w2 > Len(H!Runs(w1)) => w3 = Stated

LEMMA RunsOfDwg ==
  ASSUME w1 \in H!DwgType
  PROVE  /\ Old => H!Runs(w1) = H!RunsBeforeR13 /\ Len(H!Runs(w1)) = 12
         /\ ~Old => H!Runs(w1) = H!RunsFromR13 /\ Len(H!Runs(w1)) = 2
BY ReleaseAges, RunsAre DEF H!Runs

LEMMA HeaderBegins ==
  ASSUME H!Init
  PROVE  HeaderInv
<1>1. w1 \in H!DwgType /\ w2 = 1 /\ w3 = {} /\ w4 = {}
  BY ConversionAssumption DEF H!Init
<1>2. DecodedBefore(1) = {}
  <2>1. ASSUME NEW name PROVE ~(PlaceOf(name) < 1)
    BY PlacesAre
  <2> QED BY <2>1 DEF DecodedBefore
<1>3. \A j \in 1 .. (1 - 1) : ~Ending(j)
  OBVIOUS
<1>4. ~(1 > Len(H!Runs(w1)))
  BY <1>1, RunsOfDwg
<1> QED BY <1>1, <1>2, <1>3, <1>4 DEF HeaderInv

LEMMA DecodeOldRunKeeps ==
  ASSUME HeaderInv, H!DecodeRun, Old
  PROVE  HeaderInv'
<1> DEFINE names == H!RunsBeforeR13[w2].names
<1>1. w1 \in H!DwgType /\ H!Runs(w1) = H!RunsBeforeR13 /\ Len(H!Runs(w1)) = 12
  BY RunsOfDwg DEF HeaderInv
<1>2. /\ w2 \in 1 .. 12 /\ w1' = w1 /\ w4' = w4
      /\ w3' = w3 \cup (IF H!AtLeast(w1.release, H!RunsBeforeR13[w2].since) THEN names ELSE {})
      /\ w2' = IF H!Ends(H!RunsBeforeR13[w2]) THEN 13 ELSE w2 + 1
  BY <1>1 DEF H!DecodeRun, H!Decoding, H!This
<1>3. w3 = DecodedBefore(w2) /\ \A j \in 1 .. (w2 - 1) : ~Ending(j)
  BY <1>2 DEF HeaderInv
<1>4. /\ H!AtLeast(w1.release, H!RunsBeforeR13[w2].since) <=> ReleaseAge >= SinceAge(w2)
      /\ H!Ends(H!RunsBeforeR13[w2]) <=> Ending(w2)
      /\ \A name : name \in names <=> PlaceOf(name) = w2
  BY <1>1, <1>2, RunsAre
<1> HIDE DEF names
<1>5. names \subseteq H!Names
  <2>1. ASSUME NEW name, PlaceOf(name) \in 1 .. 12 PROVE name \in H!Names
    BY <2>1 DEF PlaceOf, H!Names
  <2> QED BY <1>2, <1>4, <2>1
<1>6. w3' = {name \in H!Names : PlaceOf(name) <= w2 /\ ReleaseAge >= SinceAge(PlaceOf(name))}
  <2>1. ASSUME NEW name
        PROVE  name \in w3' <=> name \in H!Names /\ PlaceOf(name) <= w2 /\ ReleaseAge >= SinceAge(PlaceOf(name))
    <3>1. name \in w3 <=> name \in H!Names /\ PlaceOf(name) < w2 /\ ReleaseAge >= SinceAge(PlaceOf(name))
      BY <1>3 DEF DecodedBefore
    <3>2. name \in w3' <=> name \in w3 \/ (PlaceOf(name) = w2 /\ ReleaseAge >= SinceAge(w2))
      BY <1>2, <1>4
    <3>3. PlaceOf(name) = w2 => name \in H!Names
      BY <1>4, <1>5
    <3>4. PlaceOf(name) \in Int /\ w2 \in Int
      BY <1>2, PlacesAre
    <3>5. PlaceOf(name) <= w2 <=> PlaceOf(name) < w2 \/ PlaceOf(name) = w2
      BY <3>4
    <3> QED BY <3>1, <3>2, <3>3, <3>5
  <2> QED BY <2>1
<1>7. ReleaseAge' = ReleaseAge /\ Old' /\ H!Runs(w1)' = H!Runs(w1) /\ (\A k : Ending(k)' <=> Ending(k))
  BY <1>2 DEF ReleaseAge, Old, Ending, H!Runs
<1>8. CASE Ending(w2) \/ w2 = 12
  <2>1. w2' = 13
    BY <1>2, <1>4, <1>8
  <2>2. ReleaseAge \in 1 .. 26 /\ w1.count \in Nat
    BY <1>1, ReleaseAges DEF H!DwgType
  <2>3. ASSUME NEW name \in H!Names
        PROVE  name \in w3' <=> name # "MEASUREMENT" /\ H!Has(w1, name)
    <3>1. CASE name = "MEASUREMENT"
      <4>1. PlaceOf(name) = 13
        BY <3>1 DEF PlaceOf
      <4> QED BY <1>2, <1>6, <3>1, <4>1
    <3>2. CASE name # "MEASUREMENT"
      <4>1. H!Has(w1, name) <=> StatedAt(PlaceOf(name))
        BY <1>1, <3>2, LayoutHas
      <4>2. StatedAt(PlaceOf(name)) <=> PlaceOf(name) <= w2 /\ ReleaseAge >= SinceAge(PlaceOf(name))
        BY <1>2, <1>3, <1>8, <2>2, PlacesAre, TableIsRight
      <4> QED BY <1>6, <3>2, <4>1, <4>2
    <3> QED BY <3>1, <3>2
  <2>4. w3' \subseteq H!Names
    BY <1>6
  <2>5. w3' = Stated'
    <3>1. w3' = Stated
      BY <2>3, <2>4 DEF Stated
    <3>2. Stated' = Stated
      BY <1>2 DEF Stated, H!Has
    <3> QED BY <3>1, <3>2
  <2> QED BY <1>1, <1>2, <1>7, <2>1, <2>5 DEF HeaderInv
<1>9. CASE ~Ending(w2) /\ w2 # 12
  <2>1. w2' = w2 + 1 /\ w2' \in 2 .. 12
    BY <1>2, <1>4, <1>9
  <2>2. w3' = DecodedBefore(w2)'
    <3>1. ASSUME NEW name PROVE PlaceOf(name) < w2' <=> PlaceOf(name) <= w2
      BY <1>2, <2>1, PlacesAre
    <3>2. DecodedBefore(w2)' = {name \in H!Names : PlaceOf(name) < w2' /\ ReleaseAge >= SinceAge(PlaceOf(name))}
      BY <1>7 DEF DecodedBefore
    <3> QED BY <1>6, <3>1, <3>2
  <2>3. \A j \in 1 .. (w2' - 1) : ~Ending(j)
    BY <1>2, <1>3, <1>9, <2>1
  <2>4. ~(w2' > Len(H!Runs(w1)')) /\ w2' # 0
    <3>1. Len(H!Runs(w1)') = 12
      BY <1>1, <1>7
    <3> QED BY <2>1, <3>1
  <2> HIDE DEF DecodedBefore, Ending, Old
  <2> QED BY <1>1, <1>2, <1>7, <2>1, <2>2, <2>3, <2>4 DEF HeaderInv
<1> QED BY <1>8, <1>9

LEMMA DecodeNewRunKeeps ==
  ASSUME HeaderInv, H!DecodeRun, ~Old
  PROVE  HeaderInv'
<1>1. w1 \in H!DwgType /\ H!Runs(w1) = H!RunsFromR13 /\ Len(H!Runs(w1)) = 2
  BY RunsOfDwg DEF HeaderInv
<1>2. /\ w2 \in 1 .. 2 /\ w1' = w1 /\ w4' = w4 /\ w2' = w2 + 1
      /\ w3' = w3 \cup (IF H!AtLeast(w1.release, H!RunsFromR13[w2].since) THEN H!RunsFromR13[w2].names ELSE {})
  BY <1>1, RunsAre DEF H!DecodeRun, H!Decoding, H!This
<1>3. ReleaseAge' = ReleaseAge /\ ~Old' /\ H!Runs(w1)' = H!Runs(w1)
  BY <1>2 DEF ReleaseAge, Old, H!Runs
<1>4. CASE w2 = 1
  <2>1. w3 = {} /\ w2' = 2 /\ H!AtLeast(w1.release, "R_13b1")
    BY <1>1, <1>2, <1>4, ReleaseAges DEF HeaderInv
  <2>2. w3' = H!Names \ (H!FromR2000 \cup {"MEASUREMENT"})
    BY <1>2, <1>4, <2>1, RunsAre
  <2> QED BY <1>1, <1>2, <1>3, <2>1, <2>2 DEF HeaderInv
<1>5. CASE w2 = 2
  <2>1. w3 = H!Names \ (H!FromR2000 \cup {"MEASUREMENT"}) /\ w2' = 3
    BY <1>1, <1>2, <1>5 DEF HeaderInv
  <2>2. w3' = w3 \cup (IF ReleaseAge >= 22 THEN H!FromR2000 ELSE {})
    BY <1>1, <1>2, <1>5, RunsAre, ReleaseAges
  <2>3. H!FromR2000 \subseteq H!Names \ {"MEASUREMENT"}
    BY DEF H!FromR2000, H!Names
  <2>4. \A name \in H!Names \ {"MEASUREMENT"} : H!Has(w1, name) <=> (name \in H!FromR2000 => ReleaseAge >= 22)
    BY <1>1, LayoutHas
  <2>5. w3' = Stated
    BY <2>1, <2>2, <2>3, <2>4 DEF Stated
  <2>6. Stated' = Stated
    BY <1>2 DEF Stated, H!Has
  <2> QED BY <1>1, <1>2, <1>3, <2>1, <2>5, <2>6 DEF HeaderInv
<1> QED BY <1>2, <1>4, <1>5

LEMMA ReadHeaderKeeps ==
  ASSUME HeaderInv, H!ReadHeader
  PROVE  HeaderInv'
<1>1. /\ w2 > Len(H!Runs(w1)) /\ w2' = 0 /\ w1' = w1
      /\ w4' = {name \in H!Names : H!Has(w1, name)}
      /\ w3' = w3 \cup (IF w1.template THEN {"MEASUREMENT"} ELSE {})
  BY DEF H!ReadHeader
<1>2. w1 \in H!DwgType /\ w3 = Stated
  BY <1>1 DEF HeaderInv
<1>3. w4' = w3'
  <2>1. "MEASUREMENT" \in H!Names
    BY DEF H!Names
  <2> QED BY <1>1, <1>2, <2>1, TemplateHas DEF Stated
<1>4. Len(H!Runs(w1)') \in Nat
  <2>1. H!Runs(w1)' = H!Runs(w1)
    BY <1>1 DEF H!Runs
  <2> QED BY <1>2, <2>1, RunsOfDwg
<1> QED BY <1>1, <1>2, <1>3, <1>4 DEF HeaderInv

LEMMA HeaderStays ==
  ASSUME HeaderInv, H!Next \/ UNCHANGED H!vars
  PROVE  HeaderInv'
<1>1. CASE UNCHANGED H!vars
  BY <1>1 DEF H!vars, HeaderInv, Old, ReleaseAge, DecodedBefore, Ending, Stated, H!Runs, H!Has
<1> QED BY <1>1, DecodeOldRunKeeps, DecodeNewRunKeeps, ReadHeaderKeeps DEF H!Next

HeaderPart == part = "header" => HeaderInv

LEMMA HeaderPartHolds == ConversionSpec => []HeaderPart
<1>1. ConversionInit => HeaderPart
  BY HeaderSteps, HeaderBegins DEF HeaderPart
<1>2. HeaderPart /\ [ConversionNext]_conversionVars => HeaderPart'
  <2> SUFFICES ASSUME HeaderPart, PartStep, part' = "header" PROVE HeaderInv'
    BY DEF PartStep, HeaderPart
  <2>1. part = "header" /\ HeaderInv
    BY PartsStay DEF HeaderPart
  <2> QED BY <2>1, HeaderSteps, HeaderStays
<1> QED
  BY <1>1, <1>2, PTL DEF ConversionSpec

(* `HeaderIsWhatWasDecoded`, for a DWG of any release and count: the       *)
(* reader's own table says of each variable what LibreDWG's decoder does.  *)
THEOREM HeadersAreDecoded == ConversionSpec => []HeaderIsWhatWasDecoded
<1>1. HeaderPart => HeaderIsWhatWasDecoded
  BY DEF HeaderPart, HeaderInv, HeaderIsWhatWasDecoded, H!HeaderIsWhatWasDecoded
<1> QED
  BY <1>1, HeaderPartHolds, PTL
-----------------------------------------------------------------------------
(* Leaders and their lines.                                                *)
LEMMA LeaderSteps ==
  ASSUME part = "multileader"
  PROVE  /\ ConversionInit => M!Init
         /\ PartStep => M!Next \/ UNCHANGED M!vars
<1>1. ConversionInit => M!Init
  BY DEF ConversionInit, RecordInit
<1>2. PartStep => M!Next \/ UNCHANGED M!vars
  BY DEF PartStep, ConversionNext, RecordNext, conversionVars, recordVars, M!vars
<1> QED BY <1>1, <1>2

LinePlaces == (Nat \ {0}) \X (Nat \ {0})

(* The lines with points are finitely many places in the record.           *)
LEMMA LinesAre ==
  ASSUME w1 \in Multileaders
  PROVE  /\ DOMAIN w1 = 1 .. Len(w1) /\ Len(w1) \in Nat
         /\ \A r \in DOMAIN w1 : DOMAIN w1[r] = 1 .. Len(w1[r]) /\ Len(w1[r]) \in Nat
         /\ \A p : p \in M!AllLines <=>
              p \in LinePlaces /\ p[1] \in DOMAIN w1 /\ p[2] \in DOMAIN w1[p[1]] /\ M!HasPoints(p)
         /\ \A p, r : p \in M!LinesOf(r) /\ r \in DOMAIN w1 <=> p \in M!AllLines /\ p[1] = r
<1>1. w1 \in Seq(Seq(M!LineType))
  BY ConversionAssumption
<1>2. DOMAIN w1 = 1 .. Len(w1) /\ Len(w1) \in Nat
  BY <1>1
<1>3. ASSUME NEW r \in DOMAIN w1 PROVE DOMAIN w1[r] = 1 .. Len(w1[r]) /\ Len(w1[r]) \in Nat
  <2>1. w1[r] \in Seq(M!LineType)
    BY <1>1, <1>2
  <2> QED BY <2>1
<1>4. ASSUME NEW p, NEW r
      PROVE  p \in M!LinesOf(r) <=> /\ p \in {r} \X DOMAIN w1[r] /\ M!HasPoints(p)
  BY DEF M!LinesOf
<1>5. ASSUME NEW p, NEW r \in DOMAIN w1, p \in {r} \X DOMAIN w1[r]
      PROVE  p \in LinePlaces /\ p[1] = r /\ p[2] \in DOMAIN w1[r]
  BY <1>2, <1>3, <1>5 DEF LinePlaces
<1>6. ASSUME NEW p \in LinePlaces, p[1] \in DOMAIN w1, p[2] \in DOMAIN w1[p[1]]
      PROVE  p \in {p[1]} \X DOMAIN w1[p[1]]
  BY <1>6 DEF LinePlaces
<1>7. \A p : p \in M!AllLines <=> \E r \in DOMAIN w1 : p \in M!LinesOf(r)
  BY DEF M!AllLines
<1>8. \A p : p \in M!AllLines <=>
              p \in LinePlaces /\ p[1] \in DOMAIN w1 /\ p[2] \in DOMAIN w1[p[1]] /\ M!HasPoints(p)
  <2>1. ASSUME NEW p, p \in M!AllLines
        PROVE  p \in LinePlaces /\ p[1] \in DOMAIN w1 /\ p[2] \in DOMAIN w1[p[1]] /\ M!HasPoints(p)
    <3>1. PICK r \in DOMAIN w1 : p \in M!LinesOf(r)
      BY <1>7, <2>1
    <3>2. p \in {r} \X DOMAIN w1[r] /\ M!HasPoints(p)
      BY <1>4, <3>1
    <3> QED BY <1>5, <3>2
  <2>2. ASSUME NEW p \in LinePlaces, p[1] \in DOMAIN w1, p[2] \in DOMAIN w1[p[1]], M!HasPoints(p)
        PROVE  p \in M!AllLines
    <3>1. p \in {p[1]} \X DOMAIN w1[p[1]]
      BY <1>6, <2>2
    <3>2. p \in M!LinesOf(p[1])
      BY <1>4, <2>2, <3>1
    <3> QED BY <1>7, <2>2, <3>2
  <2> QED BY <2>1, <2>2
<1>9. \A p, r : p \in M!LinesOf(r) /\ r \in DOMAIN w1 <=> p \in M!AllLines /\ p[1] = r
  <2>1. ASSUME NEW p, NEW r, p \in M!LinesOf(r), r \in DOMAIN w1 PROVE p \in M!AllLines /\ p[1] = r
    BY <1>4, <1>5, <1>7, <2>1, Zenon
  <2>2. ASSUME NEW p, p \in M!AllLines PROVE p \in M!LinesOf(p[1]) /\ p[1] \in DOMAIN w1
    BY <1>4, <1>6, <1>8, <2>2, Zenon
  <2> QED BY <2>1, <2>2, Zenon
<1> QED BY <1>2, <1>3, <1>8, <1>9

LEMMA LinesAreFinite ==
  ASSUME w1 \in Multileaders
  PROVE  /\ IsFiniteSet(M!AllLines) /\ Cardinality(M!AllLines) \in Nat
         /\ M!Cardinality(M!AllLines) = Cardinality(M!AllLines)
<1>1. ASSUME NEW r \in DOMAIN w1 PROVE IsFiniteSet(M!LinesOf(r))
  <2>1. IsFiniteSet({r}) /\ IsFiniteSet(DOMAIN w1[r])
    <3>1. DOMAIN w1[r] = 1 .. Len(w1[r]) /\ 1 \in Int /\ Len(w1[r]) \in Int
      BY LinesAre
    <3>2. IsFiniteSet(1 .. Len(w1[r]))
      BY <3>1, FS_Interval
    <3> QED BY <3>1, <3>2, FS_Singleton
  <2>2. IsFiniteSet({r} \X DOMAIN w1[r])
    BY <2>1, FS_Product
  <2>3. M!LinesOf(r) \subseteq {r} \X DOMAIN w1[r]
    BY DEF M!LinesOf
  <2> QED BY <2>2, <2>3, FS_Subset
<1> DEFINE all == {M!LinesOf(r) : r \in DOMAIN w1}
<1>2. IsFiniteSet(all)
  <2> DEFINE f == [r \in DOMAIN w1 |-> M!LinesOf(r)]
  <2>1. f \in Surjection(DOMAIN w1, all)
    BY DEF Surjection
  <2>2. IsFiniteSet(DOMAIN w1)
    BY LinesAre, FS_Interval
  <2> HIDE DEF f, all
  <2> QED BY <2>1, <2>2, FS_Surjection
<1>3. \A X \in all : IsFiniteSet(X)
  BY <1>1
<1>4. IsFiniteSet(UNION all)
  <2> HIDE DEF all
  <2> QED BY <1>2, <1>3, FS_UNION
<1>5. IsFiniteSet(M!AllLines)
  BY <1>4 DEF M!AllLines
<1>6. M!Cardinality(M!AllLines) = Cardinality(M!AllLines)
  BY DEF M!Cardinality, Cardinality
<1> QED BY <1>5, <1>6, FS_CardinalityType

(* Lines in order are each there once.                                     *)
LEMMA OrderedFits ==
  ASSUME NEW X \in SUBSET LinePlaces, IsFiniteSet(X), NEW kept \in Seq(X), M!InOrder(kept)
  PROVE  Len(kept) <= Cardinality(X)
<1> DEFINE n == Len(kept)
<1>1. n \in Nat /\ DOMAIN kept = 1 .. n /\ kept \in [1 .. n -> X]
  OBVIOUS
<1>2. ASSUME NEW j \in 1 .. n, NEW k \in 1 .. n, j < k PROVE kept[j] # kept[k]
  <2>1. M!Before(kept[j], kept[k])
    BY <1>1, <1>2 DEF M!InOrder
  <2>2. kept[j] \in LinePlaces /\ kept[k] \in LinePlaces
    BY <1>1
  <2>3. ASSUME NEW a \in LinePlaces, NEW b \in LinePlaces, M!Before(a, b) PROVE a # b
    BY <2>3 DEF M!Before, LinePlaces
  <2> QED BY <2>1, <2>2, <2>3
<1>3. kept \in Injection(1 .. n, X)
  <2>1. ASSUME NEW j \in 1 .. n, NEW k \in 1 .. n, kept[j] = kept[k] PROVE j = k
    BY <1>1, <1>2, <2>1
  <2> QED BY <1>1, <2>1 DEF Injection, IsInjective
<1>4. Cardinality(1 .. n) = n
  BY <1>1, FS_Interval
<1> HIDE DEF n
<1>5. Cardinality(1 .. n) <= Cardinality(X)
  BY <1>3, FS_Injection
<1> QED BY <1>4, <1>5 DEF n

(* A line behind all of those kept is kept in order.                       *)
LEMMA AppendInOrder ==
  ASSUME NEW X, NEW kept \in Seq(X), M!InOrder(kept), NEW p \in X,
         \A q \in M!Range(kept) : M!Before(q, p)
  PROVE  /\ Append(kept, p) \in Seq(X) /\ M!InOrder(Append(kept, p))
         /\ M!Range(Append(kept, p)) = M!Range(kept) \cup {p}
<1> DEFINE more == Append(kept, p)
           n == Len(kept)
<1>1. /\ more \in Seq(X) /\ n \in Nat /\ DOMAIN more = 1 .. n + 1 /\ DOMAIN kept = 1 .. n
      /\ more[n + 1] = p /\ \A k \in 1 .. n : more[k] = kept[k]
  OBVIOUS
<1> HIDE DEF more, n
<1>2. M!Range(more) = M!Range(kept) \cup {p}
  <2>1. M!Range(more) = {more[k] : k \in 1 .. n + 1} /\ M!Range(kept) = {kept[k] : k \in 1 .. n}
    BY <1>1 DEF M!Range
  <2>2. \A k : k \in 1 .. n + 1 <=> k \in 1 .. n \/ k = n + 1
    BY <1>1
  <2> QED BY <1>1, <2>1, <2>2
<1>3. ASSUME NEW j \in DOMAIN more, NEW k \in DOMAIN more, j < k PROVE M!Before(more[j], more[k])
  <2>1. j \in 1 .. n /\ more[j] = kept[j]
    BY <1>1, <1>3
  <2>2. CASE k = n + 1
    <3>1. kept[j] \in M!Range(kept)
      BY <1>1, <2>1 DEF M!Range
    <3> QED BY <1>1, <2>1, <2>2, <3>1
  <2>3. CASE k # n + 1
    <3>1. k \in 1 .. n /\ more[k] = kept[k]
      BY <1>1, <2>3
    <3> QED BY <1>1, <1>3, <2>1, <3>1 DEF M!InOrder
  <2> QED BY <2>2, <2>3
<1> QED BY <1>1, <1>2, <1>3 DEF M!InOrder, more

(* The lines before the second pass's place, and those hung so far.        *)
Earlier == {p \in M!AllLines : M!Before(p, w6)}
Attached == {w2.copied[k] : k \in 1 .. (w3 - 1)}

LeadersTyped ==
  /\ w1 \in Multileaders /\ w3 \in Nat \ {0} /\ w6 \in LinePlaces
  /\ w2 \in [size : Nat, copied : Seq(M!AllLines)]
  /\ w4 \in [roots : Seq(Seq(M!AllLines)), own : Seq(M!AllLines)]
  /\ w5 \in [at : M!Stages, short : BOOLEAN]

(* The copies keep the record's order and stay in the array counted for    *)
(* them; unless an allocation failed they are all up to the place reached. *)
CopiesAre ==
  /\ M!InOrder(w2.copied) /\ Len(w2.copied) <= w2.size
  /\ M!At("copy") => /\ w2.size = Cardinality(M!AllLines) /\ M!Range(w2.copied) \subseteq Earlier
                     /\ w5.short \/ Earlier \subseteq M!Range(w2.copied)
  /\ M!At("attach") => /\ w3 <= Len(w2.copied) + 1
                       /\ w5.short \/ M!Range(w2.copied) = M!AllLines

(* The lines kept are in order too, each under the root of its number.     *)
LeadersAre ==
  /\ M!InOrder(w4.own)
  /\ \A r \in DOMAIN w4.roots : /\ M!InOrder(w4.roots[r])
                                /\ M!Range(w4.roots[r]) = {p \in M!Range(w4.own) : p[1] = r}
  /\ \A p \in M!Range(w4.own) : p[1] \in DOMAIN w4.roots
  /\ M!At("roots") \/ w5.short \/ DOMAIN w4.roots = DOMAIN w1

Untouched ==
  /\ w3 = 1 /\ w4.own = <<>>
  /\ M!At("roots") \/ M!At("count") => w2.copied = <<>> /\ w6 = <<1, 1>>

LeaderInv ==
  /\ LeadersTyped /\ CopiesAre /\ LeadersAre
  /\ M!At("roots") \/ M!At("count") \/ M!At("copy") => Untouched
  /\ M!At("attach") => M!Range(w4.own) = {p \in Attached : p[1] \in DOMAIN w4.roots}
  /\ M!At("done") => w5.short \/ M!Range(w4.own) = M!AllLines

LEMMA NothingIsInOrder ==
  /\ M!InOrder(<<>>) /\ M!Range(<<>>) = {} /\ Len(<<>>) = 0
  /\ \A X : <<>> \in Seq(X)
BY DEF M!InOrder, M!Range

LEMMA LeadersBegin ==
  ASSUME M!Init
  PROVE  LeaderInv
<1>1. /\ w1 \in Multileaders /\ w2 = [size |-> 0, copied |-> <<>>] /\ w3 = 1 /\ w6 = <<1, 1>>
      /\ w4 = [roots |-> <<>>, own |-> <<>>] /\ w5 = [at |-> "roots", short |-> FALSE]
  BY DEF M!Init, M!NoArray
<1>2. M!At("roots") /\ ~M!At("count") /\ ~M!At("copy") /\ ~M!At("attach") /\ ~M!At("done")
  BY <1>1 DEF M!At
<1>3. LeadersTyped
  BY <1>1 DEF LeadersTyped, LinePlaces, M!Stages
<1>4. w2.copied = <<>> /\ w2.size = 0 /\ w4.own = <<>> /\ w4.roots = <<>> /\ DOMAIN w4.roots = {}
  BY <1>1
<1>5. CopiesAre
  BY <1>2, <1>4, NothingIsInOrder DEF CopiesAre
<1>6. LeadersAre
  BY <1>2, <1>4, NothingIsInOrder DEF LeadersAre
<1>7. Untouched
  BY <1>1, <1>4 DEF Untouched
<1> QED BY <1>2, <1>3, <1>5, <1>6, <1>7 DEF LeaderInv

LEMMA StageIs ==
  ASSUME w5 \in [at : M!Stages, short : BOOLEAN], NEW s \in M!Stages, M!GoOn(s) \/ M!GoOnShort(s)
  PROVE  /\ w5' \in [at : M!Stages, short : BOOLEAN] /\ w5'.at = s
         /\ M!GoOn(s) => (w5'.short <=> w5.short)
         /\ M!GoOnShort(s) => w5'.short
         /\ \A t : M!At(t)' <=> t = s
<1>1. CASE M!GoOn(s)
  BY <1>1 DEF M!GoOn, M!GoOnShort, M!At
<1>2. CASE M!GoOnShort(s)
  BY <1>2 DEF M!GoOn, M!GoOnShort, M!At
<1> QED BY <1>1, <1>2

LEMMA LinesStay ==
  ASSUME w1' = w1
  PROVE  M!AllLines' = M!AllLines
BY DEF M!AllLines, M!LinesOf, M!HasPoints, M!Line

LEMMA LeadersStay ==
  ASSUME LeadersAre, w1' = w1, w4' = w4, w5.short => w5'.short, ~M!At("roots") \/ w5'.short
  PROVE  LeadersAre'
<1>1. DOMAIN w4'.roots = DOMAIN w4.roots /\ DOMAIN w1' = DOMAIN w1
  OBVIOUS
<1>2. M!At("roots")' \/ w5'.short \/ DOMAIN w4'.roots = DOMAIN w1'
  <2>1. M!At("roots") \/ w5.short \/ DOMAIN w4.roots = DOMAIN w1
    BY DEF LeadersAre
  <2> QED BY <1>1, <2>1, Zenon
<1>3. /\ M!InOrder(w4'.own)
      /\ \A r \in DOMAIN w4'.roots : /\ M!InOrder(w4'.roots[r])
                                     /\ M!Range(w4'.roots[r]) = {p \in M!Range(w4'.own) : p[1] = r}
      /\ \A p \in M!Range(w4'.own) : p[1] \in DOMAIN w4'.roots
  BY <1>1 DEF LeadersAre
<1> QED BY <1>2, <1>3, Zenon DEF LeadersAre

LEMMA GetRootsKeeps ==
  ASSUME LeaderInv, M!GetRoots
  PROVE  LeaderInv'
<1>1. /\ M!At("roots") /\ w1' = w1 /\ w2' = w2 /\ w3' = w3 /\ w6' = w6
      /\ \/ w4' = [w4 EXCEPT !.roots = [r \in DOMAIN w1 |-> <<>>]] /\ M!GoOn("count")
         \/ w4' = w4 /\ M!GoOnShort("count")
  BY DEF M!GetRoots
<1>2. /\ LeadersTyped /\ CopiesAre /\ LeadersAre
      /\ w3 = 1 /\ w4.own = <<>> /\ w2.copied = <<>> /\ w6 = <<1, 1>> /\ Len(w2.copied) <= w2.size
  BY <1>1 DEF LeaderInv, Untouched, CopiesAre
<1>3. /\ w5' \in [at : M!Stages, short : BOOLEAN]
      /\ \A t : M!At(t)' <=> t = "count"
      /\ M!GoOnShort("count") => w5'.short
  BY <1>1, <1>2, StageIs DEF LeadersTyped, M!Stages
<1>4. M!AllLines' = M!AllLines
  BY <1>1, LinesStay
<1>5. CopiesAre'
  BY <1>1, <1>2, <1>3, NothingIsInOrder DEF CopiesAre, M!InOrder
<1>6. Untouched' /\ ~M!At("attach")' /\ ~M!At("done")'
  <2>1. w4'.own = <<>>
    BY <1>1, <1>2 DEF LeadersTyped
  <2> QED BY <1>1, <1>2, <1>3, <2>1 DEF Untouched
<1>7. CASE w4' = w4 /\ M!GoOnShort("count")
  <2>1. LeadersAre'
    BY <1>1, <1>2, <1>3, <1>7, LeadersStay
  <2>2. LeadersTyped'
    BY <1>1, <1>2, <1>3, <1>4, <1>7 DEF LeadersTyped
  <2> QED BY <1>5, <1>6, <2>1, <2>2 DEF LeaderInv
<1>8. CASE w4' = [w4 EXCEPT !.roots = [r \in DOMAIN w1 |-> <<>>]]
  <2> DEFINE none == [r \in DOMAIN w1 |-> <<>>]
  <2>1. w4' \in [roots : {none}, own : Seq(M!AllLines)] /\ w4'.roots = none /\ w4'.own = <<>>
    BY <1>2, <1>8 DEF LeadersTyped
  <2>2. none \in Seq(Seq(M!AllLines)) /\ DOMAIN none = DOMAIN w1 /\ \A r \in DOMAIN none : none[r] = <<>>
    BY <1>2, LinesAre, NothingIsInOrder DEF LeadersTyped
  <2> HIDE DEF none
  <2>3. LeadersAre'
    BY <1>1, <2>1, <2>2, NothingIsInOrder DEF LeadersAre, M!InOrder, M!Range
  <2>4. LeadersTyped'
    BY <1>1, <1>2, <1>3, <1>4, <2>1, <2>2 DEF LeadersTyped
  <2> QED BY <1>5, <1>6, <2>3, <2>4 DEF LeaderInv
<1> QED BY <1>1, <1>7, <1>8

LEMMA CountLinesKeeps ==
  ASSUME LeaderInv, M!CountLines
  PROVE  LeaderInv'
<1> DEFINE total == Cardinality(M!AllLines)
<1>1. /\ LeadersTyped /\ CopiesAre /\ LeadersAre /\ M!At("count")
      /\ w3 = 1 /\ w4.own = <<>> /\ w2.copied = <<>> /\ w6 = <<1, 1>> /\ Len(w2.copied) <= w2.size
  BY DEF LeaderInv, Untouched, CopiesAre, M!CountLines
<1>2. total \in Nat /\ (total = 0 => M!AllLines = {}) /\ M!Cardinality(M!AllLines) = total
  BY <1>1, LinesAreFinite, FS_EmptySet DEF LeadersTyped
<1>3. /\ w1' = w1 /\ w3' = w3 /\ w4' = w4 /\ w6' = w6
      /\ \/ total = 0 /\ M!GoOn("done") /\ w2' = w2
         \/ total > 0 /\ M!GoOnShort("done") /\ w2' = w2
         \/ total > 0 /\ M!GoOn("copy") /\ w2' = [w2 EXCEPT !.size = total]
  BY <1>2 DEF M!CountLines
<1>4. M!AllLines' = M!AllLines
  BY <1>3, LinesStay
<1>5. w5' \in [at : M!Stages, short : BOOLEAN] /\ (w5.short => w5'.short) /\ ~M!At("roots")
  BY <1>1, <1>3, StageIs DEF LeadersTyped, M!Stages, M!At
<1>6. LeadersAre'
  BY <1>1, <1>3, <1>5, LeadersStay
<1>7. w2' \in [size : Nat, copied : Seq(M!AllLines)] /\ w2'.copied = <<>> /\ w2'.size \in Nat
  BY <1>1, <1>2, <1>3 DEF LeadersTyped
<1>8. LeadersTyped'
  BY <1>1, <1>3, <1>4, <1>5, <1>7 DEF LeadersTyped
<1>9. CASE M!GoOn("done") \/ M!GoOnShort("done")
  <2>1. \A t : M!At(t)' <=> t = "done"
    BY <1>1, <1>9, StageIs DEF LeadersTyped, M!Stages
  <2>2. w5'.short \/ M!Range(w4'.own) = M!AllLines'
    <3>1. CASE M!GoOnShort("done")
      BY <1>1, <3>1, StageIs DEF LeadersTyped, M!Stages
    <3>2. CASE ~M!GoOnShort("done")
      <4>1. total = 0
        <5>1. M!GoOn("copy") => FALSE
          BY <1>1, <2>1, StageIs DEF LeadersTyped, M!Stages
        <5> QED BY <1>3, <3>2, <5>1
      <4> QED BY <1>1, <1>2, <1>3, <1>4, <4>1, NothingIsInOrder
    <3> QED BY <3>1, <3>2
  <2>3. CopiesAre'
    BY <1>7, <2>1, NothingIsInOrder DEF CopiesAre, M!InOrder
  <2> QED BY <1>6, <1>8, <2>1, <2>2, <2>3 DEF LeaderInv, M!Range
<1>10. CASE M!GoOn("copy") /\ w2' = [w2 EXCEPT !.size = total]
  <2>1. \A t : M!At(t)' <=> t = "copy"
    BY <1>1, <1>10, StageIs DEF LeadersTyped, M!Stages
  <2>2. w2'.size = total
    BY <1>1, <1>10 DEF LeadersTyped
  <2>3. Earlier' = {}
    <3>1. ASSUME NEW p \in M!AllLines PROVE ~M!Before(p, <<1, 1>>)
      BY <1>1, LinesAre DEF LeadersTyped, M!Before, LinePlaces
    <3> QED BY <1>1, <1>3, <1>4, <3>1 DEF Earlier, M!Before
  <2>4. CopiesAre'
    BY <1>2, <1>4, <1>7, <2>1, <2>2, <2>3, NothingIsInOrder DEF CopiesAre, M!InOrder, M!Range
  <2>5. Untouched'
    BY <1>1, <1>3, <2>1 DEF Untouched
  <2> QED BY <1>6, <1>8, <2>1, <2>4, <2>5 DEF LeaderInv
<1> QED BY <1>3, <1>9, <1>10

LEMMA StageStays ==
  ASSUME w5' = w5
  PROVE  \A t : M!At(t)' <=> M!At(t)
BY DEF M!At

(* The second pass's place goes over one line, or on to the next node.     *)
LEMMA OneLineFurther ==
  ASSUME LeadersTyped, w1' = w1, w6' = <<w6[1], w6[2] + 1>>
  PROVE  w6' \in LinePlaces /\ Earlier' = Earlier \cup ({w6} \cap M!AllLines)
<1>1. w6 \in LinePlaces /\ w6' \in LinePlaces
  BY DEF LeadersTyped, LinePlaces
<1>2. ASSUME NEW p \in LinePlaces PROVE M!Before(p, w6') <=> M!Before(p, w6) \/ p = w6
  BY <1>1 DEF M!Before, LinePlaces
<1>3. M!AllLines' = M!AllLines /\ M!AllLines \subseteq LinePlaces
  BY LinesStay, LinesAre DEF LeadersTyped
<1> HIDE DEF LeadersTyped
<1>4. Earlier' = {p \in M!AllLines : M!Before(p, w6')}
  BY <1>3 DEF Earlier, M!Before
<1> QED BY <1>1, <1>2, <1>3, <1>4 DEF Earlier

LEMMA LeadersTypedStay ==
  ASSUME LeadersTyped, w1' = w1, w4' = w4, w3' \in Nat \ {0}, w6' \in LinePlaces,
         w2' \in [size : Nat, copied : Seq(M!AllLines)],
         w5' \in [at : M!Stages, short : BOOLEAN]
  PROVE  LeadersTyped'
<1>1. M!AllLines' = M!AllLines
  BY LinesStay
<1> QED BY <1>1 DEF LeadersTyped

LEMMA CopyLineKeeps ==
  ASSUME LeaderInv, M!CopyLine
  PROVE  LeaderInv'
<1>1. /\ LeadersTyped /\ CopiesAre /\ LeadersAre /\ M!At("copy")
      /\ w3 = 1 /\ w4.own = <<>>
  BY DEF LeaderInv, Untouched, M!CopyLine
<1>2. /\ w1' = w1 /\ w3' = w3 /\ w4' = w4 /\ w6' = <<w6[1], w6[2] + 1>> /\ M!InNode
      /\ \/ ~M!HasPoints(w6) /\ w2' = w2 /\ w5' = w5
         \/ M!HasPoints(w6) /\ w2' = w2 /\ M!GoOnShort("copy")
         \/ M!HasPoints(w6) /\ w5' = w5 /\ w2' = [w2 EXCEPT !.copied = Append(@, w6)]
  BY DEF M!CopyLine
<1>3. M!AllLines' = M!AllLines
  BY <1>2, LinesStay
<1>4. w6' \in LinePlaces /\ Earlier' = Earlier \cup ({w6} \cap M!AllLines)
  BY <1>1, <1>2, OneLineFurther
<1>5. w6 \in M!AllLines <=> M!HasPoints(w6)
  BY <1>1, <1>2, LinesAre DEF M!InNode, LeadersTyped
<1>6. w5' \in [at : M!Stages, short : BOOLEAN] /\ (w5.short => w5'.short) /\ ~M!At("roots")
      /\ \A t : M!At(t)' <=> t = "copy"
  <2>1. CASE w5' = w5
    BY <1>1, <2>1, StageStays DEF LeadersTyped, M!At
  <2>2. CASE M!GoOnShort("copy")
    BY <1>1, <2>2, StageIs DEF LeadersTyped, M!Stages, M!At
  <2> QED BY <1>2, <2>1, <2>2
<1>7. LeadersAre'
  BY <1>1, <1>2, <1>6, LeadersStay
<1>8. Untouched'
  BY <1>1, <1>2, <1>6 DEF Untouched
<1>9. /\ M!InOrder(w2.copied) /\ Len(w2.copied) <= w2.size
      /\ w2.size = Cardinality(M!AllLines) /\ M!Range(w2.copied) \subseteq Earlier
      /\ w5.short \/ Earlier \subseteq M!Range(w2.copied)
  BY <1>1 DEF CopiesAre
<1>10. w2 \in [size : Nat, copied : Seq(M!AllLines)]
  BY <1>1 DEF LeadersTyped
<1>11. Cardinality(M!AllLines)' = Cardinality(M!AllLines)
  BY <1>3
<1>12. CASE ~M!HasPoints(w6) /\ w2' = w2 /\ w5' = w5
  <2>1. Earlier' = Earlier
    BY <1>4, <1>5, <1>12
  <2>2. CopiesAre'
    BY <1>6, <1>9, <1>11, <1>12, <2>1 DEF CopiesAre, M!InOrder, M!Range, M!Before
  <2>3. LeadersTyped'
    BY <1>1, <1>2, <1>4, <1>6, <1>10, <1>12, LeadersTypedStay DEF LeadersTyped
  <2> QED BY <1>6, <1>7, <1>8, <2>2, <2>3 DEF LeaderInv
<1>13. CASE M!HasPoints(w6) /\ w2' = w2 /\ M!GoOnShort("copy")
  <2>1. Earlier \subseteq Earlier' /\ w5'.short
    BY <1>1, <1>4, <1>13, StageIs DEF LeadersTyped, M!Stages
  <2>2. CopiesAre'
    BY <1>6, <1>9, <1>11, <1>13, <2>1 DEF CopiesAre, M!InOrder, M!Range, M!Before
  <2>3. LeadersTyped'
    BY <1>1, <1>2, <1>4, <1>6, <1>10, <1>13, LeadersTypedStay DEF LeadersTyped
  <2> QED BY <1>6, <1>7, <1>8, <2>2, <2>3 DEF LeaderInv
<1>14. CASE M!HasPoints(w6) /\ w5' = w5 /\ w2' = [w2 EXCEPT !.copied = Append(@, w6)]
  <2> DEFINE more == Append(w2.copied, w6)
  <2>1. w2.copied \in Seq(M!AllLines) /\ w6 \in M!AllLines
    BY <1>5, <1>10, <1>14
  <2>2. \A q \in M!Range(w2.copied) : M!Before(q, w6)
    BY <1>9 DEF Earlier
  <2>3. /\ more \in Seq(M!AllLines) /\ M!InOrder(more)
        /\ M!Range(more) = M!Range(w2.copied) \cup {w6}
    BY <1>9, <2>1, <2>2, AppendInOrder
  <2> HIDE DEF more
  <2>4. w2'.copied = more /\ w2'.size = w2.size /\ w2' \in [size : Nat, copied : Seq(M!AllLines)]
    BY <1>10, <1>14, <2>3 DEF more
  <2>5. Len(more) <= w2.size
    <3>1. w1 \in Multileaders
      BY <1>1 DEF LeadersTyped
    <3>2. M!AllLines \in SUBSET LinePlaces /\ IsFiniteSet(M!AllLines)
      BY <3>1, LinesAre, LinesAreFinite
    <3> QED BY <1>9, <2>3, <3>2, OrderedFits
  <2>6. /\ M!Range(more) \subseteq Earlier' /\ (w5'.short \/ Earlier' \subseteq M!Range(more))
    BY <1>4, <1>9, <1>14, <2>1, <2>3
  <2>7. CopiesAre'
    BY <1>6, <1>9, <1>11, <2>3, <2>4, <2>5, <2>6 DEF CopiesAre, M!InOrder, M!Range, M!Before
  <2>8. LeadersTyped'
    BY <1>1, <1>2, <1>4, <1>6, <2>4, LeadersTypedStay DEF LeadersTyped
  <2> QED BY <1>6, <1>7, <1>8, <2>7, <2>8 DEF LeaderInv
<1> QED BY <1>2, <1>12, <1>13, <1>14

LEMMA EndNodeKeeps ==
  ASSUME LeaderInv, M!EndNode
  PROVE  LeaderInv'
<1>1. /\ LeadersTyped /\ CopiesAre /\ LeadersAre /\ M!At("copy") /\ Untouched
      /\ w1' = w1 /\ w2' = w2 /\ w3' = w3 /\ w4' = w4 /\ w5' = w5
      /\ w6' = <<w6[1] + 1, 1>> /\ w6[1] \in DOMAIN w1 /\ w6[2] \notin DOMAIN w1[w6[1]]
  BY DEF LeaderInv, M!EndNode, M!InNode
<1>2. w6 \in LinePlaces /\ w6' \in LinePlaces /\ w6[2] > Len(w1[w6[1]])
  <2>1. w6 \in LinePlaces /\ w1 \in Multileaders
    BY <1>1 DEF LeadersTyped
  <2>2. DOMAIN w1[w6[1]] = 1 .. Len(w1[w6[1]]) /\ Len(w1[w6[1]]) \in Nat /\ w6[1] \in Nat
    BY <1>1, <2>1, LinesAre DEF LinePlaces
  <2>3. w6[2] \in Nat \ {0} /\ w6[2] \notin 1 .. Len(w1[w6[1]])
    BY <1>1, <2>1, <2>2 DEF LinePlaces
  <2> QED BY <1>1, <2>1, <2>2, <2>3 DEF LinePlaces
<1>3. ASSUME NEW p \in M!AllLines PROVE M!Before(p, w6') <=> M!Before(p, w6)
  <2>1. p \in LinePlaces /\ p[1] \in DOMAIN w1 /\ p[2] \in 1 .. Len(w1[p[1]]) /\ Len(w1[p[1]]) \in Nat
    BY <1>1, LinesAre DEF LeadersTyped
  <2> QED BY <1>1, <1>2, <2>1 DEF M!Before, LinePlaces
<1>4. M!AllLines' = M!AllLines
  BY <1>1, LinesStay
<1>5. Earlier' = Earlier
  <2>1. Earlier' = {p \in M!AllLines : M!Before(p, w6')}
    BY <1>4 DEF Earlier, M!Before
  <2> QED BY <1>3, <2>1 DEF Earlier
<1>6. Cardinality(M!AllLines)' = Cardinality(M!AllLines)
  BY <1>4
<1>7. \A t : M!At(t)' <=> t = "copy"
  BY <1>1, StageStays DEF M!At
<1>8. CopiesAre'
  BY <1>1, <1>5, <1>6, <1>7 DEF CopiesAre, M!InOrder, M!Range, M!Before
<1>9. LeadersTyped'
  BY <1>1, <1>2, LeadersTypedStay DEF LeadersTyped
<1>10. LeadersAre'
  BY <1>1, LeadersStay DEF M!At
<1>11. Untouched'
  BY <1>1, <1>7 DEF Untouched
<1> QED BY <1>7, <1>8, <1>9, <1>10, <1>11 DEF LeaderInv

LEMMA HandOverKeeps ==
  ASSUME LeaderInv, M!HandOver
  PROVE  LeaderInv'
<1>1. /\ LeadersTyped /\ CopiesAre /\ LeadersAre /\ M!At("copy") /\ w3 = 1 /\ w4.own = <<>>
      /\ w1' = w1 /\ w2' = w2 /\ w3' = w3 /\ w4' = w4 /\ M!GoOn("attach")
      /\ w6' = w6 /\ w6[1] \notin DOMAIN w1
  BY DEF LeaderInv, Untouched, M!HandOver
<1>2. /\ w5' \in [at : M!Stages, short : BOOLEAN] /\ (w5'.short <=> w5.short)
      /\ \A t : M!At(t)' <=> t = "attach"
  BY <1>1, StageIs DEF LeadersTyped, M!Stages
<1>3. M!AllLines' = M!AllLines
  BY <1>1, LinesStay
<1>4. Earlier = M!AllLines
  <2>1. ASSUME NEW p \in M!AllLines PROVE M!Before(p, w6)
    <3>1. p \in LinePlaces /\ p[1] \in 1 .. Len(w1) /\ Len(w1) \in Nat /\ w6[1] \notin 1 .. Len(w1)
      BY <1>1, LinesAre DEF LeadersTyped
    <3> QED BY <1>1, <3>1 DEF LeadersTyped, LinePlaces, M!Before
  <2> QED BY <2>1 DEF Earlier
<1>5. /\ M!InOrder(w2.copied) /\ Len(w2.copied) <= w2.size
      /\ M!Range(w2.copied) \subseteq Earlier
      /\ w5.short \/ Earlier \subseteq M!Range(w2.copied)
      /\ w2.copied \in Seq(M!AllLines)
  BY <1>1 DEF CopiesAre, LeadersTyped
<1>6. CopiesAre'
  <2>1. w3' <= Len(w2.copied) + 1
    BY <1>1, <1>5
  <2>2. w5'.short \/ M!Range(w2.copied) = M!AllLines
    BY <1>2, <1>4, <1>5
  <2> QED BY <1>1, <1>2, <1>3, <1>5, <2>1, <2>2 DEF CopiesAre, M!InOrder, M!Range, M!Before
<1>7. LeadersTyped'
  BY <1>1, <1>2, LeadersTypedStay DEF LeadersTyped
<1>8. LeadersAre'
  BY <1>1, <1>2, LeadersStay DEF M!At
<1>9. Attached' = {} /\ w4'.own = <<>>
  BY <1>1 DEF Attached
<1> QED BY <1>2, <1>6, <1>7, <1>8, <1>9, NothingIsInOrder DEF LeaderInv, M!Range

(* One line more has been hung: the one that comes after all of those.     *)
LEMMA OneLineMore ==
  ASSUME LeaderInv, M!At("attach"), w3 <= Len(w2.copied), w2' = w2, w3' = w3 + 1
  PROVE  /\ w2.copied[w3] \in M!AllLines
         /\ Attached' = Attached \cup {w2.copied[w3]}
         /\ \A q \in Attached : M!Before(q, w2.copied[w3])
<1>1. /\ w2.copied \in Seq(M!AllLines) /\ M!InOrder(w2.copied) /\ w3 \in Nat \ {0}
  BY DEF LeaderInv, LeadersTyped, CopiesAre
<1>2. w2.copied[w3] \in M!AllLines /\ w3 \in DOMAIN w2.copied
  BY <1>1
<1>3. Attached' = {w2.copied[k] : k \in 1 .. w3}
  BY <1>1 DEF Attached
<1>4. \A k : k \in 1 .. w3 <=> k \in 1 .. (w3 - 1) \/ k = w3
  BY <1>1
<1>5. Attached' = Attached \cup {w2.copied[w3]}
  BY <1>3, <1>4 DEF Attached
<1>6. ASSUME NEW k \in 1 .. (w3 - 1) PROVE M!Before(w2.copied[k], w2.copied[w3])
  <2>1. k \in DOMAIN w2.copied /\ k < w3
    BY <1>1
  <2> QED BY <1>1, <1>2, <2>1 DEF M!InOrder
<1> QED BY <1>2, <1>5, <1>6 DEF Attached

LEMMA AttachLineKeeps ==
  ASSUME LeaderInv, M!AttachLine
  PROVE  LeaderInv'
<1> DEFINE p == w2.copied[w3]
           known == p[1] \in DOMAIN w4.roots
<1>1. /\ LeadersTyped /\ CopiesAre /\ LeadersAre /\ M!At("attach") /\ w3 <= Len(w2.copied)
      /\ M!Range(w4.own) = {q \in Attached : q[1] \in DOMAIN w4.roots}
      /\ w1' = w1 /\ w2' = w2 /\ w3' = w3 + 1 /\ w5' = w5 /\ w6' = w6
      /\ w4' = IF known
               THEN [w4 EXCEPT !.roots[p[1]] = Append(@, p), !.own = Append(@, p)] ELSE w4
  BY DEF LeaderInv, M!AttachLine, M!At
<1>2. /\ p \in M!AllLines /\ Attached' = Attached \cup {p}
      /\ \A q \in Attached : M!Before(q, p)
  BY <1>1, OneLineMore
<1> HIDE DEF p
<1>3. /\ w4 \in [roots : Seq(Seq(M!AllLines)), own : Seq(M!AllLines)]
      /\ w2 \in [size : Nat, copied : Seq(M!AllLines)] /\ w3 \in Nat \ {0}
      /\ w1 \in Multileaders /\ w5 \in [at : M!Stages, short : BOOLEAN] /\ w6 \in LinePlaces
  BY <1>1 DEF LeadersTyped
<1>4. M!AllLines' = M!AllLines
  BY <1>1, LinesStay
<1>5. \A t : M!At(t)' <=> t = "attach"
  BY <1>1, StageStays DEF M!At
<1>6. CopiesAre'
  <2>1. w3' <= Len(w2.copied) + 1
    BY <1>1, <1>3
  <2>2. /\ M!InOrder(w2.copied) /\ Len(w2.copied) <= w2.size
        /\ w5.short \/ M!Range(w2.copied) = M!AllLines
    BY <1>1 DEF CopiesAre
  <2> QED BY <1>1, <1>4, <1>5, <2>1, <2>2 DEF CopiesAre, M!InOrder, M!Range, M!Before
<1>7. CASE ~known
  <2>1. LeadersAre'
    BY <1>1, <1>7, LeadersStay DEF M!At
  <2>2. LeadersTyped'
    BY <1>1, <1>3, <1>7, LeadersTypedStay
  <2>3. M!Range(w4'.own) = {q \in Attached' : q[1] \in DOMAIN w4'.roots}
    BY <1>1, <1>2, <1>7
  <2> QED BY <1>5, <1>6, <2>1, <2>2, <2>3 DEF LeaderInv, M!Range
<1>8. CASE known
  <2> DEFINE r == p[1]
             roots == w4.roots
             own == w4.own
  <2>1. /\ roots \in Seq(Seq(M!AllLines)) /\ own \in Seq(M!AllLines) /\ r \in DOMAIN roots
        /\ w4' = [w4 EXCEPT !.roots[r] = Append(@, p), !.own = Append(@, p)]
    BY <1>1, <1>3, <1>8
  <2>2. /\ w4'.roots = [roots EXCEPT ![r] = Append(@, p)] /\ w4'.own = Append(own, p)
        /\ w4' \in [roots : {[roots EXCEPT ![r] = Append(@, p)]}, own : {Append(own, p)}]
    BY <1>3, <2>1
  <2>3. /\ M!InOrder(own) /\ M!InOrder(roots[r]) /\ roots[r] \in Seq(M!AllLines)
        /\ \A s \in DOMAIN roots : /\ M!InOrder(roots[s])
                                   /\ M!Range(roots[s]) = {q \in M!Range(own) : q[1] = s}
        /\ M!Range(own) = {q \in Attached : q[1] \in DOMAIN roots}
    BY <1>1, <2>1 DEF LeadersAre
  <2> HIDE DEF roots, own, r
  <2>4. /\ \A q \in M!Range(own) : M!Before(q, p)
        /\ \A q \in M!Range(roots[r]) : M!Before(q, p)
    BY <1>2, <2>1, <2>3
  <2>5. /\ Append(own, p) \in Seq(M!AllLines) /\ M!InOrder(Append(own, p))
        /\ M!Range(Append(own, p)) = M!Range(own) \cup {p}
    BY <1>2, <2>1, <2>3, <2>4, AppendInOrder
  <2>6. /\ Append(roots[r], p) \in Seq(M!AllLines) /\ M!InOrder(Append(roots[r], p))
        /\ M!Range(Append(roots[r], p)) = M!Range(roots[r]) \cup {p}
    BY <1>2, <2>3, <2>4, AppendInOrder
  <2>7. /\ w4'.roots \in Seq(Seq(M!AllLines)) /\ DOMAIN w4'.roots = DOMAIN roots
        /\ w4'.roots[r] = Append(roots[r], p)
        /\ \A s \in DOMAIN roots : s # r => w4'.roots[s] = roots[s]
    <3>1. ASSUME NEW X, NEW xs \in Seq(X), NEW k \in DOMAIN xs, NEW e \in X
          PROVE  /\ [xs EXCEPT ![k] = e] \in Seq(X) /\ DOMAIN [xs EXCEPT ![k] = e] = DOMAIN xs
                 /\ [xs EXCEPT ![k] = e][k] = e
                 /\ \A s \in DOMAIN xs : s # k => [xs EXCEPT ![k] = e][s] = xs[s]
      OBVIOUS
    <3> DEFINE more == Append(roots[r], p)
               all == Seq(M!AllLines)
    <3>2. more \in all /\ roots \in Seq(all) /\ w4'.roots = [roots EXCEPT ![r] = more]
      BY <2>1, <2>2, <2>6
    <3> HIDE DEF more, all
    <3>3. /\ w4'.roots \in Seq(all) /\ DOMAIN w4'.roots = DOMAIN roots /\ w4'.roots[r] = more
          /\ \A s \in DOMAIN roots : s # r => w4'.roots[s] = roots[s]
      <4>1. r \in DOMAIN roots
        BY <2>1
      <4>2. /\ [roots EXCEPT ![r] = more] \in Seq(all)
            /\ DOMAIN [roots EXCEPT ![r] = more] = DOMAIN roots
            /\ [roots EXCEPT ![r] = more][r] = more
            /\ \A s \in DOMAIN roots : s # r => [roots EXCEPT ![r] = more][s] = roots[s]
        BY <3>1, <3>2, <4>1, Zenon
      <4> QED BY <3>2, <4>2, Zenon
    <3> QED BY <3>3 DEF more, all
  <2>8. M!Range(w4'.own) = M!Range(own) \cup {p}
    BY <2>2, <2>5
  <2>9. ASSUME NEW s \in DOMAIN roots
        PROVE  M!InOrder(w4'.roots[s]) /\ M!Range(w4'.roots[s]) = {q \in M!Range(w4'.own) : q[1] = s}
    <3>1. CASE s = r
      BY <2>3, <2>6, <2>7, <2>8, <3>1 DEF r
    <3>2. CASE s # r
      <4>1. p[1] # s
        BY <3>2 DEF r
      <4> QED BY <2>3, <2>7, <2>8, <3>2, <4>1
    <3> QED BY <3>1, <3>2
  <2>10. M!Range(w4'.own) = {q \in Attached' : q[1] \in DOMAIN w4'.roots}
    BY <1>2, <2>1, <2>3, <2>7, <2>8 DEF r
  <2>11. LeadersAre'
    <3>1. \A q \in M!Range(w4'.own) : q[1] \in DOMAIN w4'.roots
      BY <2>10
    <3>2. M!At("roots")' \/ w5'.short \/ DOMAIN w4'.roots = DOMAIN w1'
      BY <1>1, <2>7 DEF LeadersAre, M!At, roots
    <3> QED BY <2>2, <2>5, <2>7, <2>9, <3>1, <3>2 DEF LeadersAre
  <2>12. LeadersTyped'
    <3>1. w4' \in [roots : Seq(Seq(M!AllLines)), own : Seq(M!AllLines)]
      BY <2>2, <2>5, <2>7
    <3> QED BY <1>1, <1>3, <1>4, <3>1 DEF LeadersTyped
  <2> QED BY <1>5, <1>6, <2>10, <2>11, <2>12 DEF LeaderInv, M!Range
<1> QED BY <1>7, <1>8

LEMMA FreeLinesKeeps ==
  ASSUME LeaderInv, M!FreeLines
  PROVE  LeaderInv'
<1>1. /\ LeadersTyped /\ CopiesAre /\ LeadersAre /\ M!At("attach") /\ w3 > Len(w2.copied)
      /\ M!Range(w4.own) = {q \in Attached : q[1] \in DOMAIN w4.roots}
      /\ w1' = w1 /\ w3' = w3 /\ w4' = w4 /\ w6' = w6
      /\ w2' = [size |-> 0, copied |-> <<>>] /\ M!GoOn("done")
  BY DEF LeaderInv, M!FreeLines, M!NoArray
<1>2. /\ w5' \in [at : M!Stages, short : BOOLEAN] /\ (w5'.short <=> w5.short)
      /\ \A t : M!At(t)' <=> t = "done"
  BY <1>1, StageIs DEF LeadersTyped, M!Stages
<1>3. M!AllLines' = M!AllLines
  BY <1>1, LinesStay
<1>4. LeadersAre'
  BY <1>1, <1>2, LeadersStay DEF M!At
<1>5. w2' \in [size : Nat, copied : Seq(M!AllLines)] /\ w2'.copied = <<>> /\ w2'.size = 0
  BY <1>1
<1>6. LeadersTyped'
  BY <1>1, <1>2, <1>5, LeadersTypedStay DEF LeadersTyped
<1>7. CopiesAre'
  BY <1>2, <1>5, NothingIsInOrder DEF CopiesAre, M!InOrder
<1>8. ASSUME ~w5.short PROVE M!Range(w4.own) = M!AllLines
  <2>1. /\ M!Range(w2.copied) = M!AllLines /\ w3 = Len(w2.copied) + 1
        /\ w2.copied \in Seq(M!AllLines)
    BY <1>1, <1>8 DEF CopiesAre, LeadersTyped
  <2>2. Attached = M!Range(w2.copied)
    BY <2>1 DEF Attached, M!Range
  <2>3. DOMAIN w4.roots = DOMAIN w1
    BY <1>1, <1>8 DEF LeadersAre, M!At
  <2>4. \A q \in M!AllLines : q[1] \in DOMAIN w1
    BY <1>1, LinesAre DEF LeadersTyped
  <2> QED BY <1>1, <2>1, <2>2, <2>3, <2>4
<1> QED BY <1>1, <1>2, <1>3, <1>4, <1>6, <1>7, <1>8 DEF LeaderInv, M!Range

LEMMA LeadersStayAsTheyAre ==
  ASSUME LeaderInv, M!Next \/ UNCHANGED M!vars
  PROVE  LeaderInv'
<1>1. CASE UNCHANGED M!vars
  <2>1. w1' = w1 /\ w2' = w2 /\ w3' = w3 /\ w4' = w4 /\ w5' = w5 /\ w6' = w6
    BY <1>1 DEF M!vars
  <2>2. M!AllLines' = M!AllLines
    BY <2>1, LinesStay
  <2>3. LeadersTyped'
    BY <2>1, <2>2 DEF LeaderInv, LeadersTyped
  <2>4. \A t : M!At(t)' <=> M!At(t)
    BY <2>1, StageStays
  <2>5. Earlier' = Earlier /\ Attached' = Attached
    BY <2>1, <2>2 DEF Earlier, Attached, M!Before
  <2>6. CopiesAre'
    BY <2>1, <2>2, <2>4, <2>5 DEF LeaderInv, CopiesAre, M!InOrder, M!Range, M!Before
  <2>7. LeadersAre'
    BY <2>1, <2>4 DEF LeaderInv, LeadersAre, M!InOrder, M!Range, M!Before
  <2>8. M!At("roots")' \/ M!At("count")' \/ M!At("copy")' => Untouched'
    BY <2>1, <2>4 DEF LeaderInv, Untouched
  <2>9. M!Range(w4'.own) = M!Range(w4.own)
    BY <2>1
  <2> QED BY <2>1, <2>2, <2>3, <2>4, <2>5, <2>6, <2>7, <2>8, <2>9 DEF LeaderInv, M!Range
<1> QED
  BY <1>1, GetRootsKeeps, CountLinesKeeps, CopyLineKeeps, EndNodeKeeps, HandOverKeeps,
     AttachLineKeeps, FreeLinesKeeps DEF M!Next

LEMMA LinesHang ==
  ASSUME LeaderInv
  PROVE  M!LinesHangUnderTheirLeader
<1>1. LeadersTyped /\ CopiesAre /\ LeadersAre /\ w4.own \in Seq(M!AllLines)
  BY DEF LeaderInv, LeadersTyped
<1>2. M!Range(w4.own) \subseteq M!AllLines
  BY <1>1 DEF M!Range
<1>3. ASSUME NEW r \in DOMAIN w4.roots
      PROVE  M!InOrder(w4.roots[r]) /\ M!Range(w4.roots[r]) \subseteq M!LinesOf(r)
  <2>1. M!InOrder(w4.roots[r]) /\ M!Range(w4.roots[r]) = {p \in M!Range(w4.own) : p[1] = r}
    BY <1>1 DEF LeadersAre
  <2> QED BY <1>1, <1>2, <2>1, LinesAre DEF LeadersTyped
<1>4. M!Range(w4.own) = UNION {M!Range(w4.roots[r]) : r \in DOMAIN w4.roots}
  <2>1. ASSUME NEW p PROVE p \in M!Range(w4.own) <=> \E r \in DOMAIN w4.roots : p \in M!Range(w4.roots[r])
    BY <1>1 DEF LeadersAre
  <2> QED BY <2>1
<1>5. ASSUME M!At("done"), ~w5.short
      PROVE  DOMAIN w4.roots = DOMAIN w1 /\ M!Range(w4.own) = M!AllLines
  BY <1>1, <1>5 DEF LeaderInv, LeadersAre, M!At
<1> QED BY <1>1, <1>3, <1>4, <1>5 DEF M!LinesHangUnderTheirLeader, CopiesAre, LeadersAre

LeaderPart == part = "multileader" => LeaderInv

LEMMA LeaderPartHolds == ConversionSpec => []LeaderPart
<1>1. ConversionInit => LeaderPart
  BY LeaderSteps, LeadersBegin DEF LeaderPart
<1>2. LeaderPart /\ [ConversionNext]_conversionVars => LeaderPart'
  <2> SUFFICES ASSUME LeaderPart, PartStep, part' = "multileader" PROVE LeaderInv'
    BY DEF PartStep, LeaderPart
  <2>1. part = "multileader" /\ LeaderInv
    BY PartsStay DEF LeaderPart
  <2> QED BY <2>1, LeaderSteps, LeadersStayAsTheyAre
<1> QED
  BY <1>1, <1>2, PTL DEF ConversionSpec

(* `LinesHangUnderTheirLeader`, for leaders of any number and lines: each  *)
(* line kept is under its own root and in its place, all of them are kept  *)
(* unless an allocation failed, and no copy runs past the array.           *)
THEOREM LinesHangAsTheyShould == ConversionSpec => []LinesHangUnderTheirLeader
<1>1. LeaderPart => LinesHangUnderTheirLeader
  BY LinesHang DEF LeaderPart, LinesHangUnderTheirLeader
<1> QED
  BY <1>1, LeaderPartHolds, PTL
-----------------------------------------------------------------------------
(* Wireframes.  A walk takes records in the order of the chain: what it    *)
(* took rises, and the k-th taken is the k-th there is.                    *)
Rising(s) == \A j, k \in DOMAIN s : j < k => s[j] < s[k]
Members(s) == {s[k] : k \in DOMAIN s}

LEMMA NothingRises == Rising(<<>>) /\ Members(<<>>) = {} /\ Len(<<>>) = 0
BY DEF Rising, Members

LEMMA AppendRises ==
  ASSUME NEW s \in Seq(Int), Rising(s), NEW x \in Int, \A y \in Members(s) : y < x
  PROVE  /\ Rising(Append(s, x)) /\ Members(Append(s, x)) = Members(s) \cup {x}
         /\ Append(s, x) \in Seq(Int) /\ Len(Append(s, x)) = Len(s) + 1
<1> DEFINE r == Append(s, x)
<1>1. /\ r \in Seq(Int) /\ Len(r) = Len(s) + 1 /\ r[Len(s) + 1] = x
      /\ DOMAIN r = 1 .. Len(s) + 1 /\ DOMAIN s = 1 .. Len(s) /\ Len(s) \in Nat
      /\ \A k \in DOMAIN s : r[k] = s[k] /\ s[k] \in Int
  OBVIOUS
<1> HIDE DEF r
<1>2. ASSUME NEW j \in DOMAIN r, NEW k \in DOMAIN r, j < k PROVE r[j] < r[k]
  <2>1. j \in DOMAIN s /\ r[j] = s[j] /\ s[j] \in Members(s)
    BY <1>1, <1>2 DEF Members
  <2>2. CASE k \in DOMAIN s
    BY <1>1, <1>2, <2>1, <2>2 DEF Rising
  <2>3. CASE k = Len(s) + 1
    BY <1>1, <2>1, <2>3
  <2> QED BY <1>1, <2>2, <2>3
<1>3. Members(r) = Members(s) \cup {x}
  <2>1. Members(s) \cup {x} \subseteq Members(r)
    BY <1>1 DEF Members
  <2>2. Members(r) \subseteq Members(s) \cup {x}
    BY <1>1 DEF Members
  <2> QED BY <2>1, <2>2
<1> QED BY <1>1, <1>2, <1>3 DEF Rising, r

LEMMA RisingNumbers ==
  ASSUME NEW s \in Seq(Int), Rising(s), NEW k \in DOMAIN s
  PROVE  Cardinality({q \in Members(s) : q <= s[k]}) = k
<1> DEFINE upto == {q \in Members(s) : q <= s[k]}
           f == [j \in 1 .. k |-> s[j]]
<1>1. k \in Nat /\ 1 .. k \subseteq DOMAIN s /\ DOMAIN s \subseteq Nat /\ \A j \in DOMAIN s : s[j] \in Int
  OBVIOUS
<1>2. ASSUME NEW j \in DOMAIN s PROVE s[j] <= s[k] <=> j \in 1 .. k
  BY <1>1 DEF Rising
<1>3. f \in [1 .. k -> upto]
  BY <1>1, <1>2 DEF Members
<1>4. \A a, b \in 1 .. k : f[a] = f[b] => a = b
  <2>1. ASSUME NEW a \in 1 .. k, NEW b \in 1 .. k, f[a] = f[b] PROVE a = b
    <3>1. s[a] = s[b] /\ a \in DOMAIN s /\ b \in DOMAIN s /\ s[a] \in Int /\ s[b] \in Int
      BY <1>1, <2>1
    <3>2. ~(a < b) /\ ~(b < a)
      BY <3>1 DEF Rising
    <3> QED BY <3>2
  <2> QED BY <2>1
<1>5. \A t \in upto : \E j \in 1 .. k : f[j] = t
  BY <1>1, <1>2 DEF Members
<1> HIDE DEF upto, f
<1>6. f \in Bijection(1 .. k, upto)
  BY <1>3, <1>4, <1>5 DEF Bijection, Injection, IsInjective, Surjection
<1>7. ExistsBijection(1 .. k, upto)
  BY <1>6, Zenon DEF ExistsBijection
<1>8. Cardinality(upto) = k
  BY <1>1, <1>7, FS_CountingElements
<1> QED BY <1>8 DEF upto

LEMMA RisingCounts ==
  ASSUME NEW s \in Seq(Int), Rising(s)
  PROVE  IsFiniteSet(Members(s)) /\ Cardinality(Members(s)) = Len(s)
<1> DEFINE f == [j \in 1 .. Len(s) |-> s[j]]
<1>1. Len(s) \in Nat /\ 1 .. Len(s) = DOMAIN s /\ \A j \in DOMAIN s : s[j] \in Int
  OBVIOUS
<1>2. f \in [1 .. Len(s) -> Members(s)]
  BY <1>1 DEF Members
<1>3. \A a, b \in 1 .. Len(s) : f[a] = f[b] => a = b
  BY <1>1 DEF Rising
<1>4. \A t \in Members(s) : \E j \in 1 .. Len(s) : f[j] = t
  BY <1>1 DEF Members
<1> HIDE DEF f
<1>5. f \in Bijection(1 .. Len(s), Members(s))
  BY <1>2, <1>3, <1>4 DEF Bijection, Injection, IsInjective, Surjection
<1>6. ExistsBijection(1 .. Len(s), Members(s))
  BY <1>5, Zenon DEF ExistsBijection
<1> QED BY <1>1, <1>6, FS_CountingElements, FS_NatBijection

-----------------------------------------------------------------------------
Faces == {p \in DOMAIN W!Chain : W!IsFace(W!Chain[p])}
TakenFrom(s, all) ==
  s \in Seq(DOMAIN W!Chain) /\ Rising(s) /\ Members(s) = {p \in all : p < record}
Gathered ==
  /\ polyline \in W!PolylineType /\ record \in 1 .. Len(W!Chain) + 1
  /\ TakenFrom(positions, W!VertexRecords) /\ TakenFrom(faces, Faces)
  /\ stage \in {"gather", "draw", "done"}
  /\ stage = "gather" => drawn = 0 /\ side = 0 /\ edges = <<>> /\ skipped = 0
  /\ stage # "gather" => record = Len(W!Chain) + 1

LEMMA ChainIs ==
  ASSUME polyline \in W!PolylineType
  PROVE  /\ W!Chain \in Seq(W!RecordType) /\ DOMAIN W!Chain = 1 .. Len(W!Chain) /\ Len(W!Chain) \in Nat
         /\ \A p \in DOMAIN W!Chain : W!Chain[p] \in W!RecordType /\ p \in Int
<1>1. W!Chain \in Seq(W!RecordType)
  BY DEF W!PolylineType, W!Chain
<1> QED BY <1>1

LEMMA GatherBegins ==
  ASSUME W!Init
  PROVE  Gathered
<1>1. polyline \in W!PolylineType
  BY ConversionAssumption DEF W!Init
<1>2. record = 1 /\ positions = <<>> /\ faces = <<>> /\ drawn = 0 /\ side = 0 /\ edges = <<>> /\ skipped = 0
      /\ stage = "gather"
  BY DEF W!Init
<1>3. \A p \in DOMAIN W!Chain : ~(p < 1)
  BY <1>1, ChainIs
<1>4. {p \in W!VertexRecords : p < 1} = {} /\ {p \in Faces : p < 1} = {}
  BY <1>3 DEF W!VertexRecords, Faces
<1>5. <<>> \in Seq(DOMAIN W!Chain)
  OBVIOUS
<1>6. TakenFrom(positions, W!VertexRecords) /\ TakenFrom(faces, Faces)
  BY <1>2, <1>4, <1>5, NothingRises DEF TakenFrom
<1> QED BY <1>1, <1>2, <1>6, ChainIs DEF Gathered

(* A walk takes the record it is at, or passes it.                         *)
LEMMA TakeOne ==
  ASSUME polyline \in W!PolylineType, record \in 1 .. Len(W!Chain), NEW all \in SUBSET DOMAIN W!Chain,
         NEW s, TakenFrom(s, all), NEW r, r = IF record \in all THEN Append(s, record) ELSE s
  PROVE  r \in Seq(DOMAIN W!Chain) /\ Rising(r) /\ Members(r) = {p \in all : p < record + 1}
<1>1. /\ record \in Int /\ record \in DOMAIN W!Chain /\ \A p \in DOMAIN W!Chain : p \in Int
  BY ChainIs
<1>2. s \in Seq(DOMAIN W!Chain) /\ Rising(s) /\ Members(s) = {p \in all : p < record}
  BY DEF TakenFrom
<1>3. s \in Seq(Int)
  BY <1>1, <1>2
<1>4. \A p \in all : p < record + 1 <=> p < record \/ p = record
  BY <1>1
<1>5. CASE record \in all
  <2>1. \A y \in Members(s) : y < record
    BY <1>2
  <2>2. Rising(r) /\ Members(r) = Members(s) \cup {record}
    BY <1>1, <1>2, <1>3, <1>5, <2>1, AppendRises
  <2>3. r \in Seq(DOMAIN W!Chain)
    BY <1>1, <1>2, <1>5
  <2>4. Members(r) = {p \in all : p < record + 1}
    BY <1>2, <1>4, <1>5, <2>2
  <2> QED BY <2>2, <2>3, <2>4
<1>6. CASE record \notin all
  <2>1. r = s
    BY <1>6
  <2>2. {p \in all : p < record} = {p \in all : p < record + 1}
    BY <1>4, <1>6
  <2> QED BY <1>2, <2>1, <2>2
<1> QED BY <1>5, <1>6

LEMMA ChainStays ==
  ASSUME polyline' = polyline
  PROVE  /\ W!Chain' = W!Chain /\ W!VertexRecords' = W!VertexRecords /\ Faces' = Faces
         /\ W!SidesInUse' = W!SidesInUse
BY DEF W!Chain, W!VertexRecords, W!IsFace, Faces, W!SidesInUse, W!FaceSides, W!UsedSlots

LEMMA TakeRecordGathers ==
  ASSUME Gathered, W!TakeRecord
  PROVE  Gathered'
<1>1. /\ stage = "gather" /\ record <= Len(W!Chain) /\ record' = record + 1
      /\ positions' = IF W!IsVertexOf(polyline.kind, W!Chain[record]) THEN Append(positions, record) ELSE positions
      /\ faces' = IF W!IsFace(W!Chain[record]) THEN Append(faces, record) ELSE faces
      /\ polyline' = polyline /\ drawn' = drawn /\ side' = side /\ edges' = edges /\ skipped' = skipped
      /\ stage' = stage
  BY DEF W!TakeRecord
<1>2. polyline \in W!PolylineType /\ record \in 1 .. Len(W!Chain) + 1
  BY DEF Gathered
<1>3. record \in 1 .. Len(W!Chain) /\ record \in DOMAIN W!Chain
  BY <1>1, <1>2, ChainIs
<1>4. /\ record \in W!VertexRecords <=> W!IsVertexOf(polyline.kind, W!Chain[record])
      /\ record \in Faces <=> W!IsFace(W!Chain[record])
      /\ W!VertexRecords \in SUBSET DOMAIN W!Chain /\ Faces \in SUBSET DOMAIN W!Chain
  BY <1>3 DEF W!VertexRecords, Faces
<1>5. /\ positions' = IF record \in W!VertexRecords THEN Append(positions, record) ELSE positions
      /\ faces' = IF record \in Faces THEN Append(faces, record) ELSE faces
  BY <1>1, <1>4
<1>6. TakenFrom(positions, W!VertexRecords) /\ TakenFrom(faces, Faces)
  BY DEF Gathered
<1>7. /\ positions' \in Seq(DOMAIN W!Chain) /\ Rising(positions')
      /\ Members(positions') = {p \in W!VertexRecords : p < record + 1}
  BY <1>2, <1>3, <1>4, <1>5, <1>6, TakeOne
<1>8. faces' \in Seq(DOMAIN W!Chain) /\ Rising(faces') /\ Members(faces') = {p \in Faces : p < record + 1}
  BY <1>2, <1>3, <1>4, <1>5, <1>6, TakeOne
<1>9. record + 1 \in 1 .. Len(W!Chain) + 1
  BY <1>3
<1> QED BY <1>1, <1>2, <1>7, <1>8, <1>9, ChainStays DEF Gathered, TakenFrom, Members, Rising
-----------------------------------------------------------------------------
(* The slots in use of a face, in order, and the sides between them.       *)
LEMMA Remainders ==
  ASSUME NEW n \in Nat \ {0}
  PROVE  n % n = 0 /\ \A k \in 0 .. n - 1 : k % n = k
<1>1. n % n = 0
  BY SMT
<1>2. ASSUME NEW k \in 0 .. n - 1 PROVE k % n = k
  BY Z3
<1> QED BY <1>1, <1>2

LEMMA JoinSlot ==
  ASSUME NEW s \in Seq(Int), Rising(s), NEW n \in Int, \A y \in Members(s) : y < n, NEW c,
         NEW r, r = s \o (IF W!InUse(c[n]) THEN <<n>> ELSE <<>>)
  PROVE  r \in Seq(Int) /\ Rising(r) /\ Members(r) = Members(s) \cup (IF W!InUse(c[n]) THEN {n} ELSE {})
<1>1. CASE W!InUse(c[n])
  <2>1. r = Append(s, n)
    BY <1>1
  <2>2. Rising(r) /\ Members(r) = Members(s) \cup {n}
    BY <2>1, AppendRises
  <2>3. r \in Seq(Int)
    BY <2>1
  <2> QED BY <1>1, <2>2, <2>3
<1>2. CASE ~W!InUse(c[n])
  <2>1. r = s
    BY <1>2
  <2> QED BY <1>2, <2>1
<1> QED BY <1>1, <1>2

LEMMA SlotsAre ==
  ASSUME NEW c \in [1 .. 4 -> Int]
  PROVE  /\ W!Slots(c) \in Seq(1 .. 4) /\ Rising(W!Slots(c))
         /\ Members(W!Slots(c)) = {n \in 1 .. 4 : c[n] # 0}
<1> DEFINE Kept(n) == IF W!InUse(c[n]) THEN <<n>> ELSE <<>>
           One == IF W!InUse(c[1]) THEN {1} ELSE {}
           Two == IF W!InUse(c[2]) THEN {2} ELSE {}
           Three == IF W!InUse(c[3]) THEN {3} ELSE {}
           Four == IF W!InUse(c[4]) THEN {4} ELSE {}
<1>1. PICK s1 : s1 = <<>> \o Kept(1)
  OBVIOUS
<1>2. s1 \in Seq(Int) /\ Rising(s1) /\ Members(s1) = One
  <2>1. s1 = <<>> \o (IF W!InUse(c[1]) THEN <<1>> ELSE <<>>)
    BY <1>1
  <2>2. <<>> \in Seq(Int) /\ Rising(<<>>) /\ Members(<<>>) = {}
    BY NothingRises
  <2>3. \A y \in {} : y < 1
    OBVIOUS
  <2>4. s1 \in Seq(Int) /\ Rising(s1) /\ Members(s1) = Members(<<>>) \cup One
    <3>1. 1 \in Int /\ \A y \in Members(<<>>) : y < 1
      BY <2>2
    <3> QED BY <2>1, <2>2, <3>1, JoinSlot, Zenon
  <2> QED BY <2>2, <2>4
<1>3. PICK s2 : s2 = s1 \o Kept(2)
  OBVIOUS
<1>4. s2 \in Seq(Int) /\ Rising(s2) /\ Members(s2) = One \cup Two
  <2>1. s2 = s1 \o (IF W!InUse(c[2]) THEN <<2>> ELSE <<>>)
    BY <1>3
  <2>2. (\A y \in One : y < 2)
    OBVIOUS
  <2> HIDE DEF One
  <2>3. s2 \in Seq(Int) /\ Rising(s2) /\ Members(s2) = Members(s1) \cup Two
    <3>1. 2 \in Int /\ \A y \in Members(s1) : y < 2
      BY <1>2, <2>2
    <3> QED BY <1>2, <2>1, <3>1, JoinSlot, Zenon
  <2> QED BY <1>2, <2>3
<1>5. PICK s3 : s3 = s2 \o Kept(3)
  OBVIOUS
<1>6. s3 \in Seq(Int) /\ Rising(s3) /\ Members(s3) = One \cup Two \cup Three
  <2>1. s3 = s2 \o (IF W!InUse(c[3]) THEN <<3>> ELSE <<>>)
    BY <1>5
  <2>2. (\A y \in One \cup Two : y < 3)
    OBVIOUS
  <2> HIDE DEF One, Two
  <2>3. s3 \in Seq(Int) /\ Rising(s3) /\ Members(s3) = Members(s2) \cup Three
    <3>1. 3 \in Int /\ \A y \in Members(s2) : y < 3
      BY <1>4, <2>2
    <3> QED BY <1>4, <2>1, <3>1, JoinSlot, Zenon
  <2> QED BY <1>4, <2>3
<1>7. PICK s4 : s4 = s3 \o Kept(4)
  OBVIOUS
<1>8. s4 \in Seq(Int) /\ Rising(s4) /\ Members(s4) = One \cup Two \cup Three \cup Four
  <2>1. s4 = s3 \o (IF W!InUse(c[4]) THEN <<4>> ELSE <<>>)
    BY <1>7
  <2>2. (\A y \in One \cup Two \cup Three : y < 4)
    OBVIOUS
  <2> HIDE DEF One, Two, Three
  <2>3. s4 \in Seq(Int) /\ Rising(s4) /\ Members(s4) = Members(s3) \cup Four
    <3>1. 4 \in Int /\ \A y \in Members(s3) : y < 4
      BY <1>6, <2>2
    <3> QED BY <1>6, <2>1, <3>1, JoinSlot, Zenon
  <2> QED BY <1>6, <2>3
<1>9. W!Slots(c) = s4
  <2>1. <<>> \o Kept(1) = Kept(1)
    OBVIOUS
  <2> HIDE DEF Kept
  <2>2. Kept(1) \o Kept(2) \o Kept(3) \o Kept(4) = s4
    BY <1>1, <1>3, <1>5, <1>7, <2>1, Zenon
  <2> QED BY <2>2, Zenon DEF W!Slots, Kept
<1>10. One \cup Two \cup Three \cup Four = {n \in 1 .. 4 : c[n] # 0}
  BY DEF W!InUse
<1>11. \A k \in DOMAIN s4 : s4[k] \in 1 .. 4
  BY <1>8, <1>10 DEF Members
<1>12. s4 \in Seq(1 .. 4)
  <2>1. s4 \in [1 .. Len(s4) -> 1 .. 4] /\ Len(s4) \in Nat
    BY <1>8, <1>11
  <2> QED BY <2>1
<1> QED BY <1>8, <1>9, <1>10, <1>12

LEMMA NextSlotIs ==
  ASSUME NEW s \in Seq(1 .. 4), Rising(s), NEW k \in DOMAIN s, NEW j \in DOMAIN s
  PROVE  /\ (k % Len(s)) + 1 = (IF k = Len(s) THEN 1 ELSE k + 1) /\ (k % Len(s)) + 1 \in DOMAIN s
         /\ (s[k] # s[j] /\ W!Between(s[k], s[j]) \cap Members(s) = {})
              <=> (Len(s) >= 2 /\ j = (k % Len(s)) + 1)
<1>1. /\ Len(s) \in Nat /\ DOMAIN s = 1 .. Len(s) /\ k \in 1 .. Len(s) /\ j \in 1 .. Len(s)
      /\ \A m \in 1 .. Len(s) : s[m] \in 1 .. 4 /\ s[m] \in Int /\ s[m] \in Members(s)
  BY DEF Members
<1>2. \A m, n \in 1 .. Len(s) : m < n => s[m] < s[n]
  BY <1>1 DEF Rising
<1>3. (k % Len(s)) + 1 = IF k = Len(s) THEN 1 ELSE k + 1
  <2>1. Len(s) \in Nat \ {0} /\ (k = Len(s) \/ k \in 0 .. Len(s) - 1)
    BY <1>1
  <2>2. k % Len(s) = IF k = Len(s) THEN 0 ELSE k
    BY <2>1, Remainders
  <2> QED BY <1>1, <2>2
<1>4. (k % Len(s)) + 1 \in DOMAIN s
  BY <1>1, <1>3
<1> DEFINE after == IF k = Len(s) THEN 1 ELSE k + 1
<1>5. ASSUME s[k] # s[j], W!Between(s[k], s[j]) \cap Members(s) = {}
      PROVE  Len(s) >= 2 /\ j = after
  <2>1. \A m \in 1 .. Len(s) : s[m] \notin W!Between(s[k], s[j])
    BY <1>1, <1>5
  <2>2. k # j /\ Len(s) >= 2
    BY <1>1, <1>5
  <2>3. CASE k = Len(s)
    <3>1. j < k /\ s[j] < s[k]
      BY <1>1, <1>2, <2>2, <2>3
    <3>2. ASSUME 1 < j PROVE FALSE
      <4>1. s[1] < s[j] /\ s[1] \in 1 .. 4
        BY <1>1, <1>2, <2>2, <3>2
      <4>2. s[1] \in W!Between(s[k], s[j])
        BY <1>1, <3>1, <4>1 DEF W!Between
      <4> QED BY <1>1, <2>1, <2>2, <4>2
    <3> QED BY <1>1, <2>2, <2>3, <3>2
  <2>4. CASE k < Len(s)
    <3>1. k + 1 \in 1 .. Len(s) /\ s[k] < s[k + 1] /\ s[k + 1] \in 1 .. 4
      BY <1>1, <1>2, <2>4
    <3>2. CASE j < k
      <4>1. s[j] < s[k]
        BY <1>1, <1>2, <3>2
      <4>2. s[k + 1] \in W!Between(s[k], s[j])
        BY <1>1, <3>1, <4>1 DEF W!Between
      <4> QED BY <2>1, <3>1, <4>2
    <3>3. CASE k + 1 < j
      <4>1. s[k + 1] < s[j] /\ s[k] < s[j]
        BY <1>1, <1>2, <3>1, <3>3
      <4>2. s[k + 1] \in W!Between(s[k], s[j])
        BY <1>1, <3>1, <4>1 DEF W!Between
      <4> QED BY <2>1, <3>1, <4>2
    <3> QED BY <1>1, <2>2, <2>4, <3>2, <3>3
  <2> QED BY <1>1, <2>2, <2>3, <2>4
<1>6. ASSUME Len(s) >= 2, j = after
      PROVE  s[k] # s[j] /\ W!Between(s[k], s[j]) \cap Members(s) = {}
  <2>1. CASE k = Len(s)
    <3>1. j = 1 /\ s[j] < s[k]
      BY <1>1, <1>2, <1>6, <2>1
    <3>2. \A m \in 1 .. Len(s) : ~(s[m] < s[j]) /\ ~(s[k] < s[m])
      <4>1. ASSUME NEW m \in 1 .. Len(s) PROVE ~(s[m] < s[j]) /\ ~(s[k] < s[m])
        <5>1. (m = j \/ j < m) /\ (m = k \/ m < k)
          <6>1. m \in Nat /\ Len(s) \in Nat /\ 1 <= m /\ m <= Len(s) /\ j = 1 /\ k = Len(s)
            BY <1>1, <2>1, <3>1
          <6> QED BY <6>1
        <5>2. (j < m => s[j] < s[m]) /\ (m < k => s[m] < s[k])
          BY <1>1, <1>2
        <5> QED BY <1>1, <5>1, <5>2
      <4> QED BY <4>1
    <3>3. \A m \in 1 .. Len(s) : s[m] \notin W!Between(s[k], s[j])
      BY <1>1, <3>1, <3>2 DEF W!Between
    <3> QED BY <1>1, <3>1, <3>3 DEF Members
  <2>2. CASE k < Len(s)
    <3>1. j = k + 1 /\ s[k] < s[j]
      BY <1>1, <1>2, <1>6, <2>2
    <3>2. \A m \in 1 .. Len(s) : ~(s[k] < s[m] /\ s[m] < s[j])
      <4>1. ASSUME NEW m \in 1 .. Len(s) PROVE ~(s[k] < s[m] /\ s[m] < s[j])
        <5>1. m = k \/ s[m] < s[k] \/ m = j \/ s[j] < s[m]
          BY <1>1, <1>2, <3>1
        <5> QED BY <1>1, <5>1
      <4> QED BY <4>1
    <3>3. \A m \in 1 .. Len(s) : s[m] \notin W!Between(s[k], s[j])
      BY <1>1, <3>1, <3>2 DEF W!Between
    <3> QED BY <1>1, <3>1, <3>3 DEF Members
  <2> QED BY <1>1, <2>1, <2>2
<1> QED BY <1>3, <1>4, <1>5, <1>6

Used(p) == W!Slots(W!Chain[p].corners)
CornersOf(p) == W!Corners(W!Chain[p].corners)
SideAt(p, k) == <<p, Used(p)[k], Used(p)[(k % Len(Used(p))) + 1]>>
Sides(p) == 1 .. W!SideCount(CornersOf(p))

LEMMA FaceIs ==
  ASSUME polyline \in W!PolylineType, NEW p \in Faces
  PROVE  /\ Used(p) \in Seq(1 .. 4) /\ Rising(Used(p)) /\ Members(Used(p)) = W!UsedSlots(p)
         /\ Len(Used(p)) \in 0 .. 4 /\ DOMAIN CornersOf(p) = DOMAIN Used(p) /\ Len(CornersOf(p)) = Len(Used(p))
         /\ \A k \in DOMAIN Used(p) : CornersOf(p)[k] = W!Abs(W!Chain[p].corners[Used(p)[k]])
         /\ W!SideCount(CornersOf(p)) = (IF Len(Used(p)) < 2 THEN 0 ELSE Len(Used(p)))
<1>1. p \in DOMAIN W!Chain /\ W!Chain[p] \in W!RecordType
  BY ChainIs DEF Faces
<1>2. W!Chain[p].corners \in [1 .. 4 -> Int]
  BY <1>1 DEF W!RecordType
<1>3. Used(p) \in Seq(1 .. 4) /\ Rising(Used(p)) /\ Members(Used(p)) = W!UsedSlots(p)
  BY <1>2, SlotsAre DEF Used, W!UsedSlots
<1>4. CornersOf(p) = [k \in DOMAIN Used(p) |-> W!Abs(W!Chain[p].corners[Used(p)[k]])]
  BY DEF CornersOf, Used, W!Corners
<1>5. Len(Used(p)) \in Nat /\ DOMAIN Used(p) = 1 .. Len(Used(p))
  BY <1>3
<1>6. Len(CornersOf(p)) = Len(Used(p)) /\ DOMAIN CornersOf(p) = DOMAIN Used(p)
  BY <1>4, <1>5
<1>7. Len(Used(p)) <= 4
  <2> SUFFICES ASSUME Len(Used(p)) > 4 PROVE FALSE
    BY <1>5
  <2>1. \A k \in 1 .. 5 : Used(p)[k] \in 1 .. 4 /\ k \in DOMAIN Used(p)
    BY <1>3, <1>5
  <2>2. /\ Used(p)[1] < Used(p)[2] /\ Used(p)[2] < Used(p)[3] /\ Used(p)[3] < Used(p)[4]
        /\ Used(p)[4] < Used(p)[5]
    BY <1>3, <2>1 DEF Rising
  <2> QED BY <2>1, <2>2
<1> QED BY <1>3, <1>4, <1>5, <1>6, <1>7 DEF W!SideCount

LEMMA SidesOfFace ==
  ASSUME polyline \in W!PolylineType, NEW x
  PROVE  x \in W!SidesInUse <=> \E p \in Faces : \E k \in Sides(p) : x = SideAt(p, k)
<1>1. x \in W!FaceSides <=> \E p \in Faces : \E a \in W!UsedSlots(p) : \E b \in W!UsedSlots(p) : x = <<p, a, b>>
  BY DEF W!FaceSides, Faces
<1>2. ASSUME NEW p \in Faces, NEW a \in W!UsedSlots(p), NEW b \in W!UsedSlots(p), x = <<p, a, b>>,
             x \in W!SidesInUse
      PROVE  \E k \in Sides(p) : x = SideAt(p, k)
  <2>1. a # b /\ W!Between(a, b) \cap W!UsedSlots(p) = {}
    BY <1>2 DEF W!SidesInUse
  <2>2. PICK k \in DOMAIN Used(p) : a = Used(p)[k]
    BY <1>2, FaceIs DEF Members
  <2>3. PICK j \in DOMAIN Used(p) : b = Used(p)[j]
    BY <1>2, FaceIs DEF Members
  <2>4. Len(Used(p)) >= 2 /\ j = (k % Len(Used(p))) + 1
    BY <2>1, <2>2, <2>3, FaceIs, NextSlotIs
  <2>5. k \in Sides(p)
    BY <2>2, <2>4, FaceIs DEF Sides
  <2>6. x = SideAt(p, k)
    BY <1>2, <2>2, <2>3, <2>4 DEF SideAt
  <2> QED BY <2>5, <2>6
<1>3. ASSUME NEW p \in Faces, NEW k \in Sides(p), x = SideAt(p, k)
      PROVE  x \in W!SidesInUse
  <2>1. Len(Used(p)) >= 2 /\ k \in DOMAIN Used(p) /\ Used(p) \in Seq(1 .. 4) /\ Rising(Used(p))
    BY <1>3, FaceIs DEF Sides
  <2>2. PICK j : j = (k % Len(Used(p))) + 1
    OBVIOUS
  <2>3. j \in DOMAIN Used(p)
    BY <2>1, <2>2, NextSlotIs
  <2>4. Used(p)[k] # Used(p)[j] /\ W!Between(Used(p)[k], Used(p)[j]) \cap Members(Used(p)) = {}
    BY <2>1, <2>2, <2>3, NextSlotIs
  <2>5. Used(p)[k] \in W!UsedSlots(p) /\ Used(p)[j] \in W!UsedSlots(p) /\ Members(Used(p)) = W!UsedSlots(p)
    BY <2>1, <2>3, FaceIs DEF Members
  <2>6. x = <<p, Used(p)[k], Used(p)[j]>>
    BY <1>3, <2>2 DEF SideAt
  <2>7. x \in W!FaceSides /\ x[1] = p /\ x[2] = Used(p)[k] /\ x[3] = Used(p)[j]
    BY <1>1, <2>5, <2>6
  <2> QED BY <2>4, <2>5, <2>7 DEF W!SidesInUse
<1>4. x \in W!SidesInUse => x \in W!FaceSides
  BY DEF W!SidesInUse
<1> QED BY <1>1, <1>2, <1>3, <1>4
-----------------------------------------------------------------------------
(* Counting in the module of the wireframes is counting here.              *)
LEMMA CountsAre ==
  /\ \A s : W!Cardinality(s) = Cardinality(s)
  /\ \A p : W!NumberOf(p) = Cardinality({q \in W!VertexRecords : q <= p})
  /\ \A e : W!Times(e) = Cardinality({k \in DOMAIN edges : edges[k] = e})
<1>1. \A s : W!Cardinality(s) = Cardinality(s)
  BY Zenon DEF W!Cardinality, Cardinality
<1>2. \A p : W!NumberOf(p) = Cardinality({q \in W!VertexRecords : q <= p})
  BY <1>1, Zenon DEF W!NumberOf
<1>3. \A e : W!Times(e) = Cardinality({k \in DOMAIN edges : edges[k] = e})
  BY <1>1, Zenon DEF W!Times
<1> QED BY <1>1, <1>2, <1>3

LEMMA TimesThen ==
  \A e : W!Times(e)' = Cardinality({k \in DOMAIN edges' : edges'[k] = e})
<1>1. \A s : W!Cardinality(s) = Cardinality(s)
  BY CountsAre
<1> QED BY <1>1, Zenon DEF W!Times

(* A vertex has the number of its place among those taken, and so every    *)
(* corner names the vertex whose position was taken for it.                *)
LEMMA NumbersAre ==
  ASSUME Gathered, stage # "gather"
  PROVE  /\ Members(positions) = W!VertexRecords /\ Members(faces) = Faces
         /\ Cardinality(W!VertexRecords) = Len(positions)
         /\ \A n : W!IsNumbered(n) <=> n \in DOMAIN positions
         /\ \A n \in DOMAIN positions : W!Numbered(n) = positions[n]
<1>1. /\ polyline \in W!PolylineType /\ TakenFrom(positions, W!VertexRecords) /\ TakenFrom(faces, Faces)
      /\ record = Len(W!Chain) + 1
  BY DEF Gathered
<1>2. \A p \in DOMAIN W!Chain : p < Len(W!Chain) + 1 /\ p \in Int
  BY <1>1, ChainIs
<1>3. Members(positions) = W!VertexRecords /\ Members(faces) = Faces
  BY <1>1, <1>2 DEF TakenFrom, W!VertexRecords, Faces
<1>4. positions \in Seq(Int) /\ Rising(positions)
  BY <1>1, <1>2 DEF TakenFrom
<1>5. ASSUME NEW k \in DOMAIN positions
      PROVE  positions[k] \in W!VertexRecords /\ W!NumberOf(positions[k]) = k
  <2>1. Cardinality({q \in Members(positions) : q <= positions[k]}) = k
    BY <1>4, <1>5, RisingNumbers
  <2>2. positions[k] \in Members(positions)
    BY <1>5 DEF Members
  <2>3. {q \in Members(positions) : q <= positions[k]} = {q \in W!VertexRecords : q <= positions[k]}
    BY <1>3
  <2>4. W!NumberOf(positions[k]) = Cardinality({q \in W!VertexRecords : q <= positions[k]})
    BY CountsAre, Zenon
  <2>5. Cardinality({q \in W!VertexRecords : q <= positions[k]}) = k
    BY <2>1, <2>3, Zenon
  <2> QED BY <1>3, <2>2, <2>4, <2>5
<1>6. \A p \in W!VertexRecords : \E k \in DOMAIN positions : p = positions[k]
  BY <1>3 DEF Members
<1>7. \A n : W!IsNumbered(n) <=> n \in DOMAIN positions
  BY <1>5, <1>6 DEF W!IsNumbered
<1>8. ASSUME NEW n \in DOMAIN positions PROVE W!Numbered(n) = positions[n]
  <2>1. \A p \in W!VertexRecords : W!NumberOf(p) = n <=> p = positions[n]
    BY <1>5, <1>6, <1>8
  <2>2. positions[n] \in W!VertexRecords
    BY <1>5, <1>8
  <2> QED BY <2>1, <2>2 DEF W!Numbered
<1> QED BY <1>3, <1>4, <1>7, <1>8, RisingCounts

(* The sides done, those of them that are edges, and those passed over.    *)
DrawnSides ==
  {x \in W!SidesInUse :
     \E f \in DOMAIN faces : \E k \in Sides(faces[f]) :
       x = SideAt(faces[f], k) /\ (f <= drawn \/ (f = drawn + 1 /\ k <= side))}
DrawnAs(e) == {x \in DrawnSides : W!Drawable(x) /\ W!SideEdge(x) = e}
PassedOver == {x \in DrawnSides : ~W!Drawable(x)}

DrawnTyped ==
  /\ edges \in Seq((DOMAIN W!Chain) \X (DOMAIN W!Chain)) /\ skipped \in Nat
  /\ drawn \in 0 .. Len(faces) /\ side \in Nat
  /\ drawn < Len(faces) => side <= W!SideCount(CornersOf(faces[drawn + 1]))
  /\ drawn = Len(faces) => side = 0
DrawnAre ==
  /\ IsFiniteSet(DrawnSides) /\ skipped = Cardinality(PassedOver)
  /\ \A e : W!Times(e) = Cardinality(DrawnAs(e))
  /\ stage = "done" => drawn = Len(faces)
GridIs ==
  /\ stage # "done" => edges = <<>>
  /\ stage = "done" => IF W!IsGrid THEN edges = W!DownEdges \o W!AcrossEdges /\ skipped = 0
                       ELSE edges = <<>> /\ skipped = W!EdgeCount
WireInv ==
  /\ Gathered /\ DrawnTyped
  /\ polyline.kind = "pface" => DrawnAre
  /\ polyline.kind = "mesh" => GridIs

Appears(s, e) == Cardinality({k \in DOMAIN s : s[k] = e})

LEMMA TimesMore ==
  \A X : \A s \in Seq(X) : \A v, e :
    /\ v = e => Appears(Append(s, v), e) = Appears(s, e) + 1
    /\ v # e => Appears(Append(s, v), e) = Appears(s, e)
<1> TAKE X
<1> TAKE s \in Seq(X)
<1> TAKE v, e
<1> DEFINE r == Append(s, v)
           old == {k \in DOMAIN s : s[k] = e}
           new == {k \in DOMAIN r : r[k] = e}
<1>1. /\ Len(s) \in Nat /\ DOMAIN s = 1 .. Len(s) /\ DOMAIN r = 1 .. Len(s) + 1
      /\ r[Len(s) + 1] = v /\ \A k \in DOMAIN s : r[k] = s[k]
  OBVIOUS
<1>2. IsFiniteSet(1 .. Len(s)) /\ old \in SUBSET (1 .. Len(s))
  BY <1>1, FS_Interval
<1>3. IsFiniteSet(old)
  BY <1>2, FS_Subset
<1>4. Len(s) + 1 \notin old
  BY <1>1
<1>5. new = IF v = e THEN old \cup {Len(s) + 1} ELSE old
  BY <1>1
<1> HIDE DEF r, old, new
<1>6. ASSUME v = e PROVE Cardinality(new) = Cardinality(old) + 1
  <2>1. Cardinality(old \cup {Len(s) + 1}) = Cardinality(old) + 1
    BY <1>3, <1>4, FS_AddElement
  <2>2. new = old \cup {Len(s) + 1}
    BY <1>5, <1>6
  <2> QED BY <1>6, <2>1, <2>2
<1>7. ASSUME v # e PROVE Cardinality(new) = Cardinality(old)
  BY <1>5, <1>7
<1> QED BY <1>6, <1>7 DEF r, old, new, Appears

LEMMA EndsStay ==
  ASSUME polyline' = polyline
  PROVE  \A x : (W!Drawable(x)' <=> W!Drawable(x)) /\ W!SideEdge(x)' = W!SideEdge(x)
<1>1. W!Chain' = W!Chain /\ W!VertexRecords' = W!VertexRecords
  BY ChainStays
<1>2. \A n : W!NumberOf(n)' = W!NumberOf(n)
  BY <1>1 DEF W!NumberOf
<1>3. \A n : (W!IsNumbered(n)' <=> W!IsNumbered(n)) /\ W!Numbered(n)' = W!Numbered(n)
  BY <1>1, <1>2 DEF W!IsNumbered, W!Numbered
<1>4. \A x, k : W!End(x, k)' = W!End(x, k)
  BY <1>1 DEF W!End
<1> QED BY <1>3, <1>4 DEF W!Drawable, W!SideEdge

LEMMA SlotsStay ==
  ASSUME polyline' = polyline
  PROVE  \A p : SideAt(p, 1)' = SideAt(p, 1) /\ Sides(p)' = Sides(p) /\ CornersOf(p)' = CornersOf(p)
                /\ Used(p)' = Used(p)
BY ChainStays DEF SideAt, Sides, CornersOf, Used

LEMMA NothingIsCounted ==
  /\ IsFiniteSet({}) /\ Cardinality({}) = 0
  /\ \A s, e : s = <<>> => Cardinality({k \in DOMAIN s : s[k] = e}) = 0
<1>1. \A s, e : s = <<>> => {k \in DOMAIN s : s[k] = e} = {}
  OBVIOUS
<1>2. IsFiniteSet({}) /\ Cardinality({}) = 0
  BY FS_EmptySet
<1> QED BY <1>1, <1>2

LEMMA SidesThen ==
  ASSUME polyline' = polyline
  PROVE  DrawnSides' =
           {x \in W!SidesInUse :
              \E f \in DOMAIN faces' : \E k \in Sides(faces'[f]) :
                x = SideAt(faces'[f], k) /\ (f <= drawn' \/ (f = drawn' + 1 /\ k <= side'))}
BY ChainStays DEF DrawnSides, Sides, SideAt, Used, CornersOf

LEMMA NothingIsDrawn ==
  ASSUME NEW s \in Seq(DOMAIN W!Chain)
  PROVE  \A f \in DOMAIN s : \A k \in Sides(s[f]) : ~(f <= 0 \/ (f = 0 + 1 /\ k <= 0))
<1>1. \A f \in DOMAIN s : f \in Nat /\ f >= 1
  OBVIOUS
<1>2. \A p : \A k \in Sides(p) : k \in Int /\ k >= 1
  BY DEF Sides
<1> QED BY <1>1, <1>2

LEMMA WireBegins ==
  ASSUME W!Init
  PROVE  WireInv
<1>1. Gathered
  BY GatherBegins
<1>2. drawn = 0 /\ side = 0 /\ edges = <<>> /\ skipped = 0 /\ stage = "gather"
  BY DEF W!Init
<1>3. positions = <<>> /\ faces = <<>>
  BY DEF W!Init
<1>4. faces \in Seq(DOMAIN W!Chain) /\ polyline \in W!PolylineType
  BY <1>1 DEF Gathered, TakenFrom
<1>5. DrawnTyped
  <2>1. edges \in Seq((DOMAIN W!Chain) \X (DOMAIN W!Chain)) /\ Len(faces) = 0
    BY <1>2, <1>3
  <2> QED BY <1>2, <2>1 DEF DrawnTyped
<1>6. DrawnAre
  <2>1. DrawnSides = {}
    BY <1>2, <1>4, NothingIsDrawn DEF DrawnSides
  <2>2. PassedOver = {} /\ \A e : DrawnAs(e) = {}
    BY <2>1 DEF PassedOver, DrawnAs
  <2>3. \A e : W!Times(e) = 0
    <3>1. \A e : edges = <<>> => Cardinality({k \in DOMAIN edges : edges[k] = e}) = 0
      BY NothingIsCounted, Zenon
    <3> QED BY <1>2, <3>1, CountsAre
  <2>4. stage # "done"
    BY <1>2
  <2> QED BY <1>2, <2>1, <2>2, <2>3, <2>4, NothingIsCounted DEF DrawnAre
<1> QED BY <1>1, <1>2, <1>5, <1>6 DEF WireInv, GridIs

LEMMA FacesTaken ==
  ASSUME Gathered
  PROVE  /\ polyline \in W!PolylineType /\ Len(faces) \in Nat /\ DOMAIN faces = 1 .. Len(faces)
         /\ \A f \in DOMAIN faces : faces[f] \in Faces /\ faces[f] \in Int
         /\ \A f, g \in DOMAIN faces : faces[f] = faces[g] => f = g
<1>1. /\ polyline \in W!PolylineType /\ faces \in Seq(DOMAIN W!Chain) /\ Rising(faces)
      /\ Members(faces) = {p \in Faces : p < record}
  BY DEF Gathered, TakenFrom
<1>2. \A f \in DOMAIN faces : faces[f] \in Faces /\ faces[f] \in Int
  BY <1>1, ChainIs DEF Members
<1>3. ASSUME NEW f \in DOMAIN faces, NEW g \in DOMAIN faces, faces[f] = faces[g] PROVE f = g
  <2>1. ~(f < g) /\ ~(g < f) /\ f \in Nat /\ g \in Nat
    BY <1>1, <1>2, <1>3 DEF Rising
  <2> QED BY <2>1
<1> QED BY <1>1, <1>2, <1>3

LEMMA TakeRecordKeepsWires ==
  ASSUME WireInv, W!TakeRecord
  PROVE  WireInv'
<1>1. Gathered'
  BY TakeRecordGathers DEF WireInv
<1>2. /\ stage = "gather" /\ stage' = stage /\ polyline' = polyline /\ drawn' = drawn /\ side' = side
      /\ edges' = edges /\ skipped' = skipped
  BY DEF W!TakeRecord
<1>3. drawn = 0 /\ side = 0 /\ edges = <<>> /\ skipped = 0
  BY <1>2 DEF WireInv, Gathered
<1>4. /\ polyline \in W!PolylineType /\ faces' \in Seq(DOMAIN W!Chain) /\ Len(faces') \in Nat
      /\ W!Chain' = W!Chain
  BY <1>1, <1>2, ChainStays DEF Gathered, TakenFrom
<1>5. DrawnTyped'
  <2>1. edges' \in Seq((DOMAIN W!Chain) \X (DOMAIN W!Chain))
    BY <1>2, <1>3
  <2>2. ASSUME 0 < Len(faces') PROVE 0 <= W!SideCount(CornersOf(faces'[1]))
    <3>1. faces'[1] \in Faces
      BY <1>1, <1>2, <1>4, <2>2, ChainStays DEF Gathered, TakenFrom, Members
    <3> QED BY <1>4, <3>1, FaceIs
  <2>3. \A p : CornersOf(p)' = CornersOf(p)
    BY <1>2, SlotsStay
  <2> QED BY <1>2, <1>3, <1>4, <2>1, <2>2, <2>3 DEF DrawnTyped
<1>6. DrawnAre'
  <2>1. DrawnSides' = {}
    <3>1. \A f \in DOMAIN faces' : \A k \in Sides(faces'[f]) : ~(f <= drawn' \/ (f = drawn' + 1 /\ k <= side'))
      BY <1>2, <1>3, <1>4, NothingIsDrawn
    <3> QED BY <1>2, <3>1, SidesThen
  <2>2. PassedOver' = {} /\ \A e : DrawnAs(e)' = {}
    BY <2>1 DEF PassedOver, DrawnAs
  <2>3. \A e : W!Times(e)' = 0
    <3>1. edges' = <<>>
      BY <1>2, <1>3
    <3>2. \A e : edges' = <<>> => Cardinality({k \in DOMAIN edges' : edges'[k] = e}) = 0
      BY NothingIsCounted, Zenon
    <3> QED BY <3>1, <3>2, TimesThen
  <2>4. stage' # "done"
    BY <1>2
  <2> QED BY <1>2, <1>3, <2>1, <2>2, <2>3, <2>4, NothingIsCounted DEF DrawnAre
<1> QED BY <1>1, <1>2, <1>3, <1>5, <1>6 DEF WireInv, GridIs
(* The corners of a side are the corners its edge joins.                   *)
LEMMA SideIs ==
  ASSUME Gathered, stage # "gather", NEW p \in Faces, NEW k \in Sides(p), NEW x, x = SideAt(p, k),
         NEW ends, ends = W!Side(CornersOf(p), k)
  PROVE  /\ W!CanDraw(ends) <=> W!Drawable(x)
         /\ W!CanDraw(ends) => /\ W!Joined(ends) = W!SideEdge(x)
                               /\ W!Joined(ends) \in (DOMAIN W!Chain) \X (DOMAIN W!Chain)
<1>1. /\ Len(Used(p)) = Len(CornersOf(p)) /\ DOMAIN CornersOf(p) = DOMAIN Used(p) /\ k \in DOMAIN Used(p)
      /\ Used(p) \in Seq(1 .. 4) /\ Rising(Used(p)) /\ polyline \in W!PolylineType
      /\ \A n \in DOMAIN Used(p) : CornersOf(p)[n] = W!Abs(W!Chain[p].corners[Used(p)[n]])
  BY FaceIs DEF Gathered, Sides
<1>2. PICK j : j = (k % Len(Used(p))) + 1
  OBVIOUS
<1>3. j \in DOMAIN Used(p)
  BY <1>1, <1>2, NextSlotIs
<1>4. x[1] = p /\ x[2] = Used(p)[k] /\ x[3] = Used(p)[j]
  BY <1>2 DEF SideAt
<1>5. ends = <<CornersOf(p)[k], CornersOf(p)[j]>>
  BY <1>1, <1>2 DEF W!Side
<1>6. ends[1] = W!End(x, 2) /\ ends[2] = W!End(x, 3)
  BY <1>1, <1>3, <1>4, <1>5 DEF W!End
<1>7. /\ \A n : W!IsNumbered(n) <=> n \in DOMAIN positions
      /\ \A n \in DOMAIN positions : W!Numbered(n) = positions[n]
  BY NumbersAre
<1>8. W!CanDraw(ends) <=> W!Drawable(x)
  BY <1>6, <1>7 DEF W!CanDraw, W!Known, W!Drawable
<1>9. ASSUME W!CanDraw(ends)
      PROVE  /\ W!Joined(ends) = W!SideEdge(x)
             /\ W!Joined(ends) \in (DOMAIN W!Chain) \X (DOMAIN W!Chain)
  <2>1. ends[1] \in DOMAIN positions /\ ends[2] \in DOMAIN positions
    BY <1>9 DEF W!CanDraw, W!Known
  <2>2. \A n \in DOMAIN positions : positions[n] \in DOMAIN W!Chain
    BY DEF Gathered, TakenFrom
  <2> QED BY <1>6, <1>7, <2>1, <2>2 DEF W!Joined, W!SideEdge
<1> QED BY <1>8, <1>9

(* One side more is done.                                                  *)
LEMMA OneSideMore ==
  ASSUME Gathered, drawn \in 0 .. Len(faces), drawn < Len(faces), side \in Nat, NEW p, p = faces[drawn + 1],
         side + 1 \in Sides(p), NEW x, x = SideAt(p, side + 1),
         polyline' = polyline, faces' = faces, drawn' = drawn, side' = side + 1
  PROVE  x \notin DrawnSides /\ DrawnSides' = DrawnSides \cup {x}
<1>1. /\ Len(faces) \in Nat /\ DOMAIN faces = 1 .. Len(faces) /\ drawn + 1 \in DOMAIN faces
      /\ \A f, g \in DOMAIN faces : faces[f] = faces[g] => f = g
      /\ \A f \in DOMAIN faces : faces[f] \in Faces /\ f \in Nat
      /\ polyline \in W!PolylineType
  BY FacesTaken
<1>2. \A q : \A k \in Sides(q) : k \in Int
  BY DEF Sides
<1>3. \A q \in Faces : \A k, j \in Sides(q) : SideAt(q, k) = SideAt(q, j) => k = j
  <2>1. ASSUME NEW q \in Faces, NEW k \in Sides(q), NEW j \in Sides(q), SideAt(q, k) = SideAt(q, j) PROVE k = j
    <3>1. /\ k \in DOMAIN Used(q) /\ j \in DOMAIN Used(q) /\ Rising(Used(q)) /\ Used(q) \in Seq(1 .. 4)
      BY <1>1, FaceIs DEF Sides
    <3>2. Used(q)[k] = Used(q)[j]
      BY <2>1 DEF SideAt
    <3>3. ~(k < j) /\ ~(j < k)
      BY <3>1, <3>2 DEF Rising
    <3> QED BY <3>1, <3>3
  <2> QED BY <2>1
<1>4. \A q, r, k, j : SideAt(q, k) = SideAt(r, j) => q = r
  BY DEF SideAt
<1>5. ASSUME NEW f \in DOMAIN faces, NEW k \in Sides(faces[f])
      PROVE  SideAt(faces[f], k) = x <=> f = drawn + 1 /\ k = side + 1
  <2>1. ASSUME SideAt(faces[f], k) = x PROVE f = drawn + 1 /\ k = side + 1
    <3>1. faces[f] = p
      BY <1>4, <2>1
    <3>2. f = drawn + 1
      BY <1>1, <3>1
    <3> QED BY <1>1, <1>3, <2>1, <3>1, <3>2
  <2> QED BY <2>1
<1>6. \A f \in DOMAIN faces : \A k \in Sides(faces[f]) :
        (f <= drawn' \/ (f = drawn' + 1 /\ k <= side'))
          <=> (f <= drawn \/ (f = drawn + 1 /\ k <= side) \/ (f = drawn + 1 /\ k = side + 1))
  BY <1>1, <1>2
<1>7. x \notin DrawnSides
  <2> SUFFICES ASSUME x \in DrawnSides PROVE FALSE
    OBVIOUS
  <2>1. PICK f \in DOMAIN faces : \E k \in Sides(faces[f]) :
          x = SideAt(faces[f], k) /\ (f <= drawn \/ (f = drawn + 1 /\ k <= side))
    BY DEF DrawnSides
  <2>2. PICK k \in Sides(faces[f]) : x = SideAt(faces[f], k) /\ (f <= drawn \/ (f = drawn + 1 /\ k <= side))
    BY <2>1
  <2>3. f = drawn + 1 /\ k = side + 1
    BY <1>5, <2>2
  <2> QED BY <2>2, <2>3
<1>8. x \in W!SidesInUse
  BY <1>1, SidesOfFace
<1>9. ASSUME NEW y PROVE y \in DrawnSides' <=> y \in DrawnSides \/ y = x
  <2>1. y \in DrawnSides' <=> y \in W!SidesInUse /\ \E f \in DOMAIN faces : \E k \in Sides(faces[f]) :
          y = SideAt(faces[f], k) /\ (f <= drawn' \/ (f = drawn' + 1 /\ k <= side'))
    BY SidesThen
  <2>2. y \in DrawnSides <=> y \in W!SidesInUse /\ \E f \in DOMAIN faces : \E k \in Sides(faces[f]) :
          y = SideAt(faces[f], k) /\ (f <= drawn \/ (f = drawn + 1 /\ k <= side))
    BY DEF DrawnSides
  <2>3. y \in DrawnSides => y \in DrawnSides'
    BY <1>6, <2>1, <2>2
  <2>4. x \in DrawnSides'
    <3>1. drawn + 1 \in DOMAIN faces /\ side + 1 \in Sides(faces[drawn + 1]) /\ x = SideAt(faces[drawn + 1], side + 1)
      BY <1>1
    <3>2. drawn + 1 = drawn' + 1 /\ side + 1 <= side'
      OBVIOUS
    <3> QED BY <1>8, <3>1, <3>2, SidesThen
  <2>5. y \in DrawnSides' => y \in DrawnSides \/ y = x
    BY <1>6, <2>1, <2>2
  <2> QED BY <2>3, <2>4, <2>5
<1> QED BY <1>7, <1>9

LEMMA DrawSideKeepsWires ==
  ASSUME WireInv, W!DrawSide
  PROVE  WireInv'
<1>1. /\ stage = "draw" /\ polyline.kind = "pface" /\ drawn < Len(faces) /\ side < W!SideCount(CornersOf(faces[drawn + 1]))
      /\ side' = side + 1 /\ polyline' = polyline /\ record' = record /\ positions' = positions
      /\ faces' = faces /\ drawn' = drawn /\ stage' = stage
  BY DEF W!DrawSide, W!Drawing, W!Face, CornersOf
<1>2. PICK p : p = faces[drawn + 1]
  OBVIOUS
<1>3. PICK ends : ends = W!Side(CornersOf(p), side + 1)
  OBVIOUS
<1>4. /\ edges' = IF W!CanDraw(ends) THEN Append(edges, W!Joined(ends)) ELSE edges
      /\ skipped' = IF W!CanDraw(ends) THEN skipped ELSE skipped + 1
  BY <1>2, <1>3 DEF W!DrawSide, W!Face, CornersOf
<1>5. Gathered /\ DrawnTyped /\ DrawnAre /\ drawn \in 0 .. Len(faces) /\ side \in Nat
  BY <1>1 DEF WireInv, DrawnTyped
<1>6. p \in Faces /\ polyline \in W!PolylineType
  BY <1>1, <1>2, <1>5, FacesTaken
<1>7. W!SideCount(CornersOf(p)) \in Nat
  BY <1>6, FaceIs
<1>8. side + 1 \in Sides(p)
  BY <1>1, <1>2, <1>5, <1>7 DEF Sides
<1>9. PICK x : x = SideAt(p, side + 1)
  OBVIOUS
<1>10. x \notin DrawnSides /\ DrawnSides' = DrawnSides \cup {x}
  BY <1>1, <1>2, <1>5, <1>8, <1>9, OneSideMore
<1>11. /\ W!CanDraw(ends) <=> W!Drawable(x)
       /\ W!CanDraw(ends) => /\ W!Joined(ends) = W!SideEdge(x)
                             /\ W!Joined(ends) \in (DOMAIN W!Chain) \X (DOMAIN W!Chain)
  BY <1>1, <1>3, <1>5, <1>6, <1>8, <1>9, SideIs
<1>12. \A y : (W!Drawable(y)' <=> W!Drawable(y)) /\ W!SideEdge(y)' = W!SideEdge(y)
  BY <1>1, EndsStay
<1>13. /\ PassedOver' = IF W!CanDraw(ends) THEN PassedOver ELSE PassedOver \cup {x}
       /\ \A e : DrawnAs(e)' = IF W!CanDraw(ends) /\ W!Joined(ends) = e THEN DrawnAs(e) \cup {x} ELSE DrawnAs(e)
       /\ x \notin PassedOver /\ \A e : x \notin DrawnAs(e)
  <2>1. \A y : y \in PassedOver' <=> (y \in DrawnSides \/ y = x) /\ ~W!Drawable(y)
    BY <1>10, <1>12 DEF PassedOver
  <2>2. \A e, y : y \in DrawnAs(e)' <=> (y \in DrawnSides \/ y = x) /\ W!Drawable(y) /\ W!SideEdge(y) = e
    BY <1>10, <1>12 DEF DrawnAs
  <2>3. \A e, y : y \in DrawnAs(e) <=> y \in DrawnSides /\ W!Drawable(y) /\ W!SideEdge(y) = e
    BY DEF DrawnAs
  <2>4. \A y : y \in PassedOver <=> y \in DrawnSides /\ ~W!Drawable(y)
    BY DEF PassedOver
  <2>5. PassedOver' = IF W!CanDraw(ends) THEN PassedOver ELSE PassedOver \cup {x}
    BY <1>11, <2>1, <2>4
  <2>6. ASSUME NEW e
        PROVE  DrawnAs(e)' = IF W!CanDraw(ends) /\ W!Joined(ends) = e THEN DrawnAs(e) \cup {x} ELSE DrawnAs(e)
    BY <1>11, <2>2, <2>3
  <2> QED BY <1>10, <2>3, <2>4, <2>5, <2>6
<1>14. IsFiniteSet(DrawnSides) /\ IsFiniteSet(PassedOver) /\ \A e : IsFiniteSet(DrawnAs(e))
  <2>1. IsFiniteSet(DrawnSides)
    BY <1>5 DEF DrawnAre
  <2>2. PassedOver \in SUBSET DrawnSides /\ \A e : DrawnAs(e) \in SUBSET DrawnSides
    BY DEF PassedOver, DrawnAs
  <2> QED BY <2>1, <2>2, FS_Subset
<1>15. IsFiniteSet(DrawnSides')
  BY <1>10, <1>14, FS_AddElement
<1>16. skipped' = Cardinality(PassedOver')
  <2>1. skipped = Cardinality(PassedOver)
    BY <1>5 DEF DrawnAre
  <2>2. Cardinality(PassedOver \cup {x}) = Cardinality(PassedOver) + 1
    BY <1>13, <1>14, FS_AddElement
  <2> QED BY <1>4, <1>13, <2>1, <2>2
<1>17. ASSUME NEW e PROVE W!Times(e)' = Cardinality(DrawnAs(e)')
  <2>1. W!Times(e) = Cardinality(DrawnAs(e)) /\ Cardinality(DrawnAs(e)) \in Nat
    BY <1>5, <1>14, FS_CardinalityType DEF DrawnAre
  <2>2. Cardinality(DrawnAs(e) \cup {x}) = Cardinality(DrawnAs(e)) + 1
    BY <1>13, <1>14, FS_AddElement
  <2>3. edges \in Seq((DOMAIN W!Chain) \X (DOMAIN W!Chain))
    BY <1>5 DEF DrawnTyped
  <2>4. W!Times(e) = Appears(edges, e)
    BY CountsAre DEF Appears
  <2>5. W!Times(e)' = Appears(edges', e)
    BY TimesThen DEF Appears
  <2>6. CASE W!CanDraw(ends)
    <3>1. edges' = Append(edges, W!Joined(ends))
      BY <1>4, <2>6
    <3>2. /\ W!Joined(ends) = e => Appears(Append(edges, W!Joined(ends)), e) = Appears(edges, e) + 1
          /\ W!Joined(ends) # e => Appears(Append(edges, W!Joined(ends)), e) = Appears(edges, e)
      BY <2>3, TimesMore, Zenon
    <3>3. /\ W!Joined(ends) = e => W!Times(e)' = W!Times(e) + 1
          /\ W!Joined(ends) # e => W!Times(e)' = W!Times(e)
      BY <2>4, <2>5, <3>1, <3>2
    <3>4. CASE W!Joined(ends) = e
      <4>1. DrawnAs(e)' = DrawnAs(e) \cup {x}
        BY <1>13, <2>6, <3>4
      <4> QED BY <2>1, <2>2, <3>3, <3>4, <4>1
    <3>5. CASE W!Joined(ends) # e
      <4>1. DrawnAs(e)' = DrawnAs(e)
        BY <1>13, <3>5
      <4> QED BY <2>1, <3>3, <3>5, <4>1
    <3> QED BY <3>4, <3>5
  <2>7. CASE ~W!CanDraw(ends)
    <3>1. edges' = edges /\ DrawnAs(e)' = DrawnAs(e)
      BY <1>4, <1>13, <2>7
    <3> QED BY <2>1, <2>4, <2>5, <3>1
  <2> QED BY <2>6, <2>7
<1>18. DrawnAre'
  BY <1>1, <1>15, <1>16, <1>17 DEF DrawnAre
<1>19. DrawnTyped'
  <2>1. W!Chain' = W!Chain /\ \A q : CornersOf(q)' = CornersOf(q)
    BY <1>1, ChainStays, SlotsStay
  <2>2. edges \in Seq((DOMAIN W!Chain) \X (DOMAIN W!Chain)) /\ skipped \in Nat
    BY <1>5 DEF DrawnTyped
  <2>3. edges' \in Seq((DOMAIN W!Chain) \X (DOMAIN W!Chain)) /\ skipped' \in Nat
    BY <1>4, <1>11, <2>2
  <2>4. side' <= W!SideCount(CornersOf(p)) /\ side' \in Nat
    BY <1>1, <1>2, <1>5, <1>7
  <2>5. (drawn' < Len(faces') => side' <= W!SideCount(CornersOf(faces[drawn + 1]))) /\ drawn' # Len(faces')
    BY <1>1, <1>2, <2>4, <1>5
  <2>6. CornersOf(faces[drawn + 1])' = CornersOf(faces[drawn + 1])
    BY <1>1, ChainStays DEF CornersOf
  <2> QED BY <1>1, <1>5, <2>1, <2>3, <2>4, <2>5, <2>6 DEF DrawnTyped
<1>20. Gathered'
  BY <1>1, <1>5, ChainStays DEF Gathered, TakenFrom, Members, Rising
<1> QED BY <1>1, <1>18, <1>19, <1>20 DEF WireInv

LEMMA DrawnSidesStay ==
  ASSUME polyline' = polyline,
         \A x : x \in DrawnSides' <=> x \in DrawnSides, edges' = edges, skipped' = skipped,
         DrawnAre, stage' = "done" => drawn' = Len(faces')
  PROVE  DrawnAre'
<1>1. DrawnSides' = DrawnSides
  OBVIOUS
<1>2. \A y : (W!Drawable(y)' <=> W!Drawable(y)) /\ W!SideEdge(y)' = W!SideEdge(y)
  BY EndsStay
<1>3. PassedOver' = PassedOver
  BY <1>1, <1>2 DEF PassedOver
<1>4. ASSUME NEW e PROVE DrawnAs(e)' = DrawnAs(e) /\ W!Times(e)' = W!Times(e)
  <2>1. DrawnAs(e)' = DrawnAs(e)
    BY <1>1, <1>2 DEF DrawnAs
  <2>2. {k \in DOMAIN edges' : edges'[k] = e} = {k \in DOMAIN edges : edges[k] = e}
    OBVIOUS
  <2> QED BY <2>1, <2>2, CountsAre, TimesThen
<1> QED BY <1>1, <1>3, <1>4 DEF DrawnAre

LEMMA EndFaceKeepsWires ==
  ASSUME WireInv, W!EndFace
  PROVE  WireInv'
<1>1. /\ stage = "draw" /\ polyline.kind = "pface" /\ drawn < Len(faces) /\ side = W!SideCount(CornersOf(faces[drawn + 1]))
      /\ side' = 0 /\ polyline' = polyline /\ record' = record /\ positions' = positions
      /\ faces' = faces /\ drawn' = drawn + 1 /\ stage' = stage /\ edges' = edges /\ skipped' = skipped
  BY DEF W!EndFace, W!Drawing, W!Face, CornersOf
<1>2. Gathered /\ DrawnTyped /\ DrawnAre /\ drawn \in 0 .. Len(faces)
  BY <1>1 DEF WireInv, DrawnTyped
<1>3. /\ Len(faces) \in Nat /\ DOMAIN faces = 1 .. Len(faces) /\ polyline \in W!PolylineType
      /\ \A f \in DOMAIN faces : faces[f] \in Faces /\ f \in Nat
  BY <1>2, FacesTaken
<1>4. \A p \in Faces : W!SideCount(CornersOf(p)) \in Nat
  BY <1>3, FaceIs
<1>5. ASSUME NEW f \in DOMAIN faces, NEW k \in Sides(faces[f])
      PROVE  (f <= drawn' \/ (f = drawn' + 1 /\ k <= side')) <=> (f <= drawn \/ (f = drawn + 1 /\ k <= side))
  <2>1. k \in Int /\ k >= 1 /\ k <= W!SideCount(CornersOf(faces[f]))
    BY <1>3, <1>4 DEF Sides
  <2>2. f = drawn + 1 => k <= side
    BY <1>1, <2>1
  <2> QED BY <1>1, <1>2, <1>3, <2>1, <2>2
<1>6. \A x : x \in DrawnSides' <=> x \in DrawnSides
  <2>1. DrawnSides' = {x \in W!SidesInUse : \E f \in DOMAIN faces : \E k \in Sides(faces[f]) :
                         x = SideAt(faces[f], k) /\ (f <= drawn' \/ (f = drawn' + 1 /\ k <= side'))}
    BY <1>1, SidesThen
  <2> QED BY <1>5, <2>1 DEF DrawnSides
<1>7. DrawnAre'
  BY <1>1, <1>2, <1>6, DrawnSidesStay
<1>8. DrawnTyped'
  <2>1. edges \in Seq((DOMAIN W!Chain) \X (DOMAIN W!Chain)) /\ skipped \in Nat /\ W!Chain' = W!Chain
    BY <1>1, <1>2, ChainStays DEF DrawnTyped
  <2>2. drawn' \in 0 .. Len(faces') /\ side' \in Nat
    BY <1>1, <1>2, <1>3
  <2>3. ASSUME drawn' < Len(faces') PROVE 0 <= W!SideCount(CornersOf(faces[drawn + 2]))
    <3>1. drawn + 2 \in DOMAIN faces
      BY <1>1, <1>2, <1>3, <2>3
    <3> QED BY <1>3, <1>4, <3>1
  <2>4. CornersOf(faces[drawn + 1])' = CornersOf(faces[drawn + 2])
    <3>1. (drawn + 1)' = drawn + 2
      BY <1>1, <1>2
    <3> QED BY <1>1, <3>1, ChainStays DEF CornersOf
  <2>5. side' = 0
    BY <1>1
  <2> QED BY <1>1, <2>1, <2>2, <2>3, <2>4, <2>5 DEF DrawnTyped
<1>9. Gathered'
  BY <1>1, <1>2, ChainStays DEF Gathered, TakenFrom, Members, Rising
<1> QED BY <1>1, <1>7, <1>8, <1>9 DEF WireInv

LEMMA GatheringEnds ==
  ASSUME WireInv, W!EndChain \/ W!EndFaces
  PROVE  WireInv'
<1>1. /\ polyline' = polyline /\ record' = record /\ positions' = positions /\ faces' = faces
      /\ drawn' = drawn /\ side' = side /\ edges' = edges /\ skipped' = skipped
  BY DEF W!EndChain, W!EndFaces
<1>2. \/ stage = "gather" /\ record > Len(W!Chain) /\ stage' = "draw"
      \/ stage = "draw" /\ polyline.kind = "pface" /\ drawn = Len(faces) /\ stage' = "done"
  BY DEF W!EndChain, W!EndFaces
<1>3. Gathered'
  <2>1. Gathered /\ Len(W!Chain) \in Nat
    BY ChainIs DEF WireInv, Gathered
  <2>2. stage = "gather" => record = Len(W!Chain) + 1
    BY <1>2, <2>1 DEF Gathered
  <2> QED BY <1>1, <1>2, <2>1, <2>2, ChainStays DEF Gathered, TakenFrom, Members, Rising
<1>4. DrawnTyped'
  <2>1. W!Chain' = W!Chain /\ CornersOf(faces[drawn + 1])' = CornersOf(faces[drawn + 1]) /\ DrawnTyped
    BY <1>1, ChainStays DEF CornersOf, WireInv
  <2> QED BY <1>1, <2>1 DEF DrawnTyped
<1>5. ASSUME polyline.kind = "pface" PROVE DrawnAre'
  <2>1. DrawnSides' = DrawnSides
    BY <1>1, SidesThen DEF DrawnSides
  <2>2. stage' = "done" => drawn' = Len(faces')
    BY <1>1, <1>2
  <2>3. DrawnAre
    BY <1>5 DEF WireInv
  <2> QED BY <1>1, <2>1, <2>2, <2>3, DrawnSidesStay
<1>6. polyline.kind = "mesh" => GridIs'
  BY <1>1, <1>2 DEF WireInv, GridIs
<1> QED BY <1>1, <1>3, <1>4, <1>5, <1>6 DEF WireInv
-----------------------------------------------------------------------------
(* The places of a grid, counted row by row.                               *)
LEMMA PlaceInGrid ==
  ASSUME NEW m \in Nat, NEW n \in Nat, NEW a \in 0 .. m - 1, NEW b \in 0 .. n - 1
  PROVE  a * n + b + 1 \in 1 .. m * n /\ (a * n + b) % n = b /\ (a * n + b) \div n = a
<1>1. n \in Nat \ {0} /\ a \in Nat /\ b \in Nat
  OBVIOUS
<1>2. (a * n + b) % n = b /\ (a * n + b) \div n = a
  BY <1>1, SMTT(30)
<1>3. a * n \in Nat /\ m * n \in Nat /\ (a + 1) * n = a * n + n
  BY <1>1, SMT
<1>4. (a + 1) * n <= m * n
  <2>1. a + 1 <= m /\ a + 1 \in Nat
    OBVIOUS
  <2> QED BY <1>1, <2>1, SMT
<1> QED BY <1>1, <1>2, <1>3, <1>4

LEMMA GridOfPlace ==
  ASSUME NEW m \in Nat, NEW n \in Nat, NEW k \in 1 .. m * n
  PROVE  /\ W!Row(k, n) \in 0 .. m - 1 /\ W!Column(k, n) \in 0 .. n - 1
         /\ k = W!Row(k, n) * n + W!Column(k, n) + 1
<1>1. n # 0
  BY SMT
<1>2. PICK x : x = k - 1
  OBVIOUS
<1>3. x \in Nat /\ m * n \in Nat /\ x < m * n /\ n \in Nat \ {0}
  BY <1>1, <1>2, SMT
<1>4. PICK q, r : q = x \div n /\ r = x % n
  OBVIOUS
<1>5. x = n * q + r /\ r \in 0 .. n - 1 /\ q \in Int
  BY <1>3, <1>4, Z3
<1>6. q \in 0 .. m - 1
  <2>1. ASSUME q < 0 PROVE FALSE
    <3>1. n * q <= n * (-1)
      BY <1>3, <1>5, <2>1, SMT
    <3> QED BY <1>3, <1>5, <3>1, SMT
  <2>2. ASSUME q >= m PROVE FALSE
    <3>1. n * q >= n * m /\ n * m = m * n
      BY <1>3, <1>5, <2>2, SMT
    <3> QED BY <1>3, <1>5, <3>1, SMT
  <2> QED BY <1>5, <2>1, <2>2
<1>7. n * q = q * n
  BY <1>3, <1>5, SMT
<1>8. W!Row(k, n) = q /\ W!Column(k, n) = r
  BY <1>2, <1>4 DEF W!Row, W!Column
<1> QED BY <1>2, <1>5, <1>6, <1>7, <1>8

LEMMA GridFigures ==
  ASSUME polyline \in W!PolylineType
  PROVE  /\ W!M \in Nat /\ W!N \in Nat /\ W!RowsJoined \in 0 .. W!M /\ W!ColumnsJoined \in 0 .. W!N
         /\ W!EdgeCount \in Nat
<1>1. W!M \in Nat /\ W!N \in Nat
  BY DEF W!PolylineType, W!M, W!N
<1>2. W!RowsJoined \in 0 .. W!M /\ W!ColumnsJoined \in 0 .. W!N
  BY <1>1 DEF W!RowsJoined, W!ColumnsJoined, W!LessOne
<1>3. W!RowsJoined * W!N \in Nat /\ W!M * W!ColumnsJoined \in Nat
  BY <1>1, <1>2
<1> QED BY <1>1, <1>2, <1>3 DEF W!EdgeCount

(* The place a row down, or a column on.                                   *)
LEMMA FollowsAre ==
  ASSUME polyline \in W!PolylineType
  PROVE  /\ \A a \in 0 .. W!M - 1 : \A b : b \in W!Follows(a, W!M, polyline.closedM)
                                             <=> a < W!RowsJoined /\ b = (a + 1) % W!M
         /\ \A a \in 0 .. W!N - 1 : \A b : b \in W!Follows(a, W!N, polyline.closedN)
                                             <=> a < W!ColumnsJoined /\ b = (a + 1) % W!N
         /\ \A a \in 0 .. W!M - 1 : (a + 1) % W!M \in 0 .. W!M - 1 /\ (W!M > 1 => (a + 1) % W!M # a)
         /\ \A a \in 0 .. W!N - 1 : (a + 1) % W!N \in 0 .. W!N - 1 /\ (W!N > 1 => (a + 1) % W!N # a)
<1>1. W!M \in Nat /\ W!N \in Nat
  BY GridFigures
<1>2. ASSUME NEW size \in Nat, NEW a \in 0 .. size - 1
      PROVE  (a + 1) % size = IF a = size - 1 THEN 0 ELSE a + 1
  <2>1. size \in Nat \ {0} /\ (a + 1 = size \/ a + 1 \in 0 .. size - 1)
    OBVIOUS
  <2>2. CASE a + 1 = size
    <3>1. (a + 1) % size = 0
      BY <2>1, <2>2, Remainders
    <3> QED BY <2>2, <3>1
  <2>3. CASE a + 1 # size
    <3>1. (a + 1) % size = a + 1
      BY <2>1, <2>3, Remainders
    <3> QED BY <2>3, <3>1
  <2> QED BY <2>2, <2>3
<1>3. ASSUME NEW a \in 0 .. W!M - 1, NEW b
      PROVE  b \in W!Follows(a, W!M, polyline.closedM) <=> a < W!RowsJoined /\ b = (a + 1) % W!M
  <2>1. (a + 1) % W!M = IF a = W!M - 1 THEN 0 ELSE a + 1
    BY <1>1, <1>2
  <2>2. CASE polyline.closedM
    BY <1>1, <2>1, <2>2 DEF W!Follows, W!RowsJoined
  <2>3. CASE ~polyline.closedM
    BY <1>1, <2>1, <2>3 DEF W!Follows, W!RowsJoined, W!LessOne
  <2> QED BY <2>2, <2>3
<1>4. ASSUME NEW a \in 0 .. W!N - 1, NEW b
      PROVE  b \in W!Follows(a, W!N, polyline.closedN) <=> a < W!ColumnsJoined /\ b = (a + 1) % W!N
  <2>1. (a + 1) % W!N = IF a = W!N - 1 THEN 0 ELSE a + 1
    BY <1>1, <1>2
  <2>2. CASE polyline.closedN
    BY <1>1, <2>1, <2>2 DEF W!Follows, W!ColumnsJoined
  <2>3. CASE ~polyline.closedN
    BY <1>1, <2>1, <2>3 DEF W!Follows, W!ColumnsJoined, W!LessOne
  <2> QED BY <2>2, <2>3
<1>5. \A a \in 0 .. W!M - 1 : (a + 1) % W!M \in 0 .. W!M - 1 /\ (W!M > 1 => (a + 1) % W!M # a)
  <2>1. ASSUME NEW a \in 0 .. W!M - 1
        PROVE  (a + 1) % W!M \in 0 .. W!M - 1 /\ (W!M > 1 => (a + 1) % W!M # a)
    <3>1. (a + 1) % W!M = IF a = W!M - 1 THEN 0 ELSE a + 1
      BY <1>1, <1>2
    <3> QED BY <1>1, <3>1
  <2> QED BY <2>1
<1>6. \A a \in 0 .. W!N - 1 : (a + 1) % W!N \in 0 .. W!N - 1 /\ (W!N > 1 => (a + 1) % W!N # a)
  <2>1. ASSUME NEW a \in 0 .. W!N - 1
        PROVE  (a + 1) % W!N \in 0 .. W!N - 1 /\ (W!N > 1 => (a + 1) % W!N # a)
    <3>1. (a + 1) % W!N = IF a = W!N - 1 THEN 0 ELSE a + 1
      BY <1>1, <1>2
    <3> QED BY <1>1, <3>1
  <2> QED BY <2>1
<1> QED BY <1>3, <1>4, <1>5, <1>6
-----------------------------------------------------------------------------
(* The edges of a grid, place by place.                                    *)
LEMMA LoopReaches ==
  ASSUME NEW m \in Nat, NEW n \in Nat, NEW a \in 0 .. m - 1, NEW b \in 0 .. n - 1
  PROVE  \E k \in 1 .. m * n : W!Row(k, n) = a /\ W!Column(k, n) = b
<1>1. a * n + b + 1 \in 1 .. m * n /\ (a * n + b) % n = b /\ (a * n + b) \div n = a
  BY PlaceInGrid
<1>2. PICK x : x = a * n + b
  OBVIOUS
<1>3. x \in Int
  BY <1>2, SMT
<1>4. (x + 1) - 1 = x
  BY <1>3
<1>5. W!Row(x + 1, n) = a /\ W!Column(x + 1, n) = b
  BY <1>1, <1>2, <1>4 DEF W!Row, W!Column
<1> QED BY <1>1, <1>2, <1>5

LEMMA GridOfVertices ==
  ASSUME Gathered, W!IsGrid
  PROVE  \A a \in 0 .. W!M - 1 : \A b \in 0 .. W!N - 1 :
           a * W!N + b + 1 \in DOMAIN positions /\ W!Vertex(a, b) \in DOMAIN W!Chain
<1>1. W!M \in Nat /\ W!N \in Nat
  BY GridFigures DEF Gathered
<1>2. positions \in Seq(DOMAIN W!Chain) /\ Len(positions) = W!M * W!N
  BY DEF Gathered, TakenFrom, W!IsGrid
<1>3. DOMAIN positions = 1 .. W!M * W!N
  BY <1>2
<1>4. ASSUME NEW a \in 0 .. W!M - 1, NEW b \in 0 .. W!N - 1
      PROVE  a * W!N + b + 1 \in DOMAIN positions /\ W!Vertex(a, b) \in DOMAIN W!Chain
  <2>1. a * W!N + b + 1 \in DOMAIN positions
    BY <1>1, <1>3, PlaceInGrid
  <2>2. \A k \in DOMAIN positions : positions[k] \in DOMAIN W!Chain
    BY <1>2
  <2> QED BY <2>1, <2>2 DEF W!Vertex
<1> QED BY <1>4

LEMMA DownEdgesAre ==
  ASSUME Gathered, W!IsGrid
  PROVE  /\ W!DownEdges \in Seq((DOMAIN W!Chain) \X (DOMAIN W!Chain))
         /\ Len(W!DownEdges) = W!RowsJoined * W!N
         /\ \A e : e \in Members(W!DownEdges) <=>
              \E a \in 0 .. W!RowsJoined - 1 : \E b \in 0 .. W!N - 1 :
                e = <<W!Vertex(a, b), W!Vertex((a + 1) % W!M, b)>>
<1>1. /\ W!M \in Nat /\ W!N \in Nat /\ W!RowsJoined \in Nat /\ 0 .. W!RowsJoined - 1 \subseteq 0 .. W!M - 1
      /\ W!RowsJoined * W!N \in Nat /\ polyline \in W!PolylineType
  BY GridFigures DEF Gathered
<1>2. /\ DOMAIN W!DownEdges = 1 .. W!RowsJoined * W!N
      /\ \A k \in DOMAIN W!DownEdges :
           W!DownEdges[k] = <<W!Vertex(W!Row(k, W!N), W!Column(k, W!N)),
                              W!Vertex((W!Row(k, W!N) + 1) % W!M, W!Column(k, W!N))>>
  BY DEF W!DownEdges
<1>3. \A k \in DOMAIN W!DownEdges : W!Row(k, W!N) \in 0 .. W!RowsJoined - 1 /\ W!Column(k, W!N) \in 0 .. W!N - 1
  BY <1>1, <1>2, GridOfPlace
<1>4. ASSUME NEW a \in 0 .. W!RowsJoined - 1, NEW b \in 0 .. W!N - 1
      PROVE  \E k \in DOMAIN W!DownEdges : W!Row(k, W!N) = a /\ W!Column(k, W!N) = b
  <2>1. \E k \in 1 .. W!RowsJoined * W!N : W!Row(k, W!N) = a /\ W!Column(k, W!N) = b
    BY <1>1, LoopReaches
  <2> QED BY <1>2, <2>1
<1>5. \A a \in 0 .. W!RowsJoined - 1 : (a + 1) % W!M \in 0 .. W!M - 1 /\ a \in 0 .. W!M - 1
  BY <1>1, FollowsAre
<1>6. \A k \in DOMAIN W!DownEdges : W!DownEdges[k] \in (DOMAIN W!Chain) \X (DOMAIN W!Chain)
  <2>1. ASSUME NEW k \in DOMAIN W!DownEdges PROVE W!DownEdges[k] \in (DOMAIN W!Chain) \X (DOMAIN W!Chain)
    <3>1. PICK a, b : a = W!Row(k, W!N) /\ b = W!Column(k, W!N)
      OBVIOUS
    <3>2. a \in 0 .. W!RowsJoined - 1 /\ b \in 0 .. W!N - 1
      BY <1>3, <3>1
    <3>3. W!Vertex(a, b) \in DOMAIN W!Chain /\ W!Vertex((a + 1) % W!M, b) \in DOMAIN W!Chain
      BY <1>5, <3>2, GridOfVertices
    <3>4. W!DownEdges[k] = <<W!Vertex(a, b), W!Vertex((a + 1) % W!M, b)>>
      BY <1>2, <3>1
    <3> QED BY <3>3, <3>4
  <2> QED BY <2>1
<1>7. W!DownEdges \in [1 .. W!RowsJoined * W!N -> (DOMAIN W!Chain) \X (DOMAIN W!Chain)]
  BY <1>2, <1>6 DEF W!DownEdges
<1>8. W!DownEdges \in Seq((DOMAIN W!Chain) \X (DOMAIN W!Chain)) /\ Len(W!DownEdges) = W!RowsJoined * W!N
  BY <1>1, <1>7
<1>9. ASSUME NEW e
      PROVE  e \in Members(W!DownEdges) <=>
               \E a \in 0 .. W!RowsJoined - 1 : \E b \in 0 .. W!N - 1 :
                 e = <<W!Vertex(a, b), W!Vertex((a + 1) % W!M, b)>>
  <2>1. ASSUME e \in Members(W!DownEdges)
        PROVE  \E a \in 0 .. W!RowsJoined - 1 : \E b \in 0 .. W!N - 1 : e = <<W!Vertex(a, b), W!Vertex((a + 1) % W!M, b)>>
    <3>1. PICK k \in DOMAIN W!DownEdges : e = W!DownEdges[k]
      BY <2>1 DEF Members
    <3>2. PICK a, b : a = W!Row(k, W!N) /\ b = W!Column(k, W!N)
      OBVIOUS
    <3>3. a \in 0 .. W!RowsJoined - 1 /\ b \in 0 .. W!N - 1 /\ e = <<W!Vertex(a, b), W!Vertex((a + 1) % W!M, b)>>
      BY <1>2, <1>3, <3>1, <3>2
    <3> QED BY <3>3
  <2>2. ASSUME NEW a \in 0 .. W!RowsJoined - 1, NEW b \in 0 .. W!N - 1, e = <<W!Vertex(a, b), W!Vertex((a + 1) % W!M, b)>>
        PROVE  e \in Members(W!DownEdges)
    <3>1. PICK k \in DOMAIN W!DownEdges : W!Row(k, W!N) = a /\ W!Column(k, W!N) = b
      BY <1>4
    <3>2. e = W!DownEdges[k]
      BY <1>2, <2>2, <3>1
    <3> QED BY <3>2 DEF Members
  <2> QED BY <2>1, <2>2
<1> QED BY <1>8, <1>9

LEMMA AcrossEdgesAre ==
  ASSUME Gathered, W!IsGrid
  PROVE  /\ W!AcrossEdges \in Seq((DOMAIN W!Chain) \X (DOMAIN W!Chain))
         /\ Len(W!AcrossEdges) = W!M * W!ColumnsJoined
         /\ \A e : e \in Members(W!AcrossEdges) <=>
              \E a \in 0 .. W!M - 1 : \E b \in 0 .. W!ColumnsJoined - 1 :
                e = <<W!Vertex(a, b), W!Vertex(a, (b + 1) % W!N)>>
<1>1. /\ W!M \in Nat /\ W!N \in Nat /\ W!ColumnsJoined \in Nat
      /\ 0 .. W!ColumnsJoined - 1 \subseteq 0 .. W!N - 1
      /\ W!M * W!ColumnsJoined \in Nat /\ polyline \in W!PolylineType
  BY GridFigures DEF Gathered
<1> DEFINE wide == W!ColumnsJoined
<1>2. /\ DOMAIN W!AcrossEdges = 1 .. W!M * wide
      /\ \A k \in DOMAIN W!AcrossEdges :
           W!AcrossEdges[k] = <<W!Vertex(W!Row(k, wide), W!Column(k, wide)),
                                W!Vertex(W!Row(k, wide), (W!Column(k, wide) + 1) % W!N)>>
  BY DEF W!AcrossEdges
<1>3. \A k \in DOMAIN W!AcrossEdges : W!Row(k, wide) \in 0 .. W!M - 1 /\ W!Column(k, wide) \in 0 .. wide - 1
  BY <1>1, <1>2, GridOfPlace
<1>4. ASSUME NEW a \in 0 .. W!M - 1, NEW b \in 0 .. wide - 1
      PROVE  \E k \in DOMAIN W!AcrossEdges : W!Row(k, wide) = a /\ W!Column(k, wide) = b
  <2>1. \E k \in 1 .. W!M * wide : W!Row(k, wide) = a /\ W!Column(k, wide) = b
    BY <1>1, LoopReaches
  <2> QED BY <1>2, <2>1
<1>5. \A b \in 0 .. wide - 1 : (b + 1) % W!N \in 0 .. W!N - 1 /\ b \in 0 .. W!N - 1
  BY <1>1, FollowsAre
<1>6. \A k \in DOMAIN W!AcrossEdges : W!AcrossEdges[k] \in (DOMAIN W!Chain) \X (DOMAIN W!Chain)
  <2>1. ASSUME NEW k \in DOMAIN W!AcrossEdges
        PROVE  W!AcrossEdges[k] \in (DOMAIN W!Chain) \X (DOMAIN W!Chain)
    <3>1. PICK a, b : a = W!Row(k, wide) /\ b = W!Column(k, wide)
      OBVIOUS
    <3>2. a \in 0 .. W!M - 1 /\ b \in 0 .. wide - 1
      BY <1>3, <3>1
    <3>3. W!Vertex(a, b) \in DOMAIN W!Chain /\ W!Vertex(a, (b + 1) % W!N) \in DOMAIN W!Chain
      BY <1>5, <3>2, GridOfVertices
    <3> QED BY <1>2, <3>1, <3>3
  <2> QED BY <2>1
<1>7. W!AcrossEdges \in [1 .. W!M * wide -> (DOMAIN W!Chain) \X (DOMAIN W!Chain)]
  BY <1>2, <1>6 DEF W!AcrossEdges
<1>8. W!AcrossEdges \in Seq((DOMAIN W!Chain) \X (DOMAIN W!Chain)) /\ Len(W!AcrossEdges) = W!M * wide
  BY <1>1, <1>7
<1>9. ASSUME NEW e
      PROVE  e \in Members(W!AcrossEdges) <=>
               \E a \in 0 .. W!M - 1 : \E b \in 0 .. wide - 1 :
                 e = <<W!Vertex(a, b), W!Vertex(a, (b + 1) % W!N)>>
  <2>1. ASSUME e \in Members(W!AcrossEdges)
        PROVE  \E a \in 0 .. W!M - 1 : \E b \in 0 .. wide - 1 : e = <<W!Vertex(a, b), W!Vertex(a, (b + 1) % W!N)>>
    <3>1. PICK k \in DOMAIN W!AcrossEdges : e = W!AcrossEdges[k]
      BY <2>1 DEF Members
    <3>2. PICK a, b : a = W!Row(k, wide) /\ b = W!Column(k, wide)
      OBVIOUS
    <3>3. a \in 0 .. W!M - 1 /\ b \in 0 .. wide - 1 /\ e = <<W!Vertex(a, b), W!Vertex(a, (b + 1) % W!N)>>
      BY <1>2, <1>3, <3>1, <3>2
    <3> QED BY <3>3
  <2>2. ASSUME NEW a \in 0 .. W!M - 1, NEW b \in 0 .. wide - 1, e = <<W!Vertex(a, b), W!Vertex(a, (b + 1) % W!N)>>
        PROVE  e \in Members(W!AcrossEdges)
    <3>1. PICK k \in DOMAIN W!AcrossEdges : W!Row(k, wide) = a /\ W!Column(k, wide) = b
      BY <1>4
    <3>2. e = W!AcrossEdges[k]
      BY <1>2, <2>2, <3>1
    <3> QED BY <3>2 DEF Members
  <2> QED BY <2>1, <2>2
<1> QED BY <1>8, <1>9

LEMMA GridStaysAsItIs ==
  ASSUME polyline' = polyline, positions' = positions
  PROVE  /\ W!IsGrid' <=> W!IsGrid
         /\ W!DownEdges' = W!DownEdges /\ W!AcrossEdges' = W!AcrossEdges /\ W!EdgeCount' = W!EdgeCount
<1>1. W!M' = W!M /\ W!N' = W!N /\ W!RowsJoined' = W!RowsJoined /\ W!ColumnsJoined' = W!ColumnsJoined
  BY DEF W!M, W!N, W!RowsJoined, W!ColumnsJoined, W!LessOne
<1>2. \A a, b : W!Vertex(a, b)' = W!Vertex(a, b)
  BY <1>1 DEF W!Vertex
<1>3. W!DownEdges' = W!DownEdges
  BY <1>1, <1>2 DEF W!DownEdges, W!Row, W!Column
<1>4. W!AcrossEdges' = W!AcrossEdges
  BY <1>1, <1>2 DEF W!AcrossEdges, W!Row, W!Column
<1> QED BY <1>1, <1>3, <1>4 DEF W!IsGrid, W!EdgeCount

LEMMA DrawGridKeepsWires ==
  ASSUME WireInv, W!DrawGrid
  PROVE  WireInv'
<1>1. /\ stage = "draw" /\ stage' = "done" /\ polyline.kind = "mesh"
      /\ edges' = IF W!IsGrid THEN W!DownEdges \o W!AcrossEdges ELSE <<>>
      /\ skipped' = IF W!IsGrid THEN 0 ELSE W!EdgeCount
      /\ polyline' = polyline /\ record' = record /\ positions' = positions /\ faces' = faces
      /\ drawn' = drawn /\ side' = side
  BY DEF W!DrawGrid
<1>2. Gathered /\ DrawnTyped
  BY DEF WireInv
<1>3. Gathered'
  BY <1>1, <1>2, ChainStays DEF Gathered, TakenFrom, Members, Rising
<1>4. edges' \in Seq((DOMAIN W!Chain) \X (DOMAIN W!Chain)) /\ skipped' \in Nat
  <2>1. W!EdgeCount \in Nat
    BY <1>2, GridFigures DEF Gathered
  <2>2. CASE W!IsGrid
    BY <1>1, <1>2, <2>2, DownEdgesAre, AcrossEdgesAre
  <2>3. CASE ~W!IsGrid
    BY <1>1, <2>1, <2>3
  <2> QED BY <2>2, <2>3
<1>5. DrawnTyped'
  <2>1. W!Chain' = W!Chain /\ CornersOf(faces[drawn + 1])' = CornersOf(faces[drawn + 1])
    BY <1>1, ChainStays DEF CornersOf
  <2> QED BY <1>1, <1>2, <1>4, <2>1 DEF DrawnTyped
<1>6. GridIs'
  BY <1>1, GridStaysAsItIs DEF GridIs
<1>7. polyline'.kind # "pface"
  BY <1>1
<1> QED BY <1>3, <1>5, <1>6, <1>7 DEF WireInv

LEMMA WiresStayAsTheyAre ==
  ASSUME WireInv, UNCHANGED W!vars
  PROVE  WireInv'
<1>1. /\ polyline' = polyline /\ record' = record /\ positions' = positions /\ faces' = faces
      /\ drawn' = drawn /\ side' = side /\ edges' = edges /\ skipped' = skipped /\ stage' = stage
  BY DEF W!vars
<1>2. Gathered /\ DrawnTyped
  BY DEF WireInv
<1>3. Gathered'
  BY <1>1, <1>2, ChainStays DEF Gathered, TakenFrom, Members, Rising
<1>4. DrawnTyped'
  <2>1. W!Chain' = W!Chain /\ CornersOf(faces[drawn + 1])' = CornersOf(faces[drawn + 1])
    BY <1>1, ChainStays DEF CornersOf
  <2> QED BY <1>1, <1>2, <2>1 DEF DrawnTyped
<1>5. ASSUME DrawnAre PROVE DrawnAre'
  <2>1. DrawnSides' = DrawnSides
    BY <1>1, SidesThen DEF DrawnSides
  <2>2. stage' = "done" => drawn' = Len(faces')
    BY <1>1, <1>5 DEF DrawnAre
  <2> QED BY <1>1, <1>5, <2>1, <2>2, DrawnSidesStay
<1>6. ASSUME GridIs PROVE GridIs'
  BY <1>1, <1>6, GridStaysAsItIs DEF GridIs
<1> QED BY <1>1, <1>3, <1>4, <1>5, <1>6 DEF WireInv

LEMMA WiresStay ==
  ASSUME WireInv, W!Next \/ UNCHANGED W!vars
  PROVE  WireInv'
<1>1. CASE W!TakeRecord BY <1>1, TakeRecordKeepsWires
<1>2. CASE W!EndChain BY <1>2, GatheringEnds
<1>3. CASE W!DrawSide BY <1>3, DrawSideKeepsWires
<1>4. CASE W!EndFace BY <1>4, EndFaceKeepsWires
<1>5. CASE W!EndFaces BY <1>5, GatheringEnds
<1>6. CASE W!DrawGrid BY <1>6, DrawGridKeepsWires
<1>7. CASE UNCHANGED W!vars BY <1>7, WiresStayAsTheyAre
<1> QED BY <1>1, <1>2, <1>3, <1>4, <1>5, <1>6, <1>7 DEF W!Next
-----------------------------------------------------------------------------
(* A polyface that is done has all its sides done.                         *)
LEMMA FacesAreDone ==
  ASSUME WireInv
  PROVE  W!FacesAreDrawnOrCounted
<1> SUFFICES ASSUME stage = "done", polyline.kind = "pface"
             PROVE  /\ \A e : W!Times(e) = W!Cardinality({x \in W!SidesInUse : W!Drawable(x) /\ W!SideEdge(x) = e})
                    /\ skipped = W!Cardinality({x \in W!SidesInUse : ~W!Drawable(x)})
  BY Zenon DEF W!FacesAreDrawnOrCounted
<1>1. Gathered /\ DrawnAre /\ drawn = Len(faces) /\ stage # "gather"
  BY DEF WireInv, DrawnAre
<1>2. /\ polyline \in W!PolylineType /\ Len(faces) \in Nat /\ DOMAIN faces = 1 .. Len(faces)
      /\ Members(faces) = Faces
  BY <1>1, FacesTaken, NumbersAre
<1>3. DrawnSides = W!SidesInUse
  <2>1. ASSUME NEW x \in W!SidesInUse PROVE x \in DrawnSides
    <3>1. PICK p \in Faces : \E k \in Sides(p) : x = SideAt(p, k)
      BY <1>2, <2>1, SidesOfFace
    <3>2. PICK f \in DOMAIN faces : p = faces[f]
      BY <1>2, <3>1 DEF Members
    <3>3. f <= drawn
      BY <1>1, <1>2, <3>2
    <3> QED BY <2>1, <3>1, <3>2, <3>3 DEF DrawnSides
  <2>2. \A x \in DrawnSides : x \in W!SidesInUse
    BY DEF DrawnSides
  <2> QED BY <2>1, <2>2
<1>4. \A e : DrawnAs(e) = {x \in W!SidesInUse : W!Drawable(x) /\ W!SideEdge(x) = e}
  BY <1>3, Zenon DEF DrawnAs
<1>5. PassedOver = {x \in W!SidesInUse : ~W!Drawable(x)}
  BY <1>3, Zenon DEF PassedOver
<1>6. (\A e : W!Times(e) = Cardinality(DrawnAs(e))) /\ skipped = Cardinality(PassedOver)
  BY <1>1 DEF DrawnAre
<1>7. \A s : W!Cardinality(s) = Cardinality(s)
  BY CountsAre
<1> QED BY <1>4, <1>5, <1>6, <1>7, Zenon

(* The neighbours of a grid: a row down, and a column on.                  *)
PairsDown ==
  {p \in W!Places \X W!Places : p[1][2] = p[2][2] /\ p[1][1] < W!RowsJoined /\ p[2][1] = (p[1][1] + 1) % W!M}
PairsAcross ==
  {p \in W!Places \X W!Places : p[1][1] = p[2][1] /\ p[1][2] < W!ColumnsJoined /\ p[2][2] = (p[1][2] + 1) % W!N}

LEMMA NeighboursAre ==
  ASSUME polyline \in W!PolylineType
  PROVE  W!Neighbours = PairsDown \cup PairsAcross
<1>1. ASSUME NEW p \in W!Places \X W!Places
      PROVE  p \in W!Neighbours <=> p \in PairsDown \/ p \in PairsAcross
  <2>1. p[1][1] \in 0 .. W!M - 1 /\ p[1][2] \in 0 .. W!N - 1
    BY <1>1 DEF W!Places
  <2>2. /\ p[2][1] \in W!Follows(p[1][1], W!M, polyline.closedM) <=> p[1][1] < W!RowsJoined /\ p[2][1] = (p[1][1] + 1) % W!M
        /\ p[2][2] \in W!Follows(p[1][2], W!N, polyline.closedN) <=> p[1][2] < W!ColumnsJoined /\ p[2][2] = (p[1][2] + 1) % W!N
    BY <2>1, FollowsAre
  <2> QED BY <2>2 DEF W!Neighbours, PairsDown, PairsAcross
<1>2. W!Neighbours \subseteq W!Places \X W!Places
  BY DEF W!Neighbours
<1>3. PairsDown \cup PairsAcross \subseteq W!Places \X W!Places
  BY DEF PairsDown, PairsAcross
<1> QED BY <1>1, <1>2, <1>3

LEMMA PairsDownAre ==
  ASSUME polyline \in W!PolylineType
  PROVE  \A p : p \in PairsDown <=>
           \E a \in 0 .. W!RowsJoined - 1 : \E b \in 0 .. W!N - 1 : p = <<<<a, b>>, <<(a + 1) % W!M, b>>>>
<1>1. W!M \in Nat /\ W!N \in Nat /\ W!RowsJoined \in 0 .. W!M
  BY GridFigures
<1>2. ASSUME NEW p \in PairsDown
      PROVE  \E a \in 0 .. W!RowsJoined - 1 : \E b \in 0 .. W!N - 1 : p = <<<<a, b>>, <<(a + 1) % W!M, b>>>>
  <2>1. p \in W!Places \X W!Places /\ p[1][2] = p[2][2] /\ p[1][1] < W!RowsJoined /\ p[2][1] = (p[1][1] + 1) % W!M
    BY <1>2 DEF PairsDown
  <2>2. PICK s \in W!Places, t \in W!Places : p = <<s, t>>
    BY <2>1
  <2>3. PICK a \in 0 .. W!M - 1, b \in 0 .. W!N - 1 : s = <<a, b>>
    BY <2>2 DEF W!Places
  <2>4. t = <<(a + 1) % W!M, b>>
    <3>1. PICK c \in 0 .. W!M - 1, h \in 0 .. W!N - 1 : t = <<c, h>>
      BY <2>2 DEF W!Places
    <3>2. p[1] = s /\ p[2] = t
      BY <2>2
    <3>3. s[1] = a /\ s[2] = b /\ t[1] = c /\ t[2] = h
      BY <2>3, <3>1
    <3>4. h = b /\ c = (a + 1) % W!M
      BY <2>1, <3>2, <3>3
    <3> QED BY <3>1, <3>4
  <2>5. a \in 0 .. W!RowsJoined - 1
    <3>1. p[1][1] = a
      BY <2>2, <2>3
    <3> QED BY <1>1, <2>1, <2>3, <3>1
  <2> QED BY <2>2, <2>3, <2>4, <2>5
<1>3. ASSUME NEW a \in 0 .. W!RowsJoined - 1, NEW b \in 0 .. W!N - 1, NEW p, p = <<<<a, b>>, <<(a + 1) % W!M, b>>>>
      PROVE  p \in PairsDown
  <2>1. a \in 0 .. W!M - 1 /\ a < W!RowsJoined
    BY <1>1
  <2>2. PICK c : c = (a + 1) % W!M
    OBVIOUS
  <2>3. c \in 0 .. W!M - 1
    BY <2>1, <2>2, FollowsAre
  <2>4. <<a, b>> \in W!Places /\ <<c, b>> \in W!Places
    BY <2>1, <2>3 DEF W!Places
  <2>5. p = <<<<a, b>>, <<c, b>>>>
    BY <1>3, <2>2
  <2>6. p \in W!Places \X W!Places /\ p[1][2] = b /\ p[2][2] = b /\ p[1][1] = a /\ p[2][1] = c
    BY <2>4, <2>5
  <2> QED BY <2>1, <2>2, <2>6 DEF PairsDown
<1> QED BY <1>2, <1>3

LEMMA PairsAcrossAre ==
  ASSUME polyline \in W!PolylineType
  PROVE  \A p : p \in PairsAcross <=>
           \E a \in 0 .. W!M - 1 : \E b \in 0 .. W!ColumnsJoined - 1 : p = <<<<a, b>>, <<a, (b + 1) % W!N>>>>
<1>1. W!M \in Nat /\ W!N \in Nat /\ W!ColumnsJoined \in 0 .. W!N
  BY GridFigures
<1>2. ASSUME NEW p \in PairsAcross
      PROVE  \E a \in 0 .. W!M - 1 : \E b \in 0 .. W!ColumnsJoined - 1 : p = <<<<a, b>>, <<a, (b + 1) % W!N>>>>
  <2>1. p \in W!Places \X W!Places /\ p[1][1] = p[2][1] /\ p[1][2] < W!ColumnsJoined /\ p[2][2] = (p[1][2] + 1) % W!N
    BY <1>2 DEF PairsAcross
  <2>2. PICK s \in W!Places, t \in W!Places : p = <<s, t>>
    BY <2>1
  <2>3. PICK a \in 0 .. W!M - 1, b \in 0 .. W!N - 1 : s = <<a, b>>
    BY <2>2 DEF W!Places
  <2>4. t = <<a, (b + 1) % W!N>>
    <3>1. PICK c \in 0 .. W!M - 1, h \in 0 .. W!N - 1 : t = <<c, h>>
      BY <2>2 DEF W!Places
    <3>2. p[1] = s /\ p[2] = t
      BY <2>2
    <3>3. s[1] = a /\ s[2] = b /\ t[1] = c /\ t[2] = h
      BY <2>3, <3>1
    <3>4. c = a /\ h = (b + 1) % W!N
      BY <2>1, <3>2, <3>3
    <3> QED BY <3>1, <3>4
  <2>5. b \in 0 .. W!ColumnsJoined - 1
    <3>1. p[1][2] = b
      BY <2>2, <2>3
    <3> QED BY <1>1, <2>1, <2>3, <3>1
  <2> QED BY <2>2, <2>3, <2>4, <2>5
<1>3. ASSUME NEW a \in 0 .. W!M - 1, NEW b \in 0 .. W!ColumnsJoined - 1, NEW p, p = <<<<a, b>>, <<a, (b + 1) % W!N>>>>
      PROVE  p \in PairsAcross
  <2>1. b \in 0 .. W!N - 1 /\ b < W!ColumnsJoined
    BY <1>1
  <2>2. PICK c : c = (b + 1) % W!N
    OBVIOUS
  <2>3. c \in 0 .. W!N - 1
    BY <2>1, <2>2, FollowsAre
  <2>4. <<a, b>> \in W!Places /\ <<a, c>> \in W!Places
    BY <2>1, <2>3 DEF W!Places
  <2>5. p = <<<<a, b>>, <<a, c>>>>
    BY <1>3, <2>2
  <2>6. p \in W!Places \X W!Places /\ p[1][1] = a /\ p[2][1] = a /\ p[1][2] = b /\ p[2][2] = c
    BY <2>4, <2>5
  <2> QED BY <2>1, <2>2, <2>6 DEF PairsAcross
<1> QED BY <1>2, <1>3
(* As many pairs as the loops have rounds.                                 *)
LEMMA AsManyAsRounds ==
  ASSUME NEW P, NEW n \in Nat, NEW f \in [1 .. n -> P], \A j, k \in 1 .. n : f[j] = f[k] => j = k,
         \A p \in P : \E k \in 1 .. n : f[k] = p
  PROVE  IsFiniteSet(P) /\ Cardinality(P) = n
<1>1. f \in Bijection(1 .. n, P)
  BY DEF Bijection, Injection, IsInjective, Surjection
<1>2. ExistsBijection(1 .. n, P)
  BY <1>1, Zenon DEF ExistsBijection
<1> QED BY <1>2, FS_CountingElements, FS_NatBijection

LEMMA DownCounts ==
  ASSUME polyline \in W!PolylineType
  PROVE  IsFiniteSet(PairsDown) /\ Cardinality(PairsDown) = W!RowsJoined * W!N
<1> DEFINE rounds == W!RowsJoined * W!N
           R0(k) == W!Row(k, W!N)
           C0(k) == W!Column(k, W!N)
           f == [k \in 1 .. rounds |-> <<<<R0(k), C0(k)>>, <<(R0(k) + 1) % W!M, C0(k)>>>>]
<1>1. W!N \in Nat /\ W!RowsJoined \in Nat /\ rounds \in Nat
  BY GridFigures
<1>2. \A k \in 1 .. rounds : R0(k) \in 0 .. W!RowsJoined - 1 /\ C0(k) \in 0 .. W!N - 1
                               /\ k = R0(k) * W!N + C0(k) + 1
  BY <1>1, GridOfPlace
<1>3. ASSUME NEW a \in 0 .. W!RowsJoined - 1, NEW b \in 0 .. W!N - 1
      PROVE  \E k \in 1 .. rounds : R0(k) = a /\ C0(k) = b
  BY <1>1, LoopReaches
<1> HIDE DEF R0, C0, rounds
<1>4. f \in [1 .. rounds -> PairsDown]
  <2>1. \A k \in 1 .. rounds : f[k] \in PairsDown
    BY <1>2, PairsDownAre
  <2> QED BY <2>1
<1>5. \A j, k \in 1 .. rounds : f[j] = f[k] => j = k
  <2>1. ASSUME NEW j \in 1 .. rounds, NEW k \in 1 .. rounds, f[j] = f[k] PROVE j = k
    <3>1. f[j][1] = <<R0(j), C0(j)>> /\ f[k][1] = <<R0(k), C0(k)>>
      OBVIOUS
    <3>2. R0(j) = R0(k) /\ C0(j) = C0(k)
      BY <2>1, <3>1
    <3> QED BY <1>2, <3>2
  <2> QED BY <2>1
<1>6. \A p \in PairsDown : \E k \in 1 .. rounds : f[k] = p
  <2>1. ASSUME NEW p \in PairsDown PROVE \E k \in 1 .. rounds : f[k] = p
    <3>1. PICK a \in 0 .. W!RowsJoined - 1, b \in 0 .. W!N - 1 : p = <<<<a, b>>, <<(a + 1) % W!M, b>>>>
      BY <2>1, PairsDownAre
    <3>2. PICK k \in 1 .. rounds : R0(k) = a /\ C0(k) = b
      BY <1>3
    <3> QED BY <3>1, <3>2
  <2> QED BY <2>1
<1> HIDE DEF f
<1>7. IsFiniteSet(PairsDown) /\ Cardinality(PairsDown) = rounds
  BY <1>1, <1>4, <1>5, <1>6, AsManyAsRounds
<1> QED BY <1>7 DEF rounds

LEMMA AcrossCounts ==
  ASSUME polyline \in W!PolylineType
  PROVE  IsFiniteSet(PairsAcross) /\ Cardinality(PairsAcross) = W!M * W!ColumnsJoined
<1> DEFINE rounds == W!M * W!ColumnsJoined
           R0(k) == W!Row(k, W!ColumnsJoined)
           C0(k) == W!Column(k, W!ColumnsJoined)
           f == [k \in 1 .. rounds |-> <<<<R0(k), C0(k)>>, <<R0(k), (C0(k) + 1) % W!N>>>>]
<1>1. W!M \in Nat /\ W!ColumnsJoined \in Nat /\ rounds \in Nat
  BY GridFigures
<1>2. \A k \in 1 .. rounds : R0(k) \in 0 .. W!M - 1 /\ C0(k) \in 0 .. W!ColumnsJoined - 1
                               /\ k = R0(k) * W!ColumnsJoined + C0(k) + 1
  BY <1>1, GridOfPlace
<1>3. ASSUME NEW a \in 0 .. W!M - 1, NEW b \in 0 .. W!ColumnsJoined - 1
      PROVE  \E k \in 1 .. rounds : R0(k) = a /\ C0(k) = b
  BY <1>1, LoopReaches
<1> HIDE DEF R0, C0, rounds
<1>4. f \in [1 .. rounds -> PairsAcross]
  <2>1. \A k \in 1 .. rounds : f[k] \in PairsAcross
    BY <1>2, PairsAcrossAre
  <2> QED BY <2>1
<1>5. \A j, k \in 1 .. rounds : f[j] = f[k] => j = k
  <2>1. ASSUME NEW j \in 1 .. rounds, NEW k \in 1 .. rounds, f[j] = f[k] PROVE j = k
    <3>1. f[j][1] = <<R0(j), C0(j)>> /\ f[k][1] = <<R0(k), C0(k)>>
      OBVIOUS
    <3>2. R0(j) = R0(k) /\ C0(j) = C0(k)
      BY <2>1, <3>1
    <3> QED BY <1>2, <3>2
  <2> QED BY <2>1
<1>6. \A p \in PairsAcross : \E k \in 1 .. rounds : f[k] = p
  <2>1. ASSUME NEW p \in PairsAcross PROVE \E k \in 1 .. rounds : f[k] = p
    <3>1. PICK a \in 0 .. W!M - 1, b \in 0 .. W!ColumnsJoined - 1 : p = <<<<a, b>>, <<a, (b + 1) % W!N>>>>
      BY <2>1, PairsAcrossAre
    <3>2. PICK k \in 1 .. rounds : R0(k) = a /\ C0(k) = b
      BY <1>3
    <3> QED BY <3>1, <3>2
  <2> QED BY <2>1
<1> HIDE DEF f
<1>7. IsFiniteSet(PairsAcross) /\ Cardinality(PairsAcross) = rounds
  BY <1>1, <1>4, <1>5, <1>6, AsManyAsRounds
<1> QED BY <1>7 DEF rounds

(* No pair is both once there are two rows.                                *)
LEMMA NeighboursCount ==
  ASSUME polyline \in W!PolylineType, W!M > 1
  PROVE  Cardinality(W!Neighbours) = W!EdgeCount
<1>1. PairsDown \cap PairsAcross = {}
  <2> SUFFICES ASSUME NEW p, p \in PairsDown, p \in PairsAcross PROVE FALSE
    OBVIOUS
  <2>1. p[1][1] = p[2][1] /\ p[2][1] = (p[1][1] + 1) % W!M /\ p \in W!Places \X W!Places
    BY DEF PairsDown, PairsAcross
  <2>2. p[1][1] \in 0 .. W!M - 1
    BY <2>1 DEF W!Places
  <2> QED BY <2>1, <2>2, FollowsAre
<1>2. /\ IsFiniteSet(PairsDown) /\ Cardinality(PairsDown) = W!RowsJoined * W!N
      /\ IsFiniteSet(PairsAcross) /\ Cardinality(PairsAcross) = W!M * W!ColumnsJoined
  BY DownCounts, AcrossCounts
<1>3. Cardinality(PairsDown \cup PairsAcross) =
        Cardinality(PairsDown) + Cardinality(PairsAcross) - Cardinality(PairsDown \cap PairsAcross)
  BY <1>2, FS_Union
<1>4. W!Neighbours = PairsDown \cup PairsAcross
  BY NeighboursAre
<1>5. Cardinality(PairsDown \cap PairsAcross) = 0
  BY <1>1, FS_EmptySet
<1>6. W!RowsJoined * W!N \in Int /\ W!M * W!ColumnsJoined \in Int
  BY <1>2, FS_CardinalityType
<1> QED BY <1>2, <1>3, <1>4, <1>5, <1>6 DEF W!EdgeCount

LEMMA JoinedMembers ==
  ASSUME NEW X, NEW s \in Seq(X), NEW t \in Seq(X)
  PROVE  Members(s \o t) = Members(s) \cup Members(t) /\ Len(s \o t) = Len(s) + Len(t)
<1>1. /\ Len(s) \in Nat /\ Len(t) \in Nat /\ DOMAIN s = 1 .. Len(s) /\ DOMAIN t = 1 .. Len(t)
      /\ DOMAIN (s \o t) = 1 .. Len(s) + Len(t) /\ Len(s \o t) = Len(s) + Len(t)
  OBVIOUS
<1>2. \A k \in DOMAIN s : k \in DOMAIN (s \o t) /\ (s \o t)[k] = s[k]
  BY <1>1
<1>3. \A k \in DOMAIN t : Len(s) + k \in DOMAIN (s \o t) /\ (s \o t)[Len(s) + k] = t[k]
  BY <1>1
<1>4. \A k \in DOMAIN (s \o t) : k \in DOMAIN s \/ (k - Len(s) \in DOMAIN t /\ Len(s) + (k - Len(s)) = k)
  BY <1>1
<1>5. Members(s) \cup Members(t) \subseteq Members(s \o t)
  BY <1>2, <1>3 DEF Members
<1>6. ASSUME NEW y \in Members(s \o t) PROVE y \in Members(s) \cup Members(t)
  <2>1. PICK k \in DOMAIN (s \o t) : y = (s \o t)[k]
    BY <1>6 DEF Members
  <2>2. CASE k \in DOMAIN s
    BY <1>2, <2>1, <2>2 DEF Members
  <2>3. CASE k \notin DOMAIN s
    <3>1. k - Len(s) \in DOMAIN t /\ Len(s) + (k - Len(s)) = k
      BY <1>4, <2>3
    <3>2. y = t[k - Len(s)]
      BY <1>3, <2>1, <3>1
    <3> QED BY <3>1, <3>2 DEF Members
  <2> QED BY <2>2, <2>3
<1> QED BY <1>1, <1>5, <1>6

(* A grid that is drawn joins its neighbours, one that is not is counted.  *)
LEMMA MeshIsDone ==
  ASSUME WireInv
  PROVE  W!MeshIsWholeOrCounted
<1> DEFINE whole == W!Cardinality(W!VertexRecords) = W!M * W!N /\ W!M * W!N > 0
           Ends(p) == <<W!RecordAt(p[1]), W!RecordAt(p[2])>>
<1> SUFFICES ASSUME stage = "done", polyline.kind = "mesh"
             PROVE  /\ whole => {edges[k] : k \in DOMAIN edges} = {Ends(p) : p \in W!Neighbours}
                    /\ ~whole => edges = <<>>
                    /\ W!M > 1 /\ W!N > 1 => Len(edges) + skipped = W!Cardinality(W!Neighbours)
  BY Zenon DEF W!MeshIsWholeOrCounted
<1>1. Gathered /\ GridIs /\ stage # "gather"
  BY DEF WireInv
<1>2. polyline \in W!PolylineType /\ positions \in Seq(DOMAIN W!Chain) /\ Len(positions) \in Nat
  BY <1>1 DEF Gathered, TakenFrom
<1>3. /\ W!M \in Nat /\ W!N \in Nat /\ W!RowsJoined \in 0 .. W!M /\ W!ColumnsJoined \in 0 .. W!N
      /\ W!EdgeCount \in Nat
  BY <1>2, GridFigures
<1>10. /\ \A a \in 0 .. W!M - 1 : (a + 1) % W!M \in 0 .. W!M - 1
       /\ \A b \in 0 .. W!N - 1 : (b + 1) % W!N \in 0 .. W!N - 1
  BY <1>2, FollowsAre
<1>4. whole <=> W!IsGrid
  <2>1. W!Cardinality(W!VertexRecords) = Len(positions)
    BY <1>1, NumbersAre, CountsAre
  <2>2. positions # <<>> <=> Len(positions) > 0
    BY <1>2
  <2> QED BY <1>2, <2>1, <2>2 DEF W!IsGrid
<1>5. ASSUME W!IsGrid PROVE Members(edges) = {Ends(p) : p \in W!Neighbours}
  <2>1. edges = W!DownEdges \o W!AcrossEdges
    BY <1>1, <1>5 DEF GridIs
  <2>2. Members(edges) = Members(W!DownEdges) \cup Members(W!AcrossEdges)
    BY <1>1, <1>5, <2>1, DownEdgesAre, AcrossEdgesAre, JoinedMembers
  <2>3. \A a \in 0 .. W!M - 1 : \A b \in 0 .. W!N - 1 : W!RecordAt(<<a, b>>) = W!Vertex(a, b)
    <3>1. ASSUME NEW a \in 0 .. W!M - 1, NEW b \in 0 .. W!N - 1 PROVE W!RecordAt(<<a, b>>) = W!Vertex(a, b)
      <4>1. a * W!N + b + 1 \in DOMAIN positions
        BY <1>1, <1>5, GridOfVertices
      <4>2. PICK n : n = a * W!N + b + 1
        OBVIOUS
      <4>3. W!Numbered(n) = positions[n]
        BY <1>1, <4>1, <4>2, NumbersAre
      <4> QED BY <4>2, <4>3 DEF W!RecordAt, W!Vertex
    <3> QED BY <3>1
  <2>4. ASSUME NEW a \in 0 .. W!RowsJoined - 1, NEW b \in 0 .. W!N - 1, NEW p, p = <<<<a, b>>, <<(a + 1) % W!M, b>>>>
        PROVE  Ends(p) = <<W!Vertex(a, b), W!Vertex((a + 1) % W!M, b)>>
    <3>1. a \in 0 .. W!M - 1 /\ (a + 1) % W!M \in 0 .. W!M - 1
      BY <1>3, <1>10
    <3>2. p[1] = <<a, b>> /\ p[2] = <<(a + 1) % W!M, b>>
      BY <2>4
    <3>3. W!RecordAt(<<a, b>>) = W!Vertex(a, b) /\ W!RecordAt(<<(a + 1) % W!M, b>>) = W!Vertex((a + 1) % W!M, b)
      BY <2>3, <3>1
    <3> QED BY <3>2, <3>3
  <2>5. ASSUME NEW a \in 0 .. W!M - 1, NEW b \in 0 .. W!ColumnsJoined - 1, NEW p, p = <<<<a, b>>, <<a, (b + 1) % W!N>>>>
        PROVE  Ends(p) = <<W!Vertex(a, b), W!Vertex(a, (b + 1) % W!N)>>
    <3>1. b \in 0 .. W!N - 1 /\ (b + 1) % W!N \in 0 .. W!N - 1
      BY <1>3, <1>10
    <3>2. p[1] = <<a, b>> /\ p[2] = <<a, (b + 1) % W!N>>
      BY <2>5
    <3>3. W!RecordAt(<<a, b>>) = W!Vertex(a, b) /\ W!RecordAt(<<a, (b + 1) % W!N>>) = W!Vertex(a, (b + 1) % W!N)
      BY <2>3, <3>1
    <3> QED BY <3>2, <3>3
  <2> HIDE DEF Ends
  <2>6. ASSUME NEW e PROVE e \in Members(W!DownEdges) <=> \E p \in PairsDown : e = Ends(p)
    <3>1. ASSUME e \in Members(W!DownEdges) PROVE \E p \in PairsDown : e = Ends(p)
      <4>1. PICK a \in 0 .. W!RowsJoined - 1, b \in 0 .. W!N - 1 : e = <<W!Vertex(a, b), W!Vertex((a + 1) % W!M, b)>>
        BY <1>1, <1>5, <3>1, DownEdgesAre
      <4>2. PICK p : p = <<<<a, b>>, <<(a + 1) % W!M, b>>>>
        OBVIOUS
      <4>3. p \in PairsDown
        BY <1>2, <4>2, PairsDownAre
      <4>4. e = Ends(p)
        BY <2>4, <4>1, <4>2
      <4> QED BY <4>3, <4>4
    <3>2. ASSUME NEW p \in PairsDown, e = Ends(p) PROVE e \in Members(W!DownEdges)
      <4>1. PICK a \in 0 .. W!RowsJoined - 1, b \in 0 .. W!N - 1 : p = <<<<a, b>>, <<(a + 1) % W!M, b>>>>
        BY <1>2, <3>2, PairsDownAre
      <4>2. e = <<W!Vertex(a, b), W!Vertex((a + 1) % W!M, b)>>
        BY <2>4, <3>2, <4>1
      <4> QED BY <1>1, <1>5, <4>2, DownEdgesAre
    <3> QED BY <3>1, <3>2
  <2>7. ASSUME NEW e PROVE e \in Members(W!AcrossEdges) <=> \E p \in PairsAcross : e = Ends(p)
    <3>1. ASSUME e \in Members(W!AcrossEdges) PROVE \E p \in PairsAcross : e = Ends(p)
      <4>1. PICK a \in 0 .. W!M - 1, b \in 0 .. W!ColumnsJoined - 1 : e = <<W!Vertex(a, b), W!Vertex(a, (b + 1) % W!N)>>
        BY <1>1, <1>5, <3>1, AcrossEdgesAre
      <4>2. PICK p : p = <<<<a, b>>, <<a, (b + 1) % W!N>>>>
        OBVIOUS
      <4>3. p \in PairsAcross
        BY <1>2, <4>2, PairsAcrossAre
      <4>4. e = Ends(p)
        BY <2>5, <4>1, <4>2
      <4> QED BY <4>3, <4>4
    <3>2. ASSUME NEW p \in PairsAcross, e = Ends(p) PROVE e \in Members(W!AcrossEdges)
      <4>1. PICK a \in 0 .. W!M - 1, b \in 0 .. W!ColumnsJoined - 1 : p = <<<<a, b>>, <<a, (b + 1) % W!N>>>>
        BY <1>2, <3>2, PairsAcrossAre
      <4>2. e = <<W!Vertex(a, b), W!Vertex(a, (b + 1) % W!N)>>
        BY <2>5, <3>2, <4>1
      <4> QED BY <1>1, <1>5, <4>2, AcrossEdgesAre
    <3> QED BY <3>1, <3>2
  <2>8. W!Neighbours = PairsDown \cup PairsAcross
    BY <1>2, NeighboursAre
  <2>9. \A e : e \in Members(edges) <=> e \in {Ends(p) : p \in W!Neighbours}
    BY <2>2, <2>6, <2>7, <2>8
  <2> QED BY <2>9
<1>6. ASSUME W!IsGrid PROVE Len(edges) + skipped = W!EdgeCount
  <2>1. edges = W!DownEdges \o W!AcrossEdges /\ skipped = 0
    BY <1>1, <1>6 DEF GridIs
  <2>2. Len(W!DownEdges) = W!RowsJoined * W!N /\ Len(W!AcrossEdges) = W!M * W!ColumnsJoined
    BY <1>1, <1>6, DownEdgesAre, AcrossEdgesAre
  <2>3. Len(edges) = Len(W!DownEdges) + Len(W!AcrossEdges)
    BY <1>1, <1>6, <2>1, DownEdgesAre, AcrossEdgesAre, JoinedMembers
  <2>4. Len(edges) = W!EdgeCount
    BY <2>2, <2>3 DEF W!EdgeCount
  <2> QED BY <1>3, <2>1, <2>4
<1>7. ASSUME ~W!IsGrid PROVE edges = <<>> /\ Len(edges) + skipped = W!EdgeCount
  <2>1. edges = <<>> /\ skipped = W!EdgeCount
    BY <1>1, <1>7 DEF GridIs
  <2> QED BY <1>3, <2>1
<1>8. W!M > 1 /\ W!N > 1 => W!Cardinality(W!Neighbours) = W!EdgeCount
  BY <1>2, NeighboursCount, CountsAre
<1>9. Members(edges) = {edges[k] : k \in DOMAIN edges}
  BY DEF Members
<1> HIDE DEF whole, Ends
<1> QED BY <1>4, <1>5, <1>6, <1>7, <1>8, <1>9
-----------------------------------------------------------------------------
LEMMA WireSteps ==
  ASSUME part = "wireframe"
  PROVE  /\ ConversionInit => W!Init
         /\ PartStep => W!Next \/ UNCHANGED W!vars
<1>1. ConversionInit => W!Init
  BY DEF ConversionInit, RecordInit
<1>2. PartStep => W!Next \/ UNCHANGED W!vars
  BY DEF PartStep, ConversionNext, RecordNext, conversionVars, wireVars, W!vars
<1> QED BY <1>1, <1>2

WirePart == part = "wireframe" => WireInv

LEMMA WiresHold == ConversionSpec => []WirePart
<1>1. ConversionInit => WirePart
  BY WireSteps, WireBegins DEF WirePart
<1>2. WirePart /\ [ConversionNext]_conversionVars => WirePart'
  <2> SUFFICES ASSUME WirePart, PartStep, part' = "wireframe" PROVE WireInv'
    BY DEF PartStep, WirePart
  <2>1. part = "wireframe" /\ WireInv
    BY PartsStay DEF WirePart
  <2> QED BY <2>1, WireSteps, WiresStay
<1> QED BY <1>1, <1>2, PTL DEF ConversionSpec

(* `WireframesAreDrawn`, for polylines of any number of records: each side *)
(* of a polyface's face whose corners are vertices of the chain is an edge *)
(* between them and every other is counted, and a polygon mesh is drawn    *)
(* whole, its edges the neighbours of the grid, or counted whole.          *)
THEOREM WireframesAreWhole == ConversionSpec => []WireframesAreDrawn
<1>1. WirePart => WireframesAreDrawn
  BY FacesAreDone, MeshIsDone DEF WirePart, WireframesAreDrawn
<1> QED BY <1>1, WiresHold, PTL

LEMMA WireTyped ==
  ASSUME WireInv, polyline \in Polylines
  PROVE  W!TypeOK
<1>1. Gathered /\ DrawnTyped /\ polyline \in W!PolylineType
  BY DEF WireInv, Gathered
<1>2. /\ DOMAIN W!Chain = 1 .. Len(W!Chain) /\ positions \in Seq(DOMAIN W!Chain)
      /\ faces \in Seq(DOMAIN W!Chain) /\ record \in 1 .. Len(W!Chain) + 1
      /\ stage \in {"gather", "draw", "done"}
  BY <1>1, ChainIs DEF Gathered, TakenFrom
<1>3. positions \in Seq(1 .. Len(W!Chain)) /\ faces \in Seq(1 .. Len(W!Chain))
  BY <1>2
<1>4. side \in 0 .. 4
  <2>1. side \in Nat /\ drawn \in 0 .. Len(faces) /\ (drawn = Len(faces) => side = 0)
        /\ (drawn < Len(faces) => side <= W!SideCount(CornersOf(faces[drawn + 1])))
    BY <1>1 DEF DrawnTyped
  <2>2. CASE drawn = Len(faces)
    BY <2>1, <2>2
  <2>3. CASE drawn # Len(faces)
    <3>1. drawn < Len(faces) /\ drawn + 1 \in DOMAIN faces
      BY <1>2, <2>1, <2>3
    <3>2. PICK p : p = faces[drawn + 1]
      OBVIOUS
    <3>3. p \in Faces
      BY <1>1, <3>1, <3>2, FacesTaken
    <3>4. W!SideCount(CornersOf(p)) \in 0 .. 4
      BY <1>1, <3>3, FaceIs
    <3> QED BY <2>1, <3>1, <3>2, <3>4
  <2> QED BY <2>2, <2>3
<1> QED BY <1>1, <1>2, <1>3, <1>4 DEF DrawnTyped, W!TypeOK

-----------------------------------------------------------------------------
(* The types of each part's state.                                         *)
LEMMA LayerIsTyped ==
  ASSUME LayerInv
  PROVE  L!TypeOK
BY DEF LayerInv, LayerStruct, LayerIndex, L!TypeOK

LEMMA LeadersAreTyped ==
  ASSUME LeaderInv
  PROVE  M!TypeOK
<1>1. LeadersTyped
  BY DEF LeaderInv
<1>2. M!AllLines \subseteq Nat \X Nat
  <2>1. \A p : p \in M!AllLines => p \in LinePlaces
    BY <1>1, LinesAre DEF LeadersTyped
  <2> QED BY <2>1 DEF LinePlaces
<1>3. ASSUME NEW X, NEW Y, X \subseteq Y PROVE Seq(X) \subseteq Seq(Y)
  BY <1>3
<1>4. Seq(M!AllLines) \subseteq Seq(Nat \X Nat)
  BY <1>2, <1>3
<1>5. Seq(Seq(M!AllLines)) \subseteq Seq(Seq(Nat \X Nat))
  BY <1>3, <1>4
<1>6. w2.copied \in Seq(Nat \X Nat) /\ w2.size \in Nat
  BY <1>1, <1>4 DEF LeadersTyped
<1>7. w4.roots \in Seq(Seq(Nat \X Nat)) /\ w4.own \in Seq(Nat \X Nat)
  BY <1>1, <1>4, <1>5 DEF LeadersTyped
<1>8. w6 \in Nat \X Nat /\ w3 \in Nat \ {0} /\ w5 \in [at : M!Stages, short : BOOLEAN]
  BY <1>1 DEF LeadersTyped, LinePlaces
<1> QED BY <1>6, <1>7, <1>8 DEF M!TypeOK

LEMMA StyleBeginsTyped ==
  ASSUME S!Init
  PROVE  S!TypeOK
<1>1. w1 \in S!EntityType
  BY ConversionAssumption DEF S!Init
<1> QED BY <1>1 DEF S!Init, S!TypeOK, S!Zeros, S!LineTypes

LEMMA StyleStaysTyped ==
  ASSUME StyleInv, S!TypeOK, S!Next \/ UNCHANGED S!vars
  PROVE  S!TypeOK'
<1>1. /\ w1 \in S!EntityType /\ w1.linetype \in S!LineTypes /\ w1.scale \in Nat /\ w1.index \in 0 .. 256
      /\ S!FlagsFor[w1.linetype] \in 0 .. 3
  BY DEF StyleInv, S!EntityType, S!LineTypes, S!FlagsFor
<1>2. CASE S!DecodeOld
  <2> DEFINE colour == IF w1.index = 256 THEN w2.color_r11 ELSE w1.index
             line == IF w1.linetype = "BYLAYER" THEN w2.ltype ELSE w1.linetype
  <2>1. w2' = [w2 EXCEPT !.color_r11 = colour, !.ltype = line] /\ w1' = w1 /\ w3' = "convert"
    BY <1>2 DEF S!DecodeOld
  <2>2. colour \in 0 .. 256 /\ line \in S!LineTypes \cup {"null"}
    BY <1>1 DEF S!TypeOK
  <2> HIDE DEF colour, line
  <2> QED BY <1>1, <2>1, <2>2 DEF S!TypeOK, S!Zeros
<1>3. CASE S!DecodeData
  <2>1. w2' = [w2 EXCEPT
               !.index = w1.index, !.inline = w1.direct = "rgb", !.handle = w1.direct = "book",
               !.rgb = IF w1.direct = "rgb" THEN "rgb" ELSE @,
               !.alpha_raw = w1.alpha, !.ltype_scale = w1.scale, !.ltype_flags = StyleFlags,
               !.linewt = IF S!Since("R_2000") THEN w1.weight ELSE @]
    BY <1>3, Zenon DEF S!DecodeData, StyleFlags
  <2>2. StyleFlags \in 0 .. 3 /\ w1' = w1 /\ w3' = "handles"
    BY <1>1, <1>3 DEF StyleFlags, S!DecodeData
  <2>3. /\ DOMAIN w2' = DOMAIN S!Zeros /\ w2'.index = w1.index /\ w2'.ltype_scale = w1.scale
        /\ w2'.ltype_flags = StyleFlags /\ w2'.ltype = w2.ltype /\ w2'.color_r11 = w2.color_r11
    BY <2>1 DEF S!TypeOK, S!Zeros
  <2> QED BY <1>1, <2>2, <2>3 DEF S!TypeOK
<1>4. CASE S!DecodeHandles
  <2> DEFINE line == IF w2.ltype_flags = 3 THEN w1.linetype ELSE w2.ltype
  <2>1. w2' = [w2 EXCEPT !.ltype = line] /\ w1' = w1 /\ w3' = "convert"
    BY <1>4 DEF S!DecodeHandles
  <2>2. line \in S!LineTypes \cup {"null"}
    BY <1>1 DEF S!TypeOK
  <2> HIDE DEF line
  <2> QED BY <1>1, <2>1, <2>2 DEF S!TypeOK, S!Zeros
<1>5. CASE S!Convert
  BY <1>5 DEF S!Convert, S!TypeOK
<1>6. CASE UNCHANGED S!vars
  BY <1>6 DEF S!vars, S!TypeOK
<1> QED BY <1>2, <1>3, <1>4, <1>5, <1>6 DEF S!Next

LEMMA HeaderStaysTyped ==
  ASSUME HeaderInv, H!TypeOK, H!Next \/ UNCHANGED H!vars
  PROVE  H!TypeOK'
<1>1. w1 \in H!DwgType /\ Len(H!RunsBeforeR13) = 12
  BY RunsAre DEF HeaderInv
<1>2. CASE H!DecodeRun
  <2>1. /\ w2 \in 1 .. Len(H!Runs(w1)) /\ w1' = w1 /\ w4' = w4
        /\ w3' = w3 \cup (IF H!AtLeast(w1.release, H!This.since) THEN H!This.names ELSE {})
        /\ w2' = IF H!Ends(H!This) THEN Len(H!Runs(w1)) + 1 ELSE w2 + 1
    BY <1>2 DEF H!DecodeRun, H!Decoding
  <2>2. Len(H!Runs(w1)) \in 1 .. 12
    BY <1>1, RunsOfDwg
  <2>3. H!This.names \subseteq H!Names
    <3>1. CASE Old
      <4>1. ASSUME NEW name \in H!This.names PROVE PlaceOf(name) \in 1 .. 12
        BY <1>1, <2>1, <3>1, RunsOfDwg, RunsAre DEF H!This
      <4>2. ASSUME NEW name, PlaceOf(name) \in 1 .. 12 PROVE name \in H!Names
        BY <4>2 DEF PlaceOf, H!Names
      <4> QED BY <4>1, <4>2
    <3>2. CASE ~Old
      <4>1. H!FromR2000 \subseteq H!Names
        BY DEF H!FromR2000, H!Names
      <4>2. w2 \in 1 .. 2 /\ H!This = H!RunsFromR13[w2]
        BY <1>1, <2>1, <3>2, RunsOfDwg DEF H!This
      <4>3. w2 = 1 \/ w2 = 2
        BY <4>2
      <4> QED BY <4>1, <4>2, <4>3, RunsAre
    <3> QED BY <3>1, <3>2
  <2>4. w2' \in 0 .. 13
    <3>1. PICK n \in 1 .. 12 : n = Len(H!Runs(w1))
      BY <2>2
    <3>2. w2' = n + 1 \/ w2' = w2 + 1
      BY <2>1, <3>1
    <3>3. w2 \in 1 .. n
      BY <2>1, <3>1
    <3> QED BY <3>2, <3>3
  <2>5. w3' \subseteq H!Names
    <3>1. w3 \subseteq H!Names
      BY DEF H!TypeOK
    <3> QED BY <2>1, <2>3, <3>1
  <2>6. w1' \in Dwgs /\ w4' \subseteq H!Names
    BY <2>1 DEF H!TypeOK
  <2> QED BY <1>1, <2>4, <2>5, <2>6 DEF H!TypeOK
<1>3. CASE H!ReadHeader
  <2>1. "MEASUREMENT" \in H!Names
    BY DEF H!Names
  <2> QED BY <1>1, <1>3, <2>1 DEF H!ReadHeader, H!TypeOK
<1>4. CASE UNCHANGED H!vars
  BY <1>4 DEF H!vars, H!TypeOK
<1> QED BY <1>2, <1>3, <1>4 DEF H!Next

LEMMA HeaderBeginsTyped ==
  ASSUME H!Init
  PROVE  H!TypeOK
BY RunsAre DEF H!Init, H!TypeOK

LEMMA GridBeginsTyped ==
  ASSUME G!Init
  PROVE  G!TypeOK
<1>1. GridInv
  BY GridBegins
<1>2. G!Count \in Nat
  BY <1>1, GridTyped
<1> QED BY <1>2 DEF G!Init, G!TypeOK, G!Pending

LEMMA GridStaysTyped ==
  ASSUME GridInv, G!TypeOK, G!Next \/ UNCHANGED G!vars
  PROVE  G!TypeOK'
<1> DEFINE Outcome == [grid : {"pending", "none", "grid"}, warned : SUBSET {"TABLE_GRID", "TABLE_CELL_TEXT"}]
<1>1. w3 \in Seq(CellsRead) /\ w4 \in Nat /\ G!Count \in Nat /\ Len(w3) \in Nat
  BY GridTyped DEF GridInv
<1>2. w1' = w1
  BY DEF G!Next, G!NoGridStated, G!CopyCells, G!SpanLeavesTheGrid, G!ReadCell, G!FinishGrid, G!vars
<1>3. G!Count' = G!Count
  BY <1>2 DEF G!Count
<1>4. /\ G!None \in Outcome /\ G!NoneBecause("TABLE_GRID") \in Outcome
      /\ G!NoneBecause("TABLE_CELL_TEXT") \in Outcome /\ [grid |-> "grid", warned |-> {}] \in Outcome
  BY DEF G!None, G!NoneBecause
<1>5. /\ w2 \in {"counts", "cells", "done"} /\ Len(w3) <= G!Count /\ w4 <= Len(w3) /\ w5 \in Outcome
  BY DEF G!TypeOK
<1>6. ASSUME w2' \in {"counts", "cells", "done"}, Len(w3') <= G!Count', w4' <= Len(w3'), w5' \in Outcome
      PROVE  G!TypeOK'
  BY <1>6 DEF G!TypeOK
<1> HIDE DEF Outcome
<1>7. CASE G!NoGridStated
  BY <1>3, <1>4, <1>5, <1>6, <1>7 DEF G!NoGridStated
<1>8. CASE G!CopyCells
  BY <1>3, <1>4, <1>5, <1>6, <1>8 DEF G!CopyCells
<1>9. CASE G!SpanLeavesTheGrid
  BY <1>3, <1>4, <1>5, <1>6, <1>9 DEF G!SpanLeavesTheGrid
<1>10. CASE G!ReadCell
  <2> DEFINE new == [kind |-> G!Kind(G!Cell), text |-> G!CellText(G!Cell), covered |-> G!Cell.merged,
                     columns |-> G!Cell.columns, rows |-> G!Cell.rows]
  <2>1. w3' = Append(w3, new) /\ Len(w3) < G!Count /\ w2' = w2 /\ w5' = w5
        /\ w4' = IF G!IsUnread(G!Cell) THEN w4 + 1 ELSE w4
    BY <1>10 DEF G!ReadCell, G!ReadingCell
  <2> HIDE DEF new
  <2>2. Len(w3') = Len(w3) + 1
    BY <1>1, <2>1
  <2>3. w4' <= Len(w3')
    <3>1. CASE G!IsUnread(G!Cell)
      BY <1>1, <1>5, <2>1, <2>2, <3>1
    <3>2. CASE ~G!IsUnread(G!Cell)
      BY <1>1, <1>5, <2>1, <2>2, <3>2
    <3> QED BY <3>1, <3>2
  <2>4. Len(w3') <= G!Count'
    BY <1>1, <1>3, <2>1, <2>2
  <2> QED BY <1>5, <1>6, <2>1, <2>3, <2>4
<1>11. CASE G!FinishGrid
  BY <1>3, <1>4, <1>5, <1>6, <1>11 DEF G!FinishGrid
<1>12. CASE UNCHANGED G!vars
  BY <1>3, <1>5, <1>6, <1>12 DEF G!vars
<1> QED BY <1>7, <1>8, <1>9, <1>10, <1>11, <1>12 DEF G!Next

LEMMA NamesBeginTyped ==
  ASSUME Init
  PROVE  TypeOK
<1>1. NamesInv
  BY NamesBegin
<1>2. d \in Drawings /\ records = <<>>
  BY DEF Init
<1>3. /\ header \in [Block -> Name \cup {NoName}] /\ entity \in [Block -> Name \cup {NoName, Empty, Unlinked}]
      /\ highest \in [Letters -> Nat] /\ phase \in {"count", "number", "take", "done"}
      /\ at \in Block /\ fresh \subseteq Block
  BY <1>1 DEF NamesInv, NamesTyped, HeaderName, EntityName
<1>4. DOMAIN records = {}
  BY <1>2
<1> QED BY <1>2, <1>3, <1>4 DEF TypeOK

(* A record's name is a name, with a number of the table perhaps.          *)
LEMMA KeysAreNames ==
  ASSUME NamesInv, NEW b \in Block, BlockRecordName(b) # NoName
  PROVE  RecordName(b) \in Key
<1>1. header[b] \in HeaderName /\ entity[b] \in EntityName
  BY DEF NamesInv, NamesTyped
<1>2. BlockRecordName(b) \in Name
  BY <1>1 DEF BlockRecordName, HeaderName, EntityName
<1>3. BlockRecordName(b) \in Key
  BY <1>2 DEF Name, Key
<1>4. CASE d.preR13 /\ InTable(b)
  <2>1. d.table \in Seq(0 .. Blocks)
    BY DEF NamesInv, NamesTyped, Drawing
  <2>2. Answers(b) \subseteq Nat /\ Answers(b) # {}
    BY <1>4, <2>1 DEF Answers, InTable
  <2>3. \E k \in Answers(b) : \A j \in Answers(b) : k <= j
    BY <2>2, LeastExists, Zenon
  <2>4. TableIndex(b) \in Int
    <3> DEFINE least == CHOOSE k \in Answers(b) : \A j \in Answers(b) : k <= j
    <3>1. least \in Answers(b)
      BY <2>3, Zenon
    <3>2. TableIndex(b) = least - 1
      BY DEF TableIndex
    <3> HIDE DEF least
    <3> QED BY <2>2, <3>1, <3>2
  <2>5. ASSUME NEW n \in Key, NEW k \in Int PROVE PreR13BlockName(n, k) \in Key
    BY <2>5 DEF PreR13BlockName, Key
  <2>6. RecordName(b) = PreR13BlockName(BlockRecordName(b), TableIndex(b))
    BY <1>4 DEF RecordName
  <2> QED BY <1>3, <2>4, <2>5, <2>6
<1>5. CASE ~(d.preR13 /\ InTable(b))
  BY <1>3, <1>5 DEF RecordName
<1> QED BY <1>4, <1>5

LEMMA NamesStayTyped ==
  ASSUME NamesInv, NamesInv', TypeOK, Next \/ UNCHANGED vars
  PROVE  TypeOK'
<1>1. d' = d
  BY DEF Next, CountNumbers, KeepName, TakeOwnNumber, TakeNextNumber, TakeBlock, vars
<1>2. /\ header' \in [Block -> Name \cup {NoName}] /\ entity' \in [Block -> Name \cup {NoName, Empty, Unlinked}]
      /\ highest' \in [Letters -> Nat] /\ phase' \in {"count", "number", "take", "done"}
      /\ at' \in Block /\ fresh' \subseteq Block
  BY DEF NamesInv, NamesTyped, HeaderName, EntityName
<1>3. DOMAIN records' \subseteq Key /\ \A n \in DOMAIN records' : records'[n] \in Block
  <2>1. DOMAIN records \subseteq Key /\ \A n \in DOMAIN records : records[n] \in Block
    BY DEF TypeOK
  <2>2. CASE records' = records
    BY <2>1, <2>2
  <2>3. CASE records' # records
    <3>1. BlockRecordName(at) # NoName /\ records' = Inserted(RecordName(at), at)
      BY <2>3 DEF Next, CountNumbers, KeepName, TakeOwnNumber, TakeNextNumber, TakeBlock, vars
    <3>2. at \in Block /\ RecordName(at) \in Key
      BY <3>1, KeysAreNames DEF NamesInv, NamesTyped
    <3> QED BY <2>1, <3>1, <3>2 DEF Inserted
  <2> QED BY <2>2, <2>3
<1>4. d' \in Drawings
  BY <1>1 DEF TypeOK
<1> QED BY <1>2, <1>3, <1>4 DEF TypeOK

FieldTyped == ask \in Asks /\ count \in Nat

LEMMA FieldTypesBegin ==
  ASSUME F!Init
  PROVE  FieldTyped
BY DEF F!Init, FieldTyped

LEMMA FieldTypesStay ==
  ASSUME FieldInv, FieldTyped, F!Next \/ UNCHANGED F!vars
  PROVE  FieldTyped'
<1>1. ask' = ask
  BY DEF F!Next, F!Look, F!CopyField, F!NotFound, F!TakeCount, F!TakeSlice, F!NoArray, F!vars
<1>2. count' \in Nat
  <2>1. ask.length \in Nat /\ F!Random \in Nat /\ count \in Nat
    BY DEF FieldInv, F!AskType, F!Random, FieldTyped
  <2>2. CASE F!TakeCount
    BY <2>1, <2>2 DEF F!TakeCount
  <2>3. CASE count' = count
    BY <2>1, <2>3
  <2> QED
    BY <2>2, <2>3 DEF F!Next, F!Look, F!CopyField, F!NotFound, F!TakeSlice, F!NoArray, F!vars
<1> QED BY <1>1, <1>2 DEF FieldTyped

LEMMA OverridesBeginTyped ==
  ASSUME O!Init
  PROVE  O!TypeOK /\ w4.end = 0
<1>1. Len(w1) \in Nat
  BY OverridesBegin DEF OverrideInv
<1>2. w4.end = 0
  BY DEF O!Init, O!NoList
<1>3. w2 \in 1 .. (Len(w1) + 1)
  BY <1>1 DEF O!Init
<1>4. w3 \in BOOLEAN /\ w6 \in {"seek", "open", "end", "copy", "done"}
  BY DEF O!Init
<1> QED BY <1>2, <1>3, <1>4 DEF O!TypeOK

OverridesTyped == O!TypeOK /\ (w6 \in {"seek", "open", "end"} => w4.end = 0)

LEMMA OverridesStayTyped ==
  ASSUME OverrideInv, OverridesTyped, O!Next \/ UNCHANGED O!vars
  PROVE  OverridesTyped'
<1>1. /\ w1' = w1 /\ Len(w1) \in Nat /\ DOMAIN w1 = 1 .. Len(w1) /\ w2 \in 1 .. (Len(w1) + 1)
      /\ w6 \in {"seek", "open", "end"} => w4.end = 0
      /\ w4.start <= w4.end \/ w4.end = 0
  BY DEF OverrideInv, OverridesTyped, O!TypeOK, O!Next, O!SeekList, O!NoListFound, O!SkipBrace, O!FindEnd,
         O!CopyPair, O!EndOfList, O!vars
<1>2. w3' \in BOOLEAN /\ w6' \in {"seek", "open", "end", "copy", "done"}
  BY OverridesStay DEF OverrideInv
<1>3. ASSUME w2' \in 1 .. (Len(w1) + 1), w4'.start <= w4'.end \/ w4'.end = 0,
             w6' \in {"seek", "open", "end"} => w4'.end = 0
      PROVE  OverridesTyped'
  BY <1>1, <1>2, <1>3 DEF OverridesTyped, O!TypeOK
<1>4. CASE O!SeekList
  <2>1. w6 = "seek" /\ w2 \in DOMAIN w1 /\ w2' = w2 + 1 /\ w4' = w4
    BY <1>4 DEF O!SeekList
  <2>2. w2' \in 1 .. (Len(w1) + 1) /\ w4'.end = 0
    BY <1>1, <2>1
  <2> QED BY <1>3, <2>2
<1>5. CASE O!SkipBrace
  <2>1. /\ w2' = (IF O!Holds(w2, {"open"}) THEN w2 + 1 ELSE w2)
        /\ w4' = [O!NoList EXCEPT !.start = w2']
    BY <1>5 DEF O!SkipBrace
  <2>2. w4'.end = 0
    BY <2>1 DEF O!NoList
  <2>3. w2' \in 1 .. (Len(w1) + 1)
    BY <1>1, <2>1 DEF O!Holds
  <2> QED BY <1>3, <2>2, <2>3
<1>6. CASE O!FindEnd
  <2> DEFINE end == CHOOSE n \in w2 .. (Len(w1) + 1) :
                      ~O!Holds(n, Inside) /\ \A k \in w2 .. (n - 1) : O!Holds(k, Inside)
  <2>1. /\ w6 = "end" /\ w2' = w2 /\ w6' \in {"copy", "done"}
        /\ w4' = [w4 EXCEPT !.end = end, !.capacity = (end - w2) \div 2]
    BY <1>6 DEF O!FindEnd, Inside
  <2>2. w4 = [start |-> w2, end |-> 0, capacity |-> 0]
    BY <2>1 DEF OverrideInv, O!NoList
  <2>3. EndsAt(w2, end)
    BY <1>1, EndExists DEF EndsAt
  <2>4. end \in w2 .. (Len(w1) + 1)
    BY <2>3 DEF EndsAt
  <2> HIDE DEF end
  <2>5. w4'.start = w2 /\ w4'.end = end
    BY <2>1, <2>2
  <2>6. w4'.start <= w4'.end
    BY <1>1, <2>4, <2>5
  <2>7. w6' \notin {"seek", "open", "end"}
    BY <2>1
  <2> QED BY <1>1, <1>3, <2>1, <2>6, <2>7
<1>7. CASE O!CopyPair
  <2>1. /\ w6 = "copy" /\ w2 + 1 < w4.end /\ w4' = w4 /\ (w2' = w2 \/ w2' = w2 + 2)
        /\ w6' \notin {"seek", "open", "end"}
    BY <1>7 DEF O!CopyPair
  <2>2. w4.end \in Nat /\ w4.end <= Len(w1) + 1
    <3>1. EndsAt(w4.start, w4.end) /\ w4.start = Start /\ O!Lists # {}
      BY <2>1 DEF OverrideInv, PairsCopied
    <3>2. Start \in Nat
      BY <3>1, ListsAreItems
    <3> QED BY <1>1, <3>1, <3>2 DEF EndsAt
  <2>3. w2' \in 1 .. (Len(w1) + 1)
    BY <1>1, <2>1, <2>2
  <2> QED BY <1>1, <1>3, <2>1, <2>3
<1>8. CASE O!NoListFound
  BY <1>1, <1>3, <1>8 DEF O!NoListFound
<1>9. CASE O!EndOfList
  BY <1>1, <1>3, <1>9 DEF O!EndOfList
<1>10. CASE UNCHANGED O!vars
  BY <1>1, <1>3, <1>10 DEF O!vars
<1> QED BY <1>4, <1>5, <1>6, <1>7, <1>8, <1>9, <1>10 DEF O!Next

(* The walk counts fewer replacements than it has gone through bytes, and  *)
(* a string being read is one of those met.                                *)
TextTyped ==
  /\ codepage \in T!Codepages /\ handed \in T!Handed \cup {T!NotHanded}
  /\ raw \in {"none", "converted", "wide", "bytes"} /\ text \in Seq(T!Char)
  /\ i \in 1 .. (MaxLength + 1) /\ unmapped \in 0 .. (i - 1)
  /\ reads \in 0 .. Reads /\ (~T!Idle => reads >= 1)

LEMMA TextBounds == MaxLength \in Nat /\ Reads \in Nat
BY ConversionAssumption

LEMMA TextIsTyped ==
  ASSUME TextInv, TextTyped
  PROVE  T!TypeOK
<1>1. /\ storage \in {"wide", "narrow"} /\ (T!Idle \/ reading \in T!Stored) /\ warnings \in Seq(T!Warning)
  BY DEF TextInv
<1>2. heap \in 0 .. Reads
  <2>1. T!Idle => heap = 0
    BY DEF TextInv
  <2>2. ~T!Idle => heap \in {0, 1}
    BY DEF TextInv, T!Met, T!Decoding
  <2>3. reads \in 0 .. Reads /\ (~T!Idle => reads >= 1) /\ Reads \in Nat
    BY TextBounds DEF TextTyped
  <2> QED BY <2>1, <2>2, <2>3
<1>3. i \in 1 .. MaxLength + 1 /\ unmapped \in 0 .. MaxLength
  BY TextBounds DEF TextTyped
<1> QED BY <1>1, <1>2, <1>3 DEF TextTyped, T!TypeOK

LEMMA TextTypesBegin ==
  ASSUME T!Init
  PROVE  TextTyped
<1>1. /\ T!Idle /\ i = 1 /\ unmapped = 0 /\ reads = 0 /\ text = <<>> /\ raw = "none"
      /\ handed = T!NotHanded /\ codepage \in T!Codepages
  BY DEF T!Init, T!Idle
<1>2. i \in 1 .. (MaxLength + 1) /\ unmapped \in 0 .. (i - 1) /\ reads \in 0 .. Reads
  BY <1>1, TextBounds
<1> QED BY <1>1, <1>2 DEF TextTyped

LEMMA BytesAreFew ==
  ASSUME TextInv, ~T!Idle
  PROVE  Len(reading.bytes) \in 0 .. MaxLength
<1>1. reading.bytes \in T!Strings
  BY DEF TextInv, T!Stored
<1>2. PICK n \in 0 .. MaxLength : reading.bytes \in [1 .. n -> T!Byte]
  BY <1>1 DEF T!Strings
<1>3. reading.bytes \in Seq(T!Byte) /\ DOMAIN reading.bytes = 1 .. n
  BY <1>2, SeqDef
<1>4. Len(reading.bytes) = n
  BY <1>2, <1>3, LenProperties
<1> QED BY <1>2, <1>4

LEMMA MeetStaysTyped ==
  ASSUME TextInv, TextTyped, T!Meet
  PROVE  TextTyped'
<1>1. /\ codepage' = codepage /\ raw' = "none" /\ text' = <<>> /\ i' = 1 /\ unmapped' = 0
      /\ reads' = reads + 1 /\ reads < Reads
      /\ \E s \in T!Stored : handed' = T!HandOut(s.way)
  BY DEF T!Meet, T!Drawing
<1>2. handed' \in T!Handed
  <2>1. /\ T!AsStored \in T!Handed /\ T!Utf8Text \in T!Handed
        /\ [layout |-> "converted", copied |-> TRUE] \in T!Handed
    BY DEF T!AsStored, T!Utf8Text, T!Handed, T!StoredWidth
  <2>2. T!DwgHandleName \in T!Handed
    BY <2>1 DEF T!DwgHandleName, T!Handed
  <2>3. \A s \in T!Stored : s.way \in T!Ways
    BY DEF T!Stored
  <2>4. \A way \in T!Ways : T!HandOut(way) \in T!Handed
    BY <2>1, <2>2 DEF T!HandOut, T!Ways
  <2> QED BY <1>1, <2>3, <2>4
<1>3. i' \in 1 .. (MaxLength + 1) /\ unmapped' \in 0 .. (i' - 1)
  BY <1>1, TextBounds
<1>4. reads' \in 0 .. Reads /\ reads' >= 1
  BY <1>1, TextBounds DEF TextTyped
<1> QED BY <1>1, <1>2, <1>3, <1>4 DEF TextTyped

LEMMA PushStaysTyped ==
  ASSUME TextInv, TextTyped, T!PushAscii \/ T!PushAlone \/ T!PushPair \/ T!PushLeadAtTheEnd
  PROVE  TextTyped'
<1>1. PICK length \in {1, 2}, shown \in BOOLEAN :
        i + length - 1 <= Len(reading.bytes) /\ T!Push(length, shown)
  BY OnePush
<1>2. ~T!Idle
  BY OnePush
<1>3. Len(reading.bytes) \in 0 .. MaxLength /\ MaxLength \in Nat
  BY <1>2, BytesAreFew, TextBounds
<1> DEFINE new == [from |-> i, to |-> i + length - 1, shown |-> shown]
<1>4. /\ text' = Append(text, new) /\ i' = i + length
      /\ unmapped' = (IF shown THEN unmapped ELSE unmapped + 1)
      /\ codepage' = codepage /\ reading' = reading /\ handed' = handed /\ raw' = raw /\ reads' = reads
  BY <1>1 DEF T!Push, T!Drawing
<1>5. /\ i \in 1 .. (MaxLength + 1) /\ unmapped \in 0 .. (i - 1) /\ text \in Seq(T!Char)
      /\ reads \in 0 .. Reads /\ reads >= 1
  BY <1>2 DEF TextTyped
<1>6. new \in T!Char
  BY <1>3, <1>5 DEF T!Char
<1> HIDE DEF new
<1>7. text' \in Seq(T!Char)
  BY <1>4, <1>5, <1>6, AppendProperties
<1>8. i' \in 1 .. (MaxLength + 1)
  BY <1>1, <1>3, <1>4, <1>5
<1>9. unmapped' \in 0 .. (i' - 1)
  <2>1. unmapped' = unmapped \/ unmapped' = unmapped + 1
    BY <1>4
  <2> QED BY <1>3, <1>4, <1>5, <2>1
<1> QED BY <1>4, <1>5, <1>7, <1>8, <1>9 DEF TextTyped

LEMMA TextTypesStay ==
  ASSUME TextInv, TextInv', TextTyped, T!Next \/ UNCHANGED T!vars
  PROVE  TextTyped'
<1>1. CASE T!Take
  <2>1. /\ T!Met /\ raw' = T!TakenAs /\ codepage' = codepage /\ reading' = reading /\ handed' = handed
        /\ text' = text /\ i' = i /\ unmapped' = unmapped /\ reads' = reads
    BY <1>1 DEF T!Take, T!Drawing
  <2>2. reading.way \in T!Ways /\ storage \in {"wide", "narrow"} /\ handed = T!HandOut(reading.way)
    BY <2>1 DEF TextInv, T!Met, T!Stored
  <2>3. handed.layout \in {"converted", "wide", "bytes"}
    BY <2>2, HandedIs DEF T!StoredWidth
  <2>4. raw' \in {"none", "converted", "wide", "bytes"}
    BY <2>1, <2>2, <2>3 DEF T!TakenAs, T!TakeText, T!StoredWidth, T!TableEntryName, T!StyleOverride, T!Ways
  <2>5. T!Idle' = T!Idle
    BY <2>1 DEF T!Idle
  <2> QED BY <2>1, <2>4, <2>5 DEF TextTyped
<1>2. ASSUME T!Done, text' \in Seq(T!Char) PROVE TextTyped'
  <2>1. /\ reading' = T!Nothing /\ codepage' = codepage /\ handed' = handed /\ raw' = raw
        /\ i' = i /\ unmapped' = unmapped /\ reads' = reads
    BY <1>2 DEF T!Done, T!Drawing
  <2>2. T!Idle'
    BY <2>1 DEF T!Idle
  <2> QED BY <1>2, <2>1, <2>2 DEF TextTyped
<1>3. ASSUME ~T!Idle, NEW shown \in BOOLEAN PROVE T!Whole(shown) \in Seq(T!Char)
  <2>1. [from |-> 1, to |-> Len(reading.bytes), shown |-> shown] \in T!Char
    BY <1>3, BytesCounted DEF T!Char
  <2>2. ASSUME NEW c \in T!Char PROVE <<c>> \in Seq(T!Char)
    OBVIOUS
  <2> QED BY <2>1, <2>2 DEF T!Whole
<1>4. CASE T!TakeAscii
  <2>1. T!Done /\ ~T!Idle /\ text' = T!Whole(TRUE)
    BY <1>4 DEF T!TakeAscii, T!Decoding
  <2> QED BY <1>2, <1>3, <2>1
<1>5. CASE T!TakeUnicode
  <2>1. T!Done /\ ~T!Idle /\ text' = T!Whole(T!Shows) /\ T!Shows \in BOOLEAN
    BY <1>5 DEF T!TakeUnicode, T!Decoding, T!Shows
  <2> QED BY <1>2, <1>3, <2>1
<1>6. CASE T!EndOfBytes
  <2>1. T!Done /\ text' = text
    BY <1>6 DEF T!EndOfBytes
  <2> QED BY <1>2, <2>1 DEF TextTyped
<1>7. CASE UNCHANGED T!vars
  BY <1>7 DEF T!vars, TextTyped, T!Idle
<1> QED BY <1>1, <1>4, <1>5, <1>6, <1>7, MeetStaysTyped, PushStaysTyped DEF T!Next

LEMMA PolylineStays ==
  ASSUME polyline \in Polylines, W!Next \/ UNCHANGED W!vars
  PROVE  polyline' \in Polylines
BY DEF W!Next, W!TakeRecord, W!DrawSide, W!EndFace, W!EndChain, W!EndFaces, W!DrawGrid, W!vars

(* What the invariants of the parts leave open of their types.             *)
AllParts == {"names", "wireframe", "field", "text"} \cup RecordParts
Typed ==
  /\ part \in AllParts
  /\ part = "names" => TypeOK
  /\ part = "wireframe" => polyline \in Polylines
  /\ part = "field" => FieldTyped
  /\ part = "text" => TextTyped
  /\ part = "header" => H!TypeOK
  /\ part = "stroke" => R!TypeOK
  /\ part = "style" => S!TypeOK
  /\ part = "table" => G!TypeOK
  /\ part = "overrides" => OverridesTyped

PartsHold ==
  /\ NamesPart /\ WirePart /\ FieldPart /\ TextPart
  /\ HeaderPart /\ StylePart /\ LayerPart /\ LeaderPart /\ GridPart /\ OverridePart

LEMMA TypesBegin ==
  ASSUME ConversionInit
  PROVE  Typed
<1>1. part \in AllParts
  BY DEF ConversionInit, RecordInit, AllParts, RecordParts
<1>2. part = "names" => TypeOK
  BY NameSteps, NamesBeginTyped
<1>3. part = "wireframe" => polyline \in Polylines
  BY WireSteps DEF W!Init
<1>4. part = "field" => FieldTyped
  BY FieldSteps, FieldTypesBegin
<1>5. part = "text" => TextTyped
  BY TextSteps, TextTypesBegin
<1>6. part = "header" => H!TypeOK
  BY HeaderSteps, HeaderBeginsTyped
<1>7. part = "stroke" => R!TypeOK
  BY StrokeSteps, StrokeBegins
<1>8. part = "style" => S!TypeOK
  BY StyleSteps, StyleBeginsTyped
<1>9. part = "table" => G!TypeOK
  BY GridSteps, GridBeginsTyped
<1>10. part = "overrides" => OverridesTyped
  BY OverrideSteps, OverridesBeginTyped DEF OverridesTyped
<1> QED BY <1>1, <1>2, <1>3, <1>4, <1>5, <1>6, <1>7, <1>8, <1>9, <1>10 DEF Typed

LEMMA TypesStay ==
  ASSUME Typed, PartsHold, PartsHold', PartStep
  PROVE  Typed'
<1>1. part' = part /\ part \in AllParts
  BY PartsStay DEF Typed
<1>2. part = "names" => TypeOK'
  BY <1>1, NameSteps, NamesStayTyped DEF Typed, PartsHold, NamesPart
<1>3. part = "wireframe" => polyline' \in Polylines
  BY <1>1, WireSteps, PolylineStays DEF Typed
<1>4. part = "field" => FieldTyped'
  BY <1>1, FieldSteps, FieldTypesStay DEF Typed, PartsHold, FieldPart
<1>5. part = "text" => TextTyped'
  BY <1>1, TextSteps, TextTypesStay DEF Typed, PartsHold, TextPart
<1>6. part = "header" => H!TypeOK'
  BY <1>1, HeaderSteps, HeaderStaysTyped DEF Typed, PartsHold, HeaderPart
<1>7. part = "stroke" => R!TypeOK'
  BY <1>1, StrokeSteps, StrokeStaysTyped DEF Typed
<1>8. part = "style" => S!TypeOK'
  BY <1>1, StyleSteps, StyleStaysTyped DEF Typed, PartsHold, StylePart
<1>9. part = "table" => G!TypeOK'
  BY <1>1, GridSteps, GridStaysTyped DEF Typed, PartsHold, GridPart
<1>10. part = "overrides" => OverridesTyped'
  BY <1>1, OverrideSteps, OverridesStayTyped DEF Typed, PartsHold, OverridePart
<1>11. part' \in AllParts
  BY <1>1
<1> QED BY <1>1, <1>2, <1>3, <1>4, <1>5, <1>6, <1>7, <1>8, <1>9, <1>10, <1>11 DEF Typed

LEMMA PartsAreOfTheirTypes ==
  ASSUME Typed, PartsHold
  PROVE  PartTypeOK
<1>1. part = "names" => TypeOK
  BY DEF Typed
<1>2. part = "wireframe" => W!TypeOK
  BY WireTyped DEF Typed, PartsHold, WirePart
<1>3. part = "field" => F!TypeOK
  BY DEF Typed, PartsHold, FieldPart, FieldInv, FieldTyped, F!TypeOK
<1>4. part = "text" => T!TypeOK
  BY TextIsTyped DEF Typed, PartsHold, TextPart
<1>5. part = "header" => H!TypeOK
  BY DEF Typed
<1>6. part = "stroke" => R!TypeOK
  BY DEF Typed
<1>7. part = "style" => S!TypeOK
  BY DEF Typed
<1>8. part = "layer" => L!TypeOK
  BY LayerIsTyped DEF PartsHold, LayerPart
<1>9. part = "multileader" => M!TypeOK
  BY LeadersAreTyped DEF PartsHold, LeaderPart
<1>10. part = "table" => G!TypeOK
  BY DEF Typed
<1>11. part = "overrides" => O!TypeOK
  BY DEF Typed, OverridesTyped
<1>12. part \in RecordParts => RecordTypeOK
  <2>1. CASE part = "header"
    BY <1>5, <2>1 DEF RecordTypeOK
  <2>2. CASE part = "stroke"
    BY <1>6, <2>2 DEF RecordTypeOK
  <2>3. CASE part = "style"
    BY <1>7, <2>3 DEF RecordTypeOK
  <2>4. CASE part = "layer"
    BY <1>8, <2>4 DEF RecordTypeOK
  <2>5. CASE part = "multileader"
    BY <1>9, <2>5 DEF RecordTypeOK
  <2>6. CASE part = "table"
    BY <1>10, <2>6 DEF RecordTypeOK
  <2>7. CASE part = "overrides"
    BY <1>11, <2>7 DEF RecordTypeOK
  <2> QED BY <2>1, <2>2, <2>3, <2>4, <2>5, <2>6, <2>7 DEF RecordParts
<1>13. part \in AllParts
  BY DEF Typed
<1>14. CASE part \in {"names", "wireframe", "field", "text"}
  BY <1>1, <1>2, <1>3, <1>4, <1>14 DEF PartTypeOK
<1>15. CASE part \in RecordParts
  BY <1>12, <1>15 DEF PartTypeOK, RecordParts
<1> QED BY <1>13, <1>14, <1>15 DEF AllParts

(* `PartTypeOK`, for inputs of any number and size: whichever part is at   *)
(* work, its state holds values of its kind from the first step to the     *)
(* last, so no counter runs past what it counts, nor an index past its end.*)
THEOREM PartsAreTyped == ConversionSpec => []PartTypeOK
<1>1. ConversionSpec => []PartsHold
  BY NamesPartHolds, WiresHold, FieldPartHolds, TextPartHolds, HeaderPartHolds, StylePartHolds,
     LayerPartHolds, LeaderPartHolds, GridPartHolds, OverridePartHolds, PTL DEF PartsHold
<1>2. ConversionInit => Typed
  BY TypesBegin
<1>3. Typed /\ PartsHold /\ PartsHold' /\ [ConversionNext]_conversionVars => Typed'
  BY TypesStay DEF PartStep
<1>4. Typed /\ PartsHold => PartTypeOK
  BY PartsAreOfTheirTypes
<1> QED BY <1>1, <1>2, <1>3, <1>4, PTL DEF ConversionSpec
=============================================================================
