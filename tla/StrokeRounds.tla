----------------------------- MODULE StrokeRounds -----------------------------
(***************************************************************************)
(* `redline` into a PNG with a stroke given in pixels (verbs.rs).  The     *)
(* renderer draws at a width in drawing units, and the pixels per unit     *)
(* follow from the window it frames, which grows with the width where a    *)
(* revision cloud reaches past the drawing.  So redline draws again at the *)
(* width the last window asks for, at most eight times.                    *)
(*                                                                         *)
(* Widths and windows are whole numbers of a unit as fine as wanted: where *)
(* the code takes two widths for equal within 1e-9, they are equal here.   *)
(***************************************************************************)
EXTENDS Integers

CONSTANTS
  Asked,     \* what is asked, in pixels: the stroke, and the picture's size or NoFit
  Drawn,     \* pairs of drawings: see DrawnType
  Rounds     \* STROKE_ROUNDS

(* The longer side of the drawing, and of the clouds without their         *)
(* margins; how many strokes wide the margins are; the renderer's own      *)
(* width.                                                                  *)
DrawnType == [drawing : Nat, clouds : Nat, margins : Nat, own : Nat]
NoFit == -1  \* no --fit: a pixel is a unit
AskedType == [px : Nat, fit : Nat \cup {NoFit}]

VARIABLES
  job,    \* what is asked, and of which drawings
  width,  \* the width the overlay is drawn at
  round,  \* how many times it was drawn again
  stage   \* "settling", then "written" or "refused"

vars == <<job, width, round, stage>>

(* The longer side of the window of an overlay drawn at width `w`.         *)
Window(j, w) ==
  LET reach == j.clouds + j.margins * w IN IF reach > j.drawing THEN reach ELSE j.drawing

(* `px_per_unit` has no answer: nothing to fit, or nowhere to fit it.      *)
HasNoScale(j, w) == j.fit # NoFit /\ (Window(j, w) = 0 \/ j.fit = 0)

(* The width the stroke asks for, by the window of an overlay drawn at     *)
(* width `w`.                                                              *)
Units(j, w) == IF j.fit = NoFit THEN j.px ELSE (j.px * Window(j, w)) \div j.fit

Init ==
  /\ job \in {[px |-> a.px, fit |-> a.fit, drawing |-> d.drawing, clouds |-> d.clouds,
               margins |-> d.margins, own |-> d.own] : a \in Asked, d \in Drawn}
  /\ width = job.own /\ round = 0 /\ stage = "settling"

(* A slip of the loop: the pixels per unit are worked out once, before it. *)
DrawAtFirstScale ==
  /\ stage = "settling" /\ round < Rounds /\ ~HasNoScale(job, width)
  /\ width # Units(job, width)
  /\ width' = Units(job, job.own) /\ round' = round + 1
  /\ UNCHANGED <<job, stage>>

(* The overlay is not as wide as its window asks: it is drawn again.       *)
DrawAgain ==
  /\ stage = "settling" /\ round < Rounds /\ ~HasNoScale(job, width)
  /\ width # Units(job, width)
  /\ width' = Units(job, width) /\ round' = round + 1
  /\ UNCHANGED <<job, stage>>

(* No scale: an error, in the rounds or after.                             *)
Refuse ==
  /\ stage = "settling" /\ HasNoScale(job, width)
  /\ stage' = "refused"
  /\ UNCHANGED <<job, width, round>>

(* The width is settled, or the rounds are used up: the last overlay is    *)
(* the picture.                                                            *)
WritePicture ==
  /\ stage = "settling" /\ ~HasNoScale(job, width)
  /\ width = Units(job, width) \/ round = Rounds
  /\ stage' = "written"
  /\ UNCHANGED <<job, width, round>>

Next == DrawAgain \/ Refuse \/ WritePicture

Spec == Init /\ [][Next]_vars
-----------------------------------------------------------------------------
TypeOK ==
  /\ job \in [px : Nat, fit : Nat \cup {NoFit}, drawing : Nat, clouds : Nat, margins : Nat, own : Nat]
  /\ width \in Nat /\ round \in 0 .. Rounds /\ stage \in {"settling", "written", "refused"}

(* How far the overlay's width is from the one its window asks for.        *)
Miss(j, w) == IF w > Units(j, w) THEN w - Units(j, w) ELSE Units(j, w) - w

(* The margins are at most half the picture, if it is of any size.         *)
Halves(j) == j.fit = NoFit \/ 2 * j.px * j.margins <= j.fit

(* "a handful of rounds settles it far below a pixel": in a picture at     *)
(* least twice as large as the clouds' margins, each round at least halves *)
(* what the width misses of the one its window asks for, up to a unit of   *)
(* rounding.                                                               *)
HalvesTheMiss == round' # round /\ Halves(job) => 2 * Miss(job', width') <= Miss(job, width) + 2
EachRoundHalvesTheMiss == [][HalvesTheMiss]_vars

(* "Draw every line this many pixels wide: in a PNG, pixels of the image"  *)
(* (`stroke`'s description): whatever is asked, a picture that is written  *)
(* has lines of that width, to a twentieth.                                *)
StrokeIsAsAsked == stage = "written" => 20 * Miss(job, width) <= Units(job, width)
=============================================================================
