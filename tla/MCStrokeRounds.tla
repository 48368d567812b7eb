---------------------------- MODULE MCStrokeRounds ----------------------------
(* Pictures with and without a size, or of none, and clouds that reach past the        *)
(* drawing by margins of twenty strokes.                                   *)
EXTENDS StrokeRounds

MCAsked == [px : {1, 3, 10}, fit : {NoFit, 0, 100, 400, 1000}]
MCDrawn == [drawing : {9000}, clouds : {5000, 9000, 12000}, margins : {20}, own : {1, 2, 700}]
=============================================================================
