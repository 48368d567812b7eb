---------------------------- MODULE MCEntityStyles ----------------------------
(* Entities of R11 drawings with a colour and a line type of their own: no *)
(* such entity is BYLAYER in either.                                       *)
EXTENDS EntityStyles

MCEntities ==
  [release : {"R_11"}, linetype : {"HIDDEN"}, scale : {1}, index : 1 .. 40,
   direct : {None}, weight : {"bylayer"}, alpha : {"bylayer"}]
=============================================================================
