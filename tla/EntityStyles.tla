----------------------------- MODULE EntityStyles -----------------------------
(***************************************************************************)
(* The common properties of a DWG's entity: line type, its scale, colour,  *)
(* line weight, transparency (convert.rs over LibreDWG's                   *)
(* common_entity_data.spec and common_entity_handle_data.spec).  What an   *)
(* entity can state, and in which fields of the file, changed four times.  *)
(* LibreDWG decodes an entity's data first and its handles after, into one *)
(* struct for all releases that starts as zeros; the conversion reads the  *)
(* struct.                                                                 *)
(***************************************************************************)
EXTENDS Naturals, Sequences

CONSTANT Entities  \* releases and styles: see EntityType

VARIABLES
  entity,  \* the release, and the style the drawing's author gave the entity
  struct,  \* LibreDWG's Dwg_Object_Entity
  decode,  \* "data", "handles", "convert", "done"
  common   \* the model's EntityCommon, Unread before

vars == <<entity, struct, decode, common>>

Releases == <<"R_1_4", "R_2_0b", "R_10", "R_11", "R_13", "R_14", "R_2000", "R_2002", "R_2004", "R_2007", "R_2018">>
Age(release) == CHOOSE n \in DOMAIN Releases : Releases[n] = release
Since(release) == Age(entity.release) >= Age(release)

(* An unset member of an Option, and line types' names as an LTYPE table   *)
(* has them.                                                               *)
None == "None"
LineTypes == {"BYLAYER", "BYBLOCK", "CONTINUOUS", "HIDDEN"}

(* Colours: 0 BYBLOCK, 256 BYLAYER; a true colour, or a colour book's.     *)
EntityType ==
  [release : {Releases[n] : n \in DOMAIN Releases}, linetype : LineTypes, scale : Nat, index : 0 .. 256,
   direct : {None, "rgb", "book"}, weight : {"bylayer", "byblock", "default", "hundredths", "unused"},
   alpha : {"bylayer", "alpha"}]

(* What the format of its release cannot state, an entity does not have.   *)
Statable(e) ==
  LET Has(release) == Age(e.release) >= Age(release) IN
  /\ ~Has("R_2_0b") => e.linetype = "BYLAYER" /\ e.index = 256
  /\ ~Has("R_13") => e.scale = 1
  /\ ~Has("R_2000") => e.weight = "bylayer"
  /\ ~Has("R_2004") => e.direct = None /\ e.alpha = "bylayer"

(* The struct as allocated: zeros, and so are "bylayer" for transparency   *)
(* and a weight of no hundredths.                                          *)
Zeros ==
  [ltype_flags |-> 0, ltype |-> "null", ltype_scale |-> 0, index |-> 0, color_r11 |-> 0,
   inline |-> FALSE, handle |-> FALSE, rgb |-> 0, alpha_raw |-> "bylayer", linewt |-> "hundredths"]

Unread == [linetype |-> <<"unread">>]

-----------------------------------------------------------------------------
(* How a drawing of each era writes the line type: from R2000 in two bits. *)
FlagsFor == [BYLAYER |-> 0, BYBLOCK |-> 1, CONTINUOUS |-> 2, HIDDEN |-> 3]

Init ==
  /\ entity \in {e \in Entities : Statable(e)}
  /\ struct = Zeros /\ decode = "data" /\ common = Unread

(* Before R13: a flag says whether a colour and a line type follow.  What  *)
(* follows goes to color_r11 and ltype.                                    *)
DecodeOld ==
  /\ decode = "data" /\ ~Since("R_13")
  /\ struct' = [struct EXCEPT !.color_r11 = IF entity.index = 256 THEN @ ELSE entity.index,
                              !.ltype = IF entity.linetype = "BYLAYER" THEN @ ELSE entity.linetype]
  /\ decode' = "convert"
  /\ UNCHANGED <<entity, common>>

(* R13 and R14: one bit, from which the flags are made up.  From R2000: the*)
(* flags and a weight; from R2004: a colour's flags, with a direct colour  *)
(* and a transparency.                                                     *)
DecodeData ==
  /\ decode = "data" /\ Since("R_13")
  /\ struct' =
       [struct EXCEPT
          !.index = entity.index,
          !.inline = entity.direct = "rgb",
          !.handle = entity.direct = "book",
          !.rgb = IF entity.direct = "rgb" THEN "rgb" ELSE @,
          !.alpha_raw = entity.alpha,
          !.ltype_scale = entity.scale,
          !.ltype_flags = CASE Since("R_2000") -> FlagsFor[entity.linetype]
                            [] ~Since("R_2000") /\ entity.linetype = "BYLAYER" -> 0
                            [] OTHER -> 3,
          !.linewt = IF Since("R_2000") THEN entity.weight ELSE @]
  /\ decode' = "handles"
  /\ UNCHANGED <<entity, common>>

(* The handle stream has a line type's handle where the flags, or the bit, *)
(* say so; in R13 and R14 it may lead to the record named BYBLOCK.         *)
DecodeHandles ==
  /\ decode = "handles"
  /\ struct' = [struct EXCEPT !.ltype = IF struct.ltype_flags = 3 THEN entity.linetype ELSE @]
  /\ decode' = "convert"
  /\ UNCHANGED <<entity, common>>

-----------------------------------------------------------------------------
(* The model's EntityLinetype.                                             *)
ByLayer == <<"ByLayer">>
ByBlock == <<"ByBlock">>
Named(name) == <<"Named", name>>

(* A slip of `entity_linetype`: a handle's line type is taken by its name. *)
LineTypeByFlags(s) ==
  CASE s.ltype_flags = 0 -> ByLayer [] s.ltype_flags = 1 -> ByBlock
    [] s.ltype_flags = 2 -> Named("CONTINUOUS") [] OTHER -> Named(s.ltype)

(* `entity_linetype`: by the flags, or by the name of the handle's record. *)
(* The continuous line type is the one the header points at.               *)
EntityLineType(s) ==
  CASE s.ltype_flags = 0 \/ (s.ltype_flags = 3 /\ s.ltype = "BYLAYER") -> ByLayer
    [] s.ltype_flags = 1 \/ (s.ltype_flags = 3 /\ s.ltype = "BYBLOCK") -> ByBlock
    [] s.ltype_flags = 2 -> Named("CONTINUOUS")
    [] OTHER -> Named(s.ltype)

(* `entity_lineweight`, `entity_transparency`: None where the release has  *)
(* no such thing; a weight's unused code is None too.                      *)
EntityLineweight(s) == IF Since("R_2000") /\ s.linewt # "unused" THEN s.linewt ELSE None
EntityTransparency(s) == IF Since("R_2004") THEN s.alpha_raw ELSE None

(* `split_entity_color`: the flag decides whether `rgb` is the colour.     *)
TrueColor(s) == IF s.inline /\ ~s.handle THEN s.rgb ELSE None

(* The EntityCommon of an entity.                                          *)
Convert ==
  /\ decode = "convert"
  /\ common' = [linetype |-> EntityLineType(struct), scale |-> struct.ltype_scale, index |-> struct.index,
                rgb |-> TrueColor(struct), weight |-> EntityLineweight(struct),
                alpha |-> EntityTransparency(struct)]
  /\ decode' = "done"
  /\ UNCHANGED <<entity, struct>>

Next == DecodeOld \/ DecodeData \/ DecodeHandles \/ Convert

Spec == Init /\ [][Next]_vars
-----------------------------------------------------------------------------
TypeOK ==
  /\ entity \in EntityType
  /\ DOMAIN struct = DOMAIN Zeros
  /\ struct.ltype_flags \in 0 .. 3 /\ struct.ltype \in LineTypes \cup {"null"}
  /\ struct.ltype_scale \in Nat /\ struct.index \in 0 .. 256 /\ struct.color_r11 \in 0 .. 256
  /\ decode \in {"data", "handles", "convert", "done"}

(* The style the drawing's author gave the entity, as the model says it:   *)
(* a line type's name is a reference, but for BYLAYER and BYBLOCK.         *)
AsStated ==
  [linetype |-> CASE entity.linetype = "BYLAYER" -> ByLayer [] entity.linetype = "BYBLOCK" -> ByBlock
                  [] OTHER -> Named(entity.linetype),
   scale |-> entity.scale, index |-> entity.index,
   rgb |-> IF entity.direct = "rgb" THEN "rgb" ELSE None,
   weight |-> IF Since("R_2000") /\ entity.weight # "unused" THEN entity.weight ELSE None,
   alpha |-> IF Since("R_2004") THEN entity.alpha ELSE None]

(* From R13 on an entity is read with the style it was given, whichever of *)
(* the bit, the flags and the handles its release writes it in.            *)
StyledAsStatedFromR13 == decode = "done" /\ Since("R_13") => common = AsStated

(* "everything it produces is a vector entity whose values are what the    *)
(* file states": of every release.                                         *)
StyledAsStated == decode = "done" => common = AsStated
=============================================================================
