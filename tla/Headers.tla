------------------------------- MODULE Headers -------------------------------
(***************************************************************************)
(* The header variables a drawing states (header.rs).  LibreDWG's header   *)
(* struct holds every variable, stated or not: what a DWG states follows   *)
(* from how far LibreDWG's decoder got through the header section, which   *)
(* header.rs works out anew, from the release and a count of variables.    *)
(* Here both are modelled: the decoder, one run of variables after another,*)
(* and the reader's own table.                                             *)
(***************************************************************************)
EXTENDS Naturals, Sequences

CONSTANT Dwgs  \* DWGs: release, count of variables, whether the Template section is there: see DwgType

VARIABLES
  drawing,  \* the drawing being read
  run,      \* the run of variables LibreDWG's decoder is at; 0 once the Header is made
  decoded,  \* the variables it has decoded
  header    \* the variables the Header holds

vars == <<drawing, run, decoded, header>>

(* Dwg_Version_Type, in its order.                                         *)
Releases ==
  <<"R_1_1", "R_1_2", "R_1_3", "R_1_4", "R_2_0b", "R_2_0", "R_2_10", "R_2_21", "R_2_22", "R_2_4",
    "R_2_5", "R_2_6", "R_9", "R_9c1", "R_10", "R_11b1", "R_11b2", "R_11", "R_13b1", "R_13", "R_14",
    "R_2000b", "R_2000", "R_2004", "R_2007", "R_2018">>
Age(release) == CHOOSE i \in DOMAIN Releases : Releases[i] = release
DwgType == [release : {Releases[i] : i \in DOMAIN Releases}, count : Nat, template : BOOLEAN]
AtLeast(release, other) == Age(release) >= Age(other)

Names ==
  {"INSUNITS", "MEASUREMENT", "LUNITS", "LUPREC", "AUNITS", "AUPREC", "EXTMIN", "EXTMAX", "LIMMIN",
   "LIMMAX", "PEXTMIN", "PEXTMAX", "PLIMMIN", "PLIMMAX", "DIMSCALE", "DIMLFAC", "DIMDEC", "DIMLUNIT",
   "DIMPOST", "DIMRND", "DIMZIN", "DIMFRAC", "DIMAUNIT", "DIMADEC", "DIMTXT", "DIMASZ", "LTSCALE",
   "TEXTSIZE", "PDMODE", "PDSIZE", "CLAYER", "FINGERPRINTGUID", "VERSIONGUID"}
FromR2000 == {"INSUNITS", "DIMADEC", "DIMFRAC", "DIMLUNIT", "FINGERPRINTGUID", "VERSIONGUID"}

-----------------------------------------------------------------------------
(* LibreDWG's header section before R13, as runs of variables: those read, *)
(* the first release they are in, the releases whose header ends after the *)
(* run, and the count of variables at which any header does.               *)
Run(names, since, ends, count) == [names |-> names, since |-> since, ends |-> ends, count |-> count]
Before(release) == {Releases[i] : i \in 1 .. (Age(release) - 1)}
RunsBeforeR13 == <<
  Run({"EXTMIN", "EXTMAX", "LIMMIN", "LIMMAX"}, "R_1_1", {}, 0),
  Run({"LTSCALE"}, "R_2_0", {}, 0),
  Run({"TEXTSIZE", "CLAYER"}, "R_1_1", {"R_1_1", "R_1_2"}, 0),
  Run({"LUNITS", "LUPREC"}, "R_1_3", {"R_1_4"}, 0),
  Run({"AUNITS", "AUPREC", "DIMSCALE", "DIMASZ", "DIMTXT"}, "R_1_3", Before("R_2_0"), 74),
  Run({}, "R_2_0", {}, 83),
  Run({"DIMZIN", "DIMRND"}, "R_2_0", {}, 101),
  Run({"PDMODE", "PDSIZE"}, "R_2_0", {}, 104),
  Run({}, "R_2_0", {}, 114),
  Run({"DIMPOST"}, "R_2_0", {}, 120),
  Run({"DIMLFAC"}, "R_2_0", {}, 160),
  Run({"PEXTMIN", "PEXTMAX", "PLIMMIN", "PLIMMAX"}, "R_2_0", {}, 204) >>

(* From R13 it is one run, with what came in R2000.                        *)
RunsFromR13 == <<
  Run(Names \ (FromR2000 \cup {"MEASUREMENT"}), "R_13b1", {}, 0),
  Run(FromR2000, "R_2000b", {}, 0) >>

Runs(dwg) == IF AtLeast(dwg.release, "R_13b1") THEN RunsFromR13 ELSE RunsBeforeR13

-----------------------------------------------------------------------------
(* A slip of the table: the count of variables $DIMZIN comes after, taken  *)
(* for $PDMODE's too.                                                      *)
PointsAfterZeros == 83

(* How many variables come before $PDMODE and $PDSIZE, before R13.         *)
PointsAfter == 101

(* `dwg_layout_has`.                                                       *)
Has(dwg, name) ==
  LET r2_0 == AtLeast(dwg.release, "R_2_0")
      AfterTheEarliest(since) == dwg.release = "R_1_3" \/ AtLeast(dwg.release, since)
  IN  CASE name = "MEASUREMENT" -> dwg.template
        [] name # "MEASUREMENT" /\ AtLeast(dwg.release, "R_13b1") ->
             name \in FromR2000 => AtLeast(dwg.release, "R_2000b")
        [] OTHER ->
             \/ name \in {"EXTMIN", "EXTMAX", "LIMMIN", "LIMMAX", "TEXTSIZE", "CLAYER"}
             \/ name \in {"LUNITS", "LUPREC"} /\ AfterTheEarliest("R_1_4")
             \/ name \in {"AUNITS", "AUPREC", "DIMSCALE", "DIMASZ", "DIMTXT"} /\ AfterTheEarliest("R_2_0b")
             \/ name = "LTSCALE" /\ r2_0
             \/ name \in {"DIMZIN", "DIMRND"} /\ r2_0 /\ dwg.count > 83
             \/ name \in {"PDMODE", "PDSIZE"} /\ r2_0 /\ dwg.count > PointsAfter
             \/ name = "DIMPOST" /\ r2_0 /\ dwg.count > 114
             \/ name = "DIMLFAC" /\ r2_0 /\ dwg.count > 120
             \/ name \in {"PEXTMIN", "PEXTMAX", "PLIMMIN", "PLIMMAX"} /\ r2_0 /\ dwg.count > 160

-----------------------------------------------------------------------------
Init ==
  /\ drawing \in Dwgs
  /\ run = 1 /\ decoded = {} /\ header = {}

Decoding == run \in 1 .. Len(Runs(drawing))
This == Runs(drawing)[run]

Ends(r) == drawing.release \in r.ends \/ (drawing.count <= r.count /\ r.count > 0)

DecodeRun ==
  /\ Decoding
  /\ decoded' = decoded \cup (IF AtLeast(drawing.release, This.since) THEN This.names ELSE {})
  /\ run' = IF Ends(This) THEN Len(Runs(drawing)) + 1 ELSE run + 1
  /\ UNCHANGED <<drawing, header>>

(* The Template section, when it is there, holds $MEASUREMENT.             *)
ReadHeader ==
  /\ run > Len(Runs(drawing))
  /\ header' = {n \in Names : Has(drawing, n)}
  /\ decoded' = decoded \cup (IF drawing.template THEN {"MEASUREMENT"} ELSE {})
  /\ run' = 0
  /\ UNCHANGED drawing

Next == DecodeRun \/ ReadHeader

Spec == Init /\ [][Next]_vars
-----------------------------------------------------------------------------
TypeOK ==
  /\ drawing \in Dwgs
  /\ run \in 0 .. (Len(RunsBeforeR13) + 1)
  /\ decoded \subseteq Names
  /\ header \subseteq Names

(* "A variable is Some only when the file is known to state it": of a DWG, *)
(* the Header holds the variables LibreDWG decoded, each of them, and none *)
(* of those its struct holds zeros for.                                    *)
HeaderIsWhatWasDecoded == run = 0 => header = decoded
=============================================================================
