------------------------------ MODULE FieldReads ------------------------------
(***************************************************************************)
(* Fields of a LibreDWG object by name (dynapi).  A read looks the field   *)
(* up, compares the library's size of it with the caller's type, and only  *)
(* then has the library copy the field: the library copies as many bytes   *)
(* as its own tables say, whatever room there is.  The two look the field  *)
(* up apart, in tables that are not chosen by the same rule.               *)
(*                                                                         *)
(* As built for release: the debug build panics where sizes differ.  An    *)
(* array is two such reads, its count and its pointer, and a copy.         *)
(***************************************************************************)
EXTENDS Integers, Sequences

CONSTANTS Asks   \* the reads made, see AskType

(* What is asked, by the type the caller gives it; and of what object: its *)
(* type as the library has it, what an array's count says, whether there   *)
(* are elements.                                                           *)
AskType ==
  [kind : {"entity", "common", "header", "embedded", "array"}, dxfname : STRING, sub_field : STRING,
   sub_dxfname : STRING, type : STRING, supertype : {"entity", "object"}, field : STRING, size : Nat,
   countField : STRING, countSize : Nat, length : Nat, pointer : {"null", "elements"}]

Pointer == 8
PlotSettings == 400   \* a struct embedded in a LAYOUT
Random == 7
Field(size, malloc) == [size |-> size, malloc |-> malloc]
Unknown == Field(0, FALSE)

(* Some of the library's tables: a LEADER's and a SPLINE's fields, the     *)
(* plot settings' of a LAYOUT, those every entity or every object has.     *)
Table(name) ==
  CASE name = "LEADER" ->
         [path_type |-> Field(2, FALSE), num_points |-> Field(4, FALSE), points |-> Field(Pointer, TRUE)]
    [] name = "SPLINE" ->
         [degree |-> Field(2, FALSE), num_fit_pts |-> Field(2, FALSE), fit_pts |-> Field(Pointer, TRUE)]
    [] name = "LAYOUT" -> [plotsettings |-> Field(PlotSettings, FALSE), layout_flags |-> Field(2, FALSE)]
    [] name = "PLOTSETTINGS" ->
         [paper_width |-> Field(8, FALSE), plot_paper_unit |-> Field(2, FALSE), paper_size |-> Field(Pointer, TRUE)]
    [] name = "entities" ->
         [layer |-> Field(Pointer, FALSE), linewt |-> Field(1, FALSE), num_eed |-> Field(4, FALSE)]
    [] name = "objects" -> [reactors |-> Field(Pointer, TRUE), num_eed |-> Field(4, FALSE)]
    [] name = "header" -> [DIMSCALE |-> Field(8, FALSE), INSUNITS |-> Field(2, FALSE), DIMPOST |-> Field(Pointer, TRUE)]
    [] OTHER -> <<>>
InTable(field, name) == IF field \in DOMAIN Table(name) THEN Table(name)[field] ELSE Unknown

VARIABLES
  ask,
  step,      \* "count", "look", "copy", "slice", "done"
  copies,    \* the library's copies: the room for each, and the bytes written
  count,     \* of the array's elements, as read
  answer     \* "none", "value", or the elements of an array
vars == <<ask, step, copies, count, answer>>

Init ==
  /\ ask \in Asks
  /\ step = IF ask.kind = "array" THEN "count" ELSE "look"
  /\ copies = <<>> /\ count = 0 /\ answer = "none"

(* The caller's own look: a common field among the entities' first, then   *)
(* the objects'; an embedded struct's by the struct's own table.           *)
CommonField(field) ==
  IF field \in DOMAIN Table("entities") THEN InTable(field, "entities") ELSE InTable(field, "objects")
EmbeddedField(field) ==
  IF InTable(ask.sub_field, ask.dxfname) = Unknown THEN Unknown ELSE InTable(field, ask.sub_dxfname)
Described(field) ==
  CASE ask.kind \in {"entity", "array"} -> InTable(field, ask.dxfname)
    [] ask.kind = "header"   -> InTable(field, "header")
    [] ask.kind = "embedded" -> EmbeddedField(field)
    [] ask.kind = "common"   -> CommonField(field)
WriteSize(f) == IF f.malloc THEN Pointer ELSE f.size

(* A slip: the size is compared once the field is there.                   *)
FitsAfterwards(field, size) == Described(field) # Unknown

Fits(field, size) == Described(field) # Unknown /\ WriteSize(Described(field)) = size

(* The library's look and its copy: of an entity by the name it was asked  *)
(* by, which must be its object's where there is one; of a common field by *)
(* what the object is.                                                     *)
EntityValue(field) == IF ask.type \in {ask.dxfname, "no object"} THEN InTable(field, ask.dxfname) ELSE Unknown
CommonValue(field) ==
  InTable(field, IF ask.supertype = "entity" THEN "entities" ELSE "objects")
Found(field) ==
  CASE ask.kind \in {"entity", "array"} -> EntityValue(field)
    [] ask.kind = "header"   -> InTable(field, "header")
    [] ask.kind = "embedded" -> InTable(field, ask.sub_dxfname)
    [] ask.kind = "common"   -> CommonValue(field)
Copied(field, size) ==
  copies' = Append(copies,
    [room |-> size,
     written |-> IF ask.kind \in {"entity", "array"} THEN WriteSize(Found(field)) ELSE Found(field).size])
Done(with) == step' = "done" /\ answer' = with

(* --- get_field, get_common_field, get_header_field, get_sub_field        *)
Look ==
  /\ step = "look"
  /\ IF Fits(ask.field, ask.size) THEN step' = "copy" /\ answer' = answer ELSE Done("none")
  /\ UNCHANGED <<ask, copies, count>>

CopyField ==
  /\ step = "copy" /\ Found(ask.field) # Unknown
  /\ Copied(ask.field, ask.size)
  /\ Done("value") /\ UNCHANGED <<ask, count>>
NotFound ==
  /\ step = "copy" /\ Found(ask.field) = Unknown
  /\ Done("none") /\ UNCHANGED <<ask, copies, count>>

(* --- get_array_field                                                     *)
(* A count that is no size, or 0, is an empty array.  One copied short     *)
(* would be whatever was in the rest of the buffer.                        *)
CanCopy(field, size) == Fits(field, size) /\ Found(field) # Unknown
TakeCount ==
  /\ step = "count" /\ CanCopy(ask.countField, ask.countSize)
  /\ Copied(ask.countField, ask.countSize)
  /\ count' = IF copies'[1].written < ask.countSize THEN Random ELSE ask.length
  /\ IF count' = 0 THEN Done(<<>>) ELSE step' = "slice" /\ answer' = answer
  /\ UNCHANGED ask

(* The elements are read where the pointer leads, as many as counted: what *)
(* lies past the array is not the array's.                                 *)
Slice(n) == [k \in 1 .. n |-> IF k <= ask.length THEN "element" ELSE "outside"]
TakeSlice ==
  /\ step = "slice" /\ CanCopy(ask.field, Pointer)
  /\ Copied(ask.field, Pointer)
  /\ Done(IF ask.pointer = "null" THEN <<>> ELSE Slice(count))
  /\ UNCHANGED <<ask, count>>

NoArray ==
  /\ \/ step = "count" /\ ~ CanCopy(ask.countField, ask.countSize)
     \/ step = "slice" /\ ~ CanCopy(ask.field, Pointer)
  /\ Done(<<>>) /\ UNCHANGED <<ask, copies, count>>

Next == Look \/ CopyField \/ NotFound \/ TakeCount \/ TakeSlice \/ NoArray
Spec == Init /\ [][Next]_vars
-----------------------------------------------------------------------------
(* Every state holds values of its kind.                                   *)
TypeOK ==
  /\ ask \in Asks
  /\ step \in {"count", "look", "copy", "slice", "done"}
  /\ copies \in Seq([room : Nat, written : Nat]) /\ count \in Nat

(* The library never writes more or less than the caller has room for: the *)
(* sizes are known to agree before the copy, though the two sides look the *)
(* field up by rules of their own.                                         *)
CopiesFit == \A k \in DOMAIN copies : copies[k].written = copies[k].room

(* An array is read whole or is empty, whatever its count's type: no       *)
(* element from outside it, and none left out.                             *)
ArraysAreWhole ==
  step = "done" /\ ask.kind = "array" =>
    answer \in {<<>>, [k \in 1 .. ask.length |-> "element"]}
=============================================================================
