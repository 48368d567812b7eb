---------------------------- MODULE StyleOverrides ----------------------------
(***************************************************************************)
(* The dimension-style variables an entity sets for itself: the DSTYLE     *)
(* list in its extended data under ACAD.  The C shim finds the list among  *)
(* the items LibreDWG decoded, one after another for every application the *)
(* entity has data of, and copies pairs of a variable's number and its     *)
(* value until something is not such a pair.                               *)
(***************************************************************************)
EXTENDS Naturals, Sequences

CONSTANT ExtendedData  \* sequences of items: see ItemType

(* An item: whether it is the first of an application's data (LibreDWG     *)
(* keeps a size and the application's handle there only), whose, and what  *)
(* it holds: null when its data could not be decoded.                      *)
Contents == {"DSTYLE", "string", "open", "close", "short", "long", "real", "handle", "point", "null"}
ItemType == [first : BOOLEAN, app : {"ACAD", "other"}, holds : Contents]

VARIABLES
  eed,        \* the entity's items
  at,         \* the item the shim is at
  acad,       \* whether the data gone through is ACAD's
  list,       \* where the list starts and ends, and the pairs there is room for
  overrides,  \* the pairs copied: the place of the variable, the value's kind
  stage       \* "seek", "open", "end", "copy", "done"

vars == <<eed, at, acad, list, overrides, stage>>

NoList == [start |-> 0, end |-> 0, capacity |-> 0]

Init ==
  /\ eed \in ExtendedData
  /\ at = 1 /\ acad = FALSE /\ list = NoList /\ overrides = <<>> /\ stage = "seek"

Holds(n, contents) == n \in DOMAIN eed /\ eed[n].holds \in contents

(* The application is looked up at the first item of its data.             *)
IsAcad == IF eed[at].first THEN eed[at].app = "ACAD" ELSE acad

SeekList ==
  /\ stage = "seek" /\ at \in DOMAIN eed
  /\ acad' = IsAcad
  /\ at' = at + 1
  /\ stage' = IF IsAcad /\ eed[at].holds = "DSTYLE" THEN "open" ELSE stage
  /\ UNCHANGED <<eed, list, overrides>>

NoListFound ==
  /\ stage = "seek" /\ at \notin DOMAIN eed
  /\ stage' = "done"
  /\ UNCHANGED <<eed, at, acad, list, overrides>>

SkipBrace ==
  /\ stage = "open"
  /\ at' = IF Holds(at, {"open"}) THEN at + 1 ELSE at
  /\ list' = [NoList EXCEPT !.start = at']
  /\ stage' = "end"
  /\ UNCHANGED <<eed, acad, overrides>>

(* To the next brace, an item without data, or the end of the items; the   *)
(* list then needs room for its pairs, and there may be none.              *)
FindEnd ==
  LET Inside == Contents \ {"open", "close", "null"}
      end == CHOOSE n \in at .. (Len(eed) + 1) :
               ~Holds(n, Inside) /\ \A k \in at .. (n - 1) : Holds(k, Inside)
      pairs == (end - at) \div 2
  IN  /\ stage = "end"
      /\ list' = [list EXCEPT !.end = end, !.capacity = pairs]
      /\ \/ pairs > 0 /\ stage' = "copy"
         \/ stage' = "done"
      /\ UNCHANGED <<eed, at, acad, overrides>>

Values == {"short", "long", "real", "string", "DSTYLE", "handle"}

(* A slip: a value is stepped over as if the list were one of values.      *)
CopyEach ==
  /\ stage = "copy" /\ at + 1 < list.end
  /\ IF Holds(at, {"short"}) /\ Holds(at + 1, Values)
     THEN /\ overrides' = Append(overrides, [variable |-> at, value |-> eed[at + 1].holds])
          /\ at' = at + 1 /\ UNCHANGED stage
     ELSE stage' = "done" /\ UNCHANGED <<overrides, at>>
  /\ UNCHANGED <<eed, acad, list>>

(* A pair, or what is not one, which ends the copying.                     *)
CopyPair ==
  /\ stage = "copy" /\ at + 1 < list.end
  /\ IF Holds(at, {"short"}) /\ Holds(at + 1, Values)
     THEN /\ overrides' = Append(overrides, [variable |-> at, value |-> eed[at + 1].holds])
          /\ at' = at + 2 /\ UNCHANGED stage
     ELSE stage' = "done" /\ UNCHANGED <<overrides, at>>
  /\ UNCHANGED <<eed, acad, list>>

EndOfList ==
  /\ stage = "copy" /\ at + 1 >= list.end
  /\ stage' = "done"
  /\ UNCHANGED <<eed, at, acad, list, overrides>>

Next == SeekList \/ NoListFound \/ SkipBrace \/ FindEnd \/ CopyPair \/ EndOfList

Spec == Init /\ [][Next]_vars
-----------------------------------------------------------------------------
TypeOK ==
  /\ at \in 1 .. (Len(eed) + 1) /\ acad \in BOOLEAN
  /\ list.start <= list.end \/ list.end = 0
  /\ stage \in {"seek", "open", "end", "copy", "done"}

(* Whose data the item `n` belongs to.                                     *)
Application(n) ==
  LET firsts == {k \in 1 .. n : eed[k].first}
  IN  eed[CHOOSE k \in firsts : \A l \in firsts : l <= k].app

(* Variables and values as a DSTYLE list has them, from item `s` on.       *)
IsPair(s, k) == Holds(s + (2 * k) - 2, {"short"}) /\ Holds(s + (2 * k) - 1, Values)

(* An entity's first DSTYLE item of ACAD's, and whether its list is        *)
(* written out: between braces, the closing one in ACAD's data too.        *)
Lists == {n \in DOMAIN eed : eed[n].holds = "DSTYLE" /\ Application(n) = "ACAD"}
First == CHOOSE n \in Lists : \A m \in Lists : n <= m
Closed(s, e) ==
  /\ Holds(s - 1, {"open"}) /\ Holds(e, {"close"}) /\ e > s /\ (e - s) % 2 = 0
  /\ \A k \in s .. (e - 1) : eed[k].holds \notin {"open", "close", "null"}
  /\ \A k \in s .. e : ~eed[k].first

(* The overrides copied fit the room made for them and are pairs of the    *)
(* items, in order and side by side; they come from ACAD's first DSTYLE    *)
(* list, and where it is written out whole, in pairs a variable can have,  *)
(* it is copied whole (but for want of memory).                            *)
OverridesAreTheList ==
  /\ Len(overrides) <= list.capacity
  /\ overrides # <<>> => Lists # {} /\ overrides[1].variable \in {First + 1, First + 2}
  /\ \A n \in DOMAIN overrides :
       /\ overrides[n].variable = list.start + (2 * n) - 2
       /\ overrides[n].value = eed[overrides[n].variable + 1].holds
  /\ stage = "done" /\ Lists # {} =>
       \A e \in DOMAIN eed :
         LET pairs == (e - First - 2) \div 2 IN
         Closed(First + 2, e) /\ (\A k \in 1 .. pairs : IsPair(First + 2, k)) =>
           Len(overrides) \in {0, pairs}
=============================================================================
