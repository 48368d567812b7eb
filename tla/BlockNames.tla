----------------------------- MODULE BlockNames -----------------------------
(***************************************************************************)
(* How the blocks of a drawing are found by name.  An INSERT, a DIMENSION  *)
(* or a LAYOUT of the model names its block, and the block's record stands *)
(* under a name in block_records: the two names are worked out apart, the  *)
(* record's in one pass over the objects (convert_tables), the reference's *)
(* wherever one is met (reference).                                        *)
(*                                                                         *)
(* A drawing before R13 points at blocks by their index in the block       *)
(* table, and its table names every anonymous block of a kind alike, "*D". *)
(* LibreDWG numbers those when it has decoded the drawing, and both sides  *)
(* then put the table index in the number's place.                         *)
(*                                                                         *)
(* A name is a stem and a number: "*D16" is D and 16, "*D" is D and no     *)
(* number, a name with no star is a stem of Parts.  Stems of a star and    *)
(* one letter are Letters; those of more, like "*Model_Space", are Longs,  *)
(* which LibreDWG never numbers.                                           *)
(***************************************************************************)
EXTENDS Integers, Sequences, FiniteSets

CONSTANTS
  Blocks,    \* block headers of the drawing, in the order of its objects
  Letters, Longs, Parts,
  Drawings   \* the drawings looked at

Block == 1 .. Blocks
Stem == Letters \cup Longs \cup Parts
Bare == -1
Name == {n \in [stem : Stem, no : Int] :
           n.no = Bare \/ (n.no >= 0 /\ n.stem \in Letters)}
Key == [stem : Stem, no : Int]   \* a record's name: Longs take a number too

Special(s) == [stem |-> s, no |-> Bare]
NoName   == Special("no name")   \* a null string
Empty    == Special("")          \* an empty one
Unlinked == Special("unlinked")  \* no BLOCK entity at all

(* header: the names in the block table; entity: the names of the BLOCK    *)
(* entities; table: the block each index of the table answers to, 0 none.  *)
Drawing ==
  [preR13 : BOOLEAN,
   header : [Block -> Name \cup {NoName}],
   entity : [Block -> Name \cup {NoName, Empty, Unlinked}],
   table  : Seq(0 .. Blocks)]

ASSUME BlocksAssumption == Blocks \in Nat \ {0}
ASSUME StemsAssumption ==
  /\ Letters \cap (Longs \cup Parts) = {} /\ Longs \cap Parts = {}
  /\ Stem \cap {"no name", "", "unlinked"} = {}
ASSUME DrawingsAssumption == Drawings \subseteq Drawing

VARIABLES
  d,        \* the drawing as the file has it
  header,   \* BLOCK_HEADER.name, as decoded so far
  entity,   \* the BLOCK entity's name
  highest,  \* the highest number met or given, by letter
  phase,    \* "count", "number", "take", "done"
  at,       \* the block the loop is at
  fresh,    \* the blocks numbered after the highest
  records   \* block_records: the block each name holds
vars == <<d, header, entity, highest, phase, at, fresh, records>>

-----------------------------------------------------------------------------
(* A name's parts.                                                         *)
Starred(n) == n.stem \in Letters \cup Longs
Numbered(n) == n.stem \in Letters /\ n.no >= 0
IsBare(n) == n.stem \in Letters /\ n.no = Bare
PreR13BlockName(n, index) == IF Starred(n) THEN [n EXCEPT !.no = index] ELSE n

(* The BLOCK entity's name where it has one, else the header's.            *)
BlockRecordName(b) ==
  IF entity[b] \in {NoName, Empty, Unlinked} THEN header[b] ELSE entity[b]

(* The first index of the table that answers with the block (0-based).     *)
Answers(b) == {i \in DOMAIN d.table : d.table[i] = b}
InTable(b) == Answers(b) # {}
TableIndex(b) == (CHOOSE i \in Answers(b) : \A j \in Answers(b) : i <= j) - 1

RecordName(b) ==
  IF d.preR13 /\ InTable(b)
  THEN PreR13BlockName(BlockRecordName(b), TableIndex(b))
  ELSE BlockRecordName(b)

-----------------------------------------------------------------------------
Init ==
  /\ d \in Drawings
  /\ header = d.header /\ entity = d.entity
  /\ highest = [s \in Letters |-> 0]
  /\ phase = IF d.preR13 THEN "count" ELSE "take"
  /\ at = 1
  /\ fresh = {} /\ records = <<>>

Onward(next) ==
  IF at = Blocks THEN phase' = next /\ at' = 1 ELSE phase' = phase /\ at' = at + 1

(* A slip: the BLOCK entities' numbers are not looked at.                  *)
NumbersOfHeader(b, s) == {n.no : n \in {m \in {header[b]} : Numbered(m) /\ m.stem = s}}

(* The numbers in use, of headers and of BLOCK entities.                   *)
NumbersOf(b, s) == {n.no : n \in {m \in {header[b], entity[b]} : Numbered(m) /\ m.stem = s}}
HighestOf(S) == CHOOSE n \in S : \A m \in S : m <= n

CountNumbers ==
  /\ phase = "count"
  /\ highest' = [s \in Letters |-> HighestOf({highest[s]} \cup NumbersOf(at, s))]
  /\ Onward("number")
  /\ UNCHANGED <<d, header, entity, fresh, records>>

(* A bare header takes its BLOCK entity's number where that is of the same *)
(* letter, and otherwise the next one, which its BLOCK entity takes too.   *)
HasOwnNumber(b) == Numbered(entity[b]) /\ entity[b].stem = header[b].stem

KeepName ==
  /\ phase = "number" /\ ~ IsBare(header[at])
  /\ Onward("take")
  /\ UNCHANGED <<d, header, entity, highest, fresh, records>>

TakeOwnNumber ==
  /\ phase = "number" /\ IsBare(header[at]) /\ HasOwnNumber(at)
  /\ header' = [header EXCEPT ![at] = entity[at]]
  /\ Onward("take")
  /\ UNCHANGED <<d, entity, highest, fresh, records>>

NextNumber(s) == [stem |-> s, no |-> highest[s] + 1]

TakeNextNumber ==
  /\ phase = "number" /\ IsBare(header[at]) /\ ~ HasOwnNumber(at)
  /\ LET s == header[at].stem
     IN  /\ header' = [header EXCEPT ![at] = NextNumber(s)]
         /\ entity' = IF entity[at] = Unlinked THEN entity
                      ELSE [entity EXCEPT ![at] = NextNumber(s)]
         /\ highest' = [highest EXCEPT ![s] = @ + 1]
  /\ fresh' = fresh \cup {at}
  /\ Onward("take")
  /\ UNCHANGED <<d, records>>

(* One block header of the pass over the objects: a later record of the    *)
(* same name takes the earlier one's place.                                *)
Inserted(n, b) == [m \in DOMAIN records \cup {n} |-> IF m = n THEN b ELSE records[m]]

(* A slip: a block without a name is taken too.                            *)
TakeAnyBlock ==
  /\ phase = "take"
  /\ records' = Inserted(RecordName(at), at)
  /\ Onward("done")
  /\ UNCHANGED <<d, header, entity, highest, fresh>>

TakeBlock ==
  /\ phase = "take"
  /\ records' = IF BlockRecordName(at) = NoName THEN records
                ELSE Inserted(RecordName(at), at)
  /\ Onward("done")
  /\ UNCHANGED <<d, header, entity, highest, fresh>>

Next == CountNumbers \/ KeepName \/ TakeOwnNumber \/ TakeNextNumber \/ TakeBlock
Spec == Init /\ [][Next]_vars
-----------------------------------------------------------------------------
(* What a reference to a block resolves to.  Before R13 it carries an      *)
(* index and no object; LibreDWG answers with the BLOCK entity's name      *)
(* where there is a BLOCK entity, else with the header's.                  *)
HandleName(index) ==
  IF index + 1 \in DOMAIN d.table /\ d.table[index + 1] # 0
  THEN LET b == d.table[index + 1]
       IN  IF entity[b] = Unlinked THEN header[b] ELSE entity[b]
  ELSE NoName

Unresolved == Special("unresolved")
ReferenceByIndex(index) ==
  IF HandleName(index) = NoName THEN Unresolved
  ELSE PreR13BlockName(HandleName(index), index)

(* From R13 on the reference carries the object; one whose block has no    *)
(* name stays a handle.                                                    *)
ReferenceByObject(b) ==
  IF BlockRecordName(b) = NoName THEN Unresolved ELSE BlockRecordName(b)
-----------------------------------------------------------------------------
(* Every state holds values of its kind, and a record's key is a name.     *)
TypeOK ==
  /\ d \in Drawings
  /\ header \in [Block -> Name \cup {NoName}]
  /\ entity \in [Block -> Name \cup {NoName, Empty, Unlinked}]
  /\ highest \in [Letters -> Nat]
  /\ phase \in {"count", "number", "take", "done"}
  /\ at \in Block
  /\ fresh \subseteq Block
  /\ DOMAIN records \subseteq Key
  /\ \A n \in DOMAIN records : records[n] \in Block

(* A number LibreDWG makes up is no other block's: neither a header's nor  *)
(* a BLOCK entity's, given or made up before or after.                     *)
FreshNumbersAreUnused ==
  phase \in {"take", "done"} =>
    \A b \in fresh : \A c \in Block \ {b} :
      header[c] # header[b] /\ entity[c] # header[b]

(* The name the file itself gives a block.                                 *)
NameInFile(b) ==
  IF d.entity[b] \in {NoName, Empty, Unlinked} THEN d.header[b] ELSE d.entity[b]

(* The file tells its blocks apart: by name, and before R13 the anonymous  *)
(* ones by an index of their own.                                          *)
BlocksAreApart ==
  /\ \A b, c \in Block :
       b # c /\ NameInFile(b) = NameInFile(c) => d.preR13 /\ Starred(NameInFile(b))
  /\ d.preR13 =>
       /\ \A b \in Block : d.header[b] # NoName /\ d.entity[b] \notin {NoName, Empty}
       /\ \A b \in Block : \E i \in DOMAIN d.table : d.table[i] = b
       /\ \A i, j \in DOMAIN d.table : d.table[i] = d.table[j] /\ d.table[i] # 0 => i = j

(* In such a drawing a reference names a record, and the record is the one *)
(* of the block the reference points at: no anonymous block is drawn in    *)
(* another's place, whatever numbers the file and LibreDWG gave them.      *)
ReferencesLeadToTheirBlock ==
  phase = "done" /\ BlocksAreApart =>
    IF d.preR13
    THEN \A i \in DOMAIN d.table : d.table[i] # 0 =>
           /\ ReferenceByIndex(i - 1) \in DOMAIN records
           /\ records[ReferenceByIndex(i - 1)] = d.table[i]
    ELSE \A b \in Block : ReferenceByObject(b) # Unresolved =>
           /\ ReferenceByObject(b) \in DOMAIN records
           /\ records[ReferenceByObject(b)] = b
=============================================================================
