--------------------------- MODULE HeldModelsLemmas ---------------------------
(* What using a kept model and keeping one more do to the list, entry by   *)
(* entry, for lists of any length and any capacity.                        *)
EXTENDS HeldModels, SequenceTheorems, WellFoundedInduction, TLAPS

LEMMA LeastExists ==
  ASSUME NEW S, S \subseteq Nat, S # {}
  PROVE  \E i \in S : \A j \in S : i <= j
<1> DEFINE less == OpToRel(<, Nat)
<1>1. IsWellFoundedOn(less, Nat)
  BY NatLessThanWellFounded, Zenon
<1>2. \A i, j \in Nat : i < j => <<i, j>> \in less
  BY DEF OpToRel
<1> HIDE DEF less
<1>3. PICK i \in S : \A j \in S : ~(<<j, i>> \in less)
  BY <1>1, WFMin, Zenon
<1>4. \A j \in S : ~(j < i)
  BY <1>2, <1>3, Zenon
<1> QED
  BY <1>4

(* What `get` finds is an entry of these bytes, read this way.             *)
LEMMA PositionIsHeld ==
  ASSUME NEW entries, NEW n \in Nat, NEW r, NEW b,
         Len(entries) = n, Holds(entries, r, b)
  PROVE  /\ Position(entries, r, b) \in 1 .. n
         /\ entries[Position(entries, r, b)].reading = r
         /\ entries[Position(entries, r, b)].bytes = b
<1>1. Positions(entries, r, b) \subseteq Nat /\ Positions(entries, r, b) # {}
  BY DEF Positions, Holds
<1>2. PICK i \in Positions(entries, r, b) : \A j \in Positions(entries, r, b) : i <= j
  BY <1>1, LeastExists
<1>3. Position(entries, r, b) \in Positions(entries, r, b)
  BY <1>2 DEF Position
<1> QED
  BY <1>3 DEF Positions

(* `get` permutes the list: every entry after the one used moves up one,   *)
(* and the one used is last.                                               *)
LEMMA UsedPermutes ==
  ASSUME NEW S, NEW entries \in Seq(S), NEW i \in 1 .. Len(entries)
  PROVE  /\ Used(entries, i) \in Seq(S)
         /\ Len(Used(entries, i)) = Len(entries)
         /\ \A j \in 1 .. Len(entries) :
              Used(entries, i)[j] = IF j < i THEN entries[j]
                                    ELSE IF j < Len(entries) THEN entries[j + 1]
                                    ELSE entries[i]
<1> DEFINE front == SubSeq(entries, 1, i - 1)
           back == SubSeq(entries, i + 1, Len(entries))
<1>1. front \in Seq(S) /\ Len(front) = i - 1 /\ \A j \in 1 .. i - 1 : front[j] = entries[j]
  OBVIOUS
<1>2. /\ back \in Seq(S) /\ Len(back) = Len(entries) - i
      /\ \A j \in 1 .. Len(entries) - i : back[j] = entries[i + j]
  OBVIOUS
<1>3. Used(entries, i) = Append(front \o back, entries[i])
  BY DEF Used, RemoveAt
<1> DEFINE rest == front \o back
<1> HIDE DEF front, back
<1>4. /\ rest \in Seq(S) /\ Len(rest) = Len(front) + Len(back)
      /\ \A j \in 1 .. Len(front) + Len(back) :
           rest[j] = IF j <= Len(front) THEN front[j] ELSE back[j - Len(front)]
  BY <1>1, <1>2, ConcatProperties
<1>5. /\ Len(rest) = Len(entries) - 1
      /\ \A j \in 1 .. Len(entries) - 1 :
           rest[j] = IF j < i THEN entries[j] ELSE entries[j + 1]
  BY <1>1, <1>2, <1>4
<1> HIDE DEF rest
<1>6. Used(entries, i) = Append(rest, entries[i]) /\ entries[i] \in S
  BY <1>3 DEF rest
<1>7. /\ Append(rest, entries[i]) \in Seq(S)
      /\ Len(Append(rest, entries[i])) = Len(entries)
      /\ \A j \in 1 .. Len(entries) - 1 : Append(rest, entries[i])[j] = rest[j]
      /\ Append(rest, entries[i])[Len(entries)] = entries[i]
  BY <1>4, <1>5, <1>6
<1> QED
  BY <1>5, <1>6, <1>7

(* `put` leaves a list of at most `capacity` entries, each an old one or   *)
(* the new one, and nothing changes when the capacity is 0.                *)
LEMMA KeptIsOldOrNew ==
  ASSUME NEW S, NEW entries \in Seq(S), NEW capacity \in Nat, NEW entry \in S,
         Len(entries) <= capacity
  PROVE  /\ Kept(entries, capacity, entry) \in Seq(S)
         /\ Len(Kept(entries, capacity, entry)) <= capacity
         /\ \A j \in 1 .. Len(Kept(entries, capacity, entry)) :
              \/ Kept(entries, capacity, entry)[j] = entry
              \/ \E k \in 1 .. Len(entries) : Kept(entries, capacity, entry)[j] = entries[k]
<1>1. CASE capacity = 0
  BY <1>1 DEF Kept
<1>2. CASE capacity # 0
  <2> DEFINE surplus == IF Len(entries) < capacity THEN 0 ELSE Len(entries) - capacity + 1
             newest == SubSeq(entries, surplus + 1, Len(entries))
  <2>1. Kept(entries, capacity, entry) = Append(newest, entry)
    BY <1>2 DEF Kept
  <2>2. surplus \in Nat /\ surplus <= Len(entries) /\ Len(entries) - surplus < capacity
    BY <1>2
  <2> HIDE DEF surplus
  <2>3. /\ newest \in Seq(S) /\ Len(newest) = Len(entries) - surplus
        /\ \A j \in 1 .. Len(entries) - surplus : newest[j] = entries[surplus + j]
    BY <2>2
  <2> HIDE DEF newest
  <2>4. \A j \in 1 .. Len(newest) : newest[j] = entries[surplus + j] /\ surplus + j \in 1 .. Len(entries)
    BY <2>2, <2>3
  <2> QED
    BY <2>1, <2>2, <2>3, <2>4
<1> QED
  BY <1>1, <1>2
=============================================================================
