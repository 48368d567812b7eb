--------------------------- MODULE HeldReadsProofs ---------------------------
(* HeldReads, for every set of drawings, every decoder and every number of *)
(* models kept: the list holds what a decode gives, once each, and never   *)
(* more than it may, and so every read returns what a decode gives; and    *)
(* what it holds was used more lately than all that it let go.             *)
EXTENDS HeldReads, HeldModelsLemmas, FiniteSetTheorems

(* Why `push_back` never makes a second entry for the same bytes: between  *)
(* the miss and the push nothing is added to the list.                     *)
PutIsOfNew ==
  pc = "put" => ~Holds(entries, asked[1], asked[2]) /\ Decode[asked] \in Model

IInv == TypeOK /\ HeldAsDecoded /\ HeldOnce /\ PutIsOfNew

LEMMA KeyParts ==
  ASSUME NEW key \in Key
  PROVE  key[1] \in Reading /\ key[2] \in Bytes /\ key = <<key[1], key[2]>>
BY DEF Key

LEMMA Initial == Init => IInv
<1> SUFFICES ASSUME Init PROVE IInv
  OBVIOUS
<1>1. entries = <<>> /\ Len(entries) = 0
  BY DEF Init
<1>2. TypeOK
  BY <1>1, HeldReadsAssumption DEF Init, TypeOK
<1> QED
  BY <1>1, <1>2, HeldReadsAssumption DEF Init, IInv, HeldAsDecoded, HeldOnce, PutIsOfNew

(* A hit permutes the list.                                                *)
LEMMA HitKeeps == IInv /\ Hit => IInv'
<1> SUFFICES ASSUME IInv, Hit PROVE IInv'
  OBVIOUS
<1> DEFINE n == Len(entries)
           i == Position(entries, asked[1], asked[2])
<1>1. entries \in Seq(HeldEntry) /\ n \in Nat
  BY DEF IInv, TypeOK
<1>2. i \in 1 .. n /\ entries[i] \in HeldEntry
  <2>1. i \in 1 .. n
    BY <1>1, PositionIsHeld DEF Hit
  <2> QED BY <1>1, <2>1
<1>3. entries' = Used(entries, i) /\ pc' = "idle" /\ answer' = entries[i].model
  BY DEF Hit, Return
<1>4. /\ entries' \in Seq(HeldEntry) /\ Len(entries') = n
      /\ \A j \in 1 .. n : entries'[j] = entries[IF j < i THEN j ELSE IF j < n THEN j + 1 ELSE i]
  <2> HIDE DEF i
  <2>1. /\ Used(entries, i) \in Seq(HeldEntry) /\ Len(Used(entries, i)) = n
        /\ \A j \in 1 .. n : Used(entries, i)[j] = IF j < i THEN entries[j]
                                  ELSE IF j < n THEN entries[j + 1] ELSE entries[i]
    BY <1>1, <1>2, UsedPermutes
  <2> QED BY <1>3, <2>1
<1> HIDE DEF i
<1>5. TypeOK'
  <2>1. answer' \in Model
    BY <1>2, <1>3 DEF HeldEntry
  <2>2. uses' \in Seq(Key)
    BY DEF IInv, TypeOK, Hit, Return
  <2>3. capacity' = capacity /\ asked' = asked
    BY DEF Hit
  <2> QED BY <1>3, <1>4, <2>1, <2>2, <2>3 DEF IInv, TypeOK
<1>6. HeldAsDecoded'
  BY <1>1, <1>2, <1>4 DEF IInv, HeldAsDecoded, EntryKey
<1>7. HeldOnce'
  <2>1. Len(entries') <= capacity'
    BY <1>4 DEF IInv, HeldOnce, Hit
  <2>2. ASSUME NEW j \in 1 .. n, NEW k \in 1 .. n, EntryKey(entries'[j]) = EntryKey(entries'[k])
        PROVE  j = k
    <3> DEFINE from(m) == IF m < i THEN m ELSE IF m < n THEN m + 1 ELSE i
    <3>1. from(j) \in 1 .. n /\ from(k) \in 1 .. n
      BY <1>1, <1>2
    <3>2. EntryKey(entries[from(j)]) = EntryKey(entries[from(k)])
      BY <1>4, <2>2
    <3>3. from(j) = from(k)
      BY <3>1, <3>2 DEF IInv, HeldOnce
    <3> QED BY <1>1, <1>2, <3>3
  <2> QED BY <1>4, <2>1, <2>2 DEF HeldOnce
<1>8. PutIsOfNew'
  BY <1>3 DEF PutIsOfNew
<1> QED
  BY <1>5, <1>6, <1>7, <1>8 DEF IInv

(* One turn of the loop drops the front.                                   *)
LEMMA EvictKeeps == IInv /\ Evict => IInv'
<1> SUFFICES ASSUME IInv, Evict PROVE IInv'
  OBVIOUS
<1>1. /\ entries \in Seq(HeldEntry) /\ Len(entries) \in Nat /\ Len(entries) <= capacity
      /\ capacity \in Nat /\ capacity # 0 /\ Len(entries) >= capacity
  BY HeldReadsAssumption DEF IInv, TypeOK, HeldOnce, Evict, Full, KeepingIsOff
<1>2. /\ entries' \in Seq(HeldEntry) /\ Len(entries') = Len(entries) - 1
      /\ \A j \in 1 .. Len(entries') : entries'[j] = entries[j + 1]
  <2>1. entries # <<>> /\ entries' = Tail(entries)
    BY <1>1 DEF Evict
  <2> QED BY <1>1, <2>1, HeadTailProperties
<1>3. UNCHANGED <<capacity, pc, asked, answer, uses>>
  BY DEF Evict
<1>4. TypeOK'
  BY <1>2, <1>3 DEF IInv, TypeOK
<1>5. HeldAsDecoded'
  BY <1>1, <1>2 DEF IInv, HeldAsDecoded, EntryKey
<1>6. HeldOnce'
  <2>1. ASSUME NEW j \in 1 .. Len(entries'), NEW k \in 1 .. Len(entries'),
               EntryKey(entries'[j]) = EntryKey(entries'[k])
        PROVE  j = k
    <3>1. j + 1 \in 1 .. Len(entries) /\ k + 1 \in 1 .. Len(entries)
      BY <1>1, <1>2
    <3>2. j + 1 = k + 1
      BY <1>2, <2>1, <3>1 DEF IInv, HeldOnce
    <3> QED BY <1>1, <1>2, <3>2
  <2> QED BY <1>1, <1>2, <1>3, <2>1 DEF HeldOnce
<1>7. PutIsOfNew'
  BY <1>1, <1>2, <1>3 DEF IInv, PutIsOfNew, Holds, Positions
<1> QED
  BY <1>4, <1>5, <1>6, <1>7 DEF IInv

(* The push adds bytes that, read this way, the list does not hold.        *)
LEMMA PushKeeps == IInv /\ Push => IInv'
<1> SUFFICES ASSUME IInv, Push PROVE IInv'
  OBVIOUS
<1>1. /\ entries \in Seq(HeldEntry) /\ Len(entries) \in Nat
      /\ capacity \in Nat /\ Len(entries) < capacity
  BY HeldReadsAssumption DEF IInv, TypeOK, Push, Full, KeepingIsOff
<1>2. /\ asked \in Key /\ Decode[asked] \in Model /\ ~Holds(entries, asked[1], asked[2])
      /\ entries' = Append(entries, NewEntry) /\ answer' = Decode[asked]
      /\ pc' = "idle" /\ asked' = asked /\ capacity' = capacity
  BY DEF IInv, TypeOK, PutIsOfNew, Push, Return
<1>3. NewEntry \in HeldEntry /\ EntryKey(NewEntry) = asked /\ NewEntry.model = Decode[asked]
  BY <1>2, KeyParts DEF NewEntry, Entry, HeldEntry, EntryKey
<1>4. /\ entries' \in Seq(HeldEntry) /\ Len(entries') = Len(entries) + 1
      /\ \A j \in 1 .. Len(entries) : entries'[j] = entries[j]
      /\ entries'[Len(entries) + 1] = NewEntry
  <2> HIDE DEF NewEntry
  <2> QED BY <1>1, <1>2, <1>3
<1>5. TypeOK'
  <2>1. uses' \in Seq(Key)
    BY <1>2 DEF IInv, TypeOK, Push, Return
  <2> QED BY <1>2, <1>4, <2>1 DEF IInv, TypeOK
<1>6. HeldAsDecoded'
  <2>1. ASSUME NEW j \in 1 .. Len(entries')
        PROVE  Decode[EntryKey(entries'[j])] = entries'[j].model
    <3>1. CASE j <= Len(entries)
      BY <1>1, <1>4, <3>1 DEF IInv, HeldAsDecoded
    <3>2. CASE j = Len(entries) + 1
      BY <1>3, <1>4, <3>2
    <3> QED BY <1>1, <1>4, <3>1, <3>2
  <2> QED BY <2>1 DEF HeldAsDecoded
<1>7. HeldOnce'
  <2>1. \A j \in 1 .. Len(entries) : EntryKey(entries[j]) # asked
    BY <1>2, KeyParts DEF Holds, Positions, EntryKey
  <2>2. ASSUME NEW j \in 1 .. Len(entries'), NEW k \in 1 .. Len(entries'),
               EntryKey(entries'[j]) = EntryKey(entries'[k])
        PROVE  j = k
    <3>1. CASE j \in 1 .. Len(entries) /\ k \in 1 .. Len(entries)
      BY <1>4, <2>2, <3>1 DEF IInv, HeldOnce
    <3>2. CASE j = Len(entries) + 1 \/ k = Len(entries) + 1
      BY <1>1, <1>3, <1>4, <2>1, <2>2, <3>2
    <3> QED BY <1>1, <1>4, <3>1, <3>2
  <2> QED BY <1>1, <1>2, <1>4, <2>2 DEF HeldOnce
<1>8. PutIsOfNew'
  BY <1>2 DEF PutIsOfNew
<1> QED
  BY <1>5, <1>6, <1>7, <1>8 DEF IInv

LEMMA Inductive == IInv /\ [Next]_vars => IInv'
<1> SUFFICES ASSUME IInv, [Next]_vars PROVE IInv'
  OBVIOUS
<1> USE HeldReadsAssumption
<1>1. CASE Serve
  <2>1. entries' = entries /\ Len(entries) = 0 /\ capacity' = HeldDrawings
    BY <1>1 DEF IInv, TypeOK, HeldOnce, Serve, Truncated
  <2>2. TypeOK'
    BY <1>1, <2>1 DEF IInv, TypeOK, Serve
  <2> QED BY <1>1, <2>1, <2>2 DEF IInv, HeldAsDecoded, HeldOnce, PutIsOfNew, Serve
<1>2. ASSUME NEW key \in Key, Ask(key) PROVE IInv'
  <2>1. TypeOK'
    BY <1>2 DEF IInv, TypeOK, Ask
  <2> QED BY <1>2, <2>1 DEF IInv, HeldAsDecoded, HeldOnce, PutIsOfNew, Ask
<1>3. CASE Hit
  BY <1>3, HitKeeps
<1>4. CASE MissUndecodable
  <2>1. TypeOK'
    BY <1>4 DEF IInv, TypeOK, MissUndecodable, Return
  <2> QED BY <1>4, <2>1 DEF IInv, HeldAsDecoded, HeldOnce, PutIsOfNew, MissUndecodable, Return
<1>5. CASE Miss
  <2>1. TypeOK'
    BY <1>5 DEF IInv, TypeOK, Miss
  <2>2. Decode[asked] \in Model
    BY <1>5 DEF IInv, TypeOK, Miss, Key
  <2> QED BY <1>5, <2>1, <2>2 DEF IInv, HeldAsDecoded, HeldOnce, PutIsOfNew, Miss
<1>6. CASE PutNothing
  <2>1. Decode[asked] \in Model
    BY <1>6 DEF IInv, PutIsOfNew, PutNothing
  <2>2. TypeOK'
    BY <1>6, <2>1 DEF IInv, TypeOK, PutNothing, Return
  <2> QED BY <1>6, <2>2 DEF IInv, HeldAsDecoded, HeldOnce, PutIsOfNew, PutNothing, Return
<1>7. CASE Evict
  BY <1>7, EvictKeeps
<1>8. CASE Push
  BY <1>8, PushKeeps
<1>9. CASE UNCHANGED vars
  BY <1>9 DEF vars, IInv, TypeOK, HeldAsDecoded, HeldOnce, PutIsOfNew
<1> QED
  BY <1>1, <1>2, <1>3, <1>4, <1>5, <1>6, <1>7, <1>8, <1>9 DEF Next

(* Every state a process reaches is well typed.                            *)
THEOREM TypeCorrect == Spec => []TypeOK
<1>1. IInv => TypeOK
  BY DEF IInv
<1> QED
  BY <1>1, Initial, Inductive, PTL DEF Spec

(* A kept model is always what decoding its bytes, its way, gives.         *)
THEOREM KeptModelsAreDecoded == Spec => []HeldAsDecoded
<1>1. IInv => HeldAsDecoded
  BY DEF IInv
<1> QED
  BY <1>1, Initial, Inductive, PTL DEF Spec

(* No drawing is kept twice, and never more of them than may be.           *)
THEOREM KeptModelsAreBounded == Spec => []HeldOnce
<1>1. IInv => HeldOnce
  BY DEF IInv
<1> QED
  BY <1>1, Initial, Inductive, PTL DEF Spec

(* What a read returns is what decoding its bytes gives: keeping models    *)
(* never shows in an answer.                                               *)
THEOREM AnswersAreDecoded == Spec => AnsweredAsDecoded
<1>1. IInv /\ [Next]_vars => [pc # "idle" /\ pc' = "idle" => answer' = Decode[asked]]_vars
  <2> SUFFICES ASSUME IInv, Next, pc # "idle", pc' = "idle" PROVE answer' = Decode[asked]
    OBVIOUS
  <2>1. CASE Hit
    <3> DEFINE i == Position(entries, asked[1], asked[2])
    <3>1. /\ i \in 1 .. Len(entries)
          /\ entries[i].reading = asked[1] /\ entries[i].bytes = asked[2]
      BY <2>1, PositionIsHeld DEF IInv, TypeOK, Hit
    <3>2. answer' = entries[i].model
      BY <2>1 DEF Hit, Return
    <3> HIDE DEF i
    <3>3. asked = EntryKey(entries[i])
      BY <3>1, KeyParts DEF IInv, TypeOK, EntryKey
    <3> QED BY <3>1, <3>2, <3>3 DEF IInv, HeldAsDecoded
  <2>2. CASE MissUndecodable \/ PutNothing \/ Push
    BY <2>2 DEF MissUndecodable, PutNothing, Push, Return
  <2>3. CASE Serve \/ (\E key \in Key : Ask(key)) \/ Miss \/ Evict
    BY <2>3 DEF Serve, Ask, Miss, Evict
  <2> QED BY <2>1, <2>2, <2>3 DEF Next
<1> QED
  BY <1>1, Initial, Inductive, PTL DEF Spec, AnsweredAsDecoded
-----------------------------------------------------------------------------
(* The order of the list is the order of use: `b` was used after every use *)
(* of `a`.                                                                 *)
After(a, b) ==
  \E n \in 1 .. Len(uses) : uses[n] = b /\ \A m \in 1 .. Len(uses) : uses[m] = a => m < n

IsHeld(key) == \E i \in 1 .. Len(entries) : EntryKey(entries[i]) = key

(* Every entry was used, an entry nearer the back after the ones before    *)
(* it; what is held no more was used before all that is; and something is  *)
(* held no more only where the list is full, but for the room a put makes. *)
RecencyInv ==
  /\ \A i \in 1 .. Len(entries) : \E n \in 1 .. Len(uses) : uses[n] = EntryKey(entries[i])
  /\ \A i, j \in 1 .. Len(entries) :
       i < j => After(EntryKey(entries[i]), EntryKey(entries[j]))
  /\ \A n \in 1 .. Len(uses) : ~ IsHeld(uses[n]) =>
       \A i \in 1 .. Len(entries) : After(uses[n], EntryKey(entries[i]))
  /\ \A n \in 1 .. Len(uses) : ~ IsHeld(uses[n]) =>
       capacity <= Len(entries) + (IF pc = "put" THEN 1 ELSE 0)

LEMMA OneMoreUse ==
  ASSUME uses \in Seq(Key), NEW key \in Key, uses' = Append(uses, key)
  PROVE  /\ Len(uses) \in Nat /\ Len(uses') = Len(uses) + 1
         /\ \A n \in 1 .. Len(uses) : uses'[n] = uses[n]
         /\ uses'[Len(uses) + 1] = key
         /\ \A a, b : a # key /\ After(a, b) => After(a, b)'
         /\ \A a : a # key => After(a, key)'
<1>1. /\ Len(uses) \in Nat /\ Len(uses') = Len(uses) + 1
      /\ \A n \in 1 .. Len(uses) : uses'[n] = uses[n]
      /\ uses'[Len(uses) + 1] = key
  BY AppendProperties, LenProperties
<1>2. ASSUME NEW m \in 1 .. Len(uses'), uses'[m] # key PROVE m \in 1 .. Len(uses)
  BY <1>1, <1>2
<1>3. ASSUME NEW a, NEW b, a # key, After(a, b) PROVE After(a, b)'
  <2>1. PICK n \in 1 .. Len(uses) : uses[n] = b /\ \A m \in 1 .. Len(uses) : uses[m] = a => m < n
    BY <1>3 DEF After
  <2>2. n \in 1 .. Len(uses') /\ uses'[n] = b
    BY <1>1, <2>1
  <2>3. \A m \in 1 .. Len(uses') : uses'[m] = a => m < n
    BY <1>1, <1>2, <1>3, <2>1
  <2> QED BY <2>2, <2>3 DEF After
<1>4. ASSUME NEW a, a # key PROVE After(a, key)'
  <2>1. \A m \in 1 .. Len(uses') : uses'[m] = a => m < Len(uses) + 1
    BY <1>1, <1>2, <1>4
  <2>2. Len(uses) + 1 \in 1 .. Len(uses')
    BY <1>1
  <2> QED BY <1>1, <2>1, <2>2 DEF After
<1> QED
  BY <1>1, <1>3, <1>4

(* A read that takes nothing from the list and puts nothing into it.       *)
LEMMA RecencyStays ==
  ASSUME IInv, RecencyInv, UNCHANGED <<entries, uses, capacity>>, pc' = "put" \/ pc # "put"
  PROVE  RecencyInv'
<1>0. capacity \in Nat /\ Len(entries) \in Nat
  BY HeldReadsAssumption DEF IInv, TypeOK
<1>1. /\ \A a, b : After(a, b) => After(a, b)'
      /\ \A key : IsHeld(key) => IsHeld(key)'
      /\ entries' = entries /\ uses' = uses /\ capacity' = capacity
  BY DEF After, IsHeld, EntryKey
<1>2. capacity <= Len(entries) + (IF pc = "put" THEN 1 ELSE 0)
      => capacity' <= Len(entries') + (IF pc' = "put" THEN 1 ELSE 0)
  <2>1. CASE pc # "put" /\ pc' = "put"
    BY <1>0, <1>1, <2>1
  <2>2. CASE ~ (pc # "put" /\ pc' = "put")
    BY <1>1, <2>2
  <2> QED BY <2>1, <2>2
<1> QED
  BY <1>1, <1>2 DEF RecencyInv, EntryKey

(* The invariant after a step, from the keys of the list it leaves.        *)
LEMMA RecencyOfKeys ==
  ASSUME NEW n, NEW keys, Len(entries') = n,
         \A j \in 1 .. n : EntryKey(entries'[j]) = keys[j],
         \A j \in 1 .. n : \E m \in 1 .. Len(uses') : uses'[m] = keys[j],
         \A j, k \in 1 .. n : j < k => After(keys[j], keys[k])',
         \A m \in 1 .. Len(uses') : \A u : u = uses'[m] /\ ~ IsHeld(u)' =>
           /\ \A j \in 1 .. n : After(u, keys[j])'
           /\ capacity' <= n + (IF pc' = "put" THEN 1 ELSE 0)
  PROVE  RecencyInv'
<1>1. \A i \in 1 .. Len(entries') : \E m \in 1 .. Len(uses') : uses'[m] = EntryKey(entries[i])'
  BY DEF EntryKey
<1>2. ASSUME NEW i \in 1 .. Len(entries'), NEW j \in 1 .. Len(entries'), i < j
      PROVE  After(EntryKey(entries[i]), EntryKey(entries[j]))'
  <2>1. After(keys[i], keys[j])'
    BY <1>2
  <2>2. EntryKey(entries'[i]) = keys[i] /\ EntryKey(entries'[j]) = keys[j]
    OBVIOUS
  <2> QED BY <2>1, <2>2, Zenon DEF After
<1>3. ASSUME NEW m \in 1 .. Len(uses'), ~ IsHeld(uses[m])'
      PROVE  /\ \A i \in 1 .. Len(entries') : After(uses[m], EntryKey(entries[i]))'
             /\ capacity' <= Len(entries') + (IF pc' = "put" THEN 1 ELSE 0)
  <2>1. PICK u : u = uses'[m]
    OBVIOUS
  <2>2. ~ IsHeld(u)'
    BY <1>3, <2>1 DEF IsHeld
  <2>3. /\ \A j \in 1 .. n : After(u, keys[j])'
        /\ capacity' <= n + (IF pc' = "put" THEN 1 ELSE 0)
    BY <2>1, <2>2
  <2> QED BY <2>1, <2>3 DEF After, EntryKey
<1> QED
  BY <1>1, <1>2, <1>3 DEF RecencyInv

LEMMA HitIsLastUse ==
  ASSUME IInv, RecencyInv, Hit
  PROVE  RecencyInv'
<1> PICK key : key = asked
  OBVIOUS
<1> DEFINE i == Position(entries, asked[1], asked[2])
<1>1. entries \in Seq(HeldEntry) /\ Len(entries) \in Nat /\ key \in Key
  BY DEF IInv, TypeOK
<1>2. PICK at \in 1 .. Len(entries) : at = i
  BY <1>1, PositionIsHeld DEF Hit
<1>3. EntryKey(entries[at]) = key /\ entries[at] \in HeldEntry
  <2>1. entries[i].reading = asked[1] /\ entries[i].bytes = asked[2]
    BY <1>1, PositionIsHeld DEF Hit
  <2> HIDE DEF i
  <2> QED BY <1>1, <1>2, <2>1, KeyParts DEF EntryKey
<1>4. /\ entries' = Used(entries, at) /\ pc' = "idle" /\ capacity' = capacity
      /\ uses' = IF entries[at].model = Undecodable THEN uses ELSE Append(uses, asked)
  BY <1>2 DEF Hit, Return
<1> HIDE DEF i
<1>5. uses' = Append(uses, key)
  <2>1. entries[at].model # Undecodable
    BY <1>3, HeldReadsAssumption DEF HeldEntry
  <2> QED BY <1>4, <2>1
<1>6. PICK n : n = Len(entries)
  OBVIOUS
<1>7. PICK old : old = [j \in 1 .. n |-> EntryKey(entries[j])]
  OBVIOUS
<1> DEFINE from(j) == IF j < at THEN j ELSE IF j < n THEN j + 1 ELSE at
           to(j) == IF j < at THEN j ELSE IF j = at THEN n ELSE j - 1
<1>8. PICK new : new = [j \in 1 .. n |-> old[from(j)]]
  OBVIOUS
<1>9. /\ \A j \in 1 .. n : from(j) \in 1 .. n /\ to(j) \in 1 .. n /\ from(to(j)) = j
      /\ \A j \in 1 .. n : from(j) = at <=> j = n
      /\ \A j, k \in 1 .. n : j < k /\ k # n => from(j) < from(k)
      /\ \A j, k \in 1 .. n : j < k => j # n
      /\ n \in 1 .. n
  BY <1>1, <1>2, <1>6
<1>10. Len(entries') = n /\ \A j \in 1 .. n : EntryKey(entries'[j]) = new[j]
  <2>1. /\ Len(Used(entries, at)) = n
        /\ \A j \in 1 .. n : Used(entries, at)[j] = entries[from(j)]
    BY <1>1, <1>2, <1>6, UsedPermutes
  <2> HIDE DEF from
  <2> QED BY <1>4, <1>7, <1>8, <1>9, <2>1 DEF EntryKey
<1> HIDE DEF from, to
<1>11. \A j, k \in 1 .. n : old[j] = old[k] => j = k
  BY <1>6, <1>7 DEF IInv, HeldOnce
<1>12. old[at] = key /\ new[n] = key /\ \A j \in 1 .. n : j # n => new[j] # key
  BY <1>2, <1>3, <1>6, <1>7, <1>8, <1>9, <1>11
<1>13. \A k : IsHeld(k)' <=> IsHeld(k)
  <2>1. \A k : IsHeld(k) <=> \E j \in 1 .. n : old[j] = k
    BY <1>6, <1>7 DEF IsHeld
  <2>2. \A k : IsHeld(k)' <=> \E j \in 1 .. n : new[j] = k
    BY <1>10 DEF IsHeld, EntryKey
  <2>3. \A k : (\E j \in 1 .. n : old[j] = k) <=> (\E j \in 1 .. n : new[j] = k)
    BY <1>8, <1>9
  <2> QED BY <2>1, <2>2, <2>3
<1>14. uses \in Seq(Key)
  BY DEF IInv, TypeOK
<1>15. /\ Len(uses) \in Nat /\ Len(uses') = Len(uses) + 1
       /\ \A m \in 1 .. Len(uses) : uses'[m] = uses[m]
       /\ uses'[Len(uses) + 1] = key
       /\ \A a, b : a # key /\ After(a, b) => After(a, b)'
       /\ \A a : a # key => After(a, key)'
  BY <1>1, <1>5, <1>14, OneMoreUse
<1>16. IsHeld(key)
  BY <1>2, <1>3 DEF IsHeld
<1>17. ASSUME NEW m \in 1 .. Len(uses'), NEW u, u = uses'[m], ~ IsHeld(u)'
       PROVE  m \in 1 .. Len(uses) /\ u = uses[m] /\ u # key /\ ~ IsHeld(u)
  BY <1>13, <1>15, <1>16, <1>17
<1>18. \A j \in 1 .. n : \E m \in 1 .. Len(uses') : uses'[m] = new[j]
  <2>1. \A j \in 1 .. n : \E m \in 1 .. Len(uses) : uses[m] = old[j]
    BY <1>6, <1>7 DEF RecencyInv
  <2>2. 1 .. Len(uses) \subseteq 1 .. Len(uses')
    BY <1>15
  <2> QED BY <1>8, <1>9, <1>15, <2>1, <2>2
<1>19. ASSUME NEW j \in 1 .. n, NEW k \in 1 .. n, j < k PROVE After(new[j], new[k])'
  <2>1. new[j] # key
    BY <1>9, <1>12, <1>19
  <2>2. CASE k = n
    BY <1>12, <1>15, <2>1, <2>2
  <2>3. CASE k # n
    <3>1. After(old[from(j)], old[from(k)])
      <4>1. \A a, b \in 1 .. n : a < b => After(old[a], old[b])
        BY <1>6, <1>7 DEF RecencyInv
      <4> QED BY <1>9, <1>19, <2>3, <4>1
    <3> QED BY <1>8, <1>15, <2>1, <3>1
  <2> QED BY <2>2, <2>3
<1>20. ASSUME NEW m \in 1 .. Len(uses'), NEW u, u = uses'[m], ~ IsHeld(u)', NEW j \in 1 .. n
       PROVE  After(u, new[j])'
  <2>1. u # key /\ After(u, old[from(j)])
    BY <1>6, <1>7, <1>9, <1>17, <1>20 DEF RecencyInv
  <2> QED BY <1>8, <1>15, <2>1
<1>21. ASSUME NEW m \in 1 .. Len(uses'), NEW u, u = uses'[m], ~ IsHeld(u)'
       PROVE  capacity' <= Len(entries')
  <2>1. pc # "put"
    BY DEF Hit
  <2>2. m \in 1 .. Len(uses) /\ ~ IsHeld(uses[m])
    BY <1>17, <1>21
  <2>3. capacity <= Len(entries) + 0
    BY <2>1, <2>2 DEF RecencyInv
  <2> QED BY <1>1, <1>4, <1>6, <1>10, <2>3
<1> QED
  <2>1. ASSUME NEW m \in 1 .. Len(uses'), NEW u, u = uses'[m], ~ IsHeld(u)'
        PROVE  /\ \A j \in 1 .. n : After(u, new[j])'
               /\ capacity' <= n + (IF pc' = "put" THEN 1 ELSE 0)
    <3>1. capacity' <= n + 0
      BY <1>1, <1>6, <1>10, <1>21, <2>1
    <3> QED BY <1>4, <1>20, <2>1, <3>1
  <2> QED BY <1>10, <1>18, <1>19, <2>1, RecencyOfKeys, Zenon

(* The entry that is dropped was used before all that stay.                *)
LEMMA EvictIsLeastRecent ==
  ASSUME IInv, RecencyInv, Evict
  PROVE  RecencyInv'
<1>1. /\ entries \in Seq(HeldEntry) /\ Len(entries) \in Nat
      /\ capacity \in Nat /\ capacity # 0 /\ Len(entries) >= capacity /\ pc = "put"
  BY HeldReadsAssumption DEF IInv, TypeOK, Evict, Full, KeepingIsOff
<1>2. /\ Len(entries') = Len(entries) - 1
      /\ \A j \in 1 .. Len(entries') : entries'[j] = entries[j + 1]
  <2>1. entries # <<>> /\ entries' = Tail(entries)
    BY <1>1 DEF Evict
  <2> QED BY <1>1, <2>1, HeadTailProperties
<1>3. uses' = uses /\ capacity' = capacity /\ pc' = pc
  BY DEF Evict
<1>4. \A a, b : After(a, b) => After(a, b)'
  BY <1>3 DEF After
<1>5. \A j \in 1 .. Len(entries') : j + 1 \in 1 .. Len(entries) /\ 1 < j + 1
  BY <1>1, <1>2
<1>6. PICK new : new = [j \in 1 .. Len(entries') |-> EntryKey(entries'[j])]
  OBVIOUS
<1>7. \A j \in 1 .. Len(entries') : new[j] = EntryKey(entries[j + 1]) /\ EntryKey(entries'[j]) = new[j]
  BY <1>2, <1>6
<1>8. \A j \in 1 .. Len(entries') : \E n \in 1 .. Len(uses') : uses'[n] = new[j]
  BY <1>3, <1>5, <1>7 DEF RecencyInv
<1>9. \A j, k \in 1 .. Len(entries') : j < k => After(new[j], new[k])'
  <2>1. SUFFICES ASSUME NEW j \in 1 .. Len(entries'), NEW k \in 1 .. Len(entries'), j < k
                 PROVE  After(new[j], new[k])'
    OBVIOUS
  <2>2. j + 1 < k + 1
    BY <1>1, <1>2, <2>1
  <2> QED BY <1>4, <1>5, <1>7, <2>2 DEF RecencyInv
<1>10. ASSUME NEW n \in 1 .. Len(uses), NEW u, u = uses[n], ~ IsHeld(u)', NEW j \in 1 .. Len(entries')
       PROVE  After(u, new[j])'
  <2>1. CASE IsHeld(u)
    <3>1. PICK k \in 1 .. Len(entries) : EntryKey(entries[k]) = u
      BY <2>1 DEF IsHeld
    <3>2. k = 1
      <4>1. k # 1 => k - 1 \in 1 .. Len(entries') /\ (k - 1) + 1 = k
        BY <1>1, <1>2
      <4>2. k # 1 => EntryKey(entries'[k - 1]) = u
        BY <1>7, <3>1, <4>1
      <4> QED BY <1>10, <4>1, <4>2 DEF IsHeld, EntryKey
    <3> QED BY <1>4, <1>5, <1>7, <3>1, <3>2 DEF RecencyInv
  <2>2. CASE ~ IsHeld(u)
    BY <1>4, <1>5, <1>7, <1>10, <2>2 DEF RecencyInv
  <2> QED BY <2>1, <2>2
<1>11. capacity' <= Len(entries') + 1
  BY <1>1, <1>2, <1>3
<1>12. pc' = "put"
  BY <1>1, <1>3
<1> QED
  BY <1>3, <1>7, <1>8, <1>9, <1>10, <1>11, <1>12, RecencyOfKeys

(* What is pushed is used last.                                            *)
LEMMA PushIsLastUse ==
  ASSUME IInv, RecencyInv, Push
  PROVE  RecencyInv'
<1> PICK key : key = asked
  OBVIOUS
<1>1. /\ entries \in Seq(HeldEntry) /\ Len(entries) \in Nat /\ capacity \in Nat
      /\ key \in Key /\ uses \in Seq(Key) /\ ~ Holds(entries, asked[1], asked[2])
      /\ pc = "put" /\ Decode[asked] \in Model
  BY HeldReadsAssumption DEF IInv, TypeOK, PutIsOfNew, Push
<1>2. /\ entries' = Append(entries, NewEntry) /\ pc' = "idle" /\ capacity' = capacity
      /\ uses' = Append(uses, key)
  <2>1. Decode[asked] # Undecodable
    BY <1>1, HeldReadsAssumption
  <2> QED BY <2>1 DEF Push, Return
<1>3. NewEntry \in HeldEntry /\ EntryKey(NewEntry) = key
  BY <1>1, KeyParts DEF NewEntry, Entry, HeldEntry, EntryKey
<1>4. PICK n : n = Len(entries)
  OBVIOUS
<1>5. /\ Len(entries') = n + 1
      /\ \A j \in 1 .. n : entries'[j] = entries[j]
      /\ entries'[n + 1] = NewEntry
  <2> HIDE DEF NewEntry
  <2> QED BY <1>1, <1>2, <1>3, <1>4
<1>6. PICK new : new = [j \in 1 .. n + 1 |-> IF j = n + 1 THEN key ELSE EntryKey(entries[j])]
  OBVIOUS
<1>7. /\ \A j \in 1 .. n + 1 : j \in 1 .. n \/ j = n + 1
      /\ 1 .. n \subseteq 1 .. n + 1 /\ n + 1 \in 1 .. n + 1 /\ ~ n + 1 \in 1 .. n
      /\ \A j, k \in 1 .. n + 1 : j < k => j \in 1 .. n
  BY <1>1, <1>4
<1>8. /\ \A j \in 1 .. n : new[j] = EntryKey(entries[j])
      /\ new[n + 1] = key
  BY <1>6, <1>7
<1>9. \A j \in 1 .. n + 1 : EntryKey(entries'[j]) = new[j]
  BY <1>3, <1>5, <1>7, <1>8
<1>10. \A j \in 1 .. n : new[j] # key
  BY <1>1, <1>4, <1>8, KeyParts DEF Holds, Positions, EntryKey
<1>11. /\ Len(uses) \in Nat /\ Len(uses') = Len(uses) + 1
       /\ \A m \in 1 .. Len(uses) : uses'[m] = uses[m]
       /\ uses'[Len(uses) + 1] = key
       /\ \A a, b : a # key /\ After(a, b) => After(a, b)'
       /\ \A a : a # key => After(a, key)'
  BY <1>1, <1>2, OneMoreUse
<1>12. \A j \in 1 .. n + 1 : \E m \in 1 .. Len(uses') : uses'[m] = new[j]
  <2>1. \A j \in 1 .. n : \E m \in 1 .. Len(uses) : uses[m] = new[j]
    BY <1>4, <1>8 DEF RecencyInv
  <2>2. 1 .. Len(uses) \subseteq 1 .. Len(uses') /\ Len(uses) + 1 \in 1 .. Len(uses')
    BY <1>11
  <2> QED BY <1>7, <1>8, <1>11, <2>1, <2>2
<1>13. ASSUME NEW j \in 1 .. n + 1, NEW k \in 1 .. n + 1, j < k PROVE After(new[j], new[k])'
  <2>1. j \in 1 .. n /\ new[j] # key
    BY <1>7, <1>10, <1>13
  <2>2. CASE k = n + 1
    BY <1>8, <1>11, <2>1, <2>2
  <2>3. CASE k \in 1 .. n
    BY <1>4, <1>8, <1>11, <1>13, <2>1, <2>3 DEF RecencyInv
  <2> QED BY <1>7, <2>2, <2>3
<1>14. ASSUME NEW m \in 1 .. Len(uses'), NEW u, u = uses'[m], ~ IsHeld(u)'
       PROVE  m \in 1 .. Len(uses) /\ u = uses[m] /\ u # key /\ ~ IsHeld(u)
  <2>1. \A k : (\E j \in 1 .. n + 1 : new[j] = k) => IsHeld(k)'
    BY <1>5, <1>9 DEF IsHeld, EntryKey
  <2>2. \A k : IsHeld(k) => \E j \in 1 .. n : new[j] = k
    BY <1>4, <1>8 DEF IsHeld
  <2>3. ~ IsHeld(u) /\ u # key
    BY <1>7, <1>8, <1>14, <2>1, <2>2
  <2> QED BY <1>11, <1>14, <2>3
<1>15. ASSUME NEW m \in 1 .. Len(uses'), NEW u, u = uses'[m], ~ IsHeld(u)'
       PROVE  /\ \A j \in 1 .. n + 1 : After(u, new[j])'
              /\ capacity' <= (n + 1) + (IF pc' = "put" THEN 1 ELSE 0)
  <2>1. m \in 1 .. Len(uses) /\ u = uses[m] /\ u # key /\ ~ IsHeld(u)
    BY <1>14, <1>15
  <2>2. \A j \in 1 .. n : After(u, new[j])
    BY <1>4, <1>8, <2>1 DEF RecencyInv
  <2>3. \A j \in 1 .. n + 1 : After(u, new[j])'
    BY <1>7, <1>8, <1>11, <2>1, <2>2
  <2>4. capacity <= n + 1
    BY <1>1, <1>4, <2>1 DEF RecencyInv
  <2>5. capacity' <= (n + 1) + 0
    BY <1>1, <1>2, <1>4, <2>4
  <2> QED BY <1>2, <2>3, <2>5
<1> QED
  BY <1>5, <1>9, <1>12, <1>13, <1>15, RecencyOfKeys

LEMMA RecencyInductive ==
  /\ Init => RecencyInv
  /\ IInv /\ RecencyInv /\ [Next]_vars => RecencyInv'
<1>1. ASSUME Init PROVE RecencyInv
  <2>1. Len(entries) = 0 /\ Len(uses) = 0
    BY <1>1 DEF Init
  <2> QED BY <2>1 DEF RecencyInv
<1>2. ASSUME IInv, RecencyInv, Serve PROVE RecencyInv'
  <2>1. Len(uses) = 0 /\ Len(entries) = 0
    BY <1>2, HeldReadsAssumption DEF Serve, IInv, TypeOK, HeldOnce
  <2>2. uses' = uses /\ entries' = entries
    BY <1>2, <2>1, HeldReadsAssumption DEF Serve, Truncated
  <2>3. Len(uses') = 0 /\ Len(entries') = 0
    BY <2>1, <2>2
  <2> QED BY <2>3 DEF RecencyInv
<1>3. ASSUME IInv, RecencyInv, (\E key \in Key : Ask(key)) \/ MissUndecodable \/ Miss \/ UNCHANGED vars
      PROVE  RecencyInv'
  <2>1. UNCHANGED <<entries, uses, capacity>> /\ (pc' = "put" \/ pc # "put")
    BY <1>3 DEF Ask, MissUndecodable, Miss, Return, vars
  <2> QED BY <1>3, <2>1, RecencyStays
<1>4. ASSUME IInv, RecencyInv, PutNothing PROVE RecencyInv'
  <2>1. Len(entries) = 0 /\ entries' = entries /\ capacity' = 0
    BY <1>4, HeldReadsAssumption DEF PutNothing, KeepingIsOff, IInv, TypeOK, HeldOnce
  <2>2. Len(entries') = 0 /\ capacity' <= Len(entries') + 0 /\ capacity' <= Len(entries') + 1
    BY <2>1
  <2>3. 1 .. Len(entries') = {}
    BY <2>2
  <2> QED BY <2>2, <2>3 DEF RecencyInv
<1> QED
  BY <1>1, <1>2, <1>3, <1>4, HitIsLastUse, EvictIsLeastRecent, PushIsLastUse DEF Next

(* The last use of a drawing that was read.                                *)
LEMMA LastUseIsLast ==
  ASSUME uses \in Seq(Key), NEW key \in ToSet(uses)
  PROVE  /\ LastUse(key) \in 1 .. Len(uses) /\ uses[LastUse(key)] = key
         /\ \A m \in 1 .. Len(uses) : uses[m] = key => m <= LastUse(key)
<1> DEFINE N == Len(uses)
           back == {d \in 0 .. N - 1 : uses[N - d] = key}
<1>1. N \in Nat /\ DOMAIN uses = 1 .. N
  BY LenProperties
<1>2. PICK n \in 1 .. N : uses[n] = key
  BY <1>1 DEF ToSet
<1>3. back \subseteq Nat /\ back # {}
  <2>1. N - n \in 0 .. N - 1 /\ N - (N - n) = n
    BY <1>1
  <2>2. N - n \in back
    BY <1>2, <2>1
  <2>3. 0 .. N - 1 \subseteq Nat
    BY <1>1
  <2> QED BY <2>2, <2>3
<1>4. PICK d \in back : \A e \in back : d <= e
  BY <1>3, LeastExists
<1>5. N - d \in 1 .. N /\ uses[N - d] = key
  BY <1>1, <1>4
<1>6. ASSUME NEW m \in 1 .. N, uses[m] = key PROVE m <= N - d
  <2>1. N - m \in 0 .. N - 1 /\ N - (N - m) = m
    BY <1>1
  <2>2. d <= N - m
    BY <1>4, <1>6, <2>1
  <2> QED BY <1>1, <1>4, <2>2
<1>7. \E l \in 1 .. N : uses[l] = key /\ \A m \in 1 .. N : uses[m] = key => m <= l
  BY <1>5, <1>6
<1> QED
  BY <1>7 DEF LastUse

LEMMA UsedSinceIsAfter ==
  ASSUME uses \in Seq(Key), NEW key \in ToSet(uses)
  PROVE  \A other : other \in UsedSince(key) <=> After(key, other)
<1>1. /\ LastUse(key) \in 1 .. Len(uses) /\ uses[LastUse(key)] = key
      /\ \A m \in 1 .. Len(uses) : uses[m] = key => m <= LastUse(key)
      /\ Len(uses) \in Nat
  BY LastUseIsLast, LenProperties
<1> PICK l : l = LastUse(key)
  OBVIOUS
<1>2. ASSUME NEW other, other \in UsedSince(key) PROVE After(key, other)
  <2>1. PICK n \in l + 1 .. Len(uses) : uses[n] = other
    BY <1>2 DEF UsedSince
  <2>2. n \in 1 .. Len(uses) /\ \A m \in 1 .. Len(uses) : m <= l => m < n
    BY <1>1
  <2> QED BY <1>1, <2>1, <2>2 DEF After
<1>3. ASSUME NEW other, After(key, other) PROVE other \in UsedSince(key)
  <2>1. PICK n \in 1 .. Len(uses) : uses[n] = other /\ \A m \in 1 .. Len(uses) : uses[m] = key => m < n
    BY <1>3 DEF After
  <2>2. l < n
    BY <1>1, <2>1
  <2>3. n \in l + 1 .. Len(uses)
    BY <1>1, <2>2
  <2> QED BY <2>1, <2>3 DEF UsedSince
<1> QED
  BY <1>2, <1>3

(* No two drawings are each used after the other.                          *)
LEMMA AfterIsOneWay ==
  ASSUME uses \in Seq(Key), NEW a \in ToSet(uses), NEW b, After(a, b)
  PROVE  ~ After(b, a)
<1>1. Len(uses) \in Nat
  BY LenProperties
<1>2. PICK n \in 1 .. Len(uses) : uses[n] = b /\ \A m \in 1 .. Len(uses) : uses[m] = a => m < n
  BY DEF After
<1>3. SUFFICES ASSUME NEW k \in 1 .. Len(uses), uses[k] = a, \A m \in 1 .. Len(uses) : uses[m] = b => m < k
               PROVE FALSE
  BY DEF After
<1> QED
  BY <1>1, <1>2, <1>3

LEMMA HeldKeysAreUsed ==
  ASSUME IInv, RecencyInv
  PROVE  \A i \in 1 .. Len(entries) : EntryKey(entries[i]) \in ToSet(uses)
<1>1. uses \in Seq(Key)
  BY DEF IInv, TypeOK
<1>2. DOMAIN uses = 1 .. Len(uses)
  BY <1>1, LenProperties
<1> QED
  BY <1>2 DEF RecencyInv, ToSet

(* Since its last use, only what is behind it in the list was used.        *)
LEMMA UsedSinceHeld ==
  ASSUME IInv, RecencyInv, NEW i \in 1 .. Len(entries)
  PROVE  UsedSince(EntryKey(entries[i])) = {EntryKey(entries[j]) : j \in i + 1 .. Len(entries)}
<1> PICK key : key = EntryKey(entries[i])
  OBVIOUS
<1>1. uses \in Seq(Key) /\ entries \in Seq(HeldEntry)
  BY DEF IInv, TypeOK
<1>2. Len(entries) \in Nat /\ DOMAIN uses = 1 .. Len(uses) /\ Len(uses) \in Nat
  BY <1>1, LenProperties
<1>3. key \in ToSet(uses)
  BY HeldKeysAreUsed
<1>4. ASSUME NEW other, After(key, other)
      PROVE  \E j \in i + 1 .. Len(entries) : EntryKey(entries[j]) = other
  <2>1. ~ After(other, key)
    BY <1>1, <1>3, <1>4, AfterIsOneWay
  <2>2. \E n \in 1 .. Len(uses) : uses[n] = other
    BY <1>4 DEF After
  <2>3. IsHeld(other)
    BY <2>1, <2>2 DEF RecencyInv
  <2>4. PICK j \in 1 .. Len(entries) : EntryKey(entries[j]) = other
    BY <2>3 DEF IsHeld
  <2>5. ~ j < i
    BY <2>1, <2>4 DEF RecencyInv
  <2>6. j # i
    <3>1. CASE other = key
      BY <1>4, <2>1, <3>1
    <3>2. CASE other # key
      BY <2>4, <3>2
    <3> QED BY <3>1, <3>2
  <2>7. j \in i + 1 .. Len(entries)
    BY <1>2, <2>5, <2>6
  <2> QED BY <2>4, <2>7
<1>5. ASSUME NEW j \in i + 1 .. Len(entries) PROVE After(key, EntryKey(entries[j]))
  <2>1. j \in 1 .. Len(entries) /\ i < j
    BY <1>2
  <2> QED BY <2>1 DEF RecencyInv
<1>6. \A other : other \in UsedSince(key) <=> After(key, other)
  BY <1>1, <1>3, UsedSinceIsAfter
<1> QED
  BY <1>4, <1>5, <1>6

LEMMA UsesAreFinite ==
  ASSUME uses \in Seq(Key), NEW key \in ToSet(uses)
  PROVE  IsFiniteSet(UsedSince(key))
<1>1. LastUse(key) \in 1 .. Len(uses) /\ Len(uses) \in Nat /\ DOMAIN uses = 1 .. Len(uses)
  BY LastUseIsLast, LenProperties
<1>2. PICK since : since = LastUse(key) + 1 .. Len(uses)
  OBVIOUS
<1>3. IsFiniteSet(since)
  BY <1>1, <1>2, FS_Interval
<1>4. PICK f : f = [n \in since |-> uses[n]]
  OBVIOUS
<1>5. f \in Surjection(since, UsedSince(key))
  BY <1>2, <1>4 DEF UsedSince, Surjection
<1> QED
  BY <1>3, <1>5, FS_Surjection

(* Fewer than `capacity` others were used since a held drawing was.        *)
LEMMA HeldIsRecent ==
  ASSUME IInv, RecencyInv, NEW i \in 1 .. Len(entries)
  PROVE  Cardinality(UsedSince(EntryKey(entries[i]))) < capacity
<1>1. Len(entries) \in Nat /\ capacity \in Nat /\ Len(entries) <= capacity
  BY LenProperties, HeldReadsAssumption DEF IInv, TypeOK, HeldOnce
<1>2. PICK behind : behind = i + 1 .. Len(entries)
  OBVIOUS
<1>3. IsFiniteSet(behind) /\ Cardinality(behind) = Len(entries) - i
  <2>1. IsFiniteSet(behind) /\ Cardinality(behind) = IF i + 1 > Len(entries) THEN 0 ELSE Len(entries) - (i + 1) + 1
    <3>1. i + 1 \in Int /\ Len(entries) \in Int
      BY <1>1
    <3> QED BY <1>2, <3>1, FS_Interval, Zenon
  <2> QED BY <1>1, <2>1
<1>4. PICK f : f = [j \in behind |-> EntryKey(entries[j])]
  OBVIOUS
<1>5. PICK since : since = UsedSince(EntryKey(entries[i]))
  OBVIOUS
<1>6. since = {EntryKey(entries[j]) : j \in behind}
  BY <1>2, <1>5, UsedSinceHeld
<1>7. f \in Surjection(behind, since)
  BY <1>4, <1>6 DEF Surjection
<1>8. IsFiniteSet(since) /\ Cardinality(since) <= Cardinality(behind)
  BY <1>3, <1>7, FS_Surjection
<1>9. Cardinality(since) \in Nat
  BY <1>8, FS_CardinalityType
<1> QED
  BY <1>1, <1>3, <1>5, <1>8, <1>9

(* `capacity` others were used since one that is held no more.             *)
LEMMA DroppedIsNotRecent ==
  ASSUME IInv, RecencyInv, pc = "idle", NEW key \in ToSet(uses), ~ IsHeld(key)
  PROVE  ~ Cardinality(UsedSince(key)) < capacity
<1>1. Len(entries) \in Nat /\ capacity \in Nat /\ uses \in Seq(Key)
  BY LenProperties, HeldReadsAssumption DEF IInv, TypeOK
<1>2. PICK n \in 1 .. Len(uses) : uses[n] = key
  <2>1. DOMAIN uses = 1 .. Len(uses)
    BY <1>1, LenProperties
  <2> QED BY <2>1 DEF ToSet
<1>3. capacity <= Len(entries) + 0
  BY <1>2 DEF RecencyInv
<1>4. PICK places : places = 1 .. Len(entries)
  OBVIOUS
<1>5. IsFiniteSet(places) /\ Cardinality(places) = Len(entries)
  <2>1. IsFiniteSet(places) /\ Cardinality(places) = IF 1 > Len(entries) THEN 0 ELSE Len(entries) - 1 + 1
    <3>1. 1 \in Int /\ Len(entries) \in Int
      BY <1>1
    <3> QED BY <1>4, <3>1, FS_Interval, Zenon
  <2> QED BY <1>1, <2>1
<1>6. PICK since : since = UsedSince(key)
  OBVIOUS
<1>7. \A j \in places : EntryKey(entries[j]) \in since
  <2>1. \A j \in places : After(key, EntryKey(entries[j]))
    BY <1>2, <1>4 DEF RecencyInv
  <2> QED BY <1>1, <1>6, <2>1, UsedSinceIsAfter
<1>8. PICK f : f = [j \in places |-> EntryKey(entries[j])]
  OBVIOUS
<1>9. f \in Injection(places, since)
  <2>1. \A j, k \in places : f[j] = f[k] => j = k
    BY <1>4, <1>8 DEF IInv, HeldOnce
  <2> QED BY <1>7, <1>8, <2>1 DEF Injection, IsInjective
<1>10. IsFiniteSet(since) /\ Cardinality(since) \in Nat
  BY <1>1, <1>6, UsesAreFinite, FS_CardinalityType
<1>11. Cardinality(places) <= Cardinality(since)
  BY <1>9, <1>10, FS_Injection
<1> QED
  BY <1>1, <1>3, <1>5, <1>6, <1>10, <1>11

(* Between reads a server holds exactly the drawings used last, in their   *)
(* order: `get` moves to the back and `put` drops from the front.          *)
THEOREM KeptModelsAreTheMostRecent == Spec => []HeldIsMostRecent
<1>1. ASSUME IInv, RecencyInv, pc = "idle"
      PROVE  {EntryKey(entries[i]) : i \in 1 .. Len(entries)}
               = {key \in ToSet(uses) : Cardinality(UsedSince(key)) < capacity}
  <2>1. ASSUME NEW i \in 1 .. Len(entries)
        PROVE  /\ EntryKey(entries[i]) \in ToSet(uses)
               /\ Cardinality(UsedSince(EntryKey(entries[i]))) < capacity
    BY <1>1, HeldKeysAreUsed, HeldIsRecent
  <2>2. ASSUME NEW key \in ToSet(uses), Cardinality(UsedSince(key)) < capacity
        PROVE  \E i \in 1 .. Len(entries) : EntryKey(entries[i]) = key
    BY <1>1, <2>2, DroppedIsNotRecent DEF IsHeld
  <2> QED BY <2>1, <2>2
<1>2. ASSUME IInv, RecencyInv, NEW i \in 1 .. Len(entries), NEW j \in 1 .. Len(entries), i < j
      PROVE  LastUse(EntryKey(entries[i])) < LastUse(EntryKey(entries[j]))
  <2>1. PICK a, b : a = EntryKey(entries[i]) /\ b = EntryKey(entries[j])
    OBVIOUS
  <2>2. uses \in Seq(Key) /\ a \in ToSet(uses) /\ b \in ToSet(uses) /\ After(a, b) /\ Len(uses) \in Nat
    BY <1>2, <2>1, HeldKeysAreUsed, LenProperties DEF IInv, TypeOK, RecencyInv
  <2>3. /\ LastUse(a) \in 1 .. Len(uses) /\ uses[LastUse(a)] = a
        /\ LastUse(b) \in 1 .. Len(uses) /\ \A m \in 1 .. Len(uses) : uses[m] = b => m <= LastUse(b)
    BY <2>2, LastUseIsLast
  <2>4. PICK n \in 1 .. Len(uses) : uses[n] = b /\ \A m \in 1 .. Len(uses) : uses[m] = a => m < n
    BY <2>2 DEF After
  <2>5. LastUse(a) < n /\ n <= LastUse(b)
    BY <2>3, <2>4
  <2>6. LastUse(a) < LastUse(b)
    BY <2>2, <2>3, <2>5
  <2> QED BY <2>1, <2>6
<1>3. IInv /\ RecencyInv => HeldIsMostRecent
  BY <1>1, <1>2 DEF HeldIsMostRecent
<1> QED
  BY <1>3, Initial, Inductive, RecencyInductive, PTL DEF Spec

=============================================================================
