---------------------------- MODULE DwgReadsProofs ----------------------------
(* DwgReads, for any number of threads and whatever they read: LibreDWG's  *)
(* state is never shared by two reads, memory is held for panics only, and *)
(* every read returns what its own bytes say.                              *)
EXTENDS DwgReads, TLAPS

(* The steps of a read that hold its structure, and those with it filled.  *)
Filled == {"refuse", "free"} \cup Walks
Holding == {"decode"} \cup Filled

(* The lock is held from the zeroed structure to the return, an image is   *)
(* there as long as C code may still be called with it, and where a read   *)
(* is says what its bytes are.                                             *)
LockInv ==
  \A t \in Thread :
    /\ pc[t] # "idle" => request[t] \in Request
    /\ pc[t] \in Holding \cup {"unlock"} => lock = t /\ ByLibreDwg(request[t])
    /\ image[t] # "none" <=> pc[t] \in Holding
    /\ image[t] = "filled" <=> pc[t] \in Filled
    /\ pc[t] = "lock" => ByLibreDwg(request[t])
    /\ pc[t] = "no lock" => ~ByLibreDwg(request[t])
    /\ pc[t] = "refuse" => request[t].bytes \in Critical
    /\ pc[t] \in Walks \cup {"free"} => request[t].bytes \notin Critical
    /\ pc[t] = "free" => request[t].bytes \notin Faulty
    /\ pc[t] = "unlock" => request[t].bytes \in Critical \/ request[t].bytes \notin Faulty

IInv == TypeOK /\ LockInv /\ mixed = {} /\ HeldForPanicsOnly

LEMMA Alone ==
  ASSUME IInv
  PROVE  /\ \A t, u \in InCycle : t = u
         /\ \A t \in Thread : pc[t] \in Holding => InCycle \subseteq {t}
BY DEF IInv, LockInv, InCycle, Holding, Filled, Walks

LEMMA AnswerType ==
  ASSUME NEW r \in Request
  PROVE  /\ Of("panic", r) \in Answers /\ Of("corrupt", r) \in Answers
         /\ Outcome[r] \in Answers
BY DEF Of, Answers, Outcome, Verdict

(* No C call of a read under the lock meets another read.                  *)
LEMMA CallsAlone ==
  ASSUME IInv, NEW t \in Thread, pc[t] \in Holding, CallsC(t)
  PROVE  mixed' = {}
BY Alone DEF IInv, CallsC

LEMMA Initial == Init => IInv
<1> SUFFICES ASSUME Init PROVE IInv
  OBVIOUS
<1> USE DwgReadsAssumption DEF Init
<1>1. LockInv
  BY DEF LockInv, Holding, Filled, Walks
<1>2. HeldForPanicsOnly
  BY DEF HeldForPanicsOnly
<1>3. TypeOK
  <2>1. 0 \in 0 .. MaxReads
    OBVIOUS
  <2> QED BY <2>1, Zenon DEF TypeOK, Label
<1> QED
  BY <1>1, <1>2, <1>3 DEF IInv

(* One drawing at most is filled: the one of the read under the lock.      *)
LEMMA FilledAlone ==
  ASSUME IInv, NEW t \in Thread, pc[t] \in Holding
  PROVE  \A u \in Thread : image[u] = "filled" => u = t /\ pc[t] \in Filled
BY DEF IInv, LockInv, Holding

LEMMA AskKeeps ==
  ASSUME IInv, NEW t \in Thread, NEW r \in Request, Ask(t, r)
  PROVE  IInv'
<1>1. reads' \in [Thread -> 0 .. MaxReads]
  <2>1. reads[t] \in 0 .. MaxReads /\ reads[t] < MaxReads /\ MaxReads \in Nat
    BY DwgReadsAssumption DEF Ask, IInv, TypeOK
  <2>2. reads[t] + 1 \in 0 .. MaxReads
    BY <2>1
  <2> QED BY <2>2 DEF Ask, IInv, TypeOK
<1>2. /\ pc' \in [Thread -> Label]
      /\ request' \in [Thread -> Request \cup {Nothing}]
      /\ got' \in [Thread -> Answers \cup {Nothing}]
  BY DEF Ask, Goto, IInv, TypeOK, Label
<1>3. TypeOK'
  BY <1>1, <1>2 DEF Ask, IInv, TypeOK
<1>4. LockInv'
  BY DEF Ask, Goto, IInv, TypeOK, LockInv, Holding, Filled, Walks
<1> QED
  BY <1>3, <1>4 DEF Ask, IInv, HeldForPanicsOnly

LEMMA OutsideTheLock ==
  ASSUME IInv, NEW t \in Thread, ReadWithoutLock(t)
  PROVE  IInv'
<1>1. request[t] \in Request
  BY DEF ReadWithoutLock, IInv, LockInv
<1>2. got' \in [Thread -> Answers \cup {Nothing}] /\ pc' \in [Thread -> Label]
  BY <1>1, AnswerType DEF ReadWithoutLock, Goto, IInv, TypeOK, Label
<1>3. TypeOK'
  BY <1>2 DEF ReadWithoutLock, IInv, TypeOK
<1>4. LockInv'
  BY DEF ReadWithoutLock, Goto, IInv, TypeOK, LockInv, Holding, Filled, Walks
<1> QED
  BY <1>3, <1>4 DEF ReadWithoutLock, IInv, HeldForPanicsOnly

LEMMA LockKeeps ==
  ASSUME IInv, NEW t \in Thread, Lock(t)
  PROVE  IInv'
<1>1. TypeOK'
  BY DEF Lock, Goto, IInv, TypeOK, Label
<1>2. LockInv'
  BY DwgReadsAssumption DEF Lock, Goto, IInv, TypeOK, LockInv, Holding, Filled, Walks
<1>3. \A u \in Thread : image'[u] = "filled" <=> image[u] = "filled"
  BY DEF Lock, IInv, TypeOK, LockInv, Filled, Walks
<1> QED
  BY <1>1, <1>2, <1>3 DEF Lock, IInv, HeldForPanicsOnly

LEMMA DecodeKeeps ==
  ASSUME IInv, NEW t \in Thread, Decode(t)
  PROVE  IInv'
<1>1. mixed' = {}
  BY CallsAlone DEF Decode, Holding
<1>2. unfreed = panics /\ unfreed \in Nat /\ panics \in Nat
  BY FilledAlone DEF Decode, Holding, Filled, Walks, IInv, TypeOK, HeldForPanicsOnly
<1>3. HeldForPanicsOnly'
  <2>1. image'[t] = "filled"
    BY DEF Decode, IInv, TypeOK
  <2> QED BY <1>2, <2>1 DEF Decode, HeldForPanicsOnly
<1>4. pc' \in [Thread -> Label] /\ image' \in [Thread -> {"none", "zeroed", "filled"}]
  BY DEF Decode, Goto, IInv, TypeOK, Label, Walks
<1>5. TypeOK'
  BY <1>1, <1>2, <1>4 DEF Decode, IInv, TypeOK
<1>6. LockInv'
  BY DEF Decode, Goto, IInv, TypeOK, LockInv, Holding, Filled, Walks
<1> QED
  BY <1>1, <1>3, <1>5, <1>6 DEF IInv

LEMMA FreeKeeps ==
  ASSUME IInv, NEW t \in Thread, Refuse(t) \/ Free(t)
  PROVE  IInv'
<1>1. pc[t] \in {"refuse", "free"} /\ FreeImage(t)
  BY DEF Refuse, Free
<1>2. mixed' = {}
  BY <1>1, CallsAlone DEF FreeImage, Holding, Filled
<1>3. image[t] = "filled" /\ unfreed = panics + 1 /\ panics \in Nat
  BY <1>1 DEF Filled, IInv, TypeOK, LockInv, HeldForPanicsOnly
<1>4. \A u \in Thread : image'[u] # "filled"
  BY <1>1, FilledAlone DEF FreeImage, Holding, Filled, IInv, TypeOK
<1>5. HeldForPanicsOnly'
  BY <1>1, <1>3, <1>4 DEF FreeImage, HeldForPanicsOnly
<1>6. pc' \in [Thread -> Label] /\ image' \in [Thread -> {"none", "zeroed", "filled"}]
  BY <1>1 DEF FreeImage, Goto, IInv, TypeOK, Label
<1>7. TypeOK'
  BY <1>1, <1>2, <1>3, <1>6 DEF FreeImage, IInv, TypeOK
<1>8. LockInv'
  BY <1>1 DEF FreeImage, Goto, IInv, TypeOK, LockInv, Holding, Filled, Walks
<1> QED
  BY <1>2, <1>5, <1>7, <1>8 DEF IInv

LEMMA WalkKeeps ==
  ASSUME IInv, NEW t \in Thread, Walk(t)
  PROVE  IInv'
<1>1. mixed' = {}
  BY CallsAlone DEF Walk, WalkOn, Holding, Filled, Walks
<1>2. UNCHANGED <<lock, poisoned, request, image, unfreed, got, reads, panics>>
  BY DEF Walk, WalkOn
<1>3. pc' \in [Thread -> Label]
  BY DEF Walk, WalkOn, Goto, IInv, TypeOK, Label, Walks
<1>4. TypeOK'
  BY <1>1, <1>2, <1>3 DEF IInv, TypeOK
<1>5. LockInv'
  BY <1>2 DEF Walk, WalkOn, Goto, IInv, TypeOK, LockInv, Holding, Filled, Walks
<1> QED
  BY <1>1, <1>2, <1>4, <1>5 DEF IInv, HeldForPanicsOnly

LEMMA PanicKeeps ==
  ASSUME IInv, NEW t \in Thread, Panic(t)
  PROVE  IInv'
<1>1. image[t] = "filled" /\ unfreed = panics + 1 /\ panics \in Nat
  BY DEF Panic, Filled, IInv, TypeOK, LockInv, HeldForPanicsOnly
<1>2. \A u \in Thread : image'[u] # "filled"
  BY FilledAlone DEF Panic, Holding, Filled, IInv, TypeOK
<1>3. HeldForPanicsOnly'
  BY <1>1, <1>2 DEF Panic, HeldForPanicsOnly
<1>4. request[t] \in Request
  BY DEF Panic, IInv, LockInv, Walks
<1>5. /\ pc' \in [Thread -> Label] /\ image' \in [Thread -> {"none", "zeroed", "filled"}]
      /\ got' \in [Thread -> Answers \cup {Nothing}]
  BY <1>4, AnswerType DEF Panic, Goto, IInv, TypeOK, Label
<1>6. TypeOK'
  BY <1>1, <1>5 DEF Panic, IInv, TypeOK
<1>7. LockInv'
  BY DEF Panic, Goto, IInv, TypeOK, LockInv, Holding, Filled, Walks
<1> QED
  BY <1>3, <1>6, <1>7 DEF Panic, IInv

LEMMA UnlockKeeps ==
  ASSUME IInv, NEW t \in Thread, Unlock(t)
  PROVE  IInv'
<1>1. request[t] \in Request
  BY DEF Unlock, IInv, LockInv
<1>2. pc' \in [Thread -> Label] /\ got' \in [Thread -> Answers \cup {Nothing}]
  BY <1>1, AnswerType DEF Unlock, Made, Goto, IInv, TypeOK, Label
<1>3. TypeOK'
  BY <1>2 DEF Unlock, IInv, TypeOK
<1>4. LockInv'
  BY DEF Unlock, Goto, IInv, TypeOK, LockInv, Holding, Filled, Walks
<1> QED
  BY <1>3, <1>4 DEF Unlock, IInv, HeldForPanicsOnly

LEMMA Inductive == IInv /\ [Next]_vars => IInv'
<1> SUFFICES ASSUME IInv, [Next]_vars PROVE IInv'
  OBVIOUS
<1>1. CASE UNCHANGED vars
  BY <1>1 DEF vars, IInv, TypeOK, LockInv, HeldForPanicsOnly
<1>2. ASSUME NEW t \in Thread, NEW r \in Request, Ask(t, r) PROVE IInv'
  BY <1>2, AskKeeps
<1>3. ASSUME NEW t \in Thread, Read(t) PROVE IInv'
  BY <1>3, OutsideTheLock, LockKeeps, DecodeKeeps, FreeKeeps, WalkKeeps, PanicKeeps, UnlockKeeps
     DEF Read
<1> QED
  BY <1>1, <1>2, <1>3 DEF Next

THEOREM TypeCorrect == Spec => []TypeOK
<1>1. IInv => TypeOK
  BY DEF IInv
<1> QED
  BY <1>1, Initial, Inductive, PTL DEF Spec

(* From its zeroed structure to its last free, a read has LibreDWG to      *)
(* itself, whatever other reads panic or are refused.                      *)
THEOREM OneReadAtATime == Spec => []CyclesNeverMix
<1>1. IInv => CyclesNeverMix
  BY Alone DEF IInv, CyclesNeverMix
<1> QED
  BY <1>1, Initial, Inductive, PTL DEF Spec

(* C memory is given back by every read but those that panic.              *)
THEOREM OnlyPanicsHoldMemory == Spec => []HeldForPanicsOnly
<1>1. IInv => HeldForPanicsOnly
  BY DEF IInv
<1> QED
  BY <1>1, Initial, Inductive, PTL DEF Spec

(* Reads implement DrawingReads, fairness apart: what a read returns is    *)
(* what its own bytes, format and reader say.                              *)
THEOREM ReadsReturnWhatTheyRead ==
  Spec => Reads!ReadInit /\ [][Reads!ReadNext]_(Reads!readVars)
<1> DEFINE pending == {t \in Thread : pc[t] # "idle"}
<1>1. Init => Reads!ReadInit
  BY DEF Init, Reads!ReadInit
<1>2. IInv /\ [Next]_vars => [Reads!ReadNext]_(Reads!readVars)
  <2> SUFFICES ASSUME IInv, [Next]_vars PROVE [Reads!ReadNext]_(Reads!readVars)
    OBVIOUS
  <2>1. CASE UNCHANGED vars
    BY <2>1 DEF vars, Reads!readVars
  <2>2. ASSUME NEW t \in Thread, NEW r \in Request, Ask(t, r) PROVE Reads!Ask(t, r)
    BY <2>2 DEF Ask, Goto, Reads!Ask, IInv, TypeOK
  <2>3. ASSUME NEW t \in Thread, ReadWithoutLock(t) \/ Panic(t) \/ Unlock(t) PROVE Reads!Return(t)
    <3>1. got' = [got EXCEPT ![t] = Outcome[request[t]]]
      <4>1. CASE ReadWithoutLock(t)
        BY <4>1 DEF ReadWithoutLock
      <4>2. CASE Panic(t)
        <5>1. /\ request[t] \in Request /\ ByLibreDwg(request[t])
              /\ request[t].bytes \in Faulty /\ request[t].bytes \notin Critical
          BY <4>2 DEF Panic, IInv, LockInv, Holding, Filled, Walks
        <5>2. Verdict(request[t]) = "panic"
          BY <5>1 DEF Verdict, ByLibreDwg
        <5> QED BY <4>2, <5>1, <5>2 DEF Panic, Outcome
      <4>3. CASE Unlock(t)
        BY <4>3 DEF Unlock, Made, IInv
      <4> QED BY <2>3, <4>1, <4>2, <4>3
    <3>2. pc[t] # "idle" /\ pc' = [pc EXCEPT ![t] = "idle"] /\ UNCHANGED request
      BY <2>3 DEF ReadWithoutLock, Panic, Unlock, Goto, Walks
    <3> QED BY <3>1, <3>2 DEF Reads!Return, IInv, TypeOK
  <2>4. ASSUME NEW t \in Thread, Lock(t) \/ Decode(t) \/ Refuse(t) \/ Walk(t) \/ Free(t)
        PROVE  UNCHANGED Reads!readVars
    <3>1. UNCHANGED <<request, got>>
      BY <2>4 DEF Lock, Decode, Refuse, Walk, WalkOn, Free, FreeImage
    <3>2. \A u \in Thread : pc'[u] = "idle" <=> pc[u] = "idle"
      BY <2>4 DEF Lock, Decode, Refuse, Walk, WalkOn, Free, FreeImage, Goto, IInv, TypeOK
    <3> QED BY <3>1, <3>2 DEF Reads!readVars
  <2> QED BY <2>1, <2>2, <2>3, <2>4 DEF Next, Read, Reads!ReadNext
<1> QED
  BY <1>1, <1>2, Initial, Inductive, PTL DEF Spec
=============================================================================
