--------------------------- MODULE VerbServerProofs ---------------------------
(* What an MCP server keeps between calls never shows: for every set of    *)
(* processes, calls, files, drawings and every number of models kept, the  *)
(* processes of VerbServer behave like those of VerbCalls, which decode    *)
(* every file they are given.                                              *)
EXTENDS VerbSites, VerbCallsProofs, HeldModelsLemmas

HeldEntry == [reading : Reading, bytes : Contents, model : Model]

(* What a server keeps, beside where its calls have got to.                *)
HInv ==
  /\ CInv
  /\ held \in [Process -> Seq(HeldEntry)]
  /\ HeldAsDecoded
  /\ HeldWithinCapacity

LEMMA CapacityType == \A p \in Process : Capacity(p) \in Nat
BY HeldDrawingsAssumption DEF Capacity

LEMMA ReadingType == \A p \in Process : ReadingNow(p) \in Reading
BY DEF ReadingNow, ReadingOf, Reading

LEMMA Initial == Init => HInv
<1> SUFFICES ASSUME Init PROVE HInv
  OBVIOUS
<1>1. CInv
  BY CallInitial DEF Init
<1>2. \A p \in Process : held[p] = <<>> /\ Len(held[p]) = 0
  BY DEF Init
<1> QED
  BY <1>1, <1>2, CapacityType DEF Init, HInv, HeldAsDecoded, HeldWithinCapacity

(* A hit gives what the decoder would have: it is a step of the contract.  *)
LEMMA HitIsTakeModel ==
  ASSUME HInv, NEW p \in Process, Hit(p)
  PROVE  TakeModel(p)
<1> DEFINE i == Position(held[p], ReadingNow(p), bytes[p])
<1>1. /\ i \in 1 .. Len(held[p])
      /\ held[p][i].reading = ReadingNow(p) /\ held[p][i].bytes = bytes[p]
  <2>1. Len(held[p]) \in Nat /\ Holds(held[p], ReadingNow(p), bytes[p])
    BY DEF HInv, Hit
  <2> QED BY <2>1, PositionIsHeld
<1>2. pc[p] = "decode" /\ Take(p, held[p][i].model)
  BY DEF Hit
<1> HIDE DEF i
<1>3. held[p][i].model = Decode[<<ReadingNow(p), bytes[p]>>]
  BY <1>1 DEF HInv, HeldAsDecoded
<1>4. held[p][i].model \in Model
  <2>1. held[p] \in Seq(HeldEntry)
    BY DEF HInv
  <2>2. held[p][i] \in HeldEntry
    BY <1>1, <2>1
  <2> QED BY <2>2 DEF HeldEntry
<1>5. Decoded(p) = held[p][i].model
  BY <1>3 DEF Decoded, ReadingNow
<1>6. Take(p, Decoded(p))
  BY <1>2, <1>5, Zenon
<1>7. Decoded(p) # Undecodable
  BY <1>4, <1>5, VerbCallsAssumption
<1> QED
  BY <1>2, <1>6, <1>7, Zenon DEF TakeModel

(* Every step of the server is a step of the contract.                     *)
LEMMA StepsAreCalls ==
  ASSUME NEW calls, NEW changes, HInv, NextAmong(calls, changes)
  PROVE  CallNextAmong(calls, changes)
BY HitIsTakeModel DEF NextAmong, CallNextAmong, Miss, MissNotADrawing, CrashServer

LEMMA ServerStepsAreCalls == HInv /\ [Next]_vars => [CallNext]_callVars
BY StepsAreCalls DEF Next, CallNext, vars, callVars

(* A server's list only ever loses its entries, changes their order, or    *)
(* takes one more that is what the decoder gave.                           *)
LEMMA HitKeeps ==
  ASSUME HInv, NEW p \in Process, Hit(p)
  PROVE  HeldAsDecoded' /\ HeldWithinCapacity' /\ held' \in [Process -> Seq(HeldEntry)]
<1> DEFINE i == Position(held[p], ReadingNow(p), bytes[p])
           n == Len(held[p])
<1>1. held[p] \in Seq(HeldEntry) /\ n \in Nat /\ i \in 1 .. n
  <2>1. held[p] \in Seq(HeldEntry) /\ n \in Nat /\ Holds(held[p], ReadingNow(p), bytes[p])
    BY DEF HInv, Hit
  <2> QED BY <2>1, PositionIsHeld
<1>2. held' = [held EXCEPT ![p] = Used(held[p], i)]
  BY DEF Hit
<1> HIDE DEF i
<1>3. /\ Used(held[p], i) \in Seq(HeldEntry) /\ Len(Used(held[p], i)) = n
      /\ \A j \in 1 .. n : Used(held[p], i)[j] = IF j < i THEN held[p][j]
                             ELSE IF j < n THEN held[p][j + 1] ELSE held[p][i]
  BY <1>1, UsedPermutes
<1>4. held' \in [Process -> Seq(HeldEntry)]
  BY <1>2, <1>3 DEF HInv
<1>5. \A q \in Process : held'[q] = IF q = p THEN Used(held[p], i) ELSE held[q]
  BY <1>2 DEF HInv
<1>6. HeldWithinCapacity'
  BY <1>3, <1>5 DEF HInv, HeldWithinCapacity, Capacity
<1>7. ASSUME NEW q \in Process, NEW j \in 1 .. Len(held'[q])
      PROVE  Decode[<<held'[q][j].reading, held'[q][j].bytes>>] = held'[q][j].model
  <2>1. CASE q # p
    BY <1>5, <1>7, <2>1 DEF HInv, HeldAsDecoded
  <2>2. CASE q = p
    <3>1. PICK k \in 1 .. n : held'[q][j] = held[p][k]
      BY <1>1, <1>3, <1>5, <1>7, <2>2
    <3> QED BY <3>1 DEF HInv, HeldAsDecoded
  <2> QED BY <2>1, <2>2
<1> QED
  BY <1>4, <1>6, <1>7 DEF HeldAsDecoded

LEMMA MissKeeps ==
  ASSUME HInv, NEW p \in Process, Miss(p)
  PROVE  HeldAsDecoded' /\ HeldWithinCapacity' /\ held' \in [Process -> Seq(HeldEntry)]
<1> DEFINE e == NewEntry(p)
           kept == Kept(held[p], Capacity(p), e)
<1>1. e \in HeldEntry /\ Decode[<<e.reading, e.bytes>>] = e.model
  <2>1. ReadingNow(p) \in Reading /\ bytes[p] \in Contents
    BY ReadingType DEF HInv, CInv, CallTypeOK
  <2>2. Decoded(p) = Decode[<<ReadingNow(p), bytes[p]>>] /\ Decoded(p) # Undecodable
    BY DEF Decoded, ReadingNow, Miss, TakeModel
  <2>3. Decoded(p) \in Model
    BY <2>1, <2>2, VerbCallsAssumption
  <2> QED BY <2>1, <2>2, <2>3 DEF NewEntry, Entry, HeldEntry
<1>2. held[p] \in Seq(HeldEntry) /\ Capacity(p) \in Nat /\ Len(held[p]) <= Capacity(p)
  BY CapacityType DEF HInv, HeldWithinCapacity
<1>3. held' = [held EXCEPT ![p] = kept]
  BY DEF Miss
<1> HIDE DEF e
<1>4. /\ kept \in Seq(HeldEntry) /\ Len(kept) <= Capacity(p)
      /\ \A j \in 1 .. Len(kept) :
           kept[j] = e \/ \E k \in 1 .. Len(held[p]) : kept[j] = held[p][k]
  <2> DEFINE entries == held[p]
             capacity == Capacity(p)
  <2>1. entries \in Seq(HeldEntry) /\ capacity \in Nat /\ Len(entries) <= capacity /\ e \in HeldEntry
    BY <1>1, <1>2
  <2> HIDE DEF entries, capacity
  <2>2. /\ Kept(entries, capacity, e) \in Seq(HeldEntry)
        /\ Len(Kept(entries, capacity, e)) <= capacity
        /\ \A j \in 1 .. Len(Kept(entries, capacity, e)) :
             \/ Kept(entries, capacity, e)[j] = e
             \/ \E k \in 1 .. Len(entries) : Kept(entries, capacity, e)[j] = entries[k]
    <3>1. ASSUME NEW es \in Seq(HeldEntry), NEW c \in Nat, NEW x \in HeldEntry, Len(es) <= c
          PROVE  /\ Kept(es, c, x) \in Seq(HeldEntry)
                 /\ Len(Kept(es, c, x)) <= c
                 /\ \A j \in 1 .. Len(Kept(es, c, x)) :
                      \/ Kept(es, c, x)[j] = x
                      \/ \E k \in 1 .. Len(es) : Kept(es, c, x)[j] = es[k]
      BY <3>1, KeptIsOldOrNew
    <3> QED BY <2>1, <3>1
  <2> QED BY <2>2 DEF entries, capacity
<1> HIDE DEF kept
<1>5. held' \in [Process -> Seq(HeldEntry)]
  BY <1>3, <1>4 DEF HInv
<1>6. \A q \in Process : held'[q] = IF q = p THEN kept ELSE held[q]
  BY <1>3 DEF HInv
<1>7. HeldWithinCapacity'
  BY <1>4, <1>6 DEF HInv, HeldWithinCapacity, Capacity
<1>8. ASSUME NEW q \in Process, NEW j \in 1 .. Len(held'[q])
      PROVE  Decode[<<held'[q][j].reading, held'[q][j].bytes>>] = held'[q][j].model
  <2>1. CASE q # p
    BY <1>6, <1>8, <2>1 DEF HInv, HeldAsDecoded
  <2>2. CASE q = p
    <3>1. held'[q] = kept /\ j \in 1 .. Len(kept)
      BY <1>6, <1>8, <2>2
    <3>2. CASE kept[j] = e
      BY <1>1, <3>1, <3>2
    <3>3. CASE \E k \in 1 .. Len(held[p]) : kept[j] = held[p][k]
      BY <3>1, <3>3 DEF HInv, HeldAsDecoded
    <3> QED BY <1>4, <3>1, <3>2, <3>3
  <2> QED BY <2>1, <2>2
<1> QED
  BY <1>5, <1>7, <1>8 DEF HeldAsDecoded

LEMMA Inductive == HInv /\ [Next]_vars => HInv'
<1> SUFFICES ASSUME HInv, [Next]_vars PROVE HInv'
  OBVIOUS
<1>1. CInv'
  BY ServerStepsAreCalls, CallInductive DEF HInv
<1>2. CASE held' = held
  BY <1>1, <1>2 DEF HInv, HeldAsDecoded, HeldWithinCapacity, Capacity
<1>3. ASSUME NEW p \in Process, Hit(p) PROVE HInv'
  BY <1>1, <1>3, HitKeeps DEF HInv
<1>4. ASSUME NEW p \in Process, Miss(p) PROVE HInv'
  BY <1>1, <1>4, MissKeeps DEF HInv
<1>5. ASSUME NEW p \in Process, CrashServer(p) PROVE HInv'
  <2>1. \A q \in Process : held'[q] = IF q = p THEN <<>> ELSE held[q]
    BY <1>5 DEF HInv, CrashServer
  <2>2. held' \in [Process -> Seq(HeldEntry)]
    BY <1>5 DEF HInv, CrashServer
  <2>3. HeldAsDecoded'
    BY <2>1 DEF HInv, HeldAsDecoded
  <2>4. HeldWithinCapacity'
    BY <2>1, CapacityType DEF HInv, HeldWithinCapacity, Capacity
  <2> QED BY <1>1, <2>2, <2>3, <2>4 DEF HInv
<1> QED
  BY <1>2, <1>3, <1>4, <1>5 DEF Next, NextAmong, MissNotADrawing, vars

(* Whatever calls are made, and whatever becomes of the files meanwhile, a *)
(* kept model is what decoding its bytes, its way, gives.                  *)
THEOREM KeptModelsAreDecoded == Spec => []HeldAsDecoded
<1>1. HInv => HeldAsDecoded
  BY DEF HInv
<1> QED
  BY <1>1, Initial, Inductive, PTL DEF Spec

(* No process keeps more models than it was told to.                       *)
THEOREM KeptModelsAreBounded == Spec => []HeldWithinCapacity
<1>1. HInv => HeldWithinCapacity
  BY DEF HInv
<1> QED
  BY <1>1, Initial, Inductive, PTL DEF Spec

(* The server implements its contract: nothing it answers and nothing it   *)
(* writes depends on the models it kept.                                   *)
THEOREM ServerKeepsItsContract == Spec => CallSpec
<1>1. Init => CallInit
  BY DEF Init
<1>2. HInv /\ [Next]_vars => [CallNext]_callVars
  BY ServerStepsAreCalls
<1> QED
  BY <1>1, <1>2, Initial, Inductive, PTL DEF Spec, CallSpec

(* Every process, its call and what it keeps are what they should be.      *)
THEOREM ServersAreTyped == Spec => []TypeOK
<1>1. HInv => TypeOK
  BY DEF HInv, CInv, TypeOK, HeldEntry
<1> QED
  BY <1>1, Initial, Inductive, PTL DEF Spec

(* No verb writes over a file, asked of a server or of a command.          *)
THEOREM ServersNeverWriteOver == Spec => NeverWritesOver
BY ServerKeepsItsContract, VerbsNeverWriteOver, PTL

-----------------------------------------------------------------------------
(* A site's step is one of its servers and commands.                       *)
LEMMA SiteStepsAreSteps ==
  ASSUME site \in Site, [SiteNext]_siteVars
  PROVE  [Next]_vars
<1>1. CallsAt[site] \subseteq Call /\ ChangesAt[site] \subseteq Change
  BY SitesAssumption
<1> QED
  BY <1>1 DEF SiteNext, siteVars, Next, NextAmong

(* What VInv says of the calls made at the site, and that they are the     *)
(* same calls throughout.                                                  *)
SiteInv ==
  /\ site \in Site
  /\ HInv
  /\ Asked(CallsAt[site])
  /\ OneWriterOfVerbs

LEMMA SiteInitial == SiteInit => SiteInv
<1> SUFFICES ASSUME SiteInit PROVE SiteInv
  OBVIOUS
<1>1. VInv(CallsAt[site])
  BY VerbsInitial DEF SiteInit, Init
<1> QED
  BY <1>1, Initial DEF SiteInit, SiteInv, VInv, OneWriterOfVerbs, OnlyVerbs, NoPlain

LEMMA SiteInductive == SiteInv /\ [SiteNext]_siteVars => SiteInv'
<1> SUFFICES ASSUME SiteInv, [SiteNext]_siteVars PROVE SiteInv'
  OBVIOUS
<1>1. PICK s \in Site : s = site
  BY DEF SiteInv
<1> DEFINE calls == CallsAt[s]
           changes == ChangesAt[s]
<1>2. calls \in SUBSET Call /\ changes \in SUBSET Change
  BY SitesAssumption
<1>3. site' = s /\ HInv'
  BY <1>1, SiteStepsAreSteps, Inductive DEF SiteInv, SiteNext, siteVars
<1>4. VInv(calls)
  BY <1>1 DEF SiteInv, VInv, HInv, OneWriterOfVerbs, OnlyVerbs, NoPlain
<1>5. [CallNextAmong(calls, changes)]_callVars
  BY <1>1, StepsAreCalls DEF SiteInv, SiteNext, siteVars, vars, callVars
<1> HIDE DEF calls, changes
<1>6. VInv(calls)'
  BY <1>2, <1>4, <1>5, VerbsInductive
<1> QED
  BY <1>3, <1>6 DEF SiteInv, VInv, OneWriterOfVerbs, OnlyVerbs, NoPlain, calls

(* At a site that runs verbs alone, whoever else works there, a file being *)
(* written has one writer and holds nothing yet.                           *)
THEOREM VerbsAreTheOnlyWriters == SiteSpec => []OneWriterOfVerbs
<1>1. SiteInv => OneWriterOfVerbs
  BY DEF SiteInv
<1> QED
  BY <1>1, SiteInitial, SiteInductive, PTL DEF SiteSpec

(* At such a site an answer is given with the whole file in place, and an  *)
(* edit's file reads back as the result answered.                          *)
THEOREM VerbsAnswerForTheirFiles == SiteSpec => VerbsAnswerWhatIsWritten
<1>1. SiteInv /\ [SiteNext]_siteVars => [OnlyVerbs => AnswersWhatIsWritten]_callVars
  <2> SUFFICES ASSUME SiteInv, SiteNext, OnlyVerbs PROVE AnswersWhatIsWritten
    BY DEF siteVars, vars, callVars
  <2>1. PICK s \in Site : s = site
    BY DEF SiteInv
  <2> DEFINE calls == CallsAt[s]
             changes == ChangesAt[s]
  <2>2. calls \in SUBSET Call /\ changes \in SUBSET Change
    BY SitesAssumption
  <2>3. VInv(calls) /\ NoPlain(calls)
    BY <2>1 DEF SiteInv, VInv, HInv, OneWriterOfVerbs, OnlyVerbs, NoPlain
  <2>4. CallNextAmong(calls, changes)
    BY <2>1, StepsAreCalls DEF SiteInv, SiteNext
  <2> HIDE DEF calls, changes
  <2> QED
    BY <2>2, <2>3, <2>4, AnswersAreOfWholeFiles
<1>2. SiteSpec => [][OnlyVerbs => AnswersWhatIsWritten]_callVars
  BY <1>1, SiteInitial, SiteInductive, PTL DEF SiteSpec
<1> QED
  BY <1>2 DEF VerbsAnswerWhatIsWritten
=============================================================================
