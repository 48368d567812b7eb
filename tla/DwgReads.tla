------------------------------- MODULE DwgReads -------------------------------
(***************************************************************************)
(* Threads reading drawings through the `uncad` crate (lib.rs).  A DWG is  *)
(* decoded, walked and freed by LibreDWG, C code with global state (the    *)
(* `loglevel` every reader sets, the static chain `dwg_free` frees by), so *)
(* its whole read runs under LIBREDWG_LOCK.  A DXF, or a DWG given to the  *)
(* reader written in Rust, takes no lock.                                  *)
(*                                                                         *)
(* A panic in the conversion unwinds the read: the mutex is released,      *)
(* poisoned, and what LibreDWG allocated is never freed (`Dwg_Data` is     *)
(* plain memory to Rust).  The next reader takes the poisoned lock as if   *)
(* nothing had happened.                                                   *)
(***************************************************************************)
EXTENDS Naturals

CONSTANTS
  Thread,
  Nobody,     \* not a thread
  Nothing,    \* in place of a request or an answer, where there is none
  Bytes,      \* what is given to be read
  Critical,   \* bytes LibreDWG refuses: DWG_ERR_CLASSESNOTFOUND or worse
  Faulty,     \* bytes whose conversion panics
  Endless,    \* bytes LibreDWG never finishes decoding
  MaxReads    \* bound: how often each thread reads

ASSUME DwgReadsAssumption ==
  /\ Nobody \notin Thread
  /\ Critical \subseteq Bytes /\ Faulty \subseteq Bytes /\ Endless \subseteq Bytes
  /\ MaxReads \in Nat

(* UNCAD_DWG_READER: one reader, the other, or a name that is neither.     *)
Reader == {"libredwg", "undwg", "unknown"}
Request == [format : {"dwg", "dxf"}, bytes : Bytes, reader : Reader]

VARIABLES
  lock,      \* the thread that holds LIBREDWG_LOCK, or Nobody
  poisoned,  \* whether a holder panicked
  pc,        \* where each thread's read is
  request,   \* what each thread reads, or read last
  image,     \* each thread's Dwg_Data: "none", "zeroed" or "filled"
  mixed,     \* the threads whose C code ran between another's steps
  unfreed,   \* decoded drawings C memory is still held for
  got,       \* what each thread's last read returned
  reads,     \* history: how many reads each thread has asked for
  panics     \* history: how many reads panicked

vars == <<lock, poisoned, pc, request, image, mixed, unfreed, got, reads, panics>>

(* A slip of the dispatch: a DXF goes where a DWG goes.                    *)
AnyByLibreDwg(r) == r.reader = "libredwg"

ByLibreDwg(r) == r.format = "dwg" /\ r.reader = "libredwg"

(* What a read should give, by what is read alone.                         *)
Verdict(r) ==
  CASE r.format = "dwg" /\ r.reader = "unknown" -> "unknown reader"
    [] ByLibreDwg(r) /\ r.bytes \in Critical -> "critical error"
    [] ByLibreDwg(r) /\ r.bytes \in Faulty -> "panic"
    [] OTHER -> "drawing"
Of(verdict, r) == [verdict |-> verdict, of |-> r]
Answers ==
  [verdict : {"unknown reader", "critical error", "panic", "drawing", "corrupt"}, of : Request]
Outcome == [r \in Request |-> Of(Verdict(r), r)]

Init ==
  /\ lock = Nobody /\ poisoned = FALSE
  /\ pc = [t \in Thread |-> "idle"]
  /\ request = [t \in Thread |-> Nothing]
  /\ image = [t \in Thread |-> "none"]
  /\ mixed = {} /\ unfreed = 0
  /\ got = [t \in Thread |-> Nothing]
  /\ reads = [t \in Thread |-> 0] /\ panics = 0

Goto(t, label) == pc' = [pc EXCEPT ![t] = label]

(* The threads between their first C call and their last.                  *)
InCycle == {t \in Thread : image[t] # "none"}

(* `t` calls into LibreDWG: with another thread's cycle open, the global   *)
(* state both of them work with is the wrong one for one of them.          *)
CallsC(t) ==
  mixed' = IF InCycle \subseteq {t} THEN mixed ELSE mixed \cup InCycle \cup {t}

(* `parse_bytes_with_header`, then `parse_dwg`: who reads this.            *)
Ask(t, r) ==
  /\ pc[t] = "idle" /\ reads[t] < MaxReads
  /\ request' = [request EXCEPT ![t] = r]
  /\ reads' = [reads EXCEPT ![t] = @ + 1]
  /\ got' = [got EXCEPT ![t] = Nothing]
  /\ Goto(t, IF ByLibreDwg(r) THEN "lock" ELSE "no lock")
  /\ UNCHANGED <<lock, poisoned, image, mixed, unfreed, panics>>

(* `undxf`, `undwg`, or the refusal of a reader nobody knows.              *)
ReadWithoutLock(t) ==
  /\ pc[t] = "no lock"
  /\ got' = [got EXCEPT ![t] = Outcome[request[t]]]
  /\ Goto(t, "idle")
  /\ UNCHANGED <<lock, poisoned, request, image, mixed, unfreed, reads, panics>>

(* A slip of the lock: `unwrap`, and every read after a panic panics too.  *)
LockUnwrapped(t) ==
  /\ pc[t] = "lock" /\ lock = Nobody
  /\ IF poisoned
       THEN /\ Goto(t, "idle")
            /\ got' = [got EXCEPT ![t] = Of("panic", request[t])]
            /\ panics' = panics + 1
            /\ UNCHANGED <<lock, image>>
       ELSE /\ lock' = t
            /\ image' = [image EXCEPT ![t] = "zeroed"]
            /\ Goto(t, "decode")
            /\ UNCHANGED <<got, panics>>
  /\ UNCHANGED <<poisoned, request, mixed, unfreed, reads>>

(* The lock, poisoned or not, and a zeroed Dwg_Data.                       *)
Lock(t) ==
  /\ pc[t] = "lock" /\ lock = Nobody
  /\ lock' = t
  /\ image' = [image EXCEPT ![t] = "zeroed"]
  /\ Goto(t, "decode")
  /\ UNCHANGED <<poisoned, request, mixed, unfreed, got, reads, panics>>

(* `uncad_dwg_read_bytes` fills the structure and says how it went.        *)
Decode(t) ==
  /\ pc[t] = "decode"
  /\ request[t].bytes \notin Endless
  /\ CallsC(t)
  /\ image' = [image EXCEPT ![t] = "filled"]
  /\ unfreed' = unfreed + 1
  /\ Goto(t, IF request[t].bytes \in Critical THEN "refuse" ELSE "text")
  /\ UNCHANGED <<lock, poisoned, request, got, reads, panics>>

(* A slip of the refusal: `return Err` before `dwg_free`.                  *)
RefuseUnfreed(t) ==
  /\ pc[t] = "refuse"
  /\ image' = [image EXCEPT ![t] = "none"]
  /\ Goto(t, "unlock")
  /\ UNCHANGED <<lock, poisoned, request, mixed, unfreed, got, reads, panics>>

(* Another: freed, and no `return Err` behind it.                          *)
RefuseAndGoOn(t) ==
  /\ pc[t] = "refuse"
  /\ image' = [image EXCEPT ![t] = "none"]
  /\ unfreed' = unfreed - 1
  /\ Goto(t, "text")
  /\ UNCHANGED <<lock, poisoned, request, mixed, got, reads, panics>>

(* `dwg_free`: on the way out with a critical error, or once everything    *)
(* has been copied out.                                                    *)
FreeImage(t) ==
  /\ CallsC(t)
  /\ image' = [image EXCEPT ![t] = "none"]
  /\ unfreed' = unfreed - 1
  /\ Goto(t, "unlock")
  /\ UNCHANGED <<lock, poisoned, request, got, reads, panics>>

Refuse(t) == pc[t] = "refuse" /\ FreeImage(t)

(* The walks over the live structure, each of many C calls, in their order. *)
Walks == {"text", "entities", "tables", "header"}
Label == {"idle", "no lock", "lock", "decode", "refuse", "free", "unlock"} \cup Walks

WalkOn(t, walk, next) ==
  /\ pc[t] = walk
  /\ CallsC(t)
  /\ Goto(t, next)
  /\ UNCHANGED <<lock, poisoned, request, image, unfreed, got, reads, panics>>

Walk(t) ==
  \/ WalkOn(t, "text", "entities")
  \/ WalkOn(t, "entities", "tables")
  \/ WalkOn(t, "tables", "header")
  \/ WalkOn(t, "header", "free") /\ request[t].bytes \notin Faulty

(* This crate's conversion panics, in one walk or another: the guard is    *)
(* dropped by the unwinding, which poisons the mutex.                      *)
Panic(t) ==
  /\ pc[t] \in Walks
  /\ request[t].bytes \in Faulty
  /\ lock' = Nobody /\ poisoned' = TRUE
  /\ image' = [image EXCEPT ![t] = "none"]
  /\ got' = [got EXCEPT ![t] = Of("panic", request[t])]
  /\ panics' = panics + 1
  /\ Goto(t, "idle")
  /\ UNCHANGED <<request, mixed, unfreed, reads>>

(* A slip of the end: the guard is dropped before the structure is freed.  *)
FreeUnlocked(t) ==
  /\ pc[t] = "free"
  /\ IF lock = t
       THEN lock' = Nobody /\ UNCHANGED <<pc, image, mixed, unfreed>>
       ELSE /\ CallsC(t) /\ UNCHANGED lock
            /\ image' = [image EXCEPT ![t] = "none"]
            /\ unfreed' = unfreed - 1
            /\ Goto(t, "unlock")
  /\ UNCHANGED <<poisoned, request, got, reads, panics>>

Free(t) == pc[t] = "free" /\ FreeImage(t)

(* What the read made of the bytes: anything, if its C code was mixed up   *)
(* with another's (heap corruption, says the comment on the lock).         *)
Made(t) == IF t \in mixed THEN Of("corrupt", request[t]) ELSE Outcome[request[t]]

(* The read returns, and the guard with it.                                *)
Unlock(t) ==
  /\ pc[t] = "unlock"
  /\ lock' = IF lock = t THEN Nobody ELSE lock
  /\ got' = [got EXCEPT ![t] = Made(t)]
  /\ Goto(t, "idle")
  /\ UNCHANGED <<poisoned, request, image, mixed, unfreed, reads, panics>>

Read(t) ==
  \/ ReadWithoutLock(t)
  \/ Lock(t) \/ Decode(t) \/ Refuse(t) \/ Walk(t) \/ Panic(t) \/ Free(t) \/ Unlock(t)

Next == \E t \in Thread : Read(t) \/ \E r \in Request : Ask(t, r)

(* Threads are scheduled.  The mutex need not be fair: reads are finitely  *)
(* many, so a thread that waits is not passed over for ever.               *)
Spec == Init /\ [][Next]_vars /\ \A t \in Thread : WF_vars(Read(t))

-----------------------------------------------------------------------------
TypeOK ==
  /\ lock \in Thread \cup {Nobody}
  /\ poisoned \in BOOLEAN
  /\ pc \in [Thread -> Label]
  /\ request \in [Thread -> Request \cup {Nothing}]
  /\ image \in [Thread -> {"none", "zeroed", "filled"}]
  /\ mixed \subseteq Thread
  /\ unfreed \in Nat /\ panics \in Nat
  /\ got \in [Thread -> Answers \cup {Nothing}]
  /\ reads \in [Thread -> 0 .. MaxReads]

(* From its zeroed structure to the last free, a read has LibreDWG to      *)
(* itself -- past errors and past panics that gave the lock away.          *)
CyclesNeverMix == mixed = {} /\ \A t, u \in InCycle : t = u

(* C memory is held for the drawing being read and for those whose read    *)
(* panicked, once each; a critical error frees what it had.                *)
HeldForPanicsOnly ==
  unfreed = panics + (IF \E t \in Thread : image[t] = "filled" THEN 1 ELSE 0)

(* Every read returns what its bytes say: DrawingReads, fairness and all.  *)
(* A panic changes no later read, no two reads change each other, and only *)
(* a read under the lock waits behind one that never ends.                 *)
Reads == INSTANCE DrawingReads WITH
  Turns <- {r \in Request : ByLibreDwg(r)},
  Unending <- {r \in Request : ByLibreDwg(r) /\ r.bytes \in Endless},
  asked <- request,
  pending <- {t \in Thread : pc[t] # "idle"}
ReadsAsAsked == Reads!ReadSpec

(* A DXF is read whatever LibreDWG is doing, a decode that never ends      *)
(* included.                                                               *)
DxfNeedsNoLock == \A t \in Thread :
  pc[t] # "idle" /\ request[t].format = "dxf" ~> pc[t] = "idle"
=============================================================================
