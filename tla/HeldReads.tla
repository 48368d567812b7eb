------------------------------ MODULE HeldReads ------------------------------
(***************************************************************************)
(* One `uncad` process reading drawings, one call after another: `read`,   *)
(* `Held::get`, `Held::put` and `hold_reads` of verbs.rs, step by step.    *)
(* `put`'s eviction loop is a loop here too.  The process is a one-shot    *)
(* command until `Serve` turns keeping on, which an MCP server does before *)
(* its first read.                                                         *)
(***************************************************************************)
EXTENDS HeldModels

CONSTANTS
  Reading,       \* how bytes are read: model JSON, DWG, DXF
  Bytes,         \* what files hold
  Model,         \* the models bytes decode to
  Undecodable,   \* what decoding bytes that are no drawing gives
  Decode,        \* the decoder: [Reading \X Bytes -> Model \cup {Undecodable}]
  HeldDrawings,  \* HELD_DRAWINGS of mcp.rs
  MaxReads       \* bound: how many reads a behaviour makes

ASSUME HeldReadsAssumption ==
  /\ HeldDrawings \in Nat \ {0}
  /\ MaxReads \in Nat
  /\ Undecodable \notin Model
  /\ Decode \in [Reading \X Bytes -> Model \cup {Undecodable}]

VARIABLES
  capacity,  \* how many models are kept; 0 is off
  entries,   \* the kept models, used longest ago first
  pc,        \* where the read under way is
  asked,     \* the reading and bytes of the read under way
  answer,    \* what the last read returned
  uses       \* history: the reading and bytes of every read that succeeded

vars == <<capacity, entries, pc, asked, answer, uses>>

Key == Reading \X Bytes
EntryKey(e) == <<e.reading, e.bytes>>
HeldEntry == [reading : Reading, bytes : Bytes, model : Model]

Init ==
  /\ capacity = 0
  /\ entries = <<>>
  /\ pc = "idle"
  /\ asked \in Key
  /\ answer = Undecodable
  /\ uses = <<>>

(* `serve` calls `hold_reads` once, before it answers anything. *)
Serve ==
  /\ pc = "idle" /\ capacity = 0 /\ uses = <<>>
  /\ capacity' = HeldDrawings
  /\ entries' = Truncated(entries, HeldDrawings)
  /\ UNCHANGED <<pc, asked, answer, uses>>

(* A call reads a file and has its bytes. *)
Ask(key) ==
  /\ pc = "idle" /\ Len(uses) < MaxReads
  /\ asked' = key
  /\ pc' = "get"
  /\ UNCHANGED <<capacity, entries, answer, uses>>

(* The read under way returns `model`. *)
Return(model) ==
  /\ pc' = "idle"
  /\ answer' = model
  /\ uses' = IF model = Undecodable THEN uses ELSE Append(uses, asked)

(* `get` finds the bytes, read the same way. *)
Hit ==
  /\ pc = "get"
  /\ Holds(entries, asked[1], asked[2])
  /\ LET i == Position(entries, asked[1], asked[2])
     IN  /\ entries' = Used(entries, i)
         /\ Return(entries[i].model)
  /\ UNCHANGED <<capacity, asked>>

(* `get` finds nothing: the bytes are decoded; what does not decode is an  *)
(* error, returned and not kept.                                           *)
MissUndecodable ==
  /\ pc = "get"
  /\ ~Holds(entries, asked[1], asked[2])
  /\ Decode[asked] = Undecodable
  /\ Return(Undecodable)
  /\ UNCHANGED <<capacity, entries, asked>>

(* A slip of the miss path: a failed decode is kept like any other.       *)
MissAnything ==
  /\ pc = "get"
  /\ ~Holds(entries, asked[1], asked[2])
  /\ pc' = "put"
  /\ UNCHANGED <<capacity, entries, asked, answer, uses>>

Miss ==
  /\ pc = "get"
  /\ ~Holds(entries, asked[1], asked[2])
  /\ Decode[asked] # Undecodable
  /\ pc' = "put"
  /\ UNCHANGED <<capacity, entries, asked, answer, uses>>

(* A slip of `put`: the early return for a capacity of 0 is forgotten. *)
KeepingIsNeverOff == FALSE

KeepingIsOff == capacity = 0

(* `put` returns at once when nothing is kept. *)
PutNothing ==
  /\ pc = "put" /\ KeepingIsOff
  /\ Return(Decode[asked])
  /\ UNCHANGED <<capacity, entries, asked>>

(* A slip of `put`: the loop stops one short of making room. *)
FullPastCapacity == Len(entries) > capacity

Full == Len(entries) >= capacity

(* One turn of `put`'s loop: `pop_front`, which an empty list ignores. *)
Evict ==
  /\ pc = "put" /\ ~KeepingIsOff /\ Full
  /\ entries' = IF entries = <<>> THEN <<>> ELSE Tail(entries)
  /\ UNCHANGED <<capacity, pc, asked, answer, uses>>

(* A slip of the miss path: the model is kept under a fixed reading. *)
NewEntryAnyReading ==
  Entry(CHOOSE r \in Reading : TRUE, asked[2], Decode[asked])

NewEntry == Entry(asked[1], asked[2], Decode[asked])

Push ==
  /\ pc = "put" /\ ~KeepingIsOff /\ ~Full
  /\ entries' = Append(entries, NewEntry)
  /\ Return(Decode[asked])
  /\ UNCHANGED <<capacity, asked>>

Next ==
  \/ Serve
  \/ \E key \in Key : Ask(key)
  \/ Hit \/ MissUndecodable \/ Miss
  \/ PutNothing \/ Evict \/ Push

(* A read under way is one function call on one thread: it runs on. *)
Running == Hit \/ MissUndecodable \/ Miss \/ PutNothing \/ Evict \/ Push

Spec == Init /\ [][Next]_vars /\ WF_vars(Running)

-----------------------------------------------------------------------------
TypeOK ==
  /\ capacity \in {0, HeldDrawings}
  /\ entries \in Seq(HeldEntry)
  /\ pc \in {"idle", "get", "put"}
  /\ asked \in Key
  /\ answer \in Model \cup {Undecodable}
  /\ uses \in Seq(Key)

(* Every kept model is what a fresh decode of its bytes, read its way,     *)
(* gives -- "an entry is reused only for the same bytes read the same way, *)
(* so no answer depends on whether a model was held" (verbs.rs).           *)
HeldAsDecoded ==
  \A i \in 1 .. Len(entries) : Decode[EntryKey(entries[i])] = entries[i].model

(* A read returns what decoding its own bytes, its own way, gives, whether *)
(* it found the model kept, kept it, or could not.                         *)
AnsweredAsDecoded ==
  [][pc # "idle" /\ pc' = "idle" => answer' = Decode[asked]]_vars

(* No two entries hold the same bytes read the same way, and there is      *)
(* never one more than the process was told to keep -- not even between    *)
(* the turns of the eviction loop.                                         *)
HeldOnce ==
  /\ Len(entries) <= capacity
  /\ \A i, j \in 1 .. Len(entries) : EntryKey(entries[i]) = EntryKey(entries[j]) => i = j

(* Reads that succeeded after the last use of `key`, as the set of what    *)
(* they read.                                                              *)
LastUse(key) == CHOOSE n \in 1 .. Len(uses) :
  uses[n] = key /\ \A m \in 1 .. Len(uses) : uses[m] = key => m <= n
UsedSince(key) == {uses[n] : n \in LastUse(key) + 1 .. Len(uses)}

(* Between reads a server holds exactly the last HELD_DRAWINGS different   *)
(* drawings it read, the last used at the back: a `diff` and the edit      *)
(* between its two files never push each other out.                        *)
HeldIsMostRecent ==
  pc = "idle" =>
    /\ {EntryKey(entries[i]) : i \in 1 .. Len(entries)}
         = {key \in ToSet(uses) : Cardinality(UsedSince(key)) < capacity}
    /\ \A i, j \in 1 .. Len(entries) :
         i < j => LastUse(EntryKey(entries[i])) < LastUse(EntryKey(entries[j]))

(* A read always ends, whatever the list holds and also when nothing is    *)
(* kept: `put`'s loop pops from an empty list for ever without its guard.  *)
ReadsEnd == pc # "idle" ~> pc = "idle"
=============================================================================
