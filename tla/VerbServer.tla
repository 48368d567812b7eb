------------------------------ MODULE VerbServer ------------------------------
(***************************************************************************)
(* The calls of VerbCalls, as `uncad` runs them: an MCP server keeps the   *)
(* models of the last few drawings it read (`HELD` of verbs.rs) and takes  *)
(* a kept one instead of decoding.  `get`, decoding and `put` are one step *)
(* here: they run on the process's one thread and touch nothing shared     *)
(* (HeldReads has them apart).                                             *)
(***************************************************************************)
EXTENDS VerbCalls, HeldModels

CONSTANT HeldDrawings  \* HELD_DRAWINGS of mcp.rs

ASSUME HeldDrawingsAssumption == HeldDrawings \in Nat \ {0}

VARIABLE held  \* the models each process keeps, used longest ago first

vars == <<files, pc, call, bytes, models, open, reply, held>>

Capacity(p) == IF p \in Server THEN HeldDrawings ELSE 0

Init == CallInit /\ held = [p \in Process |-> <<>>]

ReadingNow(p) == ReadingOf(NextInput(p))

Hit(p) ==
  /\ pc[p] = "decode"
  /\ Holds(held[p], ReadingNow(p), bytes[p])
  /\ LET i == Position(held[p], ReadingNow(p), bytes[p])
     IN  /\ Take(p, held[p][i].model)
         /\ held' = [held EXCEPT ![p] = Used(@, i)]

NewEntry(p) == Entry(ReadingNow(p), bytes[p], Decoded(p))

Miss(p) ==
  /\ pc[p] = "decode"
  /\ ~Holds(held[p], ReadingNow(p), bytes[p])
  /\ TakeModel(p)
  /\ held' = [held EXCEPT ![p] = Kept(@, Capacity(p), NewEntry(p))]

MissNotADrawing(p) ==
  /\ pc[p] = "decode"
  /\ ~Holds(held[p], ReadingNow(p), bytes[p])
  /\ NotADrawing(p)
  /\ UNCHANGED held

CrashServer(p) == Crash(p) /\ held' = [held EXCEPT ![p] = <<>>]

(* The step of CallNextAmong, by processes that keep models.               *)
NextAmong(calls, changes) ==
  \/ \E p \in Process, c \in calls :
       (Begin(p, c) \/ RefuseArguments(p, c)) /\ UNCHANGED held
  \/ \E p \in Process :
       \/ FileStep(p) /\ UNCHANGED held
       \/ Hit(p) \/ Miss(p) \/ MissNotADrawing(p)
       \/ CrashServer(p)
  \/ \E change \in changes : Replace(change.path, change.place) /\ UNCHANGED held

Next == NextAmong(Call, Change)

Spec == Init /\ [][Next]_vars

-----------------------------------------------------------------------------
TypeOK ==
  /\ CallTypeOK
  /\ held \in [Process -> Seq([reading : Reading, bytes : Contents, model : Model])]

(* Every model a process keeps is what a fresh decode of its bytes, read   *)
(* its way, gives, whatever has become of the file it came from.           *)
HeldAsDecoded ==
  \A p \in Process : \A i \in 1 .. Len(held[p]) :
    Decode[<<held[p][i].reading, held[p][i].bytes>>] = held[p][i].model

(* A one-shot command keeps nothing, a server no more than it was told to. *)
HeldWithinCapacity == \A p \in Process : Len(held[p]) <= Capacity(p)

(* "The server keeps nothing between calls: each call reads its files      *)
(* again" (mcp.rs), "the server keeps no state" (README.md).               *)
KeepsNothingBetweenCalls ==
  \A p \in Process : pc[p] = "idle" => held[p] = <<>>
=============================================================================
