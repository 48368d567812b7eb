----------------------------- MODULE HeldModels -----------------------------
(***************************************************************************)
(* The list of models an `uncad` process keeps read (`Held` of verbs.rs),  *)
(* as operators on the list alone: what finding a model does to it and     *)
(* what keeping one more does.  The front of the list is the entry used    *)
(* longest ago.  An entry is found by the bytes it was decoded from and by *)
(* the way they were read, never by the path they came from.               *)
(***************************************************************************)
EXTENDS Naturals, Sequences, SequencesExt

(* One kept model: the bytes, how they were read, and what they decode to. *)
Entry(reading, bytes, model) ==
  [reading |-> reading, bytes |-> bytes, model |-> model]

(* A slip `position` invites: the bytes are compared and the reading is not. *)
PositionsByBytes(entries, reading, bytes) ==
  {i \in 1 .. Len(entries) : entries[i].bytes = bytes}

(* Where the list holds these bytes read this way. *)
Positions(entries, reading, bytes) ==
  {i \in 1 .. Len(entries) : entries[i].reading = reading /\ entries[i].bytes = bytes}

Holds(entries, reading, bytes) == Positions(entries, reading, bytes) # {}

(* `Iterator::position`: the first of them. *)
Position(entries, reading, bytes) ==
  CHOOSE i \in Positions(entries, reading, bytes) :
    \A j \in Positions(entries, reading, bytes) : i <= j

(* A slip of `get`: the entry found is left where it is. *)
UsedInPlace(entries, i) == entries

(* `get` moves the entry it found to the back, the place of the last used. *)
Used(entries, i) == Append(RemoveAt(entries, i), entries[i])

(* `put` once its loop has run: the newest entries, one fewer than may be  *)
(* kept, and the new one behind them; nothing at all when keeping is off.  *)
Kept(entries, capacity, entry) ==
  IF capacity = 0
    THEN entries
    ELSE LET surplus == IF Len(entries) < capacity THEN 0 ELSE Len(entries) - capacity + 1
         IN  Append(SubSeq(entries, surplus + 1, Len(entries)), entry)

(* `hold_reads`: `VecDeque::truncate` keeps the front of the list.          *)
Truncated(entries, capacity) ==
  IF Len(entries) <= capacity THEN entries ELSE SubSeq(entries, 1, capacity)
=============================================================================
