----------------------------- MODULE MCVerbServer -----------------------------
(* A server and a command over four paths.  Two drawings, A and B; the one *)
(* edit turns A into B and does not apply to B.                            *)
EXTENDS VerbSites

MCExt == [p \in {"in.dwg", "in.dxf", "s.json", "o.svg"} |->
            CASE p = "in.dwg" -> "dwg" [] p = "in.dxf" -> "dxf"
              [] p = "s.json" -> "json" [] OTHER -> "svg"]

(* `dA` reads as A in a DWG and as B in a DXF: the bytes alone do not tell. *)
MCBytes == {"dA", "dB", "jA", "jB", "svg"}
MCDecode == [key \in Reading \X (MCBytes \cup {Empty, Torn}) |->
  CASE key \in {<<"dwg", "dA">>, <<"dxf", "dB">>, <<"json", "jA">>} -> "A"
    [] key \in {<<"dwg", "dB">>, <<"dxf", "dA">>, <<"json", "jB">>} -> "B"
    [] OTHER -> Undecodable]
MCEdited == [am \in {"edit"} \X {"A", "B"} |-> IF am[2] = "A" THEN "B" ELSE Refused]
MCToJson == [m \in {"A", "B"} |-> IF m = "A" THEN "jA" ELSE "jB"]
MCPicture == [amm \in {"edit"} \X {"A", "B"} \X {"A", "B"} |->
                IF amm[2] = "B" THEN Refused ELSE "svg"]

Asks(verb, inputs, output) ==
  [verb |-> verb, inputs |-> inputs, output |-> output, arg |-> "edit",
   fits |-> TRUE, listed |-> TRUE]
MCDisk == {[p \in DOMAIN MCExt |-> IF p \in {"in.dwg", "in.dxf"} THEN "dA" ELSE Absent]}

(* What the verbs are asked, and what others do to the files meanwhile.    *)
VerbCallsMade ==
  { Asks("summarize", <<"in.dxf">>, NoPath),
    Asks("diff", <<"in.dwg", "s.json">>, NoPath),
    Asks("set", <<"in.dwg">>, "s.json"),
    Asks("redline", <<"in.dwg", "s.json">>, "o.svg"),
    [Asks("balloon", <<"in.dwg">>, "o.svg") EXCEPT !.listed = FALSE],
    [Asks("summarize", <<"in.dwg">>, NoPath) EXCEPT !.fits = FALSE] }
VerbChanges == { [path |-> "in.dwg", place |-> "dB"],
              [path |-> "s.json", place |-> "jA"],
              [path |-> "s.json", place |-> Absent] }

(* What they are asked beside the plain command.                           *)
PlainCallsMade ==
  { Asks("plain", <<"in.dwg">>, "s.json"),
    Asks("plain", <<"s.json">>, NoPath),
    Asks("plain", <<"s.json">>, "o.svg"),
    Asks("set", <<"in.dwg">>, "s.json"),
    Asks("balloon", <<"in.dwg">>, "o.svg") }
PlainChanges == { [path |-> "in.dwg", place |-> Absent],
                 [path |-> "s.json", place |-> Directory] }

MCCall == VerbCallsMade \cup PlainCallsMade
MCChange == VerbChanges \cup PlainChanges

(* Verbs alone, and beside the plain command, which writes over what is    *)
(* there: a behaviour is one or the other.                                 *)
MCCallsAt == [verbs |-> VerbCallsMade, plain |-> PlainCallsMade]
MCChangesAt == [verbs |-> VerbChanges, plain |-> PlainChanges]
=============================================================================
