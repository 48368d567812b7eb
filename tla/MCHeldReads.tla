----------------------------- MODULE MCHeldReads -----------------------------
(* One process, three ways to read, two byte strings: five drawings for a  *)
(* list of four, and more reads than drawings it keeps.                   *)
EXTENDS HeldReads

MCReading == {"json", "dwg", "dxf"}

(* The same bytes give another model under another reading; one pair does  *)
(* not decode.                                                             *)
MCModel == {<<r, b>> : r \in MCReading, b \in {"a", "b"}}
MCDecode == [key \in MCReading \X {"a", "b"} |->
               IF key = <<"json", "b">> THEN Undecodable ELSE key]
=============================================================================
