----------------------------- MODULE MCDwgReads -----------------------------
(* Two threads, two reads each, of every request there is over one byte    *)
(* string of each kind.                                                    *)
EXTENDS DwgReads
=============================================================================
