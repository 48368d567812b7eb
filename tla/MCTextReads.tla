----------------------------- MODULE MCTextReads -----------------------------
(* Bytes 0 and 1 are ASCII, 2 and 3 high; 3 opens a pair.  The tables have *)
(* a character for 2 alone, for one pair of a double-byte codepage, and    *)
(* for one seven-bit pair of GB2312.                                       *)
EXTENDS TextReads

MCTable == {<<2>>, <<3, 0>>, <<3, 2>>, <<2, 3>>, <<1, 0>>}
MCLeads == {3}
=============================================================================
