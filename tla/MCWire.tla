------------------------------- MODULE MCWire -------------------------------
(***************************************************************************)
(* All messages, with texts below, at and beyond the width of a field in   *)
(* one-byte and three-byte characters, and tables that are empty, of one   *)
(* row, and larger than any page.                                          *)
(***************************************************************************)
EXTENDS Wire

Texts == {<<0, 1>>, <<15, 1>>, <<31, 1>>, <<32, 1>>, <<10, 3>>, <<11, 3>>, <<24, 3>>}
=============================================================================
