----------------------------- MODULE MCLogTail -----------------------------
(***************************************************************************)
(* A small instance of LogTail: two files, the second of which appears     *)
(* while the rotation of the first is being handled.                       *)
(***************************************************************************)
EXTENDS LogTail

CONSTANTS f1, f2
=============================================================================
