---------------------------- MODULE MCKernelLink ----------------------------
(* Two callers.  The counter starts anywhere, so that it also wraps and   *)
(* has to leave out 0; a number is not used a second time.                 *)
EXTENDS KernelLink
=============================================================================
