---------------------------- MODULE MCModuleLife ----------------------------
(***************************************************************************)
(* Two bans, one of them temporary, a whitelist entry that forbids it, and *)
(* pages of one row; two processes that run the daemon.                    *)
(***************************************************************************)
EXTENDS ModuleLife, TLC

CONSTANTS t, n, w
TwoKeys == <<t, n>>
OneWl == <<w>>
WlCovers == w :> {t}
=============================================================================
