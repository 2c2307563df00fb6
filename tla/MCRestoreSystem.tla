---------------------------- MODULE MCRestoreSystem ----------------------------
(***************************************************************************)
(* Small instances of RestoreSystem for TLC: two restores of one source.   *)
(***************************************************************************)
EXTENDS RestoreSystem

CONSTANTS r1, r2
=============================================================================
