------------------------------ MODULE MCIpcRing ------------------------------
(***************************************************************************)
(* IpcRing on a ring of a few bytes.  The lengths are chosen so that        *)
(* events fill the ring exactly, wrap with a skip marker at the last        *)
(* possible offset, and are refused for their size.                         *)
(***************************************************************************)
EXTENDS IpcRing

MCLens == {1, 4, Cap - 8, Cap - 7}
=============================================================================
