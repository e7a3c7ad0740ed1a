---------------------------- MODULE MCVolumeTrader ----------------------------
(***************************************************************************)
(* The daemon with an account of 94, 97 or 100 dollars and a limit of five *)
(* percent: one step down is no breach, two are.                           *)
(***************************************************************************)
EXTENDS VolumeTrader

MCEquities == {94, 97, 100}
=============================================================================
