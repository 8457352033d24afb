---------------------------- MODULE MCFatxMount ----------------------------
(* Small instances of FatxMount. *)
EXTENDS FatxMount

CONSTANTS m1, m2, m3

MCMounts == {m1, m2, m3}
=============================================================================
