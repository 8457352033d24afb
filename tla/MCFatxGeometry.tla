--------------------------- MODULE MCFatxGeometry ---------------------------
(***************************************************************************)
(* FatxGeometry scaled down: sectors and pages of eight bytes, FAT16 below  *)
(* six entries.                                                            *)
(***************************************************************************)
EXTENDS FatxGeometry

Sized(kind, lengths) ==
  [kind : {kind}, bytes : lengths, signed : BOOLEAN,
   sectors : {0, 1, 2, 3, 4, 8, 16}, root : {0, 1, 4, 20}]

MCImages == Sized("image", 0 .. 120)
MCBlockDevices == Sized("block", {0, 50, 120})
MCOffsets == {0, 3, 16}
MCSizes == {45, 48, 376}
=============================================================================
