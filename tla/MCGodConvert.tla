--------------------------- MODULE MCGodConvert ----------------------------
(***************************************************************************)
(* Small batches for GodConvert.                                           *)
(***************************************************************************)
EXTENDS GodConvert

CONSTANTS b1, b2, d1

Isos(parts, id) == [dir |-> d1, parts |-> parts, id |-> id]

\* Three dumps of one title, each with fewer parts than the one before.
OneBatch == [b \in {b1} |-> <<Isos(3, "x"), Isos(2, "y"), Isos(1, "z")>>]

\* The button clicked twice.
TwoClicks == [b \in {b1, b2} |-> <<Isos(1, "x")>>]
=============================================================================
