---------------------------- MODULE MCFatxFuse -----------------------------
(***************************************************************************)
(* A small mounted volume for FatxFuse: a label, a directory with an empty *)
(* file in it, and a file in the root.                                     *)
(***************************************************************************)
EXTENDS FatxFuse, TLC

CONSTANTS a, b, c, r1, r2

\* A leap day, the last moment of the epoch, and the minute the mask ends at.
Leap == Moment([year |-> 2024, month |-> 2, day |-> 29], [hour |-> 16, minute |-> 31, second |-> 58])
Latest == Moment([year |-> 2127, month |-> 12, day |-> 31],
                 [hour |-> 23, minute |-> 59, second |-> 58])
Masked == Moment([year |-> 2000, month |-> 1, day |-> 1], [hour |-> 7, minute |-> 32, second |-> 0])
MCMoments == {Leap, Latest, Masked}

Named(name, kind, first, moment) ==
  [name |-> name, kind |-> kind, first |-> first, modified |-> Words(moment)]

Tree ==
  [root |-> 1,
   damaged |-> FALSE,
   dirs |-> 1 :> [entries |-> <<Named(c, "volume", 0, Leap), Named(a, "dir", 2, Leap),
                                Named(b, "file", 4, Latest)>>, ended |-> TRUE] @@
            2 :> [entries |-> <<Named(b, "file", 5, Masked)>>, ended |-> FALSE]]

MCTrees == {Tree}
ASSUME NamesDistinct
MCContent == 4 :> <<1, 2, 3>> @@ 5 :> <<>>
MCReaders == {r1, r2}
MCNames == {a, b, c}
ReaderSymmetry == Permutations(MCReaders)
=============================================================================
