----------------------------- MODULE MCFatxFile -----------------------------
(***************************************************************************)
(* Small volumes for FatxFile: clusters of two bytes, four of them.        *)
(***************************************************************************)
EXTENDS FatxFile, TLC

CONSTANTS h1, h2

MCHandles == {h1, h2}
MCDeltas == {-1, 1}

EndOfChain == ReservedMarker + 15

\* A table in which the given clusters are linked as `links` says; every other
\* entry is Available (0).
Table(links) ==
  [c \in 0 .. FatLen - 1 |-> IF c \in DOMAIN links THEN links[c] ELSE 0]

Entry(first, size) == [first |-> first, size |-> size]
Chain(s) == [i \in 0 .. Len(s) - 1 |-> s[i + 1]]

\* Two files with interleaved clusters that are not in ascending order.
TwoFiles ==
  [fat    |-> Table(3 :> 1 @@ 1 :> 4 @@ 4 :> EndOfChain @@ 2 :> EndOfChain),
   dirent |-> h1 :> Entry(3, 5) @@ h2 :> Entry(2, 1),
   chain  |-> h1 :> Chain(<<3, 1, 4>>) @@ h2 :> Chain(<<2>>)]

\* Both handles open on one file, which ends with its last cluster.
SharedFile ==
  [fat    |-> Table(4 :> 2 @@ 2 :> EndOfChain),
   dirent |-> h1 :> Entry(4, 4) @@ h2 :> Entry(4, 4),
   chain  |-> h1 :> Chain(<<4, 2>>) @@ h2 :> Chain(<<4, 2>>)]

\* An empty file, for which no cluster is allocated.
WithEmptyFile ==
  [fat    |-> Table(1 :> 2 @@ 2 :> 3 @@ 3 :> EndOfChain),
   dirent |-> h1 :> Entry(1, 5) @@ h2 :> Entry(0, 0),
   chain  |-> h1 :> Chain(<<1, 2, 3>>) @@ h2 :> Chain(<<>>)]

SoundVolumes == {TwoFiles, SharedFile, WithEmptyFile}
ASSUME \A v \in SoundVolumes : WellFormed(v)

\* A file of five bytes whose second link is missing, leads to a number that
\* seek_cluster refuses, or leads outside the table.
Damaged(entry) ==
  [fat    |-> Table(3 :> 1 @@ 1 :> entry),
   dirent |-> h1 :> Entry(3, 7) @@ h2 :> Entry(3, 7),
   chain  |-> h1 :> Chain(<<3, 1>>) @@ h2 :> Chain(<<3, 1>>)]
DamagedVolumes == {Damaged(EndOfChain), Damaged(0), Damaged(FatLen)}

AllVolumes == SoundVolumes \cup DamagedVolumes

\* A file that reaches the cluster number one past the last data cluster.
OverrunVolumes ==
  {[fat    |-> Table(3 :> NumClusters @@ NumClusters :> EndOfChain),
    dirent |-> h1 :> Entry(3, 4) @@ h2 :> Entry(3, 4),
    chain  |-> h1 :> Chain(<<3>>) @@ h2 :> Chain(<<3>>)]}
=============================================================================
