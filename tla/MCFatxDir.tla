----------------------------- MODULE MCFatxDir ------------------------------
(***************************************************************************)
(* Small volumes for FatxDir: clusters of two slots, six of them.          *)
(***************************************************************************)
EXTENDS FatxDir

CONSTANTS a, b, c

MCNames == {a, b, c}

EndOfChain == ReservedMarker + 15
Table(links) ==
  [n \in 0 .. FatLen - 1 |-> IF n \in DOMAIN links THEN links[n] ELSE 0]

S(name, kind, first) == [name |-> name, kind |-> kind, first |-> first]
File(name) == S(name, "file", 6)
Dir(name, first) == S(name, "dir", first)
Label(name) == S(name, "volume", 0)
Deleted == S(b, "deleted", 0)
End == S(c, "end", 0)

Clusters(slots) ==
  [n \in 1 .. NumClusters |->
    IF n \in DOMAIN slots THEN slots[n][1] @@ slots[n][2]
    ELSE 0 :> File(c) @@ 1 :> File(c)]
Two(first, second) == <<0 :> first, 1 :> second>>

\* The root directory takes clusters 3, 1 and 4; directory a of it takes 2 and
\* 5.  Stale entries follow the end marker of the root.
Slots ==
  Clusters(3 :> Two(Label(c), Deleted) @@ 1 :> Two(Dir(a, 2), Deleted) @@
           4 :> Two(File(b), End) @@
           2 :> Two(File(a), Dir(b, 6)) @@ 5 :> Two(File(c), End) @@
           6 :> Two(End, File(a)))
Chains == 3 :> <<3, 1, 4>> @@ 2 :> <<2, 5>> @@ 6 :> <<6>>

TwoLevels ==
  [fat |-> Table(3 :> 1 @@ 1 :> 4 @@ 4 :> EndOfChain @@ 2 :> 5 @@
                 5 :> EndOfChain @@ 6 :> EndOfChain),
   slots |-> Slots, root |-> 3, chains |-> Chains, bad |-> {}]

\* Directory a fills its last cluster, so that no end marker follows.
Full ==
  [TwoLevels EXCEPT !.slots = [@ EXCEPT ![5] = 0 :> File(c) @@ 1 :> File(b)]]

\* The end marker comes early, before a stale slot and a stale cluster.
Shrunk ==
  [TwoLevels EXCEPT !.slots = [@ EXCEPT ![1] = 0 :> End @@ 1 :> File(b)]]

SoundVolumes == {TwoLevels, Full, Shrunk}
ASSUME \A v \in SoundVolumes : WellFormed(v)

\* The root's chain breaks off after its first or second cluster: with a free
\* entry, the end of the chain, the number one past the last cluster, whose
\* slots are not in the partition or on the device, one that is refused, or
\* one outside the table.
Broken(cluster, link) ==
  [TwoLevels EXCEPT !.fat = [@ EXCEPT ![cluster] = link]]
BadLinks == {0, EndOfChain, NumClusters, NumClusters + 1, FatLen}

\* A directory that begins where none can, and a name that is too long.
Misplaced(first) ==
  [TwoLevels EXCEPT !.slots = [@ EXCEPT ![1] = 0 :> Dir(a, first) @@ 1 :> Deleted],
                    !.chains = [d \in {first, 3} |-> IF d = 3 THEN @[3] ELSE <<>>]]
LongName ==
  [TwoLevels EXCEPT !.slots = [@ EXCEPT ![2] = 0 :> File(TooLong) @@ 1 :> Dir(b, 6)]]

\* Chains that come back to their first cluster or to their second: the root's
\* without an end marker, and with a full directory a, which comes back too.
Round(volume, links) ==
  [volume EXCEPT !.slots = [@ EXCEPT ![4] = 0 :> File(b) @@ 1 :> Deleted], !.fat = links @@ @]

\* The device sometimes fails to read the middle slot of the root, or the first or
\* the last of directory a.
Failing(places) == [TwoLevels EXCEPT !.bad = places]

DamagedVolumes ==
  {Round(TwoLevels, 4 :> 1), Round(Full, 4 :> 3 @@ 5 :> 2)}
  \cup {Broken(n, l) : n \in {1, 3}, l \in BadLinks}
  \cup {Misplaced(f) : f \in {0, NumClusters + 1, U32 - 1}} \cup {LongName}
  \cup {Failing({<<1, 1>>}), Failing({<<2, 0>>, <<5, 1>>})}

AllVolumes == SoundVolumes \cup DamagedVolumes
ASSUME \A v \in AllVolumes : Unstraying(v)

\* Every path of up to three components, of which c comes last.
MCRequests ==
  LET upTo(n) == SeqOf({a, b, Up}, n)
  IN [op : {"stat", "open", "list"},
      path : {<<Root>> \o p : p \in upTo(3) \cup {Append(q, c) : q \in upTo(2)}}
             \cup upTo(1) \cup {<<a, Up>>, <<Up, a>>, <<Here, a>>}]
=============================================================================
