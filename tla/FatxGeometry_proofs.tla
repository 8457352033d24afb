------------------------ MODULE FatxGeometry_proofs ------------------------
(***************************************************************************)
(* Proofs about FatxGeometry, for every device, offset and size that its   *)
(* assumption admits: no subtraction of open_device wraps, and the volumes *)
(* that open have the geometry that their readers rely on.                 *)
(***************************************************************************)
EXTENDS FatxGeometry, CommonFacts, TLAPS

-----------------------------------------------------------------------------
(* The operators. *)

\* The constants' types, and the limit on the sizes asked for.
LEMMA Constants ==
  /\ Sector \in Nat \ {0} /\ Page \in Nat \ {0} /\ Marker16 \in Nat \ {0}
  /\ U32 \in Nat \ {0} /\ Marker32 \in Nat /\ Marker32 < U32
  /\ \A d \in Devices : /\ d.bytes \in Nat /\ d.root \in Nat /\ d.sectors \in Nat
                        /\ d.kind \in {"image", "block"}
  /\ \A s \in Sizes : s \in Nat /\ s < Sector * Marker32
  /\ \A o \in Offsets : o \in Nat
  /\ Sector * Marker32 \in Nat
<1>1. Marker32 \in Nat /\ Marker32 < U32 /\ Sector \in Nat
  BY GeometryAssumption DEF Marker32
<1>2. Sector * Marker32 \in Nat
  BY <1>1
<1>3. \A d \in Devices : d \in Device
  BY GeometryAssumption
<1>4. \A d \in Devices : /\ d.bytes \in Nat /\ d.root \in Nat /\ d.sectors \in Nat
                         /\ d.kind \in {"image", "block"}
  BY <1>3, GeometryAssumption DEF Device
<1> QED BY <1>1, <1>2, <1>4, GeometryAssumption

\* A table is rounded up to pages, and never down.
LEMMA PageMultipleBounds ==
  ASSUME NEW n \in Nat PROVE PageMultiple(n) \in Nat /\ n <= PageMultiple(n)
<1>1. Page \in Nat \ {0}
  BY Constants
<1> DEFINE m == n + (Page - 1)
<1>2. m \in Nat
  BY <1>1
<1>3. /\ m \div Page \in Nat /\ m % Page \in 0 .. Page - 1
      /\ m = (Page * (m \div Page)) + (m % Page)
  BY <1>1, <1>2, DivMod
<1>4. PageMultiple(n) = Page * (m \div Page)
  BY <1>1, <1>3 DEF PageMultiple
<1>5. Page * (m \div Page) \in Nat
  BY <1>1, <1>3
<1> QED BY <1>1, <1>3, <1>4, <1>5

\* A longer table takes no fewer pages.
LEMMA PageMultipleMonotone ==
  ASSUME NEW m \in Nat, NEW n \in Nat, m <= n PROVE PageMultiple(m) <= PageMultiple(n)
<1>1. Page \in Nat \ {0} /\ m + (Page - 1) \in Nat /\ n + (Page - 1) \in Nat
  BY Constants
<1> DEFINE q == (m + (Page - 1)) \div Page
           r == (n + (Page - 1)) \div Page
<1>2. q \in Nat /\ r \in Nat /\ q <= r
  BY <1>1, DivMod, DivMonotone
<1> HIDE DEF q, r
<1>3. q * Page <= r * Page
  <2>1. PICK d \in Nat : r = q + d
    <3>1. r - q \in Nat
      BY <1>2
    <3> QED BY <1>2, <3>1
  <2>2. r * Page = (q * Page) + (d * Page)
    BY <1>1, <1>2, <2>1
  <2>3. q * Page \in Nat /\ d * Page \in Nat
    BY <1>1, <1>2
  <2> QED BY <2>2, <2>3
<1> QED BY <1>3 DEF PageMultiple, q, r

\* Clusters are whole sectors, and few enough for 32 bits to count them.
LEMMA ClusterCount ==
  ASSUME NEW s \in Nat, s < Sector * Marker32, NEW k \in Nat \ {0}
  PROVE  /\ k * Sector \in Nat \ {0}
         /\ s \div (k * Sector) \in Nat
         /\ s \div (k * Sector) <= s \div Sector
         /\ s \div (k * Sector) < Marker32
<1>1. Sector \in Nat \ {0} /\ Marker32 \in Nat
  BY Constants
<1>2. k * Sector \in Nat \ {0}
  BY <1>1
<1>3. \A b \in Nat \ {0} : s \div b \in Nat
  BY DivMod
<1>4. s \div (k * Sector) \in Nat /\ s \div Sector \in Nat
  BY <1>1, <1>2, <1>3
<1>5. s \div (k * Sector) <= s \div Sector
  BY <1>1, QuotientOfMultiple
<1>6. s \div Sector < Marker32
  BY <1>1, QuotientBelow
<1> QED BY <1>1, <1>2, <1>4, <1>5, <1>6

-----------------------------------------------------------------------------
(* What open_device has established by the time it is at each of its checks.  *)

Unfitted == pc \in {"config", "length"} => size \in Sizes

Placed ==
  pc \in {"superblock", "fat", "clusters", "open"} =>
    /\ offset + size <= dev.bytes
    /\ size \in Sizes \/ offset + size = dev.bytes

Measured ==
  pc \in {"fat", "clusters", "open"} =>
    /\ dev.sectors \in Nat \ {0}
    /\ bpc = ClusterBytes
    /\ entries = size \div bpc
    /\ dev.root < entries

Tabled ==
  pc \in {"clusters", "open"} =>
    /\ wide = NeedsWide
    /\ fatBytes = PageMultiple(entries * (IF wide THEN 4 ELSE 2))
    /\ Page + fatBytes <= size

Counted == pc = "open" => clusters = (DataBytes \div bpc) + 1

Geometry == Unfitted /\ Placed /\ Measured /\ Tabled /\ Counted
IInv == TypeOK /\ Geometry

\* The types of the fields that the checks read.
LEMMA FieldTypes ==
  ASSUME TypeOK
  PROVE  /\ offset \in Nat /\ size \in Nat /\ size < Sector * Marker32
         /\ dev \in Devices /\ dev.bytes \in Nat /\ dev.root \in Nat
         /\ dev.sectors \in Nat /\ ReportedLen \in Nat /\ ReportedLen <= dev.bytes
<1>1. /\ offset \in Nat /\ dev \in Devices /\ dev.bytes \in Nat /\ dev.root \in Nat
      /\ dev.sectors \in Nat
  BY Constants DEF TypeOK
<1>2. size \in Nat /\ size < Sector * Marker32
  BY Constants DEF TypeOK
<1> QED BY <1>1, <1>2 DEF ReportedLen

\* Nothing is known yet but what was asked for.
LEMMA InitIInv == Init => IInv
<1> SUFFICES ASSUME Init PROVE IInv
  OBVIOUS
<1>1. size \in 0 .. (Sector * Marker32) - 1
  BY Constants DEF Init
<1>2. TypeOK
  BY <1>1 DEF Init, TypeOK, Errors
<1> QED BY <1>2 DEF IInv, Geometry, Unfitted, Placed, Measured, Tabled, Counted, Init

\* A refusal claims nothing about the geometry.
LEMMA FailIInv == ASSUME IInv, NEW e \in Errors, Fail(e) PROVE IInv'
<1>1. TypeOK'
  BY DEF IInv, Fail, fields, TypeOK
<1>2. pc' \notin {"config", "length", "superblock", "fat", "clusters", "open"}
  BY DEF Fail, Errors
<1> QED BY <1>1, <1>2 DEF IInv, Geometry, Unfitted, Placed, Measured, Tabled, Counted

\* The checks of the configuration.
LEMMA CheckConfigIInv == IInv /\ CheckConfig => IInv'
<1> SUFFICES ASSUME IInv, CheckConfig PROVE IInv'
  OBVIOUS
<1>1. CASE \E e \in Errors : Fail(e)
  BY <1>1, FailIInv
<1>2. CASE pc = "config" /\ pc' = "length" /\ UNCHANGED <<dev, offset, size, fields>>
  BY <1>2 DEF IInv, TypeOK, fields, Geometry, Unfitted, Placed, Measured, Tabled, Counted
<1> QED BY <1>1, <1>2 DEF CheckConfig, Errors

\* The partition ends with the file at the latest, and no later than asked for.
LEMMA CheckLengthIInv == IInv /\ CheckLength => IInv'
<1> SUFFICES ASSUME IInv, CheckLength PROVE IInv'
  OBVIOUS
<1>1. CASE Fail("InvalidPartitionOffset")
  BY <1>1, FailIInv DEF Errors
<1>2. CASE /\ TooLong => ~Beyond
           /\ size' = IF TooLong THEN Fitted ELSE size
           /\ pc' = "superblock" /\ pc = "length"
           /\ UNCHANGED <<dev, offset, fields>>
  <2>1. /\ offset \in Nat /\ size \in Nat /\ size < Sector * Marker32
        /\ dev.bytes \in Nat /\ ReportedLen \in Nat /\ ReportedLen <= dev.bytes
        /\ Sector * Marker32 \in Nat
    BY FieldTypes, Constants DEF IInv
  <2>2. size \in Sizes
    BY <1>2 DEF IInv, Geometry, Unfitted
  <2>3. CASE TooLong
    <3>1. offset < ReportedLen /\ ReportedLen < offset + size
      BY <1>2, <2>1, <2>3 DEF TooLong, Beyond
    <3>2. ReportedLen = dev.bytes
      BY <2>1, <3>1 DEF ReportedLen
    <3>3. size' = dev.bytes - offset
      BY <1>2, <2>3, <3>2 DEF Fitted
    <3>4. size' \in 0 .. (Sector * Marker32) - 1 /\ offset + size' = dev.bytes
      BY <2>1, <3>1, <3>2, <3>3
    <3> QED BY <1>2, <2>1, <3>4
        DEF IInv, TypeOK, fields, Geometry, Unfitted, Placed, Measured, Tabled, Counted
  <2>4. CASE ~TooLong
    <3>1. size' = size /\ offset + size <= dev.bytes
      BY <1>2, <2>1, <2>4 DEF TooLong
    <3> QED BY <1>2, <2>2, <3>1
        DEF IInv, TypeOK, fields, Geometry, Unfitted, Placed, Measured, Tabled, Counted
  <2> QED BY <2>3, <2>4
<1> QED BY <1>1, <1>2 DEF CheckLength

\* The number of entries is computed without losing bits.
LEMMA ReadSuperblockIInv == IInv /\ ReadSuperblock => IInv'
<1> SUFFICES ASSUME IInv, ReadSuperblock PROVE IInv'
  OBVIOUS
<1>1. CASE \E e \in Errors : Fail(e)
  BY <1>1, FailIInv
<1>2. CASE /\ pc = "superblock" /\ IsPowerOfTwo(dev.sectors)
           /\ bpc' = ClusterBytes /\ entries' = FatEntries
           /\ pc' = IF RootExists THEN "fat" ELSE "InvalidRootCluster"
           /\ UNCHANGED <<dev, offset, size, wide, fatBytes, clusters>>
  <2>1. dev.sectors \in Nat \ {0}
    BY <1>2 DEF IsPowerOfTwo
  <2>2. size \in Nat /\ size < Sector * Marker32
    BY FieldTypes DEF IInv
  <2>3. /\ ClusterBytes \in Nat \ {0} /\ size \div ClusterBytes \in Nat
        /\ size \div ClusterBytes < Marker32
    BY <2>1, <2>2, ClusterCount DEF ClusterBytes
  <2>4. FatEntries = size \div ClusterBytes
    <3> DEFINE n == size \div ClusterBytes
    <3> HIDE DEF n
    <3>1. n \in Nat /\ n < U32 /\ U32 \in Nat \ {0}
      BY <2>3, Constants DEF n
    <3>2. n % U32 = n
      BY <3>1
    <3> QED BY <3>2 DEF FatEntries, n
  <2>5. TypeOK'
    BY <1>2, <2>3, <2>4 DEF IInv, TypeOK, Errors
  <2>6. pc' = "fat" => dev'.root < entries'
    BY <1>2 DEF RootExists
  <2>7. Placed'
    BY <1>2 DEF IInv, Geometry, Placed
  <2>8. Measured'
    BY <1>2, <2>1, <2>4, <2>6 DEF Measured, ClusterBytes
  <2> QED BY <1>2, <2>5, <2>7, <2>8 DEF IInv, Geometry, Unfitted, Tabled, Counted
<1> QED BY <1>1, <1>2 DEF ReadSuperblock, Errors

\* The FAT of a partition fits in it: it was read, or its size was foreseen.
LEMMA ReadFatIInv == IInv /\ ReadFat => IInv'
<1> SUFFICES ASSUME IInv, ReadFat PROVE IInv'
  OBVIOUS
<1> DEFINE w == IF NeedsWide THEN 4 ELSE 2
<1>1. /\ pc = "fat" /\ wide' = NeedsWide
      /\ fatBytes' = PageMultiple(entries * w)
      /\ pc' = IF offset + Page + fatBytes' > dev.bytes THEN "Io" ELSE "clusters"
      /\ UNCHANGED <<dev, offset, size, bpc, entries, clusters>>
  BY DEF ReadFat
<1>2. /\ offset \in Nat /\ size \in Nat /\ size < Sector * Marker32 /\ dev.bytes \in Nat
  BY FieldTypes DEF IInv
<1>3. dev.sectors \in Nat \ {0} /\ entries = size \div ClusterBytes /\ bpc = ClusterBytes
  BY <1>1 DEF IInv, Geometry, Measured
<1>4. entries \in Nat /\ entries <= size \div Sector
  BY <1>2, <1>3, ClusterCount DEF ClusterBytes
<1>5. entries * w \in Nat /\ entries * w <= entries * 4
  BY <1>4
<1>6. fatBytes' \in Nat /\ Page \in Nat
  BY <1>1, <1>5, PageMultipleBounds, Constants
<1>7. TypeOK'
  <2>1. NeedsWide \in BOOLEAN
    BY DEF NeedsWide
  <2> HIDE DEF w
  <2> QED BY <1>1, <1>6, <2>1 DEF IInv, TypeOK, Errors
<1>8. ASSUME pc' = "clusters" PROVE Page + fatBytes' <= size
  <2>1. offset + Page + fatBytes' <= dev.bytes
    BY <1>1, <1>2, <1>6, <1>8
  <2>2. CASE offset + size = dev.bytes
    <3>1. offset \in Nat /\ size \in Nat /\ dev.bytes \in Nat
      BY <1>2
    <3>2. \A o, g, f, s, b \in Nat : o + g + f <= b /\ o + s = b => g + f <= s
      OBVIOUS
    <3> QED BY <1>6, <2>1, <2>2, <3>1, <3>2, Zenon
  <2>3. CASE size \in Sizes
    <3>1. Page + PageMultiple((size \div Sector) * 4) <= size
      BY <2>3, GeometryAssumption
    <3>2. size \div Sector \in Nat
      BY <1>2, Constants, DivMod
    <3>3. (size \div Sector) * 4 \in Nat /\ entries * w <= (size \div Sector) * 4
      BY <1>4, <1>5, <3>2
    <3>4. PageMultiple(entries * w) <= PageMultiple((size \div Sector) * 4)
      BY <1>5, <3>3, PageMultipleMonotone
    <3>5. PageMultiple((size \div Sector) * 4) \in Nat
      BY <3>3, PageMultipleBounds
    <3> QED BY <1>1, <1>2, <1>6, <3>1, <3>4, <3>5
  <2> QED BY <1>1, <2>2, <2>3 DEF IInv, Geometry, Placed
<1>9. Placed' /\ Measured'
  BY <1>1 DEF IInv, Geometry, Placed, Measured, ClusterBytes
<1>10. Tabled'
  BY <1>1, <1>8 DEF Tabled, NeedsWide
<1> QED BY <1>1, <1>7, <1>9, <1>10 DEF IInv, Geometry, Unfitted, Counted

\* What is left of the partition, and how many clusters that is.
LEMMA DataArea ==
  ASSUME IInv, pc \in {"clusters", "open"}
  PROVE  /\ bpc \in Nat \ {0} /\ DataBytes \in Nat /\ DataBytes <= size
         /\ DataBytes = size - (Page + fatBytes)
         /\ DataBytes \div bpc \in Nat
         /\ DataBytes \div bpc <= entries
         /\ DataBytes \div bpc < Marker32
         /\ entries \in Nat /\ size \in Nat /\ Page \in Nat /\ fatBytes \in Nat
         /\ entries = size \div bpc
<1>1. size \in Nat /\ size < Sector * Marker32 /\ fatBytes \in Nat /\ Page \in Nat
  BY FieldTypes, Constants DEF IInv, TypeOK
<1>2. /\ dev.sectors \in Nat \ {0} /\ bpc = ClusterBytes /\ entries = size \div bpc
      /\ Page + fatBytes <= size
  BY DEF IInv, Geometry, Measured, Tabled
<1>3. bpc \in Nat \ {0} /\ entries \in Nat /\ entries < Marker32 /\ Marker32 \in Nat
  BY <1>1, <1>2, ClusterCount, Constants DEF ClusterBytes
<1>4. DataBytes \in Nat /\ DataBytes <= size /\ DataBytes = size - (Page + fatBytes)
  BY <1>1, <1>2 DEF DataBytes
<1> HIDE DEF DataBytes
<1>5. DataBytes \div bpc <= entries
  BY <1>1, <1>2, <1>3, <1>4, DivMonotone
<1>6. DataBytes \div bpc \in Nat
  BY <1>3, <1>4, DivMod
<1> QED BY <1>1, <1>2, <1>3, <1>4, <1>5, <1>6

\* The clusters are counted without losing bits.
LEMMA CountClustersIInv == IInv /\ CountClusters => IInv'
<1> SUFFICES ASSUME IInv, CountClusters PROVE IInv'
  OBVIOUS
<1>1. /\ pc = "clusters" /\ pc' = "open"
      /\ clusters' = ((DataBytes \div bpc) + 1) % U32
      /\ UNCHANGED <<dev, offset, size, bpc, entries, wide, fatBytes>>
  BY DEF CountClusters
<1> DEFINE n == DataBytes \div bpc
<1>2. n \in Nat /\ n < Marker32 /\ Marker32 < U32 /\ Marker32 \in Nat /\ U32 \in Nat \ {0}
  BY <1>1, DataArea, Constants
<1>3. clusters' = n + 1
  <2> HIDE DEF n
  <2>1. n + 1 < U32 /\ n + 1 \in Nat
    BY <1>2
  <2>2. (n + 1) % U32 = n + 1
    BY <1>2, <2>1
  <2> QED BY <1>1, <2>2 DEF n
<1>4. TypeOK'
  <2>1. clusters' \in Nat
    BY <1>2, <1>3
  <2> QED BY <1>1, <2>1 DEF IInv, TypeOK
<1>5. Placed' /\ Measured' /\ Tabled'
  BY <1>1 DEF IInv, Geometry, Placed, Measured, Tabled, ClusterBytes,
     NeedsWide
<1>6. Counted'
  BY <1>1, <1>3 DEF Counted, DataBytes
<1> QED BY <1>1, <1>4, <1>5, <1>6 DEF IInv, Geometry, Unfitted

\* Every step keeps what has been established.
LEMMA NextIInv == IInv /\ [Next]_vars => IInv'
<1> SUFFICES ASSUME IInv, UNCHANGED vars PROVE IInv'
  BY CheckConfigIInv, CheckLengthIInv, ReadSuperblockIInv, ReadFatIInv, CountClustersIInv
     DEF Next
<1> QED BY DEF vars, IInv, TypeOK, Geometry, Unfitted, Placed, Measured, Tabled, Counted,
    ClusterBytes, NeedsWide, DataBytes

\* The invariant holds throughout.
LEMMA Invariant == Spec => []IInv
BY InitIInv, NextIInv, PTL DEF Spec

-----------------------------------------------------------------------------
\* open_device keeps its types, whatever it is given.
THEOREM TypeCorrect == Spec => []TypeOK
<1>1. IInv => TypeOK
  BY DEF IInv
<1> QED BY <1>1, Invariant, PTL

\* No volume opens whose data area's size would have wrapped, that reaches past
\* its device, or whose clusters are miscounted.
THEOREM DataAreaCorrect == Spec => []DataAreaFits
<1>1. IInv => DataAreaFits
  <2> SUFFICES ASSUME IInv, pc = "open"
               PROVE  /\ DataBytes >= 0 /\ offset + size <= dev.bytes /\ clusters >= 1
                      /\ (clusters - 1) * bpc <= DataBytes
                      /\ DataBytes < clusters * bpc
    BY DEF DataAreaFits
  <2>1. bpc \in Nat \ {0} /\ DataBytes \in Nat /\ DataBytes \div bpc \in Nat
    BY DataArea
  <2>2. offset + size <= dev.bytes /\ clusters = (DataBytes \div bpc) + 1
    BY DEF IInv, Geometry, Placed, Counted
  <2> DEFINE n == DataBytes \div bpc
  <2>3. DataBytes = (bpc * n) + (DataBytes % bpc) /\ DataBytes % bpc \in 0 .. bpc - 1
    BY <2>1, DivMod
  <2> HIDE DEF n
  <2>4. n \in Nat /\ clusters = n + 1
    BY <2>1, <2>2 DEF n
  <2>5. (clusters - 1) * bpc = bpc * n /\ clusters * bpc = (bpc * n) + bpc
    BY <2>1, <2>4
  <2>6. bpc * n \in Nat
    BY <2>1, <2>4
  <2> QED BY <2>1, <2>2, <2>3, <2>4, <2>5, <2>6
<1> QED BY <1>1, Invariant, PTL

\* The type that Fat::new chooses has a name for every cluster.
THEOREM NamesSuffice == Spec => []ClustersHaveNames
<1>1. IInv => ClustersHaveNames
  <2> SUFFICES ASSUME IInv, pc = "open" PROVE clusters - 1 < Marker
    BY DEF ClustersHaveNames
  <2>1. /\ DataBytes \div bpc \in Nat /\ DataBytes \div bpc <= entries
        /\ DataBytes \div bpc < Marker32 /\ entries \in Nat
    BY DataArea
  <2>2. clusters = (DataBytes \div bpc) + 1 /\ wide = NeedsWide
    BY DEF IInv, Geometry, Counted, Tabled
  <2>3. Marker16 \in Nat /\ Marker32 \in Nat
    BY Constants
  <2>4. CASE wide
    BY <2>1, <2>2, <2>3, <2>4 DEF Marker
  <2>5. CASE ~wide
    <3>1. ~(entries >= Marker16)
      BY <2>2, <2>5, Zenon DEF NeedsWide
    <3> QED BY <2>1, <2>2, <2>3, <2>5, <3>1 DEF Marker
  <2> QED BY <2>4, <2>5
<1> QED BY <1>1, Invariant, PTL

\* Every cluster a reader may reach has an entry, unless clusters outgrow the
\* superblock and the FAT.
THEOREM EntriesSuffice == Spec => []EntriesExist
<1>1. IInv => EntriesExist
  <2> SUFFICES ASSUME IInv, pc = "open"
               PROVE  dev.root < FatLen /\ (bpc <= Page + fatBytes => clusters - 1 < FatLen)
    BY DEF EntriesExist
  <2> DEFINE w == IF wide THEN 4 ELSE 2
  <2>1. /\ bpc \in Nat \ {0} /\ DataBytes \in Nat /\ entries \in Nat /\ size \in Nat
        /\ Page \in Nat /\ fatBytes \in Nat /\ DataBytes = size - (Page + fatBytes)
        /\ DataBytes \div bpc \in Nat /\ entries = size \div bpc
    BY DataArea
  <2>2. /\ fatBytes = PageMultiple(entries * w) /\ bpc = ClusterBytes
        /\ clusters = (DataBytes \div bpc) + 1
    BY DEF IInv, Geometry, Counted, Tabled, Measured
  <2>3. dev.root < entries /\ dev.root \in Nat
    BY FieldTypes DEF IInv, Geometry, Measured
  <2>4. entries <= FatLen /\ FatLen \in Nat
    <3>1. entries * w \in Nat /\ w \in Nat \ {0}
      BY <2>1
    <3>2. w * entries <= fatBytes
      BY <2>1, <2>2, <3>1, PageMultipleBounds
    <3>3. FatLen = fatBytes \div w
      BY DEF FatLen
    <3> HIDE DEF w
    <3>4. fatBytes \div w \in Nat
      BY <2>1, <3>1, DivMod
    <3> QED BY <2>1, <3>1, <3>2, <3>3, <3>4, QuotientAtLeast
  <2>5. ASSUME bpc <= Page + fatBytes PROVE (DataBytes \div bpc) < entries
    <3> DEFINE n == DataBytes \div bpc
    <3>1. n \in Nat /\ bpc * n <= DataBytes
      BY <2>1, DivMod
    <3> HIDE DEF n
    <3>2. bpc * (n + 1) <= size
      <4>1. bpc * (n + 1) = (bpc * n) + bpc /\ bpc * n \in Nat
        BY <2>1, <3>1
      <4> QED BY <2>1, <2>5, <3>1, <4>1
    <3>3. n + 1 <= size \div bpc
      BY <2>1, <3>1, <3>2, QuotientAtLeast
    <3> QED BY <2>1, <3>1, <3>3 DEF n
  <2>6. dev.root < FatLen
    BY <2>1, <2>3, <2>4
  <2>7. bpc <= Page + fatBytes => clusters - 1 < FatLen
    <3> DEFINE n == DataBytes \div bpc
    <3>1. n \in Nat /\ clusters = n + 1
      BY <2>1, <2>2
    <3>2. bpc <= Page + fatBytes => n < entries
      BY <2>5
    <3> HIDE DEF n, w
    <3>3. clusters - 1 = n
      BY <3>1
    <3>4. n < entries => n < FatLen
      BY <2>1, <2>4, <3>1
    <3> QED BY <3>2, <3>3, <3>4
  <2> QED BY <2>6, <2>7
<1> QED BY <1>1, Invariant, PTL
=============================================================================
