---------------------------- MODULE FatxGeometry ----------------------------
(***************************************************************************)
(* FatxFs::open_device (src/fatx/fs.rs) and Fat::new (src/fatx/fat.rs):    *)
(* how the size of an image and its superblock become the numbers that     *)
(* FatxVolume takes as given.  The checks and the reads of the device come *)
(* in the order of the code, since each relies on the ones before it.      *)
(***************************************************************************)
EXTENDS Integers

CONSTANTS
  Sector,       \* num_bytes_per_sector, 512
  Page,         \* FATX_FAT_OFFSET_BYTES, the superblock's size and the unit a
                \* FAT is rounded up to: 4096
  MaxSectors,   \* 1024
  Marker16,     \* 0xfff0: FAT16's least value that is no cluster
  U32,          \* 2^32
  Offsets,      \* partition offsets asked for
  Sizes,        \* partition sizes asked for
  Devices       \* devices that may be opened

\* FAT32's least value that is no cluster, 0xfffffff0.
Marker32 == U32 - 16

\* A device: an image file or a block device; its length in bytes; whether it
\* has the signature, and the two fields of the superblock that are used.
Device ==
  [kind : {"image", "block"}, bytes : Nat, signed : BOOLEAN,
   sectors : 0 .. U32 - 1, root : 0 .. U32 - 1]

\* u64::next_multiple_of(4096)
PageMultiple(n) == ((n + (Page - 1)) \div Page) * Page

ASSUME GeometryAssumption ==
  /\ Sector \in Nat \ {0} /\ Page \in Nat \ {0} /\ Page % 4 = 0
  /\ MaxSectors \in Nat \ {0} /\ Marker16 \in Nat \ {0}
  /\ U32 \in Nat /\ U32 >= 16
  /\ Offsets \subseteq Nat
  \* The callers ask for 2_000_000_000_000 bytes: few enough for 32 bits to
  \* count their sectors, enough to hold the table that counts them.
  /\ \A s \in Sizes : /\ s \in 0 .. (Sector * Marker32) - 1
                      /\ Page + PageMultiple((s \div Sector) * 4) <= s
  /\ Devices \subseteq Device

VARIABLES
  dev,       \* the device
  offset,    \* config.partition_offset_bytes
  size,      \* partition size: as asked for, then actual_partition_size
  pc,        \* the next check, or how open_device ended
  bpc,       \* num_bytes_per_cluster
  entries,   \* num_fat_entries
  wide,      \* FatType::Type32
  fatBytes,  \* fat_size_bytes
  clusters   \* num_clusters

vars == <<dev, offset, size, pc, bpc, entries, wide, fatBytes, clusters>>
fields == <<bpc, entries, wide, fatBytes, clusters>>

\* u64::is_power_of_two, up to the largest cluster that is accepted.
IsPowerOfTwo(n) == n \in {1, 2, 4, 8, 16, 32, 64, 128, 256, 512, 1024}

\* metadata().len(): a block special file has no length of its own.
ReportedLen == IF dev.kind = "block" THEN 0 ELSE dev.bytes

FatLen == fatBytes \div (IF wide THEN 4 ELSE 2)
Marker == IF wide THEN Marker32 ELSE Marker16

\* Bytes of the partition from cluster_offset_bytes on.
DataBytes == size - fatBytes - Page

Init ==
  /\ dev \in Devices /\ offset \in Offsets /\ size \in Sizes
  /\ pc = "config"
  /\ bpc = 0 /\ entries = 0 /\ wide = FALSE /\ fatBytes = 0 /\ clusters = 0

Fail(error) == pc' = error /\ UNCHANGED <<dev, offset, size, fields>>

CheckConfig ==
  /\ pc = "config"
  /\ \/ offset % Sector # 0 /\ Fail("InvalidPartitionOffset")
     \/ offset % Sector = 0 /\ size % Sector # 0 /\ Fail("InvalidPartitionSize")
     \/ /\ offset % Sector = 0 /\ size % Sector = 0
        /\ pc' = "length"
        /\ UNCHANGED <<dev, offset, size, fields>>

\* The partition would end after the file does; it would begin there.
TooLong == offset + size > ReportedLen
Beyond == ReportedLen <= offset

\* Mutant: the size is the file's, as if the partition began with it.
FittedFromStart == ReportedLen
\* What is left of the file after the partition's offset.
Fitted == ReportedLen - offset

\* Mutant: any offset is accepted.
CheckLengthOffsetUnchecked ==
  /\ pc = "length"
  /\ size' = IF TooLong THEN Fitted ELSE size
  /\ pc' = "superblock"
  /\ UNCHANGED <<dev, offset, fields>>

\* "Auto-detect size": a partition that does not fit ends with the file.
CheckLength ==
  /\ pc = "length"
  /\ \/ TooLong /\ Beyond /\ Fail("InvalidPartitionOffset")
     \/ /\ TooLong => ~Beyond
        /\ size' = IF TooLong THEN Fitted ELSE size
        /\ pc' = "superblock"
        /\ UNCHANGED <<dev, offset, fields>>

ClusterBytes == dev.sectors * Sector
FatEntries == (size \div ClusterBytes) % U32

\* Mutant: the root cluster may be one past the last entry.
RootExistsOrNext == dev.root <= FatEntries
RootExists == dev.root < FatEntries

\* The superblock is read, checked, and its fields turned into the geometry.
ReadSuperblock ==
  LET sectorsOK == IsPowerOfTwo(dev.sectors) /\ dev.sectors <= MaxSectors
  IN /\ pc = "superblock"
     /\ \/ offset + Page > dev.bytes /\ Fail("Io")
        \/ /\ offset + Page <= dev.bytes
           /\ \/ ~dev.signed /\ Fail("InvalidFilesystemSignature")
              \/ dev.signed /\ ~sectorsOK /\ Fail("InvalidSectorsPerCluster")
              \/ /\ dev.signed /\ sectorsOK
                 /\ bpc' = ClusterBytes
                 /\ entries' = FatEntries
                 /\ pc' = IF RootExists THEN "fat" ELSE "InvalidRootCluster"
                 /\ UNCHANGED <<dev, offset, size, wide, fatBytes, clusters>>

\* Mutant: FAT16 for three entries too many.
NeedsWideLate == entries > Marker16 + 2
NeedsWide == entries >= Marker16

\* Fat::new and the read_exact of the whole table.
ReadFat ==
  /\ pc = "fat"
  /\ wide' = NeedsWide
  /\ fatBytes' = PageMultiple(entries * (IF wide' THEN 4 ELSE 2))
  /\ pc' = IF offset + Page + fatBytes' > dev.bytes THEN "Io" ELSE "clusters"
  /\ UNCHANGED <<dev, offset, size, bpc, entries, clusters>>

CountClusters ==
  /\ pc = "clusters"
  /\ clusters' = (DataBytes \div bpc + 1) % U32
  /\ pc' = "open"
  /\ UNCHANGED <<dev, offset, size, bpc, entries, wide, fatBytes>>

Next == CheckConfig \/ CheckLength \/ ReadSuperblock \/ ReadFat \/ CountClusters

Spec == Init /\ [][Next]_vars

-----------------------------------------------------------------------------
(* Properties. *)

Errors ==
  {"InvalidPartitionOffset", "InvalidPartitionSize", "InvalidFilesystemSignature",
   "InvalidSectorsPerCluster", "InvalidRootCluster", "Io"}

TypeOK ==
  /\ dev \in Devices /\ offset \in Offsets
  /\ size \in 0 .. (Sector * Marker32) - 1
  /\ pc \in {"config", "length", "superblock", "fat", "clusters", "open"} \cup Errors
  /\ bpc \in Nat /\ entries \in Nat /\ wide \in BOOLEAN
  /\ fatBytes \in Nat /\ clusters \in Nat

\* The data area of an opened volume is what its superblock and FAT leave of
\* the partition: that subtraction of u64 does not wrap, the partition lies in
\* the device, and num_clusters counts the whole clusters, plus one.
DataAreaFits ==
  pc = "open" =>
    /\ DataBytes >= 0
    /\ offset + size <= dev.bytes
    /\ clusters >= 1
    /\ (clusters - 1) * bpc <= DataBytes
    /\ DataBytes < clusters * bpc

\* "This *MUST* be kept below the Cluster Reserved marker": the FAT can name
\* every whole cluster of an opened volume, and no cluster's number reads as one
\* of the reserved values.
ClustersHaveNames == pc = "open" => clusters - 1 < Marker

\* The root directory of an opened volume has an entry in the FAT, and so has
\* every cluster, unless clusters are larger than the superblock and the FAT
\* together.
EntriesExist ==
  pc = "open" =>
    /\ dev.root < FatLen
    /\ bpc <= Page + fatBytes => clusters - 1 < FatLen

\* "Mount FATX raw dump images or block storage devices directly": a device
\* that would open as an image opens as a block device too.
BlockDevicesOpen ==
  pc \in Errors /\ dev.kind = "block" =>
    \/ offset % Sector # 0 \/ size % Sector # 0
    \/ offset + Page > dev.bytes \/ ~dev.signed
    \/ ~IsPowerOfTwo(dev.sectors) \/ dev.sectors > MaxSectors
=============================================================================
