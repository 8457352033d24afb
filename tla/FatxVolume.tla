----------------------------- MODULE FatxVolume -----------------------------
(***************************************************************************)
(* An opened FATX volume, as its readers use it: the in-memory file        *)
(* allocation table of src/fatx/fat.rs and the map from cluster numbers to *)
(* device addresses of src/fatx/fs.rs.                                     *)
(*                                                                         *)
(* Addresses are counted from the first byte of the data area (the field   *)
(* cluster_offset_bytes), and a byte of the device IS its address: what a  *)
(* read returns is the sequence of the addresses it was served from.       *)
(***************************************************************************)
EXTENDS Integers

CONSTANTS
  BytesPerCluster,  \* num_bytes_per_cluster
  NumClusters,      \* num_clusters: whole clusters of the data area, plus one
                    \* for the reserved FAT entry
  FatLen,           \* entries in fat_data (its size is rounded up to a page)
  ReservedMarker,   \* 0xfff0 or 0xfffffff0: the least value that is no cluster
  DataBytes,        \* bytes of the partition from cluster_offset_bytes on
  DeviceBytes,      \* bytes of the device from cluster_offset_bytes on
  U32               \* 2^32, the width of cluster numbers and file positions

ASSUME VolumeAssumption ==
  /\ BytesPerCluster \in Nat \ {0}
  /\ FatLen \in Nat \ {0}
  /\ ReservedMarker \in Nat
  /\ NumClusters \in 1 .. ReservedMarker
  /\ DataBytes \in (NumClusters - 1) * BytesPerCluster ..
                   NumClusters * BytesPerCluster - 1
  /\ DeviceBytes \in Nat /\ DeviceBytes >= DataBytes
  /\ U32 \in Nat \ {0}

\* A raw table entry, up to the end-of-chain marker (all ones).
RawEntry == 0 .. ReservedMarker + 15

\* FatEntry::Data.  The other variants (Available, Reserved, Bad, Media, End,
\* Invalid) are not told apart: both users of the table match them with `_`.
IsData(entry) == entry \in 1 .. ReservedMarker - 1

\* Fat::entry indexes a slice: an index past the table panics.
EntryPanics(cluster) == cluster >= FatLen

\* The check of cluster_to_byte_offset.
ClusterAccepted(cluster) == cluster < NumClusters + 1

\* cluster_to_byte_offset; the subtraction is done on 32 bits and wraps in the
\* release build, the one the README and build_appimage.sh describe.
ClusterOffset(cluster) == ((cluster - 1) % U32) * BytesPerCluster

\* The clusters that lie wholly inside the partition.
DataCluster == 1 .. NumClusters - 1
=============================================================================
