------------------------------ MODULE FatxDir -------------------------------
(***************************************************************************)
(* Finding and listing entries (src/fatx/dir.rs): a DirectoryEntryIterator *)
(* walks the slots of a directory along its cluster chain; from_path scans *)
(* one directory after the other for the components of a path, and the     *)
(* iterator of read_dir is drained by `for dirent in dir_iter.flatten()`   *)
(* (src/fatx_runner.rs), which passes over its errors.  The volume's mutex *)
(* is held for all of from_path and for each next of a listing; nothing    *)
(* but the device position, set before each read, is shared with others.   *)
(***************************************************************************)
EXTENDS FatxVolume, FatxPath, DirAnswers

CONSTANTS
  EntryBytes,  \* size_of::<DirectoryEntry>, 64
  Names,       \* file names
  TooLong,     \* stands for a filename_len over FATX_MAX_FILENAME_LEN
  Volumes,     \* volumes considered, see IsVolume
  Requests,    \* calls considered: [op, path]
  MaxListed    \* bound: entries of a listing, which a chain without end never stops

\* num_entries_per_cluster
EntriesPerCluster == BytesPerCluster \div EntryBytes

\* The kind of a slot: "deleted" and "end" from DirectoryEntryKind, the others
\* are Valid and split by is_volume, is_directory and is_file.
Slot ==
  [name : Names \cup {TooLong}, first : 0 .. U32 - 1,
   kind : {"file", "dir", "volume", "deleted", "end"}]
IsValid(slot) == slot.kind \in {"file", "dir", "volume"}

\* chains[d]: the clusters written for the directory that begins with d.  bad:
\* the slots, by cluster and entry, that the device sometimes fails to read.
IsVolume(v) ==
  /\ v.fat \in [0 .. FatLen - 1 -> RawEntry]
  /\ v.slots \in [1 .. NumClusters -> [0 .. EntriesPerCluster - 1 -> Slot]]
  /\ v.bad \subseteq (1 .. NumClusters) \X (0 .. EntriesPerCluster - 1)
  /\ v.root \in 0 .. U32 - 1
  /\ \A d \in DOMAIN v.chains : v.chains[d] \in Seq(DataCluster)

ASSUME DirectoryAssumption ==
  /\ EntryBytes \in 1 .. BytesPerCluster
  /\ BytesPerCluster % EntryBytes = 0
  /\ MaxListed \in Nat
  \* Reads through cluster number 0 start past the end of the device.
  /\ DeviceBytes <= (U32 - 1) * BytesPerCluster
  /\ ReservedMarker <= U32
  /\ Root # Up /\ Root # Here /\ Up # Here /\ {Root, Up, Here} \cap Names = {}
  /\ TooLong \notin Names \cup {Root, Up, Here}
  /\ \A v \in Volumes : IsVolume(v)
  /\ \A q \in Requests : q.op \in {"stat", "open", "list"} /\ IsPath(q.path, Names)

VARIABLES
  vol,      \* the volume; never changes
  request,  \* the call in progress, or the last one
  path,     \* its normalized path
  depth,    \* the component of path being looked up
  pc,       \* "idle", "fetch" an item, "use" it, or "panicked"
  listing,  \* the item is for a listing, not for from_path
  it,       \* the DirectoryEntryIterator
  item,     \* what its next returned
  out,      \* entries listed so far
  reply     \* outcome of the call

locals == <<path, depth, listing, it, item, out>>
vars == <<vol, request, path, depth, pc, listing, it, item, out, reply>>

NoReply == [kind |-> "none"]
NoItem == [kind |-> "none"]

\* DirectoryEntryIterator::new
NewIterator(cluster) == [cluster |-> cluster, entry |-> -1, finished |-> FALSE]

Init ==
  /\ vol \in Volumes /\ request \in Requests
  /\ pc = "asked" /\ reply = NoReply
  /\ path = <<Root>> /\ depth = 1 /\ listing = FALSE
  /\ it = NewIterator(0) /\ item = NoItem /\ out = <<>>

Ask ==
  /\ pc = "idle"
  /\ request' \in Requests
  /\ pc' = "asked" /\ reply' = NoReply
  /\ UNCHANGED <<vol, locals>>

\* The locals of from_path and of the listing are dropped.
Return(outcome) ==
  /\ pc' = "idle" /\ reply' = outcome
  /\ path' = <<Root>> /\ depth' = 1 /\ listing' = FALSE
  /\ it' = NewIterator(0) /\ item' = NoItem /\ out' = <<>>

-----------------------------------------------------------------------------
(* stat, open and read_dir of FatxFs, given what from_path has found. *)

StartListing(first) ==
  /\ listing' = TRUE /\ it' = NewIterator(first) /\ out' = <<>>
  /\ path' = <<Root>> /\ depth' = 1 /\ item' = NoItem
  /\ pc' = "fetch" /\ UNCHANGED reply

Resolved(slot) ==
  \/ request.op = "stat" /\ Return(Found(slot))
  \/ /\ request.op = "open"
     /\ Return(IF slot.kind = "file" THEN Found(slot) ELSE Error("IsADirectory"))
  \/ /\ request.op = "list" /\ slot.kind # "dir"
     /\ Return(Error("NotADirectory"))
  \/ /\ request.op = "list" /\ slot.kind = "dir"
     /\ StartListing(slot.first)

\* from_path up to its first scan.  Its other ends, for a path without
\* components or with an unexpected one, do not happen once it is normalized.
Begin ==
  LET normal == Normalize(request.path)
  IN /\ pc = "asked"
     /\ \/ normal[1] # Root /\ Return(Error("NotFound"))
        \/ normal = <<Root>> /\ Resolved(RootEntry(vol))
        \/ /\ normal[1] = Root /\ Len(normal) > 1
           /\ path' = normal /\ depth' = 2
           /\ it' = NewIterator(vol.root)
           /\ pc' = "fetch"
           /\ UNCHANGED <<listing, item, out, reply>>
     /\ UNCHANGED <<vol, request>>

-----------------------------------------------------------------------------
(* DirectoryEntryIterator::next *)

\* The next slot is the first of the next cluster of the chain.
Crosses == it.entry + 1 >= EntriesPerCluster

\* Mutant: the entry is set before it is counted, and the first slot left out.
PlaceAfterFirst ==
  [cluster |-> IF Crosses THEN vol.fat[it.cluster] ELSE it.cluster,
   entry   |-> IF Crosses THEN 1 ELSE it.entry + 1]

Place ==
  [cluster |-> IF Crosses THEN vol.fat[it.cluster] ELSE it.cluster,
   entry   |-> IF Crosses THEN 0 ELSE it.entry + 1]

\* read_exact gets to the end of the slot at place p.
Readable(p) == ClusterOffset(p.cluster) + (p.entry + 1) * EntryBytes <= DeviceBytes

Yield(place, finished, what) ==
  /\ it' = [cluster |-> place.cluster, entry |-> place.entry, finished |-> finished]
  /\ item' = what
  /\ pc' = "use"

FetchFinished ==
  /\ it.finished
  /\ item' = NoItem /\ pc' = "use" /\ UNCHANGED it

FetchPanics ==
  /\ ~it.finished /\ Crosses /\ EntryPanics(it.cluster)
  /\ pc' = "panicked" /\ UNCHANGED <<it, item>>

\* Mutant: the end of the chain is reported, the iteration goes on.
FetchChainEndsAgain ==
  /\ ~it.finished /\ Crosses /\ ~EntryPanics(it.cluster)
  /\ ~IsData(vol.fat[it.cluster])
  /\ Yield([it EXCEPT !.entry = @ + 1], FALSE, Error("InvalidClusterChain"))

FetchChainEnds ==
  /\ ~it.finished /\ Crosses /\ ~EntryPanics(it.cluster)
  /\ ~IsData(vol.fat[it.cluster])
  /\ Yield([it EXCEPT !.entry = @ + 1], TRUE, Error("InvalidClusterChain"))

HasPlace == Crosses => ~EntryPanics(it.cluster) /\ IsData(vol.fat[it.cluster])

\* Mutant: the iterator stays where it was.
FetchRefusedInPlace ==
  /\ ~it.finished /\ HasPlace
  /\ ~ClusterAccepted(Place.cluster)
  /\ Yield(it, FALSE, Error("InvalidClusterNumber"))

\* The one error after which the iterator is not finished.
FetchRefused ==
  /\ ~it.finished /\ HasPlace
  /\ ~ClusterAccepted(Place.cluster)
  /\ Yield(Place, FALSE, Error("InvalidClusterNumber"))

\* read_struct fails: the slot is past the device's end, or the device fails.
FetchUnreadable ==
  /\ ~it.finished /\ HasPlace
  /\ ClusterAccepted(Place.cluster)
  /\ ~Readable(Place) \/ <<Place.cluster, Place.entry>> \in vol.bad
  /\ Yield(Place, TRUE, Error("Io"))

\* Mutant: the end marker does not end the iteration.
FetchSlotPastEnd ==
  /\ ~it.finished /\ HasPlace
  /\ ClusterAccepted(Place.cluster) /\ Readable(Place)
  /\ Yield(Place, FALSE, Found(vol.slots[Place.cluster][Place.entry]))

FetchSlot ==
  LET slot == vol.slots[Place.cluster][Place.entry]
  IN /\ ~it.finished /\ HasPlace
     /\ ClusterAccepted(Place.cluster) /\ Readable(Place)
     /\ Yield(Place, slot.kind = "end", Found(slot))

Fetch ==
  /\ pc = "fetch"
  /\ \/ FetchFinished \/ FetchPanics \/ FetchChainEnds
     \/ FetchRefused \/ FetchUnreadable \/ FetchSlot
  /\ UNCHANGED <<vol, request, path, depth, listing, out, reply>>

-----------------------------------------------------------------------------
(* The loop of from_path. *)

\* file_name slices the 42 bytes of the name.
NamePanics == IsValid(item.entry) /\ item.entry.name = TooLong

Matches == IsValid(item.entry) /\ item.entry.name = path[depth]

Panic == pc' = "panicked" /\ UNCHANGED <<locals, reply>>
FetchNext == pc' = "fetch" /\ UNCHANGED <<locals, reply>>

\* A component other than the last must be a directory.
Descend ==
  \/ /\ item.entry.kind = "dir"
     /\ it' = NewIterator(item.entry.first)
     /\ depth' = depth + 1
     /\ pc' = "fetch" /\ UNCHANGED <<path, listing, item, out, reply>>
  \/ item.entry.kind # "dir" /\ Return(Error("NotADirectory"))

UseInPath ==
  /\ pc = "use" /\ ~listing
  /\ \/ item = NoItem /\ Return(Error("NotFound"))
     \/ item.kind = "error" /\ Return(item)
     \/ /\ item.kind = "entry"
        /\ \/ NamePanics /\ Panic
           \/ ~NamePanics /\ ~Matches /\ FetchNext
           \/ Matches /\ depth = Len(path) /\ Resolved(item.entry)
           \/ Matches /\ depth < Len(path) /\ Descend
  /\ UNCHANGED <<vol, request>>

-----------------------------------------------------------------------------
(* `for dirent in dir_iter.flatten()`: entries of other kinds are skipped by *)
(* the iterator, errors by flatten, volume labels by the loop's body.        *)

Shows == item.kind = "entry" /\ item.entry.kind \in {"file", "dir"}

UseInListing ==
  /\ pc = "use" /\ listing
  /\ \/ item = NoItem /\ Return(Listed(out))
     \/ Shows /\ NamePanics /\ Panic
     \/ /\ Shows /\ ~NamePanics /\ Len(out) < MaxListed
        /\ out' = Append(out, item.entry)
        /\ pc' = "fetch" /\ UNCHANGED <<path, depth, listing, it, item, reply>>
     \/ item # NoItem /\ ~Shows /\ FetchNext
  /\ UNCHANGED <<vol, request>>

Scan == Begin \/ Fetch \/ UseInPath \/ UseInListing

Next == Ask \/ Scan

Spec == Init /\ [][Next]_vars

\* A call in progress keeps running.
FairSpec == Spec /\ WF_vars(Scan)

-----------------------------------------------------------------------------
(* Properties. *)

Item ==
  {NoItem} \cup {Found(slot) : slot \in Slot}
  \cup {Error(e) : e \in {"InvalidClusterChain", "InvalidClusterNumber", "Io"}}

TypeOK ==
  /\ vol \in Volumes /\ request \in Requests
  /\ \A i \in DOMAIN path : path[i] \in Names \cup {Root}
  /\ depth \in Nat
  /\ pc \in {"idle", "asked", "fetch", "use", "panicked"}
  /\ listing \in BOOLEAN
  /\ it.cluster \in 0 .. U32 - 1 /\ it.entry \in -1 .. EntriesPerCluster
  /\ it.finished \in BOOLEAN
  /\ item \in Item
  /\ \A i \in DOMAIN out : out[i] \in Slot
  /\ reply # NoReply <=> pc = "idle"

\* The slots of directory d, whole clusters of them, in order.
SlotsOf(v, d) ==
  [i \in 1 .. Len(v.chains[d]) * EntriesPerCluster |->
    LET cluster == v.chains[d][(i - 1) \div EntriesPerCluster + 1]
    IN v.slots[cluster][(i - 1) % EntriesPerCluster]]

IsEnded(v, d) == \E i \in DOMAIN SlotsOf(v, d) : SlotsOf(v, d)[i].kind = "end"

\* Its entries: the valid slots that no end marker precedes.
EntriesOf(v, d) ==
  LET slots == SlotsOf(v, d)
      ends == {i \in DOMAIN slots : slots[i].kind = "end"}
      before == {i \in DOMAIN slots : \A j \in ends : i < j}
  IN Only(SubSeq(slots, 1, Cardinality(before)), {slot \in Slot : IsValid(slot)})

\* The device does not fail; every directory of the volume is a chain of the FAT,
\* which runs to its end marker or ends with it, and leads only to directories and
\* to readable names.
WellFormed(v) ==
  /\ v.bad = {}
  /\ v.root \in DOMAIN v.chains
  /\ \A d \in DOMAIN v.chains :
       LET chain == v.chains[d]
       IN /\ chain # <<>> /\ chain[1] = d
          /\ \A i \in 1 .. Len(chain) - 1 : v.fat[chain[i]] = chain[i + 1]
          /\ IsEnded(v, d) \/ ~IsData(v.fat[Last(chain)])
          /\ \A i \in DOMAIN EntriesOf(v, d) :
               LET slot == EntriesOf(v, d)[i]
               IN /\ slot.name # TooLong
                  /\ slot.kind = "dir" => slot.first \in DOMAIN v.chains

\* Nothing can be read through the cluster number, and its link does not lead on.
LeadsNowhere(v, cluster) ==
  /\ \A entry \in 0 .. EntriesPerCluster - 1 :
       ~(ClusterAccepted(cluster) /\ Readable([cluster |-> cluster, entry |-> entry]))
  /\ ~EntryPanics(cluster) => ~IsData(v.fat[cluster])

CutsOff(v, link) == ~IsData(link) \/ LeadsNowhere(v, link)

\* The chain comes back to itself, with nothing to stop a call that walks it.
GoesRound(v, d) ==
  /\ ~IsEnded(v, d)
  /\ \A i \in DOMAIN v.chains[d], n \in 0 .. EntriesPerCluster - 1 :
       <<v.chains[d][i], n>> \notin v.bad
  /\ \A i \in DOMAIN v.chains[d] : v.fat[v.chains[d][i]] \in ToSet(v.chains[d])

\* The chain of directory d may be cut off anywhere, and come back to itself, but
\* never leads to clusters that were not written for the directory.
ChainHolds(v, d) ==
  LET chain == v.chains[d]
  IN \/ chain = <<>> /\ LeadsNowhere(v, d)
     \/ /\ chain # <<>> /\ chain[1] = d
        /\ \A i \in 1 .. Len(chain) - 1 :
             v.fat[chain[i]] = chain[i + 1] \/ CutsOff(v, v.fat[chain[i]])
        /\ IsEnded(v, d) \/ CutsOff(v, v.fat[Last(chain)]) \/ GoesRound(v, d)

\* No directory of the volume strays into clusters of something else.
Unstraying(v) ==
  /\ v.root \in DOMAIN v.chains
  /\ \A d \in DOMAIN v.chains :
       /\ ChainHolds(v, d)
       /\ \A i \in DOMAIN EntriesOf(v, d) :
            EntriesOf(v, d)[i].kind = "dir" => EntriesOf(v, d)[i].first \in DOMAIN v.chains

\* The trees that the clusters of the volumes stand for.
TreeOf ==
  [v \in Volumes |->
    [root |-> v.root, damaged |-> ~WellFormed(v),
     dirs |-> [d \in DOMAIN v.chains |->
                [entries |-> EntriesOf(v, d), ended |-> IsEnded(v, d)]]]]

Abstract == INSTANCE DirTree WITH tree <- TreeOf[vol]

\* Calls are answered as the tree of entries says: a path leads to the entry it
\* names, through directories of any number of clusters, and a listing has every
\* file and directory once, in the order of their slots.  Where chains break,
\* calls may fail, but no answer is untrue.
ImplementsDirTree == Abstract!Spec

\* normalize_virtual_path keeps the names that no ".." takes away, in order,
\* behind the root if the path has one or if nothing else is left of it.
NormalizedPath ==
  LET asked == request.path
      front == IF IsAbsolute(asked) \/ Staying(asked) = <<>>
                 THEN <<Root>> ELSE <<>>
  IN Normalize(asked) = front \o Staying(asked)

\* The cluster is one of some that links do not leave and no end marker is in.
RunsRound(v, cluster) ==
  \E S \in SUBSET DataCluster :
    /\ cluster \in S
    /\ \A c \in S : v.fat[c] \in S /\ \A n \in DOMAIN v.slots[c] : v.slots[c][n].kind # "end"

\* Every call is answered, unless the volume is damaged and the call panics, or
\* gets to clusters that come back to themselves and hold no end marker.
ScanEnds ==
  pc # "idle" ~>
    \/ pc = "idle"
    \/ pc = "panicked" /\ ~WellFormed(vol)
    \/ pc \in {"fetch", "use"} /\ RunsRound(vol, it.cluster)

\* A lookup of what is there comes to an end on every volume: it does not walk
\* round past its entry, even where a lookup of what is missing never ends.
PresentIsAnswered ==
  pc = "asked" /\ request.op # "list" /\ Resolve(TreeOf[vol], request.path).kind = "entry"
    ~> pc \in {"idle", "panicked"}
=============================================================================
