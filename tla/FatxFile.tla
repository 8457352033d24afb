------------------------------ MODULE FatxFile ------------------------------
(***************************************************************************)
(* Reading files of a FATX volume (src/fatx/file.rs).  A handle keeps a    *)
(* byte position and a cached place in the cluster chain; a read maps the  *)
(* position to a cluster, following the FAT from the cached place (or from *)
(* the first cluster when the position is behind it), then seeks and reads *)
(* the one device file that all handles share.  The whole read runs under  *)
(* the volume's mutex; the steps below are the points where it can stop.   *)
(***************************************************************************)
EXTENDS FatxVolume, Sequences

Free == "free"
Poisoned == "poisoned"

CONSTANTS
  Handles,         \* open File values
  Volumes,         \* the volumes considered, see IsVolume
  SeekTargets,     \* arguments of SeekFrom::Start
  SeekDeltas,      \* arguments of SeekFrom::Current and SeekFrom::End
  ReadSizes,       \* buffer lengths handed to read
  MaySeekPastEof,  \* do callers seek past the end?  (none in src/ does)
  MayReuseCorrupt  \* do they keep a handle whose chain proved broken?  (nor this)

ASSUME CallerAssumption ==
  /\ {Free, Poisoned} \cap Handles = {}
  /\ SeekTargets \subseteq Nat /\ SeekDeltas \subseteq Int
  /\ ReadSizes \subseteq Nat
  /\ MaySeekPastEof \in BOOLEAN /\ MayReuseCorrupt \in BOOLEAN

VARIABLES
  vol,      \* the volume; never changes
  seekPos,  \* File.seek_pos
  curRel,   \* File.cur_cluster_relative
  curAbs,   \* File.cur_cluster_absolute
  pc,       \* where the call in progress on the handle stands
  want,     \* length of the caller's buffer
  buf,      \* the part of the buffer filled so far
  hops,     \* links of the cluster chain still to follow
  lock,     \* holder of Mutex<FatxFs>, or Free, or Poisoned
  devPos,   \* position of the shared device_handle
  reply     \* what the last call on the handle returned

vars == <<vol, seekPos, curRel, curAbs, pc, want, buf, hops, lock, devPos, reply>>
handleVars == <<vol, seekPos, curRel, curAbs>>

\* err: the device failed.  corrupt: the chain is broken.
Reply == [kind : {"none", "ok", "err", "corrupt"}, want : Nat, data : Seq(Nat)]
NoReply == [kind |-> "none", want |-> 0, data |-> <<>>]

Size(h) == vol.dirent[h].size
First(h) == vol.dirent[h].first

\* A volume: its FAT, the directory entry of the file each handle is open on,
\* and the clusters that file was written to, which the other two encode.
IsVolume(v) ==
  /\ v.fat \in [0 .. FatLen - 1 -> RawEntry]
  /\ v.dirent \in [Handles -> [first : 0 .. U32 - 1, size : 0 .. U32 - 1]]
  /\ \A h \in Handles :
       \E n \in 0 .. U32 : v.chain[h] \in [0 .. n - 1 -> DataCluster]

ASSUME VolumesAssumption == \A v \in Volumes : IsVolume(v)

\* The FAT and the directory entry encode a chain that covers the file.
WellFormed(v) ==
  \A h \in Handles :
    LET size == v.dirent[h].size
        chain == v.chain[h]
    IN /\ size = 0 => DOMAIN chain = {}
       /\ size > 0 => /\ (size - 1) \div BytesPerCluster \in DOMAIN chain
                      /\ v.dirent[h].first = chain[0]
       /\ \A i \in DOMAIN chain :
            i + 1 \in DOMAIN chain => v.fat[chain[i]] = chain[i + 1]

\* What the callers in src/ and an undamaged disk provide.
Sound == (\A v \in Volumes : WellFormed(v)) /\ ~MaySeekPastEof

\* The address of byte p of the file, counted from 0.
ByteAt(h, p) ==
  ClusterOffset(vol.chain[h][p \div BytesPerCluster]) + (p % BytesPerCluster)

\* tar_cluster_relative
Target(h) == seekPos[h] \div BytesPerCluster

\* bytes_remaining_in_file; the u32 subtraction wraps in the release build.
Remaining(h) == (Size(h) - seekPos[h]) % U32

Init ==
  /\ vol \in Volumes
  /\ seekPos = [h \in Handles |-> 0]
  /\ curRel = [h \in Handles |-> 0]
  /\ curAbs = [h \in Handles |-> vol.dirent[h].first]
  /\ pc = [h \in Handles |-> "idle"]
  /\ want = [h \in Handles |-> 0]
  /\ buf = [h \in Handles |-> <<>>]
  /\ hops = [h \in Handles |-> 0]
  /\ lock = Free
  /\ devPos = 0
  /\ reply = [h \in Handles |-> NoReply]

\* A handle its caller may still call.
Usable(h) == pc[h] = "idle" /\ (MayReuseCorrupt \/ reply[h].kind # "corrupt")

-----------------------------------------------------------------------------
(* FatxFs::open and File::new: the caller drops its handle, if any, and opens *)
(* the file again; the directory walk runs under the mutex (module FatxDir).  *)

Open(h) ==
  /\ pc[h] = "idle"
  /\ \/ /\ lock = Free
        /\ seekPos' = [seekPos EXCEPT ![h] = 0]
        /\ curRel' = [curRel EXCEPT ![h] = 0]
        /\ curAbs' = [curAbs EXCEPT ![h] = First(h)]
        /\ reply' = [reply EXCEPT ![h] = NoReply]
        /\ UNCHANGED pc
     \/ /\ lock = Poisoned
        /\ pc' = [pc EXCEPT ![h] = "panicked"]
        /\ UNCHANGED <<seekPos, curRel, curAbs, reply>>
  /\ UNCHANGED <<vol, want, buf, hops, lock, devPos>>

-----------------------------------------------------------------------------
(* io::Seek for File: no lock is taken. *)

SeekTo(h, target) ==
  /\ Usable(h)
  /\ MaySeekPastEof \/ target <= Size(h)
  /\ seekPos' = [seekPos EXCEPT ![h] = IF target < 0 THEN @ ELSE target % U32]
  /\ reply' = [reply EXCEPT ![h] = NoReply]
  /\ UNCHANGED <<vol, curRel, curAbs, pc, want, buf, hops, lock, devPos>>

Seek(h) ==
  \/ \E t \in SeekTargets : SeekTo(h, t)
  \/ \E d \in SeekDeltas : SeekTo(h, seekPos[h] + d) \/ SeekTo(h, Size(h) + d)

-----------------------------------------------------------------------------
(* io::Read for File. *)

Read(h) ==
  /\ Usable(h)
  /\ \E n \in ReadSizes : want' = [want EXCEPT ![h] = n]
  /\ buf' = [buf EXCEPT ![h] = <<>>]
  /\ reply' = [reply EXCEPT ![h] = NoReply]
  /\ pc' = [pc EXCEPT ![h] = "locking"]
  /\ UNCHANGED <<handleVars, hops, lock, devPos>>

\* Mutant: the guard is dropped as soon as it is taken.
AcquireUnheld(h) ==
  /\ pc[h] = "locking" /\ lock = Free
  /\ pc' = [pc EXCEPT ![h] = "loop"]
  /\ UNCHANGED <<handleVars, want, buf, hops, lock, devPos, reply>>

\* handle.lock().unwrap(): a poisoned mutex panics the caller too.
Acquire(h) ==
  /\ pc[h] = "locking"
  /\ \/ /\ lock = Free
        /\ lock' = h
        /\ pc' = [pc EXCEPT ![h] = "loop"]
     \/ /\ lock = Poisoned
        /\ lock' = lock
        /\ pc' = [pc EXCEPT ![h] = "panicked"]
  /\ UNCHANGED <<handleVars, want, buf, hops, devPos, reply>>

\* Leaving the function drops the guard.
Return(h, kind) ==
  /\ pc' = [pc EXCEPT ![h] = "idle"]
  /\ lock' = Free
  /\ reply' = [reply EXCEPT ![h] =
       [kind |-> kind, want |-> want[h], data |-> IF kind = "ok" THEN buf[h] ELSE <<>>]]

\* Mutant: off by one at the end of the file.
LoopDoneEarly(h) == Len(buf[h]) >= want[h] \/ Remaining(h) <= 1

LoopDone(h) == Len(buf[h]) >= want[h] \/ Remaining(h) = 0

FinishRead(h) ==
  /\ pc[h] = "loop"
  /\ LoopDone(h)
  /\ Return(h, "ok")
  /\ buf' = [buf EXCEPT ![h] = <<>>]
  /\ UNCHANGED <<handleVars, want, hops, devPos>>

\* Mutant: going back resets the index but not the cluster.
MapPositionHalfReset(h) ==
  /\ pc[h] = "loop"
  /\ ~LoopDone(h)
  /\ curRel' = [curRel EXCEPT ![h] = IF Target(h) < @ THEN 0 ELSE @]
  /\ hops' = [hops EXCEPT ![h] = Target(h) - curRel'[h]]
  /\ pc' = [pc EXCEPT ![h] = "scan"]
  /\ UNCHANGED <<vol, seekPos, curAbs, want, buf, lock, devPos, reply>>

\* Start of an iteration: go back to the first cluster if the position is
\* behind the cached one, and set out to follow the remaining links.
MapPosition(h) ==
  /\ pc[h] = "loop"
  /\ ~LoopDone(h)
  /\ IF Target(h) < curRel[h]
       THEN /\ curRel' = [curRel EXCEPT ![h] = 0]
            /\ curAbs' = [curAbs EXCEPT ![h] = First(h)]
       ELSE UNCHANGED <<curRel, curAbs>>
  /\ hops' = [hops EXCEPT ![h] = Target(h) - curRel'[h]]
  /\ pc' = [pc EXCEPT ![h] = "scan"]
  /\ UNCHANGED <<vol, seekPos, want, buf, lock, devPos, reply>>

FollowLink(h) ==
  /\ pc[h] = "scan" /\ hops[h] > 0
  /\ ~EntryPanics(curAbs[h])
  /\ IsData(vol.fat[curAbs[h]])
  /\ curAbs' = [curAbs EXCEPT ![h] = vol.fat[curAbs[h]]]
  /\ hops' = [hops EXCEPT ![h] = @ - 1]
  /\ UNCHANGED <<vol, seekPos, curRel, pc, want, buf, lock, devPos, reply>>

\* Mutant: a broken link is tried again.
BrokenLinkRetried(h) ==
  /\ pc[h] = "scan" /\ hops[h] > 0
  /\ ~EntryPanics(curAbs[h]) /\ ~IsData(vol.fat[curAbs[h]])
  /\ pc' = [pc EXCEPT ![h] = "loop"]
  /\ hops' = [hops EXCEPT ![h] = 0]
  /\ UNCHANGED <<handleVars, want, buf, lock, devPos, reply>>

\* "Corrupt FAT chain": the cached cluster has moved, its index has not.
BrokenLink(h) ==
  /\ pc[h] = "scan" /\ hops[h] > 0
  /\ ~EntryPanics(curAbs[h])
  /\ ~IsData(vol.fat[curAbs[h]])
  /\ Return(h, "corrupt")
  /\ buf' = [buf EXCEPT ![h] = <<>>]
  /\ hops' = [hops EXCEPT ![h] = 0]
  /\ UNCHANGED <<handleVars, want, devPos>>

\* The panic unwinds through the guard and poisons the mutex.
PanicOnLink(h) ==
  /\ pc[h] = "scan" /\ hops[h] > 0
  /\ EntryPanics(curAbs[h])
  /\ pc' = [pc EXCEPT ![h] = "panicked"]
  /\ lock' = Poisoned
  /\ UNCHANGED <<handleVars, want, buf, hops, devPos, reply>>

\* seek_cluster at the end of the chain walk.
SeekCluster(h) ==
  /\ pc[h] = "scan" /\ hops[h] = 0
  /\ curRel' = [curRel EXCEPT ![h] = Target(h)]
  /\ IF ClusterAccepted(curAbs[h])
       THEN /\ devPos' = ClusterOffset(curAbs[h]) + (seekPos[h] % BytesPerCluster)
            /\ pc' = [pc EXCEPT ![h] = "read"]
            /\ UNCHANGED <<buf, lock, reply>>
       ELSE /\ Return(h, "corrupt")
            /\ buf' = [buf EXCEPT ![h] = <<>>]
            /\ UNCHANGED devPos
  /\ UNCHANGED <<vol, seekPos, curAbs, want, hops>>

\* Mutant: the end of the cluster is not a limit.
FitsAcross(h, k) == k <= want[h] - Len(buf[h]) /\ k <= Remaining(h)

\* No more than bytes_to_read_from_cluster, the least of the three.
Fits(h, k) ==
  /\ k <= want[h] - Len(buf[h])
  /\ k <= BytesPerCluster - (seekPos[h] % BytesPerCluster)
  /\ k <= Remaining(h)

\* device_handle.read: some of the bytes asked for, at least one unless the
\* position is at or past the end of the device.
DeviceRead(h) ==
  /\ pc[h] = "read"
  /\ \E k \in 0 .. BytesPerCluster :
       /\ Fits(h, k)
       /\ devPos + k <= DeviceBytes \/ k = 0
       /\ k = 0 <=> devPos >= DeviceBytes
       /\ buf' = [buf EXCEPT ![h] = @ \o [i \in 1 .. k |-> devPos + i - 1]]
       /\ devPos' = devPos + k
       /\ seekPos' = [seekPos EXCEPT ![h] = (@ + k) % U32]
  /\ pc' = [pc EXCEPT ![h] = "loop"]
  /\ UNCHANGED <<vol, curRel, curAbs, want, hops, lock, reply>>

\* Mutant: a failure resets the index so that the next read begins anew, but not
\* the cluster.
DeviceErrorHalfReset(h) ==
  /\ pc[h] = "read"
  /\ Return(h, "err")
  /\ buf' = [buf EXCEPT ![h] = <<>>]
  /\ curRel' = [curRel EXCEPT ![h] = 0]
  /\ UNCHANGED <<vol, seekPos, curAbs, want, hops, devPos>>

\* The seek or the read of the device fails.
DeviceError(h) ==
  /\ pc[h] = "read"
  /\ Return(h, "err")
  /\ buf' = [buf EXCEPT ![h] = <<>>]
  /\ UNCHANGED <<handleVars, want, hops, devPos>>

ReadStep(h) ==
  \/ FinishRead(h) \/ MapPosition(h) \/ FollowLink(h) \/ BrokenLink(h)
  \/ PanicOnLink(h) \/ SeekCluster(h) \/ DeviceRead(h) \/ DeviceError(h)

Next ==
  \E h \in Handles :
    Open(h) \/ Seek(h) \/ Read(h) \/ Acquire(h) \/ ReadStep(h)

Spec == Init /\ [][Next]_vars

\* A thread inside read keeps running; nothing makes the caller call again,
\* and the mutex promises no waiter its turn.
FairSpec == Spec /\ \A h \in Handles : WF_vars(ReadStep(h))

-----------------------------------------------------------------------------
(* Properties. *)

Reading(h) == pc[h] \in {"loop", "scan", "read"}

\* Types, and the mutex: a handle is inside read exactly while it holds it.
TypeOK ==
  /\ vol \in Volumes
  /\ seekPos \in [Handles -> 0 .. U32 - 1]
  /\ curRel \in [Handles -> Nat]
  /\ curAbs \in [Handles -> Nat]
  /\ pc \in [Handles -> {"idle", "locking", "loop", "scan", "read", "panicked"}]
  /\ want \in [Handles -> Nat]
  /\ buf \in [Handles -> Seq(Nat)]
  /\ hops \in [Handles -> Nat]
  /\ devPos \in Nat
  /\ reply \in [Handles -> Reply]
  /\ lock \in Handles \cup {Free, Poisoned}
  /\ \A h \in Handles : Reading(h) <=> lock = h

\* The index in the file's chain that the cached cluster should have.
Place(h) == IF pc[h] = "scan" THEN Target(h) - hops[h] ELSE curRel[h]

\* The cached cluster is the cached index's cluster in the file's chain; while
\* links are being followed, it is the cluster that many links short of the
\* one being looked for.  Only a broken chain leaves the two apart, not a device that
\* failed half way.
CursorOnChain ==
  \A h \in Handles :
    Place(h) \in DOMAIN vol.chain[h] /\ reply[h].kind # "corrupt" /\ pc[h] # "panicked"
      => curAbs[h] = vol.chain[h][Place(h)]

\* Address a holds byte p of the file h is open on.
Holds(h, a, p) ==
  /\ p \div BytesPerCluster \in DOMAIN vol.chain[h]
  /\ a = ByteAt(h, p)

\* "Map current file position to cluster number": when the device is about to
\* be read, the shared device position is the address of the byte at the
\* handle's position: the chain was followed to the right cluster, and no other
\* handle has moved the device since the seek.
MapsPosition ==
  \A h \in Handles : pc[h] = "read" => Holds(h, devPos, seekPos[h])

\* What a read has put in the caller's buffer are the bytes of the file just
\* before the position, in order, whatever cluster each came from.
DeliversOwnBytes ==
  \A h \in Handles :
    \A i \in 1 .. Len(buf[h]) :
      Holds(h, buf[h][i], seekPos[h] - Len(buf[h]) + i - 1)

\* What the debug_assert of cluster_to_byte_offset says: a cluster it maps
\* begins inside the partition.
StaysInPartition ==
  \A h \in Handles : pc[h] = "read" => ClusterOffset(curAbs[h]) < DataBytes

\* What a byte of the file is worth once its cluster is off the chain.
Lost == -1

\* The abstract file that a handle implements: a read in progress has not
\* moved the position yet.
Abstract == INSTANCE ByteFile WITH
  content <- [h \in Handles |-> [i \in 1 .. Size(h) |->
    IF (i - 1) \div BytesPerCluster \in DOMAIN vol.chain[h]
      THEN ByteAt(h, i - 1) ELSE Lost]],
  pos <- [h \in Handles |-> seekPos[h] - Len(buf[h])],
  reply <- reply

\* Seeks and reads through cached cluster chains, on a shared device position,
\* behave as a plain file with a position does.
ImplementsByteFile == Abstract!Spec

\* A thread that holds the volume's mutex in read gives it back.
ReadsEnd == \A h \in Handles : lock = h ~> lock # h
=============================================================================
