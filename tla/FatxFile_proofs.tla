-------------------------- MODULE FatxFile_proofs --------------------------
(***************************************************************************)
(* Proofs about FatxFile, for any volume, any number of handles and any    *)
(* cluster size: types and the mutex on every volume; then, on undamaged   *)
(* volumes, that reads deliver the bytes of the file and that a handle     *)
(* implements ByteFile.                                                    *)
(***************************************************************************)
EXTENDS FatxFile, CommonFacts, TLAPS

-----------------------------------------------------------------------------
(* Types and the mutex. *)

\* The types of the constants, without the size of the data area.
LEMMA ConstantTypes ==
  /\ BytesPerCluster \in Nat \ {0} /\ U32 \in Nat \ {0}
  /\ NumClusters \in Nat /\ FatLen \in Nat /\ ReservedMarker \in Nat
  /\ DeviceBytes \in Nat
BY VolumeAssumption

USE ConstantTypes

\* What IsVolume says of the fields the actions read.
LEMMA VolumeTypes ==
  ASSUME vol \in Volumes, NEW h \in Handles
  PROVE  /\ Size(h) \in 0 .. U32 - 1
         /\ First(h) \in 0 .. U32 - 1
         /\ \A c \in 0 .. FatLen - 1 : vol.fat[c] \in RawEntry
         /\ \E n \in Nat : vol.chain[h] \in [0 .. n - 1 -> DataCluster]
<1>1. /\ vol.fat \in [0 .. FatLen - 1 -> RawEntry]
      /\ vol.dirent \in [Handles -> [first : 0 .. U32 - 1, size : 0 .. U32 - 1]]
      /\ \E n \in 0 .. U32 : vol.chain[h] \in [0 .. n - 1 -> DataCluster]
  BY VolumesAssumption DEF IsVolume
<1>2. vol.dirent[h] \in [first : 0 .. U32 - 1, size : 0 .. U32 - 1]
  BY <1>1
<1>3. Size(h) \in 0 .. U32 - 1 /\ First(h) \in 0 .. U32 - 1
  BY <1>2 DEF Size, First
<1>4. \A c \in 0 .. FatLen - 1 : vol.fat[c] \in RawEntry
  BY <1>1
<1>5. \E n \in Nat : vol.chain[h] \in [0 .. n - 1 -> DataCluster]
  BY <1>1
<1> QED BY <1>3, <1>4, <1>5

\* The state a volume is opened in has the right types.
LEMMA InitTypeOK == Init => TypeOK
<1> SUFFICES ASSUME Init PROVE TypeOK
  OBVIOUS
<1>1. curAbs \in [Handles -> Nat]
  BY VolumeTypes DEF Init, First
<1>2. buf \in [Handles -> Seq(Nat)]
  BY DEF Init
<1>3. \A h \in Handles : ~Reading(h) /\ lock # h
  BY CallerAssumption DEF Init, Reading
<1>4. reply \in [Handles -> Reply]
  BY DEF Init, Reply, NoReply
<1> QED BY <1>1, <1>2, <1>3, <1>4 DEF Init, TypeOK

\* A call returns a blank reply, the bytes it gathered, or an error without
\* bytes; no other step touches the replies.
LEMMA ReplyTypes == TypeOK /\ [Next]_vars => reply' \in [Handles -> Reply]
<1> SUFFICES ASSUME TypeOK, [Next]_vars PROVE reply' \in [Handles -> Reply]
  OBVIOUS
<1>1. NoReply \in Reply
  BY DEF NoReply, Reply
<1>2. ASSUME NEW h \in Handles, NEW kind \in {"ok", "err", "corrupt"}, Return(h, kind)
      PROVE  reply' \in [Handles -> Reply]
  <2>1. want[h] \in Nat /\ buf[h] \in Seq(Nat) /\ <<>> \in Seq(Nat)
    BY DEF TypeOK
  <2>2. [kind |-> kind, want |-> want[h],
         data |-> IF kind = "ok" THEN buf[h] ELSE <<>>] \in Reply
    BY <2>1 DEF Reply
  <2> QED BY <1>2, <2>2 DEF Return, TypeOK
<1>3. ASSUME NEW h \in Handles, ReadStep(h) PROVE reply' \in [Handles -> Reply]
  BY <1>2, <1>3 DEF ReadStep, FinishRead, MapPosition, FollowLink, BrokenLink,
     PanicOnLink, SeekCluster, DeviceRead, DeviceError, TypeOK
<1>4. ASSUME NEW h \in Handles, Open(h) \/ Seek(h) \/ Read(h) \/ Acquire(h)
      PROVE  reply' \in [Handles -> Reply]
  BY <1>1, <1>4 DEF Open, Seek, SeekTo, Read, Acquire, TypeOK
<1> QED BY <1>3, <1>4 DEF Next, vars, TypeOK

\* Every step keeps the types; the mutex changes hands only where a handle
\* enters or leaves read.
LEMMA NextTypeOK == TypeOK /\ [Next]_vars => TypeOK'
<1> SUFFICES ASSUME TypeOK, [Next]_vars PROVE TypeOK'
  OBVIOUS
<1>0. reply' \in [Handles -> Reply]
  BY ReplyTypes
<1> USE <1>0, CallerAssumption DEF TypeOK, Reading, Free, Poisoned
<1>1. ASSUME NEW h \in Handles, Open(h) PROVE TypeOK'
  <2>1. First(h) \in Nat
    BY VolumeTypes
  <2>2. CASE lock = Free
    <3>1. curAbs' = [curAbs EXCEPT ![h] = First(h)]
      BY <1>1, <2>2 DEF Open
    <3>2. curAbs' \in [Handles -> Nat]
      BY <2>1, <3>1
    <3>3. /\ seekPos' = [seekPos EXCEPT ![h] = 0] /\ curRel' = [curRel EXCEPT ![h] = 0]
          /\ UNCHANGED <<vol, pc, want, buf, hops, lock, devPos>>
      BY <1>1, <2>2 DEF Open
    <3>4. 0 \in 0 .. U32 - 1
      OBVIOUS
    <3>5. seekPos' \in [Handles -> 0 .. U32 - 1] /\ curRel' \in [Handles -> Nat]
      BY <3>3, <3>4
    <3> QED BY <3>2, <3>3, <3>5
  <2>3. CASE lock = Poisoned
    BY <1>1, <2>3 DEF Open
  <2> QED BY <1>1, <2>2, <2>3 DEF Open
<1>2. ASSUME NEW h \in Handles, Seek(h) PROVE TypeOK'
  <2>1. ASSUME NEW t \in Int, SeekTo(h, t) PROVE TypeOK'
    <3>1. seekPos' \in [Handles -> 0 .. U32 - 1]
      BY <2>1 DEF SeekTo
    <3> QED BY <2>1, <3>1 DEF SeekTo
  <2>2. Size(h) \in Int
    BY VolumeTypes
  <2>3. \A t \in SeekTargets : t \in Int
    OBVIOUS
  <2>4. \A d \in SeekDeltas : seekPos[h] + d \in Int /\ Size(h) + d \in Int
    BY <2>2
  <2> QED BY <1>2, <2>1, <2>3, <2>4 DEF Seek
<1>3. ASSUME NEW h \in Handles, Read(h) PROVE TypeOK'
  BY <1>3 DEF Read, Usable, handleVars
<1>4. ASSUME NEW h \in Handles, Acquire(h) PROVE TypeOK'
  BY <1>4 DEF Acquire, handleVars
<1>5. ASSUME NEW h \in Handles, ReadStep(h) PROVE TypeOK'
  <2>1. CASE FinishRead(h)
    BY <2>1 DEF FinishRead, Return, handleVars
  <2>2. CASE MapPosition(h)
    <3>1. Target(h) \in Nat
      BY DivMod DEF Target
    <3>2. hops' \in [Handles -> Nat]
      BY <2>2, <3>1 DEF MapPosition
    <3>3. First(h) \in Nat
      BY VolumeTypes
    <3>4. curAbs' \in [Handles -> Nat] /\ curRel' \in [Handles -> Nat]
      <4>1. CASE Target(h) < curRel[h]
        <5>1. /\ curRel' = [curRel EXCEPT ![h] = 0]
              /\ curAbs' = [curAbs EXCEPT ![h] = First(h)]
          BY <2>2, <4>1 DEF MapPosition
        <5> QED BY <3>3, <5>1
      <4>2. CASE ~(Target(h) < curRel[h])
        BY <2>2, <4>2 DEF MapPosition
      <4> QED BY <4>1, <4>2
    <3> QED BY <2>2, <3>2, <3>4 DEF MapPosition
  <2>3. CASE FollowLink(h)
    <3>1. curAbs[h] \in 0 .. FatLen - 1
      BY <2>3 DEF FollowLink, EntryPanics
    <3>2. vol.fat[curAbs[h]] \in Nat
      BY <3>1, VolumeTypes DEF RawEntry
    <3> QED BY <2>3, <3>2 DEF FollowLink
  <2>4. CASE BrokenLink(h)
    BY <2>4 DEF BrokenLink, Return, handleVars
  <2>5. CASE PanicOnLink(h)
    BY <2>5 DEF PanicOnLink, handleVars
  <2>6. CASE SeekCluster(h)
    <3> seekPos[h] \in Nat
      OBVIOUS
    <3>0. (seekPos[h] % BytesPerCluster) \in Nat
      BY DivMod
    <3>1. Target(h) \in Nat
      BY DivMod DEF Target
    <3>2. ClusterOffset(curAbs[h]) \in Nat
      BY DEF ClusterOffset
    <3>3. curRel' \in [Handles -> Nat] /\ devPos' \in Nat
      BY <2>6, <3>0, <3>1, <3>2 DEF SeekCluster
    <3>4. CASE ClusterAccepted(curAbs[h])
      BY <2>6, <3>3, <3>4 DEF SeekCluster
    <3>5. CASE ~ClusterAccepted(curAbs[h])
      <4>1. pc' = [pc EXCEPT ![h] = "idle"] /\ lock' = Free /\ lock = h
        BY <2>6, <3>5 DEF SeekCluster, Return
      <4>2. buf' = [buf EXCEPT ![h] = <<>>] /\ UNCHANGED <<vol, seekPos, curAbs, want, hops>>
        BY <2>6, <3>5 DEF SeekCluster
      <4>3. buf' \in [Handles -> Seq(Nat)]
        BY <4>2
      <4> QED BY <3>3, <4>1, <4>2, <4>3
    <3> QED BY <3>4, <3>5
  <2>7. CASE DeviceRead(h)
    <3>1. PICK k \in 0 .. BytesPerCluster :
            /\ buf' = [buf EXCEPT ![h] = @ \o [i \in 1 .. k |-> devPos + i - 1]]
            /\ devPos' = devPos + k
            /\ seekPos' = [seekPos EXCEPT ![h] = (@ + k) % U32]
      BY <2>7 DEF DeviceRead
    <3>2. [i \in 1 .. k |-> devPos + i - 1] \in Seq(Nat)
      BY <3>1
    <3>3. buf' \in [Handles -> Seq(Nat)]
      BY <3>1, <3>2
    <3>4. seekPos' \in [Handles -> 0 .. U32 - 1] /\ devPos' \in Nat
      BY <3>1
    <3> QED BY <2>7, <3>3, <3>4 DEF DeviceRead
  <2>8. CASE DeviceError(h)
    BY <2>8 DEF DeviceError, Return, handleVars
  <2> QED BY <1>5, <2>1, <2>2, <2>3, <2>4, <2>5, <2>6, <2>7, <2>8 DEF ReadStep
<1>6. CASE UNCHANGED vars
  BY <1>6 DEF vars
<1> QED BY <1>1, <1>2, <1>3, <1>4, <1>5, <1>6 DEF Next

\* On every volume, damaged ones included, the state keeps its types; a handle
\* is inside read exactly while it holds the mutex, so no two are.
THEOREM TypeCorrect == Spec => []TypeOK
BY InitTypeOK, NextTypeOK, PTL DEF Spec

-----------------------------------------------------------------------------
(* Undamaged volumes.  The inductive invariant says, per handle, where the    *)
(* cursor is in the chain, that the position is in the file, that the device  *)
(* stands at the position's byte when it is about to be read, and what the    *)
(* buffer holds.                                                              *)

CursorOK(h) ==
  /\ pc[h] = "scan" => hops[h] <= Target(h)
  /\ pc[h] # "panicked" /\ DOMAIN vol.chain[h] # {} =>
       /\ Place(h) \in DOMAIN vol.chain[h]
       /\ curAbs[h] = vol.chain[h][Place(h)]

PositionOK(h) ==
  /\ seekPos[h] <= Size(h)
  /\ pc[h] \in {"scan", "read"} => seekPos[h] < Size(h)

DeviceOK(h) == pc[h] = "read" => devPos = ByteAt(h, seekPos[h])

BufferOK(h) ==
  /\ Len(buf[h]) <= seekPos[h]
  /\ Len(buf[h]) <= want[h]
  /\ pc[h] \in {"idle", "locking"} => buf[h] = <<>>
  /\ \A i \in 1 .. Len(buf[h]) :
       buf[h][i] = ByteAt(h, seekPos[h] - Len(buf[h]) + i - 1)

Good(h) == CursorOK(h) /\ PositionOK(h) /\ DeviceOK(h) /\ BufferOK(h)

IInv == TypeOK /\ \A h \in Handles : Good(h)

\* The chain of a file on an undamaged volume covers the file and is what the
\* FAT links.
LEMMA ChainFacts ==
  ASSUME Sound, vol \in Volumes, NEW h \in Handles
  PROVE  /\ Size(h) = 0 => DOMAIN vol.chain[h] = {}
         /\ Size(h) > 0 => First(h) = vol.chain[h][0]
         /\ \A i \in DOMAIN vol.chain[h] :
              /\ i \in Nat
              /\ vol.chain[h][i] \in DataCluster
              /\ i + 1 \in DOMAIN vol.chain[h]
                   => vol.fat[vol.chain[h][i]] = vol.chain[h][i + 1]
              /\ \A j \in 0 .. i : j \in DOMAIN vol.chain[h]
         /\ \A p \in Nat : p < Size(h) =>
              \A j \in 0 .. p \div BytesPerCluster : j \in DOMAIN vol.chain[h]
<1>1. PICK n \in Nat : vol.chain[h] \in [0 .. n - 1 -> DataCluster]
  BY VolumeTypes
<1>2. Size(h) \in Nat
  BY VolumeTypes
<1>3. WellFormed(vol)
  BY DEF Sound
<1>4. /\ Size(h) = 0 => DOMAIN vol.chain[h] = {}
      /\ Size(h) > 0 => /\ (Size(h) - 1) \div BytesPerCluster \in DOMAIN vol.chain[h]
                        /\ First(h) = vol.chain[h][0]
      /\ \A i \in DOMAIN vol.chain[h] : i + 1 \in DOMAIN vol.chain[h]
           => vol.fat[vol.chain[h][i]] = vol.chain[h][i + 1]
  BY <1>3 DEF WellFormed, Size, First
<1>5. ASSUME NEW p \in Nat, p < Size(h), NEW j \in 0 .. p \div BytesPerCluster
      PROVE  j \in DOMAIN vol.chain[h]
  <2>1. Size(h) - 1 \in Nat /\ p <= Size(h) - 1
    BY <1>2, <1>5
  <2>2. p \div BytesPerCluster <= (Size(h) - 1) \div BytesPerCluster
    BY <2>1, DivMonotone
  <2>3. (Size(h) - 1) \div BytesPerCluster \in 0 .. n - 1
    BY <1>1, <1>2, <1>4, <2>1
  <2>4. p \div BytesPerCluster \in Nat
    BY DivMod
  <2> QED BY <1>1, <2>2, <2>3, <2>4
<1> QED BY <1>1, <1>4, <1>5

\* A step that leaves a handle alone, and the device too if that handle is
\* about to read it, leaves what the invariant says of the handle.
LEMMA Untouched ==
  ASSUME NEW g \in Handles, Good(g), vol' = vol,
         seekPos'[g] = seekPos[g], curRel'[g] = curRel[g], curAbs'[g] = curAbs[g],
         pc'[g] = pc[g], want'[g] = want[g], buf'[g] = buf[g], hops'[g] = hops[g],
         pc[g] = "read" => devPos' = devPos
  PROVE  Good(g)'
BY DEF Good, CursorOK, PositionOK, DeviceOK, BufferOK, Place, Target, Size, ByteAt

\* Between calls the buffer is empty, so a call may start from any position in
\* the file.
LEMMA GoodBetweenCalls ==
  ASSUME NEW h \in Handles, pc'[h] \in {"idle", "locking"}, buf'[h] = <<>>,
         seekPos'[h] \in Nat, want'[h] \in Nat, seekPos'[h] <= Size(h)', CursorOK(h)'
  PROVE  Good(h)'
BY DEF Good, PositionOK, DeviceOK, BufferOK

\* The remaining length is computed without wrapping.
LEMMA RemainingInFile ==
  ASSUME TypeOK, NEW h \in Handles, PositionOK(h)
  PROVE  Remaining(h) = Size(h) - seekPos[h]
<1>1. Size(h) \in 0 .. U32 - 1 /\ seekPos[h] \in 0 .. U32 - 1 /\ seekPos[h] <= Size(h)
  BY VolumeTypes DEF TypeOK, PositionOK
<1>2. Size(h) - seekPos[h] \in 0 .. U32 - 1
  BY <1>1
<1> QED BY <1>2 DEF Remaining

\* A handle fresh from File::new stands on the first cluster of its file.
LEMMA InitIInv == Sound /\ Init => IInv
<1> SUFFICES ASSUME Sound, Init PROVE IInv
  OBVIOUS
<1>1. ASSUME NEW h \in Handles PROVE Good(h)
  <2>1. Size(h) \in Nat
    BY VolumeTypes DEF Init
  <2>2. pc[h] = "idle" /\ seekPos[h] = 0 /\ curRel[h] = 0 /\ buf[h] = <<>> /\ want[h] = 0
    BY DEF Init
  <2>3. curAbs[h] = First(h)
    BY DEF Init, First
  <2>4. CursorOK(h)
    BY <2>1, <2>2, <2>3, ChainFacts DEF CursorOK, Place, Init
  <2> QED BY <2>1, <2>2, <2>4 DEF Good, PositionOK, DeviceOK, BufferOK
<1> QED BY <1>1, InitTypeOK DEF IInv

\* Opening a file again puts the handle's cursor back on the first cluster.
LEMMA OpenIInv ==
  ASSUME Sound, IInv, NEW h \in Handles, Open(h) PROVE \A g \in Handles : Good(g)'
<1> USE DEF IInv
<1>1. ASSUME NEW g \in Handles, g # h PROVE Good(g)'
  BY <1>1, Untouched DEF Open, TypeOK
<1>2. Good(h)'
  <2>1. vol' = vol /\ vol \in Volumes /\ Size(h)' = Size(h) /\ Size(h) \in Nat
    BY VolumeTypes DEF Open, TypeOK, Size
  <2>2. CASE lock = Free
    <3>1. /\ seekPos'[h] = 0 /\ curRel'[h] = 0 /\ curAbs'[h] = First(h)
          /\ pc'[h] = "idle" /\ buf'[h] = <<>> /\ want'[h] \in Nat
      BY <2>2 DEF Open, TypeOK, Free, Poisoned, Good, BufferOK
    <3>2. CursorOK(h)'
      BY <2>1, <3>1, ChainFacts DEF CursorOK, Place
    <3> QED BY <2>1, <3>1, <3>2, GoodBetweenCalls
  <2>3. CASE lock = Poisoned
    <3>1. /\ pc'[h] = "panicked" /\ pc[h] = "idle"
          /\ seekPos'[h] = seekPos[h] /\ buf'[h] = buf[h] /\ want'[h] = want[h]
      BY <2>3 DEF Open, TypeOK, Free, Poisoned
    <3> QED BY <2>1, <3>1 DEF Good, CursorOK, PositionOK, DeviceOK, BufferOK, ByteAt
  <2> QED BY <2>2, <2>3 DEF Open
<1> QED BY <1>1, <1>2

\* A seek to a place in the file arrives there; a refused one moves nothing.
LEMMA SeekIInv ==
  ASSUME Sound, IInv, NEW h \in Handles, Seek(h) PROVE \A g \in Handles : Good(g)'
<1> USE DEF IInv
<1>1. PICK t \in Int : SeekTo(h, t)
  <2>1. Size(h) \in Int /\ seekPos[h] \in Int
    BY VolumeTypes DEF TypeOK
  <2>2. \A s \in SeekTargets : s \in Int
    BY CallerAssumption
  <2>3. \A d \in SeekDeltas : seekPos[h] + d \in Int /\ Size(h) + d \in Int
    BY <2>1, CallerAssumption
  <2> QED BY <2>2, <2>3 DEF Seek
<1>2. ASSUME NEW g \in Handles, g # h PROVE Good(g)'
  BY <1>1, <1>2, Untouched DEF SeekTo, TypeOK
<1>3. Good(h)'
  <2>1. Size(h)' = Size(h) /\ Size(h) \in 0 .. U32 - 1
    BY <1>1, VolumeTypes DEF SeekTo, TypeOK, Size
  <2>2. t <= Size(h)
    BY <1>1 DEF SeekTo, Sound
  <2>3. t >= 0 => t % U32 = t
    BY <2>1, <2>2
  <2>4. seekPos'[h] \in Nat /\ seekPos'[h] <= Size(h)'
    BY <1>1, <2>1, <2>2, <2>3 DEF SeekTo, TypeOK, Good, PositionOK
  <2>5. /\ pc[h] = "idle" /\ pc'[h] = "idle" /\ buf'[h] = <<>> /\ want'[h] \in Nat
        /\ vol' = vol /\ curRel'[h] = curRel[h] /\ curAbs'[h] = curAbs[h]
    BY <1>1 DEF SeekTo, Usable, TypeOK, Good, BufferOK
  <2>6. CursorOK(h)'
    BY <2>5 DEF Good, CursorOK, Place
  <2> QED BY <2>4, <2>5, <2>6, GoodBetweenCalls
<1> QED BY <1>2, <1>3

\* The start of a read empties the buffer and moves nothing else.
LEMMA ReadIInv ==
  ASSUME Sound, IInv, NEW h \in Handles, Read(h) PROVE \A g \in Handles : Good(g)'
<1> USE DEF IInv
<1>1. ASSUME NEW g \in Handles, g # h PROVE Good(g)'
  BY <1>1, Untouched DEF Read, handleVars, TypeOK
<1>2. Good(h)'
  <2>1. /\ pc[h] = "idle" /\ pc'[h] = "locking" /\ buf'[h] = <<>> /\ want'[h] \in Nat
        /\ vol' = vol /\ curRel'[h] = curRel[h] /\ curAbs'[h] = curAbs[h]
        /\ seekPos'[h] = seekPos[h] /\ seekPos[h] \in Nat
    BY CallerAssumption DEF Read, Usable, handleVars, TypeOK
  <2>2. CursorOK(h)'
    BY <2>1 DEF Good, CursorOK, Place
  <2>3. seekPos'[h] <= Size(h)'
    BY <2>1 DEF Good, PositionOK, Size
  <2> QED BY <2>1, <2>2, <2>3, GoodBetweenCalls
<1> QED BY <1>1, <1>2

\* Taking the mutex leaves cursor, position and buffer as they were.
LEMMA AcquireIInv ==
  ASSUME Sound, IInv, NEW h \in Handles, Acquire(h) PROVE \A g \in Handles : Good(g)'
<1> USE DEF IInv
<1>1. ASSUME NEW g \in Handles, g # h PROVE Good(g)'
  BY <1>1, Untouched DEF Acquire, handleVars, TypeOK
<1>2. Good(h)'
  BY DEF Acquire, handleVars, TypeOK, Good, CursorOK, PositionOK, DeviceOK, BufferOK,
         Place, Size, ByteAt
<1> QED BY <1>1, <1>2

\* What the step of a read leaves of the other handles: none of them is about
\* to read the device, since the mutex is taken.
LEMMA ReadStepOthers ==
  ASSUME IInv, NEW h \in Handles, ReadStep(h), NEW g \in Handles, g # h
  PROVE  Good(g)'
<1> USE DEF IInv
<1>1. lock = h
  BY DEF ReadStep, FinishRead, MapPosition, FollowLink, BrokenLink, PanicOnLink,
         SeekCluster, DeviceRead, DeviceError, TypeOK, Reading
<1>2. pc[g] # "read"
  BY <1>1 DEF TypeOK, Reading
<1>3. /\ vol' = vol
      /\ seekPos'[g] = seekPos[g] /\ curRel'[g] = curRel[g] /\ curAbs'[g] = curAbs[g]
      /\ pc'[g] = pc[g] /\ want'[g] = want[g] /\ buf'[g] = buf[g] /\ hops'[g] = hops[g]
  BY DEF ReadStep, FinishRead, MapPosition, FollowLink, BrokenLink, PanicOnLink,
         SeekCluster, DeviceRead, DeviceError, Return, handleVars, TypeOK
<1> QED BY <1>2, <1>3, Untouched

\* A read that ends, with its bytes or with an error, keeps the cursor.
LEMMA ReturnIInv ==
  ASSUME IInv, NEW h \in Handles, FinishRead(h) \/ DeviceError(h) PROVE Good(h)'
<1> USE DEF IInv
<1>1. /\ pc[h] \in {"loop", "read"} /\ pc'[h] = "idle" /\ buf'[h] = <<>>
      /\ want'[h] \in Nat /\ vol' = vol /\ curRel'[h] = curRel[h]
      /\ curAbs'[h] = curAbs[h] /\ seekPos'[h] = seekPos[h] /\ seekPos[h] \in Nat
  BY DEF FinishRead, DeviceError, Return, handleVars, TypeOK
<1>2. CursorOK(h)'
  BY <1>1 DEF Good, CursorOK, Place
<1>3. seekPos'[h] <= Size(h)'
  BY <1>1 DEF Good, PositionOK, Size
<1> QED BY <1>1, <1>2, <1>3, GoodBetweenCalls

\* The index of the cluster that holds the position is a natural number.
LEMMA TargetType ==
  ASSUME TypeOK, NEW h \in Handles PROVE Target(h) \in Nat
<1>1. seekPos[h] \in Nat
  BY DEF TypeOK
<1> QED BY <1>1, DivMod DEF Target

\* Setting out along the chain, from the cached cluster or from the first.
LEMMA MapPositionIInv ==
  ASSUME Sound, IInv, NEW h \in Handles, MapPosition(h) PROVE Good(h)'
<1> USE DEF IInv
<1>1. Good(h) /\ vol \in Volumes /\ vol' = vol /\ pc[h] = "loop" /\ pc'[h] = "scan"
  BY DEF MapPosition, TypeOK
<1>2. /\ seekPos'[h] = seekPos[h] /\ buf'[h] = buf[h] /\ want'[h] = want[h]
      /\ Size(h)' = Size(h) /\ Target(h)' = Target(h) /\ Target(h) \in Nat
  <2>1. seekPos' = seekPos /\ buf' = buf /\ want' = want /\ seekPos[h] \in Nat
    BY DEF MapPosition, TypeOK
  <2> QED BY <1>1, <2>1, TargetType DEF Size, Target
<1>3. seekPos[h] < Size(h)
  BY <1>1, RemainingInFile, VolumeTypes
     DEF MapPosition, LoopDone, Good, PositionOK, TypeOK
<1>4. CursorOK(h)'
  <2>1. CASE Target(h) < curRel[h]
    <3>1. curRel'[h] = 0 /\ curAbs'[h] = First(h) /\ hops'[h] = Target(h)
      BY <1>2, <2>1 DEF MapPosition, TypeOK
    <3>2. Place(h)' = 0 /\ hops'[h] <= Target(h)'
      BY <1>1, <1>2, <3>1 DEF Place
    <3>3. Size(h) > 0
      BY <1>3, VolumeTypes, <1>1 DEF TypeOK
    <3>4. First(h) = vol.chain[h][0] /\ (DOMAIN vol.chain[h] # {} => 0 \in DOMAIN vol.chain[h])
      BY <1>1, <3>3, ChainFacts
    <3> QED BY <1>1, <3>1, <3>2, <3>4 DEF CursorOK
  <2>2. CASE ~(Target(h) < curRel[h])
    <3>1. /\ curRel'[h] = curRel[h] /\ curAbs'[h] = curAbs[h] /\ curRel[h] \in Nat
          /\ hops'[h] = Target(h) - curRel[h]
      BY <1>2, <2>2 DEF MapPosition, TypeOK
    <3>2. Place(h)' = curRel[h] /\ Place(h) = curRel[h] /\ hops'[h] <= Target(h)'
      BY <1>1, <1>2, <3>1 DEF Place
    <3> QED BY <1>1, <3>1, <3>2 DEF CursorOK, Good
  <2> QED BY <2>1, <2>2
<1>5. PositionOK(h)' /\ DeviceOK(h)' /\ BufferOK(h)'
  BY <1>1, <1>2, <1>3 DEF Good, PositionOK, DeviceOK, BufferOK, ByteAt
<1> QED BY <1>4, <1>5 DEF Good

\* While links remain to be followed, the cursor stands on a cluster of the
\* file that is not its last, so the FAT has the next one.
LEMMA LinkAhead ==
  ASSUME Sound, IInv, NEW h \in Handles, pc[h] = "scan", hops[h] > 0
  PROVE  /\ Place(h) \in DOMAIN vol.chain[h] /\ Place(h) + 1 \in DOMAIN vol.chain[h]
         /\ curAbs[h] = vol.chain[h][Place(h)]
         /\ vol.fat[curAbs[h]] = vol.chain[h][Place(h) + 1]
<1> USE DEF IInv
<1>1. /\ vol \in Volumes /\ seekPos[h] \in Nat /\ hops[h] \in Nat /\ Good(h)
      /\ seekPos[h] < Size(h)
  BY DEF TypeOK, Good, PositionOK
<1>2. Target(h) \in Nat
  BY <1>1, DivMod DEF Target
<1>3. \A j \in 0 .. Target(h) : j \in DOMAIN vol.chain[h]
  BY <1>1, ChainFacts DEF Target
<1>4. Place(h) = Target(h) - hops[h] /\ hops[h] <= Target(h)
  BY <1>1 DEF Place, Good, CursorOK
<1>5. Place(h) \in 0 .. Target(h) /\ Place(h) + 1 \in 0 .. Target(h)
  BY <1>1, <1>2, <1>4
<1>6. Place(h) \in DOMAIN vol.chain[h] /\ Place(h) + 1 \in DOMAIN vol.chain[h]
  BY <1>3, <1>5
<1>7. curAbs[h] = vol.chain[h][Place(h)]
  BY <1>1, <1>6 DEF Good, CursorOK
<1> QED BY <1>1, <1>6, <1>7, ChainFacts

\* Following one link keeps the cursor on the file's chain, one link closer to
\* the position's cluster.
LEMMA FollowLinkIInv ==
  ASSUME Sound, IInv, NEW h \in Handles, FollowLink(h) PROVE Good(h)'
<1> USE DEF IInv
<1>1. /\ Good(h) /\ vol' = vol /\ pc[h] = "scan" /\ pc'[h] = "scan" /\ hops[h] > 0
      /\ hops[h] \in Nat /\ hops'[h] = hops[h] - 1 /\ curAbs'[h] = vol.fat[curAbs[h]]
      /\ seekPos'[h] = seekPos[h] /\ buf'[h] = buf[h] /\ want'[h] = want[h]
  BY DEF FollowLink, TypeOK
<1>2. Target(h)' = Target(h) /\ Target(h) \in Nat
  BY <1>1, TargetType DEF Target
<1>3. Place(h)' = Place(h) + 1
  BY <1>1, <1>2 DEF Place
<1>4. CursorOK(h)'
  BY <1>1, <1>2, <1>3, LinkAhead DEF Good, CursorOK
<1>5. PositionOK(h)' /\ DeviceOK(h)' /\ BufferOK(h)'
  BY <1>1 DEF Good, PositionOK, DeviceOK, BufferOK, Size, ByteAt
<1> QED BY <1>4, <1>5 DEF Good

\* "Corrupt FAT chain" is not reported on an undamaged volume.
LEMMA NoBrokenLink ==
  ASSUME Sound, IInv, NEW h \in Handles PROVE ~BrokenLink(h)
<1> SUFFICES ASSUME BrokenLink(h) PROVE FALSE
  OBVIOUS
<1>1. vol.fat[curAbs[h]] \in DataCluster
  <2>1. pc[h] = "scan" /\ hops[h] > 0 /\ vol \in Volumes
    BY DEF BrokenLink, IInv, TypeOK
  <2>2. Place(h) + 1 \in DOMAIN vol.chain[h] /\ vol.fat[curAbs[h]] = vol.chain[h][Place(h) + 1]
    BY <2>1, LinkAhead
  <2> QED BY <2>1, <2>2, ChainFacts
<1>2. NumClusters \in 1 .. ReservedMarker
  BY VolumeAssumption
<1> QED BY <1>1, <1>2 DEF BrokenLink, IsData, DataCluster

\* A panic in Fat::entry promises nothing more of its handle.
LEMMA PanicOnLinkIInv ==
  ASSUME Sound, IInv, NEW h \in Handles, PanicOnLink(h) PROVE Good(h)'
BY DEF PanicOnLink, handleVars, IInv, TypeOK, Good, CursorOK, PositionOK, DeviceOK,
       BufferOK, Size, ByteAt

\* At the end of the walk the cursor is on the position's cluster, which is
\* one that seek_cluster accepts.
LEMMA WalkArrives ==
  ASSUME Sound, IInv, NEW h \in Handles, pc[h] = "scan", hops[h] = 0
  PROVE  /\ Target(h) \in DOMAIN vol.chain[h]
         /\ curAbs[h] = vol.chain[h][Target(h)]
         /\ curAbs[h] \in DataCluster
<1> USE DEF IInv
<1>1. /\ Good(h) /\ vol \in Volumes /\ seekPos[h] \in Nat /\ seekPos[h] < Size(h)
  BY DEF TypeOK, Good, PositionOK
<1>2. Target(h) \in Nat /\ Place(h) = Target(h)
  BY TargetType DEF Place
<1>3. Target(h) \in DOMAIN vol.chain[h]
  BY <1>1, <1>2, ChainFacts DEF Target
<1> QED BY <1>1, <1>2, <1>3, ChainFacts DEF Good, CursorOK

\* seek_cluster refuses no cluster of an undamaged file.
LEMMA SeekClusterAccepted ==
  ASSUME Sound, IInv, NEW h \in Handles, SeekCluster(h)
  PROVE  ClusterAccepted(curAbs[h])
BY WalkArrives DEF SeekCluster, ClusterAccepted, DataCluster

\* The device is sent to the position's byte.
LEMMA SeekClusterIInv ==
  ASSUME Sound, IInv, NEW h \in Handles, SeekCluster(h) PROVE Good(h)'
<1> USE DEF IInv
<1>1. /\ Good(h) /\ vol \in Volumes /\ vol' = vol /\ pc[h] = "scan" /\ hops[h] = 0
      /\ curAbs'[h] = curAbs[h] /\ seekPos'[h] = seekPos[h] /\ want'[h] = want[h]
      /\ curRel'[h] = Target(h) /\ seekPos[h] \in Nat /\ seekPos[h] < Size(h)
  BY DEF SeekCluster, TypeOK, Good, PositionOK
<1>2. Target(h)' = Target(h) /\ Target(h) \in Nat
  BY <1>1, TargetType DEF Target
<1>5. Target(h) \in DOMAIN vol.chain[h] /\ curAbs[h] = vol.chain[h][Target(h)]
  BY <1>1, WalkArrives
<1>6. ClusterAccepted(curAbs[h])
  BY SeekClusterAccepted
<1>7. /\ pc'[h] = "read" /\ buf'[h] = buf[h]
      /\ devPos' = ClusterOffset(curAbs[h]) + (seekPos[h] % BytesPerCluster)
  BY <1>6 DEF SeekCluster, TypeOK
<1>8. devPos' = ByteAt(h, seekPos[h])
  BY <1>5, <1>7 DEF ByteAt, Target
<1>9. CursorOK(h)'
  BY <1>1, <1>2, <1>5, <1>7 DEF CursorOK, Place
<1> QED BY <1>1, <1>7, <1>8, <1>9 DEF Good, PositionOK, DeviceOK, BufferOK, Size, ByteAt

\* Within a cluster the file's bytes are consecutive on the device.
LEMMA Consecutive ==
  ASSUME vol \in Volumes, NEW h \in Handles, NEW p \in Nat, NEW j \in Nat,
         (p % BytesPerCluster) + j < BytesPerCluster,
         ClusterOffset(vol.chain[h][p \div BytesPerCluster]) \in Int
  PROVE  ByteAt(h, p + j) = ByteAt(h, p) + j
<1>1. /\ (p + j) \div BytesPerCluster = p \div BytesPerCluster
      /\ (p + j) % BytesPerCluster = (p % BytesPerCluster) + j
  BY SameCluster
<1>2. p % BytesPerCluster \in Int
  BY DivMod
<1> QED BY <1>1, <1>2 DEF ByteAt

\* The bytes the device hands over are the file's next ones.
LEMMA DeviceReadIInv ==
  ASSUME Sound, IInv, NEW h \in Handles, DeviceRead(h) PROVE Good(h)'
<1> USE DEF IInv
<1>1. PICK k \in 0 .. BytesPerCluster :
        /\ Fits(h, k)
        /\ buf' = [buf EXCEPT ![h] = @ \o [i \in 1 .. k |-> devPos + i - 1]]
        /\ seekPos' = [seekPos EXCEPT ![h] = (@ + k) % U32]
  BY DEF DeviceRead
<1>2. /\ Good(h) /\ vol \in Volumes /\ vol' = vol /\ pc[h] = "read" /\ pc'[h] = "loop"
      /\ curRel'[h] = curRel[h] /\ curAbs'[h] = curAbs[h] /\ want'[h] = want[h]
      /\ want[h] \in Nat /\ buf[h] \in Seq(Nat) /\ devPos \in Nat
      /\ seekPos[h] \in Nat /\ seekPos[h] < Size(h) /\ Size(h)' = Size(h)
  <2>1. /\ vol' = vol /\ curRel' = curRel /\ curAbs' = curAbs /\ want' = want
        /\ pc[h] = "read" /\ pc'[h] = "loop"
    BY DEF DeviceRead, TypeOK
  <2>2. Good(h) /\ vol \in Volumes /\ seekPos[h] < Size(h)
    BY <2>1 DEF TypeOK, Good, PositionOK
  <2>3. want[h] \in Nat /\ buf[h] \in Seq(Nat) /\ devPos \in Nat /\ seekPos[h] \in Nat
    BY DEF TypeOK
  <2> QED BY <2>1, <2>2, <2>3 DEF Size
<1>3. Size(h) \in 0 .. U32 - 1
  BY <1>2, VolumeTypes
<1>4. Remaining(h) = Size(h) - seekPos[h]
  BY <1>2, RemainingInFile DEF Good
<1>5. seekPos[h] + k <= Size(h) /\ k <= want[h] - Len(buf[h])
  BY <1>1, <1>2, <1>3, <1>4 DEF Fits
<1>6. (seekPos[h] + k) % U32 = seekPos[h] + k
  <2>1. seekPos[h] + k \in 0 .. U32 - 1
    BY <1>2, <1>3, <1>5
  <2> QED BY <2>1
<1>7. seekPos'[h] = seekPos[h] + k
  BY <1>1, <1>6 DEF TypeOK
<1> DEFINE more == [i \in 1 .. k |-> devPos + i - 1]
<1>8. more \in Seq(Nat) /\ Len(more) = k
  BY <1>2
<1>9. buf'[h] = buf[h] \o more
  BY <1>1 DEF TypeOK
<1>10. Len(buf[h]) \in Nat /\ Len(buf'[h]) = Len(buf[h]) + k
  BY <1>2, <1>8, <1>9
<1>11. ASSUME NEW j \in 0 .. k - 1 PROVE devPos + j = ByteAt(h, seekPos[h] + j)
  <2>1. (seekPos[h] % BytesPerCluster) + j < BytesPerCluster
    <3>1. seekPos[h] % BytesPerCluster \in Nat
      BY <1>2, DivMod
    <3>2. k <= BytesPerCluster - (seekPos[h] % BytesPerCluster)
      BY <1>1 DEF Fits
    <3> QED BY <3>1, <3>2
  <2>2. ClusterOffset(vol.chain[h][seekPos[h] \div BytesPerCluster]) \in Int
    <3>1. seekPos[h] \div BytesPerCluster \in DOMAIN vol.chain[h]
      <4>1. seekPos[h] \div BytesPerCluster \in Nat
        BY <1>2, DivMod
      <4>2. \A i \in 0 .. seekPos[h] \div BytesPerCluster : i \in DOMAIN vol.chain[h]
        BY <1>2, ChainFacts
      <4> QED BY <4>1, <4>2
    <3>2. vol.chain[h][seekPos[h] \div BytesPerCluster] \in Int
      BY <1>2, <3>1, ChainFacts DEF DataCluster
    <3> QED BY <3>2 DEF ClusterOffset
  <2>3. devPos = ByteAt(h, seekPos[h])
    BY <1>2 DEF Good, DeviceOK
  <2>4. ByteAt(h, seekPos[h] + j) = ByteAt(h, seekPos[h]) + j
    <3>1. j \in Nat /\ seekPos[h] \in Nat /\ vol \in Volumes
      BY <1>2
    <3> QED BY <3>1, <2>1, <2>2, Consecutive
  <2> QED BY <2>3, <2>4
<1>12. ASSUME NEW i \in 1 .. Len(buf'[h])
       PROVE  buf'[h][i] = ByteAt(h, seekPos'[h] - Len(buf'[h]) + i - 1)
  <2>1. seekPos'[h] - Len(buf'[h]) = seekPos[h] - Len(buf[h])
    BY <1>2, <1>7, <1>10
  <2>2. CASE i <= Len(buf[h])
    <3>1. buf'[h][i] = buf[h][i]
      BY <1>2, <1>8, <1>9, <2>2
    <3>2. i \in 1 .. Len(buf[h])
      BY <1>10, <2>2
    <3>3. buf[h][i] = ByteAt(h, seekPos[h] - Len(buf[h]) + i - 1)
      BY <1>2, <3>2 DEF Good, BufferOK
    <3> QED BY <2>1, <3>1, <3>3
  <2>3. CASE i > Len(buf[h])
    <3> DEFINE j == (i - Len(buf[h])) - 1
    <3>1. j \in 0 .. k - 1
      BY <1>10, <2>3
    <3>2. buf'[h][i] = more[j + 1]
      BY <1>2, <1>8, <1>9, <1>10, <2>3
    <3>3. more[j + 1] = devPos + j
      <4>1. j + 1 \in 1 .. k /\ j \in Int
        BY <3>1
      <4> HIDE DEF j
      <4> QED BY <1>2, <4>1
    <3>4. seekPos'[h] - Len(buf'[h]) + i - 1 = seekPos[h] + j
      BY <1>2, <1>10, <2>1
    <3> QED BY <1>11, <3>1, <3>2, <3>3, <3>4
  <2> QED BY <1>10, <2>2, <2>3
<1>13. BufferOK(h)'
  <2>1. Len(buf'[h]) <= seekPos'[h] /\ Len(buf'[h]) <= want'[h]
    BY <1>2, <1>5, <1>7, <1>10 DEF Good, BufferOK
  <2> QED BY <1>2, <1>12, <2>1 DEF BufferOK, ByteAt
<1>14. PositionOK(h)' /\ DeviceOK(h)'
  BY <1>2, <1>5, <1>7 DEF PositionOK, DeviceOK
<1>15. CursorOK(h)'
  BY <1>2 DEF Good, CursorOK, Place
<1> QED BY <1>13, <1>14, <1>15 DEF Good

\* Every step keeps the invariant: of the handle that takes it, by the lemmas
\* above, and of the others, which it leaves alone.
LEMMA NextIInv == Sound /\ IInv /\ [Next]_vars => IInv'
<1> SUFFICES ASSUME Sound, IInv, [Next]_vars PROVE IInv'
  OBVIOUS
<1>1. TypeOK'
  BY NextTypeOK DEF IInv
<1>2. ASSUME NEW h \in Handles, ReadStep(h) PROVE \A g \in Handles : Good(g)'
  <2>1. ASSUME NEW g \in Handles, g # h PROVE Good(g)'
    BY <1>2, <2>1, ReadStepOthers
  <2>2. Good(h)'
    BY <1>2, ReturnIInv, MapPositionIInv, FollowLinkIInv, NoBrokenLink,
       PanicOnLinkIInv, SeekClusterIInv, DeviceReadIInv DEF ReadStep
  <2> QED BY <2>1, <2>2
<1>3. ASSUME Next PROVE \A g \in Handles : Good(g)'
  BY <1>2, <1>3, OpenIInv, SeekIInv, ReadIInv, AcquireIInv DEF Next
<1>4. ASSUME UNCHANGED vars PROVE \A g \in Handles : Good(g)'
  BY <1>4, Untouched DEF vars, IInv
<1>5. \A g \in Handles : Good(g)'
  BY <1>3, <1>4
<1> QED BY <1>1, <1>5 DEF IInv

\* On undamaged volumes, whose callers stay inside the files, the invariant
\* holds throughout.
LEMMA Invariant == ASSUME Sound PROVE Spec => []IInv
<1>1. Init => IInv
  BY InitIInv
<1>2. IInv /\ [Next]_vars => IInv'
  BY NextIInv
<1> QED BY <1>1, <1>2, PTL DEF Spec

\* The address of a byte of the file is that of a byte it was written to.
LEMMA HoldsByte ==
  ASSUME Sound, vol \in Volumes, NEW h \in Handles, NEW p \in Nat, p < Size(h)
  PROVE  Holds(h, ByteAt(h, p), p)
<1>1. p \div BytesPerCluster \in Nat
  BY DivMod
<1>2. \A j \in 0 .. p \div BytesPerCluster : j \in DOMAIN vol.chain[h]
  BY ChainFacts
<1> QED BY <1>1, <1>2 DEF Holds

\* The cached place in the chain is right whenever a call may use it, also
\* after a device error and while the chain is being followed.
THEOREM CursorStaysOnChain == ASSUME Sound PROVE Spec => []CursorOnChain
<1>1. IInv => CursorOnChain
  BY DEF IInv, Good, CursorOK, CursorOnChain
<1> QED BY <1>1, Invariant, PTL

\* Whenever a handle is about to read the shared device, the device stands at
\* the byte at the handle's position: the chain was followed to the right
\* cluster and no other handle has moved the device in between.
THEOREM PositionIsMapped == ASSUME Sound PROVE Spec => []MapsPosition
<1>1. IInv => MapsPosition
  <2> SUFFICES ASSUME IInv, NEW h \in Handles, pc[h] = "read"
               PROVE  Holds(h, devPos, seekPos[h])
    BY DEF MapsPosition
  <2>1. /\ vol \in Volumes /\ seekPos[h] \in Nat /\ seekPos[h] < Size(h)
        /\ devPos = ByteAt(h, seekPos[h])
    BY DEF IInv, TypeOK, Good, PositionOK, DeviceOK
  <2> QED BY <2>1, HoldsByte
<1> QED BY <1>1, Invariant, PTL

\* A read delivers the bytes of the file in order, from the position on,
\* whatever clusters hold them and however the other handles move the device.
THEOREM OwnBytesDelivered == ASSUME Sound PROVE Spec => []DeliversOwnBytes
<1>1. IInv => DeliversOwnBytes
  <2> SUFFICES ASSUME IInv, NEW h \in Handles, NEW i \in 1 .. Len(buf[h])
               PROVE  Holds(h, buf[h][i], seekPos[h] - Len(buf[h]) + i - 1)
    BY DEF DeliversOwnBytes
  <2> DEFINE p == seekPos[h] - Len(buf[h]) + i - 1
  <2>1. vol \in Volumes /\ seekPos[h] \in Nat /\ buf[h] \in Seq(Nat) /\ Size(h) \in Nat
    BY VolumeTypes DEF IInv, TypeOK
  <2>2. /\ buf[h][i] = ByteAt(h, p)
        /\ Len(buf[h]) <= seekPos[h] /\ seekPos[h] <= Size(h)
    BY DEF IInv, Good, BufferOK, PositionOK
  <2>3. p \in Nat /\ p < Size(h)
    BY <2>1, <2>2
  <2> HIDE DEF p
  <2>4. Holds(h, ByteAt(h, p), p)
    BY <2>1, <2>3, HoldsByte
  <2> QED BY <2>2, <2>4 DEF p
<1> QED BY <1>1, Invariant, PTL

-----------------------------------------------------------------------------
(* Refinement: a handle on an undamaged volume is a file with a position.     *)

Contents == [h \in Handles |-> [i \in 1 .. Size(h) |->
  IF (i - 1) \div BytesPerCluster \in DOMAIN vol.chain[h]
    THEN ByteAt(h, i - 1) ELSE Lost]]
Position == [h \in Handles |-> seekPos[h] - Len(buf[h])]

\* The abstract contents depend on the volume alone, which never changes.
LEMMA ContentsFixed == vol' = vol => Contents' = Contents
BY DEF Contents, Size, ByteAt

\* On an undamaged volume every byte of a file is on its chain.
LEMMA NothingLost ==
  ASSUME Sound, vol \in Volumes, NEW h \in Handles, NEW x \in 1 .. Size(h)
  PROVE  Contents[h][x] = ByteAt(h, x - 1)
<1>1. PICK p \in Nat : p = x - 1
  <2>1. Size(h) \in Nat /\ x \in 1 .. Size(h)
    BY VolumeTypes
  <2>2. x - 1 \in Nat
    BY <2>1
  <2> QED BY <2>2
<1>2. p < Size(h)
  <2>1. Size(h) \in Nat /\ x \in 1 .. Size(h)
    BY VolumeTypes
  <2> QED BY <1>1, <2>1
<1>3. p \div BytesPerCluster \in 0 .. p \div BytesPerCluster
  <2>1. p \div BytesPerCluster \in Nat
    BY DivMod
  <2> QED BY <2>1
<1>4. p \div BytesPerCluster \in DOMAIN vol.chain[h]
  BY <1>2, <1>3, ChainFacts
<1>5. (x - 1) \div BytesPerCluster \in DOMAIN vol.chain[h]
  BY <1>1, <1>4
<1> QED BY <1>5 DEF Contents

\* Handles fresh from File::new are at the start of their abstract files.
LEMMA InitImplements == Init => Abstract!Init
BY DEF Init, Abstract!Init, NoReply, Abstract!NoReply

\* A step inside a read moves neither the abstract position nor the reply.
LEMMA ReadStepStutters ==
  ASSUME IInv, NEW h \in Handles,
         MapPosition(h) \/ FollowLink(h) \/ PanicOnLink(h) \/ Acquire(h)
  PROVE  UNCHANGED <<Contents, Position, reply>>
<1>1. vol' = vol /\ reply' = reply /\ seekPos' = seekPos /\ buf' = buf
  BY DEF MapPosition, FollowLink, PanicOnLink, Acquire, handleVars
<1> QED BY <1>1, ContentsFixed DEF Position

\* Sending the device to a cluster shows nothing to the caller.
LEMMA SeekClusterStutters ==
  ASSUME Sound, IInv, NEW h \in Handles, SeekCluster(h)
  PROVE  UNCHANGED <<Contents, Position, reply>>
<1>1. ClusterAccepted(curAbs[h])
  BY SeekClusterAccepted
<1>2. vol' = vol /\ reply' = reply /\ seekPos' = seekPos /\ buf' = buf
  BY <1>1 DEF SeekCluster
<1> QED BY <1>2, ContentsFixed DEF Position

\* The bytes a read gathers move the position and fill the buffer alike, so the
\* abstract position stays where the read began.
LEMMA DeviceReadStutters ==
  ASSUME Sound, IInv, NEW h \in Handles, DeviceRead(h)
  PROVE  UNCHANGED <<Contents, Position, reply>>
<1>1. vol' = vol /\ reply' = reply
  BY DEF DeviceRead
<1>2. PICK k \in 0 .. BytesPerCluster :
        /\ Fits(h, k)
        /\ buf' = [buf EXCEPT ![h] = @ \o [i \in 1 .. k |-> devPos + i - 1]]
        /\ seekPos' = [seekPos EXCEPT ![h] = (@ + k) % U32]
  BY DEF DeviceRead
<1>3. buf \in [Handles -> Seq(Nat)] /\ seekPos \in [Handles -> 0 .. U32 - 1] /\ devPos \in Nat
  BY DEF IInv, TypeOK
<1>4. (seekPos[h] + k) % U32 = seekPos[h] + k
  <2>1. Size(h) \in 0 .. U32 - 1 /\ Remaining(h) = Size(h) - seekPos[h]
    BY VolumeTypes, RemainingInFile DEF IInv, TypeOK, Good
  <2>2. k <= Remaining(h) /\ seekPos[h] \in Nat
    BY <1>2, <1>3 DEF Fits
  <2>3. seekPos[h] + k \in 0 .. U32 - 1
    BY <2>1, <2>2
  <2> QED BY <2>3
<1>5. Len(buf'[h]) = Len(buf[h]) + k
  <2>1. [i \in 1 .. k |-> devPos + i - 1] \in Seq(Nat)
    BY <1>3
  <2>2. buf'[h] = buf[h] \o [i \in 1 .. k |-> devPos + i - 1] /\ buf[h] \in Seq(Nat)
    BY <1>2, <1>3
  <2> QED BY <2>1, <2>2
<1>6. ASSUME NEW g \in Handles
      PROVE  seekPos'[g] - Len(buf'[g]) = seekPos[g] - Len(buf[g])
  <2>1. CASE g = h
    <3>1. seekPos'[h] = seekPos[h] + k
      BY <1>2, <1>3, <1>4
    <3>2. Len(buf[h]) \in Nat /\ seekPos[h] \in Nat
      BY <1>3
    <3> QED BY <1>5, <2>1, <3>1, <3>2
  <2>2. CASE g # h
    BY <1>2, <1>3, <2>2
  <2> QED BY <2>1, <2>2
<1>7. Position' = Position
  BY <1>6 DEF Position
<1> QED BY <1>1, <1>7, ContentsFixed

\* Seek and the start of a read are abstract seeks: they leave the buffer
\* empty and the reply blank.  So is opening a file again.
LEMMA CallImplements ==
  ASSUME IInv, NEW h \in Handles, Open(h) \/ Seek(h) \/ Read(h)
  PROVE  Abstract!Seek(h) \/ UNCHANGED <<Contents, Position, reply>>
<1>1. vol' = vol /\ buf' = buf /\ buf[h] = <<>>
  <2>1. pc[h] = "idle"
    BY DEF Open, Seek, SeekTo, Read, Usable
  <2>2. buf[h] = <<>> /\ buf \in [Handles -> Seq(Nat)]
    BY <2>1 DEF IInv, Good, BufferOK, TypeOK
  <2> QED BY <2>2 DEF Open, Seek, SeekTo, Read, handleVars
<1>2. CASE seekPos' = seekPos /\ reply' = reply
  BY <1>1, <1>2, ContentsFixed DEF Position
<1>3. TypeOK'
  BY NextTypeOK DEF IInv, Next
<1>4. ASSUME NEW p, seekPos' = [seekPos EXCEPT ![h] = p],
             reply' = [reply EXCEPT ![h] = NoReply]
      PROVE  Abstract!Seek(h)
  <2>1. seekPos \in [Handles -> 0 .. U32 - 1] /\ seekPos' \in [Handles -> 0 .. U32 - 1]
    BY <1>3 DEF IInv, TypeOK
  <2>2. Position'[h] \in Nat
    BY <1>1, <2>1 DEF Position
  <2>3. Position' = [Position EXCEPT ![h] = Position'[h]]
    BY <1>1, <1>4, <2>1 DEF Position
  <2> QED BY <1>1, <1>4, <2>2, <2>3, ContentsFixed
      DEF Abstract!Seek, NoReply, Abstract!NoReply, Position, Contents
<1>5. CASE Open(h)
  BY <1>2, <1>4, <1>5 DEF Open
<1>6. CASE Seek(h)
  BY <1>4, <1>6 DEF Seek, SeekTo
<1>7. CASE Read(h)
  <2>1. seekPos' = [seekPos EXCEPT ![h] = seekPos[h]]
    BY <1>7 DEF Read, handleVars, IInv, TypeOK
  <2> QED BY <1>4, <1>7, <2>1 DEF Read
<1> QED BY <1>5, <1>6, <1>7

\* What a read has gathered stays within what was asked for and what is left of
\* the file, so the abstract position plus the bytes gathered is in the file.
LEMMA Gathered ==
  ASSUME Sound, IInv, NEW h \in Handles
  PROVE  /\ Position[h] \in Nat /\ Len(buf[h]) \in Nat /\ want[h] \in Nat
         /\ Size(h) \in Nat /\ Len(Contents[h]) = Size(h)
         /\ Position[h] + Len(buf[h]) = seekPos[h] /\ seekPos[h] <= Size(h)
         /\ Len(buf[h]) <= want[h]
<1>1. Size(h) \in Nat /\ buf[h] \in Seq(Nat) /\ seekPos[h] \in Nat /\ want[h] \in Nat
  BY VolumeTypes DEF IInv, TypeOK
<1>2. Len(buf[h]) <= seekPos[h] /\ Len(buf[h]) <= want[h] /\ seekPos[h] <= Size(h)
  BY DEF IInv, Good, BufferOK, PositionOK
<1> DEFINE byte(i) == IF (i - 1) \div BytesPerCluster \in DOMAIN vol.chain[h]
                         THEN ByteAt(h, i - 1) ELSE Lost
<1>3. Contents[h] = [i \in 1 .. Size(h) |-> byte(i)]
  BY DEF Contents
<1>4. Len(Contents[h]) = Size(h)
  <2> HIDE DEF byte
  <2>1. Len([i \in 1 .. Size(h) |-> byte(i)]) = Size(h)
    BY <1>1
  <2> QED BY <1>3, <2>1 DEF byte
<1> QED BY <1>1, <1>2, <1>4 DEF Position

\* A finished read returns what ByteFile says: all that was asked for, unless
\* the file ended first.
LEMMA FinishImplements ==
  ASSUME Sound, IInv, NEW h \in Handles, FinishRead(h) PROVE Abstract!ReadOk(h)
<1> DEFINE ahead == IF Position[h] > Size(h) THEN 0 ELSE Size(h) - Position[h]
           count == IF want[h] < ahead THEN want[h] ELSE ahead
           answer == [kind |-> "ok", want |-> want[h], data |-> buf[h]]
<1>1. /\ vol' = vol /\ seekPos' = seekPos /\ buf' = [buf EXCEPT ![h] = <<>>]
      /\ reply' = [reply EXCEPT ![h] = answer]
      /\ LoopDone(h)
  BY DEF FinishRead, Return, handleVars
<1>2. /\ reply \in [Handles -> Reply] /\ buf \in [Handles -> Seq(Nat)]
      /\ seekPos \in [Handles -> 0 .. U32 - 1]
  BY DEF IInv, TypeOK
<1>3. Len(buf[h]) = count
  <2>1. Remaining(h) = Size(h) - seekPos[h]
    BY RemainingInFile DEF IInv, Good
  <2>2. Len(buf[h]) >= want[h] \/ Size(h) - seekPos[h] = 0
    BY <1>1, <2>1 DEF LoopDone
  <2>3. /\ Position[h] \in Nat /\ Len(buf[h]) \in Nat /\ want[h] \in Nat
        /\ Size(h) \in Nat /\ Position[h] + Len(buf[h]) = seekPos[h]
        /\ seekPos[h] <= Size(h) /\ Len(buf[h]) <= want[h]
    BY Gathered
  <2>4. ahead = Size(h) - Position[h]
    BY <2>3
  <2> QED BY <2>2, <2>3, <2>4
<1>4. buf[h] = [i \in 1 .. count |-> Contents[h][Position[h] + i]]
  <2>1. ASSUME NEW i \in 1 .. Len(buf[h]) PROVE buf[h][i] = Contents[h][Position[h] + i]
    <3>1. Position[h] = seekPos[h] - Len(buf[h])
      BY DEF Position
    <3>2. buf[h][i] = ByteAt(h, seekPos[h] - Len(buf[h]) + i - 1)
      BY DEF IInv, Good, BufferOK
    <3>3. Position[h] + i \in 1 .. Size(h)
      BY Gathered
    <3>4. Contents[h][Position[h] + i] = ByteAt(h, Position[h] + i - 1)
      <4>1. vol \in Volumes
        BY DEF IInv, TypeOK
      <4>2. \A x \in 1 .. Size(h) : Contents[h][x] = ByteAt(h, x - 1)
        BY <4>1, NothingLost
      <4>3. Position[h] \in Nat
        BY Gathered
      <4> QED BY <3>3, <4>2, <4>3
    <3>5. Position[h] + i - 1 = seekPos[h] - Len(buf[h]) + i - 1
      BY <3>1
    <3> QED BY <3>2, <3>4, <3>5, Zenon
  <2>2. buf[h] = [i \in 1 .. Len(buf[h]) |-> buf[h][i]]
    BY <1>2
  <2> QED BY <1>3, <2>1, <2>2
<1>5. Position' = [Position EXCEPT ![h] = @ + count]
  <2>1. Position'[h] = Position[h] + count
    <3>1. buf'[h] = <<>> /\ seekPos'[h] = seekPos[h] /\ Len(<<>>) = 0
      BY <1>1, <1>2
    <3>2. Position'[h] = seekPos[h]
      BY <1>2, <3>1 DEF Position
    <3> QED BY <1>3, <3>2, Gathered
  <2>2. ASSUME NEW g \in Handles, g # h PROVE Position'[g] = Position[g]
    BY <1>1, <1>2, <2>2 DEF Position
  <2> HIDE DEF count
  <2> QED BY <2>1, <2>2 DEF Position
<1>6. reply'[h] = answer /\ reply'[h].want = want[h] /\ want[h] \in Nat
  BY <1>1, <1>2, Gathered
<1>7. ASSUME NEW i \in 1 .. count PROVE Contents[h][Position[h] + i] # Lost
  <2> HIDE DEF count
  <2>1. buf[h][i] = Contents[h][Position[h] + i]
    BY <1>4
  <2>2. i \in 1 .. Len(buf[h])
    BY <1>3
  <2>3. buf[h][i] \in Nat
    BY <1>2, <2>2
  <2> QED BY <2>1, <2>3 DEF Lost
<1> QED BY <1>1, <1>4, <1>5, <1>6, <1>7, ContentsFixed, Gathered
    DEF Abstract!ReadOk, Abstract!Ahead, Abstract!Least, Position, Contents

\* A read that fails has moved past no more than it was asked for.
LEMMA ErrorImplements ==
  ASSUME Sound, IInv, NEW h \in Handles, DeviceError(h) PROVE Abstract!ReadFailed(h)
<1> DEFINE ahead == IF Position[h] > Size(h) THEN 0 ELSE Size(h) - Position[h]
           count == IF want[h] < ahead THEN want[h] ELSE ahead
           answer == [kind |-> "err", want |-> want[h], data |-> <<>>]
<1>1. /\ vol' = vol /\ seekPos' = seekPos /\ buf' = [buf EXCEPT ![h] = <<>>]
      /\ reply' = [reply EXCEPT ![h] = answer]
  BY DEF DeviceError, Return, handleVars
<1>2. /\ reply \in [Handles -> Reply] /\ buf \in [Handles -> Seq(Nat)]
      /\ seekPos \in [Handles -> 0 .. U32 - 1]
  BY DEF IInv, TypeOK
<1>3. Position'[h] = seekPos[h]
  <2>1. buf'[h] = <<>> /\ seekPos'[h] = seekPos[h] /\ Len(<<>>) = 0
    BY <1>1, <1>2
  <2> QED BY <1>2, <2>1 DEF Position
<1>4. Position'[h] \in Position[h] .. Position[h] + count
  BY <1>3, Gathered
<1>5. Position' = [Position EXCEPT ![h] = Position'[h]]
  BY <1>1, <1>2 DEF Position
<1>6. reply'[h] = answer /\ reply'[h].want = want[h] /\ want[h] \in Nat
  BY <1>1, <1>2, Gathered
<1>7. /\ reply'[h].kind \in {"err", "corrupt"}
      /\ reply' = [reply EXCEPT ![h] =
           [kind |-> reply'[h].kind, want |-> reply'[h].want, data |-> <<>>]]
  <2>1. reply'[h].kind = "err" /\ reply'[h].want = want[h]
    BY <1>6
  <2>2. [kind |-> reply'[h].kind, want |-> reply'[h].want, data |-> <<>>] = answer
    BY <2>1
  <2> HIDE DEF answer
  <2> QED BY <1>1, <2>1, <2>2
<1> QED BY <1>1, <1>4, <1>5, <1>6, <1>7, ContentsFixed, Gathered
    DEF Abstract!ReadFailed, Abstract!Ahead, Abstract!Least, Position, Contents

\* Every step of a handle is a step of the abstract file or leaves it alone.
LEMMA StepImplements ==
  ASSUME Sound, IInv, [Next]_vars PROVE [Abstract!Next]_Abstract!vars
<1> SUFFICES ASSUME Sound, IInv, [Next]_vars
             PROVE  Abstract!Next \/ UNCHANGED <<Contents, Position, reply>>
  BY DEF Abstract!vars, Contents, Position
<1>1. ASSUME NEW h \in Handles, Open(h) \/ Seek(h) \/ Read(h)
      PROVE  Abstract!Next \/ UNCHANGED <<Contents, Position, reply>>
  BY <1>1, CallImplements DEF Abstract!Next
<1>2. ASSUME NEW h \in Handles, FinishRead(h) \/ DeviceError(h)
      PROVE  Abstract!Next
  BY <1>2, FinishImplements, ErrorImplements DEF Abstract!Next
<1>3. ASSUME NEW h \in Handles, SeekCluster(h)
      PROVE  UNCHANGED <<Contents, Position, reply>>
  BY <1>3, SeekClusterStutters
<1>4. CASE UNCHANGED vars
  BY <1>4, ContentsFixed DEF vars, Position
<1> QED BY <1>1, <1>2, <1>3, <1>4, ReadStepStutters, DeviceReadStutters, NoBrokenLink
    DEF Next, ReadStep

\* On undamaged volumes, seeks and reads through cached cluster chains, on one
\* device position shared by all handles, are those of a plain file.
THEOREM Implementation == ASSUME Sound PROVE Spec => ImplementsByteFile
<1>1. Init => Abstract!Init
  BY InitImplements
<1>2. IInv /\ [Next]_vars => [Abstract!Next]_Abstract!vars
  BY StepImplements
<1> QED BY <1>1, <1>2, Invariant, PTL DEF Spec, Abstract!Spec, ImplementsByteFile
=============================================================================
