-------------------------- MODULE FatxMount_proofs --------------------------
(***************************************************************************)
(* Proofs about FatxMount, for any number of attempts: types, that no FUSE *)
(* session is orphaned, and that the window tells the truth as long as     *)
(* attempts do not overlap.                                                *)
(***************************************************************************)
EXTENDS FatxMount, SequenceTheorems, TLAPS

USE MountAssumption DEF None

\* The closures that threads queue.
Closure == {"mounted", "failed"}

\* Every click, closure and step of a thread keeps the types.
LEMMA NextTypeOK == TypeOK /\ [Next]_vars => TypeOK'
<1> SUFFICES ASSUME TypeOK, [Next]_vars PROVE TypeOK'
  OBVIOUS
<1> USE DEF TypeOK
<1>1. CASE ChoosePaths
  BY <1>1 DEF ChoosePaths
<1>2. CASE ClickMount
  BY <1>2 DEF ClickMount, UnderWay, Running
<1>3. CASE ClickUnmount
  BY <1>3 DEF ClickUnmount
<1>4. CASE RunClosure
  <2>1. Head(queue) \in Closure /\ Tail(queue) \in Seq(Closure)
    BY <1>4, HeadTailProperties DEF RunClosure, Closure
  <2> QED BY <1>4, <2>1 DEF RunClosure, Closure
<1>5. ASSUME NEW m \in Mounts, ThreadStep(m) PROVE TypeOK'
  <2>1. CASE MountSucceeds(m)
    BY <2>1 DEF MountSucceeds
  <2>2. CASE MountFails(m)
    BY <2>2 DEF MountFails
  <2>3. CASE Store(m)
    BY <2>3 DEF Store
  <2> QED BY <1>5, <2>1, <2>2, <2>3 DEF ThreadStep
<1>6. ASSUME NEW m \in Mounts, SessionEnds(m) PROVE TypeOK'
  BY <1>6 DEF SessionEnds
<1>7. CASE UNCHANGED vars
  BY <1>7 DEF vars
<1> QED BY <1>1, <1>2, <1>3, <1>4, <1>5, <1>6, <1>7 DEF Next

\* The state keeps its types.
THEOREM TypeCorrect == Spec => []TypeOK
<1>1. Init => TypeOK
  <2>1. <<>> \in Seq(Closure)
    BY EmptySeq
  <2> QED BY <2>1 DEF Init, TypeOK, Closure
<1> QED BY <1>1, NextTypeOK, PTL DEF Spec

-----------------------------------------------------------------------------
\* A session becomes live in the hands of its thread, passes from there to the
\* slot, and is ended by whatever takes it out of the slot.
LEMMA NextNoOrphan == TypeOK /\ NoOrphanMount /\ [Next]_vars => NoOrphanMount'
<1> SUFFICES ASSUME TypeOK, NoOrphanMount, [Next]_vars, NEW m \in live'
             PROVE  m = session' \/ attempt'[m] = "opened"
  BY DEF NoOrphanMount
<1> USE DEF TypeOK, NoOrphanMount
<1>0. m \in Mounts
  BY NextTypeOK
<1>1. CASE ChoosePaths
  BY <1>1 DEF ChoosePaths
<1>2. CASE ClickMount
  <2>1. live' = live /\ session' = session
    BY <1>2 DEF ClickMount
  <2>2. CASE attempt' = attempt
    BY <2>1, <2>2
  <2>3. ASSUME NEW n \in Mounts, Unused(n), attempt' = [attempt EXCEPT ![n] = "opening"]
        PROVE  m = session' \/ attempt'[m] = "opened"
    BY <2>1, <2>3 DEF Unused
  <2> QED BY <1>2, <2>2, <2>3 DEF ClickMount
<1>3. CASE ClickUnmount
  BY <1>3 DEF ClickUnmount
<1>4. CASE RunClosure
  BY <1>4 DEF RunClosure
<1>5. ASSUME NEW n \in Mounts, ThreadStep(n)
      PROVE  m = session' \/ attempt'[m] = "opened"
  <2>1. CASE MountSucceeds(n)
    BY <1>0, <2>1 DEF MountSucceeds
  <2>2. CASE MountFails(n)
    BY <1>0, <2>2 DEF MountFails
  <2>3. CASE Store(n)
    BY <1>0, <2>3 DEF Store
  <2> QED BY <1>5, <2>1, <2>2, <2>3 DEF ThreadStep
<1>6. ASSUME NEW n \in Mounts, SessionEnds(n)
      PROVE  m = session' \/ attempt'[m] = "opened"
  BY <1>6 DEF SessionEnds
<1>7. CASE UNCHANGED vars
  BY <1>7 DEF vars
<1> QED BY <1>1, <1>2, <1>3, <1>4, <1>5, <1>6, <1>7 DEF Next

\* However clicks, attempts and their closures interleave, each FUSE session
\* that is live is in the slot or about to be put there: none is out of reach
\* of the Unmount button for good.
THEOREM NoOrphans == Spec => []NoOrphanMount
<1>1. Init => NoOrphanMount
  BY DEF Init, NoOrphanMount
<1> QED BY <1>1, NextNoOrphan, TypeCorrect, PTL DEF Spec

-----------------------------------------------------------------------------
(* While attempts do not overlap, at most one of them runs, and nothing is    *)
(* queued until it is over; then one closure is, which matches the slot.      *)

Alone ==
  /\ \A m, n \in Mounts : Running(m) /\ Running(n) => m = n
  /\ UnderWay => ~isMounted
  /\ (\E m \in Mounts : Running(m)) => queue = <<>> /\ session = None
  /\ queue # <<>> => Len(queue) = 1 /\ (Head(queue) = "mounted" <=> session # None)
  /\ ~UnderWay => (isMounted <=> session # None)
  /\ status = "mounted" => session # None

AloneUnlessOverlapped == ~overlapped => Alone

\* A closure queued on the empty queue is alone there.
LEMMA QueueOne ==
  ASSUME NEW c
  PROVE  LET q == Append(<<>>, c) IN q # <<>> /\ Len(q) = 1 /\ Head(q) = c
OBVIOUS

\* As long as no attempt is started while another is under way, each step
\* keeps what Alone says of the one there is.
LEMMA NextAlone == TypeOK /\ AloneUnlessOverlapped /\ [Next]_vars => AloneUnlessOverlapped'
<1> SUFFICES ASSUME TypeOK, AloneUnlessOverlapped, [Next]_vars, ~overlapped' PROVE Alone'
  BY DEF AloneUnlessOverlapped
<1>0. ~overlapped /\ Alone
  <2>1. ~overlapped
    BY DEF Next, ChoosePaths, ClickMount, ClickUnmount, RunClosure, ThreadStep,
           MountSucceeds, MountFails, Store, SessionEnds, vars, TypeOK
  <2> QED BY <2>1 DEF AloneUnlessOverlapped
<1> USE <1>0 DEF TypeOK, Alone, UnderWay, Running
<1>1. CASE ChoosePaths
  BY <1>1 DEF ChoosePaths
<1>2. CASE ClickMount
  <2>1. CASE attempt' = attempt
    BY <1>2, <2>1 DEF ClickMount
  <2>2. ASSUME NEW m \in Mounts, attempt' = [attempt EXCEPT ![m] = "opening"], ~UnderWay,
               status' = "mounting"
        PROVE  Alone'
    BY <1>2, <2>2 DEF ClickMount
  <2> QED BY <1>2, <2>1, <2>2 DEF ClickMount
<1>3. CASE ClickUnmount
  BY <1>3 DEF ClickUnmount
<1>4. CASE RunClosure
  <2>1. queue # <<>> /\ Len(queue) = 1 /\ (Head(queue) = "mounted" <=> session # None)
    BY <1>4 DEF RunClosure
  <2>2. Tail(queue) = <<>>
    <3>1. Tail(queue) \in Seq(Closure) /\ Len(Tail(queue)) = Len(queue) - 1
      BY <2>1, HeadTailProperties DEF Closure
    <3>2. Len(Tail(queue)) = 0
      BY <2>1, <3>1
    <3> HIDE DEF TypeOK, Alone, UnderWay, Running
    <3> QED BY <3>1, <3>2, EmptySeq
  <2>3. \A m \in Mounts : ~Running(m)
    BY <2>1
  <2>4. /\ isMounted' = (Head(queue) = "mounted") /\ status' = Head(queue)
        /\ queue' = <<>> /\ session' = session /\ attempt' = attempt
    BY <1>4, <2>1, <2>2 DEF RunClosure
  <2> QED BY <2>1, <2>3, <2>4
<1>5. ASSUME NEW m \in Mounts, ThreadStep(m) PROVE Alone'
  <2>1. CASE MountSucceeds(m)
    BY <2>1 DEF MountSucceeds
  <2>2. CASE MountFails(m)
    <3>1. queue' # <<>> /\ Len(queue') = 1 /\ Head(queue') = "failed"
      BY <2>2, QueueOne DEF MountFails
    <3> QED BY <2>2, <3>1 DEF MountFails
  <2>3. CASE Store(m)
    <3>1. queue' # <<>> /\ Len(queue') = 1 /\ Head(queue') = "mounted"
      BY <2>3, QueueOne DEF Store
    <3> QED BY <2>3, <3>1 DEF Store
  <2> QED BY <1>5, <2>1, <2>2, <2>3 DEF ThreadStep
<1>6. ASSUME NEW m \in Mounts, SessionEnds(m) PROVE Alone'
  BY <1>6 DEF SessionEnds
<1>7. CASE UNCHANGED vars
  BY <1>7 DEF vars
<1> QED BY <1>1, <1>2, <1>3, <1>4, <1>5, <1>6, <1>7 DEF Next

\* A user who lets every attempt end before the next click is told the truth:
\* "Mounted" and the Unmount button mean that there is a session, and at rest
\* the button offers Mount exactly when there is none.
THEOREM TruthfulOneAtATime == Spec => []OneAtATime
<1>1. Init => AloneUnlessOverlapped
  BY DEF Init, AloneUnlessOverlapped, Alone, UnderWay, Running
<1>2. AloneUnlessOverlapped => OneAtATime
  BY DEF AloneUnlessOverlapped, Alone, OneAtATime, MountedIsTrue, UnderWay
<1> QED BY <1>1, <1>2, NextAlone, TypeCorrect, PTL DEF Spec
=============================================================================
