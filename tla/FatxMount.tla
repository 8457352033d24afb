----------------------------- MODULE FatxMount -----------------------------
(***************************************************************************)
(* The FATX tab: one button that mounts or unmounts, as the flag is-mounted*)
(* of the window says (ui/app.slint), its two handlers in src/main.rs, the *)
(* thread that each click on Mount starts, the slot mount_session they     *)
(* share behind a mutex, and the queue of closures with which threads      *)
(* reach the window (upgrade_in_event_loop).                               *)
(*                                                                         *)
(* The handlers and the queued closures run one at a time on the window's  *)
(* thread.  A thread fills the slot and queues its closure while it holds  *)
(* the mutex, and the unmount handler works under the same mutex, so each  *)
(* of these is one step.                                                   *)
(***************************************************************************)
EXTENDS Integers, Sequences, FiniteSets

None == "none"

CONSTANTS
  Mounts,    \* names for mount attempts and their sessions
  MaxQueued  \* bound: closures queued and attempts under way

ASSUME MountAssumption ==
  /\ None \notin Mounts
  /\ MaxQueued \in Nat

VARIABLES
  pathsChosen,  \* fatx-img-path and fatx-mount-path are not empty
  isMounted,    \* fatx-is-mounted
  status,       \* fatx-status
  session,      \* mount_session: Some(BackgroundSession), or None
  attempt,      \* attempt[m]: where the thread of attempt m stands
  queue,        \* closures queued for the window's thread
  live,         \* FUSE sessions the kernel knows
  overlapped    \* history, for the properties: Mount was clicked while an
                \* attempt was under way

vars == <<pathsChosen, isMounted, status, session, attempt, queue, live, overlapped>>

Running(m) == attempt[m] # "idle"
Unused(m) == ~Running(m) /\ m \notin live /\ session # m

\* The window still says "Mounting FUSE filesystem..." for a reason.
UnderWay == (\E m \in Mounts : Running(m)) \/ queue # <<>>

Init ==
  /\ pathsChosen = FALSE
  /\ isMounted = FALSE
  /\ status = "ready"
  /\ session = None
  /\ attempt = [m \in Mounts |-> "idle"]
  /\ queue = <<>>
  /\ live = {}
  /\ overlapped = FALSE

\* The two file dialogs; cancelling one changes nothing.
ChoosePaths ==
  /\ ~pathsChosen
  /\ pathsChosen' = TRUE
  /\ UNCHANGED <<isMounted, status, session, attempt, queue, live, overlapped>>

\* The button while is-mounted is false.
ClickMount ==
  /\ ~isMounted
  /\ \/ /\ ~pathsChosen
        /\ status' = "error"
        /\ UNCHANGED <<attempt, overlapped>>
     \/ /\ pathsChosen
        /\ Cardinality({m \in Mounts : Running(m)}) + Len(queue) < MaxQueued
        /\ status' = "mounting"
        /\ \E m \in Mounts :
             /\ Unused(m)
             /\ attempt' = [attempt EXCEPT ![m] = "opening"]
        /\ overlapped' = (overlapped \/ UnderWay)
  /\ UNCHANGED <<pathsChosen, isMounted, session, queue, live>>

\* Mutants of what follows: the session is dropped but the button stays; a
\* failed attempt is not reported; a session that is replaced is not dropped;
\* the closure is queued before the slot is filled.
UnmountKeepsFlag ==
  /\ isMounted
  /\ session' = None
  /\ status' = "unmounted"
  /\ live' = live \ {session}
  /\ UNCHANGED <<pathsChosen, isMounted, attempt, queue, overlapped>>
MountFailsSilently(m) ==
  /\ attempt[m] = "opening"
  /\ attempt' = [attempt EXCEPT ![m] = "idle"]
  /\ UNCHANGED <<pathsChosen, isMounted, status, session, queue, live, overlapped>>
StoreLeaks(m) ==
  /\ attempt[m] = "opened"
  /\ session' = m
  /\ queue' = Append(queue, "mounted")
  /\ attempt' = [attempt EXCEPT ![m] = "idle"]
  /\ UNCHANGED <<pathsChosen, isMounted, status, live, overlapped>>
StoreAfterPosting(m) ==
  /\ attempt[m] \in {"opened", "posted"}
  /\ IF attempt[m] = "opened"
       THEN /\ queue' = Append(queue, "mounted")
            /\ attempt' = [attempt EXCEPT ![m] = "posted"]
            /\ UNCHANGED <<session, live>>
       ELSE /\ session' = m
            /\ live' = live \ {session}
            /\ attempt' = [attempt EXCEPT ![m] = "idle"]
            /\ UNCHANGED queue
  /\ UNCHANGED <<pathsChosen, isMounted, status, overlapped>>

\* The button while is-mounted is true.  With an empty slot nothing happens.
ClickUnmount ==
  /\ isMounted
  /\ session # None
  /\ session' = None
  /\ isMounted' = FALSE
  /\ status' = "unmounted"
  /\ live' = live \ {session}
  /\ UNCHANGED <<pathsChosen, attempt, queue, overlapped>>

\* mount_fatx: the volume opens and the FUSE session starts, or an error is
\* queued for the window and the thread ends.
MountSucceeds(m) ==
  /\ attempt[m] = "opening"
  /\ attempt' = [attempt EXCEPT ![m] = "opened"]
  /\ live' = live \cup {m}
  /\ UNCHANGED <<pathsChosen, isMounted, status, session, queue, overlapped>>

MountFails(m) ==
  /\ attempt[m] = "opening"
  /\ attempt' = [attempt EXCEPT ![m] = "idle"]
  /\ queue' = Append(queue, "failed")
  /\ UNCHANGED <<pathsChosen, isMounted, status, session, live, overlapped>>

\* Filling the slot drops the session that was in it, which unmounts it.
Store(m) ==
  /\ attempt[m] = "opened"
  /\ session' = m
  /\ live' = live \ {session}
  /\ queue' = Append(queue, "mounted")
  /\ attempt' = [attempt EXCEPT ![m] = "idle"]
  /\ UNCHANGED <<pathsChosen, isMounted, status, overlapped>>

\* The window's thread runs the oldest closure.
RunClosure ==
  /\ queue # <<>>
  /\ isMounted' = (isMounted \/ Head(queue) = "mounted")
  /\ status' = Head(queue)
  /\ queue' = Tail(queue)
  /\ UNCHANGED <<pathsChosen, session, attempt, live, overlapped>>

\* A FUSE session ends by itself: unmounted from outside the program, or its
\* thread has panicked.  Nothing tells the window.
SessionEnds(m) ==
  /\ m \in live
  /\ live' = live \ {m}
  /\ UNCHANGED <<pathsChosen, isMounted, status, session, attempt, queue, overlapped>>

ThreadStep(m) == MountSucceeds(m) \/ MountFails(m) \/ Store(m)

Next ==
  \/ ChoosePaths \/ ClickMount \/ ClickUnmount \/ RunClosure
  \/ \E m \in Mounts : ThreadStep(m) \/ SessionEnds(m)

Spec == Init /\ [][Next]_vars

\* Threads run, mount_fatx returns, and the window handles its events.  Nothing
\* makes the user click.
FairSpec ==
  /\ Spec
  /\ WF_vars(RunClosure)
  /\ \A m \in Mounts : WF_vars(ThreadStep(m))

-----------------------------------------------------------------------------
(* Properties. *)

TypeOK ==
  /\ pathsChosen \in BOOLEAN
  /\ isMounted \in BOOLEAN
  /\ status \in {"ready", "error", "mounting", "mounted", "failed", "unmounted"}
  /\ session \in Mounts \cup {None}
  /\ attempt \in [Mounts -> {"idle", "opening", "opened"}]
  /\ queue \in Seq({"mounted", "failed"})
  /\ live \subseteq Mounts
  /\ overlapped \in BOOLEAN

\* Every FUSE session the kernel serves has an owner that can end it: the slot,
\* or the thread that is about to put it there.
NoOrphanMount == \A m \in live : m = session \/ attempt[m] = "opened"

\* "Mounted! Open file manager to browse.": while the window says so, or offers
\* Unmount, there is a session to browse or to drop.
MountedIsTrue == status = "mounted" \/ isMounted => session # None

\* It is true as long as the user lets each attempt end before the next; and
\* when nothing is under way, the button then offers what can be done: Unmount
\* exactly when there is a session.
OneAtATime ==
  ~overlapped => /\ MountedIsTrue
                 /\ ~UnderWay => (isMounted <=> session # None)

\* A user who is told "Mounting FUSE filesystem..." is told how it ended.
MountSettles == status = "mounting" ~> status # "mounting"
=============================================================================
