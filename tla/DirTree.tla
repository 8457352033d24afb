------------------------------ MODULE DirTree -------------------------------
(***************************************************************************)
(* What FatxFsHandle promises of stat, open and read_dir, whatever clusters *)
(* directories are stored in: each answers for a path in a tree of entries. *)
(* On a volume that is damaged, or whose device fails, a call may fail, but  *)
(* what it does say is true of the tree that was written: an entry is the    *)
(* one that the path names, "not found" means that there is none, and a      *)
(* listing leaves out entries only at its end.                               *)
(***************************************************************************)
EXTENDS DirAnswers

CONSTANT
  Requests  \* calls considered: [op : {"stat", "open", "list"}, path : Seq(component)]

VARIABLES
  tree,     \* see DirAnswers; never changes
  request,  \* the call last made
  reply     \* its outcome, NoReply while there is none

vars == <<tree, request, reply>>

NoReply == [kind |-> "none"]

Init == request \in Requests /\ reply = NoReply

Ask ==
  /\ reply # NoReply
  /\ request' \in Requests
  /\ reply' = NoReply
  /\ UNCHANGED tree

\* What a call may come back with when a chain breaks, or the device fails,
\* before it is done.
FallsShort(outcome, answer) ==
  \/ /\ outcome.kind = "error"
     /\ outcome.error \in {"InvalidClusterChain", "InvalidClusterNumber", "Io"}
  \/ /\ outcome.kind = "list" /\ answer.kind = "list"
     /\ IsPrefix(outcome.entries, answer.entries)

Respond ==
  /\ reply = NoReply
  /\ LET answer == Answer(tree, request)
     IN \/ reply' = answer
        \/ tree.damaged /\ reply' # NoReply /\ FallsShort(reply', answer)
  /\ UNCHANGED <<tree, request>>

Spec == Init /\ [][Ask \/ Respond]_vars
=============================================================================
