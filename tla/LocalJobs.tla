----------------------------- MODULE LocalJobs ------------------------------
(***************************************************************************)
(* What the tools that work on the local disk have in common.  Each click  *)
(* on Extract, Build or Upload starts a job of its own (src/main.rs), a    *)
(* task of the runtime or a thread; the buttons are not disabled, and jobs *)
(* share nothing but the disk.                                             *)
(***************************************************************************)
EXTENDS FileTree

CONSTANT Jobs

VARIABLES
  job,   \* job[j]: what is chosen for job j, a record [kind, sources, dest]
  disk,  \* the local disk, a FileTree
  work   \* work[j]: where job j stands, a record with a phase

Phase(j) == work[j].phase
Is(j, kind, phase) == job[j].kind = kind /\ Phase(j) = phase

Idle == [phase |-> "idle"]

\* The first record, and what the second has beyond it.
Over(fields, more) ==
  [f \in DOMAIN fields \cup DOMAIN more |-> IF f \in DOMAIN fields THEN fields[f] ELSE more[f]]

\* The fields of job j that change; the quantifier has TLC work them out once.
Put(j, fields) == \E new \in {fields} : work' = [work EXCEPT ![j] = Over(new, @)]
Goto(j, phase) == Put(j, [phase |-> phase])
Fail(j) == Goto(j, "failed")

\* The dialogs give one folder, or one file or more.
Source(j) == job[j].sources[1]
Dest(j) == job[j].dest
=============================================================================
