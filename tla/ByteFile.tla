------------------------------ MODULE ByteFile ------------------------------
(***************************************************************************)
(* What an open file promises its callers, whatever clusters it is stored  *)
(* in: std::io::Read and std::io::Seek over a fixed sequence of bytes.     *)
(* Each handle has a position.  A read hands out the bytes at the          *)
(* position, as many as asked for unless the file ends first, and moves    *)
(* past them.  A read that fails may have moved the position, never past   *)
(* the bytes it was asked for.  A damaged disk may have lost bytes of a     *)
(* file: a read never hands out something else in their place.             *)
(***************************************************************************)
EXTENDS Integers, Sequences

CONSTANTS
  Handles,
  Lost  \* the content of a byte that can no longer be read

VARIABLES
  content,  \* content[h]: the bytes of the file h is open on
  pos,      \* pos[h]: where the next read starts
  reply     \* reply[h]: what the last call on h returned

vars == <<content, pos, reply>>

NoReply == [kind |-> "none", want |-> 0, data |-> <<>>]

Ahead(h) == IF pos[h] > Len(content[h]) THEN 0 ELSE Len(content[h]) - pos[h]
Least(m, n) == IF m < n THEN m ELSE n

Init ==
  /\ pos = [h \in Handles |-> 0]
  /\ reply = [h \in Handles |-> NoReply]

\* A seek to any position, or a refused one.
Seek(h) ==
  /\ pos'[h] \in Nat
  /\ pos' = [pos EXCEPT ![h] = pos'[h]]
  /\ reply' = [reply EXCEPT ![h] = NoReply]
  /\ UNCHANGED content

ReadOk(h) ==
  LET want == reply'[h].want
      count == Least(want, Ahead(h))
  IN /\ want \in Nat
     /\ \A i \in 1 .. count : content[h][pos[h] + i] # Lost
     /\ reply' = [reply EXCEPT ![h] =
          [kind |-> "ok", want |-> want,
           data |-> [i \in 1 .. count |-> content[h][pos[h] + i]]]]
     /\ pos' = [pos EXCEPT ![h] = @ + count]
     /\ UNCHANGED content

ReadFailed(h) ==
  LET want == reply'[h].want
  IN /\ want \in Nat
     /\ reply'[h].kind \in {"err", "corrupt"}
     /\ reply' = [reply EXCEPT ![h] =
          [kind |-> reply'[h].kind, want |-> want, data |-> <<>>]]
     /\ pos'[h] \in pos[h] .. pos[h] + Least(want, Ahead(h))
     /\ pos' = [pos EXCEPT ![h] = pos'[h]]
     /\ UNCHANGED content

Next == \E h \in Handles : Seek(h) \/ ReadOk(h) \/ ReadFailed(h)

Spec == Init /\ [][Next]_vars
=============================================================================
