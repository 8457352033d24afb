----------------------------- MODULE GodConvert -----------------------------
(***************************************************************************)
(* Batches of ISO to GOD conversions: the thread that a click on Convert   *)
(* starts (src/main.rs) and convert_iso_to_god (src/iso2god_runner.rs).  A *)
(* conversion empties the title's data directory, writes its part files in *)
(* parallel, then links their hash tables from the last part to the first, *)
(* and writes the header.  Any step that uses a file may fail.             *)
(***************************************************************************)
EXTENDS Integers, Sequences, FiniteSets

CONSTANTS
  Batches,   \* clicks on Convert
  Files,     \* Files[b]: the ISOs of the batch, a sequence of records [dir,
             \* parts, id]: where the title goes, part_count, and which ISO
  Dirs,      \* data directories
  MaxParts,  \* the largest part_count
  Threads,   \* size of the thread pool
  None

Part == 0 .. MaxParts - 1
\* A part at least: the volume descriptor and the executable have been read.
Iso == [dir : Dirs, parts : 1 .. MaxParts, id : STRING]

\* What a hash table covers, and a part file: which batch made it, what its
\* table covers.
Piece == [iso : Iso, part : Part]
PartFile == [maker : Batches, covers : Seq(Piece)]

ASSUME ConvertAssumption ==
  /\ MaxParts \in Nat /\ Threads \in Nat \ {0}
  /\ Files \in [Batches -> Seq(Iso)]
  /\ None \notin Batches /\ None \notin PartFile

VARIABLES
  index,    \* index[b]: the file of the batch at work
  phase,    \* phase[b]: where its conversion stands
  task,     \* task[b][p]: the parallel task of part p
  held,     \* held[b][p]: the file that the task has open
  counter,  \* counter[b]: the AtomicUsize `progress`
  posted,   \* posted[b]: counts told to the status line, in order
  place,    \* place[b]: the part whose table was read last
  mht,      \* mht[b]: that table
  disk,     \* disk[d][p]: the part file, or None
  header,   \* header[d]: the CON header, or None
  results   \* results[b]: outcome of each file, then of the batch

vars == <<index, phase, task, held, counter, posted, place, mht, disk, header, results>>
taskVars == <<task, held, counter, posted>>
chainVars == <<place, mht>>

File(b) == Files[b][index[b]]
Mine(b) == 0 .. File(b).parts - 1

\* A part's hash table covers the part itself and, once the table of the next
\* part is linked, all that that one covers.
Own(iso, p) == <<[iso |-> iso, part |-> p]>>
Covering(iso, p) == [i \in 1 .. iso.parts - p |-> [iso |-> iso, part |-> p + i - 1]]

Init ==
  /\ index = [b \in Batches |-> 1]
  /\ phase = [b \in Batches |-> "idle"]
  /\ task = [b \in Batches |-> [p \in Part |-> "waiting"]]
  /\ held = [b \in Batches |-> [p \in Part |-> None]]
  /\ counter = [b \in Batches |-> 0]
  /\ posted = [b \in Batches |-> <<>>]
  /\ place = [b \in Batches |-> 0]
  /\ mht = [b \in Batches |-> <<>>]
  /\ disk = [d \in Dirs |-> [p \in Part |-> None]]
  /\ header = [d \in Dirs |-> None]
  /\ results = [b \in Batches |-> <<>>]

Goto(b, where) == phase' = [phase EXCEPT ![b] = where]

-----------------------------------------------------------------------------
(* The thread of the batch. *)

\* The button is not disabled: each click starts a thread.
Click(b) ==
  /\ phase[b] = "idle" /\ Files[b] # <<>>
  /\ Goto(b, "prepare")
  /\ UNCHANGED <<index, taskVars, chainVars, disk, header, results>>

\* Mutant: the batch ends with the first failure.
EndOfFileStopping(b) ==
  /\ phase[b] \in {"done", "failed"}
  /\ results' = [results EXCEPT ![b] = Append(@, phase[b])]
  /\ index' = [index EXCEPT ![b] = @ + 1]
  /\ Goto(b, IF index[b] < Len(Files[b]) /\ phase[b] = "done" THEN "prepare"
             ELSE IF phase[b] = "done" THEN "reporting" ELSE "stopped")
  /\ UNCHANGED <<taskVars, chainVars, disk, header>>

\* A failure is shown for three seconds, then the next file's turn comes.
EndOfFile(b) ==
  /\ phase[b] \in {"done", "failed"}
  /\ results' = [results EXCEPT ![b] = Append(@, phase[b])]
  /\ index' = [index EXCEPT ![b] = @ + 1]
  /\ Goto(b, IF index[b] < Len(Files[b]) THEN "prepare" ELSE "reporting")
  /\ UNCHANGED <<taskVars, chainVars, disk, header>>

\* "Batch conversion completed successfully!"
Report(b) ==
  /\ phase[b] = "reporting"
  /\ results' = [results EXCEPT ![b] = Append(@, "success")]
  /\ Goto(b, "ended")
  /\ UNCHANGED <<index, taskVars, chainVars, disk, header>>

-----------------------------------------------------------------------------
(* convert_iso_to_god up to the parallel loop. *)

Fail(b) == Goto(b, "failed")

\* The thread pool, the ISO's metadata, title and sizes.
Prepare(b) ==
  /\ phase[b] = "prepare"
  /\ Fail(b) \/ Goto(b, "clear")
  /\ UNCHANGED <<index, taskVars, chainVars, disk, header, results>>

NewTasks(b) ==
  /\ task' = [task EXCEPT ![b] = [p \in Part |-> "waiting"]]
  /\ held' = [held EXCEPT ![b] = [p \in Part |-> None]]
  /\ counter' = [counter EXCEPT ![b] = 0]
  /\ posted' = [posted EXCEPT ![b] = <<>>]

\* ensure_empty_dir.  The header is next to the directory, not in it.
EmptyDir(b) ==
  /\ phase[b] = "clear"
  /\ \E kept \in SUBSET Part :
       /\ disk' = [disk EXCEPT ![File(b).dir] =
            [p \in Part |-> IF p \in kept THEN @[p] ELSE None]]
       /\ \/ kept = {} /\ Goto(b, "write") /\ NewTasks(b)
          \/ Fail(b) /\ UNCHANGED taskVars
  /\ UNCHANGED <<index, chainVars, header, results>>

-----------------------------------------------------------------------------
(* One task of the parallel loop for each part. *)

SetTask(b, p, state) == task' = [task EXCEPT ![b][p] = state]
Running(b) == {p \in Part : task[b][p] \in {"open", "written", "counted"}}

\* A file is known by the batch that made it; opening truncates an older one.
StartPart(b, p) ==
  LET d == File(b).dir
      maker == IF disk[d][p] = None THEN b ELSE disk[d][p].maker
  IN /\ phase[b] = "write" /\ p \in Mine(b) /\ task[b][p] = "waiting"
     /\ Cardinality(Running(b)) < Threads
     /\ \/ /\ SetTask(b, p, "open")
           /\ held' = [held EXCEPT ![b][p] = maker]
           /\ disk' = [disk EXCEPT ![d][p] = [maker |-> maker, covers |-> <<>>]]
        \/ SetTask(b, p, "failed") /\ UNCHANGED <<held, disk>>
     /\ UNCHANGED <<index, phase, counter, posted, chainVars, header, results>>

\* write_part.  What is written to a file since removed is on no disk.
WritePart(b, p) ==
  LET d == File(b).dir
  IN /\ phase[b] = "write" /\ task[b][p] = "open"
     /\ \/ /\ SetTask(b, p, "written")
           /\ disk' = IF disk[d][p] # None /\ disk[d][p].maker = held[b][p]
                        THEN [disk EXCEPT ![d][p].covers = Own(File(b), p)] ELSE disk
        \/ SetTask(b, p, "failed") /\ UNCHANGED disk
     /\ UNCHANGED <<index, phase, held, counter, posted, chainVars, header, results>>

\* progress_counter.fetch_add; held keeps `cur` from here on.
CountPart(b, p) ==
  /\ phase[b] = "write" /\ task[b][p] = "written"
  /\ counter' = [counter EXCEPT ![b] = @ + 1]
  /\ held' = [held EXCEPT ![b][p] = counter[b] + 1]
  /\ SetTask(b, p, "counted")
  /\ UNCHANGED <<index, phase, posted, chainVars, disk, header, results>>

\* Mutant: the counter is read when it is shown.
PostCountOfNow(b, p) ==
  /\ phase[b] = "write" /\ task[b][p] = "counted"
  /\ posted' = [posted EXCEPT ![b] = Append(@, counter[b])]
  /\ SetTask(b, p, "finished")
  /\ UNCHANGED <<index, phase, held, counter, chainVars, disk, header, results>>

\* "Writing part files: cur/part_count"
PostCount(b, p) ==
  /\ phase[b] = "write" /\ task[b][p] = "counted"
  /\ posted' = [posted EXCEPT ![b] = Append(@, held[b][p])]
  /\ SetTask(b, p, "finished")
  /\ UNCHANGED <<index, phase, held, counter, chainVars, disk, header, results>>

\* try_for_each starts no more tasks, or a few, once one has failed.
SkipPart(b, p) ==
  /\ phase[b] = "write" /\ p \in Mine(b) /\ task[b][p] = "waiting"
  /\ \E q \in Mine(b) : task[b][q] = "failed"
  /\ SetTask(b, p, "skipped")
  /\ UNCHANGED <<index, phase, held, counter, posted, chainVars, disk, header, results>>

\* Mutant: tasks that were never started are waited for.
JoinAll(b) ==
  /\ phase[b] = "write"
  /\ \A p \in Mine(b) : task[b][p] \in {"finished", "failed"}
  /\ IF \A p \in Mine(b) : task[b][p] = "finished" THEN Goto(b, "last") ELSE Fail(b)
  /\ UNCHANGED <<index, taskVars, chainVars, disk, header, results>>

\* pool.install returns when no task is left, with the error if there is one.
Join(b) ==
  /\ phase[b] = "write"
  /\ \A p \in Mine(b) : task[b][p] \in {"finished", "failed", "skipped"}
  /\ IF \A p \in Mine(b) : task[b][p] = "finished" THEN Goto(b, "last") ELSE Fail(b)
  /\ UNCHANGED <<index, taskVars, chainVars, disk, header, results>>

-----------------------------------------------------------------------------
(* The hash chain and the header. *)

\* Part p of the directory, if it is there and has been written.
HasTable(d, p) == disk[d][p] # None /\ disk[d][p].covers # <<>>

\* The table of the last part.
ReadLast(b) ==
  LET last == File(b).parts - 1
  IN /\ phase[b] = "last"
     /\ \/ /\ HasTable(File(b).dir, last)
           /\ mht' = [mht EXCEPT ![b] = disk[File(b).dir][last].covers]
           /\ place' = [place EXCEPT ![b] = last]
           /\ Goto(b, "chain")
        \/ Fail(b) /\ UNCHANGED chainVars
     /\ UNCHANGED <<index, taskVars, disk, header, results>>

\* Mutant: the chain stops before the first part.
ChainEndsEarly(b) == place[b] <= 1

ChainEnds(b) == place[b] = 0

\* One turn of the loop: the previous part's table is read, linked and written.
LinkPart(b) ==
  LET d == File(b).dir
      p == place[b] - 1
      linked == disk[d][p].covers \o mht[b]
  IN /\ phase[b] = "chain" /\ ~ChainEnds(b)
     /\ \/ /\ HasTable(d, p)
           /\ disk' = [disk EXCEPT ![d][p].covers = linked]
           /\ mht' = [mht EXCEPT ![b] = linked]
           /\ place' = [place EXCEPT ![b] = p]
           /\ UNCHANGED phase
        \/ Fail(b) /\ UNCHANGED <<chainVars, disk>>
     /\ UNCHANGED <<index, taskVars, header, results>>

\* The size of the last part, then the header; the file is truncated first.
WriteHeader(b) ==
  LET d == File(b).dir
  IN /\ phase[b] = "chain" /\ ChainEnds(b)
     /\ \/ /\ disk[d][File(b).parts - 1] # None
           /\ header' = [header EXCEPT ![d] = [iso |-> File(b), hash |-> mht[b]]]
           /\ Goto(b, "done")
        \/ Fail(b) /\ UNCHANGED header
        \/ Fail(b) /\ header' = [header EXCEPT ![d] = None]
     /\ UNCHANGED <<index, taskVars, chainVars, disk, results>>

-----------------------------------------------------------------------------
PartStep(b, p) ==
  StartPart(b, p) \/ WritePart(b, p) \/ CountPart(b, p) \/ PostCount(b, p) \/ SkipPart(b, p)

Step(b) ==
  \/ EndOfFile(b) \/ Report(b) \/ Prepare(b) \/ EmptyDir(b)
  \/ \E p \in Part : PartStep(b, p)
  \/ Join(b) \/ ReadLast(b) \/ LinkPart(b) \/ WriteHeader(b)

Next == \E b \in Batches : Click(b) \/ Step(b)

Spec == Init /\ [][Next]_vars

\* The threads of a batch keep running; the user need not click.
FairSpec == Spec /\ \A b \in Batches : WF_vars(Step(b))

-----------------------------------------------------------------------------
(* Properties. *)

TypeOK ==
  /\ \A b \in Batches :
       /\ index[b] \in 1 .. Len(Files[b]) + 1
       /\ phase[b] \in {"idle", "prepare", "clear", "write", "last", "chain", "done",
                        "failed", "reporting", "ended"}
       /\ \A p \in Part : task[b][p] \in {"waiting", "open", "written", "counted",
                                          "finished", "failed", "skipped"}
       /\ counter[b] \in 0 .. MaxParts
       /\ place[b] \in 0 .. MaxParts
       /\ Len(results[b]) = index[b] - (IF phase[b] = "ended" THEN 0 ELSE 1)
       /\ phase[b] \notin {"idle", "ended"} =>
            (index[b] = Len(Files[b]) + 1 <=> phase[b] = "reporting")
  /\ \A d \in Dirs : header[d] # None => header[d].iso.dir = d

\* The title's directory has exactly the parts of the ISO, each linked to all the
\* parts after it, and the header is this ISO's and carries the first table.
Converted(b) ==
  LET d == File(b).dir
  IN /\ \A p \in Part : IF p \in Mine(b)
                          THEN disk[d][p] # None /\ disk[d][p].covers = Covering(File(b), p)
                          ELSE disk[d][p] = None
     /\ header[d] = [iso |-> File(b), hash |-> Covering(File(b), 0)]

\* "Done! Game converted": when that is said, it is so, whatever was in the
\* directory before and in whatever order the parts were written.
DoneMeansConverted ==
  [][\A b \in Batches : phase[b] # "done" /\ phase'[b] = "done" => Converted(b)']_vars

\* "Writing part files: n/m": when the parallel loop has succeeded, every number
\* up to the count of parts has been shown once, in whatever order.
EveryCountShown ==
  \A b \in Batches :
    phase[b] \in {"last", "chain"} =>
      /\ Len(posted[b]) = File(b).parts
      /\ {posted[b][i] : i \in DOMAIN posted[b]} = 1 .. File(b).parts

\* A batch, once started, comes to its end, whatever fails.
BatchEnds == \A b \in Batches : phase[b] = "prepare" ~> phase[b] = "ended"
=============================================================================
