------------------------- MODULE GodConvert_proofs -------------------------
(***************************************************************************)
(* Proofs about GodConvert, for any number of batches, ISOs, parts and     *)
(* threads: types, that the parallel loop shows every count once, and that *)
(* "Done" means converted as long as no two batches at work use the same   *)
(* directory.                                                              *)
(***************************************************************************)
EXTENDS GodConvert, FiniteSetTheorems, SequenceTheorems, TLAPS

USE ConvertAssumption

-----------------------------------------------------------------------------
(* Types. *)

Busy == {"prepare", "clear", "write", "last", "chain", "done", "failed"}
Phases == Busy \cup {"idle", "reporting", "ended"}
States == {"waiting", "open", "written", "counted", "finished", "failed", "skipped"}
Header == [iso : Iso, hash : Seq(Piece)]

Types ==
  /\ index \in [Batches -> Nat \ {0}]
  /\ phase \in [Batches -> Phases]
  /\ task \in [Batches -> [Part -> States]]
  /\ held \in [Batches -> [Part -> Batches \cup Nat \cup {None}]]
  /\ counter \in [Batches -> Nat]
  /\ posted \in [Batches -> Seq(Batches \cup Nat \cup {None})]
  /\ place \in [Batches -> Nat]
  /\ mht \in [Batches -> Seq(Piece)]
  /\ disk \in [Dirs -> [Part -> PartFile \cup {None}]]
  /\ header \in [Dirs -> Header \cup {None}]
  /\ results \in [Batches -> Seq({"done", "failed", "success"})]

\* Where the batch stands in its list of files.
InList(b) ==
  /\ phase[b] = "idle" => index[b] = 1
  /\ phase[b] \in Busy => index[b] \in 1 .. Len(Files[b])
  /\ phase[b] \in {"reporting", "ended"} => index[b] = Len(Files[b]) + 1
  /\ Len(results[b]) = index[b] - (IF phase[b] = "ended" THEN 0 ELSE 1)
  /\ phase[b] = "chain" => place[b] \in Mine(b)
  /\ place[b] <= MaxParts

HeaderInPlace == \A d \in Dirs : header[d] # None => header[d].iso.dir = d

TInv == Types /\ (\A b \in Batches : InList(b)) /\ HeaderInPlace

\* A batch at work has a file, whose parts are numbered below MaxParts.
LEMMA FileAtWork ==
  ASSUME NEW b \in Batches, index[b] \in 1 .. Len(Files[b])
  PROVE  /\ File(b) \in Iso /\ File(b).dir \in Dirs
         /\ File(b).parts \in Nat \ {0} /\ File(b).parts <= MaxParts
         /\ Mine(b) \subseteq Part
<1>1. File(b) \in Iso
  BY ElementOfSeq DEF File
<1>2. File(b).parts \in 1 .. MaxParts /\ File(b).dir \in Dirs
  BY <1>1 DEF Iso
<1> QED BY <1>1, <1>2 DEF Mine, Part

\* A part is covered by its own table.
LEMMA OwnType ==
  ASSUME NEW iso \in Iso, NEW p \in Part
  PROVE  Own(iso, p) \in Seq(Piece)
<1>1. [iso |-> iso, part |-> p] \in Piece
  BY DEF Piece
<1> QED BY <1>1 DEF Own

\* A function of two arguments that changes at one place.
LEMMA ExceptPlace ==
  ASSUME NEW A, NEW B, NEW C, NEW f \in [A -> [B -> C]],
         NEW a \in A, NEW x \in B, NEW c \in C
  PROVE  /\ [f EXCEPT ![a][x] = c] \in [A -> [B -> C]]
         /\ \A i \in A, j \in B :
              [f EXCEPT ![a][x] = c][i][j] = IF i = a /\ j = x THEN c ELSE f[i][j]
OBVIOUS

\* A part file with another table is one that the same batch made.
LEMMA Rewritten ==
  ASSUME NEW file \in PartFile, NEW covers \in Seq(Piece)
  PROVE  /\ [file EXCEPT !.covers = covers] \in PartFile
         /\ [file EXCEPT !.covers = covers].maker = file.maker
         /\ [file EXCEPT !.covers = covers].covers = covers
BY DEF PartFile

\* The click and every step of a batch keep the types.
LEMMA StepTypes ==
  ASSUME TInv, NEW b \in Batches, Click(b) \/ Step(b)
  PROVE  Types'
<1> USE DEF TInv, Types, Goto, Fail, SetTask, taskVars, chainVars
<1>w. phase[b] \in Busy => /\ File(b) \in Iso /\ File(b).dir \in Dirs
                           /\ File(b).parts \in Nat \ {0} /\ Mine(b) \subseteq Part
  BY FileAtWork DEF InList
<1>t. \A p \in Part, state \in States :
        [task EXCEPT ![b][p] = state] \in [Batches -> [Part -> States]]
  BY ExceptPlace
<1>h. \A p \in Part, h \in Batches \cup Nat \cup {None} :
        [held EXCEPT ![b][p] = h] \in [Batches -> [Part -> Batches \cup Nat \cup {None}]]
  BY ExceptPlace
<1>d. \A d \in Dirs, p \in Part, file \in PartFile \cup {None} :
        [disk EXCEPT ![d][p] = file] \in [Dirs -> [Part -> PartFile \cup {None}]]
  BY ExceptPlace
<1>1. CASE Click(b)
  BY <1>1 DEF Click, Phases, Busy
<1>2. CASE EndOfFile(b)
  <2>1. phase[b] \in {"done", "failed", "success"}
    BY <1>2 DEF EndOfFile
  <2>2. Append(results[b], phase[b]) \in Seq({"done", "failed", "success"})
    BY <2>1
  <2> QED BY <1>2, <2>2 DEF EndOfFile, Phases, Busy
<1>3. CASE Report(b)
  <2>1. Append(results[b], "success") \in Seq({"done", "failed", "success"})
    OBVIOUS
  <2> QED BY <1>3, <2>1 DEF Report, Phases
<1>4. CASE Prepare(b)
  BY <1>4 DEF Prepare, Phases, Busy
<1>5. CASE EmptyDir(b)
  <2>1. File(b).dir \in Dirs
    BY <1>5, <1>w DEF EmptyDir, Busy
  <2>2. PICK kept \in SUBSET Part :
          /\ disk' = [disk EXCEPT ![File(b).dir] =
               [p \in Part |-> IF p \in kept THEN @[p] ELSE None]]
          /\ \/ kept = {} /\ Goto(b, "write") /\ NewTasks(b)
             \/ Fail(b) /\ UNCHANGED taskVars
    BY <1>5 DEF EmptyDir
  <2>3. disk' \in [Dirs -> [Part -> PartFile \cup {None}]]
    BY <2>1, <2>2
  <2>4. NewTasks(b) => /\ task' \in [Batches -> [Part -> States]]
                       /\ held' \in [Batches -> [Part -> Batches \cup Nat \cup {None}]]
                       /\ counter' \in [Batches -> Nat]
                       /\ posted' \in [Batches -> Seq(Batches \cup Nat \cup {None})]
    BY DEF NewTasks, States
  <2>5. phase' \in [Batches -> Phases]
    BY <2>2 DEF Phases, Busy
  <2> QED BY <1>5, <2>2, <2>3, <2>4, <2>5 DEF EmptyDir
<1>6. ASSUME NEW p \in Part, PartStep(b, p) PROVE Types'
  <2>1. CASE StartPart(b, p)
    <3> DEFINE d == File(b).dir
               maker == IF disk[d][p] = None THEN b ELSE disk[d][p].maker
               new == [maker |-> maker, covers |-> <<>>]
    <3>1. d \in Dirs
      BY <2>1, <1>w DEF StartPart, Busy
    <3>2. maker \in Batches
      BY <3>1 DEF PartFile
    <3>3. new \in PartFile
      BY <3>2 DEF PartFile
    <3>4. /\ \E state \in {"open", "failed"} : task' = [task EXCEPT ![b][p] = state]
          /\ held' = [held EXCEPT ![b][p] = maker] \/ held' = held
          /\ disk' = [disk EXCEPT ![d][p] = new] \/ disk' = disk
      BY <2>1 DEF StartPart
    <3> HIDE DEF maker, new, d
    <3>5. task' \in [Batches -> [Part -> States]]
      <4>1. PICK state \in States : task' = [task EXCEPT ![b][p] = state]
        BY <3>4 DEF States
      <4> QED BY <4>1, <1>t
    <3>6. held' \in [Batches -> [Part -> Batches \cup Nat \cup {None}]]
      <4>1. maker \in Batches \cup Nat \cup {None}
        BY <3>2
      <4>2. [held EXCEPT ![b][p] = maker] \in [Batches -> [Part -> Batches \cup Nat \cup {None}]]
        BY <4>1, <1>h
      <4> QED BY <3>4, <4>2
    <3>7. disk' \in [Dirs -> [Part -> PartFile \cup {None}]]
      <4>1. [disk EXCEPT ![d][p] = new] \in [Dirs -> [Part -> PartFile \cup {None}]]
        BY <3>1, <3>3, <1>d
      <4> QED BY <3>4, <4>1
    <3> QED BY <2>1, <3>5, <3>6, <3>7 DEF StartPart
  <2>2. CASE WritePart(b, p)
    <3> DEFINE d == File(b).dir
               new == [disk[d][p] EXCEPT !.covers = Own(File(b), p)]
    <3>1. d \in Dirs /\ Own(File(b), p) \in Seq(Piece)
      BY <2>2, <1>w, OwnType DEF WritePart, Busy
    <3>2. disk[d][p] # None => new \in PartFile
      BY <3>1, Rewritten
    <3>3. disk' = disk \/ (disk[d][p] # None /\ disk' = [disk EXCEPT ![d][p] = new])
      BY <2>2 DEF WritePart
    <3> HIDE DEF d, new
    <3>4. disk' \in [Dirs -> [Part -> PartFile \cup {None}]]
      <4>1. disk[d][p] # None =>
              [disk EXCEPT ![d][p] = new] \in [Dirs -> [Part -> PartFile \cup {None}]]
        BY <3>1, <3>2, <1>d
      <4> QED BY <3>3, <4>1
    <3>5. task' \in [Batches -> [Part -> States]]
      <4>1. PICK state \in States : task' = [task EXCEPT ![b][p] = state]
        BY <2>2 DEF WritePart, States
      <4> QED BY <4>1, <1>t
    <3> QED BY <2>2, <3>4, <3>5 DEF WritePart
  <2>3. CASE CountPart(b, p)
    BY <2>3 DEF CountPart, States
  <2>4. CASE PostCount(b, p)
    <3>1. held[b][p] \in Batches \cup Nat \cup {None}
      OBVIOUS
    <3>2. Append(posted[b], held[b][p]) \in Seq(Batches \cup Nat \cup {None})
      BY <3>1
    <3> QED BY <2>4, <3>2 DEF PostCount, States
  <2>5. CASE SkipPart(b, p)
    BY <2>5 DEF SkipPart, States
  <2> QED BY <1>6, <2>1, <2>2, <2>3, <2>4, <2>5 DEF PartStep
<1>7. CASE Join(b)
  BY <1>7 DEF Join, Phases, Busy
<1>8. CASE ReadLast(b)
  <2> DEFINE d == File(b).dir
             last == File(b).parts - 1
  <2>1. d \in Dirs
    BY <1>8, <1>w DEF ReadLast, Busy
  <2>2. CASE /\ HasTable(d, last)
             /\ mht' = [mht EXCEPT ![b] = disk[d][last].covers]
             /\ place' = [place EXCEPT ![b] = last]
             /\ Goto(b, "chain")
    <3>1. last \in Part
      <4>1. File(b).parts \in Nat \ {0} /\ Mine(b) \subseteq Part
        BY <1>8, <1>w DEF ReadLast, Busy
      <4>2. last \in Mine(b)
        BY <4>1 DEF Mine
      <4> QED BY <4>1, <4>2
    <3>2. disk[d][last].covers \in Seq(Piece)
      BY <2>1, <2>2, <3>1 DEF HasTable, PartFile
    <3>3. last \in Nat
      BY <3>1 DEF Part
    <3> HIDE DEF d, last
    <3> QED BY <1>8, <2>2, <3>2, <3>3 DEF ReadLast, Phases, Busy
  <2>3. CASE Fail(b) /\ UNCHANGED chainVars
    BY <1>8, <2>3 DEF ReadLast, Phases, Busy
  <2> QED BY <1>8, <2>2, <2>3 DEF ReadLast
<1>9. CASE LinkPart(b)
  <2> DEFINE d == File(b).dir
             p == place[b] - 1
             linked == disk[d][p].covers \o mht[b]
             new == [disk[d][p] EXCEPT !.covers = linked]
  <2>1. d \in Dirs
    BY <1>9, <1>w DEF LinkPart, Busy
  <2>2. CASE /\ HasTable(d, p)
             /\ disk' = [disk EXCEPT ![d][p].covers = linked]
             /\ mht' = [mht EXCEPT ![b] = linked]
             /\ place' = [place EXCEPT ![b] = p]
             /\ UNCHANGED phase
    <3>1. place[b] \in Mine(b) /\ place[b] # 0 /\ Mine(b) \subseteq Part
      BY <1>9, <1>w DEF LinkPart, InList, ChainEnds, Busy
    <3>2. p \in Part
      BY <3>1 DEF Part
    <3>3. disk[d][p] \in PartFile
      BY <2>1, <2>2, <3>2 DEF HasTable
    <3>4. linked \in Seq(Piece)
      BY <3>3 DEF PartFile
    <3>5. new \in PartFile
      BY <3>3, <3>4 DEF PartFile
    <3>6. disk' = [disk EXCEPT ![d][p] = new]
      BY <2>2
    <3>7. p \in Nat
      BY <3>2 DEF Part
    <3> HIDE DEF d, p, linked, new
    <3>8. disk' \in [Dirs -> [Part -> PartFile \cup {None}]]
      BY <2>1, <3>2, <3>5, <3>6
    <3> QED BY <1>9, <2>2, <3>4, <3>7, <3>8 DEF LinkPart
  <2>3. CASE Fail(b) /\ UNCHANGED <<chainVars, disk>>
    BY <1>9, <2>3 DEF LinkPart, Phases, Busy
  <2> QED BY <1>9, <2>2, <2>3 DEF LinkPart
<1>10. CASE WriteHeader(b)
  <2>1. File(b) \in Iso /\ File(b).dir \in Dirs
    BY <1>10, <1>w DEF WriteHeader, Busy
  <2>2. [iso |-> File(b), hash |-> mht[b]] \in Header
    BY <2>1 DEF Header
  <2>3. header' \in [Dirs -> Header \cup {None}]
    BY <1>10, <2>1, <2>2 DEF WriteHeader
  <2> QED BY <1>10, <2>3 DEF WriteHeader, Phases, Busy
<1> QED BY <1>1, <1>2, <1>3, <1>4, <1>5, <1>6, <1>7, <1>8, <1>9, <1>10 DEF Step

\* A step of one batch leaves what the others know alone; only the disk is shared.
LEMMA OthersAlone ==
  ASSUME Types, NEW b \in Batches, Click(b) \/ Step(b), NEW c \in Batches, c # b
  PROVE  /\ index'[c] = index[c] /\ phase'[c] = phase[c] /\ results'[c] = results[c]
         /\ task'[c] = task[c] /\ held'[c] = held[c]
         /\ counter'[c] = counter[c] /\ posted'[c] = posted[c]
         /\ place'[c] = place[c] /\ mht'[c] = mht[c]
<1> USE DEF Types, Goto, Fail, SetTask, taskVars, chainVars
<1>1. CASE Click(b)
  BY <1>1 DEF Click
<1>2. CASE EndOfFile(b)
  BY <1>2 DEF EndOfFile
<1>3. CASE Report(b)
  BY <1>3 DEF Report
<1>4. CASE Prepare(b)
  BY <1>4 DEF Prepare
<1>5. CASE EmptyDir(b)
  BY <1>5 DEF EmptyDir, NewTasks
<1>6. ASSUME NEW p \in Part, StartPart(b, p)
      PROVE  task'[c] = task[c] /\ held'[c] = held[c]
  BY <1>6 DEF StartPart
<1>7. ASSUME NEW p \in Part, WritePart(b, p) PROVE task'[c] = task[c]
  BY <1>7 DEF WritePart
<1>8. ASSUME NEW p \in Part, PartStep(b, p)
      PROVE  /\ task'[c] = task[c] /\ held'[c] = held[c]
             /\ counter'[c] = counter[c] /\ posted'[c] = posted[c]
             /\ UNCHANGED <<index, phase, results, place, mht>>
  BY <1>6, <1>7, <1>8 DEF PartStep, StartPart, WritePart, CountPart, PostCount, SkipPart
<1>9. CASE Join(b)
  BY <1>9 DEF Join
<1>10. CASE ReadLast(b)
  BY <1>10 DEF ReadLast
<1>11. CASE LinkPart(b)
  BY <1>11 DEF LinkPart
<1>12. CASE WriteHeader(b)
  BY <1>12 DEF WriteHeader
<1> QED BY <1>1, <1>2, <1>3, <1>4, <1>5, <1>8, <1>9, <1>10, <1>11, <1>12 DEF Step

\* A batch goes through its list in order, with an outcome for each file left behind.
LEMMA StepInList ==
  ASSUME TInv, NEW b \in Batches, Click(b) \/ Step(b)
  PROVE  InList(b)'
<1> USE DEF TInv, Types, InList, Busy, Goto, Fail, taskVars, chainVars
<1>0. Len(Files[b]) \in Nat
  OBVIOUS
<1>1. CASE Click(b)
  BY <1>0, <1>1 DEF Click
<1>2. CASE EndOfFile(b)
  <2>1. Len(results'[b]) = Len(results[b]) + 1 /\ index'[b] = index[b] + 1
    BY <1>2 DEF EndOfFile
  <2>2. /\ phase[b] \in {"done", "failed"} /\ place' = place
        /\ phase'[b] = IF index[b] < Len(Files[b]) THEN "prepare" ELSE "reporting"
    BY <1>2 DEF EndOfFile
  <2>3. InList(b) /\ index[b] \in Nat
    OBVIOUS
  <2>4. /\ index[b] \in 1 .. Len(Files[b]) /\ Len(results[b]) = index[b] - 1
        /\ place[b] <= MaxParts
    BY <2>2, <2>3
  <2> QED BY <1>0, <2>1, <2>2, <2>4
<1>3. CASE Report(b)
  <2>1. Len(results'[b]) = Len(results[b]) + 1 /\ index'[b] = index[b]
    BY <1>3 DEF Report
  <2> QED BY <1>3, <2>1 DEF Report
<1>4. CASE Prepare(b)
  BY <1>4 DEF Prepare
<1>5. CASE EmptyDir(b)
  BY <1>5 DEF EmptyDir
<1>6. ASSUME NEW p \in Part, PartStep(b, p) PROVE InList(b)'
  BY <1>6 DEF PartStep, StartPart, WritePart, CountPart, PostCount, SkipPart, Mine, File
<1>7. CASE Join(b)
  BY <1>7 DEF Join
<1>8. CASE ReadLast(b)
  <2>1. File(b)' = File(b) /\ Mine(b)' = Mine(b)
    BY <1>8 DEF ReadLast, File, Mine
  <2>2. File(b).parts \in Nat \ {0} /\ File(b).parts <= MaxParts
    BY <1>8, FileAtWork DEF ReadLast
  <2> QED BY <1>8, <2>1, <2>2 DEF ReadLast, Mine
<1>9. CASE LinkPart(b)
  <2>1. File(b)' = File(b) /\ Mine(b)' = Mine(b)
    BY <1>9 DEF LinkPart, File, Mine
  <2>2. File(b).parts \in Nat \ {0} /\ place[b] \in Mine(b) /\ place[b] # 0
    BY <1>9, FileAtWork DEF LinkPart, ChainEnds
  <2>3. \/ phase'[b] # "chain" /\ place' = place
        \/ phase'[b] = "chain" /\ place'[b] = place[b] - 1
    BY <1>9 DEF LinkPart
  <2>4. phase[b] = "chain" /\ index' = index /\ results' = results
    BY <1>9 DEF LinkPart
  <2>5. phase' = phase \/ phase' = [phase EXCEPT ![b] = "failed"]
    BY <1>9 DEF LinkPart
  <2>6. phase'[b] \in {"chain", "failed"}
    BY <2>4, <2>5
  <2>7. place'[b] \in Mine(b) \/ phase'[b] # "chain"
    BY <2>2, <2>3 DEF Mine
  <2>8. place'[b] <= place[b]
    BY <2>2, <2>3 DEF Mine
  <2>9. /\ index[b] \in 1 .. Len(Files[b]) /\ Len(results[b]) = index[b] - 1
        /\ place[b] \in Nat /\ place'[b] \in Int /\ place[b] <= MaxParts
    <3>1. InList(b)
      OBVIOUS
    <3> QED BY <2>3, <2>4, <3>1
  <2>10. place'[b] <= MaxParts
    BY <2>8, <2>9
  <2> QED BY <2>1, <2>4, <2>7, <2>6, <2>9, <2>10
<1>10. CASE WriteHeader(b)
  BY <1>10 DEF WriteHeader
<1> QED BY <1>1, <1>2, <1>3, <1>4, <1>5, <1>6, <1>7, <1>8, <1>9, <1>10 DEF Step

\* A header is written next to the directory of its ISO.
LEMMA StepHeader ==
  ASSUME TInv, NEW b \in Batches, Click(b) \/ Step(b)
  PROVE  HeaderInPlace'
<1> USE DEF TInv, Types, HeaderInPlace
<1>1. CASE WriteHeader(b)
  <2>1. File(b).dir \in Dirs
    BY <1>1, FileAtWork DEF WriteHeader, InList, Busy
  <2> QED BY <1>1, <2>1 DEF WriteHeader
<1>2. header' = header \/ WriteHeader(b)
  BY DEF Click, Step, EndOfFile, Report, Prepare, EmptyDir, PartStep, StartPart, WritePart,
         CountPart, PostCount, SkipPart, Join, ReadLast, LinkPart
<1> QED BY <1>1, <1>2

\* Every step keeps the types and the batches' places.
LEMMA NextTInv == TInv /\ [Next]_vars => TInv'
<1> SUFFICES ASSUME TInv, [Next]_vars PROVE TInv'
  OBVIOUS
<1>1. CASE UNCHANGED vars
  BY <1>1 DEF vars, TInv, Types, InList, HeaderInPlace, Mine, File
<1>2. ASSUME NEW b \in Batches, Click(b) \/ Step(b) PROVE TInv'
  <2>1. Types' /\ HeaderInPlace'
    BY <1>2, StepTypes, StepHeader
  <2>2. ASSUME NEW c \in Batches PROVE InList(c)'
    <3>1. CASE c = b
      BY <1>2, <3>1, StepInList
    <3>2. CASE c # b
      <4>1. InList(c)
        BY DEF TInv
      <4>2. /\ index'[c] = index[c] /\ phase'[c] = phase[c] /\ results'[c] = results[c]
            /\ place'[c] = place[c]
        BY <1>2, <3>2, OthersAlone DEF TInv
      <4> QED BY <4>1, <4>2 DEF InList, Mine, File
    <3> QED BY <3>1, <3>2
  <2> QED BY <2>1, <2>2 DEF TInv
<1> QED BY <1>1, <1>2 DEF Next

\* They hold before the first click.
LEMMA InitTInv == Init => TInv
<1> SUFFICES ASSUME Init PROVE TInv
  OBVIOUS
<1>1. Types
  <2>1. <<>> \in Seq({"done", "failed", "success"}) /\ <<>> \in Seq(Piece)
        /\ <<>> \in Seq(Batches \cup Nat \cup {None})
    BY EmptySeq
  <2> QED BY <2>1 DEF Init, Types, Phases, Busy, States
<1>2. \A b \in Batches : InList(b)
  BY DEF Init, InList, Busy
<1>3. HeaderInPlace
  BY DEF Init, HeaderInPlace
<1> QED BY <1>1, <1>2, <1>3 DEF TInv

-----------------------------------------------------------------------------
(* The counts. *)

Counted(b) == {p \in Part : task[b][p] \in {"counted", "finished"}}
Finished(b) == {p \in Part : task[b][p] = "finished"}
InHand(b) == {p \in Part : task[b][p] = "counted"}
Kept(b) == {held[b][p] : p \in InHand(b)}
Shown(b) == {posted[b][i] : i \in DOMAIN posted[b]}

\* The counter counts the parts that were counted; the numbers up to it are shown
\* already, once for each task that has finished, or kept by a task that has not.
CountOK(b) ==
  /\ counter[b] = Cardinality(Counted(b))
  /\ Shown(b) \cup Kept(b) = 1 .. counter[b]
  /\ Len(posted[b]) = Cardinality(Finished(b))

\* Only parts of the file have tasks that run, and all are finished after the loop.
TasksOK(b) ==
  /\ phase[b] \in {"write", "last", "chain"} =>
       \A p \in Part \ Mine(b) : task[b][p] = "waiting"
  /\ phase[b] \in {"last", "chain"} => \A p \in Mine(b) : task[b][p] = "finished"

CInv == TInv /\ \A b \in Batches : CountOK(b) /\ TasksOK(b)

\* There are at most as many counted parts as parts.
LEMMA SomeParts ==
  ASSUME NEW S \in SUBSET Part
  PROVE  IsFiniteSet(S) /\ Cardinality(S) \in Nat /\ Cardinality(S) <= MaxParts
<1>1. IsFiniteSet(Part) /\ Cardinality(Part) <= MaxParts
  BY FS_Interval DEF Part
<1>2. IsFiniteSet(S) /\ Cardinality(S) <= Cardinality(Part)
  BY <1>1, FS_Subset
<1> QED BY <1>1, <1>2, FS_CardinalityType

\* One more part.
LEMMA OneMore ==
  ASSUME NEW S \in SUBSET Part, NEW p \in Part, p \notin S
  PROVE  Cardinality(S \cup {p}) = Cardinality(S) + 1
BY SomeParts, FS_AddElement

\* A step that leaves the counted tasks, and what they hold, leaves the counts.
LEMMA SameCounts ==
  ASSUME NEW b \in Batches, CountOK(b), counter'[b] = counter[b], posted'[b] = posted[b],
         \A p \in Part : /\ task'[b][p] = "counted" <=> task[b][p] = "counted"
                         /\ task'[b][p] = "finished" <=> task[b][p] = "finished"
                         /\ task[b][p] = "counted" => held'[b][p] = held[b][p]
  PROVE  CountOK(b)'
<1>1. /\ Counted(b)' = Counted(b) /\ Finished(b)' = Finished(b) /\ InHand(b)' = InHand(b)
      /\ Shown(b)' = Shown(b)
  BY DEF Counted, Finished, InHand, Shown
<1>2. Kept(b)' = Kept(b)
  BY <1>1 DEF Kept, InHand
<1> QED BY <1>1, <1>2 DEF CountOK

\* A task of the parallel loop keeps the counts.
LEMMA PartCounts ==
  ASSUME TInv, NEW b \in Batches, CountOK(b), NEW p \in Part, PartStep(b, p)
  PROVE  CountOK(b)'
<1> USE DEF TInv, Types
<1>t. ASSUME NEW state \in States, SetTask(b, p, state)
      PROVE  \A q \in Part : task'[b][q] = IF q = p THEN state ELSE task[b][q]
  BY <1>t, ExceptPlace DEF SetTask
<1>1. CASE StartPart(b, p)
  <2>1. PICK state \in {"open", "failed"} : SetTask(b, p, state)
    BY <1>1 DEF StartPart
  <2>2. \A q \in Part \ {p} : held'[b][q] = held[b][q]
    BY <1>1 DEF StartPart
  <2>3. task[b][p] = "waiting" /\ counter' = counter /\ posted' = posted
    BY <1>1 DEF StartPart
  <2> QED BY <1>t, <2>1, <2>2, <2>3, SameCounts DEF States
<1>2. CASE WritePart(b, p)
  <2>1. PICK state \in {"written", "failed"} : SetTask(b, p, state)
    BY <1>2 DEF WritePart
  <2>2. task[b][p] = "open" /\ counter' = counter /\ posted' = posted /\ held' = held
    BY <1>2 DEF WritePart
  <2> QED BY <1>t, <2>1, <2>2, SameCounts DEF States
<1>3. CASE SkipPart(b, p)
  <2>1. task[b][p] = "waiting" /\ counter' = counter /\ posted' = posted /\ held' = held
    BY <1>3 DEF SkipPart
  <2>2. SetTask(b, p, "skipped")
    BY <1>3 DEF SkipPart
  <2> QED BY <1>t, <2>1, <2>2, SameCounts DEF States
<1>4. CASE CountPart(b, p)
  <2>1. \A q \in Part : task'[b][q] = IF q = p THEN "counted" ELSE task[b][q]
    BY <1>4, <1>t DEF CountPart, States
  <2>2. /\ task[b][p] = "written" /\ posted' = posted
        /\ counter'[b] = counter[b] + 1
        /\ \A q \in Part : held'[b][q] = IF q = p THEN counter[b] + 1 ELSE held[b][q]
    BY <1>4 DEF CountPart
  <2>3. /\ Counted(b)' = Counted(b) \cup {p} /\ p \notin Counted(b)
        /\ Finished(b)' = Finished(b) /\ InHand(b)' = InHand(b) \cup {p} /\ p \notin InHand(b)
    BY <2>1, <2>2 DEF Counted, Finished, InHand
  <2>4. Shown(b)' = Shown(b) /\ Kept(b)' = Kept(b) \cup {counter[b] + 1}
    <3>1. \A q \in InHand(b) : q \in Part /\ q # p
      BY <2>3 DEF InHand
    <3>2. \A n : n \in Kept(b)' <=> \E q \in InHand(b) \cup {p} : n = held'[b][q]
      BY <2>3 DEF Kept
    <3>3. \A n : n \in Kept(b) <=> \E q \in InHand(b) : n = held[b][q]
      BY DEF Kept
    <3>4. /\ \A q \in InHand(b) : held'[b][q] = held[b][q]
          /\ held'[b][p] = counter[b] + 1
      BY <2>2, <3>1
    <3>5. \A n : n \in Kept(b)' <=> n \in Kept(b) \/ n = counter[b] + 1
      BY ONLY <3>2, <3>3, <3>4
    <3>6. Kept(b)' = Kept(b) \cup {counter[b] + 1}
      BY ONLY <3>5
    <3> QED BY <2>2, <3>6 DEF Shown
  <2>5. Counted(b) \in SUBSET Part
    BY DEF Counted
  <2>6. counter'[b] = Cardinality(Counted(b)')
    BY <2>2, <2>3, <2>5, OneMore DEF CountOK
  <2>7. 1 .. counter[b] + 1 = (1 .. counter[b]) \cup {counter[b] + 1}
    OBVIOUS
  <2>8. Shown(b)' \cup Kept(b)' = 1 .. counter'[b]
    BY <2>2, <2>4, <2>7 DEF CountOK
  <2> QED BY <2>2, <2>3, <2>6, <2>8 DEF CountOK
<1>5. CASE PostCount(b, p)
  <2>1. \A q \in Part : task'[b][q] = IF q = p THEN "finished" ELSE task[b][q]
    BY <1>5, <1>t DEF PostCount, States
  <2>2. /\ task[b][p] = "counted" /\ held' = held /\ counter' = counter
        /\ posted'[b] = Append(posted[b], held[b][p])
    BY <1>5 DEF PostCount
  <2>3. /\ Counted(b)' = Counted(b) /\ Finished(b)' = Finished(b) \cup {p}
        /\ p \notin Finished(b) /\ InHand(b)' = InHand(b) \ {p} /\ p \in InHand(b)
    BY <2>1, <2>2 DEF Counted, Finished, InHand
  <2>4. Shown(b)' = Shown(b) \cup {held[b][p]} /\ Len(posted'[b]) = Len(posted[b]) + 1
    <3>1. held[b][p] \in Batches \cup Nat \cup {None}
      OBVIOUS
    <3>2. /\ Len(posted'[b]) = Len(posted[b]) + 1
          /\ \A i \in 1 .. Len(posted[b]) : posted'[b][i] = posted[b][i]
          /\ posted'[b][Len(posted[b]) + 1] = held[b][p]
          /\ DOMAIN posted'[b] = 1 .. Len(posted[b]) + 1
          /\ DOMAIN posted[b] = 1 .. Len(posted[b])
          /\ Len(posted[b]) \in Nat
      BY <2>2, <3>1, AppendProperties, LenProperties
    <3> DEFINE len == Len(posted[b])
    <3>3. \A n : n \in Shown(b)' <=> \E i \in 1 .. len + 1 : n = posted'[b][i]
      BY <3>2 DEF Shown
    <3>4. \A n : n \in Shown(b) <=> \E i \in 1 .. len : n = posted[b][i]
      BY <3>2 DEF Shown
    <3>5. /\ \A i \in 1 .. len : posted'[b][i] = posted[b][i]
          /\ posted'[b][len + 1] = held[b][p]
          /\ len \in Nat
      BY <3>2
    <3> HIDE DEF len
    <3>6. \A n : n \in Shown(b)' <=> n \in Shown(b) \/ n = held[b][p]
      BY ONLY <3>3, <3>4, <3>5
    <3>7. Shown(b)' = Shown(b) \cup {held[b][p]}
      BY ONLY <3>6
    <3> QED BY <3>2, <3>7
  <2>5. Kept(b)' \cup {held[b][p]} = Kept(b)
    BY <2>2, <2>3 DEF Kept
  <2>6. Finished(b) \in SUBSET Part
    BY DEF Finished
  <2>7. Len(posted'[b]) = Cardinality(Finished(b)')
    BY <2>3, <2>4, <2>6, OneMore DEF CountOK
  <2> QED BY <2>2, <2>3, <2>4, <2>5, <2>7 DEF CountOK
<1> QED BY <1>1, <1>2, <1>3, <1>4, <1>5 DEF PartStep

\* So does every other step of a batch; the loop begins with nothing counted.
LEMMA StepCounts ==
  ASSUME TInv, NEW b \in Batches, CountOK(b), Click(b) \/ Step(b)
  PROVE  CountOK(b)'
<1>1. CASE EmptyDir(b)
  <2>1. CASE NewTasks(b)
    <3>1. /\ \A p \in Part : task'[b][p] = "waiting"
          /\ counter'[b] = 0 /\ posted'[b] = <<>>
      BY <2>1 DEF NewTasks, TInv, Types
    <3>2. Counted(b)' = {} /\ Finished(b)' = {} /\ InHand(b)' = {}
      BY <3>1 DEF Counted, Finished, InHand
    <3>3. Kept(b)' = {} /\ Shown(b)' = {} /\ Len(posted'[b]) = 0
      BY <3>1, <3>2 DEF Kept, Shown
    <3>4. Cardinality({}) = 0 /\ 1 .. 0 = {}
      BY FS_EmptySet
    <3> QED BY <3>1, <3>2, <3>3, <3>4 DEF CountOK
  <2>2. CASE UNCHANGED taskVars
    BY <2>2, SameCounts DEF taskVars
  <2> QED BY <1>1, <2>1, <2>2 DEF EmptyDir
<1>2. ASSUME NEW p \in Part, PartStep(b, p) PROVE CountOK(b)'
  BY <1>2, PartCounts
<1>3. CASE UNCHANGED taskVars
  BY <1>3, SameCounts DEF taskVars
<1> QED BY <1>1, <1>2, <1>3 DEF Click, Step, EndOfFile, Report, Prepare, Join, ReadLast, LinkPart,
                               WriteHeader

\* Tasks run for parts of the file alone, and Join waits for all of them.
LEMMA StepTasks ==
  ASSUME TInv, NEW b \in Batches, TasksOK(b), Click(b) \/ Step(b)
  PROVE  TasksOK(b)'
<1> USE DEF TInv, Types, Goto, Fail, taskVars
<1>1. CASE EmptyDir(b)
  BY <1>1 DEF EmptyDir, NewTasks, TasksOK
<1>2. ASSUME NEW p \in Part, PartStep(b, p) PROVE TasksOK(b)'
  <2>1. phase[b] = "write" /\ phase' = phase /\ index' = index
    BY <1>2 DEF PartStep, StartPart, WritePart, CountPart, PostCount, SkipPart
  <2>2. p \in Mine(b)
    BY <1>2, <2>1 DEF PartStep, StartPart, WritePart, CountPart, PostCount, SkipPart, TasksOK
  <2>3. \A q \in Part \ {p} : task'[b][q] = task[b][q]
    <3>1. PICK state \in States : SetTask(b, p, state)
      BY <1>2 DEF PartStep, StartPart, WritePart, CountPart, PostCount, SkipPart, States
    <3> QED BY <3>1, ExceptPlace DEF SetTask
  <2> QED BY <2>1, <2>2, <2>3 DEF TasksOK, Mine, File
<1>3. CASE Join(b)
  <2>1. index' = index /\ task' = task /\ phase[b] = "write"
    BY <1>3 DEF Join
  <2>2. phase'[b] = "last" => \A p \in Mine(b) : task[b][p] = "finished"
    BY <1>3 DEF Join
  <2>3. phase'[b] \in {"last", "failed"}
    BY <1>3 DEF Join
  <2> QED BY <2>1, <2>2, <2>3 DEF TasksOK, Mine, File
<1>4. CASE ReadLast(b) \/ LinkPart(b)
  <2>1. index' = index /\ task' = task /\ phase[b] \in {"last", "chain"}
    BY <1>4 DEF ReadLast, LinkPart
  <2> QED BY <2>1 DEF TasksOK, Mine, File
<1>5. CASE Click(b) \/ EndOfFile(b) \/ Report(b) \/ Prepare(b) \/ WriteHeader(b)
  <2>1. phase'[b] \notin {"write", "last", "chain"}
    BY <1>5 DEF Click, EndOfFile, Report, Prepare, WriteHeader
  <2> QED BY <2>1 DEF TasksOK
<1> QED BY <1>1, <1>2, <1>3, <1>4, <1>5 DEF Step

\* A batch whose own state stays as it is keeps its counts and tasks.
LEMMA OtherCounts ==
  ASSUME Types, NEW b \in Batches, Click(b) \/ Step(b),
         NEW c \in Batches, c # b, CountOK(c), TasksOK(c)
  PROVE  CountOK(c)' /\ TasksOK(c)'
<1>1. /\ index'[c] = index[c] /\ phase'[c] = phase[c] /\ task'[c] = task[c]
      /\ held'[c] = held[c] /\ counter'[c] = counter[c] /\ posted'[c] = posted[c]
  BY OthersAlone
<1>2. CountOK(c)'
  BY <1>1, SameCounts
<1>3. TasksOK(c)'
  BY <1>1 DEF TasksOK, Mine, File
<1> QED BY <1>2, <1>3

\* The inductive invariant for the types and the counts.
LEMMA Invariant == Spec => []CInv
<1>1. Init => CInv
  <2> SUFFICES ASSUME Init PROVE CInv
    OBVIOUS
  <2>1. TInv
    BY InitTInv
  <2>2. ASSUME NEW b \in Batches PROVE CountOK(b) /\ TasksOK(b)
    <3>1. /\ \A p \in Part : task[b][p] = "waiting"
          /\ counter[b] = 0 /\ posted[b] = <<>> /\ phase[b] = "idle"
      BY DEF Init
    <3>2. Counted(b) = {} /\ Finished(b) = {} /\ InHand(b) = {}
      BY <3>1 DEF Counted, Finished, InHand
    <3>3. Kept(b) = {} /\ Shown(b) = {} /\ Len(posted[b]) = 0
      BY <3>1, <3>2 DEF Kept, Shown
    <3>4. Cardinality({}) = 0 /\ 1 .. 0 = {}
      BY FS_EmptySet
    <3> QED BY <3>1, <3>2, <3>3, <3>4 DEF CountOK, TasksOK
  <2> QED BY <2>1, <2>2 DEF CInv
<1>2. CInv /\ [Next]_vars => CInv'
  <2> SUFFICES ASSUME CInv, [Next]_vars PROVE CInv'
    OBVIOUS
  <2>1. TInv'
    BY NextTInv DEF CInv
  <2>2. CASE UNCHANGED vars
    <3>1. UNCHANGED <<index, phase, task, held, counter, posted>>
      BY <2>2 DEF vars
    <3>2. ASSUME NEW b \in Batches PROVE CountOK(b)' /\ TasksOK(b)'
      <4>1. CountOK(b) /\ TasksOK(b)
        BY DEF CInv
      <4>2. CountOK(b)'
        BY <3>1, <4>1, SameCounts
      <4>3. TasksOK(b)'
        BY <3>1, <4>1 DEF TasksOK, Mine, File
      <4> QED BY <4>2, <4>3
    <3> QED BY <2>1, <3>2 DEF CInv
  <2>3. ASSUME NEW b \in Batches, Click(b) \/ Step(b), NEW c \in Batches
        PROVE  CountOK(c)' /\ TasksOK(c)'
    <3>1. TInv /\ CountOK(c) /\ TasksOK(c)
      BY DEF CInv
    <3> QED BY <2>3, <3>1, StepCounts, StepTasks, OtherCounts DEF TInv
  <2> QED BY <2>1, <2>2, <2>3 DEF CInv, Next
<1> QED BY <1>1, <1>2, PTL DEF Spec

\* The state keeps its types: the batch is in its list of files, with an outcome
\* for each file behind it, and no more parts are counted than there are.
THEOREM TypeCorrect == Spec => []TypeOK
<1>1. CInv => TypeOK
  <2> SUFFICES ASSUME CInv PROVE TypeOK
    OBVIOUS
  <2> USE DEF CInv, TInv, Types
  <2>1. ASSUME NEW b \in Batches PROVE counter[b] \in 0 .. MaxParts
    <3>1. counter[b] = Cardinality(Counted(b)) /\ Counted(b) \in SUBSET Part
      BY DEF CountOK, Counted
    <3> QED BY <3>1, SomeParts
  <2>2. ASSUME NEW b \in Batches
        PROVE  /\ index[b] \in 1 .. Len(Files[b]) + 1
               /\ place[b] \in 0 .. MaxParts
               /\ Len(results[b]) = index[b] - (IF phase[b] = "ended" THEN 0 ELSE 1)
               /\ phase[b] \notin {"idle", "ended"} =>
                    (index[b] = Len(Files[b]) + 1 <=> phase[b] = "reporting")
    <3>1. InList(b) /\ Len(Files[b]) \in Nat /\ phase[b] \in Phases
      OBVIOUS
    <3> QED BY <3>1 DEF InList, Phases, Busy
  <2>3. \A b \in Batches : phase[b] \in Phases /\ \A p \in Part : task[b][p] \in States
    OBVIOUS
  <2>4. \A d \in Dirs : header[d] # None => header[d].iso.dir = d
    BY DEF HeaderInPlace
  <2> QED BY <2>1, <2>2, <2>3, <2>4 DEF TypeOK, Phases, Busy, States
<1> QED BY <1>1, Invariant, PTL

\* When the parallel loop has succeeded, "Writing part files: n/m" has been shown
\* for every n up to m once, however the tasks interleave.
THEOREM CountsCorrect == Spec => []EveryCountShown
<1>1. CInv => EveryCountShown
  <2> SUFFICES ASSUME CInv, NEW b \in Batches, phase[b] \in {"last", "chain"}
               PROVE  /\ Len(posted[b]) = File(b).parts
                      /\ Shown(b) = 1 .. File(b).parts
    BY DEF EveryCountShown, Shown
  <2>1. TInv /\ CountOK(b) /\ TasksOK(b)
    BY DEF CInv
  <2>2. File(b).parts \in Nat \ {0} /\ Mine(b) \subseteq Part
    BY <2>1, FileAtWork DEF TInv, InList, Busy
  <2>3. Finished(b) = Mine(b) /\ Counted(b) = Mine(b) /\ InHand(b) = {}
    BY <2>1, <2>2 DEF TasksOK, Finished, Counted, InHand
  <2>4. Cardinality(Mine(b)) = File(b).parts
    BY <2>2, FS_Interval DEF Mine
  <2>5. Kept(b) = {}
    BY <2>3 DEF Kept
  <2> QED BY <2>1, <2>3, <2>4, <2>5 DEF CountOK
<1> QED BY <1>1, Invariant, PTL

-----------------------------------------------------------------------------
(* What "Done" means. *)

\* No two batches at work use one directory.
Apart ==
  \A b, c \in Batches : b # c /\ phase[b] \in Busy /\ phase[c] \in Busy
    => File(b).dir # File(c).dir

OnDisk(b, p) == disk[File(b).dir][p]

\* While parts are written: what a task has open is the file in the directory, and
\* what it has written is there.
Writing(b) ==
  \A p \in Part :
    /\ p \notin Mine(b) => OnDisk(b, p) = None
    /\ task[b][p] = "open" => OnDisk(b, p) # None /\ OnDisk(b, p).maker = held[b][p]
    /\ task[b][p] \in {"written", "counted", "finished"} =>
         OnDisk(b, p) # None /\ OnDisk(b, p).covers = Own(File(b), p)

\* The parts from `from` on are linked, the others written.
Linked(b, from) ==
  \A p \in Part :
    /\ p \notin Mine(b) => OnDisk(b, p) = None
    /\ p \in Mine(b) =>
         /\ OnDisk(b, p) # None
         /\ OnDisk(b, p).covers = IF p < from THEN Own(File(b), p) ELSE Covering(File(b), p)

DiskOK(b) ==
  /\ phase[b] = "write" => Writing(b)
  /\ phase[b] = "last" => Linked(b, MaxParts)
  /\ phase[b] = "chain" => Linked(b, place[b]) /\ mht[b] = Covering(File(b), place[b])

DInv == \A b \in Batches : DiskOK(b)

\* The table of the last part covers that part alone.
LEMMA LastCovers ==
  ASSUME NEW iso \in Iso, NEW p \in Nat, p = iso.parts - 1
  PROVE  Covering(iso, p) = Own(iso, p)
<1>1. iso.parts \in Nat /\ iso.parts - p = 1
  BY DEF Iso
<1>2. Covering(iso, p) = [i \in 1 .. 1 |-> [iso |-> iso, part |-> p + i - 1]]
  BY <1>1 DEF Covering
<1>3. [i \in 1 .. 1 |-> [iso |-> iso, part |-> p + i - 1]] = <<[iso |-> iso, part |-> p]>>
  OBVIOUS
<1> QED BY <1>2, <1>3 DEF Own

\* A sequence with an element before it.
LEMMA Prepended ==
  ASSUME NEW S, NEW x \in S, NEW s \in Seq(S), NEW t \in Seq(S),
         Len(t) = Len(s) + 1, t[1] = x, \A i \in 1 .. Len(s) : t[i + 1] = s[i]
  PROVE  <<x>> \o s = t
<1>1. PICK one \in Seq(S) : one = <<x>>
  <2>1. <<x>> \in Seq(S)
    OBVIOUS
  <2> QED BY <2>1, Zenon
<1>2. Len(one) = 1 /\ one[1] = x
  BY <1>1
<1>3. one \o s \in Seq(S) /\ Len(one \o s) = Len(one) + Len(s)
  BY ConcatProperties
<1>4. \A i \in 1 .. Len(one) + Len(s) :
        (one \o s)[i] = IF i <= Len(one) THEN one[i] ELSE s[i - Len(one)]
  BY ConcatProperties
<1>5. Len(s) \in Nat /\ Len(one \o s) = Len(t)
  BY <1>2, <1>3
<1>6. ASSUME NEW i \in 1 .. Len(t) PROVE (one \o s)[i] = t[i]
  <2>1. CASE i = 1
    BY <1>2, <1>4, <1>5, <2>1
  <2>2. CASE i # 1
    <3>1. PICK j \in 1 .. Len(s) : i = j + 1
      <4>1. i - 1 \in 1 .. Len(s) /\ i = (i - 1) + 1
        BY <1>5, <2>2
      <4> QED BY <4>1
    <3>2. (one \o s)[i] = s[j]
      BY <1>2, <1>4, <1>5, <3>1
    <3> QED BY <3>1, <3>2
  <2> QED BY <2>1, <2>2
<1>7. one \o s = t
  BY <1>3, <1>5, <1>6, SeqEqual
<1> QED BY <1>1, <1>7

\* What a table covers, by its length and its places.
LEMMA CoveringPlaces ==
  ASSUME NEW iso \in Iso, NEW p \in Nat, NEW n \in Nat, p + n = iso.parts
  PROVE  /\ Covering(iso, p) \in Seq(Piece) /\ Len(Covering(iso, p)) = n
         /\ \A i \in 1 .. n : Covering(iso, p)[i] = [iso |-> iso, part |-> p + i - 1]
<1>1. iso.parts - p = n /\ iso.parts <= MaxParts
  BY DEF Iso
<1>2. Covering(iso, p) = [i \in 1 .. n |-> [iso |-> iso, part |-> p + i - 1]]
  BY <1>1 DEF Covering
<1>3. \A i \in 1 .. n : p + i - 1 \in Part
  BY <1>1 DEF Part, Iso
<1>4. \A i \in 1 .. n : [iso |-> iso, part |-> p + i - 1] \in Piece
  BY <1>3 DEF Piece
<1>5. /\ Covering(iso, p) \in [1 .. n -> Piece]
      /\ \A i \in 1 .. n : Covering(iso, p)[i] = [iso |-> iso, part |-> p + i - 1]
  BY <1>2, <1>4
<1>6. Covering(iso, p) \in Seq(Piece)
  BY <1>5, SeqDef
<1>7. Len(Covering(iso, p)) = n
  BY <1>2
<1> QED BY <1>5, <1>6, <1>7

\* A linked table covers its part and what the next one covers.
LEMMA LinkCovers ==
  ASSUME NEW iso \in Iso, NEW p \in Nat, p + 1 < iso.parts
  PROVE  Own(iso, p) \o Covering(iso, p + 1) = Covering(iso, p)
<1>1. PICK n \in Nat : n = iso.parts - (p + 1)
  BY DEF Iso
<1>2. p + 1 + n = iso.parts /\ p + (n + 1) = iso.parts /\ p + 1 \in Nat /\ n + 1 \in Nat
  <2>1. iso.parts \in Nat
    BY DEF Iso
  <2> QED BY <1>1, <2>1
<1>3. /\ Covering(iso, p + 1) \in Seq(Piece) /\ Len(Covering(iso, p + 1)) = n
      /\ \A i \in 1 .. n :
           Covering(iso, p + 1)[i] = [iso |-> iso, part |-> p + 1 + i - 1]
  BY <1>2, CoveringPlaces, Zenon
<1>4. /\ Covering(iso, p) \in Seq(Piece) /\ Len(Covering(iso, p)) = n + 1
      /\ \A i \in 1 .. n + 1 :
           Covering(iso, p)[i] = [iso |-> iso, part |-> p + i - 1]
  BY <1>2, CoveringPlaces, Zenon
<1>5. Covering(iso, p)[1] = [iso |-> iso, part |-> p]
  <2>1. 1 \in 1 .. n + 1 /\ p + 1 - 1 = p
    OBVIOUS
  <2> QED BY <1>4, <2>1
<1>6. \A i \in 1 .. n : Covering(iso, p)[i + 1] = Covering(iso, p + 1)[i]
  <2>1. \A i \in 1 .. n : i + 1 \in 1 .. n + 1 /\ p + 1 + i - 1 = p + (i + 1) - 1
    OBVIOUS
  <2> QED BY <1>3, <1>4, <2>1
<1>7. [iso |-> iso, part |-> p] \in Piece
  BY <1>1 DEF Piece, Part, Iso
<1> QED BY <1>3, <1>4, <1>5, <1>6, <1>7, Prepended DEF Own

\* The steps of a batch in the directory that it alone uses.
LEMMA StepDisk ==
  ASSUME CInv, NEW b \in Batches, DiskOK(b), Click(b) \/ Step(b)
  PROVE  DiskOK(b)'
<1> USE DEF CInv, TInv, Types, Goto, Fail, taskVars, chainVars
<1>w. phase[b] \in Busy => /\ File(b) \in Iso /\ File(b).dir \in Dirs
                           /\ File(b).parts \in Nat \ {0} /\ File(b).parts <= MaxParts
                           /\ Mine(b) \subseteq Part
  BY FileAtWork DEF InList
<1>1. CASE phase'[b] \notin {"write", "last", "chain"}
  BY <1>1 DEF DiskOK
<1>2. CASE EmptyDir(b) /\ phase'[b] = "write"
  <2>1. /\ File(b).dir \in Dirs /\ index' = index
        /\ disk' = [disk EXCEPT ![File(b).dir] = [p \in Part |-> None]]
        /\ NewTasks(b)
    BY <1>2, <1>w DEF EmptyDir, Busy
  <2>2. \A p \in Part : disk'[File(b).dir][p] = None /\ task'[b][p] = "waiting"
    BY <2>1 DEF NewTasks
  <2>3. File(b)' = File(b)
    BY <2>1 DEF File
  <2> QED BY <1>2, <2>2, <2>3 DEF DiskOK, Writing, OnDisk
<1>3. ASSUME NEW p \in Part, PartStep(b, p) PROVE DiskOK(b)'
  <2> DEFINE d == File(b).dir
  <2>1. /\ phase[b] = "write" /\ UNCHANGED <<phase, index>>
        /\ File(b)' = File(b) /\ Mine(b)' = Mine(b)
    BY <1>3 DEF PartStep, StartPart, WritePart, CountPart, PostCount, SkipPart, Mine, File
  <2>2. d \in Dirs /\ File(b) \in Iso /\ Writing(b)
    BY <1>w, <2>1 DEF Busy, DiskOK
  <2>3. p \in Mine(b)
    BY <1>3, <2>1 DEF PartStep, StartPart, WritePart, CountPart, PostCount, SkipPart, TasksOK
  <2>4. \A q \in Part \ {p} : /\ task'[b][q] = task[b][q] /\ held'[b][q] = held[b][q]
                              /\ disk'[d][q] = disk[d][q]
    BY <1>3, <2>2 DEF PartStep, StartPart, WritePart, CountPart, PostCount, SkipPart, SetTask
  <2>5. /\ task'[b][p] = "open" => disk'[d][p] # None /\ disk'[d][p].maker = held'[b][p]
        /\ task'[b][p] \in {"written", "counted", "finished"} =>
             disk'[d][p] # None /\ disk'[d][p].covers = Own(File(b), p)
    <3>1. CASE StartPart(b, p)
      <4> DEFINE maker == IF disk[d][p] = None THEN b ELSE disk[d][p].maker
                 new == [maker |-> maker, covers |-> <<>>]
      <4>1. new \in PartFile
        <5>1. maker \in Batches
          BY <2>2 DEF PartFile
        <5> QED BY <5>1 DEF PartFile
      <4>2. \/ SetTask(b, p, "open") /\ held'[b][p] = maker /\ disk'[d][p] = new
            \/ SetTask(b, p, "failed")
        BY <2>2, <3>1 DEF StartPart
      <4>3. \/ task'[b][p] = "open" /\ held'[b][p] = maker /\ disk'[d][p] = new
            \/ task'[b][p] = "failed"
        BY <4>2 DEF SetTask
      <4>4. new # None /\ new.maker = maker
        BY <4>1
      <4> HIDE DEF maker, new
      <4> QED BY <4>3, <4>4
    <3>2. CASE WritePart(b, p)
      <4>1. disk[d][p] # None /\ disk[d][p].maker = held[b][p] /\ disk[d][p] \in PartFile
        BY <2>2, <3>2 DEF WritePart, Writing, OnDisk
      <4>2. Own(File(b), p) \in Seq(Piece)
        BY <2>2, OwnType
      <4>3. \/ /\ SetTask(b, p, "written")
               /\ disk' = [disk EXCEPT ![d][p].covers = Own(File(b), p)]
            \/ SetTask(b, p, "failed")
        BY <3>2, <4>1 DEF WritePart
      <4>4. \/ /\ task'[b][p] = "written"
               /\ disk'[d][p] = [disk[d][p] EXCEPT !.covers = Own(File(b), p)]
            \/ task'[b][p] = "failed"
        <5>1. ASSUME disk' = [disk EXCEPT ![d][p].covers = Own(File(b), p)]
              PROVE  disk'[d][p] = [disk[d][p] EXCEPT !.covers = Own(File(b), p)]
          <6>1. d \in Dirs /\ disk \in [Dirs -> [Part -> PartFile \cup {None}]]
            BY <2>2
          <6> HIDE DEF d
          <6> QED BY <5>1, <6>1
        <5>2. /\ SetTask(b, p, "written") => task'[b][p] = "written"
              /\ SetTask(b, p, "failed") => task'[b][p] = "failed"
          BY DEF SetTask
        <5> QED BY <4>3, <5>1, <5>2
      <4>5. /\ [disk[d][p] EXCEPT !.covers = Own(File(b), p)] \in PartFile
            /\ [disk[d][p] EXCEPT !.covers = Own(File(b), p)].covers = Own(File(b), p)
        BY <4>1, <4>2, Rewritten
      <4> QED BY <4>4, <4>5
    <3>3. CASE CountPart(b, p)
      BY <2>2, <3>3 DEF CountPart, SetTask, Writing, OnDisk
    <3>4. CASE PostCount(b, p)
      BY <2>2, <3>4 DEF PostCount, SetTask, Writing, OnDisk
    <3>5. CASE SkipPart(b, p)
      BY <2>2, <3>5 DEF SkipPart, SetTask, Writing, OnDisk
    <3> QED BY <1>3, <3>1, <3>2, <3>3, <3>4, <3>5 DEF PartStep
  <2>6. Writing(b)'
    BY <2>1, <2>2, <2>3, <2>4, <2>5 DEF Writing, OnDisk
  <2> QED BY <2>1, <2>6 DEF DiskOK
<1>4. CASE Join(b) /\ phase'[b] = "last"
  <2>1. phase[b] = "write" /\ UNCHANGED <<index, task, disk>>
    BY <1>4 DEF Join
  <2>2. Writing(b) /\ Mine(b) \subseteq Part
    BY <1>w, <2>1 DEF DiskOK, Busy
  <2>3. \A p \in Mine(b) : task[b][p] = "finished"
    BY <1>4 DEF Join
  <2>4. Linked(b, MaxParts)
    <3>1. \A p \in Part : p < MaxParts
      BY DEF Part
    <3> QED BY <2>2, <2>3, <3>1 DEF Writing, Linked
  <2>5. Linked(b, MaxParts)'
    BY <2>1, <2>4 DEF Linked, OnDisk, Mine, File
  <2> QED BY <1>4, <2>5 DEF DiskOK
<1>5. CASE ReadLast(b) /\ phase'[b] = "chain"
  <2> DEFINE last == File(b).parts - 1
  <2>1. /\ phase[b] = "last" /\ UNCHANGED <<index, disk>>
        /\ last >= 0 /\ mht'[b] = disk[File(b).dir][last].covers /\ place'[b] = last
    BY <1>5, <1>w DEF ReadLast, Busy
  <2>2. Linked(b, MaxParts) /\ Mine(b) \subseteq Part /\ File(b) \in Iso
        /\ last \in Nat /\ last \in Mine(b)
    BY <1>w, <2>1 DEF DiskOK, Busy, Mine
  <2>3. Covering(File(b), last) = Own(File(b), last)
    BY <2>2, LastCovers
  <2>4. mht'[b] = Covering(File(b), last)
    BY <2>1, <2>2, <2>3 DEF Linked, OnDisk, Part
  <2>5. Linked(b, last)
    <3>1. \A p \in Mine(b) : p < MaxParts /\ (p < last \/ p = last)
      BY <2>2 DEF Mine, Part
    <3> QED BY <2>2, <2>3, <3>1 DEF Linked
  <2>6. Linked(b, last)' /\ last' = last
    BY <2>1, <2>5 DEF Linked, OnDisk, Mine, File
  <2>7. Linked(b, place[b])'
    BY <2>1, <2>6
  <2> QED BY <1>5, <2>1, <2>4, <2>7 DEF DiskOK, File
<1>6. CASE LinkPart(b) /\ phase'[b] = "chain"
  <2> DEFINE d == File(b).dir
             p == place[b] - 1
             linked == disk[d][p].covers \o mht[b]
  <2>1. /\ phase[b] = "chain" /\ place[b] # 0 /\ UNCHANGED <<index>>
        /\ disk' = [disk EXCEPT ![d][p].covers = linked]
        /\ mht'[b] = linked /\ place'[b] = p
    BY <1>6 DEF LinkPart, ChainEnds
  <2>2. /\ Linked(b, place[b]) /\ mht[b] = Covering(File(b), place[b])
        /\ Mine(b) \subseteq Part /\ File(b) \in Iso /\ d \in Dirs
        /\ place[b] \in Mine(b)
    BY <1>w, <2>1 DEF DiskOK, Busy, InList
  <2>3. p \in Nat /\ p \in Mine(b) /\ p \in Part /\ p < place[b] /\ place[b] = p + 1
        /\ p + 1 < File(b).parts
    BY <1>w, <2>1, <2>2 DEF Mine, Busy
  <2>4. disk[d][p] # None /\ disk[d][p].covers = Own(File(b), p) /\ disk[d][p] \in PartFile
    BY <2>2, <2>3 DEF Linked, OnDisk
  <2>5. linked = Covering(File(b), p)
    BY <2>2, <2>3, <2>4, LinkCovers
  <2>6. /\ disk'[d][p] \in PartFile /\ disk'[d][p].covers = linked
        /\ \A q \in Part \ {p} : disk'[d][q] = disk[d][q]
    <3>1. linked \in Seq(Piece)
      BY <2>4 DEF PartFile
    <3>2. disk'[d][p] = [disk[d][p] EXCEPT !.covers = linked]
      BY <2>1, <2>2, <2>3
    <3>3. \A q \in Part \ {p} : disk'[d][q] = disk[d][q]
      BY <2>1, <2>2
    <3> HIDE DEF linked
    <3> QED BY <2>4, <3>1, <3>2, <3>3, Rewritten
  <2>7. File(b)' = File(b) /\ Mine(b)' = Mine(b)
    BY <2>1 DEF File, Mine
  <2>8. \A q \in Mine(b) \ {p} : q < p <=> q < place[b]
    BY <2>3 DEF Mine
  <2> HIDE DEF p, linked, d
  <2>9. \A q \in Part :
          /\ q \notin Mine(b) => disk'[d][q] = None
          /\ q \in Mine(b) =>
               /\ disk'[d][q] # None
               /\ disk'[d][q].covers = IF q < p THEN Own(File(b), q) ELSE Covering(File(b), q)
    BY <2>2, <2>3, <2>5, <2>6, <2>8 DEF Linked, OnDisk, d
  <2>10. Linked(b, place[b])'
    BY <2>1, <2>7, <2>9 DEF Linked, OnDisk, d
  <2> QED BY <1>6, <2>1, <2>5, <2>7, <2>10 DEF DiskOK
<1>7. phase'[b] \in {"write", "last", "chain"} =>
        \/ EmptyDir(b) /\ phase'[b] = "write"
        \/ \E p \in Part : PartStep(b, p)
        \/ Join(b) /\ phase'[b] = "last"
        \/ ReadLast(b) /\ phase'[b] = "chain"
        \/ LinkPart(b) /\ phase'[b] = "chain"
  BY DEF Click, Step, EndOfFile, Report, Prepare, EmptyDir, Join, ReadLast, LinkPart, WriteHeader
<1> QED BY <1>1, <1>2, <1>3, <1>4, <1>5, <1>6, <1>7

\* A step changes one directory at most, that of its batch.
LEMMA OneDirectory ==
  ASSUME Types, NEW b \in Batches, Click(b) \/ Step(b)
  PROVE  \/ disk' = disk
         \/ phase[b] \in Busy /\ \A d \in Dirs \ {File(b).dir} : disk'[d] = disk[d]
<1> USE DEF Types
<1>1. CASE EmptyDir(b)
  BY <1>1 DEF EmptyDir, Busy
<1>2. ASSUME NEW p \in Part, StartPart(b, p)
      PROVE  phase[b] \in Busy /\ \A d \in Dirs \ {File(b).dir} : disk'[d] = disk[d]
  BY <1>2 DEF StartPart, Busy
<1>3. ASSUME NEW p \in Part, WritePart(b, p)
      PROVE  phase[b] \in Busy /\ \A d \in Dirs \ {File(b).dir} : disk'[d] = disk[d]
  BY <1>3 DEF WritePart, Busy
<1>4. CASE LinkPart(b)
  BY <1>4 DEF LinkPart, Busy, chainVars
<1>5. ASSUME NEW p \in Part, CountPart(b, p) \/ PostCount(b, p) \/ SkipPart(b, p)
      PROVE  disk' = disk
  BY <1>5 DEF CountPart, PostCount, SkipPart
<1>6. Click(b) \/ EndOfFile(b) \/ Report(b) \/ Prepare(b) \/ Join(b) \/ ReadLast(b)
        \/ WriteHeader(b) => disk' = disk
  BY DEF Click, EndOfFile, Report, Prepare, Join, ReadLast, WriteHeader
<1> QED BY <1>1, <1>2, <1>3, <1>4, <1>5, <1>6 DEF Step, PartStep

\* A step of another batch, which is in another directory, changes nothing here.
LEMMA OtherDisk ==
  ASSUME CInv, Apart, NEW b \in Batches, Click(b) \/ Step(b),
         NEW c \in Batches, c # b, DiskOK(c)
  PROVE  DiskOK(c)'
<1> USE DEF CInv, TInv, Types
<1>1. /\ index'[c] = index[c] /\ phase'[c] = phase[c] /\ task'[c] = task[c]
      /\ held'[c] = held[c] /\ place'[c] = place[c] /\ mht'[c] = mht[c]
  BY OthersAlone
<1>2. File(c)' = File(c) /\ Mine(c)' = Mine(c)
  BY <1>1 DEF File, Mine
<1>3. CASE phase[c] \notin {"write", "last", "chain"}
  BY <1>1, <1>3 DEF DiskOK
<1>4. CASE phase[c] \in {"write", "last", "chain"}
  <2>1. phase[c] \in Busy /\ File(c).dir \in Dirs
    BY <1>4, FileAtWork DEF Busy, InList
  <2>2. disk'[File(c).dir] = disk[File(c).dir]
    BY <2>1, OneDirectory DEF Apart
  <2>3. \A p \in Part : OnDisk(c, p)' = OnDisk(c, p)
    BY <1>2, <2>2 DEF OnDisk
  <2>4. Writing(c)' = Writing(c) /\ \A n \in Nat : Linked(c, n)' = Linked(c, n)
    BY <1>1, <1>2, <2>3 DEF Writing, Linked
  <2> QED BY <1>1, <1>2, <2>4 DEF DiskOK
<1> QED BY <1>3, <1>4

\* "Done! Game converted" is true: as long as no two batches at work use the same
\* directory, it has the parts of the ISO, linked in order, and its header.
THEOREM ConversionsCorrect == Spec /\ []Apart => DoneMeansConverted
<1>1. Init => DInv
  BY DEF Init, DInv, DiskOK
<1>2. CInv /\ Apart /\ DInv /\ [Next]_vars => DInv'
  <2> SUFFICES ASSUME CInv, Apart, DInv, [Next]_vars, NEW c \in Batches PROVE DiskOK(c)'
    BY DEF DInv
  <2>1. DiskOK(c)
    BY DEF DInv
  <2>2. CASE UNCHANGED vars
    BY <2>1, <2>2 DEF vars, DiskOK, Writing, Linked, OnDisk, Mine, File
  <2>3. ASSUME NEW b \in Batches, Click(b) \/ Step(b) PROVE DiskOK(c)'
    BY <2>1, <2>3, StepDisk, OtherDisk
  <2> QED BY <2>2, <2>3 DEF Next
<1>3. CInv /\ DInv /\ [Next]_vars =>
        [\A b \in Batches : phase[b] # "done" /\ phase'[b] = "done" => Converted(b)']_vars
  <2> SUFFICES ASSUME CInv, DInv, [Next]_vars, NEW b \in Batches,
                      phase[b] # "done", phase'[b] = "done"
               PROVE  Converted(b)'
    OBVIOUS
  <2> USE DEF CInv, TInv, Types, Goto, Fail
  <2>1. PICK c \in Batches : Click(c) \/ Step(c)
    BY DEF Next, vars
  <2>2. c = b
    BY <2>1, OthersAlone
  <2>3. WriteHeader(b)
    BY <2>1, <2>2 DEF Click, Step, EndOfFile, Report, Prepare, EmptyDir, PartStep, StartPart,
       WritePart, CountPart, PostCount, SkipPart, Join, ReadLast, LinkPart
  <2>4. /\ phase[b] = "chain" /\ place[b] = 0 /\ UNCHANGED <<index, disk>>
        /\ header' = [header EXCEPT ![File(b).dir] = [iso |-> File(b), hash |-> mht[b]]]
    BY <2>3 DEF WriteHeader, ChainEnds
  <2>5. Linked(b, 0) /\ mht[b] = Covering(File(b), 0) /\ File(b).dir \in Dirs
    BY <2>4, FileAtWork DEF DInv, DiskOK, InList, Busy
  <2>6. header'[File(b).dir] = [iso |-> File(b), hash |-> Covering(File(b), 0)]
    BY <2>4, <2>5
  <2>7. \A p \in Part : ~(p < 0)
    BY DEF Part
  <2>8. File(b)' = File(b) /\ Mine(b)' = Mine(b) /\ disk' = disk
    BY <2>4 DEF File, Mine
  <2> QED BY <2>5, <2>6, <2>7, <2>8 DEF Converted, Linked, OnDisk
<1> QED BY <1>1, <1>2, <1>3, Invariant, PTL DEF Spec, DoneMeansConverted
=============================================================================
