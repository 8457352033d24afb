------------------------------ MODULE XisoTab -------------------------------
(***************************************************************************)
(* The XISO tab (src/main.rs) and its runner (src/xiso_runner.rs).         *)
(* Extract unpacks the images chosen, one after the other, into the folder *)
(* chosen or, if they are several, into folders named after them.  Build   *)
(* packs a folder into an image through a buffer.  Every call that uses a  *)
(* file may fail.                                                          *)
(*                                                                         *)
(* An image, as xdvdfs reads and writes it, is a file with a table in its  *)
(* first chunk: a sequence of entries [dir, name, isDir, at, size], where  *)
(* the entry's data is in the chunks at, at + 1, ... of the file.          *)
(***************************************************************************)
EXTENDS LocalJobs

CONSTANT Stem  \* Stem[name]: the name without its extension

Item == [dir : Path, name : Names, isDir : BOOLEAN, at : Nat \ {0}, size : Nat]
Chunk == [data : Bytes] \cup [table : Seq(Item)]

Table(entries) == [table |-> entries]
IsImage(fs, path) ==
  /\ IsFile(fs, path) /\ fs[path].content # <<>>
  /\ "table" \in DOMAIN fs[path].content[1]
TableOf(fs, path) == fs[path].content[1].table

-----------------------------------------------------------------------------
(* Extract: the loop of on_unpack_xiso over the images of the batch. *)

Several(j) == Len(job[j].sources) > 1

\* Mutant: all images of a batch go to the folder chosen.
TargetChosen(j, index) == Dest(j)

\* current_dest_dir, for the image with this index.
Target(j, index) ==
  IF Several(j) THEN Append(Dest(j), Stem[Last(job[j].sources[index])]) ELSE Dest(j)

ClickUnpack(j) ==
  /\ Is(j, "unpack", "idle") /\ job[j].sources # <<>>
  /\ Put(j, [phase |-> "open", index |-> 1, outcomes |-> <<>>])
  /\ UNCHANGED disk

\* unpack_xiso returns an error: the image is given up.
GiveUp(j) == Goto(j, "given up")

Image(j) == job[j].sources[work[j].index]

\* File::open, read_volume and file_tree.
OpenImage(j) ==
  /\ Is(j, "unpack", "open")
  /\ \/ GiveUp(j)
     \/ /\ IsImage(disk, Image(j))
        /\ LET entries == TableOf(disk, Image(j))
           IN Put(j, [phase |-> IF entries = <<>> THEN "unpacked" ELSE "entry",
                      entries |-> entries, place |-> 1])
  /\ UNCHANGED disk

Entry(j) == work[j].entries[work[j].place]
EntryDir(j) == Target(j, work[j].index) \o Entry(j).dir
EntryPath(j) == Append(EntryDir(j), Entry(j).name)

NextEntry(j) ==
  Put(j, [phase |-> IF work[j].place < Len(work[j].entries) THEN "entry" ELSE "unpacked",
          place |-> work[j].place + 1])

UnpackDir(j) ==
  /\ Is(j, "unpack", "entry") /\ Entry(j).isDir
  /\ CanMakeDirs(disk, EntryPath(j))
  /\ disk' = MakeDirs(disk, EntryPath(j))
  /\ NextEntry(j)

UnpackFile(j) ==
  /\ Is(j, "unpack", "entry") /\ ~Entry(j).isDir
  /\ CanMakeDirs(disk, EntryDir(j))
  /\ LET made == MakeDirs(disk, EntryDir(j))
     IN CanCreate(made, EntryPath(j)) /\ disk' = Create(made, EntryPath(j))
  /\ IF Entry(j).size = 0 THEN NextEntry(j) ELSE Put(j, [phase |-> "copy", done |-> 0])

\* A directory or the file cannot be made.
EntryFails(j) ==
  /\ Is(j, "unpack", "entry")
  /\ \/ UNCHANGED disk
     \/ CanMakeDirs(disk, EntryDir(j)) /\ disk' = MakeDirs(disk, EntryDir(j))
  /\ GiveUp(j)

\* A chunk is read from the image, which must reach that far, and written.
UnpackChunk(j) ==
  LET n == work[j].done + 1
      at == Entry(j).at + work[j].done
  IN /\ Is(j, "unpack", "copy")
     /\ \/ /\ at <= Len(disk[Image(j)].content)
           /\ disk' = WriteChunk(disk, EntryPath(j), n, ChunkAt(disk, Image(j), at))
           /\ IF n = Entry(j).size THEN NextEntry(j) ELSE Put(j, [done |-> n])
        \/ GiveUp(j) /\ UNCHANGED disk

\* Mutant: the image that failed is tried again.
EndOfImageRetrying(j) ==
  /\ job[j].kind = "unpack" /\ Phase(j) \in {"unpacked", "given up"}
  /\ IF Phase(j) = "given up" THEN Goto(j, "open")
     ELSE Put(j, [phase |-> IF work[j].index < Len(job[j].sources) THEN "open" ELSE "done",
                  index |-> work[j].index + 1, outcomes |-> Append(work[j].outcomes, Phase(j))])
  /\ UNCHANGED disk

\* "Done." or "Failed: ..." and the next image's turn; after the last one,
\* "Batch unpack completed successfully!", whatever the outcomes.
EndOfImage(j) ==
  /\ job[j].kind = "unpack" /\ Phase(j) \in {"unpacked", "given up"}
  /\ Put(j, [phase |-> IF work[j].index < Len(job[j].sources) THEN "open" ELSE "done",
             index |-> work[j].index + 1, outcomes |-> Append(work[j].outcomes, Phase(j))])
  /\ UNCHANGED disk

\* Where an extraction may stand: at an image of the batch, at one of its entries
\* and, while its file is written, before the end of that.
UnpackTypeOK(j) ==
  LET w == work[j]
  IN /\ w.phase \in {"idle", "open", "entry", "copy", "unpacked", "given up", "done"}
     /\ w.phase \notin {"idle", "done"} =>
          /\ {"index", "outcomes"} \subseteq DOMAIN w
          /\ w.index \in DOMAIN job[j].sources
          /\ w.outcomes \in Seq({"unpacked", "given up"})
     /\ w.phase \in {"entry", "copy"} =>
          /\ {"entries", "place"} \subseteq DOMAIN w
          /\ w.entries \in Seq(Item) /\ w.place \in DOMAIN w.entries
          /\ IsFile(disk, Image(j))
     /\ w.phase = "copy" =>
          /\ "done" \in DOMAIN w /\ w.done \in 0 .. Entry(j).size - 1
          /\ IsFile(disk, EntryPath(j))

UnpackStep(j) ==
  \/ OpenImage(j) \/ UnpackDir(j) \/ UnpackFile(j) \/ EntryFails(j) \/ UnpackChunk(j)
  \/ EndOfImage(j)

-----------------------------------------------------------------------------
(* Build: pack_xiso, and create_xdvdfs_image as it uses the disk. *)

ClickPack(j) ==
  /\ Is(j, "pack", "idle") /\ job[j].sources # <<>>
  /\ Put(j, [phase |-> "create", buffer |-> <<>>])
  /\ UNCHANGED disk

\* The image is emptied before the source is looked at.
CreateImage(j) ==
  /\ Is(j, "pack", "create")
  /\ \/ /\ CanCreate(disk, Dest(j))
        /\ disk' = Create(disk, Dest(j))
        /\ Goto(j, "scan")
     \/ Fail(j) /\ UNCHANGED disk

FirstFree(entries) ==
  IF entries = <<>> THEN 2 ELSE Last(entries).at + Last(entries).size

\* The entry for what is at path, behind the others.
LaidOut(fs, dir, entries, path) ==
  [dir |-> Relative(dir, Front(path)), name |-> Last(path), isDir |-> IsDir(fs, path),
   at |-> FirstFree(entries), size |-> IF IsDir(fs, path) THEN 0 ELSE Len(fs[path].content)]

\* Everything below dir, laid out one after the other.
Layout(fs, dir) ==
  LET paths == SetToSeq(Below(fs, dir))
      laid[n \in 0 .. Len(paths)] ==
        IF n = 0 THEN <<>>
        ELSE Append(laid[n - 1], LaidOut(fs, dir, laid[n - 1], paths[n]))
  IN laid[Len(paths)]

\* A source text that stands for several files names no folder.
ScanFolder(j) ==
  /\ Is(j, "pack", "scan")
  /\ \/ /\ ~Several(j) /\ IsDir(disk, Source(j))
        /\ Put(j, [phase |-> "pack", entries |-> Layout(disk, Source(j)), at |-> 2])
     \/ Fail(j)
  /\ UNCHANGED disk

\* The first `count` pieces of the buffer, [at, chunk], written to the image.
Flushed(fs, j, buffer, count) ==
  LET flushed[n \in 0 .. count] ==
        IF n = 0 THEN fs
        ELSE WriteChunk(flushed[n - 1], Dest(j), buffer[n].at, buffer[n].chunk)
  IN flushed[count]

\* The buffer is written out when it is full, at a point that its capacity and
\* the sizes of the files decide.
Buffer(j, piece, fields) ==
  LET buffer == Append(work[j].buffer, piece)
  IN \/ Put(j, Over([buffer |-> buffer], fields)) /\ UNCHANGED disk
     \/ /\ Put(j, Over([buffer |-> <<>>], fields))
        /\ disk' = Flushed(disk, j, buffer, Len(buffer))

\* The entry that the chunk in place at belongs to, and where it was found.
Owner(entries, at) == CHOOSE e \in ToSet(entries) : at \in e.at .. e.at + e.size - 1
FoundAt(j, e) == Append(Source(j) \o e.dir, e.name)

\* Mutant: off by one.
ChunkForNext(j, at) ==
  LET e == Owner(work[j].entries, at) IN ChunkAt(disk, FoundAt(j, e), at - e.at + 2)

\* What goes into place at of the image: read from the file as it is now.
ChunkFor(j, at) ==
  LET e == Owner(work[j].entries, at) IN ChunkAt(disk, FoundAt(j, e), at - e.at + 1)

PackChunk(j) ==
  LET at == work[j].at
  IN /\ Is(j, "pack", "pack") /\ at < FirstFree(work[j].entries)
     /\ Buffer(j, [at |-> at, chunk |-> ChunkFor(j, at)], [at |-> at + 1])

\* The table goes last, then "Done! XISO image successfully built."
FinishImage(j) ==
  /\ Is(j, "pack", "pack") /\ work[j].at = FirstFree(work[j].entries)
  /\ Buffer(j, [at |-> 1, chunk |-> Table(work[j].entries)], [phase |-> "built"])

PackFails(j) == Is(j, "pack", "pack") /\ Goto(j, "broken") /\ UNCHANGED disk

\* The BufWriter is dropped: it writes what it has left and ignores errors.
DropBuffer(j) ==
  /\ job[j].kind = "pack" /\ Phase(j) \in {"built", "broken"}
  /\ \E count \in 0 .. Len(work[j].buffer) :
       /\ disk' = Flushed(disk, j, work[j].buffer, count)
       /\ Put(j, [phase |-> IF Phase(j) = "broken" THEN "failed"
                            ELSE IF count = Len(work[j].buffer) THEN "done" ELSE "lost",
                  buffer |-> <<>>])

\* Every place of the image from n on belongs to an entry, and those that have
\* places to a file that is there.
CoversFrom(j, entries, n) ==
  /\ \A at \in n .. FirstFree(entries) - 1 :
       \E e \in ToSet(entries) : at \in e.at .. e.at + e.size - 1
  /\ \A e \in ToSet(entries) : e.size > 0 => IsFile(disk, FoundAt(j, e))

\* Where a build may stand: the image is there from the start, and what has to be
\* read for it is, too.
PackTypeOK(j) ==
  LET w == work[j]
  IN /\ w.phase \in {"idle", "create", "scan", "pack", "built", "broken", "done", "failed", "lost"}
     /\ w.phase \in {"create", "scan", "pack", "built", "broken"} =>
          "buffer" \in DOMAIN w /\ w.buffer \in Seq([at : Nat \ {0}, chunk : Chunk])
     /\ w.phase \in {"scan", "pack", "built", "broken"} => IsFile(disk, Dest(j))
     /\ w.phase = "pack" =>
          /\ {"entries", "at"} \subseteq DOMAIN w
          /\ w.entries \in Seq(Item) /\ w.at \in 2 .. FirstFree(w.entries)
          /\ CoversFrom(j, w.entries, w.at)

PackStep(j) ==
  \/ CreateImage(j) \/ ScanFolder(j) \/ PackChunk(j) \/ FinishImage(j) \/ PackFails(j)
  \/ DropBuffer(j)
=============================================================================
