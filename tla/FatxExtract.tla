---------------------------- MODULE FatxExtract -----------------------------
(***************************************************************************)
(* extract_fatx_directory_recursive (src/fatx_runner.rs): all files below  *)
(* a directory of a FATX volume are copied to a local folder.  Directories *)
(* are listed from a stack; a listing that the device or a damaged volume  *)
(* cuts short is taken for the whole one.  The volume answers for paths as *)
(* DirAnswers says, and files are read as ByteFile says: job[j].volume is  *)
(* the tree that job j finds on its device.                                *)
(***************************************************************************)
EXTENDS LocalJobs, DirAnswers

CONSTANTS
  Content,   \* Content[f]: the chunks of the file whose first cluster is f
  LostData   \* a chunk that can no longer be read

AskVolume(j, op, path) == Answer(job[j].volume, [op |-> op, path |-> path])

\* A call starts the extraction; `cut` remembers that a listing was cut short.
CallExtract(j) ==
  /\ Is(j, "extract", "idle")
  /\ Put(j, [phase |-> "open", cut |-> FALSE, files |-> <<>>,
             dirs |-> <<job[j].sources[1]>>])
  /\ UNCHANGED disk

\* FatxFs::open_device.
OpenVolume(j) ==
  /\ Is(j, "extract", "open")
  /\ Fail(j) \/ Goto(j, "list")
  /\ UNCHANGED disk

\* Mutant: each listing starts the list of files anew.
FilesAfterLast(j, path, entries) ==
  LET shown == Only(entries, {e \in ToSet(entries) : e.kind = "file"})
  IN [i \in DOMAIN shown |-> Append(path, shown[i].name)]

\* file_list after the entries of the directory at path.
FilesAfter(j, path, entries) ==
  LET shown == Only(entries, {e \in ToSet(entries) : e.kind = "file"})
  IN work[j].files \o [i \in DOMAIN shown |-> Append(path, shown[i].name)]

\* dir_queue after them, the directory itself taken off.
DirsAfter(j, path, entries) ==
  LET shown == Only(entries, {e \in ToSet(entries) : e.kind = "dir"})
  IN Front(work[j].dirs) \o [i \in DOMAIN shown |-> Append(path, shown[i].name)]

\* read_dir of the directory pushed last, and its entries but for the errors.
ListDir(j) ==
  LET path == Last(work[j].dirs)
      list == AskVolume(j, "list", path)
  IN /\ Is(j, "extract", "list") /\ work[j].dirs # <<>>
     /\ \/ Fail(j)
        \/ /\ list.kind = "list"
           /\ \E n \in 0 .. Len(list.entries) :
                LET entries == SubSeq(list.entries, 1, n)
                IN Put(j, [files |-> FilesAfter(j, path, entries),
                           dirs |-> DirsAfter(j, path, entries),
                           cut |-> work[j].cut \/ n < Len(list.entries)])
     /\ UNCHANGED disk

\* "Done (No files found to extract)."
ListEnds(j) ==
  /\ Is(j, "extract", "list") /\ work[j].dirs = <<>>
  /\ IF work[j].files = <<>> THEN Goto(j, "done")
     ELSE Put(j, [phase |-> "create", place |-> 1])
  /\ UNCHANGED disk

RemoteName(j) == work[j].files[work[j].place]

\* local_dest joined with the path but for its leading slash.
LocalName(j, path) == Dest(j) \o Only(path, ToSet(path) \ {Root})

\* The parents are made, the file on the volume is opened, the local one created.
StartFile(j) ==
  LET path == LocalName(j, RemoteName(j))
      made == MakeDirs(disk, Front(path))
      found == AskVolume(j, "open", RemoteName(j))
  IN /\ Is(j, "extract", "create")
     /\ \/ Fail(j) /\ UNCHANGED disk
        \/ /\ CanMakeDirs(disk, Front(path))
           /\ \/ Fail(j) /\ disk' = made
              \/ /\ found.kind = "entry" /\ CanCreate(made, path)
                 /\ disk' = Create(made, path)
                 /\ Put(j, [phase |-> "copy", first |-> found.entry.first, done |-> 0])

\* A read hands out the next bytes or fails; lost ones are not handed out.
ExtractChunk(j) ==
  LET n == work[j].done + 1
      chunks == Content[work[j].first]
  IN /\ Is(j, "extract", "copy") /\ n <= Len(chunks)
     /\ \/ /\ chunks[n] # LostData
           /\ disk' = WriteChunk(disk, LocalName(j, RemoteName(j)), n, chunks[n])
           /\ Put(j, [done |-> n])
        \/ Fail(j) /\ UNCHANGED disk

\* A read of zero bytes.  "Extraction completed successfully."
EndFile(j) ==
  /\ Is(j, "extract", "copy") /\ work[j].done = Len(Content[work[j].first])
  /\ Put(j, [phase |-> IF work[j].place < Len(work[j].files) THEN "create" ELSE "done",
             place |-> work[j].place + 1])
  /\ UNCHANGED disk

\* Where an extraction may stand: what was found by the listings is below the root,
\* and a file that is copied is on the local disk.
ExtractTypeOK(j) ==
  LET w == work[j]
  IN /\ w.phase \in {"idle", "open", "list", "create", "copy", "done", "failed"}
     /\ w.phase \notin {"idle", "done", "failed"} =>
          /\ {"cut", "files", "dirs"} \subseteq DOMAIN w /\ w.cut \in BOOLEAN
          /\ w.files \in Seq(AbsolutePaths(Names)) /\ w.dirs \in Seq(AbsolutePaths(Names))
     /\ w.phase \in {"create", "copy"} =>
          "place" \in DOMAIN w /\ w.place \in DOMAIN w.files
     /\ w.phase = "copy" =>
          /\ {"first", "done"} \subseteq DOMAIN w /\ w.first \in DOMAIN Content
          /\ w.done \in 0 .. Len(Content[w.first])
          /\ IsFile(disk, LocalName(j, RemoteName(j)))

ExtractStep(j) ==
  \/ OpenVolume(j) \/ ListDir(j) \/ ListEnds(j) \/ StartFile(j) \/ ExtractChunk(j) \/ EndFile(j)
=============================================================================
