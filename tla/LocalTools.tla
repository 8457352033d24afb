----------------------------- MODULE LocalTools -----------------------------
(***************************************************************************)
(* The tools that read and write the local disk, side by side: the XISO    *)
(* tab, the upload tab and the extraction from a FATX volume.  What one    *)
(* writes another may read: an image that is built is unpacked, a folder   *)
(* that was unpacked or extracted is uploaded.                             *)
(***************************************************************************)
EXTENDS XisoTab, FtpUpload, FatxExtract

CONSTANTS
  Sessions,  \* what the user may choose for the jobs; NoJob for one not started
  Disks,     \* what may be on the local disk
  Remotes    \* what may be on the console's

VARIABLES
  before,   \* history: before[j], the disk when j was started
  clashed   \* history: jobs that ran while another used their files

vars == <<job, disk, remote, work, before, clashed>>

NoJob == [kind |-> "none"]

\* Entries of a volume lead to directories of it, and to the chunks of files.
IsVolume(volume) ==
  /\ volume.root \in DOMAIN volume.dirs /\ IsFiniteSet(DOMAIN volume.dirs)
  /\ \A d \in DOMAIN volume.dirs :
       /\ volume.dirs[d].entries \in Seq([name : Names, kind : {"file", "dir"}, first : Nat])
       /\ \A i \in DOMAIN volume.dirs[d].entries :
            LET e == volume.dirs[d].entries[i]
            IN e.first \in IF e.kind = "dir" THEN DOMAIN volume.dirs ELSE DOMAIN Content

\* What may be chosen for a job: images are files, and so not the root of the disk.
IsChoice(choice) ==
  \/ choice = NoJob
  \/ /\ choice \in [kind : {"unpack", "pack", "upload"}, dest : Path, sources : Seq(Path)]
     /\ choice.kind = "unpack" => <<>> \notin ToSet(choice.sources)
  \/ /\ DOMAIN choice = {"kind", "dest", "sources", "volume"} /\ choice.kind = "extract"
     /\ choice.dest \in Path /\ IsVolume(choice.volume)
     /\ choice.sources \in Seq(AbsolutePaths(Names)) \ {<<>>}

ASSUME ToolsAssumption ==
  /\ Root # Up /\ Names \cap {Root, Up, Here} = {}
  /\ Hole \in Chunk /\ Stem \in [Names -> Names]
  /\ \A f \in DOMAIN Content : Content[f] \in Seq(Chunk)
  /\ \A s \in Sessions : DOMAIN s = Jobs /\ \A j \in Jobs : IsChoice(s[j])
  /\ \A fs \in Disks \cup Remotes : IsTree(fs, Chunk)
  /\ \A fs \in Remotes, login \in LoginDirs : IsDir(fs, login)

Ended(j) == Phase(j) \in {"idle", "done", "failed", "lost"}

\* The files that a job reads and writes: these paths and what is below them.
Reads(j) == IF job[j].kind = "extract" THEN {} ELSE ToSet(job[j].sources)
Writes(j) == IF job[j].kind = "upload" THEN {} ELSE {Dest(j)}

Overlap(paths, others) ==
  \E p \in paths, q \in others : IsPrefix(p, q) \/ IsPrefix(q, p)

Clash(j, k) ==
  \/ Overlap(Writes(j), Reads(k) \cup Writes(k))
  \/ Overlap(Writes(k), Reads(j))
  \/ job[j].kind = "upload" /\ job[k].kind = "upload"

Init ==
  /\ job \in Sessions
  /\ disk \in Disks /\ remote \in Remotes
  /\ work = [j \in Jobs |-> Idle]
  /\ before = [j \in Jobs |-> disk]
  /\ clashed = {}

Click(j) ==
  LET others == {k \in Jobs \ {j} : ~Ended(k) /\ Clash(j, k)}
  IN /\ \/ ClickUnpack(j) /\ UNCHANGED remote
        \/ ClickPack(j) /\ UNCHANGED remote
        \/ ClickUpload(j)
        \/ CallExtract(j) /\ UNCHANGED remote
     /\ before' = [before EXCEPT ![j] = disk]
     /\ clashed' = IF others = {} THEN clashed ELSE clashed \cup others \cup {j}
     /\ UNCHANGED job

Step(j) ==
  /\ \/ (UnpackStep(j) \/ PackStep(j) \/ ExtractStep(j)) /\ UNCHANGED remote
     \/ UploadStep(j)
  /\ UNCHANGED <<job, before, clashed>>

Next == \E j \in Jobs : Click(j) \/ Step(j)

Spec == Init /\ [][Next]_vars

\* A job is a thread or a task of a runtime with threads of its own: once
\* started, it keeps running.  The user need not click.
FairSpec == Spec /\ \A j \in Jobs : WF_vars(Step(j))

-----------------------------------------------------------------------------
(* Properties. *)

\* Where job j may stand.
JobTypeOK(j) ==
  CASE job[j].kind = "unpack" -> UnpackTypeOK(j)
    [] job[j].kind = "pack" -> PackTypeOK(j)
    [] job[j].kind = "upload" -> UploadTypeOK(j)
    [] job[j].kind = "extract" -> ExtractTypeOK(j)
    [] OTHER -> Phase(j) = "idle"

\* Types; on both disks everything is in a directory, and jobs are where they can
\* go on: in the list of entries or files, not past the end of what they copy, and
\* at files that are there.
TypeOK ==
  /\ job \in Sessions /\ clashed \subseteq Jobs
  /\ IsTree(disk, Chunk) /\ IsTree(remote, Chunk)
  /\ DOMAIN work = Jobs /\ DOMAIN before = Jobs
  /\ \A j \in Jobs : IsTree(before[j], Chunk) /\ "phase" \in DOMAIN work[j] /\ JobTypeOK(j)

\* Job j is done now, and nobody else used its files meanwhile.
IsDone(j, kind) ==
  job[j].kind = kind /\ j \notin clashed /\ Phase(j) # "done" /\ Phase(j)' = "done"

\* An entry of an image with this content is at a path of fs.
EntryThere(fs, path, e, content) ==
  IF e.isDir THEN IsDir(fs, path)
  ELSE IsFile(fs, path) /\ fs[path].content = SubSeq(content, e.at, e.at + e.size - 1)

PlaceIn(dir, e) == Append(dir \o e.dir, e.name)

\* What the image at path holds is in directory dir of fs; of entries with the same
\* path, which only a broken image has, the last.
Holds(fs, dir, images, path) ==
  LET entries == TableOf(images, path)
  IN \A n \in DOMAIN entries :
       (\A k \in n + 1 .. Len(entries) : PlaceIn(dir, entries[k]) # PlaceIn(dir, entries[n]))
         => EntryThere(fs, PlaceIn(dir, entries[n]), entries[n], images[path].content)

\* No image of the batch lies where an entry of one of them goes.
ImagesApart(j) ==
  LET images == job[j].sources
  IN \A i \in DOMAIN images : IsImage(before[j], images[i]) =>
       \A e \in ToSet(TableOf(before[j], images[i])) :
         PlaceIn(Target(j, i), e) \notin ToSet(images)

\* "Batch unpack completed successfully!": each image of the batch that was not
\* given up is there, whole, unless a later image has the same file stem or the
\* batch itself writes over an image.
UnpackedWhenDone ==
  [][\A j \in Jobs : IsDone(j, "unpack") /\ ImagesApart(j) =>
       LET images == job[j].sources
       IN \A i \in DOMAIN images :
            /\ work'[j].outcomes[i] = "unpacked"
            /\ \A k \in i + 1 .. Len(images) : Stem[Last(images[k])] # Stem[Last(images[i])]
            => Holds(disk', Target(j, i), before[j], images[i])]_vars

\* "Batch unpack completed successfully!", taken at its word: each image that was
\* said to be "Done." is there, whole, those with the stem of a later one too.
EachUnpackedWhenDone ==
  [][\A j \in Jobs : IsDone(j, "unpack") /\ ImagesApart(j) =>
       \A i \in DOMAIN job[j].sources :
         work'[j].outcomes[i] = "unpacked"
           => Holds(disk', Target(j, i), before[j], job[j].sources[i])]_vars

\* "Done! XISO image successfully built.", once the buffer has been dropped without
\* an error: the image has all that the folder had, and itself if it lies in it.
PackedWhenDone ==
  [][\A j \in Jobs : IsDone(j, "pack") =>
       LET entries == TableOf(disk', Dest(j))
           content == disk'[Dest(j)].content
           packed == {Source(j) \o Append(entries[i].dir, entries[i].name) : i \in DOMAIN entries}
           found == Below(before[j], Source(j))
       IN /\ IsImage(disk', Dest(j))
          /\ packed \ {Dest(j)} = found \ {Dest(j)}
          /\ \A i \in DOMAIN entries :
               LET e == entries[i]
                   path == Source(j) \o Append(e.dir, e.name)
               IN path # Dest(j) =>
                    IF e.isDir THEN IsDir(before[j], path)
                    ELSE before[j][path] = File(SubSeq(content, e.at, e.at + e.size - 1))]_vars

\* "Done! Files successfully uploaded to console.": every file of the folder is on
\* the console, at its place below /Hdd1/Games/, wherever the session started.
UploadedWhenDone ==
  [][\A j \in Jobs : IsDone(j, "upload") =>
       \A path \in FilesBelow(before[j], Local(j)) :
         /\ IsFile(remote', Base \o Relative(Local(j), path))
         /\ remote'[Base \o Relative(Local(j), path)] = before[j][path]]_vars

\* The paths of the files below the directory at path of the volume of job j, as
\* far as directories can be listed.
VolumeFiles(j, path) ==
  LET list(dir) == AskVolume(j, "list", dir)
      entries(dir) == IF list(dir).kind = "list" THEN ToSet(list(dir).entries) ELSE {}
      dirs[n \in 0 .. Cardinality(DOMAIN job[j].volume.dirs)] ==
        IF n = 0 THEN {path}
        ELSE dirs[n - 1] \cup
               UNION {{Append(dir, e.name) : e \in {e \in entries(dir) : e.kind = "dir"}} :
                        dir \in dirs[n - 1]}
      all == dirs[Cardinality(DOMAIN job[j].volume.dirs)]
  IN UNION {{Append(dir, e.name) : e \in {e \in entries(dir) : e.kind = "file"}} : dir \in all}

VolumeContent(j, path) == Content[AskVolume(j, "stat", path).entry.first]

\* Whatever fails on the device or the disk, and whatever was there before: a file
\* that an extraction has touched is the beginning of the one on the volume.
ExtractedIsTrue ==
  \A j \in Jobs \ clashed : job[j].kind = "extract" /\ ~Ended(j) =>
    \A path \in VolumeFiles(j, Source(j)) :
      LET local == LocalName(j, path)
      IN IsFile(disk, local) =>
           \/ IsFile(before[j], local) /\ disk[local] = before[j][local]
           \/ IsPrefix(disk[local].content, VolumeContent(j, path))

\* "Extraction completed successfully.": unless a listing was cut short, every file
\* below the directory is there, whole.
ExtractionComplete ==
  [][\A j \in Jobs : IsDone(j, "extract") /\ ~work[j].cut =>
       \A path \in VolumeFiles(j, Source(j)) :
         /\ IsFile(disk', LocalName(j, path))
         /\ disk'[LocalName(j, path)].content = VolumeContent(j, path)]_vars

\* Every job that is started comes to an end, whatever fails, and even if others
\* use its files.
JobsEnd == \A j \in Jobs : Phase(j) # "idle" ~> Ended(j)
=============================================================================
