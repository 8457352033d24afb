----------------------------- MODULE FtpUpload -----------------------------
(***************************************************************************)
(* The upload tab (src/main.rs) and its runner (src/ftp_runner.rs): a      *)
(* folder is scanned for files, which are then sent to the console one     *)
(* after the other.  Directories are made first, by paths relative to the  *)
(* one the server starts a session in, and what the server says to that is *)
(* ignored; files are put by absolute paths.  The console can refuse any   *)
(* command and the connection can break at any time.                       *)
(***************************************************************************)
EXTENDS LocalJobs

CONSTANTS
  Base,      \* remote_dir, "/Hdd1/Games/"
  LoginDirs  \* directories that a server may start a session in

VARIABLE remote  \* the disk of the console, a FileTree

ASSUME UploadAssumption ==
  Base \in Path \ {<<>>} /\ LoginDirs # {} /\ LoginDirs \subseteq Path

Local(j) == Source(j)

\* The folder is opened now, and its entries come in any order.
Scan(fs, dir) == Children(fs, dir)

ClickUpload(j) ==
  /\ Is(j, "upload", "idle") /\ job[j].sources # <<>>
  /\ Goto(j, "connect")
  /\ UNCHANGED <<disk, remote>>

\* FtpStream::connect and login, and the first call of collect_files_recursive,
\* which finds nothing in what is not a directory.
Connect(j) ==
  /\ Is(j, "upload", "connect")
  /\ \/ Fail(j)
     \/ \E login \in LoginDirs :
          Put(j, [phase |-> "scan", login |-> login, files |-> <<>>,
                  stack |-> IF IsDir(disk, Local(j)) THEN <<Scan(disk, Local(j))>>
                            ELSE <<{}>>])
  /\ UNCHANGED <<disk, remote>>

\* One entry of the directory at work: the scan goes down into directories.
ScanEntry(j) ==
  /\ Is(j, "upload", "scan") /\ work[j].stack # <<>> /\ Last(work[j].stack) # {}
  /\ \/ Fail(j)
     \/ \E path \in Last(work[j].stack) :
          LET left == Last(work[j].stack) \ {path}
              stack == Append(Front(work[j].stack), left)
          IN IF IsDir(disk, path)
               THEN Put(j, [stack |-> Append(stack, Scan(disk, path))])
               ELSE Put(j, [stack |-> stack, files |-> Append(work[j].files, path)])
  /\ UNCHANGED <<disk, remote>>

LeaveDir(j) ==
  /\ Is(j, "upload", "scan") /\ work[j].stack # <<>> /\ Last(work[j].stack) = {}
  /\ Put(j, [stack |-> Front(work[j].stack)])
  /\ UNCHANGED <<disk, remote>>

\* "Done (No files found to upload)."
ScanEnds(j) ==
  /\ Is(j, "upload", "scan") /\ work[j].stack = <<>>
  /\ IF work[j].files = <<>> THEN Goto(j, "done")
     ELSE Put(j, [phase |-> "base", place |-> 1])
  /\ UNCHANGED <<disk, remote>>

\* create_remote_dir_recursive: MKD for "a", "a/b", ... below the login
\* directory.  One that fails for good makes the later ones fail too.
MakeRemoteDirs(j, path) ==
  \E count \in 0 .. Len(path) :
    LET made == work[j].login \o SubSeq(path, 1, count)
    IN CanMakeDirs(remote, made) /\ remote' = MakeDirs(remote, made)

MakeBase(j) ==
  /\ Is(j, "upload", "base")
  /\ MakeRemoteDirs(j, Base)
  /\ Goto(j, "parent")
  /\ UNCHANGED disk

\* Mutant: files of directories below go straight into the base directory.
RemotePathFlat(j, path) == Append(Base, Last(path))

RemotePath(j, path) == Base \o Relative(Local(j), path)

LocalFile(j) == work[j].files[work[j].place]
RemoteFile(j) == RemotePath(j, LocalFile(j))

MakeParent(j) ==
  /\ Is(j, "upload", "parent")
  /\ MakeRemoteDirs(j, Front(RemoteFile(j)))
  /\ Goto(j, "put")
  /\ UNCHANGED disk

\* The local file is opened, and STOR makes or empties the remote one.
StartPut(j) ==
  /\ Is(j, "upload", "put")
  /\ \/ /\ CanCreate(remote, RemoteFile(j))
        /\ remote' = Create(remote, RemoteFile(j))
        /\ Put(j, [phase |-> "send", done |-> 0])
     \/ Fail(j) /\ UNCHANGED remote
  /\ UNCHANGED disk

\* The data is copied until the local file has no more.
SendChunk(j) ==
  LET n == work[j].done + 1
  IN /\ Is(j, "upload", "send") /\ n <= Len(disk[LocalFile(j)].content)
     /\ \/ /\ remote' = WriteChunk(remote, RemoteFile(j), n, ChunkAt(disk, LocalFile(j), n))
           /\ Put(j, [done |-> n])
        \/ Fail(j) /\ UNCHANGED remote
     /\ UNCHANGED disk

\* The server confirms the file.  "Done! Files successfully uploaded to console."
EndPut(j) ==
  /\ Is(j, "upload", "send") /\ work[j].done >= Len(disk[LocalFile(j)].content)
  /\ \/ Fail(j)
     \/ Put(j, [phase |-> IF work[j].place < Len(work[j].files) THEN "parent" ELSE "done",
                place |-> work[j].place + 1])
  /\ UNCHANGED <<disk, remote>>

\* Where an upload may stand: what was found by the scan is below the folder, and a
\* file that is sent is on the console.
UploadTypeOK(j) ==
  LET w == work[j]
  IN /\ w.phase \in {"idle", "connect", "scan", "base", "parent", "put", "send", "done", "failed"}
     /\ w.phase # "idle" => job[j].sources # <<>>
     /\ w.phase \in {"scan", "base", "parent", "put", "send"} =>
          /\ {"login", "files"} \subseteq DOMAIN w /\ w.login \in LoginDirs
          /\ w.files \in Seq(FilesBelow(disk, Local(j)))
     /\ w.phase = "scan" =>
          "stack" \in DOMAIN w /\ w.stack \in Seq(SUBSET Below(disk, Local(j)))
     /\ w.phase \in {"base", "parent", "put", "send"} =>
          "place" \in DOMAIN w /\ w.place \in DOMAIN w.files
     /\ w.phase = "send" =>
          "done" \in DOMAIN w /\ w.done \in Nat /\ IsFile(remote, RemoteFile(j))

UploadStep(j) ==
  \/ Connect(j) \/ ScanEntry(j) \/ LeaveDir(j) \/ ScanEnds(j) \/ MakeBase(j) \/ MakeParent(j)
  \/ StartPut(j) \/ SendChunk(j) \/ EndPut(j)
=============================================================================
