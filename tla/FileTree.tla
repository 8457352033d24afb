------------------------------ MODULE FileTree ------------------------------
(***************************************************************************)
(* A tree of directories and files, as std::fs and an FTP server keep one: *)
(* a function from paths, sequences of names, to what is there.  A file's  *)
(* content is a sequence of chunks; nothing here removes a file, so that   *)
(* an open file is as good as its path.                                    *)
(***************************************************************************)
EXTENDS Integers, SequencesExt

CONSTANTS
  Names,  \* what files and directories may be called
  Bytes   \* what a chunk of data may be

Path == Seq(Names)

Dir == [kind |-> "dir"]
File(content) == [kind |-> "file", content |-> content]

\* A chunk is a record.  A stretch that was never written reads as zeros.
Data(bytes) == [data |-> bytes]
Hole == Data("zeros")

Exists(fs, path) == path \in DOMAIN fs
IsDir(fs, path) == Exists(fs, path) /\ fs[path].kind = "dir"
IsFile(fs, path) == Exists(fs, path) /\ fs[path].kind = "file"

Below(fs, dir) == {path \in DOMAIN fs : IsStrictPrefix(dir, path)}
FilesBelow(fs, dir) == {path \in Below(fs, dir) : IsFile(fs, path)}
Children(fs, dir) == {path \in Below(fs, dir) : Len(path) = Len(dir) + 1}

\* The path of something below dir, as seen from dir.
Relative(dir, path) == SubSeq(path, Len(dir) + 1, Len(path))

\* The tree with the same thing at all these paths.
With(fs, paths, thing) ==
  [path \in paths \cup DOMAIN fs |-> IF path \in paths THEN thing ELSE fs[path]]

\* Mutant: create_dir makes the last directory only.
MakeLastDir(fs, path) == With(fs, {path}, Dir)

\* create_dir_all fails if a file is in the way.
CanMakeDirs(fs, path) == \A dir \in Prefixes(path) : ~IsFile(fs, dir)
MakeDirs(fs, path) == With(fs, Prefixes(path), Dir)

\* Mutant: the file is opened without O_TRUNC.
CreateKeeping(fs, path) == IF IsFile(fs, path) THEN fs ELSE With(fs, {path}, File(<<>>))

\* File::create makes the file or empties it.
CanCreate(fs, path) == path # <<>> /\ IsDir(fs, Front(path)) /\ ~IsDir(fs, path)
Create(fs, path) == With(fs, {path}, File(<<>>))

\* The chunk is written in place n; places before it that have none are holes.
Written(content, n, chunk) ==
  [i \in 1 .. IF n > Len(content) THEN n ELSE Len(content) |->
    IF i = n THEN chunk ELSE IF i <= Len(content) THEN content[i] ELSE Hole]
WriteChunk(fs, path, n, chunk) == [fs EXCEPT ![path].content = Written(@, n, chunk)]

\* The chunk in place n of a file, if the file is that long.
ChunkAt(fs, path, n) ==
  IF n <= Len(fs[path].content) THEN fs[path].content[n] ELSE Hole

\* Everything is in a directory, and a file is a sequence of such chunks.
IsTree(fs, chunks) ==
  /\ IsFiniteSet(DOMAIN fs) /\ DOMAIN fs \subseteq Path
  /\ fs \in [DOMAIN fs -> {Dir} \cup [kind : {"file"}, content : Seq(chunks)]]
  /\ IsDir(fs, <<>>)
  /\ \A path \in DOMAIN fs : path # <<>> => IsDir(fs, Front(path))
=============================================================================
