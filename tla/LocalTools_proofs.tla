------------------------- MODULE LocalTools_proofs --------------------------
(***************************************************************************)
(* What holds of the tools that work on the local disk, whatever is chosen *)
(* for them and whatever is on the disks.                                  *)
(***************************************************************************)
EXTENDS LocalTools, CommonFacts

-----------------------------------------------------------------------------
(* Trees of files. *)

\* What was there is still there: a directory a directory, a file a file.
Grows(fs, gs) ==
  \A path \in DOMAIN fs : path \in DOMAIN gs /\ gs[path].kind = fs[path].kind

LEMMA GrowsKeeps ==
  ASSUME NEW fs, NEW gs, Grows(fs, gs), NEW path
  PROVE  (IsDir(fs, path) => IsDir(gs, path)) /\ (IsFile(fs, path) => IsFile(gs, path))
BY DEF Grows, IsDir, IsFile, Exists

\* The prefixes of a path are paths, and with one there is the next shorter one.
LEMMA PrefixesOf ==
  ASSUME NEW p \in Path
  PROVE  /\ Prefixes(p) \subseteq Path /\ IsFiniteSet(Prefixes(p))
         /\ <<>> \in Prefixes(p) /\ p \in Prefixes(p)
         /\ \A q \in Prefixes(p) : q # <<>> => Front(q) \in Prefixes(p)
<1>1. Len(p) \in Nat /\ \A i \in 1 .. Len(p) : p[i] \in Names
  BY LenProperties DEF Path
<1>2. \A l \in 0 .. Len(p) : SubSeq(p, 1, l) \in Path /\ Len(SubSeq(p, 1, l)) = l
  BY <1>1, SubSeqProperties DEF Path
<1>3. Prefixes(p) \subseteq Path
  BY <1>2 DEF Prefixes
<1>4. IsFiniteSet(Prefixes(p))
  <2>1. IsFiniteSet(0 .. Len(p))
    BY <1>1, FS_Interval
  <2> DEFINE f == [l \in 0 .. Len(p) |-> SubSeq(p, 1, l)]
  <2>2. f \in Surjection(0 .. Len(p), Prefixes(p))
    BY DEF Surjection, Prefixes
  <2> HIDE DEF f
  <2> QED BY <2>1, <2>2, FS_Surjection
<1>5. SubSeq(p, 1, 0) = <<>> /\ SubSeq(p, 1, Len(p)) = p
  BY <1>1, SubSeqEmpty, SubSeqFull DEF Path
<1>6. <<>> \in Prefixes(p) /\ p \in Prefixes(p)
  <2>1. 0 \in 0 .. Len(p) /\ Len(p) \in 0 .. Len(p)
    BY <1>1
  <2> QED BY <1>5, <2>1 DEF Prefixes
<1>7. ASSUME NEW q \in Prefixes(p), q # <<>> PROVE Front(q) \in Prefixes(p)
  <2>1. PICK l \in 0 .. Len(p) : q = SubSeq(p, 1, l)
    BY DEF Prefixes
  <2>2. l # 0 /\ l - 1 \in 0 .. Len(p) /\ Len(q) = l /\ q \in Path
    BY <1>1, <1>2, <1>5, <1>7, <2>1
  <2>3. Front(q) = SubSeq(q, 1, l - 1)
    BY <2>2 DEF Front
  <2>4. \A i \in 1 .. l : q[i] = p[i] /\ q[i] \in Names
    <3>1. \A i \in 1 .. l : p[i] \in Names /\ i \in 1 .. (l - 1) + 1
      BY <1>1
    <3> QED BY <1>1, <2>1, <3>1, SubSeqProperties
  <2>5. SubSeq(q, 1, l - 1) = SubSeq(p, 1, l - 1)
    <3>1. /\ SubSeq(q, 1, l - 1) \in Seq(Names) /\ Len(SubSeq(q, 1, l - 1)) = l - 1
          /\ \A i \in 1 .. l - 1 : SubSeq(q, 1, l - 1)[i] = q[i]
      BY <2>2, <2>4, SubSeqProperties
    <3>2. /\ SubSeq(p, 1, l - 1) \in Seq(Names) /\ Len(SubSeq(p, 1, l - 1)) = l - 1
          /\ \A i \in 1 .. l - 1 : SubSeq(p, 1, l - 1)[i] = p[i]
      BY <1>1, <2>2, SubSeqProperties
    <3>3. \A i \in 1 .. l - 1 : q[i] = p[i]
      BY <2>4
    <3> QED BY <3>1, <3>2, <3>3, SeqEqual
  <2> QED BY <2>2, <2>3, <2>5 DEF Prefixes
<1> QED BY <1>3, <1>4, <1>6, <1>7

\* create_dir_all, where no file is in the way, makes a tree of a tree.
LEMMA MakesDirs ==
  ASSUME NEW fs, NEW C, IsTree(fs, C), NEW p \in Path, CanMakeDirs(fs, p)
  PROVE  /\ IsTree(MakeDirs(fs, p), C) /\ Grows(fs, MakeDirs(fs, p))
         /\ IsDir(MakeDirs(fs, p), p)
<1> DEFINE T == {Dir} \cup [kind : {"file"}, content : Seq(C)]
           gs == MakeDirs(fs, p)
<1>1. /\ IsFiniteSet(DOMAIN fs) /\ DOMAIN fs \subseteq Path
      /\ fs \in [DOMAIN fs -> T]
      /\ IsDir(fs, <<>>) /\ \A path \in DOMAIN fs : path # <<>> => IsDir(fs, Front(path))
  BY DEF IsTree
<1>2. /\ DOMAIN gs = Prefixes(p) \cup DOMAIN fs
      /\ \A path \in Prefixes(p) \cup DOMAIN fs :
           gs[path] = IF path \in Prefixes(p) THEN Dir ELSE fs[path]
  BY DEF MakeDirs, With
<1>3. gs \in [DOMAIN gs -> T]
  <2>1. \A path \in Prefixes(p) \cup DOMAIN fs :
          (IF path \in Prefixes(p) THEN Dir ELSE fs[path]) \in T
    BY <1>1
  <2>2. gs = [path \in Prefixes(p) \cup DOMAIN fs |-> IF path \in Prefixes(p) THEN Dir ELSE fs[path]]
    BY DEF MakeDirs, With
  <2> HIDE DEF T, gs
  <2> QED BY <1>2, <2>1, <2>2
<1>4. \A path \in Prefixes(p) : IsDir(gs, path)
  BY <1>2 DEF IsDir, Exists, Dir
<1>5. Grows(fs, gs)
  <2>1. ASSUME NEW path \in DOMAIN fs PROVE path \in DOMAIN gs /\ gs[path].kind = fs[path].kind
    <3>1. CASE path \in Prefixes(p)
      <4>1. fs[path].kind = "dir"
        <5>1. fs[path].kind # "file"
          BY <3>1 DEF CanMakeDirs, IsFile, Exists
        <5>2. fs[path] \in T
          BY <1>1
        <5> QED BY <5>1, <5>2 DEF Dir
      <4> QED BY <1>2, <3>1, <4>1 DEF Dir
    <3>2. CASE path \notin Prefixes(p)
      BY <1>2, <3>2
    <3> QED BY <3>1, <3>2
  <2> HIDE DEF gs
  <2> QED BY <2>1 DEF Grows
<1>6. \A path \in DOMAIN gs : path # <<>> => IsDir(gs, Front(path))
  <2>1. ASSUME NEW path \in DOMAIN gs, path # <<>> PROVE IsDir(gs, Front(path))
    <3> HIDE DEF gs
    <3>1. CASE path \in Prefixes(p)
      BY <1>4, <2>1, <3>1, PrefixesOf
    <3>2. CASE path \in DOMAIN fs
      BY <1>1, <1>5, <2>1, <3>2, GrowsKeeps
    <3> QED BY <1>2, <3>1, <3>2
  <2> QED BY <2>1
<1>7. IsFiniteSet(DOMAIN gs) /\ DOMAIN gs \subseteq Path
  <2>1. IsFiniteSet(Prefixes(p)) /\ Prefixes(p) \subseteq Path
    BY PrefixesOf
  <2>2. IsFiniteSet(Prefixes(p) \cup DOMAIN fs)
    BY <1>1, <2>1, FS_Union
  <2> HIDE DEF gs
  <2> QED BY <1>1, <1>2, <2>1, <2>2
<1> HIDE DEF gs
<1> QED BY <1>1, <1>3, <1>4, <1>5, <1>6, <1>7, PrefixesOf, GrowsKeeps DEF IsTree, gs

\* So does File::create,
LEMMA CreatesFile ==
  ASSUME NEW fs, NEW C, IsTree(fs, C), NEW p \in Path, CanCreate(fs, p)
  PROVE  /\ IsTree(Create(fs, p), C) /\ Grows(fs, Create(fs, p))
         /\ IsFile(Create(fs, p), p)
<1> DEFINE T == {Dir} \cup [kind : {"file"}, content : Seq(C)]
           gs == Create(fs, p)
<1>1. /\ IsFiniteSet(DOMAIN fs) /\ DOMAIN fs \subseteq Path
      /\ fs \in [DOMAIN fs -> T]
      /\ IsDir(fs, <<>>) /\ \A path \in DOMAIN fs : path # <<>> => IsDir(fs, Front(path))
  BY DEF IsTree
<1>2. /\ DOMAIN gs = {p} \cup DOMAIN fs
      /\ \A path \in {p} \cup DOMAIN fs : gs[path] = IF path = p THEN File(<<>>) ELSE fs[path]
      /\ gs = [path \in {p} \cup DOMAIN fs |-> IF path \in {p} THEN File(<<>>) ELSE fs[path]]
  BY DEF Create, With
<1>3. gs \in [DOMAIN gs -> T]
  <2>1. File(<<>>) \in T
    BY EmptySeq DEF File
  <2>2. \A path \in {p} \cup DOMAIN fs : (IF path \in {p} THEN File(<<>>) ELSE fs[path]) \in T
    <3> HIDE DEF T
    <3> QED BY <1>1, <2>1
  <2> HIDE DEF T, gs
  <2> QED BY <1>2, <2>2
<1>4. p # <<>> /\ IsDir(fs, Front(p)) /\ ~IsDir(fs, p)
  BY DEF CanCreate
<1>5. Grows(fs, gs)
  <2>1. ASSUME NEW path \in DOMAIN fs PROVE path \in DOMAIN gs /\ gs[path].kind = fs[path].kind
    <3>1. CASE path = p
      <4>1. fs[path] \in T /\ fs[path].kind # "dir"
        BY <1>1, <1>4, <3>1 DEF IsDir, Exists
      <4>2. fs[path].kind = "file"
        BY <4>1 DEF Dir
      <4> QED BY <1>2, <3>1, <4>2 DEF File
    <3>2. CASE path # p
      BY <1>2, <3>2
    <3> QED BY <3>1, <3>2
  <2> HIDE DEF gs
  <2> QED BY <2>1 DEF Grows
<1>6. \A path \in DOMAIN gs : path # <<>> => IsDir(gs, Front(path))
  <2> HIDE DEF gs
  <2> QED BY <1>1, <1>2, <1>4, <1>5, GrowsKeeps
<1>7. IsFiniteSet(DOMAIN gs) /\ DOMAIN gs \subseteq Path
  <2>1. IsFiniteSet({p})
    BY FS_Singleton
  <2> QED BY <1>1, <1>2, <2>1, FS_Union
<1>8. IsFile(gs, p)
  BY <1>2 DEF IsFile, Exists, File
<1> HIDE DEF gs
<1> QED BY <1>1, <1>3, <1>5, <1>6, <1>7, <1>8, GrowsKeeps DEF IsTree, gs

\* What a chunk that is written makes of a file.
LEMMA WrittenTyped ==
  ASSUME NEW C, Hole \in C, NEW content \in Seq(C), NEW n \in Nat \ {0}, NEW chunk \in C
  PROVE  Written(content, n, chunk) \in Seq(C)
<1> DEFINE m == IF n > Len(content) THEN n ELSE Len(content)
           e == [i \in 1 .. m |-> IF i = n THEN chunk ELSE IF i <= Len(content) THEN content[i] ELSE Hole]
<1>1. Len(content) \in Nat /\ \A i \in 1 .. Len(content) : content[i] \in C
  BY LenProperties
<1>2. m \in Nat
  BY <1>1
<1>3. \A i \in 1 .. m : e[i] \in C
  BY <1>1
<1>4. e \in Seq(C)
  <2>1. e = [i \in 1 .. m |-> e[i]]
    OBVIOUS
  <2> HIDE DEF e, m
  <2> QED BY <1>2, <1>3, <2>1
<1> QED BY <1>4 DEF Written

\* The trees with the same directories and files as fs, and the same in them but for
\* the file p.
Alike(fs, C, p) ==
  {gs \in [DOMAIN fs -> {Dir} \cup [kind : {"file"}, content : Seq(C)]] :
    \A path \in DOMAIN fs :
      gs[path].kind = fs[path].kind /\ (path # p => gs[path] = fs[path])}

LEMMA AlikeTree ==
  ASSUME NEW fs, NEW C, IsTree(fs, C), NEW p
  PROVE  fs \in Alike(fs, C, p) /\ \A gs \in Alike(fs, C, p) : IsTree(gs, C) /\ Grows(fs, gs)
<1>1. fs \in Alike(fs, C, p)
  BY DEF IsTree, Alike
<1>2. ASSUME NEW gs \in Alike(fs, C, p) PROVE IsTree(gs, C) /\ Grows(fs, gs)
  <2>1. DOMAIN gs = DOMAIN fs /\ gs \in [DOMAIN gs -> {Dir} \cup [kind : {"file"}, content : Seq(C)]]
    BY DEF Alike
  <2>2. Grows(fs, gs)
    BY <2>1 DEF Alike, Grows
  <2>3. \A path : IsDir(fs, path) => IsDir(gs, path)
    BY <2>2, GrowsKeeps
  <2> QED BY <2>1, <2>2, <2>3 DEF IsTree
<1> QED BY <1>1, <1>2

\* Writing into a file keeps the others, and makes no other file.
LEMMA WritesChunk ==
  ASSUME NEW fs, NEW C, Hole \in C, NEW p, NEW gs \in Alike(fs, C, p), IsFile(fs, p),
         NEW n \in Nat \ {0}, NEW chunk \in C
  PROVE  WriteChunk(gs, p, n, chunk) \in Alike(fs, C, p)
<1> DEFINE new == [gs[p] EXCEPT !.content = Written(gs[p].content, n, chunk)]
<1>1. p \in DOMAIN fs /\ gs[p].kind = "file"
  BY DEF IsFile, Exists, Alike
<1>2. gs[p] \in [kind : {"file"}, content : Seq(C)]
  BY <1>1 DEF Alike, Dir
<1>3. Written(gs[p].content, n, chunk) \in Seq(C)
  BY <1>2, WrittenTyped
<1>4. new \in [kind : {"file"}, content : Seq(C)]
  BY <1>2, <1>3
<1>5. WriteChunk(gs, p, n, chunk) = [gs EXCEPT ![p] = new]
  BY DEF WriteChunk
<1> HIDE DEF new
<1>6. new.kind = fs[p].kind
  BY <1>1, <1>4 DEF IsFile
<1> QED BY <1>1, <1>4, <1>5, <1>6 DEF Alike

LEMMA WritesTree ==
  ASSUME NEW fs, NEW C, Hole \in C, IsTree(fs, C), NEW p, IsFile(fs, p),
         NEW n \in Nat \ {0}, NEW chunk \in C
  PROVE  IsTree(WriteChunk(fs, p, n, chunk), C) /\ Grows(fs, WriteChunk(fs, p, n, chunk))
<1>1. WriteChunk(fs, p, n, chunk) \in Alike(fs, C, p)
  BY AlikeTree, WritesChunk
<1> QED BY <1>1, AlikeTree

\* What is read from a file is a chunk, wherever it is read.
LEMMA ContentTyped ==
  ASSUME NEW fs, NEW C, IsTree(fs, C), NEW p, IsFile(fs, p)
  PROVE  fs[p].content \in Seq(C) /\ Len(fs[p].content) \in Nat
<1>1. fs[p] \in [kind : {"file"}, content : Seq(C)]
  BY DEF IsTree, IsFile, Exists, Dir
<1> QED BY <1>1, LenProperties

LEMMA ChunkTyped ==
  ASSUME NEW fs, NEW C, Hole \in C, IsTree(fs, C), NEW p, IsFile(fs, p), NEW n \in Nat \ {0}
  PROVE  ChunkAt(fs, p, n) \in C
<1>1. fs[p].content \in Seq(C)
  BY ContentTyped
<1>2. n <= Len(fs[p].content) => fs[p].content[n] \in C
  BY <1>1, LenProperties
<1> QED BY <1>1, <1>2 DEF ChunkAt

-----------------------------------------------------------------------------
(* Paths below a directory, and what is laid out in an image and written to it. *)

LEMMA ConcatTyped ==
  ASSUME NEW p \in Path, NEW q \in Path, NEW name \in Names
  PROVE  /\ p \o q \in Path
         /\ Append(p, name) \in Path \ {<<>>} /\ Front(Append(p, name)) = p
         /\ Last(Append(p, name)) = name
<1>1. p \o q \in Path
  BY ConcatProperties DEF Path
<1>2. /\ Append(p, name) \in Seq(Names) /\ Append(p, name) # <<>>
      /\ Len(Append(p, name)) = Len(p) + 1 /\ Len(p) \in Nat
      /\ \A i \in 1 .. Len(p) : Append(p, name)[i] = p[i]
      /\ Append(p, name)[Len(p) + 1] = name
  BY AppendProperties, LenProperties DEF Path
<1>3. /\ Front(Append(p, name)) \in Seq(Names) /\ Len(Front(Append(p, name))) = Len(p)
      /\ \A i \in 1 .. Len(p) : Front(Append(p, name))[i] = p[i]
      /\ Last(Append(p, name)) = name
  <2> DEFINE s == Append(p, name)
  <2>1. /\ Front(s) \in Seq(Names) /\ Len(Front(s)) = Len(s) - 1
        /\ \A i \in 1 .. Len(s) - 1 : Front(s)[i] = s[i]
        /\ Last(s) = s[Len(s)]
    <3> HIDE DEF s
    <3> QED BY <1>2, FrontOf DEF s
  <2>2. Len(s) - 1 = Len(p)
    BY <1>2
  <2> HIDE DEF s
  <2> QED BY <1>2, <2>1, <2>2 DEF s
<1>4. Front(Append(p, name)) = p
  BY <1>3, SeqEqual DEF Path
<1> QED BY <1>1, <1>2, <1>3, <1>4 DEF Path

\* A path without its last name, and that name.
LEMMA FrontTyped ==
  ASSUME NEW p \in Path, p # <<>>
  PROVE  Front(p) \in Path /\ Last(p) \in Names
<1>1. Front(p) \in Seq(Names) /\ Len(p) \in Nat \ {0} /\ Last(p) = p[Len(p)]
  BY FrontOf DEF Path
<1>2. p[Len(p)] \in Names
  BY <1>1, LenProperties DEF Path
<1> QED BY <1>1, <1>2 DEF Path

\* The directory and the path that is relative to it make the path.
LEMMA RelativeOf ==
  ASSUME NEW dir \in Path, NEW p \in Path, IsPrefix(dir, p)
  PROVE  Relative(dir, p) \in Path /\ dir \o Relative(dir, p) = p
<1> DEFINE m == Len(dir)
           r == Relative(dir, p)
<1>1. m \in Nat /\ Len(p) \in Nat /\ m <= Len(p) /\ \A i \in 1 .. Len(p) : p[i] \in Names
  BY LenProperties DEF IsPrefix, Path
<1>2. /\ r \in Seq(Names) /\ Len(r) = Len(p) - m
      /\ \A i \in 1 .. Len(p) - m : r[i] = p[m + i]
  <2>1. m + 1 \in Int /\ Len(p) \in Int /\ \A i \in m + 1 .. Len(p) : p[i] \in Names
    BY <1>1
  <2>2. /\ r \in Seq(Names) /\ Len(r) = IF m + 1 <= Len(p) THEN Len(p) - (m + 1) + 1 ELSE 0
        /\ \A i \in 1 .. Len(p) - (m + 1) + 1 : r[i] = p[(m + 1) + i - 1]
    <3> HIDE DEF m
    <3> QED BY <2>1, SubSeqProperties DEF Relative, m
  <2> HIDE DEF m, r
  <2> QED BY <1>1, <2>2
<1>3. \A i \in 1 .. m : dir[i] = p[i]
  <2>1. \A i \in 1 .. m : dir[i] \in Names
    BY LenProperties DEF Path
  <2>2. \A i \in 1 .. m : SubSeq(dir, 1, m)[i] = dir[i]
    BY <1>1, <2>1, SubSeqProperties
  <2>3. \A i \in 1 .. m : SubSeq(p, 1, m)[i] = p[i]
    BY <1>1, SubSeqProperties
  <2> QED BY <2>2, <2>3 DEF IsPrefix
<1>4. /\ dir \o r \in Seq(Names) /\ Len(dir \o r) = m + (Len(p) - m)
      /\ \A i \in 1 .. m + (Len(p) - m) : (dir \o r)[i] = IF i <= m THEN dir[i] ELSE r[i - m]
  <2> HIDE DEF r
  <2> QED BY <1>2, ConcatProperties DEF Path
<1>5. \A i \in 1 .. Len(p) : (dir \o r)[i] = p[i]
  <2> HIDE DEF r, m
  <2> QED BY <1>1, <1>2, <1>3, <1>4
<1>6. dir \o r = p
  <2>1. Len(dir \o r) = Len(p)
    <3> HIDE DEF r, m
    <3> QED BY <1>1, <1>4
  <2> HIDE DEF r
  <2> QED BY <1>4, <1>5, <2>1, SeqEqual DEF Path
<1> QED BY <1>2, <1>6 DEF Path

\* What is below a directory is a path, longer than that of the directory.
LEMMA BelowTyped ==
  ASSUME NEW fs, NEW C, IsTree(fs, C), NEW dir \in Path, NEW p \in Below(fs, dir)
  PROVE  /\ p \in Path /\ p # <<>> /\ IsPrefix(dir, p) /\ IsPrefix(dir, Front(p))
         /\ Relative(dir, p) \in Path \ {<<>>}
         /\ Relative(dir, Front(p)) \in Path
         /\ Append(dir \o Relative(dir, Front(p)), Last(p)) = p
<1>1. p \in Path /\ IsPrefix(dir, p) /\ p # dir
  BY DEF Below, IsTree, IsStrictPrefix
<1>2. Len(dir) \in Nat /\ Len(p) \in Nat /\ Len(dir) <= Len(p)
      /\ SubSeq(dir, 1, Len(dir)) = SubSeq(p, 1, Len(dir))
  BY <1>1, LenProperties DEF IsPrefix, Path
<1>3. SubSeq(dir, 1, Len(dir)) = dir /\ SubSeq(p, 1, Len(p)) = p
  BY <1>1, SubSeqFull DEF Path
<1>4. Len(dir) < Len(p) /\ p # <<>>
  BY <1>1, <1>2, <1>3, EmptySeq
<1>5. /\ Front(p) \in Path /\ Last(p) \in Names /\ Len(Front(p)) = Len(p) - 1
      /\ \A i \in 1 .. Len(p) - 1 : Front(p)[i] = p[i]
      /\ Last(p) = p[Len(p)]
  BY <1>1, <1>4, FrontOf, FrontTyped DEF Path
<1>6. IsPrefix(dir, Front(p))
  <2>1. \A i \in 1 .. Len(dir) : p[i] \in Names /\ Front(p)[i] = p[i]
    BY <1>1, <1>4, <1>5, LenProperties DEF Path
  <2>2. SubSeq(Front(p), 1, Len(dir)) = SubSeq(p, 1, Len(dir))
    <3>1. /\ SubSeq(p, 1, Len(dir)) \in Seq(Names) /\ Len(SubSeq(p, 1, Len(dir))) = Len(dir)
          /\ \A i \in 1 .. Len(dir) : SubSeq(p, 1, Len(dir))[i] = p[i]
      BY <1>2, <2>1, SubSeqProperties
    <3>2. /\ SubSeq(Front(p), 1, Len(dir)) \in Seq(Names)
          /\ Len(SubSeq(Front(p), 1, Len(dir))) = Len(dir)
          /\ \A i \in 1 .. Len(dir) : SubSeq(Front(p), 1, Len(dir))[i] = Front(p)[i]
      BY <1>2, <2>1, SubSeqProperties
    <3> QED BY <2>1, <3>1, <3>2, SeqEqual
  <2> QED BY <1>2, <1>4, <1>5, <2>2 DEF IsPrefix
<1>7. Relative(dir, p) \in Path /\ dir \o Relative(dir, p) = p
  BY <1>1, RelativeOf
<1>8. Relative(dir, p) # <<>>
  BY <1>1, <1>7, ConcatEmptySeq DEF Path
<1>9. Relative(dir, Front(p)) \in Path /\ dir \o Relative(dir, Front(p)) = Front(p)
  BY <1>5, <1>6, RelativeOf
<1>10. Append(Front(p), Last(p)) = p
  <2>1. /\ Append(Front(p), Last(p)) \in Seq(Names)
        /\ Len(Append(Front(p), Last(p))) = (Len(p) - 1) + 1
        /\ \A i \in 1 .. Len(p) - 1 : Append(Front(p), Last(p))[i] = p[i]
        /\ Append(Front(p), Last(p))[(Len(p) - 1) + 1] = p[Len(p)]
    BY <1>5, AppendProperties DEF Path
  <2>2. \A i \in 1 .. Len(p) : Append(Front(p), Last(p))[i] = p[i]
    BY <1>2, <1>4, <2>1
  <2> QED BY <1>1, <1>2, <2>1, <2>2, SeqEqual DEF Path
<1> QED BY <1>1, <1>4, <1>6, <1>7, <1>8, <1>9, <1>10

\* Pieces of a buffer.
Piece == [at : Nat \ {0}, chunk : Chunk]

\* Writing out the buffer changes what the image holds, and nothing else.
LEMMA FlushesAlike ==
  ASSUME NEW fs, IsTree(fs, Chunk), Hole \in Chunk, NEW j, IsFile(fs, Dest(j)),
         NEW buffer \in Seq(Piece), NEW count \in 0 .. Len(buffer)
  PROVE  Flushed(fs, j, buffer, count) \in Alike(fs, Chunk, Dest(j))
<1> DEFINE p == Dest(j)
           T == Alike(fs, Chunk, p)
           Put0(gs, i) == WriteChunk(gs, p, buffer[i].at, buffer[i].chunk)
           Rec(g) == [n \in 0 .. count |-> IF n = 0 THEN fs ELSE Put0(g[n - 1], n)]
           put == [n \in Nat |-> [gs \in T |-> IF n \in 1 .. count THEN Put0(gs, n) ELSE gs]]
           flushed == CHOOSE g : g = Rec(g)
<1>1. count \in Nat /\ \A i \in 1 .. count : buffer[i] \in Piece
  BY LenProperties
<1>2. fs \in T
  BY AlikeTree
<1>3. \A gs \in T : \A n \in 1 .. count : Put0(gs, n) \in T
  BY <1>1, WritesChunk DEF Piece
<1>4. put \in [Nat -> [T -> T]]
  <2> HIDE DEF T, Put0
  <2> QED BY <1>3
<1>5. PICK f : f \in Runs(T, fs, count, put)
  <2>1. Runs(T, fs, count, put) # {}
    <3> HIDE DEF T, put
    <3> QED BY <1>1, <1>2, <1>4, Iterates
  <2> QED BY <2>1
<1>6. f \in [0 .. count -> T] /\ f[0] = fs /\ \A n \in 1 .. count : f[n] = put[n][f[n - 1]]
  BY <1>5 DEF Runs
<1>7. \A n \in 1 .. count : f[n] = Put0(f[n - 1], n)
  <2>1. ASSUME NEW n \in 1 .. count PROVE f[n] = Put0(f[n - 1], n)
    <3>1. n \in Nat /\ f[n - 1] \in T
      <4> HIDE DEF T
      <4> QED BY <1>1, <1>6
    <3>2. put[n][f[n - 1]] = Put0(f[n - 1], n)
      <4> HIDE DEF T, Put0
      <4> QED BY <3>1
    <3> QED BY <1>6, <3>2
  <2> QED BY <2>1
<1>8. f = Rec(f)
  <2>1. f = [n \in 0 .. count |-> f[n]]
    BY <1>6
  <2>2. \A n \in 0 .. count : f[n] = IF n = 0 THEN fs ELSE Put0(f[n - 1], n)
    <3> HIDE DEF T, Put0, put
    <3>1. \A n \in 0 .. count : n # 0 => n \in 1 .. count
      BY <1>1
    <3> QED BY <1>6, <1>7, <3>1
  <2> HIDE DEF T, Put0, put
  <2> QED BY <2>1, <2>2, Zenon
<1>9. flushed = Rec(flushed)
  <2> HIDE DEF Rec
  <2> QED BY <1>8
<1>10. Flushed(fs, j, buffer, count) = flushed[count]
  BY DEF Flushed
<1>11. \A n \in 0 .. count : flushed[n] = IF n = 0 THEN fs ELSE Put0(flushed[n - 1], n)
  <2>1. \A n \in 0 .. count : flushed[n] = Rec(flushed)[n]
    <3> HIDE DEF flushed, Rec
    <3> QED BY <1>9
  <2>2. \A n \in 0 .. count : Rec(flushed)[n] = IF n = 0 THEN fs ELSE Put0(flushed[n - 1], n)
    <3> HIDE DEF flushed, Put0
    <3> QED OBVIOUS
  <2> HIDE DEF flushed, Rec, Put0
  <2> QED BY <2>1, <2>2
<1> DEFINE P == {k \in 0 .. count : flushed[k] \in T}
<1>12. \A n \in 0 .. count : n \in P
  <2> HIDE DEF flushed, Put0, T
  <2>1. 0 \in P
    BY <1>1, <1>2, <1>11
  <2>2. ASSUME NEW n \in 0 .. count - 1, n \in P PROVE n + 1 \in P
    <3>1. n + 1 \in 1 .. count /\ n + 1 \in 0 .. count /\ (n + 1) - 1 = n /\ n + 1 # 0
      BY <1>1
    <3>2. flushed[n + 1] = Put0(flushed[n], n + 1)
      BY <1>11, <3>1
    <3> QED BY <1>3, <2>2, <3>1, <3>2
  <2> HIDE DEF P
  <2> QED BY <1>1, <2>1, <2>2, UpTo
<1>13. flushed[count] \in T
  <2>1. count \in 0 .. count
    BY <1>1
  <2> HIDE DEF flushed, T
  <2> QED BY <1>12, <2>1
<1> QED BY <1>10, <1>13

\* The members of a finite set, as a sequence.
LEMMA SetToSeqTyped ==
  ASSUME NEW S, IsFiniteSet(S)
  PROVE  SetToSeq(S) \in Seq(S)
<1>1. PICK n \in Nat : n = Cardinality(S) /\ ExistsBijection(1 .. n, S)
  BY FS_CardinalityType
<1>2. PICK f \in Bijection(1 .. n, S) : TRUE
  BY <1>1 DEF ExistsBijection
<1>3. f \in [1 .. Cardinality(S) -> S] /\ IsInjective(f)
  BY <1>1, <1>2 DEF Bijection, Injection, IsInjective
<1>4. SetToSeq(S) \in [1 .. n -> S]
  BY <1>1, <1>3 DEF SetToSeq
<1> QED BY <1>4

\* What Layout keeps up: the entries follow each other without a gap, and files with
\* chunks are there.
Gapless(fs, dir) ==
  {entries \in Seq(Item) :
    /\ FirstFree(entries) \in Nat \ {0, 1}
    /\ \A at \in 2 .. FirstFree(entries) - 1 :
         \E e \in ToSet(entries) : at \in e.at .. e.at + e.size - 1
    /\ \A e \in ToSet(entries) : e.size > 0 => IsFile(fs, Append(dir \o e.dir, e.name))}

LEMMA AppendMembers ==
  ASSUME NEW S, NEW s \in Seq(S), NEW x \in S
  PROVE  ToSet(Append(s, x)) = ToSet(s) \cup {x} /\ Last(Append(s, x)) = x
<1> DEFINE t == Append(s, x)
<1>1. /\ t \in Seq(S) /\ Len(t) = Len(s) + 1 /\ Len(s) \in Nat
      /\ \A i \in 1 .. Len(s) : t[i] = s[i]
      /\ t[Len(s) + 1] = x
      /\ DOMAIN s = 1 .. Len(s) /\ DOMAIN t = 1 .. Len(t)
  <2>1. t \in Seq(S)
    BY AppendProperties
  <2> QED BY <2>1, AppendProperties, LenProperties
<1> HIDE DEF t
<1>2. ToSet(t) = ToSet(s) \cup {x}
  BY <1>1 DEF ToSet
<1>3. Last(t) = x
  BY <1>1 DEF Last
<1> QED BY <1>2, <1>3 DEF t

LEMMA LaysOut ==
  ASSUME NEW fs, IsTree(fs, Chunk), NEW dir \in Path, NEW p \in Below(fs, dir),
         NEW entries \in Gapless(fs, dir)
  PROVE  Append(entries, LaidOut(fs, dir, entries, p)) \in Gapless(fs, dir)
<1> DEFINE e == LaidOut(fs, dir, entries, p)
           n == FirstFree(entries)
           more == Append(entries, e)
<1>1. /\ e.dir = Relative(dir, Front(p)) /\ e.name = Last(p) /\ e.at = n
      /\ e.size = IF IsDir(fs, p) THEN 0 ELSE Len(fs[p].content)
  BY DEF LaidOut
<1>2. /\ p \in Path /\ p # <<>> /\ Relative(dir, Front(p)) \in Path
      /\ Append(dir \o Relative(dir, Front(p)), Last(p)) = p
  BY BelowTyped
<1>3. n \in Nat \ {0, 1} /\ entries \in Seq(Item)
  BY DEF Gapless
<1>4. IsDir(fs, p) \/ IsFile(fs, p)
  <2>1. p \in DOMAIN fs
    BY DEF Below
  <2>2. fs[p] \in {Dir} \cup [kind : {"file"}, content : Seq(Chunk)]
    BY <2>1 DEF IsTree
  <2> QED BY <2>1, <2>2 DEF IsDir, IsFile, Exists, Dir
<1>5. IsFile(fs, p) => Len(fs[p].content) \in Nat
  <2>1. ASSUME IsFile(fs, p) PROVE fs[p] \in [kind : {"file"}, content : Seq(Chunk)]
    BY <2>1 DEF IsTree, IsFile, Exists, Dir
  <2> QED BY <2>1, LenProperties
<1>6. e \in Item
  <2>1. e.size \in Nat
    BY <1>1, <1>4, <1>5
  <2>2. Last(p) \in Names
    BY <1>2, FrontTyped
  <2>3. IsDir(fs, p) \in BOOLEAN
    BY DEF IsDir
  <2>4. /\ e = [dir |-> Relative(dir, Front(p)), name |-> Last(p), isDir |-> IsDir(fs, p),
                at |-> n, size |-> e.size]
    BY DEF LaidOut
  <2> HIDE DEF e
  <2> QED BY <1>2, <1>3, <2>1, <2>2, <2>3, <2>4 DEF Item
<1> HIDE DEF e
<1>7. more \in Seq(Item) /\ ToSet(more) = ToSet(entries) \cup {e} /\ Last(more) = e /\ more # <<>>
  BY <1>3, <1>6, AppendMembers, AppendProperties
<1>8. e.size \in Nat
  BY <1>6 DEF Item
<1>9. FirstFree(more) = n + e.size
  BY <1>1, <1>7 DEF FirstFree
<1>10. ASSUME NEW at \in 2 .. FirstFree(more) - 1
       PROVE  \E x \in ToSet(more) : at \in x.at .. x.at + x.size - 1
  <2>1. CASE at \in 2 .. n - 1
    BY <1>7, <2>1 DEF Gapless
  <2>2. CASE at \in n .. n + e.size - 1
    BY <1>1, <1>7, <2>2
  <2> HIDE DEF n, more
  <2> QED BY <1>3, <1>8, <1>9, <2>1, <2>2
<1>11. ASSUME NEW x \in ToSet(more), x.size > 0
       PROVE  IsFile(fs, Append(dir \o x.dir, x.name))
  <2>1. CASE x \in ToSet(entries)
    BY <1>11, <2>1 DEF Gapless
  <2>2. CASE x = e
    <3>1. ~IsDir(fs, p)
      BY <1>1, <1>11, <2>2
    <3>2. Append(dir \o x.dir, x.name) = p
      BY <1>1, <1>2, <2>2
    <3> QED BY <1>4, <3>1, <3>2
  <2> QED BY <1>7, <1>11, <2>1, <2>2
<1>12. FirstFree(more) \in Nat \ {0, 1}
  <2> HIDE DEF n, more
  <2> QED BY <1>3, <1>8, <1>9
<1>13. more \in Gapless(fs, dir)
  <2> HIDE DEF n, more
  <2> QED BY <1>7, <1>10, <1>11, <1>12 DEF Gapless
<1> QED BY <1>13 DEF e

\* What Layout makes of a folder.
LEMMA LayoutTyped ==
  ASSUME NEW fs, IsTree(fs, Chunk), NEW dir \in Path
  PROVE  Layout(fs, dir) \in Gapless(fs, dir)
<1> DEFINE T == Gapless(fs, dir)
           paths == SetToSeq(Below(fs, dir))
           count == Len(paths)
           Add(q, n) == Append(q, LaidOut(fs, dir, q, paths[n]))
           Rec(g) == [n \in 0 .. count |-> IF n = 0 THEN <<>> ELSE Add(g[n - 1], n)]
           add == [n \in Nat |-> [q \in T |-> IF n \in 1 .. count THEN Add(q, n) ELSE q]]
           laid == CHOOSE g : g = Rec(g)
<1>1. count \in Nat /\ \A i \in 1 .. count : paths[i] \in Below(fs, dir)
  <2>1. IsFiniteSet(Below(fs, dir))
    BY FS_Subset DEF IsTree, Below
  <2>2. paths \in Seq(Below(fs, dir))
    BY <2>1, SetToSeqTyped
  <2> HIDE DEF paths
  <2> QED BY <2>2, LenProperties
<1>2. <<>> \in T
  <2>1. <<>> \in Seq(Item) /\ ToSet(<<>>) = {} /\ FirstFree(<<>>) = 2
    BY EmptySeq DEF ToSet, FirstFree
  <2> QED BY <2>1 DEF Gapless
<1>3. \A q \in T : \A n \in 1 .. count : Add(q, n) \in T
  <2> HIDE DEF paths
  <2> QED BY <1>1, LaysOut
<1> HIDE DEF paths
<1>4. add \in [Nat -> [T -> T]]
  <2> HIDE DEF T, Add
  <2> QED BY <1>3
<1>5. PICK f : f \in Runs(T, <<>>, count, add)
  <2>1. Runs(T, <<>>, count, add) # {}
    <3> HIDE DEF T, add
    <3> QED BY <1>1, <1>2, <1>4, Iterates
  <2> QED BY <2>1
<1>6. f \in [0 .. count -> T] /\ f[0] = <<>> /\ \A n \in 1 .. count : f[n] = add[n][f[n - 1]]
  BY <1>5 DEF Runs
<1>7. \A n \in 1 .. count : f[n] = Add(f[n - 1], n)
  <2>1. ASSUME NEW n \in 1 .. count PROVE f[n] = Add(f[n - 1], n)
    <3>1. n \in Nat /\ f[n - 1] \in T
      <4> HIDE DEF T
      <4> QED BY <1>1, <1>6
    <3>2. add[n][f[n - 1]] = Add(f[n - 1], n)
      <4> HIDE DEF T, Add
      <4> QED BY <3>1
    <3> QED BY <1>6, <3>2
  <2> QED BY <2>1
<1>8. f = Rec(f)
  <2>1. f = [n \in 0 .. count |-> f[n]]
    BY <1>6
  <2>2. \A n \in 0 .. count : f[n] = IF n = 0 THEN <<>> ELSE Add(f[n - 1], n)
    <3> HIDE DEF T, Add, add
    <3>1. \A n \in 0 .. count : n # 0 => n \in 1 .. count
      BY <1>1
    <3> QED BY <1>6, <1>7, <3>1
  <2> HIDE DEF T, Add, add
  <2> QED BY <2>1, <2>2, Zenon
<1>9. laid = Rec(laid)
  <2> HIDE DEF Rec
  <2> QED BY <1>8
<1>10. Layout(fs, dir) = laid[count]
  BY DEF Layout, paths
<1>11. \A n \in 0 .. count : laid[n] = IF n = 0 THEN <<>> ELSE Add(laid[n - 1], n)
  <2>1. \A n \in 0 .. count : laid[n] = Rec(laid)[n]
    <3> HIDE DEF laid, Rec
    <3> QED BY <1>9
  <2>2. \A n \in 0 .. count : Rec(laid)[n] = IF n = 0 THEN <<>> ELSE Add(laid[n - 1], n)
    <3> HIDE DEF laid, Add
    <3> QED OBVIOUS
  <2> HIDE DEF laid, Rec, Add
  <2> QED BY <2>1, <2>2
<1> DEFINE P == {k \in 0 .. count : laid[k] \in T}
<1>12. \A n \in 0 .. count : n \in P
  <2> HIDE DEF laid, Add, T
  <2>1. 0 \in P
    BY <1>1, <1>2, <1>11
  <2>2. ASSUME NEW n \in 0 .. count - 1, n \in P PROVE n + 1 \in P
    <3>1. n + 1 \in 1 .. count /\ n + 1 \in 0 .. count /\ (n + 1) - 1 = n /\ n + 1 # 0
      BY <1>1
    <3>2. laid[n + 1] = Add(laid[n], n + 1)
      BY <1>11, <3>1
    <3> QED BY <1>3, <2>2, <3>1, <3>2
  <2> HIDE DEF P
  <2> QED BY <1>1, <2>1, <2>2, UpTo
<1>13. laid[count] \in T
  <2>1. count \in 0 .. count
    BY <1>1
  <2> HIDE DEF laid, T
  <2> QED BY <1>12, <2>1
<1> QED BY <1>10, <1>13

-----------------------------------------------------------------------------
(* What a job may be, and what a step of one leaves as it was. *)

\* What TypeOK says of the disks and the records that the jobs have.
Standing ==
  /\ job \in Sessions /\ DOMAIN work = Jobs
  /\ IsTree(disk, Chunk) /\ IsTree(remote, Chunk)
  /\ \A j \in Jobs : "phase" \in DOMAIN work[j]

LEMMA ChoiceOf ==
  ASSUME job \in Sessions, NEW j \in Jobs
  PROVE  /\ job[j].kind \in {"none", "unpack", "pack", "upload", "extract"}
         /\ job[j].kind # "none" => Dest(j) \in Path
         /\ job[j].kind \in {"unpack", "pack", "upload"} => job[j].sources \in Seq(Path)
         /\ job[j].kind = "unpack" => <<>> \notin ToSet(job[j].sources)
         /\ job[j].kind = "extract" =>
              IsVolume(job[j].volume) /\ job[j].sources \in Seq(AbsolutePaths(Names)) \ {<<>>}
<1>1. IsChoice(job[j])
  BY ToolsAssumption
<1>2. CASE job[j] = NoJob
  BY <1>2 DEF NoJob
<1>3. CASE job[j] \in [kind : {"unpack", "pack", "upload"}, dest : Path, sources : Seq(Path)]
           /\ (job[j].kind = "unpack" => <<>> \notin ToSet(job[j].sources))
  BY <1>3 DEF Dest
<1>4. CASE /\ job[j].kind = "extract" /\ job[j].dest \in Path /\ IsVolume(job[j].volume)
           /\ job[j].sources \in Seq(AbsolutePaths(Names)) \ {<<>>}
  BY <1>4 DEF Dest
<1> QED BY <1>1, <1>2, <1>3, <1>4, Zenon DEF IsChoice

\* The fields that are put into a job's record change, and no other.
LEMMA PutGives ==
  ASSUME DOMAIN work = Jobs, NEW j \in Jobs, NEW fields, Put(j, fields)
  PROVE  /\ DOMAIN work' = Jobs /\ \A k \in Jobs \ {j} : work'[k] = work[k]
         /\ DOMAIN work'[j] = DOMAIN fields \cup DOMAIN work[j]
         /\ \A f \in DOMAIN fields : work'[j][f] = fields[f]
         /\ \A f \in DOMAIN work[j] \ DOMAIN fields : work'[j][f] = work[j][f]
<1>1. work' = [work EXCEPT ![j] = Over(fields, work[j])]
  BY DEF Put
<1>2. work'[j] = Over(fields, work[j])
  BY <1>1
<1> QED BY <1>1, <1>2 DEF Over

LEMMA GotoGives ==
  ASSUME DOMAIN work = Jobs, NEW j \in Jobs, "phase" \in DOMAIN work[j], NEW phase, Goto(j, phase)
  PROVE  /\ DOMAIN work' = Jobs /\ \A k \in Jobs \ {j} : work'[k] = work[k]
         /\ DOMAIN work'[j] = DOMAIN work[j] /\ work'[j].phase = phase
         /\ \A f \in DOMAIN work[j] \ {"phase"} : work'[j][f] = work[j][f]
<1> DEFINE fields == [phase |-> phase]
<1>1. Put(j, fields)
  BY DEF Goto
<1>2. DOMAIN fields = {"phase"} /\ fields["phase"] = phase
  OBVIOUS
<1> HIDE DEF fields
<1> QED BY <1>1, <1>2, PutGives

\* As the disks grow, a job that makes no step may go on from where it stands.
LEMMA StandsStill ==
  ASSUME job \in Sessions, job' = job, Grows(disk, disk'), Grows(remote, remote'),
         NEW j \in Jobs, JobTypeOK(j), work'[j] = work[j]
  PROVE  JobTypeOK(j)'
<1>1. \A path : IsFile(disk, path) => IsFile(disk', path)
  BY GrowsKeeps
<1>2. \A path : IsFile(remote, path) => IsFile(remote', path)
  BY GrowsKeeps
<1>3. \A dir : /\ Below(disk, dir) \subseteq Below(disk', dir)
               /\ FilesBelow(disk, dir) \subseteq FilesBelow(disk', dir)
  <2>1. \A dir : Below(disk, dir) \subseteq Below(disk', dir)
    BY DEF Below, Grows
  <2> QED BY <1>1, <2>1 DEF FilesBelow
<1>4. CASE job[j].kind = "unpack"
  <2>1. UnpackTypeOK(j)'
    <3>1. UnpackTypeOK(j)
      BY <1>4 DEF JobTypeOK
    <3>2. /\ Image(j)' = Image(j) /\ Entry(j)' = Entry(j) /\ EntryPath(j)' = EntryPath(j)
      BY DEF Image, Entry, EntryPath, EntryDir, Target, Several, Dest
    <3> QED BY <1>1, <3>1, <3>2 DEF UnpackTypeOK
  <2> QED BY <1>4, <2>1 DEF JobTypeOK
<1>5. CASE job[j].kind = "pack"
  <2>1. PackTypeOK(j)'
    <3>1. PackTypeOK(j)
      BY <1>5 DEF JobTypeOK
    <3>2. Dest(j)' = Dest(j)
      BY DEF Dest
    <3>3. work[j].phase = "pack" => CoversFrom(j, work[j].entries, work[j].at)'
      <4>1. \A e : FoundAt(j, e)' = FoundAt(j, e)
        BY DEF FoundAt, Source
      <4> QED BY <1>1, <3>1, <4>1 DEF PackTypeOK, CoversFrom
    <3> QED BY <1>1, <3>1, <3>2, <3>3 DEF PackTypeOK
  <2> QED BY <1>5, <2>1 DEF JobTypeOK
<1>6. CASE job[j].kind = "upload"
  <2>1. UploadTypeOK(j)'
    <3>1. UploadTypeOK(j)
      BY <1>6 DEF JobTypeOK
    <3>2. Local(j)' = Local(j) /\ RemoteFile(j)' = RemoteFile(j)
      BY DEF Local, Source, RemoteFile, RemotePath, LocalFile
    <3>3. \A s : s \in Seq(FilesBelow(disk, Local(j))) => s \in Seq(FilesBelow(disk', Local(j)))
      BY <1>3, SeqMonotonic
    <3>4. \A s : s \in Seq(SUBSET Below(disk, Local(j))) => s \in Seq(SUBSET Below(disk', Local(j)))
      <4>1. SUBSET Below(disk, Local(j)) \subseteq SUBSET Below(disk', Local(j))
        BY <1>3
      <4> QED BY <4>1, SeqMonotonic
    <3> QED BY <1>2, <3>1, <3>2, <3>3, <3>4 DEF UploadTypeOK
  <2> QED BY <1>6, <2>1 DEF JobTypeOK
<1>7. CASE job[j].kind = "extract"
  <2>1. ExtractTypeOK(j)'
    <3>1. ExtractTypeOK(j)
      BY <1>7 DEF JobTypeOK
    <3>2. LocalName(j, RemoteName(j))' = LocalName(j, RemoteName(j))
      BY DEF LocalName, RemoteName, Dest
    <3> QED BY <1>1, <3>1, <3>2 DEF ExtractTypeOK
  <2> QED BY <1>7, <2>1 DEF JobTypeOK
<1>8. CASE job[j].kind = "none"
  BY <1>8 DEF JobTypeOK, Phase
<1> QED BY <1>4, <1>5, <1>6, <1>7, <1>8, ChoiceOf

\* What a step of job j has to keep up.
Moved(j) ==
  /\ IsTree(disk', Chunk) /\ Grows(disk, disk')
  /\ DOMAIN work' = Jobs /\ \A k \in Jobs \ {j} : work'[k] = work[k]
  /\ "phase" \in DOMAIN work'[j] /\ JobTypeOK(j)'

-----------------------------------------------------------------------------
(* The steps of Extract. *)

UnpackStands(j) == Standing /\ job[j].kind = "unpack" /\ UnpackTypeOK(j)

\* The paths at work.
LEMMA UnpackPaths ==
  ASSUME NEW j \in Jobs, UnpackStands(j), work[j].phase \in {"entry", "copy"}
  PROVE  /\ Image(j) \in Path /\ Entry(j) \in Item
         /\ EntryDir(j) \in Path /\ EntryPath(j) \in Path /\ Front(EntryPath(j)) = EntryDir(j)
<1>1. /\ Dest(j) \in Path /\ job[j].sources \in Seq(Path) /\ <<>> \notin ToSet(job[j].sources)
      /\ work[j].index \in DOMAIN job[j].sources
      /\ work[j].entries \in Seq(Item) /\ work[j].place \in DOMAIN work[j].entries
  BY ChoiceOf DEF UnpackStands, UnpackTypeOK, Standing
<1>2. Entry(j) \in Item
  BY <1>1, LenProperties DEF Entry
<1>3. Image(j) \in Path /\ Image(j) # <<>>
  BY <1>1, LenProperties DEF Image, ToSet
<1>4. Target(j, work[j].index) \in Path
  <2>1. Stem[Last(Image(j))] \in Names
    BY <1>3, FrontTyped, ToolsAssumption
  <2> QED BY <1>1, <2>1, ConcatTyped DEF Target, Image
<1>5. EntryDir(j) \in Path
  BY <1>2, <1>4, ConcatTyped DEF EntryDir, Item
<1> QED BY <1>2, <1>3, <1>5, ConcatTyped DEF EntryPath, Item

\* Steps that stay at the entry stay at its path.
LEMMA SameEntry ==
  ASSUME job' = job, NEW j \in Jobs, work'[j].index = work[j].index,
         work'[j].entries = work[j].entries, work'[j].place = work[j].place
  PROVE  Image(j)' = Image(j) /\ Entry(j)' = Entry(j) /\ EntryPath(j)' = EntryPath(j)
BY DEF Image, Entry, EntryPath, EntryDir, Target, Several, Dest

LEMMA UnpackGivesUp ==
  ASSUME NEW j \in Jobs, UnpackStands(j), work[j].phase \notin {"idle", "done"},
         GiveUp(j), job' = job, IsTree(disk', Chunk), Grows(disk, disk')
  PROVE  Moved(j)
<1>1. /\ DOMAIN work' = Jobs /\ \A k \in Jobs \ {j} : work'[k] = work[k]
      /\ DOMAIN work'[j] = DOMAIN work[j] /\ work'[j].phase = "given up"
      /\ \A f \in DOMAIN work[j] \ {"phase"} : work'[j][f] = work[j][f]
  BY GotoGives DEF GiveUp, UnpackStands, Standing
<1>2. /\ {"index", "outcomes"} \subseteq DOMAIN work[j]
      /\ work[j].index \in DOMAIN job[j].sources
      /\ work[j].outcomes \in Seq({"unpacked", "given up"})
  BY DEF UnpackStands, UnpackTypeOK
<1>3. work'[j].index = work[j].index /\ work'[j].outcomes = work[j].outcomes
  BY <1>1, <1>2
<1>4. UnpackTypeOK(j)'
  BY <1>1, <1>2, <1>3 DEF UnpackTypeOK
<1> QED BY <1>1, <1>4 DEF Moved, JobTypeOK, UnpackStands, Standing

LEMMA UnpackClicked ==
  ASSUME NEW j \in Jobs, UnpackStands(j), ClickUnpack(j), job' = job PROVE Moved(j)
<1> DEFINE fields == [phase |-> "open", index |-> 1, outcomes |-> <<>>]
<1>1. /\ DOMAIN work' = Jobs /\ \A k \in Jobs \ {j} : work'[k] = work[k]
      /\ DOMAIN work'[j] = DOMAIN fields \cup DOMAIN work[j]
      /\ \A f \in DOMAIN fields : work'[j][f] = fields[f]
  <2>1. Put(j, fields)
    BY DEF ClickUnpack
  <2> HIDE DEF fields
  <2> QED BY <2>1, PutGives DEF UnpackStands, Standing
<1>2. 1 \in DOMAIN job[j].sources
  <2>1. job[j].sources \in Seq(Path) /\ job[j].sources # <<>>
    BY ChoiceOf DEF UnpackStands, Standing, ClickUnpack
  <2> QED BY <2>1, EmptySeq, LenProperties
<1>3. /\ work'[j].phase = "open" /\ work'[j].index = 1 /\ work'[j].outcomes = <<>>
      /\ {"phase", "index", "outcomes"} \subseteq DOMAIN work'[j]
  BY <1>1
<1>4. UnpackTypeOK(j)'
  BY <1>2, <1>3, EmptySeq DEF UnpackTypeOK
<1>5. disk' = disk
  BY DEF ClickUnpack
<1> QED BY <1>1, <1>3, <1>4, <1>5 DEF Moved, JobTypeOK, UnpackStands, Standing, Grows

\* The step to the next entry or to the end of the image.
LEMMA NextEntryMoves ==
  ASSUME NEW j \in Jobs, UnpackStands(j), work[j].phase \in {"entry", "copy"}, NextEntry(j),
         job' = job, IsTree(disk', Chunk), Grows(disk, disk')
  PROVE  Moved(j)
<1> DEFINE fields == [phase |-> IF work[j].place < Len(work[j].entries) THEN "entry" ELSE "unpacked",
                      place |-> work[j].place + 1]
<1>1. /\ DOMAIN work' = Jobs /\ \A k \in Jobs \ {j} : work'[k] = work[k]
      /\ DOMAIN work'[j] = DOMAIN fields \cup DOMAIN work[j]
      /\ \A f \in DOMAIN fields : work'[j][f] = fields[f]
      /\ \A f \in DOMAIN work[j] \ DOMAIN fields : work'[j][f] = work[j][f]
  <2>1. Put(j, fields)
    BY DEF NextEntry
  <2> HIDE DEF fields
  <2> QED BY <2>1, PutGives DEF UnpackStands, Standing
<1>2. /\ {"index", "outcomes", "entries", "place"} \subseteq DOMAIN work[j]
      /\ work[j].index \in DOMAIN job[j].sources
      /\ work[j].outcomes \in Seq({"unpacked", "given up"})
      /\ work[j].entries \in Seq(Item) /\ work[j].place \in DOMAIN work[j].entries
      /\ IsFile(disk, Image(j))
  BY DEF UnpackStands, UnpackTypeOK
<1>3. /\ DOMAIN fields = {"phase", "place"} /\ fields["place"] = work[j].place + 1
      /\ fields["phase"] = IF work[j].place < Len(work[j].entries) THEN "entry" ELSE "unpacked"
  OBVIOUS
<1> HIDE DEF fields
<1>4. /\ work'[j].phase = IF work[j].place < Len(work[j].entries) THEN "entry" ELSE "unpacked"
      /\ work'[j].place = work[j].place + 1
      /\ work'[j].index = work[j].index /\ work'[j].outcomes = work[j].outcomes
      /\ work'[j].entries = work[j].entries
      /\ {"phase", "index", "outcomes", "entries", "place"} \subseteq DOMAIN work'[j]
  BY <1>1, <1>2, <1>3
<1>5. Image(j)' = Image(j)
  BY <1>4 DEF Image
<1>6. work'[j].phase = "entry" => work'[j].place \in DOMAIN work'[j].entries
  <2>1. DOMAIN work[j].entries = 1 .. Len(work[j].entries) /\ Len(work[j].entries) \in Nat
    BY <1>2, LenProperties
  <2>2. work[j].place < Len(work[j].entries) => work[j].place + 1 \in DOMAIN work[j].entries
    <3>1. work[j].place \in 1 .. Len(work[j].entries)
      BY <1>2, <2>1
    <3> QED BY <2>1, <3>1
  <2> QED BY <1>4, <2>2
<1>7. IsFile(disk', Image(j))
  BY <1>2, GrowsKeeps
<1>8. UnpackTypeOK(j)'
  BY <1>2, <1>4, <1>5, <1>6, <1>7 DEF UnpackTypeOK
<1> QED BY <1>1, <1>4, <1>8 DEF Moved, JobTypeOK, UnpackStands

\* The disk as OpenImage leaves it, and the table it finds.
LEMMA ImageOpened ==
  ASSUME NEW j \in Jobs, UnpackStands(j), OpenImage(j), job' = job PROVE Moved(j)
<1>1. /\ disk' = disk /\ work[j].phase = "open" /\ IsTree(disk, Chunk)
      /\ {"index", "outcomes"} \subseteq DOMAIN work[j] /\ DOMAIN work = Jobs
      /\ work[j].index \in DOMAIN job[j].sources
      /\ work[j].outcomes \in Seq({"unpacked", "given up"})
  BY DEF OpenImage, Is, Phase, UnpackStands, UnpackTypeOK, Standing
<1>2. Grows(disk, disk')
  BY <1>1 DEF Grows
<1>3. CASE GiveUp(j)
  BY <1>1, <1>2, <1>3, UnpackGivesUp
<1>4. CASE /\ IsImage(disk, Image(j))
           /\ Put(j, [phase |-> IF TableOf(disk, Image(j)) = <<>> THEN "unpacked" ELSE "entry",
                      entries |-> TableOf(disk, Image(j)), place |-> 1])
  <2> DEFINE entries == TableOf(disk, Image(j))
             fields == [phase |-> IF entries = <<>> THEN "unpacked" ELSE "entry",
                        entries |-> entries, place |-> 1]
  <2>1. IsFile(disk, Image(j)) /\ entries \in Seq(Item)
    <3>1. /\ IsFile(disk, Image(j)) /\ disk[Image(j)].content # <<>>
          /\ "table" \in DOMAIN disk[Image(j)].content[1]
      BY <1>4 DEF IsImage
    <3>2. disk[Image(j)].content \in Seq(Chunk)
      BY <1>1, <3>1, ContentTyped
    <3>3. disk[Image(j)].content[1] \in Chunk
      BY <3>1, <3>2, EmptySeq, ElementOfSeq
    <3>4. disk[Image(j)].content[1] \in [table : Seq(Item)]
      BY <3>1, <3>3 DEF Chunk
    <3> QED BY <3>1, <3>4 DEF TableOf
  <2>2. Put(j, fields)
    BY <1>4
  <2>3. /\ DOMAIN fields = {"phase", "entries", "place"}
        /\ fields["phase"] = IF entries = <<>> THEN "unpacked" ELSE "entry"
        /\ fields["entries"] = entries /\ fields["place"] = 1
    OBVIOUS
  <2> HIDE DEF fields, entries
  <2>4. /\ DOMAIN work' = Jobs /\ \A k \in Jobs \ {j} : work'[k] = work[k]
        /\ DOMAIN work'[j] = DOMAIN fields \cup DOMAIN work[j]
        /\ \A f \in DOMAIN fields : work'[j][f] = fields[f]
        /\ \A f \in DOMAIN work[j] \ DOMAIN fields : work'[j][f] = work[j][f]
    BY <1>1, <2>2, PutGives
  <2>5. /\ work'[j].phase = IF entries = <<>> THEN "unpacked" ELSE "entry"
        /\ work'[j].entries = entries /\ work'[j].place = 1
        /\ work'[j].index = work[j].index /\ work'[j].outcomes = work[j].outcomes
        /\ {"phase", "index", "outcomes", "entries", "place"} \subseteq DOMAIN work'[j]
    BY <1>1, <2>3, <2>4
  <2>6. Image(j)' = Image(j)
    BY <2>5 DEF Image
  <2>7. entries # <<>> => 1 \in DOMAIN entries
    BY <2>1, EmptySeq, LenProperties
  <2>8. UnpackTypeOK(j)'
    BY <1>1, <2>1, <2>5, <2>6, <2>7 DEF UnpackTypeOK
  <2> QED BY <1>1, <1>2, <2>4, <2>5, <2>8 DEF Moved, JobTypeOK, UnpackStands
<1> QED BY <1>3, <1>4 DEF OpenImage

LEMMA DirUnpacked ==
  ASSUME NEW j \in Jobs, UnpackStands(j), UnpackDir(j), job' = job PROVE Moved(j)
<1>1. /\ work[j].phase = "entry" /\ CanMakeDirs(disk, EntryPath(j))
      /\ disk' = MakeDirs(disk, EntryPath(j)) /\ NextEntry(j) /\ IsTree(disk, Chunk)
  BY DEF UnpackDir, Is, Phase, UnpackStands, Standing
<1>2. IsTree(disk', Chunk) /\ Grows(disk, disk')
  BY <1>1, UnpackPaths, MakesDirs
<1> QED BY <1>1, <1>2, NextEntryMoves

LEMMA FileUnpacked ==
  ASSUME NEW j \in Jobs, UnpackStands(j), UnpackFile(j), job' = job PROVE Moved(j)
<1> DEFINE made == MakeDirs(disk, EntryDir(j))
           fields == [phase |-> "copy", done |-> 0]
<1>1. /\ work[j].phase = "entry" /\ CanMakeDirs(disk, EntryDir(j)) /\ IsTree(disk, Chunk)
      /\ CanCreate(made, EntryPath(j)) /\ disk' = Create(made, EntryPath(j))
      /\ IF Entry(j).size = 0 THEN NextEntry(j) ELSE Put(j, fields)
  BY DEF UnpackFile, Is, Phase, UnpackStands, Standing
<1>2. /\ EntryDir(j) \in Path /\ EntryPath(j) \in Path /\ Entry(j) \in Item
  BY <1>1, UnpackPaths
<1>3. IsTree(made, Chunk) /\ Grows(disk, made)
  BY <1>1, <1>2, MakesDirs
<1> HIDE DEF made
<1>4. IsTree(disk', Chunk) /\ Grows(made, disk') /\ IsFile(disk', EntryPath(j))
  BY <1>1, <1>2, <1>3, CreatesFile
<1>5. Grows(disk, disk')
  BY <1>3, <1>4 DEF Grows
<1>6. CASE Entry(j).size = 0
  BY <1>1, <1>4, <1>5, <1>6, NextEntryMoves
<1>7. CASE Entry(j).size # 0
  <2>1. Put(j, fields) /\ DOMAIN fields = {"phase", "done"}
        /\ fields["phase"] = "copy" /\ fields["done"] = 0
    BY <1>1, <1>7
  <2> HIDE DEF fields
  <2>2. /\ DOMAIN work' = Jobs /\ \A k \in Jobs \ {j} : work'[k] = work[k]
        /\ DOMAIN work'[j] = DOMAIN fields \cup DOMAIN work[j]
        /\ \A f \in DOMAIN fields : work'[j][f] = fields[f]
        /\ \A f \in DOMAIN work[j] \ DOMAIN fields : work'[j][f] = work[j][f]
    BY <2>1, PutGives DEF UnpackStands, Standing
  <2>3. /\ {"index", "outcomes", "entries", "place"} \subseteq DOMAIN work[j]
        /\ work[j].index \in DOMAIN job[j].sources
        /\ work[j].outcomes \in Seq({"unpacked", "given up"})
        /\ work[j].entries \in Seq(Item) /\ work[j].place \in DOMAIN work[j].entries
        /\ IsFile(disk, Image(j))
    BY <1>1 DEF UnpackStands, UnpackTypeOK
  <2>4. /\ work'[j].phase = "copy" /\ work'[j].done = 0
        /\ work'[j].index = work[j].index /\ work'[j].outcomes = work[j].outcomes
        /\ work'[j].entries = work[j].entries /\ work'[j].place = work[j].place
        /\ {"phase", "index", "outcomes", "entries", "place", "done"} \subseteq DOMAIN work'[j]
    BY <2>1, <2>2, <2>3
  <2>5. Image(j)' = Image(j) /\ Entry(j)' = Entry(j) /\ EntryPath(j)' = EntryPath(j)
    BY <2>4, SameEntry
  <2>6. 0 \in 0 .. Entry(j).size - 1
    BY <1>2, <1>7 DEF Item
  <2>7. IsFile(disk', Image(j))
    BY <1>5, <2>3, GrowsKeeps
  <2>8. UnpackTypeOK(j)'
    BY <1>4, <2>3, <2>4, <2>5, <2>6, <2>7 DEF UnpackTypeOK
  <2> QED BY <1>4, <1>5, <2>2, <2>4, <2>8 DEF Moved, JobTypeOK, UnpackStands
<1> QED BY <1>6, <1>7

LEMMA EntryGivenUp ==
  ASSUME NEW j \in Jobs, UnpackStands(j), EntryFails(j), job' = job PROVE Moved(j)
<1>1. /\ work[j].phase = "entry" /\ GiveUp(j) /\ IsTree(disk, Chunk)
      /\ \/ disk' = disk
         \/ CanMakeDirs(disk, EntryDir(j)) /\ disk' = MakeDirs(disk, EntryDir(j))
  BY DEF EntryFails, Is, Phase, UnpackStands, Standing
<1>2. EntryDir(j) \in Path
  BY <1>1, UnpackPaths
<1>3. IsTree(disk', Chunk) /\ Grows(disk, disk')
  <2>1. Grows(disk, disk)
    BY DEF Grows
  <2> QED BY <1>1, <1>2, <2>1, MakesDirs
<1> QED BY <1>1, <1>3, UnpackGivesUp

LEMMA ChunkUnpacked ==
  ASSUME NEW j \in Jobs, UnpackStands(j), UnpackChunk(j), job' = job PROVE Moved(j)
<1> DEFINE n == work[j].done + 1
           at == Entry(j).at + work[j].done
           fields == [done |-> n]
<1>1. /\ work[j].phase = "copy" /\ IsTree(disk, Chunk)
      /\ \/ /\ disk' = WriteChunk(disk, EntryPath(j), n, ChunkAt(disk, Image(j), at))
            /\ IF n = Entry(j).size THEN NextEntry(j) ELSE Put(j, fields)
         \/ GiveUp(j) /\ disk' = disk
  BY DEF UnpackChunk, Is, Phase, UnpackStands, Standing
<1>2. /\ {"index", "outcomes", "entries", "place", "done"} \subseteq DOMAIN work[j]
      /\ work[j].index \in DOMAIN job[j].sources
      /\ work[j].outcomes \in Seq({"unpacked", "given up"})
      /\ work[j].entries \in Seq(Item) /\ work[j].place \in DOMAIN work[j].entries
      /\ work[j].done \in 0 .. Entry(j).size - 1
      /\ IsFile(disk, Image(j)) /\ IsFile(disk, EntryPath(j))
  BY <1>1 DEF UnpackStands, UnpackTypeOK
<1>3. Entry(j).at \in Nat \ {0} /\ Entry(j).size \in Nat
  BY <1>1, UnpackPaths DEF Item
<1>4. n \in Nat \ {0} /\ at \in Nat \ {0} /\ (n # Entry(j).size => n \in 0 .. Entry(j).size - 1)
  <2>1. work[j].done \in Nat /\ work[j].done <= Entry(j).size - 1
    <3>1. work[j].done \in 0 .. Entry(j).size - 1
      BY <1>2
    <3> QED BY <1>3, <3>1
  <2> QED BY <1>3, <2>1
<1>5. CASE GiveUp(j) /\ disk' = disk
  BY <1>1, <1>5, UnpackGivesUp DEF Grows
<1>6. CASE /\ disk' = WriteChunk(disk, EntryPath(j), n, ChunkAt(disk, Image(j), at))
           /\ IF n = Entry(j).size THEN NextEntry(j) ELSE Put(j, fields)
  <2> HIDE DEF n, at
  <2>1. IsTree(disk', Chunk) /\ Grows(disk, disk')
    <3>1. Hole \in Chunk
      BY ToolsAssumption
    <3>2. ChunkAt(disk, Image(j), at) \in Chunk
      BY <1>1, <1>2, <1>4, <3>1, ChunkTyped
    <3> QED BY <1>1, <1>2, <1>4, <1>6, <3>1, <3>2, WritesTree
  <2>2. CASE n = Entry(j).size
    BY <1>1, <1>6, <2>1, <2>2, NextEntryMoves
  <2>3. CASE n # Entry(j).size
    <3>1. Put(j, fields) /\ DOMAIN fields = {"done"} /\ fields["done"] = n
      BY <1>6, <2>3
    <3> HIDE DEF fields
    <3>2. /\ DOMAIN work' = Jobs /\ \A k \in Jobs \ {j} : work'[k] = work[k]
          /\ DOMAIN work'[j] = DOMAIN fields \cup DOMAIN work[j]
          /\ \A f \in DOMAIN fields : work'[j][f] = fields[f]
          /\ \A f \in DOMAIN work[j] \ DOMAIN fields : work'[j][f] = work[j][f]
      BY <3>1, PutGives DEF UnpackStands, Standing
    <3>3. /\ work'[j].phase = "copy" /\ work'[j].done = n
          /\ work'[j].index = work[j].index /\ work'[j].outcomes = work[j].outcomes
          /\ work'[j].entries = work[j].entries /\ work'[j].place = work[j].place
          /\ {"phase", "index", "outcomes", "entries", "place", "done"} \subseteq DOMAIN work'[j]
      <4>1. "phase" \in DOMAIN work[j]
        BY DEF UnpackStands, Standing
      <4> QED BY <1>1, <1>2, <3>1, <3>2, <4>1
    <3>4. Image(j)' = Image(j) /\ Entry(j)' = Entry(j) /\ EntryPath(j)' = EntryPath(j)
      BY <3>3, SameEntry
    <3>5. IsFile(disk', Image(j)) /\ IsFile(disk', EntryPath(j))
      BY <1>2, <2>1, GrowsKeeps
    <3>6. n \in 0 .. Entry(j).size - 1
      BY <1>4, <2>3
    <3>7. UnpackTypeOK(j)'
      BY <1>2, <3>3, <3>4, <3>5, <3>6 DEF UnpackTypeOK
    <3> QED BY <2>1, <3>2, <3>3, <3>7 DEF Moved, JobTypeOK, UnpackStands
  <2> QED BY <2>2, <2>3
<1> QED BY <1>1, <1>5, <1>6

LEMMA ImageEnded ==
  ASSUME NEW j \in Jobs, UnpackStands(j), EndOfImage(j), job' = job PROVE Moved(j)
<1> DEFINE fields == [phase |-> IF work[j].index < Len(job[j].sources) THEN "open" ELSE "done",
                      index |-> work[j].index + 1,
                      outcomes |-> Append(work[j].outcomes, Phase(j))]
<1>1. /\ work[j].phase \in {"unpacked", "given up"} /\ disk' = disk /\ Put(j, fields)
      /\ IsTree(disk, Chunk)
  BY DEF EndOfImage, Phase, UnpackStands, Standing
<1>2. /\ DOMAIN fields = {"phase", "index", "outcomes"}
      /\ fields["phase"] = IF work[j].index < Len(job[j].sources) THEN "open" ELSE "done"
      /\ fields["index"] = work[j].index + 1
      /\ fields["outcomes"] = Append(work[j].outcomes, work[j].phase)
  BY DEF Phase
<1> HIDE DEF fields
<1>3. /\ work[j].index \in DOMAIN job[j].sources
      /\ work[j].outcomes \in Seq({"unpacked", "given up"})
  BY <1>1 DEF UnpackStands, UnpackTypeOK
<1>4. /\ DOMAIN work' = Jobs /\ \A k \in Jobs \ {j} : work'[k] = work[k]
      /\ DOMAIN work'[j] = DOMAIN fields \cup DOMAIN work[j]
      /\ \A f \in DOMAIN fields : work'[j][f] = fields[f]
  BY <1>1, PutGives DEF UnpackStands, Standing
<1>5. /\ work'[j].phase = IF work[j].index < Len(job[j].sources) THEN "open" ELSE "done"
      /\ work'[j].index = work[j].index + 1
      /\ work'[j].outcomes = Append(work[j].outcomes, work[j].phase)
      /\ {"phase", "index", "outcomes"} \subseteq DOMAIN work'[j]
  BY <1>2, <1>4
<1>6. work[j].index < Len(job[j].sources) => work[j].index + 1 \in DOMAIN job[j].sources
  <2>1. job[j].sources \in Seq(Path)
    BY ChoiceOf DEF UnpackStands, Standing
  <2>2. DOMAIN job[j].sources = 1 .. Len(job[j].sources) /\ Len(job[j].sources) \in Nat
    BY <2>1, LenProperties
  <2>3. work[j].index \in 1 .. Len(job[j].sources)
    BY <1>3, <2>2
  <2> QED BY <2>2, <2>3
<1>7. Append(work[j].outcomes, work[j].phase) \in Seq({"unpacked", "given up"})
  BY <1>1, <1>3, AppendProperties
<1>8. UnpackTypeOK(j)'
  BY <1>3, <1>5, <1>6, <1>7 DEF UnpackTypeOK
<1> QED BY <1>1, <1>4, <1>5, <1>8 DEF Moved, JobTypeOK, UnpackStands, Grows

LEMMA UnpackMoves ==
  ASSUME NEW j \in Jobs, UnpackStands(j), UnpackStep(j), job' = job PROVE Moved(j)
BY ImageOpened, DirUnpacked, FileUnpacked, EntryGivenUp, ChunkUnpacked, ImageEnded DEF UnpackStep

-----------------------------------------------------------------------------
(* The steps of Build. *)

PackStands(j) == Standing /\ job[j].kind = "pack" /\ PackTypeOK(j)

\* A build has nothing more to keep up when it has ended.
LEMMA PackEnds ==
  ASSUME NEW j \in Jobs, PackStands(j), job' = job, IsTree(disk', Chunk), Grows(disk, disk'),
         DOMAIN work' = Jobs, \A k \in Jobs \ {j} : work'[k] = work[k],
         "phase" \in DOMAIN work'[j], work'[j].phase \in {"done", "failed", "lost"}
  PROVE  Moved(j)
<1>1. PackTypeOK(j)'
  BY DEF PackTypeOK
<1> QED BY <1>1 DEF Moved, JobTypeOK, PackStands

LEMMA PackClicked ==
  ASSUME NEW j \in Jobs, PackStands(j), ClickPack(j), job' = job PROVE Moved(j)
<1> DEFINE fields == [phase |-> "create", buffer |-> <<>>]
<1>1. Put(j, fields) /\ disk' = disk /\ IsTree(disk, Chunk)
  BY DEF ClickPack, PackStands, Standing
<1>2. /\ DOMAIN fields = {"phase", "buffer"}
      /\ fields["phase"] = "create" /\ fields["buffer"] = <<>>
  OBVIOUS
<1> HIDE DEF fields
<1>3. /\ DOMAIN work' = Jobs /\ \A k \in Jobs \ {j} : work'[k] = work[k]
      /\ DOMAIN work'[j] = DOMAIN fields \cup DOMAIN work[j]
      /\ \A f \in DOMAIN fields : work'[j][f] = fields[f]
  BY <1>1, PutGives DEF PackStands, Standing
<1>4. /\ work'[j].phase = "create" /\ work'[j].buffer = <<>>
      /\ {"phase", "buffer"} \subseteq DOMAIN work'[j]
  BY <1>2, <1>3
<1>5. PackTypeOK(j)'
  BY <1>4, EmptySeq DEF PackTypeOK
<1> QED BY <1>1, <1>3, <1>4, <1>5 DEF Moved, JobTypeOK, PackStands, Grows

LEMMA ImageCreated ==
  ASSUME NEW j \in Jobs, PackStands(j), CreateImage(j), job' = job PROVE Moved(j)
<1>1. /\ work[j].phase = "create" /\ IsTree(disk, Chunk) /\ Dest(j) \in Path
      /\ "phase" \in DOMAIN work[j] /\ DOMAIN work = Jobs
      /\ "buffer" \in DOMAIN work[j] /\ work[j].buffer \in Seq(Piece)
  BY ChoiceOf DEF CreateImage, Is, Phase, PackStands, PackTypeOK, Standing, Piece
<1>2. CASE Fail(j) /\ disk' = disk
  <2>1. /\ DOMAIN work' = Jobs /\ \A k \in Jobs \ {j} : work'[k] = work[k]
        /\ "phase" \in DOMAIN work'[j] /\ work'[j].phase = "failed"
    BY <1>1, <1>2, GotoGives DEF Fail
  <2> QED BY <1>1, <1>2, <2>1, PackEnds DEF Grows
<1>3. CASE CanCreate(disk, Dest(j)) /\ disk' = Create(disk, Dest(j)) /\ Goto(j, "scan")
  <2>1. IsTree(disk', Chunk) /\ Grows(disk, disk') /\ IsFile(disk', Dest(j))
    BY <1>1, <1>3, CreatesFile
  <2>2. /\ DOMAIN work' = Jobs /\ \A k \in Jobs \ {j} : work'[k] = work[k]
        /\ DOMAIN work'[j] = DOMAIN work[j] /\ work'[j].phase = "scan"
        /\ \A f \in DOMAIN work[j] \ {"phase"} : work'[j][f] = work[j][f]
    BY <1>1, <1>3, GotoGives
  <2>3. work'[j].buffer = work[j].buffer
    BY <1>1, <2>2
  <2>4. Dest(j)' = Dest(j)
    BY DEF Dest
  <2>5. PackTypeOK(j)'
    BY <1>1, <2>1, <2>2, <2>3, <2>4 DEF PackTypeOK, Piece
  <2> QED BY <1>1, <2>1, <2>2, <2>5 DEF Moved, JobTypeOK, PackStands
<1> QED BY <1>2, <1>3 DEF CreateImage

LEMMA FolderScanned ==
  ASSUME NEW j \in Jobs, PackStands(j), ScanFolder(j), job' = job PROVE Moved(j)
<1> DEFINE entries == Layout(disk, Source(j))
           fields == [phase |-> "pack", entries |-> entries, at |-> 2]
<1>1. /\ work[j].phase = "scan" /\ disk' = disk /\ IsTree(disk, Chunk) /\ Grows(disk, disk')
      /\ "phase" \in DOMAIN work[j] /\ DOMAIN work = Jobs
      /\ "buffer" \in DOMAIN work[j] /\ work[j].buffer \in Seq(Piece)
      /\ IsFile(disk, Dest(j))
  BY DEF ScanFolder, Is, Phase, PackStands, PackTypeOK, Standing, Piece, Grows
<1>2. CASE Fail(j)
  <2>1. /\ DOMAIN work' = Jobs /\ \A k \in Jobs \ {j} : work'[k] = work[k]
        /\ "phase" \in DOMAIN work'[j] /\ work'[j].phase = "failed"
    BY <1>1, <1>2, GotoGives DEF Fail
  <2> QED BY <1>1, <2>1, PackEnds
<1>3. CASE IsDir(disk, Source(j)) /\ Put(j, fields)
  <2>1. Source(j) \in Path
    BY <1>1, <1>3 DEF IsDir, Exists, IsTree
  <2>2. entries \in Gapless(disk, Source(j))
    BY <1>1, <2>1, LayoutTyped
  <2>3. /\ DOMAIN fields = {"phase", "entries", "at"}
        /\ fields["phase"] = "pack" /\ fields["entries"] = entries /\ fields["at"] = 2
    OBVIOUS
  <2> HIDE DEF entries, fields
  <2>4. /\ DOMAIN work' = Jobs /\ \A k \in Jobs \ {j} : work'[k] = work[k]
        /\ DOMAIN work'[j] = DOMAIN fields \cup DOMAIN work[j]
        /\ \A f \in DOMAIN fields : work'[j][f] = fields[f]
        /\ \A f \in DOMAIN work[j] \ DOMAIN fields : work'[j][f] = work[j][f]
    BY <1>1, <1>3, PutGives
  <2>5. /\ work'[j].phase = "pack" /\ work'[j].entries = entries /\ work'[j].at = 2
        /\ work'[j].buffer = work[j].buffer
        /\ {"phase", "entries", "at", "buffer"} \subseteq DOMAIN work'[j]
    BY <1>1, <2>3, <2>4
  <2>6. entries \in Seq(Item) /\ 2 \in 2 .. FirstFree(entries)
    BY <2>2 DEF Gapless
  <2>7. CoversFrom(j, entries, 2)
    BY <2>2 DEF Gapless, CoversFrom, FoundAt
  <2>8. CoversFrom(j, work[j].entries, work[j].at)'
    <3>1. \A e : FoundAt(j, e)' = FoundAt(j, e)
      BY DEF FoundAt, Source
    <3> QED BY <1>1, <2>5, <2>7, <3>1 DEF CoversFrom
  <2>9. Dest(j)' = Dest(j)
    BY DEF Dest
  <2>10. PackTypeOK(j)'
    BY <1>1, <2>5, <2>6, <2>8, <2>9 DEF PackTypeOK, Piece
  <2> QED BY <1>1, <2>4, <2>5, <2>10 DEF Moved, JobTypeOK, PackStands
<1> QED BY <1>2, <1>3 DEF ScanFolder

\* A piece goes through the buffer, which may be written out.
LEMMA BufferAlike ==
  ASSUME NEW j \in Jobs, PackStands(j), work[j].phase = "pack", NEW piece \in Piece,
         NEW fields, Buffer(j, piece, fields)
  PROVE  disk' \in Alike(disk, Chunk, Dest(j))
<1> DEFINE buffer == Append(work[j].buffer, piece)
<1>1. IsTree(disk, Chunk) /\ IsFile(disk, Dest(j)) /\ work[j].buffer \in Seq(Piece)
  BY DEF PackStands, PackTypeOK, Standing, Piece
<1>2. buffer \in Seq(Piece)
  BY <1>1, AppendProperties
<1>3. Len(buffer) \in 0 .. Len(buffer)
  BY <1>2, LenProperties
<1> HIDE DEF buffer
<1>4. CASE disk' = disk
  BY <1>1, <1>4, AlikeTree
<1>5. CASE disk' = Flushed(disk, j, buffer, Len(buffer))
  BY <1>1, <1>2, <1>3, <1>5, FlushesAlike, ToolsAssumption
<1> QED BY <1>4, <1>5 DEF Buffer, buffer

LEMMA BufferGives ==
  ASSUME NEW j \in Jobs, PackStands(j), work[j].phase = "pack", NEW piece \in Piece,
         NEW fields, "buffer" \notin DOMAIN fields, Buffer(j, piece, fields)
  PROVE  /\ IsTree(disk', Chunk) /\ Grows(disk, disk')
         /\ DOMAIN work' = Jobs /\ \A k \in Jobs \ {j} : work'[k] = work[k]
         /\ DOMAIN work'[j] = {"buffer"} \cup DOMAIN fields \cup DOMAIN work[j]
         /\ work'[j].buffer \in Seq(Piece)
         /\ \A f \in DOMAIN fields : work'[j][f] = fields[f]
         /\ \A f \in DOMAIN work[j] \ ({"buffer"} \cup DOMAIN fields) : work'[j][f] = work[j][f]
<1> DEFINE buffer == Append(work[j].buffer, piece)
<1>1. IsTree(disk, Chunk) /\ DOMAIN work = Jobs /\ work[j].buffer \in Seq(Piece)
  BY DEF PackStands, PackTypeOK, Standing, Piece
<1>2. buffer \in Seq(Piece) /\ <<>> \in Seq(Piece)
  BY <1>1, AppendProperties, EmptySeq
<1> HIDE DEF buffer
<1>3. \E left \in Seq(Piece) : Put(j, Over([buffer |-> left], fields))
  BY <1>2 DEF Buffer, buffer
<1>4. PICK left \in Seq(Piece) : Put(j, Over([buffer |-> left], fields))
  BY <1>3
<1> DEFINE all == Over([buffer |-> left], fields)
<1>5. /\ DOMAIN all = {"buffer"} \cup DOMAIN fields /\ all["buffer"] = left
      /\ \A f \in DOMAIN fields : all[f] = fields[f]
  BY DEF Over
<1> HIDE DEF all
<1>6. /\ DOMAIN work' = Jobs /\ \A k \in Jobs \ {j} : work'[k] = work[k]
      /\ DOMAIN work'[j] = DOMAIN all \cup DOMAIN work[j]
      /\ \A f \in DOMAIN all : work'[j][f] = all[f]
      /\ \A f \in DOMAIN work[j] \ DOMAIN all : work'[j][f] = work[j][f]
  BY <1>1, <1>4, PutGives DEF all
<1>7. IsTree(disk', Chunk) /\ Grows(disk, disk')
  <2>1. disk' \in Alike(disk, Chunk, Dest(j))
    BY BufferAlike
  <2> QED BY <1>1, <2>1, AlikeTree
<1>8. work'[j].buffer \in Seq(Piece)
  BY <1>5, <1>6
<1> QED BY <1>5, <1>6, <1>7, <1>8

LEMMA FirstFreeTyped ==
  ASSUME NEW entries \in Seq(Item) PROVE FirstFree(entries) \in Int
<1>1. entries # <<>> => Last(entries) \in Item
  BY EmptySeq, LenProperties DEF Last
<1> QED BY <1>1 DEF FirstFree, Item

\* What has to go into a place is a chunk.
LEMMA ChunkForTyped ==
  ASSUME NEW j \in Jobs, PackStands(j), work[j].phase = "pack",
         work[j].at < FirstFree(work[j].entries)
  PROVE  ChunkFor(j, work[j].at) \in Chunk
<1> DEFINE at == work[j].at
           entries == work[j].entries
           e == Owner(entries, at)
<1>1. /\ entries \in Seq(Item) /\ at \in 2 .. FirstFree(entries) /\ CoversFrom(j, entries, at)
      /\ IsTree(disk, Chunk)
  BY DEF PackStands, PackTypeOK, Standing
<1>2. at \in at .. FirstFree(entries) - 1
  BY <1>1, FirstFreeTyped
<1>3. e \in ToSet(entries) /\ at \in e.at .. e.at + e.size - 1
  <2>1. \E x \in ToSet(entries) : at \in x.at .. x.at + x.size - 1
    BY <1>1, <1>2 DEF CoversFrom
  <2> QED BY <2>1 DEF Owner
<1>4. e \in Item
  BY <1>1, <1>3, LenProperties DEF ToSet
<1>5. e.size > 0 /\ at - e.at + 1 \in Nat \ {0}
  BY <1>1, <1>3, <1>4 DEF Item
<1>6. IsFile(disk, FoundAt(j, e))
  BY <1>1, <1>3, <1>5 DEF CoversFrom
<1>7. Hole \in Chunk
  BY ToolsAssumption
<1>8. ChunkAt(disk, FoundAt(j, e), at - e.at + 1) \in Chunk
  <2> HIDE DEF e, at
  <2> QED BY <1>1, <1>5, <1>6, <1>7, ChunkTyped
<1> QED BY <1>8 DEF ChunkFor

LEMMA ChunkPacked ==
  ASSUME NEW j \in Jobs, PackStands(j), PackChunk(j), job' = job PROVE Moved(j)
<1> DEFINE at == work[j].at
           piece == [at |-> at, chunk |-> ChunkFor(j, at)]
           fields == [at |-> at + 1]
<1>1. /\ work[j].phase = "pack" /\ at < FirstFree(work[j].entries) /\ Buffer(j, piece, fields)
      /\ {"entries", "at", "buffer"} \subseteq DOMAIN work[j] /\ "phase" \in DOMAIN work[j]
      /\ work[j].entries \in Seq(Item) /\ at \in 2 .. FirstFree(work[j].entries)
      /\ CoversFrom(j, work[j].entries, at) /\ IsFile(disk, Dest(j))
  BY DEF PackChunk, Is, Phase, PackStands, PackTypeOK, Standing
<1>2. piece \in Piece
  <2>1. ChunkFor(j, at) \in Chunk
    BY <1>1, ChunkForTyped
  <2> QED BY <1>1, <2>1 DEF Piece
<1>3. DOMAIN fields = {"at"} /\ fields["at"] = at + 1
  OBVIOUS
<1> HIDE DEF piece, fields
<1>4. /\ IsTree(disk', Chunk) /\ Grows(disk, disk')
      /\ DOMAIN work' = Jobs /\ \A k \in Jobs \ {j} : work'[k] = work[k]
      /\ DOMAIN work'[j] = {"buffer"} \cup DOMAIN fields \cup DOMAIN work[j]
      /\ work'[j].buffer \in Seq(Piece)
      /\ \A f \in DOMAIN fields : work'[j][f] = fields[f]
      /\ \A f \in DOMAIN work[j] \ ({"buffer"} \cup DOMAIN fields) : work'[j][f] = work[j][f]
  <2>1. "buffer" \notin DOMAIN fields
    BY <1>3
  <2> QED BY <1>1, <1>2, <2>1, BufferGives
<1>5. /\ work'[j].phase = "pack" /\ work'[j].at = at + 1 /\ work'[j].entries = work[j].entries
      /\ {"phase", "entries", "at", "buffer"} \subseteq DOMAIN work'[j]
  BY <1>1, <1>3, <1>4
<1>6. at + 1 \in 2 .. FirstFree(work[j].entries)
  <2>1. at \in Nat /\ FirstFree(work[j].entries) \in Int
    BY <1>1, FirstFreeTyped
  <2> HIDE DEF at
  <2> QED BY <1>1, <2>1
<1>7. CoversFrom(j, work[j].entries, work[j].at)'
  <2>1. \A e : FoundAt(j, e)' = FoundAt(j, e)
    BY DEF FoundAt, Source
  <2>2. \A n \in at + 1 .. FirstFree(work[j].entries) - 1 : n \in at .. FirstFree(work[j].entries) - 1
    BY <1>1
  <2>3. \A path : IsFile(disk, path) => IsFile(disk', path)
    BY <1>4, GrowsKeeps
  <2> HIDE DEF at
  <2> QED BY <1>1, <1>5, <2>1, <2>2, <2>3 DEF CoversFrom
<1>8. IsFile(disk', Dest(j)) /\ Dest(j)' = Dest(j)
  BY <1>1, <1>4, GrowsKeeps DEF Dest
<1>9. PackTypeOK(j)'
  <2> HIDE DEF at
  <2> QED BY <1>1, <1>4, <1>5, <1>6, <1>7, <1>8 DEF PackTypeOK, Piece
<1> QED BY <1>4, <1>5, <1>9 DEF Moved, JobTypeOK, PackStands

LEMMA ImageFinished ==
  ASSUME NEW j \in Jobs, PackStands(j), FinishImage(j), job' = job PROVE Moved(j)
<1> DEFINE piece == [at |-> 1, chunk |-> Table(work[j].entries)]
           fields == [phase |-> "built"]
<1>1. /\ work[j].phase = "pack" /\ Buffer(j, piece, fields)
      /\ work[j].entries \in Seq(Item) /\ IsFile(disk, Dest(j))
  BY DEF FinishImage, Is, Phase, PackStands, PackTypeOK
<1>2. piece \in Piece
  BY <1>1 DEF Piece, Table, Chunk
<1>3. DOMAIN fields = {"phase"} /\ fields["phase"] = "built"
  OBVIOUS
<1> HIDE DEF piece, fields
<1>4. /\ IsTree(disk', Chunk) /\ Grows(disk, disk')
      /\ DOMAIN work' = Jobs /\ \A k \in Jobs \ {j} : work'[k] = work[k]
      /\ DOMAIN work'[j] = {"buffer"} \cup DOMAIN fields \cup DOMAIN work[j]
      /\ work'[j].buffer \in Seq(Piece)
      /\ \A f \in DOMAIN fields : work'[j][f] = fields[f]
  <2>1. "buffer" \notin DOMAIN fields
    BY <1>3
  <2> QED BY <1>1, <1>2, <2>1, BufferGives
<1>5. work'[j].phase = "built" /\ {"phase", "buffer"} \subseteq DOMAIN work'[j]
  BY <1>3, <1>4
<1>6. IsFile(disk', Dest(j)) /\ Dest(j)' = Dest(j)
  BY <1>1, <1>4, GrowsKeeps DEF Dest
<1>7. PackTypeOK(j)'
  BY <1>4, <1>5, <1>6 DEF PackTypeOK, Piece
<1> QED BY <1>4, <1>5, <1>7 DEF Moved, JobTypeOK, PackStands

LEMMA PackBroken ==
  ASSUME NEW j \in Jobs, PackStands(j), PackFails(j), job' = job PROVE Moved(j)
<1>1. /\ work[j].phase = "pack" /\ disk' = disk /\ Goto(j, "broken") /\ IsTree(disk, Chunk)
      /\ "phase" \in DOMAIN work[j] /\ DOMAIN work = Jobs
      /\ "buffer" \in DOMAIN work[j] /\ work[j].buffer \in Seq(Piece) /\ IsFile(disk, Dest(j))
  BY DEF PackFails, Is, Phase, PackStands, PackTypeOK, Standing, Piece
<1>2. /\ DOMAIN work' = Jobs /\ \A k \in Jobs \ {j} : work'[k] = work[k]
      /\ DOMAIN work'[j] = DOMAIN work[j] /\ work'[j].phase = "broken"
      /\ \A f \in DOMAIN work[j] \ {"phase"} : work'[j][f] = work[j][f]
  BY <1>1, GotoGives
<1>3. work'[j].buffer = work[j].buffer /\ Dest(j)' = Dest(j)
  BY <1>1, <1>2 DEF Dest
<1>4. PackTypeOK(j)'
  BY <1>1, <1>2, <1>3 DEF PackTypeOK, Piece
<1> QED BY <1>1, <1>2, <1>4 DEF Moved, JobTypeOK, PackStands, Grows

LEMMA BufferDropped ==
  ASSUME NEW j \in Jobs, PackStands(j), DropBuffer(j), job' = job PROVE Moved(j)
<1>1. PICK count \in 0 .. Len(work[j].buffer) :
        /\ disk' = Flushed(disk, j, work[j].buffer, count)
        /\ Put(j, [phase |-> IF Phase(j) = "broken" THEN "failed"
                             ELSE IF count = Len(work[j].buffer) THEN "done" ELSE "lost",
                   buffer |-> <<>>])
  BY DEF DropBuffer
<1>2. /\ IsTree(disk, Chunk) /\ DOMAIN work = Jobs
      /\ work[j].buffer \in Seq(Piece) /\ IsFile(disk, Dest(j))
  BY DEF DropBuffer, Phase, PackStands, PackTypeOK, Standing, Piece
<1>3. IsTree(disk', Chunk) /\ Grows(disk, disk')
  <2>1. disk' \in Alike(disk, Chunk, Dest(j))
    BY <1>1, <1>2, FlushesAlike, ToolsAssumption
  <2> QED BY <1>2, <2>1, AlikeTree
<1> DEFINE phase == IF Phase(j) = "broken" THEN "failed"
                    ELSE IF count = Len(work[j].buffer) THEN "done" ELSE "lost"
           fields == [phase |-> phase, buffer |-> <<>>]
<1>4. phase \in {"done", "failed", "lost"}
  OBVIOUS
<1>5. DOMAIN fields = {"phase", "buffer"} /\ fields["phase"] = phase
  OBVIOUS
<1>6. Put(j, fields)
  BY <1>1
<1> HIDE DEF fields, phase
<1>7. /\ DOMAIN work' = Jobs /\ \A k \in Jobs \ {j} : work'[k] = work[k]
      /\ "phase" \in DOMAIN work'[j] /\ work'[j].phase = phase
  BY <1>2, <1>5, <1>6, PutGives
<1> QED BY <1>3, <1>4, <1>7, PackEnds

LEMMA PackMoves ==
  ASSUME NEW j \in Jobs, PackStands(j), PackStep(j), job' = job PROVE Moved(j)
BY ImageCreated, FolderScanned, ChunkPacked, ImageFinished, PackBroken, BufferDropped DEF PackStep

-----------------------------------------------------------------------------
(* The steps of the upload. *)

UploadStands(j) == Standing /\ job[j].kind = "upload" /\ UploadTypeOK(j)

\* What a step of an upload has to keep up.
MovedRemote(j) ==
  /\ IsTree(remote', Chunk) /\ Grows(remote, remote')
  /\ DOMAIN work' = Jobs /\ \A k \in Jobs \ {j} : work'[k] = work[k]
  /\ "phase" \in DOMAIN work'[j] /\ JobTypeOK(j)'

\* What is below something below a directory is below that, too.
LEMMA BelowBelow ==
  ASSUME NEW fs, NEW C, IsTree(fs, C), NEW dir \in Path, NEW p \in Below(fs, dir)
  PROVE  Below(fs, p) \subseteq Below(fs, dir)
<1>1. /\ p \in Path /\ IsPrefix(dir, p) /\ p # dir /\ Len(dir) \in Nat /\ Len(p) \in Nat
      /\ Len(dir) <= Len(p) /\ SubSeq(dir, 1, Len(dir)) = SubSeq(p, 1, Len(dir))
  BY LenProperties DEF Below, IsTree, IsStrictPrefix, IsPrefix, Path
<1>2. ASSUME NEW q \in Below(fs, p) PROVE q \in Below(fs, dir)
  <2>1. /\ q \in DOMAIN fs /\ q \in Path /\ q # p /\ Len(q) \in Nat
        /\ Len(p) <= Len(q) /\ SubSeq(p, 1, Len(p)) = SubSeq(q, 1, Len(p))
    BY LenProperties DEF Below, IsTree, IsStrictPrefix, IsPrefix, Path
  <2>2. \A i \in 1 .. Len(p) : p[i] = q[i]
    <3>1. \A i \in 1 .. Len(p) : p[i] \in Names /\ q[i] \in Names
      BY <1>1, <2>1, LenProperties DEF Path
    <3>2. \A i \in 1 .. Len(p) : SubSeq(p, 1, Len(p))[i] = p[i] /\ SubSeq(q, 1, Len(p))[i] = q[i]
      BY <1>1, <3>1, SubSeqProperties
    <3> QED BY <2>1, <3>2
  <2>3. SubSeq(p, 1, Len(dir)) = SubSeq(q, 1, Len(dir))
    <3>1. \A i \in 1 .. Len(dir) : p[i] \in Names /\ q[i] \in Names /\ p[i] = q[i]
      BY <1>1, <2>1, <2>2, LenProperties DEF Path
    <3>2. /\ SubSeq(p, 1, Len(dir)) \in Seq(Names) /\ Len(SubSeq(p, 1, Len(dir))) = Len(dir)
          /\ \A i \in 1 .. Len(dir) : SubSeq(p, 1, Len(dir))[i] = p[i]
      BY <1>1, <3>1, SubSeqProperties
    <3>3. /\ SubSeq(q, 1, Len(dir)) \in Seq(Names) /\ Len(SubSeq(q, 1, Len(dir))) = Len(dir)
          /\ \A i \in 1 .. Len(dir) : SubSeq(q, 1, Len(dir))[i] = q[i]
      BY <1>1, <3>1, SubSeqProperties
    <3> QED BY <3>1, <3>2, <3>3, SeqEqual
  <2>4. q # dir
    <3>1. Len(dir) < Len(p)
      <4>1. SubSeq(dir, 1, Len(dir)) = dir /\ SubSeq(p, 1, Len(p)) = p
        BY <1>1, SubSeqFull DEF Path
      <4> QED BY <1>1, <4>1
    <3> QED BY <1>1, <2>1, <3>1
  <2> QED BY <1>1, <2>1, <2>3, <2>4 DEF Below, IsStrictPrefix, IsPrefix
<1> QED BY <1>2

LEMMA LocalTyped ==
  ASSUME NEW j \in Jobs, UploadStands(j), job[j].sources # <<>>
  PROVE  Local(j) \in Path
<1>1. job[j].sources \in Seq(Path)
  BY ChoiceOf DEF UploadStands, Standing
<1> QED BY <1>1, EmptySeq, LenProperties DEF Local, Source

\* The file at work, here and there.
LEMMA UploadPaths ==
  ASSUME NEW j \in Jobs, UploadStands(j), work[j].phase \in {"base", "parent", "put", "send"}
  PROVE  /\ IsFile(disk, LocalFile(j))
         /\ RemoteFile(j) \in Path \ {<<>>} /\ Front(RemoteFile(j)) \in Path
<1>1. /\ Local(j) \in Path /\ IsTree(disk, Chunk)
      /\ work[j].files \in Seq(FilesBelow(disk, Local(j))) /\ work[j].place \in DOMAIN work[j].files
  BY LocalTyped DEF UploadStands, UploadTypeOK, Standing
<1>2. LocalFile(j) \in FilesBelow(disk, Local(j))
  BY <1>1, LenProperties DEF LocalFile
<1>3. Relative(Local(j), LocalFile(j)) \in Path \ {<<>>}
  BY <1>1, <1>2, BelowTyped DEF FilesBelow
<1>4. RemoteFile(j) \in Path \ {<<>>}
  BY <1>3, UploadAssumption, ConcatProperties, ConcatEqualIffEmpty
     DEF RemoteFile, RemotePath, Path
<1> QED BY <1>2, <1>4, FrontTyped DEF FilesBelow

LEMMA UploadEnds ==
  ASSUME NEW j \in Jobs, UploadStands(j), job' = job, job[j].sources # <<>>,
         IsTree(remote', Chunk), Grows(remote, remote'),
         DOMAIN work' = Jobs, \A k \in Jobs \ {j} : work'[k] = work[k],
         "phase" \in DOMAIN work'[j], work'[j].phase \in {"connect", "done", "failed"}
  PROVE  MovedRemote(j)
<1>1. UploadTypeOK(j)'
  BY DEF UploadTypeOK
<1> QED BY <1>1 DEF MovedRemote, JobTypeOK, UploadStands

LEMMA UploadGoes ==
  ASSUME NEW j \in Jobs, UploadStands(j), job' = job, job[j].sources # <<>>, remote' = remote,
         NEW phase \in {"connect", "done", "failed"}, Goto(j, phase)
  PROVE  MovedRemote(j)
<1>1. /\ DOMAIN work' = Jobs /\ \A k \in Jobs \ {j} : work'[k] = work[k]
      /\ "phase" \in DOMAIN work'[j] /\ work'[j].phase = phase
  BY GotoGives DEF UploadStands, Standing
<1>2. IsTree(remote', Chunk) /\ Grows(remote, remote')
  BY DEF UploadStands, Standing, Grows
<1> QED BY <1>1, <1>2, UploadEnds

LEMMA Connected ==
  ASSUME NEW j \in Jobs, UploadStands(j), Connect(j), job' = job PROVE MovedRemote(j)
<1>1. /\ work[j].phase = "connect" /\ disk' = disk /\ remote' = remote
      /\ DOMAIN work = Jobs /\ IsTree(remote, Chunk) /\ job[j].sources # <<>>
  BY DEF Connect, Is, Phase, UploadStands, UploadTypeOK, Standing
<1>2. CASE Fail(j)
  BY <1>1, <1>2, UploadGoes DEF Fail
<1>3. ASSUME NEW login \in LoginDirs,
             Put(j, [phase |-> "scan", login |-> login, files |-> <<>>,
                     stack |-> IF IsDir(disk, Local(j)) THEN <<Scan(disk, Local(j))>> ELSE <<{}>>])
      PROVE  MovedRemote(j)
  <2> DEFINE stack == IF IsDir(disk, Local(j)) THEN <<Scan(disk, Local(j))>> ELSE <<{}>>
             fields == [phase |-> "scan", login |-> login, files |-> <<>>, stack |-> stack]
  <2>1. stack \in Seq(SUBSET Below(disk, Local(j)))
    <3> DEFINE S == SUBSET Below(disk, Local(j))
    <3>1. Scan(disk, Local(j)) \in S /\ {} \in S
      BY DEF Scan, Children
    <3> HIDE DEF S
    <3>2. <<Scan(disk, Local(j))>> \in Seq(S) /\ <<{}>> \in Seq(S)
      BY <3>1
    <3> QED BY <3>2 DEF S
  <2>2. /\ DOMAIN fields = {"phase", "login", "files", "stack"} /\ fields["phase"] = "scan"
        /\ fields["login"] = login /\ fields["files"] = <<>> /\ fields["stack"] = stack
    OBVIOUS
  <2>3. Put(j, fields)
    BY <1>3
  <2> HIDE DEF stack, fields
  <2>4. /\ DOMAIN work' = Jobs /\ \A k \in Jobs \ {j} : work'[k] = work[k]
        /\ DOMAIN work'[j] = DOMAIN fields \cup DOMAIN work[j]
        /\ \A f \in DOMAIN fields : work'[j][f] = fields[f]
    BY <1>1, <2>3, PutGives
  <2>5. /\ work'[j].phase = "scan" /\ work'[j].login = login /\ work'[j].files = <<>>
        /\ work'[j].stack = stack
        /\ {"phase", "login", "files", "stack"} \subseteq DOMAIN work'[j]
    BY <2>2, <2>4
  <2>6. Local(j)' = Local(j) /\ <<>> \in Seq(FilesBelow(disk, Local(j)))
    BY EmptySeq DEF Local, Source
  <2>7. UploadTypeOK(j)'
    BY <1>1, <2>1, <2>5, <2>6 DEF UploadTypeOK
  <2> QED BY <1>1, <2>4, <2>5, <2>7 DEF MovedRemote, JobTypeOK, UploadStands, Grows
<1> QED BY <1>1, <1>2, <1>3 DEF Connect

\* While the folder is scanned, the stack and the list of files may change.
LEMMA ScanGoes ==
  ASSUME NEW j \in Jobs, UploadStands(j), work[j].phase = "scan", job' = job, disk' = disk,
         remote' = remote, NEW fields, Put(j, fields), DOMAIN fields \subseteq {"stack", "files"},
         "stack" \in DOMAIN fields => fields["stack"] \in Seq(SUBSET Below(disk, Local(j))),
         "files" \in DOMAIN fields => fields["files"] \in Seq(FilesBelow(disk, Local(j)))
  PROVE  MovedRemote(j)
<1>1. /\ DOMAIN work' = Jobs /\ \A k \in Jobs \ {j} : work'[k] = work[k]
      /\ DOMAIN work'[j] = DOMAIN fields \cup DOMAIN work[j]
      /\ \A f \in DOMAIN fields : work'[j][f] = fields[f]
      /\ \A f \in DOMAIN work[j] \ DOMAIN fields : work'[j][f] = work[j][f]
  BY PutGives DEF UploadStands, Standing
<1>2. /\ {"phase", "login", "files", "stack"} \subseteq DOMAIN work[j] /\ work[j].login \in LoginDirs
      /\ work[j].files \in Seq(FilesBelow(disk, Local(j)))
      /\ work[j].stack \in Seq(SUBSET Below(disk, Local(j)))
      /\ IsTree(remote, Chunk) /\ job[j].sources # <<>>
  BY DEF UploadStands, UploadTypeOK, Standing
<1>3. /\ work'[j].phase = "scan" /\ work'[j].login = work[j].login
      /\ work'[j].files \in Seq(FilesBelow(disk, Local(j)))
      /\ work'[j].stack \in Seq(SUBSET Below(disk, Local(j)))
      /\ {"phase", "login", "files", "stack"} \subseteq DOMAIN work'[j]
  <2>1. work'[j].phase = "scan" /\ work'[j].login = work[j].login
    BY <1>1, <1>2
  <2>2. work'[j].files \in Seq(FilesBelow(disk, Local(j)))
    BY <1>1, <1>2
  <2>3. work'[j].stack \in Seq(SUBSET Below(disk, Local(j)))
    BY <1>1, <1>2
  <2> QED BY <1>1, <1>2, <2>1, <2>2, <2>3
<1>4. Local(j)' = Local(j)
  BY DEF Local, Source
<1>5. UploadTypeOK(j)'
  BY <1>2, <1>3, <1>4 DEF UploadTypeOK
<1> QED BY <1>1, <1>2, <1>3, <1>5 DEF MovedRemote, JobTypeOK, UploadStands, Grows

LEMMA StackTyped ==
  ASSUME NEW j \in Jobs, UploadStands(j), work[j].phase = "scan", work[j].stack # <<>>
  PROVE  /\ Front(work[j].stack) \in Seq(SUBSET Below(disk, Local(j)))
         /\ Last(work[j].stack) \in SUBSET Below(disk, Local(j))
<1>1. work[j].stack \in Seq(SUBSET Below(disk, Local(j)))
  BY DEF UploadStands, UploadTypeOK
<1>2. /\ Front(work[j].stack) \in Seq(SUBSET Below(disk, Local(j)))
      /\ Len(work[j].stack) \in Nat \ {0} /\ Last(work[j].stack) = work[j].stack[Len(work[j].stack)]
  BY <1>1, FrontOf
<1>3. Last(work[j].stack) \in SUBSET Below(disk, Local(j))
  <2>1. Len(work[j].stack) \in 1 .. Len(work[j].stack)
    BY <1>2
  <2> QED BY <1>1, <1>2, <2>1, ElementOfSeq
<1> QED BY <1>2, <1>3

LEMMA EntryScanned ==
  ASSUME NEW j \in Jobs, UploadStands(j), ScanEntry(j), job' = job PROVE MovedRemote(j)
<1>1. /\ work[j].phase = "scan" /\ work[j].stack # <<>> /\ disk' = disk /\ remote' = remote
      /\ Local(j) \in Path /\ IsTree(disk, Chunk) /\ job[j].sources # <<>>
      /\ work[j].files \in Seq(FilesBelow(disk, Local(j)))
  BY LocalTyped DEF ScanEntry, Is, Phase, UploadStands, UploadTypeOK, Standing
<1>2. CASE Fail(j)
  BY <1>1, <1>2, UploadGoes DEF Fail
<1>3. ASSUME NEW path \in Last(work[j].stack),
             LET left == Last(work[j].stack) \ {path}
                 stack == Append(Front(work[j].stack), left)
             IN IF IsDir(disk, path)
                  THEN Put(j, [stack |-> Append(stack, Scan(disk, path))])
                  ELSE Put(j, [stack |-> stack, files |-> Append(work[j].files, path)])
      PROVE  MovedRemote(j)
  <2> DEFINE B == Below(disk, Local(j))
             stack == Append(Front(work[j].stack), Last(work[j].stack) \ {path})
             deeper == Append(stack, Scan(disk, path))
  <2>1. path \in B /\ stack \in Seq(SUBSET B)
    <3>1. Front(work[j].stack) \in Seq(SUBSET B) /\ Last(work[j].stack) \in SUBSET B
      BY <1>1, StackTyped
    <3>2. Last(work[j].stack) \ {path} \in SUBSET B
      BY <3>1
    <3> HIDE DEF B
    <3> QED BY <3>1, <3>2, AppendProperties
  <2> HIDE DEF stack
  <2>2. CASE IsDir(disk, path)
    <3>1. deeper \in Seq(SUBSET B)
      <4>1. Scan(disk, path) \in SUBSET B
        BY <1>1, <2>1, BelowBelow DEF Scan, Children
      <4> HIDE DEF B
      <4> QED BY <2>1, <4>1, AppendProperties
    <3> DEFINE fields == [stack |-> deeper]
    <3>2. Put(j, fields) /\ DOMAIN fields = {"stack"} /\ fields["stack"] = deeper
      BY <1>3, <2>2 DEF stack
    <3> HIDE DEF fields, deeper
    <3> QED BY <1>1, <3>1, <3>2, ScanGoes
  <2>3. CASE ~IsDir(disk, path)
    <3> DEFINE files == Append(work[j].files, path)
               fields == [stack |-> stack, files |-> files]
    <3>1. path \in FilesBelow(disk, Local(j))
      <4>1. path \in DOMAIN disk /\ disk[path] \in {Dir} \cup [kind : {"file"}, content : Seq(Chunk)]
        BY <1>1, <2>1 DEF Below, IsTree
      <4>2. IsFile(disk, path)
        BY <2>3, <4>1 DEF IsDir, IsFile, Exists, Dir
      <4> QED BY <2>1, <4>2 DEF FilesBelow
    <3>2. files \in Seq(FilesBelow(disk, Local(j)))
      BY <1>1, <3>1, AppendProperties
    <3>3. /\ Put(j, fields) /\ DOMAIN fields = {"stack", "files"}
          /\ fields["stack"] = stack /\ fields["files"] = files
      BY <1>3, <2>3 DEF stack
    <3> HIDE DEF fields, files
    <3> QED BY <1>1, <2>1, <3>2, <3>3, ScanGoes
  <2> QED BY <2>2, <2>3
<1> QED BY <1>1, <1>2, <1>3 DEF ScanEntry

LEMMA DirLeft ==
  ASSUME NEW j \in Jobs, UploadStands(j), LeaveDir(j), job' = job PROVE MovedRemote(j)
<1> DEFINE fields == [stack |-> Front(work[j].stack)]
<1>1. /\ work[j].phase = "scan" /\ work[j].stack # <<>> /\ disk' = disk /\ remote' = remote
      /\ Put(j, fields)
  BY DEF LeaveDir, Is, Phase
<1>2. DOMAIN fields = {"stack"} /\ fields["stack"] = Front(work[j].stack)
  OBVIOUS
<1>3. fields["stack"] \in Seq(SUBSET Below(disk, Local(j)))
  BY <1>1, <1>2, StackTyped
<1> HIDE DEF fields
<1> QED BY <1>1, <1>2, <1>3, ScanGoes

\* From the end of the scan to the end of the job, the files and the login stay.
LEMMA UploadSame ==
  ASSUME NEW j \in Jobs, UploadStands(j), work[j].phase \in {"scan", "base", "parent", "put", "send"},
         job' = job, disk' = disk, NEW fields, Put(j, fields),
         DOMAIN fields \subseteq {"phase", "place", "done"}
  PROVE  /\ DOMAIN work' = Jobs /\ \A k \in Jobs \ {j} : work'[k] = work[k]
         /\ \A f \in DOMAIN fields : work'[j][f] = fields[f]
         /\ \A f \in DOMAIN work[j] \ DOMAIN fields : work'[j][f] = work[j][f]
         /\ {"phase", "login", "files"} \cup DOMAIN fields \cup DOMAIN work[j] \subseteq DOMAIN work'[j]
         /\ work'[j].login = work[j].login /\ work[j].login \in LoginDirs
         /\ work'[j].files = work[j].files /\ work[j].files \in Seq(FilesBelow(disk, Local(j)))
         /\ Local(j)' = Local(j) /\ job[j].sources # <<>>
         /\ IsTree(remote, Chunk) /\ IsTree(disk, Chunk)
<1>1. /\ DOMAIN work' = Jobs /\ \A k \in Jobs \ {j} : work'[k] = work[k]
      /\ DOMAIN work'[j] = DOMAIN fields \cup DOMAIN work[j]
      /\ \A f \in DOMAIN fields : work'[j][f] = fields[f]
      /\ \A f \in DOMAIN work[j] \ DOMAIN fields : work'[j][f] = work[j][f]
  BY PutGives DEF UploadStands, Standing
<1>2. /\ {"phase", "login", "files"} \subseteq DOMAIN work[j] /\ work[j].login \in LoginDirs
      /\ work[j].files \in Seq(FilesBelow(disk, Local(j)))
      /\ IsTree(remote, Chunk) /\ IsTree(disk, Chunk) /\ job[j].sources # <<>>
  BY DEF UploadStands, UploadTypeOK, Standing
<1>3. work'[j].login = work[j].login /\ work'[j].files = work[j].files
  BY <1>1, <1>2
<1>4. Local(j)' = Local(j)
  BY DEF Local, Source
<1> QED BY <1>1, <1>2, <1>3, <1>4

\* A goto among the phases in which a file is at work.
LEMMA UploadGoesOn ==
  ASSUME NEW j \in Jobs, UploadStands(j), job' = job, disk' = disk,
         work[j].phase \in {"base", "parent", "put"}, NEW phase \in {"parent", "put"},
         Goto(j, phase), IsTree(remote', Chunk), Grows(remote, remote')
  PROVE  MovedRemote(j)
<1> DEFINE fields == [phase |-> phase]
<1>1. Put(j, fields) /\ DOMAIN fields = {"phase"} /\ fields["phase"] = phase
  BY DEF Goto
<1> HIDE DEF fields
<1>2. /\ DOMAIN work' = Jobs /\ \A k \in Jobs \ {j} : work'[k] = work[k]
      /\ \A f \in DOMAIN fields : work'[j][f] = fields[f]
      /\ \A f \in DOMAIN work[j] \ DOMAIN fields : work'[j][f] = work[j][f]
      /\ {"phase", "login", "files"} \cup DOMAIN fields \cup DOMAIN work[j] \subseteq DOMAIN work'[j]
      /\ work'[j].login = work[j].login /\ work[j].login \in LoginDirs
      /\ work'[j].files = work[j].files /\ work[j].files \in Seq(FilesBelow(disk, Local(j)))
      /\ Local(j)' = Local(j) /\ job[j].sources # <<>>
  BY <1>1, UploadSame
<1>3. "place" \in DOMAIN work[j] /\ work[j].place \in DOMAIN work[j].files
  BY DEF UploadStands, UploadTypeOK
<1>4. work'[j].phase = phase /\ work'[j].place = work[j].place /\ {"phase", "place"} \subseteq DOMAIN work'[j]
  BY <1>1, <1>2, <1>3
<1>5. UploadTypeOK(j)'
  BY <1>2, <1>3, <1>4 DEF UploadTypeOK
<1> QED BY <1>2, <1>4, <1>5 DEF MovedRemote, JobTypeOK, UploadStands

LEMMA ScanEnded ==
  ASSUME NEW j \in Jobs, UploadStands(j), ScanEnds(j), job' = job PROVE MovedRemote(j)
<1> DEFINE fields == [phase |-> "base", place |-> 1]
<1>1. /\ work[j].phase = "scan" /\ disk' = disk /\ remote' = remote /\ job[j].sources # <<>>
  BY DEF ScanEnds, Is, Phase, UploadStands, UploadTypeOK
<1>2. CASE Goto(j, "done")
  BY <1>1, <1>2, UploadGoes
<1>3. CASE work[j].files # <<>> /\ Put(j, fields)
  <2>1. DOMAIN fields = {"phase", "place"} /\ fields["phase"] = "base" /\ fields["place"] = 1
    OBVIOUS
  <2> HIDE DEF fields
  <2>2. /\ DOMAIN work' = Jobs /\ \A k \in Jobs \ {j} : work'[k] = work[k]
        /\ \A f \in DOMAIN fields : work'[j][f] = fields[f]
        /\ {"phase", "login", "files"} \cup DOMAIN fields \cup DOMAIN work[j] \subseteq DOMAIN work'[j]
        /\ work'[j].login = work[j].login /\ work[j].login \in LoginDirs
        /\ work'[j].files = work[j].files /\ work[j].files \in Seq(FilesBelow(disk, Local(j)))
        /\ Local(j)' = Local(j) /\ IsTree(remote, Chunk)
    BY <1>1, <1>3, <2>1, UploadSame
  <2>3. 1 \in DOMAIN work[j].files
    BY <1>3, <2>2, EmptySeq, LenProperties
  <2>4. work'[j].phase = "base" /\ work'[j].place = 1 /\ {"phase", "place"} \subseteq DOMAIN work'[j]
    BY <2>1, <2>2
  <2>5. UploadTypeOK(j)'
    BY <1>1, <2>2, <2>3, <2>4 DEF UploadTypeOK
  <2> QED BY <1>1, <2>2, <2>4, <2>5 DEF MovedRemote, JobTypeOK, UploadStands, Grows
<1> QED BY <1>1, <1>2, <1>3 DEF ScanEnds

\* The directories that are made below the login directory, as many as are.
LEMMA RemoteDirsMade ==
  ASSUME NEW j \in Jobs, UploadStands(j), work[j].phase \in {"base", "parent"}, NEW path \in Path,
         MakeRemoteDirs(j, path)
  PROVE  IsTree(remote', Chunk) /\ Grows(remote, remote')
<1>1. PICK count \in 0 .. Len(path) :
        LET made == work[j].login \o SubSeq(path, 1, count)
        IN CanMakeDirs(remote, made) /\ remote' = MakeDirs(remote, made)
  BY DEF MakeRemoteDirs
<1>2. work[j].login \in Path /\ IsTree(remote, Chunk)
  BY UploadAssumption DEF UploadStands, UploadTypeOK, Standing
<1>3. SubSeq(path, 1, count) \in Path
  <2>1. \A i \in 1 .. count : path[i] \in Names
    BY LenProperties DEF Path
  <2>2. count \in Int
    BY LenProperties DEF Path
  <2> QED BY <2>1, <2>2, SubSeqProperties DEF Path
<1>4. work[j].login \o SubSeq(path, 1, count) \in Path
  BY <1>2, <1>3, ConcatProperties DEF Path
<1> QED BY <1>1, <1>2, <1>4, MakesDirs

LEMMA BaseMade ==
  ASSUME NEW j \in Jobs, UploadStands(j), MakeBase(j), job' = job PROVE MovedRemote(j)
<1>1. /\ work[j].phase = "base" /\ disk' = disk /\ MakeRemoteDirs(j, Base) /\ Goto(j, "parent")
  BY DEF MakeBase, Is, Phase
<1> QED BY <1>1, RemoteDirsMade, UploadGoesOn, UploadAssumption

LEMMA ParentMade ==
  ASSUME NEW j \in Jobs, UploadStands(j), MakeParent(j), job' = job PROVE MovedRemote(j)
<1>1. /\ work[j].phase = "parent" /\ disk' = disk /\ Goto(j, "put")
      /\ MakeRemoteDirs(j, Front(RemoteFile(j)))
  BY DEF MakeParent, Is, Phase
<1>2. Front(RemoteFile(j)) \in Path
  BY <1>1, UploadPaths
<1> QED BY <1>1, <1>2, RemoteDirsMade, UploadGoesOn

\* While a file is sent, it is on the console.
LEMMA UploadSends ==
  ASSUME NEW j \in Jobs, UploadStands(j), work[j].phase \in {"put", "send"}, job' = job,
         disk' = disk, NEW fields, Put(j, fields), DOMAIN fields \subseteq {"phase", "done"},
         "done" \in DOMAIN fields, fields["done"] \in Nat,
         IF "phase" \in DOMAIN fields THEN fields["phase"] = "send" ELSE work[j].phase = "send",
         IsTree(remote', Chunk), Grows(remote, remote'), IsFile(remote', RemoteFile(j))
  PROVE  MovedRemote(j)
<1>1. /\ DOMAIN work' = Jobs /\ \A k \in Jobs \ {j} : work'[k] = work[k]
      /\ \A f \in DOMAIN fields : work'[j][f] = fields[f]
      /\ \A f \in DOMAIN work[j] \ DOMAIN fields : work'[j][f] = work[j][f]
      /\ {"phase", "login", "files"} \cup DOMAIN fields \cup DOMAIN work[j] \subseteq DOMAIN work'[j]
      /\ work'[j].login = work[j].login /\ work[j].login \in LoginDirs
      /\ work'[j].files = work[j].files /\ work[j].files \in Seq(FilesBelow(disk, Local(j)))
      /\ Local(j)' = Local(j) /\ job[j].sources # <<>>
  BY UploadSame
<1>2. "place" \in DOMAIN work[j] /\ work[j].place \in DOMAIN work[j].files /\ "phase" \in DOMAIN work[j]
  BY DEF UploadStands, UploadTypeOK, Standing
<1>3. /\ work'[j].phase = "send" /\ work'[j].done \in Nat /\ work'[j].place = work[j].place
      /\ {"phase", "place", "done"} \subseteq DOMAIN work'[j]
  BY <1>1, <1>2
<1>4. RemoteFile(j)' = RemoteFile(j)
  BY <1>1, <1>3 DEF RemoteFile, RemotePath, LocalFile
<1>5. UploadTypeOK(j)'
  BY <1>1, <1>2, <1>3, <1>4 DEF UploadTypeOK
<1> QED BY <1>1, <1>3, <1>5 DEF MovedRemote, JobTypeOK, UploadStands

LEMMA PutStarted ==
  ASSUME NEW j \in Jobs, UploadStands(j), StartPut(j), job' = job PROVE MovedRemote(j)
<1> DEFINE fields == [phase |-> "send", done |-> 0]
<1>1. /\ work[j].phase = "put" /\ disk' = disk /\ job[j].sources # <<>> /\ IsTree(remote, Chunk)
      /\ RemoteFile(j) \in Path
  BY UploadPaths DEF StartPut, Is, Phase, UploadStands, UploadTypeOK, Standing
<1>2. CASE Fail(j) /\ remote' = remote
  BY <1>1, <1>2, UploadGoes DEF Fail
<1>3. CASE /\ CanCreate(remote, RemoteFile(j)) /\ remote' = Create(remote, RemoteFile(j))
           /\ Put(j, fields)
  <2>1. IsTree(remote', Chunk) /\ Grows(remote, remote') /\ IsFile(remote', RemoteFile(j))
    BY <1>1, <1>3, CreatesFile
  <2>2. DOMAIN fields = {"phase", "done"} /\ fields["phase"] = "send" /\ fields["done"] = 0
    OBVIOUS
  <2> HIDE DEF fields
  <2> QED BY <1>1, <1>3, <2>1, <2>2, UploadSends
<1> QED BY <1>1, <1>2, <1>3 DEF StartPut

LEMMA ChunkSent ==
  ASSUME NEW j \in Jobs, UploadStands(j), SendChunk(j), job' = job PROVE MovedRemote(j)
<1> DEFINE n == work[j].done + 1
           fields == [done |-> n]
<1>1. /\ work[j].phase = "send" /\ disk' = disk /\ job[j].sources # <<>>
      /\ IsTree(remote, Chunk) /\ IsTree(disk, Chunk)
      /\ work[j].done \in Nat /\ IsFile(remote, RemoteFile(j))
  BY DEF SendChunk, Is, Phase, UploadStands, UploadTypeOK, Standing
<1>2. CASE Fail(j) /\ remote' = remote
  BY <1>1, <1>2, UploadGoes DEF Fail
<1>3. CASE /\ remote' = WriteChunk(remote, RemoteFile(j), n, ChunkAt(disk, LocalFile(j), n))
           /\ Put(j, fields)
  <2>1. n \in Nat \ {0} /\ n \in Nat
    BY <1>1
  <2>2. DOMAIN fields = {"done"} /\ fields["done"] = n
    OBVIOUS
  <2> HIDE DEF n, fields
  <2>3. Hole \in Chunk
    BY ToolsAssumption
  <2>4. ChunkAt(disk, LocalFile(j), n) \in Chunk
    <3>1. IsFile(disk, LocalFile(j))
      BY <1>1, UploadPaths
    <3> QED BY <1>1, <2>1, <2>3, <3>1, ChunkTyped
  <2>5. IsTree(remote', Chunk) /\ Grows(remote, remote')
    BY <1>1, <1>3, <2>1, <2>3, <2>4, WritesTree
  <2>6. IsFile(remote', RemoteFile(j))
    BY <1>1, <2>5, GrowsKeeps
  <2> QED BY <1>1, <1>3, <2>1, <2>2, <2>5, <2>6, UploadSends
<1> QED BY <1>1, <1>2, <1>3 DEF SendChunk

LEMMA PutEnded ==
  ASSUME NEW j \in Jobs, UploadStands(j), EndPut(j), job' = job PROVE MovedRemote(j)
<1> DEFINE fields == [phase |-> IF work[j].place < Len(work[j].files) THEN "parent" ELSE "done",
                      place |-> work[j].place + 1]
<1>1. /\ work[j].phase = "send" /\ disk' = disk /\ remote' = remote /\ job[j].sources # <<>>
  BY DEF EndPut, Is, Phase, UploadStands, UploadTypeOK
<1>2. CASE Fail(j)
  BY <1>1, <1>2, UploadGoes DEF Fail
<1>3. CASE Put(j, fields)
  <2>1. /\ DOMAIN fields = {"phase", "place"} /\ fields["place"] = work[j].place + 1
        /\ fields["phase"] = IF work[j].place < Len(work[j].files) THEN "parent" ELSE "done"
    OBVIOUS
  <2> HIDE DEF fields
  <2>2. /\ DOMAIN work' = Jobs /\ \A k \in Jobs \ {j} : work'[k] = work[k]
        /\ \A f \in DOMAIN fields : work'[j][f] = fields[f]
        /\ {"phase", "login", "files"} \cup DOMAIN fields \cup DOMAIN work[j] \subseteq DOMAIN work'[j]
        /\ work'[j].login = work[j].login /\ work[j].login \in LoginDirs
        /\ work'[j].files = work[j].files /\ work[j].files \in Seq(FilesBelow(disk, Local(j)))
        /\ Local(j)' = Local(j) /\ IsTree(remote, Chunk)
    BY <1>1, <1>3, <2>1, UploadSame
  <2>3. /\ work'[j].phase = IF work[j].place < Len(work[j].files) THEN "parent" ELSE "done"
        /\ work'[j].place = work[j].place + 1 /\ {"phase", "place"} \subseteq DOMAIN work'[j]
    BY <2>1, <2>2
  <2>4. work[j].place < Len(work[j].files) => work[j].place + 1 \in DOMAIN work[j].files
    <3>1. DOMAIN work[j].files = 1 .. Len(work[j].files) /\ Len(work[j].files) \in Nat
      BY <2>2, LenProperties
    <3>2. work[j].place \in DOMAIN work[j].files
      BY <1>1 DEF UploadStands, UploadTypeOK
    <3> QED BY <3>1, <3>2
  <2>5. UploadTypeOK(j)'
    BY <1>1, <2>2, <2>3, <2>4 DEF UploadTypeOK
  <2> QED BY <1>1, <2>2, <2>3, <2>5 DEF MovedRemote, JobTypeOK, UploadStands, Grows
<1> QED BY <1>1, <1>2, <1>3 DEF EndPut

LEMMA UploadMoves ==
  ASSUME NEW j \in Jobs, UploadStands(j), UploadStep(j) \/ ClickUpload(j), job' = job
  PROVE  disk' = disk /\ MovedRemote(j)
<1>1. CASE ClickUpload(j)
  BY <1>1, UploadGoes DEF ClickUpload
<1>2. CASE UploadStep(j)
  <2>1. MovedRemote(j)
    BY <1>2, Connected, EntryScanned, DirLeft, ScanEnded, BaseMade, ParentMade, PutStarted,
       ChunkSent, PutEnded DEF UploadStep
  <2>2. disk' = disk
    BY <1>2 DEF UploadStep, Connect, ScanEntry, LeaveDir, ScanEnds, MakeBase, MakeParent, StartPut,
       SendChunk, EndPut
  <2> QED BY <2>1, <2>2
<1> QED BY <1>1, <1>2

-----------------------------------------------------------------------------
(* The steps of the extraction. *)

ExtractStands(j) == Standing /\ job[j].kind = "extract" /\ ExtractTypeOK(j)

\* What a directory of a volume lists.
Thing ==
  {e \in [name : Names, kind : {"file", "dir"}, first : Nat] :
    e.kind = "file" => e.first \in DOMAIN Content}

LEMMA VolumeTyped ==
  ASSUME NEW volume, IsVolume(volume) PROVE LeadsOn(volume, Thing) /\ AreNames(Names)
<1>1. AreNames(Names)
  BY ToolsAssumption DEF AreNames
<1>2. ASSUME NEW d \in DOMAIN volume.dirs
      PROVE  /\ volume.dirs[d].entries \in Seq(Thing)
             /\ \A i \in DOMAIN volume.dirs[d].entries :
                  volume.dirs[d].entries[i].kind = "dir"
                    => volume.dirs[d].entries[i].first \in DOMAIN volume.dirs
  <2> DEFINE s == volume.dirs[d].entries
             T == [name : Names, kind : {"file", "dir"}, first : Nat]
  <2>1. /\ s \in Seq(T)
        /\ \A i \in DOMAIN s : s[i].first \in IF s[i].kind = "dir" THEN DOMAIN volume.dirs
                                              ELSE DOMAIN Content
    BY DEF IsVolume
  <2> HIDE DEF s
  <2>2. Len(s) \in Nat /\ DOMAIN s = 1 .. Len(s) /\ s = [i \in 1 .. Len(s) |-> s[i]]
        /\ \A i \in 1 .. Len(s) : s[i] \in T
    BY <2>1, LenProperties
  <2>3. \A i \in 1 .. Len(s) : s[i] \in Thing
    BY <2>1, <2>2 DEF Thing
  <2>4. s \in Seq(Thing)
    BY <2>2, <2>3
  <2> QED BY <2>1, <2>4 DEF s
<1>3. volume.root \in DOMAIN volume.dirs
  BY DEF IsVolume
<1> QED BY <1>1, <1>2, <1>3 DEF LeadsOn

\* What the volume answers for an absolute path.
LEMMA AnswersTyped ==
  ASSUME NEW j \in Jobs, Standing, job[j].kind = "extract", NEW p \in AbsolutePaths(Names)
  PROVE  /\ AskVolume(j, "open", p).kind = "entry"
              => AskVolume(j, "open", p).entry.first \in DOMAIN Content
         /\ AskVolume(j, "list", p).kind = "list"
              => AskVolume(j, "list", p).entries \in Seq(Thing)
<1> DEFINE volume == job[j].volume
           found == Resolve(volume, p)
<1>1. LeadsOn(volume, Thing) /\ AreNames(Names)
  BY ChoiceOf, VolumeTyped DEF Standing
<1>2. found \in Outcome(volume, Thing)
  <2> HIDE DEF volume
  <2> QED BY <1>1, ResolveTyped
<1>3. \/ \E e : found = Error(e)
      \/ \E e \in Thing \cup {RootEntry(volume)} :
           found = Found(e) /\ (e.kind = "dir" => e.first \in DOMAIN volume.dirs)
  BY <1>2 DEF Outcome
<1>4. ASSUME found.kind # "error"
      PROVE  /\ found.entry.kind # "dir" => found.entry \in Thing
             /\ found.entry.kind = "dir" => found.entry.first \in DOMAIN volume.dirs
  <2> HIDE DEF volume, found
  <2>1. PICK e \in Thing \cup {RootEntry(volume)} :
          found = Found(e) /\ (e.kind = "dir" => e.first \in DOMAIN volume.dirs)
    <3>1. \A e : Error(e).kind = "error"
      BY DEF Error
    <3> QED BY <1>3, <1>4, <3>1
  <2>2. found.entry = e
    BY <2>1 DEF Found
  <2>3. RootEntry(volume).kind = "dir"
    BY DEF RootEntry
  <2> QED BY <2>1, <2>2, <2>3
<1>5. ASSUME AskVolume(j, "open", p).kind = "entry"
      PROVE  AskVolume(j, "open", p).entry.first \in DOMAIN Content
  <2>1. found.kind = "error" => AskVolume(j, "open", p) = found
    BY DEF AskVolume, Answer
  <2>2. found.kind # "error"
    BY <1>5, <2>1
  <2>3. AskVolume(j, "open", p) =
          IF found.entry.kind = "file" THEN found ELSE Error("IsADirectory")
    BY <2>2 DEF AskVolume, Answer
  <2>4. found.entry.kind = "file"
    BY <1>5, <2>3 DEF Error
  <2>5. found.entry \in Thing
    BY <1>4, <2>2, <2>4
  <2> QED BY <2>3, <2>4, <2>5 DEF Thing
<1>6. ASSUME AskVolume(j, "list", p).kind = "list"
      PROVE  AskVolume(j, "list", p).entries \in Seq(Thing)
  <2>1. found.kind = "error" => AskVolume(j, "list", p) = found
    BY DEF AskVolume, Answer
  <2>2. found.kind # "error"
    BY <1>6, <2>1
  <2>3. AskVolume(j, "list", p) =
          IF found.entry.kind = "dir" THEN Listed(ShownIn(volume, found.entry.first))
          ELSE Error("NotADirectory")
    BY <2>2 DEF AskVolume, Answer
  <2>4. found.entry.kind = "dir"
    BY <1>6, <2>3 DEF Error
  <2> DEFINE d == found.entry.first
             S == {e \in ToSet(volume.dirs[d].entries) : e.kind \in {"file", "dir"}}
  <2>5. d \in DOMAIN volume.dirs
    BY <1>4, <2>2, <2>4
  <2>6. ShownIn(volume, d) \in Seq(S)
    <3> HIDE DEF volume, d
    <3> QED BY <1>1, <2>5, ShownTyped
  <2>7. S \subseteq Thing
    BY <1>1, <2>5, LenProperties DEF LeadsOn, ToSet
  <2>8. ShownIn(volume, d) \in Seq(Thing)
    <3> HIDE DEF S
    <3> QED BY <2>6, <2>7, SeqMonotonic
  <2> QED BY <2>3, <2>4, <2>8 DEF Listed
<1> QED BY <1>5, <1>6

\* Where a file goes.
LEMMA LocalNameTyped ==
  ASSUME NEW j \in Jobs, Standing, job[j].kind = "extract", NEW p \in AbsolutePaths(Names)
  PROVE  LocalName(j, p) \in Path /\ Front(LocalName(j, p)) \in Path
<1> DEFINE S == ToSet(p) \ {Root}
<1>1. p \in Seq(Names \cup {Root})
  BY DEF AbsolutePaths
<1>2. Only(p, S) \in Path
  <2>1. Only(p, S) \in Seq((Names \cup {Root}) \cap S)
    <3> HIDE DEF S
    <3> QED BY <1>1, OnlyTyped
  <2>2. (Names \cup {Root}) \cap S \subseteq Names
    OBVIOUS
  <2> HIDE DEF S
  <2> QED BY <2>1, <2>2, SeqMonotonic DEF Path
<1>3. Dest(j) \in Path
  BY ChoiceOf DEF Standing
<1> DEFINE local == LocalName(j, p)
<1>4. local \in Seq(Names)
  <2> HIDE DEF S
  <2> QED BY <1>2, <1>3, ConcatProperties DEF LocalName, Path, S
<1> HIDE DEF local
<1>5. Front(local) \in Seq(Names)
  <2>1. local = <<>> => Front(local) = <<>>
    BY SubSeqEmpty, EmptySeq DEF Front
  <2> QED BY <1>4, <2>1, EmptySeq, FrontOf
<1> QED BY <1>4, <1>5 DEF local, Path

\* Whatever is put in place of the phase alone, and the end of an extraction.
LEMMA ExtractEnds ==
  ASSUME NEW j \in Jobs, ExtractStands(j), job' = job, IsTree(disk', Chunk), Grows(disk, disk'),
         NEW phase \in {"done", "failed"}, Goto(j, phase)
  PROVE  Moved(j)
<1>1. /\ DOMAIN work' = Jobs /\ \A k \in Jobs \ {j} : work'[k] = work[k]
      /\ "phase" \in DOMAIN work'[j] /\ work'[j].phase = phase
  BY GotoGives DEF ExtractStands, Standing
<1>2. ExtractTypeOK(j)'
  BY <1>1 DEF ExtractTypeOK
<1> QED BY <1>1, <1>2 DEF Moved, JobTypeOK, ExtractStands

LEMMA ExtractFails ==
  ASSUME NEW j \in Jobs, ExtractStands(j), job' = job, Fail(j),
         IsTree(disk', Chunk), Grows(disk, disk')
  PROVE  Moved(j)
BY ExtractEnds DEF Fail

LEMMA ExtractStays ==
  ASSUME NEW j \in Jobs, ExtractStands(j), disk' = disk
  PROVE  IsTree(disk', Chunk) /\ Grows(disk, disk')
BY DEF ExtractStands, Standing, Grows

LEMMA ExtractCalled ==
  ASSUME NEW j \in Jobs, ExtractStands(j), CallExtract(j), job' = job PROVE Moved(j)
<1> DEFINE fields == [phase |-> "open", cut |-> FALSE, files |-> <<>>, dirs |-> <<Source(j)>>]
<1>1. Put(j, fields) /\ disk' = disk
  BY DEF CallExtract, Source
<1>2. /\ DOMAIN fields = {"phase", "cut", "files", "dirs"} /\ fields["phase"] = "open"
      /\ fields["cut"] = FALSE /\ fields["files"] = <<>> /\ fields["dirs"] = <<Source(j)>>
  OBVIOUS
<1> HIDE DEF fields
<1>3. /\ DOMAIN work' = Jobs /\ \A k \in Jobs \ {j} : work'[k] = work[k]
      /\ DOMAIN work'[j] = DOMAIN fields \cup DOMAIN work[j]
      /\ \A f \in DOMAIN fields : work'[j][f] = fields[f]
  BY <1>1, PutGives DEF ExtractStands, Standing
<1>4. /\ work'[j].phase = "open" /\ work'[j].cut = FALSE /\ work'[j].files = <<>>
      /\ work'[j].dirs = <<Source(j)>> /\ {"phase", "cut", "files", "dirs"} \subseteq DOMAIN work'[j]
  BY <1>2, <1>3
<1>5. Source(j) \in AbsolutePaths(Names)
  <2>1. job[j].sources \in Seq(AbsolutePaths(Names)) \ {<<>>}
    BY ChoiceOf DEF ExtractStands, Standing
  <2> QED BY <2>1, EmptySeq, LenProperties DEF Source
<1>6. <<Source(j)>> \in Seq(AbsolutePaths(Names)) /\ <<>> \in Seq(AbsolutePaths(Names))
  BY <1>5
<1>7. ExtractTypeOK(j)'
  BY <1>4, <1>6 DEF ExtractTypeOK
<1> QED BY <1>1, <1>3, <1>4, <1>7, ExtractStays DEF Moved, JobTypeOK, ExtractStands

LEMMA VolumeOpened ==
  ASSUME NEW j \in Jobs, ExtractStands(j), OpenVolume(j), job' = job PROVE Moved(j)
<1>1. /\ work[j].phase = "open" /\ disk' = disk /\ (Fail(j) \/ Goto(j, "list"))
  BY DEF OpenVolume, Is, Phase
<1>2. IsTree(disk', Chunk) /\ Grows(disk, disk')
  BY <1>1, ExtractStays
<1>3. CASE Fail(j)
  BY <1>2, <1>3, ExtractFails
<1>4. CASE Goto(j, "list")
  <2>1. /\ DOMAIN work' = Jobs /\ \A k \in Jobs \ {j} : work'[k] = work[k]
        /\ DOMAIN work'[j] = DOMAIN work[j] /\ work'[j].phase = "list"
        /\ \A f \in DOMAIN work[j] \ {"phase"} : work'[j][f] = work[j][f]
        /\ "phase" \in DOMAIN work[j]
    BY <1>4, GotoGives DEF ExtractStands, Standing
  <2>2. /\ {"cut", "files", "dirs"} \subseteq DOMAIN work[j] /\ work[j].cut \in BOOLEAN
        /\ work[j].files \in Seq(AbsolutePaths(Names)) /\ work[j].dirs \in Seq(AbsolutePaths(Names))
    BY <1>1 DEF ExtractStands, ExtractTypeOK
  <2>3. /\ work'[j].cut = work[j].cut /\ work'[j].files = work[j].files
        /\ work'[j].dirs = work[j].dirs
    BY <2>1, <2>2
  <2>4. ExtractTypeOK(j)'
    BY <2>1, <2>2, <2>3 DEF ExtractTypeOK
  <2> QED BY <1>2, <2>1, <2>4 DEF Moved, JobTypeOK, ExtractStands
<1> QED BY <1>1, <1>3, <1>4

\* The paths of entries of a directory.
LEMMA ShownPaths ==
  ASSUME NEW path \in AbsolutePaths(Names), NEW entries \in Seq(Thing), NEW S
  PROVE  LET shown == Only(entries, S)
         IN [i \in DOMAIN shown |-> Append(path, shown[i].name)] \in Seq(AbsolutePaths(Names))
<1> DEFINE shown == Only(entries, S)
           paths == [i \in DOMAIN shown |-> Append(path, shown[i].name)]
<1>1. shown \in Seq(Thing)
  <2>1. shown \in Seq(Thing \cap S)
    BY OnlyTyped
  <2> HIDE DEF shown
  <2> QED BY <2>1, SeqMonotonic
<1> HIDE DEF shown
<1>2. Len(shown) \in Nat /\ DOMAIN shown = 1 .. Len(shown)
      /\ \A i \in 1 .. Len(shown) : shown[i].name \in Names
  BY <1>1, LenProperties DEF Thing
<1>3. \A i \in 1 .. Len(shown) : paths[i] \in AbsolutePaths(Names)
  BY <1>2, LongerPath
<1>4. paths \in Seq(AbsolutePaths(Names))
  <2>1. paths = [i \in 1 .. Len(shown) |-> paths[i]]
    BY <1>2
  <2> HIDE DEF paths
  <2> QED BY <1>2, <1>3, <2>1
<1> QED BY <1>4 DEF shown

LEMMA DirListed ==
  ASSUME NEW j \in Jobs, ExtractStands(j), ListDir(j), job' = job PROVE Moved(j)
<1> DEFINE A == AbsolutePaths(Names)
           path == Last(work[j].dirs)
           list == AskVolume(j, "list", path)
<1>1. /\ work[j].phase = "list" /\ work[j].dirs # <<>> /\ disk' = disk
      /\ \/ Fail(j)
         \/ /\ list.kind = "list"
            /\ \E n \in 0 .. Len(list.entries) :
                 LET entries == SubSeq(list.entries, 1, n)
                 IN Put(j, [files |-> FilesAfter(j, path, entries),
                            dirs |-> DirsAfter(j, path, entries),
                            cut |-> work[j].cut \/ n < Len(list.entries)])
  BY DEF ListDir, Is, Phase
<1>2. /\ IsTree(disk', Chunk) /\ Grows(disk, disk') /\ DOMAIN work = Jobs
      /\ "phase" \in DOMAIN work[j]
      /\ {"cut", "files", "dirs"} \subseteq DOMAIN work[j] /\ work[j].cut \in BOOLEAN
      /\ work[j].files \in Seq(A) /\ work[j].dirs \in Seq(A)
  BY <1>1, ExtractStays DEF ExtractStands, ExtractTypeOK, Standing
<1>3. path \in A /\ Front(work[j].dirs) \in Seq(A)
  <2> HIDE DEF A
  <2>1. /\ Front(work[j].dirs) \in Seq(A) /\ Len(work[j].dirs) \in Nat \ {0}
        /\ path = work[j].dirs[Len(work[j].dirs)]
    BY <1>1, <1>2, FrontOf
  <2>2. Len(work[j].dirs) \in 1 .. Len(work[j].dirs)
    BY <2>1
  <2> QED BY <1>2, <2>1, <2>2, ElementOfSeq
<1>4. CASE Fail(j)
  BY <1>2, <1>4, ExtractFails
<1>5. ASSUME list.kind = "list", NEW n \in 0 .. Len(list.entries),
             LET entries == SubSeq(list.entries, 1, n)
             IN Put(j, [files |-> FilesAfter(j, path, entries),
                        dirs |-> DirsAfter(j, path, entries),
                        cut |-> work[j].cut \/ n < Len(list.entries)])
      PROVE  Moved(j)
  <2> DEFINE entries == SubSeq(list.entries, 1, n)
             files == FilesAfter(j, path, entries)
             dirs == DirsAfter(j, path, entries)
             cut == work[j].cut \/ n < Len(list.entries)
             fields == [files |-> files, dirs |-> dirs, cut |-> cut]
  <2>1. entries \in Seq(Thing)
    <3>1. list.entries \in Seq(Thing)
      BY <1>3, <1>5, AnswersTyped DEF ExtractStands
    <3> HIDE DEF list
    <3> QED BY <3>1, FirstOnes
  <2>2. /\ Put(j, fields) /\ DOMAIN fields = {"files", "dirs", "cut"}
        /\ fields["files"] = files /\ fields["dirs"] = dirs /\ fields["cut"] = cut
    BY <1>5
  <2>3. cut \in BOOLEAN
    OBVIOUS
  <2> HIDE DEF entries, path, fields, cut, A
  <2>4. files \in Seq(A) /\ dirs \in Seq(A)
    <3> DEFINE Paths(S) ==
          LET shown == Only(entries, S)
          IN [i \in DOMAIN shown |-> Append(path, shown[i].name)]
    <3>1. \A S : Paths(S) \in Seq(A)
      BY <1>3, <2>1, ShownPaths DEF A
    <3>2. /\ files = work[j].files \o Paths({e \in ToSet(entries) : e.kind = "file"})
          /\ dirs = Front(work[j].dirs) \o Paths({e \in ToSet(entries) : e.kind = "dir"})
      BY DEF FilesAfter, DirsAfter
    <3> HIDE DEF Paths, files, dirs
    <3> QED BY <1>2, <1>3, <3>1, <3>2, ConcatProperties
  <2> HIDE DEF files, dirs
  <2>5. /\ DOMAIN work' = Jobs /\ \A k \in Jobs \ {j} : work'[k] = work[k]
        /\ DOMAIN work'[j] = DOMAIN fields \cup DOMAIN work[j]
        /\ \A f \in DOMAIN fields : work'[j][f] = fields[f]
        /\ \A f \in DOMAIN work[j] \ DOMAIN fields : work'[j][f] = work[j][f]
    BY <1>2, <2>2, PutGives
  <2>6. /\ work'[j].phase = "list" /\ work'[j].files = files /\ work'[j].dirs = dirs
        /\ work'[j].cut = cut /\ {"phase", "cut", "files", "dirs"} \subseteq DOMAIN work'[j]
    BY <1>1, <1>2, <2>2, <2>5
  <2>7. ExtractTypeOK(j)'
    BY <2>3, <2>4, <2>6 DEF ExtractTypeOK, A
  <2> QED BY <1>2, <2>5, <2>6, <2>7 DEF Moved, JobTypeOK, ExtractStands
<1> QED BY <1>1, <1>4, <1>5

\* From the end of the listings on, they stay as they are.
LEMMA ExtractSame ==
  ASSUME NEW j \in Jobs, ExtractStands(j), work[j].phase \in {"list", "create", "copy"},
         job' = job, NEW fields, Put(j, fields),
         DOMAIN fields \subseteq {"phase", "place", "first", "done"}
  PROVE  /\ DOMAIN work' = Jobs /\ \A k \in Jobs \ {j} : work'[k] = work[k]
         /\ \A f \in DOMAIN fields : work'[j][f] = fields[f]
         /\ \A f \in DOMAIN work[j] \ DOMAIN fields : work'[j][f] = work[j][f]
         /\ {"phase", "cut", "files", "dirs"} \cup DOMAIN fields \cup DOMAIN work[j]
              \subseteq DOMAIN work'[j]
         /\ work'[j].cut \in BOOLEAN /\ work'[j].files = work[j].files
         /\ work'[j].files \in Seq(AbsolutePaths(Names)) /\ work'[j].dirs \in Seq(AbsolutePaths(Names))
<1>1. /\ DOMAIN work' = Jobs /\ \A k \in Jobs \ {j} : work'[k] = work[k]
      /\ DOMAIN work'[j] = DOMAIN fields \cup DOMAIN work[j]
      /\ \A f \in DOMAIN fields : work'[j][f] = fields[f]
      /\ \A f \in DOMAIN work[j] \ DOMAIN fields : work'[j][f] = work[j][f]
  BY PutGives DEF ExtractStands, Standing
<1>2. /\ {"phase", "cut", "files", "dirs"} \subseteq DOMAIN work[j] /\ work[j].cut \in BOOLEAN
      /\ work[j].files \in Seq(AbsolutePaths(Names)) /\ work[j].dirs \in Seq(AbsolutePaths(Names))
  BY DEF ExtractStands, ExtractTypeOK, Standing
<1>3. work'[j].cut = work[j].cut /\ work'[j].files = work[j].files /\ work'[j].dirs = work[j].dirs
  BY <1>1, <1>2
<1> QED BY <1>1, <1>2, <1>3

\* The next file's turn, the first or the one after the file at work.
LEMMA NextFile ==
  ASSUME NEW j \in Jobs, ExtractStands(j), work[j].phase \in {"list", "copy"}, job' = job,
         disk' = disk, NEW phase \in {"create", "done"}, NEW place,
         phase = "create" => place \in DOMAIN work[j].files,
         Put(j, [phase |-> phase, place |-> place])
  PROVE  Moved(j)
<1> DEFINE fields == [phase |-> phase, place |-> place]
<1>1. /\ Put(j, fields) /\ DOMAIN fields = {"phase", "place"}
      /\ fields["phase"] = phase /\ fields["place"] = place
  OBVIOUS
<1> HIDE DEF fields
<1>2. /\ DOMAIN work' = Jobs /\ \A k \in Jobs \ {j} : work'[k] = work[k]
      /\ \A f \in DOMAIN fields : work'[j][f] = fields[f]
      /\ {"phase", "cut", "files", "dirs"} \cup DOMAIN fields \subseteq DOMAIN work'[j]
      /\ work'[j].cut \in BOOLEAN /\ work'[j].files = work[j].files
      /\ work'[j].files \in Seq(AbsolutePaths(Names)) /\ work'[j].dirs \in Seq(AbsolutePaths(Names))
  BY <1>1, ExtractSame
<1>3. work'[j].phase = phase /\ work'[j].place = place /\ {"phase", "place"} \subseteq DOMAIN work'[j]
  BY <1>1, <1>2
<1>4. ExtractTypeOK(j)'
  BY <1>2, <1>3 DEF ExtractTypeOK
<1> QED BY <1>2, <1>3, <1>4, ExtractStays DEF Moved, JobTypeOK, ExtractStands

LEMMA ListingEnded ==
  ASSUME NEW j \in Jobs, ExtractStands(j), ListEnds(j), job' = job PROVE Moved(j)
<1>1. work[j].phase = "list" /\ disk' = disk
  BY DEF ListEnds, Is, Phase
<1>2. CASE Goto(j, "done")
  BY <1>1, <1>2, ExtractStays, ExtractEnds
<1>3. CASE work[j].files # <<>> /\ Put(j, [phase |-> "create", place |-> 1])
  <2>1. work[j].files \in Seq(AbsolutePaths(Names))
    BY <1>1 DEF ExtractStands, ExtractTypeOK
  <2>2. 1 \in DOMAIN work[j].files
    BY <1>3, <2>1, EmptySeq, LenProperties
  <2> QED BY <1>1, <1>3, <2>2, NextFile
<1> QED BY <1>2, <1>3 DEF ListEnds

LEMMA FileEnded ==
  ASSUME NEW j \in Jobs, ExtractStands(j), EndFile(j), job' = job PROVE Moved(j)
<1> DEFINE phase == IF work[j].place < Len(work[j].files) THEN "create" ELSE "done"
<1>1. /\ work[j].phase = "copy" /\ disk' = disk
      /\ Put(j, [phase |-> phase, place |-> work[j].place + 1])
  BY DEF EndFile, Is, Phase
<1>2. phase = "create" => work[j].place + 1 \in DOMAIN work[j].files
  <2>1. work[j].files \in Seq(AbsolutePaths(Names)) /\ work[j].place \in DOMAIN work[j].files
    BY <1>1 DEF ExtractStands, ExtractTypeOK
  <2>2. DOMAIN work[j].files = 1 .. Len(work[j].files) /\ Len(work[j].files) \in Nat
    BY <2>1, LenProperties
  <2>3. work[j].place \in 1 .. Len(work[j].files)
    BY <2>1, <2>2
  <2> QED BY <2>2, <2>3
<1>3. phase \in {"create", "done"}
  OBVIOUS
<1> HIDE DEF phase
<1> QED BY <1>1, <1>2, <1>3, NextFile

\* The file at work.
LEMMA FileAtWork ==
  ASSUME NEW j \in Jobs, ExtractStands(j), work[j].phase \in {"create", "copy"}
  PROVE  /\ RemoteName(j) \in AbsolutePaths(Names)
         /\ LocalName(j, RemoteName(j)) \in Path /\ Front(LocalName(j, RemoteName(j))) \in Path
<1>1. work[j].files \in Seq(AbsolutePaths(Names)) /\ work[j].place \in DOMAIN work[j].files
  BY DEF ExtractStands, ExtractTypeOK
<1>2. RemoteName(j) \in AbsolutePaths(Names)
  BY <1>1, LenProperties DEF RemoteName
<1> QED BY <1>2, LocalNameTyped DEF ExtractStands

\* While it is copied, it is on the disk.
LEMMA ExtractCopies ==
  ASSUME NEW j \in Jobs, ExtractStands(j), work[j].phase \in {"create", "copy"}, job' = job,
         NEW fields, Put(j, fields), DOMAIN fields \subseteq {"phase", "first", "done"},
         work'[j].phase = "copy", {"first", "done"} \subseteq DOMAIN work'[j],
         work'[j].first \in DOMAIN Content, work'[j].done \in 0 .. Len(Content[work'[j].first]),
         IsTree(disk', Chunk), Grows(disk, disk'), IsFile(disk', LocalName(j, RemoteName(j)))
  PROVE  Moved(j)
<1>1. /\ DOMAIN work' = Jobs /\ \A k \in Jobs \ {j} : work'[k] = work[k]
      /\ \A f \in DOMAIN work[j] \ DOMAIN fields : work'[j][f] = work[j][f]
      /\ {"phase", "cut", "files", "dirs"} \cup DOMAIN fields \cup DOMAIN work[j]
           \subseteq DOMAIN work'[j]
      /\ work'[j].cut \in BOOLEAN /\ work'[j].files = work[j].files
      /\ work'[j].files \in Seq(AbsolutePaths(Names)) /\ work'[j].dirs \in Seq(AbsolutePaths(Names))
  BY ExtractSame
<1>2. "place" \in DOMAIN work[j] /\ work[j].place \in DOMAIN work[j].files
  BY DEF ExtractStands, ExtractTypeOK
<1>3. work'[j].place = work[j].place /\ {"phase", "place"} \subseteq DOMAIN work'[j]
  BY <1>1, <1>2
<1>4. LocalName(j, RemoteName(j))' = LocalName(j, RemoteName(j))
  BY <1>1, <1>3 DEF LocalName, RemoteName, Dest
<1>5. ExtractTypeOK(j)'
  BY <1>1, <1>2, <1>3, <1>4 DEF ExtractTypeOK
<1> QED BY <1>1, <1>3, <1>5 DEF Moved, JobTypeOK, ExtractStands

LEMMA FileStarted ==
  ASSUME NEW j \in Jobs, ExtractStands(j), StartFile(j), job' = job PROVE Moved(j)
<1> DEFINE path == LocalName(j, RemoteName(j))
           made == MakeDirs(disk, Front(path))
           found == AskVolume(j, "open", RemoteName(j))
           fields == [phase |-> "copy", first |-> found.entry.first, done |-> 0]
<1>1. /\ work[j].phase = "create" /\ IsTree(disk, Chunk) /\ DOMAIN work = Jobs
      /\ \/ Fail(j) /\ disk' = disk
         \/ /\ CanMakeDirs(disk, Front(path))
            /\ \/ Fail(j) /\ disk' = made
               \/ /\ found.kind = "entry" /\ CanCreate(made, path)
                  /\ disk' = Create(made, path) /\ Put(j, fields)
  BY DEF StartFile, Is, Phase, ExtractStands, Standing
<1>2. RemoteName(j) \in AbsolutePaths(Names) /\ path \in Path /\ Front(path) \in Path
  BY <1>1, FileAtWork
<1>3. CASE Fail(j) /\ disk' = disk
  BY <1>3, ExtractStays, ExtractFails
<1>4. ASSUME CanMakeDirs(disk, Front(path)) PROVE IsTree(made, Chunk) /\ Grows(disk, made)
  BY <1>1, <1>2, <1>4, MakesDirs
<1>5. CASE CanMakeDirs(disk, Front(path)) /\ Fail(j) /\ disk' = made
  BY <1>4, <1>5, ExtractFails
<1>6. CASE /\ CanMakeDirs(disk, Front(path)) /\ found.kind = "entry" /\ CanCreate(made, path)
           /\ disk' = Create(made, path) /\ Put(j, fields)
  <2>1. /\ DOMAIN fields = {"phase", "first", "done"} /\ fields["phase"] = "copy"
        /\ fields["first"] = found.entry.first /\ fields["done"] = 0
    OBVIOUS
  <2> HIDE DEF made, fields
  <2>2. IsTree(disk', Chunk) /\ Grows(made, disk') /\ IsFile(disk', path)
    BY <1>2, <1>4, <1>6, CreatesFile
  <2>3. Grows(disk, disk')
    BY <1>4, <1>6, <2>2 DEF Grows
  <2>4. found.entry.first \in DOMAIN Content
    BY <1>2, <1>6, AnswersTyped DEF ExtractStands
  <2>5. 0 \in 0 .. Len(Content[found.entry.first])
    BY <2>4, ToolsAssumption, LenProperties
  <2> HIDE DEF found, path
  <2>6. /\ work'[j].phase = "copy" /\ work'[j].first = found.entry.first /\ work'[j].done = 0
        /\ {"first", "done"} \subseteq DOMAIN work'[j]
    BY <1>1, <1>6, <2>1, PutGives
  <2>7. Put(j, fields) /\ DOMAIN fields \subseteq {"phase", "first", "done"}
    BY <1>6, <2>1
  <2> QED BY <1>1, <2>2, <2>3, <2>4, <2>5, <2>6, <2>7, ExtractCopies DEF path
<1> QED BY <1>1, <1>3, <1>5, <1>6

LEMMA ChunkExtracted ==
  ASSUME NEW j \in Jobs, ExtractStands(j), ExtractChunk(j), job' = job PROVE Moved(j)
<1> DEFINE n == work[j].done + 1
           path == LocalName(j, RemoteName(j))
           chunks == Content[work[j].first]
           fields == [done |-> n]
<1>1. /\ work[j].phase = "copy" /\ n <= Len(chunks) /\ IsTree(disk, Chunk) /\ DOMAIN work = Jobs
      /\ "phase" \in DOMAIN work[j] /\ {"first", "done"} \subseteq DOMAIN work[j]
      /\ work[j].first \in DOMAIN Content /\ work[j].done \in 0 .. Len(chunks) /\ IsFile(disk, path)
      /\ \/ disk' = WriteChunk(disk, path, n, chunks[n]) /\ Put(j, fields)
         \/ Fail(j) /\ disk' = disk
  BY DEF ExtractChunk, Is, Phase, ExtractStands, ExtractTypeOK, Standing
<1>2. CASE Fail(j) /\ disk' = disk
  BY <1>2, ExtractStays, ExtractFails
<1>3. CASE disk' = WriteChunk(disk, path, n, chunks[n]) /\ Put(j, fields)
  <2>1. chunks \in Seq(Chunk) /\ Len(chunks) \in Nat
    BY <1>1, ToolsAssumption, LenProperties
  <2>2. n \in Nat \ {0} /\ n \in 1 .. Len(chunks) /\ n \in 0 .. Len(chunks)
    BY <1>1, <2>1
  <2>3. DOMAIN fields = {"done"} /\ fields["done"] = n
    OBVIOUS
  <2> HIDE DEF n, fields
  <2>4. chunks[n] \in Chunk /\ Hole \in Chunk
    BY <2>1, <2>2, ToolsAssumption, LenProperties
  <2> HIDE DEF path
  <2>5. IsTree(disk', Chunk) /\ Grows(disk, disk')
    BY <1>1, <1>3, <2>2, <2>4, WritesTree
  <2>6. IsFile(disk', path)
    BY <1>1, <2>5, GrowsKeeps
  <2>7. /\ work'[j].phase = "copy" /\ work'[j].first = work[j].first /\ work'[j].done = n
        /\ {"first", "done"} \subseteq DOMAIN work'[j]
    BY <1>1, <1>3, <2>3, PutGives
  <2>8. Put(j, fields) /\ DOMAIN fields \subseteq {"phase", "first", "done"}
    BY <1>3, <2>3
  <2> QED BY <1>1, <2>2, <2>5, <2>6, <2>7, <2>8, ExtractCopies DEF path
<1> QED BY <1>1, <1>2, <1>3

LEMMA ExtractMoves ==
  ASSUME NEW j \in Jobs, ExtractStands(j), ExtractStep(j) \/ CallExtract(j), job' = job
  PROVE  Moved(j)
BY ExtractCalled, VolumeOpened, DirListed, ListingEnded, FileStarted, ChunkExtracted, FileEnded
   DEF ExtractStep

-----------------------------------------------------------------------------
(* All together. *)

LEMMA InitTyped == Init => TypeOK
<1> SUFFICES ASSUME Init PROVE TypeOK
  OBVIOUS
<1>1. /\ job \in Sessions /\ clashed = {} /\ work = [j \in Jobs |-> Idle]
      /\ before = [j \in Jobs |-> disk] /\ IsTree(disk, Chunk) /\ IsTree(remote, Chunk)
  BY ToolsAssumption DEF Init
<1>2. ASSUME NEW j \in Jobs
      PROVE  IsTree(before[j], Chunk) /\ "phase" \in DOMAIN work[j] /\ JobTypeOK(j)
  <2>1. "phase" \in DOMAIN work[j] /\ work[j].phase = "idle" /\ before[j] = disk
    BY <1>1 DEF Idle
  <2>2. UnpackTypeOK(j) /\ PackTypeOK(j) /\ UploadTypeOK(j) /\ ExtractTypeOK(j)
    BY <2>1 DEF UnpackTypeOK, PackTypeOK, UploadTypeOK, ExtractTypeOK
  <2>3. JobTypeOK(j)
    BY <2>1, <2>2, ChoiceOf, <1>1 DEF JobTypeOK, Phase
  <2> QED BY <1>1, <2>1, <2>3
<1> QED BY <1>1, <1>2 DEF TypeOK

\* What a step of any job does to the disks.
LEMMA JobMoves ==
  ASSUME TypeOK, NEW j \in Jobs, Click(j) \/ Step(j)
  PROVE  /\ job' = job /\ JobTypeOK(j)' /\ "phase" \in DOMAIN work'[j]
         /\ DOMAIN work' = Jobs /\ \A k \in Jobs \ {j} : work'[k] = work[k]
         /\ IsTree(disk', Chunk) /\ Grows(disk, disk')
         /\ IsTree(remote', Chunk) /\ Grows(remote, remote')
<1>1. Standing /\ JobTypeOK(j) /\ job' = job
  BY DEF TypeOK, Standing, Click, Step
<1>2. \A fs : Grows(fs, fs)
  BY DEF Grows
<1>3. CASE (ClickUnpack(j) \/ UnpackStep(j)) /\ remote' = remote
  <2>1. job[j].kind = "unpack"
    BY <1>3 DEF ClickUnpack, UnpackStep, OpenImage, UnpackDir, UnpackFile, EntryFails, UnpackChunk,
       EndOfImage, Is
  <2>2. Moved(j)
    BY <1>1, <1>3, <2>1, UnpackMoves, UnpackClicked DEF UnpackStands, JobTypeOK
  <2> QED BY <1>1, <1>2, <1>3, <2>2 DEF Moved, Standing
<1>4. CASE (ClickPack(j) \/ PackStep(j)) /\ remote' = remote
  <2>1. job[j].kind = "pack"
    BY <1>4 DEF ClickPack, PackStep, CreateImage, ScanFolder, PackChunk, FinishImage, PackFails,
       DropBuffer, Is
  <2>2. Moved(j)
    BY <1>1, <1>4, <2>1, PackMoves, PackClicked DEF PackStands, JobTypeOK
  <2> QED BY <1>1, <1>2, <1>4, <2>2 DEF Moved, Standing
<1>5. CASE ClickUpload(j) \/ UploadStep(j)
  <2>1. job[j].kind = "upload"
    BY <1>5 DEF ClickUpload, UploadStep, Connect, ScanEntry, LeaveDir, ScanEnds, MakeBase,
       MakeParent, StartPut, SendChunk, EndPut, Is
  <2>2. disk' = disk /\ MovedRemote(j)
    BY <1>1, <1>5, <2>1, UploadMoves DEF UploadStands, JobTypeOK
  <2> QED BY <1>1, <1>2, <2>2 DEF MovedRemote, Standing
<1>6. CASE (CallExtract(j) \/ ExtractStep(j)) /\ remote' = remote
  <2>1. job[j].kind = "extract"
    BY <1>6 DEF CallExtract, ExtractStep, OpenVolume, ListDir, ListEnds, StartFile, ExtractChunk,
       EndFile, Is
  <2>2. Moved(j)
    BY <1>1, <1>6, <2>1, ExtractMoves DEF ExtractStands, JobTypeOK
  <2> QED BY <1>1, <1>2, <1>6, <2>2 DEF Moved, Standing
<1> QED BY <1>3, <1>4, <1>5, <1>6 DEF Click, Step

LEMMA StepTyped == TypeOK /\ [Next]_vars => TypeOK'
<1> SUFFICES ASSUME TypeOK, [Next]_vars PROVE TypeOK'
  OBVIOUS
<1>1. CASE UNCHANGED vars
  <2>1. /\ job' = job /\ disk' = disk /\ remote' = remote /\ work' = work /\ before' = before
        /\ clashed' = clashed
    BY <1>1 DEF vars
  <2>2. ASSUME NEW j \in Jobs PROVE JobTypeOK(j)'
    <3>1. Grows(disk, disk') /\ Grows(remote, remote')
      BY <2>1 DEF Grows
    <3> QED BY <2>1, <3>1, StandsStill DEF TypeOK
  <2> QED BY <2>1, <2>2 DEF TypeOK
<1>2. ASSUME NEW j \in Jobs, Click(j) \/ Step(j) PROVE TypeOK'
  <2>1. /\ job' = job /\ JobTypeOK(j)' /\ "phase" \in DOMAIN work'[j]
        /\ DOMAIN work' = Jobs /\ \A k \in Jobs \ {j} : work'[k] = work[k]
        /\ IsTree(disk', Chunk) /\ Grows(disk, disk')
        /\ IsTree(remote', Chunk) /\ Grows(remote, remote')
    BY <1>2, JobMoves
  <2>2. /\ job \in Sessions /\ clashed \subseteq Jobs /\ DOMAIN before = Jobs
        /\ IsTree(disk, Chunk)
        /\ \A k \in Jobs : IsTree(before[k], Chunk) /\ "phase" \in DOMAIN work[k] /\ JobTypeOK(k)
    BY DEF TypeOK
  <2>3. /\ clashed' \subseteq Jobs /\ DOMAIN before' = Jobs
        /\ \A k \in Jobs : IsTree(before'[k], Chunk)
    <3>1. CASE Click(j)
      BY <2>2, <3>1 DEF Click
    <3>2. CASE Step(j)
      BY <2>2, <3>2 DEF Step
    <3> QED BY <1>2, <3>1, <3>2
  <2>4. ASSUME NEW k \in Jobs PROVE "phase" \in DOMAIN work'[k] /\ JobTypeOK(k)'
    <3>1. CASE k = j
      BY <2>1, <3>1
    <3>2. CASE k # j
      BY <2>1, <2>2, <3>2, StandsStill
    <3> QED BY <3>1, <3>2
  <2> QED BY <2>1, <2>2, <2>3, <2>4 DEF TypeOK
<1> QED BY <1>1, <1>2 DEF Next

\* Whatever the jobs do to the disks at the same time, both stay trees, and every
\* job is where it can go on: at an entry or file of its list, not past the end of
\* what it copies, at files that are still there.
THEOREM TypeCorrect == Spec => []TypeOK
BY InitTyped, StepTyped, PTL DEF Spec

-----------------------------------------------------------------------------
(* What jobs leave alone. *)

\* A prefix, element by element.
LEMMA PrefixIff ==
  ASSUME NEW S, NEW s \in Seq(S), NEW t \in Seq(S)
  PROVE  IsPrefix(s, t) <=> Len(s) <= Len(t) /\ \A i \in 1 .. Len(s) : s[i] = t[i]
<1>1. /\ Len(s) \in Nat /\ Len(t) \in Nat
      /\ \A i \in 1 .. Len(s) : s[i] \in S
      /\ \A i \in 1 .. Len(t) : t[i] \in S
  BY LenProperties
<1>2. SubSeq(s, 1, Len(s)) = s
  BY SubSeqFull
<1>3. ASSUME Len(s) <= Len(t)
      PROVE  /\ SubSeq(t, 1, Len(s)) \in Seq(S) /\ Len(SubSeq(t, 1, Len(s))) = Len(s)
             /\ \A i \in 1 .. Len(s) : SubSeq(t, 1, Len(s))[i] = t[i]
  <2>1. \A i \in 1 .. Len(s) : t[i] \in S
    BY <1>1, <1>3
  <2> QED BY <1>1, <2>1, SubSeqProperties
<1>4. ASSUME IsPrefix(s, t)
      PROVE  Len(s) <= Len(t) /\ \A i \in 1 .. Len(s) : s[i] = t[i]
  <2>1. Len(s) <= Len(t) /\ SubSeq(t, 1, Len(s)) = s
    BY <1>2, <1>4 DEF IsPrefix
  <2> QED BY <1>3, <2>1
<1>5. ASSUME Len(s) <= Len(t), \A i \in 1 .. Len(s) : s[i] = t[i] PROVE IsPrefix(s, t)
  <2>1. SubSeq(t, 1, Len(s)) = s
    BY <1>3, <1>5, SeqEqual
  <2> QED BY <1>2, <1>5, <2>1 DEF IsPrefix
<1> QED BY <1>4, <1>5

\* Of two directories that something is below, one is below the other.
LEMMA Comparable ==
  ASSUME NEW a \in Path, NEW b \in Path, NEW p \in Path, IsPrefix(a, p), IsPrefix(b, p)
  PROVE  IsPrefix(a, b) \/ IsPrefix(b, a)
<1>1. /\ Len(a) \in Nat /\ Len(b) \in Nat
      /\ \A i \in 1 .. Len(a) : a[i] = p[i]
      /\ \A i \in 1 .. Len(b) : b[i] = p[i]
  BY PrefixIff, LenProperties DEF Path
<1>2. CASE Len(a) <= Len(b)
  <2>1. \A i \in 1 .. Len(a) : a[i] = b[i]
    BY <1>1, <1>2
  <2> QED BY <1>2, <2>1, PrefixIff DEF Path
<1>3. CASE Len(b) <= Len(a)
  <2>1. \A i \in 1 .. Len(b) : b[i] = a[i]
    BY <1>1, <1>3
  <2> QED BY <1>3, <2>1, PrefixIff DEF Path
<1> QED BY <1>1, <1>2, <1>3

LEMMA ItsOwnPrefix ==
  ASSUME NEW a \in Path PROVE IsPrefix(a, a)
BY PrefixIff, LenProperties DEF Path

\* A path followed by another is below the first.
LEMMA ConcatBelow ==
  ASSUME NEW a \in Path, NEW p \in Path, IsPrefix(a, p)
  PROVE  /\ \A q \in Path : IsPrefix(a, p \o q)
         /\ \A name \in Names : IsPrefix(a, Append(p, name))
<1>1. /\ Len(a) \in Nat /\ Len(p) \in Nat /\ Len(a) <= Len(p) /\ \A i \in 1 .. Len(a) : a[i] = p[i]
  BY PrefixIff, LenProperties DEF Path
<1>2. ASSUME NEW q \in Path PROVE IsPrefix(a, p \o q)
  <2>1. /\ p \o q \in Path /\ Len(p \o q) = Len(p) + Len(q) /\ Len(q) \in Nat
        /\ \A i \in 1 .. Len(p) + Len(q) : (p \o q)[i] = IF i <= Len(p) THEN p[i] ELSE q[i - Len(p)]
    BY ConcatProperties, LenProperties DEF Path
  <2>2. Len(a) <= Len(p \o q) /\ \A i \in 1 .. Len(a) : a[i] = (p \o q)[i]
    BY <1>1, <2>1
  <2> QED BY <2>1, <2>2, PrefixIff DEF Path
<1>3. ASSUME NEW name \in Names PROVE IsPrefix(a, Append(p, name))
  <2>1. /\ Append(p, name) \in Path /\ Len(Append(p, name)) = Len(p) + 1
        /\ \A i \in 1 .. Len(p) : Append(p, name)[i] = p[i]
    BY AppendProperties DEF Path
  <2>2. Len(a) <= Len(Append(p, name)) /\ \A i \in 1 .. Len(a) : a[i] = Append(p, name)[i]
    BY <1>1, <2>1
  <2> QED BY <2>1, <2>2, PrefixIff DEF Path
<1> QED BY <1>2, <1>3

\* No file of gs outside paths is new or has changed since fs.
Spares(fs, gs, paths) ==
  \A p : IsFile(gs, p) /\ p \notin paths => IsFile(fs, p) /\ gs[p] = fs[p]

\* What lies at a path and below it.
Under(dir) == {p \in Path : IsPrefix(dir, p)}

LEMMA SparesOn ==
  ASSUME NEW fs, NEW gs, NEW hs, NEW paths, Spares(fs, gs, paths), Spares(gs, hs, paths)
  PROVE  Spares(fs, hs, paths)
BY DEF Spares

LEMMA MakeDirsSpares ==
  ASSUME NEW fs, NEW p, NEW paths PROVE Spares(fs, MakeDirs(fs, p), paths)
<1> DEFINE gs == MakeDirs(fs, p)
<1>1. /\ DOMAIN gs = Prefixes(p) \cup DOMAIN fs
      /\ \A q \in Prefixes(p) \cup DOMAIN fs : gs[q] = IF q \in Prefixes(p) THEN Dir ELSE fs[q]
  BY DEF MakeDirs, With
<1> HIDE DEF gs
<1>2. ASSUME NEW q, IsFile(gs, q) PROVE IsFile(fs, q) /\ gs[q] = fs[q]
  <2>1. q \in DOMAIN gs /\ gs[q].kind = "file"
    BY <1>2 DEF IsFile, Exists
  <2>2. q \notin Prefixes(p)
    BY <1>1, <2>1 DEF Dir
  <2> QED BY <1>1, <2>1, <2>2 DEF IsFile, Exists
<1> QED BY <1>2 DEF Spares, gs

LEMMA CreateSpares ==
  ASSUME NEW fs, NEW p, NEW paths, p \in paths PROVE Spares(fs, Create(fs, p), paths)
<1> DEFINE gs == Create(fs, p)
<1>1. /\ DOMAIN gs = {p} \cup DOMAIN fs
      /\ \A q \in {p} \cup DOMAIN fs : gs[q] = IF q \in {p} THEN File(<<>>) ELSE fs[q]
  BY DEF Create, With
<1> HIDE DEF gs
<1>2. ASSUME NEW q, IsFile(gs, q), q \notin paths PROVE IsFile(fs, q) /\ gs[q] = fs[q]
  <2>1. q \in DOMAIN gs /\ gs[q].kind = "file" /\ q # p
    BY <1>2 DEF IsFile, Exists
  <2> QED BY <1>1, <2>1 DEF IsFile, Exists
<1> QED BY <1>2 DEF Spares, gs

LEMMA AlikeSpares ==
  ASSUME NEW fs, NEW C, NEW p, NEW gs \in Alike(fs, C, p), NEW paths, p \in paths
  PROVE  Spares(fs, gs, paths)
BY DEF Alike, Spares, IsFile, Exists

\* An entry is unpacked below the folder chosen.
LEMMA EntryUnder ==
  ASSUME NEW j \in Jobs, UnpackStands(j), work[j].phase \in {"entry", "copy"}
  PROVE  EntryPath(j) \in Under(Dest(j))
<1>1. /\ Dest(j) \in Path /\ job[j].sources \in Seq(Path) /\ <<>> \notin ToSet(job[j].sources)
      /\ work[j].index \in DOMAIN job[j].sources
      /\ Entry(j) \in Item /\ EntryPath(j) \in Path /\ EntryDir(j) \in Path
  BY ChoiceOf, UnpackPaths DEF UnpackStands, UnpackTypeOK, Standing
<1>2. Image(j) \in Path /\ Image(j) # <<>>
  BY <1>1, LenProperties DEF Image, ToSet
<1> DEFINE target == Target(j, work[j].index)
<1>3. target \in Path /\ IsPrefix(Dest(j), target)
  <2>1. Stem[Last(Image(j))] \in Names
    BY <1>2, FrontTyped, ToolsAssumption
  <2>2. IsPrefix(Dest(j), Dest(j))
    BY <1>1, ItsOwnPrefix
  <2> QED BY <1>1, <2>1, <2>2, ConcatTyped, ConcatBelow DEF Target, Image
<1>4. IsPrefix(Dest(j), EntryDir(j))
  <2>1. Entry(j).dir \in Path /\ EntryDir(j) = target \o Entry(j).dir
    BY <1>1 DEF EntryDir, Item
  <2> HIDE DEF target
  <2> QED BY <1>1, <1>3, <2>1, ConcatBelow
<1>5. IsPrefix(Dest(j), EntryPath(j))
  <2>1. Entry(j).name \in Names
    BY <1>1 DEF Item
  <2> QED BY <1>1, <1>4, <2>1, ConcatBelow DEF EntryPath
<1> QED BY <1>1, <1>5 DEF Under

LEMMA UnpackSpares ==
  ASSUME NEW j \in Jobs, UnpackStands(j), UnpackStep(j) \/ ClickUnpack(j)
  PROVE  Spares(disk, disk', Under(Dest(j)))
<1> DEFINE U == Under(Dest(j))
<1>1. disk' = disk => Spares(disk, disk', U)
  BY DEF Spares
<1>2. CASE UnpackDir(j)
  BY <1>2, MakeDirsSpares DEF UnpackDir
<1>3. CASE UnpackFile(j)
  <2> DEFINE made == MakeDirs(disk, EntryDir(j))
  <2>1. work[j].phase = "entry" /\ disk' = Create(made, EntryPath(j))
    BY <1>3 DEF UnpackFile, Is, Phase
  <2>2. Spares(disk, made, U)
    BY MakeDirsSpares
  <2>3. EntryPath(j) \in U
    BY <2>1, EntryUnder
  <2> HIDE DEF made, U
  <2>4. Spares(made, disk', U)
    BY <2>1, <2>3, CreateSpares
  <2> QED BY <2>2, <2>4, SparesOn DEF U
<1>4. CASE EntryFails(j)
  BY <1>1, <1>4, MakeDirsSpares DEF EntryFails
<1>5. CASE UnpackChunk(j)
  <2> DEFINE n == work[j].done + 1
             at == Entry(j).at + work[j].done
  <2>1. /\ work[j].phase = "copy" /\ IsTree(disk, Chunk)
        /\ \/ disk' = WriteChunk(disk, EntryPath(j), n, ChunkAt(disk, Image(j), at))
           \/ disk' = disk
    BY <1>5 DEF UnpackChunk, Is, Phase, UnpackStands, Standing
  <2>2. /\ work[j].done \in 0 .. Entry(j).size - 1
        /\ IsFile(disk, Image(j)) /\ IsFile(disk, EntryPath(j))
        /\ Entry(j).at \in Nat \ {0} /\ Entry(j).size \in Nat
    BY <2>1, UnpackPaths DEF UnpackStands, UnpackTypeOK, Item
  <2>3. n \in Nat \ {0} /\ at \in Nat \ {0}
    <3>1. work[j].done \in Nat
      BY <2>2
    <3> QED BY <2>2, <3>1
  <2> HIDE DEF n, at
  <2>4. Hole \in Chunk /\ ChunkAt(disk, Image(j), at) \in Chunk
    BY <2>1, <2>2, <2>3, ToolsAssumption, ChunkTyped
  <2>5. EntryPath(j) \in U
    BY <2>1, EntryUnder
  <2>6. CASE disk' = WriteChunk(disk, EntryPath(j), n, ChunkAt(disk, Image(j), at))
    <3>1. disk' \in Alike(disk, Chunk, EntryPath(j))
      BY <2>1, <2>2, <2>3, <2>4, <2>6, AlikeTree, WritesChunk
    <3> QED BY <2>5, <3>1, AlikeSpares
  <2> QED BY <1>1, <2>1, <2>6
<1>6. CASE ClickUnpack(j) \/ OpenImage(j) \/ EndOfImage(j)
  BY <1>1, <1>6 DEF ClickUnpack, OpenImage, EndOfImage
<1> QED BY <1>2, <1>3, <1>4, <1>5, <1>6 DEF UnpackStep

LEMMA PackSpares ==
  ASSUME NEW j \in Jobs, PackStands(j), PackStep(j) \/ ClickPack(j)
  PROVE  Spares(disk, disk', Under(Dest(j)))
<1> DEFINE U == Under(Dest(j))
<1>1. disk' = disk => Spares(disk, disk', U)
  BY DEF Spares
<1>2. Dest(j) \in U
  <2>1. Dest(j) \in Path
    BY ChoiceOf DEF PackStands, Standing
  <2> QED BY <2>1, ItsOwnPrefix DEF Under
<1>3. CASE CreateImage(j)
  BY <1>1, <1>2, <1>3, CreateSpares DEF CreateImage
<1>4. disk' \in Alike(disk, Chunk, Dest(j)) => Spares(disk, disk', U)
  BY <1>2, AlikeSpares
<1>5. CASE PackChunk(j)
  <2> DEFINE piece == [at |-> work[j].at, chunk |-> ChunkFor(j, work[j].at)]
             fields == [at |-> work[j].at + 1]
  <2>1. /\ work[j].phase = "pack" /\ work[j].at < FirstFree(work[j].entries)
        /\ Buffer(j, piece, fields)
        /\ work[j].entries \in Seq(Item) /\ work[j].at \in 2 .. FirstFree(work[j].entries)
    BY <1>5 DEF PackChunk, Is, Phase, PackStands, PackTypeOK
  <2>2. piece \in Piece
    <3>1. ChunkFor(j, work[j].at) \in Chunk
      BY <2>1, ChunkForTyped
    <3> QED BY <2>1, <3>1 DEF Piece
  <2> HIDE DEF piece, fields
  <2> QED BY <1>4, <2>1, <2>2, BufferAlike
<1>6. CASE FinishImage(j)
  <2> DEFINE piece == [at |-> 1, chunk |-> Table(work[j].entries)]
             fields == [phase |-> "built"]
  <2>1. work[j].phase = "pack" /\ Buffer(j, piece, fields) /\ work[j].entries \in Seq(Item)
    BY <1>6 DEF FinishImage, Is, Phase, PackStands, PackTypeOK
  <2>2. piece \in Piece
    BY <2>1 DEF Piece, Table, Chunk
  <2> HIDE DEF piece, fields
  <2> QED BY <1>4, <2>1, <2>2, BufferAlike
<1>7. CASE DropBuffer(j)
  <2>1. PICK count \in 0 .. Len(work[j].buffer) :
          disk' = Flushed(disk, j, work[j].buffer, count)
    BY <1>7 DEF DropBuffer
  <2>2. /\ IsTree(disk, Chunk) /\ work[j].buffer \in Seq(Piece) /\ IsFile(disk, Dest(j))
    BY <1>7 DEF DropBuffer, Phase, PackStands, PackTypeOK, Standing, Piece
  <2> QED BY <1>4, <2>1, <2>2, FlushesAlike, ToolsAssumption
<1>8. CASE ClickPack(j) \/ ScanFolder(j) \/ PackFails(j)
  BY <1>1, <1>8 DEF ClickPack, ScanFolder, PackFails
<1> QED BY <1>3, <1>5, <1>6, <1>7, <1>8 DEF PackStep

-----------------------------------------------------------------------------
(* Where the files of a volume go. *)

\* The names of an absolute path are appended to the folder chosen.
LEMMA LocalNameIs ==
  ASSUME NEW j \in Jobs, Standing, job[j].kind = "extract", NEW p \in AbsolutePaths(Names)
  PROVE  /\ LocalName(j, p) = Dest(j) \o Tail(p) /\ Tail(p) \in Path
         /\ LocalName(j, p) \in Under(Dest(j))
<1> DEFINE S == ToSet(p) \ {Root}
<1>1. /\ p \in Seq(Names \cup {Root}) /\ p # <<>> /\ p[1] = Root
      /\ \A i \in 2 .. Len(p) : p[i] \in Names
  BY DEF AbsolutePaths
<1>2. Len(p) \in Nat \ {0} /\ DOMAIN p = 1 .. Len(p)
  BY <1>1, EmptySeq, LenProperties
<1>3. Only(p, S) = Tail(p)
  <2>1. \A i \in 2 .. Len(p) : p[i] \in S
    <3>1. ASSUME NEW i \in 2 .. Len(p) PROVE p[i] \in S
      <4>1. i \in DOMAIN p
        BY <1>2
      <4>2. p[i] # Root
        BY <1>1, ToolsAssumption
      <4> QED BY <4>1, <4>2 DEF ToSet
    <3> QED BY <3>1
  <2>2. p[1] \notin S
    BY <1>1
  <2> HIDE DEF S
  <2> QED BY <1>1, <2>1, <2>2, OnlyAll
<1>4. Tail(p) \in Path
  <2>1. /\ Tail(p) \in Seq(Names \cup {Root}) /\ Len(Tail(p)) = Len(p) - 1
        /\ \A i \in 1 .. Len(p) - 1 : Tail(p)[i] = p[i + 1]
    BY <1>1, <1>2, HeadTailProperties
  <2>2. \A i \in 1 .. Len(p) - 1 : Tail(p)[i] \in Names
    <3>1. \A i \in 1 .. Len(p) - 1 : i + 1 \in 2 .. Len(p)
      BY <1>2
    <3> QED BY <1>1, <2>1, <3>1
  <2>3. Tail(p) = [i \in 1 .. Len(p) - 1 |-> Tail(p)[i]]
    BY <2>1, LenProperties
  <2>4. Len(p) - 1 \in Nat
    BY <1>2
  <2>5. [i \in 1 .. Len(p) - 1 |-> Tail(p)[i]] \in Seq(Names)
    BY <2>2, <2>4
  <2> QED BY <2>3, <2>5 DEF Path
<1>5. LocalName(j, p) = Dest(j) \o Tail(p)
  BY <1>3 DEF LocalName
<1>6. Dest(j) \in Path
  BY ChoiceOf DEF Standing
<1>7. LocalName(j, p) \in Path /\ IsPrefix(Dest(j), LocalName(j, p))
  <2>1. IsPrefix(Dest(j), Dest(j)) /\ Dest(j) \o Tail(p) \in Path
    BY <1>4, <1>6, ItsOwnPrefix, ConcatProperties DEF Path
  <2> QED BY <1>4, <1>5, <1>6, <2>1, ConcatBelow
<1> QED BY <1>4, <1>5, <1>7 DEF Under

\* So no two go to the same place.
LEMMA LocalNameTells ==
  ASSUME NEW j \in Jobs, Standing, job[j].kind = "extract",
         NEW p \in AbsolutePaths(Names), NEW q \in AbsolutePaths(Names),
         LocalName(j, p) = LocalName(j, q)
  PROVE  p = q
<1> DEFINE d == Dest(j)
           m == Len(d)
<1>1. /\ d \in Path /\ Tail(p) \in Path /\ Tail(q) \in Path /\ d \o Tail(p) = d \o Tail(q)
  BY ChoiceOf, LocalNameIs DEF Standing
<1>2. \A r \in AbsolutePaths(Names) :
        /\ r \in Seq(Names \cup {Root}) /\ r[1] = Root /\ Len(r) \in Nat \ {0}
        /\ Len(Tail(r)) = Len(r) - 1 /\ \A i \in 1 .. Len(r) - 1 : Tail(r)[i] = r[i + 1]
  <2>1. ASSUME NEW r \in AbsolutePaths(Names)
        PROVE  /\ r \in Seq(Names \cup {Root}) /\ r[1] = Root /\ Len(r) \in Nat \ {0}
               /\ Len(Tail(r)) = Len(r) - 1 /\ \A i \in 1 .. Len(r) - 1 : Tail(r)[i] = r[i + 1]
    <3>1. r \in Seq(Names \cup {Root}) /\ r # <<>> /\ r[1] = Root
      BY DEF AbsolutePaths
    <3>2. Len(r) \in Nat \ {0}
      BY <3>1, EmptySeq, LenProperties
    <3> QED BY <3>1, <3>2, HeadTailProperties
  <2> QED BY <2>1
<1>3. m \in Nat /\ Len(p) \in Nat \ {0} /\ Len(q) \in Nat \ {0}
  BY <1>1, <1>2, LenProperties DEF Path
<1> HIDE DEF d, m
<1>4. \A t \in Path : /\ Len(d \o t) = m + Len(t)
                      /\ \A i \in 1 .. m + Len(t) : (d \o t)[i] = IF i <= m THEN d[i] ELSE t[i - m]
  BY <1>1, ConcatProperties DEF Path, m
<1>5. Len(p) = Len(q)
  <2>1. m + Len(Tail(p)) = m + Len(Tail(q))
    BY <1>1, <1>4
  <2> QED BY <1>2, <1>3, <2>1
<1>6. ASSUME NEW i \in 1 .. Len(p) PROVE p[i] = q[i]
  <2>1. CASE i = 1
    BY <1>2, <2>1
  <2>2. CASE i # 1
    <3> DEFINE k == m + (i - 1)
    <3>1. /\ i - 1 \in 1 .. Len(p) - 1 /\ i - 1 \in 1 .. Len(q) - 1 /\ (i - 1) + 1 = i
          /\ k \in 1 .. m + (Len(p) - 1) /\ k \in 1 .. m + (Len(q) - 1) /\ ~(k <= m) /\ k - m = i - 1
      BY <1>3, <1>5, <2>2
    <3> HIDE DEF k
    <3>2. (d \o Tail(p))[k] = Tail(p)[i - 1] /\ (d \o Tail(q))[k] = Tail(q)[i - 1]
      <4>1. \A t \in Path : k \in 1 .. m + Len(t) => (d \o t)[k] = t[i - 1]
        BY <1>4, <3>1
      <4>2. Len(Tail(p)) = Len(p) - 1 /\ Len(Tail(q)) = Len(q) - 1
        BY <1>2
      <4> QED BY <1>1, <3>1, <4>1, <4>2
    <3>3. Tail(p)[i - 1] = p[i] /\ Tail(q)[i - 1] = q[i]
      BY <1>2, <3>1
    <3> QED BY <1>1, <3>2, <3>3
  <2> QED BY <2>1, <2>2
<1> QED BY <1>2, <1>5, <1>6, SeqEqual

\* What a directory of the volume shows.
Entries(j, dir) ==
  LET list == AskVolume(j, "list", dir) IN IF list.kind = "list" THEN ToSet(list.entries) ELSE {}

Kids(j, dir, kind) == {Append(dir, e.name) : e \in {e \in Entries(j, dir) : e.kind = kind}}

LEMMA KidsTyped ==
  ASSUME NEW j \in Jobs, Standing, job[j].kind = "extract", NEW dir \in AbsolutePaths(Names)
  PROVE  /\ \A e \in Entries(j, dir) : e.name \in Names
         /\ \A kind : Kids(j, dir, kind) \subseteq AbsolutePaths(Names)
<1> DEFINE list == AskVolume(j, "list", dir)
<1>1. \A e \in Entries(j, dir) : e.name \in Names
  <2>1. CASE list.kind = "list"
    <3>1. list.entries \in Seq(Thing)
      BY <2>1, AnswersTyped
    <3>2. Entries(j, dir) = ToSet(list.entries)
      BY <2>1 DEF Entries
    <3> HIDE DEF list
    <3>3. ToSet(list.entries) \subseteq Thing
      BY <3>1, LenProperties DEF ToSet
    <3> QED BY <3>2, <3>3 DEF Thing
  <2>2. CASE list.kind # "list"
    BY <2>2 DEF Entries
  <2> QED BY <2>1, <2>2
<1> QED BY <1>1, LongerPath DEF Kids

\* The first m of a sequence.
LEMMA FirstPart ==
  ASSUME NEW S, NEW s \in Seq(S), NEW m \in 0 .. Len(s)
  PROVE  /\ SubSeq(s, 1, m) \in Seq(S) /\ Len(SubSeq(s, 1, m)) = m
         /\ \A i \in 1 .. m : SubSeq(s, 1, m)[i] = s[i]
<1>1. Len(s) \in Nat /\ \A i \in 1 .. Len(s) : s[i] \in S
  BY LenProperties
<1>2. m \in Int /\ 1 \in Int /\ \A i \in 1 .. m : s[i] \in S
  BY <1>1
<1>3. /\ SubSeq(s, 1, m) \in Seq(S)
      /\ Len(SubSeq(s, 1, m)) = IF 1 <= m THEN m - 1 + 1 ELSE 0
      /\ \A i \in 1 .. m - 1 + 1 : SubSeq(s, 1, m)[i] = s[1 + i - 1]
  BY <1>2, SubSeqProperties
<1> QED BY <1>1, <1>3

\* Path p is d or lies below it.
Begins(d, p) == Len(d) <= Len(p) /\ \A i \in 1 .. Len(d) : p[i] = d[i]

\* The directories that listings lead to, from the one at path on.
LedTo(j, path) ==
  {d \in AbsolutePaths(Names) :
     /\ Begins(path, d)
     /\ \A m \in Len(path) .. Len(d) - 1 : SubSeq(d, 1, m + 1) \in Kids(j, SubSeq(d, 1, m), "dir")}

LEMMA LedToKids ==
  ASSUME NEW j \in Jobs, Standing, job[j].kind = "extract", NEW path \in AbsolutePaths(Names)
  PROVE  /\ path \in LedTo(j, path)
         /\ \A d \in LedTo(j, path) : Kids(j, d, "dir") \subseteq LedTo(j, path)
<1> DEFINE S == Names \cup {Root}
<1>1. \A d \in AbsolutePaths(Names) : d \in Seq(S) /\ Len(d) \in Nat /\ SubSeq(d, 1, Len(d)) = d
  <2>1. \A d \in AbsolutePaths(Names) : d \in Seq(S)
    BY DEF AbsolutePaths
  <2> QED BY <2>1, LenProperties, SubSeqFull
<1>2. path \in LedTo(j, path)
  <2>1. \A m \in Len(path) .. Len(path) - 1 : FALSE
    BY <1>1
  <2> QED BY <1>1, <2>1 DEF LedTo, Begins
<1>3. ASSUME NEW d \in LedTo(j, path), NEW p \in Kids(j, d, "dir") PROVE p \in LedTo(j, path)
  <2>1. /\ d \in AbsolutePaths(Names) /\ p \in AbsolutePaths(Names) /\ Begins(path, d)
        /\ \A m \in Len(path) .. Len(d) - 1 :
             SubSeq(d, 1, m + 1) \in Kids(j, SubSeq(d, 1, m), "dir")
    BY <1>3, KidsTyped DEF LedTo
  <2>2. PICK name \in Names : p = Append(d, name)
    BY <1>3, <2>1, KidsTyped DEF Kids
  <2>3. /\ d \in Seq(S) /\ p \in Seq(S) /\ Len(d) \in Nat /\ Len(path) \in Nat
        /\ Len(p) = Len(d) + 1 /\ \A i \in 1 .. Len(d) : p[i] = d[i]
    BY <1>1, <2>1, <2>2, AppendProperties
  <2>4. Begins(path, p)
    BY <2>1, <2>3 DEF Begins
  <2>5. ASSUME NEW m \in 0 .. Len(d) PROVE SubSeq(p, 1, m) = SubSeq(d, 1, m)
    <3>1. m \in 0 .. Len(p)
      BY <2>3
    <3>2. /\ SubSeq(p, 1, m) \in Seq(S) /\ Len(SubSeq(p, 1, m)) = m
          /\ \A i \in 1 .. m : SubSeq(p, 1, m)[i] = p[i]
          /\ SubSeq(d, 1, m) \in Seq(S) /\ Len(SubSeq(d, 1, m)) = m
          /\ \A i \in 1 .. m : SubSeq(d, 1, m)[i] = d[i]
      BY <2>3, <3>1, FirstPart
    <3>3. \A i \in 1 .. m : p[i] = d[i]
      BY <2>3
    <3> QED BY <3>2, <3>3, SeqEqual
  <2>6. ASSUME NEW m \in Len(path) .. Len(p) - 1
        PROVE  SubSeq(p, 1, m + 1) \in Kids(j, SubSeq(p, 1, m), "dir")
    <3>1. CASE m = Len(d)
      <4>1. SubSeq(p, 1, m + 1) = p /\ SubSeq(p, 1, m) = d
        <5>1. Len(d) \in 0 .. Len(d) /\ m + 1 = Len(p)
          BY <2>3, <3>1
        <5> QED BY <1>1, <2>1, <2>5, <3>1, <5>1
      <4> QED BY <1>3, <4>1
    <3>2. CASE m # Len(d)
      <4>1. m \in Len(path) .. Len(d) - 1 /\ m \in 0 .. Len(d) /\ m + 1 \in 0 .. Len(d)
        BY <2>3, <3>2
      <4> QED BY <2>1, <2>5, <4>1
    <3> QED BY <3>1, <3>2
  <2> QED BY <2>1, <2>4, <2>6 DEF LedTo
<1> QED BY <1>2, <1>3

\* VolumeFiles gathers the files that they show.
LEMMA VolumeFilesReached ==
  ASSUME NEW j \in Jobs, Standing, job[j].kind = "extract", NEW path \in AbsolutePaths(Names)
  PROVE  VolumeFiles(j, path) \subseteq UNION {Kids(j, d, "file") : d \in LedTo(j, path)}
<1> DEFINE A == LedTo(j, path)
           T == SUBSET A
           count == Cardinality(DOMAIN job[j].volume.dirs)
           More(q) == q \cup UNION {Kids(j, dir, "dir") : dir \in q}
           Rec(g) == [n \in 0 .. count |-> IF n = 0 THEN {path} ELSE More(g[n - 1])]
           more == [n \in Nat |-> [q \in T |-> More(q)]]
           dirs == CHOOSE g : g = Rec(g)
<1>1. count \in Nat
  <2>1. IsFiniteSet(DOMAIN job[j].volume.dirs)
    BY ChoiceOf DEF Standing, IsVolume
  <2> QED BY <2>1, FS_CardinalityType
<1> HIDE DEF count
<1>2. path \in A /\ \A dir \in A : Kids(j, dir, "dir") \subseteq A
  BY LedToKids
<1>3. {path} \in T /\ \A q \in T : More(q) \in T
  BY <1>2
<1>4. more \in [Nat -> [T -> T]]
  <2> HIDE DEF T, More
  <2> QED BY <1>3
<1>5. PICK f : f \in Runs(T, {path}, count, more)
  <2>1. Runs(T, {path}, count, more) # {}
    <3> HIDE DEF T, more
    <3> QED BY <1>1, <1>3, <1>4, Iterates
  <2> QED BY <2>1
<1>6. f \in [0 .. count -> T] /\ f[0] = {path} /\ \A n \in 1 .. count : f[n] = more[n][f[n - 1]]
  BY <1>5 DEF Runs
<1>7. ASSUME NEW n \in 1 .. count PROVE f[n] = More(f[n - 1])
  <2> HIDE DEF T, More
  <2>1. n \in Nat /\ f[n - 1] \in T
    BY <1>1, <1>6
  <2>2. more[n][f[n - 1]] = More(f[n - 1])
    BY <2>1
  <2> QED BY <1>6, <2>2
<1>8. f = Rec(f)
  <2>1. f = [n \in 0 .. count |-> f[n]]
    BY <1>6
  <2>2. \A n \in 0 .. count : f[n] = IF n = 0 THEN {path} ELSE More(f[n - 1])
    <3> HIDE DEF T, More, more
    <3>1. \A n \in 0 .. count : n # 0 => n \in 1 .. count
      BY <1>1
    <3> QED BY <1>6, <1>7, <3>1
  <2> HIDE DEF T, More, more
  <2> QED BY <2>1, <2>2, Zenon
<1>9. dirs = Rec(dirs)
  <2> HIDE DEF Rec
  <2> QED BY <1>8
<1>10. VolumeFiles(j, path) = UNION {Kids(j, dir, "file") : dir \in dirs[count]}
  BY DEF VolumeFiles, Kids, Entries, count
<1>11. \A n \in 0 .. count : dirs[n] = IF n = 0 THEN {path} ELSE More(dirs[n - 1])
  <2>1. \A n \in 0 .. count : dirs[n] = Rec(dirs)[n]
    <3> HIDE DEF dirs, Rec
    <3> QED BY <1>9
  <2>2. \A n \in 0 .. count : Rec(dirs)[n] = IF n = 0 THEN {path} ELSE More(dirs[n - 1])
    <3> HIDE DEF dirs, More
    <3> QED OBVIOUS
  <2> HIDE DEF dirs, Rec, More
  <2> QED BY <2>1, <2>2
<1> DEFINE P == {k \in 0 .. count : dirs[k] \in T}
<1>12. \A n \in 0 .. count : n \in P
  <2> HIDE DEF dirs, More, T
  <2>1. 0 \in P
    BY <1>1, <1>3, <1>11
  <2>2. ASSUME NEW n \in 0 .. count - 1, n \in P PROVE n + 1 \in P
    <3>1. n + 1 \in 1 .. count /\ n + 1 \in 0 .. count /\ (n + 1) - 1 = n /\ n + 1 # 0
      BY <1>1
    <3>2. dirs[n + 1] = More(dirs[n])
      BY <1>11, <3>1
    <3> QED BY <1>3, <2>2, <3>1, <3>2
  <2> HIDE DEF P
  <2> QED BY <1>1, <2>1, <2>2, UpTo
<1>13. dirs[count] \subseteq A
  <2>1. count \in 0 .. count
    BY <1>1
  <2> HIDE DEF dirs
  <2> QED BY <1>12, <2>1
<1> HIDE DEF dirs, A
<1> QED BY <1>10, <1>13 DEF A

LEMMA VolumeFilesTyped ==
  ASSUME NEW j \in Jobs, Standing, job[j].kind = "extract", NEW path \in AbsolutePaths(Names)
  PROVE  VolumeFiles(j, path) \subseteq AbsolutePaths(Names)
BY VolumeFilesReached, KidsTyped DEF LedTo

\* Below a directory there is only what its entries lead to.
LEMMA BelowKids ==
  ASSUME NEW j \in Jobs, Standing, job[j].kind = "extract", NEW path \in AbsolutePaths(Names),
         NEW d \in LedTo(j, path), NEW x \in AbsolutePaths(Names), Len(path) <= Len(x),
         Begins(x, d), x # d
  PROVE  \E p \in Kids(j, x, "dir") : Begins(p, d)
<1> DEFINE S == Names \cup {Root}
           m == Len(x)
           p == SubSeq(d, 1, m + 1)
<1>1. /\ d \in AbsolutePaths(Names) /\ path \in Seq(S) /\ d \in Seq(S) /\ x \in Seq(S)
      /\ Len(d) \in Nat /\ m \in Nat /\ Len(path) \in Nat
  <2>1. d \in AbsolutePaths(Names)
    BY DEF LedTo
  <2> QED BY <2>1, LenProperties DEF AbsolutePaths
<1>2. m <= Len(d) /\ \A i \in 1 .. m : d[i] = x[i]
  BY DEF Begins
<1>3. m < Len(d)
  <2>1. ASSUME m = Len(d) PROVE x = d
    BY <1>1, <1>2, <2>1, SeqEqual
  <2> QED BY <1>1, <1>2, <2>1
<1>4. SubSeq(d, 1, m) = x
  BY <1>1, <1>2, BeginsWith
<1>5. p \in Kids(j, x, "dir")
  <2>1. m \in Len(path) .. Len(d) - 1
    BY <1>1, <1>3
  <2>2. SubSeq(d, 1, m + 1) \in Kids(j, SubSeq(d, 1, m), "dir")
    BY <2>1 DEF LedTo
  <2> QED BY <1>4, <2>2
<1>6. Begins(p, d)
  <2>1. m + 1 \in 0 .. Len(d)
    BY <1>1, <1>3
  <2>2. Len(p) = m + 1 /\ \A i \in 1 .. m + 1 : p[i] = d[i]
    BY <1>1, <2>1, FirstPart
  <2> HIDE DEF p
  <2> QED BY <1>1, <1>3, <2>2 DEF Begins
<1> QED BY <1>5, <1>6

\* The file that is opened is the one that stat tells of.
LEMMA OpenedIsThere ==
  ASSUME NEW j \in Jobs, NEW p, AskVolume(j, "open", p).kind = "entry"
  PROVE  VolumeContent(j, p) = Content[AskVolume(j, "open", p).entry.first]
<1> DEFINE found == Resolve(job[j].volume, p)
<1>1. found.kind = "error" => AskVolume(j, "open", p) = found
  BY DEF AskVolume, Answer
<1>2. found.kind # "error"
  BY <1>1
<1>3. AskVolume(j, "open", p) = IF found.entry.kind = "file" THEN found ELSE Error("IsADirectory")
  BY <1>2 DEF AskVolume, Answer
<1>4. AskVolume(j, "open", p) = found
  BY <1>3 DEF Error
<1>5. AskVolume(j, "stat", p) = found
  BY DEF AskVolume, Answer
<1> QED BY <1>4, <1>5 DEF VolumeContent

-----------------------------------------------------------------------------
(* What an extraction has put on the disk. *)

\* Every file is as it was before or the beginning of the one on the volume, and the
\* one at work has what was copied so far.
DiskTrue(j) ==
  /\ \A p \in AbsolutePaths(Names) :
       LET local == LocalName(j, p)
       IN IsFile(disk, local) =>
            \/ IsFile(before[j], local) /\ disk[local] = before[j][local]
            \/ IsPrefix(disk[local].content, VolumeContent(j, p))
  /\ Phase(j) = "copy" =>
       LET chunks == Content[work[j].first]
       IN /\ chunks = VolumeContent(j, RemoteName(j))
          /\ disk[LocalName(j, RemoteName(j))].content = SubSeq(chunks, 1, work[j].done)

\* Steps that do not write to its files.
LEMMA TrueStays ==
  ASSUME TypeOK, NEW j \in Jobs, job[j].kind = "extract", DiskTrue(j),
         job' = job, before'[j] = before[j], work'[j] = work[j], Grows(disk, disk'),
         NEW paths, Spares(disk, disk', paths), paths \cap Under(Dest(j)) = {}
  PROVE  DiskTrue(j)'
<1>1. Standing /\ ExtractTypeOK(j)
  BY DEF TypeOK, Standing, JobTypeOK
<1>2. \A p : /\ LocalName(j, p)' = LocalName(j, p) /\ VolumeContent(j, p)' = VolumeContent(j, p)
  BY DEF LocalName, Dest, VolumeContent, AskVolume
<1>3. \A p \in AbsolutePaths(Names) :
        IsFile(disk', LocalName(j, p)) =>
          IsFile(disk, LocalName(j, p)) /\ disk'[LocalName(j, p)] = disk[LocalName(j, p)]
  <2>1. \A p \in AbsolutePaths(Names) : LocalName(j, p) \notin paths
    BY <1>1, LocalNameIs
  <2> QED BY <2>1 DEF Spares
<1>4. Phase(j)' = Phase(j) /\ RemoteName(j)' = RemoteName(j)
  BY DEF Phase, RemoteName
<1>5. ASSUME Phase(j) = "copy"
      PROVE  disk'[LocalName(j, RemoteName(j))] = disk[LocalName(j, RemoteName(j))]
  <2>1. RemoteName(j) \in AbsolutePaths(Names) /\ IsFile(disk, LocalName(j, RemoteName(j)))
    BY <1>1, <1>5, FileAtWork DEF ExtractStands, ExtractTypeOK, Phase
  <2>2. IsFile(disk', LocalName(j, RemoteName(j)))
    BY <2>1, GrowsKeeps
  <2> QED BY <1>3, <2>1, <2>2
<1> QED BY <1>2, <1>3, <1>4, <1>5 DEF DiskTrue

\* The first chunks of a file, and one more.
LEMMA FirstChunks ==
  ASSUME NEW C, NEW s \in Seq(C), NEW n \in 0 .. Len(s)
  PROVE  /\ IsPrefix(SubSeq(s, 1, n), s) /\ SubSeq(s, 1, 0) = <<>>
         /\ n < Len(s) => Written(SubSeq(s, 1, n), n + 1, s[n + 1]) = SubSeq(s, 1, n + 1)
<1>1. Len(s) \in Nat /\ n \in Nat /\ n <= Len(s) /\ \A i \in 1 .. Len(s) : s[i] \in C
  BY LenProperties
<1>2. ASSUME NEW m \in 0 .. Len(s)
      PROVE  /\ SubSeq(s, 1, m) \in Seq(C) /\ Len(SubSeq(s, 1, m)) = m
             /\ \A i \in 1 .. m : SubSeq(s, 1, m)[i] = s[i]
  <2>1. m \in Int /\ 1 \in Int /\ \A i \in 1 .. m : s[i] \in C
    BY <1>1
  <2>2. /\ SubSeq(s, 1, m) \in Seq(C)
        /\ Len(SubSeq(s, 1, m)) = IF 1 <= m THEN m - 1 + 1 ELSE 0
        /\ \A i \in 1 .. m - 1 + 1 : SubSeq(s, 1, m)[i] = s[1 + i - 1]
    BY <2>1, SubSeqProperties
  <2> QED BY <1>1, <2>2
<1>3. IsPrefix(SubSeq(s, 1, n), s)
  BY <1>1, <1>2, PrefixIff
<1>4. SubSeq(s, 1, 0) = <<>>
  BY SubSeqEmpty
<1>5. ASSUME n < Len(s) PROVE Written(SubSeq(s, 1, n), n + 1, s[n + 1]) = SubSeq(s, 1, n + 1)
  <2> DEFINE less == SubSeq(s, 1, n)
             all == SubSeq(s, 1, n + 1)
             e == Written(less, n + 1, s[n + 1])
  <2>1. n + 1 \in 0 .. Len(s)
    BY <1>1, <1>5
  <2>2. /\ less \in Seq(C) /\ Len(less) = n /\ \A i \in 1 .. n : less[i] = s[i]
        /\ all \in Seq(C) /\ Len(all) = n + 1 /\ \A i \in 1 .. n + 1 : all[i] = s[i]
    BY <1>2, <2>1
  <2> HIDE DEF less, all
  <2>3. e = [i \in 1 .. n + 1 |-> IF i = n + 1 THEN s[n + 1] ELSE IF i <= n THEN less[i] ELSE Hole]
    BY <1>1, <2>2 DEF Written
  <2>4. \A i \in 1 .. n + 1 : e[i] = all[i]
    <3>1. \A i \in 1 .. n + 1 : i # n + 1 => i \in 1 .. n /\ i <= n
      BY <1>1
    <3> HIDE DEF e
    <3> QED BY <2>2, <2>3, <3>1
  <2>5. all = [i \in 1 .. n + 1 |-> all[i]]
    BY <2>2, LenProperties
  <2>6. e = all
    <3> HIDE DEF e
    <3>1. e = [i \in 1 .. n + 1 |-> e[i]]
      BY <2>3
    <3> QED BY <2>4, <2>5, <3>1
  <2> QED BY <2>6 DEF less, all
<1> QED BY <1>3, <1>4, <1>5

\* Steps of the extraction that write nothing and do not begin a copy.
LEMMA TrueWithoutWriting ==
  ASSUME NEW j \in Jobs, job' = job, disk' = disk, work'[j].phase # "copy",
         before'[j] = disk \/ (before'[j] = before[j] /\ DiskTrue(j))
  PROVE  DiskTrue(j)'
<1>1. \A p : /\ LocalName(j, p)' = LocalName(j, p) /\ VolumeContent(j, p)' = VolumeContent(j, p)
  BY DEF LocalName, Dest, VolumeContent, AskVolume
<1>2. Phase(j)' # "copy"
  BY DEF Phase
<1>3. CASE before'[j] = disk
  BY <1>1, <1>2, <1>3 DEF DiskTrue
<1>4. CASE before'[j] = before[j] /\ DiskTrue(j)
  BY <1>1, <1>2, <1>4 DEF DiskTrue
<1> QED BY <1>3, <1>4

\* Steps that write to the file at work: it is copied, and has what was copied so far.
LEMMA TrueAtWork ==
  ASSUME NEW j \in Jobs, ExtractStands(j), work[j].phase \in {"create", "copy"}, DiskTrue(j),
         job' = job, before'[j] = before[j],
         NEW chunks, chunks = VolumeContent(j, RemoteName(j)),
         Spares(disk, disk', {LocalName(j, RemoteName(j))}),
         RemoteName(j)' = RemoteName(j), work'[j].phase = "copy", Content[work'[j].first] = chunks,
         disk'[LocalName(j, RemoteName(j))].content = SubSeq(chunks, 1, work'[j].done),
         IsPrefix(SubSeq(chunks, 1, work'[j].done), chunks)
  PROVE  DiskTrue(j)'
<1> DEFINE path == LocalName(j, RemoteName(j))
<1>1. \A p : /\ LocalName(j, p)' = LocalName(j, p) /\ VolumeContent(j, p)' = VolumeContent(j, p)
  BY DEF LocalName, Dest, VolumeContent, AskVolume
<1>2. RemoteName(j) \in AbsolutePaths(Names)
  BY FileAtWork
<1>3. ASSUME NEW p \in AbsolutePaths(Names), IsFile(disk', LocalName(j, p))
      PROVE  \/ IsFile(before[j], LocalName(j, p))
                /\ disk'[LocalName(j, p)] = before[j][LocalName(j, p)]
             \/ IsPrefix(disk'[LocalName(j, p)].content, VolumeContent(j, p))
  <2>1. CASE LocalName(j, p) = path
    <3>1. p = RemoteName(j)
      BY <1>2, <2>1, LocalNameTells DEF ExtractStands
    <3> QED BY <3>1
  <2>2. CASE LocalName(j, p) # path
    <3>1. IsFile(disk, LocalName(j, p)) /\ disk'[LocalName(j, p)] = disk[LocalName(j, p)]
      BY <1>3, <2>2 DEF Spares
    <3> QED BY <3>1 DEF DiskTrue
  <2> QED BY <2>1, <2>2
<1> QED BY <1>1, <1>3 DEF DiskTrue, Phase

\* A file that is started: it is empty, and nothing else was written.
LEMMA StartGives ==
  ASSUME NEW j \in Jobs, ExtractStands(j), StartFile(j), work'[j].phase # "failed"
  PROVE  /\ work[j].phase = "create" /\ AskVolume(j, "open", RemoteName(j)).kind = "entry"
         /\ Spares(disk, disk', {LocalName(j, RemoteName(j))})
         /\ disk'[LocalName(j, RemoteName(j))].content = <<>>
         /\ work'[j].phase = "copy" /\ work'[j].done = 0
         /\ work'[j].first = AskVolume(j, "open", RemoteName(j)).entry.first
         /\ work'[j].place = work[j].place /\ work'[j].files = work[j].files
         /\ work'[j].dirs = work[j].dirs /\ work'[j].cut = work[j].cut
         /\ RemoteName(j)' = RemoteName(j)
<1> DEFINE path == LocalName(j, RemoteName(j))
           made == MakeDirs(disk, Front(path))
           found == AskVolume(j, "open", RemoteName(j))
           fields == [phase |-> "copy", first |-> found.entry.first, done |-> 0]
<1>1. /\ work[j].phase = "create" /\ DOMAIN work = Jobs
      /\ {"phase", "place", "files", "dirs", "cut"} \subseteq DOMAIN work[j]
  BY DEF StartFile, Is, Phase, ExtractStands, ExtractTypeOK, Standing
<1>2. found.kind = "entry" /\ disk' = Create(made, path) /\ Put(j, fields)
  <2>1. ~Fail(j)
    BY <1>1, GotoGives DEF Fail
  <2> QED BY <2>1 DEF StartFile
<1>3. Spares(disk, disk', {path})
  <2>1. Spares(disk, made, {path})
    BY MakeDirsSpares
  <2> HIDE DEF made, path
  <2>2. Spares(made, disk', {path})
    BY <1>2, CreateSpares
  <2> QED BY <2>1, <2>2, SparesOn
<1>4. disk'[path].content = <<>>
  <2> HIDE DEF made, path
  <2> QED BY <1>2 DEF Create, With, File
<1>5. /\ DOMAIN fields = {"phase", "first", "done"} /\ fields["phase"] = "copy"
      /\ fields["first"] = found.entry.first /\ fields["done"] = 0
  OBVIOUS
<1> HIDE DEF fields
<1>6. /\ work'[j].phase = "copy" /\ work'[j].first = found.entry.first /\ work'[j].done = 0
      /\ \A f \in {"place", "files", "dirs", "cut"} : work'[j][f] = work[j][f]
  BY <1>1, <1>2, <1>5, PutGives
<1>7. RemoteName(j)' = RemoteName(j)
  BY <1>6 DEF RemoteName
<1> QED BY <1>1, <1>2, <1>3, <1>4, <1>6, <1>7

LEMMA TrueStarted ==
  ASSUME NEW j \in Jobs, ExtractStands(j), StartFile(j), DiskTrue(j), job' = job,
         before'[j] = before[j], work'[j].phase # "failed"
  PROVE  DiskTrue(j)'
<1> DEFINE path == LocalName(j, RemoteName(j))
           found == AskVolume(j, "open", RemoteName(j))
           chunks == Content[found.entry.first]
<1>1. /\ work[j].phase = "create" /\ found.kind = "entry" /\ Spares(disk, disk', {path})
      /\ disk'[path].content = <<>> /\ work'[j].phase = "copy" /\ work'[j].done = 0
      /\ work'[j].first = found.entry.first /\ RemoteName(j)' = RemoteName(j)
  BY StartGives
<1>2. RemoteName(j) \in AbsolutePaths(Names)
  BY <1>1, FileAtWork
<1>3. chunks = VolumeContent(j, RemoteName(j))
  BY <1>1, OpenedIsThere
<1>4. chunks \in Seq(Chunk)
  <2>1. found.entry.first \in DOMAIN Content
    BY <1>1, <1>2, AnswersTyped DEF ExtractStands
  <2> QED BY <2>1, ToolsAssumption
<1>5. Content[work'[j].first] = chunks
  BY <1>1
<1> HIDE DEF chunks, found
<1>6. IsPrefix(SubSeq(chunks, 1, 0), chunks) /\ SubSeq(chunks, 1, 0) = <<>>
  <2>1. 0 \in 0 .. Len(chunks)
    BY <1>4, LenProperties
  <2> QED BY <1>4, <2>1, FirstChunks
<1> QED BY <1>1, <1>3, <1>5, <1>6, TrueAtWork

\* A chunk that is copied: the next one of the file at work.
LEMMA ChunkGives ==
  ASSUME NEW j \in Jobs, ExtractStands(j), ExtractChunk(j), work'[j].phase # "failed"
  PROVE  LET n == work[j].done + 1
             path == LocalName(j, RemoteName(j))
             chunks == Content[work[j].first]
         IN /\ work[j].phase = "copy" /\ work[j].done \in 0 .. Len(chunks) /\ n \in 1 .. Len(chunks)
            /\ chunks \in Seq(Chunk) /\ Len(chunks) \in Nat /\ IsFile(disk, path)
            /\ disk' = WriteChunk(disk, path, n, chunks[n]) /\ Spares(disk, disk', {path})
            /\ work'[j].phase = "copy" /\ work'[j].first = work[j].first /\ work'[j].done = n
            /\ work'[j].place = work[j].place /\ work'[j].files = work[j].files
            /\ work'[j].dirs = work[j].dirs /\ work'[j].cut = work[j].cut
            /\ RemoteName(j)' = RemoteName(j)
<1> DEFINE n == work[j].done + 1
           path == LocalName(j, RemoteName(j))
           chunks == Content[work[j].first]
           fields == [done |-> n]
<1>1. /\ work[j].phase = "copy" /\ n <= Len(chunks) /\ IsTree(disk, Chunk) /\ DOMAIN work = Jobs
      /\ {"phase", "place", "files", "dirs", "cut", "first", "done"} \subseteq DOMAIN work[j]
      /\ work[j].first \in DOMAIN Content /\ work[j].done \in 0 .. Len(chunks) /\ IsFile(disk, path)
  BY DEF ExtractChunk, Is, Phase, ExtractStands, ExtractTypeOK, Standing
<1>2. disk' = WriteChunk(disk, path, n, chunks[n]) /\ Put(j, fields)
  <2>1. ~Fail(j)
    BY <1>1, GotoGives DEF Fail
  <2> QED BY <2>1 DEF ExtractChunk
<1>3. chunks \in Seq(Chunk) /\ Len(chunks) \in Nat
  BY <1>1, ToolsAssumption, LenProperties
<1>4. n \in Nat \ {0} /\ n \in 1 .. Len(chunks)
  BY <1>1, <1>3
<1>5. chunks[n] \in Chunk /\ Hole \in Chunk
  BY <1>3, <1>4, ToolsAssumption, LenProperties
<1>6. DOMAIN fields = {"done"} /\ fields["done"] = n
  OBVIOUS
<1> HIDE DEF fields, n
<1>7. /\ work'[j].done = n
      /\ \A f \in {"phase", "first", "place", "files", "dirs", "cut"} : work'[j][f] = work[j][f]
  BY <1>1, <1>2, <1>6, PutGives
<1>8. RemoteName(j)' = RemoteName(j)
  BY <1>7 DEF RemoteName
<1> HIDE DEF chunks, path
<1>9. Spares(disk, disk', {path})
  <2>1. disk' \in Alike(disk, Chunk, path)
    BY <1>1, <1>2, <1>4, <1>5, AlikeTree, WritesChunk
  <2> QED BY <2>1, AlikeSpares
<1> QED BY <1>1, <1>2, <1>3, <1>4, <1>7, <1>8, <1>9 DEF n, path, chunks

LEMMA TrueOn ==
  ASSUME NEW j \in Jobs, ExtractStands(j), ExtractChunk(j), DiskTrue(j), job' = job,
         before'[j] = before[j], work'[j].phase # "failed"
  PROVE  DiskTrue(j)'
<1> DEFINE n == work[j].done + 1
           path == LocalName(j, RemoteName(j))
           chunks == Content[work[j].first]
<1>1. /\ work[j].phase = "copy" /\ work[j].done \in 0 .. Len(chunks) /\ n \in 1 .. Len(chunks)
      /\ chunks \in Seq(Chunk) /\ Len(chunks) \in Nat /\ IsFile(disk, path)
      /\ disk' = WriteChunk(disk, path, n, chunks[n]) /\ Spares(disk, disk', {path})
      /\ work'[j].phase = "copy" /\ work'[j].first = work[j].first /\ work'[j].done = n
      /\ RemoteName(j)' = RemoteName(j)
  BY ChunkGives
<1>2. chunks = VolumeContent(j, RemoteName(j)) /\ disk[path].content = SubSeq(chunks, 1, work[j].done)
  BY <1>1 DEF DiskTrue, Phase
<1>3. n \in 0 .. Len(chunks) /\ work[j].done < Len(chunks)
  BY <1>1
<1>4. Written(disk[path].content, n, chunks[n]) = SubSeq(chunks, 1, n)
  <2> HIDE DEF chunks
  <2> QED BY <1>1, <1>2, <1>3, FirstChunks
<1>5. IsPrefix(SubSeq(chunks, 1, n), chunks)
  <2> HIDE DEF chunks, n
  <2> QED BY <1>1, <1>3, FirstChunks
<1>6. Content[work'[j].first] = chunks
  BY <1>1
<1>7. disk'[path].content = SubSeq(chunks, 1, n)
  <2> HIDE DEF chunks, path, n
  <2>1. path \in DOMAIN disk /\ disk[path] \in [kind : {"file"}, content : Seq(Chunk)]
    BY <1>1 DEF IsFile, Exists, IsTree, Dir, ExtractStands, Standing
  <2> QED BY <1>1, <1>4, <2>1 DEF WriteChunk
<1> HIDE DEF chunks, n
<1> QED BY <1>1, <1>2, <1>5, <1>6, <1>7, TrueAtWork

\* Whatever step an extraction makes, as long as it goes on.
LEMMA TrueGoesOn ==
  ASSUME TypeOK, NEW j \in Jobs, job[j].kind = "extract", Click(j) \/ (Step(j) /\ DiskTrue(j)),
         ~Ended(j)'
  PROVE  DiskTrue(j)'
<1>1. ExtractStands(j) /\ job' = job /\ DOMAIN work = Jobs /\ "phase" \in DOMAIN work[j]
  BY DEF TypeOK, ExtractStands, Standing, JobTypeOK, Click, Step
<1>2. work'[j].phase \notin {"idle", "done", "failed", "lost"}
  BY DEF Ended, Phase
<1>3. CASE Click(j)
  <2>1. CallExtract(j) /\ before'[j] = disk
    BY <1>3 DEF Click, ClickUnpack, ClickPack, ClickUpload, Is, TypeOK
  <2> DEFINE fields == [phase |-> "open", cut |-> FALSE, files |-> <<>>,
                        dirs |-> <<job[j].sources[1]>>]
  <2>2. Put(j, fields) /\ disk' = disk /\ "phase" \in DOMAIN fields /\ fields["phase"] = "open"
    BY <2>1 DEF CallExtract
  <2> HIDE DEF fields
  <2>3. work'[j].phase = "open"
    BY <1>1, <2>2, PutGives
  <2> QED BY <1>1, <2>1, <2>2, <2>3, TrueWithoutWriting
<1>4. CASE Step(j) /\ DiskTrue(j)
  <2>1. ExtractStep(j) /\ before' = before
    BY <1>4 DEF Step, UnpackStep, OpenImage, UnpackDir, UnpackFile, EntryFails, UnpackChunk,
       EndOfImage, PackStep, CreateImage, ScanFolder, PackChunk, FinishImage, PackFails,
       DropBuffer, UploadStep, Connect, ScanEntry, LeaveDir, ScanEnds, MakeBase, MakeParent,
       StartPut, SendChunk, EndPut, Is
  <2>2. ~Fail(j) /\ ~Goto(j, "done")
    BY <1>1, <1>2, GotoGives DEF Fail
  <2>3. CASE OpenVolume(j)
    <3>1. Goto(j, "list") /\ disk' = disk
      BY <2>2, <2>3 DEF OpenVolume
    <3>2. work'[j].phase = "list"
      BY <1>1, <3>1, GotoGives
    <3> QED BY <1>1, <1>4, <2>1, <3>1, <3>2, TrueWithoutWriting
  <2>4. CASE ListDir(j)
    <3>1. work[j].phase = "list" /\ disk' = disk
          /\ \E files, dirs, cut : Put(j, [files |-> files, dirs |-> dirs, cut |-> cut])
      BY <2>2, <2>4 DEF ListDir, Is, Phase
    <3>2. PICK files, dirs, cut : Put(j, [files |-> files, dirs |-> dirs, cut |-> cut])
      BY <3>1
    <3> DEFINE fields == [files |-> files, dirs |-> dirs, cut |-> cut]
    <3>3. Put(j, fields) /\ "phase" \notin DOMAIN fields
      BY <3>2
    <3> HIDE DEF fields
    <3>4. work'[j].phase = "list"
      BY <1>1, <3>1, <3>3, PutGives
    <3> QED BY <1>1, <1>4, <2>1, <3>1, <3>4, TrueWithoutWriting
  <2>5. CASE ListEnds(j)
    <3> DEFINE fields == [phase |-> "create", place |-> 1]
    <3>1. Put(j, fields) /\ disk' = disk /\ "phase" \in DOMAIN fields /\ fields["phase"] = "create"
      BY <2>2, <2>5 DEF ListEnds
    <3> HIDE DEF fields
    <3>2. work'[j].phase = "create"
      BY <1>1, <3>1, PutGives
    <3> QED BY <1>1, <1>4, <2>1, <3>1, <3>2, TrueWithoutWriting
  <2>6. CASE EndFile(j)
    <3> DEFINE fields == [phase |-> IF work[j].place < Len(work[j].files) THEN "create" ELSE "done",
                          place |-> work[j].place + 1]
    <3>1. /\ Put(j, fields) /\ disk' = disk /\ "phase" \in DOMAIN fields
          /\ fields["phase"] \in {"create", "done"}
      BY <2>6 DEF EndFile
    <3> HIDE DEF fields
    <3>2. work'[j].phase \in {"create", "done"}
      BY <1>1, <3>1, PutGives
    <3>3. work'[j].phase # "copy"
      BY <3>2
    <3> QED BY <1>1, <1>4, <2>1, <3>1, <3>3, TrueWithoutWriting
  <2>7. CASE StartFile(j)
    BY <1>1, <1>2, <1>4, <2>1, <2>7, TrueStarted
  <2>8. CASE ExtractChunk(j)
    BY <1>1, <1>2, <1>4, <2>1, <2>8, TrueOn
  <2> QED BY <2>1, <2>3, <2>4, <2>5, <2>6, <2>7, <2>8 DEF ExtractStep
<1> QED BY <1>3, <1>4

\* It writes to the file at work only.
LEMMA ExtractSpares ==
  ASSUME NEW j \in Jobs, ExtractStands(j), ExtractStep(j) \/ CallExtract(j)
  PROVE  Spares(disk, disk', Under(Dest(j)))
<1> DEFINE path == LocalName(j, RemoteName(j))
           made == MakeDirs(disk, Front(path))
           U == Under(Dest(j))
<1>1. disk' = disk => Spares(disk, disk', U)
  BY DEF Spares
<1>2. work[j].phase \in {"create", "copy"} => path \in U
  BY FileAtWork, LocalNameIs DEF ExtractStands
<1>3. CASE StartFile(j)
  <2>1. /\ work[j].phase = "create"
        /\ disk' = disk \/ disk' = made \/ disk' = Create(made, path)
    BY <1>3 DEF StartFile, Is, Phase
  <2>2. Spares(disk, made, U)
    BY MakeDirsSpares
  <2>3. path \in U
    BY <1>2, <2>1
  <2> HIDE DEF made, path, U
  <2>4. Spares(made, Create(made, path), U)
    BY <2>3, CreateSpares
  <2>5. Spares(disk, Create(made, path), U)
    BY <2>2, <2>4, SparesOn
  <2> QED BY <1>1, <2>1, <2>2, <2>5 DEF U
<1>4. CASE ExtractChunk(j)
  <2> DEFINE n == work[j].done + 1
             chunks == Content[work[j].first]
  <2>1. /\ work[j].phase = "copy" /\ n <= Len(chunks) /\ IsTree(disk, Chunk)
        /\ work[j].first \in DOMAIN Content /\ work[j].done \in 0 .. Len(chunks)
        /\ IsFile(disk, path)
        /\ disk' = disk \/ disk' = WriteChunk(disk, path, n, chunks[n])
    BY <1>4 DEF ExtractChunk, Is, Phase, ExtractStands, ExtractTypeOK, Standing
  <2>2. chunks \in Seq(Chunk) /\ Len(chunks) \in Nat /\ Hole \in Chunk
    BY <2>1, ToolsAssumption, LenProperties
  <2>3. n \in Nat \ {0} /\ n \in 1 .. Len(chunks)
    BY <2>1, <2>2
  <2>4. path \in U
    BY <1>2, <2>1
  <2> HIDE DEF chunks, n, path
  <2>5. chunks[n] \in Chunk
    BY <2>2, <2>3, LenProperties
  <2>6. CASE disk' = WriteChunk(disk, path, n, chunks[n])
    <3>1. disk' \in Alike(disk, Chunk, path)
      BY <2>1, <2>2, <2>3, <2>5, <2>6, AlikeTree, WritesChunk
    <3> QED BY <2>4, <3>1, AlikeSpares
  <2> QED BY <1>1, <2>1, <2>6
<1>5. CASE CallExtract(j) \/ OpenVolume(j) \/ ListDir(j) \/ ListEnds(j) \/ EndFile(j)
  BY <1>1, <1>5 DEF CallExtract, OpenVolume, ListDir, ListEnds, EndFile
<1> QED BY <1>3, <1>4, <1>5 DEF ExtractStep

\* No job writes outside what was chosen for it; an upload writes nothing here.
LEMMA JobSpares ==
  ASSUME TypeOK, NEW j \in Jobs, Click(j) \/ Step(j)
  PROVE  /\ Spares(disk, disk', Under(Dest(j)))
         /\ job[j].kind = "upload" => disk' = disk
         /\ Step(j) => ~Ended(j)
<1>1. Standing /\ JobTypeOK(j) /\ job' = job
  BY DEF TypeOK, Standing, Click, Step
<1>2. Spares(disk, disk', Under(Dest(j)))
  <2>1. CASE ClickUnpack(j) \/ UnpackStep(j)
    <3>1. job[j].kind = "unpack"
      BY <2>1 DEF ClickUnpack, UnpackStep, OpenImage, UnpackDir, UnpackFile, EntryFails, UnpackChunk,
         EndOfImage, Is
    <3> QED BY <1>1, <2>1, <3>1, UnpackSpares DEF UnpackStands, JobTypeOK
  <2>2. CASE ClickPack(j) \/ PackStep(j)
    <3>1. job[j].kind = "pack"
      BY <2>2 DEF ClickPack, PackStep, CreateImage, ScanFolder, PackChunk, FinishImage, PackFails,
         DropBuffer, Is
    <3> QED BY <1>1, <2>2, <3>1, PackSpares DEF PackStands, JobTypeOK
  <2>3. CASE ClickUpload(j) \/ UploadStep(j)
    <3>1. disk' = disk
      BY <2>3 DEF ClickUpload, UploadStep, Connect, ScanEntry, LeaveDir, ScanEnds, MakeBase,
         MakeParent, StartPut, SendChunk, EndPut
    <3> QED BY <3>1 DEF Spares
  <2>4. CASE CallExtract(j) \/ ExtractStep(j)
    <3>1. job[j].kind = "extract"
      BY <2>4 DEF CallExtract, ExtractStep, OpenVolume, ListDir, ListEnds, StartFile, ExtractChunk,
         EndFile, Is
    <3> QED BY <1>1, <2>4, <3>1, ExtractSpares DEF ExtractStands, JobTypeOK
  <2> QED BY <2>1, <2>2, <2>3, <2>4 DEF Click, Step
<1>3. Step(j) => ~Ended(j)
  <2>1. UnpackStep(j) => ~Ended(j)
    BY DEF UnpackStep, OpenImage, UnpackDir, UnpackFile, EntryFails, UnpackChunk, EndOfImage, Is, Ended
  <2>2. PackStep(j) => ~Ended(j)
    BY DEF PackStep, CreateImage, ScanFolder, PackChunk, FinishImage, PackFails, DropBuffer, Is, Ended
  <2>3. UploadStep(j) => ~Ended(j)
    BY DEF UploadStep, Connect, ScanEntry, LeaveDir, ScanEnds, MakeBase, MakeParent, StartPut,
       SendChunk, EndPut, Is, Ended
  <2>4. ExtractStep(j) => ~Ended(j)
    BY DEF ExtractStep, OpenVolume, ListDir, ListEnds, StartFile, ExtractChunk, EndFile, Is, Ended
  <2> QED BY <2>1, <2>2, <2>3, <2>4 DEF Step
<1>4. job[j].kind = "upload" => disk' = disk
  <2>1. /\ (ClickUnpack(j) \/ UnpackStep(j)) => job[j].kind = "unpack"
        /\ (ClickPack(j) \/ PackStep(j)) => job[j].kind = "pack"
        /\ (CallExtract(j) \/ ExtractStep(j)) => job[j].kind = "extract"
    BY DEF ClickUnpack, UnpackStep, OpenImage, UnpackDir, UnpackFile, EntryFails, UnpackChunk,
       EndOfImage, ClickPack, PackStep, CreateImage, ScanFolder, PackChunk, FinishImage, PackFails,
       DropBuffer, CallExtract, ExtractStep, OpenVolume, ListDir, ListEnds, StartFile, ExtractChunk,
       EndFile, Is
  <2>2. (ClickUpload(j) \/ UploadStep(j)) => disk' = disk
    BY DEF ClickUpload, UploadStep, Connect, ScanEntry, LeaveDir, ScanEnds, MakeBase, MakeParent,
       StartPut, SendChunk, EndPut
  <2> QED BY <2>1, <2>2 DEF Click, Step
<1> QED BY <1>2, <1>3, <1>4

-----------------------------------------------------------------------------
(* What clashes is told. *)

LEMMA ClashBoth ==
  ASSUME NEW j \in Jobs, NEW k \in Jobs, Clash(j, k) PROVE Clash(k, j)
BY Zenon DEF Clash, Overlap

\* Jobs at work that use each other's files are told.
Told ==
  \A j, k \in Jobs : j # k /\ ~Ended(j) /\ ~Ended(k) /\ Clash(j, k) => j \in clashed

LEMMA ToldStays ==
  ASSUME TypeOK, Told, NEW i \in Jobs, Click(i) \/ Step(i) PROVE Told'
<1>1. job' = job /\ \A k \in Jobs \ {i} : work'[k] = work[k]
  BY JobMoves
<1>2. \A j, k : Clash(j, k)' = Clash(j, k)
  BY <1>1 DEF Clash, Reads, Writes, Dest
<1>3. \A k \in Jobs \ {i} : Ended(k)' = Ended(k)
  BY <1>1 DEF Ended, Phase
<1>4. CASE Step(i)
  <2>1. clashed' = clashed /\ ~Ended(i)
    BY <1>4, JobSpares DEF Step
  <2>2. \A k \in Jobs : ~Ended(k)' => ~Ended(k)
    BY <1>3, <2>1
  <2> QED BY <1>2, <2>1, <2>2 DEF Told
<1>5. CASE Click(i)
  <2> DEFINE others == {k \in Jobs \ {i} : ~Ended(k) /\ Clash(i, k)}
  <2>1. clashed' = IF others = {} THEN clashed ELSE clashed \cup others \cup {i}
    BY <1>5 DEF Click
  <2>2. ASSUME NEW j \in Jobs, NEW k \in Jobs, j # k, ~Ended(j)', ~Ended(k)', Clash(j, k)
        PROVE  j \in clashed'
    <3>1. CASE j = i
      <4>1. k \in others
        BY <1>3, <2>2, <3>1
      <4> QED BY <2>1, <3>1, <4>1
    <3>2. CASE k = i
      <4>1. j \in others
        BY <1>3, <2>2, <3>2, ClashBoth
      <4> QED BY <2>1, <4>1
    <3>3. CASE j # i /\ k # i
      <4>1. j \in clashed
        BY <1>3, <2>2, <3>3 DEF Told
      <4> QED BY <2>1, <4>1
    <3> QED BY <3>1, <3>2, <3>3
  <2> QED BY <1>2, <2>2 DEF Told
<1> QED BY <1>4, <1>5

\* Jobs that do not clash with an extraction write elsewhere.
LEMMA WritesElsewhere ==
  ASSUME TypeOK, NEW j \in Jobs, NEW k \in Jobs, job[j].kind = "extract",
         job[k].kind \in {"unpack", "pack", "extract"}, ~Clash(j, k)
  PROVE  Under(Dest(k)) \cap Under(Dest(j)) = {}
<1>1. Dest(j) \in Path /\ Dest(k) \in Path
  BY ChoiceOf DEF TypeOK
<1>2. Dest(j) \in Writes(j) /\ Dest(k) \in Reads(k) \cup Writes(k)
  BY DEF Writes
<1>3. ~IsPrefix(Dest(j), Dest(k)) /\ ~IsPrefix(Dest(k), Dest(j))
  BY <1>2 DEF Clash, Overlap
<1> QED BY <1>1, <1>3, Comparable DEF Under

\* Whatever another job does, it does not do it where an extraction writes, unless they clash.
LEMMA OthersApart ==
  ASSUME TypeOK, Told, NEW i \in Jobs, Click(i) \/ Step(i), NEW j \in Jobs, j # i,
         j \notin clashed, job[j].kind = "extract", ~Ended(j)
  PROVE  \E paths : Spares(disk, disk', paths) /\ paths \cap Under(Dest(j)) = {}
<1>1. CASE disk' = disk
  <2>1. Spares(disk, disk', {}) /\ {} \cap Under(Dest(j)) = {}
    BY <1>1 DEF Spares
  <2> QED BY <2>1
<1>2. CASE disk' # disk
  <2>1. /\ Spares(disk, disk', Under(Dest(i))) /\ (job[i].kind = "upload" => disk' = disk)
        /\ Step(i) => ~Ended(i)
    BY JobSpares
  <2>2. job[i].kind \in {"unpack", "pack", "extract"} /\ Step(i)
    <3>1. Step(i)
      BY <1>2 DEF Click, ClickUnpack, ClickPack, ClickUpload, CallExtract
    <3>2. job[i].kind # "none"
      BY <3>1 DEF Step, UnpackStep, OpenImage, UnpackDir, UnpackFile, EntryFails, UnpackChunk,
         EndOfImage, PackStep, CreateImage, ScanFolder, PackChunk, FinishImage, PackFails,
         DropBuffer, UploadStep, Connect, ScanEntry, LeaveDir, ScanEnds, MakeBase, MakeParent,
         StartPut, SendChunk, EndPut, ExtractStep, OpenVolume, ListDir, ListEnds, StartFile,
         ExtractChunk, EndFile, Is
    <3> QED BY <1>2, <2>1, <3>1, <3>2, ChoiceOf DEF TypeOK
  <2>3. ~Clash(j, i)
    BY <2>1, <2>2 DEF Told
  <2>4. Under(Dest(i)) \cap Under(Dest(j)) = {}
    BY <2>2, <2>3, WritesElsewhere
  <2> QED BY <2>1, <2>4
<1> QED BY <1>1, <1>2

\* What is kept up: extractions that nobody clashed with have put the truth on the disk.
TrueInv ==
  /\ TypeOK /\ Told
  /\ \A j \in Jobs \ clashed : job[j].kind = "extract" /\ ~Ended(j) => DiskTrue(j)

LEMMA InitTrue == Init => TrueInv
<1> SUFFICES ASSUME Init PROVE TrueInv
  OBVIOUS
<1>1. \A j \in Jobs : Ended(j)
  BY DEF Init, Ended, Phase, Idle
<1> QED BY <1>1, InitTyped DEF TrueInv, Told

LEMMA StepTrue == TrueInv /\ [Next]_vars => TrueInv'
<1> SUFFICES ASSUME TrueInv, [Next]_vars PROVE TrueInv'
  OBVIOUS
<1>1. TypeOK /\ Told /\ TypeOK'
  BY StepTyped DEF TrueInv
<1>2. CASE UNCHANGED vars
  <2>1. Told'
    BY <1>1, <1>2 DEF Told, Ended, Phase, Clash, Reads, Writes, Dest, vars
  <2>2. \A j \in Jobs \ clashed' : job'[j].kind = "extract" /\ ~Ended(j)' => DiskTrue(j)'
    BY <1>2 DEF TrueInv, DiskTrue, Ended, Phase, LocalName, RemoteName, VolumeContent, AskVolume, Dest, vars
  <2> QED BY <1>1, <2>1, <2>2 DEF TrueInv
<1>3. ASSUME NEW i \in Jobs, Click(i) \/ Step(i) PROVE TrueInv'
  <2>1. Told'
    BY <1>1, <1>3, ToldStays
  <2>2. /\ job' = job /\ Grows(disk, disk') /\ \A k \in Jobs \ {i} : work'[k] = work[k]
    BY <1>1, <1>3, JobMoves
  <2>3. /\ clashed \subseteq clashed' /\ \A k \in Jobs \ {i} : before'[k] = before[k]
    BY <1>1, <1>3 DEF Click, Step, TypeOK
  <2>4. /\ Spares(disk, disk', Under(Dest(i))) /\ (job[i].kind = "upload" => disk' = disk)
        /\ Step(i) => ~Ended(i)
    BY <1>1, <1>3, JobSpares
  <2>5. ASSUME NEW j \in Jobs, j \notin clashed', job[j].kind = "extract", ~Ended(j)'
        PROVE  DiskTrue(j)'
    <3>1. CASE j = i
      <4>1. Step(i) => DiskTrue(i)
        BY <2>3, <2>4, <2>5, <3>1 DEF TrueInv
      <4> QED BY <1>1, <1>3, <2>5, <3>1, <4>1, TrueGoesOn
    <3>2. CASE j # i
      <4>1. /\ work'[j] = work[j] /\ before'[j] = before[j] /\ DiskTrue(j) /\ ~Ended(j)
        <5>1. work'[j] = work[j] /\ before'[j] = before[j]
          BY <2>2, <2>3, <3>2
        <5>2. ~Ended(j)
          BY <2>5, <5>1 DEF Ended, Phase
        <5> QED BY <2>3, <2>5, <5>1, <5>2 DEF TrueInv
      <4>2. PICK paths : Spares(disk, disk', paths) /\ paths \cap Under(Dest(j)) = {}
        BY <1>1, <1>3, <2>3, <2>5, <3>2, <4>1, OthersApart
      <4> QED BY <1>1, <2>2, <2>5, <4>1, <4>2, TrueStays
    <3> QED BY <3>1, <3>2
  <2> QED BY <1>1, <2>1, <2>2, <2>5 DEF TrueInv
<1> QED BY <1>2, <1>3 DEF Next

\* A file that an extraction has touched is the beginning of the one on the volume,
\* whatever fails on the device or the disk and whatever other jobs do meanwhile, as
\* long as they do not use its files (extract_fatx_directory_recursive).
THEOREM ExtractionsTrue == Spec => []ExtractedIsTrue
<1>1. TrueInv => ExtractedIsTrue
  <2> SUFFICES ASSUME TrueInv, NEW j \in Jobs \ clashed, job[j].kind = "extract", ~Ended(j),
                      NEW path \in VolumeFiles(j, Source(j)), IsFile(disk, LocalName(j, path))
               PROVE  \/ /\ IsFile(before[j], LocalName(j, path))
                         /\ disk[LocalName(j, path)] = before[j][LocalName(j, path)]
                      \/ IsPrefix(disk[LocalName(j, path)].content, VolumeContent(j, path))
    BY DEF ExtractedIsTrue
  <2>1. Standing
    BY DEF TrueInv, TypeOK, Standing
  <2>2. Source(j) \in AbsolutePaths(Names)
    <3>1. job[j].sources \in Seq(AbsolutePaths(Names)) \ {<<>>}
      BY <2>1, ChoiceOf DEF Standing
    <3> QED BY <3>1, EmptySeq, LenProperties DEF Source
  <2>3. path \in AbsolutePaths(Names)
    BY <2>1, <2>2, VolumeFilesTyped
  <2> QED BY <2>3 DEF TrueInv, DiskTrue
<1> QED BY <1>1, InitTrue, StepTrue, PTL DEF Spec

-----------------------------------------------------------------------------
(* What an extraction has still to do. *)

\* As long as no listing was cut short: what has been shown is in the list of files,
\* or still below a directory on the stack.
Gathered(j) ==
  /\ \A x \in ToSet(work[j].dirs) : Len(Source(j)) <= Len(x)
  /\ \A d \in LedTo(j, Source(j)) :
       \/ Kids(j, d, "file") \subseteq ToSet(work[j].files)
       \/ \E x \in ToSet(work[j].dirs) : Begins(x, d)

\* What is added to the list and to the stack.
Added(old, path, entries, kind) ==
  LET shown == Only(entries, {e \in ToSet(entries) : e.kind = kind})
  IN old \o [i \in DOMAIN shown |-> Append(path, shown[i].name)]

LEMMA ListAdds ==
  ASSUME NEW path \in AbsolutePaths(Names), NEW old \in Seq(AbsolutePaths(Names)),
         NEW entries \in Seq(Thing), NEW kind
  PROVE  LET new == ToSet(Added(old, path, entries, kind))
         IN /\ ToSet(old) \subseteq new
            /\ \A e \in ToSet(entries) : e.kind = kind => Append(path, e.name) \in new
            /\ \A x \in new : x \in ToSet(old) \/ Len(x) = Len(path) + 1
<1> DEFINE A == AbsolutePaths(Names)
           E == {e \in ToSet(entries) : e.kind = kind}
           shown == Only(entries, E)
           more == [i \in DOMAIN shown |-> Append(path, shown[i].name)]
           new == Added(old, path, entries, kind)
<1>1. shown \in Seq(Thing \cap E) /\ more \in Seq(A) /\ old \in Seq(A)
  BY OnlyTyped, ShownPaths
<1>2. \A e \in E : \E i \in DOMAIN shown : shown[i] = e
  <2>1. ASSUME NEW e \in E PROVE \E i \in DOMAIN shown : shown[i] = e
    <3>1. PICK n \in 1 .. Len(entries) : entries[n] = e
      BY LenProperties DEF ToSet
    <3>2. entries[n] \in E
      BY <2>1, <3>1
    <3> HIDE DEF E
    <3>3. \E k \in DOMAIN Only(entries, E) : Only(entries, E)[k] = entries[n]
      BY <3>2, OnlyHas
    <3> QED BY <3>1, <3>3
  <2> QED BY <2>1
<1>3. new = old \o more
  BY DEF Added
<1> HIDE DEF shown, E, new
<1>4. \A i \in DOMAIN shown : shown[i].name \in Names
  BY <1>1, LenProperties DEF Thing
<1>5. DOMAIN more = DOMAIN shown /\ \A i \in DOMAIN shown : more[i] = Append(path, shown[i].name)
  OBVIOUS
<1>6. \A i \in DOMAIN more : Len(more[i]) = Len(path) + 1
  <2>1. ASSUME NEW i \in DOMAIN shown PROVE Len(Append(path, shown[i].name)) = Len(path) + 1
    <3>1. path \in Seq(Names \cup {Root}) /\ shown[i].name \in Names \cup {Root}
      BY <1>4 DEF AbsolutePaths
    <3> QED BY <3>1, AppendProperties
  <2> QED BY <1>5, <2>1
<1> HIDE DEF more, A
<1>7. /\ Len(old) \in Nat /\ Len(more) \in Nat /\ DOMAIN old = 1 .. Len(old) /\ DOMAIN more = 1 .. Len(more)
      /\ DOMAIN new = 1 .. Len(old) + Len(more)
      /\ \A i \in 1 .. Len(old) + Len(more) :
           new[i] = IF i <= Len(old) THEN old[i] ELSE more[i - Len(old)]
  <2>1. /\ new \in Seq(A) /\ Len(new) = Len(old) + Len(more)
        /\ \A i \in 1 .. Len(old) + Len(more) :
             new[i] = IF i <= Len(old) THEN old[i] ELSE more[i - Len(old)]
    BY <1>1, <1>3, ConcatProperties
  <2> QED BY <1>1, <2>1, LenProperties
<1>8. ASSUME NEW i \in DOMAIN old PROVE i \in DOMAIN new /\ new[i] = old[i]
  BY <1>7
<1>9. ASSUME NEW i \in DOMAIN more PROVE Len(old) + i \in DOMAIN new /\ new[Len(old) + i] = more[i]
  <2>1. Len(old) + i \in 1 .. Len(old) + Len(more) /\ ~(Len(old) + i <= Len(old)) /\ (Len(old) + i) - Len(old) = i
    BY <1>7
  <2> QED BY <1>7, <2>1
<1>10. ToSet(old) \subseteq ToSet(new)
  BY <1>8 DEF ToSet
<1>11. ASSUME NEW e \in ToSet(entries), e.kind = kind PROVE Append(path, e.name) \in ToSet(new)
  <2>1. PICK i \in DOMAIN shown : shown[i] = e
    BY <1>2, <1>11 DEF E
  <2>2. more[i] = Append(path, e.name) /\ i \in DOMAIN more
    BY <1>5, <2>1
  <2> QED BY <1>9, <2>2 DEF ToSet
<1>12. ASSUME NEW x \in ToSet(new) PROVE x \in ToSet(old) \/ Len(x) = Len(path) + 1
  <2>1. PICK i \in 1 .. Len(old) + Len(more) : x = new[i]
    BY <1>7 DEF ToSet
  <2>2. CASE i <= Len(old)
    <3>1. i \in DOMAIN old /\ x = old[i]
      BY <1>7, <2>1, <2>2
    <3> QED BY <3>1 DEF ToSet
  <2>3. CASE ~(i <= Len(old))
    <3>1. i - Len(old) \in 1 .. Len(more)
      BY <1>7, <2>3
    <3>2. i - Len(old) \in DOMAIN more /\ x = more[i - Len(old)]
      BY <1>7, <2>1, <2>3, <3>1
    <3> QED BY <1>6, <3>2
  <2> QED BY <2>2, <2>3
<1> QED BY <1>10, <1>11, <1>12 DEF new

\* A directory is taken off the stack when its entries have been gathered.
LEMMA DirGathered ==
  ASSUME NEW j \in Jobs, ExtractStands(j), work[j].phase = "list", work[j].dirs # <<>>, Gathered(j),
         job' = job, NEW path, path = Last(work[j].dirs),
         NEW list, list = AskVolume(j, "list", path), list.kind = "list",
         work'[j].files = FilesAfter(j, path, list.entries),
         work'[j].dirs = DirsAfter(j, path, list.entries)
  PROVE  Gathered(j)'
<1> DEFINE A == AbsolutePaths(Names)
           files == work[j].files
           dirs == work[j].dirs
           front == Front(dirs)
<1>1. files \in Seq(A) /\ dirs \in Seq(A) /\ Standing /\ job[j].kind = "extract"
  BY DEF ExtractStands, ExtractTypeOK
<1>2. /\ front \in Seq(A) /\ path \in A
      /\ ToSet(dirs) = ToSet(front) \cup {path}
  <2> HIDE DEF A
  <2>1. /\ front \in Seq(A) /\ Len(dirs) \in Nat \ {0} /\ path = dirs[Len(dirs)]
        /\ Len(front) = Len(dirs) - 1 /\ \A i \in 1 .. Len(dirs) - 1 : front[i] = dirs[i]
    BY <1>1, FrontOf
  <2>2. DOMAIN dirs = 1 .. Len(dirs) /\ DOMAIN front = 1 .. Len(dirs) - 1
    BY <1>1, <2>1, LenProperties
  <2>3. path \in A
    BY <1>1, <2>1, LenProperties
  <2>4. \A x : x \in ToSet(dirs) <=> \E i \in 1 .. Len(dirs) : x = dirs[i]
    BY <2>2 DEF ToSet
  <2>5. \A x : x \in ToSet(front) <=> \E i \in 1 .. Len(dirs) - 1 : x = dirs[i]
    BY <2>1, <2>2 DEF ToSet
  <2>6. \A i \in 1 .. Len(dirs) : i = Len(dirs) \/ i \in 1 .. Len(dirs) - 1
    BY <2>1
  <2>7. Len(dirs) \in 1 .. Len(dirs) /\ \A i \in 1 .. Len(dirs) - 1 : i \in 1 .. Len(dirs)
    BY <2>1
  <2> HIDE DEF dirs, front
  <2>8. \A x : x \in ToSet(dirs) <=> x \in ToSet(front) \/ x = path
    BY <2>1, <2>4, <2>5, <2>6, <2>7
  <2> QED BY <2>1, <2>3, <2>8
<1>3. list.entries \in Seq(Thing) /\ Entries(j, path) = ToSet(list.entries)
  BY <1>1, <1>2, AnswersTyped DEF Entries
<1>4. /\ ToSet(files) \subseteq ToSet(work'[j].files)
      /\ Kids(j, path, "file") \subseteq ToSet(work'[j].files)
  <2>1. /\ ToSet(files) \subseteq ToSet(work'[j].files)
        /\ \A e \in ToSet(list.entries) : e.kind = "file" => Append(path, e.name) \in ToSet(work'[j].files)
    <3>1. work'[j].files = Added(files, path, list.entries, "file")
      BY DEF FilesAfter, Added
    <3> HIDE DEF files, dirs, front
    <3> QED BY <1>1, <1>2, <1>3, <3>1, ListAdds
  <2> QED BY <1>3, <2>1 DEF Kids
<1>5. /\ ToSet(front) \subseteq ToSet(work'[j].dirs)
      /\ Kids(j, path, "dir") \subseteq ToSet(work'[j].dirs)
      /\ \A x \in ToSet(work'[j].dirs) : x \in ToSet(front) \/ Len(x) = Len(path) + 1
  <2>1. /\ ToSet(front) \subseteq ToSet(work'[j].dirs)
        /\ \A e \in ToSet(list.entries) : e.kind = "dir" => Append(path, e.name) \in ToSet(work'[j].dirs)
        /\ \A x \in ToSet(work'[j].dirs) : x \in ToSet(front) \/ Len(x) = Len(path) + 1
    <3>1. work'[j].dirs = Added(front, path, list.entries, "dir")
      BY DEF DirsAfter, Added
    <3> HIDE DEF files, dirs, front
    <3> QED BY <1>1, <1>2, <1>3, <3>1, ListAdds
  <2> QED BY <1>3, <2>1 DEF Kids
<1>6. /\ Source(j)' = Source(j) /\ LedTo(j, Source(j))' = LedTo(j, Source(j))
      /\ \A d, kind : Kids(j, d, kind)' = Kids(j, d, kind)
  BY DEF Source, LedTo, Kids, Entries, AskVolume
<1>7. Source(j) \in A /\ Len(Source(j)) \in Nat /\ Len(path) \in Nat
  <2>1. job[j].sources \in Seq(A) \ {<<>>}
    BY <1>1, ChoiceOf DEF Standing
  <2>2. Source(j) \in A
    BY <2>1, EmptySeq, LenProperties DEF Source
  <2> QED BY <1>2, <2>2, LenProperties DEF AbsolutePaths
<1> HIDE DEF A, files, front, dirs
<1>8. \A x \in ToSet(dirs) : Len(Source(j)) <= Len(x)
  BY DEF Gathered, dirs
<1>9. ASSUME NEW x \in ToSet(work'[j].dirs) PROVE Len(Source(j)) <= Len(x)
  <2>1. CASE x \in ToSet(front)
    BY <1>2, <1>8, <2>1
  <2>2. CASE Len(x) = Len(path) + 1
    <3>1. Len(Source(j)) <= Len(path)
      BY <1>2, <1>8
    <3> QED BY <1>7, <2>2, <3>1
  <2> QED BY <1>5, <2>1, <2>2
<1>10. ASSUME NEW d \in LedTo(j, Source(j))
       PROVE  \/ Kids(j, d, "file") \subseteq ToSet(work'[j].files)
              \/ \E x \in ToSet(work'[j].dirs) : Begins(x, d)
  <2>1. CASE Kids(j, d, "file") \subseteq ToSet(files)
    BY <1>4, <2>1
  <2>2. CASE d = path
    BY <1>4, <2>2
  <2>3. ASSUME NEW x \in ToSet(front), Begins(x, d) PROVE \E y \in ToSet(work'[j].dirs) : Begins(y, d)
    BY <1>5, <2>3
  <2>4. CASE Begins(path, d) /\ d # path
    <3>1. Len(Source(j)) <= Len(path)
      BY <1>2, <1>8
    <3>2. \E p \in Kids(j, path, "dir") : Begins(p, d)
      BY <1>1, <1>2, <1>7, <2>4, <3>1, BelowKids DEF A
    <3> QED BY <1>5, <3>2
  <2>5. Kids(j, d, "file") \subseteq ToSet(files) \/ \E x \in ToSet(dirs) : Begins(x, d)
    BY DEF Gathered, files, dirs
  <2> QED BY <1>2, <2>1, <2>2, <2>3, <2>4, <2>5
<1> QED BY <1>6, <1>9, <1>10 DEF Gathered

\* The list of files and the stack are as they were.
LEMMA GatheredSame ==
  ASSUME NEW j \in Jobs, Gathered(j), job' = job, work'[j].files = work[j].files,
         work'[j].dirs = work[j].dirs
  PROVE  Gathered(j)'
<1>1. /\ Source(j)' = Source(j) /\ LedTo(j, Source(j))' = LedTo(j, Source(j))
      /\ \A d, kind : Kids(j, d, kind)' = Kids(j, d, kind)
  BY DEF Source, LedTo, Kids, Entries, AskVolume
<1> QED BY <1>1 DEF Gathered

\* The file at path p of the volume is on the disk, all of it.
Whole(j, p) ==
  IsFile(disk, LocalName(j, p)) /\ disk[LocalName(j, p)].content = VolumeContent(j, p)

\* After the listings: the stack is empty, and the files before the one at work are whole,
\* but for one that has the same path as that, and is being copied again.
Copied(j) ==
  Phase(j) \in {"create", "copy"} =>
    /\ work[j].dirs = <<>>
    /\ \A i \in 1 .. work[j].place - 1 :
         Whole(j, work[j].files[i]) \/ (Phase(j) = "copy" /\ work[j].files[i] = RemoteName(j))

LEMMA WholeStays ==
  ASSUME NEW j, NEW p, Whole(j, p), job' = job, Grows(disk, disk'), NEW paths,
         Spares(disk, disk', paths), LocalName(j, p) \notin paths
  PROVE  Whole(j, p)'
<1>1. LocalName(j, p)' = LocalName(j, p) /\ VolumeContent(j, p)' = VolumeContent(j, p)
  BY DEF LocalName, Dest, VolumeContent, AskVolume
<1>2. IsFile(disk', LocalName(j, p))
  BY GrowsKeeps DEF Whole
<1> QED BY <1>1, <1>2 DEF Whole, Spares

\* The paths of the files up to the one at work.
LEMMA FilesUpTo ==
  ASSUME NEW j \in Jobs, ExtractStands(j), work[j].phase \in {"create", "copy"}
  PROVE  /\ work[j].place \in 1 .. Len(work[j].files) /\ Len(work[j].files) \in Nat
         /\ DOMAIN work[j].files = 1 .. Len(work[j].files)
         /\ \A i \in 1 .. Len(work[j].files) : work[j].files[i] \in AbsolutePaths(Names)
BY LenProperties DEF ExtractStands, ExtractTypeOK

\* Other jobs that write elsewhere.
LEMMA CopiedStays ==
  ASSUME NEW j \in Jobs, ExtractStands(j), Copied(j), job' = job, work'[j] = work[j],
         Grows(disk, disk'), NEW paths, Spares(disk, disk', paths),
         paths \cap Under(Dest(j)) = {}
  PROVE  Copied(j)'
<1>1. Phase(j)' = Phase(j) /\ RemoteName(j)' = RemoteName(j)
  BY DEF Phase, RemoteName
<1>2. ASSUME Phase(j) \in {"create", "copy"}, NEW i \in 1 .. work[j].place - 1, Whole(j, work[j].files[i])
      PROVE  Whole(j, work[j].files[i])'
  <2>1. work[j].files[i] \in AbsolutePaths(Names)
    <3>1. work[j].phase \in {"create", "copy"}
      BY <1>2 DEF Phase
    <3>2. i \in 1 .. Len(work[j].files)
      BY <3>1, FilesUpTo
    <3> QED BY <3>1, <3>2, FilesUpTo
  <2>2. LocalName(j, work[j].files[i]) \notin paths
    BY <2>1, LocalNameIs DEF ExtractStands
  <2>3. \A p : p = work[j].files[i] => Whole(j, p)'
    <3> SUFFICES ASSUME NEW p, p = work[j].files[i] PROVE Whole(j, p)'
      OBVIOUS
    <3> QED BY <1>2, <2>2, WholeStays
  <2> QED BY <2>3
<1> QED BY <1>1, <1>2 DEF Copied

\* A step that writes to the file at work only.
LEMMA CopiedAtWork ==
  ASSUME NEW j \in Jobs, ExtractStands(j), work[j].phase \in {"create", "copy"}, Copied(j),
         job' = job, Grows(disk, disk'), Spares(disk, disk', {LocalName(j, RemoteName(j))}),
         work'[j].phase = "copy", work'[j].place = work[j].place, work'[j].files = work[j].files,
         work'[j].dirs = work[j].dirs, RemoteName(j)' = RemoteName(j)
  PROVE  Copied(j)'
<1> DEFINE at(i) == work[j].files[i]
<1>1. ASSUME NEW i \in 1 .. work[j].place - 1 PROVE Whole(j, at(i))' \/ at(i) = RemoteName(j)
  <2>1. CASE at(i) # RemoteName(j)
    <3>1. at(i) \in AbsolutePaths(Names) /\ RemoteName(j) \in AbsolutePaths(Names)
      <4>1. i \in 1 .. Len(work[j].files)
        BY FilesUpTo
      <4> QED BY <4>1, FilesUpTo, FileAtWork
    <3>2. LocalName(j, at(i)) \notin {LocalName(j, RemoteName(j))}
      BY <2>1, <3>1, LocalNameTells DEF ExtractStands
    <3>3. Whole(j, at(i))
      BY <2>1 DEF Copied, Phase
    <3>4. \A p : p = at(i) => Whole(j, p)'
      <4> SUFFICES ASSUME NEW p, p = at(i) PROVE Whole(j, p)'
        OBVIOUS
      <4> HIDE DEF at
      <4> QED BY <3>2, <3>3, WholeStays
    <3> QED BY <3>4
  <2> QED BY <2>1
<1>2. work[j].dirs = <<>>
  BY DEF Copied, Phase
<1> QED BY <1>1, <1>2 DEF Copied, Phase

\* A file that has come to its end is whole, and so are all before it.
LEMMA CopiedWhole ==
  ASSUME NEW j \in Jobs, ExtractStands(j), EndFile(j), DiskTrue(j), Copied(j), job' = job
  PROVE  /\ work[j].dirs = <<>>
         /\ \A i \in 1 .. work[j].place : \A p : p = work[j].files[i] => Whole(j, p)'
<1>1. work[j].phase = "copy" /\ disk' = disk /\ work[j].done = Len(Content[work[j].first])
  BY DEF EndFile, Is, Phase
<1>2. work[j].dirs = <<>> /\ work[j].place \in Nat
  <2>1. work[j].place \in 1 .. Len(work[j].files)
    BY <1>1, FilesUpTo
  <2> QED BY <1>1, <2>1 DEF Copied, Phase
<1>3. Whole(j, RemoteName(j))
  <2> DEFINE chunks == Content[work[j].first]
             path == LocalName(j, RemoteName(j))
  <2>1. /\ chunks = VolumeContent(j, RemoteName(j))
        /\ disk[path].content = SubSeq(chunks, 1, Len(chunks))
    BY <1>1 DEF DiskTrue, Phase
  <2>2. IsFile(disk, path) /\ work[j].first \in DOMAIN Content
    BY <1>1 DEF ExtractStands, ExtractTypeOK
  <2>3. SubSeq(chunks, 1, Len(chunks)) = chunks
    <3>1. chunks \in Seq(Chunk)
      BY <2>2, ToolsAssumption
    <3> QED BY <3>1, SubSeqFull
  <2> QED BY <2>1, <2>2, <2>3 DEF Whole
<1>4. ASSUME NEW i \in 1 .. work[j].place PROVE Whole(j, work[j].files[i])
  <2>1. CASE i = work[j].place
    BY <1>3, <2>1 DEF RemoteName
  <2>2. CASE i # work[j].place
    <3>1. i \in 1 .. work[j].place - 1
      BY <1>2, <2>2
    <3> QED BY <1>1, <1>3, <3>1 DEF Copied, Phase
  <2> QED BY <2>1, <2>2
<1>5. \A p : Whole(j, p) => Whole(j, p)'
  BY <1>1 DEF Whole, LocalName, Dest, VolumeContent, AskVolume
<1> QED BY <1>2, <1>4, <1>5

\* All that is done when an extraction is: what was gathered is whole.
LEMMA WholeWhenDone ==
  ASSUME NEW j \in Jobs, ExtractStands(j), ExtractStep(j), DiskTrue(j), Gathered(j), Copied(j),
         ~work[j].cut, job' = job, work'[j].phase = "done"
  PROVE  \A p \in VolumeFiles(j, Source(j)) : Whole(j, p)'
<1>1. DOMAIN work = Jobs /\ "phase" \in DOMAIN work[j] /\ Standing /\ job[j].kind = "extract"
  BY DEF ExtractStands, Standing
<1>2. ASSUME work[j].dirs = <<>>, NEW p \in VolumeFiles(j, Source(j)) PROVE p \in ToSet(work[j].files)
  <2>1. Source(j) \in AbsolutePaths(Names)
    <3>1. job[j].sources \in Seq(AbsolutePaths(Names)) \ {<<>>}
      BY <1>1, ChoiceOf DEF Standing
    <3> QED BY <3>1, EmptySeq, LenProperties DEF Source
  <2>2. PICK d \in LedTo(j, Source(j)) : p \in Kids(j, d, "file")
    BY <1>1, <1>2, <2>1, VolumeFilesReached
  <2>3. \A x \in ToSet(work[j].dirs) : FALSE
    BY <1>2 DEF ToSet
  <2> QED BY <2>2, <2>3 DEF Gathered
<1>3. CASE ListEnds(j)
  <2>1. work[j].dirs = <<>>
    BY <1>3 DEF ListEnds
  <2>2. work[j].files = <<>>
    <3> DEFINE fields == [phase |-> "create", place |-> 1]
    <3>1. "phase" \in DOMAIN fields /\ fields["phase"] = "create"
      OBVIOUS
    <3> HIDE DEF fields
    <3>2. ~Put(j, fields)
      BY <1>1, <3>1, PutGives
    <3> QED BY <1>3, <3>2 DEF ListEnds, fields
  <2>3. ToSet(work[j].files) = {}
    BY <2>2 DEF ToSet
  <2> QED BY <1>2, <2>1, <2>3
<1>4. CASE EndFile(j)
  <2> DEFINE fields == [phase |-> IF work[j].place < Len(work[j].files) THEN "create" ELSE "done",
                        place |-> work[j].place + 1]
  <2>1. /\ Put(j, fields) /\ "phase" \in DOMAIN fields
        /\ fields["phase"] = IF work[j].place < Len(work[j].files) THEN "create" ELSE "done"
    BY <1>4 DEF EndFile
  <2> HIDE DEF fields
  <2>2. ~(work[j].place < Len(work[j].files))
    BY <1>1, <2>1, PutGives
  <2>3. work[j].place = Len(work[j].files) /\ DOMAIN work[j].files = 1 .. Len(work[j].files)
    <3>1. work[j].phase = "copy"
      BY <1>4 DEF EndFile, Is, Phase
    <3> QED BY <2>2, <3>1, FilesUpTo
  <2>4. /\ work[j].dirs = <<>>
        /\ \A i \in 1 .. work[j].place : \A p : p = work[j].files[i] => Whole(j, p)'
    BY <1>4, CopiedWhole
  <2>5. \A p \in ToSet(work[j].files) : Whole(j, p)'
    BY <2>3, <2>4 DEF ToSet
  <2> QED BY <1>2, <2>4, <2>5
<1>5. ~OpenVolume(j)
  <2>1. ~Goto(j, "list") /\ ~Fail(j)
    BY <1>1, GotoGives DEF Fail
  <2> QED BY <2>1 DEF OpenVolume
<1>6. ~ListDir(j)
  <2> SUFFICES ASSUME ListDir(j) PROVE FALSE
    OBVIOUS
  <2>1. ~Fail(j) /\ work[j].phase = "list"
    BY <1>1, GotoGives DEF Fail, ListDir, Is, Phase
  <2>2. PICK files, dirs, cut : Put(j, [files |-> files, dirs |-> dirs, cut |-> cut])
    BY <2>1 DEF ListDir
  <2> DEFINE fields == [files |-> files, dirs |-> dirs, cut |-> cut]
  <2>3. Put(j, fields) /\ "phase" \notin DOMAIN fields
    BY <2>2
  <2> HIDE DEF fields
  <2>4. work'[j].phase = "list"
    BY <1>1, <2>1, <2>3, PutGives
  <2> QED BY <2>4
<1>7. ~StartFile(j)
  BY StartGives
<1>8. ~ExtractChunk(j)
  BY ChunkGives
<1> QED BY <1>3, <1>4, <1>5, <1>6, <1>7, <1>8 DEF ExtractStep

\* Whatever step an extraction makes, what it still has to do is on its lists.
LEMMA OwesOn ==
  ASSUME NEW j \in Jobs, ExtractStands(j), job' = job, Grows(disk, disk'),
         \/ CallExtract(j)
         \/ ExtractStep(j) /\ DiskTrue(j) /\ (~work[j].cut => Gathered(j) /\ Copied(j)),
         work'[j].phase \notin {"done", "failed"}, ~work'[j].cut
  PROVE  Gathered(j)' /\ Copied(j)'
<1>1. DOMAIN work = Jobs /\ "phase" \in DOMAIN work[j] /\ Standing /\ job[j].kind = "extract"
  BY DEF ExtractStands, Standing
<1>2. ~Fail(j) /\ ~Goto(j, "done")
  BY <1>1, GotoGives DEF Fail
<1>3. work'[j].phase \notin {"create", "copy"} => Copied(j)'
  BY DEF Copied, Phase
<1>4. work[j].phase \notin {"idle", "done", "failed"} => {"cut", "files", "dirs"} \subseteq DOMAIN work[j]
  BY DEF ExtractStands, ExtractTypeOK
<1>5. CASE CallExtract(j)
  <2> DEFINE fields == [phase |-> "open", cut |-> FALSE, files |-> <<>>, dirs |-> <<job[j].sources[1]>>]
  <2>1. /\ Put(j, fields) /\ {"phase", "dirs"} \subseteq DOMAIN fields
        /\ fields["phase"] = "open" /\ fields["dirs"] = <<Source(j)>>
    BY <1>5 DEF CallExtract, Source
  <2> HIDE DEF fields
  <2>2. work'[j].phase = "open" /\ work'[j].dirs = <<Source(j)>>
    BY <1>1, <2>1, PutGives
  <2>3. ToSet(work'[j].dirs) = {Source(j)}
    BY <2>2 DEF ToSet
  <2>4. \A d \in LedTo(j, Source(j)) : Begins(Source(j), d)
    BY DEF LedTo
  <2>5. Len(Source(j)) <= Len(Source(j))
    <3>1. job[j].sources \in Seq(AbsolutePaths(Names)) \ {<<>>}
      BY <1>1, ChoiceOf DEF Standing
    <3>2. Source(j) \in AbsolutePaths(Names)
      BY <3>1, EmptySeq, LenProperties DEF Source
    <3> QED BY <3>2, LenProperties DEF AbsolutePaths
  <2>6. /\ Source(j)' = Source(j) /\ LedTo(j, Source(j))' = LedTo(j, Source(j))
        /\ \A d, kind : Kids(j, d, kind)' = Kids(j, d, kind)
    BY DEF Source, LedTo, Kids, Entries, AskVolume
  <2>7. Gathered(j)'
    BY <2>3, <2>4, <2>5, <2>6 DEF Gathered
  <2> QED BY <1>3, <2>2, <2>7
<1>6. CASE OpenVolume(j)
  <2>1. Goto(j, "list") /\ work[j].phase = "open"
    BY <1>2, <1>6 DEF OpenVolume, Is, Phase
  <2>2. work'[j].phase = "list" /\ \A f \in {"cut", "files", "dirs"} : work'[j][f] = work[j][f]
    BY <1>1, <1>4, <2>1, GotoGives
  <2>3. Gathered(j)
    BY <1>6, <2>1, <2>2 DEF CallExtract, Is, Phase
  <2> QED BY <1>3, <2>2, <2>3, GatheredSame
<1>7. CASE ListDir(j)
  <2> DEFINE path == Last(work[j].dirs)
             list == AskVolume(j, "list", path)
  <2>1. work[j].phase = "list" /\ work[j].dirs # <<>> /\ list.kind = "list"
    BY <1>2, <1>7 DEF ListDir, Is, Phase
  <2>2. PICK n \in 0 .. Len(list.entries) :
          Put(j, [files |-> FilesAfter(j, path, SubSeq(list.entries, 1, n)),
                  dirs |-> DirsAfter(j, path, SubSeq(list.entries, 1, n)),
                  cut |-> work[j].cut \/ n < Len(list.entries)])
    BY <1>2, <1>7 DEF ListDir
  <2> DEFINE files == FilesAfter(j, path, SubSeq(list.entries, 1, n))
             dirs == DirsAfter(j, path, SubSeq(list.entries, 1, n))
             cut == work[j].cut \/ n < Len(list.entries)
             fields == [files |-> files, dirs |-> dirs, cut |-> cut]
  <2>3. /\ Put(j, fields) /\ DOMAIN fields = {"files", "dirs", "cut"}
        /\ fields["files"] = files /\ fields["dirs"] = dirs /\ fields["cut"] = cut
    BY <2>2
  <2> HIDE DEF fields, files, dirs, cut
  <2>4. /\ work'[j].phase = "list" /\ work'[j].files = files /\ work'[j].dirs = dirs
        /\ work'[j].cut = cut
    BY <1>1, <2>1, <2>3, PutGives
  <2>5. list.entries \in Seq(Thing)
    <3>1. work[j].dirs \in Seq(AbsolutePaths(Names))
      BY <2>1 DEF ExtractStands, ExtractTypeOK
    <3>2. Len(work[j].dirs) \in Nat \ {0} /\ path = work[j].dirs[Len(work[j].dirs)]
      BY <2>1, <3>1, FrontOf
    <3>3. path \in AbsolutePaths(Names)
      BY <3>1, <3>2, LenProperties
    <3> QED BY <1>1, <2>1, <3>3, AnswersTyped
  <2>6. ~work[j].cut /\ SubSeq(list.entries, 1, n) = list.entries
    <3>1. ~work[j].cut /\ ~(n < Len(list.entries))
      BY <2>4 DEF cut
    <3> HIDE DEF list
    <3>2. n = Len(list.entries)
      BY <2>5, <3>1, LenProperties
    <3> QED BY <2>5, <3>1, <3>2, SubSeqFull
  <2>7. /\ work'[j].files = FilesAfter(j, path, list.entries)
        /\ work'[j].dirs = DirsAfter(j, path, list.entries)
    BY <2>4, <2>6 DEF files, dirs
  <2>8. Gathered(j)
    BY <1>7, <2>1, <2>6 DEF CallExtract, Is, Phase
  <2>9. Gathered(j)'
    <3> HIDE DEF path, list
    <3>1. path = Last(work[j].dirs) /\ list = AskVolume(j, "list", path)
      BY DEF path, list
    <3> QED BY <2>1, <2>7, <2>8, <3>1, DirGathered
  <2> QED BY <1>3, <2>4, <2>9
<1>8. CASE ListEnds(j)
  <2> DEFINE fields == [phase |-> "create", place |-> 1]
  <2>1. /\ Put(j, fields) /\ DOMAIN fields = {"phase", "place"}
        /\ fields["phase"] = "create" /\ fields["place"] = 1
        /\ work[j].phase = "list" /\ work[j].dirs = <<>>
    BY <1>2, <1>8 DEF ListEnds, Is, Phase
  <2> HIDE DEF fields
  <2>2. /\ work'[j].phase = "create" /\ work'[j].place = 1
        /\ \A f \in {"cut", "files", "dirs"} : work'[j][f] = work[j][f]
    BY <1>1, <1>4, <2>1, PutGives
  <2>3. Gathered(j)
    BY <1>8, <2>1, <2>2 DEF CallExtract, Is, Phase
  <2>4. Copied(j)'
    BY <2>1, <2>2 DEF Copied
  <2> QED BY <2>2, <2>3, <2>4, GatheredSame
<1>9. CASE StartFile(j)
  <2>1. /\ work[j].phase = "create" /\ Spares(disk, disk', {LocalName(j, RemoteName(j))})
        /\ work'[j].phase = "copy"
        /\ work'[j].place = work[j].place /\ work'[j].files = work[j].files
        /\ work'[j].dirs = work[j].dirs /\ work'[j].cut = work[j].cut
        /\ RemoteName(j)' = RemoteName(j)
    BY <1>9, StartGives
  <2>2. Gathered(j) /\ Copied(j)
    BY <1>9, <2>1 DEF CallExtract, Is, Phase
  <2> QED BY <2>1, <2>2, GatheredSame, CopiedAtWork
<1>10. CASE ExtractChunk(j)
  <2>1. /\ work[j].phase = "copy" /\ Spares(disk, disk', {LocalName(j, RemoteName(j))})
        /\ work'[j].phase = "copy"
        /\ work'[j].place = work[j].place /\ work'[j].files = work[j].files
        /\ work'[j].dirs = work[j].dirs /\ work'[j].cut = work[j].cut
        /\ RemoteName(j)' = RemoteName(j)
    BY <1>10, ChunkGives
  <2>2. Gathered(j) /\ Copied(j)
    BY <1>10, <2>1 DEF CallExtract, Is, Phase
  <2> QED BY <2>1, <2>2, GatheredSame, CopiedAtWork
<1>11. CASE EndFile(j)
  <2> DEFINE phase == IF work[j].place < Len(work[j].files) THEN "create" ELSE "done"
             fields == [phase |-> phase, place |-> work[j].place + 1]
  <2>1. /\ Put(j, fields) /\ DOMAIN fields = {"phase", "place"}
        /\ fields["phase"] = phase /\ fields["place"] = work[j].place + 1
        /\ work[j].phase = "copy"
    BY <1>11 DEF EndFile, Is, Phase
  <2> HIDE DEF fields
  <2>2. /\ work'[j].phase = phase /\ work'[j].place = work[j].place + 1
        /\ \A f \in {"cut", "files", "dirs"} : work'[j][f] = work[j][f]
    BY <1>1, <1>4, <2>1, PutGives
  <2>3. Gathered(j) /\ Copied(j) /\ DiskTrue(j)
    BY <1>11, <2>1, <2>2 DEF CallExtract, Is, Phase
  <2>4. /\ work[j].dirs = <<>>
        /\ \A i \in 1 .. work[j].place : \A p : p = work[j].files[i] => Whole(j, p)'
    BY <1>11, <2>3, CopiedWhole
  <2>5. work[j].place \in Nat
    BY <2>1, FilesUpTo
  <2>6. \A i \in 1 .. work'[j].place - 1 : Whole(j, work[j].files[i])'
    <3>1. work'[j].place - 1 = work[j].place
      BY <2>2, <2>5
    <3>2. work'[j].files = work[j].files
      BY <2>2
    <3> QED BY <2>4, <3>1, <3>2
  <2>7. Copied(j)'
    BY <2>2, <2>4, <2>6 DEF Copied
  <2> QED BY <2>2, <2>3, <2>7, GatheredSame
<1> QED BY <1>5, <1>6, <1>7, <1>8, <1>9, <1>10, <1>11 DEF ExtractStep

\* What is kept up: as long as no listing was cut short, what is still to be done is known.
CompleteInv ==
  /\ TrueInv
  /\ \A j \in Jobs \ clashed :
       job[j].kind = "extract" /\ ~Ended(j) /\ ~work[j].cut => Gathered(j) /\ Copied(j)

LEMMA InitComplete == Init => CompleteInv
<1> SUFFICES ASSUME Init PROVE CompleteInv
  OBVIOUS
<1>1. \A j \in Jobs : Ended(j)
  BY DEF Init, Ended, Phase, Idle
<1> QED BY <1>1, InitTrue DEF CompleteInv

\* Only jobs of a kind make the steps of that kind.
LEMMA StepsOfKind ==
  ASSUME NEW j \in Jobs, Click(j) \/ Step(j), job[j].kind = "extract"
  PROVE  (Click(j) /\ CallExtract(j)) \/ (Step(j) /\ ExtractStep(j))
BY DEF Click, Step, ClickUnpack, ClickPack, ClickUpload, UnpackStep, OpenImage, UnpackDir, UnpackFile,
   EntryFails, UnpackChunk, EndOfImage, PackStep, CreateImage, ScanFolder, PackChunk, FinishImage,
   PackFails, DropBuffer, UploadStep, Connect, ScanEntry, LeaveDir, ScanEnds, MakeBase, MakeParent,
   StartPut, SendChunk, EndPut, Is

LEMMA StepComplete == CompleteInv /\ [Next]_vars => CompleteInv'
<1> SUFFICES ASSUME CompleteInv, [Next]_vars PROVE CompleteInv'
  OBVIOUS
<1>1. TrueInv /\ TrueInv' /\ TypeOK /\ TypeOK' /\ Told
  BY StepTrue DEF CompleteInv, TrueInv
<1>2. CASE UNCHANGED vars
  <2>1. ASSUME NEW j \in Jobs \ clashed, job[j].kind = "extract", ~Ended(j), ~work[j].cut
        PROVE  Gathered(j)' /\ Copied(j)'
    <3>1. Gathered(j) /\ Copied(j)
      BY <2>1 DEF CompleteInv
    <3>2. Gathered(j)'
      BY <1>2, <3>1, GatheredSame DEF vars
    <3>3. Copied(j)'
      BY <1>2, <3>1 DEF Copied, Whole, Phase, RemoteName, LocalName, Dest, VolumeContent, AskVolume, vars
    <3> QED BY <3>2, <3>3
  <2> QED BY <1>1, <1>2, <2>1 DEF CompleteInv, Ended, Phase, vars
<1>3. ASSUME NEW i \in Jobs, Click(i) \/ Step(i) PROVE CompleteInv'
  <2>1. /\ job' = job /\ Grows(disk, disk') /\ \A k \in Jobs \ {i} : work'[k] = work[k]
        /\ clashed \subseteq clashed' /\ (Step(i) => ~Ended(i))
    BY <1>1, <1>3, JobMoves, JobSpares DEF Click, Step
  <2>2. ASSUME NEW j \in Jobs, j \notin clashed', job[j].kind = "extract", ~Ended(j)', ~work'[j].cut
        PROVE  Gathered(j)' /\ Copied(j)'
    <3>1. ExtractStands(j) /\ j \notin clashed
      BY <1>1, <2>1, <2>2 DEF TypeOK, ExtractStands, Standing, JobTypeOK
    <3>2. CASE j = i
      <4>1. CallExtract(j) \/ (Step(j) /\ ExtractStep(j))
        BY <1>3, <2>2, <3>2, StepsOfKind
      <4>2. Step(j) => DiskTrue(j) /\ (~work[j].cut => Gathered(j) /\ Copied(j))
        BY <1>1, <2>1, <2>2, <3>1, <3>2 DEF CompleteInv, TrueInv
      <4>3. work'[j].phase \notin {"done", "failed"}
        BY <2>2 DEF Ended, Phase
      <4> QED BY <2>1, <2>2, <3>1, <4>1, <4>2, <4>3, OwesOn
    <3>3. CASE j # i
      <4>1. work'[j] = work[j]
        BY <2>1, <3>3
      <4>2. ~Ended(j)
        BY <2>2, <4>1 DEF Ended, Phase
      <4>3. Gathered(j) /\ Copied(j)
        BY <2>2, <3>1, <4>1, <4>2 DEF CompleteInv
      <4>4. PICK paths : Spares(disk, disk', paths) /\ paths \cap Under(Dest(j)) = {}
        BY <1>1, <1>3, <2>2, <3>1, <3>3, <4>2, OthersApart
      <4>5. Gathered(j)'
        BY <2>1, <4>1, <4>3, GatheredSame
      <4>6. Copied(j)'
        BY <2>1, <3>1, <4>1, <4>3, <4>4, CopiedStays
      <4> QED BY <4>5, <4>6
    <3> QED BY <3>2, <3>3
  <2> QED BY <1>1, <2>1, <2>2 DEF CompleteInv
<1> QED BY <1>2, <1>3 DEF Next

\* "Extraction completed successfully." means that every file below the directory is on
\* the disk, whole, unless a listing was cut short, whatever was there before and whatever
\* other jobs did meanwhile elsewhere (extract_fatx_directory_recursive).
THEOREM ExtractionsComplete == Spec => ExtractionComplete
<1>1. ASSUME CompleteInv, [Next]_vars
      PROVE  [\A j \in Jobs : IsDone(j, "extract") /\ ~work[j].cut =>
                \A path \in VolumeFiles(j, Source(j)) :
                  /\ IsFile(disk', LocalName(j, path))
                  /\ disk'[LocalName(j, path)].content = VolumeContent(j, path)]_vars
  <2> SUFFICES ASSUME NEW j \in Jobs, IsDone(j, "extract"), ~work[j].cut,
                      NEW path \in VolumeFiles(j, Source(j)), ~UNCHANGED vars
               PROVE  /\ IsFile(disk', LocalName(j, path))
                      /\ disk'[LocalName(j, path)].content = VolumeContent(j, path)
    OBVIOUS
  <2>1. TypeOK
    BY <1>1 DEF CompleteInv, TrueInv
  <2>2. PICK i \in Jobs : Click(i) \/ Step(i)
    BY <1>1 DEF Next
  <2>3. /\ job' = job /\ \A k \in Jobs \ {i} : work'[k] = work[k]
        /\ Step(i) => ~Ended(i)
    BY <2>1, <2>2, JobMoves, JobSpares
  <2>4. /\ job[j].kind = "extract" /\ j \notin clashed /\ work[j].phase # "done"
        /\ work'[j].phase = "done"
    BY DEF IsDone, Phase
  <2>5. j = i
    BY <2>3, <2>4
  <2>6. ExtractStands(j) /\ "phase" \in DOMAIN work[j] /\ DOMAIN work = Jobs
    BY <2>1, <2>4 DEF TypeOK, ExtractStands, Standing, JobTypeOK
  <2>7. Step(j) /\ ExtractStep(j)
    <3>1. ~CallExtract(j)
      <4> DEFINE fields == [phase |-> "open", cut |-> FALSE, files |-> <<>>,
                            dirs |-> <<job[j].sources[1]>>]
      <4>1. "phase" \in DOMAIN fields /\ fields["phase"] = "open"
        OBVIOUS
      <4> HIDE DEF fields
      <4>2. ~Put(j, fields)
        BY <2>4, <2>6, <4>1, PutGives
      <4> QED BY <4>2 DEF CallExtract, fields
    <3> QED BY <2>2, <2>4, <2>5, <3>1, StepsOfKind
  <2>8. DiskTrue(j) /\ Gathered(j) /\ Copied(j)
    BY <1>1, <2>3, <2>4, <2>5, <2>7 DEF CompleteInv, TrueInv
  <2>9. \A p \in VolumeFiles(j, Source(j)) : Whole(j, p)'
    BY <2>3, <2>4, <2>6, <2>7, <2>8, WholeWhenDone
  <2>10. \A p : LocalName(j, p)' = LocalName(j, p) /\ VolumeContent(j, p)' = VolumeContent(j, p)
    BY <2>3 DEF LocalName, Dest, VolumeContent, AskVolume
  <2> QED BY <2>9, <2>10 DEF Whole
<1> QED BY <1>1, InitComplete, StepComplete, PTL DEF Spec, ExtractionComplete

-----------------------------------------------------------------------------
(* What is in a folder. *)

LEMMA FrontMembers ==
  ASSUME NEW S, NEW s \in Seq(S), s # <<>>
  PROVE  ToSet(s) = ToSet(Front(s)) \cup {Last(s)} /\ Last(s) \in S /\ Front(s) \in Seq(S)
<1> DEFINE front == Front(s)
<1>1. /\ front \in Seq(S) /\ Len(s) \in Nat \ {0} /\ Last(s) = s[Len(s)]
      /\ Len(front) = Len(s) - 1 /\ \A i \in 1 .. Len(s) - 1 : front[i] = s[i]
  BY FrontOf
<1> HIDE DEF front
<1>2. DOMAIN s = 1 .. Len(s) /\ DOMAIN front = 1 .. Len(s) - 1
  BY <1>1, LenProperties
<1>3. \A x : x \in ToSet(s) <=> \E i \in 1 .. Len(s) : x = s[i]
  BY <1>2 DEF ToSet
<1>4. \A x : x \in ToSet(front) <=> \E i \in 1 .. Len(s) - 1 : x = s[i]
  BY <1>1, <1>2 DEF ToSet
<1>5. /\ \A i \in 1 .. Len(s) : i = Len(s) \/ i \in 1 .. Len(s) - 1
      /\ Len(s) \in 1 .. Len(s) /\ \A i \in 1 .. Len(s) - 1 : i \in 1 .. Len(s)
  BY <1>1
<1>6. \A x : x \in ToSet(s) <=> x \in ToSet(front) \/ x = Last(s)
  BY <1>1, <1>3, <1>4, <1>5
<1>7. Last(s) \in S
  BY <1>1, <1>5, ElementOfSeq
<1> QED BY <1>1, <1>6, <1>7 DEF front

\* All on the way to something in a tree is there, as a directory.
LEMMA WayThere ==
  ASSUME NEW fs, NEW C, IsTree(fs, C), NEW p \in DOMAIN fs, NEW m \in 0 .. Len(p)
  PROVE  /\ p \in Path /\ SubSeq(p, 1, m) \in DOMAIN fs
         /\ m < Len(p) => IsDir(fs, SubSeq(p, 1, m))
<1> DEFINE n == Len(p)
           There(i) == /\ SubSeq(p, 1, n - i) \in DOMAIN fs
                       /\ i > 0 => IsDir(fs, SubSeq(p, 1, n - i))
           P == {i \in Nat : There(i)}
<1>1. p \in Path /\ n \in Nat /\ \A path \in DOMAIN fs : path # <<>> => IsDir(fs, Front(path))
  BY LenProperties DEF IsTree, Path
<1> HIDE DEF n
<1>2. 0 \in P
  <2>1. SubSeq(p, 1, n) = p
    BY <1>1, SubSeqFull DEF Path, n
  <2>2. n - 0 = n /\ ~(0 > 0) /\ 0 \in Nat
    BY <1>1
  <2>3. SubSeq(p, 1, n - 0) \in DOMAIN fs
    BY <2>1, <2>2
  <2> QED BY <2>2, <2>3
<1>3. ASSUME NEW i \in 0 .. n - 1, i \in P PROVE i + 1 \in P
  <2> DEFINE q == SubSeq(p, 1, n - i)
             r == SubSeq(p, 1, n - (i + 1))
  <2>1. /\ n - i \in 0 .. n /\ n - i \in Nat /\ n - (i + 1) \in 0 .. n /\ n - (i + 1) = (n - i) - 1
        /\ i + 1 > 0 /\ i + 1 \in Nat
    BY <1>1
  <2>2. /\ q \in Seq(Names) /\ Len(q) = n - i /\ \A k \in 1 .. n - i : q[k] = p[k]
        /\ r \in Seq(Names) /\ Len(r) = n - (i + 1) /\ \A k \in 1 .. n - (i + 1) : r[k] = p[k]
    BY <1>1, <2>1, FirstPart DEF Path, n
  <2>3. q \in DOMAIN fs
    BY <1>3
  <2> HIDE DEF q, r
  <2>4. q # <<>>
    BY <2>1, <2>2, EmptySeq
  <2>5. /\ Front(q) \in Seq(Names) /\ Len(Front(q)) = Len(q) - 1
        /\ \A k \in 1 .. Len(q) - 1 : Front(q)[k] = q[k]
    BY <2>2, <2>4, FrontOf
  <2>6. Front(q) = r
    <3>1. \A k \in 1 .. Len(r) : Front(q)[k] = r[k]
      BY <2>1, <2>2, <2>5
    <3> QED BY <2>1, <2>2, <2>5, <3>1, SeqEqual
  <2>7. IsDir(fs, r)
    BY <1>1, <2>3, <2>4, <2>6
  <2> QED BY <2>1, <2>7 DEF IsDir, Exists, r
<1>4. \A i \in 0 .. n : i \in P
  <2> HIDE DEF P
  <2> QED BY <1>1, <1>2, <1>3, UpTo
<1>5. n - m \in 0 .. n /\ n - (n - m) = m /\ (m < n => n - m > 0)
  BY <1>1 DEF n
<1>6. There(n - m)
  BY <1>4, <1>5
<1> QED BY <1>1, <1>5, <1>6 DEF n

\* What is below a directory is at or below one of its entries.
LEMMA ChildOnWay ==
  ASSUME NEW fs, NEW C, IsTree(fs, C), NEW dir \in Path, NEW p \in Below(fs, dir)
  PROVE  IsDir(fs, dir) /\ \E x \in Children(fs, dir) : IsPrefix(x, p)
<1>1. p \in DOMAIN fs /\ p \in Path /\ IsPrefix(dir, p) /\ p # dir
  BY DEF Below, IsTree, IsStrictPrefix
<1>2. /\ Len(dir) \in Nat /\ Len(p) \in Nat /\ Len(dir) <= Len(p)
      /\ \A i \in 1 .. Len(dir) : dir[i] = p[i]
  BY <1>1, PrefixIff, LenProperties DEF Path
<1>3. Len(dir) < Len(p)
  <2>1. Len(dir) # Len(p)
    BY <1>1, <1>2, SeqEqual DEF Path
  <2> QED BY <1>2, <2>1
<1> DEFINE x == SubSeq(p, 1, Len(dir) + 1)
           d == SubSeq(p, 1, Len(dir))
<1>4. Len(dir) \in 0 .. Len(p) /\ Len(dir) + 1 \in 0 .. Len(p)
  BY <1>2, <1>3
<1>5. /\ x \in Path /\ Len(x) = Len(dir) + 1 /\ \A i \in 1 .. Len(dir) + 1 : x[i] = p[i]
      /\ d \in Path /\ Len(d) = Len(dir) /\ \A i \in 1 .. Len(dir) : d[i] = p[i]
  BY <1>1, <1>4, FirstPart DEF Path
<1>6. x \in DOMAIN fs /\ IsDir(fs, d)
  BY <1>1, <1>3, <1>4, WayThere
<1> HIDE DEF x, d
<1>7. d = dir
  BY <1>2, <1>5, SeqEqual DEF Path
<1>8. IsPrefix(dir, x) /\ IsPrefix(x, p) /\ x # dir
  <2>1. \A i \in 1 .. Len(dir) : dir[i] = x[i]
    BY <1>2, <1>5
  <2> QED BY <1>1, <1>2, <1>3, <1>5, <2>1, PrefixIff DEF Path
<1> QED BY <1>5, <1>6, <1>7, <1>8 DEF Children, Below, IsStrictPrefix

\* A file that a directory or a file is on the way to is below it, or it.
LEMMA FileOnWay ==
  ASSUME NEW fs, NEW C, IsTree(fs, C), NEW x \in DOMAIN fs, NEW p, IsFile(fs, p), IsPrefix(x, p)
  PROVE  /\ IsDir(fs, x) => p \in Below(fs, x)
         /\ ~IsDir(fs, x) => p = x
<1>1. p \in DOMAIN fs /\ p \in Path /\ x \in Path /\ ~IsDir(fs, p)
  BY DEF IsFile, IsDir, Exists, IsTree
<1>2. ASSUME p # x PROVE p \in Below(fs, x)
  BY <1>1, <1>2 DEF Below, IsStrictPrefix
<1>3. ASSUME p # x PROVE IsDir(fs, x)
  BY <1>1, <1>2, <1>3, ChildOnWay
<1> QED BY <1>1, <1>2, <1>3

-----------------------------------------------------------------------------
(* What an upload has still to do. *)

\* The files of the folder are as they were when the upload began.
FolderSame(j) ==
  \A p \in Under(Local(j)) : IsFile(disk, p) \/ IsFile(before[j], p) =>
    IsFile(disk, p) /\ IsFile(before[j], p) /\ disk[p] = before[j][p]

\* Every file of the folder is in the list, or at or below something that the scan has
\* still to look at.
Sought(j) ==
  Phase(j) # "connect" =>
    \A p \in FilesBelow(disk, Local(j)) :
      \/ p \in ToSet(work[j].files)
      \/ Phase(j) = "scan" /\ \E x \in UNION ToSet(work[j].stack) : IsPrefix(x, p)

\* The file at path p is on the console, all of it.
Sent(j, p) ==
  IsFile(remote, RemotePath(j, p)) /\ remote[RemotePath(j, p)] = disk[p]

\* The files before the one at work are on the console, but for one that is sent again,
\* and the one that is sent has just the chunks sent so far.
Delivered(j) ==
  /\ Phase(j) \in {"base", "parent", "put", "send"} =>
       \A i \in 1 .. work[j].place - 1 :
         Sent(j, work[j].files[i]) \/ (Phase(j) = "send" /\ work[j].files[i] = LocalFile(j))
  /\ Phase(j) = "send" =>
       LET content == disk[LocalFile(j)].content
       IN /\ work[j].done \in 0 .. Len(content)
          /\ remote[RemoteFile(j)] = File(SubSeq(content, 1, work[j].done))

\* The files that the scan has found are below the folder.
LEMMA FoundBelow ==
  ASSUME NEW j \in Jobs, UploadStands(j), work[j].phase \in {"base", "parent", "put", "send"}
  PROVE  /\ work[j].place \in 1 .. Len(work[j].files) /\ Len(work[j].files) \in Nat
         /\ DOMAIN work[j].files = 1 .. Len(work[j].files)
         /\ \A i \in 1 .. Len(work[j].files) : work[j].files[i] \in FilesBelow(disk, Local(j))
         /\ LocalFile(j) \in FilesBelow(disk, Local(j)) /\ Local(j) \in Path
<1>1. /\ work[j].files \in Seq(FilesBelow(disk, Local(j))) /\ work[j].place \in DOMAIN work[j].files
      /\ job[j].sources # <<>>
  BY DEF UploadStands, UploadTypeOK
<1> QED BY <1>1, LocalTyped, LenProperties DEF LocalFile

LEMMA FilesUnder ==
  ASSUME NEW fs, NEW C, IsTree(fs, C), NEW dir
  PROVE  FilesBelow(fs, dir) = {p \in Under(dir) : IsFile(fs, p) /\ p # dir}
BY DEF FilesBelow, Below, Under, IsStrictPrefix, IsFile, Exists, IsTree

\* Other jobs that write elsewhere.
LEMMA UploadStays ==
  ASSUME NEW j \in Jobs, UploadStands(j), FolderSame(j), Sought(j), Delivered(j), job' = job,
         work'[j] = work[j], before'[j] = before[j], remote' = remote, Grows(disk, disk'),
         IsTree(disk', Chunk), NEW paths, Spares(disk, disk', paths),
         paths \cap Under(Local(j)) = {}
  PROVE  FolderSame(j)' /\ Sought(j)' /\ Delivered(j)'
<1>1. /\ Local(j)' = Local(j) /\ Phase(j)' = Phase(j) /\ LocalFile(j)' = LocalFile(j)
      /\ RemoteFile(j)' = RemoteFile(j) /\ \A p : RemotePath(j, p)' = RemotePath(j, p)
  BY DEF Local, Source, Phase, LocalFile, RemoteFile, RemotePath
<1>2. \A p \in Under(Local(j)) : /\ IsFile(disk', p) <=> IsFile(disk, p)
                                 /\ IsFile(disk, p) => disk'[p] = disk[p]
  BY GrowsKeeps DEF Spares
<1>3. FolderSame(j)'
  BY <1>1, <1>2 DEF FolderSame
<1>4. /\ FilesBelow(disk', Local(j)) = FilesBelow(disk, Local(j))
      /\ \A p \in FilesBelow(disk, Local(j)) : disk'[p] = disk[p]
  <2>1. IsTree(disk, Chunk)
    BY DEF UploadStands, Standing
  <2> QED BY <1>2, <2>1, FilesUnder
<1>5. Sought(j)'
  BY <1>1, <1>4 DEF Sought
<1>6. \A p \in FilesBelow(disk, Local(j)) : Sent(j, p)' = Sent(j, p)
  <2>1. ASSUME NEW p \in FilesBelow(disk, Local(j)) PROVE Sent(j, p)' = Sent(j, p)
    BY <1>1, <1>4 DEF Sent
  <2> QED BY <2>1
<1>7. ASSUME Phase(j) \in {"base", "parent", "put", "send"}
      PROVE  Delivered(j)'
  <2>1. /\ work[j].place \in 1 .. Len(work[j].files) /\ Len(work[j].files) \in Nat
        /\ \A i \in 1 .. Len(work[j].files) : work[j].files[i] \in FilesBelow(disk, Local(j))
        /\ LocalFile(j) \in FilesBelow(disk, Local(j))
    BY <1>7, FoundBelow DEF Phase
  <2>2. ASSUME NEW i \in 1 .. work[j].place - 1
        PROVE  \/ Sent(j, work[j].files[i])'
               \/ Phase(j) = "send" /\ work[j].files[i] = LocalFile(j)
    <3>1. work[j].files[i] \in FilesBelow(disk, Local(j))
      BY <2>1
    <3>2. Sent(j, work[j].files[i]) \/ (Phase(j) = "send" /\ work[j].files[i] = LocalFile(j))
      BY <1>7 DEF Delivered
    <3>3. Sent(j, work[j].files[i]) => Sent(j, work[j].files[i])'
      <4>1. \A p \in FilesBelow(disk, Local(j)) : p = work[j].files[i] => (Sent(j, p) => Sent(j, p)')
        BY <1>6
      <4> QED BY <1>1, <1>4, <3>1 DEF Sent
    <3> QED BY <3>2, <3>3
  <2>3. Phase(j) = "send" => disk'[LocalFile(j)] = disk[LocalFile(j)]
    BY <1>4, <2>1
  <2> QED BY <1>1, <2>2, <2>3 DEF Delivered
<1>8. ASSUME Phase(j) \notin {"base", "parent", "put", "send"} PROVE Delivered(j)'
  BY <1>1, <1>8 DEF Delivered
<1> QED BY <1>3, <1>5, <1>7, <1>8

\* Whatever another job does, it does not do it to the folder or the console of an upload,
\* unless they clash.
LEMMA OthersAway ==
  ASSUME TypeOK, Told, NEW i \in Jobs, Click(i) \/ Step(i), NEW j \in Jobs, j # i,
         j \notin clashed, job[j].kind = "upload", ~Ended(j)
  PROVE  remote' = remote /\ \E paths : Spares(disk, disk', paths) /\ paths \cap Under(Local(j)) = {}
<1>0. UploadStands(j) /\ job[j].sources # <<>>
  BY DEF TypeOK, UploadStands, Standing, JobTypeOK, UploadTypeOK, Ended, Phase
<1>1. Local(j) \in Path /\ Local(j) \in Reads(j)
  <2>1. job[j].sources \in Seq(Path)
    BY ChoiceOf DEF TypeOK
  <2> QED BY <1>0, <2>1, LocalTyped, EmptySeq, LenProperties DEF Local, Source, Reads, ToSet
<1>2. /\ Spares(disk, disk', Under(Dest(i))) /\ (job[i].kind = "upload" => disk' = disk)
      /\ Step(i) => ~Ended(i)
  BY JobSpares
<1>3. Step(i) => ~Clash(j, i)
  BY <1>2 DEF Told
<1>4. disk' = disk \/ Step(i)
  BY DEF Click, ClickUnpack, ClickPack, ClickUpload, CallExtract
<1>5. remote' = remote
  <2>1. CASE Click(i)
    BY <2>1 DEF Click, ClickUpload
  <2>2. CASE Step(i) /\ ~UploadStep(i)
    BY <2>2 DEF Step
  <2>3. CASE Step(i) /\ UploadStep(i)
    <3>1. job[i].kind = "upload"
      BY <2>3 DEF UploadStep, Connect, ScanEntry, LeaveDir, ScanEnds, MakeBase, MakeParent,
         StartPut, SendChunk, EndPut, Is
    <3> QED BY <1>3, <2>3, <3>1 DEF Clash
  <2> QED BY <2>1, <2>2, <2>3
<1>6. CASE disk' = disk
  <2>1. Spares(disk, disk', {}) /\ {} \cap Under(Local(j)) = {}
    BY <1>6 DEF Spares
  <2> QED BY <1>5, <2>1
<1>7. CASE disk' # disk
  <2>1. Step(i) /\ ~Clash(j, i)
    BY <1>3, <1>4, <1>7
  <2>2. job[i].kind # "none"
    BY <2>1 DEF Step, UnpackStep, OpenImage, UnpackDir, UnpackFile, EntryFails, UnpackChunk,
       EndOfImage, PackStep, CreateImage, ScanFolder, PackChunk, FinishImage, PackFails,
       DropBuffer, UploadStep, Connect, ScanEntry, LeaveDir, ScanEnds, MakeBase, MakeParent,
       StartPut, SendChunk, EndPut, ExtractStep, OpenVolume, ListDir, ListEnds, StartFile,
       ExtractChunk, EndFile, Is
  <2>3. Dest(i) \in Path /\ Dest(i) \in Writes(i)
    BY <1>2, <1>7, <2>2, ChoiceOf DEF TypeOK, Writes
  <2>4. ~IsPrefix(Dest(i), Local(j)) /\ ~IsPrefix(Local(j), Dest(i))
    BY <1>1, <2>1, <2>3 DEF Clash, Overlap
  <2>5. Under(Dest(i)) \cap Under(Local(j)) = {}
    BY <1>1, <2>3, <2>4, Comparable DEF Under
  <2> QED BY <1>2, <1>5, <2>5
<1> QED BY <1>6, <1>7

\* Different files of the folder have different places on the console.
LEMMA RemoteTells ==
  ASSUME NEW j \in Jobs, Local(j) \in Path, NEW p \in Under(Local(j)), NEW q \in Under(Local(j)),
         RemotePath(j, p) = RemotePath(j, q)
  PROVE  p = q
<1>1. /\ Relative(Local(j), p) \in Path /\ Local(j) \o Relative(Local(j), p) = p
      /\ Relative(Local(j), q) \in Path /\ Local(j) \o Relative(Local(j), q) = q
  BY RelativeOf DEF Under
<1>2. Base \in Seq(Names)
  BY UploadAssumption DEF Path
<1>3. \A s, t, v \in Seq(Names) : s \o t = s \o v => t = v
  BY ConcatSimplifications!cancelLeft
<1>4. Relative(Local(j), p) = Relative(Local(j), q)
  BY <1>1, <1>2, <1>3 DEF RemotePath, Path
<1> QED BY <1>1, <1>4

LEMMA SentStays ==
  ASSUME NEW j, NEW p, Sent(j, p), job' = job, disk' = disk, Grows(remote, remote'), NEW paths,
         Spares(remote, remote', paths), RemotePath(j, p) \notin paths
  PROVE  Sent(j, p)'
<1>1. RemotePath(j, p)' = RemotePath(j, p)
  BY DEF RemotePath, Local, Source
<1>2. IsFile(remote', RemotePath(j, p))
  BY GrowsKeeps DEF Sent
<1> QED BY <1>1, <1>2 DEF Sent, Spares

\* The files before the one at work stay where they are, as long as no other is written.
LEMMA SentBefore ==
  ASSUME NEW j \in Jobs, UploadStands(j), work[j].phase \in {"base", "parent", "put", "send"},
         Delivered(j), job' = job, disk' = disk, Grows(remote, remote'), NEW paths,
         Spares(remote, remote', paths), paths \subseteq {RemoteFile(j)},
         NEW i \in 1 .. work[j].place - 1
  PROVE  \/ \A p : p = work[j].files[i] => Sent(j, p)'
         \/ work[j].files[i] = LocalFile(j) /\ (work[j].phase = "send" \/ paths # {})
<1> DEFINE f == work[j].files[i]
<1>1. /\ f \in FilesBelow(disk, Local(j)) /\ LocalFile(j) \in FilesBelow(disk, Local(j))
      /\ Local(j) \in Path
  <2>1. i \in 1 .. Len(work[j].files)
    BY FoundBelow
  <2> QED BY <2>1, FoundBelow
<1>2. f \in Under(Local(j)) /\ LocalFile(j) \in Under(Local(j))
  <2>1. IsTree(disk, Chunk)
    BY DEF UploadStands, Standing
  <2> QED BY <1>1, <2>1, FilesUnder
<1>3. Sent(j, f) \/ (work[j].phase = "send" /\ f = LocalFile(j))
  BY DEF Delivered, Phase
<1> HIDE DEF f
<1>4. CASE f # LocalFile(j)
  <2>1. RemotePath(j, f) # RemoteFile(j)
    BY <1>1, <1>2, <1>4, RemoteTells DEF RemoteFile
  <2>2. Sent(j, f) /\ RemotePath(j, f) \notin paths
    BY <1>3, <1>4, <2>1
  <2>3. \A p : p = f => Sent(j, p)'
    <3> SUFFICES ASSUME NEW p, p = f PROVE Sent(j, p)'
      OBVIOUS
    <3> QED BY <2>2, SentStays
  <2> QED BY <2>3 DEF f
<1>5. CASE f = LocalFile(j) /\ work[j].phase # "send" /\ paths = {}
  <2>1. Sent(j, f) /\ RemotePath(j, f) \notin paths
    BY <1>3, <1>5
  <2>2. \A p : p = f => Sent(j, p)'
    <3> SUFFICES ASSUME NEW p, p = f PROVE Sent(j, p)'
      OBVIOUS
    <3> QED BY <2>1, SentStays
  <2> QED BY <2>2 DEF f
<1> QED BY <1>4, <1>5 DEF f

\* After Connect the scan has all entries of the folder to look at.
LEMMA SoughtFirst ==
  ASSUME NEW j \in Jobs, UploadStands(j), Connect(j), ~Fail(j), job' = job
  PROVE  Sought(j)' /\ Delivered(j)'
<1>1. PICK login \in LoginDirs :
        Put(j, [phase |-> "scan", login |-> login, files |-> <<>>,
                stack |-> IF IsDir(disk, Local(j)) THEN <<Scan(disk, Local(j))>> ELSE <<{}>>])
  BY DEF Connect
<1> DEFINE stack == IF IsDir(disk, Local(j)) THEN <<Scan(disk, Local(j))>> ELSE <<{}>>
           fields == [phase |-> "scan", login |-> login, files |-> <<>>, stack |-> stack]
<1>2. /\ Put(j, fields) /\ {"phase", "files", "stack"} \subseteq DOMAIN fields
      /\ fields["phase"] = "scan" /\ fields["stack"] = stack
  BY <1>1
<1>3. /\ disk' = disk /\ DOMAIN work = Jobs /\ IsTree(disk, Chunk) /\ Local(j) \in Path
      /\ Local(j)' = Local(j)
  BY LocalTyped DEF Connect, Is, Phase, UploadStands, UploadTypeOK, Standing, Local, Source
<1> HIDE DEF fields
<1>4. work'[j].phase = "scan" /\ work'[j].stack = stack
  <2> HIDE DEF stack
  <2> QED BY <1>2, <1>3, PutGives
<1>5. ASSUME NEW p \in FilesBelow(disk, Local(j))
      PROVE  \E x \in UNION ToSet(work'[j].stack) : IsPrefix(x, p)
  <2>1. IsDir(disk, Local(j)) /\ \E x \in Children(disk, Local(j)) : IsPrefix(x, p)
    BY <1>3, ChildOnWay DEF FilesBelow
  <2>2. Children(disk, Local(j)) \in ToSet(work'[j].stack)
    <3>1. work'[j].stack = <<Children(disk, Local(j))>>
      BY <1>4, <2>1 DEF Scan
    <3> QED BY <3>1 DEF ToSet
  <2> QED BY <2>1, <2>2
<1> QED BY <1>3, <1>4, <1>5 DEF Sought, Delivered, Phase

\* An entry is looked at: a file goes into the list, and of a directory all entries have
\* to be looked at.
LEMMA SoughtOn ==
  ASSUME NEW j \in Jobs, UploadStands(j), ScanEntry(j), ~Fail(j), Sought(j), job' = job
  PROVE  Sought(j)' /\ Delivered(j)'
<1> DEFINE B == SUBSET Below(disk, Local(j))
<1>1. /\ work[j].phase = "scan" /\ work[j].stack # <<>> /\ disk' = disk /\ Local(j)' = Local(j)
      /\ Local(j) \in Path /\ IsTree(disk, Chunk) /\ DOMAIN work = Jobs
      /\ work[j].files \in Seq(FilesBelow(disk, Local(j))) /\ work[j].stack \in Seq(B)
      /\ {"phase", "files", "stack"} \subseteq DOMAIN work[j]
  BY LocalTyped DEF ScanEntry, Is, Phase, UploadStands, UploadTypeOK, Standing, Local, Source
<1>2. PICK path \in Last(work[j].stack) :
        LET left == Last(work[j].stack) \ {path}
            stack == Append(Front(work[j].stack), left)
        IN IF IsDir(disk, path)
             THEN Put(j, [stack |-> Append(stack, Scan(disk, path))])
             ELSE Put(j, [stack |-> stack, files |-> Append(work[j].files, path)])
  BY DEF ScanEntry
<1> DEFINE left == Last(work[j].stack) \ {path}
           stack == Append(Front(work[j].stack), left)
<1>3. /\ ToSet(work[j].stack) = ToSet(Front(work[j].stack)) \cup {Last(work[j].stack)}
      /\ Last(work[j].stack) \in B /\ Front(work[j].stack) \in Seq(B)
  <2> HIDE DEF B
  <2> QED BY <1>1, FrontMembers
<1>4. left \in B /\ path \in Below(disk, Local(j))
  BY <1>3
<1>5. stack \in Seq(B) /\ ToSet(stack) = ToSet(Front(work[j].stack)) \cup {left}
  <2> HIDE DEF B, left
  <2> QED BY <1>3, <1>4, AppendMembers, AppendProperties
<1>6. UNION ToSet(work[j].stack) = (UNION ToSet(stack)) \cup {path}
  <2> HIDE DEF stack
  <2>1. Last(work[j].stack) = left \cup {path}
    OBVIOUS
  <2>2. \A A, b : UNION (A \cup {b}) = (UNION A) \cup b
    OBVIOUS
  <2>3. UNION ToSet(work[j].stack) = (UNION ToSet(Front(work[j].stack))) \cup Last(work[j].stack)
    BY <1>3, <2>2
  <2>4. UNION ToSet(stack) = (UNION ToSet(Front(work[j].stack))) \cup left
    <3> HIDE DEF left
    <3> QED BY <1>5, <2>2
  <2> QED BY <2>1, <2>3, <2>4
<1> HIDE DEF B, left, stack
<1>7. \A p \in FilesBelow(disk, Local(j)) :
        p \in ToSet(work[j].files) \/ \E x \in (UNION ToSet(stack)) \cup {path} : IsPrefix(x, p)
  BY <1>1, <1>6 DEF Sought, Phase
<1>8. path \in DOMAIN disk
  BY <1>4 DEF Below
<1>9. CASE IsDir(disk, path)
  <2> DEFINE deeper == Append(stack, Scan(disk, path))
             fields == [stack |-> deeper]
  <2>1. Put(j, fields) /\ DOMAIN fields = {"stack"} /\ fields["stack"] = deeper
    BY <1>2, <1>9 DEF stack, left
  <2> HIDE DEF fields, deeper
  <2>2. /\ work'[j].phase = "scan" /\ work'[j].files = work[j].files /\ work'[j].stack = deeper
    BY <1>1, <2>1, PutGives
  <2>3. ToSet(deeper) = ToSet(stack) \cup {Children(disk, path)}
    <3>1. Children(disk, path) \in B
      BY <1>1, <1>4, BelowBelow DEF Children, B
    <3> QED BY <1>5, <3>1, AppendMembers DEF deeper, Scan
  <2>4. ASSUME NEW p \in FilesBelow(disk, Local(j)), IsPrefix(path, p)
        PROVE  \E x \in UNION ToSet(deeper) : IsPrefix(x, p)
    <3>1. p \in Below(disk, path)
      BY <1>1, <1>8, <1>9, <2>4, FileOnWay DEF FilesBelow
    <3>2. path \in Path
      BY <1>1, <1>8 DEF IsTree
    <3>3. \E x \in Children(disk, path) : IsPrefix(x, p)
      BY <1>1, <3>1, <3>2, ChildOnWay
    <3> QED BY <2>3, <3>3
  <2>5. \A p \in FilesBelow(disk, Local(j)) :
          p \in ToSet(work[j].files) \/ \E x \in UNION ToSet(deeper) : IsPrefix(x, p)
    <3>1. UNION ToSet(stack) \subseteq UNION ToSet(deeper)
      BY <2>3
    <3> QED BY <1>7, <2>4, <3>1
  <2> QED BY <1>1, <2>2, <2>5 DEF Sought, Delivered, Phase
<1>10. CASE ~IsDir(disk, path)
  <2> DEFINE files == Append(work[j].files, path)
             fields == [stack |-> stack, files |-> files]
  <2>1. /\ Put(j, fields) /\ DOMAIN fields = {"stack", "files"}
        /\ fields["stack"] = stack /\ fields["files"] = files
    BY <1>2, <1>10 DEF stack, left
  <2> HIDE DEF fields, files
  <2>2. /\ work'[j].phase = "scan" /\ work'[j].files = files /\ work'[j].stack = stack
    BY <1>1, <2>1, PutGives
  <2>3. ToSet(files) = ToSet(work[j].files) \cup {path}
    <3>1. work[j].files \in Seq(DOMAIN disk)
      <4>1. FilesBelow(disk, Local(j)) \subseteq DOMAIN disk
        BY DEF FilesBelow, Below
      <4> QED BY <1>1, <4>1, LenProperties
    <3> QED BY <1>8, <3>1, AppendMembers DEF files
  <2>4. \A p \in FilesBelow(disk, Local(j)) : IsPrefix(path, p) => p = path
    BY <1>1, <1>8, <1>10, FileOnWay DEF FilesBelow
  <2>5. \A p \in FilesBelow(disk, Local(j)) :
          p \in ToSet(files) \/ \E x \in UNION ToSet(stack) : IsPrefix(x, p)
    <3>1. ASSUME NEW p \in FilesBelow(disk, Local(j)), p \notin ToSet(files)
          PROVE  \E x \in UNION ToSet(stack) : IsPrefix(x, p)
      <4>1. p \notin ToSet(work[j].files) /\ p # path
        BY <2>3, <3>1
      <4>2. ~IsPrefix(path, p)
        BY <2>4, <4>1
      <4> QED BY <1>7, <4>1, <4>2
    <3> QED BY <3>1
  <2> QED BY <1>1, <2>2, <2>5 DEF Sought, Delivered, Phase
<1> QED BY <1>9, <1>10

\* What is left to be looked at stays so when a directory has been looked through.
LEMMA SoughtStays ==
  ASSUME NEW j \in Jobs, UploadStands(j), LeaveDir(j), Sought(j), job' = job
  PROVE  Sought(j)' /\ Delivered(j)'
<1> DEFINE B == SUBSET Below(disk, Local(j))
           fields == [stack |-> Front(work[j].stack)]
<1>1. /\ work[j].phase = "scan" /\ work[j].stack # <<>> /\ disk' = disk /\ Local(j)' = Local(j)
      /\ DOMAIN work = Jobs /\ Last(work[j].stack) = {} /\ work[j].stack \in Seq(B)
      /\ {"phase", "files", "stack"} \subseteq DOMAIN work[j]
  BY DEF LeaveDir, Is, Phase, UploadStands, UploadTypeOK, Standing, Local, Source
<1>2. /\ Put(j, fields) /\ DOMAIN fields = {"stack"} /\ fields["stack"] = Front(work[j].stack)
  BY DEF LeaveDir
<1> HIDE DEF B, fields
<1>3. /\ work'[j].phase = "scan" /\ work'[j].files = work[j].files
      /\ work'[j].stack = Front(work[j].stack)
  BY <1>1, <1>2, PutGives
<1>4. UNION ToSet(work[j].stack) = UNION ToSet(Front(work[j].stack))
  <2>1. ToSet(work[j].stack) = ToSet(Front(work[j].stack)) \cup {{}}
    BY <1>1, FrontMembers
  <2>2. \A A : UNION (A \cup {{}}) = UNION A
    OBVIOUS
  <2> QED BY <2>1, <2>2
<1> QED BY <1>1, <1>3, <1>4 DEF Sought, Delivered, Phase

\* At the end of the scan every file of the folder is in the list.
LEMMA SoughtAll ==
  ASSUME NEW j \in Jobs, Sought(j), work[j].phase \in {"base", "parent", "put", "send"}
                                 \/ (work[j].phase = "scan" /\ work[j].stack = <<>>)
  PROVE  FilesBelow(disk, Local(j)) \subseteq ToSet(work[j].files)
<1>1. work[j].phase = "scan" => UNION ToSet(work[j].stack) = {}
  BY DEF ToSet
<1> QED BY <1>1 DEF Sought, Phase

\* The list of files stays as it is.
LEMMA SoughtSame ==
  ASSUME NEW j \in Jobs, FilesBelow(disk, Local(j)) \subseteq ToSet(work[j].files),
         job' = job, disk' = disk, work'[j].files = work[j].files
  PROVE  Sought(j)'
<1>1. Local(j)' = Local(j)
  BY DEF Local, Source
<1> QED BY <1>1 DEF Sought

\* Nothing has been sent when the scan ends,
LEMMA ScanDelivers ==
  ASSUME NEW j \in Jobs, UploadStands(j), ScanEnds(j), Sought(j), job' = job,
         work'[j].phase # "done"
  PROVE  Sought(j)' /\ Delivered(j)'
<1> DEFINE fields == [phase |-> "base", place |-> 1]
<1>1. /\ work[j].phase = "scan" /\ work[j].stack = <<>> /\ disk' = disk /\ DOMAIN work = Jobs
      /\ {"phase", "files"} \subseteq DOMAIN work[j]
  BY DEF ScanEnds, Is, Phase, UploadStands, UploadTypeOK, Standing
<1>2. ~Goto(j, "done")
  BY <1>1, GotoGives
<1>3. /\ Put(j, fields) /\ DOMAIN fields = {"phase", "place"}
      /\ fields["phase"] = "base" /\ fields["place"] = 1
  BY <1>2 DEF ScanEnds
<1> HIDE DEF fields
<1>4. /\ work'[j].phase = "base" /\ work'[j].place = 1 /\ work'[j].files = work[j].files
  BY <1>1, <1>3, PutGives
<1>5. Sought(j)'
  BY <1>1, <1>4, SoughtAll, SoughtSame
<1>6. Delivered(j)'
  BY <1>4 DEF Delivered, Phase
<1> QED BY <1>5, <1>6

\* nor does a directory that is made on the console change what has been.
LEMMA DirDelivers ==
  ASSUME NEW j \in Jobs, UploadStands(j), MakeBase(j) \/ MakeParent(j), Sought(j), Delivered(j),
         job' = job, Grows(remote, remote')
  PROVE  Sought(j)' /\ Delivered(j)'
<1>1. /\ work[j].phase \in {"base", "parent"} /\ disk' = disk /\ DOMAIN work = Jobs
      /\ {"phase", "files", "place"} \subseteq DOMAIN work[j]
      /\ \E path : MakeRemoteDirs(j, path)
      /\ Goto(j, "parent") \/ Goto(j, "put")
  BY DEF MakeBase, MakeParent, Is, Phase, UploadStands, UploadTypeOK, Standing
<1>2. Spares(remote, remote', {})
  BY <1>1, MakeDirsSpares DEF MakeRemoteDirs
<1>3. /\ work'[j].phase \in {"parent", "put"} /\ work'[j].place = work[j].place
      /\ work'[j].files = work[j].files
  BY <1>1, GotoGives
<1>4. ASSUME NEW i \in 1 .. work[j].place - 1 PROVE Sent(j, work[j].files[i])'
  <2>1. \A p : p = work[j].files[i] => Sent(j, p)'
    BY <1>1, <1>2, <1>4, SentBefore
  <2>2. \A p : p = work'[j].files[i] => Sent(j, p)'
    BY <1>3, <2>1
  <2> QED BY <1>3, <2>2
<1>5. Delivered(j)'
  BY <1>3, <1>4 DEF Delivered, Phase
<1> QED BY <1>1, <1>3, <1>5, SoughtAll, SoughtSame

\* A step that writes to the file at work only.
LEMMA SendDelivers ==
  ASSUME NEW j \in Jobs, UploadStands(j), work[j].phase \in {"put", "send"}, Sought(j),
         Delivered(j), job' = job, disk' = disk, Grows(remote, remote'),
         Spares(remote, remote', {RemoteFile(j)}), work'[j].phase = "send",
         work'[j].place = work[j].place, work'[j].files = work[j].files,
         work'[j].done \in 0 .. Len(disk[LocalFile(j)].content),
         remote'[RemoteFile(j)] = File(SubSeq(disk[LocalFile(j)].content, 1, work'[j].done))
  PROVE  Sought(j)' /\ Delivered(j)'
<1>1. /\ LocalFile(j)' = LocalFile(j) /\ RemoteFile(j)' = RemoteFile(j)
  BY DEF LocalFile, RemoteFile, RemotePath, Local, Source
<1>2. ASSUME NEW i \in 1 .. work[j].place - 1
      PROVE  Sent(j, work[j].files[i])' \/ work[j].files[i] = LocalFile(j)
  <2>1. \/ \A p : p = work[j].files[i] => Sent(j, p)'
        \/ work[j].files[i] = LocalFile(j)
    BY <1>2, SentBefore
  <2>2. (\A p : p = work[j].files[i] => Sent(j, p)') => Sent(j, work[j].files[i])'
    <3>1. \A p : p = work'[j].files[i] <=> p = work[j].files[i]
      OBVIOUS
    <3> QED BY <3>1
  <2> QED BY <2>1, <2>2
<1>3. Delivered(j)'
  BY <1>1, <1>2 DEF Delivered, Phase
<1> QED BY <1>3, SoughtAll, SoughtSame

\* The remote file is made or emptied, and nothing of it has been sent.
LEMMA PutDelivers ==
  ASSUME NEW j \in Jobs, UploadStands(j), StartPut(j), ~Fail(j), Sought(j), Delivered(j),
         job' = job, Grows(remote, remote')
  PROVE  Sought(j)' /\ Delivered(j)'
<1> DEFINE fields == [phase |-> "send", done |-> 0]
           content == disk[LocalFile(j)].content
<1>1. /\ work[j].phase = "put" /\ disk' = disk /\ remote' = Create(remote, RemoteFile(j))
      /\ Put(j, fields) /\ DOMAIN fields = {"phase", "done"}
      /\ fields["phase"] = "send" /\ fields["done"] = 0
      /\ DOMAIN work = Jobs /\ {"phase", "files", "place"} \subseteq DOMAIN work[j]
  BY DEF StartPut, Is, Phase, UploadStands, UploadTypeOK, Standing
<1> HIDE DEF fields
<1>2. /\ work'[j].phase = "send" /\ work'[j].done = 0 /\ work'[j].place = work[j].place
      /\ work'[j].files = work[j].files
  BY <1>1, PutGives
<1>3. Spares(remote, remote', {RemoteFile(j)})
  BY <1>1, CreateSpares
<1>4. content \in Seq(Chunk) /\ Len(content) \in Nat
  <2>1. IsFile(disk, LocalFile(j)) /\ IsTree(disk, Chunk)
    BY <1>1, UploadPaths DEF UploadStands, Standing
  <2> QED BY <2>1, ContentTyped
<1>5. remote'[RemoteFile(j)] = File(SubSeq(content, 1, 0))
  <2>1. SubSeq(content, 1, 0) = <<>>
    BY SubSeqEmpty
  <2> QED BY <1>1, <2>1 DEF Create, With
<1> HIDE DEF content
<1>6. 0 \in 0 .. Len(content)
  BY <1>4
<1> QED BY <1>1, <1>2, <1>3, <1>5, <1>6, SendDelivers DEF content

\* The next chunk of the file is sent.
LEMMA ChunkDelivers ==
  ASSUME NEW j \in Jobs, UploadStands(j), SendChunk(j), ~Fail(j), Sought(j), Delivered(j),
         job' = job, Grows(remote, remote')
  PROVE  Sought(j)' /\ Delivered(j)'
<1> DEFINE n == work[j].done + 1
           fields == [done |-> n]
           L == LocalFile(j)
           R == RemoteFile(j)
           content == disk[L].content
<1>1. /\ work[j].phase = "send" /\ disk' = disk /\ n <= Len(content)
      /\ remote' = WriteChunk(remote, R, n, ChunkAt(disk, L, n))
      /\ Put(j, fields) /\ DOMAIN fields = {"done"} /\ fields["done"] = n
      /\ DOMAIN work = Jobs /\ {"phase", "files", "place"} \subseteq DOMAIN work[j]
      /\ IsFile(remote, R) /\ IsTree(remote, Chunk) /\ IsTree(disk, Chunk)
  BY DEF SendChunk, Is, Phase, UploadStands, UploadTypeOK, Standing
<1>2. work[j].done \in 0 .. Len(content) /\ remote[R] = File(SubSeq(content, 1, work[j].done))
  BY <1>1 DEF Delivered, Phase
<1>3. content \in Seq(Chunk) /\ Len(content) \in Nat
  BY <1>1, UploadPaths, ContentTyped
<1>4. ChunkAt(disk, L, n) = content[n]
  BY <1>1 DEF ChunkAt
<1> HIDE DEF fields, L, R, content
<1>5. n \in 1 .. Len(content) /\ work[j].done < Len(content)
  BY <1>1, <1>2, <1>3
<1> HIDE DEF n
<1>6. /\ work'[j].phase = "send" /\ work'[j].done = n /\ work'[j].place = work[j].place
      /\ work'[j].files = work[j].files
  BY <1>1, PutGives
<1>7. Spares(remote, remote', {R})
  <2>1. content[n] \in Chunk /\ n \in Nat \ {0}
    BY <1>3, <1>5, LenProperties
  <2>2. remote' \in Alike(remote, Chunk, R)
    BY <1>1, <1>4, <2>1, ToolsAssumption, AlikeTree, WritesChunk
  <2> QED BY <2>2, AlikeSpares
<1>8. remote'[R] = File(SubSeq(content, 1, n))
  <2>1. Written(SubSeq(content, 1, work[j].done), n, content[n]) = SubSeq(content, 1, n)
    BY <1>2, <1>3, <1>5, FirstChunks DEF n
  <2>2. R \in DOMAIN remote
    BY <1>1 DEF IsFile, Exists
  <2>3. remote'[R] = [remote[R] EXCEPT !.content = Written(remote[R].content, n, content[n])]
    BY <1>1, <1>4, <2>2 DEF WriteChunk
  <2> DEFINE less == SubSeq(content, 1, work[j].done)
             more == SubSeq(content, 1, n)
  <2> HIDE DEF less, more
  <2>4. remote[R] = [kind |-> "file", content |-> less]
    BY <1>2 DEF File, less
  <2>5. Written(remote[R].content, n, content[n]) = more
    BY <2>1, <2>4 DEF less, more
  <2>6. remote'[R] = [kind |-> "file", content |-> more]
    BY <2>3, <2>4, <2>5
  <2> QED BY <2>6 DEF File, more
<1>9. n \in 0 .. Len(content)
  BY <1>3, <1>5
<1> QED BY <1>1, <1>6, <1>7, <1>8, <1>9, SendDelivers DEF content, L, R

\* A file that has come to its end is on the console, and so are all before it.
LEMMA SentAtEnd ==
  ASSUME NEW j \in Jobs, UploadStands(j), EndPut(j), Delivered(j), job' = job
  PROVE  \A i \in 1 .. work[j].place : \A p : p = work[j].files[i] => Sent(j, p)'
<1> DEFINE content == disk[LocalFile(j)].content
<1>1. /\ work[j].phase = "send" /\ disk' = disk /\ remote' = remote
      /\ work[j].done >= Len(content) /\ IsTree(disk, Chunk) /\ IsFile(remote, RemoteFile(j))
  BY DEF EndPut, Is, Phase, UploadStands, UploadTypeOK, Standing
<1>2. /\ work[j].done \in 0 .. Len(content)
      /\ remote[RemoteFile(j)] = File(SubSeq(content, 1, work[j].done))
  BY <1>1 DEF Delivered, Phase
<1>3. IsFile(disk, LocalFile(j)) /\ content \in Seq(Chunk) /\ Len(content) \in Nat
  BY <1>1, UploadPaths, ContentTyped
<1>4. Sent(j, LocalFile(j))
  <2>1. work[j].done = Len(content)
    <3> HIDE DEF content
    <3> QED BY <1>1, <1>2, <1>3
  <2>2. SubSeq(content, 1, Len(content)) = content
    BY <1>3, SubSeqFull
  <2>3. disk[LocalFile(j)] = File(content)
    <3>1. disk[LocalFile(j)] \in [kind : {"file"}, content : Seq(Chunk)]
      BY <1>1, <1>3 DEF IsTree, IsFile, Exists, Dir
    <3> QED BY <3>1 DEF File
  <2>4. remote[RemoteFile(j)] = disk[LocalFile(j)]
    <3> HIDE DEF content
    <3> QED BY <1>2, <2>1, <2>2, <2>3
  <2> QED BY <1>1, <2>4 DEF Sent, RemoteFile
<1>5. ASSUME NEW i \in 1 .. work[j].place PROVE Sent(j, work[j].files[i])
  <2>1. work[j].place \in Nat
    <3>1. work[j].place \in 1 .. Len(work[j].files) /\ Len(work[j].files) \in Nat
      BY <1>1, FoundBelow
    <3> QED BY <3>1
  <2>2. CASE i = work[j].place
    BY <1>4, <2>2 DEF LocalFile
  <2>3. CASE i # work[j].place
    <3>1. i \in 1 .. work[j].place - 1
      BY <2>1, <2>3
    <3> QED BY <1>1, <1>4, <3>1 DEF Delivered, Phase
  <2> QED BY <2>2, <2>3
<1>6. \A p : Sent(j, p) => Sent(j, p)'
  BY <1>1 DEF Sent, RemotePath, Local, Source
<1> QED BY <1>5, <1>6

LEMMA EndDelivers ==
  ASSUME NEW j \in Jobs, UploadStands(j), EndPut(j), ~Fail(j), Sought(j), Delivered(j),
         job' = job, work'[j].phase # "done"
  PROVE  Sought(j)' /\ Delivered(j)'
<1> DEFINE phase == IF work[j].place < Len(work[j].files) THEN "parent" ELSE "done"
           fields == [phase |-> phase, place |-> work[j].place + 1]
<1>1. /\ work[j].phase = "send" /\ disk' = disk
      /\ Put(j, fields) /\ DOMAIN fields = {"phase", "place"}
      /\ fields["phase"] = phase /\ fields["place"] = work[j].place + 1
      /\ DOMAIN work = Jobs /\ {"phase", "files", "place"} \subseteq DOMAIN work[j]
  BY DEF EndPut, Is, Phase, UploadStands, UploadTypeOK, Standing
<1> HIDE DEF fields, phase
<1>2. /\ work'[j].phase = phase /\ work'[j].place = work[j].place + 1
      /\ work'[j].files = work[j].files
  BY <1>1, PutGives
<1>3. work'[j].phase = "parent"
  BY <1>2 DEF phase
<1>4. \A i \in 1 .. work'[j].place - 1 : Sent(j, work[j].files[i])'
  <2>1. work[j].place \in Nat
    <3>1. work[j].place \in 1 .. Len(work[j].files) /\ Len(work[j].files) \in Nat
      BY <1>1, FoundBelow
    <3> QED BY <3>1
  <2>2. work'[j].place - 1 = work[j].place
    BY <1>2, <2>1
  <2>3. \A i \in 1 .. work[j].place : \A p : p = work[j].files[i] => Sent(j, p)'
    BY SentAtEnd
  <2> QED BY <1>2, <2>2, <2>3
<1>5. Delivered(j)'
  BY <1>3, <1>4 DEF Delivered, Phase
<1> QED BY <1>1, <1>2, <1>5, SoughtAll, SoughtSame

\* Whatever step an upload makes, what it still has to do is on its lists.
LEMMA UploadOwesOn ==
  ASSUME NEW j \in Jobs, UploadStands(j), job' = job, Grows(remote, remote'),
         ClickUpload(j) \/ (UploadStep(j) /\ Sought(j) /\ Delivered(j)),
         work'[j].phase \notin {"done", "failed"}
  PROVE  Sought(j)' /\ Delivered(j)'
<1>1. DOMAIN work = Jobs /\ "phase" \in DOMAIN work[j]
  BY DEF UploadStands, Standing
<1>2. ~Fail(j)
  BY <1>1, GotoGives DEF Fail
<1>3. CASE ClickUpload(j)
  <2>1. work'[j].phase = "connect"
    BY <1>1, <1>3, GotoGives DEF ClickUpload
  <2> QED BY <2>1 DEF Sought, Delivered, Phase
<1>4. CASE UploadStep(j) /\ Sought(j) /\ Delivered(j)
  BY <1>2, <1>4, SoughtFirst, SoughtOn, SoughtStays, ScanDelivers, DirDelivers, PutDelivers,
     ChunkDelivers, EndDelivers DEF UploadStep
<1> QED BY <1>3, <1>4

\* All that is done when an upload is: the files of the folder have been sent.
LEMMA SentWhenDone ==
  ASSUME NEW j \in Jobs, UploadStands(j), UploadStep(j), Sought(j), Delivered(j), job' = job,
         work'[j].phase = "done"
  PROVE  \A p \in FilesBelow(disk, Local(j)) : Sent(j, p)'
<1>1. DOMAIN work = Jobs /\ "phase" \in DOMAIN work[j]
  BY DEF UploadStands, Standing
<1>2. ~Fail(j) /\ ~Goto(j, "parent") /\ ~Goto(j, "put")
  BY <1>1, GotoGives DEF Fail
<1>3. CASE ScanEnds(j)
  <2>1. work[j].phase = "scan" /\ work[j].stack = <<>>
    BY <1>3 DEF ScanEnds, Is, Phase
  <2>2. work[j].files = <<>>
    <3> DEFINE fields == [phase |-> "base", place |-> 1]
    <3>1. "phase" \in DOMAIN fields /\ fields["phase"] = "base"
      OBVIOUS
    <3> HIDE DEF fields
    <3>2. ~Put(j, fields)
      BY <1>1, <3>1, PutGives
    <3> QED BY <1>3, <3>2 DEF ScanEnds, fields
  <2>3. FilesBelow(disk, Local(j)) = {}
    <3>1. FilesBelow(disk, Local(j)) \subseteq ToSet(work[j].files)
      BY <2>1, SoughtAll
    <3> QED BY <2>2, <3>1 DEF ToSet
  <2> QED BY <2>3
<1>4. CASE EndPut(j)
  <2> DEFINE fields == [phase |-> IF work[j].place < Len(work[j].files) THEN "parent" ELSE "done",
                        place |-> work[j].place + 1]
  <2>1. /\ Put(j, fields) /\ "phase" \in DOMAIN fields
        /\ fields["phase"] = IF work[j].place < Len(work[j].files) THEN "parent" ELSE "done"
        /\ work[j].phase = "send"
    BY <1>2, <1>4 DEF EndPut, Is, Phase
  <2> HIDE DEF fields
  <2>2. ~(work[j].place < Len(work[j].files))
    BY <1>1, <2>1, PutGives
  <2>3. work[j].place = Len(work[j].files) /\ DOMAIN work[j].files = 1 .. Len(work[j].files)
    BY <2>1, <2>2, FoundBelow
  <2>4. \A i \in 1 .. work[j].place : \A p : p = work[j].files[i] => Sent(j, p)'
    BY <1>4, SentAtEnd
  <2>5. \A p \in ToSet(work[j].files) : Sent(j, p)'
    BY <2>3, <2>4 DEF ToSet
  <2> QED BY <2>1, <2>5, SoughtAll
<1>5. ~Connect(j)
  <2> SUFFICES ASSUME Connect(j) PROVE FALSE
    OBVIOUS
  <2>1. PICK login, stack :
          Put(j, [phase |-> "scan", login |-> login, files |-> <<>>, stack |-> stack])
    BY <1>2 DEF Connect
  <2> DEFINE fields == [phase |-> "scan", login |-> login, files |-> <<>>, stack |-> stack]
  <2>2. Put(j, fields) /\ "phase" \in DOMAIN fields /\ fields["phase"] = "scan"
    BY <2>1
  <2> HIDE DEF fields
  <2> QED BY <1>1, <2>2, PutGives
<1>6. \A fields : work[j].phase # "done" /\ "phase" \notin DOMAIN fields => ~Put(j, fields)
  <2> SUFFICES ASSUME NEW fields, work[j].phase # "done", "phase" \notin DOMAIN fields, Put(j, fields)
               PROVE  FALSE
    OBVIOUS
  <2> QED BY <1>1, PutGives
<1>7. ~ScanEntry(j) /\ ~LeaveDir(j)
  <2>1. \A stack, files : /\ "phase" \notin DOMAIN [stack |-> stack]
                          /\ "phase" \notin DOMAIN [stack |-> stack, files |-> files]
    OBVIOUS
  <2>2. work[j].phase # "done" => \A stack, files : /\ ~Put(j, [stack |-> stack])
                                                    /\ ~Put(j, [stack |-> stack, files |-> files])
    BY <1>6, <2>1
  <2> QED BY <1>2, <2>2 DEF ScanEntry, LeaveDir, Is, Phase
<1>8. ~StartPut(j)
  <2> DEFINE fields == [phase |-> "send", done |-> 0]
  <2>1. "phase" \in DOMAIN fields /\ fields["phase"] = "send"
    OBVIOUS
  <2> HIDE DEF fields
  <2>2. ~Put(j, fields)
    BY <1>1, <2>1, PutGives
  <2> QED BY <1>2, <2>2 DEF StartPut, fields
<1>9. ~SendChunk(j)
  <2>1. \A n : "phase" \notin DOMAIN [done |-> n]
    OBVIOUS
  <2>2. work[j].phase # "done" => \A n : ~Put(j, [done |-> n])
    BY <1>6, <2>1
  <2> QED BY <1>2, <2>2 DEF SendChunk, Is, Phase
<1>10. ~MakeBase(j) /\ ~MakeParent(j)
  BY <1>2 DEF MakeBase, MakeParent
<1> QED BY <1>3, <1>4, <1>5, <1>7, <1>8, <1>9, <1>10 DEF UploadStep

\* What is kept up: the folder of an upload that nobody clashed with is as it was, and what
\* is still to be done is known.
UploadInv ==
  /\ TypeOK /\ Told
  /\ \A j \in Jobs \ clashed :
       job[j].kind = "upload" /\ ~Ended(j) => FolderSame(j) /\ Sought(j) /\ Delivered(j)

LEMMA InitUpload == Init => UploadInv
<1> SUFFICES ASSUME Init PROVE UploadInv
  OBVIOUS
<1>1. \A j \in Jobs : Ended(j)
  BY DEF Init, Ended, Phase, Idle
<1> QED BY <1>1, InitTyped DEF UploadInv, Told

LEMMA UploadsUpload ==
  ASSUME NEW j \in Jobs, Click(j) \/ Step(j), job[j].kind = "upload"
  PROVE  (Click(j) /\ ClickUpload(j)) \/ (Step(j) /\ UploadStep(j))
BY DEF Click, Step, ClickUnpack, ClickPack, CallExtract, UnpackStep, OpenImage, UnpackDir, UnpackFile,
   EntryFails, UnpackChunk, EndOfImage, PackStep, CreateImage, ScanFolder, PackChunk, FinishImage,
   PackFails, DropBuffer, ExtractStep, OpenVolume, ListDir, ListEnds, StartFile, ExtractChunk,
   EndFile, Is

LEMMA StepUpload == UploadInv /\ [Next]_vars => UploadInv'
<1> SUFFICES ASSUME UploadInv, [Next]_vars PROVE UploadInv'
  OBVIOUS
<1>1. TypeOK /\ TypeOK' /\ Told
  BY StepTyped DEF UploadInv
<1>2. CASE UNCHANGED vars
  <2>1. Told'
    BY <1>1, <1>2 DEF Told, Ended, Phase, Clash, Reads, Writes, Dest, vars
  <2>2. \A j : /\ Ended(j)' = Ended(j) /\ FolderSame(j)' = FolderSame(j)
               /\ Sought(j)' = Sought(j) /\ Delivered(j)' = Delivered(j)
    BY <1>2 DEF Ended, Phase, FolderSame, Sought, Delivered, Sent, Local, Source, LocalFile,
       RemoteFile, RemotePath, vars
  <2> QED BY <1>1, <1>2, <2>1, <2>2 DEF UploadInv, vars
<1>3. ASSUME NEW i \in Jobs, Click(i) \/ Step(i) PROVE UploadInv'
  <2>1. /\ job' = job /\ IsTree(disk', Chunk) /\ Grows(disk, disk') /\ Grows(remote, remote')
        /\ \A k \in Jobs \ {i} : work'[k] = work[k]
        /\ clashed \subseteq clashed' /\ (Step(i) => ~Ended(i))
    BY <1>1, <1>3, JobMoves, JobSpares DEF Click, Step
  <2>2. \A k \in Jobs \ {i} : before'[k] = before[k]
    BY <1>1, <1>3 DEF Click, Step, TypeOK
  <2>3. Told'
    BY <1>1, <1>3, ToldStays
  <2>4. ASSUME NEW j \in Jobs, j \notin clashed', job[j].kind = "upload", ~Ended(j)'
        PROVE  FolderSame(j)' /\ Sought(j)' /\ Delivered(j)'
    <3>1. UploadStands(j) /\ j \notin clashed
      BY <1>1, <2>1, <2>4 DEF TypeOK, UploadStands, Standing, JobTypeOK
    <3>2. CASE j = i
      <4>1. ClickUpload(j) \/ (Step(j) /\ UploadStep(j))
        BY <1>3, <2>4, <3>2, UploadsUpload
      <4>2. Step(j) => FolderSame(j) /\ Sought(j) /\ Delivered(j)
        BY <2>1, <2>4, <3>1, <3>2 DEF UploadInv
      <4>3. work'[j].phase \notin {"done", "failed"}
        BY <2>4 DEF Ended, Phase
      <4>4. disk' = disk
        BY <2>1, <3>1, <4>1, UploadMoves
      <4>5. FolderSame(j)'
        <5>1. Local(j)' = Local(j)
          BY <2>1 DEF Local, Source
        <5>2. CASE Click(j)
          <6>1. before'[j] = disk
            BY <1>1, <5>2 DEF Click, TypeOK
          <6> QED BY <4>4, <6>1 DEF FolderSame
        <5>3. CASE Step(j)
          <6>1. before' = before
            BY <5>3 DEF Step
          <6> QED BY <4>2, <4>4, <5>1, <5>3, <6>1 DEF FolderSame
        <5> QED BY <1>3, <3>2, <5>2, <5>3
      <4> QED BY <2>1, <3>1, <4>1, <4>2, <4>3, <4>5, UploadOwesOn
    <3>3. CASE j # i
      <4>1. work'[j] = work[j] /\ before'[j] = before[j]
        BY <2>1, <2>2, <3>3
      <4>2. ~Ended(j)
        BY <2>4, <4>1 DEF Ended, Phase
      <4>3. FolderSame(j) /\ Sought(j) /\ Delivered(j)
        BY <2>4, <3>1, <4>2 DEF UploadInv
      <4>4. remote' = remote
            /\ \E paths : Spares(disk, disk', paths) /\ paths \cap Under(Local(j)) = {}
        BY <1>1, <1>3, <2>4, <3>1, <3>3, <4>2, OthersAway
      <4> QED BY <2>1, <3>1, <4>1, <4>3, <4>4, UploadStays
    <3> QED BY <3>2, <3>3
  <2> QED BY <1>1, <2>1, <2>3, <2>4 DEF UploadInv
<1> QED BY <1>2, <1>3 DEF Next

\* "Done! Files successfully uploaded to console." means that every file of the folder is
\* on the console, whole, at its place below the base directory, whatever was there before
\* and whatever other jobs did meanwhile elsewhere (ftp_runner.rs).
THEOREM UploadsComplete == Spec => UploadedWhenDone
<1>1. ASSUME UploadInv, [Next]_vars
      PROVE  [\A j \in Jobs : IsDone(j, "upload") =>
                \A path \in FilesBelow(before[j], Local(j)) :
                  /\ IsFile(remote', Base \o Relative(Local(j), path))
                  /\ remote'[Base \o Relative(Local(j), path)] = before[j][path]]_vars
  <2> SUFFICES ASSUME NEW j \in Jobs, IsDone(j, "upload"),
                      NEW path \in FilesBelow(before[j], Local(j)), ~UNCHANGED vars
               PROVE  /\ IsFile(remote', Base \o Relative(Local(j), path))
                      /\ remote'[Base \o Relative(Local(j), path)] = before[j][path]
    OBVIOUS
  <2>1. TypeOK
    BY <1>1 DEF UploadInv
  <2>2. PICK i \in Jobs : Click(i) \/ Step(i)
    BY <1>1 DEF Next
  <2>3. /\ job' = job /\ \A k \in Jobs \ {i} : work'[k] = work[k]
        /\ Step(i) => ~Ended(i)
    BY <2>1, <2>2, JobMoves, JobSpares
  <2>4. /\ job[j].kind = "upload" /\ j \notin clashed /\ work[j].phase # "done"
        /\ work'[j].phase = "done"
    BY DEF IsDone, Phase
  <2>5. j = i
    BY <2>3, <2>4
  <2>6. UploadStands(j) /\ "phase" \in DOMAIN work[j] /\ DOMAIN work = Jobs
    BY <2>1, <2>4 DEF TypeOK, UploadStands, Standing, JobTypeOK
  <2>7. Step(j) /\ UploadStep(j)
    <3>1. ~ClickUpload(j)
      BY <2>4, <2>6, GotoGives DEF ClickUpload
    <3> QED BY <2>2, <2>4, <2>5, <3>1, UploadsUpload
  <2>8. FolderSame(j) /\ Sought(j) /\ Delivered(j)
    BY <1>1, <2>3, <2>4, <2>5, <2>7 DEF UploadInv
  <2>9. \A p \in FilesBelow(disk, Local(j)) : Sent(j, p)'
    BY <2>3, <2>4, <2>6, <2>7, <2>8, SentWhenDone
  <2>10. disk' = disk /\ \A p : RemotePath(j, p)' = RemotePath(j, p)
    BY <2>3, <2>6, <2>7, UploadMoves DEF RemotePath, Local, Source
  <2>11. path \in FilesBelow(disk, Local(j)) /\ disk[path] = before[j][path]
    <3>1. IsTree(disk, Chunk) /\ IsTree(before[j], Chunk)
      BY <2>1 DEF TypeOK
    <3>2. path \in Under(Local(j)) /\ IsFile(before[j], path) /\ path # Local(j)
      BY <3>1, FilesUnder
    <3> QED BY <2>8, <3>1, <3>2, FilesUnder DEF FolderSame
  <2>12. Sent(j, path)'
    BY <2>9, <2>11
  <2> QED BY <2>10, <2>11, <2>12 DEF Sent, RemotePath
<1> QED BY <1>1, InitUpload, StepUpload, PTL DEF Spec, UploadedWhenDone

-----------------------------------------------------------------------------
(* What has been unpacked. *)

\* Of the entries up to m, those that none up to upto replaces are in directory dir.
Laid(fs, dir, entries, content, m, upto) ==
  \A n \in 1 .. m :
    (\A k \in n + 1 .. upto : PlaceIn(dir, entries[k]) # PlaceIn(dir, entries[n]))
      => EntryThere(fs, PlaceIn(dir, entries[n]), entries[n], content)

\* Chunks from the middle of a file are copied one by one.
LEMMA MiddleChunks ==
  ASSUME NEW C, NEW s \in Seq(C), NEW a \in Nat \ {0}, NEW n \in Nat
  PROVE  /\ SubSeq(s, a, a + 0 - 1) = <<>>
         /\ a + n <= Len(s) =>
              Written(SubSeq(s, a, a + n - 1), n + 1, s[a + n]) = SubSeq(s, a, a + (n + 1) - 1)
<1>1. Len(s) \in Nat /\ \A i \in 1 .. Len(s) : s[i] \in C
  BY LenProperties
<1>2. SubSeq(s, a, a + 0 - 1) = <<>>
  <2>1. a \in Int /\ a + 0 - 1 \in Int /\ a + 0 - 1 < a
    OBVIOUS
  <2> QED BY <2>1, SubSeqEmpty
<1>3. ASSUME a + n <= Len(s)
      PROVE  Written(SubSeq(s, a, a + n - 1), n + 1, s[a + n]) = SubSeq(s, a, a + (n + 1) - 1)
  <2> DEFINE less == SubSeq(s, a, a + n - 1)
             all == SubSeq(s, a, a + (n + 1) - 1)
             e == Written(less, n + 1, s[a + n])
  <2>1. ASSUME NEW m \in 0 .. n + 1
        PROVE  /\ SubSeq(s, a, a + m - 1) \in Seq(C) /\ Len(SubSeq(s, a, a + m - 1)) = m
               /\ \A i \in 1 .. m : SubSeq(s, a, a + m - 1)[i] = s[a + i - 1]
    <3> DEFINE b == a + m - 1
    <3>1. /\ a \in Int /\ b \in Int /\ b - a + 1 = m /\ (IF a <= b THEN b - a + 1 ELSE 0) = m
          /\ \A i \in a .. b : i \in 1 .. Len(s)
      BY <1>1, <1>3
    <3>2. \A i \in a .. b : s[i] \in C
      BY <1>1, <3>1
    <3> HIDE DEF b
    <3>3. /\ SubSeq(s, a, b) \in Seq(C) /\ Len(SubSeq(s, a, b)) = m
          /\ \A i \in 1 .. m : SubSeq(s, a, b)[i] = s[a + i - 1]
      BY <3>1, <3>2, SubSeqProperties
    <3> QED BY <3>3 DEF b
  <2>2. /\ less \in Seq(C) /\ Len(less) = n /\ \A i \in 1 .. n : less[i] = s[a + i - 1]
        /\ all \in Seq(C) /\ Len(all) = n + 1 /\ \A i \in 1 .. n + 1 : all[i] = s[a + i - 1]
    <3>1. n \in 0 .. n + 1 /\ n + 1 \in 0 .. n + 1
      OBVIOUS
    <3> HIDE DEF less, all
    <3> QED BY <2>1, <3>1 DEF less, all
  <2> HIDE DEF less, all
  <2>3. e = [i \in 1 .. n + 1 |-> IF i = n + 1 THEN s[a + n] ELSE IF i <= n THEN less[i] ELSE Hole]
    BY <2>2 DEF Written
  <2>4. \A i \in 1 .. n + 1 : e[i] = all[i]
    <3>1. \A i \in 1 .. n + 1 : (i # n + 1 => i \in 1 .. n /\ i <= n) /\ a + (n + 1) - 1 = a + n
      OBVIOUS
    <3> HIDE DEF e
    <3> QED BY <2>2, <2>3, <3>1
  <2>5. all = [i \in 1 .. n + 1 |-> all[i]]
    BY <2>2, LenProperties
  <2>6. e = all
    <3> HIDE DEF e
    <3>1. e = [i \in 1 .. n + 1 |-> e[i]]
      BY <2>3
    <3> QED BY <2>4, <2>5, <3>1
  <2> QED BY <2>6 DEF less, all
<1> QED BY <1>2, <1>3

\* What is there stays, as long as nothing else is written there.
LEMMA ThereStays ==
  ASSUME NEW fs, NEW gs, Grows(fs, gs), NEW paths, Spares(fs, gs, paths),
         NEW path, path \notin paths, NEW e, NEW content, EntryThere(fs, path, e, content)
  PROVE  EntryThere(gs, path, e, content)
<1>1. CASE e.isDir
  BY <1>1, GrowsKeeps DEF EntryThere
<1>2. CASE ~e.isDir
  <2>1. IsFile(fs, path) /\ fs[path].content = SubSeq(content, e.at, e.at + e.size - 1)
    BY <1>2 DEF EntryThere
  <2>2. IsFile(gs, path)
    BY <2>1, GrowsKeeps
  <2>3. gs[path] = fs[path]
    BY <2>2 DEF Spares
  <2> QED BY <1>2, <2>1, <2>2, <2>3 DEF EntryThere
<1> QED BY <1>1, <1>2

LEMMA LaidStays ==
  ASSUME NEW fs, NEW gs, Grows(fs, gs), NEW paths, Spares(fs, gs, paths),
         NEW dir, NEW entries, NEW content, NEW m \in Int, NEW upto \in Int, NEW limit \in Int,
         Laid(fs, dir, entries, content, m, upto), upto <= limit,
         \A n \in 1 .. m :
           (\A k \in n + 1 .. limit : PlaceIn(dir, entries[k]) # PlaceIn(dir, entries[n]))
             => PlaceIn(dir, entries[n]) \notin paths
  PROVE  Laid(gs, dir, entries, content, m, limit)
<1> SUFFICES ASSUME NEW n \in 1 .. m,
                    \A k \in n + 1 .. limit : PlaceIn(dir, entries[k]) # PlaceIn(dir, entries[n])
             PROVE  EntryThere(gs, PlaceIn(dir, entries[n]), entries[n], content)
  BY DEF Laid
<1>1. \A k \in n + 1 .. upto : PlaceIn(dir, entries[k]) # PlaceIn(dir, entries[n])
  <2>1. \A k \in n + 1 .. upto : k \in n + 1 .. limit
    OBVIOUS
  <2> QED BY <2>1
<1>2. EntryThere(fs, PlaceIn(dir, entries[n]), entries[n], content)
  BY <1>1 DEF Laid
<1>3. PlaceIn(dir, entries[n]) \notin paths
  OBVIOUS
<1> QED BY <1>2, <1>3, ThereStays

LEMMA LaidOn ==
  ASSUME NEW fs, NEW dir, NEW entries, NEW content, NEW p \in Nat \ {0},
         Laid(fs, dir, entries, content, p - 1, p),
         EntryThere(fs, PlaceIn(dir, entries[p]), entries[p], content)
  PROVE  Laid(fs, dir, entries, content, p, p)
<1> SUFFICES ASSUME NEW n \in 1 .. p,
                    \A k \in n + 1 .. p : PlaceIn(dir, entries[k]) # PlaceIn(dir, entries[n])
             PROVE  EntryThere(fs, PlaceIn(dir, entries[n]), entries[n], content)
  BY DEF Laid
<1>1. CASE n = p
  BY <1>1
<1>2. CASE n # p
  <2>1. n \in 1 .. p - 1
    BY <1>2
  <2> QED BY <2>1 DEF Laid
<1> QED BY <1>1, <1>2

LEMMA HoldsLaid ==
  ASSUME NEW fs, NEW dir, NEW images, NEW path, NEW T, TableOf(images, path) \in Seq(T)
  PROVE  LET entries == TableOf(images, path)
         IN Holds(fs, dir, images, path)
              <=> Laid(fs, dir, entries, images[path].content, Len(entries), Len(entries))
<1>1. DOMAIN TableOf(images, path) = 1 .. Len(TableOf(images, path))
  BY LenProperties
<1> QED BY <1>1 DEF Holds, Laid

\* What goes to a directory of its own is not in another.
LEMMA PlaceTells ==
  ASSUME NEW dir \in Path, NEW name \in Names, NEW e \in Item
  PROVE  PlaceIn(Append(dir, name), e)[Len(dir) + 1] = name
<1> DEFINE base == Append(dir, name)
<1>1. /\ base \in Path /\ Len(base) = Len(dir) + 1 /\ base[Len(dir) + 1] = name
      /\ Len(dir) \in Nat
  BY AppendProperties, LenProperties DEF Path
<1>2. e.dir \in Path /\ e.name \in Names
  BY DEF Item
<1> HIDE DEF base
<1>3. /\ base \o e.dir \in Path /\ Len(base \o e.dir) = Len(base) + Len(e.dir) /\ Len(e.dir) \in Nat
      /\ \A i \in 1 .. Len(base) + Len(e.dir) :
           (base \o e.dir)[i] = IF i <= Len(base) THEN base[i] ELSE e.dir[i - Len(base)]
  BY <1>1, <1>2, ConcatProperties, LenProperties DEF Path
<1>4. Len(dir) + 1 \in 1 .. Len(base \o e.dir) /\ (base \o e.dir)[Len(dir) + 1] = name
  <2>1. Len(dir) + 1 \in 1 .. Len(base) + Len(e.dir) /\ Len(dir) + 1 <= Len(base)
    <3>1. \A a \in Nat : \A b, c : b = a + 1 /\ c \in Nat => a + 1 \in 1 .. b + c /\ a + 1 <= b
      OBVIOUS
    <3> QED BY <1>1, <1>3, <3>1, Zenon
  <2>2. (base \o e.dir)[Len(dir) + 1] = base[Len(dir) + 1]
    BY <1>3, <2>1, Zenon
  <2> QED BY <1>1, <1>3, <2>1, <2>2, Zenon
<1>5. Append(base \o e.dir, e.name)[Len(dir) + 1] = (base \o e.dir)[Len(dir) + 1]
  BY <1>2, <1>3, <1>4, AppendProperties DEF Path
<1> QED BY <1>4, <1>5 DEF PlaceIn, base

\* An entry goes below the directory of its image.
LEMMA PlaceUnder ==
  ASSUME NEW dir \in Path, NEW target \in Path, IsPrefix(dir, target), NEW e \in Item
  PROVE  PlaceIn(target, e) \in Under(dir)
<1>1. e.dir \in Path /\ e.name \in Names
  BY DEF Item
<1>2. target \o e.dir \in Path /\ IsPrefix(dir, target \o e.dir)
  BY <1>1, ConcatTyped, ConcatBelow
<1> QED BY <1>1, <1>2, ConcatTyped, ConcatBelow DEF PlaceIn, Under

\* The images of the batch are as they were.
SourcesSame(j) ==
  \A p \in ToSet(job[j].sources) : IsFile(disk, p) \/ IsFile(before[j], p) =>
    IsFile(disk, p) /\ IsFile(before[j], p) /\ disk[p] = before[j][p]

\* Image i of the batch is in its directory of fs.
Unpacked(fs, j, i) ==
  IsImage(before[j], job[j].sources[i]) /\ Holds(fs, Target(j, i), before[j], job[j].sources[i])

\* No image up to the one at work has the name of image i.
IsOwn(j, i) ==
  \A k \in i + 1 .. work[j].index : Stem[Last(job[j].sources[k])] # Stem[Last(job[j].sources[i])]

\* The images that were not given up are in their directories.
EarlierLaid(j) ==
  /\ Len(work[j].outcomes) = work[j].index - 1
  /\ \A i \in 1 .. work[j].index - 1 :
       work[j].outcomes[i] = "unpacked" /\ IsOwn(j, i) => Unpacked(disk, j, i)

\* Of the image at work: its entries up to m.
Part(fs, j, m, upto) ==
  Laid(fs, Target(j, work[j].index), work[j].entries, before[j][Image(j)].content, m, upto)

\* The entries of the image before the one at work are there, and so are the chunks of
\* that one that were copied.
CurrentLaid(j) ==
  /\ Phase(j) \in {"entry", "copy"} =>
       IsImage(before[j], Image(j)) /\ work[j].entries = TableOf(before[j], Image(j))
  /\ Phase(j) = "entry" => Part(disk, j, work[j].place - 1, work[j].place - 1)
  /\ Phase(j) = "copy" =>
       /\ ~Entry(j).isDir /\ Part(disk, j, work[j].place - 1, work[j].place)
       /\ disk[EntryPath(j)].content =
            SubSeq(before[j][Image(j)].content, Entry(j).at, Entry(j).at + work[j].done - 1)
  /\ Phase(j) = "unpacked" => Unpacked(disk, j, work[j].index)

LEMMA TableTyped ==
  ASSUME NEW fs, IsTree(fs, Chunk), NEW path, IsImage(fs, path)
  PROVE  TableOf(fs, path) \in Seq(Item) /\ fs[path].content \in Seq(Chunk)
<1>1. /\ IsFile(fs, path) /\ fs[path].content # <<>> /\ "table" \in DOMAIN fs[path].content[1]
  BY DEF IsImage
<1>2. fs[path].content \in Seq(Chunk)
  BY <1>1, ContentTyped
<1>3. fs[path].content[1] \in Chunk
  BY <1>1, <1>2, EmptySeq, ElementOfSeq
<1>4. fs[path].content[1] \in [table : Seq(Item)]
  BY <1>1, <1>3 DEF Chunk
<1> QED BY <1>2, <1>4 DEF TableOf

\* The images of a batch and where they go.
LEMMA BatchTyped ==
  ASSUME NEW j \in Jobs, UnpackStands(j)
  PROVE  /\ Dest(j) \in Path /\ Len(job[j].sources) \in Nat
         /\ DOMAIN job[j].sources = 1 .. Len(job[j].sources)
         /\ \A i \in 1 .. Len(job[j].sources) :
              /\ job[j].sources[i] \in ToSet(job[j].sources)
              /\ Stem[Last(job[j].sources[i])] \in Names
              /\ Target(j, i) \in Path /\ IsPrefix(Dest(j), Target(j, i))
<1>1. /\ Dest(j) \in Path /\ job[j].sources \in Seq(Path) /\ <<>> \notin ToSet(job[j].sources)
  BY ChoiceOf DEF UnpackStands, Standing
<1>2. /\ Len(job[j].sources) \in Nat /\ DOMAIN job[j].sources = 1 .. Len(job[j].sources)
      /\ \A i \in 1 .. Len(job[j].sources) : job[j].sources[i] \in Path
  BY <1>1, LenProperties
<1>3. ASSUME NEW i \in 1 .. Len(job[j].sources)
      PROVE  /\ job[j].sources[i] \in ToSet(job[j].sources)
             /\ Stem[Last(job[j].sources[i])] \in Names
             /\ Target(j, i) \in Path /\ IsPrefix(Dest(j), Target(j, i))
  <2>1. job[j].sources[i] \in ToSet(job[j].sources)
    BY <1>2 DEF ToSet
  <2>2. job[j].sources[i] # <<>>
    BY <1>1, <2>1
  <2>3. Stem[Last(job[j].sources[i])] \in Names
    BY <1>2, <2>2, FrontTyped, ToolsAssumption
  <2>4. IsPrefix(Dest(j), Dest(j))
    BY <1>1, ItsOwnPrefix
  <2> QED BY <1>1, <2>1, <2>3, <2>4, ConcatTyped, ConcatBelow DEF Target
<1> QED BY <1>1, <1>2, <1>3

\* The entry at work does not go where an image with another name goes.
LEMMA OwnApart ==
  ASSUME NEW j \in Jobs, UnpackStands(j), work[j].phase \in {"entry", "copy"},
         NEW i \in 1 .. work[j].index - 1, IsOwn(j, i), NEW e \in Item
  PROVE  PlaceIn(Target(j, i), e) # EntryPath(j)
<1> DEFINE n == work[j].index
<1>1. n \in 1 .. Len(job[j].sources) /\ Entry(j) \in Item /\ Dest(j) \in Path
      /\ Len(job[j].sources) \in Nat
  BY BatchTyped, UnpackPaths DEF UnpackStands, UnpackTypeOK
<1>2. i \in 1 .. Len(job[j].sources) /\ n \in i + 1 .. n /\ Len(job[j].sources) > 1
  BY <1>1
<1>3. /\ Target(j, i) = Append(Dest(j), Stem[Last(job[j].sources[i])])
      /\ Target(j, n) = Append(Dest(j), Stem[Last(job[j].sources[n])])
  BY <1>2 DEF Target, Several
<1>4. Stem[Last(job[j].sources[n])] # Stem[Last(job[j].sources[i])]
  BY <1>2 DEF IsOwn
<1>5. Stem[Last(job[j].sources[i])] \in Names /\ Stem[Last(job[j].sources[n])] \in Names
  BY <1>1, <1>2, BatchTyped
<1>6. EntryPath(j) = PlaceIn(Target(j, n), Entry(j))
  BY DEF EntryPath, EntryDir, PlaceIn
<1> HIDE DEF n
<1>7. /\ PlaceIn(Target(j, i), e)[Len(Dest(j)) + 1] = Stem[Last(job[j].sources[i])]
      /\ PlaceIn(Target(j, n), Entry(j))[Len(Dest(j)) + 1] = Stem[Last(job[j].sources[n])]
  BY <1>1, <1>3, <1>5, PlaceTells
<1> QED BY <1>4, <1>6, <1>7

LEMMA SourcesStay ==
  ASSUME NEW j, SourcesSame(j), job' = job, before'[j] = before[j], Grows(disk, disk'),
         NEW paths, Spares(disk, disk', paths), paths \cap ToSet(job[j].sources) = {}
  PROVE  SourcesSame(j)'
<1>1. \A p \in ToSet(job[j].sources) : /\ IsFile(disk', p) <=> IsFile(disk, p)
                                       /\ IsFile(disk, p) => disk'[p] = disk[p]
  BY GrowsKeeps DEF Spares
<1> QED BY <1>1 DEF SourcesSame

\* An image that was unpacked stays, as long as nothing is written where its entries are.
LEMMA UnpackedStays ==
  ASSUME NEW fs, NEW gs, Grows(fs, gs), NEW paths, Spares(fs, gs, paths),
         NEW j \in Jobs, IsTree(before[j], Chunk), NEW i, Unpacked(fs, j, i),
         \A e \in Item : PlaceIn(Target(j, i), e) \notin paths
  PROVE  Unpacked(gs, j, i)
<1> DEFINE image == job[j].sources[i]
           entries == TableOf(before[j], image)
           n == Len(entries)
<1>1. IsImage(before[j], image) /\ entries \in Seq(Item)
  BY TableTyped DEF Unpacked
<1>2. n \in Nat /\ \A k \in 1 .. n : entries[k] \in Item
  BY <1>1, LenProperties
<1>3. Laid(fs, Target(j, i), entries, before[j][image].content, n, n)
  BY <1>1, HoldsLaid DEF Unpacked
<1> HIDE DEF n, entries, image
<1>4. n \in Int /\ n <= n /\ \A k \in 1 .. n : PlaceIn(Target(j, i), entries[k]) \notin paths
  BY <1>2
<1>5. Laid(gs, Target(j, i), entries, before[j][image].content, n, n)
  BY <1>3, <1>4, LaidStays
<1> QED BY <1>1, <1>5, HoldsLaid DEF Unpacked, n, entries, image

LEMMA EarlierStay ==
  ASSUME NEW j \in Jobs, UnpackStands(j), IsTree(before[j], Chunk), EarlierLaid(j), job' = job,
         before'[j] = before[j], work'[j].index = work[j].index,
         work'[j].outcomes = work[j].outcomes, Grows(disk, disk'), NEW paths,
         Spares(disk, disk', paths),
         \A i \in 1 .. work[j].index - 1 : IsOwn(j, i) =>
           \A e \in Item : PlaceIn(Target(j, i), e) \notin paths
  PROVE  EarlierLaid(j)'
<1>1. ASSUME NEW i \in 1 .. work[j].index - 1, work[j].outcomes[i] = "unpacked", IsOwn(j, i)
      PROVE  Unpacked(disk', j, i)
  BY <1>1, UnpackedStays DEF EarlierLaid
<1>2. \A i : IsOwn(j, i)' = IsOwn(j, i) /\ Unpacked(disk, j, i)' = Unpacked(disk', j, i)
  BY DEF IsOwn, Unpacked, Target, Several, Dest
<1> QED BY <1>1, <1>2 DEF EarlierLaid

\* Jobs that write elsewhere leave a batch as it is.
LEMMA BatchStays ==
  ASSUME NEW j \in Jobs, UnpackStands(j), IsTree(before[j], Chunk), ~Ended(j),
         SourcesSame(j), EarlierLaid(j), CurrentLaid(j), job' = job, before'[j] = before[j],
         work'[j] = work[j], Grows(disk, disk'), NEW paths, Spares(disk, disk', paths),
         paths \cap Under(Dest(j)) = {}, paths \cap ToSet(job[j].sources) = {}
  PROVE  SourcesSame(j)' /\ EarlierLaid(j)' /\ CurrentLaid(j)'
<1> DEFINE w == work[j]
           target == Target(j, w.index)
           content == before[j][Image(j)].content
<1>1. /\ Phase(j)' = Phase(j) /\ Image(j)' = Image(j) /\ Entry(j)' = Entry(j)
      /\ EntryPath(j)' = EntryPath(j) /\ \A i : Target(j, i)' = Target(j, i)
  BY DEF Phase, Image, Entry, EntryPath, EntryDir, Target, Several, Dest
<1>2. /\ w.index \in 1 .. Len(job[j].sources) /\ Dest(j) \in Path /\ Len(job[j].sources) \in Nat
      /\ \A i \in 1 .. Len(job[j].sources) : Target(j, i) \in Path /\ IsPrefix(Dest(j), Target(j, i))
  BY BatchTyped DEF UnpackStands, UnpackTypeOK, Ended, Phase
<1>3. ASSUME NEW i \in 1 .. w.index PROVE \A e \in Item : PlaceIn(Target(j, i), e) \notin paths
  <2>1. i \in 1 .. Len(job[j].sources)
    BY <1>2
  <2> QED BY <1>2, <2>1, PlaceUnder
<1>4. \A i \in 1 .. w.index - 1 : i \in 1 .. w.index
  BY <1>2
<1>5. SourcesSame(j)'
  BY SourcesStay
<1>6. EarlierLaid(j)'
  BY <1>3, <1>4, EarlierStay
<1>7. CASE Phase(j) \in {"entry", "copy"}
  <2>1. /\ w.entries \in Seq(Item) /\ w.place \in DOMAIN w.entries
        /\ EntryPath(j) \in Under(Dest(j)) /\ (w.phase = "copy" => IsFile(disk, EntryPath(j)))
    BY <1>7, EntryUnder DEF UnpackStands, UnpackTypeOK, Phase
  <2>2. /\ w.place \in Nat \ {0} /\ DOMAIN w.entries = 1 .. Len(w.entries)
        /\ \A n \in 1 .. w.place - 1 : w.entries[n] \in Item
    <3>1. DOMAIN w.entries = 1 .. Len(w.entries) /\ Len(w.entries) \in Nat
          /\ \A n \in 1 .. Len(w.entries) : w.entries[n] \in Item
      BY <2>1, LenProperties
    <3>2. \A n \in 1 .. w.place - 1 : n \in 1 .. Len(w.entries)
      BY <2>1, <3>1
    <3> QED BY <2>1, <3>1, <3>2
  <2>3. \A n \in 1 .. w.place - 1 : PlaceIn(target, w.entries[n]) \notin paths
    <3>1. w.index \in 1 .. w.index
      BY <1>2
    <3> QED BY <1>3, <2>2, <3>1
  <2> HIDE DEF target, content
  <2>4. ASSUME NEW upto \in Int, Laid(disk, target, w.entries, content, w.place - 1, upto)
        PROVE  Laid(disk', target, w.entries, content, w.place - 1, upto)
    <3>1. w.place - 1 \in Int /\ upto <= upto
      BY <2>2
    <3> QED BY <2>3, <2>4, <3>1, LaidStays
  <2>5. /\ w.place - 1 \in Int /\ w.place \in Int
        /\ \A m, upto : /\ Part(disk, j, m, upto) <=> Laid(disk, target, w.entries, content, m, upto)
                        /\ Part(disk', j, m, upto) <=> Laid(disk', target, w.entries, content, m, upto)
    BY <2>2 DEF Part, target, content
  <2>6. \A m, upto : Part(disk, j, m, upto)' <=> Part(disk', j, m, upto)
    BY <1>1 DEF Part
  <2>7. w.phase = "copy" => disk'[EntryPath(j)] = disk[EntryPath(j)]
    <3>1. EntryPath(j) \notin paths
      BY <2>1
    <3>2. IsFile(disk, EntryPath(j)) => IsFile(disk', EntryPath(j))
      BY GrowsKeeps
    <3> QED BY <2>1, <3>1, <3>2 DEF Spares
  <2>8. /\ w.phase = "entry" => Part(disk', j, w.place - 1, w.place - 1)
        /\ w.phase = "copy" => Part(disk', j, w.place - 1, w.place)
    BY <2>4, <2>5 DEF CurrentLaid, Phase
  <2>9. CurrentLaid(j)'
    <3>1. /\ w.phase = "entry" => Laid(disk', target, w.entries, content, w.place - 1, w.place - 1)
          /\ w.phase = "copy" => Laid(disk', target, w.entries, content, w.place - 1, w.place)
      BY <2>5, <2>8
    <3> QED BY <1>1, <1>7, <2>7, <3>1 DEF CurrentLaid, Part, Phase, target, content
  <2> QED BY <1>5, <1>6, <2>9
<1>8. CASE Phase(j) = "unpacked"
  <2>1. w.index \in 1 .. w.index
    BY <1>2
  <2>2. Unpacked(disk', j, w.index)
    BY <1>3, <1>8, <2>1, UnpackedStays DEF CurrentLaid
  <2> QED BY <1>1, <1>5, <1>6, <1>8, <2>2 DEF CurrentLaid, Unpacked
<1>9. CASE Phase(j) \notin {"entry", "copy", "unpacked"}
  BY <1>1, <1>5, <1>6, <1>9 DEF CurrentLaid
<1> QED BY <1>7, <1>8, <1>9

\* What the job itself writes at an entry is none of the images, of an earlier image or of
\* the entries before, unless they have the same path.
LEMMA OwnWrites ==
  ASSUME NEW j \in Jobs, UnpackStands(j), work[j].phase \in {"entry", "copy"},
         IsTree(before[j], Chunk), SourcesSame(j), EarlierLaid(j), CurrentLaid(j), ImagesApart(j),
         job' = job, before'[j] = before[j], work'[j].index = work[j].index,
         work'[j].outcomes = work[j].outcomes, Grows(disk, disk'),
         Spares(disk, disk', {EntryPath(j)})
  PROVE  SourcesSame(j)' /\ EarlierLaid(j)' /\ Part(disk', j, work[j].place - 1, work[j].place)
<1> DEFINE w == work[j]
           target == Target(j, w.index)
           content == before[j][Image(j)].content
           paths == {EntryPath(j)}
<1>1. /\ w.index \in 1 .. Len(job[j].sources) /\ w.entries \in Seq(Item)
      /\ w.place \in DOMAIN w.entries /\ DOMAIN w.entries = 1 .. Len(w.entries)
      /\ Len(w.entries) \in Nat /\ DOMAIN job[j].sources = 1 .. Len(job[j].sources)
  BY BatchTyped, LenProperties DEF UnpackStands, UnpackTypeOK
<1>2. /\ IsImage(before[j], Image(j)) /\ w.entries = TableOf(before[j], Image(j))
  BY DEF CurrentLaid, Phase
<1>3. EntryPath(j) = PlaceIn(target, w.entries[w.place]) /\ Entry(j) = w.entries[w.place]
  BY DEF EntryPath, EntryDir, Entry, PlaceIn
<1>4. EntryPath(j) \notin ToSet(job[j].sources)
  <2>1. Entry(j) \in ToSet(TableOf(before[j], Image(j)))
    BY <1>1, <1>2, <1>3 DEF ToSet
  <2> QED BY <1>1, <1>2, <1>3, <2>1 DEF ImagesApart, Image
<1>5. SourcesSame(j)'
  BY <1>4, SourcesStay
<1>6. EarlierLaid(j)'
  BY OwnApart, EarlierStay
<1>7. w.place \in Nat \ {0} /\ w.place - 1 \in Int /\ w.place \in Int /\ w.place - 1 <= w.place
      /\ w.place <= w.place
  BY <1>1
<1>8. \A n \in 1 .. w.place - 1 :
        (\A k \in n + 1 .. w.place : PlaceIn(target, w.entries[k]) # PlaceIn(target, w.entries[n]))
          => PlaceIn(target, w.entries[n]) \notin paths
  <2>1. \A n \in 1 .. w.place - 1 : w.place \in n + 1 .. w.place
    BY <1>7
  <2> QED BY <1>3, <2>1
<1>9. \E upto \in Int : upto <= w.place /\ Laid(disk, target, w.entries, content, w.place - 1, upto)
  <2>1. CASE w.phase = "entry"
    BY <1>7, <2>1 DEF CurrentLaid, Part, Phase
  <2>2. CASE w.phase = "copy"
    BY <1>7, <2>2 DEF CurrentLaid, Part, Phase
  <2> QED BY <2>1, <2>2
<1> HIDE DEF target, content, paths
<1>10. Laid(disk', target, w.entries, content, w.place - 1, w.place)
  <2>1. Spares(disk, disk', paths)
    BY DEF paths
  <2>2. PICK upto \in Int :
          upto <= w.place /\ Laid(disk, target, w.entries, content, w.place - 1, upto)
    BY <1>9
  <2> QED BY <1>7, <1>8, <2>1, <2>2, LaidStays
<1> QED BY <1>5, <1>6, <1>10 DEF Part, target, content

LEMMA NextEntryGives ==
  ASSUME NEW j \in Jobs, UnpackStands(j), work[j].phase \in {"entry", "copy"}, NextEntry(j)
  PROVE  /\ work'[j].phase = IF work[j].place < Len(work[j].entries) THEN "entry" ELSE "unpacked"
         /\ work'[j].place = work[j].place + 1 /\ work'[j].index = work[j].index
         /\ work'[j].outcomes = work[j].outcomes /\ work'[j].entries = work[j].entries
<1> DEFINE fields == [phase |-> IF work[j].place < Len(work[j].entries) THEN "entry" ELSE "unpacked",
                      place |-> work[j].place + 1]
<1>1. Put(j, fields) /\ DOMAIN fields = {"phase", "place"} /\ fields["place"] = work[j].place + 1
      /\ fields["phase"] = IF work[j].place < Len(work[j].entries) THEN "entry" ELSE "unpacked"
  BY DEF NextEntry
<1> HIDE DEF fields
<1>2. {"index", "outcomes", "entries"} \subseteq DOMAIN work[j] /\ DOMAIN work = Jobs
  BY DEF UnpackStands, UnpackTypeOK, Standing
<1> QED BY <1>1, <1>2, PutGives

\* With an entry that has come to its end, the entries up to it are there.
LEMMA NextEntryLays ==
  ASSUME NEW j \in Jobs, UnpackStands(j), work[j].phase \in {"entry", "copy"}, NextEntry(j),
         IsTree(before[j], Chunk), CurrentLaid(j), job' = job, before'[j] = before[j],
         Part(disk', j, work[j].place - 1, work[j].place),
         EntryThere(disk', EntryPath(j), Entry(j), before[j][Image(j)].content)
  PROVE  CurrentLaid(j)'
<1> DEFINE w == work[j]
           target == Target(j, w.index)
           content == before[j][Image(j)].content
<1>1. /\ work'[j].phase = IF w.place < Len(w.entries) THEN "entry" ELSE "unpacked"
      /\ work'[j].place = w.place + 1 /\ work'[j].index = w.index
      /\ work'[j].entries = w.entries
  BY NextEntryGives
<1>2. /\ IsImage(before[j], Image(j)) /\ w.entries = TableOf(before[j], Image(j))
  BY DEF CurrentLaid, Phase
<1>3. /\ w.entries \in Seq(Item) /\ Len(w.entries) \in Nat
      /\ w.place \in 1 .. Len(w.entries)
  BY LenProperties DEF UnpackStands, UnpackTypeOK
<1>4. w.place \in Nat \ {0} /\ (w.place + 1) - 1 = w.place
  BY <1>3
<1>5. Laid(disk', target, w.entries, content, w.place, w.place)
  <2>1. EntryPath(j) = PlaceIn(target, w.entries[w.place]) /\ Entry(j) = w.entries[w.place]
    BY DEF EntryPath, EntryDir, Entry, PlaceIn
  <2>2. Laid(disk', target, w.entries, content, w.place - 1, w.place)
    BY DEF Part
  <2> HIDE DEF target, content
  <2> QED BY <1>4, <2>1, <2>2, LaidOn DEF content
<1>6. Image(j)' = Image(j) /\ Target(j, w.index)' = target
  BY <1>1 DEF Image, Target, Several, Dest
<1>7. CASE w.place < Len(w.entries)
  BY <1>1, <1>2, <1>4, <1>5, <1>6, <1>7 DEF CurrentLaid, Part, Phase
<1>8. CASE ~(w.place < Len(w.entries))
  <2>1. w.place = Len(w.entries)
    BY <1>3, <1>8
  <2>2. Holds(disk', target, before[j], Image(j))
    BY <1>2, <1>3, <1>5, <2>1, HoldsLaid
  <2> QED BY <1>1, <1>2, <1>6, <1>8, <2>2 DEF CurrentLaid, Unpacked, Image, Phase
<1> QED BY <1>7, <1>8

LEMMA GiveUpLays ==
  ASSUME NEW j \in Jobs, UnpackStands(j), ~Ended(j), GiveUp(j), IsTree(before[j], Chunk),
         SourcesSame(j), EarlierLaid(j), job' = job, before'[j] = before[j],
         Grows(disk, disk'), Spares(disk, disk', {})
  PROVE  SourcesSame(j)' /\ EarlierLaid(j)' /\ CurrentLaid(j)'
<1>1. /\ work'[j].phase = "given up" /\ work'[j].index = work[j].index
      /\ work'[j].outcomes = work[j].outcomes
  <2>1. {"phase", "index", "outcomes"} \subseteq DOMAIN work[j] /\ DOMAIN work = Jobs
    BY DEF UnpackStands, UnpackTypeOK, Standing, Ended, Phase
  <2> QED BY <2>1, GotoGives DEF GiveUp
<1>2. SourcesSame(j)'
  BY SourcesStay
<1>3. EarlierLaid(j)'
  <2>1. \A i : \A e \in Item : PlaceIn(Target(j, i), e) \notin {}
    OBVIOUS
  <2> QED BY <1>1, <2>1, EarlierStay
<1> QED BY <1>1, <1>2, <1>3 DEF CurrentLaid, Phase

\* An image that is opened has the table it had when the batch began.
LEMMA OpenLays ==
  ASSUME NEW j \in Jobs, UnpackStands(j), OpenImage(j), IsTree(before[j], Chunk),
         SourcesSame(j), EarlierLaid(j), job' = job, before'[j] = before[j]
  PROVE  SourcesSame(j)' /\ EarlierLaid(j)' /\ CurrentLaid(j)'
<1> DEFINE entries == TableOf(disk, Image(j))
           fields == [phase |-> IF entries = <<>> THEN "unpacked" ELSE "entry",
                      entries |-> entries, place |-> 1]
<1>1. /\ work[j].phase = "open" /\ disk' = disk /\ ~Ended(j)
      /\ {"phase", "index", "outcomes"} \subseteq DOMAIN work[j] /\ DOMAIN work = Jobs
      /\ work[j].index \in DOMAIN job[j].sources
  BY DEF OpenImage, Is, Phase, Ended, UnpackStands, UnpackTypeOK, Standing
<1>2. Grows(disk, disk') /\ Spares(disk, disk', {})
  BY <1>1 DEF Grows, Spares
<1>3. CASE GiveUp(j)
  BY <1>1, <1>2, <1>3, GiveUpLays
<1>4. CASE IsImage(disk, Image(j)) /\ Put(j, fields)
  <2>1. /\ DOMAIN fields = {"phase", "entries", "place"} /\ fields["entries"] = entries
        /\ fields["phase"] = IF entries = <<>> THEN "unpacked" ELSE "entry"
        /\ fields["place"] = 1
    OBVIOUS
  <2>2. IsImage(before[j], Image(j)) /\ entries = TableOf(before[j], Image(j))
    <3>1. Image(j) \in ToSet(job[j].sources)
      BY <1>1 DEF Image, ToSet
    <3> QED BY <1>4, <3>1 DEF SourcesSame, IsImage, TableOf
  <2> HIDE DEF fields, entries
  <2>3. /\ work'[j].phase = IF entries = <<>> THEN "unpacked" ELSE "entry"
        /\ work'[j].entries = entries /\ work'[j].place = 1
        /\ work'[j].index = work[j].index /\ work'[j].outcomes = work[j].outcomes
    BY <1>1, <1>4, <2>1, PutGives
  <2>4. SourcesSame(j)'
    BY <1>1 DEF SourcesSame
  <2>5. EarlierLaid(j)'
    <3>1. \A i : \A e \in Item : PlaceIn(Target(j, i), e) \notin {}
      OBVIOUS
    <3> QED BY <1>2, <2>3, <3>1, EarlierStay
  <2>6. Image(j)' = Image(j) /\ \A i : Target(j, i)' = Target(j, i)
    BY <2>3 DEF Image, Target, Several, Dest
  <2>7. \A fs, dir, e, content, upto : Laid(fs, dir, e, content, 0, upto)
    BY DEF Laid
  <2>8. CASE entries # <<>>
    <3>1. work'[j].phase = "entry" /\ 1 - 1 = 0
      BY <2>3, <2>8
    <3>2. Part(disk, j, work[j].place - 1, work[j].place - 1)'
      BY <2>3, <2>7, <3>1 DEF Part
    <3> QED BY <2>2, <2>3, <2>4, <2>5, <2>6, <3>1, <3>2 DEF CurrentLaid, Phase
  <2>9. CASE entries = <<>>
    <3>1. work'[j].phase = "unpacked"
      BY <2>3, <2>9
    <3>2. Holds(disk, Target(j, work[j].index), before[j], Image(j))
      <4>1. entries \in Seq(Item) /\ Len(entries) = 0
        BY <2>2, <2>9, TableTyped
      <4> QED BY <2>2, <2>7, <4>1, HoldsLaid
    <3> QED BY <1>1, <2>2, <2>3, <2>4, <2>5, <2>6, <3>1, <3>2 DEF CurrentLaid, Unpacked, Phase, Image
  <2> QED BY <2>8, <2>9
<1> QED BY <1>3, <1>4 DEF OpenImage

LEMMA DirLays ==
  ASSUME NEW j \in Jobs, UnpackStands(j), UnpackDir(j), IsTree(before[j], Chunk),
         SourcesSame(j), EarlierLaid(j), CurrentLaid(j), ImagesApart(j), job' = job,
         before'[j] = before[j]
  PROVE  SourcesSame(j)' /\ EarlierLaid(j)' /\ CurrentLaid(j)'
<1>1. /\ work[j].phase = "entry" /\ Entry(j).isDir /\ CanMakeDirs(disk, EntryPath(j))
      /\ disk' = MakeDirs(disk, EntryPath(j)) /\ NextEntry(j) /\ IsTree(disk, Chunk)
  BY DEF UnpackDir, Is, Phase, UnpackStands, Standing
<1>2. Grows(disk, disk') /\ IsDir(disk', EntryPath(j)) /\ Spares(disk, disk', {EntryPath(j)})
  BY <1>1, UnpackPaths, MakesDirs, MakeDirsSpares
<1>3. work'[j].index = work[j].index /\ work'[j].outcomes = work[j].outcomes
  BY <1>1, NextEntryGives
<1>4. SourcesSame(j)' /\ EarlierLaid(j)' /\ Part(disk', j, work[j].place - 1, work[j].place)
  BY <1>1, <1>2, <1>3, OwnWrites
<1>5. EntryThere(disk', EntryPath(j), Entry(j), before[j][Image(j)].content)
  BY <1>1, <1>2 DEF EntryThere
<1> QED BY <1>1, <1>4, <1>5, NextEntryLays

LEMMA FileLays ==
  ASSUME NEW j \in Jobs, UnpackStands(j), UnpackFile(j), IsTree(before[j], Chunk),
         SourcesSame(j), EarlierLaid(j), CurrentLaid(j), ImagesApart(j), job' = job,
         before'[j] = before[j]
  PROVE  SourcesSame(j)' /\ EarlierLaid(j)' /\ CurrentLaid(j)'
<1> DEFINE made == MakeDirs(disk, EntryDir(j))
           fields == [phase |-> "copy", done |-> 0]
           content == before[j][Image(j)].content
<1>1. /\ work[j].phase = "entry" /\ ~Entry(j).isDir /\ CanMakeDirs(disk, EntryDir(j))
      /\ IsTree(disk, Chunk) /\ CanCreate(made, EntryPath(j)) /\ disk' = Create(made, EntryPath(j))
      /\ IF Entry(j).size = 0 THEN NextEntry(j) ELSE Put(j, fields)
  BY DEF UnpackFile, Is, Phase, UnpackStands, Standing
<1>2. EntryDir(j) \in Path /\ EntryPath(j) \in Path /\ Entry(j).at \in Nat \ {0}
  BY <1>1, UnpackPaths DEF Item
<1>3. IsTree(made, Chunk) /\ Grows(disk, made) /\ Spares(disk, made, {EntryPath(j)})
  BY <1>1, <1>2, MakesDirs, MakeDirsSpares
<1>4. disk'[EntryPath(j)] = File(<<>>)
  BY <1>1 DEF Create, With
<1> HIDE DEF made
<1>5. /\ Grows(made, disk') /\ IsFile(disk', EntryPath(j))
      /\ Spares(made, disk', {EntryPath(j)})
  BY <1>1, <1>2, <1>3, CreatesFile, CreateSpares
<1>6. Grows(disk, disk') /\ Spares(disk, disk', {EntryPath(j)})
  BY <1>3, <1>5, SparesOn DEF Grows
<1>7. SubSeq(content, Entry(j).at, Entry(j).at + 0 - 1) = <<>> /\ disk'[EntryPath(j)].content = <<>>
  <2>1. content \in Seq(Chunk)
    BY <1>1, TableTyped DEF CurrentLaid, Phase
  <2> HIDE DEF content
  <2> QED BY <1>2, <1>4, <2>1, MiddleChunks DEF File
<1>8. CASE Entry(j).size = 0
  <2>1. work'[j].index = work[j].index /\ work'[j].outcomes = work[j].outcomes
    BY <1>1, <1>8, NextEntryGives
  <2>2. SourcesSame(j)' /\ EarlierLaid(j)' /\ Part(disk', j, work[j].place - 1, work[j].place)
    BY <1>1, <1>6, <2>1, OwnWrites
  <2>3. EntryThere(disk', EntryPath(j), Entry(j), content)
    BY <1>1, <1>5, <1>7, <1>8 DEF EntryThere
  <2> QED BY <1>1, <1>8, <2>2, <2>3, NextEntryLays
<1>9. CASE Entry(j).size # 0
  <2>1. Put(j, fields) /\ DOMAIN fields = {"phase", "done"}
        /\ fields["phase"] = "copy" /\ fields["done"] = 0
    BY <1>1, <1>9
  <2> HIDE DEF fields, content
  <2>2. {"index", "outcomes", "entries", "place"} \subseteq DOMAIN work[j] /\ DOMAIN work = Jobs
    BY <1>1 DEF UnpackStands, UnpackTypeOK, Standing
  <2>3. /\ work'[j].phase = "copy" /\ work'[j].done = 0 /\ work'[j].index = work[j].index
        /\ work'[j].outcomes = work[j].outcomes /\ work'[j].entries = work[j].entries
        /\ work'[j].place = work[j].place
    BY <2>1, <2>2, PutGives
  <2>4. SourcesSame(j)' /\ EarlierLaid(j)' /\ Part(disk', j, work[j].place - 1, work[j].place)
    BY <1>1, <1>6, <2>3, OwnWrites
  <2>5. Image(j)' = Image(j) /\ Entry(j)' = Entry(j) /\ EntryPath(j)' = EntryPath(j)
        /\ \A i : Target(j, i)' = Target(j, i)
    BY <2>3, SameEntry DEF Target, Several, Dest
  <2>6. Part(disk, j, work[j].place - 1, work[j].place)'
    BY <2>3, <2>4, <2>5 DEF Part
  <2> QED BY <1>1, <1>7, <2>3, <2>4, <2>5, <2>6 DEF CurrentLaid, Phase, content
<1> QED BY <1>8, <1>9

LEMMA CopyLays ==
  ASSUME NEW j \in Jobs, UnpackStands(j), UnpackChunk(j), IsTree(before[j], Chunk),
         SourcesSame(j), EarlierLaid(j), CurrentLaid(j), ImagesApart(j), job' = job,
         before'[j] = before[j]
  PROVE  SourcesSame(j)' /\ EarlierLaid(j)' /\ CurrentLaid(j)'
<1> DEFINE done == work[j].done
           e == Entry(j)
           P == EntryPath(j)
           content == before[j][Image(j)].content
           fields == [done |-> done + 1]
<1>1. /\ work[j].phase = "copy" /\ IsTree(disk, Chunk) /\ DOMAIN work = Jobs /\ ~Ended(j)
      /\ {"phase", "index", "outcomes", "entries", "place", "done"} \subseteq DOMAIN work[j]
      /\ done \in 0 .. e.size - 1 /\ IsFile(disk, P) /\ IsFile(disk, Image(j))
      /\ work[j].index \in DOMAIN job[j].sources
  BY DEF UnpackChunk, Is, Phase, Ended, UnpackStands, UnpackTypeOK, Standing
<1>2. e.at \in Nat \ {0} /\ e.size \in Nat /\ done \in Nat /\ done + 1 \in Nat \ {0}
      /\ e.at + done \in Nat \ {0}
  <2>1. e.at \in Nat \ {0} /\ e.size \in Nat
    BY <1>1, UnpackPaths DEF Item
  <2> QED BY <1>1, <2>1
<1>3. /\ IsImage(before[j], Image(j)) /\ ~e.isDir
      /\ disk[P].content = SubSeq(content, e.at, e.at + done - 1)
  BY <1>1 DEF CurrentLaid, Phase
<1>4. content \in Seq(Chunk) /\ disk[Image(j)] = before[j][Image(j)]
  <2>1. Image(j) \in ToSet(job[j].sources)
    BY <1>1 DEF Image, ToSet
  <2> QED BY <1>1, <1>3, <2>1, TableTyped DEF SourcesSame
<1>5. CASE GiveUp(j) /\ disk' = disk
  BY <1>1, <1>5, GiveUpLays DEF Grows, Spares
<1>6. CASE /\ e.at + done <= Len(content)
           /\ disk' = WriteChunk(disk, P, done + 1, ChunkAt(disk, Image(j), e.at + done))
           /\ IF done + 1 = e.size THEN NextEntry(j) ELSE Put(j, fields)
  <2>1. ChunkAt(disk, Image(j), e.at + done) = content[e.at + done]
        /\ content[e.at + done] \in Chunk
    <3>1. e.at + done \in 1 .. Len(content)
      BY <1>2, <1>4, <1>6, LenProperties
    <3> QED BY <1>4, <1>6, <3>1, LenProperties DEF ChunkAt
  <2> HIDE DEF content, fields, P, e, done
  <2>2. Grows(disk, disk') /\ Spares(disk, disk', {P}) /\ IsFile(disk', P)
    <3>1. disk' \in Alike(disk, Chunk, P)
      BY <1>1, <1>2, <1>6, <2>1, ToolsAssumption, AlikeTree, WritesChunk
    <3>2. Grows(disk, disk') /\ Spares(disk, disk', {P})
      BY <1>1, <3>1, AlikeTree, AlikeSpares
    <3> QED BY <1>1, <3>2, GrowsKeeps
  <2>3. disk'[P].content = SubSeq(content, e.at, e.at + (done + 1) - 1)
    <3>1. Written(SubSeq(content, e.at, e.at + done - 1), done + 1, content[e.at + done])
            = SubSeq(content, e.at, e.at + (done + 1) - 1)
      BY <1>2, <1>4, <1>6, MiddleChunks
    <3>2. P \in DOMAIN disk /\ disk[P] \in [kind : {"file"}, content : Seq(Chunk)]
      BY <1>1 DEF IsFile, Exists, IsTree, Dir
    <3>3. disk'[P] = [disk[P] EXCEPT !.content = Written(disk[P].content, done + 1, content[e.at + done])]
      BY <1>6, <2>1, <3>2 DEF WriteChunk
    <3>4. disk'[P].content = Written(disk[P].content, done + 1, content[e.at + done])
      BY <3>2, <3>3
    <3> QED BY <1>3, <3>1, <3>4
  <2>4. CASE done + 1 = e.size
    <3>1. NextEntry(j) /\ work'[j].index = work[j].index /\ work'[j].outcomes = work[j].outcomes
      BY <1>1, <1>6, <2>4, NextEntryGives
    <3>2. SourcesSame(j)' /\ EarlierLaid(j)' /\ Part(disk', j, work[j].place - 1, work[j].place)
      BY <1>1, <2>2, <3>1, OwnWrites DEF P
    <3>3. EntryThere(disk', P, e, content)
      BY <1>3, <2>2, <2>3, <2>4 DEF EntryThere
    <3> QED BY <1>1, <3>1, <3>2, <3>3, NextEntryLays DEF P, e, content
  <2>5. CASE done + 1 # e.size
    <3>1. Put(j, fields) /\ DOMAIN fields = {"done"} /\ fields["done"] = done + 1
      BY <1>6, <2>5 DEF fields
    <3>2. /\ work'[j].phase = "copy" /\ work'[j].done = done + 1
          /\ work'[j].index = work[j].index /\ work'[j].outcomes = work[j].outcomes
          /\ work'[j].entries = work[j].entries /\ work'[j].place = work[j].place
      BY <1>1, <3>1, PutGives
    <3>3. SourcesSame(j)' /\ EarlierLaid(j)' /\ Part(disk', j, work[j].place - 1, work[j].place)
      BY <1>1, <2>2, <3>2, OwnWrites DEF P
    <3>4. Image(j)' = Image(j) /\ Entry(j)' = e /\ EntryPath(j)' = P
          /\ \A i : Target(j, i)' = Target(j, i)
      BY <3>2, SameEntry DEF Target, Several, Dest, P, e
    <3>5. Part(disk, j, work[j].place - 1, work[j].place)'
      BY <3>2, <3>3, <3>4 DEF Part
    <3>6. work[j].entries = TableOf(before[j], Image(j))
      BY <1>1 DEF CurrentLaid, Phase
    <3> QED BY <1>3, <2>3, <3>2, <3>3, <3>4, <3>5, <3>6 DEF CurrentLaid, Phase, content
  <2> QED BY <2>4, <2>5
<1> QED BY <1>1, <1>4, <1>5, <1>6 DEF UnpackChunk

\* At the end of an image its outcome is known, and what it says is on the disk.
LEMMA EndGives ==
  ASSUME NEW j \in Jobs, UnpackStands(j), EndOfImage(j), EarlierLaid(j), CurrentLaid(j)
  PROVE  /\ work[j].index \in 1 .. Len(job[j].sources) /\ Len(job[j].sources) \in Nat
         /\ work'[j].phase = IF work[j].index < Len(job[j].sources) THEN "open" ELSE "done"
         /\ work'[j].index = work[j].index + 1 /\ disk' = disk
         /\ Len(work'[j].outcomes) = work[j].index
         /\ \A i \in 1 .. work[j].index :
              work'[j].outcomes[i] = "unpacked" /\ IsOwn(j, i) => Unpacked(disk, j, i)
<1> DEFINE fields == [phase |-> IF work[j].index < Len(job[j].sources) THEN "open" ELSE "done",
                      index |-> work[j].index + 1,
                      outcomes |-> Append(work[j].outcomes, Phase(j))]
           old == work[j].outcomes
           n == work[j].index
<1>1. /\ work[j].phase \in {"unpacked", "given up"} /\ disk' = disk /\ Put(j, fields)
      /\ DOMAIN work = Jobs
  BY DEF EndOfImage, Phase, UnpackStands, Standing
<1>2. /\ DOMAIN fields = {"phase", "index", "outcomes"} /\ fields["index"] = n + 1
      /\ fields["phase"] = IF n < Len(job[j].sources) THEN "open" ELSE "done"
      /\ fields["outcomes"] = Append(old, work[j].phase)
  BY DEF Phase
<1> HIDE DEF fields
<1>3. /\ work'[j].phase = IF n < Len(job[j].sources) THEN "open" ELSE "done"
      /\ work'[j].index = n + 1 /\ work'[j].outcomes = Append(old, work[j].phase)
  <2>1. \A f \in DOMAIN fields : work'[j][f] = fields[f]
    BY <1>1, PutGives
  <2> HIDE DEF n, old
  <2> QED BY <1>2, <2>1
<1>4. n \in 1 .. Len(job[j].sources) /\ Len(job[j].sources) \in Nat
  BY <1>1, BatchTyped DEF UnpackStands, UnpackTypeOK
<1>5. old \in Seq({"unpacked", "given up"}) /\ Len(old) = n - 1
  BY <1>1 DEF UnpackStands, UnpackTypeOK, EarlierLaid
<1> HIDE DEF old, n
<1>6. /\ Len(Append(old, work[j].phase)) = n /\ Append(old, work[j].phase)[n] = work[j].phase
      /\ \A i \in 1 .. n - 1 : Append(old, work[j].phase)[i] = old[i]
  <2>1. Len(old) + 1 = n
    <3>1. \A a \in Nat : \A b \in 1 .. a : (b - 1) + 1 = b
      OBVIOUS
    <3> QED BY <1>4, <1>5, <3>1, Zenon
  <2>2. work[j].phase \in {"unpacked", "given up"}
    BY <1>1
  <2>3. \A i \in 1 .. n - 1 : i \in 1 .. Len(old)
    BY <1>5, Zenon
  <2> QED BY <1>5, <2>1, <2>2, <2>3, AppendProperties, Zenon
<1>7. ASSUME NEW i \in 1 .. n, work'[j].outcomes[i] = "unpacked", IsOwn(j, i)
      PROVE  Unpacked(disk, j, i)
  <2>1. CASE i = n
    BY <1>3, <1>6, <1>7, <2>1 DEF CurrentLaid, Phase, n
  <2>2. CASE i # n
    <3>1. i \in 1 .. n - 1
      BY <1>4, <2>2
    <3> QED BY <1>3, <1>6, <1>7, <3>1 DEF EarlierLaid, old, n
  <2> QED BY <2>1, <2>2
<1> QED BY <1>1, <1>3, <1>4, <1>6, <1>7 DEF n

LEMMA EndLays ==
  ASSUME NEW j \in Jobs, UnpackStands(j), EndOfImage(j), SourcesSame(j), EarlierLaid(j),
         CurrentLaid(j), job' = job, before'[j] = before[j], work'[j].phase # "done"
  PROVE  SourcesSame(j)' /\ EarlierLaid(j)' /\ CurrentLaid(j)'
<1>1. /\ work[j].index \in 1 .. Len(job[j].sources) /\ work'[j].phase = "open"
      /\ work'[j].index = work[j].index + 1 /\ disk' = disk
      /\ Len(work'[j].outcomes) = work[j].index
      /\ \A i \in 1 .. work[j].index :
           work'[j].outcomes[i] = "unpacked" /\ IsOwn(j, i) => Unpacked(disk, j, i)
  BY EndGives
<1>2. work[j].index \in Nat /\ work'[j].index - 1 = work[j].index
  BY <1>1
<1>3. \A i : Unpacked(disk, j, i)' = Unpacked(disk, j, i)
  BY <1>1 DEF Unpacked, Target, Several, Dest
<1>4. ASSUME NEW i \in 1 .. work[j].index, IsOwn(j, i)' PROVE IsOwn(j, i)
  <2>1. \A k \in i + 1 .. work[j].index : k \in i + 1 .. work'[j].index
    BY <1>1, <1>2
  <2> QED BY <1>4, <2>1 DEF IsOwn
<1>5. EarlierLaid(j)'
  BY <1>1, <1>2, <1>3, <1>4 DEF EarlierLaid
<1> QED BY <1>1, <1>5 DEF SourcesSame, CurrentLaid, Phase

\* Whatever a batch does before it is done, its images stay as they were and what it has
\* unpacked stays where it is.
LEMMA BatchOn ==
  ASSUME NEW j \in Jobs, UnpackStands(j), IsTree(disk, Chunk), job' = job,
         work'[j].phase # "done", ImagesApart(j)',
         \/ ClickUnpack(j) /\ before'[j] = disk
         \/ /\ UnpackStep(j) /\ before'[j] = before[j] /\ IsTree(before[j], Chunk)
            /\ SourcesSame(j) /\ EarlierLaid(j) /\ CurrentLaid(j)
  PROVE  SourcesSame(j)' /\ EarlierLaid(j)' /\ CurrentLaid(j)'
<1>1. CASE ClickUnpack(j) /\ before'[j] = disk
  <2> DEFINE fields == [phase |-> "open", index |-> 1, outcomes |-> <<>>]
  <2>1. /\ Put(j, fields) /\ disk' = disk /\ DOMAIN fields = {"phase", "index", "outcomes"}
        /\ fields["phase"] = "open" /\ fields["index"] = 1 /\ fields["outcomes"] = <<>>
        /\ DOMAIN work = Jobs
    BY <1>1 DEF ClickUnpack, UnpackStands, Standing
  <2> HIDE DEF fields
  <2>2. work'[j].phase = "open" /\ work'[j].index = 1 /\ work'[j].outcomes = <<>>
    BY <2>1, PutGives
  <2>3. SourcesSame(j)'
    BY <1>1, <2>1 DEF SourcesSame
  <2>4. EarlierLaid(j)'
    <3>1. Len(<<>>) = 0 /\ 1 - 1 = 0 /\ \A i : i \notin 1 .. 0
      OBVIOUS
    <3> QED BY <2>2, <3>1 DEF EarlierLaid
  <2> QED BY <2>2, <2>3, <2>4 DEF CurrentLaid, Phase
<1>2. CASE /\ UnpackStep(j) /\ before'[j] = before[j] /\ IsTree(before[j], Chunk)
           /\ SourcesSame(j) /\ EarlierLaid(j) /\ CurrentLaid(j)
  <2>1. ImagesApart(j)
    BY <1>2 DEF ImagesApart, Target, Several, Dest
  <2>2. CASE EntryFails(j)
    <3>1. /\ work[j].phase = "entry" /\ GiveUp(j) /\ ~Ended(j)
          /\ \/ disk' = disk
             \/ CanMakeDirs(disk, EntryDir(j)) /\ disk' = MakeDirs(disk, EntryDir(j))
      BY <2>2 DEF EntryFails, Is, Phase, Ended
    <3>2. Grows(disk, disk') /\ Spares(disk, disk', {})
      <4>1. Grows(disk, disk) /\ Spares(disk, disk, {})
        BY DEF Grows, Spares
      <4> QED BY <3>1, <4>1, UnpackPaths, MakesDirs, MakeDirsSpares
    <3> QED BY <1>2, <3>1, <3>2, GiveUpLays
  <2>3. CASE OpenImage(j)
    BY <1>2, <2>3, OpenLays
  <2>4. CASE UnpackDir(j)
    BY <1>2, <2>1, <2>4, DirLays
  <2>5. CASE UnpackFile(j)
    BY <1>2, <2>1, <2>5, FileLays
  <2>6. CASE UnpackChunk(j)
    BY <1>2, <2>1, <2>6, CopyLays
  <2>7. CASE EndOfImage(j)
    BY <1>2, <2>7, EndLays
  <2> QED BY <1>2, <2>2, <2>3, <2>4, <2>5, <2>6, <2>7 DEF UnpackStep
<1> QED BY <1>1, <1>2

\* Whatever another job does, it does not do it to the images of a batch or where these
\* go, unless they clash.
LEMMA OthersOff ==
  ASSUME TypeOK, Told, NEW i \in Jobs, Click(i) \/ Step(i), NEW j \in Jobs, j # i,
         j \notin clashed, job[j].kind = "unpack", ~Ended(j)
  PROVE  \E paths : /\ Spares(disk, disk', paths)
                    /\ paths \cap Under(Dest(j)) = {} /\ paths \cap ToSet(job[j].sources) = {}
<1>1. /\ Spares(disk, disk', Under(Dest(i))) /\ (job[i].kind = "upload" => disk' = disk)
      /\ Step(i) => ~Ended(i)
  BY JobSpares
<1>2. disk' = disk \/ Step(i)
  BY DEF Click, ClickUnpack, ClickPack, ClickUpload, CallExtract
<1>3. CASE disk' = disk
  <2>1. Spares(disk, disk', {}) /\ \A S : {} \cap S = {}
    BY <1>3 DEF Spares
  <2> QED BY <2>1
<1>4. CASE disk' # disk
  <2>1. Step(i) /\ ~Clash(j, i)
    BY <1>1, <1>2, <1>4 DEF Told
  <2>2. job[i].kind # "none"
    BY <2>1 DEF Step, UnpackStep, OpenImage, UnpackDir, UnpackFile, EntryFails, UnpackChunk,
       EndOfImage, PackStep, CreateImage, ScanFolder, PackChunk, FinishImage, PackFails,
       DropBuffer, UploadStep, Connect, ScanEntry, LeaveDir, ScanEnds, MakeBase, MakeParent,
       StartPut, SendChunk, EndPut, ExtractStep, OpenVolume, ListDir, ListEnds, StartFile,
       ExtractChunk, EndFile, Is
  <2>3. Dest(i) \in Path /\ Dest(i) \in Writes(i) /\ Dest(j) \in Path /\ Dest(j) \in Writes(j)
    BY <1>1, <1>4, <2>2, ChoiceOf DEF TypeOK, Writes
  <2>4. ~IsPrefix(Dest(i), Dest(j)) /\ ~IsPrefix(Dest(j), Dest(i))
    BY <2>1, <2>3 DEF Clash, Overlap
  <2>5. Under(Dest(i)) \cap Under(Dest(j)) = {}
    BY <2>3, <2>4, Comparable DEF Under
  <2>6. Under(Dest(i)) \cap ToSet(job[j].sources) = {}
    <3>1. Reads(j) = ToSet(job[j].sources)
      BY DEF Reads
    <3>2. \A p \in ToSet(job[j].sources) : ~IsPrefix(Dest(i), p)
      BY <2>1, <2>3, <3>1 DEF Clash, Overlap
    <3> QED BY <3>2 DEF Under
  <2> QED BY <1>1, <2>5, <2>6
<1> QED BY <1>3, <1>4

\* What is kept up: batches that nobody clashed with have their images as they were, and
\* what was unpacked of them where it goes.
BatchInv ==
  /\ TypeOK /\ Told
  /\ \A j \in Jobs \ clashed :
       job[j].kind = "unpack" /\ ~Ended(j) /\ ImagesApart(j)
         => SourcesSame(j) /\ EarlierLaid(j) /\ CurrentLaid(j)

LEMMA InitBatch == Init => BatchInv
<1> SUFFICES ASSUME Init PROVE BatchInv
  OBVIOUS
<1>1. \A j \in Jobs : Ended(j)
  BY DEF Init, Ended, Phase, Idle
<1> QED BY <1>1, InitTyped DEF BatchInv, Told

LEMMA UnpacksUnpack ==
  ASSUME NEW j \in Jobs, Click(j) \/ Step(j), job[j].kind = "unpack"
  PROVE  (Click(j) /\ ClickUnpack(j)) \/ (Step(j) /\ UnpackStep(j))
BY DEF Click, Step, ClickPack, ClickUpload, CallExtract, PackStep, CreateImage, ScanFolder, PackChunk,
   FinishImage, PackFails, DropBuffer, UploadStep, Connect, ScanEntry, LeaveDir, ScanEnds, MakeBase,
   MakeParent, StartPut, SendChunk, EndPut, ExtractStep, OpenVolume, ListDir, ListEnds, StartFile,
   ExtractChunk, EndFile, Is

LEMMA StepBatch == BatchInv /\ [Next]_vars => BatchInv'
<1> SUFFICES ASSUME BatchInv, [Next]_vars PROVE BatchInv'
  OBVIOUS
<1>1. TypeOK /\ TypeOK' /\ Told
  BY StepTyped DEF BatchInv
<1>2. CASE UNCHANGED vars
  <2>1. Told'
    BY <1>1, <1>2 DEF Told, Ended, Phase, Clash, Reads, Writes, Dest, vars
  <2>2. \A j : Ended(j)' = Ended(j) /\ ImagesApart(j)' = ImagesApart(j)
    BY <1>2 DEF Ended, Phase, ImagesApart, Target, Several, Dest, vars
  <2>3. \A j : SourcesSame(j)' = SourcesSame(j) /\ EarlierLaid(j)' = EarlierLaid(j)
    BY <1>2 DEF SourcesSame, EarlierLaid, IsOwn, Unpacked, Target, Several, Dest, vars
  <2>4. \A j : CurrentLaid(j)' = CurrentLaid(j)
    BY <1>2 DEF CurrentLaid, Part, Unpacked, Phase, Image, Entry, EntryPath, EntryDir, Target, Several,
       Dest, vars
  <2> QED BY <1>1, <1>2, <2>1, <2>2, <2>3, <2>4 DEF BatchInv, vars
<1>3. ASSUME NEW i \in Jobs, Click(i) \/ Step(i) PROVE BatchInv'
  <2>1. /\ job' = job /\ Grows(disk, disk') /\ \A k \in Jobs \ {i} : work'[k] = work[k]
        /\ clashed \subseteq clashed' /\ (Step(i) => ~Ended(i))
    BY <1>1, <1>3, JobMoves, JobSpares DEF Click, Step
  <2>2. \A k \in Jobs \ {i} : before'[k] = before[k]
    BY <1>1, <1>3 DEF Click, Step, TypeOK
  <2>3. Told'
    BY <1>1, <1>3, ToldStays
  <2>4. ASSUME NEW j \in Jobs, j \notin clashed', job[j].kind = "unpack", ~Ended(j)', ImagesApart(j)'
        PROVE  SourcesSame(j)' /\ EarlierLaid(j)' /\ CurrentLaid(j)'
    <3>1. UnpackStands(j) /\ j \notin clashed /\ IsTree(disk, Chunk) /\ IsTree(before[j], Chunk)
      BY <1>1, <2>1, <2>4 DEF TypeOK, UnpackStands, Standing, JobTypeOK
    <3>2. before'[j] = before[j] => ImagesApart(j)
      BY <2>1, <2>4 DEF ImagesApart, Target, Several, Dest
    <3>3. CASE j = i
      <4>1. (Click(j) /\ ClickUnpack(j)) \/ (Step(j) /\ UnpackStep(j))
        BY <1>3, <2>4, <3>3, UnpacksUnpack
      <4>2. Click(j) => before'[j] = disk
        BY <1>1 DEF Click, TypeOK
      <4>3. Step(j) => before'[j] = before[j]
        BY DEF Step
      <4>4. Step(j) => SourcesSame(j) /\ EarlierLaid(j) /\ CurrentLaid(j)
        BY <2>1, <2>4, <3>1, <3>2, <3>3, <4>3 DEF BatchInv
      <4>5. work'[j].phase # "done"
        BY <2>4 DEF Ended, Phase
      <4> QED BY <2>1, <2>4, <3>1, <4>1, <4>2, <4>3, <4>4, <4>5, BatchOn
    <3>4. CASE j # i
      <4>1. work'[j] = work[j] /\ before'[j] = before[j]
        BY <2>1, <2>2, <3>4
      <4>2. ~Ended(j)
        BY <2>4, <4>1 DEF Ended, Phase
      <4>3. SourcesSame(j) /\ EarlierLaid(j) /\ CurrentLaid(j)
        BY <2>4, <3>1, <3>2, <4>1, <4>2 DEF BatchInv
      <4>4. PICK paths : /\ Spares(disk, disk', paths)
                         /\ paths \cap Under(Dest(j)) = {} /\ paths \cap ToSet(job[j].sources) = {}
        BY <1>1, <1>3, <2>4, <3>1, <3>4, <4>2, OthersOff
      <4> QED BY <2>1, <3>1, <4>1, <4>2, <4>3, <4>4, BatchStays
    <3> QED BY <3>3, <3>4
  <2> QED BY <1>1, <2>1, <2>3, <2>4 DEF BatchInv
<1> QED BY <1>2, <1>3 DEF Next

\* "Batch unpack completed successfully!" means that what each image held that was not
\* given up is in its directory, whole, whatever was there before and whatever other jobs
\* did meanwhile elsewhere, unless a later image has its name (on_unpack_xiso).
THEOREM BatchesComplete == Spec => UnpackedWhenDone
<1>1. ASSUME BatchInv, [Next]_vars
      PROVE  [\A j \in Jobs : IsDone(j, "unpack") /\ ImagesApart(j) =>
                LET images == job[j].sources
                IN \A i \in DOMAIN images :
                     /\ work'[j].outcomes[i] = "unpacked"
                     /\ \A k \in i + 1 .. Len(images) : Stem[Last(images[k])] # Stem[Last(images[i])]
                     => Holds(disk', Target(j, i), before[j], images[i])]_vars
  <2> SUFFICES ASSUME NEW j \in Jobs, IsDone(j, "unpack"), ImagesApart(j), ~UNCHANGED vars,
                      NEW i \in DOMAIN job[j].sources, work'[j].outcomes[i] = "unpacked",
                      \A k \in i + 1 .. Len(job[j].sources) :
                        Stem[Last(job[j].sources[k])] # Stem[Last(job[j].sources[i])]
               PROVE  Holds(disk', Target(j, i), before[j], job[j].sources[i])
    OBVIOUS
  <2>1. TypeOK
    BY <1>1 DEF BatchInv
  <2>2. PICK k \in Jobs : Click(k) \/ Step(k)
    BY <1>1 DEF Next
  <2>3. /\ job' = job /\ \A l \in Jobs \ {k} : work'[l] = work[l]
        /\ Step(k) => ~Ended(k)
    BY <2>1, <2>2, JobMoves, JobSpares
  <2>4. /\ job[j].kind = "unpack" /\ j \notin clashed /\ work[j].phase # "done"
        /\ work'[j].phase = "done"
    BY DEF IsDone, Phase
  <2>5. j = k
    BY <2>3, <2>4
  <2>6. UnpackStands(j) /\ "phase" \in DOMAIN work[j] /\ DOMAIN work = Jobs
    BY <2>1, <2>4 DEF TypeOK, UnpackStands, Standing, JobTypeOK
  <2>7. Step(j) /\ UnpackStep(j)
    <3>1. ~ClickUnpack(j)
      <4> DEFINE fields == [phase |-> "open", index |-> 1, outcomes |-> <<>>]
      <4>1. "phase" \in DOMAIN fields /\ fields["phase"] = "open"
        OBVIOUS
      <4> HIDE DEF fields
      <4>2. ~Put(j, fields)
        BY <2>4, <2>6, <4>1, PutGives
      <4> QED BY <4>2 DEF ClickUnpack, fields
    <3> QED BY <2>2, <2>4, <2>5, <3>1, UnpacksUnpack
  <2>8. EarlierLaid(j) /\ CurrentLaid(j)
    BY <1>1, <2>3, <2>4, <2>5, <2>7 DEF BatchInv
  <2>9. EndOfImage(j)
    <3>1. ~GiveUp(j)
      <4>1. \A phase : Goto(j, phase) => work'[j].phase = phase
        BY <2>6, GotoGives
      <4> QED BY <2>4, <4>1 DEF GiveUp
    <3>2. ASSUME work[j].phase \in {"entry", "copy"} PROVE ~NextEntry(j)
      BY <2>4, <2>6, <3>2, NextEntryGives
    <3>3. \A fields : Put(j, fields) => IF "phase" \in DOMAIN fields THEN fields["phase"] = "done" ELSE FALSE
      BY <2>4, <2>6, PutGives
    <3>4. ~OpenImage(j)
      <4> DEFINE entries == TableOf(disk, Image(j))
                 fields == [phase |-> IF entries = <<>> THEN "unpacked" ELSE "entry",
                            entries |-> entries, place |-> 1]
      <4>1. "phase" \in DOMAIN fields /\ fields["phase"] # "done"
        OBVIOUS
      <4> HIDE DEF fields
      <4>2. ~Put(j, fields)
        BY <3>3, <4>1
      <4> QED BY <3>1, <4>2 DEF OpenImage, fields
    <3>5. ~UnpackFile(j)
      <4> DEFINE fields == [phase |-> "copy", done |-> 0]
      <4>1. "phase" \in DOMAIN fields /\ fields["phase"] # "done"
        OBVIOUS
      <4> HIDE DEF fields
      <4>2. ~Put(j, fields)
        BY <3>3, <4>1
      <4> QED BY <3>2, <4>2 DEF UnpackFile, Is, Phase, fields
    <3>6. ~UnpackChunk(j)
      <4> DEFINE fields == [done |-> work[j].done + 1]
      <4>1. "phase" \notin DOMAIN fields
        OBVIOUS
      <4> HIDE DEF fields
      <4>2. ~Put(j, fields)
        BY <3>3, <4>1
      <4> QED BY <3>1, <3>2, <4>2 DEF UnpackChunk, Is, Phase, fields
    <3>7. ~UnpackDir(j) /\ ~EntryFails(j)
      BY <3>1, <3>2 DEF UnpackDir, EntryFails, Is, Phase
    <3> QED BY <2>7, <3>4, <3>5, <3>6, <3>7 DEF UnpackStep
  <2>10. /\ work[j].index = Len(job[j].sources) /\ disk' = disk
         /\ \A l \in 1 .. work[j].index :
              work'[j].outcomes[l] = "unpacked" /\ IsOwn(j, l) => Unpacked(disk, j, l)
    BY <2>4, <2>6, <2>8, <2>9, EndGives
  <2>11. i \in 1 .. work[j].index /\ IsOwn(j, i)
    BY <2>6, <2>10, BatchTyped DEF IsOwn
  <2> QED BY <2>10, <2>11 DEF Unpacked
<1> QED BY <1>1, InitBatch, StepBatch, PTL DEF Spec, UnpackedWhenDone
=============================================================================
