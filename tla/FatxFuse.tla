------------------------------ MODULE FatxFuse ------------------------------
(***************************************************************************)
(* The FUSE filesystem of a mounted volume (src/fatx_runner.rs).  The      *)
(* kernel names files by inode numbers, which InodeTracker hands out for   *)
(* paths and never takes back; a directory is listed in pages, and every   *)
(* page is cut out of a listing made anew.  fuser serves one request at a  *)
(* time, from any number of programs; the volume answers for paths as      *)
(* DirAnswers says, unless the device fails.  The times that an entry is   *)
(* told to have are those of FatxTime.                                     *)
(***************************************************************************)
EXTENDS DirAnswers, FatxTime

CONSTANTS
  Trees,    \* trees that may be mounted, see DirAnswers
  Content,  \* Content[f]: the bytes of the file whose first cluster is f
  Readers,  \* open file descriptions of programs that list or read
  Names,    \* names that entries have and programs ask for
  Sizes     \* sizes of the reads

VARIABLES
  tree,     \* the volume; never changes
  bimap,    \* InodeTracker.bimap, a set of pairs of inode and path
  next,     \* InodeTracker.next_inode
  alive,    \* the session's thread has not panicked
  reader,   \* reader[r]: what r lists or reads, and what it has got so far
  said      \* what programs have been told of paths: [path, ino, kind]

vars == <<tree, bimap, next, alive, reader, said>>

\* The calls FatxFsHandle answers.
Ask(op, path) == Answer(tree, [op |-> op, path |-> path])

\* Entries: the inode's first cluster, the words of its time stamp.
Entry == [name : Names, kind : {"file", "dir", "volume"}, first : Nat, modified : Nat \X Nat]

\* Directories lead to directories, and files to their bytes.
IsTree(t) ==
  /\ t.root \in DOMAIN t.dirs
  /\ \A d \in DOMAIN t.dirs :
       /\ t.dirs[d].entries \in Seq(Entry)
       /\ \A i \in DOMAIN t.dirs[d].entries :
            LET e == t.dirs[d].entries[i]
            IN /\ e.kind = "dir" => e.first \in DOMAIN t.dirs
               /\ e.kind = "file" => Content[e.first] \in Seq(Nat)

\* Names tell the entries of a directory apart.
NamesDistinct ==
  \A t \in Trees : \A d \in DOMAIN t.dirs : \A i, j \in DOMAIN t.dirs[d].entries :
    t.dirs[d].entries[i].name = t.dirs[d].entries[j].name => i = j

ASSUME FuseAssumption ==
  /\ Root # Up /\ Root # Here /\ Up # Here /\ {Root, Up, Here} \cap Names = {}
  /\ Sizes \subseteq Nat
  /\ \A t \in Trees : IsTree(t)

Tracker == [pairs |-> bimap, next |-> next]

\* BiMap::insert removes the pairs it conflicts with.
Insert(pairs, ino, path) ==
  {p \in pairs : p[1] # ino /\ p[2] # path} \cup {<<ino, path>>}

\* Mutant: the counter does not move.
GetOrCreateSameNumber(tracker, path) ==
  IF \E p \in tracker.pairs : p[2] = path THEN tracker
  ELSE [tracker EXCEPT !.pairs = Insert(@, tracker.next, path)]

\* get_or_create_inode
GetOrCreate(tracker, path) ==
  IF \E p \in tracker.pairs : p[2] = path THEN tracker
  ELSE [pairs |-> Insert(tracker.pairs, tracker.next, path),
        next |-> tracker.next + 1]

InodeIn(tracker, path) == (CHOOSE p \in tracker.pairs : p[2] = path)[1]
HasPath(ino) == \E p \in bimap : p[1] = ino
PathOf(ino) == (CHOOSE p \in bimap : p[1] = ino)[2]

Record(tracker) == bimap' = tracker.pairs /\ next' = tracker.next

Say(path, ino, kind) == [path |-> path, ino |-> ino, kind |-> kind]

\* Inodes the kernel may name.
Known == {1} \cup {s.ino : s \in said}
Closed == [state |-> "closed"]

Init ==
  /\ tree \in Trees
  /\ bimap = {<<1, <<Root>>>>} /\ next = 2
  /\ alive = TRUE
  /\ reader = [r \in Readers |-> Closed]
  /\ said = {Say(<<Root>>, 1, "dir")}

\* The time in the attributes of an entry, from the two words of the entry.
Mtime(entry) == SystemTime(entry.modified[1], entry.modified[2])

-----------------------------------------------------------------------------

\* The answer is ENOENT: the volume failed, there is no such entry, or (the
\* last case records an inode for it) it is the volume's label.
Lookup(parent, name) ==
  /\ alive /\ parent \in Known /\ HasPath(parent)
  /\ LET path == Append(PathOf(parent), name)
         found == Ask("stat", path)
         tracker == GetOrCreate(Tracker, path)
     IN \/ UNCHANGED <<bimap, next, said>>
        \/ /\ found.kind = "entry"
           /\ Record(tracker)
           /\ said' = IF found.entry.kind \in {"file", "dir"}
                        THEN said \cup {Say(path, InodeIn(tracker, path), found.entry.kind)}
                        ELSE said
  /\ UNCHANGED <<tree, alive, reader>>

\* name.to_str().unwrap(): somebody asks for a name that is not UTF-8.
LookupPanics(parent) ==
  /\ alive /\ parent \in Known /\ HasPath(parent)
  /\ alive' = FALSE
  /\ UNCHANGED <<tree, bimap, next, reader, said>>

\* The kernel takes the answer for the path it knows the inode by.
Getattr(s) ==
  /\ alive /\ s \in said /\ HasPath(s.ino)
  /\ LET found == Ask("stat", PathOf(s.ino))
     IN /\ found.kind = "entry" /\ found.entry.kind \in {"file", "dir"}
        /\ said' = said \cup {Say(s.path, s.ino, found.entry.kind)}
  /\ UNCHANGED <<tree, bimap, next, alive, reader>>

\* Opening asks the server nothing (fuser's default open and opendir).
Open(r) ==
  /\ reader[r] = Closed
  /\ \E s \in said :
       reader' = [reader EXCEPT ![r] =
         [state |-> "open", path |-> s.path, ino |-> s.ino, kind |-> s.kind,
          got |-> <<>>, whole |-> TRUE]]
  /\ UNCHANGED <<tree, bimap, next, alive, said>>

Close(r) ==
  /\ reader[r] # Closed
  /\ reader' = [reader EXCEPT ![r] = Closed]
  /\ UNCHANGED <<tree, bimap, next, alive, said>>

-----------------------------------------------------------------------------
(* readdir *)

\* Mutant: the directory itself.
ParentItself(path) == path

\* PathBuf::parent, for the entry ".."; the root is its own.
Parent(path) == IF path = <<Root>> THEN path ELSE Front(path)

Line(ino, kind, name) == [ino |-> ino, kind |-> kind, name |-> name]

\* The tracker after listing these entries of the directory at path.
Tracked(path, entries) ==
  LET after[n \in 0 .. Len(entries)] ==
        IF n = 0 THEN GetOrCreate(Tracker, Parent(path))
        ELSE GetOrCreate(after[n - 1], Append(path, entries[n].name))
  IN after[Len(entries)]

Lines(ino, path, entries) ==
  LET tracker == Tracked(path, entries)
  IN <<Line(ino, "dir", Here), Line(InodeIn(tracker, Parent(path)), "dir", Up)>>
     \o [i \in DOMAIN entries |->
          Line(InodeIn(tracker, Append(path, entries[i].name)),
               entries[i].kind, entries[i].name)]

\* The path that a line of the listing of path is about.
About(path, line) ==
  CASE line.name = Here -> path
    [] line.name = Up -> IF path = <<Root>> THEN path ELSE Front(path)
    [] OTHER -> Append(path, line.name)

\* Mutant: the next page starts one entry late.
OffsetOfNext(r) == Len(reader[r].got) + 1

\* The offset that came with the last entry of the page before.
Offset(r) == Len(reader[r].got)

\* A page of at most `room` entries.  Where the device fails, `flatten` leaves
\* the listing short, and the page can be the last without being told apart.
Readdir(r, room, entries) ==
  LET path == PathOf(reader[r].ino)
      lines == Lines(reader[r].ino, path, entries)
      page == SubSeq(lines, Offset(r) + 1,
                     IF Offset(r) + room > Len(lines) THEN Len(lines) ELSE Offset(r) + room)
      whole == entries = Ask("list", path).entries
  IN /\ Record(Tracked(path, entries))
     /\ reader' = [reader EXCEPT
          ![r].got = @ \o page, ![r].whole = whole,
          ![r].state = IF page = <<>> THEN "done" ELSE "open"]
     /\ said' = said \cup
          {Say(About(reader[r].path, page[i]), page[i].ino, page[i].kind) : i \in DOMAIN page}
     /\ UNCHANGED <<tree, alive>>

ReaddirSome(r) ==
  /\ alive /\ reader[r].state = "open" /\ reader[r].kind = "dir"
  /\ HasPath(reader[r].ino)
  /\ LET list == Ask("list", PathOf(reader[r].ino))
     IN /\ list.kind = "list"
        /\ \E room \in Sizes \ {0}, n \in 0 .. Len(list.entries) :
             Readdir(r, room, SubSeq(list.entries, 1, n))

-----------------------------------------------------------------------------
(* read *)

Least(m, n) == IF m < n THEN m ELSE n

\* Mutant: off by one at the end of the file.
LimitBeforeEnd(size, length, offset) == Least(size, length - offset - 1)

\* min(size, file_size - read_offset), past the check of the offset.
Limit(size, length, offset) == Least(size, length - offset)

\* The program reads on from where it is.  A failure of the device is answered
\* with EIO or, in open, with ENOENT, and changes nothing.
Read(r) ==
  /\ alive /\ reader[r].state = "open" /\ reader[r].kind = "file"
  /\ HasPath(reader[r].ino)
  /\ LET found == Ask("open", PathOf(reader[r].ino))
     IN /\ found.kind = "entry"
        /\ \E size \in Sizes :
             LET bytes == Content[found.entry.first]
                 data == IF Offset(r) >= Len(bytes) THEN <<>>
                         ELSE SubSeq(bytes, Offset(r) + 1,
                                Offset(r) + Limit(size, Len(bytes), Offset(r)))
             IN reader' = [reader EXCEPT
                  ![r].got = @ \o data,
                  ![r].state = IF data = <<>> /\ size > 0 THEN "done" ELSE "open"]
  /\ UNCHANGED <<tree, bimap, next, alive, said>>

Next ==
  \/ \E parent \in Known : \/ \E name \in Names : Lookup(parent, name)
                           \/ LookupPanics(parent)
  \/ \E s \in said : Getattr(s)
  \/ \E r \in Readers : Open(r) \/ Close(r) \/ ReaddirSome(r) \/ Read(r)

Spec == Init /\ [][Next]_vars

-----------------------------------------------------------------------------
(* Properties. *)

Kinds == {"file", "dir"}

\* Types; the tracker is one-to-one, and its counter is a number not yet used.
TypeOK ==
  /\ tree \in Trees
  /\ alive \in BOOLEAN
  /\ next \in Nat
  /\ \A p \in bimap : p[1] \in 1 .. next - 1
  /\ \A p, q \in bimap : p[1] = q[1] <=> p[2] = q[2]
  /\ \A s \in said : s.kind \in Kinds
  /\ \A r \in Readers : reader[r].state \in {"closed", "open", "done"}

\* All that programs are told, by lookup, getattr and the pages of listings, in
\* whatever order they ask, agrees: one path has one inode and one kind, no two
\* paths share an inode, and the server still knows the path by the inode.
InodesOneToOne ==
  /\ \A s, t \in said : /\ s.path = t.path <=> s.ino = t.ino
                        /\ s.ino = t.ino => s.kind = t.kind
  /\ \A s \in said : <<s.ino, s.path>> \in bimap

\* An inode, once created, stands for the same path as long as the volume is
\* mounted, whatever else is looked up or listed.
InodesKept == [][\A p \in bimap : p \in bimap']_vars

\* The names and kinds that a directory has, with the two that FUSE adds.
Shown(path) ==
  LET entries == Ask("list", path).entries
  IN <<[name |-> Here, kind |-> "dir"], [name |-> Up, kind |-> "dir"]>>
     \o [i \in DOMAIN entries |-> [name |-> entries[i].name, kind |-> entries[i].kind]]

\* The pages that a program gets of a directory, other programs' requests coming
\* in between, make up its listing: nothing twice, nothing left out, all of it
\* once an empty page is the answer of an undamaged device.
PagesMakeListing ==
  \A r \in Readers :
    reader[r].state # "closed" /\ reader[r].kind = "dir" =>
      LET got == reader[r].got
          shown == Shown(reader[r].path)
      IN /\ IsPrefix([i \in DOMAIN got |-> [name |-> got[i].name, kind |-> got[i].kind]],
                     shown)
         /\ reader[r].state = "done" /\ reader[r].whole => Len(got) = Len(shown)

\* The pieces that a program reads of a file are its bytes in order, and all of
\* them once it is told of the end.
PiecesMakeFile ==
  \A r \in Readers :
    reader[r].state # "closed" /\ reader[r].kind = "file" =>
      LET bytes == Content[Ask("stat", reader[r].path).entry.first]
      IN /\ IsPrefix(reader[r].got, bytes)
         /\ reader[r].state = "done" => reader[r].got = bytes

\* A moment that the console wrote into an entry is told with its date, hour and
\* second, and its minute less 32 from 32 on: never as another day, and never as
\* the first of January 2000 that stands for what is no time.
StampsTold ==
  \A s \in said, m \in Moments :
    s.path # <<Root>> =>
      LET entry == Ask("stat", s.path).entry
      IN entry.modified = Words(m) => Mtime(entry) = Kept(m)
=============================================================================
